---------------------------- MODULE MyhttpdProofs ----------------------------
(***************************************************************************)
(* Proofs about the whole of myhttpd, for any number of serving threads,   *)
(* connections and commands.                                               *)
(***************************************************************************)
EXTENDS Myhttpd, ServerProofs

------------------------------------------------------------------------------
(* The command process only raises SIGTERM: everything that is proved of   *)
(* the serving process by itself holds here too.                           *)

LEMMA ParentIsOutside ==
  ASSUME [MyhttpdNext]_myhttpdVars
  PROVE  [Next]_vars
<1>1. CASE ParentStep \/ ParentFails \/ \E c \in Commands : AcceptCommand(c)
  BY <1>1
     DEF ParentStep, ParentBoot, ReadCommand, ReadPages, ReadBytes, AnswerStats, AnswerShutdown,
         Kill, Wait, ParentFails, AcceptCommand, Next
<1>2. CASE ServerStep \/ ClientStep
  BY <1>2 DEF Next
<1>3. CASE UNCHANGED myhttpdVars
  BY <1>3 DEF myhttpdVars
<1>4. QED
  BY <1>1, <1>2, <1>3 DEF MyhttpdNext

(* Of all it may do to the process it shares memory with, the parent only  *)
(* sends SIGTERM: a run of myhttpd is, for the serving process, a run of   *)
(* module Server (myhttpd.c:96-135).                                       *)
THEOREM MyhttpdIsServer == MyhttpdSpec => Spec
<1>1. MyhttpdInit => Init
  BY DEF MyhttpdInit
<1>2. QED
  BY <1>1, ParentIsOutside, PTL DEF MyhttpdSpec, Spec

------------------------------------------------------------------------------
(* Types.                                                                  *)

ParentTypeOK ==
  /\ cpc \in ParentLabels
  /\ command \in Commands \cup {"none"}
  /\ read \in [pages : Nat \cup {Unread}, bytes : Nat \cup {Unread}]
  /\ reports \in Seq([pages : Nat, bytes : Nat])
  /\ commands \in 0 .. MaxCommands

(* A step of the parent, which may read what the serving process counts.   *)
LEMMA ParentTypes ==
  ASSUME TypeOK, ParentTypeOK, [MyhttpdNext]_myhttpdVars
  PROVE  ParentTypeOK'
<1> USE DEF ParentTypeOK, MoveParent, ParentLabels, Commands
<1>1. CASE ParentBoot \/ ReadCommand \/ AnswerShutdown \/ Kill \/ Wait \/ ParentFails
  BY <1>1 DEF ParentBoot, ReadCommand, AnswerShutdown, Kill, Wait, ParentFails
<1>2. CASE ReadPages \/ ReadBytes
  BY <1>2 DEF ReadPages, ReadBytes, TypeOK
<1>3. CASE AnswerStats
  <2>1. read \in [pages : Nat, bytes : Nat]
    BY <1>3 DEF AnswerStats
  <2>2. reports' \in Seq([pages : Nat, bytes : Nat])
    BY <1>3, <2>1, AppendProperties DEF AnswerStats
  <2>3. read' \in [pages : Nat \cup {Unread}, bytes : Nat \cup {Unread}]
    BY <1>3 DEF AnswerStats, NothingRead
  <2>4. QED
    BY <1>3, <2>2, <2>3 DEF AnswerStats
<1>4. ASSUME NEW c \in Commands, AcceptCommand(c) PROVE ParentTypeOK'
  <2>1. commands' \in 0 .. MaxCommands
    BY <1>4, MaxCommandsAssumption DEF AcceptCommand
  <2>2. QED
    BY <1>4, <2>1 DEF AcceptCommand
<1>5. CASE UNCHANGED parentVars
  BY <1>5 DEF parentVars
<1>6. QED
  BY <1>1, <1>2, <1>3, <1>4, <1>5 DEF MyhttpdNext, ParentStep, myhttpdVars

(* The variables of both processes keep their types (myhttpd.c, server.c,  *)
(* serverThread.c, queue.c).                                               *)
THEOREM MyhttpdTypeCorrect == MyhttpdSpec => []MyhttpdTypeOK
<1>1. MyhttpdInit => ParentTypeOK
  <2> SUFFICES ASSUME MyhttpdInit PROVE ParentTypeOK
    OBVIOUS
  <2>1. 0 \in 0 .. MaxCommands
    BY MaxCommandsAssumption
  <2>2. QED
    BY <2>1 DEF MyhttpdInit, ParentTypeOK, ParentLabels, NothingRead
<1>2. TypeOK /\ ParentTypeOK /\ [MyhttpdNext]_myhttpdVars => ParentTypeOK'
  BY ParentTypes
<1>3. TypeOK /\ ParentTypeOK => MyhttpdTypeOK
  BY DEF ParentTypeOK, MyhttpdTypeOK
<1>4. QED
  BY <1>1, <1>2, <1>3, MyhttpdIsServer, ServerTypeCorrect, PTL DEF MyhttpdSpec

------------------------------------------------------------------------------
(* The answers to STATS.                                                   *)

(* The counters never go down, though Queue_create sets them to zero: it   *)
(* comes before everything that counts.                                    *)
LEMMA CountersGrow ==
  ASSUME TypeOK, LockInv, [Next]_vars,
         mpc = "boot" => pagesServed = 0 /\ bytesReturned = 0
  PROVE  /\ pagesServed' >= pagesServed
         /\ bytesReturned' >= bytesReturned
         /\ mpc' = "boot" => pagesServed' = 0 /\ bytesReturned' = 0
<1> USE DEF statVars
<1>0. pagesServed \in Nat /\ bytesReturned \in Nat
  BY DEF TypeOK
<1>1. CASE Boot
  BY <1>0, <1>1 DEF Boot, MoveMain
<1>2. ASSUME NEW t \in Threads, Serve(t) \/ Bytes(t)
      PROVE  /\ pagesServed' >= pagesServed /\ bytesReturned' >= bytesReturned
             /\ mpc' # "boot"
  <2>1. tpc[t] # "unborn" /\ mpc' = mpc
    BY <1>2 DEF Serve, Bytes, Thread, MoveThread, mainVars
  <2>2. treply[t].bytes \in Nat
    BY EnvironmentAssumption DEF TypeOK, Replies, NoReply, NotFound, Page
  <2>3. QED
    BY <1>0, <1>2, <2>1, <2>2 DEF Serve, Bytes, LockInv, ThreadsUnborn
<1>3. CASE UNCHANGED statVars /\ (mpc' = "boot" => mpc = "boot")
  BY <1>0, <1>3
<1>4. CASE MainStep /\ ~Boot
  <2>1. UNCHANGED statVars /\ mpc' # "boot"
    BY <1>4 DEF MainStep, InstallHandler, Accept, MainLock, MainWait, MainPush, MainSignal, MoveMain
  <2>2. QED
    BY <1>3, <2>1
<1>5. ASSUME NEW t \in Threads,
             \/ (ThreadStep(t) /\ ~Serve(t) /\ ~Bytes(t)) \/ ReplyFails(t)
             \/ Cancelled(t) \/ CancelledInWait(t)
      PROVE  UNCHANGED statVars /\ (mpc' = "boot" => mpc = "boot")
  BY <1>5
     DEF ThreadStep, ThreadLock, ThreadWait, ThreadPop, ThreadSignal, SignalNonfull, RecvPage,
         RecvNotFound, RecvFails, Reply, ReplyFails, Close, Cancelled, CancelledInWait, Exit,
         mainVars
<1>6. CASE BootFails \/ AcceptFails \/ SpuriousWake \/ RaiseSigterm \/ Quiescent
  <2>1. UNCHANGED statVars /\ (mpc' = "boot" => mpc = "boot")
    BY <1>6
       DEF BootFails, AcceptFails, SpuriousWake, MainSpuriousWake, ThreadSpuriousWake,
           RaiseSigterm, Quiescent, vars, Exit, MoveMain, mainVars
  <2>2. QED
    BY <1>3, <2>1
<1>7. CASE HandlerStep \/ ClientStep
  <2>1. UNCHANGED <<pagesServed, bytesReturned, mpc>>
    BY <1>7
       DEF HandlerStep, DefaultSigterm, EnterHandler, HandlerLock, HandlerDestroy, HandlerCancel,
           HandlerExit, ClientStep, SendStep, Connect, Send, Exit, mainVars
  <2>2. QED
    BY <1>0, <2>1
<1>8. CASE UNCHANGED vars
  BY <1>3, <1>8 DEF vars, mainVars
<1>9. QED
  BY <1>1, <1>2, <1>3, <1>4, <1>5, <1>6, <1>7, <1>8 DEF Next, ServerStep

(* A step of the serving process does not spoil what has been read.        *)
LEMMA QuietReports ==
  ASSUME ParentTypeOK, ReportInv, UNCHANGED <<read, reports>>,
         {pagesServed, bytesReturned} \subseteq Nat, {pagesServed', bytesReturned'} \subseteq Nat,
         pagesServed' >= pagesServed, bytesReturned' >= bytesReturned,
         mpc' = "boot" => pagesServed' = 0 /\ bytesReturned' = 0
  PROVE  ReportInv'
<1>1. /\ read.pages \in Nat \cup {Unread} /\ read.bytes \in Nat \cup {Unread}
      /\ \A i \in 1 .. Len(reports) : reports[i].pages \in Nat /\ reports[i].bytes \in Nat
  <2>1. read.pages \in Nat \cup {Unread} /\ read.bytes \in Nat \cup {Unread}
    BY DEF ParentTypeOK
  <2>2. reports \in Seq([pages : Nat, bytes : Nat])
    BY DEF ParentTypeOK
  <2>3. \A i \in 1 .. Len(reports) : reports[i] \in [pages : Nat, bytes : Nat]
    BY <2>2, ElementOfSeq
  <2>4. QED
    BY <2>1, <2>3
<1>2. read.pages <= pagesServed' /\ read.bytes <= bytesReturned'
  BY <1>1 DEF ReportInv, Unread
<1>3. \A i \in 1 .. Len(reports) :
        reports[i].pages <= pagesServed' /\ reports[i].bytes <= bytesReturned'
  BY <1>1 DEF ReportInv
<1>4. QED
  BY <1>2, <1>3 DEF ReportInv, ReportsGrow

(* Either number may be read first, and the serving process may count in   *)
(* between.                                                                *)
LEMMA ReadReports ==
  ASSUME TypeOK, ParentTypeOK, ReportInv, ReadPages \/ ReadBytes
  PROVE  ReportInv'
<1>1. /\ UNCHANGED <<reports, mpc, pagesServed, bytesReturned>>
      /\ pagesServed \in Nat /\ bytesReturned \in Nat
      /\ read \in [pages : Nat \cup {Unread}, bytes : Nat \cup {Unread}]
  BY DEF ReadPages, ReadBytes, vars, statVars, mainVars, TypeOK, ParentTypeOK
<1>2. CASE ReadPages
  <2>1. read'.pages = pagesServed /\ read'.bytes = read.bytes
    BY <1>1, <1>2 DEF ReadPages
  <2>2. QED
    BY <1>1, <2>1 DEF ReportInv, ReportsGrow
<1>3. CASE ReadBytes
  <2>1. read'.bytes = bytesReturned /\ read'.pages = read.pages
    BY <1>1, <1>3 DEF ReadBytes
  <2>2. QED
    BY <1>1, <2>1 DEF ReportInv, ReportsGrow
<1>4. QED
  BY <1>2, <1>3

(* An answer is at least every answer before it.                           *)
LEMMA AnswerReports ==
  ASSUME TypeOK, ParentTypeOK, ReportInv, AnswerStats
  PROVE  ReportInv'
<1> DEFINE n == Len(reports)
<1>1. /\ UNCHANGED <<mpc, pagesServed, bytesReturned>>
      /\ pagesServed \in Nat /\ bytesReturned \in Nat
      /\ read \in [pages : Nat, bytes : Nat]
      /\ reports' = Append(reports, read)
      /\ reports \in Seq([pages : Nat, bytes : Nat])
      /\ read' = NothingRead
  BY DEF AnswerStats, vars, statVars, mainVars, TypeOK, ParentTypeOK
<1>2. /\ n \in Nat /\ Len(reports') = n + 1
      /\ \A k \in 1 .. n : reports'[k] = reports[k]
      /\ reports'[n + 1] = read
      /\ \A k \in 1 .. n + 1 : k \in 1 .. n \/ k = n + 1
  BY <1>1, AppendProperties
<1>3. read.pages # Unread /\ read.bytes # Unread
  BY <1>1 DEF Unread
<1>4. \A k \in 1 .. n : reports[k].pages <= read.pages /\ reports[k].bytes <= read.bytes
  BY <1>3 DEF ReportInv
<1>5. ReportsGrow'
  <2> SUFFICES ASSUME NEW k \in 1 .. n + 1, NEW l \in 1 .. n + 1, k < l
               PROVE  /\ reports'[k].pages <= reports'[l].pages
                      /\ reports'[k].bytes <= reports'[l].bytes
    BY <1>2 DEF ReportsGrow
  <2>1. k \in 1 .. n
    BY <1>2
  <2>2. CASE l \in 1 .. n
    BY <1>2, <2>1, <2>2 DEF ReportInv, ReportsGrow
  <2>3. CASE l = n + 1
    BY <1>2, <1>4, <2>1, <2>3
  <2>4. QED
    BY <1>2, <2>2, <2>3
<1>6. read.pages <= pagesServed /\ read.bytes <= bytesReturned
  BY DEF ReportInv
<1>7. \A k \in 1 .. n + 1 :
        reports'[k].pages <= pagesServed /\ reports'[k].bytes <= bytesReturned
  BY <1>2, <1>6 DEF ReportInv
<1>8. read'.pages = Unread /\ read'.bytes = Unread
  BY <1>1 DEF NothingRead
<1>9. Unread <= pagesServed /\ Unread <= bytesReturned
  BY <1>1 DEF Unread
<1>10. QED
  BY <1>1, <1>2, <1>5, <1>7, <1>8, <1>9 DEF ReportInv

LEMMA MyhttpdReportInv == MyhttpdSpec => []ReportInv
<1>1. MyhttpdInit => ReportInv
  BY DEF MyhttpdInit, Init, NothingRead, Unread, ReportInv, ReportsGrow
<1>2. TypeOK /\ TypeOK' /\ LockInv /\ ParentTypeOK /\ ReportInv /\ [MyhttpdNext]_myhttpdVars
        => ReportInv'
  <2> SUFFICES ASSUME TypeOK, TypeOK', LockInv, ParentTypeOK, ReportInv,
                      [MyhttpdNext]_myhttpdVars
               PROVE  ReportInv'
    OBVIOUS
  <2>1. /\ pagesServed' >= pagesServed /\ bytesReturned' >= bytesReturned
        /\ mpc' = "boot" => pagesServed' = 0 /\ bytesReturned' = 0
    BY ParentIsOutside, CountersGrow DEF ReportInv
  <2>2. {pagesServed, bytesReturned} \subseteq Nat /\ {pagesServed', bytesReturned'} \subseteq Nat
    BY DEF TypeOK
  <2>3. CASE ReadPages \/ ReadBytes \/ AnswerStats
    BY <2>3, ReadReports, AnswerReports
  <2>4. CASE ~(ReadPages \/ ReadBytes \/ AnswerStats)
    <3>1. UNCHANGED <<read, reports>>
      BY <2>4
         DEF MyhttpdNext, ParentStep, ParentBoot, ReadCommand, AnswerShutdown, Kill, Wait,
             ParentFails, AcceptCommand, parentVars, myhttpdVars
    <3>2. QED
      BY <2>1, <2>2, <3>1, QuietReports
  <2>5. QED
    BY <2>3, <2>4
<1>3. MyhttpdTypeOK => TypeOK /\ ParentTypeOK
  BY DEF MyhttpdTypeOK, ParentTypeOK
<1>4. QED
  BY <1>1, <1>2, <1>3, MyhttpdIsServer, MyhttpdTypeCorrect, ServerLockInv, PTL DEF MyhttpdSpec

(* Each answer to STATS is at least the ones before it, in both numbers,   *)
(* with any number of threads that count while the parent reads without    *)
(* the mutex, one number after the other (myhttpd.c:113-118,               *)
(* queue.c:9-31).                                                          *)
THEOREM MyhttpdReportsGrow == MyhttpdSpec => []ReportsGrow
<1>1. ReportInv => ReportsGrow
  BY DEF ReportInv
<1>2. QED
  BY <1>1, MyhttpdReportInv, PTL

------------------------------------------------------------------------------
(* The order of a SHUTDOWN.                                                *)

(* The steps of the serving process: only SIGTERM starts the handler, only *)
(* the handler ends the process with success.                              *)
LEMMA ServerOrder ==
  ASSUME OrderInv, ServerStep \/ ClientStep \/ UNCHANGED vars
  PROVE  /\ status # "running" => status' # "running"
         /\ sigterm' # "none" => sigterm # "none"
         /\ hpc' # "none" => sigterm' # "none"
         /\ status' = "success" => hpc' = "cancel" /\ cancelled' = Threads
<1> DEFINE Goal == /\ status # "running" => status' # "running"
                   /\ sigterm' # "none" => sigterm # "none"
                   /\ hpc' # "none" => sigterm' # "none"
                   /\ status' = "success" => hpc' = "cancel" /\ cancelled' = Threads
<1> USE DEF OrderInv
<1>1. CASE UNCHANGED <<status, signalVars>>
  BY <1>1 DEF signalVars
<1>2. ASSUME NEW how \in {"failure", "killed"}, Exit(how) PROVE Goal
  BY <1>2 DEF Exit, signalVars
<1>3. CASE HandlerStep
  <2>1. CASE DefaultSigterm
    BY <1>2, <2>1 DEF DefaultSigterm
  <2>2. CASE EnterHandler \/ HandlerLock
    BY <2>2 DEF EnterHandler, HandlerLock, MoveHandler, worldVars
  <2>3. CASE HandlerDestroy \/ \E t \in Threads : HandlerCancel(t)
    BY <2>3 DEF HandlerDestroy, HandlerCancel, MoveHandler, worldVars
  <2>4. CASE HandlerExit
    BY <2>4 DEF HandlerExit, Exit, signalVars
  <2>5. QED
    BY <1>3, <2>1, <2>2, <2>3, <2>4 DEF HandlerStep
<1>4. CASE MainStep
  <2>1. UNCHANGED <<status, installed, sigterm, hpc, cancelled>>
        \/ (InstallHandler /\ UNCHANGED <<status, sigterm, hpc, cancelled>>)
    BY <1>4
       DEF MainStep, Boot, InstallHandler, Accept, MainLock, MainWait, MainPush, MainSignal,
           signalVars, worldVars
  <2>2. QED
    BY <2>1
<1>5. ASSUME NEW t \in Threads,
             ThreadStep(t) \/ ReplyFails(t) \/ Cancelled(t) \/ CancelledInWait(t)
      PROVE  Goal
  <2>1. UNCHANGED <<status, signalVars>> \/ \E how \in {"failure", "killed"} : Exit(how)
    BY <1>5
       DEF ThreadStep, ThreadLock, ThreadWait, ThreadPop, ThreadSignal, RecvPage,
           RecvNotFound, RecvFails, Serve, Bytes, Reply, ReplyFails, Close, Cancelled,
           CancelledInWait, worldVars
  <2>2. QED
    BY <1>1, <1>2, <2>1
<1>6. CASE BootFails \/ AcceptFails
  BY <1>2, <1>6 DEF BootFails, AcceptFails
<1>7. CASE SpuriousWake \/ ClientStep \/ UNCHANGED vars
  BY <1>1, <1>7
     DEF SpuriousWake, MainSpuriousWake, ThreadSpuriousWake, ClientStep, SendStep, Connect, Send,
         vars, worldVars
<1>8. QED
  BY <1>3, <1>4, <1>5, <1>6, <1>7 DEF ServerStep

LEMMA MyhttpdOrderInv == MyhttpdSpec => []OrderInv
<1>1. MyhttpdInit => OrderInv
  BY DEF MyhttpdInit, Init, OrderInv
<1>2. OrderInv /\ [MyhttpdNext]_myhttpdVars => OrderInv'
  <2> SUFFICES ASSUME OrderInv, [MyhttpdNext]_myhttpdVars PROVE OrderInv'
    OBVIOUS
  <2>1. CASE Kill
    <3>1. CASE RaiseSigterm
      BY <2>1, <3>1 DEF Kill, MoveParent, RaiseSigterm, OrderInv, worldVars
    <3>2. CASE UNCHANGED vars
      BY <2>1, <3>2 DEF Kill, MoveParent, vars, signalVars, worldVars, OrderInv
    <3>3. QED
      BY <2>1, <3>1, <3>2 DEF Kill
  <2>2. CASE ~Kill
    <3>1. ServerStep \/ ClientStep \/ UNCHANGED vars
      BY <2>2
         DEF MyhttpdNext, ParentStep, ParentBoot, ReadCommand, ReadPages, ReadBytes,
             AnswerStats, AnswerShutdown, Wait, ParentFails, AcceptCommand, myhttpdVars
    <3>2. /\ cpc' = "done" => cpc = "done" \/ (status # "running" /\ status' = status)
          /\ cpc \in {"wait", "done"} => cpc' \in {"wait", "done"}
      BY <2>2
         DEF MyhttpdNext, ParentStep, ParentBoot, ReadCommand, ReadPages, ReadBytes,
             AnswerStats, AnswerShutdown, Wait, ParentFails, AcceptCommand, MoveParent,
             parentVars, myhttpdVars, vars, worldVars
    <3>3. QED
      BY <3>1, <3>2, ServerOrder DEF OrderInv
  <2>3. QED
    BY <2>1, <2>2
<1>3. QED
  BY <1>1, <1>2, PTL DEF MyhttpdSpec

(* The parent ends after the serving process, and that ends with success   *)
(* only when the parent has sent SIGTERM and every serving thread has been *)
(* cancelled, for any number of threads and whatever fails                 *)
(* (myhttpd.c:119-135, server.c:34-63).                                    *)
THEOREM MyhttpdShutdownOrder == MyhttpdSpec => []ShutdownOrder
<1>1. OrderInv => ShutdownOrder
  BY DEF OrderInv, ShutdownOrder
<1>2. QED
  BY <1>1, MyhttpdOrderInv, PTL
==============================================================================
