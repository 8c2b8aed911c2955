------------------------------- MODULE Server -------------------------------
(***************************************************************************)
(* The serving process of myhttpd: serverProc and the SIGTERM handler of   *)
(* server.c, and the serving threads of serverThread.c.                    *)
(*                                                                         *)
(* The main thread accepts connections and pushes their sockets on the     *)
(* ring buffer of module Queue; the serving threads pop them and answer    *)
(* one request on each.  A mutex (queueLock) guards the queue and the      *)
(* statistics; two condition variables (cond_nonempty, cond_nonfull) tell  *)
(* the threads of sockets and the main thread of room.  An action is what  *)
(* one thread does between two points at which another thread can act on   *)
(* what it touches.                                                        *)
(*                                                                         *)
(* The clients and the kernel's side of the connections are the            *)
(* environment: they are modelled as far as server.c and serverThread.c    *)
(* can tell them apart.                                                    *)
(***************************************************************************)
EXTENDS Queue, FiniteSets

CONSTANTS
  Threads,    \* the serving threads
  Main,       \* the main thread of the serving process
  Nobody,     \* the owner of a free mutex
  Silent,     \* connections on which the client never sends a whole request
  PageSizes   \* the sizes of the files under root_dir

ASSUME ThreadsAssumption ==
  /\ IsFiniteSet(Threads)
  /\ Main \notin Threads
  /\ Nobody \notin Threads \cup {Main}

\* Queue_create(socketQueue, num_of_threads)
ASSUME SizeIsNumOfThreads == Size = Cardinality(Threads)

ASSUME EnvironmentAssumption == Silent \subseteq Sockets /\ PageSizes \subseteq Nat

VARIABLES
  lock,           \* the owner of queueLock
  destroyed,      \* has Queue_destroy freed the buffer?
  pagesServed,    \* the statistics of the Queue structure
  bytesReturned,
  mpc,            \* where the main thread is
  msock,          \* its newsock
  tpc,            \* where each serving thread is
  tsock,          \* its newsock
  treply,         \* the status and message it has built
  installed,      \* is sig_handler installed for SIGTERM?
  sigterm,        \* the SIGTERM of the command process
  hpc,            \* where sig_handler is; it runs on the main thread
  cancelled,      \* the threads for which pthread_cancel has been called
  status,         \* the serving process: running, or how it ended
  backlog,        \* connections that wait for accept, oldest first
  conn,           \* the state of each connection
  request,        \* what its client has sent
  answer          \* what its client has been answered

statVars == <<destroyed, pagesServed, bytesReturned>>
mainVars == <<mpc, msock>>
threadVars == <<tpc, tsock, treply>>
signalVars == <<installed, sigterm, hpc, cancelled>>
worldVars == <<status, backlog, conn, request, answer>>

vars == <<queueVars, lock, statVars, mainVars, threadVars, signalVars, worldVars>>

NoReply == [code |-> 0, bytes |-> 0]
NotFound == [code |-> 404, bytes |-> 0]     \* stands for 403 as well
Page(n) == [code |-> 200, bytes |-> n]
Replies == {NotFound} \cup {Page(n) : n \in PageSizes}

MainLabels == {"boot", "sigset", "accept", "lock", "check", "waiting", "signal"}

ThreadLabels == {"unborn", "lock", "check", "waiting", "signal", "recv", "serve", "bytes",
                 "reply", "close", "died", "diedholding"}

TypeOK ==
  /\ QueueTypeOK
  /\ lock \in Threads \cup {Main, Nobody}
  /\ destroyed \in BOOLEAN
  /\ pagesServed \in Nat
  /\ bytesReturned \in Nat
  /\ mpc \in MainLabels
  /\ msock \in Sockets \cup {NoSock}
  /\ tpc \in [Threads -> ThreadLabels]
  /\ tsock \in [Threads -> Sockets \cup {NoSock}]
  /\ treply \in [Threads -> Replies \cup {NoReply}]
  /\ installed \in BOOLEAN
  /\ sigterm \in {"none", "pending", "delivered"}
  /\ hpc \in {"none", "lock", "destroy", "cancel"}
  /\ cancelled \subseteq Threads
  /\ status \in {"running", "success", "failure", "killed"}
  /\ backlog \in Seq(Sockets)
  /\ conn \in [Sockets -> {"new", "backlog", "open", "closed", "refused"}]
  /\ request \in [Sockets -> {"none", "get", "short"}]
  /\ answer \in [Sockets -> Replies \cup {NoReply}]

Init ==
  /\ QueueInit
  /\ lock = Nobody
  /\ destroyed = FALSE /\ pagesServed = 0 /\ bytesReturned = 0
  /\ mpc = "boot" /\ msock = NoSock
  /\ tpc = [t \in Threads |-> "unborn"]
  /\ tsock = [t \in Threads |-> NoSock]
  /\ treply = [t \in Threads |-> NoReply]
  /\ installed = FALSE /\ sigterm = "none" /\ hpc = "none" /\ cancelled = {}
  /\ status = "running"
  /\ backlog = <<>>
  /\ conn = [s \in Sockets |-> "new"]
  /\ request = [s \in Sockets |-> "none"]
  /\ answer = [s \in Sockets |-> NoReply]

------------------------------------------------------------------------------
(* The pthread and process primitives.                                     *)

Acquire(p) == lock = Nobody /\ lock' = p
Release == lock' = Nobody

MoveThread(t, from, to) == tpc[t] = from /\ tpc' = [tpc EXCEPT ![t] = to]

Waiters == {t \in Threads : tpc[t] = "waiting"}

\* pthread_cond_signal(&cond_nonempty) wakes one of the threads that wait, if
\* any does; the end of pthread_cond_wait is to take the mutex again.
SignalNonempty ==
  \/ Waiters = {} /\ UNCHANGED tpc
  \/ \E t \in Waiters : MoveThread(t, "waiting", "lock")

\* pthread_cond_signal(&cond_nonfull): only the main thread waits for room.
SignalNonfull == mpc' = IF mpc = "waiting" THEN "lock" ELSE mpc

\* The process ends: the kernel closes its sockets.
Exit(how) ==
  /\ status = "running" /\ status' = how
  /\ backlog' = <<>>
  /\ conn' = [s \in Sockets |-> IF conn[s] = "open" THEN "closed"
                               ELSE IF conn[s] = "backlog" THEN "refused"
                               ELSE conn[s]]
  /\ UNCHANGED <<queueVars, lock, statVars, mainVars, threadVars, signalVars, request, answer>>

------------------------------------------------------------------------------
(* The main thread: serverProc.  While sig_handler runs on it (hpc) its    *)
(* own code stands still.                                                  *)

MoveMain(from, to) == status = "running" /\ hpc = "none" /\ mpc = from /\ mpc' = to

\* Queue_create, socket, bind, listen, pthread_create for every thread.
Boot ==
  /\ MoveMain("boot", "sigset")
  /\ Queue_create
  /\ tpc' = [t \in Threads |-> "lock"]
  /\ pagesServed' = 0 /\ bytesReturned' = 0
  /\ UNCHANGED <<lock, destroyed, msock, tsock, treply, signalVars, worldVars>>

\* socket, bind or listen fails.
BootFails == mpc = "boot" /\ Exit("failure")

InstallHandler ==
  /\ MoveMain("sigset", "accept")
  /\ installed' = TRUE
  /\ UNCHANGED <<queueVars, lock, statVars, msock, threadVars, sigterm, hpc, cancelled,
                 worldVars>>

Accept ==
  /\ MoveMain("accept", "lock")
  /\ backlog # <<>>
  /\ msock' = Head(backlog)
  /\ backlog' = Tail(backlog)
  /\ conn' = [conn EXCEPT ![Head(backlog)] = "open"]
  /\ UNCHANGED <<queueVars, lock, statVars, threadVars, signalVars, status, request, answer>>

AcceptFails == hpc = "none" /\ mpc = "accept" /\ Exit("failure")

MainLock ==
  /\ MoveMain("lock", "check")
  /\ Acquire(Main)
  /\ UNCHANGED <<queueVars, statVars, msock, threadVars, signalVars, worldVars>>

\* The queue is full: wait for cond_nonfull, which releases the mutex.
MainWait ==
  /\ MoveMain("check", "waiting")
  /\ Queue_full
  /\ Release
  /\ UNCHANGED <<queueVars, statVars, msock, threadVars, signalVars, worldVars>>

\* Mutant of MainPush: a full queue does not stop the push.
MainPushUnchecked ==
  /\ MoveMain("check", "signal")
  /\ Queue_push(msock) /\ msock' = NoSock
  /\ Release
  /\ UNCHANGED <<statVars, threadVars, signalVars, worldVars>>

\* The push, up to the unlock.
MainPush ==
  /\ MoveMain("check", "signal")
  /\ ~Queue_full
  /\ Queue_push(msock) /\ msock' = NoSock
  /\ Release
  /\ UNCHANGED <<statVars, threadVars, signalVars, worldVars>>

\* Mutant of MainSignal: cond_nonempty is not signalled.
MainNoSignal ==
  /\ MoveMain("signal", "sigset")
  /\ UNCHANGED <<queueVars, lock, statVars, msock, threadVars, signalVars, worldVars>>

MainSignal ==
  /\ MoveMain("signal", "sigset")
  /\ SignalNonempty
  /\ UNCHANGED <<queueVars, lock, statVars, msock, tsock, treply, signalVars, worldVars>>

\* pthread_cond_wait may return without a signal; the loop tests again.
MainSpuriousWake ==
  /\ MoveMain("waiting", "lock")
  /\ UNCHANGED <<queueVars, lock, statVars, msock, threadVars, signalVars, worldVars>>

MainStep ==
  Boot \/ InstallHandler \/ Accept \/ MainLock \/ MainWait \/ MainPush \/ MainSignal

------------------------------------------------------------------------------
(* The serving threads: serverThread and getRequest.                       *)

Thread(t, from, to) == status = "running" /\ MoveThread(t, from, to)

\* Also the end of a pthread_cond_wait: a woken thread takes the mutex again.
ThreadLock(t) ==
  /\ Thread(t, "lock", "check")
  /\ Acquire(t)
  /\ UNCHANGED <<queueVars, statVars, mainVars, tsock, treply, signalVars, worldVars>>

ThreadWait(t) ==
  /\ Thread(t, "check", "waiting")
  /\ Queue_empty
  /\ Release
  /\ UNCHANGED <<queueVars, statVars, mainVars, tsock, treply, signalVars, worldVars>>

\* What a read of the slot returns: once the buffer has been freed, what was
\* there or anything else (NoSock, no descriptor of a connection).
Popped == IF destroyed THEN {Queue_front, NoSock} ELSE {Queue_front}

\* The pop, up to the unlock.
ThreadPop(t) ==
  /\ Thread(t, "check", "signal")
  /\ ~Queue_empty
  /\ Queue_pop
  /\ \E s \in Popped : tsock' = [tsock EXCEPT ![t] = s]
  /\ Release
  /\ UNCHANGED <<statVars, mainVars, treply, signalVars, worldVars>>

\* Mutant of ThreadSignal: cond_nonfull is not signalled.
ThreadNoSignal(t) ==
  /\ Thread(t, "signal", "recv")
  /\ UNCHANGED <<queueVars, lock, statVars, mainVars, tsock, treply, signalVars, worldVars>>

ThreadSignal(t) ==
  /\ Thread(t, "signal", "recv")
  /\ SignalNonfull
  /\ UNCHANGED <<queueVars, lock, statVars, msock, tsock, treply, signalVars, worldVars>>

\* recv_get returns once the six lines of the request have come; on a
\* connection that sends no more, and on a bad descriptor, its read loop
\* never ends.
Received(t) == t \notin cancelled /\ tsock[t] \in Sockets /\ request[tsock[t]] = "get"

\* The file is there and can be read: its size goes into the statistics
\* before it is sent.
RecvPage(t) ==
  /\ Thread(t, "recv", "serve")
  /\ Received(t)
  /\ \E n \in PageSizes : treply' = [treply EXCEPT ![t] = Page(n)]
  /\ UNCHANGED <<queueVars, lock, statVars, mainVars, tsock, signalVars, worldVars>>

\* Mutant of RecvNotFound: an answer without a page is counted too.
RecvNotFoundCounted(t) ==
  /\ Thread(t, "recv", "serve")
  /\ Received(t)
  /\ treply' = [treply EXCEPT ![t] = NotFound]
  /\ UNCHANGED <<queueVars, lock, statVars, mainVars, tsock, signalVars, worldVars>>

RecvNotFound(t) ==
  /\ Thread(t, "recv", "reply")
  /\ Received(t)
  /\ treply' = [treply EXCEPT ![t] = NotFound]
  /\ UNCHANGED <<queueVars, lock, statVars, mainVars, tsock, signalVars, worldVars>>

\* A first line that is too short ends the whole process.
RecvFails(t) ==
  /\ tpc[t] = "recv"
  /\ t \notin cancelled
  /\ tsock[t] \in Sockets /\ request[tsock[t]] = "short"
  /\ Exit("failure")

\* The lock and Queue_serve,
Serve(t) ==
  /\ Thread(t, "serve", "bytes")
  /\ Acquire(t)
  /\ pagesServed' = pagesServed + 1
  /\ UNCHANGED <<queueVars, destroyed, bytesReturned, mainVars, tsock, treply, signalVars,
                 worldVars>>

\* Mutant of Bytes: the mutex stays locked.
BytesNoUnlock(t) ==
  /\ Thread(t, "bytes", "reply")
  /\ bytesReturned' = bytesReturned + treply[t].bytes
  /\ UNCHANGED <<queueVars, lock, destroyed, pagesServed, mainVars, tsock, treply, signalVars,
                 worldVars>>

\* Queue_bytes and the unlock: the parent may look in between.
Bytes(t) ==
  /\ Thread(t, "bytes", "reply")
  /\ bytesReturned' = bytesReturned + treply[t].bytes
  /\ Release
  /\ UNCHANGED <<queueVars, destroyed, pagesServed, mainVars, tsock, treply, signalVars,
                 worldVars>>

\* The header and the body are written.
Reply(t) ==
  /\ Thread(t, "reply", "close")
  /\ t \notin cancelled
  /\ answer' = [answer EXCEPT ![tsock[t]] = treply[t]]
  /\ treply' = [treply EXCEPT ![t] = NoReply]
  /\ UNCHANGED <<queueVars, lock, statVars, mainVars, tsock, signalVars, status, backlog, conn,
                 request>>

\* A write fails, because the client has gone: exit, or death by SIGPIPE.
ReplyFails(t) ==
  /\ tpc[t] = "reply"
  /\ t \notin cancelled
  /\ \E how \in {"failure", "killed"} : Exit(how)

Close(t) ==
  /\ Thread(t, "close", "lock")
  /\ t \notin cancelled
  /\ conn' = [conn EXCEPT ![tsock[t]] = "closed"]
  /\ tsock' = [tsock EXCEPT ![t] = NoSock]
  /\ UNCHANGED <<queueVars, lock, statVars, mainVars, treply, signalVars, status, backlog,
                 request, answer>>

ThreadSpuriousWake(t) ==
  /\ Thread(t, "waiting", "lock")
  /\ UNCHANGED <<queueVars, lock, statVars, mainVars, tsock, treply, signalVars, worldVars>>

\* Cancellation is deferred: it takes effect in read, write, sleep and close,
\* beyond which a cancelled thread does not get,
Cancelled(t) ==
  /\ t \in cancelled
  /\ \E at \in {"recv", "reply", "close"} : Thread(t, at, "died")
  /\ UNCHANGED <<queueVars, lock, statVars, mainVars, tsock, treply, signalVars, worldVars>>

\* and in pthread_cond_wait, which takes the mutex before the thread ends;
\* no cleanup handler releases it.
CancelledInWait(t) ==
  /\ t \in cancelled
  /\ Thread(t, "waiting", "diedholding")
  /\ Acquire(t)
  /\ UNCHANGED <<queueVars, statVars, mainVars, tsock, treply, signalVars, worldVars>>

ThreadStep(t) ==
  \/ ThreadLock(t) \/ ThreadWait(t) \/ ThreadPop(t) \/ ThreadSignal(t)
  \/ RecvPage(t) \/ RecvNotFound(t) \/ RecvFails(t)
  \/ Serve(t) \/ Bytes(t) \/ Reply(t) \/ Close(t)

------------------------------------------------------------------------------
(* SIGTERM, which the command process sends on SHUTDOWN.  The kernel gives *)
(* a signal of the process to its main thread when that does not block it. *)

RaiseSigterm ==
  /\ sigterm = "none"
  /\ sigterm' = "pending"
  /\ UNCHANGED <<queueVars, lock, statVars, mainVars, threadVars, installed, hpc, cancelled,
                 worldVars>>

\* Before signal() has been called the default action ends the process.
DefaultSigterm == sigterm = "pending" /\ ~installed /\ Exit("killed")

MoveHandler(from, to) == status = "running" /\ hpc = from /\ hpc' = to

\* From here on the main thread runs sig_handler, which does not return.
EnterHandler ==
  /\ MoveHandler("none", "lock")
  /\ installed
  /\ sigterm = "pending" /\ sigterm' = "delivered"
  /\ UNCHANGED <<queueVars, lock, statVars, mainVars, threadVars, installed, cancelled,
                 worldVars>>

\* The mutex is not recursive: if the main thread holds it, this never ends.
HandlerLock ==
  /\ MoveHandler("lock", "destroy")
  /\ Acquire(Main)
  /\ UNCHANGED <<queueVars, statVars, mainVars, threadVars, installed, sigterm, cancelled,
                 worldVars>>

\* Queue_destroy, up to the unlock.
HandlerDestroy ==
  /\ MoveHandler("destroy", "cancel")
  /\ destroyed' = TRUE
  /\ Release
  /\ UNCHANGED <<queueVars, pagesServed, bytesReturned, mainVars, threadVars, installed,
                 sigterm, cancelled, worldVars>>

\* One turn of the loop over the threads, whose order in the array is open.
HandlerCancel(t) ==
  /\ MoveHandler("cancel", "cancel")
  /\ t \notin cancelled
  /\ cancelled' = cancelled \cup {t}
  /\ UNCHANGED <<queueVars, lock, statVars, mainVars, threadVars, installed, sigterm, worldVars>>

HandlerExit == hpc = "cancel" /\ cancelled = Threads /\ Exit("success")

HandlerStep ==
  \/ DefaultSigterm \/ EnterHandler \/ HandlerLock \/ HandlerDestroy
  \/ (\E t \in Threads : HandlerCancel(t)) \/ HandlerExit

------------------------------------------------------------------------------
(* The clients.                                                            *)

Connect(s) ==
  /\ status = "running" /\ mpc # "boot"
  /\ conn[s] = "new" /\ conn' = [conn EXCEPT ![s] = "backlog"]
  /\ backlog' = Append(backlog, s)
  /\ UNCHANGED <<queueVars, lock, statVars, mainVars, threadVars, signalVars, status, request,
                 answer>>

\* A whole request, or one whose first line is too short.
Send(s, kind) ==
  /\ s \notin Silent
  /\ conn[s] \in {"backlog", "open"}
  /\ request[s] = "none" /\ request' = [request EXCEPT ![s] = kind]
  /\ UNCHANGED <<queueVars, lock, statVars, mainVars, threadVars, signalVars, status, backlog,
                 conn, answer>>

SendStep(s) == \E kind \in {"get", "short"} : Send(s, kind)

------------------------------------------------------------------------------
\* The process has ended, or every client has had its turn and the process
\* waits for another: what follows is not modelled.
Quiescent ==
  /\ \/ status # "running"
     \/ mpc = "accept" /\ backlog = <<>> /\ \A s \in Sockets : conn[s] # "new"
  /\ UNCHANGED vars

SpuriousWake == MainSpuriousWake \/ \E t \in Threads : ThreadSpuriousWake(t)

ServerStep ==
  \/ MainStep \/ BootFails \/ AcceptFails
  \/ \E t \in Threads :
       ThreadStep(t) \/ ReplyFails(t) \/ Cancelled(t) \/ CancelledInWait(t)
  \/ SpuriousWake
  \/ HandlerStep

ClientStep == \E s \in Sockets : Connect(s) \/ SendStep(s)

Next == ServerStep \/ ClientStep \/ RaiseSigterm \/ Quiescent

Spec == Init /\ [][Next]_vars

(* The kernel runs every thread that can run, delivers a signal, and gives *)
(* the mutex to a thread that keeps asking while it stays free; a client   *)
(* that is not silent sends its request.  Spurious wakeups do not go on    *)
(* for ever.  Nothing is assumed of failures, nor that a client comes.     *)
Fairness ==
  /\ <>[][~SpuriousWake]_vars
  /\ WF_vars(MainStep)
  /\ \A t \in Threads : WF_vars(ThreadStep(t))
  /\ WF_vars(HandlerStep)
  /\ \A s \in Sockets \ Silent : WF_vars(SendStep(s))

FairSpec == Spec /\ Fairness

------------------------------------------------------------------------------
(* Properties.                                                             *)

\* Where a thread is between its lock and its unlock of queueLock.
Inside == {"check", "bytes", "diedholding"}

MainHolds == mpc = "check"
HandlerHolds == hpc = "destroy"

(* The mutex is held by exactly the thread whose code is between a lock    *)
(* and the matching unlock, and the handler gets past its own lock only    *)
(* when the main thread it interrupted was outside the critical section    *)
(* (server.c:38-48, 111-126, serverThread.c:100-109, 151-168).             *)
LockDiscipline ==
  /\ \A t \in Threads : lock = t <=> tpc[t] \in Inside
  /\ lock = Main <=> (MainHolds \/ HandlerHolds)
  /\ ~(MainHolds /\ HandlerHolds)

\* No serving thread runs before the main thread has created it.
ThreadsUnborn == mpc = "boot" => \A t \in Threads : tpc[t] = "unborn"

\* What makes LockDiscipline inductive.
LockInv == LockDiscipline /\ ThreadsUnborn

\* The places in which an accepted socket can be.
InHand == msock # NoSock
Queued == {Slot(i) : i \in 1 .. Length}

(* An accepted socket is in exactly one place until it is closed: in the   *)
(* main thread's hand, in one slot of the queue, or with one serving       *)
(* thread; and those places hold nothing but open sockets, so a closed     *)
(* descriptor, whose number the next accept may reuse, is never served     *)
(* (server.c:104-120, serverThread.c:161-170, queue.c:57-71).              *)
SocketsConserved ==
  status = "running" /\ ~destroyed =>
    /\ \A s \in Sockets :
         conn[s] = "open" <=>
           \/ msock = s
           \/ \E i \in Queued : buffer[i] = s
           \/ \E t \in Threads : tsock[t] = s
    /\ \A i \in Queued : buffer[i] \in Sockets
    /\ \A i, j \in Queued : buffer[i] = buffer[j] => i = j
    /\ \A t, u \in Threads : tsock[t] = tsock[u] /\ tsock[t] # NoSock => t = u
    /\ InHand => \A i \in Queued : buffer[i] # msock
    /\ \A t \in Threads : tsock[t] # NoSock =>
         tsock[t] # msock /\ \A i \in Queued : buffer[i] # tsock[t]

\* The accepted sockets that no serving thread has taken yet, oldest first.
Pending == IF InHand THEN Append(Contents, msock) ELSE Contents

\* The process accepts and serves.
Up == status = "running" /\ ~destroyed

\* The main thread and the serving threads hold a socket only in those parts
\* of their loops that are about one.
HandsInv ==
  /\ InHand <=> mpc \in {"lock", "check", "waiting"}
  /\ \A t \in Threads : tpc[t] \in {"unborn", "lock", "check", "waiting"} => tsock[t] = NoSock
  /\ mpc = "boot" => Contents = <<>>

BacklogInv ==
  /\ \A i \in 1 .. Len(backlog) : conn[backlog[i]] = "backlog"
  /\ \A i, j \in 1 .. Len(backlog) : backlog[i] = backlog[j] => i = j

\* SocketsConserved, in terms of the sequence of pending sockets: what is held
\* is held once and open,
PendingInv ==
  /\ Pending \in Seq(Sockets)
  /\ \A i, j \in 1 .. Len(Pending) : Pending[i] = Pending[j] => i = j
  /\ \A t, u \in Threads : tsock[t] = tsock[u] /\ tsock[t] # NoSock => t = u
  /\ \A t \in Threads, i \in 1 .. Len(Pending) : Pending[i] # tsock[t]
  /\ \A i \in 1 .. Len(Pending) : conn[Pending[i]] = "open"
  /\ \A t \in Threads : tsock[t] # NoSock => conn[tsock[t]] = "open"

\* and what is open is held.
OpenHeld ==
  \A s \in Sockets :
    conn[s] = "open" =>
      (\E i \in 1 .. Len(Pending) : Pending[i] = s) \/ (\E t \in Threads : tsock[t] = s)

\* What makes SocketsConserved inductive.  A pop from the freed buffer may lose
\* a socket, but not hand one to two threads.
SocketInv ==
  /\ status = "running" => HandsInv /\ BacklogInv /\ PendingInv
  /\ Up => OpenHeld

\* Threads that are on their way to look at the queue.
Heading == {t \in Threads : tpc[t] \in {"lock", "check"}}

(* No wakeup is lost: while a thread sleeps on cond_nonempty, there is for *)
(* every socket in the queue a thread that is on its way to the queue, but *)
(* for the one socket whose signal the main thread is about to give.  The  *)
(* signal comes after the unlock (server.c:123-127), so other threads may  *)
(* pop, or go to sleep, in between (serverThread.c:156-169).               *)
NoLostWakeup ==
  ~destroyed /\ Waiters # {} =>
    Length <= Cardinality(Heading) + (IF mpc = "signal" THEN 1 ELSE 0)

(* Nor is the acceptor's: while the main thread sleeps on cond_nonfull and *)
(* the queue has room, the thread that made room has not yet signalled     *)
(* (serverThread.c:162-169, server.c:115-118).                             *)
AcceptorWakeup ==
  mpc = "waiting" /\ ~Queue_full => \E t \in Threads : tpc[t] = "signal"

\* The promise of module ConnectionService, which ends when the buffer is
\* freed or the process has ended.
ServiceWaiting == IF Up THEN Pending ELSE <<>>
ServiceServing == IF Up THEN tsock ELSE [t \in Threads |-> NoSock]
ServiceFinished == IF Up THEN {s \in Sockets : conn[s] = "closed"} ELSE {}

Service == INSTANCE ConnectionService
             WITH Workers <- Threads, Conns <- Sockets, Room <- Size, None <- NoSock,
                  up <- Up, waiting <- ServiceWaiting, serving <- ServiceServing,
                  finished <- ServiceFinished

(* Connections are served in the order of accept, each by one thread and   *)
(* once, and at most num_of_threads accepted ones wait: num_of_threads - 1 *)
(* in the queue and one in the main thread's hand (server.c:104-120,       *)
(* serverThread.c:151-170, queue.c:38-74).                                 *)
ImplementsService == Service!Spec

\* The pages that have been counted: those the clients have got, and those
\* of threads that are past Queue_serve.
Got == {s \in Sockets : answer[s].code = 200}
Counted == {t \in Threads : treply[t].code = 200 /\ tpc[t] \in {"bytes", "reply"}}

\* The bytes of the pages that some have (a client an answer, a thread one to
\* write), each byte with who has it: those the clients have got, and those
\* of threads that are past Queue_bytes.
BytesOf(pages, some) == UNION {{x} \X (1 .. pages[x].bytes) : x \in some}
GotBytes == BytesOf(answer, Sockets)
CountedBytes == BytesOf(treply, {t \in Threads : tpc[t] = "reply"})

(* Every page a client has got was counted once, with all its bytes, and   *)
(* every page counted is being sent to one client, as long as no thread is *)
(* cancelled on the way; and no client is answered, with a page or with an *)
(* error, a second time (serverThread.c:99-134, 151-170).                  *)
StatsAccounted ==
  cancelled = {} =>
    /\ pagesServed = Cardinality(Got) + Cardinality(Counted)
    /\ bytesReturned = Cardinality(GotBytes) + Cardinality(CountedBytes)
    /\ status = "running" => \A t \in Threads : tpc[t] = "reply" => answer[tsock[t]] = NoReply

\* What makes StatsAccounted inductive: the sums,
Accounts ==
  /\ IsFiniteSet(Got)
  /\ IsFiniteSet(GotBytes)
  /\ IsFiniteSet(CountedBytes)
  /\ pagesServed = Cardinality(Got) + Cardinality(Counted)
  /\ bytesReturned = Cardinality(GotBytes) + Cardinality(CountedBytes)

\* which answer a thread has built, and that a client is answered by the one
\* thread that has its socket, once.
AnswerInv ==
  \A t \in Threads :
    /\ tpc[t] \in {"serve", "bytes"} => treply[t].code = 200
    /\ tpc[t] \in {"serve", "bytes", "reply"} => tsock[t] \in Sockets
    /\ tpc[t] \in {"recv", "serve", "bytes", "reply", "signal"} /\ tsock[t] \in Sockets
         => answer[tsock[t]] = NoReply

UnansweredInv ==
  /\ \A i \in 1 .. Len(Pending) : answer[Pending[i]] = NoReply
  /\ \A s \in Sockets : conn[s] \in {"new", "backlog"} => answer[s] = NoReply
  /\ mpc = "boot" => \A s \in Sockets : answer[s] = NoReply

StatsInv ==
  cancelled = {} =>
    /\ Accounts
    /\ status = "running" => AnswerInv /\ UnansweredInv

\* Neither SIGTERM nor a failure is about to stop the process.
Stopping == sigterm # "none" \/ status # "running"

(* Every client that connects and sends its request is answered, however   *)
(* the threads interleave and though some clients never send anything,     *)
(* unless the process is stopped (README.md:31-36).                        *)
Served ==
  \A s \in Sockets \ Silent :
    conn[s] = "backlog" ~> (answer[s] # NoReply \/ Stopping)

(* No thread takes from the queue once its buffer has been freed           *)
(* (server.c:43-56, queue.c:65-74, README.md:32).                          *)
NoPopAfterDestroy == [][destroyed => UNCHANGED queueVars]_vars
==============================================================================
