---------------------------- MODULE ServerProofs ----------------------------
(***************************************************************************)
(* Proofs about the socket queue, for every size and every set of sockets, *)
(* and about the serving process, for any number of serving threads and    *)
(* any set of connections.                                                 *)
(***************************************************************************)
EXTENDS Server, SequenceTheorems, FiniteSetTheorems, TLAPS

------------------------------------------------------------------------------
(* The ring buffer.                                                        *)

(* The next slot, without the modulus of queue.c:47, 59 and 70.            *)
LEMMA SuccStep ==
  ASSUME NEW i \in Slots
  PROVE  /\ Succ(i) = IF i + 1 = Size THEN 0 ELSE i + 1
         /\ Succ(i) \in Slots
<1>1. CASE i + 1 = Size
  BY <1>1, SizeAssumption DEF Succ, Slots
<1>2. CASE i + 1 # Size
  <2>1. i + 1 \in 0 .. (Size - 1)
    BY <1>2, SizeAssumption DEF Slots
  <2>2. (i + 1) % Size = i + 1
    BY <2>1, SizeAssumption
  <2>3. QED
    BY <1>2, <2>1, <2>2 DEF Succ, Slots
<1>3. QED
  BY <1>1, <1>2

(* The positions of a well-typed queue.                                    *)
LEMMA SlotType ==
  ASSUME QueueTypeOK
  PROVE  /\ Length \in 0 .. (Size - 1)
         /\ \A i \in 1 .. Length : Slot(i) \in Slots
         /\ Contents \in Seq(Sockets \cup {NoSock})
         /\ Len(Contents) = Length
<1>1. Length \in 0 .. (Size - 1)
  BY SizeAssumption DEF QueueTypeOK, Length, Slots
<1>2. \A i \in 1 .. Length : Slot(i) \in Slots
  BY <1>1, SizeAssumption DEF QueueTypeOK, Slot, Slots
<1>3. \A i \in 1 .. Length : buffer[Slot(i)] \in Sockets \cup {NoSock}
  BY <1>2 DEF QueueTypeOK
<1>4. QED
  BY <1>1, <1>2, <1>3 DEF Contents

(* Empty and full, as queue.c:41 and queue.c:47-51 decide them, are the    *)
(* empty sequence and the sequence of Size - 1 elements.                   *)
LEMMA EmptyAndFull ==
  ASSUME QueueTypeOK
  PROVE  /\ Queue_empty <=> Length = 0
         /\ Queue_full <=> Length = Size - 1
<1>1. Queue_empty <=> Length = 0
  BY SizeAssumption DEF QueueTypeOK, Queue_empty, Length, Slots
<1>2. Queue_full <=> Length = Size - 1
  <2>1. Succ(piso) = IF piso + 1 = Size THEN 0 ELSE piso + 1
    BY SuccStep DEF QueueTypeOK
  <2>2. QED
    BY <2>1, SizeAssumption DEF QueueTypeOK, Queue_full, Length, Slots
<1>3. QED
  BY <1>1, <1>2

(* A push on a queue that is not full appends the socket (queue.c:57-60).  *)
LEMMA PushAppends ==
  ASSUME QueueTypeOK, NEW s \in Sockets \cup {NoSock}, ~Queue_full, Queue_push(s)
  PROVE  /\ QueueTypeOK'
         /\ Length < Size - 1
         /\ Length' = Length + 1
         /\ Contents' = Append(Contents, s)
<1>1. /\ buffer' = [buffer EXCEPT ![piso] = s]
      /\ piso' = Succ(piso)
      /\ embros' = embros
  BY DEF Queue_push
<1>2. /\ Succ(piso) = IF piso + 1 = Size THEN 0 ELSE piso + 1
      /\ Succ(piso) \in Slots
  BY SuccStep DEF QueueTypeOK
<1>3. QueueTypeOK'
  BY <1>1, <1>2 DEF QueueTypeOK
<1>4. Length \in 0 .. (Size - 1) /\ Length < Size - 1
  BY SlotType, EmptyAndFull, SizeAssumption
<1>5. Length' = Length + 1
  BY <1>1, <1>2, <1>4, SizeAssumption DEF QueueTypeOK, Length, Slots, Queue_full
<1>6. /\ Slot(Length + 1) = piso
      /\ \A i \in 1 .. Length : Slot(i) # piso
  BY <1>4, SizeAssumption DEF QueueTypeOK, Length, Slot, Slots
<1>7. \A i \in 1 .. Length + 1 : Slot(i)' = Slot(i) /\ Slot(i) \in Slots
  BY <1>1, <1>4, SizeAssumption DEF QueueTypeOK, Length, Slot, Slots
<1>8. Contents' = [i \in 1 .. Length + 1 |-> buffer'[Slot(i)]]
  BY <1>5, <1>7 DEF Contents
<1>9. \A i \in 1 .. Length + 1 :
          buffer'[Slot(i)] = IF i = Length + 1 THEN s ELSE buffer[Slot(i)]
  <2> SUFFICES ASSUME NEW i \in 1 .. Length + 1
               PROVE  buffer'[Slot(i)] = IF i = Length + 1 THEN s ELSE buffer[Slot(i)]
    OBVIOUS
  <2>1. CASE i = Length + 1
    BY <1>1, <1>6, <1>7, <2>1 DEF QueueTypeOK
  <2>2. CASE i # Length + 1
    <3>1. i \in 1 .. Length
      BY <1>4, <2>2
    <3>2. Slot(i) # piso /\ Slot(i) \in Slots
      BY <1>6, <1>7, <3>1
    <3>3. QED
      BY <1>1, <2>2, <3>2 DEF QueueTypeOK
  <2>3. QED
    BY <2>1, <2>2
<1>10. /\ Contents \in Seq(Sockets \cup {NoSock})
       /\ Len(Contents) = Length
       /\ \A i \in 1 .. Length : Contents[i] = buffer[Slot(i)]
  BY SlotType DEF Contents
<1>11. /\ Contents' \in Seq(Sockets \cup {NoSock})
       /\ Len(Contents') = Length + 1
       /\ \A i \in 1 .. Length : Contents'[i] = Contents[i]
       /\ Contents'[Length + 1] = s
  <2>1. \A i \in 1 .. Length + 1 : buffer'[Slot(i)] \in Sockets \cup {NoSock}
    BY <1>3, <1>7 DEF QueueTypeOK, Slots
  <2>2. QED
    BY <1>4, <1>8, <1>9, <1>10, <2>1
<1>12. /\ Append(Contents, s) \in Seq(Sockets \cup {NoSock})
       /\ Len(Append(Contents, s)) = Length + 1
       /\ \A i \in 1 .. Length : Append(Contents, s)[i] = Contents[i]
       /\ Append(Contents, s)[Length + 1] = s
  BY <1>4, <1>10, AppendProperties
<1>13. \A i \in 1 .. Len(Contents') : Contents'[i] = Append(Contents, s)[i]
  BY <1>4, <1>11, <1>12
<1>14. Contents' = Append(Contents, s)
  BY <1>11, <1>12, <1>13, SeqEqual
<1>15. QED
  BY <1>3, <1>4, <1>5, <1>14

(* A pop on a queue that is not empty takes the first socket               *)
(* (queue.c:68-71).                                                        *)
LEMMA PopTakesHead ==
  ASSUME QueueTypeOK, ~Queue_empty, Queue_pop
  PROVE  /\ QueueTypeOK'
         /\ Contents # <<>>
         /\ Length' = Length - 1
         /\ Queue_front = Head(Contents)
         /\ Contents' = Tail(Contents)
<1>1. /\ embros' = Succ(embros)
      /\ piso' = piso
      /\ buffer' = buffer
  BY DEF Queue_pop
<1>2. /\ Succ(embros) = IF embros + 1 = Size THEN 0 ELSE embros + 1
      /\ Succ(embros) \in Slots
  BY SuccStep DEF QueueTypeOK
<1>3. QueueTypeOK'
  BY <1>1, <1>2 DEF QueueTypeOK
<1>4. Length \in 1 .. (Size - 1)
  BY SlotType, EmptyAndFull, SizeAssumption
<1>5. Length' = Length - 1
  BY <1>1, <1>2, SizeAssumption DEF QueueTypeOK, Length, Slots, Queue_empty
<1>6. Slot(1) = embros
  BY SizeAssumption DEF QueueTypeOK, Slot, Slots
<1>7. \A i \in 1 .. Length - 1 : Slot(i)' = Slot(i + 1)
  BY <1>1, <1>2, <1>4, SizeAssumption DEF QueueTypeOK, Slot, Slots
<1>8. /\ Contents \in Seq(Sockets \cup {NoSock})
      /\ Len(Contents) = Length
      /\ Contents # <<>>
  BY SlotType, <1>4
<1>9. Queue_front = Head(Contents)
  BY <1>4, <1>6, <1>8 DEF Queue_front, Contents
<1>10. /\ Contents' = [i \in 1 .. Length - 1 |-> buffer[Slot(i + 1)]]
       /\ \A i \in 1 .. Length : Contents[i] = buffer[Slot(i)]
  BY <1>1, <1>5, <1>7 DEF Contents
<1>11. /\ Contents' \in Seq(Sockets \cup {NoSock})
       /\ Len(Contents') = Length - 1
       /\ \A i \in 1 .. Length - 1 : Contents'[i] = Contents[i + 1]
  <2>1. \A i \in 1 .. Length - 1 : buffer[Slot(i + 1)] \in Sockets \cup {NoSock}
    BY <1>4, SlotType DEF QueueTypeOK
  <2>2. QED
    BY <1>4, <1>10, <2>1
<1>12. /\ Tail(Contents) \in Seq(Sockets \cup {NoSock})
       /\ Len(Tail(Contents)) = Length - 1
       /\ \A i \in 1 .. Length - 1 : Tail(Contents)[i] = Contents[i + 1]
  BY <1>4, <1>8, HeadTailProperties
<1>13. Contents' = Tail(Contents)
  BY <1>11, <1>12, SeqEqual
<1>14. QED
  BY <1>3, <1>5, <1>8, <1>9, <1>13

(* The indexes stay on the ring and the slots hold sockets.                *)
THEOREM QueueTypeCorrect == QueueSpec => []QueueTypeOK
<1>1. QueueInit => QueueTypeOK
  BY SizeAssumption DEF QueueInit, QueueTypeOK, CreatedQueue, Slots
<1>2. QueueTypeOK /\ [QueueNext]_queueVars => QueueTypeOK'
  <2> SUFFICES ASSUME QueueTypeOK, [QueueNext]_queueVars
               PROVE  QueueTypeOK'
    OBVIOUS
  <2>1. CASE Queue_pop
    <3>1. CASE Queue_empty
      BY <2>1, <3>1 DEF Queue_pop, queueVars, QueueTypeOK
    <3>2. CASE ~Queue_empty
      BY <2>1, <3>2, PopTakesHead
    <3>3. QED BY <3>1, <3>2
  <2>2. ASSUME NEW s \in Sockets, Queue_push(s)
        PROVE  QueueTypeOK'
    <3>1. CASE Queue_full
      BY <2>2, <3>1 DEF Queue_push, queueVars, QueueTypeOK
    <3>2. CASE ~Queue_full
      BY <2>2, <3>2, PushAppends
    <3>3. QED BY <3>1, <3>2
  <2>3. CASE UNCHANGED queueVars
    BY <2>3 DEF queueVars, QueueTypeOK
  <2>4. QED
    BY <2>1, <2>2, <2>3 DEF QueueNext
<1>3. QED
  BY <1>1, <1>2, PTL DEF QueueSpec

(* The ring buffer implements a first-in first-out queue of Size - 1       *)
(* places: every push is a Put or changes nothing, every pop is a Take or  *)
(* changes nothing.                                                        *)
THEOREM QueueIsFifo == QueueSpec => ImplementsFifo
<1>1. QueueInit => Fifo!Init
  <2> SUFFICES ASSUME QueueInit PROVE Contents = <<>>
    BY DEF Fifo!Init
  <2>1. Length = 0
    BY DEF QueueInit, CreatedQueue, Length
  <2>2. QED
    BY <2>1 DEF Contents
<1>2. QueueTypeOK /\ [QueueNext]_queueVars => [Fifo!Next]_Contents
  <2> SUFFICES ASSUME QueueTypeOK, [QueueNext]_queueVars
               PROVE  Fifo!Next \/ Contents' = Contents
    OBVIOUS
  <2>0. UNCHANGED queueVars => Contents' = Contents
    BY DEF queueVars, Contents, Length, Slot
  <2>1. CASE Queue_pop
    <3>1. CASE Queue_empty
      BY <2>0, <2>1, <3>1 DEF Queue_pop
    <3>2. CASE ~Queue_empty
      <4>1. Contents # <<>> /\ Contents' = Tail(Contents)
        BY <2>1, <3>2, PopTakesHead
      <4>2. QED BY <4>1 DEF Fifo!Next, Fifo!Take
    <3>3. QED BY <3>1, <3>2
  <2>2. ASSUME NEW s \in Sockets, Queue_push(s)
        PROVE  Fifo!Next \/ Contents' = Contents
    <3>1. CASE Queue_full
      BY <2>0, <2>2, <3>1 DEF Queue_push
    <3>2. CASE ~Queue_full
      <4>1. Length < Size - 1 /\ Contents' = Append(Contents, s)
        BY <2>2, <3>2, PushAppends
      <4>2. Len(Contents) = Length
        BY SlotType
      <4>3. QED BY <4>1, <4>2 DEF Fifo!Next, Fifo!Put
    <3>3. QED BY <3>1, <3>2
  <2>3. QED
    BY <2>0, <2>1, <2>2 DEF QueueNext
<1>3. QED
  BY <1>1, <1>2, QueueTypeCorrect, PTL DEF QueueSpec, ImplementsFifo, Fifo!Spec

------------------------------------------------------------------------------
(* The serving process.                                                    *)

(* What the queue is called with and what it returns has the right type.   *)
LEMMA QueueStepType ==
  ASSUME QueueTypeOK, NEW s \in Sockets \cup {NoSock}
  PROVE  /\ Queue_create => QueueTypeOK'
         /\ Queue_push(s) => QueueTypeOK'
         /\ Queue_pop => QueueTypeOK'
         /\ UNCHANGED queueVars => QueueTypeOK'
         /\ Queue_front \in Sockets \cup {NoSock}
<1>1. Queue_create => QueueTypeOK'
  BY SizeAssumption DEF Queue_create, CreatedQueue, QueueTypeOK, Slots
<1>2. UNCHANGED queueVars => QueueTypeOK'
  BY DEF queueVars, QueueTypeOK
<1>3. Queue_push(s) => QueueTypeOK'
  <2>1. CASE Queue_full
    BY <1>2, <2>1 DEF Queue_push
  <2>2. CASE ~Queue_full
    BY <2>2, PushAppends
  <2>3. QED BY <2>1, <2>2
<1>4. Queue_pop => QueueTypeOK'
  <2>1. CASE Queue_empty
    BY <1>2, <2>1 DEF Queue_pop
  <2>2. CASE ~Queue_empty
    BY <2>2, PopTakesHead
  <2>3. QED BY <2>1, <2>2
<1>5. Queue_front \in Sockets \cup {NoSock}
  BY DEF QueueTypeOK, Queue_front
<1>6. QED
  BY <1>1, <1>2, <1>3, <1>4, <1>5

(* The end of the process disturbs nothing but the connections.            *)
LEMMA ExitType ==
  ASSUME TypeOK, NEW how \in {"success", "failure", "killed"}, Exit(how)
  PROVE  TypeOK'
<1>1. QueueTypeOK'
  BY QueueStepType DEF Exit, TypeOK
<1>2. conn' \in [Sockets -> {"new", "backlog", "open", "closed", "refused"}]
  BY DEF Exit, TypeOK
<1>3. backlog' \in Seq(Sockets)
  BY DEF Exit
<1>4. QED
  BY <1>1, <1>2, <1>3
     DEF Exit, TypeOK, statVars, mainVars, threadVars, signalVars

(* What a thread or the main thread may be moved to.                       *)
LEMMA MoveThreadType ==
  ASSUME TypeOK, NEW t \in Threads, NEW from, NEW to \in ThreadLabels,
         MoveThread(t, from, to)
  PROVE  tpc' \in [Threads -> ThreadLabels]
BY DEF MoveThread, TypeOK

LEMMA MainStepType ==
  ASSUME TypeOK, MainStep
  PROVE  TypeOK'
<1> USE DEF TypeOK, MoveMain, MainLabels
<1>1. CASE Boot
  BY <1>1, QueueStepType DEF Boot, ThreadLabels, worldVars, signalVars
<1>2. CASE InstallHandler
  BY <1>2, QueueStepType DEF InstallHandler, statVars, threadVars, worldVars
<1>3. CASE Accept
  <2>1. Head(backlog) \in Sockets /\ Tail(backlog) \in Seq(Sockets)
    BY <1>3 DEF Accept
  <2>2. QED
    BY <1>3, <2>1, QueueStepType DEF Accept, statVars, threadVars, signalVars
<1>4. CASE MainLock
  BY <1>4, QueueStepType DEF MainLock, Acquire, statVars, threadVars, signalVars, worldVars
<1>5. CASE MainWait
  BY <1>5, QueueStepType DEF MainWait, Release, statVars, threadVars, signalVars, worldVars
<1>6. CASE MainPush
  BY <1>6, QueueStepType DEF MainPush, Release, statVars, threadVars, signalVars, worldVars
<1>7. CASE MainSignal
  <2>1. tpc' \in [Threads -> ThreadLabels]
    BY <1>7, MoveThreadType DEF MainSignal, SignalNonempty, Waiters, ThreadLabels
  <2>2. QED
    BY <1>7, <2>1, QueueStepType DEF MainSignal, statVars, signalVars, worldVars
<1>8. QED
  BY <1>1, <1>2, <1>3, <1>4, <1>5, <1>6, <1>7 DEF MainStep

(* The part of a serving thread that works on the queue.                   *)
LEMMA QueueWorkType ==
  ASSUME TypeOK, NEW t \in Threads,
         ThreadLock(t) \/ ThreadWait(t) \/ ThreadPop(t) \/ ThreadSignal(t)
  PROVE  TypeOK'
<1> USE DEF TypeOK, Thread
<1>1. CASE ThreadLock(t)
  BY <1>1, QueueStepType, MoveThreadType
     DEF ThreadLock, Acquire, ThreadLabels, statVars, mainVars, signalVars, worldVars
<1>2. CASE ThreadWait(t)
  BY <1>2, QueueStepType, MoveThreadType
     DEF ThreadWait, Release, ThreadLabels, statVars, mainVars, signalVars, worldVars
<1>3. CASE ThreadPop(t)
  BY <1>3, QueueStepType, MoveThreadType
     DEF ThreadPop, Popped, Release, ThreadLabels, statVars, mainVars, signalVars, worldVars
<1>4. CASE ThreadSignal(t)
  BY <1>4, QueueStepType, MoveThreadType
     DEF ThreadSignal, SignalNonfull, ThreadLabels, MainLabels, statVars, signalVars,
         worldVars
<1>5. QED
  BY <1>1, <1>2, <1>3, <1>4

(* The part that serves a request.                                         *)
LEMMA RequestType ==
  ASSUME TypeOK, NEW t \in Threads,
         \/ RecvPage(t) \/ RecvNotFound(t) \/ RecvFails(t)
         \/ Serve(t) \/ Bytes(t) \/ Reply(t) \/ ReplyFails(t) \/ Close(t)
  PROVE  TypeOK'
<1> USE DEF TypeOK, Thread
<1>1. CASE RecvPage(t)
  <2>1. PICK n \in PageSizes : treply' = [treply EXCEPT ![t] = Page(n)]
    BY <1>1 DEF RecvPage
  <2>2. Page(n) \in Replies
    BY DEF Replies
  <2>3. QED
    BY <1>1, <2>1, <2>2, QueueStepType, MoveThreadType
       DEF RecvPage, ThreadLabels, statVars, mainVars, signalVars, worldVars
<1>2. CASE RecvNotFound(t)
  BY <1>2, QueueStepType, MoveThreadType
     DEF RecvNotFound, Replies, ThreadLabels, statVars, mainVars, signalVars, worldVars
<1>3. CASE RecvFails(t)
  BY <1>3, ExitType DEF RecvFails
<1>4. CASE Serve(t)
  BY <1>4, QueueStepType, MoveThreadType
     DEF Serve, Acquire, ThreadLabels, mainVars, signalVars, worldVars
<1>5. CASE Bytes(t)
  <2>1. treply[t].bytes \in Nat
    BY EnvironmentAssumption DEF Replies, Page, NotFound, NoReply
  <2>2. QED
    BY <1>5, <2>1, QueueStepType, MoveThreadType
       DEF Bytes, Release, ThreadLabels, mainVars, signalVars, worldVars
<1>6. CASE Reply(t)
  BY <1>6, QueueStepType, MoveThreadType, ZenonT(40)
     DEF Reply, ThreadLabels, statVars, mainVars, signalVars
<1>7. CASE ReplyFails(t)
  BY <1>7, ExitType DEF ReplyFails
<1>8. CASE Close(t)
  BY <1>8, QueueStepType, MoveThreadType, ZenonT(40)
     DEF Close, ThreadLabels, statVars, mainVars, signalVars
<1>9. QED
  BY <1>1, <1>2, <1>3, <1>4, <1>5, <1>6, <1>7, <1>8

(* Spurious wakeups and cancellation.                                      *)
LEMMA InterruptedType ==
  ASSUME TypeOK,
         \/ SpuriousWake
         \/ \E t \in Threads : Cancelled(t) \/ CancelledInWait(t)
  PROVE  TypeOK'
<1> USE DEF TypeOK, Thread
<1>1. CASE MainSpuriousWake
  BY <1>1, QueueStepType
     DEF MainSpuriousWake, MoveMain, MainLabels, statVars, threadVars, signalVars,
         worldVars
<1>2. ASSUME NEW t \in Threads, ThreadSpuriousWake(t) PROVE TypeOK'
  BY <1>2, QueueStepType, MoveThreadType
     DEF ThreadSpuriousWake, ThreadLabels, statVars, mainVars, signalVars, worldVars
<1>3. ASSUME NEW t \in Threads, Cancelled(t) PROVE TypeOK'
  BY <1>3, QueueStepType, MoveThreadType
     DEF Cancelled, ThreadLabels, statVars, mainVars, signalVars, worldVars
<1>4. ASSUME NEW t \in Threads, CancelledInWait(t) PROVE TypeOK'
  BY <1>4, QueueStepType, MoveThreadType
     DEF CancelledInWait, Acquire, ThreadLabels, statVars, mainVars, signalVars, worldVars
<1>5. QED
  BY <1>1, <1>2, <1>3, <1>4 DEF SpuriousWake

(* SIGTERM and its handler.                                                *)
LEMMA SignalType ==
  ASSUME TypeOK, RaiseSigterm \/ HandlerStep
  PROVE  TypeOK'
<1> USE DEF TypeOK, MoveHandler
<1>1. CASE RaiseSigterm
  BY <1>1, QueueStepType
     DEF RaiseSigterm, statVars, mainVars, threadVars, worldVars
<1>2. CASE DefaultSigterm
  BY <1>2, ExitType DEF DefaultSigterm
<1>3. CASE EnterHandler
  BY <1>3, QueueStepType
     DEF EnterHandler, statVars, mainVars, threadVars, worldVars
<1>4. CASE HandlerLock
  BY <1>4, QueueStepType
     DEF HandlerLock, Acquire, statVars, mainVars, threadVars, worldVars
<1>5. CASE HandlerDestroy
  BY <1>5, QueueStepType
     DEF HandlerDestroy, Release, mainVars, threadVars, worldVars
<1>6. ASSUME NEW t \in Threads, HandlerCancel(t) PROVE TypeOK'
  BY <1>6, QueueStepType
     DEF HandlerCancel, statVars, mainVars, threadVars, worldVars
<1>7. CASE HandlerExit
  BY <1>7, ExitType DEF HandlerExit
<1>8. QED
  BY <1>1, <1>2, <1>3, <1>4, <1>5, <1>6, <1>7 DEF HandlerStep

(* The clients.                                                            *)
LEMMA ClientType ==
  ASSUME TypeOK, ClientStep
  PROVE  TypeOK'
<1> USE DEF TypeOK
<1>1. ASSUME NEW s \in Sockets, Connect(s) PROVE TypeOK'
  BY <1>1, QueueStepType DEF Connect, statVars, mainVars, threadVars, signalVars
<1>2. ASSUME NEW s \in Sockets, NEW kind \in {"get", "short"}, Send(s, kind)
      PROVE  TypeOK'
  BY <1>2, QueueStepType DEF Send, statVars, mainVars, threadVars, signalVars
<1>3. QED
  BY <1>1, <1>2 DEF ClientStep, SendStep

LEMMA StutterType ==
  ASSUME TypeOK, UNCHANGED vars
  PROVE  TypeOK'
BY QueueStepType
   DEF TypeOK, vars, statVars, mainVars, threadVars, signalVars, worldVars

(* The variables of the serving process keep their types (server.c,        *)
(* serverThread.c, queue.c).                                               *)
THEOREM ServerTypeCorrect == Spec => []TypeOK
<1>1. Init => TypeOK
  <2> SUFFICES ASSUME Init PROVE TypeOK
    OBVIOUS
  <2>1. QueueTypeOK
    BY SizeAssumption DEF Init, QueueInit, CreatedQueue, QueueTypeOK, Slots
  <2>2. backlog \in Seq(Sockets)
    BY DEF Init
  <2>3. QED
    BY <2>1, <2>2 DEF Init, TypeOK, MainLabels, ThreadLabels
<1>2. TypeOK /\ [Next]_vars => TypeOK'
  <2> SUFFICES ASSUME TypeOK, [Next]_vars PROVE TypeOK'
    OBVIOUS
  <2>1. CASE MainStep
    BY <2>1, MainStepType
  <2>2. CASE BootFails \/ AcceptFails
    BY <2>2, ExitType DEF BootFails, AcceptFails
  <2>3. ASSUME NEW t \in Threads, ThreadStep(t) \/ ReplyFails(t) PROVE TypeOK'
    BY <2>3, QueueWorkType, RequestType DEF ThreadStep
  <2>4. CASE SpuriousWake \/ \E t \in Threads : Cancelled(t) \/ CancelledInWait(t)
    BY <2>4, InterruptedType
  <2>5. CASE RaiseSigterm \/ HandlerStep
    BY <2>5, SignalType
  <2>6. CASE ClientStep
    BY <2>6, ClientType
  <2>7. CASE Quiescent \/ UNCHANGED vars
    BY <2>7, StutterType DEF Quiescent
  <2>8. QED
    BY <2>1, <2>2, <2>3, <2>4, <2>5, <2>6, <2>7 DEF Next, ServerStep
<1>3. QED
  BY <1>1, <1>2, PTL DEF Spec

------------------------------------------------------------------------------
(* Mutual exclusion.  A step either leaves the mutex and the critical      *)
(* sections alone, or enters one with the mutex free, or leaves one.       *)

LEMMA MainStepLock ==
  ASSUME TypeOK, LockInv, MainStep
  PROVE  LockInv'
<1> USE ThreadsAssumption
    DEF LockInv, LockDiscipline, ThreadsUnborn, Inside, MainHolds,
        HandlerHolds, TypeOK, MoveMain
<1>1. CASE Boot
  BY <1>1 DEF Boot, signalVars
<1>2. CASE InstallHandler \/ Accept
  BY <1>2 DEF InstallHandler, Accept, statVars, threadVars, signalVars
<1>3. CASE MainLock
  BY <1>3 DEF MainLock, Acquire, threadVars, signalVars
<1>4. CASE MainWait \/ MainPush
  BY <1>4 DEF MainWait, MainPush, Release, threadVars, signalVars
<1>5. CASE MainSignal
  BY <1>5 DEF MainSignal, SignalNonempty, MoveThread, Waiters, signalVars
<1>6. QED
  BY <1>1, <1>2, <1>3, <1>4, <1>5 DEF MainStep

LEMMA ExitLock ==
  ASSUME LockInv, NEW how, Exit(how)
  PROVE  LockInv'
BY DEF LockInv, LockDiscipline, ThreadsUnborn, Inside, MainHolds,
       HandlerHolds, Exit, statVars, mainVars, threadVars, signalVars

LEMMA ThreadLockKept ==
  ASSUME TypeOK, LockInv, NEW t \in Threads,
         ThreadStep(t) \/ ReplyFails(t) \/ Cancelled(t) \/ CancelledInWait(t)
  PROVE  LockInv'
<1> USE ThreadsAssumption
    DEF LockInv, LockDiscipline, ThreadsUnborn, Inside, MainHolds,
        HandlerHolds, TypeOK, Thread, MoveThread
<1>1. CASE ThreadLock(t) \/ Serve(t) \/ CancelledInWait(t)
  BY <1>1 DEF ThreadLock, Serve, CancelledInWait, Acquire, mainVars, signalVars
<1>2. CASE ThreadWait(t) \/ ThreadPop(t) \/ Bytes(t)
  BY <1>2 DEF ThreadWait, ThreadPop, Bytes, Release, mainVars, signalVars
<1>3. CASE RecvPage(t) \/ RecvNotFound(t)
  BY <1>3 DEF RecvPage, RecvNotFound, mainVars, signalVars
<1>4. CASE ThreadSignal(t)
  BY <1>4 DEF ThreadSignal, SignalNonfull, signalVars
<1>5. CASE Reply(t) \/ Close(t) \/ Cancelled(t)
  BY <1>5 DEF Reply, Close, Cancelled, mainVars, signalVars
<1>6. CASE RecvFails(t) \/ ReplyFails(t)
  BY <1>6, ExitLock DEF RecvFails, ReplyFails
<1>7. QED
  BY <1>1, <1>2, <1>3, <1>4, <1>5, <1>6 DEF ThreadStep

LEMMA SignalLock ==
  ASSUME TypeOK, LockInv, RaiseSigterm \/ HandlerStep
  PROVE  LockInv'
<1> USE ThreadsAssumption
    DEF LockInv, LockDiscipline, ThreadsUnborn, Inside, MainHolds,
        HandlerHolds, TypeOK, MoveHandler
<1>1. CASE RaiseSigterm \/ EnterHandler
  BY <1>1 DEF RaiseSigterm, EnterHandler, statVars, mainVars, threadVars
<1>2. CASE DefaultSigterm \/ HandlerExit
  BY <1>2, ExitLock DEF DefaultSigterm, HandlerExit
<1>3. CASE HandlerLock
  BY <1>3 DEF HandlerLock, Acquire, mainVars, threadVars
<1>4. CASE HandlerDestroy
  BY <1>4 DEF HandlerDestroy, Release, mainVars, threadVars
<1>5. ASSUME NEW t \in Threads, HandlerCancel(t) PROVE LockInv'
  BY <1>5 DEF HandlerCancel, mainVars, threadVars
<1>6. QED
  BY <1>1, <1>2, <1>3, <1>4, <1>5 DEF HandlerStep

LEMMA OtherLock ==
  ASSUME TypeOK, LockInv, SpuriousWake \/ ClientStep \/ UNCHANGED vars
  PROVE  LockInv'
<1> USE ThreadsAssumption
    DEF LockInv, LockDiscipline, ThreadsUnborn, Inside, MainHolds,
        HandlerHolds, TypeOK
<1>1. CASE MainSpuriousWake
  BY <1>1 DEF MainSpuriousWake, MoveMain, statVars, threadVars, signalVars
<1>2. ASSUME NEW t \in Threads, ThreadSpuriousWake(t) PROVE LockInv'
  BY <1>2 DEF ThreadSpuriousWake, Thread, MoveThread, statVars, mainVars, signalVars
<1>3. CASE ClientStep
  BY <1>3 DEF ClientStep, Connect, SendStep, Send, statVars, mainVars,
              threadVars, signalVars
<1>4. CASE UNCHANGED vars
  BY <1>4 DEF vars, statVars, mainVars, threadVars, signalVars
<1>5. QED
  BY <1>1, <1>2, <1>3, <1>4 DEF SpuriousWake

LEMMA ServerLockInv == Spec => []LockInv
<1>1. Init => LockInv
  BY ThreadsAssumption 
     DEF Init, LockInv, LockDiscipline, ThreadsUnborn, Inside, MainHolds,
         HandlerHolds
<1>2. TypeOK /\ LockInv /\ [Next]_vars => LockInv'
  <2> SUFFICES ASSUME TypeOK, LockInv, [Next]_vars PROVE LockInv'
    OBVIOUS
  <2>1. CASE BootFails \/ AcceptFails
    BY <2>1, ExitLock DEF BootFails, AcceptFails
  <2>2. QED
    BY <2>1, MainStepLock, ThreadLockKept, SignalLock, OtherLock
       DEF Next, ServerStep, Quiescent
<1>3. QED
  BY <1>1, <1>2, ServerTypeCorrect, PTL DEF Spec

(* Mutual exclusion on queueLock, for any number of threads: whoever is    *)
(* between a lock and its unlock owns the mutex, the signal handler        *)
(* included (server.c:38-48, 111-126, serverThread.c:100-109, 151-168).    *)
THEOREM ServerLockDiscipline == Spec => []LockDiscipline
<1>1. Spec => []LockInv
  BY ServerLockInv
<1>2. LockInv => LockDiscipline
  BY DEF LockInv
<1>3. QED
  BY <1>1, <1>2, PTL
------------------------------------------------------------------------------
(* Wakeups.                                                                *)

\* The wakeup that the main thread owes for the socket it has just pushed.
Owed == IF mpc = "signal" THEN 1 ELSE 0

LEMMA HeadingFinite ==
  /\ IsFiniteSet(Heading) /\ Cardinality(Heading) \in Nat
  /\ IsFiniteSet(Heading') /\ Cardinality(Heading') \in Nat
<1>1. Heading \subseteq Threads /\ Heading' \subseteq Threads
  BY DEF Heading
<1>2. QED
  BY <1>1, ThreadsAssumption, FS_Subset, FS_CardinalityType

(* Steps that leave the queue and what is owed alone, send nobody to sleep *)
(* and turn nobody away from the queue.                                    *)
LEMMA QuietStep ==
  ASSUME TypeOK, NoLostWakeup,
         UNCHANGED queueVars, destroyed' = destroyed, Owed' = Owed,
         Waiters' \subseteq Waiters, Heading \subseteq Heading'
  PROVE  NoLostWakeup'
<1> SUFFICES ASSUME ~destroyed, Waiters # {}
             PROVE  Length' <= Cardinality(Heading') + Owed'
  BY DEF NoLostWakeup, Owed
<1>1. Length <= Cardinality(Heading) + Owed
  BY DEF NoLostWakeup, Owed
<1>2. Length' = Length
  BY DEF queueVars, Length
<1>3. Cardinality(Heading) <= Cardinality(Heading')
  BY HeadingFinite, FS_Subset
<1>4. Length \in Int /\ Owed \in Int
  BY SlotType DEF TypeOK, Owed
<1>5. QED
  BY <1>1, <1>2, <1>3, <1>4, HeadingFinite

(* A push adds a socket, for which a wakeup is owed.                       *)
LEMMA PushWakeup ==
  ASSUME TypeOK, NoLostWakeup, MainPush
  PROVE  NoLostWakeup'
<1>1. Waiters' = Waiters /\ Heading' = Heading /\ destroyed' = destroyed
  BY DEF MainPush, Waiters, Heading, threadVars, statVars
<1>2. Length' = Length + 1
  BY PushAppends DEF MainPush, TypeOK
<1>3. Owed = 0 /\ Owed' = 1
  BY DEF MainPush, MoveMain, Owed
<1>4. Length \in Int
  BY SlotType DEF TypeOK
<1>5. QED
  BY <1>1, <1>2, <1>3, <1>4, HeadingFinite DEF NoLostWakeup, Owed

(* The signal pays it: a sleeping thread, if there is one, is on its way.  *)
LEMMA SignalWakeup ==
  ASSUME TypeOK, NoLostWakeup, MainSignal
  PROVE  NoLostWakeup'
<1>1. Length' = Length /\ Length \in Int /\ destroyed' = destroyed
  BY SlotType DEF MainSignal, TypeOK, queueVars, Length, statVars
<1>2. Owed = 1 /\ Owed' = 0
  BY DEF MainSignal, MoveMain, Owed
<1>3. CASE Waiters = {}
  <2>1. Waiters' = {}
    BY <1>3 DEF MainSignal, SignalNonempty, Waiters
  <2>2. QED
    BY <2>1 DEF NoLostWakeup
<1>4. CASE Waiters # {}
  <2>1. PICK t \in Waiters : MoveThread(t, "waiting", "lock")
    BY <1>4 DEF MainSignal, SignalNonempty
  <2>2. t \in Threads /\ t \notin Heading
    BY <2>1 DEF Waiters, Heading, MoveThread
  <2>3. Heading' = Heading \cup {t}
    BY <2>1, <2>2 DEF Heading, MoveThread, TypeOK
  <2>4. Cardinality(Heading') = Cardinality(Heading) + 1
    BY <2>2, <2>3, HeadingFinite, FS_AddElement
  <2>5. QED
    BY <1>1, <1>2, <1>4, <2>4, HeadingFinite DEF NoLostWakeup, Owed
<1>5. QED
  BY <1>3, <1>4

(* A thread that pops leaves with one socket.                              *)
LEMMA PopWakeup ==
  ASSUME TypeOK, NoLostWakeup, NEW t \in Threads, ThreadPop(t)
  PROVE  NoLostWakeup'
<1>1. tpc[t] = "check" /\ tpc' = [tpc EXCEPT ![t] = "signal"]
  BY DEF ThreadPop, Thread, MoveThread
<1>2. Waiters' = Waiters /\ destroyed' = destroyed /\ Owed' = Owed
  BY <1>1 DEF ThreadPop, Waiters, Owed, statVars, mainVars, TypeOK
<1>3. t \in Heading /\ Heading' = Heading \ {t}
  BY <1>1 DEF Heading, TypeOK
<1>4. Cardinality(Heading') = Cardinality(Heading) - 1
  BY <1>3, HeadingFinite, FS_RemoveElement
<1>5. Length' = Length - 1 /\ Length \in Int
  BY PopTakesHead, SlotType DEF ThreadPop, TypeOK
<1>6. QED
  BY <1>2, <1>4, <1>5, HeadingFinite DEF NoLostWakeup, Owed

(* A thread goes to sleep only when there is nothing to take.              *)
LEMMA SleepWakeup ==
  ASSUME TypeOK, NEW t \in Threads, ThreadWait(t)
  PROVE  NoLostWakeup'
<1>1. Length' = 0
  BY EmptyAndFull DEF ThreadWait, TypeOK, queueVars, Length
<1>2. QED
  BY <1>1, HeadingFinite DEF NoLostWakeup

(* The steps of the serving threads that are neither a pop nor a sleep.    *)
LEMMA ThreadQuiet ==
  ASSUME TypeOK, NoLostWakeup, NEW t \in Threads,
         ThreadStep(t) \/ ReplyFails(t) \/ Cancelled(t) \/ CancelledInWait(t),
         ~ThreadPop(t), ~ThreadWait(t)
  PROVE  NoLostWakeup'
<1> USE DEF TypeOK, Thread, MoveThread, Waiters, Heading, Owed
<1>1. CASE ThreadLock(t) \/ CancelledInWait(t)
  BY <1>1, QuietStep DEF ThreadLock, CancelledInWait, statVars, mainVars
<1>2. CASE RecvPage(t) \/ RecvNotFound(t) \/ Serve(t) \/ Bytes(t)
  BY <1>2, QuietStep DEF RecvPage, RecvNotFound, Serve, Bytes, statVars, mainVars
<1>3. CASE ThreadSignal(t)
  BY <1>3, QuietStep DEF ThreadSignal, SignalNonfull, statVars
<1>4. CASE Reply(t) \/ Close(t) \/ Cancelled(t)
  BY <1>4, QuietStep DEF Reply, Close, Cancelled, statVars, mainVars
<1>5. CASE RecvFails(t) \/ ReplyFails(t)
  BY <1>5, QuietStep DEF RecvFails, ReplyFails, Exit, statVars, mainVars, threadVars
<1>6. QED
  BY <1>1, <1>2, <1>3, <1>4, <1>5 DEF ThreadStep

LEMMA MainWakeup ==
  ASSUME TypeOK, NoLostWakeup, MainStep
  PROVE  NoLostWakeup'
<1>1. CASE Boot
  <2>1. Waiters' = {}
    BY <1>1 DEF Boot, Waiters
  <2>2. QED
    BY <2>1 DEF NoLostWakeup
<1>2. CASE InstallHandler \/ Accept
  BY <1>2, QuietStep
     DEF InstallHandler, Accept, MoveMain, Waiters, Heading, Owed, statVars, threadVars
<1>3. CASE MainLock \/ MainWait
  BY <1>3, QuietStep
     DEF MainLock, MainWait, MoveMain, Waiters, Heading, Owed, statVars, threadVars
<1>4. QED
  BY <1>1, <1>2, <1>3, PushWakeup, SignalWakeup DEF MainStep

LEMMA OtherWakeup ==
  ASSUME TypeOK, NoLostWakeup,
         \/ BootFails \/ AcceptFails \/ SpuriousWake
         \/ RaiseSigterm \/ HandlerStep \/ ClientStep \/ UNCHANGED vars
  PROVE  NoLostWakeup'
<1>1. CASE MainSpuriousWake
  BY <1>1, QuietStep
     DEF MainSpuriousWake, MoveMain, Waiters, Heading, Owed, statVars, threadVars
<1>2. ASSUME NEW t \in Threads, ThreadSpuriousWake(t) PROVE NoLostWakeup'
  BY <1>2, QuietStep
     DEF ThreadSpuriousWake, Thread, MoveThread, TypeOK, Waiters, Heading, Owed, statVars,
         mainVars
<1>3. CASE HandlerDestroy
  BY <1>3 DEF HandlerDestroy, NoLostWakeup
<1>4. CASE \E how \in {"success", "failure", "killed"} : Exit(how)
  BY <1>4, QuietStep DEF Exit, Waiters, Heading, Owed, statVars, mainVars, threadVars
<1>5. CASE RaiseSigterm \/ EnterHandler \/ HandlerLock
  BY <1>5, QuietStep
     DEF RaiseSigterm, EnterHandler, HandlerLock, Waiters, Heading, Owed, statVars, mainVars,
         threadVars
<1>6. ASSUME NEW t \in Threads, HandlerCancel(t) PROVE NoLostWakeup'
  BY <1>6, QuietStep
     DEF HandlerCancel, Waiters, Heading, Owed, statVars, mainVars, threadVars
<1>7. CASE ClientStep
  BY <1>7, QuietStep
     DEF ClientStep, Connect, SendStep, Send, Waiters, Heading, Owed,
         statVars, mainVars, threadVars
<1>8. CASE UNCHANGED vars
  BY <1>8, QuietStep DEF vars, Waiters, Heading, Owed, statVars, mainVars, threadVars
<1>9. QED
  BY <1>1, <1>2, <1>3, <1>4, <1>5, <1>6, <1>7, <1>8
     DEF BootFails, AcceptFails, SpuriousWake, HandlerStep, DefaultSigterm, HandlerExit

(* No wakeup is lost, with any number of threads: as long as one of them   *)
(* sleeps, there is for every queued socket another on its way to the      *)
(* queue, but for the socket whose signal is still to come (server.c:120-  *)
(* 127, serverThread.c:151-169).                                           *)
THEOREM ServerNoLostWakeup == Spec => []NoLostWakeup
<1>1. Init => NoLostWakeup
  BY DEF Init, NoLostWakeup, Waiters
<1>2. TypeOK /\ NoLostWakeup /\ [Next]_vars => NoLostWakeup'
  <2> SUFFICES ASSUME TypeOK, NoLostWakeup, [Next]_vars PROVE NoLostWakeup'
    OBVIOUS
  <2>1. ASSUME NEW t \in Threads,
               ThreadStep(t) \/ ReplyFails(t) \/ Cancelled(t) \/ CancelledInWait(t)
        PROVE  NoLostWakeup'
    BY <2>1, ThreadQuiet, PopWakeup, SleepWakeup
  <2>2. QED
    BY <2>1, MainWakeup, OtherWakeup DEF Next, ServerStep, Quiescent
<1>3. QED
  BY <1>1, <1>2, ServerTypeCorrect, PTL DEF Spec

------------------------------------------------------------------------------
(* The acceptor's wakeup.                                                  *)

\* The threads that have made room and not yet said so.
Owing == {t \in Threads : tpc[t] = "signal"}

(* A step keeps AcceptorWakeup if it leaves the queue and the threads that *)
(* owe a signal alone and does not put the main thread to sleep.           *)
LEMMA QuietAcceptor ==
  ASSUME AcceptorWakeup, UNCHANGED queueVars, Owing \subseteq Owing',
         mpc' = "waiting" => mpc = "waiting"
  PROVE  AcceptorWakeup'
<1>1. Queue_full' <=> Queue_full
  BY DEF queueVars, Queue_full
<1>2. QED
  BY <1>1 DEF AcceptorWakeup, Owing

LEMMA ThreadAcceptor ==
  ASSUME TypeOK, AcceptorWakeup, NEW t \in Threads,
         ThreadStep(t) \/ ReplyFails(t) \/ Cancelled(t) \/ CancelledInWait(t)
  PROVE  AcceptorWakeup'
<1> USE DEF TypeOK, Thread, MoveThread
<1>1. CASE ThreadPop(t)
  <2>1. tpc'[t] = "signal"
    BY <1>1 DEF ThreadPop
  <2>2. QED
    BY <2>1 DEF AcceptorWakeup
<1>2. CASE ThreadSignal(t)
  <2>1. mpc' # "waiting"
    BY <1>2 DEF ThreadSignal, SignalNonfull
  <2>2. QED
    BY <2>1 DEF AcceptorWakeup
<1>3. CASE ThreadLock(t) \/ ThreadWait(t) \/ CancelledInWait(t)
  BY <1>3, QuietAcceptor DEF ThreadLock, ThreadWait, CancelledInWait, Owing, mainVars
<1>4. CASE RecvPage(t) \/ RecvNotFound(t) \/ Serve(t) \/ Bytes(t)
  BY <1>4, QuietAcceptor DEF RecvPage, RecvNotFound, Serve, Bytes, Owing, mainVars
<1>5. CASE Reply(t) \/ Close(t) \/ Cancelled(t)
  BY <1>5, QuietAcceptor DEF Reply, Close, Cancelled, Owing, mainVars
<1>6. CASE RecvFails(t) \/ ReplyFails(t)
  BY <1>6, QuietAcceptor DEF RecvFails, ReplyFails, Exit, Owing, mainVars, threadVars
<1>7. QED
  BY <1>1, <1>2, <1>3, <1>4, <1>5, <1>6 DEF ThreadStep

LEMMA MainAcceptor ==
  ASSUME TypeOK, AcceptorWakeup, MainStep
  PROVE  AcceptorWakeup'
<1>1. CASE MainWait
  <2>1. Queue_full'
    BY <1>1 DEF MainWait, queueVars, Queue_full
  <2>2. QED
    BY <2>1 DEF AcceptorWakeup
<1>2. CASE ~MainWait
  <2>1. mpc' # "waiting"
    BY <1>2 DEF MainStep, Boot, InstallHandler, Accept, MainLock, MainPush, MainSignal,
                MoveMain
  <2>2. QED
    BY <2>1 DEF AcceptorWakeup
<1>3. QED
  BY <1>1, <1>2

LEMMA OtherAcceptor ==
  ASSUME TypeOK, AcceptorWakeup,
         \/ BootFails \/ AcceptFails \/ SpuriousWake
         \/ RaiseSigterm \/ HandlerStep \/ ClientStep \/ UNCHANGED vars
  PROVE  AcceptorWakeup'
<1> USE DEF Owing
<1>1. CASE MainSpuriousWake
  BY <1>1, QuietAcceptor DEF MainSpuriousWake, MoveMain, threadVars
<1>2. ASSUME NEW t \in Threads, ThreadSpuriousWake(t) PROVE AcceptorWakeup'
  BY <1>2, QuietAcceptor DEF ThreadSpuriousWake, Thread, MoveThread, TypeOK, mainVars
<1>3. CASE \E how \in {"success", "failure", "killed"} : Exit(how)
  BY <1>3, QuietAcceptor DEF Exit, mainVars, threadVars
<1>4. CASE RaiseSigterm \/ EnterHandler \/ HandlerLock \/ HandlerDestroy
  BY <1>4, QuietAcceptor
     DEF RaiseSigterm, EnterHandler, HandlerLock, HandlerDestroy, mainVars, threadVars
<1>5. ASSUME NEW t \in Threads, HandlerCancel(t) PROVE AcceptorWakeup'
  BY <1>5, QuietAcceptor DEF HandlerCancel, mainVars, threadVars
<1>6. CASE ClientStep
  BY <1>6, QuietAcceptor
     DEF ClientStep, Connect, SendStep, Send, mainVars, threadVars
<1>7. CASE UNCHANGED vars
  BY <1>7, QuietAcceptor DEF vars, mainVars, threadVars
<1>8. QED
  BY <1>1, <1>2, <1>3, <1>4, <1>5, <1>6, <1>7
     DEF BootFails, AcceptFails, SpuriousWake, HandlerStep, DefaultSigterm, HandlerExit

(* While the main thread sleeps although the queue has room, some thread   *)
(* has yet to signal cond_nonfull (server.c:115-118, serverThread.c:162-   *)
(* 169).                                                                   *)
THEOREM ServerAcceptorWakeup == Spec => []AcceptorWakeup
<1>1. Init => AcceptorWakeup
  BY DEF Init, AcceptorWakeup
<1>2. TypeOK /\ AcceptorWakeup /\ [Next]_vars => AcceptorWakeup'
  BY ThreadAcceptor, MainAcceptor, OtherAcceptor DEF Next, ServerStep, Quiescent
<1>3. QED
  BY <1>1, <1>2, ServerTypeCorrect, PTL DEF Spec
==============================================================================
