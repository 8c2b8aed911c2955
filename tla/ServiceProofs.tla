---------------------------- MODULE ServiceProofs ----------------------------
(***************************************************************************)
(* Proofs of what the serving process does with the connections it has     *)
(* accepted: none is lost or served twice, and it implements module        *)
(* ConnectionService.  Both rest on the sequence of pending sockets, those *)
(* in the queue with the one in the main thread's hand behind them: an     *)
(* accept appends to it, a pop takes its head, and no other step of a      *)
(* running process changes it, the push included.                          *)
(***************************************************************************)
EXTENDS ServerProofs

------------------------------------------------------------------------------
(* The pending sockets.                                                    *)

(* The tail of a sequence to which an element has been appended.           *)
LEMMA TailOfAppend ==
  ASSUME NEW S, NEW q \in Seq(S), NEW e \in S, q # <<>>
  PROVE  /\ Head(Append(q, e)) = Head(q)
         /\ Tail(Append(q, e)) = Append(Tail(q), e)
<1>1. Len(q) \in Nat \ {0}
  BY EmptySeq
<1>2. /\ Append(q, e) \in Seq(S)
      /\ Len(Append(q, e)) = Len(q) + 1
      /\ \A i \in 1 .. Len(q) : Append(q, e)[i] = q[i]
      /\ Append(q, e)[Len(q) + 1] = e
  BY AppendProperties
<1>3. Append(q, e) # <<>>
  BY <1>2, <1>1
<1>4. /\ Tail(Append(q, e)) \in Seq(S)
      /\ Len(Tail(Append(q, e))) = Len(q)
      /\ \A i \in 1 .. Len(q) : Tail(Append(q, e))[i] = Append(q, e)[i + 1]
  BY <1>1, <1>2, <1>3, HeadTailProperties
<1>5. /\ Tail(q) \in Seq(S)
      /\ Len(Tail(q)) = Len(q) - 1
      /\ \A i \in 1 .. Len(q) - 1 : Tail(q)[i] = q[i + 1]
  BY HeadTailProperties
<1>6. /\ Append(Tail(q), e) \in Seq(S)
      /\ Len(Append(Tail(q), e)) = Len(q)
      /\ \A i \in 1 .. Len(q) - 1 : Append(Tail(q), e)[i] = Tail(q)[i]
      /\ Append(Tail(q), e)[Len(q)] = e
  BY <1>1, <1>5, AppendProperties
<1>7. ASSUME NEW i \in 1 .. Len(q)
      PROVE  Tail(Append(q, e))[i] = Append(Tail(q), e)[i]
  <2>1. CASE i = Len(q)
    BY <1>1, <1>2, <1>4, <1>6, <2>1
  <2>2. CASE i # Len(q)
    <3>1. i \in 1 .. Len(q) - 1 /\ i + 1 \in 1 .. Len(q)
      BY <1>1, <2>2
    <3>2. QED
      BY <1>2, <1>4, <1>5, <1>6, <3>1
  <2>3. QED
    BY <2>1, <2>2
<1>8. Tail(Append(q, e)) = Append(Tail(q), e)
  BY <1>4, <1>6, <1>7, SeqEqual
<1>9. Head(Append(q, e)) = Head(q)
  BY <1>1, <1>2, <1>3, HeadTailProperties
<1>10. QED
  BY <1>8, <1>9

(* The pending sockets are as many as the queue holds, and one more if the *)
(* main thread has one in its hand.                                        *)
LEMMA PendingType ==
  ASSUME TypeOK
  PROVE  /\ Contents \in Seq(Sockets \cup {NoSock})
         /\ Pending \in Seq(Sockets \cup {NoSock})
         /\ Len(Pending) \in 0 .. Size
         /\ ~InHand => Len(Pending) < Size
<1>1. /\ Contents \in Seq(Sockets \cup {NoSock})
      /\ Len(Contents) \in 0 .. (Size - 1)
  BY SlotType DEF TypeOK
<1>2. msock \in Sockets \cup {NoSock}
  BY DEF TypeOK
<1>3. QED
  BY <1>1, <1>2, SizeAssumption, AppendProperties DEF Pending

LEMMA PendingKept ==
  ASSUME UNCHANGED queueVars, msock' = msock
  PROVE  Contents' = Contents /\ Pending' = Pending
BY DEF queueVars, Contents, Length, Slot, Pending, InHand

(* An accept, which happens with empty hands, appends (server.c:106).      *)
LEMMA AcceptPending ==
  ASSUME TypeOK, SocketInv, Accept
  PROVE  /\ Pending' = Append(Pending, Head(backlog))
         /\ ~InHand /\ InHand'
         /\ Head(backlog) \in Sockets
<1>1. ~InHand
  BY DEF SocketInv, HandsInv, Accept, MoveMain
<1>2. Head(backlog) \in Sockets
  BY DEF Accept, TypeOK
<1>3. msock' = Head(backlog) /\ InHand'
  BY <1>2, NoSockAssumption DEF Accept, InHand
<1>4. Contents' = Contents
  BY DEF Accept, queueVars, Contents, Length, Slot
<1>5. QED
  BY <1>1, <1>2, <1>3, <1>4 DEF Pending

(* The push moves a socket from the hand to the end of the queue           *)
(* (server.c:120).                                                         *)
LEMMA PushPending ==
  ASSUME TypeOK, SocketInv, MainPush
  PROVE  Pending' = Pending /\ ~InHand'
<1>1. InHand /\ ~InHand'
  BY DEF SocketInv, HandsInv, MainPush, MoveMain, InHand
<1>2. Contents' = Append(Contents, msock)
  BY PushAppends DEF MainPush, TypeOK
<1>3. QED
  BY <1>1, <1>2 DEF Pending

(* The pop takes the socket that has been pending longest                  *)
(* (serverThread.c:161); the thread gets it unless the buffer was freed.   *)
LEMMA PopPending ==
  ASSUME TypeOK, NEW t \in Threads, ThreadPop(t)
  PROVE  /\ Pending # <<>>
         /\ Pending' = Tail(Pending)
         /\ tsock' \in {[tsock EXCEPT ![t] = Head(Pending)], [tsock EXCEPT ![t] = NoSock]}
         /\ ~destroyed => tsock' = [tsock EXCEPT ![t] = Head(Pending)]
<1>1. /\ Contents # <<>>
      /\ Queue_front = Head(Contents)
      /\ Contents' = Tail(Contents)
  BY PopTakesHead DEF ThreadPop, TypeOK
<1>2. /\ tsock' \in {[tsock EXCEPT ![t] = Head(Contents)], [tsock EXCEPT ![t] = NoSock]}
      /\ ~destroyed => tsock' = [tsock EXCEPT ![t] = Head(Contents)]
  BY <1>1 DEF ThreadPop, Popped
<1>3. msock' = msock
  BY DEF ThreadPop, mainVars
<1>4. /\ Contents \in Seq(Sockets \cup {NoSock})
      /\ Pending \in Seq(Sockets \cup {NoSock})
      /\ msock \in Sockets \cup {NoSock}
  BY PendingType DEF TypeOK
<1>5. CASE ~InHand
  BY <1>1, <1>2, <1>3, <1>5 DEF Pending, InHand
<1>6. CASE InHand
  <2>1. Pending = Append(Contents, msock) /\ Pending' = Append(Contents', msock)
    BY <1>3, <1>6 DEF Pending, InHand
  <2>2. Head(Pending) = Head(Contents) /\ Tail(Pending) = Append(Tail(Contents), msock)
    BY <1>1, <1>4, <2>1, TailOfAppend
  <2>3. Pending # <<>>
    BY <1>4, <2>1, AppendProperties
  <2>4. QED
    BY <1>1, <1>2, <2>1, <2>2, <2>3
<1>7. QED
  BY <1>5, <1>6

------------------------------------------------------------------------------
(* No socket is lost or held twice.                                        *)

(* Steps that leave the sockets alone: those of the threads between a lock *)
(* and an unlock, of the clients, of the signal.  They may change where a  *)
(* thread is, as long as what it has in its hand fits.                     *)
LEMMA QuietSockets ==
  ASSUME SocketInv, status' = "running" => status = "running", Up' => Up,
         UNCHANGED <<queueVars, msock, tsock, backlog, conn>>,
         mpc \in {"lock", "check", "waiting"} <=> mpc' \in {"lock", "check", "waiting"},
         mpc' = "boot" => mpc = "boot",
         \A t \in Threads : tpc'[t] \in {"unborn", "lock", "check", "waiting"} =>
                              tpc[t] \in {"unborn", "lock", "check", "waiting"}
  PROVE  SocketInv'
<1> SUFFICES ASSUME status' = "running"
             PROVE  HandsInv' /\ BacklogInv' /\ PendingInv' /\ (Up' => OpenHeld')
  BY DEF SocketInv, Up
<1>1. HandsInv /\ BacklogInv /\ PendingInv /\ (Up' => OpenHeld)
  BY DEF SocketInv
<1>2. Contents' = Contents /\ Pending' = Pending
  BY PendingKept
<1>3. HandsInv'
  BY <1>1, <1>2 DEF HandsInv, InHand
<1>4. BacklogInv'
  BY <1>1 DEF BacklogInv
<1>5. PendingInv'
  BY <1>1, <1>2 DEF PendingInv
<1>6. Up' => OpenHeld'
  BY <1>1, <1>2 DEF OpenHeld
<1>7. QED
  BY <1>3, <1>4, <1>5, <1>6

(* After the end of the process nothing is promised.                       *)
LEMMA ExitSockets ==
  ASSUME status' # "running"
  PROVE  SocketInv'
BY DEF SocketInv, Up

LEMMA BootSockets ==
  ASSUME TypeOK, LockInv, SocketInv, Boot
  PROVE  SocketInv'
<1> SUFFICES ASSUME status' = "running"
             PROVE  HandsInv' /\ BacklogInv' /\ PendingInv' /\ (Up' => OpenHeld')
  BY DEF SocketInv, Up
<1>1. HandsInv /\ BacklogInv /\ PendingInv /\ (Up' => Up /\ OpenHeld)
  BY DEF SocketInv, Up, Boot, worldVars, statVars
<1>2. ~InHand /\ Contents = <<>> /\ \A t \in Threads : tsock[t] = NoSock
  BY <1>1 DEF HandsInv, Boot, MoveMain, LockInv, ThreadsUnborn
<1>3. Contents' = <<>>
  <2>1. Length' = 0
    BY DEF Boot, Queue_create, CreatedQueue, Length
  <2>2. QED
    BY <2>1 DEF Contents
<1>4. /\ ~InHand' /\ Pending = <<>> /\ Pending' = <<>>
      /\ UNCHANGED <<tsock, backlog, conn>>
  BY <1>2, <1>3 DEF Pending, InHand, Boot, worldVars
<1>5. HandsInv'
  BY <1>2, <1>3, <1>4 DEF HandsInv, Boot, MoveMain
<1>6. BacklogInv'
  BY <1>1, <1>4 DEF BacklogInv
<1>7. PendingInv'
  BY <1>1, <1>4 DEF PendingInv
<1>8. Up' => OpenHeld'
  BY <1>1, <1>4 DEF OpenHeld
<1>9. QED
  BY <1>5, <1>6, <1>7, <1>8

(* The accepted socket was waiting in the backlog, so nobody has it.       *)
LEMMA AcceptSockets ==
  ASSUME TypeOK, SocketInv, Accept
  PROVE  SocketInv'
<1> SUFFICES ASSUME status' = "running"
             PROVE  HandsInv' /\ BacklogInv' /\ PendingInv' /\ (Up' => OpenHeld')
  BY DEF SocketInv, Up
<1> DEFINE new == Head(backlog)
           n == Len(Pending)
<1>1. HandsInv /\ BacklogInv /\ PendingInv /\ (Up' => Up /\ OpenHeld)
  BY DEF SocketInv, Up, Accept, statVars
<1>2. /\ Pending' = Append(Pending, new)
      /\ ~InHand /\ InHand'
      /\ new \in Sockets
  BY <1>1, AcceptPending
<1>3. backlog # <<>> /\ backlog \in Seq(Sockets) /\ backlog' = Tail(backlog)
  BY DEF Accept, TypeOK
<1>4. /\ Len(backlog) \in Nat \ {0}
      /\ Len(backlog') = Len(backlog) - 1
      /\ new = backlog[1]
      /\ \A i \in 1 .. Len(backlog) - 1 : backlog'[i] = backlog[i + 1]
  BY <1>3, HeadTailProperties, EmptySeq
<1>5. /\ conn' = [conn EXCEPT ![new] = "open"]
      /\ conn \in [Sockets -> {"new", "backlog", "open", "closed", "refused"}]
      /\ conn[new] = "backlog"
  BY <1>1, <1>4 DEF Accept, BacklogInv, TypeOK
<1>6. HandsInv'
  BY <1>1, <1>2 DEF HandsInv, Accept, MoveMain, threadVars
<1>7. BacklogInv'
  <2>1. \A i \in 1 .. Len(backlog') : i + 1 \in 1 .. Len(backlog) /\ i + 1 # 1
    BY <1>4
  <2>2. \A i \in 1 .. Len(backlog') : backlog'[i] # new /\ conn[backlog'[i]] = "backlog"
    BY <1>1, <1>4, <2>1 DEF BacklogInv
  <2>3. \A i \in 1 .. Len(backlog') : backlog'[i] \in Sockets
    BY <1>3, <1>4, <2>1
  <2>4. \A i \in 1 .. Len(backlog') : conn'[backlog'[i]] = "backlog"
    BY <1>5, <2>2, <2>3
  <2>5. \A i, j \in 1 .. Len(backlog') : backlog'[i] = backlog'[j] => i = j
    BY <1>1, <1>4, <2>1 DEF BacklogInv
  <2>6. QED
    BY <2>4, <2>5 DEF BacklogInv
<1>8. PendingInv'
  <2>1. /\ Pending \in Seq(Sockets) /\ n \in Nat
        /\ Pending' \in Seq(Sockets)
        /\ Len(Pending') = n + 1
        /\ \A i \in 1 .. n : Pending'[i] = Pending[i]
        /\ Pending'[n + 1] = new
    BY <1>1, <1>2, AppendProperties DEF PendingInv
  <2>2. /\ \A i \in 1 .. n : Pending[i] # new
        /\ \A t \in Threads : tsock[t] # new
    BY <1>1, <1>2, <1>5, NoSockAssumption DEF PendingInv
  <2>3. tsock' = tsock
    BY DEF Accept, threadVars
  <2>4. \A i \in 1 .. n + 1 : i = n + 1 \/ i \in 1 .. n
    BY <2>1
  <2>5. \A i, j \in 1 .. n + 1 : Pending'[i] = Pending'[j] => i = j
    BY <1>1, <2>1, <2>2, <2>4 DEF PendingInv
  <2>6. \A t \in Threads, i \in 1 .. n + 1 : Pending'[i] # tsock'[t]
    BY <1>1, <2>1, <2>2, <2>3, <2>4 DEF PendingInv
  <2>7. \A i \in 1 .. n : Pending[i] \in Sockets /\ conn'[Pending[i]] = "open"
    BY <1>1, <1>5, <2>1, <2>2 DEF PendingInv
  <2>8. \A i \in 1 .. n + 1 : conn'[Pending'[i]] = "open"
    BY <1>2, <1>5, <2>1, <2>4, <2>7
  <2>9. \A t \in Threads : tsock'[t] # NoSock => conn'[tsock'[t]] = "open"
    BY <1>1, <1>5, <2>2, <2>3 DEF PendingInv, TypeOK
  <2>10. QED
    BY <1>1, <2>1, <2>3, <2>5, <2>6, <2>8, <2>9 DEF PendingInv
<1>9. ASSUME Up', NEW s \in Sockets, conn'[s] = "open"
      PROVE  \/ \E i \in 1 .. Len(Pending') : Pending'[i] = s
             \/ \E t \in Threads : tsock'[t] = s
  <2>1. /\ n \in Nat /\ Len(Pending') = n + 1
        /\ \A i \in 1 .. n : i \in 1 .. n + 1 /\ Pending'[i] = Pending[i]
        /\ n + 1 \in 1 .. n + 1 /\ Pending'[n + 1] = new
    BY <1>1, <1>2, AppendProperties DEF PendingInv
  <2>2. tsock' = tsock
    BY DEF Accept, threadVars
  <2>3. CASE s = new
    BY <2>1, <2>3
  <2>4. CASE s # new
    BY <1>1, <1>5, <1>9, <2>1, <2>2, <2>4 DEF OpenHeld
  <2>5. QED
    BY <2>3, <2>4
<1>10. QED
  BY <1>6, <1>7, <1>8, <1>9 DEF OpenHeld

(* The push.                                                               *)
LEMMA PushSockets ==
  ASSUME TypeOK, SocketInv, MainPush
  PROVE  SocketInv'
<1> SUFFICES ASSUME status' = "running"
             PROVE  HandsInv' /\ BacklogInv' /\ PendingInv' /\ (Up' => OpenHeld')
  BY DEF SocketInv, Up
<1>1. HandsInv /\ BacklogInv /\ PendingInv /\ (Up' => Up /\ OpenHeld)
  BY DEF SocketInv, Up, MainPush, worldVars, statVars
<1>2. Pending' = Pending /\ ~InHand'
  BY <1>1, PushPending
<1>3. UNCHANGED <<tpc, tsock, backlog, conn>>
  BY DEF MainPush, threadVars, worldVars
<1>4. mpc' = "signal"
  BY DEF MainPush, MoveMain
<1>5. HandsInv'
  BY <1>1, <1>2, <1>3, <1>4 DEF HandsInv
<1>6. BacklogInv' /\ PendingInv' /\ (Up' => OpenHeld')
  BY <1>1, <1>2, <1>3 DEF BacklogInv, PendingInv, OpenHeld
<1>7. QED
  BY <1>5, <1>6

(* The socket that is popped goes from the head of the pending sockets to  *)
(* the thread, whose hands were empty.                                     *)
LEMMA PopSockets ==
  ASSUME TypeOK, SocketInv, NEW t \in Threads, ThreadPop(t)
  PROVE  SocketInv'
<1> SUFFICES ASSUME status' = "running"
             PROVE  HandsInv' /\ BacklogInv' /\ PendingInv' /\ (Up' => OpenHeld')
  BY DEF SocketInv, Up
<1> DEFINE n == Len(Pending)
           first == Pending[1]
<1>1. HandsInv /\ BacklogInv /\ PendingInv /\ (Up' => Up /\ OpenHeld)
  BY DEF SocketInv, Up, ThreadPop, worldVars, statVars
<1>2. /\ Pending # <<>>
      /\ Pending' = Tail(Pending)
      /\ tsock' \in {[tsock EXCEPT ![t] = Head(Pending)], [tsock EXCEPT ![t] = NoSock]}
      /\ Up' => tsock' = [tsock EXCEPT ![t] = Head(Pending)]
  BY <1>1, PopPending DEF Up
<1>3. /\ Pending \in Seq(Sockets)
      /\ n \in Nat \ {0} /\ 1 \in 1 .. n
      /\ Head(Pending) = first /\ first \in Sockets
      /\ Pending' \in Seq(Sockets)
      /\ Len(Pending') = n - 1
      /\ \A i \in 1 .. n - 1 : Pending'[i] = Pending[i + 1] /\ i + 1 \in 1 .. n /\ i + 1 # 1
  BY <1>1, <1>2, EmptySeq, HeadTailProperties DEF PendingInv
<1>4. /\ tpc[t] = "check" /\ tpc' = [tpc EXCEPT ![t] = "signal"]
      /\ UNCHANGED <<mpc, msock, backlog, conn>>
      /\ tpc \in [Threads -> ThreadLabels]
      /\ tsock \in [Threads -> Sockets \cup {NoSock}]
  BY DEF ThreadPop, Thread, MoveThread, mainVars, worldVars, TypeOK
<1>5. tsock[t] = NoSock
  BY <1>1, <1>4 DEF HandsInv
<1>6. HandsInv'
  <2>1. mpc # "boot"
    BY <1>1, EmptyAndFull, SlotType DEF HandsInv, ThreadPop, TypeOK
  <2>2. QED
    BY <1>1, <1>2, <1>4, <2>1 DEF HandsInv, InHand
<1>7. BacklogInv'
  BY <1>1, <1>4 DEF BacklogInv
<1>8. PendingInv'
  <2>1. /\ \A i \in 1 .. n - 1 : Pending'[i] # first
        /\ \A u \in Threads : tsock[u] # first
    BY <1>1, <1>3 DEF PendingInv
  <2>2. \A i, j \in 1 .. n - 1 : Pending'[i] = Pending'[j] => i = j
    BY <1>1, <1>3 DEF PendingInv
  <2>3. PICK held \in {first, NoSock} :
          \A u \in Threads : tsock'[u] = IF u = t THEN held ELSE tsock[u]
    BY <1>2, <1>3, <1>4
  <2>4. \A u, v \in Threads : tsock'[u] = tsock'[v] /\ tsock'[u] # NoSock => u = v
    BY <1>1, <2>1, <2>3 DEF PendingInv
  <2>5. \A i \in 1 .. n - 1 : Pending'[i] \in Sockets
    BY <1>3
  <2>6. \A u \in Threads, i \in 1 .. n - 1 : Pending'[i] # tsock'[u]
    BY <1>1, <1>3, <2>1, <2>3, <2>5, NoSockAssumption DEF PendingInv
  <2>7. \A i \in 1 .. n - 1 : conn'[Pending'[i]] = "open"
    BY <1>1, <1>3, <1>4 DEF PendingInv
  <2>8. conn[first] = "open"
    BY <1>1, <1>3 DEF PendingInv
  <2>9. \A u \in Threads : tsock'[u] # NoSock => conn'[tsock'[u]] = "open"
    BY <1>1, <1>4, <2>3, <2>8 DEF PendingInv
  <2>10. QED
    BY <1>3, <2>2, <2>4, <2>6, <2>7, <2>9 DEF PendingInv
<1>9. ASSUME Up', NEW s \in Sockets, conn'[s] = "open"
      PROVE  \/ \E i \in 1 .. Len(Pending') : Pending'[i] = s
             \/ \E u \in Threads : tsock'[u] = s
  <2>1. \A u \in Threads : tsock'[u] = IF u = t THEN first ELSE tsock[u]
    BY <1>2, <1>3, <1>4, <1>9
  <2>2. (\E i \in 1 .. n : Pending[i] = s) \/ (\E u \in Threads : tsock[u] = s)
    BY <1>1, <1>4, <1>9 DEF OpenHeld
  <2>3. CASE \E u \in Threads : tsock[u] = s
    BY <1>5, <2>1, <2>3, NoSockAssumption
  <2>4. ASSUME NEW i \in 1 .. n, Pending[i] = s
        PROVE  \/ \E k \in 1 .. n - 1 : Pending'[k] = s
               \/ \E u \in Threads : tsock'[u] = s
    <3>1. CASE i = 1
      BY <2>1, <2>4, <3>1
    <3>2. CASE i # 1
      <4>1. i - 1 \in 1 .. n - 1 /\ Pending'[i - 1] = Pending[i]
        BY <1>3, <3>2
      <4>2. QED
        BY <2>4, <4>1
    <3>3. QED
      BY <3>1, <3>2
  <2>5. QED
    BY <1>3, <2>2, <2>3, <2>4
<1>10. QED
  BY <1>6, <1>7, <1>8, <1>9 DEF OpenHeld

(* The thread closes the only descriptor it has.                           *)
LEMMA CloseSockets ==
  ASSUME TypeOK, SocketInv, NEW t \in Threads, Close(t)
  PROVE  SocketInv'
<1> SUFFICES ASSUME status' = "running"
             PROVE  HandsInv' /\ BacklogInv' /\ PendingInv' /\ (Up' => OpenHeld')
  BY DEF SocketInv, Up
<1>1. HandsInv /\ BacklogInv /\ PendingInv /\ (Up' => Up /\ OpenHeld)
  BY DEF SocketInv, Up, Close, statVars
<1>2. /\ Contents' = Contents /\ Pending' = Pending
      /\ UNCHANGED <<mpc, msock, backlog>>
  BY PendingKept DEF Close, mainVars
<1>3. /\ tpc[t] = "close" /\ tpc' = [tpc EXCEPT ![t] = "lock"]
      /\ tsock' = [tsock EXCEPT ![t] = NoSock]
      /\ conn' = [conn EXCEPT ![tsock[t]] = "closed"]
      /\ tpc \in [Threads -> ThreadLabels]
      /\ tsock \in [Threads -> Sockets \cup {NoSock}]
      /\ conn \in [Sockets -> {"new", "backlog", "open", "closed", "refused"}]
  BY DEF Close, Thread, MoveThread, TypeOK
<1>4. \A u \in Threads : tsock'[u] = IF u = t THEN NoSock ELSE tsock[u]
  BY <1>3
<1>5. \A s \in Sockets : conn'[s] = IF s = tsock[t] THEN "closed" ELSE conn[s]
  BY <1>3
<1>6. HandsInv'
  BY <1>1, <1>2, <1>3 DEF HandsInv, InHand
<1>7. BacklogInv'
  <2>1. \A i \in 1 .. Len(backlog) : backlog[i] \in Sockets
    BY DEF TypeOK
  <2>2. \A i \in 1 .. Len(backlog) : backlog[i] # tsock[t]
    BY <1>1, <2>1, NoSockAssumption DEF BacklogInv, PendingInv
  <2>3. QED
    BY <1>1, <1>2, <1>5, <2>1, <2>2 DEF BacklogInv
<1>8. PendingInv'
  <2>1. \A i \in 1 .. Len(Pending) : Pending[i] \in Sockets
    BY <1>1 DEF PendingInv
  <2>2. \A u \in Threads, i \in 1 .. Len(Pending) : Pending[i] # tsock'[u]
    BY <1>1, <1>4, <2>1, NoSockAssumption DEF PendingInv
  <2>3. \A u, v \in Threads : tsock'[u] = tsock'[v] /\ tsock'[u] # NoSock => u = v
    BY <1>1, <1>4 DEF PendingInv
  <2>4. \A i \in 1 .. Len(Pending) : conn'[Pending[i]] = "open"
    BY <1>1, <1>5, <2>1 DEF PendingInv
  <2>5. \A u \in Threads : tsock'[u] # NoSock => conn'[tsock'[u]] = "open"
    BY <1>1, <1>3, <1>4, <1>5 DEF PendingInv
  <2>6. QED
    BY <1>1, <1>2, <2>2, <2>3, <2>4, <2>5 DEF PendingInv
<1>9. Up' => OpenHeld'
  BY <1>1, <1>2, <1>4, <1>5 DEF OpenHeld
<1>10. QED
  BY <1>6, <1>7, <1>8, <1>9

(* A new connection waits in the backlog, where it is the only one of its  *)
(* kind.                                                                   *)
LEMMA ConnectSockets ==
  ASSUME TypeOK, SocketInv, NEW s \in Sockets, Connect(s)
  PROVE  SocketInv'
<1> SUFFICES ASSUME status' = "running"
             PROVE  HandsInv' /\ BacklogInv' /\ PendingInv' /\ (Up' => OpenHeld')
  BY DEF SocketInv, Up
<1> DEFINE n == Len(backlog)
<1>1. HandsInv /\ BacklogInv /\ PendingInv /\ (Up' => Up /\ OpenHeld)
  BY DEF SocketInv, Up, Connect, statVars
<1>2. /\ Contents' = Contents /\ Pending' = Pending
      /\ UNCHANGED <<mpc, msock, tpc, tsock>>
  BY PendingKept DEF Connect, mainVars, threadVars
<1>3. /\ conn[s] = "new" /\ conn' = [conn EXCEPT ![s] = "backlog"]
      /\ conn \in [Sockets -> {"new", "backlog", "open", "closed", "refused"}]
      /\ backlog \in Seq(Sockets)
      /\ backlog' = Append(backlog, s)
  BY DEF Connect, TypeOK
<1>4. /\ n \in Nat /\ Len(backlog') = n + 1
      /\ \A i \in 1 .. n : backlog'[i] = backlog[i] /\ backlog[i] \in Sockets
      /\ backlog'[n + 1] = s
      /\ \A i \in 1 .. n + 1 : i = n + 1 \/ i \in 1 .. n
  BY <1>3, AppendProperties
<1>5. HandsInv'
  BY <1>1, <1>2 DEF HandsInv, InHand
<1>6. BacklogInv'
  <2>1. \A i \in 1 .. n : backlog[i] # s
    BY <1>1, <1>3 DEF BacklogInv
  <2>2. \A i \in 1 .. n + 1 : conn'[backlog'[i]] = "backlog"
    BY <1>1, <1>3, <1>4, <2>1 DEF BacklogInv
  <2>3. \A i, j \in 1 .. n + 1 : backlog'[i] = backlog'[j] => i = j
    BY <1>1, <1>4, <2>1 DEF BacklogInv
  <2>4. QED
    BY <1>4, <2>2, <2>3 DEF BacklogInv
<1>7. PendingInv'
  <2>1. \A c \in Sockets : conn[c] = "open" => conn'[c] = "open"
    BY <1>3
  <2>2. \A i \in 1 .. Len(Pending) : Pending[i] \in Sockets
    BY <1>1 DEF PendingInv
  <2>3. \A t \in Threads : tsock[t] # NoSock => tsock[t] \in Sockets
    BY DEF TypeOK
  <2>4. QED
    BY <1>1, <1>2, <2>1, <2>2, <2>3 DEF PendingInv
<1>8. Up' => OpenHeld'
  BY <1>1, <1>2, <1>3 DEF OpenHeld
<1>9. QED
  BY <1>5, <1>6, <1>7, <1>8

LEMMA MainSockets ==
  ASSUME TypeOK, LockInv, SocketInv, MainStep
  PROVE  SocketInv'
<1>1. CASE InstallHandler \/ MainLock \/ MainWait
  BY <1>1, QuietSockets
     DEF InstallHandler, MainLock, MainWait, MoveMain, Up, statVars, threadVars, worldVars
<1>2. CASE MainSignal
  BY <1>2, QuietSockets
     DEF MainSignal, SignalNonempty, MoveThread, MoveMain, Waiters, TypeOK, Up, statVars,
         worldVars
<1>3. QED
  BY <1>1, <1>2, BootSockets, AcceptSockets, PushSockets DEF MainStep

LEMMA ThreadSockets ==
  ASSUME TypeOK, SocketInv, NEW t \in Threads,
         ThreadStep(t) \/ ReplyFails(t) \/ Cancelled(t) \/ CancelledInWait(t)
  PROVE  SocketInv'
<1> USE DEF TypeOK, Thread, MoveThread, Up
<1>1. CASE ThreadLock(t) \/ ThreadWait(t) \/ CancelledInWait(t)
  BY <1>1, QuietSockets
     DEF ThreadLock, ThreadWait, CancelledInWait, statVars, mainVars, worldVars
<1>2. CASE ThreadSignal(t)
  <2>1. mpc' = mpc \/ (mpc = "waiting" /\ mpc' = "lock")
    BY <1>2 DEF ThreadSignal, SignalNonfull
  <2>2. QED
    BY <1>2, <2>1, QuietSockets DEF ThreadSignal, statVars, worldVars
<1>3. CASE RecvPage(t) \/ RecvNotFound(t) \/ Serve(t) \/ Bytes(t)
  BY <1>3, QuietSockets DEF RecvPage, RecvNotFound, Serve, Bytes, statVars, mainVars, worldVars
<1>4. CASE Reply(t) \/ Cancelled(t)
  BY <1>4, QuietSockets DEF Reply, Cancelled, statVars, mainVars, worldVars
<1>5. CASE RecvFails(t) \/ ReplyFails(t)
  BY <1>5, ExitSockets DEF RecvFails, ReplyFails, Exit
<1>6. QED
  BY <1>1, <1>2, <1>3, <1>4, <1>5, PopSockets, CloseSockets DEF ThreadStep

LEMMA OtherSockets ==
  ASSUME TypeOK, SocketInv,
         \/ BootFails \/ AcceptFails \/ SpuriousWake
         \/ RaiseSigterm \/ HandlerStep \/ ClientStep \/ UNCHANGED vars
  PROVE  SocketInv'
<1>1. CASE MainSpuriousWake
  BY <1>1, QuietSockets
     DEF MainSpuriousWake, MoveMain, Up, statVars, threadVars, worldVars
<1>2. ASSUME NEW t \in Threads, ThreadSpuriousWake(t) PROVE SocketInv'
  BY <1>2, QuietSockets
     DEF ThreadSpuriousWake, Thread, MoveThread, TypeOK, Up, statVars, mainVars, worldVars
<1>3. CASE \E how \in {"success", "failure", "killed"} : Exit(how)
  BY <1>3, ExitSockets DEF Exit
<1>4. CASE RaiseSigterm \/ EnterHandler \/ HandlerLock \/ HandlerDestroy
  BY <1>4, QuietSockets
     DEF RaiseSigterm, EnterHandler, HandlerLock, HandlerDestroy, Up, statVars, mainVars,
         threadVars, worldVars
<1>5. ASSUME NEW t \in Threads, HandlerCancel(t) PROVE SocketInv'
  BY <1>5, QuietSockets DEF HandlerCancel, Up, statVars, mainVars, threadVars, worldVars
<1>6. ASSUME NEW s \in Sockets, NEW kind, Send(s, kind) PROVE SocketInv'
  BY <1>6, QuietSockets DEF Send, Up, statVars, mainVars, threadVars
<1>7. CASE UNCHANGED vars
  BY <1>7, QuietSockets DEF vars, Up, statVars, mainVars, threadVars, worldVars
<1>8. QED
  BY <1>1, <1>2, <1>3, <1>4, <1>5, <1>6, <1>7, ConnectSockets
     DEF BootFails, AcceptFails, SpuriousWake, HandlerStep, DefaultSigterm, HandlerExit,
         ClientStep, SendStep

(* The inductive invariant: who has which socket, and which parts of the   *)
(* loops hold one.                                                         *)
LEMMA ServerSocketInv == Spec => []SocketInv
<1>1. Init => SocketInv
  <2> SUFFICES ASSUME Init PROVE HandsInv /\ BacklogInv /\ PendingInv /\ OpenHeld
    BY DEF SocketInv
  <2>1. Contents = <<>>
    <3>1. Length = 0
      BY DEF Init, QueueInit, CreatedQueue, Length
    <3>2. QED
      BY <3>1 DEF Contents
  <2>2. ~InHand /\ Pending = <<>>
    BY <2>1 DEF Init, Pending, InHand
  <2>3. QED
    BY <2>1, <2>2, NoSockAssumption DEF Init, HandsInv, BacklogInv, PendingInv, OpenHeld
<1>2. TypeOK /\ LockInv /\ SocketInv /\ [Next]_vars => SocketInv'
  BY MainSockets, ThreadSockets, OtherSockets DEF Next, ServerStep, Quiescent
<1>3. QED
  BY <1>1, <1>2, ServerTypeCorrect, ServerLockInv, PTL DEF Spec

(* The slots of the queue hold the pending sockets, but for the one in the *)
(* main thread's hand.                                                     *)
LEMMA QueuedArePending ==
  ASSUME TypeOK
  PROVE  /\ \A i \in Queued : \E k \in 1 .. Length : i = Slot(k) /\ Pending[k] = buffer[i]
         /\ \A k \in 1 .. Length : Slot(k) \in Queued /\ buffer[Slot(k)] = Pending[k]
         /\ Length \in Nat
         /\ InHand => Len(Pending) = Length + 1 /\ Pending[Length + 1] = msock
         /\ ~InHand => Len(Pending) = Length
<1>1. /\ Contents \in Seq(Sockets \cup {NoSock})
      /\ Length \in Nat /\ Len(Contents) = Length
      /\ \A k \in 1 .. Length : Contents[k] = buffer[Slot(k)]
  BY SlotType DEF TypeOK, Contents
<1>2. msock \in Sockets \cup {NoSock}
  BY DEF TypeOK
<1>3. /\ InHand => Len(Pending) = Length + 1 /\ Pending[Length + 1] = msock
      /\ ~InHand => Len(Pending) = Length
      /\ \A k \in 1 .. Length : Pending[k] = Contents[k]
  BY <1>1, <1>2, AppendProperties DEF Pending
<1>4. QED
  BY <1>1, <1>3 DEF Queued

(* As long as the server accepts and serves, with any number of threads    *)
(* and connections: a descriptor is open if and only if the main thread    *)
(* has it in its hand, a slot of the queue holds it, or a serving thread   *)
(* has it, and it is in only one of these places.  So no accepted          *)
(* connection is forgotten, and none is answered or closed by two threads, *)
(* though the kernel may give its number to a new connection as soon as it *)
(* is closed (server.c:104-120, serverThread.c:161-170, queue.c:57-71).    *)
THEOREM ServerSocketsConserved == Spec => []SocketsConserved
<1>1. TypeOK /\ SocketInv => SocketsConserved
  <2> SUFFICES ASSUME TypeOK, SocketInv, Up PROVE SocketsConserved
    BY DEF SocketsConserved, Up
  <2> DEFINE n == Len(Pending)
  <2>1. HandsInv /\ BacklogInv /\ PendingInv /\ OpenHeld
    BY DEF SocketInv, Up
  <2>2. n \in Nat /\ \A i \in 1 .. n : Pending[i] \in Sockets
    BY <2>1 DEF PendingInv
  <2>3. \A k \in 1 .. Length : k \in 1 .. n
    BY <2>2, QueuedArePending
  <2>4. InHand => n \in 1 .. n /\ n \notin 1 .. Length /\ Pending[n] = msock
    BY <2>2, QueuedArePending
  <2>5. \A k \in 1 .. n : k \in 1 .. Length \/ (InHand /\ k = n)
    BY <2>2, QueuedArePending
  <2>6. \A i \in Queued : \E k \in 1 .. n : k \in 1 .. Length /\ i = Slot(k) /\ Pending[k] = buffer[i]
    BY <2>3, QueuedArePending
  <2>7. ASSUME NEW s \in Sockets
        PROVE  (\E k \in 1 .. n : Pending[k] = s)
                 <=> msock = s \/ \E i \in Queued : buffer[i] = s
    <3>1. ASSUME NEW k \in 1 .. n, Pending[k] = s
          PROVE  msock = s \/ \E i \in Queued : buffer[i] = s
      BY <2>4, <2>5, <3>1, QueuedArePending
    <3>2. ASSUME msock = s PROVE \E k \in 1 .. n : Pending[k] = s
      BY <2>4, <3>2, NoSockAssumption DEF InHand
    <3>3. QED
      BY <2>6, <3>1, <3>2
  <2>8. \A i \in Queued : buffer[i] \in Sockets
    BY <2>2, <2>6
  <2>9. \A i, j \in Queued : buffer[i] = buffer[j] => i = j
    BY <2>1, <2>6 DEF PendingInv
  <2>10. InHand => \A i \in Queued : buffer[i] # msock
    BY <2>1, <2>4, <2>6 DEF PendingInv
  <2>11. ASSUME NEW t \in Threads, tsock[t] # NoSock
         PROVE  tsock[t] # msock /\ \A i \in Queued : buffer[i] # tsock[t]
    <3>1. \A i \in Queued : buffer[i] # tsock[t]
      BY <2>1, <2>6 DEF PendingInv
    <3>2. tsock[t] # msock
      BY <2>1, <2>4, <2>11 DEF PendingInv, InHand
    <3>3. QED
      BY <3>1, <3>2
  <2>12. \A s \in Sockets :
           conn[s] = "open" <=>
             (\E k \in 1 .. n : Pending[k] = s) \/ (\E t \in Threads : tsock[t] = s)
    BY <2>1, NoSockAssumption DEF PendingInv, OpenHeld
  <2>13. QED
    BY <2>1, <2>7, <2>8, <2>9, <2>10, <2>11, <2>12 DEF SocketsConserved, PendingInv
<1>2. QED
  BY <1>1, ServerTypeCorrect, ServerSocketInv, PTL

------------------------------------------------------------------------------
(* The refinement.                                                         *)

serviceVars == <<Up, ServiceWaiting, ServiceServing, ServiceFinished>>

(* A step of a running process that touches no socket is a stutter.        *)
LEMMA QuietService ==
  ASSUME Up' = Up, Up => UNCHANGED <<Pending, tsock>>,
         Up => \A s \in Sockets : conn'[s] = "closed" <=> conn[s] = "closed"
  PROVE  UNCHANGED serviceVars
BY DEF serviceVars, ServiceWaiting, ServiceServing, ServiceFinished

(* The end of the process, and the release of the buffer, are a Stop.      *)
LEMMA StopService ==
  ASSUME Up, ~Up'
  PROVE  Service!Stop
BY DEF ServiceWaiting, ServiceServing, ServiceFinished, Service!Stop, Service!Idle

(* Nothing brings the process back.                                        *)
LEMMA StaysDown ==
  ASSUME [Next]_vars, ~Up
  PROVE  ~Up'
<1> USE DEF Up
<1>1. ASSUME NEW how, Exit(how) PROVE ~Up'
  BY <1>1 DEF Exit, statVars
<1>2. CASE MainStep
  BY <1>2 DEF MainStep, Boot, InstallHandler, Accept, MainLock, MainWait, MainPush, MainSignal,
              statVars, worldVars
<1>3. ASSUME NEW t \in Threads,
             ThreadStep(t) \/ ReplyFails(t) \/ Cancelled(t) \/ CancelledInWait(t)
      PROVE  ~Up'
  BY <1>1, <1>3
     DEF ThreadStep, ThreadLock, ThreadWait, ThreadPop, ThreadSignal, RecvPage, RecvNotFound,
         RecvFails, Serve, Bytes, Reply, ReplyFails, Close, Cancelled, CancelledInWait,
         statVars, worldVars
<1>4. CASE SpuriousWake
  BY <1>4 DEF SpuriousWake, MainSpuriousWake, ThreadSpuriousWake, statVars, worldVars
<1>5. CASE RaiseSigterm \/ HandlerStep
  BY <1>1, <1>5
     DEF RaiseSigterm, HandlerStep, DefaultSigterm, EnterHandler, HandlerLock, HandlerDestroy,
         HandlerCancel, HandlerExit, statVars, worldVars
<1>6. CASE ClientStep
  BY <1>6 DEF ClientStep, SendStep, Send, Connect, statVars
<1>7. CASE UNCHANGED vars
  BY <1>7 DEF vars, statVars, worldVars
<1>8. QED
  BY <1>1, <1>2, <1>3, <1>4, <1>5, <1>6, <1>7
     DEF Next, ServerStep, BootFails, AcceptFails, Quiescent

(* An accept takes a connection that was not accepted before, and finds    *)
(* room for it.                                                            *)
LEMMA AcceptService ==
  ASSUME TypeOK, SocketInv, Up, Up', Accept
  PROVE  \E c \in Sockets : Service!Accept(c)
<1> DEFINE new == Head(backlog)
<1>1. HandsInv /\ BacklogInv /\ PendingInv
  BY DEF SocketInv, Up
<1>2. /\ Pending' = Append(Pending, new)
      /\ ~InHand
      /\ new \in Sockets
  BY AcceptPending
<1>3. Len(Pending) < Size
  BY <1>2, PendingType
<1>4. conn[new] = "backlog" /\ conn' = [conn EXCEPT ![new] = "open"]
  <2>1. Len(backlog) \in Nat \ {0} /\ new = backlog[1]
    BY EmptySeq, HeadTailProperties DEF Accept, TypeOK
  <2>2. QED
    BY <1>1, <2>1 DEF Accept, BacklogInv
<1>5. new \notin Service!Accepted
  <2>1. \A i \in 1 .. Len(Pending) : Pending[i] # new
    BY <1>1, <1>2, <1>4 DEF PendingInv
  <2>2. \A t \in Threads : tsock[t] # new
    BY <1>1, <1>2, <1>4, NoSockAssumption DEF PendingInv
  <2>3. QED
    BY <1>4, <2>1, <2>2
       DEF Service!Accepted, ServiceWaiting, ServiceServing, ServiceFinished
<1>6. /\ ServiceWaiting' = Append(ServiceWaiting, new)
      /\ ServiceServing' = ServiceServing
      /\ ServiceFinished' = ServiceFinished
  <2>1. tsock' = tsock
    BY DEF Accept, threadVars
  <2>2. \A s \in Sockets : conn'[s] = "closed" <=> conn[s] = "closed"
    BY <1>4 DEF TypeOK
  <2>3. QED
    BY <1>2, <2>1, <2>2 DEF ServiceWaiting, ServiceServing, ServiceFinished
<1>7. Service!Accept(new)
  BY <1>3, <1>5, <1>6 DEF Service!Accept, ServiceWaiting
<1>8. QED
  BY <1>2, <1>7

(* A pop is a Take.                                                        *)
LEMMA PopService ==
  ASSUME TypeOK, SocketInv, Up, Up', NEW t \in Threads, ThreadPop(t)
  PROVE  Service!Take(t)
<1>1. /\ Pending # <<>>
      /\ Pending' = Tail(Pending)
      /\ tsock' = [tsock EXCEPT ![t] = Head(Pending)]
  BY PopPending DEF Up
<1>2. tsock[t] = NoSock
  BY DEF SocketInv, HandsInv, ThreadPop, Thread, MoveThread, Up
<1>3. conn' = conn
  BY DEF ThreadPop, worldVars
<1>4. QED
  BY <1>1, <1>2, <1>3 DEF Service!Take, ServiceWaiting, ServiceServing, ServiceFinished

(* A close is a Finish, or nothing if the thread has no connection.        *)
LEMMA CloseService ==
  ASSUME TypeOK, Up, Up', NEW t \in Threads, Close(t)
  PROVE  Service!Finish(t) \/ UNCHANGED serviceVars
<1>1. Pending' = Pending
  BY PendingKept DEF Close, mainVars
<1>2. /\ tsock' = [tsock EXCEPT ![t] = NoSock]
      /\ conn' = [conn EXCEPT ![tsock[t]] = "closed"]
      /\ tsock \in [Threads -> Sockets \cup {NoSock}]
      /\ conn \in [Sockets -> {"new", "backlog", "open", "closed", "refused"}]
  BY DEF Close, TypeOK
<1>3. CASE tsock[t] = NoSock
  <2>1. tsock' = tsock /\ conn' = conn
    BY <1>2, <1>3, NoSockAssumption
  <2>2. QED
    BY <1>1, <2>1, QuietService
<1>4. CASE tsock[t] # NoSock
  <2>1. tsock[t] \in Sockets
    BY <1>2, <1>4
  <2>2. {s \in Sockets : conn'[s] = "closed"}
          = {s \in Sockets : conn[s] = "closed"} \cup {tsock[t]}
    BY <1>2, <2>1
  <2>3. QED
    BY <1>1, <1>2, <1>4, <2>2
       DEF Service!Finish, ServiceWaiting, ServiceServing, ServiceFinished
<1>5. QED
  BY <1>3, <1>4

(* Every other step is a stutter.                                          *)
LEMMA OtherService ==
  ASSUME TypeOK, LockInv, SocketInv, Up, Up', [Next]_vars,
         ~Accept, \A t \in Threads : ~ThreadPop(t) /\ ~Close(t)
  PROVE  UNCHANGED serviceVars
<1>1. CASE Boot
  <2>1. /\ Contents = <<>> /\ ~InHand
    BY <1>1 DEF SocketInv, HandsInv, Boot, MoveMain, Up
  <2>2. Contents' = <<>>
    <3>1. Length' = 0
      BY <1>1 DEF Boot, Queue_create, CreatedQueue, Length
    <3>2. QED
      BY <3>1 DEF Contents
  <2>3. UNCHANGED <<Pending, tsock, conn>>
    BY <1>1, <2>1, <2>2 DEF Boot, Pending, InHand, worldVars
  <2>4. QED
    BY <2>3, QuietService
<1>2. CASE MainPush
  BY <1>2, PushPending, QuietService DEF MainPush, threadVars, worldVars
<1>3. CASE InstallHandler \/ MainLock \/ MainWait \/ MainSignal \/ MainSpuriousWake
  BY <1>3, PendingKept, QuietService
     DEF InstallHandler, MainLock, MainWait, MainSignal, MainSpuriousWake, threadVars, worldVars
<1>4. ASSUME NEW t \in Threads,
             \/ ThreadLock(t) \/ ThreadWait(t) \/ ThreadSignal(t)
             \/ RecvPage(t) \/ RecvNotFound(t) \/ Serve(t) \/ Bytes(t) \/ Reply(t)
             \/ Cancelled(t) \/ CancelledInWait(t) \/ ThreadSpuriousWake(t)
      PROVE  UNCHANGED serviceVars
  BY <1>4, PendingKept, QuietService
     DEF ThreadLock, ThreadWait, ThreadSignal, RecvPage, RecvNotFound, Serve, Bytes, Reply,
         Cancelled, CancelledInWait, ThreadSpuriousWake, mainVars, worldVars
<1>5. CASE RaiseSigterm \/ EnterHandler \/ HandlerLock \/ \E t \in Threads : HandlerCancel(t)
  BY <1>5, PendingKept, QuietService
     DEF RaiseSigterm, EnterHandler, HandlerLock, HandlerCancel, mainVars, threadVars, worldVars
<1>6. ASSUME NEW how \in {"success", "failure", "killed"}, Exit(how) PROVE FALSE
  BY <1>6 DEF Exit, Up
<1>7. ~HandlerDestroy
  BY DEF HandlerDestroy, Up
<1>8. ASSUME NEW s \in Sockets, Connect(s) PROVE UNCHANGED serviceVars
  <2>1. \A c \in Sockets : conn'[c] = "closed" <=> conn[c] = "closed"
    BY <1>8 DEF Connect, TypeOK
  <2>2. QED
    BY <1>8, <2>1, PendingKept, QuietService DEF Connect, mainVars, threadVars
<1>9. ASSUME NEW s \in Sockets, NEW kind, Send(s, kind) PROVE UNCHANGED serviceVars
  BY <1>9, PendingKept, QuietService DEF Send, mainVars, threadVars
<1>10. CASE UNCHANGED vars
  BY <1>10, PendingKept, QuietService DEF vars, mainVars, threadVars, worldVars
<1>11. ASSUME NEW t \in Threads,
              ThreadStep(t) \/ ReplyFails(t) \/ Cancelled(t) \/ CancelledInWait(t)
       PROVE  UNCHANGED serviceVars
  BY <1>4, <1>6, <1>11 DEF ThreadStep, RecvFails, ReplyFails
<1>12. CASE MainStep \/ BootFails \/ AcceptFails \/ SpuriousWake
  BY <1>1, <1>2, <1>3, <1>4, <1>6, <1>12 DEF MainStep, BootFails, AcceptFails, SpuriousWake
<1>13. CASE HandlerStep
  BY <1>5, <1>6, <1>7, <1>13 DEF HandlerStep, DefaultSigterm, HandlerExit
<1>14. QED
  BY <1>5, <1>8, <1>9, <1>10, <1>11, <1>12, <1>13
     DEF Next, ServerStep, ClientStep, SendStep, Quiescent

(* The serving process implements ConnectionService, for any number of     *)
(* threads and connections, and whatever fails or is cancelled: accepted   *)
(* connections are taken up in the order of accept, each by one idle       *)
(* thread and once, a thread finishes the connection it took up before it  *)
(* takes another, and at most num_of_threads of them wait (server.c:104-   *)
(* 120, serverThread.c:151-170, queue.c:38-74).                            *)
THEOREM ServerImplementsService == Spec => ImplementsService
<1>1. Init => Service!Init
  <2> SUFFICES ASSUME Init PROVE Service!Init
    OBVIOUS
  <2>1. Contents = <<>>
    <3>1. Length = 0
      BY DEF Init, QueueInit, CreatedQueue, Length
    <3>2. QED
      BY <3>1 DEF Contents
  <2>2. Pending = <<>> /\ Up
    BY <2>1 DEF Init, Pending, InHand, Up
  <2>3. {s \in Sockets : conn[s] = "closed"} = {}
    BY DEF Init
  <2>4. tsock = [t \in Threads |-> NoSock]
    BY DEF Init
  <2>5. QED
    BY <2>2, <2>3, <2>4
       DEF Service!Init, Service!Idle, ServiceWaiting, ServiceServing, ServiceFinished
<1>2. TypeOK /\ LockInv /\ SocketInv /\ [Next]_vars
        => [Service!Next]_<<Up, ServiceWaiting, ServiceServing, ServiceFinished>>
  <2> SUFFICES ASSUME TypeOK, LockInv, SocketInv, [Next]_vars
               PROVE  Service!Next \/ UNCHANGED serviceVars
    BY DEF serviceVars
  <2>1. CASE ~Up
    BY <2>1, StaysDown, QuietService DEF Up
  <2>2. CASE Up /\ ~Up'
    BY <2>2, StopService DEF Service!Next
  <2>3. CASE Up /\ Up'
    BY <2>3, AcceptService, PopService, CloseService, OtherService DEF Service!Next
  <2>4. QED
    BY <2>1, <2>2, <2>3
<1>3. QED
  BY <1>1, <1>2, ServerTypeCorrect, ServerLockInv, ServerSocketInv, PTL
     DEF Spec, ImplementsService, Service!Spec

------------------------------------------------------------------------------
(* The statistics.                                                         *)

LEMMA CountedFinite ==
  Counted \subseteq Threads /\ IsFiniteSet(Counted) /\ Cardinality(Counted) \in Nat
<1>1. Counted \subseteq Threads
  BY DEF Counted
<1>2. QED
  BY <1>1, ThreadsAssumption, FS_Subset, FS_CardinalityType

LEMMA AccountsNat ==
  ASSUME Accounts
  PROVE  /\ Cardinality(Got) \in Nat
         /\ Cardinality(GotBytes) \in Nat /\ Cardinality(CountedBytes) \in Nat
         /\ pagesServed \in Nat /\ bytesReturned \in Nat
  BY CountedFinite, FS_CardinalityType DEF Accounts

(* Bytes that are the same are counted the same, and one page more or less *)
(* makes a difference of its bytes.                                        *)
LEMMA SameBytes ==
  ASSUME NEW pages, NEW others, NEW some, \A x \in some : pages[x].bytes = others[x].bytes
  PROVE  BytesOf(pages, some) = BytesOf(others, some)
  BY DEF BytesOf

LEMMA NoBytes ==
  ASSUME NEW pages, NEW some, \A x \in some : pages[x].bytes = 0
  PROVE  BytesOf(pages, some) = {}
<1>1. 1 .. 0 = {}
  OBVIOUS
<1>2. \A x \in some : 1 .. pages[x].bytes = {}
  BY <1>1
<1>3. QED
  BY <1>2 DEF BytesOf

LEMMA OneBytes ==
  ASSUME NEW x, NEW n \in Nat
  PROVE  IsFiniteSet({x} \X (1 .. n)) /\ Cardinality({x} \X (1 .. n)) = n
<1>1. IsFiniteSet({x}) /\ Cardinality({x}) = 1
  BY FS_Singleton
<1>2. IsFiniteSet(1 .. n) /\ Cardinality(1 .. n) = n
  BY FS_Interval
<1>3. /\ IsFiniteSet({x} \X (1 .. n))
      /\ Cardinality({x} \X (1 .. n)) = Cardinality({x}) * Cardinality(1 .. n)
  BY <1>1, <1>2, FS_Product
<1>4. QED
  BY <1>1, <1>2, <1>3

LEMMA MoreBytes ==
  ASSUME NEW pages, NEW some, NEW x, x \notin some, pages[x].bytes \in Nat,
         IsFiniteSet(BytesOf(pages, some))
  PROVE  /\ IsFiniteSet(BytesOf(pages, some \cup {x}))
         /\ Cardinality(BytesOf(pages, some \cup {x}))
              = Cardinality(BytesOf(pages, some)) + pages[x].bytes
<1> DEFINE had == BytesOf(pages, some)
           new == {x} \X (1 .. pages[x].bytes)
<1>1. BytesOf(pages, some \cup {x}) = had \cup new
  BY DEF BytesOf
<1>2. had \cap new = {}
  BY DEF BytesOf
<1>3. IsFiniteSet(new) /\ Cardinality(new) = pages[x].bytes
  BY OneBytes
<1>4. IsFiniteSet(had) /\ Cardinality(had) \in Nat
  BY FS_CardinalityType
<1> HIDE DEF had, new
<1>5. /\ IsFiniteSet(had \cup new)
      /\ Cardinality(had \cup new) = Cardinality(had) + Cardinality(new) - Cardinality({})
  BY <1>2, <1>3, <1>4, FS_Union
<1>6. /\ IsFiniteSet(had \cup new)
      /\ Cardinality(had \cup new) = Cardinality(had) + pages[x].bytes
  BY <1>3, <1>4, <1>5, FS_EmptySet
<1>7. QED
  BY <1>1, <1>6 DEF had

LEMMA FewerBytes ==
  ASSUME NEW pages, NEW some, NEW x \in some, pages[x].bytes \in Nat,
         IsFiniteSet(BytesOf(pages, some))
  PROVE  /\ IsFiniteSet(BytesOf(pages, some \ {x}))
         /\ Cardinality(BytesOf(pages, some))
              = Cardinality(BytesOf(pages, some \ {x})) + pages[x].bytes
<1>1. IsFiniteSet(BytesOf(pages, some \ {x}))
  <2>1. BytesOf(pages, some \ {x}) \subseteq BytesOf(pages, some)
    BY DEF BytesOf
  <2>2. QED
    BY <2>1, FS_Subset
<1>2. (some \ {x}) \cup {x} = some
  OBVIOUS
<1>3. QED
  BY <1>1, <1>2, MoreBytes

LEMMA ReplyBytes ==
  \A r \in Replies \cup {NoReply} : r.bytes \in Nat
  BY EnvironmentAssumption DEF Replies, Page, NotFound, NoReply

(* Steps that neither count nor answer.                                    *)
LEMMA SameAccounts ==
  ASSUME Accounts, UNCHANGED <<pagesServed, bytesReturned, answer, treply>>,
         \A t \in Threads : /\ tpc'[t] = "bytes" <=> tpc[t] = "bytes"
                            /\ tpc'[t] = "reply" <=> tpc[t] = "reply"
  PROVE  Accounts'
<1>1. Got' = Got /\ Counted' = Counted
  BY DEF Got, Counted
<1>2. GotBytes' = GotBytes
  BY DEF GotBytes, BytesOf
<1>3. {t \in Threads : tpc'[t] = "reply"} = {t \in Threads : tpc[t] = "reply"}
  OBVIOUS
<1>4. CountedBytes' = CountedBytes
  BY <1>3 DEF CountedBytes, BytesOf
<1>5. QED
  BY <1>1, <1>2, <1>4 DEF Accounts

(* Steps that neither count nor answer, and turn nobody to an answer.      *)
LEMMA QuietStats ==
  ASSUME StatsInv, cancelled' = cancelled,
         status' = "running" => status = "running",
         UNCHANGED <<pagesServed, bytesReturned, answer, treply, tsock, Pending>>,
         mpc' = "boot" => mpc = "boot",
         \A t \in Threads :
           \/ tpc'[t] = tpc[t]
           \/ (tpc[t] = "signal" /\ tpc'[t] = "recv")
           \/ /\ tpc[t] \in {"unborn", "lock", "check", "waiting"}
              /\ tpc'[t] \in {"lock", "check", "waiting"},
         status' = "running" =>
           \A s \in Sockets : conn'[s] \in {"new", "backlog"} => conn[s] \in {"new", "backlog"}
  PROVE  StatsInv'
<1> SUFFICES ASSUME cancelled = {}
             PROVE  /\ Accounts'
                    /\ status' = "running" => AnswerInv' /\ UnansweredInv'
  BY DEF StatsInv
<1>1. /\ Accounts
      /\ status' = "running" => AnswerInv /\ UnansweredInv
  BY DEF StatsInv
<1>2. Accounts'
  BY <1>1, SameAccounts
<1>3. status' = "running" => AnswerInv'
  BY <1>1 DEF AnswerInv
<1>4. status' = "running" => UnansweredInv'
  BY <1>1 DEF UnansweredInv
<1>5. QED
  BY <1>2, <1>3, <1>4

(* The end of the process leaves the numbers as they are.                  *)
LEMMA ExitStats ==
  ASSUME StatsInv, NEW how \in {"success", "failure", "killed"}, Exit(how)
  PROVE  StatsInv'
<1>1. UNCHANGED <<cancelled, pagesServed, bytesReturned, answer, treply, tpc>> /\ status' # "running"
  BY DEF Exit, statVars, threadVars, signalVars
<1>2. QED
  BY <1>1, SameAccounts DEF StatsInv

(* A connection that is accepted has not been answered.                    *)
LEMMA AcceptStats ==
  ASSUME TypeOK, SocketInv, StatsInv, Accept
  PROVE  StatsInv'
<1> SUFFICES ASSUME cancelled = {}
             PROVE  Accounts' /\ AnswerInv' /\ UnansweredInv'
  BY DEF StatsInv, Accept, signalVars
<1> DEFINE new == Head(backlog)
           n == Len(Pending)
<1>1. Accounts /\ AnswerInv /\ UnansweredInv
  BY DEF StatsInv, Accept, MoveMain
<1>2. UNCHANGED <<cancelled, pagesServed, bytesReturned, answer, treply, tsock, tpc>>
  BY DEF Accept, statVars, threadVars, signalVars
<1>3. Accounts'
  BY <1>1, <1>2, SameAccounts
<1>4. AnswerInv'
  BY <1>1, <1>2 DEF AnswerInv
<1>5. new \in Sockets /\ Pending' = Append(Pending, new)
  BY AcceptPending
<1>6. conn[new] = "backlog" /\ \A s \in Sockets : conn'[s] = IF s = new THEN "open" ELSE conn[s]
  <2>1. Len(backlog) \in Nat \ {0} /\ new = backlog[1]
    BY EmptySeq, HeadTailProperties DEF Accept, TypeOK
  <2>2. BacklogInv
    BY DEF SocketInv, Accept, MoveMain
  <2>3. QED
    BY <2>1, <2>2 DEF Accept, BacklogInv, TypeOK
<1>7. /\ n \in Nat /\ Len(Pending') = n + 1
      /\ \A i \in 1 .. n : Pending'[i] = Pending[i]
      /\ Pending'[n + 1] = new
  BY <1>5, PendingType, AppendProperties
<1>8. \A i \in 1 .. n + 1 : i = n + 1 \/ i \in 1 .. n
  BY <1>7
<1>9. UnansweredInv'
  <2>1. mpc' # "boot"
    BY DEF Accept, MoveMain
  <2>2. QED
    BY <1>1, <1>2, <1>5, <1>6, <1>7, <1>8, <2>1 DEF UnansweredInv
<1>10. QED
  BY <1>3, <1>4, <1>9

LEMMA PopStats ==
  ASSUME TypeOK, StatsInv, NEW t \in Threads, ThreadPop(t)
  PROVE  StatsInv'
<1> SUFFICES ASSUME cancelled = {}
             PROVE  Accounts' /\ AnswerInv' /\ UnansweredInv'
  BY DEF StatsInv, ThreadPop, signalVars
<1>1. Accounts /\ AnswerInv /\ UnansweredInv
  BY DEF StatsInv, ThreadPop, Thread
<1>2. /\ UNCHANGED <<mpc, cancelled, pagesServed, bytesReturned, answer, treply, conn>>
      /\ tpc[t] = "check" /\ tpc' = [tpc EXCEPT ![t] = "signal"]
      /\ tpc \in [Threads -> ThreadLabels]
      /\ tsock \in [Threads -> Sockets \cup {NoSock}]
  BY DEF ThreadPop, Thread, MoveThread, statVars, mainVars, signalVars, worldVars, TypeOK
<1>3. Accounts'
  BY <1>1, <1>2, SameAccounts
<1>4. /\ Pending \in Seq(Sockets \cup {NoSock}) /\ Pending # <<>>
      /\ Pending' = Tail(Pending)
      /\ tsock' \in {[tsock EXCEPT ![t] = Head(Pending)], [tsock EXCEPT ![t] = NoSock]}
  BY PopPending, PendingType
<1>5. /\ Len(Pending) \in Nat \ {0}
      /\ Head(Pending) = Pending[1]
      /\ Len(Pending') = Len(Pending) - 1
      /\ \A i \in 1 .. Len(Pending) - 1 :
           Pending'[i] = Pending[i + 1] /\ i + 1 \in 1 .. Len(Pending)
  BY <1>4, EmptySeq, HeadTailProperties
<1>6. answer[Head(Pending)] = NoReply
  BY <1>1, <1>5 DEF UnansweredInv
<1>7. AnswerInv'
  BY <1>1, <1>2, <1>4, <1>6, NoSockAssumption DEF AnswerInv
<1>8. UnansweredInv'
  BY <1>1, <1>2, <1>5 DEF UnansweredInv
<1>9. QED
  BY <1>3, <1>7, <1>8

(* The reply has been built, but nothing is counted yet.                   *)
LEMMA RecvStats ==
  ASSUME TypeOK, StatsInv, NEW t \in Threads, RecvPage(t) \/ RecvNotFound(t)
  PROVE  StatsInv'
<1> SUFFICES ASSUME cancelled = {}
             PROVE  Accounts' /\ AnswerInv' /\ UnansweredInv'
  BY DEF StatsInv, RecvPage, RecvNotFound, signalVars
<1>1. Accounts /\ AnswerInv /\ UnansweredInv
  BY DEF StatsInv, RecvPage, RecvNotFound, Thread
<1>2. /\ UNCHANGED <<mpc, cancelled, pagesServed, bytesReturned, answer, tsock, conn>>
      /\ Pending' = Pending
      /\ tpc \in [Threads -> ThreadLabels]
      /\ treply \in [Threads -> Replies \cup {NoReply}]
      /\ tpc[t] = "recv" /\ tsock[t] \in Sockets
  BY PendingKept
     DEF RecvPage, RecvNotFound, Received, Thread, MoveThread, statVars, mainVars, signalVars,
         worldVars, TypeOK
<1>3. \/ /\ tpc' = [tpc EXCEPT ![t] = "serve"]
         /\ \E n \in PageSizes : treply' = [treply EXCEPT ![t] = Page(n)]
      \/ /\ tpc' = [tpc EXCEPT ![t] = "reply"]
         /\ treply' = [treply EXCEPT ![t] = NotFound]
  BY DEF RecvPage, RecvNotFound, Thread, MoveThread
<1>4. Got' = Got /\ GotBytes' = GotBytes
  BY <1>2 DEF Got, GotBytes, BytesOf
<1>5. Counted' = Counted
  BY <1>2, <1>3 DEF Counted, Page, NotFound
<1>6. Accounts'
  <2> DEFINE due == {u \in Threads : tpc[u] = "reply"}
  <2>1. /\ t \notin due
        /\ \A u \in Threads \ {t} : tpc'[u] = tpc[u] /\ treply'[u] = treply[u]
    BY <1>2, <1>3
  <2>2. CASE tpc'[t] = "serve"
    <3>1. {u \in Threads : tpc'[u] = "reply"} = due
      BY <2>1, <2>2
    <3>2. CountedBytes' = CountedBytes
      BY <2>1, <3>1, SameBytes DEF CountedBytes
    <3>3. QED
      BY <1>1, <1>2, <1>4, <1>5, <3>2 DEF Accounts
  <2>3. CASE tpc' = [tpc EXCEPT ![t] = "reply"] /\ treply' = [treply EXCEPT ![t] = NotFound]
    <3>1. {u \in Threads : tpc'[u] = "reply"} = due \cup {t}
      BY <1>2, <2>3
    <3>2. BytesOf(treply', due) = BytesOf(treply, due)
      BY <2>1, SameBytes
    <3>3. treply'[t].bytes = 0 /\ treply'[t].bytes \in Nat
      BY <1>2, <2>3 DEF NotFound
    <3>4. IsFiniteSet(BytesOf(treply', due))
      BY <1>1, <3>2 DEF Accounts, CountedBytes
    <3>5. CountedBytes' = BytesOf(treply', due \cup {t}) /\ CountedBytes = BytesOf(treply, due)
      BY <3>1 DEF CountedBytes
    <3> HIDE DEF due
    <3>6. /\ IsFiniteSet(BytesOf(treply', due \cup {t}))
          /\ Cardinality(BytesOf(treply', due \cup {t}))
               = Cardinality(BytesOf(treply', due)) + treply'[t].bytes
      BY <2>1, <3>3, <3>4, MoreBytes
    <3>7. /\ IsFiniteSet(CountedBytes')
          /\ Cardinality(CountedBytes') = Cardinality(CountedBytes) + 0
      BY <3>2, <3>3, <3>5, <3>6
    <3>8. QED
      BY <1>1, <1>2, <1>4, <1>5, <3>7, AccountsNat DEF Accounts
  <2>4. QED
    BY <1>2, <1>3, <2>2, <2>3
<1>7. AnswerInv'
  BY <1>1, <1>2, <1>3 DEF AnswerInv, Page
<1>8. UnansweredInv'
  BY <1>1, <1>2 DEF UnansweredInv
<1>9. QED
  BY <1>6, <1>7, <1>8

(* Queue_serve counts the page that this thread is about to send.          *)
LEMMA ServeStats ==
  ASSUME TypeOK, StatsInv, NEW t \in Threads, Serve(t)
  PROVE  StatsInv'
<1> SUFFICES ASSUME cancelled = {}
             PROVE  Accounts' /\ AnswerInv' /\ UnansweredInv'
  BY DEF StatsInv, Serve, signalVars
<1>1. Accounts /\ AnswerInv /\ UnansweredInv
  BY DEF StatsInv, Serve, Thread
<1>2. /\ UNCHANGED <<mpc, cancelled, answer, treply, tsock, conn>>
      /\ Pending' = Pending
      /\ pagesServed' = pagesServed + 1 /\ pagesServed \in Nat
      /\ tpc \in [Threads -> ThreadLabels]
      /\ tpc[t] = "serve" /\ tpc' = [tpc EXCEPT ![t] = "bytes"]
      /\ bytesReturned' = bytesReturned
  BY PendingKept
     DEF Serve, Thread, MoveThread, mainVars, signalVars, worldVars, TypeOK
<1>3. Got' = Got /\ GotBytes' = GotBytes /\ CountedBytes' = CountedBytes
  <2>1. {u \in Threads : tpc'[u] = "reply"} = {u \in Threads : tpc[u] = "reply"}
    BY <1>2
  <2>2. QED
    BY <1>2, <2>1 DEF Got, GotBytes, CountedBytes, BytesOf
<1>4. treply[t].code = 200
  BY <1>1, <1>2 DEF AnswerInv
<1>5. t \notin Counted /\ Counted' = Counted \cup {t}
  BY <1>2, <1>4 DEF Counted
<1>6. Cardinality(Counted') = Cardinality(Counted) + 1
  BY <1>5, CountedFinite, FS_AddElement
<1>7. Accounts'
  BY <1>1, <1>2, <1>3, <1>6, AccountsNat, CountedFinite DEF Accounts
<1>8. AnswerInv'
  BY <1>1, <1>2 DEF AnswerInv
<1>9. UnansweredInv'
  BY <1>1, <1>2 DEF UnansweredInv
<1>10. QED
  BY <1>7, <1>8, <1>9

LEMMA BytesStats ==
  ASSUME TypeOK, StatsInv, NEW t \in Threads, Bytes(t)
  PROVE  StatsInv'
<1> SUFFICES ASSUME cancelled = {}
             PROVE  Accounts' /\ AnswerInv' /\ UnansweredInv'
  BY DEF StatsInv, Bytes, signalVars
<1>1. Accounts /\ AnswerInv /\ UnansweredInv
  BY DEF StatsInv, Bytes, Thread
<1>2. /\ UNCHANGED <<mpc, cancelled, pagesServed, answer, treply, tsock, conn>>
      /\ bytesReturned' = bytesReturned + treply[t].bytes
      /\ Pending' = Pending
      /\ tpc \in [Threads -> ThreadLabels]
      /\ tpc[t] = "bytes" /\ tpc' = [tpc EXCEPT ![t] = "reply"]
      /\ treply \in [Threads -> Replies \cup {NoReply}]
  BY PendingKept
     DEF Bytes, Thread, MoveThread, mainVars, signalVars, worldVars, TypeOK
<1>3. Got' = Got /\ Counted' = Counted
  BY <1>2 DEF Got, Counted
<1>4. GotBytes' = GotBytes
  BY <1>2 DEF GotBytes, BytesOf
<1>5. Accounts'
  <2> DEFINE due == {u \in Threads : tpc[u] = "reply"}
  <2>1. t \notin due /\ {u \in Threads : tpc'[u] = "reply"} = due \cup {t}
    BY <1>2
  <2>2. treply[t].bytes \in Nat
    BY <1>2, ReplyBytes
  <2>3. /\ IsFiniteSet(BytesOf(treply, due))
        /\ CountedBytes = BytesOf(treply, due)
    BY <1>1 DEF Accounts, CountedBytes
  <2>4. CountedBytes' = BytesOf(treply, due \cup {t})
    BY <1>2, <2>1 DEF CountedBytes, BytesOf
  <2> HIDE DEF due
  <2>5. /\ IsFiniteSet(CountedBytes')
        /\ Cardinality(CountedBytes') = Cardinality(CountedBytes) + treply[t].bytes
    BY <2>1, <2>2, <2>3, <2>4, MoreBytes
  <2>6. QED
    BY <1>1, <1>2, <1>3, <1>4, <2>2, <2>5, AccountsNat DEF Accounts
<1>6. AnswerInv'
  BY <1>1, <1>2 DEF AnswerInv
<1>7. UnansweredInv'
  BY <1>1, <1>2 DEF UnansweredInv
<1>8. QED
  BY <1>5, <1>6, <1>7

(* The client whose socket the thread has gets the page, for the first     *)
(* time.                                                                   *)
LEMMA ReplyStats ==
  ASSUME TypeOK, LockInv, SocketInv, StatsInv, NEW t \in Threads, Reply(t)
  PROVE  StatsInv'
<1> SUFFICES ASSUME cancelled = {}
             PROVE  Accounts' /\ AnswerInv' /\ UnansweredInv'
  BY DEF StatsInv, Reply, signalVars
<1> DEFINE s == tsock[t]
<1>1. Accounts /\ AnswerInv /\ UnansweredInv /\ PendingInv
  BY DEF StatsInv, SocketInv, Reply, Thread
<1>2. /\ UNCHANGED <<mpc, cancelled, pagesServed, bytesReturned, tsock, conn>>
      /\ Pending' = Pending
      /\ tpc \in [Threads -> ThreadLabels]
      /\ tpc[t] = "reply" /\ tpc' = [tpc EXCEPT ![t] = "close"]
      /\ treply \in [Threads -> Replies \cup {NoReply}]
      /\ treply' = [treply EXCEPT ![t] = NoReply]
      /\ answer \in [Sockets -> Replies \cup {NoReply}]
      /\ answer' = [answer EXCEPT ![s] = treply[t]]
  BY PendingKept
     DEF Reply, Thread, MoveThread, mainVars, signalVars, statVars, TypeOK
<1>3. s \in Sockets /\ answer[s] = NoReply
  BY <1>1, <1>2 DEF AnswerInv
<1>4. \A c \in Sockets : answer'[c] = IF c = s THEN treply[t] ELSE answer[c]
  BY <1>2
<1>5. /\ IsFiniteSet(Got') /\ Cardinality(Counted') \in Nat
      /\ pagesServed = Cardinality(Got') + Cardinality(Counted')
  <2>1. CASE treply[t].code = 200
    <3>1. s \notin Got /\ Got' = Got \cup {s}
      BY <1>3, <1>4, <2>1 DEF Got, NoReply
    <3>2. IsFiniteSet(Got') /\ Cardinality(Got') = Cardinality(Got) + 1
      BY <1>1, <3>1, FS_AddElement DEF Accounts
    <3>3. t \in Counted /\ Counted' = Counted \ {t}
      BY <1>2, <2>1 DEF Counted
    <3>4. Cardinality(Counted') = Cardinality(Counted) - 1
      BY <3>3, CountedFinite, FS_RemoveElement
    <3>5. Cardinality(Counted') \in Nat
      BY <3>3, CountedFinite, FS_Subset, FS_CardinalityType
    <3>6. QED
      BY <1>1, <1>2, <3>2, <3>4, <3>5, AccountsNat, CountedFinite DEF Accounts
  <2>2. CASE treply[t].code # 200
    <3>1. Got' = Got
      BY <1>3, <1>4, <2>2 DEF Got, NoReply
    <3>2. Counted' = Counted
      BY <1>2, <2>2 DEF Counted
    <3>3. QED
      BY <1>1, <1>2, <3>1, <3>2, CountedFinite DEF Accounts
  <2>3. QED
    BY <2>1, <2>2
<1>6. treply[t].bytes \in Nat
  BY <1>2, ReplyBytes
<1>7. /\ IsFiniteSet(GotBytes')
      /\ Cardinality(GotBytes') = Cardinality(GotBytes) + treply[t].bytes
  <2> DEFINE others == Sockets \ {s}
  <2>1. s \notin others /\ Sockets = others \cup {s}
    BY <1>3
  <2>2. answer[s].bytes = 0
    BY <1>3 DEF NoReply
  <2>3. /\ IsFiniteSet(BytesOf(answer, others))
        /\ Cardinality(GotBytes) = Cardinality(BytesOf(answer, others)) + 0
    <3>1. GotBytes = BytesOf(answer, Sockets) /\ IsFiniteSet(BytesOf(answer, Sockets))
      BY <1>1 DEF Accounts, GotBytes
    <3>2. answer[s].bytes \in Nat
      BY <2>2
    <3>3. /\ IsFiniteSet(BytesOf(answer, others))
          /\ Cardinality(BytesOf(answer, Sockets))
               = Cardinality(BytesOf(answer, others)) + answer[s].bytes
      BY <1>3, <3>1, <3>2, FewerBytes
    <3>4. QED
      BY <2>2, <3>1, <3>3
  <2>4. BytesOf(answer', others) = BytesOf(answer, others)
    BY <1>4, SameBytes
  <2>5. answer'[s].bytes = treply[t].bytes
    BY <1>3, <1>4
  <2>6. GotBytes' = BytesOf(answer', others \cup {s})
    BY <2>1 DEF GotBytes
  <2> HIDE DEF others
  <2>7. /\ IsFiniteSet(GotBytes')
        /\ Cardinality(GotBytes')
             = Cardinality(BytesOf(answer', others)) + answer'[s].bytes
    BY <1>6, <2>1, <2>3, <2>4, <2>5, <2>6, MoreBytes
  <2>8. Cardinality(BytesOf(answer, others)) \in Nat
    BY <2>3, FS_CardinalityType
  <2>9. QED
    BY <2>3, <2>4, <2>5, <2>7, <2>8
<1>8. /\ IsFiniteSet(CountedBytes')
      /\ Cardinality(CountedBytes) = Cardinality(CountedBytes') + treply[t].bytes
  <2> DEFINE due == {u \in Threads : tpc[u] = "reply"}
  <2>1. t \in due /\ {u \in Threads : tpc'[u] = "reply"} = due \ {t}
    BY <1>2
  <2>2. BytesOf(treply', due \ {t}) = BytesOf(treply, due \ {t})
    <3>1. \A u \in due \ {t} : treply'[u].bytes = treply[u].bytes
      BY <1>2
    <3>2. QED
      BY <3>1, SameBytes
  <2>3. CountedBytes' = BytesOf(treply, due \ {t})
    BY <2>1, <2>2 DEF CountedBytes
  <2>4. CountedBytes = BytesOf(treply, due) /\ IsFiniteSet(BytesOf(treply, due))
    BY <1>1 DEF Accounts, CountedBytes
  <2> HIDE DEF due
  <2>5. QED
    BY <1>6, <2>1, <2>3, <2>4, FewerBytes
<1>9. Accounts'
  <2>1. Cardinality(CountedBytes') \in Nat
    BY <1>8, FS_CardinalityType
  <2>2. QED
    BY <1>1, <1>2, <1>5, <1>6, <1>7, <1>8, <2>1, AccountsNat DEF Accounts
<1>10. AnswerInv'
  <2>1. \A u \in Threads : tsock[u] = s => u = t
    BY <1>1, <1>3, NoSockAssumption DEF PendingInv
  <2>2. QED
    BY <1>1, <1>2, <1>4, <2>1 DEF AnswerInv
<1>11. UnansweredInv'
  <2>1. \A i \in 1 .. Len(Pending) : Pending[i] \in Sockets /\ Pending[i] # s
    BY <1>1 DEF PendingInv
  <2>2. conn[s] = "open"
    BY <1>1, <1>3, NoSockAssumption DEF PendingInv
  <2>3. mpc # "boot"
    BY <1>2 DEF LockInv, ThreadsUnborn
  <2>4. QED
    BY <1>1, <1>2, <1>4, <2>1, <2>2, <2>3 DEF UnansweredInv
<1>12. QED
  BY <1>9, <1>10, <1>11

LEMMA CloseStats ==
  ASSUME TypeOK, StatsInv, NEW t \in Threads, Close(t)
  PROVE  StatsInv'
<1> SUFFICES ASSUME cancelled = {}
             PROVE  Accounts' /\ AnswerInv' /\ UnansweredInv'
  BY DEF StatsInv, Close, signalVars
<1>1. Accounts /\ AnswerInv /\ UnansweredInv
  BY DEF StatsInv, Close, Thread
<1>2. /\ UNCHANGED <<mpc, cancelled, pagesServed, bytesReturned, treply, answer>>
      /\ Pending' = Pending
      /\ tpc \in [Threads -> ThreadLabels]
      /\ tpc[t] = "close" /\ tpc' = [tpc EXCEPT ![t] = "lock"]
      /\ tsock \in [Threads -> Sockets \cup {NoSock}]
      /\ tsock' = [tsock EXCEPT ![t] = NoSock]
      /\ conn \in [Sockets -> {"new", "backlog", "open", "closed", "refused"}]
      /\ conn' = [conn EXCEPT ![tsock[t]] = "closed"]
  BY PendingKept
     DEF Close, Thread, MoveThread, mainVars, signalVars, statVars, TypeOK
<1>3. Accounts'
  BY <1>1, <1>2, SameAccounts
<1>4. AnswerInv'
  BY <1>1, <1>2 DEF AnswerInv
<1>5. UnansweredInv'
  BY <1>1, <1>2 DEF UnansweredInv
<1>6. QED
  BY <1>3, <1>4, <1>5

LEMMA MainStats ==
  ASSUME TypeOK, LockInv, SocketInv, StatsInv, MainStep
  PROVE  StatsInv'
<1>1. CASE Boot
  <2>1. /\ \A t \in Threads : tpc[t] = "unborn" /\ tpc'[t] = "lock"
        /\ UNCHANGED <<cancelled, answer, treply, tsock, conn, status>>
        /\ pagesServed' = 0 /\ bytesReturned' = 0
    BY <1>1 DEF Boot, MoveMain, LockInv, ThreadsUnborn, signalVars, worldVars
  <2>2. Pending' = <<>>
    <3>1. Length' = 0
      BY <1>1 DEF Boot, Queue_create, CreatedQueue, Length
    <3>2. Contents' = <<>>
      BY <3>1 DEF Contents
    <3>3. ~InHand'
      BY <1>1 DEF Boot, MoveMain, SocketInv, HandsInv, InHand
    <3>4. QED
      BY <3>2, <3>3 DEF Pending
  <2>3. ASSUME cancelled = {} PROVE \A s \in Sockets : answer[s] = NoReply
    BY <1>1, <2>3 DEF StatsInv, UnansweredInv, Boot, MoveMain
  <2>4. ASSUME cancelled = {} PROVE Accounts'
    <3>1. \A s \in Sockets : answer'[s] = NoReply
      BY <2>1, <2>3, <2>4
    <3>2. Got' = {} /\ GotBytes' = {}
      BY <3>1, NoBytes DEF Got, GotBytes, NoReply
    <3>3. Counted' = {} /\ {t \in Threads : tpc'[t] = "reply"} = {}
      BY <2>1 DEF Counted
    <3>4. CountedBytes' = {}
      BY <3>3 DEF CountedBytes, BytesOf
    <3>5. QED
      BY <2>1, <3>2, <3>3, <3>4, FS_EmptySet DEF Accounts
  <2>5. QED
    BY <2>1, <2>2, <2>3, <2>4, <1>1
       DEF StatsInv, AnswerInv, UnansweredInv, Boot, MoveMain
<1>2. CASE InstallHandler \/ MainLock \/ MainWait
  BY <1>2, PendingKept, QuietStats
     DEF InstallHandler, MainLock, MainWait, MoveMain, statVars, threadVars, signalVars,
         worldVars
<1>3. CASE MainPush
  BY <1>3, PushPending, QuietStats
     DEF MainPush, MoveMain, statVars, threadVars, signalVars, worldVars
<1>4. CASE MainSignal
  BY <1>4, PendingKept, QuietStats
     DEF MainSignal, SignalNonempty, MoveThread, MoveMain, Waiters, TypeOK, statVars,
         signalVars, worldVars
<1>5. QED
  BY <1>1, <1>2, <1>3, <1>4, AcceptStats DEF MainStep

LEMMA ThreadStats ==
  ASSUME TypeOK, LockInv, SocketInv, StatsInv, NEW t \in Threads,
         ThreadStep(t) \/ ReplyFails(t) \/ Cancelled(t) \/ CancelledInWait(t)
  PROVE  StatsInv'
<1> USE DEF TypeOK, Thread, MoveThread
<1>1. CASE ThreadLock(t) \/ ThreadWait(t)
  BY <1>1, PendingKept, QuietStats
     DEF ThreadLock, ThreadWait, statVars, mainVars, signalVars, worldVars
<1>2. CASE ThreadSignal(t)
  BY <1>2, PendingKept, QuietStats
     DEF ThreadSignal, SignalNonfull, statVars, signalVars, worldVars
<1>3. CASE Cancelled(t) \/ CancelledInWait(t)
  BY <1>3 DEF Cancelled, CancelledInWait, signalVars, StatsInv
<1>4. CASE RecvFails(t) \/ ReplyFails(t)
  BY <1>4, ExitStats DEF RecvFails, ReplyFails
<1>5. QED
  BY <1>1, <1>2, <1>3, <1>4, PopStats, RecvStats, ServeStats, BytesStats, ReplyStats, CloseStats
     DEF ThreadStep

LEMMA OtherStats ==
  ASSUME TypeOK, StatsInv,
         \/ BootFails \/ AcceptFails \/ SpuriousWake
         \/ RaiseSigterm \/ HandlerStep \/ ClientStep \/ UNCHANGED vars
  PROVE  StatsInv'
<1>1. CASE MainSpuriousWake
  BY <1>1, PendingKept, QuietStats
     DEF MainSpuriousWake, MoveMain, statVars, threadVars, signalVars, worldVars
<1>2. ASSUME NEW t \in Threads, ThreadSpuriousWake(t) PROVE StatsInv'
  BY <1>2, PendingKept, QuietStats
     DEF ThreadSpuriousWake, Thread, MoveThread, TypeOK, statVars, mainVars, signalVars,
         worldVars
<1>3. ASSUME NEW how \in {"success", "failure", "killed"}, Exit(how) PROVE StatsInv'
  BY <1>3, ExitStats
<1>4. CASE RaiseSigterm \/ EnterHandler \/ HandlerLock
  BY <1>4, PendingKept, QuietStats
     DEF RaiseSigterm, EnterHandler, HandlerLock, statVars, mainVars, threadVars, worldVars
<1>5. CASE HandlerDestroy
  BY <1>5, PendingKept, QuietStats DEF HandlerDestroy, mainVars, threadVars, worldVars
<1>6. ASSUME NEW t \in Threads, HandlerCancel(t) PROVE StatsInv'
  BY <1>6 DEF HandlerCancel, StatsInv
<1>7. ASSUME NEW s \in Sockets, Connect(s) PROVE StatsInv'
  <2>1. \A c \in Sockets : conn'[c] \in {"new", "backlog"} => conn[c] \in {"new", "backlog"}
    BY <1>7 DEF Connect, TypeOK
  <2>2. QED
    BY <1>7, <2>1, PendingKept, QuietStats
       DEF Connect, statVars, mainVars, threadVars, signalVars
<1>8. ASSUME NEW s \in Sockets, NEW kind, Send(s, kind) PROVE StatsInv'
  BY <1>8, PendingKept, QuietStats DEF Send, statVars, mainVars, threadVars, signalVars
<1>9. CASE UNCHANGED vars
  BY <1>9, PendingKept, QuietStats
     DEF vars, statVars, mainVars, threadVars, signalVars, worldVars
<1>10. QED
  BY <1>1, <1>2, <1>3, <1>4, <1>5, <1>6, <1>7, <1>8, <1>9
     DEF BootFails, AcceptFails, SpuriousWake, HandlerStep, DefaultSigterm, HandlerExit,
         ClientStep, SendStep

(* The statistics that STATS reports agree with what the clients have got, *)
(* for any number of threads, until a thread is cancelled: every page that *)
(* was counted has reached one client or is on its way in one thread, the  *)
(* same holds of its bytes, and a thread that is about to answer a client, *)
(* with a page or with an error, is the first to (serverThread.c:99-134).  *)
(* It needs that a socket is with one thread only (SocketInv).             *)
THEOREM ServerStatsAccounted == Spec => []StatsAccounted
<1>1. Init => StatsInv
  <2> SUFFICES ASSUME Init PROVE StatsInv
    OBVIOUS
  <2>1. Accounts
    <3>1. \A s \in Sockets : answer[s] = NoReply
      BY DEF Init
    <3>2. Got = {} /\ GotBytes = {}
      BY <3>1, NoBytes DEF Got, GotBytes, NoReply
    <3>3. Counted = {} /\ {t \in Threads : tpc[t] = "reply"} = {}
      BY DEF Init, Counted
    <3>4. CountedBytes = {}
      BY <3>3 DEF CountedBytes, BytesOf
    <3>5. QED
      BY <3>2, <3>3, <3>4, FS_EmptySet DEF Init, Accounts
  <2>2. Pending = <<>>
    <3>1. Length = 0
      BY DEF Init, QueueInit, CreatedQueue, Length
    <3>2. Contents = <<>>
      BY <3>1 DEF Contents
    <3>3. QED
      BY <3>2 DEF Init, Pending, InHand
  <2>3. QED
    BY <2>1, <2>2, FS_EmptySet, NoSockAssumption
       DEF Init, StatsInv, AnswerInv, UnansweredInv
<1>2. TypeOK /\ LockInv /\ SocketInv /\ StatsInv /\ [Next]_vars => StatsInv'
  BY MainStats, ThreadStats, OtherStats DEF Next, ServerStep, Quiescent
<1>3. Spec => []StatsInv
  BY <1>1, <1>2, ServerTypeCorrect, ServerLockInv, ServerSocketInv, PTL DEF Spec
<1>4. StatsInv => StatsAccounted
  BY DEF StatsInv, StatsAccounted, Accounts, AnswerInv
<1>5. QED
  BY <1>3, <1>4, PTL
==============================================================================
