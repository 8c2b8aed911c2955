-------------------------------- MODULE Queue --------------------------------
(***************************************************************************)
(* The ring buffer of queue.c, through which the acceptor of the server    *)
(* hands accepted sockets to the serving threads.  `embros' is the slot of *)
(* the first element, `piso' the slot after the last one; one slot stays   *)
(* free so that a full queue and an empty one can be told apart, and the   *)
(* queue holds at most Size - 1 sockets.                                   *)
(*                                                                         *)
(* The operations are actions over the three variables.  They take no      *)
(* lock: their callers do (module Server).                                 *)
(***************************************************************************)
EXTENDS Integers, Sequences

CONSTANTS
  Size,      \* the size given to Queue_create (server.c passes num_of_threads)
  Sockets,   \* QueueType: the descriptors of accepted connections
  NoSock     \* what a slot of a fresh malloc holds

ASSUME SizeAssumption == Size \in Nat \ {0}
ASSUME NoSockAssumption == NoSock \notin Sockets

VARIABLES embros, piso, buffer

queueVars == <<embros, piso, buffer>>

Slots == 0 .. (Size - 1)

\* Mutant of Succ: the modulus is forgotten.
SuccNoWrap(i) == i + 1

\* The slot that follows slot i on the ring.
Succ(i) == (i + 1) % Size

QueueTypeOK ==
  /\ embros \in Slots
  /\ piso \in Slots
  /\ buffer \in [Slots -> Sockets \cup {NoSock}]

------------------------------------------------------------------------------
(* The operations.                                                         *)

CreatedQueue == [embros |-> 0, piso |-> 0, buffer |-> [i \in Slots |-> NoSock]]

Queue_create ==
  /\ embros' = CreatedQueue.embros
  /\ piso' = CreatedQueue.piso
  /\ buffer' = CreatedQueue.buffer

Queue_empty == embros = piso

\* Mutant of Queue_full: the test does not see the end of the ring.
FullNoWrap == piso + 1 = embros

Queue_full == Succ(piso) = embros

\* A push on a full queue returns 0 and changes nothing.
Queue_push(element) ==
  IF Queue_full
  THEN UNCHANGED queueVars
  ELSE /\ buffer' = [buffer EXCEPT ![piso] = element]
       /\ piso' = Succ(piso)
       /\ UNCHANGED embros

\* Mutant of Queue_front: the newest element.
Queue_newest == buffer[(piso + Size - 1) % Size]

\* The element a pop stores through its pointer, and the pop itself: on an
\* empty queue it returns 0 and changes nothing.
Queue_front == buffer[embros]

Queue_pop ==
  IF Queue_empty
  THEN UNCHANGED queueVars
  ELSE /\ embros' = Succ(embros)
       /\ UNCHANGED <<piso, buffer>>

------------------------------------------------------------------------------
(* The queue as a sequence: the slots from embros up to piso, on the ring. *)

Length == IF embros <= piso THEN piso - embros ELSE piso - embros + Size

Slot(i) == IF embros + i <= Size THEN embros + i - 1 ELSE embros + i - 1 - Size

Contents == [i \in 1 .. Length |-> buffer[Slot(i)]]

------------------------------------------------------------------------------
(* The queue on its own: any caller pushes and pops in any order.          *)

QueueInit ==
  /\ embros = CreatedQueue.embros
  /\ piso = CreatedQueue.piso
  /\ buffer = CreatedQueue.buffer

QueueNext == Queue_pop \/ \E s \in Sockets : Queue_push(s)

QueueSpec == QueueInit /\ [][QueueNext]_queueVars

Fifo == INSTANCE BoundedFifo
          WITH Capacity <- Size - 1, Elements <- Sockets, fifo <- Contents

(* The ring buffer is a FIFO queue of Size - 1 places: whatever the order  *)
(* of the pushes and pops, and however often the indexes wrap around, no   *)
(* socket is overwritten before it is popped, none is popped twice, and    *)
(* they come out in the order in which they went in (queue.c:38-74).       *)
ImplementsFifo == Fifo!Spec
==============================================================================
