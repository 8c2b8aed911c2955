-------------------------- MODULE ConnectionService --------------------------
(***************************************************************************)
(* What the serving process promises of the connections it accepts: they   *)
(* are taken up by the workers in the order in which they were accepted,   *)
(* each by one worker and once, at most Room of them wait, and the workers *)
(* finish in any order.  When the process stops, all of this is lost.      *)
(* Module Server is shown to implement it.                                 *)
(***************************************************************************)
EXTENDS Naturals, Sequences

CONSTANTS
  Workers,   \* those who serve
  Conns,     \* the connections
  Room,      \* how many accepted connections can wait
  None       \* what an idle worker serves

VARIABLES
  up,        \* does the process accept and serve?
  waiting,   \* the accepted connections no worker has taken up, oldest first
  serving,   \* the connection each worker serves
  finished   \* the connections that have been served and closed

Idle == [w \in Workers |-> None]

Accepted == {waiting[i] : i \in 1 .. Len(waiting)}
              \cup {serving[w] : w \in Workers} \cup finished

Init ==
  /\ up = TRUE
  /\ waiting = <<>>
  /\ serving = Idle
  /\ finished = {}

Accept(c) ==
  /\ up
  /\ c \notin Accepted
  /\ Len(waiting) < Room
  /\ waiting' = Append(waiting, c)
  /\ UNCHANGED <<up, serving, finished>>

Take(w) ==
  /\ up
  /\ waiting # <<>>
  /\ serving[w] = None
  /\ serving' = [serving EXCEPT ![w] = Head(waiting)]
  /\ waiting' = Tail(waiting)
  /\ UNCHANGED <<up, finished>>

Finish(w) ==
  /\ up
  /\ serving[w] # None
  /\ finished' = finished \cup {serving[w]}
  /\ serving' = [serving EXCEPT ![w] = None]
  /\ UNCHANGED <<up, waiting>>

Stop ==
  /\ up
  /\ up' = FALSE
  /\ waiting' = <<>>
  /\ serving' = Idle
  /\ finished' = {}

Next ==
  \/ \E c \in Conns : Accept(c)
  \/ \E w \in Workers : Take(w) \/ Finish(w)
  \/ Stop

Spec == Init /\ [][Next]_<<up, waiting, serving, finished>>
==============================================================================
