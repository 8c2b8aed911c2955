----------------------------- MODULE RequestReply -----------------------------
(***************************************************************************)
(* What an exchange of one page promises: the server answers once, with    *)
(* what is due, and the client gets that answer whole, or nothing.         *)
(***************************************************************************)
CONSTANT None

VARIABLES due, answer, result

Init == answer = None /\ result = None

Decide ==
  /\ answer = None
  /\ answer' = due
  /\ UNCHANGED <<due, result>>

Deliver ==
  /\ answer # None /\ result = None
  /\ result' = answer
  /\ UNCHANGED <<due, answer>>

Spec == Init /\ [][Decide \/ Deliver]_<<due, answer, result>>
==============================================================================
