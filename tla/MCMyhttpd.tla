----------------------------- MODULE MCMyhttpd -----------------------------
(* Instances of module Myhttpd for TLC; the runs check liveness, so that   *)
(* there is no symmetry.                                                   *)
EXTENDS Myhttpd, TLC
==============================================================================
