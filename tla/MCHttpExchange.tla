---------------------------- MODULE MCHttpExchange ----------------------------
(* An empty file, one with lines of its own, and one that a NUL cuts.       *)
EXTENDS HttpExchange

MCPages == { <<>>, <<"a", "CR", "LF">>, <<"LF", "b">>, <<"a", "NUL", "b">> }
==============================================================================
