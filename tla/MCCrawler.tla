----------------------------- MODULE MCCrawler -----------------------------
(***************************************************************************)
(* Instances of module Crawler for TLC.  The site: two pages that link to  *)
(* each other and both to a third, a link that is there twice, a link to   *)
(* the page itself, and one to a page that does not exist.                 *)
(***************************************************************************)
EXTENDS Crawler, TLC

CONSTANTS home, news, about, gone

MCPages == {home, news, about, gone}
MCFound == {home, news, about}
MCLinks == (home :> <<news, about, news>>) @@ (news :> <<home, about>>)
             @@ (about :> <<about, gone>>) @@ (gone :> <<>>)
MCBytes == [p \in MCPages |-> IF p = gone THEN 0 ELSE 2]

Symmetry == Permutations(Threads)
==============================================================================
