-------------------------------- MODULE Crawl --------------------------------
(***************************************************************************)
(* What a crawl promises, page by page: a page is listed once, when it is  *)
(* the start or a page that is being fetched links to it; it is taken once *)
(* from the list; and it is done when every page it links to is known.     *)
(* Module Crawler is shown to implement it.                                *)
(***************************************************************************)
CONSTANTS
  Pages,    \* every page there might be
  Start,    \* the page the crawl starts from
  Targets   \* Targets[p]: the pages that p, as it is served, links to

VARIABLES
  up,       \* does the crawl go on?
  state     \* how far each page is

Unknown == [p \in Pages |-> "unknown"]

Init == up = TRUE /\ state = Unknown

Move(p, from, to) ==
  /\ up
  /\ state[p] = from
  /\ state' = [state EXCEPT ![p] = to]
  /\ UNCHANGED up

List(p) ==
  /\ Move(p, "unknown", "listed")
  /\ \/ p = Start
     \/ \E q \in Pages : state[q] = "taken" /\ p \in Targets[q]

Take(p) == Move(p, "listed", "taken")

Done(p) ==
  /\ Move(p, "taken", "done")
  /\ \A q \in Targets[p] : state[q] # "unknown"

Stop ==
  /\ up
  /\ up' = FALSE
  /\ state' = Unknown

Next == Stop \/ \E p \in Pages : List(p) \/ Take(p) \/ Done(p)

Spec == Init /\ [][Next]_<<up, state>>
==============================================================================
