------------------------------- MODULE MCGate -------------------------------
(* A slow long and a fast short of the session, a long and an offering from    *)
(* outside it, a scanner thesis, one of the extended hours; five markets.       *)
EXTENDS Gate

Thesis(dir, magnitude, fast, offering) ==
  [dir |-> dir, magnitude |-> magnitude, risk |-> "low", offering |-> offering,
   long |-> dir = "down" /\ ~offering, fast |-> fast, allowed |-> TRUE]

Item(kind, th, inSession, arrives) ==
  [kind |-> kind, th |-> th, inSession |-> inSession, arrives |-> arrives]

MCItems ==
  { Item("news", Thesis("up", 10, FALSE, FALSE), TRUE, 0),
    Item("news", Thesis("down", 4, TRUE, FALSE), TRUE, 2),
    Item("news", [Thesis("up", 4, FALSE, FALSE) EXCEPT !.allowed = FALSE], FALSE, 1),
    Item("news", Thesis("down", 4, FALSE, TRUE), FALSE, 1),
    Item("scanner", Thesis("down", 4, FALSE, FALSE), TRUE, 0),
    Item("eh_shadow", Thesis("up", 4, FALSE, FALSE), FALSE, 0) }

Quiet ==
  [move |-> 1, vol |-> "low", gap |-> 0, stale |-> FALSE,
   clock |-> "morning", etb |-> TRUE, ssr |-> FALSE, twoSided |-> TRUE,
   late |-> FALSE, ranOn |-> FALSE, wrongSide |-> FALSE, vertical |-> FALSE]

Confirmed == [Quiet EXCEPT !.move = 5, !.vol = "high"]

MCStories ==
  {{}, {[item |-> "a", outlet |-> "wire", tier |-> 2], [item |-> "b", outlet |-> "wire", tier |-> 2]}}

MCMarkets ==
  { Quiet, Confirmed,
    [Confirmed EXCEPT !.move = 14, !.late = TRUE, !.etb = FALSE],
    [Confirmed EXCEPT !.vol = "none", !.gap = 6, !.twoSided = FALSE, !.wrongSide = TRUE],
    [Confirmed EXCEPT !.stale = TRUE, !.clock = "blackout", !.ssr = TRUE, !.vertical = TRUE] }
=============================================================================
