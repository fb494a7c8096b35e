------------------------------ MODULE MCIntake ------------------------------
(* Two items of a story from two outlets: one is edited, cosmetically or *)
(* not, the other reprints it.                                           *)
EXTENDS Intake

CONSTANTS a, b, early, edited, update, X

MCShows == (a :> <<early, edited, update>>) @@ (b :> <<early>>)

MCAlike(v, w) == IF update \in {v, w} /\ v # w THEN "related" ELSE "duplicate"

MCOutlet == [i \in Items |-> i]

MCSymbols == [i \in Items |-> {X}]

Answer(valid, material, tickers) ==
  [valid |-> valid, material |-> material, sure |-> TRUE, tickers |-> tickers, strong |-> FALSE]

MCVerdicts == {Answer(TRUE, TRUE, {X}), Answer(TRUE, FALSE, {X})}

MCHeldNames == {{}, {X}}
=============================================================================
