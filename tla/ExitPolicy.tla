----------------------------- MODULE ExitPolicy -----------------------------
(***************************************************************************)
(* The exit policy of one open position and the three processes that write *)
(* it: the engine of C4 (promotion, ratchets, the flag of a scale-out, each *)
(* a write of the whole document it read), the guard A12 (a merge of one    *)
(* key in the transaction of its verdict) and the nightly management pass   *)
(* of C11 (a whole write again).  The evaluation of a bar is ExitRules.     *)
(***************************************************************************)
EXTENDS ExitRules

CONSTANTS
  Qty,          \* shares of the position
  MipBehind,    \* distance of a tighten_stop fired by an invalidation
  MaxNews,      \* guard verdicts
  MaxFaults,    \* calls of the engine that raise
  MaxRefusals   \* exits that come back REINSTATED

ASSUME PolicyAssumption ==
  /\ Qty \in Nat \ {0} /\ MipBehind \in Nat
  /\ MaxNews \in Nat /\ MaxFaults \in Nat /\ MaxRefusals \in Nat

VARIABLES
  side,        \* LONG or SHORT
  origin,      \* the lane that opened it: news, scanner or thesis
  row,         \* positions.exit_policy
  qty,         \* positions.qty_open; 0 is CLOSED
  confirmed,   \* a GUARD decision says news_confirms_move and thesis_intact
  clock,       \* "early" (before 09:35), "session" (to the close), "night"
  pc,          \* where the engine's pass is
  pos,         \* the engine's copy of the policy
  todo,        \* the actions of this bar not applied yet
  c11,         \* the copy in the management pass's hands, or NoCopy
  news, faults, refusals,   \* what the bounds count
  scaleOuts,   \* scale-outs that sold
  promotions   \* PROMOTED events

engine == <<pc, pos, todo>>
counts == <<news, faults, refusals, scaleOuts, promotions>>
vars   == <<side, origin, row, qty, confirmed, clock, engine, c11, counts>>

Origins == {"news", "scanner", "thesis"}
Bases  == {"initial", "breakeven", "trail"}
NoCopy == [none |-> TRUE]

Fresh(s) == [stop |-> initial_stop(s), basis |-> "initial", hwm |-> Entry, scaled |-> FALSE,
             promoted |-> FALSE, guard |-> FALSE, atOpen |-> FALSE]

TypeOK ==
  /\ side \in Sides /\ origin \in Origins /\ qty \in 0 .. Qty /\ confirmed \in BOOLEAN
  /\ clock \in {"early", "session", "night"}
  /\ pc \in {"idle", "promote", "openexit", "guardexit", "read", "step", "apply", "flag"}
  /\ \A p \in {row, pos} \cup ({c11} \ {NoCopy}) :
       /\ p.stop \in Int /\ p.basis \in Bases /\ p.hwm \in Prices \cup {Entry}
       /\ {p.scaled, p.promoted, p.guard, p.atOpen} \subseteq BOOLEAN
  /\ Len(todo) <= 3
  /\ news \in 0 .. MaxNews /\ faults \in 0 .. MaxFaults /\ refusals \in 0 .. MaxRefusals

Init ==
  /\ side \in Sides /\ origin \in Origins /\ (origin = "thesis" => side = "LONG")
  /\ row = Fresh(side) /\ qty = Qty
  /\ confirmed = FALSE /\ clock = "early"
  /\ pc = "idle" /\ pos = row /\ todo = <<>> /\ c11 = NoCopy
  /\ news = 0 /\ faults = 0 /\ refusals = 0 /\ scaleOuts = 0 /\ promotions = 0

Open == qty > 0

-----------------------------------------------------------------------------
(* The engine's pass: promotion, exits armed for the open, exits armed by the
   guard, then one bar. *)

Goto(where) == pc' = where /\ UNCHANGED <<pos, todo>>

(* The pass starts; promotion_pass reads the scanner positions whose news has
   been confirmed and that were not promoted before. *)
StartPass ==
  /\ pc = "idle" /\ clock # "night" /\ Open
  /\ pos' = row /\ UNCHANGED todo
  /\ pc' = IF origin = "scanner" /\ confirmed /\ ~row.promoted THEN "promote" ELSE "openexit"
  /\ UNCHANGED <<side, origin, row, qty, confirmed, clock, c11, counts>>

(* It writes each back whole, unless promoted_ts has appeared meanwhile; the
   event is written with it in any case. *)
Promote ==
  /\ pc = "promote"
  /\ row' = IF row.promoted THEN row ELSE [pos EXCEPT !.promoted = TRUE]
  /\ promotions' = promotions + 1
  /\ Goto("openexit")
  /\ UNCHANGED <<side, origin, qty, confirmed, clock, c11, news, faults, refusals, scaleOuts>>

(* execute_exit, see ExitMechanics: the shares are sold, or the catastrophe stop
   was faster, or the order does not fill and the stop is put back. *)
Sells(n) == qty' = IF n > qty THEN 0 ELSE qty - n
StopFilled == qty' = 0
Reinstated == refusals < MaxRefusals /\ refusals' = refusals + 1 /\ UNCHANGED qty

ExitAll == (Sells(qty) /\ UNCHANGED refusals) \/ Reinstated

(* open_exit_pass and guard_exit_pass read the rows afresh. *)
OpenExit ==
  /\ pc = "openexit"
  /\ IF row.atOpen /\ clock # "early" /\ Open THEN ExitAll ELSE UNCHANGED <<qty, refusals>>
  /\ Goto("guardexit")
  /\ UNCHANGED <<side, origin, row, confirmed, clock, c11, news, faults, scaleOuts, promotions>>

(* A mutant: an armed position is left to the ladder once its stop has moved. *)
GuardExitFirstOnly ==
  /\ pc = "guardexit"
  /\ IF row.guard /\ Open /\ row.basis = "initial" THEN ExitAll ELSE UNCHANGED <<qty, refusals>>
  /\ Goto("read")
  /\ UNCHANGED <<side, origin, row, confirmed, clock, c11, news, faults, scaleOuts, promotions>>

GuardExit ==
  /\ pc = "guardexit"
  /\ IF row.guard /\ Open THEN ExitAll ELSE UNCHANGED <<qty, refusals>>
  /\ Goto("read")
  /\ UNCHANGED <<side, origin, row, confirmed, clock, c11, news, faults, scaleOuts, promotions>>

(* The loop's own reading; the copy is used until the bar is dealt with. *)
ReadPosition ==
  /\ pc = "read"
  /\ pos' = row /\ pc' = IF Open THEN "step" ELSE "idle"
  /\ UNCHANGED <<side, origin, row, qty, confirmed, clock, todo, c11, counts>>

(* _tighten_from_fire: to breakeven, or behind the watermark the bar found. *)
MipStop(to) ==
  LET stop == IF to = "breakeven" THEN Entry ELSE trail_from(side, pos.hwm, MipBehind)
  IN  IF is_tighter(side, stop, pos.stop)
      THEN <<[kind |-> "MIP", stop |-> stop, basis |-> to]>> ELSE <<>>

(* One bar: the evaluator's actions, then those of the invalidations.  Only the
   profile of the news lane halves a position at its target. *)
Step ==
  /\ pc = "step"
  /\ \E bar \in Bars, cause \in {"none", "INVALIDATION", "TIME"}, to \in {"none", "breakeven", "trail"} :
       todo' = Evaluate(side, pos, qty, bar, origin = "news", cause)
                 \o (IF to = "none" THEN <<>> ELSE MipStop(to))
  /\ pc' = "apply"
  /\ UNCHANGED <<side, origin, row, qty, confirmed, clock, pos, c11, counts>>

(* _update_policy: the copy is updated and written whole. *)
UpdatePolicy(new) == pos' = new /\ row' = new

(* The action at the head of the list has been carried out. *)
NextAction == todo' = Tail(todo) /\ pc' = "apply"
BarDone    == todo' = <<>> /\ pc' = "idle"

ApplyExit ==
  /\ pc = "apply" /\ todo # <<>> /\ Head(todo).kind = "EXIT"
  /\ ExitAll /\ BarDone
  /\ UNCHANGED <<side, origin, row, confirmed, clock, pos, c11, news, faults, scaleOuts, promotions>>

ApplyScaleOut ==
  /\ pc = "apply" /\ todo # <<>> /\ Head(todo).kind = "SCALE_OUT"
  /\ \/ /\ Sells(Head(todo).qty) /\ scaleOuts' = scaleOuts + 1
        /\ pc' = "flag" /\ UNCHANGED <<todo, refusals>>
     \/ StopFilled /\ BarDone /\ UNCHANGED <<refusals, scaleOuts>>
     \/ Reinstated /\ NextAction /\ UNCHANGED scaleOuts
  /\ UNCHANGED <<side, origin, row, confirmed, clock, pos, c11, news, faults, promotions>>

(* A mutant: nothing sets the flag the evaluator gates on. *)
FlagNothing ==
  /\ pc = "flag" /\ NextAction
  /\ UNCHANGED <<side, origin, row, pos, qty, confirmed, clock, c11, counts>>

(* The once-only flag, after the exit has been booked. *)
FlagScaleOut ==
  /\ pc = "flag"
  /\ UpdatePolicy([pos EXCEPT !.scaled = TRUE]) /\ NextAction
  /\ UNCHANGED <<side, origin, qty, confirmed, clock, c11, counts>>

(* _ratchet and the bare watermark. *)
ApplyStop ==
  /\ pc = "apply" /\ todo # <<>>
  /\ LET a == Head(todo) IN
       \/ a.kind = "SET_STOP"
            /\ UpdatePolicy([pos EXCEPT !.stop = a.stop, !.basis = a.basis, !.hwm = a.hwm])
       \/ a.kind = "HWM" /\ UpdatePolicy([pos EXCEPT !.hwm = a.hwm])
       \/ a.kind = "MIP" /\ UpdatePolicy([pos EXCEPT !.stop = a.stop, !.basis = a.basis])
  /\ NextAction
  /\ UNCHANGED <<side, origin, qty, confirmed, clock, c11, counts>>

Applied ==
  /\ pc = "apply" /\ todo = <<>> /\ pc' = "idle"
  /\ UNCHANGED <<side, origin, row, qty, confirmed, clock, pos, todo, c11, counts>>

(* A call raises or the process dies: the rest of the pass is forgotten. *)
Interrupt ==
  /\ pc # "idle" /\ faults < MaxFaults
  /\ faults' = faults + 1 /\ pc' = "idle" /\ todo' = <<>>
  /\ UNCHANGED <<side, origin, row, qty, confirmed, clock, pos, c11, news, refusals, scaleOuts, promotions>>

-----------------------------------------------------------------------------
(* A verdict of A12 on an open position, one transaction: the decision row, and
   where auto execution is called for the arm, merged into the row. *)
Verdict ==
  /\ news < MaxNews /\ Open
  /\ news' = news + 1
  /\ \/ row' = [row EXCEPT !.guard = TRUE] /\ UNCHANGED confirmed
     \/ confirmed' = TRUE /\ UNCHANGED row
  /\ UNCHANGED <<side, origin, qty, clock, engine, c11, faults, refusals, scaleOuts, promotions>>

(* The management pass of C11 on a position whose thesis has died reads the
   rows, then decides and asks the earnings calendar for other positions ... *)
ReadThesis ==
  /\ origin = "thesis" /\ clock = "night" /\ c11 = NoCopy /\ Open
  /\ c11' = row
  /\ UNCHANGED <<side, origin, row, qty, confirmed, clock, engine, counts>>

(* ... and writes the policy back, the stop just under the mark if that is
   tighter, the exit armed if it was not.  The mark is any price. *)
ArmThesisExit ==
  /\ c11 # NoCopy
  /\ \E mark \in Prices :
       LET target == trail_from(side, mark, 1)
           stop   == IF is_tighter(side, target, c11.stop) THEN target ELSE c11.stop
       IN  row' = IF Open /\ (stop # c11.stop \/ ~c11.atOpen)
                  THEN [c11 EXCEPT !.stop = stop, !.atOpen = TRUE] ELSE row
  /\ c11' = NoCopy
  /\ UNCHANGED <<side, origin, qty, confirmed, clock, engine, counts>>

(* Time.  C11 runs five hours after the last pass that may touch a bar, and is
   done long before the open. *)
Tick ==
  /\ pc = "idle" /\ c11 = NoCopy
  /\ clock' = CASE clock = "early" -> "session" [] clock = "session" -> "night"
                [] clock = "night" -> "early"
  /\ UNCHANGED <<side, origin, row, qty, confirmed, engine, c11, counts>>

Apply == ApplyExit \/ ApplyScaleOut \/ FlagScaleOut \/ ApplyStop \/ Applied
Pass  == StartPass \/ Promote \/ OpenExit \/ GuardExit \/ ReadPosition \/ Step \/ Apply
Next  == Pass \/ Interrupt \/ Verdict \/ ReadThesis \/ ArmThesisExit \/ Tick

Spec == Init /\ [][Next]_vars

(* Days pass, and the loop, which runs every minute, has a pass in every session
   that lasts hours: strong fairness, because night disables both. *)
SessionPass == clock = "session" /\ StartPass
FairSpec == Spec /\ WF_vars(Pass) /\ SF_vars(SessionPass) /\ SF_vars(Tick) /\ WF_vars(ArmThesisExit)

-----------------------------------------------------------------------------
(* Properties *)

(* "TIGHTEN-ONLY ... a looser proposal is discarded, never applied" (exits.py):
   whoever writes the policy, the stop of an open position never moves away
   from the price. *)
StopOnlyTightens == [][Open => ~is_tighter(side, row.stop, row'.stop)]_vars

(* The one way in which it does: a tighten_stop of an invalidation, measured
   against the stop of before the bar, applied after the bar's own ratchet. *)
LoosenedOnlyByInvalidation ==
  [][is_tighter(side, row.stop, row'.stop) =>
       pc = "apply" /\ Head(todo).kind = "MIP"]_vars

(* "This pass market-exits it on the next engine pass" (guard_exit_pass): the
   arm of A12 is not taken off a position that is still open. *)
GuardArmStays == [][row.guard /\ ~row'.guard => qty' = 0]_vars

(* An arm that nobody overwrites is executed, however many orders come back
   unfilled and calls raise before. *)
GuardArmIsSold == row.guard ~> (~row.guard \/ qty = 0)

(* A position whose thesis died is sold on a later day, though ratchets, verdicts
   and refused exits come in between. *)
DeadThesisIsSold == row.atOpen ~> (qty = 0)

(* "The once-only flag": a position is halved once, and once more only for a
   call that failed between the sale and the flag. *)
ScaledOncePerFault == scaleOuts <= 1 + faults

(* A position graduates at most once: no later write of the policy brings its
   unpromoted form back. *)
PromotedOnce == promotions <= 1
=============================================================================
