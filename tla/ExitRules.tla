----------------------------- MODULE ExitRules -----------------------------
(***************************************************************************)
(* The pure part of the exit engine: the directional arithmetic of         *)
(* common/direction.py and the layered evaluation of one bar, exits.py.    *)
(* Prices are integers, one R is one unit of price, the thresholds of the  *)
(* exit profile are distances.  A long position gains as prices rise, a    *)
(* short one as they fall.                                                 *)
(***************************************************************************)
EXTENDS Integers, Sequences

CONSTANTS
  Prices,        \* the prices a bar may show
  MaxSpread,     \* the widest bar
  Entry,         \* avg_entry
  RUnit,         \* distance from the entry to the initial stop
  BreakevenAt,   \* breakeven_at_R
  TrailAt,       \* trail.activate_at_R
  TrailBehind,   \* trail.k * atr
  TargetAt,      \* realization target, as a distance
  LockAt,        \* profit_lock.activate_pct
  LockBehind     \* profit_lock.trail_pct

ASSUME RulesAssumption ==
  /\ Prices \subseteq Int /\ Entry \in Int /\ MaxSpread \in Nat
  /\ {RUnit, BreakevenAt, TrailAt, TrailBehind, TargetAt, LockAt, LockBehind} \subseteq Nat

Sides == {"LONG", "SHORT"}
Bars  == {b \in [low : Prices, high : Prices, close : Prices] :
            b.low <= b.close /\ b.close <= b.high /\ b.high - b.low <= MaxSpread}

dir_mult(side) == IF side = "LONG" THEN 1 ELSE -1

(* "Tighter = higher for longs, lower for shorts", strictly. *)
is_tighter(side, proposed, current) == dir_mult(side) * (proposed - current) > 0

(* The edges of a bar on the losing and on the winning side. *)
Worst(side, bar) == IF side = "LONG" THEN bar.low ELSE bar.high
Best(side, bar)  == IF side = "LONG" THEN bar.high ELSE bar.low

stop_hit(side, bar, stop)   == ~is_tighter(side, Worst(side, bar), stop)
target_hit(side, bar)       == dir_mult(side) * (Best(side, bar) - Entry) >= TargetAt
watermark(side, mark, bar)  == IF is_tighter(side, Best(side, bar), mark)
                               THEN Best(side, bar) ELSE mark
trail_from(side, mark, d)   == mark - dir_mult(side) * d
progress(side, price)       == dir_mult(side) * (price - Entry)
initial_stop(side)          == Entry - dir_mult(side) * RUnit

(* L2: the R ladder's proposal and the profit lock's, as (stop, basis) pairs. *)
LadderStops(side, policy, bar, hwm) ==
  IF progress(side, bar.close) >= TrailAt
  THEN {[stop |-> trail_from(side, hwm, TrailBehind), basis |-> "trail"]}
  ELSE IF progress(side, bar.close) >= BreakevenAt /\ policy.basis = "initial"
       THEN {[stop |-> Entry, basis |-> "breakeven"]}
       ELSE {}

LockStops(side, hwm) ==
  IF progress(side, hwm) >= LockAt
  THEN {[stop |-> trail_from(side, hwm, LockBehind), basis |-> "trail"]}
  ELSE {}

(* A mutant: a proposal is not compared with the stop in force. *)
RatchetAny(side, policy, bar, hwm) ==
  LET ladder == LadderStops(side, policy, bar, hwm)
  IN  IF ladder # {} THEN ladder ELSE LockStops(side, hwm)

(* The tightest proposal, if it is tighter than the stop in force; the ladder
   wins a tie, being the one the lock has to beat. *)
Ratchet(side, policy, bar, hwm) ==
  LET ladder == LadderStops(side, policy, bar, hwm)
      all    == ladder \cup {l \in LockStops(side, hwm) :
                               \A p \in ladder : is_tighter(side, l.stop, p.stop)}
  IN  {p \in all : /\ \A q \in all : ~is_tighter(side, q.stop, p.stop)
                   /\ is_tighter(side, p.stop, policy.stop)}

Attribution == [initial |-> "STOP", breakeven |-> "BREAKEVEN", trail |-> "TRAIL"]

Exit(layer) == [kind |-> "EXIT", layer |-> layer]

(* evaluate_on_bar: the exit layers in strict priority, or else the partial
   realization followed by the ratchet or the watermark's update.  `halves` says
   that the profile's realization is scale_out_50, `cause` that an invalidation
   fired ("INVALIDATION"), or else that the time stop's window passed without the
   progress ("TIME"), or neither ("none"). *)
Evaluate(side, policy, qty, bar, halves, cause) ==
  LET hwm     == watermark(side, policy.hwm, bar)
      scale   == IF halves /\ ~policy.scaled /\ target_hit(side, bar) /\ qty \div 2 > 0
                 THEN <<[kind |-> "SCALE_OUT", qty |-> qty \div 2]>> ELSE <<>>
      ratchet == Ratchet(side, policy, bar, hwm)
      update  == IF ratchet # {}
                 THEN LET p == CHOOSE p \in ratchet : TRUE
                      IN  <<[kind |-> "SET_STOP", stop |-> p.stop, basis |-> p.basis, hwm |-> hwm]>>
                 ELSE IF hwm # policy.hwm THEN <<[kind |-> "HWM", hwm |-> hwm]>> ELSE <<>>
  IN  IF stop_hit(side, bar, policy.stop) THEN <<Exit(Attribution[policy.basis])>>
      ELSE IF cause # "none" THEN <<Exit(cause)>>
      ELSE scale \o update
=============================================================================
