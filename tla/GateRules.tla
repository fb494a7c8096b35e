------------------------------ MODULE GateRules ------------------------------
(***************************************************************************)
(* The rules of the confirmation gate (c3_gate/rules.py) and the timing    *)
(* rules of its service, as pure operators.                                *)
(*                                                                         *)
(* A thesis is [dir, magnitude, risk, offering, long, fast, allowed]: its  *)
(* direction, expected move, source risk, whether the headline is of the   *)
(* class "offering", whether its horizon is LONG, whether A1 called it     *)
(* urgent, and whether its source may buy.  A reading is what one look at  *)
(* the market and at the story's cluster gave: [move, vol, gap, outlets,   *)
(* items, tier, stale, clock, etb, ssr, twoSided].  Moves, gaps and        *)
(* magnitudes count half per cents in the thesis's direction; clock says   *)
(* where the session is.                                                   *)
(***************************************************************************)
EXTENDS Integers, Sequences

CONSTANTS
  ShortLanes,   \* lanes of shorting.yaml that are on
  Window,       \* intraday_window_min
  Margin,       \* confirm_final_margin_secs
  Step,         \* confirm_recheck_secs
  MinBars,      \* min_confirm_bars
  FastBars,     \* fast_confirm_bars
  DeferCap      \* the most a first look is put off in one go

Pass == "PASS"

(* The first check that holds gives the reason of the veto. *)
FirstFailing(checks) ==
  IF \E i \in DOMAIN checks : checks[i].on
  THEN checks[CHOOSE i \in DOMAIN checks :
                /\ checks[i].on
                /\ \A j \in 1..(i - 1) : ~checks[j].on].veto
  ELSE Pass

Check(b, reason) == [on |-> b, veto |-> reason]

LaneFor(th) ==
  IF th.long THEN "news_long"
  ELSE IF th.dir = "down" /\ th.offering THEN "news_short_dilution"
  ELSE "news_short"

(* direction_gate: a short needs its lane, a borrow and room above the *)
(* short-sale restriction; what is not known counts against it.        *)
DirectionGate(th, lane, s) ==
  << Check(th.dir = "down" /\ lane \notin ShortLanes, "LONG_ONLY"),
     Check(th.dir = "down" /\ ~s.etb, "SHORT_UNAVAILABLE"),
     Check(th.dir = "down" /\ s.ssr, "SSR_RESTRICTED") >>

ImpactBucket(th) == IF th.magnitude >= 10 THEN 3 ELSE IF th.magnitude >= 4 THEN 2 ELSE 1

(* required_outlets of gate.yaml, by impact (1 low .. 3 high) and tier. *)
RequiredOutlets == << <<1, 1, 1>>, <<1, 1, 2>>, <<1, 2, 3>> >>

Smaller(a, b) == IF a < b THEN a ELSE b
Larger(a, b)  == IF a > b THEN a ELSE b

CredibilityRequired(th, s) ==
  IF s.tier = 1 THEN 1
  ELSE RequiredOutlets[Smaller(ImpactBucket(th) + (IF th.risk = "high" THEN 1 ELSE 0), 3)][s.tier]

(* Further items of the story earn at most one outlet. *)
GrowthCredit(s) == Smaller(Larger(s.items - Larger(s.outlets, 1), 0), 1)

CredibilityWithClass(required, th) == IF th.offering THEN Smaller(required, 1) ELSE required

Incredible(required, s) == Check(s.outlets + GrowthCredit(s) < required, "CREDIBILITY")

(* evaluate: the direction, the story, then either the confirmation of news *)
(* that arrived in the session or the gap of news that did not.             *)
Evaluate(th, lane, s, age, inSession) ==
  FirstFailing(
    DirectionGate(th, lane, s)
    \o << Incredible(CredibilityWithClass(CredibilityRequired(th, s), th), s) >>
    \o IF inSession
       THEN << Check(age > Window, "GATE_WINDOW"),
               Check(s.move >= 12, "GATE_EXTENDED"),
               Check(s.vol = "none", "MARKETDATA_MISSING"),
               Check(s.move < 3 \/ s.vol = "low", "GATE_NO_CONFIRM"),
               Check(s.stale, "STALE_MARKETDATA") >>
       ELSE << Check(s.clock \in {"closed", "blackout"}, "GATE_OPEN_WINDOW"),
               Check(2 * s.gap >= th.magnitude, "PRICED_IN"),
               Check(s.move >= 12, "GATE_EXTENDED"),
               Check(th.dir = "up" /\ s.move < 4, "HANDOFF_UNMOVED") >>)

LaneSourceFilter(verdict, th) ==
  IF verdict = Pass /\ th.dir = "up" /\ ~th.allowed THEN "LANE_SOURCE" ELSE verdict

(* A final veto read again as a short of its own: the fade of a bullish *)
(* story, the drift of a bearish one.  Both are only measured.          *)
FadeCandidate(th, s, verdict) ==
  /\ th.dir = "up"
  /\ verdict \in {"PRICED_IN", "GATE_EXTENDED", "HANDOFF_UNMOVED", "GATE_NO_CONFIRM"}
  /\ s.clock = "morning"
  /\ s.move \in 2..23

DriftCandidate(th, s, verdict) ==
  /\ th.dir = "down"
  /\ verdict \in {"PRICED_IN", "GATE_EXTENDED"}
  /\ s.clock \in {"morning", "midday"}
  /\ s.move \in 2..29

(* evaluate_eh: a live quote stands in for volume, and nothing is traded. *)
EvaluateEH(th, lane, s, age) ==
  FirstFailing(
    DirectionGate(th, lane, s)
    \o << Incredible(CredibilityRequired(th, s), s),
          Check(age > Window, "GATE_WINDOW"),
          Check(s.move >= 12, "GATE_EXTENDED"),
          Check(~s.twoSided, "EH_LIQUIDITY") >>)

(* evaluate_scanner: is what C10 saw still there, measured now. *)
EvaluateScanner(th, s) ==
  FirstFailing(
    DirectionGate(th, "scanner", s)
    \o << Check(s.late \/ s.ranOn, "SCANNER_STALE"),
          Check(s.wrongSide, "SCANNER_STRUCTURE"),
          Check(s.vertical, "SCANNER_PARABOLIC"),
          Check(~s.twoSided, "SCANNER_LIQUIDITY") >>)

(***************************************************************************)
(* Timing: how long a message is put off before and between looks.         *)
(***************************************************************************)
Rechecked == {"GATE_NO_CONFIRM", "MARKETDATA_MISSING", "CREDIBILITY", "STALE_MARKETDATA"}

ConfirmBars(th) == IF th.fast THEN Larger(1, Smaller(FastBars, MinBars)) ELSE MinBars

(* 0 stands for "look now": the window holds enough completed minutes. *)
DeferDelay(th, age) ==
  Smaller(Larger(1 + ConfirmBars(th) - age, 0), DeferCap)

AbandonRecheck(s) == s.move >= 12

(* A mutant: the last look may come after the window. *)
RecheckDelayWithoutMargin(age) ==
  IF Window - age <= Margin THEN 0 ELSE Step

(* A mutant: there is always another look. *)
RecheckDelayForever(age) == Larger(Smaller(Step, Window - age - Margin), 1)

(* 0 stands for "this verdict is final". *)
RecheckDelay(age) ==
  IF Window - age <= Margin THEN 0 ELSE Smaller(Step, Window - age - Margin)
=============================================================================
