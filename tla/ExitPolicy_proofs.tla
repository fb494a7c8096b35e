-------------------------- MODULE ExitPolicy_proofs --------------------------
(***************************************************************************)
(* Safety of the exit policy of a position, for every price grid, every     *)
(* threshold of the exit profile, size of the position, and number of       *)
(* verdicts, faults and refused exits.                                      *)
(***************************************************************************)
EXTENDS ExitPolicy, TLAPS

Marks    == Prices \cup {Entry}
Policies == [stop : Int, basis : Bases, hwm : Marks, scaled : BOOLEAN, promoted : BOOLEAN,
             guard : BOOLEAN, atOpen : BOOLEAN]

(* What an evaluation may ask for, by kind. *)
Layers       == {"STOP", "BREAKEVEN", "TRAIL", "INVALIDATION", "TIME"}
ExitActions  == [kind : {"EXIT"}, layer : Layers]
ScaleActions == [kind : {"SCALE_OUT"}, qty : Nat]
StopActions  == [kind : {"SET_STOP"}, stop : Int, basis : Bases, hwm : Marks]
MarkActions  == [kind : {"HWM"}, hwm : Marks]
MipActions   == [kind : {"MIP"}, stop : Int, basis : Bases]
Actions == ExitActions \cup ScaleActions \cup StopActions \cup MarkActions \cup MipActions

(* TypeOK in a form steps can be computed with, the contents of todo added. *)
TypeInv ==
  /\ side \in Sides /\ origin \in Origins /\ qty \in 0 .. Qty /\ confirmed \in BOOLEAN
  /\ clock \in {"early", "session", "night"}
  /\ pc \in {"idle", "promote", "openexit", "guardexit", "read", "step", "apply", "flag"}
  /\ row \in Policies /\ pos \in Policies /\ (c11 # NoCopy => c11 \in Policies)
  /\ todo \in Seq(Actions) /\ Len(todo) <= 3 /\ (pc = "flag" => todo # <<>>)
  /\ news \in 0 .. MaxNews /\ faults \in 0 .. MaxFaults /\ refusals \in 0 .. MaxRefusals
  /\ scaleOuts \in Nat /\ promotions \in Nat

(* A copy that is as good as the row: only the guard writes beside it. *)
Mirrors(copy) ==
  /\ copy.stop = row.stop /\ copy.scaled = row.scaled
  /\ copy.promoted = row.promoted

(* The engine's copy is fresh wherever it is written back, and so is that of the
   management pass, whose nights the engine spends idle. *)
CopiesFresh ==
  /\ pc \in {"promote", "step", "apply", "flag"} => Mirrors(pos)
  /\ pc = "promote" => ~pos.promoted
  /\ pc # "idle" => clock # "night"
  /\ c11 # NoCopy => Mirrors(c11) /\ clock = "night"

(* The actions a policy may be left with: a scale-out only in front and only of a
   position not yet halved, and a ratchet still tighter than the stop it was
   computed from, with no other write of the stop before it. *)
PlanFor(s, policy, plan) ==
  /\ plan \in Seq(Actions)
  /\ \A i \in 1 .. Len(plan) :
       /\ plan[i].kind = "SCALE_OUT" => i = 1 /\ policy.scaled = FALSE
       /\ plan[i].kind = "SET_STOP" => is_tighter(s, plan[i].stop, policy.stop)
  /\ \A i, j \in 1 .. Len(plan) :
       i < j /\ plan[i].kind \in {"SET_STOP", "MIP"} => plan[j].kind # "SET_STOP"

PlanOK ==
  /\ pc \notin {"apply", "flag"} => todo = <<>>
  /\ PlanFor(side, pos, todo)

(* Every scale-out but one is paid for by a fault, and that one shows in the row
   or is about to. *)
Paid ==
  /\ scaleOuts <= 1 + faults
  /\ ~row.scaled /\ pc # "flag" => scaleOuts <= faults

(* A promotion shows in the row. *)
Graduated == promotions <= 1 /\ (~row.promoted => promotions = 0)

PolicyInv == CopiesFresh /\ PlanOK /\ Paid /\ Graduated

USE RulesAssumption, PolicyAssumption

-----------------------------------------------------------------------------
(* The operators of ExitRules *)

(* A stop is tighter when it is nearer to the price: higher for a long position,
   lower for a short one. *)
LEMMA Tighter ==
  ASSUME NEW s \in Sides, NEW a \in Int, NEW b \in Int
  PROVE  is_tighter(s, a, b) <=> IF s = "LONG" THEN a > b ELSE a < b
  BY DEF is_tighter, dir_mult, Sides

LEMMA TrailIsPrice ==
  ASSUME NEW s \in Sides, NEW mark \in Int, NEW d \in Int
  PROVE  trail_from(s, mark, d) \in Int
  BY DEF trail_from, dir_mult

LEMMA WatermarkIsMark ==
  ASSUME NEW s \in Sides, NEW mark \in Marks, NEW bar \in Bars
  PROVE  watermark(s, mark, bar) \in Marks
  BY DEF watermark, Best, Bars, Marks

(* The ratchet proposes only stops, and only tighter ones than the stop in force. *)
LEMMA RatchetTightens ==
  ASSUME NEW s \in Sides, NEW policy \in Policies, NEW bar \in Bars, NEW hwm \in Marks,
         NEW p \in Ratchet(s, policy, bar, hwm)
  PROVE  p.stop \in Int /\ p.basis \in Bases /\ is_tighter(s, p.stop, policy.stop)
<1>1. p \in LadderStops(s, policy, bar, hwm) \cup LockStops(s, hwm)
      /\ is_tighter(s, p.stop, policy.stop)
  BY DEF Ratchet
<1>2. trail_from(s, hwm, TrailBehind) \in Int /\ trail_from(s, hwm, LockBehind) \in Int
  BY TrailIsPrice DEF Marks
<1> QED
  BY <1>1, <1>2 DEF LadderStops, LockStops, Bases

(* A list of one action. *)
LEMMA Single ==
  ASSUME NEW a \in Actions
  PROVE  /\ <<a>> \in Seq(Actions) /\ Len(<<a>>) = 1 /\ <<a>>[1] = a
         /\ \A i \in 1 .. Len(<<a>>) : i = 1 /\ <<a>>[i] = a
  OBVIOUS

LEMMA Empty == <<>> \in Seq(Actions) /\ Len(<<>>) = 0 /\ \A i \in 1 .. Len(<<>>) : FALSE
  OBVIOUS

(* The evaluation of a bar plans at most a scale-out and then one write. *)
LEMMA EvaluationIsPlan ==
  ASSUME NEW s \in Sides, NEW policy \in Policies, NEW q \in Nat, NEW bar \in Bars,
         NEW halves, NEW cause \in {"none", "INVALIDATION", "TIME"}, NEW plan,
         plan = Evaluate(s, policy, q, bar, halves, cause)
  PROVE  /\ PlanFor(s, policy, plan) /\ Len(plan) <= 2
         /\ \A i \in 1 .. Len(plan) : plan[i].kind # "MIP"
<1> DEFINE hwm     == watermark(s, policy.hwm, bar)
           scale   == IF halves /\ ~policy.scaled /\ target_hit(s, bar) /\ q \div 2 > 0
                      THEN <<[kind |-> "SCALE_OUT", qty |-> q \div 2]>> ELSE <<>>
           ratchet == Ratchet(s, policy, bar, hwm)
           update  == IF ratchet # {}
                      THEN LET p == CHOOSE p \in ratchet : TRUE
                           IN  <<[kind |-> "SET_STOP", stop |-> p.stop, basis |-> p.basis, hwm |-> hwm]>>
                      ELSE IF hwm # policy.hwm THEN <<[kind |-> "HWM", hwm |-> hwm]>> ELSE <<>>
<1>1. hwm \in Marks
  BY WatermarkIsMark DEF Policies
<1>2. scale = <<>> \/ \E a \in ScaleActions : scale = <<a>> /\ policy.scaled = FALSE
  <2>1. q \div 2 \in Nat
    OBVIOUS
  <2>2. [kind |-> "SCALE_OUT", qty |-> q \div 2] \in ScaleActions
    BY <2>1 DEF ScaleActions
  <2>3. ~policy.scaled => policy.scaled = FALSE
    BY DEF Policies
  <2> QED
    BY Zenon, <2>2, <2>3
<1>3. \/ update = <<>> \/ \E a \in MarkActions : update = <<a>>
      \/ \E a \in StopActions : update = <<a>> /\ is_tighter(s, a.stop, policy.stop)
  <2>1. CASE ratchet # {}
    <3> DEFINE p == CHOOSE p \in ratchet : TRUE
               a == [kind |-> "SET_STOP", stop |-> p.stop, basis |-> p.basis, hwm |-> hwm]
    <3>1. p \in ratchet
      BY Zenon, <2>1
    <3>2. p.stop \in Int /\ p.basis \in Bases /\ is_tighter(s, p.stop, policy.stop)
      BY <3>1, <1>1, RatchetTightens
    <3>3. a \in StopActions /\ a.stop = p.stop
      BY <3>2, <1>1 DEF StopActions
    <3>4. update = <<a>>
      BY Zenon, <2>1
    <3> QED
      BY Zenon, <3>2, <3>3, <3>4
  <2>2. CASE ratchet = {}
    <3>1. [kind |-> "HWM", hwm |-> hwm] \in MarkActions
      BY <1>1 DEF MarkActions
    <3> QED
      BY Zenon, <2>2, <3>1
  <2> QED
    BY <2>1, <2>2
<1>4. \/ \E a \in ExitActions : plan = <<a>>
      \/ plan = scale \o update
  <2>1. Attribution[policy.basis] \in Layers
    <3>1. policy.basis \in {"initial", "breakeven", "trail"}
      BY DEF Policies, Bases
    <3>2. \A b \in {"initial", "breakeven", "trail"} : Attribution[b] \in Layers
      <4>1. Attribution["initial"] = "STOP"
        BY DEF Attribution
      <4>2. Attribution["breakeven"] = "BREAKEVEN"
        BY Zenon DEF Attribution
      <4>3. Attribution["trail"] = "TRAIL"
        BY DEF Attribution
      <4> QED
        BY <4>1, <4>2, <4>3 DEF Layers
    <3> QED
      BY Zenon, <3>1, <3>2
  <2>2. \A layer \in Layers : Exit(layer) \in ExitActions
    BY DEF Exit, ExitActions
  <2>3. cause # "none" => cause \in Layers
    BY DEF Layers
  <2> QED
    BY Zenon, <2>1, <2>2, <2>3 DEF Evaluate
<1> HIDE DEF scale, update
<1>5. CASE \E a \in ExitActions : plan = <<a>>
  <2>1. PICK a \in ExitActions : plan = <<a>>
    BY Zenon, <1>5
  <2>2. a \in Actions /\ a.kind = "EXIT"
    BY DEF Actions, ExitActions
  <2>3. plan \in Seq(Actions) /\ Len(plan) = 1 /\ \A i \in 1 .. Len(plan) : plan[i].kind = "EXIT"
    BY Zenon, <2>1, <2>2, Single
  <2> QED
    BY <2>3 DEF PlanFor
<1>6. CASE plan = scale \o update
  <2>1. /\ scale \in Seq(Actions) /\ Len(scale) <= 1
        /\ \A i \in 1 .. Len(scale) : i = 1 /\ scale[i].kind = "SCALE_OUT" /\ policy.scaled = FALSE
    <3>1. CASE scale = <<>>
      BY <3>1, Empty
    <3>2. ASSUME NEW a \in ScaleActions, scale = <<a>>, policy.scaled = FALSE PROVE <2>1
      <4>1. a \in Actions /\ a.kind = "SCALE_OUT"
        BY DEF Actions, ScaleActions
      <4> QED
        BY <3>2, <4>1, Single
    <3> QED
      BY Zenon, <1>2, <3>1, <3>2
  <2>2. /\ update \in Seq(Actions) /\ Len(update) <= 1
        /\ \A i \in 1 .. Len(update) :
             /\ update[i].kind \in {"HWM", "SET_STOP"}
             /\ update[i].kind = "SET_STOP" => is_tighter(s, update[i].stop, policy.stop)
    <3>1. CASE update = <<>>
      BY <3>1, Empty
    <3>2. ASSUME NEW a \in MarkActions, update = <<a>> PROVE <2>2
      <4>1. a \in Actions /\ a.kind = "HWM"
        BY DEF Actions, MarkActions
      <4> QED
        BY <3>2, <4>1, Single
    <3>3. ASSUME NEW a \in StopActions, update = <<a>>, is_tighter(s, a.stop, policy.stop) PROVE <2>2
      <4>1. a \in Actions /\ a.kind = "SET_STOP"
        BY DEF Actions, StopActions
      <4> QED
        BY <3>3, <4>1, Single
    <3> QED
      BY Zenon, <1>3, <3>1, <3>2, <3>3
  <2>3. /\ plan \in Seq(Actions) /\ Len(plan) = Len(scale) + Len(update)
        /\ Len(scale) \in Nat /\ Len(update) \in Nat
        /\ \A i \in 1 .. Len(plan) :
             plan[i] = IF i <= Len(scale) THEN scale[i] ELSE update[i - Len(scale)]
    BY <1>6, <2>1, <2>2
  <2>4. ASSUME NEW i \in 1 .. Len(plan) PROVE
          /\ plan[i].kind \in {"SCALE_OUT", "HWM", "SET_STOP"}
          /\ plan[i].kind = "SCALE_OUT" => i = 1 /\ policy.scaled = FALSE
          /\ plan[i].kind = "SET_STOP" => /\ is_tighter(s, plan[i].stop, policy.stop)
                                          /\ i = Len(scale) + 1
    <3>1. CASE i <= Len(scale)
      BY <3>1, <2>1, <2>3
    <3>2. CASE ~(i <= Len(scale))
      <4> DEFINE n == Len(scale)
                 m == Len(update)
      <4>0. n \in Nat /\ m \in Nat /\ m <= 1 /\ i \in 1 .. (n + m) /\ ~(i <= n)
        BY <3>2, <2>2, <2>3
      <4>2. plan[i] = update[i - n]
        BY <3>2, <2>3
      <4> HIDE DEF n, m
      <4>3. i - n \in 1 .. m /\ i = n + 1
        BY <4>0
      <4>1. i - Len(scale) \in 1 .. Len(update) /\ plan[i] = update[i - Len(scale)]
            /\ i = Len(scale) + 1
        BY <4>2, <4>3 DEF n, m
      <4> QED
        BY <4>1, <2>2
    <3> QED
      BY <3>1, <3>2
  <2>5. \A i, j \in 1 .. Len(plan) :
          i < j /\ plan[i].kind \in {"SET_STOP", "MIP"} => plan[j].kind # "SET_STOP"
    <3>1. ASSUME NEW i \in 1 .. Len(plan), NEW j \in 1 .. Len(plan), i < j,
                 plan[i].kind \in {"SET_STOP", "MIP"}, plan[j].kind = "SET_STOP"
          PROVE  FALSE
      <4>1. plan[i].kind = "SET_STOP"
        BY <2>4, <3>1
      <4>2. i = Len(scale) + 1 /\ j = Len(scale) + 1
        BY Zenon, <2>4, <3>1, <4>1
      <4> QED
        BY <3>1, <4>2, <2>3
    <3> QED
      BY Zenon, <3>1
  <2>6. Len(plan) <= 2 /\ \A i \in 1 .. Len(plan) : plan[i].kind # "MIP"
    BY <2>1, <2>2, <2>3, <2>4
  <2> QED
    BY Zenon, <2>3, <2>4, <2>5, <2>6 DEF PlanFor
<1> QED
  BY <1>4, <1>5, <1>6

(* _tighten_from_fire adds at most one write behind the bar's own actions. *)
LEMMA BarIsPlan ==
  ASSUME TypeInv, Step
  PROVE  PlanFor(side, pos, todo') /\ Len(todo') <= 3
<1>1. PICK bar \in Bars, cause \in {"none", "INVALIDATION", "TIME"},
           to \in {"none", "breakeven", "trail"} :
        todo' = Evaluate(side, pos, qty, bar, origin = "news", cause)
                  \o (IF to = "none" THEN <<>> ELSE MipStop(to))
  BY Zenon DEF Step
<1> DEFINE plan == Evaluate(side, pos, qty, bar, origin = "news", cause)
           mip  == IF to = "none" THEN <<>> ELSE MipStop(to)
<1>2. /\ PlanFor(side, pos, plan) /\ Len(plan) <= 2
      /\ \A i \in 1 .. Len(plan) : plan[i].kind # "MIP"
  <2>1. side \in Sides /\ pos \in Policies /\ qty \in Nat
    BY DEF TypeInv
  <2>2. bar \in Bars /\ cause \in {"none", "INVALIDATION", "TIME"}
    BY Zenon, <1>1
  <2>3. PICK halves : halves = (origin = "news")
    BY Zenon
  <2>4. plan = Evaluate(side, pos, qty, bar, halves, cause)
    BY Zenon, <2>3
  <2> HIDE DEF plan
  <2> QED
    BY <2>1, <2>2, <2>4, EvaluationIsPlan
<1>3. mip = <<>> \/ \E a \in MipActions : mip = <<a>>
  <2> DEFINE stop == IF to = "breakeven" THEN Entry ELSE trail_from(side, pos.hwm, MipBehind)
  <2>1. CASE to = "none"
    BY Zenon, <2>1
  <2>2. CASE to # "none"
    <3>0. side \in Sides /\ pos.hwm \in Int /\ MipBehind \in Int
      <4>1. pos.hwm \in Marks
        BY DEF TypeInv, Policies
      <4>2. Marks \subseteq Int
        BY DEF Marks
      <4>3. side \in Sides /\ MipBehind \in Int
        BY DEF TypeInv
      <4> QED
        BY Zenon, <4>1, <4>2, <4>3
    <3>1. trail_from(side, pos.hwm, MipBehind) \in Int
      BY <3>0, TrailIsPrice
    <3>2. [kind |-> "MIP", stop |-> stop, basis |-> to] \in MipActions
      BY <2>2, <3>1 DEF MipActions, Bases
    <3> QED
      BY Zenon, <2>2, <3>2 DEF MipStop
  <2> QED
    BY <2>1, <2>2
<1>4. todo' = plan \o mip
  BY Zenon, <1>1
<1> HIDE DEF plan, mip
<1>5. /\ mip \in Seq(Actions) /\ Len(mip) <= 1
      /\ \A i \in 1 .. Len(mip) : mip[i].kind = "MIP"
  <2>1. CASE mip = <<>>
    BY <2>1, Empty
  <2>2. ASSUME NEW a \in MipActions, mip = <<a>> PROVE <1>5
    <3>1. a \in Actions /\ a.kind = "MIP"
      BY DEF Actions, MipActions
    <3> QED
      BY <2>2, <3>1, Single
  <2> QED
    BY Zenon, <1>3, <2>1, <2>2
<1>6. /\ todo' \in Seq(Actions) /\ Len(todo') = Len(plan) + Len(mip)
      /\ Len(plan) \in Nat /\ Len(mip) \in Nat
      /\ \A i \in 1 .. Len(todo') :
           todo'[i] = IF i <= Len(plan) THEN plan[i] ELSE mip[i - Len(plan)]
  BY <1>2, <1>4, <1>5 DEF PlanFor
<1>7. ASSUME NEW i \in 1 .. Len(todo')
      PROVE  \/ i \in 1 .. Len(plan) /\ todo'[i] = plan[i]
             \/ i = Len(plan) + 1 /\ todo'[i].kind = "MIP"
  <2>1. CASE i <= Len(plan)
    BY <2>1, <1>6
  <2>2. CASE ~(i <= Len(plan))
    <3> DEFINE n == Len(plan)
               m == Len(mip)
    <3>1. n \in Nat /\ m \in Nat /\ m <= 1 /\ i \in 1 .. (n + m) /\ ~(i <= n)
      BY <2>2, <1>5, <1>6
    <3>2. todo'[i] = mip[i - n]
      BY <2>2, <1>6
    <3> HIDE DEF n, m
    <3>3. i - n \in 1 .. m /\ i = n + 1
      BY <3>1
    <3>4. i - Len(plan) \in 1 .. Len(mip) /\ i = Len(plan) + 1
      BY <3>3 DEF n, m
    <3> QED
      BY <3>2, <3>4, <1>5 DEF n
  <2> QED
    BY <2>1, <2>2
<1>8. ASSUME NEW i \in 1 .. Len(todo')
      PROVE  /\ todo'[i].kind = "SCALE_OUT" => i = 1 /\ pos.scaled = FALSE
             /\ todo'[i].kind = "SET_STOP" => is_tighter(side, todo'[i].stop, pos.stop)
  BY <1>7, <1>2 DEF PlanFor
<1>9. ASSUME NEW i \in 1 .. Len(todo'), NEW j \in 1 .. Len(todo'), i < j,
             todo'[i].kind \in {"SET_STOP", "MIP"}, todo'[j].kind = "SET_STOP"
      PROVE  FALSE
  <2>1. j \in 1 .. Len(plan) /\ todo'[j] = plan[j]
    BY <1>7, <1>9
  <2>2. i \in 1 .. Len(plan)
    BY <1>9, <2>1
  <2>3. todo'[i] = plan[i]
    BY <1>6, <2>2
  <2> QED
    BY <1>2, <1>9, <2>1, <2>2, <2>3 DEF PlanFor
<1>10. Len(todo') <= 3
  BY <1>2, <1>5, <1>6
<1> QED
  BY Zenon, <1>6, <1>8, <1>9, <1>10 DEF PlanFor

(* Once its first action is carried out the rest is a plan of the new policy:
   no scale-out is left, and no ratchet if the stop was written. *)
LEMMA TailIsPlan ==
  ASSUME NEW s, NEW policy, NEW next, NEW plan, PlanFor(s, policy, plan), plan # <<>>,
         next.stop = policy.stop \/ plan[1].kind \in {"SET_STOP", "MIP"}
  PROVE  PlanFor(s, next, Tail(plan)) /\ Len(Tail(plan)) <= Len(plan)
<1>1. /\ plan \in Seq(Actions) /\ Len(plan) \in Nat \ {0} /\ Tail(plan) \in Seq(Actions)
      /\ Len(Tail(plan)) = Len(plan) - 1
      /\ \A i \in 1 .. Len(Tail(plan)) : Tail(plan)[i] = plan[i + 1]
  BY DEF PlanFor
<1>2. \A i \in 1 .. Len(Tail(plan)) : i + 1 \in 1 .. Len(plan) /\ 1 < i + 1
  BY <1>1
<1>3. ASSUME NEW i \in 1 .. Len(Tail(plan))
      PROVE  /\ Tail(plan)[i].kind # "SCALE_OUT"
             /\ Tail(plan)[i].kind = "SET_STOP" => is_tighter(s, Tail(plan)[i].stop, next.stop)
  <2>1. i + 1 \in 1 .. Len(plan) /\ 1 < i + 1 /\ Tail(plan)[i] = plan[i + 1] /\ 1 \in 1 .. Len(plan)
    BY <1>1, <1>2
  <2>2. Tail(plan)[i].kind # "SCALE_OUT"
    BY <2>1 DEF PlanFor
  <2>3. CASE next.stop = policy.stop
    BY <2>1, <2>2, <2>3 DEF PlanFor
  <2>4. CASE plan[1].kind \in {"SET_STOP", "MIP"}
    BY <2>1, <2>2, <2>4 DEF PlanFor
  <2> QED
    BY <2>3, <2>4
<1>4. ASSUME NEW i \in 1 .. Len(Tail(plan)), NEW j \in 1 .. Len(Tail(plan)), i < j,
             Tail(plan)[i].kind \in {"SET_STOP", "MIP"}
      PROVE  Tail(plan)[j].kind # "SET_STOP"
  <2>1. i + 1 < j + 1
    BY <1>4
  <2> QED
    BY <1>1, <1>2, <1>4, <2>1 DEF PlanFor
<1>5. Len(Tail(plan)) <= Len(plan)
  BY <1>1
<1> QED
  BY Zenon, <1>1, <1>3, <1>4, <1>5 DEF PlanFor

LEMMA NoPlan == ASSUME NEW s, NEW policy PROVE PlanFor(s, policy, <<>>)
  BY Zenon, Empty DEF PlanFor

(* The kind of an action tells what else it says. *)
LEMMA ByKind ==
  ASSUME NEW a \in Actions
  PROVE  /\ a.kind = "SCALE_OUT" => a.qty \in Nat
         /\ a.kind = "SET_STOP" => a.stop \in Int /\ a.basis \in Bases /\ a.hwm \in Marks
         /\ a.kind = "HWM" => a.hwm \in Marks
         /\ a.kind = "MIP" => a.stop \in Int /\ a.basis \in Bases
  BY DEF Actions, ExitActions, ScaleActions, StopActions, MarkActions, MipActions

-----------------------------------------------------------------------------
(* Types *)

LEMMA FreshIsPolicy == ASSUME NEW s \in Sides PROVE Fresh(s) \in Policies
  BY DEF Fresh, Policies, Marks, Bases, initial_stop, dir_mult

LEMMA InitType == Init => TypeInv
<1> SUFFICES ASSUME Init PROVE TypeInv
  OBVIOUS
<1>1. side \in Sides /\ row = Fresh(side) /\ pos = Fresh(side) /\ c11 = NoCopy /\ todo = <<>>
  BY Zenon DEF Init
<1>2. row \in Policies /\ pos \in Policies
  BY Zenon, <1>1, FreshIsPolicy
<1>3. todo \in Seq(Actions) /\ Len(todo) <= 3
  BY <1>1, Empty
<1>4. confirmed \in BOOLEAN
  BY Zenon DEF Init
<1> QED
  BY <1>1, <1>2, <1>3, <1>4 DEF Init, TypeInv

(* What executing an exit does to the position. *)
LEMMA ExitEffect ==
  ASSUME TypeInv, ExitAll
  PROVE  qty' \in 0 .. Qty /\ refusals' \in 0 .. MaxRefusals
<1>1. qty \in 0 .. Qty /\ refusals \in 0 .. MaxRefusals
  BY Zenon DEF TypeInv
<1>2. \/ qty' = (IF qty > qty THEN 0 ELSE qty - qty) /\ refusals' = refusals
      \/ refusals < MaxRefusals /\ refusals' = refusals + 1 /\ qty' = qty
  BY Zenon DEF ExitAll, Sells, Reinstated
<1> QED
  BY <1>1, <1>2

(* The rest of the actions after the first. *)
LEMMA TailType ==
  ASSUME TypeInv, todo # <<>>
  PROVE  /\ Tail(todo) \in Seq(Actions) /\ Len(Tail(todo)) <= 3
         /\ Head(todo) = todo[1] /\ todo[1] \in Actions
  BY DEF TypeInv

(* ApplyStop writes one policy to the row and to the copy, as the action says. *)
LEMMA ApplyStopEffect ==
  ASSUME TypeInv, ApplyStop
  PROVE  /\ pos' \in Policies /\ row' = pos'
         /\ pos'.scaled = pos.scaled /\ pos'.promoted = pos.promoted
         /\ \/ pos'.stop = pos.stop /\ todo[1].kind = "HWM"
            \/ pos'.stop = todo[1].stop /\ todo[1].kind \in {"SET_STOP", "MIP"}
         /\ todo' = Tail(todo) /\ pc' = "apply" /\ pc = "apply" /\ todo # <<>>
<1>1. /\ Head(todo) = todo[1] /\ todo[1] \in Actions /\ pos \in Policies /\ todo # <<>>
      /\ todo' = Tail(todo) /\ pc' = "apply" /\ pc = "apply"
  BY TailType DEF ApplyStop, NextAction, TypeInv
<1> DEFINE a == todo[1]
<1>2. CASE a.kind = "SET_STOP" /\ UpdatePolicy([pos EXCEPT !.stop = a.stop, !.basis = a.basis, !.hwm = a.hwm])
  BY <1>1, <1>2, ByKind DEF UpdatePolicy, Policies
<1>3. CASE a.kind = "HWM" /\ UpdatePolicy([pos EXCEPT !.hwm = a.hwm])
  BY <1>1, <1>3, ByKind DEF UpdatePolicy, Policies
<1>4. CASE a.kind = "MIP" /\ UpdatePolicy([pos EXCEPT !.stop = a.stop, !.basis = a.basis])
  BY <1>1, <1>4, ByKind DEF UpdatePolicy, Policies
<1> QED
  BY Zenon, <1>1, <1>2, <1>3, <1>4 DEF ApplyStop

(* The management pass writes its copy, armed and with a stop no looser. *)
LEMMA ArmEffect ==
  ASSUME TypeInv, ArmThesisExit
  PROVE  /\ c11 \in Policies /\ row' \in Policies /\ c11' = NoCopy
         /\ \/ row' = row
            \/ /\ row'.scaled = c11.scaled /\ row'.promoted = c11.promoted
               /\ row'.stop = c11.stop \/ is_tighter(side, row'.stop, c11.stop)
         /\ UNCHANGED <<side, origin, qty, confirmed, clock, engine, counts>>
<1>1. PICK mark \in Prices :
        row' = LET target == trail_from(side, mark, 1)
                   stop   == IF is_tighter(side, target, c11.stop) THEN target ELSE c11.stop
               IN  IF Open /\ (stop # c11.stop \/ ~c11.atOpen)
                   THEN [c11 EXCEPT !.stop = stop, !.atOpen = TRUE] ELSE row
  BY Zenon DEF ArmThesisExit
<1> DEFINE target == trail_from(side, mark, 1)
           stop == IF is_tighter(side, target, c11.stop) THEN target ELSE c11.stop
<1>2. c11 \in Policies /\ row \in Policies /\ side \in Sides
  BY Zenon DEF ArmThesisExit, TypeInv
<1>3. target \in Int
  BY <1>2, TrailIsPrice
<1>4. stop \in Int /\ (stop = c11.stop \/ is_tighter(side, stop, c11.stop))
  BY <1>2, <1>3 DEF Policies
<1>5. row' = row \/ row' = [c11 EXCEPT !.stop = stop, !.atOpen = TRUE]
  BY Zenon, <1>1
<1> HIDE DEF stop
<1>6. /\ [c11 EXCEPT !.stop = stop, !.atOpen = TRUE] \in Policies
      /\ [c11 EXCEPT !.stop = stop, !.atOpen = TRUE].stop = stop
      /\ [c11 EXCEPT !.stop = stop, !.atOpen = TRUE].scaled = c11.scaled
      /\ [c11 EXCEPT !.stop = stop, !.atOpen = TRUE].promoted = c11.promoted
  BY <1>2, <1>4 DEF Policies
<1>7. c11' = NoCopy /\ UNCHANGED <<side, origin, qty, confirmed, clock, engine, counts>>
  BY Zenon DEF ArmThesisExit
<1> QED
  BY Zenon, <1>2, <1>4, <1>5, <1>6, <1>7

LEMMA StepType == ASSUME TypeInv, [Next]_vars PROVE TypeInv'
<1> USE DEF TypeInv, Goto, engine, counts
<1>1. CASE StartPass
  BY <1>1 DEF StartPass
<1>2. CASE Promote
  <2>1. row' \in Policies
    BY <1>2 DEF Promote, Policies
  <2>2. /\ pc' = "openexit" /\ promotions' = promotions + 1
        /\ UNCHANGED <<side, origin, qty, confirmed, clock, pos, todo, c11, news, faults, refusals, scaleOuts>>
    BY Zenon, <1>2 DEF Promote
  <2> QED
    BY <2>1, <2>2
<1>3. CASE OpenExit \/ GuardExit
  <2>1. qty' \in 0 .. Qty /\ refusals' \in 0 .. MaxRefusals
    BY <1>3, ExitEffect DEF OpenExit, GuardExit
  <2> QED
    BY <1>3, <2>1 DEF OpenExit, GuardExit
<1>4. CASE ReadPosition
  BY <1>4 DEF ReadPosition
<1>5. CASE Step
  <2>1. todo' \in Seq(Actions) /\ Len(todo') <= 3
    BY Zenon, <1>5, BarIsPlan DEF PlanFor
  <2>2. pc' = "apply" /\ UNCHANGED <<side, origin, row, qty, confirmed, clock, pos, c11, counts>>
    BY Zenon, <1>5 DEF Step
  <2> QED
    BY <2>1, <2>2
<1>6. CASE ApplyExit
  <2>1. qty' \in 0 .. Qty /\ refusals' \in 0 .. MaxRefusals
    BY <1>6, ExitEffect DEF ApplyExit
  <2>2. todo' \in Seq(Actions) /\ Len(todo') <= 3 /\ pc' = "idle"
    BY <1>6, Empty DEF ApplyExit, BarDone
  <2> QED
    BY <1>6, <2>1, <2>2 DEF ApplyExit
<1>7. CASE ApplyScaleOut
  <2>1. /\ todo # <<>> /\ Head(todo).qty \in Nat
        /\ UNCHANGED <<side, origin, row, confirmed, clock, pos, c11, news, faults, promotions>>
    BY <1>7, TailType, ByKind DEF ApplyScaleOut
  <2>2. qty' \in 0 .. Qty /\ refusals' \in 0 .. MaxRefusals /\ scaleOuts' \in Nat
    <3> DEFINE n == Head(todo).qty
    <3>1. qty \in 0 .. Qty /\ refusals \in 0 .. MaxRefusals /\ scaleOuts \in Nat
      BY Zenon DEF TypeInv
    <3>2. \/ qty' = (IF n > qty THEN 0 ELSE qty - n) /\ refusals' = refusals /\ scaleOuts' = scaleOuts + 1
          \/ qty' = 0 /\ refusals' = refusals /\ scaleOuts' = scaleOuts
          \/ qty' = qty /\ refusals < MaxRefusals /\ refusals' = refusals + 1 /\ scaleOuts' = scaleOuts
      BY Zenon, <1>7 DEF ApplyScaleOut, Sells, StopFilled, Reinstated
    <3>3. n \in Nat
      BY <2>1
    <3> HIDE DEF n, TypeInv
    <3>4. qty' \in 0 .. Qty /\ scaleOuts' \in Nat
      BY <3>1, <3>2, <3>3
    <3>5. refusals' \in 0 .. MaxRefusals
      BY <3>1, <3>2
    <3> QED
      BY <3>4, <3>5
  <2>3. pc' \in {"flag", "idle", "apply"} /\ (todo' = todo \/ todo' = <<>> \/ todo' = Tail(todo))
    BY Zenon, <1>7 DEF ApplyScaleOut, BarDone, NextAction
  <2>4. todo' \in Seq(Actions) /\ Len(todo') <= 3 /\ (pc' = "flag" => todo' # <<>>)
    <3>1. Len(<<>>) <= 3
      BY Empty
    <3>2. pc' = "flag" => todo' = todo
      BY <1>7 DEF ApplyScaleOut, BarDone, NextAction
    <3> QED
      BY Zenon, <2>1, <2>3, <3>1, <3>2, Empty, TailType DEF TypeInv
  <2>5. UNCHANGED <<side, origin, row, confirmed, clock, pos, c11, news, faults, promotions>>
    BY Zenon, <2>1
  <2>6. pc' \in {"flag", "idle", "apply"}
    BY Zenon, <2>3
  <2> QED
    BY Zenon, <2>2, <2>4, <2>5, <2>6
<1>8. CASE FlagScaleOut
  <2>1. pos' \in Policies /\ row' \in Policies
    BY <1>8 DEF FlagScaleOut, UpdatePolicy, Policies
  <2>2. todo' \in Seq(Actions) /\ Len(todo') <= 3
    BY <1>8, TailType DEF FlagScaleOut, NextAction
  <2>4. pc' = "apply" /\ UNCHANGED <<side, origin, qty, confirmed, clock, c11, counts>>
    BY Zenon, <1>8 DEF FlagScaleOut, NextAction
  <2> QED
    BY <2>1, <2>2, <2>4
<1>9. CASE ApplyStop
  <2>1. pos' \in Policies /\ row' \in Policies /\ todo' \in Seq(Actions) /\ Len(todo') <= 3
        /\ pc' = "apply"
    BY <1>9, ApplyStopEffect, TailType
  <2>2. UNCHANGED <<side, origin, qty, confirmed, clock, c11, counts>>
    BY Zenon, <1>9 DEF ApplyStop
  <2> QED
    BY <2>1, <2>2
<1>10. CASE Applied
  BY <1>10 DEF Applied
<1>11. CASE Interrupt
  <2>1. todo' \in Seq(Actions) /\ Len(todo') <= 3
    BY <1>11, Empty DEF Interrupt
  <2> QED
    BY <1>11, <2>1 DEF Interrupt
<1>12. CASE Verdict
  <2>1. row' \in Policies
    BY <1>12 DEF Verdict, Policies
  <2>2. confirmed' \in BOOLEAN
    BY Zenon, <1>12 DEF Verdict
  <2>3. /\ news' \in 0 .. MaxNews
        /\ UNCHANGED <<side, origin, qty, clock, engine, c11, faults, refusals, scaleOuts, promotions>>
    <3>1. news < MaxNews /\ news' = news + 1
      BY Zenon, <1>12 DEF Verdict
    <3>2. UNCHANGED <<side, origin, qty, clock, engine, c11, faults, refusals, scaleOuts, promotions>>
      BY Zenon, <1>12 DEF Verdict
    <3> QED
      BY <3>1, <3>2
  <2> QED
    BY <2>1, <2>2, <2>3
<1>13. CASE ReadThesis
  BY <1>13 DEF ReadThesis
<1>14. CASE ArmThesisExit
  BY <1>14, ArmEffect
<1>15. CASE Tick
  BY <1>15 DEF Tick
<1>16. CASE UNCHANGED vars
  BY <1>16 DEF vars
<1> QED
  BY Zenon, <1>1, <1>2, <1>3, <1>4, <1>5, <1>6, <1>7, <1>8, <1>9, <1>10, <1>11, <1>12,
     <1>13, <1>14, <1>15, <1>16 DEF Next, Pass, Apply

(* Every variable of the policy model keeps its type, whatever an evaluation of
   the rules returns and whoever writes the policy. *)
THEOREM PolicyTypeCorrect == Spec => []TypeOK
<1>1. TypeInv => TypeOK
  <2> SUFFICES ASSUME TypeInv PROVE TypeOK
    OBVIOUS
  <2>1. ASSUME NEW p \in {row, pos} \cup ({c11} \ {NoCopy})
        PROVE  /\ p.stop \in Int /\ p.basis \in Bases /\ p.hwm \in Prices \cup {Entry}
               /\ {p.scaled, p.promoted, p.guard, p.atOpen} \subseteq BOOLEAN
    <3>1. p \in Policies
      BY Zenon, <2>1 DEF TypeInv
    <3>2. p.stop \in Int /\ p.basis \in Bases /\ p.hwm \in Prices \cup {Entry}
      BY <3>1 DEF Policies, Marks
    <3>3. p.scaled \in BOOLEAN /\ p.promoted \in BOOLEAN /\ p.guard \in BOOLEAN /\ p.atOpen \in BOOLEAN
      BY <3>1 DEF Policies
    <3> QED
      BY Zenon, <3>2, <3>3
  <2> QED
    BY Zenon, <2>1 DEF TypeInv, TypeOK
<1> QED
  BY <1>1, InitType, StepType, PTL DEF Spec

-----------------------------------------------------------------------------
(* The inductive invariant *)

LEMMA InitPolicy == Init => PolicyInv
<1> SUFFICES ASSUME Init PROVE PolicyInv
  OBVIOUS
<1>1. /\ side \in Sides /\ row = Fresh(side) /\ pos = row /\ c11 = NoCopy /\ todo = <<>>
      /\ pc = "idle" /\ scaleOuts = 0 /\ promotions = 0 /\ faults = 0
  BY Zenon DEF Init
<1>2. CopiesFresh /\ PlanOK
  BY Zenon, <1>1, NoPlan DEF CopiesFresh, PlanOK
<1>3. Paid /\ Graduated
  BY <1>1 DEF Paid, Graduated
<1> QED
  BY <1>2, <1>3 DEF PolicyInv

(* Who may change what in the row: the promotion sets one flag, the scale-out
   another, and the stop moves closer but for an invalidation's. *)
Moved ==
  \/ row'.stop = row.stop
  \/ is_tighter(side, row'.stop, row.stop)
  \/ pc = "apply" /\ todo # <<>> /\ todo[1].kind = "MIP"

LEMMA RowChange ==
  ASSUME TypeInv, CopiesFresh, PlanOK, [Next]_vars
  PROVE  /\ Moved
         /\ row'.scaled = row.scaled \/ FlagScaleOut
         /\ row'.promoted = row.promoted \/ Promote
<1>1. CASE UNCHANGED row
  BY Zenon, <1>1 DEF Moved
<1>2. CASE Promote
  <2>1. /\ row' = row \/ row' = [pos EXCEPT !.promoted = TRUE]
        /\ pos \in Policies /\ Mirrors(pos)
    BY Zenon, <1>2 DEF Promote, TypeInv, CopiesFresh
  <2>2. row'.stop = row.stop /\ row'.scaled = row.scaled
    BY <2>1 DEF Policies, Mirrors
  <2> QED
    BY Zenon, <1>2, <2>2 DEF Moved
<1>3. CASE FlagScaleOut
  <2>1. /\ row' = [pos EXCEPT !.scaled = TRUE]
        /\ pos \in Policies /\ Mirrors(pos)
    BY Zenon, <1>3 DEF FlagScaleOut, UpdatePolicy, TypeInv, CopiesFresh
  <2>2. row'.stop = row.stop /\ row'.promoted = row.promoted
    BY <2>1 DEF Policies, Mirrors
  <2> QED
    BY Zenon, <1>3, <2>2 DEF Moved
<1>4. CASE ApplyStop
  <2>1. /\ row' = pos' /\ Mirrors(pos) /\ todo # <<>> /\ pc = "apply"
        /\ pos'.scaled = pos.scaled /\ pos'.promoted = pos.promoted
        /\ \/ pos'.stop = pos.stop /\ todo[1].kind = "HWM"
           \/ pos'.stop = todo[1].stop /\ todo[1].kind \in {"SET_STOP", "MIP"}
    BY Zenon, <1>4, ApplyStopEffect DEF CopiesFresh
  <2>2. 1 \in 1 .. Len(todo)
    BY <2>1 DEF TypeInv
  <2>3. todo[1].kind = "SET_STOP" => is_tighter(side, todo[1].stop, pos.stop)
    BY Zenon, <2>2 DEF PlanOK, PlanFor
  <2>4. todo[1].kind \in {"SET_STOP", "MIP"} => todo[1].kind = "SET_STOP" \/ todo[1].kind = "MIP"
    OBVIOUS
  <2>5. row'.scaled = row.scaled /\ row'.promoted = row.promoted
    BY Zenon, <2>1 DEF Mirrors
  <2>6. Moved
    BY Zenon, <2>1, <2>3, <2>4 DEF Mirrors, Moved
  <2> QED
    BY <2>5, <2>6
<1>5. CASE Verdict
  <2>1. (row' = row \/ row' = [row EXCEPT !.guard = TRUE]) /\ row \in Policies
    BY Zenon, <1>5 DEF Verdict, TypeInv
  <2>2. row'.stop = row.stop /\ row'.scaled = row.scaled /\ row'.promoted = row.promoted
    BY <2>1 DEF Policies
  <2> QED
    BY Zenon, <2>2 DEF Moved
<1>6. CASE ArmThesisExit
  <2>1. Mirrors(c11)
    BY Zenon, <1>6 DEF ArmThesisExit, CopiesFresh
  <2>2. \/ row' = row
        \/ /\ row'.scaled = c11.scaled /\ row'.promoted = c11.promoted
           /\ row'.stop = c11.stop \/ is_tighter(side, row'.stop, c11.stop)
    BY Zenon, <1>6, ArmEffect
  <2> QED
    BY Zenon, <2>1, <2>2 DEF Mirrors, Moved
<1>7. CASE StartPass \/ OpenExit \/ GuardExit \/ ReadPosition \/ Step \/ ApplyExit \/ ApplyScaleOut
           \/ Applied \/ Interrupt \/ ReadThesis \/ Tick \/ UNCHANGED vars
  <2>1. UNCHANGED row
    BY Zenon, <1>7 DEF StartPass, OpenExit, GuardExit, ReadPosition, Step, ApplyExit,
       ApplyScaleOut, Applied, Interrupt, ReadThesis, Tick, vars
  <2> QED
    BY <1>1, <2>1
<1> QED
  BY Zenon, <1>2, <1>3, <1>4, <1>5, <1>6, <1>7 DEF Next, Pass, Apply

(* The copies stay as good as the row. *)
LEMMA StepFresh ==
  ASSUME TypeInv, CopiesFresh, PlanOK, [Next]_vars
  PROVE  CopiesFresh'
<1> USE DEF CopiesFresh, Mirrors, Goto, engine, counts
<1>1. CASE StartPass
  BY Zenon, <1>1 DEF StartPass
<1>2. CASE Promote
  BY Zenon, <1>2 DEF Promote
<1>3. CASE OpenExit \/ GuardExit
  BY Zenon, <1>3 DEF OpenExit, GuardExit
<1>4. CASE ReadPosition
  BY Zenon, <1>4 DEF ReadPosition
<1>5. CASE Step \/ Applied
  BY Zenon, <1>5 DEF Step, Applied
<1>6. CASE ApplyExit
  BY Zenon, <1>6 DEF ApplyExit, BarDone
<1>7. CASE ApplyScaleOut
  BY Zenon, <1>7 DEF ApplyScaleOut, BarDone, NextAction
<1>8. CASE FlagScaleOut
  BY Zenon, <1>8 DEF FlagScaleOut, NextAction, UpdatePolicy
<1>9. CASE ApplyStop
  <2>1. row' = pos' /\ pc = "apply" /\ pc' = "apply"
    BY Zenon, <1>9, ApplyStopEffect
  <2>2. UNCHANGED <<clock, c11>>
    BY Zenon, <1>9 DEF ApplyStop
  <2> QED
    BY Zenon, <2>1, <2>2
<1>10. CASE Interrupt \/ Tick
  BY Zenon, <1>10 DEF Interrupt, Tick
<1>11. CASE Verdict
  <2>1. (row' = row \/ row' = [row EXCEPT !.guard = TRUE]) /\ row \in Policies
        /\ UNCHANGED <<pc, pos, clock, c11>>
    BY Zenon, <1>11 DEF Verdict, TypeInv
  <2>2. row'.stop = row.stop /\ row'.scaled = row.scaled /\ row'.promoted = row.promoted
    BY <2>1 DEF Policies
  <2> QED
    BY Zenon, <2>1, <2>2
<1>12. CASE ReadThesis
  BY Zenon, <1>12 DEF ReadThesis
<1>13. CASE ArmThesisExit
  <2>1. c11' = NoCopy /\ c11 # NoCopy /\ UNCHANGED <<pc, pos, clock>>
    BY Zenon, <1>13 DEF ArmThesisExit
  <2> QED
    BY Zenon, <2>1
<1>14. CASE UNCHANGED vars
  BY Zenon, <1>14 DEF vars
<1> QED
  BY Zenon, <1>1, <1>2, <1>3, <1>4, <1>5, <1>6, <1>7, <1>8, <1>9, <1>10, <1>11, <1>12,
     <1>13, <1>14 DEF Next, Pass, Apply

(* What is left of a plan stays a plan of the policy in the engine's hands. *)
LEMMA StepPlan ==
  ASSUME TypeInv, PlanOK, [Next]_vars
  PROVE  PlanOK'
<1>0. side' = side
  BY Zenon DEF Next, Pass, Apply, StartPass, Promote, OpenExit, GuardExit, ReadPosition, Step,
     ApplyExit, ApplyScaleOut, FlagScaleOut, ApplyStop, Applied, Interrupt, Verdict, ReadThesis,
     ArmThesisExit, Tick, vars
<1>1. ASSUME todo' = <<>>, pc' # "flag" PROVE PlanOK'
  BY Zenon, <1>1, NoPlan DEF PlanOK
<1>2. ASSUME UNCHANGED <<pc, pos, todo>> PROVE PlanOK'
  BY Zenon, <1>0, <1>2 DEF PlanOK
<1>3. ASSUME todo # <<>>, todo' = Tail(todo), pc' = "apply", pos'.stop = pos.stop PROVE PlanOK'
  <2>1. PlanFor(side, pos', Tail(todo))
    BY Zenon, <1>3, TailIsPlan DEF PlanOK
  <2> QED
    BY Zenon, <1>0, <1>3, <2>1 DEF PlanOK
<1>4. CASE StartPass \/ Promote \/ OpenExit \/ GuardExit \/ ReadPosition
  <2>1. pc \notin {"apply", "flag"} /\ pc' # "flag" /\ todo' = todo
    BY <1>4 DEF StartPass, Promote, OpenExit, GuardExit, ReadPosition, Goto
  <2>2. todo = <<>>
    BY Zenon, <2>1 DEF PlanOK
  <2> QED
    BY Zenon, <1>1, <2>1, <2>2
<1>5. CASE Step
  <2>1. PlanFor(side, pos, todo') /\ pc' = "apply" /\ pos' = pos
    BY Zenon, <1>5, BarIsPlan DEF Step
  <2>2. pc' \in {"apply", "flag"}
    BY Zenon, <2>1
  <2> QED
    BY Zenon, <1>0, <2>1, <2>2 DEF PlanOK
<1>6. CASE ApplyExit \/ Applied \/ Interrupt
  <2>1. todo' = <<>> /\ pc' = "idle"
    BY Zenon, <1>6 DEF ApplyExit, Applied, Interrupt, BarDone
  <2>2. pc' # "flag"
    BY <2>1
  <2> QED
    BY <1>1, <2>1, <2>2
<1>7. CASE ApplyScaleOut
  <2>1. CASE pc' = "flag" /\ UNCHANGED <<todo, pos>>
    <3>1. PlanFor(side, pos, todo)
      BY DEF PlanOK
    <3> QED
      BY Zenon, <1>0, <2>1, <3>1 DEF PlanOK
  <2>2. CASE BarDone
    <3>1. pc' # "flag"
      BY <2>2 DEF BarDone
    <3> QED
      BY Zenon, <1>1, <2>2, <3>1 DEF BarDone
  <2>3. CASE NextAction
    BY Zenon, <1>3, <1>7, <2>3 DEF ApplyScaleOut, NextAction
  <2> QED
    BY Zenon, <1>7, <2>1, <2>2, <2>3 DEF ApplyScaleOut
<1>8. CASE FlagScaleOut
  <2>1. pos' = [pos EXCEPT !.scaled = TRUE] /\ pos \in Policies
    BY Zenon, <1>8 DEF FlagScaleOut, UpdatePolicy, TypeInv
  <2>2. pos'.stop = pos.stop
    BY <2>1 DEF Policies
  <2>3. todo # <<>>
    BY Zenon, <1>8 DEF FlagScaleOut, TypeInv
  <2> QED
    BY Zenon, <1>3, <1>8, <2>2, <2>3 DEF FlagScaleOut, NextAction
<1>9. CASE ApplyStop
  <2>1. /\ todo # <<>> /\ todo' = Tail(todo) /\ pc' = "apply"
        /\ pos'.stop = pos.stop \/ todo[1].kind \in {"SET_STOP", "MIP"}
    BY Zenon, <1>9, ApplyStopEffect
  <2>2. PlanFor(side, pos', Tail(todo))
    BY Zenon, <2>1, TailIsPlan DEF PlanOK
  <2> QED
    BY Zenon, <1>0, <2>1, <2>2 DEF PlanOK
<1>10. CASE Verdict \/ ReadThesis \/ ArmThesisExit \/ Tick \/ UNCHANGED vars
  <2>1. UNCHANGED <<pc, pos, todo>>
    BY Zenon, <1>10 DEF Verdict, ReadThesis, ArmThesisExit, Tick, vars, engine
  <2> QED
    BY <1>2, <2>1
<1> QED
  BY Zenon, <1>4, <1>5, <1>6, <1>7, <1>8, <1>9, <1>10 DEF Next, Pass, Apply

(* A second scale-out needs a fault that swallowed the flag of the first. *)
LEMMA StepPaid ==
  ASSUME TypeInv, CopiesFresh, PlanOK, Paid, [Next]_vars
  PROVE  Paid'
<1>1. ASSUME UNCHANGED <<scaleOuts, faults>>, row'.scaled \/ (row'.scaled = row.scaled /\ pc # "flag")
      PROVE  Paid'
  BY Zenon, <1>1 DEF Paid
<1>2. CASE ApplyScaleOut
  <2>1. UNCHANGED <<row, faults>> /\ pc = "apply" /\ pc # "flag"
    BY <1>2 DEF ApplyScaleOut
  <2>2. CASE scaleOuts' = scaleOuts
    BY Zenon, <1>1, <2>1, <2>2
  <2>3. CASE scaleOuts' = scaleOuts + 1 /\ pc' = "flag"
    <3>1. todo[1].kind = "SCALE_OUT" /\ 1 \in 1 .. Len(todo)
      BY <1>2 DEF ApplyScaleOut, TypeInv
    <3>2. pos.scaled = FALSE
      BY Zenon, <3>1 DEF PlanOK, PlanFor
    <3>3. ~row.scaled
      BY Zenon, <2>1, <3>2 DEF CopiesFresh, Mirrors
    <3>4. scaleOuts <= faults
      BY Zenon, <2>1, <3>3 DEF Paid
    <3>5. scaleOuts' <= 1 + faults'
      BY <2>1, <2>3, <3>4 DEF TypeInv
    <3> QED
      BY Zenon, <2>3, <3>5 DEF Paid
  <2> QED
    BY Zenon, <1>2, <2>2, <2>3 DEF ApplyScaleOut
<1>3. CASE FlagScaleOut
  <2>1. row' = [pos EXCEPT !.scaled = TRUE] /\ pos \in Policies /\ UNCHANGED <<scaleOuts, faults>>
    BY Zenon, <1>3 DEF FlagScaleOut, UpdatePolicy, TypeInv, counts
  <2>2. row'.scaled
    BY <2>1 DEF Policies
  <2> QED
    BY <1>1, <2>1, <2>2
<1>4. CASE Interrupt
  <2>1. faults' = faults + 1 /\ scaleOuts' = scaleOuts
    BY Zenon, <1>4 DEF Interrupt
  <2>2. scaleOuts <= 1 + faults
    BY Zenon DEF Paid
  <2>3. scaleOuts' <= faults' /\ scaleOuts' <= 1 + faults'
    BY <2>1, <2>2 DEF TypeInv
  <2> QED
    BY Zenon, <2>3 DEF Paid
<1>5. CASE StartPass \/ Promote \/ OpenExit \/ GuardExit \/ ReadPosition \/ Step \/ ApplyExit
           \/ ApplyStop \/ Applied
  <2>1. UNCHANGED <<scaleOuts, faults>>
    BY Zenon, <1>5 DEF StartPass, Promote, OpenExit, GuardExit, ReadPosition, Step, ApplyExit,
       ApplyStop, Applied, counts
  <2>2. pc # "flag" /\ ~FlagScaleOut
    BY <1>5 DEF StartPass, Promote, OpenExit, GuardExit, ReadPosition, Step, ApplyExit,
       ApplyStop, Applied, FlagScaleOut
  <2>3. row'.scaled = row.scaled
    BY Zenon, <2>2, RowChange
  <2> QED
    BY Zenon, <1>1, <2>1, <2>2, <2>3
<1>6. CASE Verdict \/ ReadThesis \/ ArmThesisExit \/ Tick \/ UNCHANGED vars
  <2>1. UNCHANGED <<scaleOuts, faults, pc>>
    BY Zenon, <1>6 DEF Verdict, ReadThesis, ArmThesisExit, Tick, vars, counts, engine
  <2>2. pc' # "flag" \/ ~FlagScaleOut
    BY <2>1 DEF FlagScaleOut, NextAction
  <2>3. row'.scaled = row.scaled
    <3>1. CASE FlagScaleOut
      BY <2>1, <3>1 DEF FlagScaleOut, NextAction
    <3> QED
      BY Zenon, <3>1, RowChange
  <2> QED
    BY Zenon, <2>1, <2>3 DEF Paid
<1> QED
  BY Zenon, <1>2, <1>3, <1>4, <1>5, <1>6 DEF Next, Pass, Apply

(* The row of a promoted position stays promoted. *)
LEMMA StepGraduated ==
  ASSUME TypeInv, CopiesFresh, PlanOK, Graduated, [Next]_vars
  PROVE  Graduated'
<1>1. CASE Promote
  <2>1. ~row.promoted
    BY Zenon, <1>1 DEF Promote, CopiesFresh, Mirrors
  <2>2. promotions = 0 /\ promotions' = promotions + 1
    BY Zenon, <1>1, <2>1 DEF Promote, Graduated
  <2>3. row' = [pos EXCEPT !.promoted = TRUE] /\ pos \in Policies
    BY Zenon, <1>1, <2>1 DEF Promote, TypeInv
  <2>4. row'.promoted
    BY <2>3 DEF Policies
  <2>5. promotions' <= 1
    BY <2>2
  <2> QED
    BY Zenon, <2>4, <2>5 DEF Graduated
<1>2. CASE ~Promote
  <2>1. row'.promoted = row.promoted
    BY Zenon, <1>2, RowChange
  <2>2. promotions' = promotions
    BY Zenon, <1>2 DEF Next, Pass, Apply, StartPass, OpenExit, GuardExit, ReadPosition, Step,
       ApplyExit, ApplyScaleOut, FlagScaleOut, ApplyStop, Applied, Interrupt, Verdict, ReadThesis,
       ArmThesisExit, Tick, vars, counts
  <2> QED
    BY Zenon, <2>1, <2>2 DEF Graduated
<1> QED
  BY <1>1, <1>2

LEMMA InductivePolicy == Spec => [](TypeInv /\ PolicyInv)
<1>1. TypeInv /\ PolicyInv /\ [Next]_vars => TypeInv' /\ PolicyInv'
  BY Zenon, StepType, StepFresh, StepPlan, StepPaid, StepGraduated DEF PolicyInv
<1> QED
  BY <1>1, InitType, InitPolicy, PTL DEF Spec

(* A position is sold in half at most once, and once more at most for each call
   that failed between a sale and its flag, however the passes of the engine, the
   guard and the management pass interleave. *)
THEOREM PolicyScaledOncePerFault == Spec => []ScaledOncePerFault
<1>1. TypeInv /\ PolicyInv => ScaledOncePerFault
  BY Zenon DEF PolicyInv, Paid, ScaledOncePerFault
<1> QED
  BY <1>1, InductivePolicy, PTL

(* No write of the policy brings the unpromoted form of a promoted position back. *)
THEOREM PolicyPromotedOnce == Spec => []PromotedOnce
<1>1. TypeInv /\ PolicyInv => PromotedOnce
  BY Zenon DEF PolicyInv, Graduated, PromotedOnce
<1> QED
  BY <1>1, InductivePolicy, PTL

(* Of all the writers only the tighten_stop of an invalidation moves a stop away
   from the price. *)
THEOREM PolicyLoosenedOnlyByInvalidation == Spec => LoosenedOnlyByInvalidation
<1> DEFINE Loosened == is_tighter(side, row.stop, row'.stop) =>
                         pc = "apply" /\ Head(todo).kind = "MIP"
<1>1. ASSUME TypeInv, TypeInv', CopiesFresh, PlanOK, [Next]_vars PROVE [Loosened]_vars
  <2> SUFFICES ASSUME is_tighter(side, row.stop, row'.stop)
               PROVE  pc = "apply" /\ Head(todo).kind = "MIP"
    BY Zenon
  <2>1. row.stop \in Int /\ row'.stop \in Int /\ side \in Sides
    BY <1>1 DEF TypeInv, Policies
  <2>2. row'.stop # row.stop /\ ~is_tighter(side, row'.stop, row.stop)
    BY <2>1, Tighter
  <2>3. pc = "apply" /\ todo # <<>> /\ todo[1].kind = "MIP"
    BY Zenon, <1>1, <2>2, RowChange DEF Moved
  <2> QED
    BY <1>1, <2>3, TailType
<1>2. TypeInv /\ TypeInv' /\ PolicyInv /\ [Next]_vars => [Loosened]_vars
  BY Zenon, <1>1 DEF PolicyInv
<1> QED
  BY <1>2, InductivePolicy, PTL DEF Spec, LoosenedOnlyByInvalidation
===============================================================================
