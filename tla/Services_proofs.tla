--------------------------- MODULE Services_proofs ---------------------------
(***************************************************************************)
(* Proofs about the services beside the pipeline.                          *)
(*                                                                         *)
(* Each part of MCServices is a module of its own, taken with INSTANCE,    *)
(* but A3 and its caps (RiskCaps, Sizing), which MCServices extends.       *)
(* The parts share no variable, so that a behaviour of ServicesSpec is one *)
(* of every part, which the lemmas named ...Alone state; what is proved of *)
(* the specification of the part then holds of ServicesSpec.  For every    *)
(* part follow its inductive invariant, as a conjunction of named parts,   *)
(* the proof that every action keeps it, and what follows from it.         *)
(***************************************************************************)
EXTENDS MCServices, FiniteSetTheorems, FunctionTheorems, WellFoundedInduction, TLAPS

(* A12 is a part of the services. *)
LEMMA GuardAlone == ServicesSpec => G!GuardSpec
<1>1. ServicesInit => G!GuardInit
  BY DEF ServicesInit
<1>2. [ServicesNext]_servicesVars => [G!GuardNext]_(G!guardVars)
  BY DEF ServicesNext, servicesVars, guardVars, G!guardVars
<1> QED BY <1>1, <1>2, PTL DEF ServicesSpec, G!GuardSpec

(* A handler that asks about a position has found no verdict of it, and only *)
(* one handler is at work: the verdict it gives is the first, and so is what *)
(* it arms.                                                                  *)
ReviewShape ==
  /\ "phase" \in DOMAIN review
  /\ review.phase \in {"probe", "next", "ask"} => "todo" \in DOMAIN review

AskedAboutNew == review.phase = "ask" => rulings[G!Subject] = {}

RuledOnce ==
  /\ rulings = [p \in Holdings |-> rulings[p]]
  /\ arms \in [Holdings -> {0, 1}]
  /\ \A p \in Holdings :
       /\ rulings[p] = {} \/ \E v : rulings[p] = {v}
       /\ arms[p] = 1 => rulings[p] = {"exit"}

GuardInv == ReviewShape /\ AskedAboutNew /\ RuledOnce

(* Nothing has been judged at first. *)
LEMMA GuardInvInit == G!GuardInit => GuardInv
BY DEF G!GuardInit, G!NoReview, GuardInv, ReviewShape, AskedAboutNew, RuledOnce, G!Subject

(* Every step of A12 and of the positions keeps one verdict at most. *)
LEMMA GuardInvNext == GuardInv /\ [G!GuardNext]_(G!guardVars) => GuardInv'
<1> SUFFICES ASSUME GuardInv, [G!GuardNext]_(G!guardVars) PROVE GuardInv'
  OBVIOUS
<1> USE DEF GuardInv, ReviewShape, AskedAboutNew, G!Subject, G!NoReview, G!rows, G!around
<1>1. ASSUME NEW n \in Notices, G!Claim(n) PROVE GuardInv'
  BY <1>1 DEF G!Claim, RuledOnce
<1>2. CASE G!Expired
  BY <1>2 DEF G!Expired, G!Handled, RuledOnce
<1>3. CASE G!Resolve
  <2>1. \/ review' = [phase |-> "ack", of |-> review.of]
        \/ \E todo : review' = [phase |-> "probe", of |-> review.of, todo |-> todo]
    BY <1>3, Zenon DEF G!Resolve, G!Handled
  <2>2. UNCHANGED <<rulings, arms>>
    BY <1>3, Zenon DEF G!Resolve
  <2> QED BY <2>1, <2>2 DEF RuledOnce
<1>4. CASE G!SlotReady
  BY <1>4 DEF G!SlotReady, RuledOnce
<1>5. CASE G!SlotDown
  BY <1>5 DEF G!SlotDown, G!Handled, RuledOnce
<1>6. CASE G!Consider
  <2>1. UNCHANGED <<rulings, arms>>
    BY <1>6 DEF G!Consider
  <2>2. CASE review' = [phase |-> "ack", of |-> review.of]
    BY <2>1, <2>2 DEF RuledOnce
  <2>3. CASE review' = [phase |-> "next", of |-> review.of, todo |-> Tail(review.todo)]
    BY <2>1, <2>3 DEF RuledOnce
  <2>4. CASE /\ rulings[G!Subject] = {}
             /\ review' = [phase |-> "ask", of |-> review.of, todo |-> review.todo, attempt |-> 1]
    BY <2>1, <2>4 DEF RuledOnce
  <2> QED BY <1>6, <2>2, <2>3, <2>4, Zenon DEF G!Consider, G!Handled, G!Known, G!Pass
<1>7. CASE G!TransportError
  BY <1>7 DEF G!TransportError, G!Pass, RuledOnce
<1>8. CASE G!Invalid
  <2>1. CASE review' = [review EXCEPT !.attempt = @ + 1] /\ UNCHANGED rulings
    BY <1>8, <2>1 DEF G!Invalid, RuledOnce
  <2>2. CASE /\ rulings' = [rulings EXCEPT ![G!Subject] = @ \union {"REJECT"}]
             /\ review' = G!Pass
    BY <1>8, <2>2 DEF G!Invalid, G!Pass, RuledOnce
  <2> QED BY <1>8, <2>1, <2>2, Zenon DEF G!Invalid
<1>9. CASE G!Rule
  <2>1. PICK v \in Answers :
          /\ rulings' = [rulings EXCEPT ![G!Subject] = @ \union {v.action}]
          /\ arms' = IF G!AutoExecute(v) /\ G!Subject \in live THEN [arms EXCEPT ![G!Subject] = @ + 1] ELSE arms
    BY <1>9 DEF G!Rule
  <2>2. rulings[G!Subject] = {} /\ review' = G!Pass
    BY <1>9 DEF G!Rule
  <2>3. \/ arms' = arms
        \/ v.action = "exit" /\ arms' = [arms EXCEPT ![G!Subject] = @ + 1]
    BY <2>1, Zenon DEF G!AutoExecute
  <2>4. ReviewShape' /\ AskedAboutNew'
    BY <2>2 DEF G!Pass
  <2>5. G!Subject \in Holdings => arms[G!Subject] = 0
    BY <2>2 DEF RuledOnce
  <2>6. RuledOnce'
    <3> PICK act : act = v.action
      OBVIOUS
    <3>1. rulings' = [rulings EXCEPT ![G!Subject] = {act}]
      BY <2>1, <2>2
    <3>2. \A p \in Holdings : rulings'[p] = IF p = G!Subject THEN {act} ELSE rulings[p]
      BY <3>1 DEF RuledOnce
    <3>3. rulings' = [p \in Holdings |-> rulings'[p]]
      BY <3>1 DEF RuledOnce
    <3>4. arms' \in [Holdings -> {0, 1}]
      BY <2>3, <2>5 DEF RuledOnce
    <3>5. ASSUME NEW p \in Holdings, arms'[p] = 1 PROVE rulings'[p] = {"exit"}
      BY <2>3, <2>5, <3>2, <3>5 DEF RuledOnce
    <3> QED BY <3>2, <3>3, <3>4, <3>5, Zenon DEF RuledOnce
  <2> QED BY <2>4, <2>6
<1>10. CASE G!Acknowledge
  BY <1>10 DEF G!Acknowledge, RuledOnce
<1>11. CASE G!HandlerRaises
  BY <1>11 DEF G!HandlerRaises, RuledOnce
<1>12. CASE G!ConsumerDies
  BY <1>12 DEF G!ConsumerDies, RuledOnce
<1>13. CASE UNCHANGED <<review, rulings, arms>>
  BY <1>13 DEF RuledOnce
<1> QED BY <1>1, <1>2, <1>3, <1>4, <1>5, <1>6, <1>7, <1>8, <1>9, <1>10, <1>11, <1>12, <1>13
        DEF G!GuardNext, G!PositionCloses, G!SlotChanges, G!ItemAges, G!guardVars

(* One verdict at most is what JudgedOnce counts. *)
LEMMA SmallRulings == GuardInv => JudgedOnce
<1> SUFFICES ASSUME GuardInv, NEW p \in Holdings
             PROVE  Cardinality(rulings[p]) <= 1 /\ arms[p] <= 1 /\ (arms[p] = 1 => rulings[p] = {"exit"})
  BY Zenon DEF JudgedOnce, G!JudgedOnce, Cardinality, G!Cardinality
<1>1. Cardinality(rulings[p]) \in {0, 1}
  <2>1. CASE rulings[p] = {}
    BY <2>1, FS_EmptySet
  <2>2. ASSUME NEW v, rulings[p] = {v} PROVE Cardinality(rulings[p]) = 1
    BY <2>2, FS_Singleton
  <2> QED BY <2>1, <2>2 DEF GuardInv, RuledOnce
<1> QED BY <1>1 DEF GuardInv, RuledOnce

(* A12: two messages about one item, handled again after any failure or crash, *)
(* judge a position once and arm its exit at most once.                         *)
THEOREM ServicesJudgedOnce == ServicesSpec => []JudgedOnce
BY GuardAlone, GuardInvInit, GuardInvNext, SmallRulings, PTL DEF G!GuardSpec

------------------------------------------------------------------------------
(* C11 *)

(* C11 is a part of the services. *)
LEMMA PlanAlone == ServicesSpec => P!PlanSpec
<1>1. ServicesInit => P!PlanInit
  BY DEF ServicesInit
<1>2. [ServicesNext]_servicesVars => [P!PlanNext]_(P!planVars)
  BY DEF ServicesNext, servicesVars, planVars, P!planVars
<1> QED BY <1>1, <1>2, PTL DEF ServicesSpec, P!PlanSpec

(* A run goes on in an evening only, when C4 neither buys nor sells; so the    *)
(* positions it read are still the open ones when it reads the store, and what *)
(* it takes for taken covers every entry that is planned or held.              *)
PlanShape ==
  /\ lot = [i \in P!Intents |-> lot[i]]
  /\ "phase" \in DOMAIN plan
  /\ plan.phase = "manage" => {"held", "todo"} \subseteq DOMAIN plan
  /\ plan.phase = "enter" => {"todo", "taken", "room", "perThesis"} \subseteq DOMAIN plan

InEveningOnly == plan.phase # "none" => evening

HeldIsOpen == plan.phase = "manage" => plan.held = P!OpenLots

Live(i) == lot[i] \in {"PENDING", "OPEN"}

TakenCovers == plan.phase = "enter" => \A i \in P!Intents : Live(i) => i.ticker \in plan.taken

OneEach == \A i, j \in P!Intents : Live(i) /\ Live(j) /\ i.ticker = j.ticker => i = j

PlanInv == PlanShape /\ InEveningOnly /\ HeldIsOpen /\ TakenCovers /\ OneEach

(* Nothing is planned at first. *)
LEMMA PlanInvInit == P!PlanInit => PlanInv
BY DEF P!PlanInit, P!NoPlan, PlanInv, PlanShape, InEveningOnly, HeldIsOpen, TakenCovers, OneEach, Live

(* No run, crash, session or new day gives a ticker a second entry. *)
LEMMA PlanInvNext == PlanInv /\ [P!PlanNext]_(P!planVars) => PlanInv'
<1> SUFFICES ASSUME PlanInv, [P!PlanNext]_(P!planVars) PROVE PlanInv'
  OBVIOUS
<1> USE DEF PlanInv, PlanShape, InEveningOnly, HeldIsOpen, TakenCovers, OneEach, Live,
            P!NoPlan, P!store, P!books
<1>1. CASE P!StartRun
  BY <1>1 DEF P!StartRun, P!OpenLots
<1>2. CASE P!ReadStore
  <2>1. \E session, todo, cooling, per, room :
          plan' = [phase |-> "enter", session |-> session, todo |-> todo,
                   taken |-> {i.ticker : i \in plan.held} \union P!Pending,
                   cooling |-> cooling, perThesis |-> per, room |-> room]
    BY <1>2, Zenon DEF P!ReadStore
  <2>2. plan.phase = "manage" /\ UNCHANGED <<evening, lot>>
    BY <1>2, Zenon DEF P!ReadStore
  <2>3. ASSUME NEW i \in P!Intents, Live(i) PROVE i.ticker \in {k.ticker : k \in plan.held} \union P!Pending
    BY <2>2, <2>3 DEF P!OpenLots, P!Pending, P!PendingNames
  <2> QED BY <2>1, <2>2, <2>3
<1>3. CASE P!Plan
  <2> DEFINE c  == Head(plan.todo)
             id == P!IntentIdFor(c.thesis, c.ticker, plan.session)
  <2>1. plan.phase = "enter" /\ UNCHANGED evening
    BY <1>3 DEF P!Plan
  <2>2. CASE plan' = [plan EXCEPT !.todo = Tail(@)] /\ UNCHANGED lot
    BY <2>1, <2>2
  <2>3. CASE /\ c.ticker \notin plan.taken
             /\ lot' = IF lot[id] = "none" THEN [lot EXCEPT ![id] = "PENDING"] ELSE lot
             /\ plan' = [plan EXCEPT !.todo = Tail(@), !.taken = @ \union {c.ticker}, !.room = @ - 1,
                                     !.perThesis = [@ EXCEPT ![c.thesis] = @ + 1]]
    <3>1. plan'.phase = "enter" /\ DOMAIN plan' = DOMAIN plan /\ plan'.taken = plan.taken \union {c.ticker}
      BY <2>1, <2>3
    <3>2. id.ticker = c.ticker
      BY DEF P!IntentIdFor
    <3> HIDE DEF id
    <3>3. lot' = [i \in P!Intents |-> lot'[i]]
      BY <2>3
    <3>4. \A i \in P!Intents : lot'[i] = lot[i] \/ (i = id /\ lot'[i] = "PENDING")
      BY <2>3
    <3>5. ASSUME NEW i \in P!Intents, Live(i)' PROVE i.ticker \in plan'.taken
      BY <2>1, <3>1, <3>2, <3>4, <3>5
    <3>6. ASSUME NEW i \in P!Intents, NEW j \in P!Intents, Live(i)', Live(j)', i.ticker = j.ticker PROVE i = j
      BY <2>1, <2>3, <3>2, <3>4, <3>6
    <3> QED BY <2>1, <3>1, <3>3, <3>5, <3>6
  <2> QED BY <1>3, <2>2, <2>3, Zenon DEF P!Plan
<1>4. CASE P!Anchor \/ P!Crash
  BY <1>4 DEF P!Anchor, P!Crash
<1>5. ASSUME NEW i \in P!Intents, P!Manage(i) PROVE PlanInv'
  <2>1. plan' = [plan EXCEPT !.todo = @ \ {i}] /\ plan.phase = "manage" /\ UNCHANGED <<lot, evening>>
    BY <1>5 DEF P!Manage
  <2> QED BY <2>1 DEF P!OpenLots
<1>6. ASSUME NEW i \in P!Intents, P!Execute(i) PROVE PlanInv'
  <2>1. PICK outcome \in {"OPEN", "cancelled"} : lot' = [lot EXCEPT ![i] = outcome]
    BY <1>6 DEF P!Execute
  <2>2. ~evening /\ lot[i] = "PENDING" /\ UNCHANGED <<plan, evening>>
    BY <1>6 DEF P!Execute
  <2> QED BY <2>1, <2>2
<1>7. ASSUME NEW i \in P!Intents, P!Sell(i) PROVE PlanInv'
  <2>1. lot' = [lot EXCEPT ![i] = "closed"] /\ ~evening /\ UNCHANGED <<plan, evening>>
    BY <1>7 DEF P!Sell
  <2> QED BY <2>1
<1>8. CASE P!NewDay
  BY <1>8 DEF P!NewDay
<1>9. CASE P!EndSession
  <2>1. evening' = TRUE /\ UNCHANGED <<plan, lot>>
    BY <1>9, Zenon DEF P!EndSession
  <2> QED BY <2>1 DEF P!OpenLots
<1>10. CASE UNCHANGED <<plan, lot, evening>>
  BY <1>10 DEF P!OpenLots
<1>11. \/ \E i \in P!Intents : P!GuardArms(i)
       \/ \E t \in P!ThesisIds, status \in {"INVALIDATED", "EXPIRED"} : P!ThesisDies(t, status)
       \/ UNCHANGED P!planVars
       => UNCHANGED <<plan, lot, evening>>
  BY DEF P!GuardArms, P!ThesisDies, P!planVars
<1> QED BY <1>1, <1>2, <1>3, <1>4, <1>5, <1>6, <1>7, <1>8, <1>9, <1>10, <1>11, Zenon DEF P!PlanNext

(* What is planned or held is one entry for each ticker. *)
LEMMA EntriesOnce == PlanInv => OneEntryPerTicker
BY DEF PlanInv, OneEach, Live, OneEntryPerTicker, P!OneEntryPerTicker

(* C11: over evenings, reruns, crashes and theses that share a beneficiary, a *)
(* ticker never has two entries planned or held.                              *)
THEOREM ServicesOneEntryPerTicker == ServicesSpec => []OneEntryPerTicker
BY PlanAlone, PlanInvInit, PlanInvNext, EntriesOnce, PTL DEF P!PlanSpec

------------------------------------------------------------------------------
(* C11: the dead are armed *)

PolicyRow == [atOpen : BOOLEAN, guard : BOOLEAN]

DeadShape ==
  /\ policy \in [P!Intents -> PolicyRow]
  /\ thesis = [t \in P!ThesisIds |-> thesis[t]] /\ left \in [P!ThesisIds -> Nat]
  /\ plan.phase = "manage" =>
       /\ {"held", "todo", "read", "status"} \subseteq DOMAIN plan
       /\ plan.held \subseteq P!Intents
       /\ plan.read \in [plan.held -> PolicyRow]

DaysPass ==
  /\ today \in Nat \ {0} /\ lastRun \in Nat /\ lastRun <= today /\ (~evening => lastRun < today)
  /\ \A t \in P!ThesisIds : left[t] <= today /\ (left[t] # 0 => thesis[t] # "ACTIVE")

(* What a run read of theses and policies is old, but not about a thesis that *)
(* died on an earlier day, and no arm that it read has gone since.            *)
StatusKnown ==
  plan.phase = "manage" =>
    /\ \A t \in P!ThesisIds : left[t] \in 1 .. today - 1 => plan.status[t] # "ACTIVE"
    /\ \A i \in plan.held : plan.read[i].atOpen => policy[i].atOpen
    /\ \A i \in plan.held : i \in plan.todo \/ plan.status[i.thesis] = "ACTIVE" \/ policy[i].atOpen

DeadAreArmed ==
  \A i \in P!Intents :
    lot[i] = "OPEN" /\ i.session <= lastRun /\ left[i.thesis] \in 1 .. lastRun - 1 => policy[i].atOpen

DeadInv == DeadShape /\ DaysPass /\ StatusKnown /\ DeadAreArmed

(* No thesis is dead and no run is at work at first. *)
LEMMA DeadInvInit == P!PlanInit => DeadInv
<1> SUFFICES ASSUME P!PlanInit PROVE DeadInv
  OBVIOUS
<1>1. DeadShape
  BY DEF P!PlanInit, P!NoPlan, P!Unarmed, PolicyRow, DeadShape
<1>2. DaysPass
  BY DEF P!PlanInit, DaysPass
<1>3. StatusKnown /\ DeadAreArmed
  BY DEF P!PlanInit, P!NoPlan, StatusKnown, DeadAreArmed
<1> QED BY <1>1, <1>2, <1>3 DEF DeadInv

(* An arm is set, never cleared. *)
ArmsStay == \A i \in P!Intents : /\ policy[i].atOpen => policy'[i].atOpen
                                 /\ policy[i].guard => policy'[i].guard \/ policy'[i].atOpen

(* Only a day that passes, a run that read everything, a fill and a death     *)
(* can make a difference to what is to be armed.                              *)
LEMMA DeadKept ==
  ASSUME DeadInv, UNCHANGED <<today, evening, thesis, left, lastRun>>, ArmsStay,
         \A i \in P!Intents : lot'[i] = "OPEN" => lot[i] = "OPEN"
  PROVE  DaysPass' /\ DeadAreArmed'
<1>1. DaysPass'
  BY DEF DeadInv, DaysPass
<1>2. DeadAreArmed'
  BY DEF DeadInv, DeadAreArmed, ArmsStay
<1> QED BY <1>1, <1>2

(* A run, the guard, sessions and deaths keep the dead armed, and every arm. *)
LEMMA DeadInvNext == PlanInv /\ DeadInv /\ [P!PlanNext]_(P!planVars) => DeadInv' /\ ArmsStay
<1> SUFFICES ASSUME PlanInv, DeadInv, [P!PlanNext]_(P!planVars) PROVE DeadInv' /\ ArmsStay
  OBVIOUS
<1> USE DEF P!store, P!books
<1>a. UNCHANGED policy => ArmsStay
  BY DEF ArmsStay
<1>b. UNCHANGED <<policy, thesis, left, plan>> => DeadShape'
  BY DEF DeadInv, DeadShape
<1>c. UNCHANGED <<plan, policy, left, today>> => StatusKnown'
  BY DEF DeadInv, StatusKnown
<1>d. plan'.phase # "manage" => StatusKnown' /\ (UNCHANGED <<policy, thesis, left>> => DeadShape')
  BY DEF DeadInv, DeadShape, StatusKnown
<1>1. CASE P!StartRun
  <2>1. /\ plan'.phase = "manage" /\ plan'.held = P!OpenLots /\ plan'.todo = P!OpenLots /\ plan'.status = thesis
        /\ plan'.read = [i \in P!OpenLots |-> policy[i]]
        /\ {"held", "todo", "read", "status"} \subseteq DOMAIN plan'
        /\ UNCHANGED <<today, evening, thesis, left, lot, policy, lastRun>>
    BY <1>1 DEF P!StartRun
  <2>2. P!OpenLots \subseteq P!Intents
    BY DEF P!OpenLots
  <2>3. DeadShape'
    BY <2>1, <2>2 DEF DeadInv, DeadShape
  <2>4. StatusKnown'
    <3>1. ASSUME NEW t \in P!ThesisIds, left[t] \in 1 .. today - 1 PROVE thesis[t] # "ACTIVE"
      BY <3>1 DEF DeadInv, DaysPass, DeadShape
    <3> QED BY <2>1, <2>2, <3>1 DEF StatusKnown
  <2> QED BY <2>1, <2>3, <2>4, <1>a, DeadKept DEF DeadInv
<1>2. ASSUME NEW i \in P!Intents, P!Manage(i) PROVE DeadInv' /\ ArmsStay
  <2>1. /\ plan.phase = "manage" /\ i \in plan.todo /\ plan' = [plan EXCEPT !.todo = @ \ {i}]
        /\ UNCHANGED <<today, evening, thesis, left, lot, lastRun>>
    BY <1>2 DEF P!Manage
  <2>2. CASE plan.status[i.thesis] = "ACTIVE" /\ UNCHANGED policy
    <3>1. DeadShape' /\ StatusKnown'
      BY <2>1, <2>2 DEF DeadInv, DeadShape, StatusKnown
    <3> QED BY <2>1, <2>2, <3>1, <1>a, DeadKept DEF DeadInv
  <2>3. CASE i \notin plan.held
    <3>1. lot[i] # "OPEN"
      BY <2>1, <2>3 DEF PlanInv, HeldIsOpen, P!OpenLots
    <3>2. UNCHANGED policy
      BY <1>2, <3>1, Zenon DEF P!Manage
    <3>3. DeadShape' /\ StatusKnown'
      BY <2>1, <2>3, <3>2 DEF DeadInv, DeadShape, StatusKnown
    <3> QED BY <2>1, <3>2, <3>3, <1>a, DeadKept DEF DeadInv
  <2>4. CASE i \in plan.held /\ UNCHANGED policy /\ plan.read[i].atOpen
    <3>1. DeadShape' /\ StatusKnown'
      BY <2>1, <2>4 DEF DeadInv, DeadShape, StatusKnown
    <3> QED BY <2>1, <2>4, <3>1, <1>a, DeadKept DEF DeadInv
  <2>5. CASE i \in plan.held /\ policy' = [policy EXCEPT ![i] = P!Armed(i)]
    <3>1. plan.read[i] \in PolicyRow
      BY <2>1, <2>5 DEF DeadInv, DeadShape
    <3>2. P!Armed(i) \in PolicyRow /\ P!Armed(i).atOpen = TRUE
      BY <3>1 DEF P!Armed, PolicyRow
    <3>3. policy' \in [P!Intents -> PolicyRow] /\ policy'[i].atOpen = TRUE
          /\ \A j \in P!Intents : j # i => policy'[j] = policy[j]
      BY <2>5, <3>2 DEF DeadInv, DeadShape
    <3>4. ArmsStay
      BY <3>3 DEF ArmsStay
    <3>5. plan'.phase = "manage" /\ plan'.held = plan.held /\ plan'.read = plan.read /\ plan'.status = plan.status
          /\ plan'.todo = plan.todo \ {i} /\ DOMAIN plan' = DOMAIN plan
      BY <2>1 DEF DeadInv, DeadShape
    <3>6. DeadShape'
      BY <2>1, <3>3, <3>5 DEF DeadInv, DeadShape
    <3>7. StatusKnown'
      <4>1. \A j \in plan.held : j \in P!Intents
        BY <2>1 DEF DeadInv, DeadShape
      <4> QED BY <2>1, <3>3, <3>5, <4>1 DEF DeadInv, StatusKnown
    <3> QED BY <2>1, <3>4, <3>6, <3>7, DeadKept DEF DeadInv
  <2> QED
    <3>1. P!ManagementAction(plan.status[i.thesis], doubts[i]) = "none" => plan.status[i.thesis] = "ACTIVE"
      BY DEF P!ManagementAction
    <3>2. \/ UNCHANGED policy /\ P!ManagementAction(plan.status[i.thesis], doubts[i]) = "none"
          \/ UNCHANGED policy /\ plan.read[i].atOpen
          \/ UNCHANGED policy /\ lot[i] # "OPEN"
          \/ policy' = [policy EXCEPT ![i] = P!Armed(i)] /\ lot[i] = "OPEN"
      BY <1>2, Zenon DEF P!Manage
    <3>3. i \in plan.held <=> lot[i] = "OPEN"
      BY <2>1 DEF PlanInv, HeldIsOpen, P!OpenLots
    <3> QED BY <3>1, <3>2, <3>3, <2>2, <2>3, <2>4, <2>5
(* The run has managed every position it holds, and those are all there are.  *)
<1>3. CASE P!ReadStore
  <2>1. /\ plan.phase = "manage" /\ plan.todo = {} /\ plan'.phase = "enter" /\ lastRun' = today
        /\ UNCHANGED <<today, evening, thesis, left, lot, policy>>
    BY <1>3 DEF P!ReadStore
  <2>2. evening
    BY <2>1 DEF PlanInv, InEveningOnly
  <2>3. DaysPass'
    BY <2>1, <2>2 DEF DeadInv, DaysPass
  <2>4. DeadAreArmed'
    <3> SUFFICES ASSUME NEW i \in P!Intents, lot[i] = "OPEN", left[i.thesis] \in 1 .. today - 1
                 PROVE  policy[i].atOpen
      BY <2>1 DEF DeadAreArmed
    <3>1. i \in plan.held /\ i.thesis \in P!ThesisIds
      BY <2>1 DEF PlanInv, HeldIsOpen, P!OpenLots, P!Intents
    <3> QED BY <2>1, <3>1 DEF DeadInv, StatusKnown
  <2> QED BY <2>1, <2>3, <2>4, <1>a, <1>d DEF DeadInv
<1>4. CASE P!Plan
  <2>1. plan.phase = "enter" /\ UNCHANGED <<today, evening, thesis, left, policy, lastRun>>
    BY <1>4 DEF P!Plan
  <2>2. plan'.phase = "enter"
    BY <1>4, <2>1 DEF P!Plan, PlanInv, PlanShape
  <2>3. \A i \in P!Intents : lot'[i] = "OPEN" => lot[i] = "OPEN"
    <3>1. PICK id : lot' = lot \/ lot' = [lot EXCEPT ![id] = "PENDING"]
      BY <1>4, Zenon DEF P!Plan
    <3> QED BY <3>1 DEF PlanInv, PlanShape
  <2> QED BY <2>1, <2>2, <2>3, <1>a, <1>d, DeadKept DEF DeadInv
<1>5. CASE P!Anchor
  BY <1>5, <1>a, <1>d, DeadKept DEF P!Anchor, P!NoPlan, DeadInv
<1>6. CASE P!Crash
  BY <1>6, <1>a, <1>d, DeadKept DEF P!Crash, P!NoPlan, DeadInv
<1>7. ASSUME NEW i \in P!Intents, P!GuardArms(i) PROVE DeadInv' /\ ArmsStay
  <2>1. /\ policy' = [policy EXCEPT ![i].guard = TRUE]
        /\ UNCHANGED <<today, evening, thesis, left, lot, plan, lastRun>>
    BY <1>7 DEF P!GuardArms
  <2>2. policy' \in [P!Intents -> PolicyRow] /\ \A j \in P!Intents : policy'[j].atOpen = policy[j].atOpen
        /\ (policy[j].guard => policy'[j].guard)
    BY <2>1 DEF DeadInv, DeadShape, PolicyRow
  <2>3. ArmsStay
    BY <2>2 DEF ArmsStay
  <2>4. DeadShape'
    BY <2>1, <2>2 DEF DeadInv, DeadShape
  <2>5. StatusKnown'
    <3>1. plan.phase = "manage" => plan.held \subseteq P!Intents
      BY DEF DeadInv, DeadShape
    <3> QED BY <2>1, <2>2, <3>1 DEF DeadInv, StatusKnown
  <2> QED BY <2>1, <2>3, <2>4, <2>5, DeadKept DEF DeadInv
<1>8. ASSUME NEW i \in P!Intents, P!Execute(i) PROVE DeadInv' /\ ArmsStay
  <2>1. /\ ~evening /\ i.session = today /\ UNCHANGED <<today, evening, thesis, left, policy, plan, lastRun>>
        /\ \A j \in P!Intents : j # i => lot'[j] = lot[j]
    BY <1>8 DEF P!Execute, PlanInv, PlanShape
  <2>2. ~(i.session <= lastRun)
    BY <2>1 DEF DeadInv, DaysPass
  <2>3. DaysPass' /\ DeadAreArmed'
    BY <2>1, <2>2 DEF DeadInv, DaysPass, DeadAreArmed
  <2> QED BY <2>1, <2>3, <1>a, <1>b, <1>c DEF DeadInv
<1>9. ASSUME NEW i \in P!Intents, P!Sell(i) PROVE DeadInv' /\ ArmsStay
  <2>1. /\ UNCHANGED <<today, evening, thesis, left, policy, plan, lastRun>>
        /\ \A j \in P!Intents : lot'[j] = "OPEN" => lot[j] = "OPEN"
    BY <1>9 DEF P!Sell, PlanInv, PlanShape
  <2> QED BY <2>1, <1>a, <1>b, <1>c, DeadKept DEF DeadInv
<1>10. ASSUME NEW t \in P!ThesisIds, NEW status \in {"INVALIDATED", "EXPIRED"}, P!ThesisDies(t, status)
       PROVE  DeadInv' /\ ArmsStay
  <2>1. /\ thesis' = [thesis EXCEPT ![t] = status] /\ left' = [left EXCEPT ![t] = today]
        /\ UNCHANGED <<today, evening, lot, policy, plan, lastRun>>
    BY <1>10 DEF P!ThesisDies
  <2>2. /\ left' \in [P!ThesisIds -> Nat] /\ thesis' = [u \in P!ThesisIds |-> thesis'[u]]
        /\ left'[t] = today /\ thesis'[t] = status
        /\ \A u \in P!ThesisIds : u # t => left'[u] = left[u] /\ thesis'[u] = thesis[u]
    BY <2>1 DEF DeadInv, DeadShape, DaysPass
  <2>3. DeadShape'
    BY <2>1, <2>2 DEF DeadInv, DeadShape
  <2>4. DaysPass'
    BY <2>1, <2>2 DEF DeadInv, DaysPass
  <2>5. \A u \in P!ThesisIds, n \in Nat : n <= today /\ left'[u] \in 1 .. n - 1 => left'[u] = left[u]
    BY <2>2 DEF DeadInv, DaysPass
  <2>6. StatusKnown'
    BY <2>1, <2>5 DEF DeadInv, DaysPass, StatusKnown
  <2>7. DeadAreArmed'
    <3>1. \A i \in P!Intents : i.thesis \in P!ThesisIds
      BY DEF P!Intents
    <3> QED BY <2>1, <2>5, <3>1 DEF DeadInv, DaysPass, DeadAreArmed
  <2> QED BY <2>1, <2>3, <2>4, <2>6, <2>7, <1>a DEF DeadInv
<1>11. CASE P!NewDay
  <2>1. plan.phase = "none" /\ today' = today + 1 /\ UNCHANGED <<thesis, left, lot, policy, plan, lastRun>>
    BY <1>11 DEF P!NewDay, P!NoPlan
  <2>2. DaysPass'
    <3>1. today \in Nat \ {0} /\ lastRun \in Nat /\ lastRun <= today /\ \A t \in P!ThesisIds : left[t] \in Nat /\ left[t] <= today
      BY DEF DeadInv, DeadShape, DaysPass
    <3>2. today' \in Nat \ {0} /\ lastRun' \in Nat /\ lastRun' < today' /\ \A t \in P!ThesisIds : left'[t] <= today'
      BY <2>1, <3>1
    <3>3. \A t \in P!ThesisIds : left'[t] # 0 => thesis'[t] # "ACTIVE"
      BY <2>1 DEF DeadInv, DaysPass
    <3>4. lastRun' <= today'
      BY <3>2
    <3> QED BY <3>2, <3>3, <3>4, Zenon DEF DaysPass
  <2>3. DeadAreArmed'
    BY <2>1 DEF DeadInv, DeadAreArmed
  <2> QED BY <2>1, <2>2, <2>3, <1>a, <1>b, <1>d DEF DeadInv
<1>12. CASE P!EndSession
  <2>1. ~evening /\ evening' = TRUE /\ UNCHANGED <<today, thesis, left, lot, policy, plan, lastRun>>
    BY <1>12 DEF P!EndSession
  <2>2. DaysPass' /\ DeadAreArmed'
    BY <2>1 DEF DeadInv, DaysPass, DeadAreArmed
  <2> QED BY <2>1, <2>2, <1>a, <1>b, <1>c DEF DeadInv
<1>13. CASE UNCHANGED P!planVars
  BY <1>13, <1>a, <1>b, <1>c, DeadKept DEF P!planVars, DeadInv
<1> QED BY <1>1, <1>2, <1>3, <1>4, <1>5, <1>6, <1>7, <1>8, <1>9, <1>10, <1>11, <1>12, <1>13, Zenon DEF P!PlanNext

(* C11: whatever dies in the middle of a run, whatever the guard arms between *)
(* a run's read and its write, and however often runs crash: a position whose *)
(* thesis died before the last complete run is armed when the market opens,   *)
(* and no arm is ever lost.                                                   *)
THEOREM ServicesDeadThesisIsLeft == ServicesSpec => DeadThesisIsLeft
<1> DEFINE Step == /\ (evening /\ ~evening')
                        => \A i \in P!OpenLots :
                             i.session <= lastRun /\ left[i.thesis] \in 1 .. (lastRun - 1) => policy[i].atOpen
                   /\ \A i \in P!Intents : policy[i] # P!Unarmed => policy'[i] # P!Unarmed
<1>1. DeadInv => \A i \in P!OpenLots :
                   i.session <= lastRun /\ left[i.thesis] \in 1 .. (lastRun - 1) => policy[i].atOpen
  BY DEF DeadInv, DeadAreArmed, P!OpenLots
<1>2. DeadInv /\ DeadInv' /\ ArmsStay => \A i \in P!Intents : policy[i] # P!Unarmed => policy'[i] # P!Unarmed
  <2> SUFFICES ASSUME DeadInv, DeadInv', ArmsStay, NEW i \in P!Intents, policy'[i] = P!Unarmed
               PROVE  policy[i] = P!Unarmed
    OBVIOUS
  <2>1. policy[i] \in PolicyRow
    BY DEF DeadInv, DeadShape
  <2>2. policy[i].atOpen = FALSE /\ policy[i].guard = FALSE
    BY <2>1 DEF ArmsStay, P!Unarmed, PolicyRow
  <2> QED BY <2>1, <2>2 DEF P!Unarmed, PolicyRow
<1>3. PlanInv /\ DeadInv /\ [P!PlanNext]_(P!planVars) => [Step]_(P!planVars)
  BY <1>1, <1>2, DeadInvNext
<1> QED
  BY <1>3, PlanAlone, PlanInvInit, PlanInvNext, DeadInvInit, DeadInvNext, PTL
     DEF P!PlanSpec, DeadThesisIsLeft, P!DeadThesisIsLeft
------------------------------------------------------------------------------
(* A5 *)

(* A5 is a part of the services. *)
LEMMA ThemesAlone == ServicesSpec => H!ThemesSpec
<1>1. ServicesInit => H!ThemesInit
  BY DEF ServicesInit
<1>2. [ServicesNext]_servicesVars => [H!ThemesNext]_(H!themeVars)
  BY DEF ServicesNext, servicesVars, themeVars, H!themeVars, H!lane, H!theses
<1> QED BY <1>1, <1>2, PTL DEF ServicesSpec, H!ThemesSpec

(* The instance counts as the library does. *)
LEMMA ThemesCount == ASSUME NEW X PROVE H!Cardinality(X) = Cardinality(X)
BY Zenon DEF Cardinality, H!Cardinality

(* The counter of a thesis is the number of its rows. *)
EvidenceOf(t) == {e \in evidence : e.thesis = t}

CountsAgree ==
  /\ IsFiniteSet(evidence) /\ counted \in [H!ThesisIds -> Nat]
  /\ \A t \in H!ThesisIds : counted[t] = Cardinality(EvidenceOf(t))

(* A thesis that is to come or stands has not ended, and one that ended did so *)
(* in the status it still has.                                                 *)
EndedOnce ==
  /\ standing = [t \in H!ThesisIds |-> standing[t]] /\ ended = [t \in H!ThesisIds |-> ended[t]]
  /\ \A t \in H!ThesisIds :
       /\ standing[t] \in {"none", "ACTIVE"} => ended[t] = {}
       /\ ended[t] = {} \/ ended[t] = {standing[t]}

(* Every item that is still to anchor a thesis finds an identifier that none   *)
(* has yet: otherwise a thesis that has ended could begin again.               *)
Anchors == {x \in DOMAIN a5.ops : a5.ops[x] = "anchor"}
FreeIds == {n \in H!ToSet(NewIds) : standing[n] = "none"}

RoomForAnchors ==
  a5.phase = "apply" => /\ IsFiniteSet(DOMAIN a5.ops)
                        /\ Cardinality(Anchors) <= Cardinality(FreeIds)

ThemesShape ==
  /\ "phase" \in DOMAIN a5
  /\ a5.phase = "claim" => "batch" \in DOMAIN a5 /\ a5.batch \in Seq(ThesisLane)
  /\ a5.phase = "apply" => {"ops", "batch", "toAck", "reviews"} \subseteq DOMAIN a5

ThemesInv == ThemesShape /\ CountsAgree /\ EndedOnce /\ RoomForAnchors

(* A set of naturals that is not empty has a least element. *)
LEMMA LeastNatural ==
  ASSUME NEW X \in SUBSET Nat, X # {}
  PROVE  \E n \in X : \A m \in X : n <= m
<1> DEFINE R == {ss \in Nat \X Nat : ss[1] < ss[2]}
<1>1. IsWellFoundedOn(R, Nat)
  BY NatLessThanWellFounded, Zenon DEF OpToRel
<1>2. \A m, n \in Nat : m < n => <<m, n>> \in R
  OBVIOUS
<1> HIDE DEF R
<1>3. PICK n \in X : \A m \in X : ~(<<m, n>> \in R)
  BY <1>1, WFMin
<1>4. ASSUME NEW m \in X PROVE n <= m
  <2>1. ~(m < n)
    BY <1>2, <1>3
  <2> QED BY <2>1
<1> QED BY <1>4

(* There are finitely many identifiers to give. *)
LEMMA FiniteIds == IsFiniteSet(H!ToSet(NewIds))
<1>1. NewIds \in [1 .. Len(NewIds) -> H!ToSet(NewIds)] /\ Len(NewIds) \in Nat
  BY ServicesAssumption DEF H!ToSet
<1>2. NewIds \in Surjection(1 .. Len(NewIds), H!ToSet(NewIds))
  BY <1>1 DEF Surjection, H!ToSet
<1> QED BY <1>1, <1>2, FS_Surjection, FS_Interval

(* The next identifier of the sequence is free while one is. *)
LEMMA NextIdIsFree ==
  ASSUME FreeIds # {} PROVE H!NextId \in FreeIds
<1> DEFINE free == {i \in DOMAIN NewIds : standing[NewIds[i]] = "none"}
<1>1. DOMAIN NewIds = 1 .. Len(NewIds) /\ Len(NewIds) \in Nat
  BY ServicesAssumption
<1>2. free \in SUBSET Nat /\ free # {}
  BY <1>1 DEF FreeIds, H!ToSet
<1>3. PICK n \in free : \A m \in free : n <= m
  BY <1>2, LeastNatural
<1>4. n \in DOMAIN NewIds /\ standing[NewIds[n]] = "none" /\ \A j \in 1 .. (n - 1) : standing[NewIds[j]] # "none"
  BY <1>1, <1>3
<1>5. \E i \in DOMAIN NewIds :
        H!NextId = NewIds[i] /\ standing[NewIds[i]] = "none"
  BY <1>4, Zenon DEF H!NextId
<1> QED BY <1>5 DEF FreeIds, H!ToSet

(* A row and the counter of its thesis are written together, or not at all. *)
LEMMA EvidenceAdded ==
  ASSUME NEW t, NEW x, CountsAgree, H!AddEvidence(t, x)
  PROVE  CountsAgree'
<1> DEFINE e == [thesis |-> t, of |-> x]
<1>1. CASE e \in evidence
  <2>1. UNCHANGED <<evidence, counted>>
    BY <1>1, Zenon DEF H!AddEvidence
  <2> QED BY <2>1 DEF CountsAgree, EvidenceOf
<1>2. CASE e \notin evidence
  <2>1. evidence' = evidence \union {e} /\ counted' = [counted EXCEPT ![t] = @ + 1]
    BY <1>2, Zenon DEF H!AddEvidence
  <2>2. e.thesis = t
    OBVIOUS
  <2> HIDE DEF e
  <2>3. IsFiniteSet(evidence')
    BY <2>1, FS_AddElement DEF CountsAgree
  <2>4. counted' \in [H!ThesisIds -> Nat]
    <3>1. CASE t \in H!ThesisIds
      BY <2>1, <3>1 DEF CountsAgree
    <3>2. CASE t \notin H!ThesisIds
      BY <2>1, <3>2, counted' = counted DEF CountsAgree
    <3> QED BY <3>1, <3>2
  <2>5. ASSUME NEW s \in H!ThesisIds PROVE counted'[s] = Cardinality(EvidenceOf(s)')
    <3>1. IsFiniteSet(EvidenceOf(s)) /\ counted[s] = Cardinality(EvidenceOf(s)) /\ counted[s] \in Nat
      BY FS_Subset DEF CountsAgree, EvidenceOf
    <3>2. CASE s = t
      <4>1. EvidenceOf(s)' = EvidenceOf(s) \union {e} /\ e \notin EvidenceOf(s)
        BY <1>2, <2>1, <2>2, <3>2 DEF EvidenceOf
      <4>2. counted'[s] = counted[s] + 1
        BY <2>1, <3>2 DEF CountsAgree
      <4> QED BY <3>1, <4>1, <4>2, FS_AddElement
    <3>3. CASE s # t
      <4>1. EvidenceOf(s)' = EvidenceOf(s)
        BY <2>1, <2>2, <3>3 DEF EvidenceOf
      <4>2. counted'[s] = counted[s]
        BY <2>1, <3>3 DEF CountsAgree
      <4> QED BY <3>1, <4>1, <4>2
    <3> QED BY <3>2, <3>3
  <2> QED BY <2>3, <2>4, <2>5 DEF CountsAgree
<1> QED BY <1>1, <1>2

(* A final status is given to a thesis that stands, and takes no identifier. *)
LEMMA StatusSet ==
  ASSUME NEW t, NEW status, status \notin {"none", "ACTIVE"}, EndedOnce, H!SetStatus(t, status)
  PROVE  EndedOnce' /\ FreeIds' = FreeIds
<1>1. CASE standing[t] # "ACTIVE"
  BY <1>1 DEF H!SetStatus, EndedOnce, FreeIds
<1>2. CASE standing[t] = "ACTIVE"
  <2>1. /\ standing' = [standing EXCEPT ![t] = status]
        /\ ended' = [ended EXCEPT ![t] = @ \union {status}]
    BY <1>2, Zenon DEF H!SetStatus
  <2>2. \A n \in H!ToSet(NewIds) : n \in H!ThesisIds
    BY DEF H!ThesisIds
  <2>3. FreeIds' = FreeIds
    BY <1>2, <2>1, <2>2 DEF FreeIds, EndedOnce
  <2>4. t \in H!ThesisIds => ended[t] = {}
    BY <1>2 DEF EndedOnce
  <2> QED BY <2>1, <2>3, <2>4 DEF EndedOnce
<1> QED BY <1>1, <1>2

(* The store starts with its seeds and no evidence. *)
LEMMA ThemesInvInit == H!ThemesInit => ThemesInv
<1> SUFFICES ASSUME H!ThemesInit PROVE ThemesInv
  OBVIOUS
<1>1. ThemesShape /\ EndedOnce /\ RoomForAnchors
  BY DEF H!ThemesInit, H!NoRun, ThemesShape, EndedOnce, RoomForAnchors
<1>2. \A t \in H!ThesisIds : EvidenceOf(t) = {}
  BY DEF H!ThemesInit, EvidenceOf
<1>3. CountsAgree
  BY <1>2, FS_EmptySet DEF H!ThemesInit, CountsAgree
<1> QED BY <1>1, <1>3 DEF ThemesInv

(* A run has finitely many items in hand. *)
LEMMA ItemsFinite == ThemesShape /\ a5.phase = "claim" => IsFiniteSet(H!Items)
<1> SUFFICES ASSUME ThemesShape, a5.phase = "claim" PROVE IsFiniteSet(H!Items)
  OBVIOUS
<1>1. H!ToSet(a5.batch) \subseteq ThesisLane
  BY DEF ThemesShape, H!ToSet
<1>2. H!Items \subseteq ThesisLane \cup Wide
  BY <1>1 DEF H!Items
<1> QED BY <1>2, ServicesAssumption, FS_Subset

(* An anchor takes one identifier, and there is one fewer to come. *)
LEMMA Created ==
  ASSUME NEW x, ThemesInv, H!CreateThesis(x)
  PROVE  ThemesInv'
<1>1. /\ a5.phase = "apply" /\ x \in DOMAIN a5.ops /\ a5.ops[x] = "anchor"
      /\ standing' = [standing EXCEPT ![H!NextId] = "ACTIVE"]
      /\ H!AddEvidence(H!NextId, x) /\ ended' = ended
  BY DEF H!CreateThesis, H!Remaining
<1>2. a5' = [a5 EXCEPT !.ops = [y \in DOMAIN a5.ops \ {x} |-> a5.ops[y]], !.toAck = {x} \intersect a5.batch]
  BY DEF H!CreateThesis, H!Remaining, H!Applied, H!Without
<1> DEFINE ops == [y \in DOMAIN a5.ops \ {x} |-> a5.ops[y]]
<1>3. IsFiniteSet(DOMAIN a5.ops) /\ IsFiniteSet(Anchors) /\ IsFiniteSet(FreeIds)
      /\ Cardinality(Anchors) <= Cardinality(FreeIds) /\ x \in Anchors
  BY <1>1, FiniteIds, FS_Subset DEF ThemesInv, RoomForAnchors, Anchors, FreeIds
<1>4. Cardinality(Anchors) \in Nat /\ Cardinality(Anchors) # 0 /\ Cardinality(FreeIds) \in Nat
  BY <1>3, FS_CardinalityType, FS_EmptySet
<1>5. FreeIds # {}
  BY <1>3, <1>4, FS_EmptySet
<1>6. H!NextId \in FreeIds /\ H!NextId \in H!ThesisIds
  BY <1>5, NextIdIsFree DEF FreeIds, H!ThesisIds
<1>7. CountsAgree'
  BY <1>1, EvidenceAdded DEF ThemesInv
<1>8. EndedOnce'
  BY <1>1, <1>6 DEF ThemesInv, EndedOnce, FreeIds
<1>9. a5'.phase = "apply" /\ DOMAIN a5' = DOMAIN a5 /\ a5'.ops = ops
  BY <1>1, <1>2 DEF ThemesInv, ThemesShape
<1>10. ThemesShape'
  BY <1>1, <1>9 DEF ThemesInv, ThemesShape
<1>11. Anchors' = Anchors \ {x}
  BY <1>9 DEF Anchors
<1>12. FreeIds' = FreeIds \ {H!NextId}
  <2>1. \A n \in H!ToSet(NewIds) : n \in H!ThesisIds
    BY DEF H!ThesisIds
  <2> QED BY <1>1, <1>6, <2>1 DEF FreeIds, ThemesInv, EndedOnce
<1>13. Cardinality(Anchors') = Cardinality(Anchors) - 1 /\ Cardinality(FreeIds') = Cardinality(FreeIds) - 1
  BY <1>3, <1>6, <1>11, <1>12, FS_RemoveElement
<1>14. IsFiniteSet(DOMAIN a5'.ops)
  BY <1>3, <1>9, FS_RemoveElement
<1> QED BY <1>3, <1>4, <1>7, <1>8, <1>10, <1>13, <1>14 DEF ThemesInv, RoomForAnchors

(* An item that is no anchor begins no thesis. *)
LEMMA AppliedOther ==
  ASSUME NEW x, ThemesInv, H!ApplyItem(x)
  PROVE  ThemesInv'
<1>1. /\ a5.phase = "apply" /\ x \in DOMAIN a5.ops /\ \A y \in DOMAIN a5.ops : a5.ops[y] # "anchor"
      /\ standing' = standing /\ ended' = ended
      /\ UNCHANGED <<evidence, counted>> \/ H!AddEvidence(a5.ops[x], x)
  BY Zenon DEF H!ApplyItem, H!Remaining
<1>2. a5' = [a5 EXCEPT !.ops = [y \in DOMAIN a5.ops \ {x} |-> a5.ops[y]], !.toAck = {x} \intersect a5.batch]
  BY DEF H!ApplyItem, H!Remaining, H!Applied, H!Without
<1> DEFINE ops == [y \in DOMAIN a5.ops \ {x} |-> a5.ops[y]]
<1>3. CountsAgree'
  <2>1. CASE UNCHANGED <<evidence, counted>>
    BY <2>1 DEF ThemesInv, CountsAgree, EvidenceOf
  <2> QED BY <1>1, <2>1, EvidenceAdded DEF ThemesInv
<1>4. EndedOnce'
  BY <1>1 DEF ThemesInv, EndedOnce
<1>5. a5'.phase = "apply" /\ DOMAIN a5' = DOMAIN a5 /\ a5'.ops = ops
  BY <1>1, <1>2 DEF ThemesInv, ThemesShape
<1>6. ThemesShape'
  BY <1>1, <1>5 DEF ThemesInv, ThemesShape
<1>7. Anchors' = Anchors /\ FreeIds' = FreeIds
  BY <1>1, <1>5 DEF Anchors, FreeIds
<1>8. IsFiniteSet(DOMAIN a5'.ops)
  BY <1>1, <1>5, FS_RemoveElement DEF ThemesInv, RoomForAnchors
<1> QED BY <1>1, <1>3, <1>4, <1>6, <1>7, <1>8 DEF ThemesInv, RoomForAnchors

(* Every step of a run, of its failures and of the nights keeps the counts. *)
LEMMA ThemesInvNext == ThemesInv /\ [H!ThemesNext]_(H!themeVars) => ThemesInv'
<1> SUFFICES ASSUME ThemesInv, [H!ThemesNext]_(H!themeVars) PROVE ThemesInv'
  OBVIOUS
<1> DEFINE StoreKept == UNCHANGED <<standing, ended, evidence, counted>>
<1>0. StoreKept => CountsAgree' /\ EndedOnce' /\ FreeIds' = FreeIds
  BY DEF ThemesInv, CountsAgree, EvidenceOf, EndedOnce, FreeIds
<1>1. CASE H!Start
  <2>1. StoreKept /\ \E deep : a5' = [phase |-> "expire", deep |-> deep]
    BY <1>1, Zenon DEF H!Start, H!theses
  <2> QED BY <1>0, <2>1 DEF ThemesInv, ThemesShape, RoomForAnchors
<1>2. ASSUME NEW t \in H!ThesisIds, H!ExpireStale(t) PROVE ThemesInv'
  <2>1. a5.phase = "expire" /\ H!SetStatus(t, "EXPIRED") /\ UNCHANGED <<a5, evidence, counted>>
    BY <1>2 DEF H!ExpireStale
  <2>2. EndedOnce'
    BY <2>1, StatusSet DEF ThemesInv
  <2> QED BY <2>1, <2>2 DEF ThemesInv, ThemesShape, RoomForAnchors, CountsAgree, EvidenceOf
<1>3. CASE H!Slot
  <2>1. StoreKept /\ \/ a5' = [phase |-> "none"]
                     \/ \E deep, model : a5' = [phase |-> "claim", deep |-> deep, model |-> model, batch |-> <<>>]
    BY <1>3, Zenon DEF H!Slot, H!theses, H!NoRun
  <2>2. ThemesShape' /\ a5'.phase # "apply"
    <3>1. <<>> \in Seq(ThesisLane)
      OBVIOUS
    <3>2. CASE a5' = [phase |-> "none"]
      BY <3>2 DEF ThemesShape
    <3>3. ASSUME NEW deep, NEW model, a5' = [phase |-> "claim", deep |-> deep, model |-> model, batch |-> <<>>]
          PROVE  ThemesShape' /\ a5'.phase # "apply"
      BY <3>1, <3>3 DEF ThemesShape
    <3> QED BY <2>1, <3>2, <3>3
  <2> QED BY <1>0, <2>1, <2>2 DEF ThemesInv, RoomForAnchors
<1>4. ASSUME NEW m \in ThesisLane, H!Claim(m) PROVE ThemesInv'
  <2>1. StoreKept /\ a5.phase = "claim" /\ (a5' = a5 \/ a5' = [a5 EXCEPT !.batch = Append(@, m)])
    BY <1>4, Zenon DEF H!Claim, H!theses
  <2>2. Append(a5.batch, m) \in Seq(ThesisLane)
    BY <2>1 DEF ThemesInv, ThemesShape
  <2>3. ThemesShape' /\ a5'.phase = "claim"
    BY <2>1, <2>2 DEF ThemesInv, ThemesShape
  <2> QED BY <1>0, <2>1, <2>3 DEF ThemesInv, RoomForAnchors
<1>5. CASE H!Reject \/ H!Digest \/ H!Die
  <2>1. StoreKept /\ a5' = [phase |-> "none"]
    BY <1>5, Zenon DEF H!Reject, H!Digest, H!Die, H!theses, H!NoRun
  <2> QED BY <1>0, <2>1 DEF ThemesInv, ThemesShape, RoomForAnchors
<1>6. CASE H!Update
  <2>1. StoreKept /\ a5.phase = "claim"
    BY <1>6, Zenon DEF H!Update, H!Asked, H!theses
  <2>2. PICK ops \in [H!Items -> {"anchor", "ignore"} \union H!Active] :
          /\ H!Cardinality({x \in H!Items : ops[x] = "anchor"}) <= H!Cardinality(FreeIds)
          /\ \E reviews : a5' = [phase |-> "apply", ops |-> ops, batch |-> H!ToSet(a5.batch), toAck |-> {},
                                 reviews |-> reviews]
    BY <1>6, Zenon DEF H!Update, FreeIds
  <2>3. Cardinality({x \in H!Items : ops[x] = "anchor"}) <= Cardinality(FreeIds)
    BY <2>2, ThemesCount
  <2>4. a5'.phase = "apply" /\ a5'.ops = ops /\ ThemesShape'
    BY <2>2 DEF ThemesShape
  <2>5. Anchors' = {x \in H!Items : ops[x] = "anchor"} /\ DOMAIN a5'.ops = H!Items
    BY <2>4 DEF Anchors
  <2>6. IsFiniteSet(H!Items)
    BY <2>1, ItemsFinite DEF ThemesInv
  <2> QED BY <1>0, <2>1, <2>3, <2>4, <2>5, <2>6 DEF ThemesInv, RoomForAnchors
<1>7. CASE H!Acknowledge
  <2>1. StoreKept /\ a5.phase = "apply" /\ a5' = [a5 EXCEPT !.toAck = {}]
    BY <1>7, Zenon DEF H!Acknowledge, H!theses
  <2>2. ThemesShape' /\ a5'.phase = "apply" /\ a5'.ops = a5.ops
    BY <2>1 DEF ThemesInv, ThemesShape
  <2> QED BY <1>0, <2>1, <2>2 DEF ThemesInv, RoomForAnchors, Anchors
<1>8. CASE H!Review
  <2>1. a5.phase = "apply" /\ a5' = [a5 EXCEPT !.reviews = Tail(@)] /\ UNCHANGED <<evidence, counted>>
    BY <1>8, Zenon DEF H!Review, H!Settled
  <2>2. \/ UNCHANGED <<standing, ended>>
        \/ \E t : H!SetStatus(t, "INVALIDATED") \/ H!SetStatus(t, "REALIZED")
    BY <1>8 DEF H!Review
  <2>3. EndedOnce' /\ FreeIds' = FreeIds
    BY <2>1, <2>2, <1>0, StatusSet DEF ThemesInv
  <2>4. ThemesShape' /\ a5'.phase = "apply" /\ a5'.ops = a5.ops
    BY <2>1 DEF ThemesInv, ThemesShape
  <2> QED BY <2>1, <2>3, <2>4 DEF ThemesInv, RoomForAnchors, Anchors, CountsAgree, EvidenceOf
<1>9. ASSUME NEW m \in ThesisLane, H!Arrive(m) PROVE ThemesInv'
  <2>1. StoreKept /\ UNCHANGED a5
    BY <1>9 DEF H!Arrive, H!theses
  <2> QED BY <1>0, <2>1 DEF ThemesInv, ThemesShape, RoomForAnchors, Anchors
<1>10. CASE H!NextNight \/ UNCHANGED H!themeVars
  <2>1. StoreKept /\ UNCHANGED a5
    BY <1>10, Zenon DEF H!NextNight, H!themeVars, H!theses
  <2> QED BY <1>0, <2>1 DEF ThemesInv, ThemesShape, RoomForAnchors, Anchors
<1> QED BY <1>1, <1>2, <1>3, <1>4, <1>5, <1>6, <1>7, <1>8, <1>9, <1>10, Created, AppliedOther, Zenon
        DEF H!ThemesNext

(* What EvidenceCountedOnce says of each thesis. *)
LEMMA CountedOnce == ThemesInv => EvidenceCountedOnce
<1> SUFFICES ASSUME ThemesInv, NEW t \in H!ThesisIds
             PROVE  /\ counted[t] = H!Cardinality(EvidenceOf(t))
                    /\ H!Cardinality(ended[t]) <= 1
                    /\ (ended[t] # {} => standing[t] \in ended[t])
  BY Zenon DEF EvidenceCountedOnce, H!EvidenceCountedOnce, EvidenceOf
<1>1. counted[t] = Cardinality(EvidenceOf(t))
  BY DEF ThemesInv, CountsAgree
<1>2. ended[t] = {} \/ ended[t] = {standing[t]}
  BY DEF ThemesInv, EndedOnce
<1>3. Cardinality(ended[t]) \in {0, 1}
  BY <1>2, FS_EmptySet, FS_Singleton
<1>4. Cardinality(ended[t]) <= 1
  BY <1>3
<1> QED BY <1>1, <1>2, <1>4, ThemesCount

(* A5: over the lane, the wide pass of deep nights, redeliveries and runs that  *)
(* died, an item counts once for a thesis, and a thesis ends once.              *)
THEOREM ServicesEvidenceCountedOnce == ServicesSpec => []EvidenceCountedOnce
BY ThemesAlone, ThemesInvInit, ThemesInvNext, CountedOnce, PTL DEF H!ThemesSpec

(* What is done has its decision or expired, and so has what is about to be      *)
(* acknowledged: the decision is written before the message is settled.          *)
AnswersFirst ==
  /\ signal = [m \in ThesisLane |-> signal[m]]
  /\ \A m \in ThesisLane : signal[m] = "done" => m \in answered \union expired
  /\ a5.phase = "apply" => a5.toAck \subseteq answered

LEMMA AnswersInit == H!ThemesInit => AnswersFirst
  BY DEF H!ThemesInit, H!NoRun, AnswersFirst

LEMMA AnswersNext == ThemesInv /\ AnswersFirst /\ [H!ThemesNext]_(H!themeVars) => AnswersFirst'
<1> SUFFICES ASSUME ThemesInv, AnswersFirst, [H!ThemesNext]_(H!themeVars) PROVE AnswersFirst'
  OBVIOUS
<1>1. CASE H!Start
  <2>1. PICK old : /\ signal' = [m \in ThesisLane |-> IF m \in old THEN "done" ELSE signal[m]]
                   /\ expired' = expired \union old /\ answered' = answered
    BY <1>1, Zenon DEF H!Start
  <2>2. \E deep : a5' = [phase |-> "expire", deep |-> deep]
    BY <1>1, Zenon DEF H!Start
  <2>3. a5'.phase = "expire"
    BY <2>2
  <2> QED BY <2>1, <2>3 DEF AnswersFirst
<1>2. ASSUME NEW t \in H!ThesisIds, H!ExpireStale(t) PROVE AnswersFirst'
  <2>1. UNCHANGED <<signal, a5, answered, expired>>
    BY <1>2, Zenon DEF H!ExpireStale, H!lane
  <2> QED BY <2>1, Zenon DEF AnswersFirst
<1>3. CASE H!Slot
  <2>1. /\ UNCHANGED <<signal, answered, expired>>
        /\ \/ a5' = [phase |-> "none"]
           \/ \E deep, model : a5' = [phase |-> "claim", deep |-> deep, model |-> model, batch |-> <<>>]
    BY <1>3, Zenon DEF H!Slot, H!lane, H!NoRun
  <2>2. a5'.phase # "apply"
    BY <2>1
  <2> QED BY <2>1, <2>2, Zenon DEF AnswersFirst
<1>4. ASSUME NEW m \in ThesisLane, H!Claim(m) PROVE AnswersFirst'
  <2>1. /\ UNCHANGED <<answered, expired>> /\ a5.phase = "claim"
        /\ (a5' = a5 \/ a5' = [a5 EXCEPT !.batch = Append(@, m)])
        /\ \E s \in {"failed", "dead", "claimed"} : signal' = [signal EXCEPT ![m] = s]
    BY <1>4 DEF H!Claim, H!Failed
  <2>2. a5'.phase # "apply"
    BY <2>1 DEF ThemesInv, ThemesShape
  <2> QED BY <2>1, <2>2 DEF AnswersFirst
<1>5. CASE H!Reject
  <2>1. /\ UNCHANGED <<answered, expired>> /\ a5' = [phase |-> "none"]
        /\ signal' = [m \in ThesisLane |-> IF m \in H!ToSet(a5.batch) THEN H!Failed(tries[m]) ELSE signal[m]]
    BY <1>5, Zenon DEF H!Reject, H!NoRun
  <2>2. \A n : H!Failed(n) # "done"
    BY DEF H!Failed
  <2> QED BY <2>1, <2>2 DEF AnswersFirst
<1>6. CASE H!Digest \/ H!Die
  <2>1. UNCHANGED <<signal, answered, expired>> /\ a5' = [phase |-> "none"]
    BY <1>6, Zenon DEF H!Digest, H!Die, H!lane, H!NoRun
  <2>2. a5'.phase # "apply"
    BY <2>1
  <2> QED BY <2>1, <2>2, Zenon DEF AnswersFirst
<1>7. CASE H!Update
  <2>1. UNCHANGED <<signal, answered, expired>>
    BY <1>7, Zenon DEF H!Update, H!lane
  <2>2. \E ops, batch, reviews :
          a5' = [phase |-> "apply", ops |-> ops, batch |-> batch, toAck |-> {}, reviews |-> reviews]
    BY <1>7, Zenon DEF H!Update
  <2>3. a5'.toAck = {}
    BY <2>2
  <2> QED BY <2>1, <2>3 DEF AnswersFirst
<1>8. ASSUME NEW x, H!CreateThesis(x) \/ H!ApplyItem(x) PROVE AnswersFirst'
  <2>1. /\ UNCHANGED <<signal, expired>> /\ a5.phase = "apply"
        /\ answered \subseteq answered' /\ (x \in a5.batch => x \in answered')
        /\ a5' = [a5 EXCEPT !.ops = [y \in DOMAIN a5.ops \ {x} |-> a5.ops[y]], !.toAck = {x} \intersect a5.batch]
    BY <1>8 DEF H!CreateThesis, H!ApplyItem, H!lane, H!Applied, H!Without, H!Remaining
  <2>2. a5'.toAck = {x} \intersect a5.batch
    BY <2>1 DEF ThemesInv, ThemesShape
  <2> QED BY <2>1, <2>2 DEF AnswersFirst
<1>9. CASE H!Acknowledge
  <2>1. /\ UNCHANGED <<answered, expired>> /\ a5.phase = "apply" /\ a5' = [a5 EXCEPT !.toAck = {}]
        /\ signal' = [m \in ThesisLane |-> IF m \in a5.toAck THEN "done" ELSE signal[m]]
    BY <1>9, Zenon DEF H!Acknowledge
  <2>2. a5'.toAck = {}
    BY <2>1 DEF ThemesInv, ThemesShape
  <2> QED BY <2>1, <2>2 DEF AnswersFirst
<1>10. CASE H!Review
  <2>1. /\ UNCHANGED <<signal, answered, expired>> /\ a5.phase = "apply"
        /\ a5' = [a5 EXCEPT !.reviews = Tail(@)]
    BY <1>10, Zenon DEF H!Review, H!Settled, H!lane
  <2>2. a5'.toAck = a5.toAck
    BY <2>1 DEF ThemesInv, ThemesShape
  <2> QED BY <2>1, <2>2 DEF AnswersFirst
<1>11. ASSUME NEW m \in ThesisLane, H!Arrive(m) PROVE AnswersFirst'
  BY <1>11 DEF H!Arrive, AnswersFirst
<1>12. CASE H!NextNight
  BY <1>12 DEF H!NextNight, AnswersFirst
<1>13. CASE UNCHANGED H!themeVars
  BY <1>13, Zenon DEF H!themeVars, H!lane, AnswersFirst
<1> QED BY <1>1, <1>2, <1>3, <1>4, <1>5, <1>6, <1>7, <1>8, <1>9, <1>10, <1>11, <1>12, <1>13, Zenon
        DEF H!ThemesNext

(* A5: no message of the lane is settled before the decision about its item is  *)
(* written, unless it expired, over rejected answers, second revisions and runs *)
(* that died.                                                                   *)
THEOREM ServicesDoneWasAnswered == ServicesSpec => []DoneWasAnswered
<1>1. AnswersFirst => DoneWasAnswered
  BY Zenon DEF AnswersFirst, DoneWasAnswered, H!DoneWasAnswered
<1> QED
  BY <1>1, ThemesAlone, ThemesInvInit, ThemesInvNext, AnswersInit, AnswersNext, PTL DEF H!ThemesSpec

------------------------------------------------------------------------------
(* A1, A4 and A2 over a night *)

(* The night is a part of the services. *)
LEMMA NightAlone == ServicesSpec => N!Spec
<1>1. ServicesInit => N!Init
  BY DEF ServicesInit
<1>2. [ServicesNext]_servicesVars => [N!Next]_(N!vars)
  BY DEF ServicesNext, servicesVars, nightVars, N!vars, N!books, N!tree
<1> QED BY <1>1, <1>2, PTL DEF ServicesSpec, N!Spec

(* The instance counts as the library does. *)
LEMMA NightCount == ASSUME NEW X PROVE N!Cardinality(X) = Cardinality(X)
BY Zenon DEF Cardinality, N!Cardinality

(* The bounds of the night. *)
LEMMA NightLimits ==
  /\ Slots \in Nat /\ LateMax \in Nat /\ PassMax \in Nat /\ MaxAge \in Nat
  /\ MaxAge > 0 /\ LateMax >= Slots
BY ServicesAssumption

(* News and synthetic signals are two finite sets. *)
LEMMA NightSignals ==
  /\ IsFiniteSet(N!AllSignals)
  /\ \A s \in News : s \notin Synthetics
  /\ None \notin Synthetics
BY ServicesAssumption DEF N!AllSignals

RunShape ==
  /\ "phase" \in DOMAIN run /\ run.phase \in {"idle", "sift", "dispose"}
  /\ run.phase = "idle" => run = N!Idle
  /\ run.phase # "idle" => /\ {"kind", "batch"} \subseteq DOMAIN run /\ run.kind \in {"sheet", "late"}
                           /\ run.batch \subseteq N!AllSignals
  /\ run.phase = "sift" => "rank" \in DOMAIN run /\ run.rank \subseteq N!AllSignals
  /\ run.phase = "sift" /\ run.kind = "late" => "start" \in DOMAIN run /\ run.start \in Int
  /\ run.phase = "dispose" /\ run.kind = "late" => "rest" \in DOMAIN run /\ run.rest \subseteq N!AllSignals

(* What the run has claimed and not yet disposed of. *)
InHand ==
  IF run.phase = "idle" THEN {}
  ELSE run.batch \cup (IF run.phase = "sift" THEN run.rank ELSE {})
                 \cup (IF run.phase = "dispose" /\ run.kind = "late" THEN run.rest ELSE {})

(* A synthetic signal carries its lineage wherever it is past triage. *)
DeskMessages == [signal : N!AllSignals, state : {"waiting", "ready", "claimed", "done", "dead"}, tries : Nat]

Traced(s) == s \in Synthetics => s \in derived

A2Shape ==
  /\ "phase" \in DOMAIN a2 /\ a2.phase \in {"idle", "analyse", "ack"}
  /\ a2.phase = "idle" => a2 = N!Idle
  /\ a2.phase # "idle" => "key" \in DOMAIN a2 /\ a2.key \in DOMAIN desk

DeskTraced == \A k \in DOMAIN desk : desk[k] \in DeskMessages /\ Traced(desk[k].signal)

NightTraced ==
  /\ night = [s \in N!AllSignals |-> night[s]]
  /\ \A s \in N!AllSignals : night[s] # "absent" => Traced(s)

HandTraced == \A s \in InHand : Traced(s)

OneHop ==
  /\ parent = [s \in Synthetics |-> parent[s]]
  /\ \A s \in Synthetics : parent[s] \notin Synthetics

Lineage == A2Shape /\ DeskTraced /\ NightTraced /\ HandTraced /\ OneHop

(* What is left of the budget when the pass at work has forwarded its share   *)
(* is one for every pass that is still to come.                               *)
Reserve ==
  LateMax - late - (IF run.phase = "dispose" /\ run.kind = "late" THEN Cardinality(run.batch) ELSE 0)

Budgeted ==
  /\ slot \in 0 .. Slots + 1 /\ fired \in BOOLEAN /\ late \in Nat
  /\ slot = Slots + 1 => late = 0 /\ (run.phase # "idle" => run.kind = "sheet")
  /\ slot \in 1 .. Slots =>
       /\ Reserve >= slot - 1
       /\ ~fired => Reserve >= slot
       /\ run.phase = "sift" /\ run.kind = "late" =>
            /\ slot <= run.start /\ LateMax - late >= run.start
            /\ ~fired => slot < run.start

Claimed == \A s \in N!AllSignals : night[s] = "claimed" => s \in InHand \/ s \in stranded

(* Once the sheet of the night is being written, what is too old is gone. *)
NoneTooOld ==
  /\ age \in [N!AllSignals -> Nat]
  /\ \A s \in N!AllSignals : night[s] = "absent" => age[s] = 0
  /\ sheetDone \/ (run.phase # "idle" /\ run.kind = "sheet") => \A s \in N!AllSignals : ~N!Expired(s)
  /\ run.phase # "idle" /\ run.kind = "late" => \A s \in InHand : age[s] < MaxAge

NightInv == RunShape /\ Lineage /\ Budgeted /\ Claimed /\ NoneTooOld

(* At first all is idle and no signal is there. *)
LEMMA NightInvInit == N!Init => NightInv
<1> SUFFICES ASSUME N!Init PROVE NightInv
  OBVIOUS
<1>1. RunShape /\ InHand = {} /\ run = [phase |-> "idle"]
  BY DEF RunShape, InHand, N!Init, N!Idle
<1>2. Lineage
  <2>1. A2Shape /\ DeskTraced
    BY DEF N!Init, N!Idle, A2Shape, DeskTraced
  <2>2. NightTraced /\ OneHop
    BY NightSignals DEF N!Init, NightTraced, OneHop
  <2> QED BY <1>1, <2>1, <2>2 DEF Lineage, HandTraced
<1>3. Budgeted
  <2>1. slot = Slots + 1 /\ fired = FALSE /\ late = 0
    BY DEF N!Init
  <2>2. slot \in 0 .. Slots + 1 /\ slot \notin 1 .. Slots
    BY <2>1, NightLimits
  <2> QED BY <1>1, <2>1, <2>2 DEF Budgeted
<1>4. Claimed
  BY DEF Claimed, N!Init
<1>5. NoneTooOld
  BY <1>1 DEF NoneTooOld, N!Expired, N!Init
<1> QED BY <1>1, <1>2, <1>3, <1>4, <1>5 DEF NightInv

(* The smaller of two. *)
LEMMA NightMin ==
  ASSUME NEW a \in Int, NEW b \in Int
  PROVE  N!Min({a, b}) \in {a, b} /\ N!Min({a, b}) <= a /\ N!Min({a, b}) <= b
<1>1. \E x \in {a, b} : \A y \in {a, b} : x =< y
  OBVIOUS
<1> QED BY <1>1 DEF N!Min

(* The smallest of three is none above the last. *)
LEMMA NightMin3 ==
  ASSUME NEW a \in Int, NEW b \in Int, NEW c \in Int
  PROVE  N!Min({a, b, c}) \in {a, b, c} /\ N!Min({a, b, c}) <= c
<1>1. \E x \in {a, b, c} : \A y \in {a, b, c} : x =< y
  OBVIOUS
<1> QED BY <1>1 DEF N!Min

(* What a pass may forward leaves one signal for each pass after it. *)
LEMMA ShareLeavesOne ==
  ASSUME NEW b \in Nat, NEW p \in Nat \ {0}, b >= p
  PROVE  N!CeilDiv(b, p) \in Int /\ b - N!CeilDiv(b, p) >= p - 1
<1> DEFINE x == b + p - 1
           q == x \div p
           k == b - p
<1>1. x \in Nat /\ q \in Int /\ k \in Nat
  OBVIOUS
<1>2. p * q <= x
  OBVIOUS
<1>3. x = k + 2 * p - 1
  OBVIOUS
<1> HIDE DEF x, q, k
<1>4. SUFFICES q <= k + 1
  BY <1>1 DEF N!CeilDiv, x, q, k
<1>5. SUFFICES ASSUME q >= k + 2 PROVE FALSE
  BY <1>1
<1>6. p * q >= p * (k + 2)
  BY <1>1, <1>5
<1>7. p * (k + 2) >= k + 2 * p
  <2>1. p * k >= k
    BY <1>1
  <2>2. p * (k + 2) = p * k + 2 * p
    BY <1>1
  <2> QED BY <1>1, <2>1, <2>2
<1>8. p * q \in Int /\ p * (k + 2) \in Int
  BY <1>1
<1> QED BY <1>1, <1>2, <1>3, <1>6, <1>7, <1>8

(* What is put on the desk is a message that carries its lineage. *)
LEMMA PutTraced ==
  ASSUME NEW k, NEW s \in N!AllSignals, DeskTraced, Traced(s)', derived \subseteq derived', N!Put(k, s)
  PROVE  DeskTraced' /\ DOMAIN desk \subseteq DOMAIN desk'
<1>1. CASE k \in DOMAIN desk
  BY <1>1 DEF N!Put, DeskTraced, Traced
<1>2. CASE k \notin DOMAIN desk
  <2>1. desk' = [l \in DOMAIN desk \union {k} |-> IF l = k THEN N!Message(k, s) ELSE desk[l]]
    BY <1>2 DEF N!Put
  <2>2. N!Message(k, s) \in DeskMessages /\ N!Message(k, s).signal = s
    <3>1. PICK st \in {"waiting", "ready"} : N!Message(k, s) = [signal |-> s, state |-> st, tries |-> 0]
      BY Zenon DEF N!Message
    <3> QED BY <3>1 DEF DeskMessages
  <2> QED BY <2>1, <2>2 DEF DeskTraced, Traced
<1> QED BY <1>1, <1>2

(* A signal that A1 lets through carries its lineage wherever it goes. *)
LEMMA Delivered ==
  ASSUME NEW s \in N!AllSignals, NightInv, N!Deliver(s), Traced(s)', derived \subseteq derived',
         UNCHANGED <<slot, fired, age, run, sheetDone, late, stranded, a2, parent>>
  PROVE  NightInv'
<1> USE DEF NightInv, Lineage
<1>1. RunShape' /\ Budgeted' /\ InHand' = InHand
  BY DEF RunShape, Budgeted, Reserve, InHand
<1>2. OneHop' /\ HandTraced'
  BY <1>1 DEF OneHop, HandTraced, Traced
<1>3. CASE slot = 0
  <2>1. N!Put(N!Direct(s), s) /\ UNCHANGED night
    BY <1>3 DEF N!Deliver
  <2>2. DeskTraced' /\ DOMAIN desk \subseteq DOMAIN desk'
    BY <2>1, PutTraced
  <2>3. A2Shape' /\ NightTraced' /\ Claimed' /\ NoneTooOld'
    BY <1>1, <2>1, <2>2 DEF A2Shape, NightTraced, Traced, Claimed, NoneTooOld, N!Expired
  <2> QED BY <1>1, <1>2, <2>2, <2>3
<1>4. CASE slot # 0
  <2>1. night' = [night EXCEPT ![s] = IF @ = "absent" THEN "ready" ELSE @] /\ UNCHANGED desk
    BY <1>4 DEF N!Deliver
  <2>2. /\ night' = [t \in N!AllSignals |-> night'[t]]
        /\ \A t \in N!AllSignals : night'[t] = night[t] \/ (t = s /\ night[t] = "absent" /\ night'[t] = "ready")
    BY <2>1 DEF NightTraced
  <2>3. A2Shape' /\ DeskTraced' /\ NightTraced'
    BY <2>1, <2>2 DEF A2Shape, DeskTraced, NightTraced, Traced
  <2>4. Claimed'
    BY <1>1, <2>2 DEF Claimed
  <2>5. NoneTooOld'
    <3>2. age' = age /\ \A t \in N!AllSignals : night'[t] = "absent" => night[t] = "absent"
      BY <2>2
    <3>3. ASSUME NEW t \in N!AllSignals, ~N!Expired(t) PROVE ~N!Expired(t)'
      <4>1. CASE night'[t] = night[t]
        BY <3>2, <3>3, <4>1 DEF N!Expired
      <4>2. CASE night[t] = "absent"
        BY <3>2, <4>2, NightLimits DEF N!Expired, NoneTooOld
      <4> QED BY <2>2, <4>1, <4>2
    <3> QED BY <1>1, <3>2, <3>3 DEF NoneTooOld
  <2> QED BY <1>1, <1>2, <2>3, <2>4, <2>5
<1> QED BY <1>3, <1>4

(* Every step of the night keeps the budget, the claims and the lineage. *)
LEMMA NightInvNext == NightInv /\ [N!Next]_(N!vars) => NightInv'
<1> SUFFICES ASSUME NightInv, [N!Next]_(N!vars) PROVE NightInv'
  OBVIOUS
<1> USE DEF NightInv, Lineage, N!books, N!tree
(* What an action leaves alone keeps its part of the invariant. *)
<1>a. UNCHANGED run => RunShape' /\ InHand' = InHand
  BY DEF RunShape, InHand
<1>b. UNCHANGED <<run, slot, fired, late>> => Budgeted'
  BY DEF Budgeted, Reserve
<1>c. UNCHANGED <<run, night, stranded>> => Claimed'
  BY <1>a DEF Claimed
<1>d. UNCHANGED <<run, night, age, sheetDone>> => NoneTooOld'
  BY <1>a DEF NoneTooOld, N!Expired
<1>e. UNCHANGED derived => /\ UNCHANGED <<a2, desk>> => A2Shape' /\ DeskTraced'
                           /\ UNCHANGED night => NightTraced'
                           /\ UNCHANGED run => HandTraced'
                           /\ UNCHANGED parent => OneHop'
  <2>1. UNCHANGED derived => \A s : Traced(s)' = Traced(s)
    BY DEF Traced
  <2> QED BY <1>a, <2>1 DEF A2Shape, DeskTraced, NightTraced, HandTraced, OneHop
<1>f. UNCHANGED <<run, slot, fired, late, night, stranded, age, sheetDone>>
      => RunShape' /\ Budgeted' /\ Claimed' /\ NoneTooOld'
  BY <1>a, <1>b, <1>c, <1>d
<1>g. UNCHANGED <<desk, derived>> => DeskTraced'
  BY DEF DeskTraced, Traced
<1>1. ASSUME NEW s \in N!AllSignals, N!Escalate(s) PROVE NightInv'
  <2>1. s \in News /\ N!Deliver(s)
        /\ UNCHANGED <<slot, fired, age, run, sheetDone, late, stranded, a2, parent, derived>>
    BY <1>1 DEF N!Escalate
  <2>2. Traced(s)'
    BY <2>1, NightSignals DEF Traced
  <2> QED BY <2>1, <2>2, Delivered
<1>2. ASSUME NEW s \in N!AllSignals, N!TriageSynthetic(s) PROVE NightInv'
  <2>1. UNCHANGED <<slot, fired, age, run, sheetDone, late, stranded, a2, parent>>
    BY <1>2 DEF N!TriageSynthetic
  <2>2. CASE UNCHANGED <<night, desk, derived>>
    BY <2>1, <2>2, <1>e, <1>f
  <2>3. CASE derived' = derived \union {s} /\ N!Deliver(s)
    BY <2>1, <2>3, Delivered DEF Traced
  <2> QED BY <1>2, <2>2, <2>3, Zenon DEF N!TriageSynthetic
<1>3. CASE N!StartSheet
  <2>1. /\ slot = Slots + 1 /\ run.phase = "idle" /\ fired' = TRUE
        /\ UNCHANGED <<slot, age, sheetDone, late, stranded, desk, a2, parent, derived>>
    BY <1>3 DEF N!StartSheet, N!Idle
  <2>2. run' = [phase |-> "sift", kind |-> "sheet", batch |-> N!Batch(TRUE), rank |-> {}]
    BY <1>3 DEF N!StartSheet
  <2>3. /\ night' = [s \in N!AllSignals |-> night'[s]]
        /\ \A s \in N!AllSignals :
             night'[s] = IF s \in N!Batch(TRUE) THEN "claimed" ELSE IF N!Expired(s) THEN "expired" ELSE night[s]
    BY <1>3 DEF N!StartSheet
  <2>4. N!Batch(TRUE) = {s \in N!AllSignals : night[s] = "ready" /\ ~N!Expired(s)}
    BY Zenon DEF N!Batch
  <2>5. RunShape' /\ InHand' = N!Batch(TRUE) /\ InHand = {}
    BY <2>1, <2>2, <2>4 DEF RunShape, InHand
  <2>6. NightTraced' /\ HandTraced' /\ A2Shape' /\ DeskTraced' /\ OneHop'
    <3>1. \A s \in N!AllSignals : night'[s] # "absent" => night[s] # "absent"
      BY <2>3, <2>4 DEF N!Expired
    <3>2. NightTraced' /\ HandTraced'
      BY <2>1, <2>3, <2>4, <2>5, <3>1 DEF NightTraced, HandTraced, Traced
    <3> QED BY <2>1, <3>2, <1>e
  <2>7. Budgeted'
    <3>1. slot' \notin 1 .. Slots
      BY <2>1, NightLimits
    <3> QED BY <2>1, <2>2, <3>1 DEF Budgeted
  <2>8. Claimed'
    BY <2>1, <2>3, <2>5 DEF Claimed
  <2>9. NoneTooOld'
    <3>1. \A s \in N!AllSignals : ~N!Expired(s)' /\ (night'[s] = "absent" => night[s] = "absent")
      BY <2>1, <2>3, <2>4 DEF N!Expired
    <3> QED BY <2>1, <2>2, <3>1 DEF NoneTooOld
  <2> QED BY <2>5, <2>6, <2>7, <2>8, <2>9
<1>4. ASSUME NEW s \in N!AllSignals, N!Sift(s) PROVE NightInv'
  <2>1. /\ run.phase = "sift" /\ s \in run.batch
        /\ UNCHANGED <<slot, fired, age, sheetDone, late, stranded, desk, a2, parent, derived>>
    BY <1>4, Zenon DEF N!Sift
  <2>2. \/ night' = [night EXCEPT ![s] = "done"] /\ run' = [run EXCEPT !.batch = @ \ {s}]
        \/ night' = night /\ run' = [run EXCEPT !.batch = @ \ {s}, !.rank = @ \union {s}]
    BY <1>4, Zenon DEF N!Sift
  <2>3. /\ run'.phase = "sift" /\ run'.kind = run.kind /\ DOMAIN run' = DOMAIN run
        /\ run'.batch = run.batch \ {s} /\ run'.rank \in {run.rank, run.rank \union {s}}
        /\ run.kind = "late" => run'.start = run.start
    BY <2>1, <2>2 DEF RunShape
  <2>4. RunShape' /\ InHand' \subseteq InHand
    BY <2>1, <2>3 DEF RunShape, InHand
  <2>5. /\ night' = [t \in N!AllSignals |-> night'[t]]
        /\ \A t \in N!AllSignals : \/ night'[t] = night[t] /\ (t \in InHand => t \in InHand' \/ night[t] # "claimed")
                                   \/ t = s /\ night'[t] = "done"
                                   \/ t \in InHand' /\ night'[t] = night[t]
    BY <2>1, <2>2, <2>3 DEF RunShape, InHand, NightTraced
  <2>6. Budgeted'
    BY <2>1, <2>3 DEF Budgeted, Reserve
  <2>7. NightTraced' /\ HandTraced' /\ A2Shape' /\ DeskTraced' /\ OneHop'
    <3>1. Traced(s) /\ \A t : Traced(t)' = Traced(t)
      BY <2>1 DEF HandTraced, InHand, Traced
    <3>2. NightTraced' /\ HandTraced'
      BY <2>4, <2>5, <3>1 DEF NightTraced, HandTraced
    <3> QED BY <2>1, <3>2, <1>e
  <2>8. Claimed'
    BY <2>1, <2>5 DEF Claimed
  <2>9. NoneTooOld'
    <3>1. \A t \in N!AllSignals : /\ ~N!Expired(t) => ~N!Expired(t)'
                                  /\ night'[t] = "absent" => night[t] = "absent"
      BY <2>1, <2>5 DEF N!Expired
    <3> QED BY <2>1, <2>3, <2>4, <3>1 DEF NoneTooOld
  <2> QED BY <2>4, <2>6, <2>7, <2>8, <2>9
(* Lanes and a plan are for what is in hand already. *)
<1>5. ASSUME UNCHANGED <<slot, fired, night, age, sheetDone, late, stranded, desk, a2, parent, derived>>,
             RunShape', InHand' = InHand, run'.phase # "idle", run'.kind = run.kind, run.phase # "idle", Budgeted'
      PROVE  NightInv'
  <2>1. HandTraced'
    BY <1>5 DEF HandTraced, Traced
  <2>2. Claimed' /\ NoneTooOld'
    BY <1>5 DEF Claimed, NoneTooOld, N!Expired
  <2> QED BY <1>5, <2>1, <2>2, <1>e
<1>6. CASE N!Rank
  <2>1. PICK lanes : run' = [phase |-> "dispose", kind |-> "sheet", batch |-> run.rank, lanes |-> lanes]
    BY <1>6, Zenon DEF N!Rank
  <2>2. /\ run.phase = "sift" /\ run.kind = "sheet" /\ run.batch = {}
        /\ UNCHANGED <<slot, fired, night, age, sheetDone, late, stranded, desk, a2, parent, derived>>
    BY <1>6, Zenon DEF N!Rank, N!Sifted
  <2>3. RunShape' /\ InHand' = InHand /\ Budgeted' /\ run'.phase = "dispose" /\ run'.kind = "sheet"
    BY <2>1, <2>2 DEF RunShape, InHand, Budgeted, Reserve
  <2> QED BY <2>2, <2>3, <1>5
<1>7. CASE N!PlanForwarding
  <2> DEFINE n == N!Min({N!Cardinality(run.rank), N!Allowance(LateMax - late, run.start)})
  <2>1. PICK forward \in N!kSubset(n, run.rank) :
          run' = [phase |-> "dispose", kind |-> "late", batch |-> forward, rest |-> run.rank \ forward]
    BY <1>7, Zenon DEF N!PlanForwarding
  <2>2. /\ run.phase = "sift" /\ run.kind = "late" /\ run.batch = {}
        /\ UNCHANGED <<slot, fired, night, age, sheetDone, late, stranded, desk, a2, parent, derived>>
    BY <1>7, Zenon DEF N!PlanForwarding, N!Sifted
  <2>3. forward \subseteq run.rank /\ Cardinality(forward) = n
    BY <2>1, NightCount DEF N!kSubset
  <2>4. RunShape' /\ InHand' = InHand /\ run'.phase = "dispose" /\ run'.kind = "late" /\ run'.batch = forward
    BY <2>1, <2>2, <2>3 DEF RunShape, InHand
  <2>5. Reserve' = LateMax - late - n
    BY <2>2, <2>3, <2>4 DEF Reserve
  <2>6. Budgeted'
    <3>1. CASE slot \in 1 .. Slots
      <4>1. /\ run.start \in Nat \ {0} /\ slot <= run.start /\ LateMax - late \in Nat
            /\ LateMax - late >= run.start /\ (~fired => slot < run.start)
        BY <2>2, <3>1, NightLimits DEF Budgeted, RunShape
      <4>2. IsFiniteSet(run.rank)
        BY <2>2, NightSignals, FS_Subset DEF RunShape
      <4>3. N!Cardinality(run.rank) \in Nat
        BY <4>2, NightCount, FS_CardinalityType
      <4> DEFINE share == N!CeilDiv(LateMax - late, run.start)
      <4>4. share \in Int /\ LateMax - late - share >= run.start - 1
        BY <4>1, ShareLeavesOne
      <4> HIDE DEF share
      <4>5. N!Allowance(LateMax - late, run.start) \in Int /\ N!Allowance(LateMax - late, run.start) <= share
        BY <4>1, <4>4, NightLimits, NightMin3 DEF N!Allowance, share
      <4>6. n \in Int /\ n <= share
        <5> DEFINE c == N!Cardinality(run.rank)
                   al == N!Allowance(LateMax - late, run.start)
        <5>1. c \in Int /\ al \in Int /\ al <= share /\ share \in Int
          BY <4>3, <4>5, <4>4
        <5> HIDE DEF c, al
        <5>2. n = N!Min({c, al})
          BY DEF c, al, n
        <5>3. N!Min({c, al}) \in {c, al} /\ N!Min({c, al}) <= al
          BY <5>1, NightMin
        <5> QED BY <5>1, <5>2, <5>3
      <4>7. Reserve' >= run.start - 1 /\ (~fired => Reserve' >= slot)
        BY <4>1, <4>4, <4>6, <2>5, <3>1, NightLimits DEF Budgeted
      <4>8. run.start - 1 >= slot - 1 /\ slot # Slots + 1
        BY <3>1, <4>1, NightLimits
      <4>9. Reserve' \in Int
        BY <4>1, <4>6, <2>5
      <4>10. slot' = slot /\ fired' = fired /\ late' = late
        BY <2>2
      <4>11. slot \in 1 .. Slots => Reserve' >= slot - 1 /\ (~fired => Reserve' >= slot)
        BY <3>1, <4>1, <4>7, <4>8, <4>9, NightLimits
      <4>12. slot \in 0 .. Slots + 1 /\ fired \in BOOLEAN /\ late \in Nat
        BY DEF Budgeted
      <4>13. run'.phase # "sift"
        BY <2>4
      <4>14. /\ slot' \in 0 .. Slots + 1 /\ fired' \in BOOLEAN /\ late' \in Nat
             /\ slot' = Slots + 1 => late' = 0 /\ (run'.phase # "idle" => run'.kind = "sheet")
        BY <4>8, <4>10, <4>12
      <4>15. slot' \in 1 .. Slots => Reserve' >= slot' - 1 /\ (~fired' => Reserve' >= slot')
        BY <4>10, <4>11, Zenon
      <4> QED BY <4>13, <4>14, <4>15 DEF Budgeted
    <3>2. CASE slot \notin 1 .. Slots
      BY <2>2, <2>4, <3>2 DEF Budgeted
    <3> QED BY <3>1, <3>2
  <2> QED BY <2>2, <2>4, <2>6, <1>5
(* A signal that leaves the run: its message is done. *)
<1>8. ASSUME NEW s \in InHand, run.phase = "dispose", s \in run.batch,
             UNCHANGED <<slot, fired, age, sheetDone, stranded, a2, parent, derived>>,
             night' = [night EXCEPT ![s] = "done"], run' = [run EXCEPT !.batch = @ \ {s}],
             N!Put(N!Handoff(s), s) \/ UNCHANGED desk, Budgeted'
      PROVE  NightInv'
  <2>1. /\ run'.phase = "dispose" /\ run'.kind = run.kind /\ DOMAIN run' = DOMAIN run
        /\ run'.batch = run.batch \ {s} /\ (run.kind = "late" => run'.rest = run.rest)
    BY <1>8 DEF RunShape
  <2>2. RunShape' /\ InHand' \subseteq InHand /\ InHand \subseteq InHand' \union {s}
    BY <1>8, <2>1 DEF RunShape, InHand
  <2>3. s \in N!AllSignals
    BY <1>8 DEF RunShape
  <2>4. /\ night' = [t \in N!AllSignals |-> night'[t]]
        /\ \A t \in N!AllSignals : night'[t] = IF t = s THEN "done" ELSE night[t]
    BY <1>8 DEF NightTraced
  <2>5. Traced(s) /\ (\A t : Traced(t)' = Traced(t))
    BY <1>8 DEF HandTraced, Traced
  <2>6. NightTraced' /\ HandTraced' /\ OneHop'
    <3>1. NightTraced' /\ HandTraced'
      BY <2>2, <2>4, <2>5 DEF NightTraced, HandTraced
    <3> QED BY <3>1, <1>8, <1>e
  <2>7. DeskTraced' /\ DOMAIN desk \subseteq DOMAIN desk'
    <3>1. CASE UNCHANGED desk
      BY <1>8, <3>1, <2>5 DEF DeskTraced
    <3>2. CASE N!Put(N!Handoff(s), s)
      BY <1>8, <3>2, <2>3, <2>5, PutTraced
    <3> QED BY <1>8, <3>1, <3>2
  <2>8. A2Shape'
    BY <1>8, <2>7 DEF A2Shape
  <2>9. Claimed'
    BY <1>8, <2>2, <2>4 DEF Claimed
  <2>10. NoneTooOld'
    <3>1. \A t \in N!AllSignals : /\ ~N!Expired(t) => ~N!Expired(t)'
                                  /\ night'[t] = "absent" => night[t] = "absent"
      BY <1>8, <2>4 DEF N!Expired
    <3> QED BY <1>8, <2>1, <2>2, <3>1 DEF NoneTooOld
  <2> QED BY <1>8, <2>2, <2>6, <2>7, <2>8, <2>9, <2>10
<1>9. ASSUME NEW s \in N!AllSignals, N!Dispose(s) PROVE NightInv'
  <2>1. /\ run.phase = "dispose" /\ run.kind = "sheet" /\ s \in run.batch
        /\ UNCHANGED <<slot, fired, age, sheetDone, late, stranded, a2, parent, derived>>
        /\ night' = [night EXCEPT ![s] = "done"] /\ run' = [run EXCEPT !.batch = @ \ {s}]
    BY <1>9, Zenon DEF N!Dispose
  <2>2. N!Put(N!Handoff(s), s) \/ UNCHANGED desk
    BY <1>9, Zenon DEF N!Dispose
  <2>3. run'.phase = "dispose" /\ run'.kind = "sheet"
    BY <2>1 DEF RunShape
  <2>4. s \in InHand /\ Budgeted'
    BY <2>1, <2>3 DEF InHand, Budgeted, Reserve
  <2> QED BY <2>1, <2>2, <2>4, <1>8
<1>10. ASSUME NEW s \in N!AllSignals, N!Forward(s) PROVE NightInv'
  <2>1. /\ run.phase = "dispose" /\ run.kind = "late" /\ s \in run.batch /\ late' = late + 1
        /\ UNCHANGED <<slot, fired, age, sheetDone, stranded, a2, parent, derived>>
        /\ night' = [night EXCEPT ![s] = "done"] /\ run' = [run EXCEPT !.batch = @ \ {s}]
        /\ N!Put(N!Handoff(s), s)
    BY <1>10, Zenon DEF N!Forward
  <2>2. run'.phase = "dispose" /\ run'.kind = "late" /\ run'.batch = run.batch \ {s}
    BY <2>1 DEF RunShape
  <2>3. IsFiniteSet(run.batch)
    BY <2>1, NightSignals, FS_Subset DEF RunShape
  <2>4. Cardinality(run.batch) \in Nat /\ Cardinality(run.batch \ {s}) = Cardinality(run.batch) - 1
    BY <2>1, <2>3, FS_RemoveElement, FS_CardinalityType
  <2>5. Reserve' = Reserve
    BY <2>1, <2>2, <2>4, NightLimits DEF Reserve, Budgeted
  <2>6. s \in InHand /\ Budgeted'
    BY <2>1, <2>2, <2>5 DEF InHand, Budgeted
  <2> QED BY <2>1, <2>6, <1>8
<1>11. CASE N!FinishSheet
  <2>1. /\ run.phase = "dispose" /\ run.kind = "sheet" /\ run.batch = {} /\ sheetDone' = TRUE /\ run' = N!Idle
        /\ UNCHANGED <<slot, fired, night, age, late, stranded, desk, a2, parent, derived>>
    BY <1>11 DEF N!FinishSheet
  <2>2. InHand = {} /\ InHand' = {} /\ RunShape' /\ run'.phase = "idle"
    BY <2>1 DEF InHand, RunShape, N!Idle
  <2>3. Budgeted'
    BY <2>1, <2>2 DEF Budgeted, Reserve
  <2>4. HandTraced' /\ Claimed' /\ NoneTooOld'
    BY <2>1, <2>2 DEF HandTraced, Claimed, NoneTooOld, N!Expired
  <2> QED BY <2>1, <2>2, <2>3, <2>4, <1>e
<1>12. CASE N!DeferRest
  <2>1. /\ run.phase = "dispose" /\ run.kind = "late" /\ run.batch = {} /\ run' = N!Idle
        /\ UNCHANGED <<slot, fired, age, sheetDone, late, stranded, desk, a2, parent, derived>>
        /\ night' = [s \in N!AllSignals |-> IF s \in run.rest THEN "deferred" ELSE night[s]]
    BY <1>12 DEF N!DeferRest
  <2>2. InHand = run.rest /\ InHand' = {} /\ RunShape' /\ run'.phase = "idle"
    BY <2>1 DEF InHand, RunShape, N!Idle
  <2>3. Budgeted'
    <3>1. Reserve' = Reserve
      <4>1. Cardinality(run.batch) = 0
        BY <2>1, FS_EmptySet
      <4> QED BY <2>1, <2>2, <4>1, NightLimits DEF Reserve, Budgeted
    <3> QED BY <2>1, <2>2, <3>1 DEF Budgeted
  <2>4. NightTraced' /\ HandTraced'
    <3>1. \A t : Traced(t)' = Traced(t)
      BY <2>1 DEF Traced
    <3> QED BY <2>1, <2>2, <3>1 DEF NightTraced, HandTraced
  <2>5. Claimed'
    BY <2>1, <2>2 DEF Claimed
  <2>6. NoneTooOld'
    <3>1. ASSUME NEW t \in N!AllSignals PROVE /\ ~N!Expired(t) => ~N!Expired(t)'
                                              /\ night'[t] = "absent" => night[t] = "absent"
      <4>1. CASE t \in run.rest
        <5>1. age[t] < MaxAge /\ age' = age /\ age[t] \in Nat
          BY <2>1, <2>2, <4>1 DEF NoneTooOld
        <5> QED BY <2>1, <4>1, <5>1, NightLimits DEF N!Expired
      <4>2. CASE t \notin run.rest
        BY <2>1, <4>2 DEF N!Expired
      <4> QED BY <4>1, <4>2
    <3> QED BY <2>1, <2>2, <3>1 DEF NoneTooOld
  <2> QED BY <2>1, <2>2, <2>3, <2>4, <2>5, <2>6, <1>e
<1>13. CASE N!RunDies
  <2>1. /\ run.phase # "idle" /\ run' = N!Idle
        /\ stranded' = stranded \union {s \in N!AllSignals : night[s] = "claimed"}
        /\ UNCHANGED <<slot, fired, night, age, sheetDone, late, desk, a2, parent, derived>>
    BY <1>13 DEF N!RunDies, RunShape
  <2>2. InHand' = {} /\ RunShape' /\ run'.phase = "idle"
    BY <2>1 DEF InHand, RunShape, N!Idle
  <2>3. Budgeted'
    <3>1. LateMax - late >= Reserve
      <4>1. run.phase = "dispose" => Cardinality(run.batch) \in Nat
        BY <2>1, NightSignals, FS_Subset, FS_CardinalityType DEF RunShape
      <4> QED BY <4>1, NightLimits DEF Reserve, Budgeted
    <3>2. Reserve' = LateMax - late /\ Reserve \in Int
      <4>1. run.phase = "dispose" => Cardinality(run.batch) \in Nat
        BY <2>1, NightSignals, FS_Subset, FS_CardinalityType DEF RunShape
      <4> QED BY <2>1, <2>2, <4>1, NightLimits DEF Reserve, Budgeted
    <3> QED BY <2>1, <2>2, <3>1, <3>2, NightLimits DEF Budgeted
  <2>4. HandTraced' /\ Claimed' /\ NoneTooOld'
    BY <2>1, <2>2 DEF HandTraced, Claimed, NoneTooOld, N!Expired
  <2> QED BY <2>1, <2>2, <2>3, <2>4, <1>e
<1>14. CASE N!StartLate
  <2>1. /\ slot \in 1 .. Slots /\ ~fired /\ run.phase = "idle" /\ fired' = TRUE
        /\ UNCHANGED <<slot, age, sheetDone, late, stranded, desk, a2, parent, derived>>
    BY <1>14 DEF N!StartLate, N!Idle
  <2>2. InHand = {}
    BY <2>1 DEF InHand
  <2>3. CASE UNCHANGED <<run, night>>
    <3>1. Budgeted'
      BY <2>1, <2>3, NightLimits DEF Budgeted, Reserve
    <3> QED BY <2>1, <2>3, <3>1, <1>a, <1>c, <1>d, <1>e
  <2>4. CASE /\ N!ShouldRun
             /\ run' = [phase |-> "sift", kind |-> "late", batch |-> N!Batch(FALSE), rank |-> {}, start |-> slot]
             /\ night' = [s \in N!AllSignals |-> IF s \in N!Batch(FALSE) THEN "claimed" ELSE night[s]]
    <3>1. N!Batch(FALSE) = {s \in N!AllSignals : night[s] = "ready"}
      BY Zenon DEF N!Batch
    <3>2. RunShape' /\ InHand' = N!Batch(FALSE) /\ run'.phase = "sift" /\ run'.kind = "late" /\ run'.start = slot
      <4>a. slot \in Int
        BY <2>1, NightLimits
      <4>b. N!Batch(FALSE) \subseteq N!AllSignals
        BY <3>1, Zenon
      <4>1. slot \in Int /\ N!Batch(FALSE) \subseteq N!AllSignals
        BY <4>a, <4>b
      <4>2. RunShape' /\ run'.phase = "sift" /\ run'.kind = "late" /\ run'.start = slot
        BY <2>4, <4>1 DEF RunShape
      <4>3. run'.batch = N!Batch(FALSE) /\ run'.rank = {}
        BY <2>4
      <4> QED BY <4>2, <4>3 DEF InHand
    <3>3. Budgeted'
      <4>1. Reserve = LateMax - late /\ Reserve' = LateMax - late
        BY <2>1, <3>2, NightLimits DEF Reserve, Budgeted
      <4> QED BY <2>1, <3>2, <4>1, NightLimits DEF Budgeted
    <3>4. NightTraced' /\ HandTraced'
      <4>1. \A t : Traced(t)' = Traced(t)
        BY <2>1 DEF Traced
      <4> QED BY <2>4, <3>1, <3>2, <4>1 DEF NightTraced, HandTraced
    <3>5. Claimed'
      BY <2>1, <2>2, <2>4, <3>2 DEF Claimed
    <3>6. NoneTooOld'
      <4>1. sheetDone /\ \A t \in N!AllSignals : ~N!Expired(t)
        BY <2>4 DEF N!ShouldRun, NoneTooOld
      <4>2. \A t \in N!AllSignals : ~N!Expired(t)' /\ (night'[t] = "absent" => night[t] = "absent")
        BY <2>1, <2>4, <3>1, <4>1 DEF N!Expired
      <4>3. \A t \in N!Batch(FALSE) : age'[t] < MaxAge
        <5>1. ASSUME NEW t \in N!AllSignals, night[t] = "ready" PROVE age[t] < MaxAge
          <6>1. ~(age[t] >= MaxAge) /\ age[t] \in Nat
            BY <4>1, <5>1 DEF N!Expired, NoneTooOld
          <6> QED BY <6>1, NightLimits
        <5> QED BY <2>1, <3>1, <5>1
      <4> QED BY <2>1, <3>2, <4>1, <4>2, <4>3 DEF NoneTooOld
    <3> QED BY <2>1, <3>2, <3>3, <3>4, <3>5, <3>6, <1>e
  <2> QED BY <1>14, <2>3, <2>4, Zenon DEF N!StartLate
(* The analyst. *)
<1>15. ASSUME UNCHANGED <<slot, fired, night, age, run, sheetDone, late, stranded, parent, derived>>,
              A2Shape', DeskTraced'
       PROVE  NightInv'
  BY <1>15, <1>e, <1>f
<1>16. ASSUME NEW k \in DOMAIN desk, NEW st \in {"ready", "claimed", "done", "dead"}, NEW tr \in Nat, UNCHANGED derived,
              \/ desk' = [desk EXCEPT ![k].state = st]
              \/ desk' = [desk EXCEPT ![k].state = st, ![k].tries = tr]
       PROVE  DeskTraced' /\ DOMAIN desk' = DOMAIN desk
  <2>1. desk[k] \in DeskMessages /\ Traced(desk[k].signal)
    BY DEF DeskTraced
  <2>2. DOMAIN desk' = DOMAIN desk /\ \A l \in DOMAIN desk : l # k => desk'[l] = desk[l]
    BY <1>16
  <2>3. desk'[k] \in DeskMessages /\ desk'[k].signal = desk[k].signal
    BY <1>16, <2>1 DEF DeskMessages
  <2> QED BY <1>16, <2>1, <2>2, <2>3 DEF DeskTraced, Traced
<1>17. ASSUME NEW k \in DOMAIN desk, N!Take(k) PROVE NightInv'
  <2>1. /\ a2' = [phase |-> "analyse", key |-> k] /\ desk' = [desk EXCEPT ![k].state = "claimed"]
        /\ UNCHANGED <<slot, fired, night, age, run, sheetDone, late, stranded, parent, derived>>
    BY <1>17 DEF N!Take
  <2>2. DeskTraced' /\ DOMAIN desk' = DOMAIN desk
    BY <2>1, <1>16
  <2>3. A2Shape'
    BY <2>1, <2>2 DEF A2Shape
  <2> QED BY <2>1, <2>2, <2>3, <1>15
<1>18. ASSUME a2.phase # "idle", NEW st \in {"ready", "done", "dead"}, NEW tr \in Nat, a2' = N!Idle,
              UNCHANGED <<slot, fired, night, age, run, sheetDone, late, stranded, parent, derived>>,
              \/ desk' = [desk EXCEPT ![a2.key].state = st]
              \/ desk' = [desk EXCEPT ![a2.key].state = st, ![a2.key].tries = tr]
       PROVE  NightInv'
  <2>1. a2.key \in DOMAIN desk
    BY <1>18 DEF A2Shape
  <2>2. DeskTraced'
    BY <1>16, <1>18, <2>1
  <2>3. A2Shape'
    BY <1>18 DEF A2Shape, N!Idle
  <2> QED BY <1>15, <1>18, <2>2, <2>3
<1>19. CASE N!DeferAnalysis
  BY <1>18, <1>19 DEF N!DeferAnalysis
<1>20. CASE N!Ack
  BY <1>18, <1>20 DEF N!Ack
<1>21. CASE N!Fault
  <2>1. a2.phase # "idle"
    BY <1>21 DEF N!Fault, A2Shape
  <2>2. desk[a2.key].tries \in Nat
    BY <2>1 DEF A2Shape, DeskTraced, DeskMessages
  <2>3. PICK st \in {"ready", "dead"} :
          desk' = [desk EXCEPT ![a2.key].state = st, ![a2.key].tries = desk[a2.key].tries + 1]
    BY <1>21, Zenon DEF N!Fault
  <2>4. /\ UNCHANGED <<slot, fired, night, age, run, sheetDone, late, stranded, parent, derived>>
        /\ a2' = N!Idle
    BY <1>21 DEF N!Fault
  <2>5. desk[a2.key].tries + 1 \in Nat
    BY <2>2
  <2> QED BY <1>18, <2>1, <2>3, <2>4, <2>5
<1>22. ASSUME a2.phase # "idle", N!Answered, UNCHANGED desk PROVE A2Shape'
  <2>1. a2' = [a2 EXCEPT !.phase = "ack"]
    BY <1>22 DEF N!Answered
  <2>2. "key" \in DOMAIN a2' /\ a2'.phase = "ack" /\ a2'.key = a2.key /\ "phase" \in DOMAIN a2'
    BY <1>22, <2>1 DEF A2Shape
  <2> QED BY <1>22, <2>2 DEF A2Shape
<1>23. CASE N!Reject
  <2>1. /\ a2.phase # "idle" /\ N!Answered
        /\ UNCHANGED <<slot, fired, night, age, run, sheetDone, late, stranded, desk, parent, derived>>
    BY <1>23 DEF N!Reject
  <2> QED BY <2>1, <1>22, <1>15, <1>g
(* A thesis spawns only when its subject carries no lineage. *)
<1>24. CASE N!Thesis
  <2>1. /\ a2.phase # "idle" /\ N!Answered
        /\ UNCHANGED <<slot, fired, night, age, run, sheetDone, late, stranded, desk, derived>>
    BY <1>24 DEF N!Thesis
  <2>2. PICK opportunities \in {{}} \union (IF N!MayFanOut(N!Subject) THEN SUBSET N!Unnamed ELSE {}) :
          parent' = [s \in Synthetics |-> IF s \in opportunities THEN N!Subject ELSE parent[s]]
    BY <1>24, Zenon DEF N!Thesis
  <2>3. opportunities # {} => N!Subject \notin Synthetics
    <3>1. Traced(N!Subject)
      BY <2>1 DEF A2Shape, DeskTraced, N!Subject
    <3> QED BY <2>2, <3>1 DEF Traced, N!MayFanOut
  <2>4. OneHop'
    BY <2>2, <2>3 DEF OneHop
  <2>5. A2Shape' /\ DeskTraced' /\ NightTraced' /\ HandTraced'
    BY <2>1, <1>22, <1>e, <1>g
  <2> QED BY <2>1, <2>4, <2>5, <1>f
<1>25. CASE N!Tick
  <2>1. /\ slot = 0 => run = N!Idle
        /\ slot > 0 => fired \/ run # N!Idle
        /\ fired' = FALSE /\ slot' = IF slot = 0 THEN Slots + 1 ELSE slot - 1
        /\ UNCHANGED <<run, stranded, a2, parent, derived>>
    BY <1>25 DEF N!Tick
  <2>2. /\ DOMAIN desk' = DOMAIN desk
        /\ \A k \in DOMAIN desk : desk'[k] = desk[k] \/ desk'[k] = [desk[k] EXCEPT !.state = "ready"]
    BY <1>25 DEF N!Tick
  <2>3. /\ night' = [s \in N!AllSignals |-> night'[s]]
        /\ \A s \in N!AllSignals : night'[s] = IF night[s] = "deferred" THEN "ready" ELSE night[s]
    BY <1>25 DEF N!Tick
  <2>4. RunShape' /\ InHand' = InHand
    BY <2>1, <1>a
  <2>5. A2Shape' /\ DeskTraced'
    BY <2>1, <2>2 DEF A2Shape, DeskTraced, DeskMessages, Traced
  <2>6. NightTraced' /\ HandTraced' /\ OneHop'
    <3>1. NightTraced'
      BY <2>1, <2>3 DEF NightTraced, Traced
    <3> QED BY <2>1, <3>1, <1>e
  <2>7. Claimed'
    BY <2>1, <2>3, <2>4 DEF Claimed
  <2>8. Budgeted'
    <3>1. CASE slot = 0
      <4>1. slot' = Slots + 1 /\ late' = 0 /\ run'.phase = "idle" /\ fired' = FALSE
        BY <1>25, <2>1, <3>1 DEF N!Tick, N!Idle
      <4>2. slot' \in 0 .. Slots + 1 /\ slot' \notin 1 .. Slots
        BY <4>1, NightLimits
      <4> QED BY <4>1, <4>2 DEF Budgeted
    <3>2. CASE slot = Slots + 1
      <4>1. slot' = Slots /\ late' = 0 /\ fired' = FALSE /\ (run'.phase # "idle" => run'.kind = "sheet")
        BY <1>25, <2>1, <3>2, NightLimits DEF N!Tick, Budgeted
      <4>2. run'.phase # "idle" => ~(run'.phase = "dispose" /\ run'.kind = "late")
        BY <4>1
      <4>3. Reserve' = LateMax
        BY <4>1, <4>2, NightLimits DEF Reserve
      <4>4. slot' \in 0 .. Slots + 1 /\ slot' # Slots + 1 /\ Reserve' >= slot' - 1 /\ Reserve' >= slot'
        BY <4>1, <4>3, NightLimits
      <4>5. ~(run'.phase = "sift" /\ run'.kind = "late")
        BY <4>1
      <4> QED BY <4>1, <4>4, <4>5 DEF Budgeted
    <3>3. CASE slot \in 1 .. Slots
      <4>1. slot' = slot - 1 /\ late' = late /\ fired' = FALSE /\ run' = run /\ Reserve' = Reserve
        BY <1>25, <2>1, <3>3 DEF N!Tick, Reserve
      <4>2. /\ Reserve >= slot - 1 /\ slot \in Nat /\ late \in Nat /\ slot # 0 /\ slot <= Slots
            /\ Reserve \in Int
        <5>1. run.phase = "dispose" => Cardinality(run.batch) \in Nat
          BY NightSignals, FS_Subset, FS_CardinalityType DEF RunShape
        <5> QED BY <3>3, <5>1, NightLimits DEF Budgeted, Reserve
      <4>3. ASSUME run.phase = "sift", run.kind = "late"
            PROVE  run.start \in Int /\ slot <= run.start /\ LateMax - late >= run.start
        BY <3>3, <4>3 DEF Budgeted, RunShape
      <4>4. /\ slot' \in 0 .. Slots + 1 /\ slot' # Slots + 1 /\ late' \in Nat
            /\ Reserve' >= slot' - 1 /\ Reserve' >= slot'
        BY <4>1, <4>2, NightLimits
      <4>5. ASSUME run'.phase = "sift", run'.kind = "late"
            PROVE  slot' <= run'.start /\ LateMax - late' >= run'.start /\ slot' < run'.start
        BY <4>1, <4>2, <4>3, <4>5, NightLimits
      <4> QED BY <4>1, <4>4, <4>5 DEF Budgeted
    <3> QED BY <3>1, <3>2, <3>3, NightLimits DEF Budgeted
  <2>9. NoneTooOld'
    <3>1. CASE slot = 0
      <4>1. sheetDone' = FALSE /\ run'.phase = "idle"
        BY <1>25, <2>1, <3>1 DEF N!Tick, N!Idle
      <4>2. /\ age' \in [N!AllSignals -> Nat]
            /\ \A s \in N!AllSignals : night'[s] = "absent" => age'[s] = 0
        <5>1. age' = [s \in N!AllSignals |-> IF night[s] \in {"ready", "deferred"} /\ age[s] < MaxAge THEN age[s] + 1 ELSE age[s]]
          BY <1>25, <3>1 DEF N!Tick
        <5> QED BY <5>1, <2>3 DEF NoneTooOld
      <4> QED BY <4>1, <4>2 DEF NoneTooOld
    <3>2. CASE slot # 0
      <4>1. UNCHANGED <<sheetDone, age, run>>
        BY <1>25, <2>1, <3>2 DEF N!Tick
      <4>2. \A s \in N!AllSignals : /\ ~N!Expired(s) => ~N!Expired(s)'
                                    /\ night'[s] = "absent" => night[s] = "absent"
        BY <4>1, <2>3 DEF N!Expired
      <4> QED BY <4>1, <4>2, <2>4 DEF NoneTooOld
    <3> QED BY <3>1, <3>2
  <2> QED BY <2>4, <2>5, <2>6, <2>7, <2>8, <2>9
<1>26. CASE UNCHANGED N!vars
  BY <1>26, <1>e, <1>f DEF N!vars
<1> QED BY <1>1, <1>2, <1>3, <1>4, <1>6, <1>7, <1>9, <1>10, <1>11, <1>12, <1>13, <1>14, <1>17, <1>19, <1>20, <1>21,
           <1>23, <1>24, <1>25, <1>26 DEF N!Next, N!Triage, N!Sheet, N!LatePass, N!Analyst

(* A4 has nothing in hand when it is idle. *)
LEMMA NightIdle == ASSUME NightInv, run = N!Idle PROVE InHand = {}
BY DEF InHand, N!Idle

(* The budget of the late passes lasts to the last one before the open.  *)
THEOREM ServicesBudgetLasts == ServicesSpec => []BudgetLastsToTheOpen
<1>1. NightInv => BudgetLastsToTheOpen
  <2> SUFFICES ASSUME NightInv, slot \in 1 .. Slots PROVE late <= LateMax /\ LateMax - late >= slot - 1
    BY DEF BudgetLastsToTheOpen, N!BudgetLastsToTheOpen
  <2>1. run.phase = "dispose" => Cardinality(run.batch) \in Nat
    BY NightSignals, FS_Subset, FS_CardinalityType DEF NightInv, RunShape
  <2> QED BY <2>1, NightLimits DEF NightInv, Budgeted, Reserve
<1> QED BY <1>1, NightAlone, NightInvInit, NightInvNext, PTL DEF N!Spec

(* No related name is spawned by a related name, whatever queue, night or *)
(* redelivery its lineage travels through.                                *)
THEOREM ServicesSympathyStops == ServicesSpec => []SympathyStopsAfterOneHop
<1>1. NightInv => SympathyStopsAfterOneHop
  BY DEF SympathyStopsAfterOneHop, NightInv, Lineage, OneHop, N!SympathyStopsAfterOneHop
<1> QED BY <1>1, NightAlone, NightInvInit, NightInvNext, PTL DEF N!Spec

(* Only runs that died leave claims behind, and once the sheet is written *)
(* no signal has outlived its nights.                                     *)
THEOREM ServicesNightWorkedOff == ServicesSpec => []NightIsWorkedOff
<1>1. NightInv => NightIsWorkedOff
  BY NightIdle DEF NightIsWorkedOff, NightInv, Claimed, NoneTooOld, N!NightIsWorkedOff
<1> QED BY <1>1, NightAlone, NightInvInit, NightInvNext, PTL DEF N!Spec

------------------------------------------------------------------------------
(* C10 *)

(* C10 is a part of the services. *)
LEMMA ScannerAlone == ServicesSpec => S!Spec
<1>1. ServicesInit => S!Init
  BY DEF ServicesInit
<1>2. [ServicesNext]_servicesVars => [S!Next]_(S!vars)
  BY DEF ServicesNext, servicesVars, scannerVars, S!vars, S!books, S!memory
<1> QED BY <1>1, <1>2, PTL DEF ServicesSpec, S!Spec

(* The instance counts as the library does. *)
LEMMA ScannerCount == ASSUME NEW X PROVE S!Cardinality(X) = Cardinality(X)
BY Zenon DEF Cardinality, S!Cardinality

ScanShape ==
  /\ "phase" \in DOMAIN scan /\ scan.phase \in {"idle", "survey", "rank", "judge"}
  /\ scan.phase = "idle" => scan = S!Idle
  /\ scan.phase # "idle" => "known" \in DOMAIN scan
  /\ scan.phase = "judge" =>
       /\ {"left", "emitted", "lastHour"} \subseteq DOMAIN scan
       /\ scan.emitted \in Nat /\ scan.lastHour \in Nat

RowsSound ==
  /\ IsFiniteSet(rows) /\ IsFiniteSet(S!EmittedToday) /\ time \in Nat
  /\ \A r \in rows : r.time \in Nat /\ r.time <= time

(* The rows of the day, and of the hour, are those a scan began with and those *)
(* it has written; an hour only loses rows while a scan goes on.               *)
Counted ==
  /\ scan.phase \in {"survey", "rank"} => S!EmittedToday = scan.known
  /\ scan.phase = "judge" =>
       /\ IsFiniteSet(scan.known)
       /\ Cardinality(S!EmittedToday) <= Cardinality(scan.known) + scan.emitted
       /\ Cardinality(S!EmittedLastHour) <= scan.lastHour + scan.emitted

HourTo(end) == {r \in rows : r.time \in (end - HourLength + 1) .. end}

WithinCaps ==
  /\ Cardinality(S!EmittedToday) <= MaxPerDay
  /\ \A end \in Int : Cardinality(HourTo(end)) <= MaxPerHour

RowOrLost ==
  /\ journaled \subseteq S!EmittedToday \union unwritten
  /\ sent \ unwritten \subseteq S!EmittedToday

CapsInv == ScanShape /\ RowsSound /\ Counted /\ WithinCaps /\ RowOrLost

(* Everything counted from the rows is finite. *)
LEMMA RowsFinite ==
  ASSUME RowsSound
  PROVE  /\ IsFiniteSet(S!EmittedToday) /\ IsFiniteSet(S!EmittedLastHour)
         /\ Cardinality(S!EmittedToday) \in Nat /\ Cardinality(S!EmittedLastHour) \in Nat
         /\ \A end \in Int : IsFiniteSet(HourTo(end)) /\ Cardinality(HourTo(end)) \in Nat
<1>1. IsFiniteSet(S!EmittedToday)
  BY DEF RowsSound
<1>2. IsFiniteSet(S!EmittedLastHour)
  BY FS_Subset DEF RowsSound, S!EmittedLastHour
<1>3. \A end \in Int : IsFiniteSet(HourTo(end))
  BY FS_Subset DEF RowsSound, HourTo
<1> QED BY <1>1, <1>2, <1>3, FS_CardinalityType

(* A choice that ends in no reason has met no reason. *)
LEMMA NoReason ==
  ASSUME NEW checks, NEW k \in Nat, DOMAIN checks = 1 .. k,
         \A i \in 1 .. k : checks[i][2] # "none",
         S!FirstReason(checks) = "none"
  PROVE  \A i \in 1 .. k : ~checks[i][1]
<1> SUFFICES ASSUME NEW i \in 1 .. k, checks[i][1] PROVE FALSE
  OBVIOUS
<1> DEFINE Hits == {n \in 1 .. k : checks[n][1]}
           First(n) == checks[n][1] /\ \A j \in 1 .. (n - 1) : ~checks[j][1]
<1>1. Hits \in SUBSET Nat /\ Hits # {}
  OBVIOUS
<1>2. PICK n \in Hits : \A j \in Hits : n <= j
  BY <1>1, LeastNatural
<1>3. n \in 1 .. k /\ checks[n][1]
  BY <1>2
<1>4. ASSUME NEW j \in 1 .. (n - 1) PROVE ~checks[j][1]
  <2>1. j \in 1 .. k /\ ~(n <= j)
    BY <1>3
  <2> QED BY <1>2, <2>1
<1>5. \E l \in 1 .. k : First(l)
  BY <1>3, <1>4, Zenon
<1> DEFINE c == CHOOSE l \in 1 .. k : First(l)
<1>6. c \in 1 .. k
  BY <1>5, Zenon
<1>7. S!FirstReason(checks) = checks[c][2]
  BY <1>3, Zenon DEF S!FirstReason
<1> QED BY <1>6, <1>7

(* What is emitted has room in the day and in the hour. *)
LEMMA Permitted ==
  ASSUME NEW m, NEW emitted, NEW day_, NEW hour, NEW open, NEW etb, NEW early,
         S!EmissionDisposition(m, emitted, day_, hour, open, etb, early) = "none"
  PROVE  ~(day_ >= MaxPerDay) /\ ~(hour >= MaxPerHour)
<1> DEFINE checks == << <<m.weak, "SCORE_FLOOR">>,
                        <<m.down /\ m.ssr, "SSR_RESTRICTED">>,
                        <<m.down /\ ~etb, "SHORT_UNAVAILABLE">>,
                        <<early, "EARLY_WINDOW">>,
                        <<emitted >= MaxPerScan, "PER_SCAN">>,
                        <<day_ >= MaxPerDay, "PER_DAY">>,
                        <<hour >= MaxPerHour, "PER_HOUR">>,
                        <<open >= MaxConcurrent, "CONCURRENT">> >>
<1>1. DOMAIN checks = 1 .. 8
  OBVIOUS
<1>2. \A i \in 1 .. 8 : checks[i][2] # "none"
  OBVIOUS
<1>3. S!FirstReason(checks) = "none"
  BY Zenon DEF S!EmissionDisposition
<1>4. checks[6][1] = (day_ >= MaxPerDay) /\ checks[7][1] = (hour >= MaxPerHour)
  OBVIOUS
<1>5. 6 \in 1 .. 8 /\ 7 \in 1 .. 8 /\ 8 \in Nat
  OBVIOUS
<1> HIDE DEF checks
<1>6. \A i \in 1 .. 8 : ~checks[i][1]
  BY <1>1, <1>2, <1>3, <1>5, NoReason
<1> QED BY <1>4, <1>5, <1>6

(* So is the candidate that a scan is about to emit. *)
LEMMA ChosenHasRoom ==
  ASSUME S!Chosen
  PROVE  /\ ~(S!Cardinality(scan.known) + scan.emitted >= MaxPerDay)
         /\ ~(scan.lastHour + scan.emitted >= MaxPerHour)
<1>1. \E m, etb, early : S!Ask(m, etb, early) = "none"
  BY Zenon DEF S!Chosen, S!Disposition
<1> QED BY <1>1, Permitted DEF S!Ask

(* The limits of the scanner. *)
LEMMA ScannerLimits == MaxPerDay \in Nat /\ MaxPerHour \in Nat /\ HourLength \in Nat
BY ServicesAssumption

(* Nothing has been emitted at first. *)
LEMMA CapsInvInit == S!Init => CapsInv
<1> SUFFICES ASSUME S!Init PROVE CapsInv
  OBVIOUS
<1>1. rows = {} /\ S!EmittedToday = {} /\ \A end \in Int : HourTo(end) = {}
  BY DEF S!Init, S!EmittedToday, HourTo
<1>2. ScanShape /\ Counted /\ RowOrLost
  BY <1>1 DEF S!Init, S!Idle, ScanShape, Counted, RowOrLost
<1>3. RowsSound /\ WithinCaps
  BY <1>1, FS_EmptySet, ScannerLimits DEF S!Init, RowsSound, WithinCaps
<1> QED BY <1>2, <1>3 DEF CapsInv

(* Only the scan writes rows, so that what it counted holds while it goes on. *)
LEMMA CapsInvNext == CapsInv /\ [S!Next]_(S!vars) => CapsInv'
<1> SUFFICES ASSUME CapsInv, [S!Next]_(S!vars) PROVE CapsInv'
  OBVIOUS
<1> USE DEF S!memory, S!books, S!World
<1>a. UNCHANGED rows => /\ S!EmittedToday' = S!EmittedToday
                        /\ \A end : HourTo(end)' = HourTo(end)
                        /\ WithinCaps'
  <2> SUFFICES ASSUME UNCHANGED rows PROVE /\ S!EmittedToday' = S!EmittedToday
                                           /\ \A end : HourTo(end)' = HourTo(end)
                                           /\ WithinCaps'
    OBVIOUS
  <2>1. S!EmittedToday' = S!EmittedToday /\ \A end : HourTo(end)' = HourTo(end)
    BY DEF S!EmittedToday, HourTo
  <2> QED BY <2>1 DEF CapsInv, WithinCaps
<1>b. UNCHANGED <<rows, time>> => RowsSound' /\ S!EmittedLastHour' = S!EmittedLastHour
  BY <1>a DEF CapsInv, RowsSound, S!EmittedLastHour
<1>c. UNCHANGED <<rows, sent, journaled, unwritten>> => RowOrLost'
  BY <1>a DEF CapsInv, RowOrLost
<1>d. scan' = S!Idle => ScanShape' /\ Counted'
  BY DEF S!Idle, ScanShape, Counted
<1>e. UNCHANGED <<rows, scan, time>> => ScanShape' /\ Counted'
  BY <1>a, <1>b DEF CapsInv, ScanShape, Counted
<1>1. CASE S!Begin
  <2>1. /\ scan' = [phase |-> "survey", early |-> S!InEarlyWindow, known |-> S!EmittedToday]
        /\ UNCHANGED <<rows, time, sent, journaled, unwritten>>
    BY <1>1 DEF S!Begin
  <2>2. ScanShape' /\ Counted'
    BY <2>1, <1>a DEF ScanShape, Counted
  <2> QED BY <2>1, <2>2, <1>a, <1>b, <1>c DEF CapsInv
<1>2. CASE S!Survey
  <2>1. PICK chosen : scan' = [phase |-> "rank", early |-> scan.early, known |-> scan.known, left |-> chosen]
    BY <1>2, Zenon DEF S!Survey
  <2>2. scan.phase = "survey" /\ UNCHANGED <<rows, time, sent, journaled, unwritten>>
    BY <1>2, Zenon DEF S!Survey
  <2>3. ScanShape' /\ Counted'
    BY <2>1, <2>2, <1>a DEF CapsInv, ScanShape, Counted
  <2> QED BY <2>2, <2>3, <1>a, <1>b, <1>c DEF CapsInv
<1>3. CASE S!Rank
  <2>1. PICK chosen : scan' = [phase |-> "judge", early |-> scan.early, known |-> scan.known, left |-> chosen, emitted |-> 0,
                               open |-> S!Cardinality(S!OpenScanner), lastHour |-> S!Cardinality(S!EmittedLastHour)]
    BY <1>3, Zenon DEF S!Rank
  <2>2. scan.phase = "rank" /\ UNCHANGED <<rows, time, sent, journaled, unwritten>>
    BY <1>3, Zenon DEF S!Rank
  <2>3. scan.known = S!EmittedToday /\ S!Cardinality(S!EmittedLastHour) = Cardinality(S!EmittedLastHour)
    BY <2>2, ScannerCount DEF CapsInv, Counted
  <2>4. ScanShape'
    BY <2>1, <2>3, RowsFinite DEF CapsInv, ScanShape
  <2>5. Counted'
    BY <2>1, <2>2, <2>3, <1>a, <1>b, RowsFinite DEF CapsInv, Counted
  <2> QED BY <2>2, <2>4, <2>5, <1>a, <1>b, <1>c DEF CapsInv
<1>4. CASE S!Emit
  <2> DEFINE new == [ticker |-> S!Subject, time |-> time]
  <2>1. /\ S!Chosen /\ scan.phase = "judge" /\ sent' = sent \union {S!Subject} /\ journaled' = journaled \union {S!Subject}
        /\ UNCHANGED <<time, unwritten>>
    BY <1>4 DEF S!Emit, S!Chosen
  <2>2. rows' = IF S!Subject \in journaled THEN rows ELSE rows \union {new}
    BY <1>4 DEF S!Emit, S!Write
  <2>3. /\ scan'.phase = "judge" /\ scan'.known = scan.known /\ scan'.emitted = scan.emitted + 1
        /\ scan'.lastHour = scan.lastHour /\ DOMAIN scan' = DOMAIN scan
    BY <1>4, <2>1 DEF S!Emit, S!Judged, CapsInv, ScanShape
  <2>4. ScanShape'
    BY <2>1, <2>3 DEF CapsInv, ScanShape
  <2>5. /\ IsFiniteSet(scan.known) /\ Cardinality(scan.known) \in Nat
        /\ scan.emitted \in Nat /\ scan.lastHour \in Nat
        /\ Cardinality(S!EmittedToday) <= Cardinality(scan.known) + scan.emitted
        /\ Cardinality(S!EmittedLastHour) <= scan.lastHour + scan.emitted
    BY <2>1, FS_CardinalityType DEF CapsInv, Counted, ScanShape
  <2>6. /\ Cardinality(scan.known) + scan.emitted < MaxPerDay
        /\ scan.lastHour + scan.emitted < MaxPerHour
    BY <2>1, <2>5, ChosenHasRoom, ScannerCount, ScannerLimits
  <2>7. CASE S!Subject \in journaled
    <3>1. UNCHANGED rows
      BY <2>2, <2>7
    <3>2. Counted'
      BY <2>1, <2>3, <2>5, <3>1, <1>a, <1>b, RowsFinite DEF CapsInv, Counted
    <3>3. RowOrLost'
      BY <2>1, <2>7, <3>1, <1>a DEF CapsInv, RowOrLost
    <3> QED BY <2>1, <2>4, <3>1, <3>2, <3>3, <1>a, <1>b DEF CapsInv
  <2>8. CASE S!Subject \notin journaled
    <3>1. rows' = rows \union {new} /\ new.ticker = S!Subject /\ new.time = time
      BY <2>2, <2>8
    <3> HIDE DEF new
    <3>2. S!EmittedToday' = S!EmittedToday \union {S!Subject}
      BY <3>1 DEF S!EmittedToday
    <3>3. /\ IsFiniteSet(S!EmittedToday') /\ Cardinality(S!EmittedToday') \in Nat
          /\ Cardinality(S!EmittedToday') <= Cardinality(S!EmittedToday) + 1
      <4>1. IsFiniteSet(S!EmittedToday) /\ Cardinality(S!EmittedToday) \in Nat
        BY RowsFinite DEF CapsInv
      <4>2. IsFiniteSet(S!EmittedToday \union {S!Subject})
            /\ Cardinality(S!EmittedToday \union {S!Subject}) \in {Cardinality(S!EmittedToday), Cardinality(S!EmittedToday) + 1}
        BY <4>1, FS_AddElement
      <4> QED BY <3>2, <4>1, <4>2
    <3>4. RowsSound'
      BY <2>1, <3>1, <3>3, FS_AddElement DEF CapsInv, RowsSound
    <3>5. S!EmittedLastHour' \subseteq S!EmittedLastHour \union {new}
      BY <2>1, <3>1 DEF S!EmittedLastHour
    <3>6. /\ Cardinality(S!EmittedLastHour') \in Nat
          /\ Cardinality(S!EmittedLastHour') <= Cardinality(S!EmittedLastHour) + 1
          /\ IsFiniteSet(S!EmittedLastHour \union {new}) /\ Cardinality(S!EmittedLastHour \union {new}) \in Nat
          /\ Cardinality(S!EmittedLastHour \union {new}) <= Cardinality(S!EmittedLastHour) + 1
      <4>1. IsFiniteSet(S!EmittedLastHour) /\ Cardinality(S!EmittedLastHour) \in Nat
        BY RowsFinite DEF CapsInv
      <4>2. IsFiniteSet(S!EmittedLastHour \union {new})
            /\ Cardinality(S!EmittedLastHour \union {new}) \in {Cardinality(S!EmittedLastHour), Cardinality(S!EmittedLastHour) + 1}
        BY <4>1, FS_AddElement
      <4>3. IsFiniteSet(S!EmittedLastHour') /\ Cardinality(S!EmittedLastHour') <= Cardinality(S!EmittedLastHour \union {new})
        BY <3>5, <4>2, FS_Subset
      <4>4. Cardinality(S!EmittedLastHour') \in Nat
        BY <4>3, FS_CardinalityType
      <4> QED BY <4>1, <4>2, <4>3, <4>4
    <3>7. Counted'
      <4>1. Cardinality(S!EmittedToday') <= Cardinality(scan'.known) + scan'.emitted
        BY <2>3, <2>5, <3>3, RowsFinite DEF CapsInv
      <4>2. Cardinality(S!EmittedLastHour') <= scan'.lastHour + scan'.emitted
        BY <2>3, <2>5, <3>6, RowsFinite DEF CapsInv
      <4> QED BY <2>3, <2>5, <4>1, <4>2 DEF Counted
    (* Every hour that the new row falls into holds rows of the last hour only. *)
    <3>8. WithinCaps'
      <4>1. Cardinality(S!EmittedToday') <= MaxPerDay
        BY <2>5, <2>6, <3>3, RowsFinite, ScannerLimits DEF CapsInv
      <4>2. ASSUME NEW end \in Int PROVE Cardinality(HourTo(end)') <= MaxPerHour
        <5>1. CASE time \in (end - HourLength + 1) .. end
          <6>1. HourTo(end)' \subseteq S!EmittedLastHour \union {new}
            <7>1. ASSUME NEW r \in rows, r.time \in (end - HourLength + 1) .. end PROVE r.time > time - HourLength
              <8>1. r.time \in Nat /\ time \in Nat
                BY DEF CapsInv, RowsSound
              <8> QED BY <5>1, <7>1, <8>1, ScannerLimits
            <7> QED BY <3>1, <7>1 DEF HourTo, S!EmittedLastHour
          <6>2. Cardinality(HourTo(end)') <= Cardinality(S!EmittedLastHour \union {new}) /\ Cardinality(HourTo(end)') \in Nat
            BY <3>6, <6>1, FS_Subset, FS_CardinalityType
          <6> QED BY <2>5, <2>6, <3>6, <6>2, RowsFinite, ScannerLimits DEF CapsInv
        <5>2. CASE time \notin (end - HourLength + 1) .. end
          <6>1. HourTo(end)' = HourTo(end)
            BY <3>1, <5>2 DEF HourTo
          <6> QED BY <6>1 DEF CapsInv, WithinCaps
        <5> QED BY <5>1, <5>2
      <4> QED BY <4>1, <4>2 DEF WithinCaps
    <3>9. RowOrLost'
      BY <2>1, <3>2 DEF CapsInv, RowOrLost
    <3> QED BY <2>4, <3>4, <3>7, <3>8, <3>9 DEF CapsInv
  <2> QED BY <2>7, <2>8
<1>5. CASE S!Withhold
  <2>1. /\ scan.phase = "judge" /\ scan' = [scan EXCEPT !.left = Tail(@)]
        /\ UNCHANGED <<rows, time, sent, journaled, unwritten>>
    BY <1>5 DEF S!Withhold, S!Judged
  <2>2. /\ scan'.phase = "judge" /\ scan'.known = scan.known /\ scan'.emitted = scan.emitted
        /\ scan'.lastHour = scan.lastHour /\ DOMAIN scan' = DOMAIN scan
    BY <2>1 DEF CapsInv, ScanShape
  <2>3. ScanShape' /\ Counted'
    BY <2>1, <2>2, <1>a, <1>b DEF CapsInv, ScanShape, Counted
  <2> QED BY <2>1, <2>3, <1>a, <1>b, <1>c DEF CapsInv
<1>6. CASE S!Finish
  BY <1>6, <1>a, <1>b, <1>c, <1>d DEF S!Finish, CapsInv
<1>7. CASE S!Fault
  <2>1. scan' = S!Idle /\ UNCHANGED <<rows, time, sent>>
    BY <1>7 DEF S!Fault
  <2>2. \/ UNCHANGED <<journaled, unwritten>>
        \/ /\ journaled' = journaled \union {S!Subject}
           /\ unwritten' = unwritten \union ({S!Subject} \ journaled)
    BY <1>7, Zenon DEF S!Fault
  <2>3. RowOrLost'
    BY <2>1, <2>2, <1>a DEF CapsInv, RowOrLost
  <2> QED BY <2>1, <2>3, <1>a, <1>b, <1>d DEF CapsInv
<1>8. CASE S!Restart
  <2>1. scan' = S!Idle /\ journaled' = {} /\ UNCHANGED <<rows, time, sent, unwritten>>
    BY <1>8 DEF S!Restart
  <2>2. RowOrLost'
    BY <2>1, <1>a DEF CapsInv, RowOrLost
  <2> QED BY <2>1, <2>2, <1>a, <1>b, <1>d DEF CapsInv
<1>9. CASE S!Tick
  <2>1. time' = time + 1 /\ UNCHANGED <<rows, scan, sent, journaled, unwritten>>
    BY <1>9 DEF S!Tick
  <2>2. RowsSound'
    BY <2>1, <1>a DEF CapsInv, RowsSound
  <2>3. S!EmittedLastHour' \subseteq S!EmittedLastHour
    <3>1. ASSUME NEW r \in rows', r.time > time' - HourLength PROVE r \in rows /\ r.time > time - HourLength
      <4>1. r \in rows /\ r.time \in Nat /\ time \in Nat /\ time' = time + 1
        BY <2>1 DEF CapsInv, RowsSound
      <4> QED BY <3>1, <4>1, ScannerLimits
    <3>2. S!EmittedLastHour' = {r \in rows' : r.time > time' - HourLength}
      BY DEF S!EmittedLastHour
    <3> QED BY <3>1, <3>2 DEF S!EmittedLastHour
  <2>4. Cardinality(S!EmittedLastHour') \in Nat /\ Cardinality(S!EmittedLastHour') <= Cardinality(S!EmittedLastHour)
    BY <2>3, RowsFinite, FS_Subset, FS_CardinalityType DEF CapsInv
  <2>5. ScanShape' /\ Counted'
    <3>1. ScanShape'
      BY <2>1 DEF CapsInv, ScanShape
    <3>2. ASSUME scan.phase = "judge" PROVE Cardinality(S!EmittedLastHour') <= scan.lastHour + scan.emitted
      BY <2>4, <3>2, RowsFinite DEF CapsInv, Counted, ScanShape
    <3>3. Counted'
      BY <2>1, <3>2, <1>a DEF CapsInv, Counted
    <3> QED BY <3>1, <3>3
  <2> QED BY <2>1, <2>2, <2>5, <1>a, <1>c DEF CapsInv
<1>10. CASE S!NewDay
  <2>1. scan' = scan /\ scan = S!Idle /\ rows' = {} /\ sent' = {} /\ journaled' = {} /\ unwritten' = {} /\ time' = 0
    BY <1>10 DEF S!NewDay
  <2>2. S!EmittedToday' = {} /\ \A end \in Int : HourTo(end)' = {}
    BY <2>1 DEF S!EmittedToday, HourTo
  <2>3. RowsSound' /\ WithinCaps'
    BY <2>1, <2>2, FS_EmptySet, ScannerLimits DEF RowsSound, WithinCaps
  <2>4. RowOrLost'
    BY <2>1, <2>2 DEF RowOrLost
  <2> QED BY <2>1, <2>3, <2>4, <1>d DEF CapsInv
<1>11. CASE UNCHANGED <<time, rows, sent, journaled, scan, unwritten>>
  BY <1>11, <1>a, <1>b, <1>c, <1>e DEF CapsInv
<1>12. ASSUME NEW t \in Tickers, S!Settle(t) \/ S!OtherLane(t) \/ \E lost \in BOOLEAN : S!Close(t, lost) PROVE CapsInv'
  BY <1>11, <1>12 DEF S!Settle, S!OtherLane, S!Close
<1>13. CASE S!Operator \/ UNCHANGED S!vars
  BY <1>11, <1>13 DEF S!Operator, S!vars
<1> QED BY <1>1, <1>2, <1>3, <1>4, <1>5, <1>6, <1>7, <1>8, <1>9, <1>10, <1>12, <1>13, Zenon DEF S!Next

(* C10: over failed scans, lost rows, restarts and an hour that moves on while *)
(* a scan works, the messages of a day and the rows of any rolling hour stay   *)
(* within their caps, names whose row was lost aside.                          *)
THEOREM ServicesSentWithinCaps == ServicesSpec => []SentWithinCaps
<1>1. CapsInv => SentWithinCaps
  <2> SUFFICES ASSUME CapsInv PROVE S!SentWithinCaps
    BY DEF SentWithinCaps
  <2>1. Cardinality(sent \ unwritten) <= MaxPerDay
    <3>1. /\ Cardinality(sent \ unwritten) <= Cardinality(S!EmittedToday) /\ Cardinality(sent \ unwritten) \in Nat
      BY RowsFinite, FS_Subset, FS_CardinalityType DEF CapsInv, RowOrLost
    <3> QED BY <3>1, RowsFinite, ScannerLimits DEF CapsInv, WithinCaps
  <2>2. ASSUME NEW end \in 0 .. MaxTime
        PROVE  Cardinality({r \in rows : r.time \in (end - HourLength + 1) .. end}) <= MaxPerHour
    <3>1. end \in Int
      OBVIOUS
    <3> QED BY <3>1 DEF CapsInv, WithinCaps, HourTo
  <2> QED BY <2>1, <2>2, ScannerCount DEF S!SentWithinCaps
<1> QED BY <1>1, ScannerAlone, CapsInvInit, CapsInvNext, PTL DEF S!Spec

(* A name whose loss, if any, is of today or long enough ago. *)
Rested(t) == lossOn[t] \in {0, scanDay} \/ scanDay - lossOn[t] >= Cooloff

Losses == scanDay \in Nat /\ lossOn \in [Tickers -> Nat]

(* What a scan has still to judge has no row yet and is rested, and no name is in it
   twice. *)
Listed ==
  /\ scan.phase = "rank" =>
       /\ "left" \in DOMAIN scan /\ DOMAIN scan.left \in SUBSET Tickers
       /\ \A t \in DOMAIN scan.left : t \notin S!EmittedToday /\ Rested(t)
  /\ scan.phase = "judge" =>
       /\ \E X : scan.left \in Seq(X)
       /\ \A i \in DOMAIN scan.left :
            /\ scan.left[i].ticker \in Tickers \ S!EmittedToday
            /\ Rested(scan.left[i].ticker)
            /\ \A j \in DOMAIN scan.left : scan.left[j].ticker = scan.left[i].ticker => j = i

RowsSent ==
  /\ \A r, s \in rows : r.ticker = s.ticker => r = s
  /\ S!EmittedToday \subseteq sent

ListInv == Losses /\ Listed /\ RowsSent

(* A name taken from the list is not on it any more. *)
LEMMA TailListed ==
  ASSUME ListInv, CapsInv, scan.phase = "judge", scan.left # <<>>,
         scan'.phase = "judge", scan'.left = Tail(scan.left),
         UNCHANGED <<scanDay, lossOn>>, S!EmittedToday' \subseteq S!EmittedToday \union {scan.left[1].ticker}
  PROVE  Losses' /\ Listed' /\ 1 \in DOMAIN scan.left
<1>1. PICK X : scan.left \in Seq(X)
  BY DEF ListInv, Listed
<1> DEFINE n == Len(scan.left)
<1>2. /\ n \in Nat \ {0} /\ DOMAIN scan.left = 1 .. n
      /\ Tail(scan.left) \in Seq(X) /\ DOMAIN Tail(scan.left) = 1 .. (n - 1)
      /\ \A i \in 1 .. (n - 1) : Tail(scan.left)[i] = scan.left[i + 1]
  BY <1>1
<1>3. \A i \in 1 .. n : /\ scan.left[i].ticker \in Tickers \ S!EmittedToday
                        /\ Rested(scan.left[i].ticker)
                        /\ \A j \in 1 .. n : scan.left[j].ticker = scan.left[i].ticker => j = i
  BY <1>2 DEF ListInv, Listed
<1> HIDE DEF n
<1>5. ASSUME NEW i \in 1 .. (n - 1)
      PROVE  /\ scan'.left[i].ticker \in Tickers \ S!EmittedToday'
             /\ Rested(scan'.left[i].ticker)
             /\ \A j \in 1 .. (n - 1) : scan'.left[j].ticker = scan'.left[i].ticker => j = i
  <2>1. i + 1 \in 1 .. n /\ 1 \in 1 .. n /\ i + 1 # 1
    BY <1>2
  <2>2. scan'.left[i] = scan.left[i + 1]
    BY <1>2
  <2>3. scan.left[1].ticker # scan.left[i + 1].ticker
    BY <1>3, <2>1
  <2>4. ASSUME NEW j \in 1 .. (n - 1), scan'.left[j].ticker = scan'.left[i].ticker PROVE j = i
    <3>1. j + 1 \in 1 .. n /\ scan'.left[j] = scan.left[j + 1]
      BY <1>2
    <3>2. j + 1 = i + 1
      BY <1>3, <2>1, <2>2, <2>4, <3>1
    <3> QED BY <3>2
  <2> QED BY <1>3, <2>1, <2>2, <2>3, <2>4
<1>6. Listed'
  <2>1. \E Y : scan'.left \in Seq(Y)
    BY <1>2
  <2>2. DOMAIN scan'.left = 1 .. (n - 1)
    BY <1>2
  <2> QED BY <1>5, <2>1, <2>2 DEF Listed, Rested
<1> QED BY <1>2, <1>6 DEF ListInv, Losses

LEMMA ListInvInit == S!Init => ListInv
<1> SUFFICES ASSUME S!Init PROVE ListInv
  OBVIOUS
<1>1. rows = {} /\ scan = S!Idle /\ scanDay = 1 /\ lossOn = [t \in Tickers |-> 0]
  BY DEF S!Init
<1> QED BY <1>1 DEF ListInv, Losses, Listed, RowsSent, S!Idle, S!EmittedToday

(* What a scan lists. *)
LEMMA SurveyLists ==
  ASSUME ListInv, CapsInv, S!Survey
  PROVE  Losses' /\ Listed'
<1>1. PICK listed \in SUBSET (Tickers \ (scan.known \union static)) :
      \E looked \in [listed \ ({t \in Tickers : held[t] # "none"} \union S!Cooling) -> Readings] :
        scan' = [phase |-> "rank", early |-> scan.early, known |-> scan.known,
                 left |-> [t \in {t \in DOMAIN looked : S!FilterCandidate(looked[t]) \in {"none"}} |-> looked[t]]]
  BY Zenon DEF S!Survey
<1>2. PICK looked \in [listed \ ({t \in Tickers : held[t] # "none"} \union S!Cooling) -> Readings] :
        scan' = [phase |-> "rank", early |-> scan.early, known |-> scan.known,
                 left |-> [t \in {t \in DOMAIN looked : S!FilterCandidate(looked[t]) \in {"none"}} |-> looked[t]]]
  BY <1>1
<1> DEFINE out == {t \in DOMAIN looked : S!FilterCandidate(looked[t]) \in {"none"}}
<1>3. scan.phase = "survey" /\ UNCHANGED <<rows, scanDay, lossOn>>
  BY Zenon DEF S!Survey, S!books
<1>4. DOMAIN looked = listed \ ({t \in Tickers : held[t] # "none"} \union S!Cooling)
  OBVIOUS
<1>5. scan.known = S!EmittedToday /\ S!EmittedToday' = S!EmittedToday
  BY <1>3 DEF CapsInv, Counted, S!EmittedToday
<1>6. out \in SUBSET (Tickers \ (S!EmittedToday \union S!Cooling))
  BY <1>4, <1>5
<1> HIDE DEF out
<1>7. \A t \in out : Rested(t)
  <2> TAKE t \in out
  <2>1. t \in Tickers /\ ~ (lossOn[t] > 0 /\ lossOn[t] > scanDay - Cooloff)
    BY <1>6 DEF S!Cooling
  <2>2. lossOn[t] \in Nat /\ scanDay \in Nat /\ Cooloff \in Nat
    BY <2>1, ServicesAssumption DEF ListInv, Losses
  <2> QED BY <2>1, <2>2 DEF Rested
<1>8. scan'.phase = "rank" /\ "left" \in DOMAIN scan' /\ DOMAIN scan'.left = out
  BY <1>2 DEF out
<1>9. \A t : Rested(t)' = Rested(t)
  BY <1>3 DEF Rested
<1>10. Listed'
  BY <1>5, <1>6, <1>7, <1>8, <1>9 DEF Listed
<1> QED BY <1>3, <1>10 DEF ListInv, Losses

(* The order in which a scan judges has every name once. *)
LEMMA RankLists ==
  ASSUME ListInv, CapsInv, S!Rank
  PROVE  Losses' /\ Listed'
<1>1. scan.phase = "rank" /\ UNCHANGED <<rows, scanDay, lossOn>>
  BY Zenon DEF S!Rank, S!books
<1>2. PICK order \in S!SetToSeqs(DOMAIN scan.left) :
        scan' = [phase |-> "judge", early |-> scan.early, known |-> scan.known,
                 left |-> [i \in DOMAIN order |-> [ticker |-> order[i], seen |-> scan.left[order[i]]]], emitted |-> 0,
                 open |-> S!Cardinality(S!OpenScanner), lastHour |-> S!Cardinality(S!EmittedLastHour)]
  BY Zenon DEF S!Rank
<1>3. DOMAIN scan.left \in SUBSET Tickers
  BY <1>1 DEF ListInv, Listed
<1>4. Cardinality(DOMAIN scan.left) \in Nat
  BY <1>3, ServicesAssumption, FS_Subset, FS_CardinalityType
<1> DEFINE n == Cardinality(DOMAIN scan.left)
<1>5. /\ order \in [1 .. n -> DOMAIN scan.left]
      /\ \A i, j \in 1 .. n : i # j => order[i] # order[j]
  BY ScannerCount DEF S!SetToSeqs
<1> HIDE DEF n
<1> DEFINE entries == [i \in 1 .. n |-> [ticker |-> order[i], seen |-> scan.left[order[i]]]]
           X == {entries[i] : i \in 1 .. n}
<1>6. scan'.phase = "judge" /\ scan'.left = entries
  BY <1>2, <1>5
<1>7. entries \in Seq(X)
  BY <1>4 DEF n
<1>8. S!EmittedToday' = S!EmittedToday
  BY <1>1 DEF S!EmittedToday
<1>9. \A i \in 1 .. n : entries[i].ticker = order[i] /\ order[i] \in DOMAIN scan.left
  BY <1>5
<1>10. DOMAIN entries = 1 .. n
  OBVIOUS
<1> HIDE DEF entries, X
<1>11. \A t \in DOMAIN scan.left : t \in Tickers \ S!EmittedToday /\ Rested(t)
  BY <1>1, <1>3 DEF ListInv, Listed
<1>12. Listed'
  <2>1. \E Y : scan'.left \in Seq(Y)
    BY <1>6, <1>7
  <2>2. \A i \in DOMAIN scan'.left :
            /\ scan'.left[i].ticker \in Tickers \ S!EmittedToday'
            /\ Rested(scan'.left[i].ticker)
            /\ \A j \in DOMAIN scan'.left : scan'.left[j].ticker = scan'.left[i].ticker => j = i
    BY <1>5, <1>6, <1>8, <1>9, <1>10, <1>11
  <2> QED BY <1>1, <1>6, <2>1, <2>2 DEF Listed, Rested
<1> QED BY <1>1, <1>12 DEF ListInv, Losses

(* Only the scan writes rows, and no day passes while it goes on. *)
LEMMA ListInvNext == CapsInv /\ ListInv /\ [S!Next]_(S!vars) => ListInv'
<1> SUFFICES ASSUME CapsInv, ListInv, [S!Next]_(S!vars) PROVE ListInv'
  OBVIOUS
<1> USE DEF S!memory, S!books, S!World
<1>a. UNCHANGED <<rows, sent>> => S!EmittedToday' = S!EmittedToday /\ RowsSent'
  BY DEF ListInv, RowsSent, S!EmittedToday
<1>b. UNCHANGED <<scanDay, lossOn>> => Losses'
  BY DEF ListInv, Losses
<1>c. scan' = S!Idle => Listed'
  BY DEF S!Idle, Listed
<1>1. CASE S!Begin
  <2>1. scan'.phase = "survey" /\ UNCHANGED <<rows, sent, scanDay, lossOn>>
    BY <1>1 DEF S!Begin
  <2>2. Listed'
    BY <2>1 DEF Listed
  <2> QED BY <2>1, <2>2, <1>a, <1>b DEF ListInv
<1>2. CASE S!Survey
  BY <1>2, <1>a, SurveyLists, Zenon DEF ListInv, S!Survey
<1>3. CASE S!Rank
  BY <1>3, <1>a, RankLists, Zenon DEF ListInv, S!Rank
<1>4. CASE S!Emit
  <2>1. /\ scan.phase = "judge" /\ scan.left # <<>> /\ scan' = [S!Judged EXCEPT !.emitted = @ + 1]
        /\ sent' = sent \union {S!Subject} /\ UNCHANGED <<scanDay, lossOn>>
        /\ rows' = IF S!Subject \in journaled THEN rows
                   ELSE rows \union {[ticker |-> S!Subject, time |-> time]}
    BY <1>4 DEF S!Emit, S!Chosen, S!Write
  <2>2. scan'.phase = "judge" /\ scan'.left = Tail(scan.left)
    BY <2>1 DEF S!Judged, CapsInv, ScanShape
  <2>3. S!Subject = scan.left[1].ticker
    <3>1. PICK X : scan.left \in Seq(X)
      BY <2>1 DEF ListInv, Listed
    <3> QED BY <2>1, <3>1 DEF S!Subject
  <2>4. S!EmittedToday' \subseteq S!EmittedToday \union {S!Subject}
    BY <2>1 DEF S!EmittedToday
  <2>5. Losses' /\ Listed' /\ 1 \in DOMAIN scan.left
    BY <2>1, <2>2, <2>3, <2>4, TailListed
  <2>6. S!Subject \notin S!EmittedToday
    BY <2>1, <2>3, <2>5 DEF ListInv, Listed
  <2>7. RowsSent'
    <3>1. S!EmittedToday' \subseteq sent'
      BY <2>1, <2>4 DEF ListInv, RowsSent
    <3>2. \A r \in rows : r.ticker # S!Subject
      BY <2>6 DEF S!EmittedToday
    <3>3. \A r, s \in rows' : r.ticker = s.ticker => r = s
      BY <2>1, <3>2 DEF ListInv, RowsSent
    <3> QED BY <3>1, <3>3 DEF RowsSent
  <2> QED BY <2>5, <2>7 DEF ListInv
<1>5. CASE S!Withhold
  <2>1. /\ scan.phase = "judge" /\ scan.left # <<>> /\ scan' = S!Judged
        /\ UNCHANGED <<rows, sent, scanDay, lossOn>>
    BY <1>5 DEF S!Withhold
  <2>2. scan'.phase = "judge" /\ scan'.left = Tail(scan.left)
    BY <2>1 DEF S!Judged, CapsInv, ScanShape
  <2>3. Losses' /\ Listed'
    BY <2>1, <2>2, <1>a, TailListed
  <2> QED BY <2>1, <2>3, <1>a DEF ListInv
<1>6. CASE S!Finish \/ S!Fault \/ S!Restart
  <2>1. scan' = S!Idle /\ UNCHANGED <<rows, sent, scanDay, lossOn>>
    BY <1>6, Zenon DEF S!Finish, S!Fault, S!Restart
  <2> QED BY <2>1, <1>a, <1>b, <1>c DEF ListInv
<1>7. CASE S!NewDay
  <2>1. scan' = scan /\ scan = S!Idle /\ rows' = {} /\ scanDay' = scanDay + 1 /\ UNCHANGED lossOn
    BY <1>7 DEF S!NewDay
  <2>2. RowsSent'
    BY <2>1 DEF RowsSent, S!EmittedToday
  <2>3. Losses'
    BY <2>1 DEF ListInv, Losses
  <2> QED BY <2>1, <2>2, <2>3, <1>c DEF ListInv
<1>d. UNCHANGED <<rows, sent, scan>> /\ Losses' /\ (\A t \in Tickers : Rested(t) => Rested(t)') => ListInv'
  <2> SUFFICES ASSUME UNCHANGED <<rows, sent, scan>>, Losses', \A t \in Tickers : Rested(t) => Rested(t)'
               PROVE  ListInv'
    OBVIOUS
  <2>1. Listed'
    BY <1>a DEF ListInv, Listed
  <2> QED BY <2>1, <1>a DEF ListInv
<1>8. CASE UNCHANGED <<rows, sent, scan, scanDay, lossOn>>
  <2>1. \A t : Rested(t)' = Rested(t)
    BY <1>8 DEF Rested
  <2> QED BY <1>8, <2>1, <1>b, <1>d
<1>9. CASE S!Tick \/ S!Operator \/ UNCHANGED S!vars
  BY <1>8, <1>9 DEF S!Tick, S!Operator, S!vars
<1>10. ASSUME NEW t \in Tickers, S!Settle(t) \/ S!OtherLane(t) PROVE ListInv'
  BY <1>8, <1>10 DEF S!Settle, S!OtherLane
<1>11. ASSUME NEW t \in Tickers, NEW lost \in BOOLEAN, S!Close(t, lost) PROVE ListInv'
  <2>1. /\ UNCHANGED <<rows, sent, scan, scanDay>>
        /\ lossOn' = [lossOn EXCEPT ![t] = IF lost THEN scanDay ELSE @]
    BY <1>11 DEF S!Close
  <2>2. Losses'
    <3>1. lossOn \in [Tickers -> Nat] /\ scanDay \in Nat
      BY DEF ListInv, Losses
    <3>2. lossOn' = [lossOn EXCEPT ![t] = scanDay] \/ lossOn' = lossOn
      <4>1. CASE lost
        BY <2>1, <4>1
      <4>2. CASE ~lost
        BY <2>1, <3>1, <4>2
      <4> QED BY <4>1, <4>2
    <3> QED BY <2>1, <3>1, <3>2 DEF Losses
  <2>3. \A u \in Tickers : lossOn'[u] \in {lossOn[u], scanDay}
    BY <2>1 DEF ListInv, Losses
  <2>4. \A u \in Tickers : Rested(u) => Rested(u)'
    BY <2>1, <2>3 DEF Rested
  <2> QED BY <2>1, <2>2, <2>4, <1>d
<1> QED BY <1>1, <1>2, <1>3, <1>4, <1>5, <1>6, <1>7, <1>9, <1>10, <1>11, Zenon DEF S!Next

(* C10's rows and messages are the same, name by name, over failed scans and restarts,
   but for the names whose row was lost with its transaction. *)
THEOREM ServicesOneRowPerMessage == ServicesSpec => []OneRowPerMessage
<1>1. CapsInv /\ ListInv => OneRowPerMessage
  BY DEF CapsInv, RowOrLost, ListInv, RowsSent, OneRowPerMessage, S!OneRowPerMessage
<1> QED
  BY <1>1, ScannerAlone, CapsInvInit, CapsInvNext, ListInvInit, ListInvNext, PTL DEF S!Spec

(* A name that lost is not emitted before its cool-off is over, although memory is lost
   at night and the scan looked before it judges. *)
THEOREM ServicesCooloffHolds == ServicesSpec => CooloffHolds
<1> DEFINE Cool == \A t \in sent' \ sent : lossOn[t] \in {0, scanDay} \/ scanDay - lossOn[t] >= Cooloff
<1>1. CapsInv /\ ListInv /\ [S!Next]_(S!vars) => [Cool]_(S!vars)
  <2> SUFFICES ASSUME CapsInv, ListInv, S!Next, NEW t \in sent' \ sent PROVE Rested(t)
    BY DEF Rested
  <2> USE DEF S!memory, S!books, S!World
  <2>1. S!Emit
    <3>1. S!Emit \/ sent' = sent \/ sent' = {}
      BY Zenon DEF S!Next, S!Begin, S!Survey, S!Rank, S!Withhold, S!Finish, S!Fault, S!Restart, S!Tick,
         S!NewDay, S!Operator, S!Settle, S!OtherLane, S!Close
    <3> QED BY <3>1
  <2>2. scan.phase = "judge" /\ scan.left # <<>> /\ t = S!Subject
    BY <2>1 DEF S!Emit, S!Chosen
  <2>3. PICK X : scan.left \in Seq(X)
    BY <2>2 DEF ListInv, Listed
  <2>4. 1 \in DOMAIN scan.left /\ t = scan.left[1].ticker
    BY <2>2, <2>3 DEF S!Subject
  <2> QED BY <2>2, <2>4 DEF ListInv, Listed
<1> QED
  BY <1>1, ScannerAlone, CapsInvInit, CapsInvNext, ListInvInit, ListInvNext, PTL
     DEF S!Spec, CooloffHolds, S!CooloffHolds

(***************************************************************************)
(* The sizing chain.                                                       *)
(***************************************************************************)

(* The smallest of some naturals is one of them. *)
LEMMA MinIs ==
  ASSUME NEW X \in SUBSET Nat, X # {}
  PROVE  Min(X) \in X /\ \A x \in X : Min(X) <= x
<1>1. \E n \in X : \A x \in X : n <= x
  BY LeastNatural
<1> QED BY <1>1 DEF Min

(* So many shares fit into an amount as its quotient says, and no more. *)
LEMMA QuotientFits ==
  ASSUME NEW amount \in Nat, NEW each \in Nat \ {0}
  PROVE  /\ amount \div each \in Nat
         /\ \A n \in Nat : n <= amount \div each => n * each <= amount
         /\ \A n \in Nat : n = amount \div each => (n + 1) * each > amount
<1> DEFINE d == amount \div each
           r == amount % each
<1>1. d \in Nat /\ r \in 0 .. (each - 1) /\ amount = each * d + r
  BY SMTT(30)
<1> HIDE DEF d, r
<1>2. ASSUME NEW n \in Nat, n <= d PROVE n * each <= amount
  <2> DEFINE m == d - n
  <2>1. m \in Nat /\ d = n + m
    BY <1>1, <1>2
  <2> HIDE DEF m
  <2>2. m * each \in Nat
    BY <2>1
  <2>3. each * d = n * each + m * each
    BY <2>1, <1>1
  <2> QED BY <1>1, <2>2, <2>3
<1>3. ASSUME NEW n \in Nat, n = d PROVE (n + 1) * each > amount
  <2>1. (n + 1) * each = each * d + each
    BY <1>1, <1>3
  <2> QED BY <1>1, <2>1
<1> QED BY <1>1, <1>2, <1>3 DEF d

(* What a gate gives as its reason is never the verdict of a sized entry, and a stop
   distance of nothing is refused by one. *)
LEMMA GateReasons ==
  ASSUME NEW i
  PROVE  /\ HardGate(i) # "SIZE"
         /\ i.stop <= 0 => HardGate(i) # "none"
         /\ i.trades >= MaxTrades => HardGate(i) # "none"
<1> DEFINE hit == {n \in DOMAIN Gates : Vetoes(Gates[n], i)}
<1>1. /\ DOMAIN Gates = 1 .. 10
      /\ Gates[5] = "MAX_TRADES" /\ Gates[10] = "NO_ATR"
      /\ \A n \in 1 .. 10 : Gates[n] \notin {"none", "SIZE"}
  BY DEF Gates
<1>2. hit \subseteq 1 .. 10
  BY <1>1
<1>3. i.stop <= 0 \/ i.trades >= MaxTrades => hit # {}
  <2>1. i.stop <= 0 => Vetoes("NO_ATR", i)
    BY Zenon DEF Vetoes
  <2>2. i.trades >= MaxTrades => Vetoes("MAX_TRADES", i)
    BY Zenon DEF Vetoes
  <2>3. i.stop <= 0 => 10 \in hit
    BY <1>1, <2>1
  <2>4. i.trades >= MaxTrades => 5 \in hit
    BY <1>1, <2>2
  <2> QED BY <2>3, <2>4
<1> HIDE DEF hit
<1>4. CASE hit = {}
  <2>1. HardGate(i) = "none"
    BY <1>4, Zenon DEF HardGate, hit
  <2> QED BY <1>3, <1>4, <2>1
<1>5. CASE hit # {}
  <2>0. hit \in SUBSET Nat
    BY <1>2
  <2>1. Min(hit) \in 1 .. 10
    BY <1>2, <1>5, <2>0, MinIs
  <2>2. HardGate(i) = Gates[Min(hit)]
    BY <1>5 DEF HardGate, hit
  <2> QED BY <1>1, <2>1, <2>2
<1> QED BY <1>4, <1>5

(* The same for the instance that is run on every small input. *)
LEMMA CaseGateReasons ==
  ASSUME NEW i
  PROVE  Z!HardGate(i) # "SIZE" /\ (i.stop <= 0 => Z!HardGate(i) # "none")
<1> DEFINE hit == {n \in DOMAIN Z!Gates : Z!Vetoes(Z!Gates[n], i)}
<1>1. /\ DOMAIN Z!Gates = 1 .. 10
      /\ Z!Gates[10] = "NO_ATR"
      /\ \A n \in 1 .. 10 : Z!Gates[n] \notin {"none", "SIZE"}
  BY DEF Z!Gates
<1>2. hit \subseteq 1 .. 10
  BY <1>1
<1>3. i.stop <= 0 => hit # {}
  <2> SUFFICES ASSUME i.stop <= 0 PROVE 10 \in hit
    OBVIOUS
  <2>1. Z!Vetoes("NO_ATR", i)
    BY Zenon DEF Z!Vetoes
  <2> QED BY <1>1, <2>1
<1> HIDE DEF hit
<1>4. CASE hit = {}
  <2>1. Z!HardGate(i) = "none"
    BY <1>4 DEF Z!HardGate, hit
  <2> QED BY <1>3, <1>4, <2>1
<1>5. CASE hit # {}
  <2>0. hit \in SUBSET Nat
    BY <1>2
  <2>1. Min(hit) \in 1 .. 10
    BY <1>2, <1>5, <2>0, MinIs
  <2>2. Z!HardGate(i) = Z!Gates[Min(hit)]
    BY <1>5 DEF Z!HardGate, hit, Z!Min, Min
  <2> QED BY <1>1, <2>1, <2>2
<1> QED BY <1>4, <1>5

(* What a cap leaves room for: so many shares stay within it, and one more does not. *)
LEMMA RoomFits ==
  ASSUME NEW cap \in Nat, NEW used \in Nat, NEW each \in Nat \ {0}
  PROVE  /\ Left(cap, used) \div each \in Nat
         /\ \A n \in Nat : n <= Left(cap, used) \div each /\ n > 0 => used + n * each <= cap
         /\ \A n \in Nat : n = Left(cap, used) \div each => used + (n + 1) * each > cap
<1> DEFINE spare == Left(cap, used)
<1>1. /\ spare \in Nat
      /\ used < cap => spare = cap - used
      /\ used >= cap => spare = 0
  BY DEF Left
<1> HIDE DEF spare
<1>2. /\ spare \div each \in Nat
      /\ \A n \in Nat : n <= spare \div each => n * each <= spare
      /\ \A n \in Nat : n = spare \div each => (n + 1) * each > spare
  BY <1>1, QuotientFits
<1>3. ASSUME NEW n \in Nat, n <= spare \div each, n > 0 PROVE used + n * each <= cap
  <2>1. n * each \in Nat \ {0}
    BY <1>3
  <2> QED BY <1>1, <1>2, <1>3, <2>1
<1>4. ASSUME NEW n \in Nat, n = spare \div each PROVE used + (n + 1) * each > cap
  <2>1. (n + 1) * each \in Nat \ {0}
    BY <1>4
  <2> QED BY <1>1, <1>2, <1>4, <2>1
<1> QED BY <1>2, <1>3, <1>4 DEF spare

(* What an input of the cases is made of. *)
LEMMA CaseFields ==
  ASSUME NEW i \in Cases, NEW c
  PROVE  LET j == Join(i, c) IN
         /\ j.capital = 10
         /\ j.lane \in Lanes /\ j.side \in {"LONG", "SHORT"} /\ j.horizon \in Horizons
         /\ j.price \in Nat \ {0} /\ j.stop \in Nat
         /\ j.heat["SHORT"] \in Nat /\ j.heat["LONG"] \in Nat /\ j.heat[j.horizon] \in Nat
         /\ j.deployed \in Nat /\ j.cash \in Nat /\ j.power \in Nat /\ j.liquidity \in Nat
         /\ j.shortHeat \in Nat /\ j.shortNotional \in Nat
         /\ j.sectorHeat \in Nat \cup {-1}
<1> DEFINE j == Join(i, c)
<1>1. DOMAIN i = {"capital", "lane", "side", "horizon", "price", "stop", "heat", "deployed", "cash",
                  "power", "liquidity", "sectorHeat", "shortHeat", "shortNotional"}
  BY DEF Cases
<1>2. \A f \in DOMAIN i : j[f] = i[f]
  BY Zenon DEF Join
<1>3. /\ j.capital = i.capital
      /\ j.lane = i.lane /\ j.side = i.side /\ j.horizon = i.horizon /\ j.price = i.price
      /\ j.stop = i.stop /\ j.heat = i.heat /\ j.deployed = i.deployed /\ j.cash = i.cash
      /\ j.power = i.power /\ j.liquidity = i.liquidity /\ j.sectorHeat = i.sectorHeat
      /\ j.shortHeat = i.shortHeat /\ j.shortNotional = i.shortNotional
  BY <1>1, <1>2
<1> HIDE DEF j
<1>4. /\ i.capital = 10
      /\ i.lane \in Lanes /\ i.side \in {"LONG", "SHORT"} /\ i.horizon \in Horizons
      /\ i.price \in {1, 2} /\ i.stop \in 0 .. 3
      /\ i.heat \in [Horizons -> {0, 2, 4}]
      /\ i.deployed \in {0, 9} /\ i.cash \in {2, 8} /\ i.power \in {2, 8} /\ i.liquidity \in {0, 3}
      /\ i.shortHeat \in {0, 2} /\ i.shortNotional \in {0, 3} /\ i.sectorHeat \in {-1, 2}
  BY DEF Cases
<1>5. /\ i.heat["SHORT"] \in Nat /\ i.heat["LONG"] \in Nat /\ i.heat[i.horizon] \in Nat
  BY <1>4 DEF Horizons
<1> QED BY <1>3, <1>4, <1>5 DEF j

(* What the caps of a configuration come to for an input, and every limit of the
   sizing chain for n shares of it, as MCServices!Within has them. *)
CapSet == [budget : Nat, notional : Nat, capital : Nat, heat : Nat, total : Nat,
           sector : Nat, shortHeat : Nat, gross : Nat]

Limits(i, c, n) ==
  /\ n * i.stop <= c.budget /\ n * i.price <= c.notional
  /\ n > 0 => /\ i.deployed + n * i.price <= c.capital
              /\ i.heat[i.horizon] + n * i.stop <= c.heat
              /\ i.heat["SHORT"] + i.heat["LONG"] + n * i.stop <= c.total
              /\ (i.liquidity # 0 => n <= i.liquidity)
              /\ (i.side = "LONG" => n * i.price <= i.cash)
              /\ (i.side = "SHORT" => /\ n * i.price <= i.power
                                      /\ i.shortHeat + n * i.stop <= c.shortHeat
                                      /\ i.shortNotional + n * i.price <= c.gross)
              /\ (i.lane # "scanner" /\ i.sectorHeat # -1 => i.sectorHeat + n * i.stop <= c.sector)

(* What each limit leaves room for, in shares. *)
Rooms(i, c) ==
  {c.budget \div i.stop, c.notional \div i.price, Left(c.capital, i.deployed) \div i.price,
   Left(c.heat, i.heat[i.horizon]) \div i.stop,
   Left(c.total, i.heat["SHORT"] + i.heat["LONG"]) \div i.stop}
  \cup (IF i.liquidity = 0 THEN {} ELSE {i.liquidity})
  \cup (IF i.side = "LONG" THEN {i.cash \div i.price}
        ELSE {i.power \div i.price, Left(c.shortHeat, i.shortHeat) \div i.stop,
              Left(c.gross, i.shortNotional) \div i.price})
  \cup (IF i.lane = "scanner" \/ i.sectorHeat = -1 THEN {}
        ELSE {Left(c.sector, i.sectorHeat) \div i.stop})

(* The smallest room breaks no limit, and one share more breaks the limit whose room
   it is. *)
LEMMA SmallestRoomFits ==
  ASSUME NEW i, NEW c \in CapSet, NEW q,
         i.side \in {"LONG", "SHORT"},
         i.price \in Nat \ {0}, i.stop \in Nat \ {0},
         i.heat["SHORT"] \in Nat, i.heat["LONG"] \in Nat, i.heat[i.horizon] \in Nat,
         i.deployed \in Nat, i.cash \in Nat, i.power \in Nat, i.liquidity \in Nat,
         i.shortHeat \in Nat, i.shortNotional \in Nat,
         i.sectorHeat \in Nat \cup {-1},
         q = Min(Rooms(i, c)), q > 0
  PROVE  q \in Nat /\ Limits(i, c, q) /\ ~Limits(i, c, q + 1)
<1> DEFINE budget == c.budget \div i.stop
           notional == c.notional \div i.price
           deploy == Left(c.capital, i.deployed) \div i.price
           heat == Left(c.heat, i.heat[i.horizon]) \div i.stop
           total == Left(c.total, i.heat["SHORT"] + i.heat["LONG"]) \div i.stop
           cash == i.cash \div i.price
           power == i.power \div i.price
           shorts == Left(c.shortHeat, i.shortHeat) \div i.stop
           gross == Left(c.gross, i.shortNotional) \div i.price
           sector == Left(c.sector, i.sectorHeat) \div i.stop
           X == Rooms(i, c)
<1>2. q > 0 /\ i.stop \in Nat \ {0}
  OBVIOUS
<1>3. /\ c.budget \in Nat /\ c.notional \in Nat /\ c.capital \in Nat /\ c.heat \in Nat
      /\ c.total \in Nat /\ c.sector \in Nat /\ c.shortHeat \in Nat /\ c.gross \in Nat
  BY DEF CapSet
<1>4. X = {budget, notional, deploy, heat, total}
            \cup (IF i.liquidity = 0 THEN {} ELSE {i.liquidity})
            \cup (IF i.side = "LONG" THEN {cash} ELSE {power, shorts, gross})
            \cup (IF i.lane = "scanner" \/ i.sectorHeat = -1 THEN {} ELSE {sector})
  BY Zenon DEF Rooms
<1>5. q = Min(X)
  OBVIOUS
<1>6. /\ budget \in Nat
      /\ \A n \in Nat : n <= budget => n * i.stop <= c.budget
      /\ \A n \in Nat : n = budget => (n + 1) * i.stop > c.budget
  BY <1>2, <1>3, QuotientFits
<1>7. /\ notional \in Nat
      /\ \A n \in Nat : n <= notional => n * i.price <= c.notional
      /\ \A n \in Nat : n = notional => (n + 1) * i.price > c.notional
  BY <1>3, QuotientFits
<1>8. /\ deploy \in Nat
      /\ \A n \in Nat : n <= deploy /\ n > 0 => i.deployed + n * i.price <= c.capital
      /\ \A n \in Nat : n = deploy => i.deployed + (n + 1) * i.price > c.capital
  BY <1>3, RoomFits
<1>9. /\ heat \in Nat
      /\ \A n \in Nat : n <= heat /\ n > 0 => i.heat[i.horizon] + n * i.stop <= c.heat
      /\ \A n \in Nat : n = heat => i.heat[i.horizon] + (n + 1) * i.stop > c.heat
  BY <1>2, <1>3, RoomFits
<1>10. /\ total \in Nat
       /\ \A n \in Nat : n <= total /\ n > 0 => i.heat["SHORT"] + i.heat["LONG"] + n * i.stop <= c.total
       /\ \A n \in Nat : n = total => i.heat["SHORT"] + i.heat["LONG"] + (n + 1) * i.stop > c.total
  <2>1. i.heat["SHORT"] + i.heat["LONG"] \in Nat
    OBVIOUS
  <2> QED BY <1>2, <1>3, <2>1, RoomFits
<1>11. /\ cash \in Nat
       /\ \A n \in Nat : n <= cash => n * i.price <= i.cash
       /\ \A n \in Nat : n = cash => (n + 1) * i.price > i.cash
  BY QuotientFits
<1>12. /\ power \in Nat
       /\ \A n \in Nat : n <= power => n * i.price <= i.power
       /\ \A n \in Nat : n = power => (n + 1) * i.price > i.power
  BY QuotientFits
<1>13. /\ shorts \in Nat
       /\ \A n \in Nat : n <= shorts /\ n > 0 => i.shortHeat + n * i.stop <= c.shortHeat
       /\ \A n \in Nat : n = shorts => i.shortHeat + (n + 1) * i.stop > c.shortHeat
  BY <1>2, <1>3, RoomFits
<1>14. /\ gross \in Nat
       /\ \A n \in Nat : n <= gross /\ n > 0 => i.shortNotional + n * i.price <= c.gross
       /\ \A n \in Nat : n = gross => i.shortNotional + (n + 1) * i.price > c.gross
  BY <1>3, RoomFits
<1>15. i.sectorHeat # -1 =>
         /\ sector \in Nat
         /\ \A n \in Nat : n <= sector /\ n > 0 => i.sectorHeat + n * i.stop <= c.sector
         /\ \A n \in Nat : n = sector => i.sectorHeat + (n + 1) * i.stop > c.sector
  <2> SUFFICES ASSUME i.sectorHeat \in Nat
               PROVE  /\ sector \in Nat
                      /\ \A n \in Nat : n <= sector /\ n > 0 => i.sectorHeat + n * i.stop <= c.sector
                      /\ \A n \in Nat : n = sector => i.sectorHeat + (n + 1) * i.stop > c.sector
    OBVIOUS
  <2> QED BY <1>2, <1>3, RoomFits
<1> HIDE DEF budget, notional, deploy, heat, total, cash, power, shorts, gross, sector, X
<1>16. X \in SUBSET Nat /\ X # {}
  BY <1>4, <1>6, <1>7, <1>8, <1>9, <1>10, <1>11, <1>12, <1>13, <1>14, <1>15
<1>17. q \in X /\ q \in Nat /\ \A x \in X : q <= x
  <2>1. Min(X) \in X /\ \A x \in X : Min(X) <= x
    BY <1>16, MinIs
  <2> QED BY <1>5, <1>16, <2>1
<1>18. Limits(i, c, q)
  <2>1. q * i.stop <= c.budget /\ q * i.price <= c.notional
    BY <1>4, <1>6, <1>7, <1>17
  <2>2. /\ i.deployed + q * i.price <= c.capital
        /\ i.heat[i.horizon] + q * i.stop <= c.heat
        /\ i.heat["SHORT"] + i.heat["LONG"] + q * i.stop <= c.total
    BY <1>2, <1>4, <1>8, <1>9, <1>10, <1>17
  <2>3. i.liquidity # 0 => q <= i.liquidity
    BY <1>4, <1>17
  <2>4. i.side = "LONG" => q * i.price <= i.cash
    BY <1>4, <1>11, <1>17
  <2>5. i.side = "SHORT" => /\ q * i.price <= i.power
                            /\ i.shortHeat + q * i.stop <= c.shortHeat
                            /\ i.shortNotional + q * i.price <= c.gross
    BY <1>2, <1>4, <1>12, <1>13, <1>14, <1>17
  <2>6. i.lane # "scanner" /\ i.sectorHeat # -1 => i.sectorHeat + q * i.stop <= c.sector
    BY <1>2, <1>4, <1>15, <1>17
  <2> QED BY <2>1, <2>2, <2>3, <2>4, <2>5, <2>6 DEF Limits
<1>19. ~Limits(i, c, q + 1)
  <2> SUFFICES ASSUME Limits(i, c, q + 1) PROVE FALSE
    OBVIOUS
  <2>1. q + 1 > 0
    BY <1>17
  <2>2. /\ (q + 1) * i.stop <= c.budget
        /\ (q + 1) * i.price <= c.notional
        /\ i.deployed + (q + 1) * i.price <= c.capital
        /\ i.heat[i.horizon] + (q + 1) * i.stop <= c.heat
        /\ i.heat["SHORT"] + i.heat["LONG"] + (q + 1) * i.stop <= c.total
        /\ (i.liquidity # 0 => q + 1 <= i.liquidity)
        /\ (i.side = "LONG" => (q + 1) * i.price <= i.cash)
        /\ (i.side = "SHORT" => /\ (q + 1) * i.price <= i.power
                                /\ i.shortHeat + (q + 1) * i.stop <= c.shortHeat
                                /\ i.shortNotional + (q + 1) * i.price <= c.gross)
        /\ (i.lane # "scanner" /\ i.sectorHeat # -1 => i.sectorHeat + (q + 1) * i.stop <= c.sector)
    BY <2>1, Zenon DEF Limits
  <2>3. (q + 1) * i.stop \in Nat /\ (q + 1) * i.price \in Nat
    BY <1>17
  <2>4. q \notin {budget, notional}
    BY <1>3, <1>6, <1>7, <1>17, <2>2, <2>3
  <2>5. q \notin {deploy, heat, total}
    BY <1>3, <1>8, <1>9, <1>10, <1>17, <2>2, <2>3
  <2>6. i.liquidity # 0 => q # i.liquidity
    BY <1>17, <2>2
  <2>7. i.side = "LONG" => q # cash
    BY <1>3, <1>11, <1>17, <2>2, <2>3
  <2>8. i.side = "SHORT" => q \notin {power, shorts, gross}
    BY <1>3, <1>12, <1>13, <1>14, <1>17, <2>2, <2>3
  <2>9. i.lane # "scanner" /\ i.sectorHeat # -1 => q # sector
    BY <1>3, <1>15, <1>17, <2>2, <2>3
  <2> QED BY <1>4, <1>17, <2>4, <2>5, <2>6, <2>7, <2>8, <2>9
<1> QED BY <1>17, <1>18, <1>19

(* The caps of the cases. *)
CaseCaps(i) ==
  [budget |-> CaseBudget[i.lane], notional |-> CaseNotional[i.lane], capital |-> 10,
   heat |-> CaseHeat[i.horizon], total |-> 7, sector |-> 4, shortHeat |-> 3, gross |-> 5]

(* What the chain sizes on the cases is the smallest room under their caps. *)
LEMMA CaseSized ==
  ASSUME NEW i, i.capital = 10, i.lane \in Lanes, i.horizon \in Horizons, i.stop \in Nat,
         Z!Verdict(i) = "SIZE"
  PROVE  /\ CaseCaps(i) \in CapSet
         /\ i.stop \in Nat \ {0}
         /\ Z!Quantity(i) = Min(Rooms(i, CaseCaps(i))) /\ Z!Quantity(i) > 0
<1>1. Z!HardGate(i) = "none" /\ Z!Viable(i)
  BY CaseGateReasons DEF Z!Verdict
<1>2. i.stop \in Nat \ {0} /\ Z!Quantity(i) > 0
  BY <1>1, CaseGateReasons DEF Z!Viable
<1>3. /\ CaseBudget[i.lane] \in Nat /\ CaseNotional[i.lane] \in Nat
      /\ CaseHeat[i.horizon] \in Nat
  BY DEF CaseBudget, CaseNotional, CaseHeat, Lanes, Horizons
<1>4. CaseCaps(i) \in CapSet
  BY <1>3 DEF CaseCaps, CapSet
<1> DEFINE c == CaseCaps(i)
<1>5. /\ c.budget = CaseBudget[i.lane] /\ c.notional = CaseNotional[i.lane] /\ c.capital = 10
      /\ c.heat = CaseHeat[i.horizon] /\ c.total = 7 /\ c.sector = 4 /\ c.shortHeat = 3
      /\ c.gross = 5
  BY DEF CaseCaps
<1> HIDE DEF c
<1>6. \A v : AtTen(v)[i.capital] = v
  BY DEF AtTen
<1>7. {CaseBudget[i.lane] \div i.stop} \cup Z!Clips(i) = Rooms(i, c)
  <2>1. /\ AtTen(CaseNotional)[i.capital] = CaseNotional /\ AtTen(CaseHeat)[i.capital] = CaseHeat
        /\ AtTen(7)[i.capital] = 7 /\ AtTen(4)[i.capital] = 4 /\ AtTen(3)[i.capital] = 3
        /\ AtTen(5)[i.capital] = 5
    BY <1>6
  <2> QED BY <1>5, <2>1 DEF Z!Clips, Z!Left, Left, Rooms
<1>8. AtTen(CaseBudget)[i.capital][i.lane] = CaseBudget[i.lane]
  BY <1>6
<1>9. Z!Quantity(i) = Min(Rooms(i, c))
  BY <1>7, <1>8, Zenon DEF Z!Quantity, Z!Min, Min
<1> QED BY <1>2, <1>4, <1>9 DEF c

(* "size = risk_budget / stop_distance, then clipped" (a3_risk/sizing.py): whatever
   the input, what the chain sizes breaks no limit, and one share more would. *)
THEOREM ServicesSizedToTheCaps == ServicesSpec => []SizedToTheCaps
<1>1. ServicesInit => SizedToTheCaps
  <2> SUFFICES ASSUME ServicesInit, part = "sizing", verdict = "SIZE"
               PROVE  Within(qty) /\ ~Within(qty + 1)
    BY DEF SizedToTheCaps
  <2>1. PICK i \in Cases, d \in Conditions : input = Join(i, d)
    BY Zenon DEF ServicesInit, SizingInit
  <2>2. Z!Verdict(input) = "SIZE" /\ qty = Z!Quantity(input)
    BY Zenon DEF ServicesInit, SizingInit
  <2> DEFINE c == CaseCaps(input)
  <2>3. /\ input.capital = 10
        /\ input.lane \in Lanes /\ input.side \in {"LONG", "SHORT"} /\ input.horizon \in Horizons
        /\ input.price \in Nat \ {0} /\ input.stop \in Nat
        /\ input.heat["SHORT"] \in Nat /\ input.heat["LONG"] \in Nat
        /\ input.heat[input.horizon] \in Nat
        /\ input.deployed \in Nat /\ input.cash \in Nat /\ input.power \in Nat
        /\ input.liquidity \in Nat /\ input.shortHeat \in Nat /\ input.shortNotional \in Nat
        /\ input.sectorHeat \in Nat \cup {-1}
    BY <2>1, CaseFields
  <2>4. c \in CapSet /\ input.stop \in Nat \ {0} /\ qty = Min(Rooms(input, c)) /\ qty > 0
    BY <2>2, <2>3, CaseSized
  <2>5. Limits(input, c, qty) /\ ~Limits(input, c, qty + 1)
    BY <2>3, <2>4, SmallestRoomFits
  <2>6. \A n : Limits(input, c, n) = Within(n)
    <3>1. /\ c.budget = CaseBudget[input.lane] /\ c.notional = CaseNotional[input.lane]
          /\ c.capital = 10 /\ c.heat = CaseHeat[input.horizon] /\ c.total = 7
          /\ c.sector = 4 /\ c.shortHeat = 3 /\ c.gross = 5
      BY DEF CaseCaps
    <3> HIDE DEF c
    <3> QED BY <3>1, Zenon DEF Limits, Within
  <2> QED BY <2>5, <2>6
<1>2. SizedToTheCaps /\ [ServicesNext]_servicesVars => SizedToTheCaps'
  BY DEF SizedToTheCaps, Within, ServicesNext, servicesVars, caseVars
<1> QED BY <1>1, <1>2, PTL DEF ServicesSpec

(***************************************************************************)
(* Sums over the open book.                                                *)
(***************************************************************************)

(* The keys are finitely many. *)
LEMMA KeysFinite == IsFiniteSet(Keys)
<1>1. IsFiniteSet(Signals \X Versions)
  BY FS_Product, RiskCapsAssumption
<1>2. IsFiniteSet(Planned \cup Strays)
  BY FS_Union, RiskCapsAssumption
<1>3. IsFiniteSet({1})
  BY FS_Singleton
<1>4. IsFiniteSet((Planned \cup Strays) \X {1})
  BY <1>2, <1>3, FS_Product
<1> QED BY <1>1, <1>4, FS_Union DEF Keys, Entries

(* A sum over a set of keys counts a finite set. *)
LEMMA UnitsFinite ==
  ASSUME NEW f \in [Keys -> Nat], NEW U \in SUBSET Keys
  PROVE  IsFiniteSet(Units(f, U)) /\ Sum(f, U) \in Nat
<1> DEFINE one(k) == {k} \X (1 .. f[k])
           g == [k \in U |-> one(k)]
           R == {one(k) : k \in U}
<1>1. IsFiniteSet(U)
  BY KeysFinite, FS_Subset
<1>2. g \in Surjection(U, R)
  BY DEF Surjection
<1>3. IsFiniteSet(R)
  <2> HIDE DEF g, R
  <2> QED BY <1>1, <1>2, FS_Surjection
<1>4. ASSUME NEW k \in U PROVE IsFiniteSet(one(k))
  <2>1. IsFiniteSet({k})
    BY FS_Singleton
  <2>2. IsFiniteSet(1 .. f[k])
    BY FS_Interval
  <2> QED BY <2>1, <2>2, FS_Product
<1>5. \A T \in R : IsFiniteSet(T)
  BY <1>4
<1>6. IsFiniteSet(UNION R)
  <2> HIDE DEF R
  <2> QED BY <1>3, <1>5, FS_UNION
<1>7. IsFiniteSet(Units(f, U))
  BY <1>6 DEF Units
<1> QED BY <1>7, FS_CardinalityType DEF Sum

(* Less of fewer keys is not more. *)
LEMMA SumMonotone ==
  ASSUME NEW f \in [Keys -> Nat], NEW g \in [Keys -> Nat], NEW U \in SUBSET Keys,
         NEW T \in SUBSET U, \A k \in T : g[k] <= f[k]
  PROVE  Sum(g, T) <= Sum(f, U)
<1>1. Units(g, T) \subseteq Units(f, U)
  <2> SUFFICES ASSUME NEW k \in T, NEW n \in 1 .. g[k] PROVE n \in 1 .. f[k]
    BY DEF Units
  <2>1. g[k] \in Nat /\ f[k] \in Nat /\ g[k] <= f[k]
    OBVIOUS
  <2> QED BY <2>1
<1>2. IsFiniteSet(Units(f, U))
  BY UnitsFinite
<1> QED BY <1>1, <1>2, FS_Subset DEF Sum

(* One key more adds what it has. *)
LEMMA SumAdded ==
  ASSUME NEW f \in [Keys -> Nat], NEW g \in [Keys -> Nat], NEW U \in SUBSET Keys,
         NEW x \in Keys, x \notin U, \A k \in U : g[k] = f[k]
  PROVE  Sum(g, U \cup {x}) = Sum(f, U) + g[x]
<1> DEFINE new == {x} \X (1 .. g[x])
<1>1. Units(g, U \cup {x}) = Units(f, U) \cup new
  BY DEF Units
<1>2. Units(f, U) \cap new = {}
  BY DEF Units
<1>3. IsFiniteSet(Units(f, U))
  BY UnitsFinite
<1>4. IsFiniteSet(new) /\ Cardinality(new) = g[x]
  <2>1. IsFiniteSet({x}) /\ Cardinality({x}) = 1
    BY FS_Singleton
  <2>2. g[x] \in Nat
    OBVIOUS
  <2>3. IsFiniteSet(1 .. g[x]) /\ Cardinality(1 .. g[x]) = g[x]
    BY <2>2, FS_Interval
  <2>4. IsFiniteSet(new) /\ Cardinality(new) = 1 * g[x]
    BY <2>1, <2>3, FS_Product
  <2> QED BY <2>2, <2>4
<1> HIDE DEF new
<1>5. Cardinality(Units(f, U) \cup new) = Cardinality(Units(f, U)) + Cardinality(new) - Cardinality({})
  BY <1>2, <1>3, <1>4, FS_Union
<1>6. Cardinality({}) = 0
  BY FS_EmptySet
<1>7. Sum(f, U) \in Nat /\ g[x] \in Nat
  BY UnitsFinite
<1>8. Sum(g, U \cup {x}) = Cardinality(Units(f, U) \cup new) /\ Sum(f, U) = Cardinality(Units(f, U))
  BY <1>1, Zenon DEF Sum
<1> QED BY <1>4, <1>5, <1>6, <1>7, <1>8

(* A sum over nothing is nothing. *)
LEMMA SumOfNone == ASSUME NEW f PROVE Sum(f, {}) = 0
BY FS_EmptySet DEF Sum, Units

(***************************************************************************)
(* A3 and its caps.                                                        *)
(***************************************************************************)

Statuses == {"none", "PENDING", "OPEN", "OVER", "REJECTED"}
Writers  == {"none", "A3", "C11", "C4"}

EntryRecords ==
  [status : Statuses, qty : Nat, day : Nat, risky : BOOLEAN, by : Writers, capital : Nat]

BookTypes ==
  /\ book \in [Keys -> EntryRecords]
  /\ seen \in [Keys -> SUBSET Keys] /\ shown \in SUBSET Keys
  /\ day \in Nat /\ version \in Versions /\ effective \in Capitals

(* What is in hand is about its signal, and was read of a book. *)
HandFits ==
  hand # Empty =>
    /\ {"signal", "lane", "side", "horizon", "price", "stop", "capital", "heat", "deployed", "cash",
        "power", "shortHeat", "shortNotional", "liquidity", "sectorHeat"} \subseteq DOMAIN hand
    /\ hand.signal \in Signals /\ hand.lane \in Lanes /\ hand.capital \in Capitals
    /\ hand.side = Sig[hand.signal].side /\ hand.horizon = Sig[hand.signal].horizon
    /\ hand.price = Sig[hand.signal].price /\ hand.stop = Sig[hand.signal].stop
    /\ hand.heat["SHORT"] \in Nat /\ hand.heat["LONG"] \in Nat
    /\ {hand.deployed, hand.cash, hand.power, hand.shortHeat, hand.shortNotional} \subseteq Nat
    /\ hand.liquidity = 0

(* What somebody saw is still open. *)
SeenIsOpen == shown \subseteq Open /\ \A k \in Keys : seen[k] \subseteq Open

(* The intents that hold a position or may come to. *)
Held == Open \cup InFlight

OfHorizon(T, h) == {k \in T : Stock(k).horizon = h}
ShortOf(T)      == {k \in T : Stock(k).side = "SHORT"}

(* A set of entries of certain risks and costs within the caps for entry k at a capital. *)
Fits(r, c, T, k, cap) ==
  /\ Sum(r, OfHorizon(T, Stock(k).horizon)) <= HeatCap[cap][Stock(k).horizon]
  /\ Sum(r, T) <= TotalHeatCap[cap]
  /\ Stock(k).side = "SHORT" => /\ Sum(r, ShortOf(T)) <= ShortHeatCap[cap]
                                /\ Sum(c, ShortOf(T)) <= GrossShortCap[cap]

Seen(k) == {k} \cup seen[k]

SizedFit ==
  \A k \in Held : book[k].by = "A3" =>
    book[k].capital \in Capitals /\ Fits(Risk, Cost, Seen(k), k, book[k].capital)

(* What was shown and is as it was is in what was read. *)
Covers(r, c, T, i) ==
  /\ \A h \in Horizons : Sum(r, OfHorizon(T, h)) <= i.heat[h]
  /\ Sum(r, T) <= i.heat["SHORT"] + i.heat["LONG"]
  /\ Sum(r, ShortOf(T)) <= i.shortHeat
  /\ Sum(c, ShortOf(T)) <= i.shortNotional

ReadCovers == hand # Empty => Covers(Risk, Cost, shown, hand)

HeatInv == BookTypes /\ HandFits /\ SeenIsOpen /\ SizedFit /\ ReadCovers

(* Less of fewer intents fits the caps too. *)
LEMMA FitShrinks ==
  ASSUME NEW r \in [Keys -> Nat], NEW c \in [Keys -> Nat],
         NEW r2 \in [Keys -> Nat], NEW c2 \in [Keys -> Nat],
         NEW T \in SUBSET Keys, NEW T2 \in SUBSET T,
         \A j \in T2 : r2[j] <= r[j] /\ c2[j] <= c[j],
         NEW k \in Keys, NEW cap \in Capitals, Fits(r, c, T, k, cap)
  PROVE  Fits(r2, c2, T2, k, cap)
<1>1. ASSUME NEW U \in SUBSET T, NEW U2 \in SUBSET U, U2 \subseteq T2
      PROVE  /\ Sum(r2, U2) <= Sum(r, U) /\ Sum(c2, U2) <= Sum(c, U)
             /\ Sum(r2, U2) \in Nat /\ Sum(c2, U2) \in Nat /\ Sum(r, U) \in Nat /\ Sum(c, U) \in Nat
  <2>1. U \in SUBSET Keys /\ U2 \in SUBSET Keys
    OBVIOUS
  <2>2. \A j \in U2 : r2[j] <= r[j] /\ c2[j] <= c[j]
    BY <1>1
  <2>3. Sum(r2, U2) <= Sum(r, U) /\ Sum(c2, U2) <= Sum(c, U)
    BY <2>1, <2>2, SumMonotone
  <2> QED BY <2>1, <2>3, UnitsFinite
<1> DEFINE h == Stock(k).horizon
<1>2. /\ HeatCap[cap][h] \in Nat /\ TotalHeatCap[cap] \in Nat
      /\ ShortHeatCap[cap] \in Nat /\ GrossShortCap[cap] \in Nat
  <2>1. h \in Horizons
    BY RiskCapsAssumption DEF Keys, Entries, Stock
  <2> QED BY <2>1, SizingAssumption
<1>3. /\ OfHorizon(T, h) \in SUBSET T /\ OfHorizon(T2, h) \in SUBSET OfHorizon(T, h)
      /\ OfHorizon(T2, h) \subseteq T2
      /\ ShortOf(T) \in SUBSET T /\ ShortOf(T2) \in SUBSET ShortOf(T) /\ ShortOf(T2) \subseteq T2
  BY DEF OfHorizon, ShortOf
<1> HIDE DEF h
<1>4. Sum(r, OfHorizon(T, h)) <= HeatCap[cap][h] /\ Sum(r, T) <= TotalHeatCap[cap]
  BY DEF Fits, h
<1>5. Sum(r2, OfHorizon(T2, h)) <= HeatCap[cap][h]
  BY <1>1, <1>2, <1>3, <1>4
<1>6. Sum(r2, T2) <= TotalHeatCap[cap]
  BY <1>1, <1>2, <1>4
<1>7. Stock(k).side = "SHORT" => /\ Sum(r2, ShortOf(T2)) <= ShortHeatCap[cap]
                                /\ Sum(c2, ShortOf(T2)) <= GrossShortCap[cap]
  <2> SUFFICES ASSUME Stock(k).side = "SHORT"
               PROVE  /\ Sum(r2, ShortOf(T2)) <= ShortHeatCap[cap]
                      /\ Sum(c2, ShortOf(T2)) <= GrossShortCap[cap]
    OBVIOUS
  <2>1. Sum(r, ShortOf(T)) <= ShortHeatCap[cap] /\ Sum(c, ShortOf(T)) <= GrossShortCap[cap]
    BY DEF Fits
  <2> QED BY <1>1, <1>2, <1>3, <2>1
<1> QED BY <1>5, <1>6, <1>7 DEF Fits, h

(* What was read covers less of fewer intents too. *)
LEMMA CoverShrinks ==
  ASSUME NEW r \in [Keys -> Nat], NEW c \in [Keys -> Nat],
         NEW r2 \in [Keys -> Nat], NEW c2 \in [Keys -> Nat],
         NEW T \in SUBSET Keys, NEW T2 \in SUBSET T,
         \A k \in T2 : r2[k] <= r[k] /\ c2[k] <= c[k],
         NEW i, i.heat["SHORT"] \in Nat, i.heat["LONG"] \in Nat, i.shortHeat \in Nat,
         i.shortNotional \in Nat, Covers(r, c, T, i)
  PROVE  Covers(r2, c2, T2, i)
<1>1. ASSUME NEW U \in SUBSET T, NEW U2 \in SUBSET U, U2 \subseteq T2
      PROVE  /\ Sum(r2, U2) <= Sum(r, U) /\ Sum(c2, U2) <= Sum(c, U)
             /\ Sum(r2, U2) \in Nat /\ Sum(c2, U2) \in Nat /\ Sum(r, U) \in Nat /\ Sum(c, U) \in Nat
  <2>1. U \in SUBSET Keys /\ U2 \in SUBSET Keys
    OBVIOUS
  <2>2. \A k \in U2 : r2[k] <= r[k] /\ c2[k] <= c[k]
    BY <1>1
  <2>3. Sum(r2, U2) <= Sum(r, U) /\ Sum(c2, U2) <= Sum(c, U)
    BY <2>1, <2>2, SumMonotone
  <2> QED BY <2>1, <2>3, UnitsFinite
<1>2. \A h \in Horizons : Sum(r2, OfHorizon(T2, h)) <= i.heat[h]
  <2> TAKE h \in Horizons
  <2>1. Sum(r, OfHorizon(T, h)) <= i.heat[h] /\ i.heat[h] \in Nat
    BY DEF Covers, Horizons
  <2>2. /\ OfHorizon(T, h) \in SUBSET T /\ OfHorizon(T2, h) \in SUBSET OfHorizon(T, h)
        /\ OfHorizon(T2, h) \subseteq T2
    BY DEF OfHorizon
  <2> QED BY <1>1, <2>1, <2>2
<1>3. Sum(r2, T2) <= i.heat["SHORT"] + i.heat["LONG"]
  <2>1. Sum(r, T) <= i.heat["SHORT"] + i.heat["LONG"]
    BY DEF Covers
  <2> QED BY <1>1, <2>1
<1>4. Sum(r2, ShortOf(T2)) <= i.shortHeat /\ Sum(c2, ShortOf(T2)) <= i.shortNotional
  <2>1. Sum(r, ShortOf(T)) <= i.shortHeat /\ Sum(c, ShortOf(T)) <= i.shortNotional
    BY DEF Covers
  <2>2. ShortOf(T) \in SUBSET T /\ ShortOf(T2) \in SUBSET ShortOf(T) /\ ShortOf(T2) \subseteq T2
    BY DEF ShortOf
  <2> QED BY <1>1, <2>1, <2>2
<1> QED BY <1>2, <1>3, <1>4 DEF Covers

(* What an entry is sized to fits beside what its reading covers. *)
LEMMA FitAdmits ==
  ASSUME NEW r \in [Keys -> Nat], NEW c \in [Keys -> Nat],
         NEW r2 \in [Keys -> Nat], NEW c2 \in [Keys -> Nat],
         NEW U \in SUBSET Keys, NEW x \in Keys, x \notin U,
         \A k \in U : r2[k] = r[k] /\ c2[k] = c[k],
         NEW i, i.heat["SHORT"] \in Nat, i.heat["LONG"] \in Nat, i.shortHeat \in Nat,
         i.shortNotional \in Nat, Covers(r, c, U, i), NEW cap \in Capitals,
         i.heat[Stock(x).horizon] + r2[x] <= HeatCap[cap][Stock(x).horizon],
         i.heat["SHORT"] + i.heat["LONG"] + r2[x] <= TotalHeatCap[cap],
         Stock(x).side = "SHORT" => /\ i.shortHeat + r2[x] <= ShortHeatCap[cap]
                                    /\ i.shortNotional + c2[x] <= GrossShortCap[cap]
  PROVE  Fits(r2, c2, U \cup {x}, x, cap)
<1> DEFINE T == U \cup {x}
           h == Stock(x).horizon
<1>0. r2[x] \in Nat /\ c2[x] \in Nat
  OBVIOUS
<1>1. OfHorizon(T, h) = OfHorizon(U, h) \cup {x} /\ OfHorizon(U, h) \in SUBSET U
  BY DEF OfHorizon
<1>2. /\ Stock(x).side = "SHORT" => ShortOf(T) = ShortOf(U) \cup {x}
      /\ ShortOf(U) \in SUBSET U
  BY DEF ShortOf
<1>3. ASSUME NEW R \in SUBSET U
      PROVE  /\ Sum(r2, R \cup {x}) = Sum(r, R) + r2[x] /\ Sum(c2, R \cup {x}) = Sum(c, R) + c2[x]
             /\ Sum(r, R) \in Nat /\ Sum(c, R) \in Nat
  <2>1. R \in SUBSET Keys /\ x \notin R
    OBVIOUS
  <2>2. Sum(r2, R \cup {x}) = Sum(r, R) + r2[x] /\ Sum(c2, R \cup {x}) = Sum(c, R) + c2[x]
    BY <2>1, SumAdded
  <2> QED BY <2>1, <2>2, UnitsFinite
<1>4. h \in Horizons
  BY RiskCapsAssumption DEF Keys, Entries, Stock
<1>5. /\ HeatCap[cap][h] \in Nat /\ TotalHeatCap[cap] \in Nat
      /\ ShortHeatCap[cap] \in Nat /\ GrossShortCap[cap] \in Nat
  BY <1>4, SizingAssumption
<1> HIDE DEF T
<1>6. Sum(r2, OfHorizon(T, h)) <= HeatCap[cap][h]
  <2>1. Sum(r2, OfHorizon(T, h)) = Sum(r, OfHorizon(U, h)) + r2[x]
    BY <1>1, <1>3
  <2>2. Sum(r, OfHorizon(U, h)) <= i.heat[h] /\ i.heat[h] \in Nat /\ Sum(r, OfHorizon(U, h)) \in Nat
    BY <1>1, <1>3, <1>4 DEF Covers, Horizons
  <2>3. i.heat[h] + r2[x] <= HeatCap[cap][h]
    OBVIOUS
  <2> HIDE DEF h
  <2> QED BY <1>0, <1>5, <2>1, <2>2, <2>3
<1>7. Sum(r2, T) <= TotalHeatCap[cap]
  <2>1. Sum(r2, T) = Sum(r, U) + r2[x] /\ Sum(r, U) \in Nat
    BY <1>3 DEF T
  <2>2. Sum(r, U) <= i.heat["SHORT"] + i.heat["LONG"]
    BY DEF Covers
  <2> QED BY <1>0, <1>5, <2>1, <2>2
<1>8. Stock(x).side = "SHORT" => /\ Sum(r2, ShortOf(T)) <= ShortHeatCap[cap]
                                /\ Sum(c2, ShortOf(T)) <= GrossShortCap[cap]
  <2> SUFFICES ASSUME Stock(x).side = "SHORT"
               PROVE  /\ Sum(r2, ShortOf(T)) <= ShortHeatCap[cap]
                      /\ Sum(c2, ShortOf(T)) <= GrossShortCap[cap]
    OBVIOUS
  <2>1. /\ Sum(r, ShortOf(U)) <= i.shortHeat /\ Sum(c, ShortOf(U)) <= i.shortNotional
        /\ Sum(r, ShortOf(U)) \in Nat /\ Sum(c, ShortOf(U)) \in Nat
    BY <1>2, <1>3 DEF Covers
  <2>2. Sum(r2, ShortOf(T)) = Sum(r, ShortOf(U)) + r2[x] /\ Sum(c2, ShortOf(T)) = Sum(c, ShortOf(U)) + c2[x]
    BY <1>2, <1>3
  <2>3. i.shortHeat + r2[x] <= ShortHeatCap[cap] /\ i.shortNotional + c2[x] <= GrossShortCap[cap]
    OBVIOUS
  <2> QED BY <1>0, <1>5, <2>1, <2>2, <2>3
<1> QED BY <1>6, <1>7, <1>8 DEF Fits, T

(* The caps of the configuration. *)
Caps(i) ==
  [budget |-> Budget[i.capital][i.lane], notional |-> NotionalCap[i.capital][i.lane], capital |-> i.capital,
   heat |-> HeatCap[i.capital][i.horizon], total |-> TotalHeatCap[i.capital], sector |-> SectorCap[i.capital],
   shortHeat |-> ShortHeatCap[i.capital], gross |-> GrossShortCap[i.capital]]

(* What the chain sizes is the smallest room under the caps of the configuration. *)
LEMMA ChainSized ==
  ASSUME NEW i, i.capital \in Capitals, i.lane \in Lanes, i.horizon \in Horizons, i.stop \in Nat, Verdict(i) = "SIZE"
  PROVE  /\ Caps(i) \in CapSet
         /\ i.stop \in Nat \ {0}
         /\ Quantity(i) = Min(Rooms(i, Caps(i))) /\ Quantity(i) > 0
<1>1. HardGate(i) = "none" /\ Viable(i)
  BY GateReasons DEF Verdict
<1>2. i.stop \in Nat \ {0} /\ Quantity(i) > 0
  BY <1>1, GateReasons DEF Viable
<1>3. /\ Budget[i.capital][i.lane] \in Nat /\ NotionalCap[i.capital][i.lane] \in Nat
      /\ HeatCap[i.capital][i.horizon] \in Nat /\ i.capital \in Nat
      /\ TotalHeatCap[i.capital] \in Nat /\ SectorCap[i.capital] \in Nat
      /\ ShortHeatCap[i.capital] \in Nat /\ GrossShortCap[i.capital] \in Nat
  <2>1. /\ Budget[i.capital] \in [Lanes -> Nat] /\ NotionalCap[i.capital] \in [Lanes -> Nat]
        /\ HeatCap[i.capital] \in [Horizons -> Nat] /\ i.capital \in Nat
    BY SizingAssumption
  <2>2. /\ TotalHeatCap[i.capital] \in Nat /\ SectorCap[i.capital] \in Nat
        /\ ShortHeatCap[i.capital] \in Nat /\ GrossShortCap[i.capital] \in Nat
    BY SizingAssumption
  <2> QED BY <2>1, <2>2
<1>4. Caps(i) \in CapSet
  BY <1>3 DEF Caps, CapSet
<1> DEFINE c == Caps(i)
<1>5. /\ c.budget = Budget[i.capital][i.lane] /\ c.notional = NotionalCap[i.capital][i.lane]
      /\ c.capital = i.capital /\ c.heat = HeatCap[i.capital][i.horizon]
      /\ c.total = TotalHeatCap[i.capital] /\ c.sector = SectorCap[i.capital]
      /\ c.shortHeat = ShortHeatCap[i.capital] /\ c.gross = GrossShortCap[i.capital]
  BY DEF Caps
<1> HIDE DEF c
<1>6. {Budget[i.capital][i.lane] \div i.stop} \cup Clips(i) = Rooms(i, c)
  BY <1>5 DEF Clips, Rooms
<1>7. Quantity(i) = Min(Rooms(i, c))
  BY <1>6, Zenon DEF Quantity
<1> QED BY <1>2, <1>4, <1>7 DEF c

(* The sizing chain fills the caps (size_entry: "size = risk_budget / stop_distance,
   then clipped"): for any caps, any price, stop and book, what it sizes breaks no
   limit, and one share more would break one, whichever of the limits binds. *)
THEOREM ChainFillsTheCaps ==
  ASSUME NEW i, i.capital \in Capitals, i.lane \in Lanes, i.horizon \in Horizons, i.side \in {"LONG", "SHORT"},
         i.price \in Nat \ {0}, i.stop \in Nat,
         i.heat["SHORT"] \in Nat, i.heat["LONG"] \in Nat, i.heat[i.horizon] \in Nat,
         i.deployed \in Nat, i.cash \in Nat, i.power \in Nat, i.liquidity \in Nat,
         i.shortHeat \in Nat, i.shortNotional \in Nat, i.sectorHeat \in Nat \cup {-1},
         Verdict(i) = "SIZE"
  PROVE  /\ Quantity(i) \in Nat
         /\ Limits(i, Caps(i), Quantity(i))
         /\ ~Limits(i, Caps(i), Quantity(i) + 1)
<1>1. /\ Caps(i) \in CapSet /\ i.stop \in Nat \ {0}
      /\ Quantity(i) = Min(Rooms(i, Caps(i))) /\ Quantity(i) > 0
  BY ChainSized
<1> QED BY <1>1, SmallestRoomFits

(* What holds a position, and at what risk and cost. *)
LEMMA HeldFacts ==
  ASSUME BookTypes
  PROVE  /\ Risk \in [Keys -> Nat] /\ Cost \in [Keys -> Nat]
         /\ Held \in SUBSET Keys /\ Open \in SUBSET Keys /\ InFlight \in SUBSET Keys
<1>1. \A k \in Keys : book[k].qty \in Nat /\ Stock(k).stop \in Nat /\ Stock(k).price \in Nat
  BY RiskCapsAssumption DEF BookTypes, EntryRecords, Keys, Entries, Stock
<1>2. \A k \in Keys : book[k].qty * Stock(k).stop \in Nat /\ book[k].qty * Stock(k).price \in Nat
  BY <1>1
<1>3. Risk \in [Keys -> Nat] /\ Cost \in [Keys -> Nat]
  BY <1>2 DEF Risk, Cost
<1> QED BY <1>3 DEF Held, Open, InFlight

(* As many times as much or less. *)
LEMMA TimesMonotone == ASSUME NEW a \in Nat, NEW b \in Nat, NEW m \in Nat, a <= b PROVE a * m <= b * m
<1> DEFINE d == b - a
<1>1. d \in Nat /\ b = a + d
  OBVIOUS
<1> HIDE DEF d
<1>2. b * m = a * m + d * m /\ d * m \in Nat /\ a * m \in Nat
  BY <1>1
<1> QED BY <1>2

(* The same of the next state. *)
LEMMA CostTypes == ASSUME BookTypes' PROVE Risk' \in [Keys -> Nat] /\ Cost' \in [Keys -> Nat]
<1>1. \A k \in Keys : book'[k].qty \in Nat /\ Stock(k).stop \in Nat /\ Stock(k).price \in Nat
  BY RiskCapsAssumption DEF BookTypes, EntryRecords, Keys, Entries, Stock
<1>2. \A k \in Keys : book'[k].qty * Stock(k).stop \in Nat /\ book'[k].qty * Stock(k).price \in Nat
  BY <1>1
<1> QED BY <1>2 DEF Risk, Cost

(* Fewer shares have less risk and cost less. *)
LEMMA LessCosts ==
  ASSUME BookTypes, BookTypes', NEW k \in Keys, book'[k].qty <= book[k].qty
  PROVE  Risk'[k] <= Risk[k] /\ Cost'[k] <= Cost[k]
<1>1. book'[k].qty \in Nat /\ book[k].qty \in Nat
  BY DEF BookTypes, EntryRecords
<1>2. Stock(k).stop \in Nat /\ Stock(k).price \in Nat
  BY RiskCapsAssumption DEF Keys, Entries, Stock
<1>3. /\ book'[k].qty * Stock(k).stop <= book[k].qty * Stock(k).stop
      /\ book'[k].qty * Stock(k).price <= book[k].qty * Stock(k).price
  BY <1>1, <1>2, TimesMonotone
<1> QED BY <1>3 DEF Risk, Cost

(* A step keeps the invariant when A3 sizes nothing by it and nothing that was seen grows. *)
LEMMA NothingSeenGrows ==
  ASSUME HeatInv, BookTypes', SeenIsOpen', UNCHANGED hand \/ hand' = Empty,
         shown' \in SUBSET shown, \A j \in shown' : book'[j].qty <= book[j].qty,
         \A k \in Held' : book'[k].by = "A3" =>
           /\ k \in Held /\ book[k].by = "A3" /\ book'[k].capital = book[k].capital
           /\ seen'[k] \subseteq seen[k]
           /\ \A j \in {k} \cup seen'[k] : book'[j].qty <= book[j].qty
  PROVE  HeatInv'
<1>1. BookTypes
  BY DEF HeatInv
<1>2. /\ Risk \in [Keys -> Nat] /\ Cost \in [Keys -> Nat]
      /\ Risk' \in [Keys -> Nat] /\ Cost' \in [Keys -> Nat]
  BY <1>1, HeldFacts, CostTypes
<1>3. HandFits'
  BY DEF HeatInv, HandFits
<1>4. SizedFit'
  <2> SUFFICES ASSUME NEW k \in Held', book'[k].by = "A3"
               PROVE  book'[k].capital \in Capitals /\ Fits(Risk', Cost', Seen(k)', k, book'[k].capital)
    BY DEF SizedFit
  <2>1. /\ k \in Held /\ k \in Keys /\ book[k].by = "A3" /\ book'[k].capital = book[k].capital
        /\ seen'[k] \subseteq seen[k]
        /\ \A j \in {k} \cup seen'[k] : book'[j].qty <= book[j].qty
    BY <1>1, HeldFacts
  <2>2. book[k].capital \in Capitals /\ Fits(Risk, Cost, Seen(k), k, book[k].capital)
    BY <2>1, Zenon DEF HeatInv, SizedFit
  <2>3. Seen(k) \in SUBSET Keys /\ Seen(k)' \in SUBSET Seen(k) /\ Seen(k)' = {k} \cup seen'[k]
    BY <1>1, <2>1 DEF Seen, BookTypes
  <2>4. \A j \in Seen(k)' : Risk'[j] <= Risk[j] /\ Cost'[j] <= Cost[j]
    BY <1>1, <2>1, <2>3, LessCosts
  <2> QED BY <1>2, <2>1, <2>2, <2>3, <2>4, FitShrinks
<1>5. ReadCovers'
  <2> SUFFICES ASSUME hand # Empty, UNCHANGED hand
               PROVE  Covers(Risk', Cost', shown', hand)
    BY DEF ReadCovers
  <2>1. Covers(Risk, Cost, shown, hand)
    BY DEF HeatInv, ReadCovers
  <2>2. /\ hand.heat["SHORT"] \in Nat /\ hand.heat["LONG"] \in Nat
        /\ hand.shortHeat \in Nat /\ hand.shortNotional \in Nat
    BY DEF HeatInv, HandFits
  <2>3. shown \in SUBSET Keys
    BY <1>1 DEF BookTypes
  <2>4. \A j \in shown' : Risk'[j] <= Risk[j] /\ Cost'[j] <= Cost[j]
    BY <1>1, <2>3, LessCosts
  <2> QED BY <1>2, <2>1, <2>2, <2>3, <2>4, CoverShrinks
<1> QED BY <1>3, <1>4, <1>5 DEF HeatInv

(* One entry is written and nobody is taken to have seen it, or it is written smaller. *)
LEMMA OneWritten ==
  ASSUME HeatInv, NEW k \in Keys, NEW e \in EntryRecords, book' = [book EXCEPT ![k] = e],
         UNCHANGED <<hand, version, effective, day>>,
         e.by = "A3" => /\ k \in Held /\ book[k].by = "A3"
                        /\ e.capital = book[k].capital /\ e.qty <= book[k].qty,
         \/ Forgotten(k)
         \/ UNCHANGED <<shown, seen>> /\ (k \in Open => e.status = "OPEN" /\ e.qty <= book[k].qty)
  PROVE  HeatInv'
<1>1. /\ book \in [Keys -> EntryRecords] /\ seen \in [Keys -> SUBSET Keys] /\ shown \in SUBSET Keys
      /\ BookTypes
  BY DEF HeatInv, BookTypes
<1>2. book'[k] = e /\ \A j \in Keys : j # k => book'[j] = book[j]
  BY <1>1
<1>3. /\ shown' \in SUBSET shown
      /\ \A j \in Keys : seen'[j] \in SUBSET seen[j]
      /\ seen' \in [Keys -> SUBSET Keys]
  <2>1. CASE Forgotten(k)
    BY <1>1, <2>1 DEF Forgotten
  <2>2. CASE UNCHANGED <<shown, seen>>
    BY <1>1, <2>2
  <2> QED BY <2>1, <2>2
<1>4. BookTypes'
  BY <1>1, <1>3 DEF BookTypes
<1>5. shown \subseteq Open /\ \A j \in Keys : seen[j] \subseteq Open
  BY DEF HeatInv, SeenIsOpen
<1>6. \A j \in Open : j = k \/ j \in Open'
  BY <1>2 DEF Open
<1>7. /\ k \in shown' => k \in Open' /\ e.qty <= book[k].qty
      /\ \A j \in Keys : k \in seen'[j] => k \in Open' /\ e.qty <= book[k].qty
  <2>1. CASE Forgotten(k)
    BY <1>1, <2>1 DEF Forgotten
  <2>2. CASE UNCHANGED <<shown, seen>> /\ (k \in Open => e.status = "OPEN" /\ e.qty <= book[k].qty)
    <3>1. k \in Open => k \in Open' /\ e.qty <= book[k].qty
      BY <1>2, <2>2 DEF Open
    <3> QED BY <1>5, <2>2, <3>1
  <2> QED BY <2>1, <2>2
<1>8. SeenIsOpen'
  BY <1>3, <1>5, <1>6, <1>7 DEF SeenIsOpen
<1>9. \A j \in Keys : book[j].qty \in Nat
  BY <1>1 DEF EntryRecords
<1>10. \A j \in shown' : book'[j].qty <= book[j].qty
  BY <1>1, <1>2, <1>3, <1>7, <1>9
<1>11. ASSUME NEW j \in Held', book'[j].by = "A3"
       PROVE  /\ j \in Held /\ book[j].by = "A3" /\ book'[j].capital = book[j].capital
              /\ seen'[j] \subseteq seen[j]
              /\ \A l \in {j} \cup seen'[j] : book'[l].qty <= book[l].qty
  <2>1. j \in Keys
    BY <1>4, CostTypes DEF Held, Open, InFlight
  <2>2. j \in Held /\ book[j].by = "A3" /\ book'[j].capital = book[j].capital /\ book'[j].qty <= book[j].qty
    <3>1. CASE j = k
      BY <1>2, <1>11, <3>1
    <3>2. CASE j # k
      <4>1. book'[j] = book[j]
        BY <1>2, <2>1, <3>2
      <4> QED BY <1>9, <1>11, <2>1, <4>1 DEF Held, Open, InFlight
    <3> QED BY <3>1, <3>2
  <2>3. \A l \in seen'[j] : book'[l].qty <= book[l].qty
    BY <1>1, <1>2, <1>3, <1>7, <1>9, <2>1
  <2> QED BY <1>3, <2>1, <2>2, <2>3
<1>12. UNCHANGED hand
  OBVIOUS
<1> HIDE DEF Forgotten
<1> QED BY <1>3, <1>4, <1>8, <1>10, <1>11, <1>12, NothingSeenGrows, Zenon

(* A restart, the switches, the market and midnight leave the book alone. *)
LEMMA ElseKeeps ==
  ASSUME HeatInv, UNCHANGED <<book, seen>>,
         UNCHANGED <<hand, shown>> \/ (hand' = Empty /\ shown' = {}),
         version' \in Versions, effective' \in Capitals, day' \in Nat
  PROVE  HeatInv'
<1>1. shown' \in SUBSET shown
  OBVIOUS
<1>2. BookTypes'
  BY <1>1 DEF HeatInv, BookTypes
<1>3. Open' = Open /\ Held' = Held
  BY DEF Held, Open, InFlight
<1>4. SeenIsOpen'
  BY <1>1, <1>3 DEF HeatInv, SeenIsOpen
<1>5. \A j \in Keys : book'[j].qty <= book[j].qty
  <2>1. \A j \in Keys : book[j].qty \in Nat
    BY DEF HeatInv, BookTypes, EntryRecords
  <2> QED BY <2>1
<1>6. \A j \in shown' : book'[j].qty <= book[j].qty
  BY <1>1, <1>5 DEF HeatInv, BookTypes
<1>7. ASSUME NEW k \in Held', book'[k].by = "A3"
      PROVE  /\ k \in Held /\ book[k].by = "A3" /\ book'[k].capital = book[k].capital
             /\ seen'[k] \subseteq seen[k]
             /\ \A j \in {k} \cup seen'[k] : book'[j].qty <= book[j].qty
  <2>1. k \in Keys
    BY <1>3 DEF Held, Open, InFlight
  <2>2. seen[k] \subseteq Keys
    BY <2>1 DEF HeatInv, BookTypes
  <2> QED BY <1>3, <1>5, <1>7, <2>1, <2>2
<1> QED BY <1>1, <1>2, <1>4, <1>6, <1>7, NothingSeenGrows

(* What is read for a signal. *)
LEMMA InputFields ==
  ASSUME NEW s
  PROVE  LET i == Inputs(s) IN
         /\ {"signal", "lane", "side", "horizon", "price", "stop", "capital", "heat", "deployed", "cash",
             "power", "shortHeat", "shortNotional", "liquidity", "sectorHeat"} \subseteq DOMAIN i
         /\ i.signal = s /\ i.lane = Lane(Sig[s].origin, Sig[s].side) /\ i.side = Sig[s].side
         /\ i.horizon = Sig[s].horizon /\ i.price = Sig[s].price /\ i.stop = Sig[s].stop
         /\ i.capital = effective
         /\ i.heat = Heat /\ i.deployed = Deployed /\ i.cash = effective /\ i.power = effective
         /\ i.shortHeat = Sum(Risk, Shorts) /\ i.shortNotional = Sum(Cost, Shorts)
         /\ i.liquidity = 0
BY DEF Inputs

(* The two horizons together have all of the risk. *)
LEMMA HorizonsSplit ==
  ASSUME NEW r \in [Keys -> Nat], NEW T \in SUBSET Keys
  PROVE  Sum(r, T) <= Sum(r, OfHorizon(T, "SHORT")) + Sum(r, OfHorizon(T, "LONG"))
<1> DEFINE A == OfHorizon(T, "SHORT")
           B == OfHorizon(T, "LONG")
<1>1. A \in SUBSET Keys /\ B \in SUBSET Keys
  BY DEF OfHorizon
<1>2. T = A \cup B
  <2>1. \A k \in Keys : Stock(k).horizon \in {"SHORT", "LONG"}
    BY RiskCapsAssumption DEF Keys, Entries, Stock, Horizons
  <2> QED BY <2>1 DEF OfHorizon
<1> HIDE DEF A, B
<1>3. Units(r, T) = Units(r, A) \cup Units(r, B)
  BY <1>2 DEF Units
<1>4. IsFiniteSet(Units(r, A)) /\ IsFiniteSet(Units(r, B))
  BY <1>1, UnitsFinite
<1>5. IsFiniteSet(Units(r, A) \cap Units(r, B))
  BY <1>4, FS_Subset
<1>6. /\ Cardinality(Units(r, A) \cup Units(r, B))
           = Cardinality(Units(r, A)) + Cardinality(Units(r, B)) - Cardinality(Units(r, A) \cap Units(r, B))
      /\ Cardinality(Units(r, A) \cap Units(r, B)) \in Nat
  BY <1>4, <1>5, FS_Union, FS_CardinalityType
<1>7. Cardinality(Units(r, A)) \in Nat /\ Cardinality(Units(r, B)) \in Nat
  BY <1>4, FS_CardinalityType
<1>8. Cardinality(Units(r, T)) <= Cardinality(Units(r, A)) + Cardinality(Units(r, B))
  BY <1>3, <1>6, <1>7
<1> QED BY <1>8 DEF Sum, A, B

(* A reading keeps the invariant: what it covers is what is open. *)
LEMMA ReadKeeps == ASSUME HeatInv, NEW s \in Signals, Read(s) PROVE HeatInv'
<1>1. UNCHANGED <<version, effective, book, seen, day>>
  BY Zenon DEF Read
<1>2. BookTypes
  BY DEF HeatInv
<1>3. Risk' = Risk /\ Cost' = Cost /\ Held' = Held /\ Open' = Open
  BY <1>1 DEF Risk, Cost, Held, Open, InFlight
<1>4. CASE UNCHANGED <<hand, shown>>
  <2>1. version' \in Versions /\ effective' \in Capitals /\ day' \in Nat
    BY <1>1, <1>2 DEF BookTypes
  <2> QED BY <1>1, <1>4, <2>1, ElseKeeps
<1>5. CASE hand' = Inputs(s) /\ shown' = Open
  <2>1. /\ Risk \in [Keys -> Nat] /\ Cost \in [Keys -> Nat] /\ Open \in SUBSET Keys
    BY <1>2, HeldFacts
  <2>2. BookTypes'
    BY <1>1, <1>2, <1>5, <2>1 DEF BookTypes
  <2>3. Sum(Risk, Shorts) \in Nat /\ Sum(Cost, Shorts) \in Nat /\ Deployed \in Nat
    BY <2>1, UnitsFinite DEF Shorts, Deployed
  <2>4. \A h \in Horizons : Heat[h] = Sum(Risk, OfHorizon(Open, h)) /\ Heat[h] \in Nat
    <3> TAKE h \in Horizons
    <3>1. Heat[h] = Sum(Risk, OfHorizon(Open, h))
      BY Zenon DEF Heat, OfHorizon
    <3> QED BY <2>1, <3>1, UnitsFinite DEF OfHorizon
  <2>5. Lane(Sig[s].origin, Sig[s].side) \in Lanes
    BY DEF Lane, Lanes
  <2>6. "SHORT" \in Horizons /\ "LONG" \in Horizons
    BY DEF Horizons
  <2>7. HandFits'
    <3>1. effective \in Nat /\ effective \in Capitals
      BY <1>2, SizingAssumption DEF BookTypes
    <3> HIDE DEF Heat
    <3> QED BY <1>5, <2>3, <2>4, <2>5, <2>6, <3>1, InputFields DEF HandFits
  <2>8. ShortOf(Open) = Shorts
    BY DEF ShortOf, Shorts
  <2>9. Sum(Risk, Open) <= Heat["SHORT"] + Heat["LONG"]
    BY <2>1, <2>4, <2>6, HorizonsSplit
  <2>10. Covers(Risk, Cost, Open, Inputs(s))
    BY <2>3, <2>4, <2>8, <2>9, InputFields DEF Covers
  <2>11. ReadCovers'
    BY <1>3, <1>5, <2>10 DEF ReadCovers
  <2>12. SizedFit'
    <3>1. \A k \in Held : book[k].by = "A3" =>
            book[k].capital \in Capitals /\ Fits(Risk, Cost, Seen(k), k, book[k].capital)
      BY Zenon DEF HeatInv, SizedFit
    <3>2. \A k : Seen(k)' = Seen(k)
      BY <1>1 DEF Seen
    <3> QED BY <1>1, <1>3, <3>1, <3>2, Zenon DEF SizedFit
  <2>13. SeenIsOpen'
    BY <1>1, <1>3, <1>5 DEF HeatInv, SeenIsOpen
  <2> QED BY <2>2, <2>7, <2>11, <2>12, <2>13 DEF HeatInv
<1> QED BY <1>4, <1>5, Zenon DEF Read

(* The book, entry by entry. *)
LEMMA Booked ==
  ASSUME BookTypes
  PROVE  /\ book \in [Keys -> EntryRecords] /\ day \in Nat /\ effective \in Nat /\ effective \in Capitals
         /\ version \in Versions
         /\ \A k \in Keys : book[k] \in EntryRecords /\ book[k].qty \in Nat /\ book[k].day \in Nat
<1>1. book \in [Keys -> EntryRecords] /\ day \in Nat /\ effective \in Capitals /\ version \in Versions
  BY DEF BookTypes
<1>2. effective \in Nat
  BY <1>1, SizingAssumption
<1>3. \A k \in Keys : book[k].qty \in Nat /\ book[k].day \in Nat
  BY <1>1 DEF EntryRecords
<1> QED BY <1>1, <1>2, <1>3

(* An entry that is new. *)
LEMMA EntryTyped ==
  ASSUME BookTypes, NEW st \in Statuses, NEW n \in Nat, NEW w \in Writers
  PROVE  Entry(st, n, w) \in EntryRecords /\ Entry(st, n, w).status = st /\ Entry(st, n, w).by = w
<1>1. day \in Nat /\ effective \in Nat
  BY Booked
<1> QED BY <1>1 DEF Entry, EntryRecords

(* What is left of an entry that is gone, is filled of an intent, and is a position with its
   stop at the entry. *)
Rest(k, status) == [NoBook EXCEPT !.status = status, !.day = book[k].day]
Filled(k, n)    == [[book[k] EXCEPT !.status = "OPEN"] EXCEPT !.qty = n]
Ratcheted(k)    == [book[k] EXCEPT !.risky = FALSE]

LEMMA GoneRest ==
  ASSUME BookTypes, NEW k \in Keys, NEW status \in {"OVER", "REJECTED"}, Gone(k, status)
  PROVE  /\ Rest(k, status) \in EntryRecords
         /\ Rest(k, status).status = status /\ Rest(k, status).by = "none"
         /\ Rest(k, status).day = book[k].day
         /\ book' = [book EXCEPT ![k] = Rest(k, status)]
         /\ Forgotten(k)
<1>1. book[k].day \in Nat /\ status \in Statuses
  BY Booked DEF Statuses
<1>2. NoBook \in EntryRecords
  BY DEF NoBook, EntryRecords, Statuses, Writers
<1>3. Rest(k, status) \in EntryRecords
  BY <1>1, <1>2 DEF Rest, EntryRecords
<1>4. /\ Rest(k, status).status = status /\ Rest(k, status).by = "none"
      /\ Rest(k, status).day = book[k].day
  BY DEF Rest, NoBook
<1>5. book' = [book EXCEPT ![k] = Rest(k, status)]
  BY Zenon DEF Gone, Rest
<1> QED BY <1>3, <1>4, <1>5 DEF Gone

(* An intent that comes to nothing, or a position that is gone, keeps the invariant. *)
LEMMA GoneKeeps ==
  ASSUME HeatInv, NEW k \in Keys, NEW status \in {"OVER", "REJECTED"},
         Gone(k, status), UNCHANGED <<hand, version, effective, day>>
  PROVE  HeatInv'
<1>1. /\ Rest(k, status) \in EntryRecords /\ Rest(k, status).by = "none"
      /\ book' = [book EXCEPT ![k] = Rest(k, status)]
      /\ Forgotten(k)
  BY GoneRest DEF HeatInv
<1> HIDE DEF Rest
<1> QED BY <1>1, OneWritten

LEMMA FillIs ==
  ASSUME BookTypes, NEW k \in Keys, NEW n \in 1 .. book[k].qty,
         book' = [book EXCEPT ![k].status = "OPEN", ![k].qty = n]
  PROVE  /\ Filled(k, n) \in EntryRecords /\ book' = [book EXCEPT ![k] = Filled(k, n)]
         /\ n \in Nat /\ n <= book[k].qty
         /\ Filled(k, n).by = book[k].by /\ Filled(k, n).capital = book[k].capital
         /\ Filled(k, n).qty = n /\ Filled(k, n).day = book[k].day
<1>1. book \in [Keys -> EntryRecords]
  BY Booked
<1>2. n \in Nat /\ n <= book[k].qty
  BY Booked
<1>3. Filled(k, n) \in EntryRecords
  <2>1. "OPEN" \in Statuses
    BY DEF Statuses
  <2>2. book[k] \in EntryRecords
    BY <1>1
  <2> QED BY <1>2, <2>1, <2>2 DEF Filled, EntryRecords
<1>4. /\ Filled(k, n).by = book[k].by /\ Filled(k, n).capital = book[k].capital
      /\ Filled(k, n).qty = n /\ Filled(k, n).day = book[k].day
  <2>1. book[k] \in EntryRecords
    BY <1>1
  <2> QED BY <2>1 DEF Filled, EntryRecords
<1>5. book' = [book EXCEPT ![k] = Filled(k, n)]
  BY <1>1 DEF Filled
<1> QED BY <1>2, <1>3, <1>4, <1>5

(* C4's fill, whole or in part. *)
LEMMA FillKeeps ==
  ASSUME HeatInv, NEW k \in Keys, book[k].status = "PENDING", NEW n \in 1 .. book[k].qty,
         book' = [book EXCEPT ![k].status = "OPEN", ![k].qty = n],
         UNCHANGED <<hand, version, effective, day, shown, seen>>
  PROVE  HeatInv'
<1>1. /\ Filled(k, n) \in EntryRecords /\ book' = [book EXCEPT ![k] = Filled(k, n)] /\ n <= book[k].qty
      /\ Filled(k, n).by = book[k].by /\ Filled(k, n).capital = book[k].capital
      /\ Filled(k, n).qty = n
  BY FillIs DEF HeatInv
<1>2. k \in Held /\ k \notin Open
  BY DEF Held, Open, InFlight
<1> HIDE DEF Filled
<1> QED BY <1>1, <1>2, OneWritten

LEMMA RatchetIs ==
  ASSUME BookTypes, NEW k \in Keys, Ratchet(k)
  PROVE  /\ Ratcheted(k) \in EntryRecords /\ book' = [book EXCEPT ![k] = Ratcheted(k)]
         /\ Ratcheted(k).status = "OPEN" /\ Ratcheted(k).qty = book[k].qty
         /\ Ratcheted(k).by = book[k].by /\ Ratcheted(k).capital = book[k].capital
         /\ Ratcheted(k).day = book[k].day
<1>1. book \in [Keys -> EntryRecords] /\ book[k] \in EntryRecords /\ book[k].status = "OPEN"
  BY Booked DEF Ratchet, Open
<1>2. Ratcheted(k) \in EntryRecords
  BY <1>1 DEF Ratcheted, EntryRecords
<1>3. book' = [book EXCEPT ![k] = Ratcheted(k)]
  BY <1>1 DEF Ratchet, Ratcheted
<1>4. /\ Ratcheted(k).status = "OPEN" /\ Ratcheted(k).qty = book[k].qty
      /\ Ratcheted(k).by = book[k].by /\ Ratcheted(k).capital = book[k].capital
      /\ Ratcheted(k).day = book[k].day
  BY <1>1 DEF Ratcheted, EntryRecords
<1> QED BY <1>2, <1>3, <1>4

(* The stop comes to the entry. *)
LEMMA RatchetKeeps ==
  ASSUME HeatInv, NEW k \in Keys, Ratchet(k)
  PROVE  HeatInv'
<1>1. /\ Ratcheted(k) \in EntryRecords /\ book' = [book EXCEPT ![k] = Ratcheted(k)]
      /\ Ratcheted(k).status = "OPEN" /\ Ratcheted(k).qty = book[k].qty
      /\ Ratcheted(k).by = book[k].by /\ Ratcheted(k).capital = book[k].capital
  BY RatchetIs DEF HeatInv
<1>2. UNCHANGED <<hand, version, effective, day, shown, seen>> /\ k \in Held
  BY DEF Ratchet, Held
<1>3. book[k].qty <= book[k].qty
  <2>1. book[k].qty \in Nat
    BY Booked DEF HeatInv
  <2> QED BY <2>1
<1> HIDE DEF Ratcheted
<1> QED BY <1>1, <1>2, <1>3, OneWritten

(* An entry of another. *)
LEMMA OtherKeeps ==
  ASSUME HeatInv, NEW k \in Keys, NEW e \in EntryRecords, e.by # "A3", book' = [book EXCEPT ![k] = e],
         UNCHANGED <<hand, version, effective, day>>,
         Forgotten(k) \/ (UNCHANGED <<shown, seen>> /\ k \notin Open)
  PROVE  HeatInv'
BY OneWritten

(* C11 plans, without a look at the caps. *)
LEMMA PlanIs ==
  ASSUME BookTypes, NEW k \in Keys, PlanEntry(k)
  PROVE  \E e \in EntryRecords : e.by = "C11" /\ e.status = "PENDING" /\ book' = [book EXCEPT ![k] = e]
<1> DEFINE n == ThesisBudget[effective] \div Stock(k).stop
           e == Entry("PENDING", n, "C11")
<1>1. n \in Nat
  <2>1. k[1] \in Planned
    BY DEF PlanEntry
  <2>2. Stock(k).stop \in Nat /\ Stock(k).stop > 0
    BY <2>1, RiskCapsAssumption DEF Stock
  <2>3. ThesisBudget[effective] \in Nat
    BY Booked, RiskCapsAssumption
  <2> QED BY <2>2, <2>3, QuotientFits
<1>2. book' = [book EXCEPT ![k] = e]
  BY Zenon DEF PlanEntry
<1> HIDE DEF n
<1>3. e \in EntryRecords /\ e.by = "C11" /\ e.status = "PENDING"
  <2>1. "PENDING" \in Statuses /\ "C11" \in Writers
    BY DEF Statuses, Writers
  <2> QED BY <1>1, <2>1, EntryTyped
<1> HIDE DEF e
<1> QED BY <1>2, <1>3

LEMMA PlanKeeps == ASSUME HeatInv, NEW k \in Keys, PlanEntry(k) PROVE HeatInv'
<1>1. PICK e \in EntryRecords : e.by = "C11" /\ book' = [book EXCEPT ![k] = e]
  BY PlanIs DEF HeatInv
<1>2. k \notin Open
  BY DEF PlanEntry, Open
<1>3. UNCHANGED <<hand, version, effective, day, shown, seen>>
  BY DEF PlanEntry
<1> QED BY <1>1, <1>2, <1>3, OtherKeeps

(* What reconciliation makes of a position. *)
LEMMA FoundIs ==
  ASSUME BookTypes, NEW k \in Keys, NEW n \in 1 .. MaxFound, Found(k, n)
  PROVE  \E e \in EntryRecords :
           /\ e.by = "C4" /\ book' = [book EXCEPT ![k] = e]
           /\ k \in Open => e.day = book[k].day
<1>1. n \in Nat
  BY RiskCapsAssumption
<1>2. "OPEN" \in Statuses /\ "C4" \in Writers
  BY DEF Statuses, Writers
<1>3. CASE k \in Open
  <2> DEFINE e == [book[k] EXCEPT !.qty = n, !.by = "C4"]
  <2>1. book[k] \in EntryRecords
    BY Booked
  <2>2. e \in EntryRecords /\ e.by = "C4" /\ e.day = book[k].day
    BY <1>1, <1>2, <2>1 DEF EntryRecords
  <2>3. book' = [book EXCEPT ![k] = e]
    BY <1>3, Zenon DEF Found
  <2> HIDE DEF e
  <2> QED BY <2>2, <2>3
<1>4. CASE k \notin Open
  <2> DEFINE e == Entry("OPEN", n, "C4")
  <2>1. e \in EntryRecords /\ e.by = "C4"
    BY <1>1, <1>2, EntryTyped
  <2>2. book' = [book EXCEPT ![k] = e]
    BY <1>4, Zenon DEF Found
  <2> HIDE DEF e
  <2> QED BY <1>4, <2>1, <2>2
<1> QED BY <1>3, <1>4

LEMMA FoundKeeps == ASSUME HeatInv, NEW k \in Keys, NEW n \in 1 .. MaxFound, Found(k, n) PROVE HeatInv'
<1>1. PICK e \in EntryRecords : e.by = "C4" /\ book' = [book EXCEPT ![k] = e]
  BY FoundIs DEF HeatInv
<1>2. Forgotten(k) /\ UNCHANGED <<hand, version, effective, day>>
  BY DEF Found
<1>3. e.by # "A3"
  BY <1>1
<1> HIDE DEF Forgotten
<1> QED BY <1>1, <1>2, <1>3, OtherKeeps

(* What is read of the sector's heat is no less than nothing. *)
LEMMA SectorHeatIsNatural == ASSUME BookTypes, NEW s PROVE SectorHeat(s) \in Nat
<1> DEFINE there == {k \in Open : Stock(k).sector = Sig[s].sector}
           net == Sum(Risk, there \ Shorts) - Sum(Risk, there \cap Shorts)
<1>1. Risk \in [Keys -> Nat] /\ Open \in SUBSET Keys
  BY HeldFacts
<1>2. there \ Shorts \in SUBSET Keys /\ there \cap Shorts \in SUBSET Keys
  BY <1>1
<1>3. net \in Int
  <2> HIDE DEF there
  <2>1. Sum(Risk, there \ Shorts) \in Nat /\ Sum(Risk, there \cap Shorts) \in Nat
    BY <1>1, <1>2, UnitsFinite
  <2> QED BY <2>1
<1>4. SectorHeat(s) = IF net < 0 THEN -net ELSE net
  BY Zenon DEF SectorHeat
<1> HIDE DEF net
<1> QED BY <1>3, <1>4

(* What the chain adds fits beside what was read. *)
LEMMA SizedFits ==
  ASSUME HeatInv, hand # Empty, NEW heat \in Nat \cup {-1}, NEW i,
         i = [hand EXCEPT !.sectorHeat = heat], Verdict(i) = "SIZE"
  PROVE  /\ Quantity(i) \in Nat
         /\ i.capital = hand.capital /\ hand.capital \in Capitals
         /\ hand.heat[hand.horizon] + Quantity(i) * hand.stop <= HeatCap[hand.capital][hand.horizon]
         /\ hand.heat["SHORT"] + hand.heat["LONG"] + Quantity(i) * hand.stop <= TotalHeatCap[hand.capital]
         /\ hand.side = "SHORT" =>
              /\ hand.shortHeat + Quantity(i) * hand.stop <= ShortHeatCap[hand.capital]
              /\ hand.shortNotional + Quantity(i) * hand.price <= GrossShortCap[hand.capital]
<1>1. /\ i.lane = hand.lane /\ i.side = hand.side /\ i.horizon = hand.horizon
      /\ i.price = hand.price /\ i.stop = hand.stop /\ i.heat = hand.heat
      /\ i.capital = hand.capital
      /\ i.deployed = hand.deployed /\ i.cash = hand.cash /\ i.power = hand.power
      /\ i.shortHeat = hand.shortHeat /\ i.shortNotional = hand.shortNotional
      /\ i.liquidity = hand.liquidity /\ i.sectorHeat = heat
  BY DEF HeatInv, HandFits
<1>2. /\ hand.lane \in Lanes /\ hand.side \in {"LONG", "SHORT"} /\ hand.horizon \in Horizons
      /\ hand.price \in Nat \ {0} /\ hand.stop \in Nat /\ hand.capital \in Capitals
  BY RiskCapsAssumption DEF HeatInv, HandFits
<1>3. /\ hand.heat["SHORT"] \in Nat /\ hand.heat["LONG"] \in Nat
      /\ hand.deployed \in Nat /\ hand.cash \in Nat /\ hand.power \in Nat
      /\ hand.shortHeat \in Nat /\ hand.shortNotional \in Nat /\ hand.liquidity = 0
  BY DEF HeatInv, HandFits
<1>4. hand.heat[hand.horizon] \in Nat
  BY <1>2, <1>3 DEF Horizons
<1> DEFINE c == Caps(i)
           q == Quantity(i)
<1>5. i.capital \in Capitals /\ i.lane \in Lanes /\ i.horizon \in Horizons /\ i.stop \in Nat
  BY <1>1, <1>2
<1>6. /\ c.heat = HeatCap[hand.capital][hand.horizon] /\ c.total = TotalHeatCap[hand.capital]
      /\ c.shortHeat = ShortHeatCap[hand.capital] /\ c.gross = GrossShortCap[hand.capital]
  BY <1>1 DEF Caps
<1>7. q \in Nat /\ q > 0 /\ Limits(i, c, q)
  <2>1. /\ i.side \in {"LONG", "SHORT"} /\ i.price \in Nat \ {0}
        /\ i.heat["SHORT"] \in Nat /\ i.heat["LONG"] \in Nat /\ i.heat[i.horizon] \in Nat
        /\ i.deployed \in Nat /\ i.cash \in Nat /\ i.power \in Nat /\ i.liquidity \in Nat
        /\ i.shortHeat \in Nat /\ i.shortNotional \in Nat /\ i.sectorHeat \in Nat \cup {-1}
    BY <1>1, <1>2, <1>3, <1>4
  <2>2. q > 0
    BY <1>5, ChainSized
  <2> QED BY <1>5, <2>1, <2>2, ChainFillsTheCaps
<1> HIDE DEF c, q
<1>8. /\ hand.heat[hand.horizon] + q * hand.stop <= HeatCap[hand.capital][hand.horizon]
      /\ hand.heat["SHORT"] + hand.heat["LONG"] + q * hand.stop <= TotalHeatCap[hand.capital]
      /\ hand.side = "SHORT" => /\ hand.shortHeat + q * hand.stop <= ShortHeatCap[hand.capital]
                                /\ hand.shortNotional + q * hand.price <= GrossShortCap[hand.capital]
  BY <1>1, <1>6, <1>7, Zenon DEF Limits
<1> QED BY <1>1, <1>2, <1>7, <1>8 DEF q

(* A new intent of A3. *)
Sized(q, cap) == [Entry("PENDING", q, "A3") EXCEPT !.capital = cap]

LEMMA SizedFields ==
  ASSUME BookTypes, NEW q, NEW cap
  PROVE  /\ q \in Nat /\ cap \in Nat => Sized(q, cap) \in EntryRecords
         /\ Sized(q, cap).status = "PENDING" /\ Sized(q, cap).qty = q /\ Sized(q, cap).day = day
         /\ Sized(q, cap).by = "A3" /\ Sized(q, cap).capital = cap
<1>1. q \in Nat /\ cap \in Nat => Sized(q, cap) \in EntryRecords
  <2> SUFFICES ASSUME q \in Nat, cap \in Nat PROVE Sized(q, cap) \in EntryRecords
    OBVIOUS
  <2>1. "PENDING" \in Statuses /\ "A3" \in Writers
    BY DEF Statuses, Writers
  <2>2. Entry("PENDING", q, "A3") \in EntryRecords
    BY <2>1, EntryTyped
  <2> QED BY <2>2 DEF Sized, EntryRecords
<1>2. /\ Sized(q, cap).status = "PENDING" /\ Sized(q, cap).qty = q /\ Sized(q, cap).day = day
      /\ Sized(q, cap).by = "A3" /\ Sized(q, cap).capital = cap
  BY DEF Sized, Entry
<1> QED BY <1>1, <1>2

(* With what was shown for it, it fits; for the others nothing has changed. *)
LEMMA SizedKeeps ==
  ASSUME HeatInv, hand # Empty, hand' = Empty, shown' = {}, UNCHANGED <<version, effective, day>>,
         NEW heat \in Nat \cup {-1}, NEW i, i = [hand EXCEPT !.sectorHeat = heat],
         NEW x \in Keys, x = <<hand.signal, version>>,
         Verdict(i) = "SIZE", book[x].status = "none",
         book' = [book EXCEPT ![x] = Sized(Quantity(i), i.capital)],
         seen' = [seen EXCEPT ![x] = shown]
  PROVE  HeatInv'
<1> DEFINE q == Quantity(i)
<1>1. q \in Nat /\ i.capital = hand.capital /\ hand.capital \in Capitals /\ hand.capital \in Nat
  BY SizedFits, SizingAssumption
<1>2. /\ book \in [Keys -> EntryRecords]
      /\ seen \in [Keys -> SUBSET Keys] /\ shown \in SUBSET Keys /\ day \in Nat
  BY DEF HeatInv, BookTypes
<1> HIDE DEF q
<1>3. book' = [book EXCEPT ![x] = Sized(q, hand.capital)]
  BY <1>1 DEF q
<1> HIDE DEF Sized
<1>4. BookTypes'
  <2>1. BookTypes
    BY DEF HeatInv
  <2>2. Sized(q, hand.capital) \in EntryRecords
    BY <1>1, <2>1, SizedFields
  <2>3. book' \in [Keys -> EntryRecords]
    BY <1>2, <1>3, <2>2
  <2>4. seen' \in [Keys -> SUBSET Keys]
    BY <1>2
  <2> QED BY <2>3, <2>4 DEF HeatInv, BookTypes
<1>5. /\ book'[x].qty = q /\ book'[x].status = "PENDING" /\ book'[x].capital = hand.capital
      /\ \A j \in Keys : j # x => book'[j] = book[j] /\ seen'[j] = seen[j]
      /\ seen'[x] = shown
  <2>1. /\ Sized(q, hand.capital).qty = q /\ Sized(q, hand.capital).status = "PENDING"
        /\ Sized(q, hand.capital).capital = hand.capital
    BY SizedFields DEF HeatInv
  <2> QED BY <1>2, <1>3, <2>1
<1>6. Risk \in [Keys -> Nat] /\ Cost \in [Keys -> Nat] /\ Held \in SUBSET Keys /\ Open \in SUBSET Keys
  <2>1. BookTypes
    BY DEF HeatInv
  <2> QED BY <2>1, HeldFacts
<1>7. Risk' \in [Keys -> Nat] /\ Cost' \in [Keys -> Nat]
  BY <1>4, CostTypes
<1>8. /\ Held' = Held \cup {x} /\ x \notin Held
      /\ Open' = Open /\ x \notin Open
  BY <1>5 DEF Held, Open, InFlight
<1>9. \A j \in Keys : j # x => Risk'[j] = Risk[j] /\ Cost'[j] = Cost[j]
  BY <1>5 DEF Risk, Cost
<1>10. /\ Stock(x).horizon = hand.horizon /\ Stock(x).side = hand.side
       /\ Stock(x).stop = hand.stop /\ Stock(x).price = hand.price
  BY DEF Stock, HeatInv, HandFits
<1>11. Risk'[x] = q * hand.stop /\ Cost'[x] = q * hand.price
  BY <1>5, <1>10 DEF Risk, Cost
<1>12. shown \subseteq Open /\ \A k \in Keys : seen[k] \subseteq Open
  BY DEF HeatInv, SeenIsOpen
<1>13. SeenIsOpen'
  BY <1>5, <1>8, <1>12 DEF SeenIsOpen
<1>14. ASSUME NEW k \in Held', k # x, book'[k].by = "A3"
       PROVE  book'[k].capital \in Capitals /\ Fits(Risk', Cost', Seen(k)', k, book'[k].capital)
  <2>1. k \in Keys /\ k \in Held /\ book'[k] = book[k]
    BY <1>5, <1>6, <1>8, <1>14
  <2>2. book[k].capital \in Capitals /\ Fits(Risk, Cost, Seen(k), k, book[k].capital)
    BY <1>14, <2>1 DEF HeatInv, SizedFit
  <2>3. Seen(k)' = Seen(k) /\ Seen(k) \in SUBSET Keys /\ x \notin Seen(k)
    <3>1. seen'[k] = seen[k] /\ seen[k] \in SUBSET Keys
      BY <1>2, <1>5, <1>14, <2>1
    <3>2. x \notin seen[k]
      BY <1>8, <1>12, <2>1
    <3> QED BY <1>14, <2>1, <3>1, <3>2 DEF Seen
  <2>4. \A j \in Seen(k) : Risk'[j] <= Risk[j] /\ Cost'[j] <= Cost[j]
    BY <1>6, <1>9, <2>3
  <2>5. Fits(Risk', Cost', Seen(k), k, book[k].capital)
    BY <1>6, <1>7, <2>1, <2>2, <2>3, <2>4, FitShrinks
  <2> QED BY <2>1, <2>2, <2>3, <2>5
<1>15. Fits(Risk', Cost', Seen(x)', x, hand.capital)
  <2>1. /\ hand.heat["SHORT"] \in Nat /\ hand.heat["LONG"] \in Nat
        /\ hand.shortHeat \in Nat /\ hand.shortNotional \in Nat
    BY DEF HeatInv, HandFits
  <2>2. x \notin shown /\ \A j \in shown : Risk'[j] = Risk[j] /\ Cost'[j] = Cost[j]
    BY <1>2, <1>8, <1>9, <1>12
  <2>3. Covers(Risk, Cost, shown, hand)
    BY DEF HeatInv, ReadCovers
  <2>4. /\ hand.heat[hand.horizon] + q * hand.stop <= HeatCap[hand.capital][hand.horizon]
        /\ hand.heat["SHORT"] + hand.heat["LONG"] + q * hand.stop <= TotalHeatCap[hand.capital]
        /\ hand.side = "SHORT" => /\ hand.shortHeat + q * hand.stop <= ShortHeatCap[hand.capital]
                                  /\ hand.shortNotional + q * hand.price <= GrossShortCap[hand.capital]
    BY SizedFits DEF q
  <2>5. /\ hand.heat[Stock(x).horizon] + Risk'[x] <= HeatCap[hand.capital][Stock(x).horizon]
        /\ hand.heat["SHORT"] + hand.heat["LONG"] + Risk'[x] <= TotalHeatCap[hand.capital]
        /\ Stock(x).side = "SHORT" => /\ hand.shortHeat + Risk'[x] <= ShortHeatCap[hand.capital]
                                      /\ hand.shortNotional + Cost'[x] <= GrossShortCap[hand.capital]
    BY <1>10, <1>11, <2>4
  <2>6. Fits(Risk', Cost', shown \cup {x}, x, hand.capital)
    BY <1>1, <1>2, <1>6, <1>7, <2>1, <2>2, <2>3, <2>5, FitAdmits
  <2>7. Seen(x)' = shown \cup {x}
    BY <1>5 DEF Seen
  <2> QED BY <2>6, <2>7
<1>16. SizedFit'
  BY <1>1, <1>5, <1>14, <1>15 DEF SizedFit
<1>17. HandFits' /\ ReadCovers'
  BY DEF HandFits, ReadCovers
<1> QED BY <1>4, <1>13, <1>16, <1>17 DEF HeatInv

(* What the decision writes. *)
LEMMA DecideIs ==
  ASSUME HeatInv, Decide
  PROVE  \/ UNCHANGED <<book, seen>>
         \/ \E heat \in Nat \cup {-1} :
              LET i == [hand EXCEPT !.sectorHeat = heat]
                  k == <<hand.signal, version>>
              IN  /\ Verdict(i) = "SIZE" /\ book[k].status = "none"
                  /\ book' = [book EXCEPT ![k] = Sized(Quantity(i), i.capital)]
                  /\ seen' = [seen EXCEPT ![k] = shown]
<1>1. PICK heat \in {-1, SectorHeat(hand.signal)} :
        LET i == [hand EXCEPT !.sectorHeat = heat]
            k == <<hand.signal, version>>
        IN  IF /\ Verdict(i) = "SIZE" /\ book[k].status = "none"
               /\ (i.side = "LONG" \/ ShortMode = "live")
            THEN /\ book' = [book EXCEPT ![k] = [Entry("PENDING", Quantity(i), "A3") EXCEPT !.capital = i.capital]]
                 /\ seen' = [seen EXCEPT ![k] = shown]
            ELSE UNCHANGED <<book, seen>>
  BY Zenon DEF Decide
<1>2. heat \in Nat \cup {-1}
  <2>1. SectorHeat(hand.signal) \in Nat
    BY SectorHeatIsNatural DEF HeatInv
  <2> QED BY <2>1
<1>3. \A n, cap : [Entry("PENDING", n, "A3") EXCEPT !.capital = cap] = Sized(n, cap)
  BY Zenon DEF Sized
<1> QED BY <1>1, <1>2, <1>3, Zenon

(* The decision, with or without an intent. *)
LEMMA DecideKeeps == ASSUME HeatInv, Decide PROVE HeatInv'
<1>1. /\ hand # Empty /\ hand' = Empty /\ shown' = {}
      /\ UNCHANGED <<version, effective, day>>
  BY DEF Decide
<1>2. version \in Versions /\ effective \in Capitals /\ day \in Nat
  BY DEF HeatInv, BookTypes
<1>3. CASE UNCHANGED <<book, seen>>
  BY <1>1, <1>2, <1>3, ElseKeeps
<1>4. ASSUME NEW heat \in Nat \cup {-1}, NEW i, i = [hand EXCEPT !.sectorHeat = heat],
             NEW k, k = <<hand.signal, version>>, Verdict(i) = "SIZE", book[k].status = "none",
             book' = [book EXCEPT ![k] = Sized(Quantity(i), i.capital)],
             seen' = [seen EXCEPT ![k] = shown]
      PROVE  HeatInv'
  <2>1. k \in Keys
    BY <1>1, <1>2, <1>4 DEF HeatInv, HandFits, Keys, Entries
  <2> QED BY <1>1, <1>4, <2>1, SizedKeeps
<1> QED BY <1>3, <1>4, DecideIs, Zenon

(* Nothing is held at the start, and nothing read. *)
LEMMA HeatInvInit == Init => HeatInv
<1> SUFFICES ASSUME Init PROVE HeatInv
  OBVIOUS
<1>1. BookTypes
  BY RiskCapsAssumption DEF Init, BookTypes, NoBook, Statuses, Writers, EntryRecords
<1>2. Held = {}
  BY DEF Init, Held, Open, InFlight, NoBook
<1>3. SeenIsOpen
  BY DEF Init, SeenIsOpen
<1> QED BY <1>1, <1>2, <1>3 DEF Init, HeatInv, HandFits, ReadCovers, SizedFit

(* Every step of A3, C11, C4, the market and the night keeps the invariant. *)
LEMMA HeatInvNext == HeatInv /\ [Next]_vars => HeatInv'
<1> SUFFICES ASSUME HeatInv, [Next]_vars PROVE HeatInv'
  OBVIOUS
<1>0. day \in Nat /\ version \in Versions /\ effective \in Capitals
  BY DEF HeatInv, BookTypes
<1>1. ASSUME NEW s \in Signals, Read(s) PROVE HeatInv'
  BY <1>1, ReadKeeps
<1>2. CASE Decide
  BY <1>2, DecideKeeps
<1>3. CASE Restart
  BY <1>0, <1>3, ElseKeeps DEF Restart
<1>4. ASSUME NEW k \in Keys, Settle(k) PROVE HeatInv'
  <2>1. ASSUME NEW n \in 1 .. book[k].qty, book' = [book EXCEPT ![k].status = "OPEN", ![k].qty = n],
               UNCHANGED <<shown, seen>>
        PROVE  HeatInv'
    BY <1>4, <2>1, FillKeeps DEF Settle
  <2>2. CASE Gone(k, "OVER")
    BY <1>4, <2>2, GoneKeeps DEF Settle
  <2>3. CASE Gone(k, "REJECTED")
    BY <1>4, <2>3, GoneKeeps DEF Settle
  <2> QED BY <1>4, <2>1, <2>2, <2>3, Zenon DEF Settle
<1>5. ASSUME NEW k \in Keys, Ratchet(k) PROVE HeatInv'
  BY <1>5, RatchetKeeps
<1>6. ASSUME NEW k \in Keys, Close(k) PROVE HeatInv'
  BY <1>6, GoneKeeps DEF Close
<1>7. CASE Block
  BY <1>0, <1>7, ElseKeeps DEF Block
<1>8. CASE NewDay
  BY <1>0, <1>8, ElseKeeps DEF NewDay
<1>9. CASE UNCHANGED vars
  BY <1>0, <1>9, ElseKeeps DEF vars
<1>10. ASSUME NEW k \in Keys, PlanEntry(k) PROVE HeatInv'
  BY <1>10, PlanKeeps
<1>11. ASSUME NEW k \in Keys, NEW n \in 1 .. MaxFound, Found(k, n) PROVE HeatInv'
  BY <1>11, FoundKeeps
<1>12. CASE Revalue
  BY <1>0, <1>12, ElseKeeps DEF Revalue
<1> QED BY <1>1, <1>2, <1>3, <1>4, <1>5, <1>6, <1>7, <1>8, <1>9, <1>10, <1>11, <1>12, Zenon DEF Next

(* A3 is a part of the services. *)
LEMMA RiskAlone == ServicesSpec => Spec
<1>1. ServicesInit => Init
  BY DEF ServicesInit
<1>2. [ServicesNext]_servicesVars => [Next]_vars
  BY DEF ServicesNext, servicesVars
<1> QED BY <1>1, <1>2, PTL DEF ServicesSpec, Spec

(* A3's caps: whatever C4 fills, sells and finds, C11 plans and the capital comes to, an
   open entry of A3's and what is still open of the book that it was sized against are
   within the caps of that sizing, so that only what it did not see can exceed them. *)
THEOREM ServicesHeatExceededOnlyByUnseen == ServicesSpec => []HeatExceededOnlyByUnseen
<1>1. HeatInv => HeatExceededOnlyByUnseen
  <2> SUFFICES ASSUME HeatInv, NEW k \in Open, book[k].by = "A3" PROVE FitsCaps({k} \cup seen[k], k)
    BY DEF HeatExceededOnlyByUnseen
  <2>1. k \in Held
    BY DEF Held
  <2>2. Fits(Risk, Cost, Seen(k), k, book[k].capital)
    BY <2>1, Zenon DEF HeatInv, SizedFit
  <2> QED BY <2>2, Zenon DEF Fits, Seen, OfHorizon, ShortOf, FitsCaps
<1> QED BY <1>1, HeatInvInit, HeatInvNext, RiskAlone, PTL DEF Spec

(***************************************************************************)
(* C4 and the capital.                                                     *)
(***************************************************************************)

(* What is not written costs what it did. *)
LEMMA SameCost == ASSUME NEW j \in Keys, book'[j] = book[j] PROVE Cost'[j] = Cost[j]
BY DEF Cost

(* What passes the preflight can be paid. *)
LEMMA FillDeploys ==
  ASSUME BookTypes, BookTypes', NEW k \in Keys, book[k].status = "PENDING", Preflight(k),
         NEW n \in 1 .. book[k].qty,
         book' = [book EXCEPT ![k].status = "OPEN", ![k].qty = n]
  PROVE  Deployed' <= effective
<1>1. Cost \in [Keys -> Nat] /\ Open \in SUBSET Keys
  BY HeldFacts
<1>2. Cost' \in [Keys -> Nat]
  BY CostTypes
<1>3. /\ book'[k].qty = n /\ book'[k].status = "OPEN" /\ n \in Nat /\ book[k].qty \in Nat
      /\ n <= book[k].qty
      /\ \A j \in Keys : j # k => book'[j] = book[j]
  BY DEF BookTypes, EntryRecords
<1>4. Open' = Open \cup {k} /\ k \notin Open
  BY <1>3 DEF Open
<1>5. \A j \in Open : Cost'[j] = Cost[j]
  <2>1. \A j \in Keys : j # k => Cost'[j] = Cost[j]
    BY <1>3, SameCost
  <2> QED BY <1>1, <1>4, <2>1
<1>6. Cost'[k] <= Cost[k]
  BY <1>3, LessCosts
<1>7. Sum(Cost', Open \cup {k}) = Sum(Cost, Open) + Cost'[k]
  BY <1>1, <1>2, <1>4, <1>5, SumAdded
<1>8. Sum(Cost, Open) + Cost[k] <= effective
  BY DEF Preflight, Deployed
<1>9. Sum(Cost, Open) \in Nat /\ Cost[k] \in Nat /\ Cost'[k] \in Nat /\ effective \in Nat
  BY <1>1, <1>2, UnitsFinite, Booked
<1>10. Sum(Cost', Open') <= effective
  BY <1>4, <1>6, <1>7, <1>8, <1>9
<1> QED BY <1>10 DEF Deployed

(* A write other than C4's fill opens nothing that was in flight. *)
LEMMA NotFilled ==
  ASSUME BookTypes, NEW k, NEW e, book' = [book EXCEPT ![k] = e],
         e.status # "OPEN" \/ book[k].status # "PENDING", NEW j \in Keys, book[j].status = "PENDING"
  PROVE  book'[j].status # "OPEN"
<1>1. book \in [Keys -> EntryRecords]
  BY Booked
<1>2. CASE j = k
  BY <1>1, <1>2
<1>3. CASE j # k
  BY <1>1, <1>3
<1> QED BY <1>2, <1>3

(* C4's preflight is made on the whole book, whoever wrote its entries: what it fills
   takes what is deployed no further than the effective capital of that moment, whatever
   was in flight at A3, was planned by C11, or is bought in part. *)
THEOREM ServicesDeployedWithinCapital == ServicesSpec => DeployedWithinCapital
<1> DEFINE Fills == \E k \in Keys : book[k].status = "PENDING" /\ book'[k].status = "OPEN"
<1>1. HeatInv /\ HeatInv' /\ [Next]_vars => [Fills => Deployed' <= effective]_vars
  <2> SUFFICES ASSUME HeatInv, BookTypes, BookTypes', [Next]_vars,
                      NEW j \in Keys, book[j].status = "PENDING", book'[j].status = "OPEN"
               PROVE  Deployed' <= effective
    BY DEF HeatInv
  <2>1. ~UNCHANGED book
    OBVIOUS
  <2>2. ASSUME NEW k, NEW e, book' = [book EXCEPT ![k] = e],
               e.status # "OPEN" \/ book[k].status # "PENDING"
        PROVE  FALSE
    BY <2>2, NotFilled
  <2>3. ASSUME NEW k \in Keys, NEW status \in {"OVER", "REJECTED"}, Gone(k, status) PROVE FALSE
    <3>1. book' = [book EXCEPT ![k] = Rest(k, status)] /\ Rest(k, status).status = status
      BY <2>3, GoneRest
    <3>2. Rest(k, status).status # "OPEN"
      BY <3>1
    <3> HIDE DEF Rest
    <3> QED BY <2>2, <3>1, <3>2
  <2>4. ASSUME NEW k \in Keys, Settle(k) PROVE Deployed' <= effective
    <3>1. CASE Gone(k, "OVER") \/ Gone(k, "REJECTED")
      BY <2>3, <3>1
    <3>2. CASE /\ Preflight(k)
               /\ \E n \in 1 .. book[k].qty : book' = [book EXCEPT ![k].status = "OPEN", ![k].qty = n]
      BY <2>4, <3>2, FillDeploys DEF Settle
    <3> QED BY <2>4, <3>1, <3>2, Zenon DEF Settle
  <2>5. ~Decide
    <3> SUFFICES ASSUME Decide PROVE FALSE
      OBVIOUS
    <3>1. \E k, n, cap : book' = [book EXCEPT ![k] = Sized(n, cap)]
      <4>1. PICK heat \in Nat \cup {-1} :
              book' = [book EXCEPT ![<<hand.signal, version>>]
                         = Sized(Quantity([hand EXCEPT !.sectorHeat = heat]), [hand EXCEPT !.sectorHeat = heat].capital)]
        BY <2>1, DecideIs
      <4> QED BY <4>1, Zenon
    <3>2. \A n, cap : Sized(n, cap).status # "OPEN"
      BY SizedFields DEF HeatInv
    <3> HIDE DEF Sized
    <3> QED BY <2>2, <3>1, <3>2
  <2>6. ASSUME NEW k \in Keys, PlanEntry(k) PROVE FALSE
    <3>1. PICK e \in EntryRecords : e.status = "PENDING" /\ book' = [book EXCEPT ![k] = e]
      BY <2>6, PlanIs
    <3>2. e.status # "OPEN"
      BY <3>1
    <3> QED BY <2>2, <3>1, <3>2
  <2>7. ASSUME NEW k \in Keys, NEW n \in 1 .. MaxFound, Found(k, n) PROVE FALSE
    <3>1. PICK e \in EntryRecords : book' = [book EXCEPT ![k] = e]
      BY <2>7, FoundIs
    <3>2. book[k].status # "PENDING"
      BY <2>7 DEF Found, Open
    <3> QED BY <2>2, <3>1, <3>2
  <2>8. ASSUME NEW k \in Keys, Ratchet(k) PROVE FALSE
    <3>1. book' = [book EXCEPT ![k] = Ratcheted(k)] /\ book[k].status # "PENDING"
      BY <2>8, RatchetIs DEF Ratchet, Open
    <3> HIDE DEF Ratcheted
    <3> QED BY <2>2, <3>1
  <2>9. ASSUME NEW k \in Keys, Close(k) PROVE FALSE
    BY <2>3, <2>9 DEF Close
  <2>10. (\A s \in Signals : ~Read(s)) /\ ~Restart /\ ~Revalue /\ ~Block /\ ~NewDay /\ ~UNCHANGED vars
    BY <2>1, Zenon DEF Read, Restart, Revalue, Block, NewDay, vars
  <2> QED BY <2>4, <2>5, <2>6, <2>7, <2>8, <2>9, <2>10, Zenon DEF Next
<1> QED BY <1>1, HeatInvInit, HeatInvNext, RiskAlone, PTL DEF Spec, DeployedWithinCapital

(***************************************************************************)
(* A3 and the number of entries of a day.                                  *)
(***************************************************************************)

(* A3's entries of a day, those in flight included. *)
Counts(entry)   == entry.status \notin {"none", "REJECTED"}
EntriesOf(b, d) == {k \in Entries : Counts(b[k]) /\ b[k].day = d}

TradesInv ==
  /\ \A d \in Nat : Cardinality(EntriesOf(book, d)) <= MaxTrades
  /\ \A d \in Nat : d > day => EntriesOf(book, d) = {}
  /\ hand # Empty => Cardinality(EntriesOf(book, day)) < MaxTrades

(* A3's entries are A3's alone. *)
LEMMA EntriesApart ==
  Entries \in SUBSET Keys /\ Entries \cap ((Planned \cup Strays) \X {1}) = {}
BY RiskCapsAssumption DEF Keys, Entries

(* Their number is a natural. *)
LEMMA EntriesFinite ==
  ASSUME NEW b, NEW d PROVE IsFiniteSet(EntriesOf(b, d)) /\ Cardinality(EntriesOf(b, d)) \in Nat
<1>1. EntriesOf(b, d) \in SUBSET Keys
  BY EntriesApart DEF EntriesOf
<1> QED BY <1>1, KeysFinite, FS_Subset, FS_CardinalityType

(* A step that counts nothing new keeps the number. *)
LEMMA CountShrinks ==
  ASSUME BookTypes, TradesInv, UNCHANGED hand \/ hand' = Empty, UNCHANGED day,
         \A k \in Entries : Counts(book'[k]) => Counts(book[k]) /\ book'[k].day = book[k].day
  PROVE  TradesInv'
<1>1. \A d : EntriesOf(book', d) \in SUBSET EntriesOf(book, d)
  BY DEF EntriesOf
<1>2. \A d : /\ Cardinality(EntriesOf(book', d)) <= Cardinality(EntriesOf(book, d))
             /\ Cardinality(EntriesOf(book', d)) \in Nat /\ Cardinality(EntriesOf(book, d)) \in Nat
  BY <1>1, EntriesFinite, FS_Subset
<1>3. MaxTrades \in Nat /\ day \in Nat
  BY SizingAssumption DEF BookTypes
<1>4. \A d \in Nat : Cardinality(EntriesOf(book', d)) <= MaxTrades
  BY <1>2, <1>3 DEF TradesInv
<1>5. \A d \in Nat : d > day => EntriesOf(book', d) = {}
  BY <1>1 DEF TradesInv
<1>6. hand # Empty => Cardinality(EntriesOf(book', day)) < MaxTrades
  BY <1>2, <1>3 DEF TradesInv
<1> QED BY <1>4, <1>5, <1>6, Zenon DEF TradesInv

(* One entry that counted already, or is not A3's, is written. *)
LEMMA CountStays ==
  ASSUME BookTypes, TradesInv, UNCHANGED hand \/ hand' = Empty, UNCHANGED day,
         NEW k, NEW e, book' = [book EXCEPT ![k] = e],
         k \in Entries => Counts(book[k]) /\ e.day = book[k].day
  PROVE  TradesInv'
<1>1. book \in [Keys -> EntryRecords] /\ Entries \in SUBSET Keys
  BY Booked, EntriesApart
<1>2. \A j \in Entries : book'[j] = IF j = k THEN e ELSE book[j]
  BY <1>1
<1>3. \A j \in Entries : Counts(book'[j]) => Counts(book[j]) /\ book'[j].day = book[j].day
  <2> TAKE j \in Entries
  <2>1. CASE j = k
    BY <1>2, <2>1, Zenon
  <2>2. CASE j # k
    <3>1. book'[j] = book[j]
      BY <1>2, <2>2
    <3> QED BY <3>1, Zenon
  <2> QED BY <2>1, <2>2
<1> QED BY <1>3, CountShrinks

(* What A3 reads as the number of the day's entries is no less than its own. *)
LEMMA GateCounts ==
  ASSUME BookTypes, NEW s, HardGate(Inputs(s)) = "none"
  PROVE  Cardinality(EntriesOf(book, day)) < MaxTrades
<1> DEFINE all == {k \in Keys : Counts(book[k]) /\ book[k].day = day}
<1>1. Inputs(s).trades = TradesToday
  BY DEF Inputs
<1>2. TradesToday = Cardinality(all)
  BY Zenon DEF TradesToday, Counts
<1>3. ~(Inputs(s).trades >= MaxTrades)
  BY GateReasons
<1>4. EntriesOf(book, day) \subseteq all
  BY EntriesApart DEF EntriesOf
<1>5. IsFiniteSet(all)
  BY KeysFinite, FS_Subset
<1> HIDE DEF all
<1>6. Cardinality(EntriesOf(book, day)) <= Cardinality(all) /\ Cardinality(all) \in Nat
  BY <1>4, <1>5, FS_Subset, FS_CardinalityType
<1> QED BY <1>1, <1>2, <1>3, <1>6, EntriesFinite, SizingAssumption

(* A new intent is counted on its day. *)
LEMMA CountGrows ==
  ASSUME BookTypes, TradesInv, hand # Empty, hand' = Empty, UNCHANGED day, NEW k \in Keys,
         book'[k].day = day, \A j \in Keys : j # k => book'[j] = book[j]
  PROVE  TradesInv'
<1>0. Entries \in SUBSET Keys
  BY EntriesApart
<1>1. EntriesOf(book', day) \in SUBSET (EntriesOf(book, day) \cup {k})
  BY <1>0 DEF EntriesOf
<1>2. \A d : d # day => EntriesOf(book', d) \in SUBSET EntriesOf(book, d)
  BY <1>0 DEF EntriesOf
<1>3. MaxTrades \in Nat /\ day \in Nat
  BY SizingAssumption DEF BookTypes
<1>4. Cardinality(EntriesOf(book', day)) <= MaxTrades
  <2>1. /\ IsFiniteSet(EntriesOf(book, day) \cup {k})
        /\ Cardinality(EntriesOf(book, day) \cup {k}) <= Cardinality(EntriesOf(book, day)) + 1
        /\ Cardinality(EntriesOf(book, day)) \in Nat
    BY EntriesFinite, FS_AddElement
  <2>2. Cardinality(EntriesOf(book', day)) <= Cardinality(EntriesOf(book, day) \cup {k})
    BY <1>1, <2>1, FS_Subset
  <2>3. Cardinality(EntriesOf(book', day)) \in Nat /\ Cardinality(EntriesOf(book, day) \cup {k}) \in Nat
    BY <2>1, EntriesFinite, FS_CardinalityType
  <2>4. Cardinality(EntriesOf(book, day)) < MaxTrades
    BY DEF TradesInv
  <2> QED BY <1>3, <2>1, <2>2, <2>3, <2>4
<1>5. \A d \in Nat : d # day => Cardinality(EntriesOf(book', d)) <= MaxTrades
  <2>1. \A d : d # day => /\ Cardinality(EntriesOf(book', d)) <= Cardinality(EntriesOf(book, d))
                          /\ Cardinality(EntriesOf(book', d)) \in Nat /\ Cardinality(EntriesOf(book, d)) \in Nat
    BY <1>2, EntriesFinite, FS_Subset
  <2> QED BY <1>3, <2>1 DEF TradesInv
<1>6. \A d \in Nat : d > day => EntriesOf(book', d) = {}
  BY <1>2, <1>3 DEF TradesInv
<1> QED BY <1>4, <1>5, <1>6 DEF TradesInv

(* An entry that is gone keeps its day. *)
LEMMA GoneCounts ==
  ASSUME BookTypes, TradesInv, NEW k \in Keys, Counts(book[k]),
         NEW status \in {"OVER", "REJECTED"}, Gone(k, status), UNCHANGED <<hand, day>>
  PROVE  TradesInv'
<1>1. book' = [book EXCEPT ![k] = Rest(k, status)] /\ Rest(k, status).day = book[k].day
  BY GoneRest
<1> HIDE DEF Rest
<1> QED BY <1>1, CountStays

(* Every step keeps A3's entries of a day within their number. *)
LEMMA TradesInvNext == HeatInv /\ BookTypes /\ TradesInv /\ [Next]_vars => TradesInv'
<1> SUFFICES ASSUME HeatInv, BookTypes, TradesInv, [Next]_vars PROVE TradesInv'
  OBVIOUS
<1>0. book \in [Keys -> EntryRecords] /\ day \in Nat
  BY Booked
<1>1. ASSUME NEW s \in Signals, Read(s) PROVE TradesInv'
  <2>1. UNCHANGED <<book, day>>
    BY <1>1 DEF Read
  <2>2. UNCHANGED hand \/ Cardinality(EntriesOf(book, day)) < MaxTrades
    BY <1>1, GateCounts, Zenon DEF Read
  <2>3. CASE UNCHANGED hand
    BY <2>1, <2>3, CountShrinks
  <2>4. CASE Cardinality(EntriesOf(book, day)) < MaxTrades
    BY <2>1, <2>4 DEF TradesInv
  <2> QED BY <2>2, <2>3, <2>4
<1>2. CASE Decide
  <2>1. hand # Empty /\ hand' = Empty /\ UNCHANGED day
    BY <1>2 DEF Decide
  <2>2. UNCHANGED book \/ \E k, n, cap : book' = [book EXCEPT ![k] = Sized(n, cap)]
    <3>1. CASE UNCHANGED book
      BY <3>1
    <3>2. CASE ~UNCHANGED book
      <4>1. PICK heat \in Nat \cup {-1} :
              book' = [book EXCEPT ![<<hand.signal, version>>]
                         = Sized(Quantity([hand EXCEPT !.sectorHeat = heat]), [hand EXCEPT !.sectorHeat = heat].capital)]
        BY <1>2, <3>2, DecideIs
      <4> QED BY <4>1, Zenon
    <3> QED BY <3>1, <3>2
  <2>3. CASE UNCHANGED book
    BY <2>1, <2>3, CountShrinks
  <2>4. ASSUME NEW k, NEW n, NEW cap, book' = [book EXCEPT ![k] = Sized(n, cap)]
        PROVE  TradesInv'
    <3>1. CASE k \in Keys
      <4>1. book'[k].day = day /\ \A j \in Keys : j # k => book'[j] = book[j]
        <5>1. Sized(n, cap).day = day
          BY SizedFields
        <5> HIDE DEF Sized
        <5> QED BY <1>0, <2>4, <3>1, <5>1
      <4> QED BY <2>1, <3>1, <4>1, CountGrows
    <3>2. CASE k \notin Keys
      <4>1. UNCHANGED book
        BY <1>0, <2>4, <3>2
      <4> QED BY <2>3, <4>1
    <3> QED BY <3>1, <3>2
  <2> QED BY <2>2, <2>3, <2>4
<1>3. CASE Restart
  BY <1>3, CountShrinks DEF Restart
<1>4. ASSUME NEW k \in Keys, Settle(k) PROVE TradesInv'
  <2>0. Counts(book[k]) /\ UNCHANGED <<hand, day>>
    BY <1>4 DEF Settle, Counts
  <2>1. ASSUME NEW n \in 1 .. book[k].qty, book' = [book EXCEPT ![k].status = "OPEN", ![k].qty = n]
        PROVE  TradesInv'
    <3>1. book' = [book EXCEPT ![k] = Filled(k, n)] /\ Filled(k, n).day = book[k].day
      BY <2>1, FillIs
    <3> HIDE DEF Filled
    <3> QED BY <2>0, <3>1, CountStays
  <2>2. CASE Gone(k, "OVER") \/ Gone(k, "REJECTED")
    BY <2>0, <2>2, GoneCounts
  <2> QED BY <1>4, <2>1, <2>2, Zenon DEF Settle
<1>5. ASSUME NEW k \in Keys, Ratchet(k) PROVE TradesInv'
  <2>1. Counts(book[k]) /\ UNCHANGED <<hand, day>>
    BY <1>5 DEF Ratchet, Open, Counts
  <2>2. book' = [book EXCEPT ![k] = Ratcheted(k)] /\ Ratcheted(k).day = book[k].day
    BY <1>5, RatchetIs
  <2> HIDE DEF Ratcheted
  <2> QED BY <2>1, <2>2, CountStays
<1>6. ASSUME NEW k \in Keys, Close(k) PROVE TradesInv'
  <2>1. Counts(book[k])
    BY <1>6 DEF Close, Open, Counts
  <2> QED BY <1>6, <2>1, GoneCounts DEF Close
<1>7. CASE Revalue \/ Block \/ UNCHANGED vars
  BY <1>7, CountShrinks DEF Revalue, Block, vars
<1>8. CASE NewDay
  <2>1. day' = day + 1 /\ UNCHANGED <<book, hand>>
    BY <1>8 DEF NewDay
  <2>2. \A d \in Nat : d > day + 1 => d > day
    BY <1>0
  <2>3. day + 1 \in Nat /\ day + 1 > day
    BY <1>0
  <2>4. hand # Empty => Cardinality(EntriesOf(book, day + 1)) < MaxTrades
    <3>1. EntriesOf(book, day + 1) = {}
      BY <2>3 DEF TradesInv
    <3>2. Cardinality({}) = 0
      BY FS_EmptySet
    <3>3. hand # Empty => Cardinality(EntriesOf(book, day)) < MaxTrades
      BY DEF TradesInv
    <3>4. Cardinality(EntriesOf(book, day)) \in Nat /\ MaxTrades \in Nat
      BY EntriesFinite, SizingAssumption
    <3> QED BY <3>1, <3>2, <3>3, <3>4
  <2> QED BY <2>1, <2>2, <2>4 DEF TradesInv
<1>9. ASSUME NEW k \in Keys, PlanEntry(k) PROVE TradesInv'
  <2>1. PICK e \in EntryRecords : book' = [book EXCEPT ![k] = e]
    BY <1>9, PlanIs
  <2>2. k \notin Entries /\ UNCHANGED <<hand, day>>
    BY <1>9, EntriesApart DEF PlanEntry
  <2> QED BY <2>1, <2>2, CountStays
<1>10. ASSUME NEW k \in Keys, NEW n \in 1 .. MaxFound, Found(k, n) PROVE TradesInv'
  <2>1. PICK e \in EntryRecords : book' = [book EXCEPT ![k] = e] /\ (k \in Open => e.day = book[k].day)
    BY <1>10, FoundIs
  <2>2. UNCHANGED <<hand, day>>
    BY <1>10 DEF Found
  <2>3. k \in Open \/ k \notin Entries
    BY <1>10, EntriesApart DEF Found
  <2>4. k \in Open => Counts(book[k])
    BY DEF Open, Counts
  <2> QED BY <2>1, <2>2, <2>3, <2>4, CountStays
<1> QED BY <1>1, <1>2, <1>3, <1>4, <1>5, <1>6, <1>7, <1>8, <1>9, <1>10, Zenon DEF Next

(* A3 reads the day's entries, C11's among them, before its model call and adds one after
   it, and the day may have changed in between: A3's own are never more than their number,
   whatever C11 and reconciliation add meanwhile. *)
THEOREM ServicesTradesCapped == ServicesSpec => []TradesCapped
<1>1. Init => TradesInv
  <2> SUFFICES ASSUME Init PROVE TradesInv
    OBVIOUS
  <2>1. \A d : EntriesOf(book, d) = {}
    BY EntriesApart DEF Init, EntriesOf, Counts, NoBook
  <2>2. Cardinality({}) = 0 /\ MaxTrades \in Nat
    BY FS_EmptySet, SizingAssumption
  <2> QED BY <2>1, <2>2 DEF Init, TradesInv
<1>2. TradesInv => TradesCapped
  <2>1. \A d \in 1 .. MaxDays : d \in Nat
    OBVIOUS
  <2> QED BY <2>1, Zenon DEF TradesInv, TradesCapped, EntriesOf, Counts
<1>3. HeatInv => BookTypes
  BY DEF HeatInv
<1> QED BY <1>1, <1>2, <1>3, HeatInvInit, HeatInvNext, TradesInvNext, RiskAlone, PTL DEF Spec
=============================================================================
