----------------------------- MODULE ThesisPlan -----------------------------
(***************************************************************************)
(* The thesis lane (c11_thesis/service.py): every evening a run arms the    *)
(* exit of positions whose thesis is dead or doubted, then plans entries    *)
(* for the next session; C4 executes them and sells what is armed           *)
(* (c4_exec/engine.py open_exit_pass).                                      *)
(*                                                                          *)
(* The timer fires on days without a session too, and an operator may run   *)
(* the service again after a crash.  A thesis leaves the store's ACTIVE     *)
(* state at any moment of an evening, a guard arms a position at any        *)
(* moment.  What a name's data says (liquidity, run-up, reclaimed level,    *)
(* size) is one choice; trim recommendations, which only inform, are left   *)
(* out.  Prices are left out: a stop is tightened or was tight enough.      *)
(***************************************************************************)
EXTENDS Integers, FiniteSets, Sequences, SequencesExt, FiniteSetsExt

CONSTANTS
  Theses,          \* by confidence: a sequence of [id, beneficiaries]
  TradingDays, Days,   \* days with a session, and the last day
  MaxNewPerDay, MaxOpenPositions, MaxPerThesis,
  ReviewVerdicts,  \* exit_on_review_verdicts
  CooloffDays,     \* reentry_cooloff_days
  MaxCrashes

ThesisIds == {Theses[i].id : i \in DOMAIN Theses}
Names == UNION {ToSet(Theses[i].beneficiaries) : i \in DOMAIN Theses}

(* intent_id_for *)
IntentIdFor(thesis, ticker, session) == [thesis |-> thesis, ticker |-> ticker, session |-> session]
Intents == [thesis : ThesisIds, ticker : Names, session : TradingDays]

VARIABLES
  today, evening,  \* the day, and whether its session is over
  thesis,          \* status in journal.theses
  lot,             \* journal.intents and the position of each
  policy,          \* exit_policy: [atOpen, guard]
  doubts,          \* newest A6 verdicts that all say exit
  forcedOut,       \* day of the last forced exit of each name, 0 for none
  plans,           \* days with a THESIS_PLAN
  plan,            \* the run
  left,            \* history: day a thesis left ACTIVE, 0 for not
  reruns,
  lastRun          \* history: day of the last run that managed every position, 0 for none

planVars == <<today, evening, thesis, lot, policy, doubts, forcedOut, plans, plan, left, reruns, lastRun>>
store == <<thesis, left>>
books == <<lot, policy, doubts, forcedOut>>

NoPlan == [phase |-> "none"]
Unarmed == [atOpen |-> FALSE, guard |-> FALSE]

PlanInit ==
  /\ today = 1 /\ evening = TRUE
  /\ thesis = [t \in ThesisIds |-> "ACTIVE"] /\ left = [t \in ThesisIds |-> 0]
  /\ lot = [i \in Intents |-> "none"]
  /\ policy = [i \in Intents |-> Unarmed] /\ doubts = [i \in Intents |-> 0]
  /\ forcedOut = [n \in Names |-> 0]
  /\ plans = {} /\ plan = NoPlan /\ reruns = 0 /\ lastRun = 0

OpenLots == {i \in Intents : lot[i] = "OPEN"}
PendingNames == {i.ticker : i \in {j \in Intents : lot[j] = "PENDING"}}

NextSession == Min({d \in TradingDays : d > today} \union {Days + 1})

(***************************************************************************)
(* The run.                                                                *)
(***************************************************************************)
(* plan_already_done, next_entry_ts and open_positions_all.  The policies are *)
(* those read here, whatever is written to them before they are written back. *)
StartRun ==
  /\ evening /\ plan = NoPlan /\ today \notin plans /\ NextSession <= Days
  /\ plan' = [phase |-> "manage", session |-> NextSession, held |-> OpenLots,
              todo |-> OpenLots, read |-> [i \in OpenLots |-> policy[i]],
              status |-> thesis]
  /\ UNCHANGED <<today, evening, store, books, plans, reruns, lastRun>>

(* A mutant: an expired thesis is left to its trailing stop. *)
InvalidatedAction(status, n) ==
  IF status = "INVALIDATED" THEN "DEAD"
  ELSE IF status = "ACTIVE" /\ ReviewVerdicts > 0 /\ n >= ReviewVerdicts THEN "REVIEW" ELSE "none"

(* management_action and review_exit_due *)
ManagementAction(status, n) ==
  IF status # "ACTIVE" THEN "DEAD"
  ELSE IF ReviewVerdicts > 0 /\ n >= ReviewVerdicts THEN "REVIEW" ELSE "none"

(* arm_exit_at_open on the policy that was read; the guard's arm is lost when *)
(* it came later.                                                            *)
Armed(i) == [plan.read[i] EXCEPT !.atOpen = TRUE]

Manage(i) ==
  /\ plan.phase = "manage" /\ i \in plan.todo
  /\ plan' = [plan EXCEPT !.todo = @ \ {i}]
  /\ IF ManagementAction(plan.status[i.thesis], doubts[i]) = "none" THEN UNCHANGED policy
     ELSE \E tightened \in BOOLEAN :
            IF ~tightened /\ plan.read[i].atOpen THEN UNCHANGED policy
            ELSE policy' = IF lot[i] = "OPEN" THEN [policy EXCEPT ![i] = Armed(i)] ELSE policy
  /\ UNCHANGED <<today, evening, store, lot, doubts, forcedOut, plans, reruns, lastRun>>

(* load_up_theses, pending_thesis_intents, recent_forced_exits and the room. *)
Openings ==
  LET room == MaxOpenPositions - Cardinality(plan.held)
  IN  Min({MaxNewPerDay, IF room > 0 THEN room ELSE 0})

Candidates(active) ==
  FlattenSeq([k \in DOMAIN active |->
    [j \in DOMAIN active[k].beneficiaries |-> [thesis |-> active[k].id, ticker |-> active[k].beneficiaries[j]]]])

(* A mutant: what is planned already and not yet executed is not asked for. *)
PendingForgotten == {}

Pending == PendingNames

ReadStore ==
  /\ plan.phase = "manage" /\ plan.todo = {}
  /\ plan' = [phase |-> "enter", session |-> plan.session,
              todo |-> Candidates(SelectSeq(Theses, LAMBDA t : thesis[t.id] = "ACTIVE")),
              taken |-> {i.ticker : i \in plan.held} \union Pending,
              cooling |-> {n \in Names : forcedOut[n] > 0 /\ forcedOut[n] > today - CooloffDays},
              perThesis |-> [t \in ThesisIds |-> Cardinality({i \in plan.held : i.thesis = t})],
              room |-> Openings]
  /\ lastRun' = today
  /\ UNCHANGED <<today, evening, store, books, plans, reruns>>

(* One beneficiary: passed over, skipped with a row, or entered: intent, *)
(* decision and delayed message are one transaction.                    *)
Plan ==
  /\ plan.phase = "enter" /\ plan.todo # <<>> /\ plan.room > 0
  /\ LET c == Head(plan.todo)
         may == /\ c.ticker \notin plan.taken \union plan.cooling
                /\ plan.perThesis[c.thesis] < MaxPerThesis
         id == IntentIdFor(c.thesis, c.ticker, plan.session)
     IN \/ /\ plan' = [plan EXCEPT !.todo = Tail(@)]
           /\ UNCHANGED lot
        \/ /\ may
           /\ lot' = IF lot[id] = "none" THEN [lot EXCEPT ![id] = "PENDING"] ELSE lot
           /\ plan' = [plan EXCEPT !.todo = Tail(@), !.taken = @ \union {c.ticker}, !.room = @ - 1,
                                   !.perThesis = [@ EXCEPT ![c.thesis] = @ + 1]]
  /\ UNCHANGED <<today, evening, store, policy, doubts, forcedOut, plans, reruns, lastRun>>

Anchor ==
  /\ plan.phase = "enter" /\ (plan.todo = <<>> \/ plan.room = 0)
  /\ plans' = plans \union {today}
  /\ plan' = NoPlan
  /\ UNCHANGED <<today, evening, store, books, reruns, lastRun>>

Crash ==
  /\ plan # NoPlan /\ reruns < MaxCrashes
  /\ reruns' = reruns + 1
  /\ plan' = NoPlan
  /\ UNCHANGED <<today, evening, store, books, plans, lastRun>>

(***************************************************************************)
(* Around it.                                                              *)
(***************************************************************************)
(* A5: set_status asks for ACTIVE, so that a thesis dies once. *)
ThesisDies(t, status) ==
  /\ evening /\ thesis[t] = "ACTIVE"
  /\ thesis' = [thesis EXCEPT ![t] = status]
  /\ left' = [left EXCEPT ![t] = today]
  /\ UNCHANGED <<today, evening, books, plans, plan, reruns, lastRun>>

(* A12 arms at any hour; only an OPEN position. *)
GuardArms(i) ==
  /\ lot[i] = "OPEN" /\ ~policy[i].guard
  /\ policy' = [policy EXCEPT ![i].guard = TRUE]
  /\ UNCHANGED <<today, evening, store, lot, doubts, forcedOut, plans, plan, reruns, lastRun>>

(* A new day; on one without a session the evening follows at once. *)
NewDay ==
  /\ evening /\ plan = NoPlan /\ today < Days
  /\ today' = today + 1
  /\ evening' = (today' \notin TradingDays)
  /\ UNCHANGED <<store, books, plans, plan, reruns, lastRun>>

(* C4 fills an intent of the day, or gives it up. *)
Execute(i) ==
  /\ ~evening /\ lot[i] = "PENDING" /\ i.session = today
  /\ \E outcome \in {"OPEN", "cancelled"} : lot' = [lot EXCEPT ![i] = outcome]
  /\ UNCHANGED <<today, evening, store, policy, doubts, forcedOut, plans, plan, reruns, lastRun>>

(* open_exit_pass and guard_exit_pass sell what is armed; a stop sells, too. *)
Sell(i) ==
  /\ ~evening /\ lot[i] = "OPEN"
  /\ lot' = [lot EXCEPT ![i] = "closed"]
  /\ forcedOut' = [forcedOut EXCEPT ![i.ticker] = today]
  /\ UNCHANGED <<today, evening, store, policy, doubts, plans, plan, reruns, lastRun>>

(* A session ends with nothing armed and open: its passes repeat until an exit *)
(* is done.  A6 gives its nightly verdicts then.                              *)
EndSession ==
  /\ ~evening
  /\ \A i \in OpenLots : policy[i] = Unarmed
  /\ PendingNames = {}
  /\ evening' = TRUE
  /\ \E broken \in SUBSET OpenLots :
       doubts' = [i \in Intents |-> IF i \notin broken THEN 0
                                    ELSE IF doubts[i] < ReviewVerdicts THEN doubts[i] + 1 ELSE doubts[i]]
  /\ UNCHANGED <<today, store, lot, policy, forcedOut, plans, plan, reruns, lastRun>>

PlanNext ==
  \/ StartRun \/ ReadStore \/ Plan \/ Anchor \/ Crash
  \/ \E i \in Intents : Manage(i) \/ GuardArms(i) \/ Execute(i) \/ Sell(i)
  \/ \E t \in ThesisIds, status \in {"INVALIDATED", "EXPIRED"} : ThesisDies(t, status)
  \/ NewDay \/ EndSession

PlanSpec == PlanInit /\ [][PlanNext]_planVars

(***************************************************************************)
(* Properties.                                                             *)
(***************************************************************************)

(* Runs of several evenings before one session, runs repeated after a crash *)
(* and theses that share a beneficiary never leave a name with two entries  *)
(* at a time, planned or held.                                              *)
OneEntryPerTicker ==
  \A i, j \in Intents : {lot[i], lot[j]} \subseteq {"PENDING", "OPEN"} /\ i.ticker = j.ticker => i = j

(* A position is armed once a run that began after its thesis died has seen *)
(* to it, so that none is carried through another session: the arm is never *)
(* lost to the guard's, nor the guard's without leaving C11's.              *)
DeadThesisIsLeft ==
  [][/\ (evening /\ ~evening')
          => \A i \in OpenLots :
               i.session <= lastRun /\ left[i.thesis] \in 1 .. (lastRun - 1) => policy[i].atOpen
     /\ \A i \in Intents : policy[i] # Unarmed => policy'[i] # Unarmed]_planVars

(* "total origin='thesis' positions" (config/thesis_entry.yaml:35). *)
OpenWithinMax == Cardinality(OpenLots) <= MaxOpenPositions
=============================================================================
