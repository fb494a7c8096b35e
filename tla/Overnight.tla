------------------------------ MODULE Overnight ------------------------------
(***************************************************************************)
(* What is triaged while the market is closed waits on signal.overnight.   *)
(* Before the open A4 ranks it once (a4_premarket/service.py) and then     *)
(* adds late arrivals every ten minutes within a budget (late.py); at the  *)
(* open A2 analyses what was handed to it (a2_analyst), and a thesis may   *)
(* spawn signals for related names, which A1 triages again                 *)
(* (a1_triage/service.py, handle_synthetic).  Signals of the scanner, which*)
(* neither wait for the morning nor spawn others, are left out.            *)
(*                                                                         *)
(* slot counts the firings of the timer left before the open: Slots + 1 is *)
(* the night, when the sheet is due, 0 the session.  A4 claims its batch at*)
(* once; when the run dies, what it had claimed stays claimed.  The route  *)
(* of A4 for signals without a ticker is left out: route() sends none of   *)
(* them to signal.overnight.                                               *)
(***************************************************************************)
EXTENDS Integers, FiniteSets, FiniteSetsExt

CONSTANTS
  News, Synthetics,   \* signals; a synthetic one is named when it is spawned
  Slots,           \* firings of the late pass before the open
  LateMax,         \* late_daily_max
  PassMax,         \* late_pass_max
  MaxAge,          \* nights a message may wait
  MaxAttempts, MaxFaults, None

VARIABLES
  slot, fired,     \* whether the timer of this slot has fired
  night,           \* signal.overnight: state of each signal's message
  age,             \* nights its message has waited
  run,             \* A4
  sheetDone, late, \* today's SHEET and LATE_CANDIDATE decisions
  disposed,        \* what A4 journaled of each signal
  guard,           \* signals on signal.guard
  desk,            \* signal.analyst: messages by key
  a2,
  gate,            \* signals on signal.gate
  parent,          \* the signal a synthetic one was spawned from
  spawned,         \* messages on signal.synthetic
  stranded,        \* history: signals claimed by a run that died
  derived,         \* signals whose message carries derived_from_decision
  faults

books == <<disposed, guard, stranded>>
tree  == <<parent, spawned, derived>>
vars  == <<slot, fired, night, age, run, sheetDone, late, books, desk, a2, gate, tree, faults>>

AllSignals == News \union Synthetics

Idle == [phase |-> "idle"]

Init ==
  /\ slot = Slots + 1 /\ fired = FALSE
  /\ night = [s \in AllSignals |-> "absent"] /\ age = [s \in AllSignals |-> 0]
  /\ run = Idle /\ sheetDone = FALSE /\ late = 0
  /\ disposed = [s \in AllSignals |-> "none"] /\ guard = {} /\ stranded = {}
  /\ desk = [k \in {} |-> None] /\ a2 = Idle
  /\ gate = {}
  /\ parent = [s \in Synthetics |-> None] /\ spawned = {} /\ derived = {}
  /\ faults = 0

(* Messages of a synthetic signal refer to the item of its parent. *)
ItemOf(s) ==
  IF s \notin Synthetics THEN s
  ELSE IF parent[s] \in Synthetics THEN parent[parent[s]] ELSE parent[s]

Direct(s) == <<s, "direct">>

Handoff(s) == <<ItemOf(s), "handoff">>

Message(k, s) ==
  [signal |-> s, state |-> IF k = Handoff(s) /\ slot # 0 THEN "waiting" ELSE "ready", tries |-> 0]

(* enqueue: ON CONFLICT DO NOTHING; a hand-off is available at the open. *)
Put(k, s) ==
  desk' = IF k \in DOMAIN desk THEN desk
          ELSE [l \in DOMAIN desk \union {k} |-> IF l = k THEN Message(k, s) ELSE desk[l]]

(***************************************************************************)
(* A1: a verdict that escalates goes to the desk in the session, and waits *)
(* for the morning otherwise.                                              *)
(***************************************************************************)
Deliver(s) ==
  IF slot = 0
  THEN Put(Direct(s), s) /\ UNCHANGED night
  ELSE /\ night' = [night EXCEPT ![s] = IF @ = "absent" THEN "ready" ELSE @]
       /\ UNCHANGED desk

Fresh(s) == night[s] = "absent" /\ Direct(s) \notin DOMAIN desk

Escalate(s) ==
  /\ s \in News /\ Fresh(s)
  /\ Deliver(s)
  /\ UNCHANGED <<slot, fired, age, run, sheetDone, late, books, a2, gate, tree, faults>>

(* A mutant: the trace of a synthetic signal does not say what it is *)
(* derived from.                                                     *)
TriageUntraced(s) ==
  /\ s \in spawned
  /\ spawned' = spawned \ {s}
  /\ \/ UNCHANGED <<night, desk>>
     \/ Deliver(s)
  /\ UNCHANGED <<slot, fired, age, run, sheetDone, late, books, a2, gate, parent, derived, faults>>

(* handle_synthetic: rejected, discarded, or escalated with its lineage. *)
TriageSynthetic(s) ==
  /\ s \in spawned
  /\ spawned' = spawned \ {s}
  /\ \/ UNCHANGED <<night, desk, derived>>
     \/ /\ derived' = derived \union {s}
        /\ Deliver(s)
  /\ UNCHANGED <<slot, fired, age, run, sheetDone, late, books, a2, gate, parent, faults>>

(***************************************************************************)
(* A4: the sheet, once a morning.                                          *)
(***************************************************************************)
Expired(s) == night[s] \in {"ready", "deferred"} /\ age[s] >= MaxAge

Batch(sheet) == {s \in AllSignals : night[s] = "ready" /\ ~(sheet /\ Expired(s))}

StartSheet ==
  /\ slot = Slots + 1 /\ ~fired /\ run = Idle
  /\ fired' = TRUE
  /\ run' = [phase |-> "sift", kind |-> "sheet", batch |-> Batch(TRUE), rank |-> {}]
  /\ night' = [s \in AllSignals |-> IF s \in Batch(TRUE) THEN "claimed" ELSE IF Expired(s) THEN "expired" ELSE night[s]]
  /\ UNCHANGED <<slot, age, sheetDone, late, books, desk, a2, gate, tree, faults>>

(* The position of a signal is read when its turn comes. *)
Sift(s) ==
  /\ run.phase = "sift" /\ s \in run.batch
  /\ \/ /\ disposed' = [disposed EXCEPT ![s] = "guard"]
        /\ guard' = guard \union {s}
        /\ UNCHANGED stranded
        /\ night' = [night EXCEPT ![s] = "done"]
        /\ run' = [run EXCEPT !.batch = @ \ {s}]
     \/ /\ run' = [run EXCEPT !.batch = @ \ {s}, !.rank = @ \union {s}]
        /\ UNCHANGED <<books, night>>
  /\ UNCHANGED <<slot, fired, age, sheetDone, late, desk, a2, gate, tree, faults>>

Sifted(kind) == run.phase = "sift" /\ run.batch = {} /\ run.kind = kind

(* The model, or the fallback, gives every item a lane. *)
Rank ==
  /\ Sifted("sheet")
  /\ \E lanes \in [{ItemOf(s) : s \in run.rank} -> {"open", "thesis", "ignore"}] :
       run' = [phase |-> "dispose", kind |-> "sheet", batch |-> run.rank, lanes |-> lanes]
  /\ UNCHANGED <<slot, fired, night, age, sheetDone, late, books, desk, a2, gate, tree, faults>>

Dispose(s) ==
  /\ run.phase = "dispose" /\ run.kind = "sheet" /\ s \in run.batch
  /\ disposed' = [disposed EXCEPT ![s] = run.lanes[ItemOf(s)]]
  /\ IF run.lanes[ItemOf(s)] = "open" THEN Put(Handoff(s), s) ELSE UNCHANGED desk
  /\ night' = [night EXCEPT ![s] = "done"]
  /\ run' = [run EXCEPT !.batch = @ \ {s}]
  /\ UNCHANGED <<slot, fired, age, sheetDone, late, guard, stranded, a2, gate, tree, faults>>

FinishSheet ==
  /\ run.phase = "dispose" /\ run.kind = "sheet" /\ run.batch = {}
  /\ sheetDone' = TRUE
  /\ run' = Idle
  /\ UNCHANGED <<slot, fired, night, age, late, books, desk, a2, gate, tree, faults>>

(***************************************************************************)
(* A4: the late pass.                                                      *)
(***************************************************************************)
ShouldRun == sheetDone /\ slot \in 1..Slots

StartLate ==
  /\ slot \in 1..Slots /\ ~fired /\ run = Idle
  /\ fired' = TRUE
  /\ IF ShouldRun
     THEN /\ run' = [phase |-> "sift", kind |-> "late", batch |-> Batch(FALSE), rank |-> {}, start |-> slot]
          /\ night' = [s \in AllSignals |-> IF s \in Batch(FALSE) THEN "claimed" ELSE night[s]]
     ELSE UNCHANGED <<run, night>>
  /\ UNCHANGED <<slot, age, sheetDone, late, books, desk, a2, gate, tree, faults>>

CeilDiv(a, b) == (a + b - 1) \div b

(* A mutant: a pass spends what is left. *)
SpendAll(budget, passes) == Min({PassMax, budget})

Allowance(budget, passes) == Min({PassMax, budget, CeilDiv(budget, passes)})

(* The passes left are those at the start of this one. *)
PlanForwarding ==
  /\ Sifted("late")
  /\ LET n == Min({Cardinality(run.rank), Allowance(LateMax - late, run.start)})
     IN  \E forward \in kSubset(n, run.rank) :
           run' = [phase |-> "dispose", kind |-> "late", batch |-> forward, rest |-> run.rank \ forward]
  /\ UNCHANGED <<slot, fired, night, age, sheetDone, late, books, desk, a2, gate, tree, faults>>

Forward(s) ==
  /\ run.phase = "dispose" /\ run.kind = "late" /\ s \in run.batch
  /\ disposed' = [disposed EXCEPT ![s] = "late"]
  /\ late' = late + 1
  /\ Put(Handoff(s), s)
  /\ night' = [night EXCEPT ![s] = "done"]
  /\ run' = [run EXCEPT !.batch = @ \ {s}]
  /\ UNCHANGED <<slot, fired, age, sheetDone, guard, stranded, a2, gate, tree, faults>>

(* A mutant: what is not forwarded is not given back. *)
KeepRest ==
  /\ run.phase = "dispose" /\ run.kind = "late" /\ run.batch = {}
  /\ run' = Idle
  /\ UNCHANGED <<slot, fired, night, age, sheetDone, late, books, desk, a2, gate, tree, faults>>

DeferRest ==
  /\ run.phase = "dispose" /\ run.kind = "late" /\ run.batch = {}
  /\ night' = [s \in AllSignals |-> IF s \in run.rest THEN "deferred" ELSE night[s]]
  /\ run' = Idle
  /\ UNCHANGED <<slot, fired, age, sheetDone, late, books, desk, a2, gate, tree, faults>>

(* An exception or the time limit ends the run. *)
RunDies ==
  /\ run # Idle /\ faults < MaxFaults
  /\ faults' = faults + 1
  /\ stranded' = stranded \union {s \in AllSignals : night[s] = "claimed"}
  /\ run' = Idle
  /\ UNCHANGED <<slot, fired, night, age, sheetDone, late, disposed, guard, desk, a2, gate, tree>>

(***************************************************************************)
(* A2.                                                                     *)
(***************************************************************************)
Subject == desk[a2.key].signal

Take(k) ==
  /\ a2 = Idle /\ desk[k].state = "ready"
  /\ a2' = [phase |-> "analyse", key |-> k]
  /\ desk' = [desk EXCEPT ![k].state = "claimed"]
  /\ UNCHANGED <<slot, fired, night, age, run, sheetDone, late, books, gate, tree, faults>>

(* precheck: news that has not moved in the session is looked at again. *)
DeferAnalysis ==
  /\ a2.phase = "analyse" /\ slot = 0
  /\ desk' = [desk EXCEPT ![a2.key].state = "ready"]
  /\ a2' = Idle
  /\ UNCHANGED <<slot, fired, night, age, run, sheetDone, late, books, gate, tree, faults>>

Answered == a2' = [a2 EXCEPT !.phase = "ack"]

(* Unmoved too long, no data, no valid answer, or nothing left in it. *)
Reject ==
  /\ a2.phase = "analyse"
  /\ Answered
  /\ UNCHANGED <<slot, fired, night, age, run, sheetDone, late, books, desk, gate, tree, faults>>

MayFanOut(s) == s \notin derived

Unnamed == {s \in Synthetics : parent[s] = None}

(* Decision, thesis and synthetic signals are one transaction. *)
Thesis ==
  /\ a2.phase = "analyse"
  /\ gate' = gate \union {Subject}
  /\ \E opportunities \in {{}} \union (IF MayFanOut(Subject) THEN SUBSET Unnamed ELSE {}) :
       /\ parent' = [s \in Synthetics |-> IF s \in opportunities THEN Subject ELSE parent[s]]
       /\ spawned' = spawned \union opportunities
  /\ Answered
  /\ UNCHANGED <<slot, fired, night, age, run, sheetDone, late, books, desk, derived, faults>>

Ack ==
  /\ a2.phase = "ack"
  /\ desk' = [desk EXCEPT ![a2.key].state = "done"]
  /\ a2' = Idle
  /\ UNCHANGED <<slot, fired, night, age, run, sheetDone, late, books, gate, tree, faults>>

(* Before the verdict or after it. *)
Fault ==
  /\ a2 # Idle /\ faults < MaxFaults
  /\ faults' = faults + 1
  /\ desk' = [desk EXCEPT ![a2.key].state = IF desk[a2.key].tries + 1 >= MaxAttempts THEN "dead" ELSE "ready",
                          ![a2.key].tries = @ + 1]
  /\ a2' = Idle
  /\ UNCHANGED <<slot, fired, night, age, run, sheetDone, late, books, gate, tree>>

(***************************************************************************)
(* Time.                                                                   *)
(***************************************************************************)
(* A timer that finds its service running does not start it again; the time *)
(* limits of the units end every run long before the session does.          *)
Tick ==
  /\ slot = 0 => run = Idle
  /\ slot > 0 => fired \/ run # Idle
  /\ fired' = FALSE
  /\ slot' = IF slot = 0 THEN Slots + 1 ELSE slot - 1
  /\ desk' = [k \in DOMAIN desk |-> IF slot = 1 /\ desk[k].state = "waiting" THEN [desk[k] EXCEPT !.state = "ready"] ELSE desk[k]]
  /\ night' = [s \in AllSignals |-> IF night[s] = "deferred" THEN "ready" ELSE night[s]]
  /\ IF slot = 0
     THEN /\ sheetDone' = FALSE /\ late' = 0
          /\ age' = [s \in AllSignals |-> IF night[s] \in {"ready", "deferred"} /\ age[s] < MaxAge THEN age[s] + 1 ELSE age[s]]
     ELSE UNCHANGED <<sheetDone, late, age>>
  /\ UNCHANGED <<run, books, a2, gate, tree, faults>>

Sheet == StartSheet \/ Rank \/ FinishSheet \/ \E s \in AllSignals : Sift(s) \/ Dispose(s)

LatePass == StartLate \/ PlanForwarding \/ DeferRest \/ \E s \in AllSignals : Forward(s)

Analyst == DeferAnalysis \/ Reject \/ Thesis \/ Ack \/ \E k \in DOMAIN desk : Take(k)

Triage == \E s \in AllSignals : Escalate(s) \/ TriageSynthetic(s)

Next ==
  \/ Triage \/ Sheet \/ LatePass \/ RunDies \/ Analyst \/ Fault
  \/ Tick

Spec == Init /\ [][Next]_vars

(***************************************************************************)
(* Properties.                                                             *)
(***************************************************************************)

(* The pacing of the late passes: whatever floods in, and wherever a pass  *)
(* dies, the budget lasts to the last pass before the open, and no more    *)
(* than the budget is handed over.                                         *)
BudgetLastsToTheOpen ==
  slot \in 1..Slots => late <= LateMax /\ LateMax - late >= slot - 1

(* A related name is one hop away from the news: no synthetic signal is     *)
(* spawned by another, though its lineage travels through two services, a   *)
(* night on a queue and redeliveries.                                       *)
SympathyStopsAfterOneHop == \A s \in Synthetics : parent[s] \notin Synthetics

(* What a run claims it disposes of or gives back, so that only runs that  *)
(* died leave claims behind, and no signal outlives the sheet of the night *)
(* it was to expire in.                                                    *)
NightIsWorkedOff ==
  /\ run = Idle => \A s \in AllSignals : night[s] = "claimed" => s \in stranded
  /\ sheetDone => \A s \in AllSignals : ~Expired(s)

(* "forwarded to the open" (late.py:245): what A4 journals as handed over  *)
(* is on signal.analyst.                                                   *)
ForwardedIsSent ==
  \A s \in AllSignals : disposed[s] \in {"open", "late"} => \E k \in DOMAIN desk : desk[k].signal = s

(* A thesis spawns its related names once. *)
SpawnedOnce ==
  \A s, t \in Synthetics : parent[s] = parent[t] /\ parent[s] # None => s = t
=============================================================================
