------------------------------- MODULE Controls -------------------------------
(***************************************************************************)
(* The operational controls of the execution service C4: the flags of        *)
(* journal.control that veto entries (c4_exec/flags.py), the monitor part of *)
(* an engine pass that sets and clears them - the dead-man switch            *)
(* (c4_exec/deadman.py) and then the drawdown breaker (c4_exec/breaker.py) - *)
(* the operator, who flips the same flags, and the consumer task, which      *)
(* reads them once before it submits an entry (c4_exec/service.py).          *)
(*                                                                           *)
(* Every get_flag and set_flag is a transaction of its own, so the operator  *)
(* and the consumer act between any two steps of a pass.  Heartbeat ages are *)
(* abstracted to the rung of the ladder they have reached in session (out of *)
(* session no rung escalates), day P&L to "at or below the threshold or not",*)
(* and timestamps of the audit to session dates.                             *)
(***************************************************************************)
EXTENDS Integers, FiniteSets, FiniteSetsExt

CONSTANTS
  MaxTrips,   \* max_trips_per_30d
  Window,     \* the 30 days of the trip history
  MaxDay,     \* bound: session dates
  MaxOps,     \* bound: operator commands
  MaxAborts   \* bound: passes that end early (exception, process death)

ASSUME ControlsAssumption ==
  /\ MaxTrips \in Nat \ {0} /\ Window \in Nat \ {0}
  /\ {MaxDay, MaxOps, MaxAborts} \subseteq Nat

VARIABLES
  \* journal.control
  block,      \* block_entries
  owner,      \* deadman_block
  suspended,  \* exit_engine_suspended
  breaker,    \* drawdown_breaker
  kill,       \* kill_switch
  \* journal.audit: DRAWDOWN_BREAKER_SET rows with value 1, per date
  trips,
  \* the environment
  rung,       \* what the heartbeats call for: 0 nothing, 1 block, 2 suspend too
  day,
  \* the engine pass
  pc, wanted, asOf, verdict,
  \* the consumer task: did the intent in hand pass its pre-flight
  cleared,
  \* history
  setter,     \* who raised the present block
  clean,      \* the operator raised block while the monitor had no part in it
  cutShort,   \* a pass ended between the two writes of a block
  refused,    \* the auto reset was refused and nobody touched the breaker since
  resets,     \* dates of automatic resets
  slipped,    \* entries submitted since the kill switch went on
  ops, aborts

deadman == <<block, owner, suspended>>
breakerVars == <<breaker, trips, refused, resets>>
environment == <<rung, day>>
pass == <<pc, wanted, asOf, verdict>>
entries == <<kill, cleared, slipped>>
provenance == <<setter, clean, cutShort>>
bounds == <<ops, aborts>>
vars == <<deadman, breakerVars, environment, pass, entries, provenance, bounds>>

Rungs == 0 .. 2
Days == 0 .. MaxDay
Steps == {"rest", "flags", "block", "own", "unblock", "disown", "exits",
          "history", "apply", "pnl", "trip"}

FlagsOK ==
  /\ block \in BOOLEAN /\ owner \in BOOLEAN /\ suspended \in BOOLEAN
  /\ breaker \in BOOLEAN /\ kill \in BOOLEAN /\ cleared \in BOOLEAN
  /\ clean \in BOOLEAN /\ cutShort \in BOOLEAN /\ refused \in BOOLEAN

CountsOK ==
  /\ trips \in [Days -> 0 .. MaxTrips] /\ resets \subseteq Days
  /\ rung \in Rungs /\ day \in Days
  /\ pc \in Steps /\ wanted \in Rungs /\ asOf \in Days
  /\ verdict \in {"NONE", "RESET", "REFUSE"}
  /\ setter \in {"nobody", "operator", "deadman"}
  /\ slipped \in Nat /\ ops \in 0 .. MaxOps /\ aborts \in 0 .. MaxAborts

TypeOK == FlagsOK /\ CountsOK

Init ==
  /\ block = FALSE /\ owner = FALSE /\ suspended = FALSE
  /\ breaker = FALSE /\ kill = FALSE /\ cleared = FALSE
  /\ trips = [d \in Days |-> 0]
  /\ rung = 0 /\ day = 0
  /\ pc = "rest" /\ wanted = 0 /\ asOf = 0 /\ verdict = "NONE"
  /\ setter = "nobody" /\ clean = FALSE /\ cutShort = FALSE /\ refused = FALSE
  /\ resets = {} /\ slipped = 0 /\ ops = 0 /\ aborts = 0

Goto(step) == pc' = step /\ UNCHANGED <<wanted, asOf, verdict>>

-----------------------------------------------------------------------------
(* The dead-man switch: deadman.check *)

(* The pass takes the time, reads the heartbeats and decides which rungs it
   wants. *)
ReadHeartbeats ==
  /\ pc = "rest"
  /\ wanted' = rung /\ asOf' = day
  /\ pc' = "flags" /\ UNCHANGED verdict
  /\ UNCHANGED <<deadman, breakerVars, environment, entries, provenance, bounds>>

(* A mutant: unblocks whoever owns the block. *)
ReadBlockOfAnyone ==
  /\ pc = "flags"
  /\ Goto(IF wanted > 0 /\ ~block THEN "block"
          ELSE IF wanted = 0 /\ block THEN "unblock" ELSE "exits")
  /\ UNCHANGED <<deadman, breakerVars, environment, entries, provenance, bounds>>

(* Only the monitor writes deadman_block, so its read needs no step. *)
ReadBlock ==
  /\ pc = "flags"
  /\ Goto(IF wanted > 0 /\ ~block THEN "block"
          ELSE IF wanted = 0 /\ block /\ owner THEN "unblock" ELSE "exits")
  /\ UNCHANGED <<deadman, breakerVars, environment, entries, provenance, bounds>>

SetBlock ==
  /\ pc = "block"
  /\ block' = TRUE
  /\ setter' = IF block THEN setter ELSE "deadman"
  /\ Goto("own")
  /\ UNCHANGED <<owner, suspended, breakerVars, environment, entries, clean, cutShort, bounds>>

OwnBlock ==
  /\ pc = "own"
  /\ owner' = TRUE
  /\ Goto("exits")
  /\ UNCHANGED <<block, suspended, breakerVars, environment, entries, provenance, bounds>>

ClearBlock ==
  /\ pc = "unblock"
  /\ block' = FALSE /\ setter' = "nobody"
  /\ Goto("disown")
  /\ UNCHANGED <<owner, suspended, breakerVars, environment, entries, clean, cutShort, bounds>>

DisownBlock ==
  /\ pc = "disown"
  /\ owner' = FALSE
  /\ Goto("exits")
  /\ UNCHANGED <<block, suspended, breakerVars, environment, entries, provenance, bounds>>

(* A mutant: the suspension is lifted only by an unblock. *)
SuspendOnly ==
  /\ pc = "exits"
  /\ suspended' = (suspended \/ wanted = 2)
  /\ pc' = "history" /\ wanted' = 0 /\ UNCHANGED <<asOf, verdict>>
  /\ UNCHANGED <<block, owner, breakerVars, environment, entries, provenance, bounds>>

(* exit_engine_suspended is the monitor's alone: read and written at once. *)
SuspendExits ==
  /\ pc = "exits"
  /\ suspended' = (wanted = 2)
  /\ pc' = "history" /\ wanted' = 0 /\ UNCHANGED <<asOf, verdict>>
  /\ UNCHANGED <<block, owner, breakerVars, environment, entries, provenance, bounds>>

-----------------------------------------------------------------------------
(* The drawdown breaker: maybe_auto_reset, then check_breaker *)

Recent == {d \in Days : d <= day /\ day - d < Window}
TripDays == {d \in Recent : trips[d] > 0}

(* The audit rows of trips on these dates, numbered by date. *)
TripRows(dates) == {row \in dates \X (1 .. MaxTrips) : row[2] <= trips[row[1]]}
TripCount == Cardinality(TripRows(Recent))

(* A mutant: a trip of the same session date does not hold the reset back. *)
ResetSameDay ==
  IF TripDays = {} THEN "NONE"
  ELSE IF TripCount >= MaxTrips THEN "REFUSE" ELSE "RESET"

(* auto_reset_decision on _trip_history: no trip in the window or the last one
   on the pass's own date - nothing; too many - refuse; otherwise reset. *)
Decision ==
  IF TripDays = {} \/ Max(TripDays) >= asOf THEN "NONE"
  ELSE IF TripCount >= MaxTrips THEN "REFUSE" ELSE "RESET"

ReadHistory ==
  /\ pc = "history"
  /\ verdict' = IF breaker THEN Decision ELSE "NONE"
  /\ pc' = "apply" /\ UNCHANGED <<wanted, asOf>>
  /\ UNCHANGED <<deadman, breakerVars, environment, entries, provenance, bounds>>

(* The flag is written whatever it holds by now. *)
ApplyReset ==
  /\ pc = "apply"
  /\ IF verdict = "RESET"
       THEN breaker' = FALSE /\ resets' = resets \cup {day} /\ refused' = FALSE
       ELSE /\ refused' = (refused \/ (verdict = "REFUSE" /\ breaker))
            /\ UNCHANGED <<breaker, resets>>
  /\ pc' = "pnl" /\ verdict' = "NONE" /\ asOf' = 0 /\ UNCHANGED wanted
  /\ UNCHANGED <<trips, deadman, environment, entries, provenance, bounds>>

(* check_breaker: an untripped breaker, capital known, and a loss. *)
JudgePnl ==
  /\ pc = "pnl"
  /\ \/ Goto("rest")
     \/ ~breaker /\ Goto("trip")
  /\ UNCHANGED <<deadman, breakerVars, environment, entries, provenance, bounds>>

(* The audit row of a breaker set to 1, counted up to the limit. *)
Record(d) == trips' = [trips EXCEPT ![d] = IF @ < MaxTrips THEN @ + 1 ELSE @]

Trip ==
  /\ pc = "trip"
  /\ breaker' = TRUE
  /\ Record(day)
  /\ Goto("rest")
  /\ UNCHANGED <<refused, resets, deadman, environment, entries, provenance, bounds>>

(* An exception ends the pass, or the process dies and starts afresh. *)
Abort ==
  /\ pc # "rest" /\ aborts < MaxAborts
  /\ aborts' = aborts + 1
  /\ pc' = "rest" /\ wanted' = 0 /\ asOf' = 0 /\ verdict' = "NONE"
  /\ cutShort' = (cutShort \/ pc = "own")
  /\ UNCHANGED <<deadman, breakerVars, environment, entries, setter, clean, ops>>

Pass == \/ ReadHeartbeats \/ ReadBlock \/ SetBlock \/ OwnBlock \/ ClearBlock
        \/ DisownBlock \/ SuspendExits
        \/ ReadHistory \/ ApplyReset \/ JudgePnl \/ Trip

-----------------------------------------------------------------------------
(* The consumer task *)

(* entries_blocked: one query over the three flags. *)
EntriesBlocked == kill \/ breaker \/ block

(* A mutant: the pre-flight leaves the kill switch to A3. *)
PreflightWithoutKill ==
  /\ ~cleared
  /\ ~(breaker \/ block)
  /\ cleared' = TRUE
  /\ UNCHANGED <<kill, slipped, deadman, breakerVars, environment, pass, provenance, bounds>>

(* A vetoed intent is REJECTED and leaves the consumer as it was. *)
Preflight ==
  /\ ~cleared
  /\ ~EntriesBlocked
  /\ cleared' = TRUE
  /\ UNCHANGED <<kill, slipped, deadman, breakerVars, environment, pass, provenance, bounds>>

Submit ==
  /\ cleared
  /\ cleared' = FALSE
  /\ slipped' = IF kill THEN slipped + 1 ELSE slipped
  /\ UNCHANGED <<kill, deadman, breakerVars, environment, pass, provenance, bounds>>

-----------------------------------------------------------------------------
(* The operator: the dashboard's _set_control, or SQL *)

Command == ops < MaxOps /\ ops' = ops + 1 /\ UNCHANGED aborts

(* The monitor has read block and is about to write it. *)
Writing == pc \in {"block", "own", "unblock", "disown"}

RaiseBlock ==
  /\ Command
  /\ ~block
  /\ block' = TRUE /\ setter' = "operator"
  /\ clean' = (~owner /\ ~Writing)
  /\ UNCHANGED <<owner, suspended, cutShort, breakerVars, environment, pass, entries>>

LowerBlock ==
  /\ Command
  /\ block
  /\ block' = FALSE /\ setter' = "nobody" /\ clean' = FALSE
  /\ UNCHANGED <<owner, suspended, cutShort, breakerVars, environment, pass, entries>>

(* _set_control writes its own audit action, KILL_SWITCH_ON. *)
Kill ==
  /\ Command
  /\ ~kill
  /\ kill' = TRUE /\ slipped' = 0
  /\ UNCHANGED <<cleared, deadman, breakerVars, environment, pass, provenance>>

Resume ==
  /\ kill
  /\ kill' = FALSE /\ slipped' = 0
  /\ UNCHANGED <<cleared, deadman, breakerVars, environment, pass, provenance, bounds>>

LowerBreaker ==
  /\ Command
  /\ breaker
  /\ breaker' = FALSE /\ refused' = FALSE
  /\ UNCHANGED <<trips, resets, deadman, environment, pass, entries, provenance>>

-----------------------------------------------------------------------------
(* Heartbeats stop and recover, sessions open and close. *)
Drift ==
  /\ rung' \in Rungs \ {rung}
  /\ UNCHANGED <<day, deadman, breakerVars, pass, entries, provenance, bounds>>

NextDay ==
  /\ day < MaxDay
  /\ day' = day + 1
  /\ UNCHANGED <<rung, deadman, breakerVars, pass, entries, provenance, bounds>>

Operator == RaiseBlock \/ LowerBlock \/ Kill \/ Resume \/ LowerBreaker

Next == \/ Pass \/ Abort
        \/ Preflight \/ Submit
        \/ Operator
        \/ Drift \/ NextDay

Spec == Init /\ [][Next]_vars

(* The engine loop runs a pass every minute, in and out of session. *)
FairSpec == Spec /\ WF_vars(Pass)

-----------------------------------------------------------------------------
(* Properties *)

(* An operator's block raised while the monitor holds no claim on the flag is
   "never unwound by code" (deadman.py), whatever the heartbeats do. *)
CleanBlockStays == clean => block

(* The ladder of deadman.yaml follows the heartbeats: a lasting outage ends with
   entries blocked (and exits suspended), a lasting recovery with the exits
   resumed and with the monitor's own block gone, unless a pass was cut short
   between the flag and its ownership mark or the operator set it. *)
LadderFollowsHeartbeats ==
  /\ <>[](rung > 0) => <>[]block
  /\ <>[](rung = 2) => <>[]suspended
  /\ <>[](rung < 2) => <>[]~suspended
  /\ <>[](rung = 0) => <>[](block => setter = "operator" \/ cutShort)

(* After the kill switch goes on at most one entry still reaches the broker:
   the one that had passed its pre-flight. *)
AtMostOneSlips == kill => slipped <= 1

(* However trips, operator resets and date changes fall, code resets the breaker
   on at most max_trips_per_30d dates of any window. *)
AutoResetsBounded ==
  \A d \in Days : Cardinality({r \in resets : r <= d /\ d - r < Window}) <= MaxTrips

(* A breaker that tripped today is cleared today by nobody but the operator. *)
TripHoldsForTheDay ==
  [][breaker /\ ~breaker' /\ ops' = ops => trips[day] = 0]_vars

(* "an operator's manual block_entries is never unwound by code" (deadman.py). *)
ManualBlockStays ==
  [][block /\ setter = "operator" /\ ~block' => ops' = ops + 1]_vars

(* "entries stay blocked until the operator clears drawdown_breaker" (the e-mail
   of a refused reset in breaker.py). *)
RefusalHolds ==
  [][refused /\ breaker /\ ~breaker' => ops' = ops + 1]_vars
===============================================================================
