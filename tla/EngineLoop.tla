----------------------------- MODULE EngineLoop -----------------------------
(***************************************************************************)
(* The minute loop of C4's exit engine over several positions and several  *)
(* dates: the order of its passes, what each reads afresh, which failures  *)
(* are contained, what is remembered in memory only, and the times of the  *)
(* day at which a pass is due.  Who writes the policy of a position is the *)
(* subject of ExitPolicy, how an exit is carried out that of ExitMechanics.*)
(***************************************************************************)
EXTENDS Naturals, FiniteSets

CONSTANTS
  Positions,    \* open positions at the start
  Kinds,        \* the kinds of dates that occur: "full", "half", "closed"
  MaxDays, MaxRestarts,
  MaxFaults,    \* calls that raise and exits that come back REINSTATED
  MaxEvents     \* arms, confirmations and suspensions

ASSUME EngineAssumption ==
  /\ IsFiniteSet(Positions) /\ Kinds \subseteq {"full", "half", "closed"}
  /\ MaxDays \in Nat \ {0} /\ {MaxFaults, MaxRestarts, MaxEvents} \subseteq Nat

VARIABLES
  day, kind,      \* the date and what the exchange calendar says of it
  t,              \* the time of the day
  ran,            \* a pass was begun at this time
  suspended,      \* exit_engine_suspended
  lane,           \* overnight_hold and horizon: "scalp", "news" or "thesis"
  open, atOpen, guarded, confirmed,   \* sets of positions, see ExitPolicy
  below,          \* the price is beyond the level of the session predicate
  lastBelow,      \* so was last_price of the row
  monitors,       \* "none", "armed", or "spent": rejected at arming, or fired
  overnightDone, precloseDone,        \* in memory
  pc, left,       \* the pass that runs, the positions it has still to look at
  faults, restarts, events,   \* what the bounds count
  unsold,         \* by pass: positions whose exit was refused, raised or skipped
  checked,        \* positions that this minute's step has seen or failed on
  decisions,      \* D1 decisions of the date
  dateSteps,      \* session bars stepped on this date ...
  barSteps        \* ... and steps of the last finished session's bar

world  == <<day, kind, t, suspended, atOpen, guarded, confirmed, below>>
memory == <<monitors, overnightDone, precloseDone>>
counts == <<faults, restarts, events>>
seen   == <<unsold, checked, decisions, dateSteps, barSteps>>
vars   == <<world, ran, lane, open, lastBelow, memory, pc, left, counts, seen>>

(* 09:31, 09:35, 12:30, 15:45, 15:50, 15:55, 16:01 and 17:30. *)
Early == 1
OpenExitAt == 2
Noon == 3
OvernightAt == 4
FlatAt == 5
PrecloseAt == 6
ClosedAt == 7
UntilAt == 8

(* minutes_to_close: half days end at 13:00. *)
InSession == (kind = "full" /\ t <= PrecloseAt) \/ (kind = "half" /\ t <= Noon)

Passes == {"promotion", "openexit", "guardexit", "step", "flat", "preclose", "overnight"}

TypeOK ==
  /\ day \in 1 .. MaxDays /\ kind \in Kinds /\ t \in Early .. UntilAt
  /\ {ran, suspended, precloseDone} \subseteq BOOLEAN
  /\ lane \in [Positions -> {"scalp", "news", "thesis"}]
  /\ \A s \in {open, atOpen, guarded, confirmed, below, lastBelow, left, checked} :
       s \subseteq Positions
  /\ monitors \in [Positions -> {"none", "armed", "spent"}]
  /\ overnightDone \in {"no", "15:45", "15:55", "session_close"}
  /\ pc \in Passes \cup {"idle", "after"} /\ (pc = "idle" => left = {})
  /\ faults \in 0 .. MaxFaults
  /\ restarts \in 0 .. MaxRestarts /\ events \in 0 .. MaxEvents
  /\ \A p \in Positions : decisions[p] \in Nat /\ dateSteps[p] \in Nat /\ barSteps[p] \in Nat

None == [p \in Positions |-> 0]

Init ==
  /\ day = 1 /\ kind \in Kinds /\ t = Early /\ ran = FALSE /\ suspended = FALSE
  /\ lane \in [Positions -> {"scalp", "news", "thesis"}]
  /\ open = Positions /\ atOpen = {} /\ guarded = {} /\ confirmed = {}
  /\ below = {} /\ lastBelow = {}
  /\ monitors = [p \in Positions |-> "none"]
  /\ overnightDone = "no" /\ precloseDone = FALSE
  /\ pc = "idle" /\ left = {}
  /\ faults = 0 /\ restarts = 0 /\ events = 0
  /\ unsold = [flat |-> {}, preclose |-> {}] /\ checked = {}
  /\ decisions = None /\ dateSteps = None /\ barSteps = None

-----------------------------------------------------------------------------
(* The frame of a pass.  Every pass reads the open positions afresh and looks at
   those its rule is about. *)

Due(pass) ==
  CASE pass = "promotion" -> {p \in open \cap confirmed : lane[p] = "scalp"}
    [] pass = "openexit"  -> IF t >= OpenExitAt THEN open \cap atOpen ELSE {}
    [] pass = "guardexit" -> open \cap guarded
    [] pass = "flat"      -> IF t >= FlatAt THEN {p \in open : lane[p] = "scalp"} ELSE {}
    [] pass = "overnight" -> {p \in open : lane[p] = "news"}
    [] pass = "idle"      -> {}
    [] OTHER              -> open

Enter(pass) == pc' = pass /\ left' = Due(pass)

Start ==
  /\ pc = "idle" /\ ran' = TRUE
  /\ Enter(IF InSession /\ ~suspended THEN "promotion" ELSE "after")
  /\ checked' = {}
  /\ unsold' = IF InSession THEN [unsold EXCEPT !.flat = IF suspended THEN open ELSE {}]
                            ELSE unsold
  /\ UNCHANGED <<world, lane, open, lastBelow, memory, counts, decisions, dateSteps, barSteps>>

(* What is due after the minute's steps, at this time and with this memory. *)
FlatDue      == t >= OvernightAt
PrecloseDue  == t >= PrecloseAt /\ ~precloseDone
OvernightDue == (t >= PrecloseAt /\ overnightDone = "15:45") \/ (t >= OvernightAt /\ overnightDone = "no")
Label        == IF t >= PrecloseAt /\ overnightDone = "15:45" THEN "15:55" ELSE "15:45"

AfterStep == CASE FlatDue -> "flat" [] ~FlatDue /\ OvernightDue -> "overnight" [] OTHER -> "idle"
AfterFlat == CASE PrecloseDue -> "preclose" [] ~PrecloseDue /\ OvernightDue -> "overnight" [] OTHER -> "idle"

Following == [promotion |-> "openexit", openexit |-> "guardexit", guardexit |-> "step",
              step |-> AfterStep, flat |-> AfterFlat,
              preclose |-> IF OvernightDue THEN "overnight" ELSE "idle", overnight |-> "idle"]

(* A pass is done: the overnight pass is marked now, the pre-close pass, which is
   the next, before it looks at anything. *)
NextPass ==
  /\ pc \in Passes /\ left = {}
  /\ Enter(Following[pc])
  /\ overnightDone' = IF pc = "overnight" THEN Label ELSE overnightDone
  /\ precloseDone' = (precloseDone \/ Following[pc] = "preclose")
  /\ UNCHANGED <<world, ran, lane, open, lastBelow, monitors, counts, seen>>

Handled(p) == left' = left \ {p} /\ UNCHANGED pc

(* execute_exit: the position is closed, or its stop is put back. *)
Sold(p)    == open' = open \ {p} /\ UNCHANGED faults
Refused(p) == faults < MaxFaults /\ faults' = faults + 1 /\ UNCHANGED open
Popped(p)  == monitors' = [monitors EXCEPT ![p] = "none"]
Kept(pass, p) == unsold' = [unsold EXCEPT ![pass] = @ \cup {p}]

-----------------------------------------------------------------------------
(* The passes, one position at a time. *)

Promote(p) ==
  /\ pc = "promotion" /\ p \in left /\ Handled(p)
  /\ lane' = [lane EXCEPT ![p] = "news"]
  /\ UNCHANGED <<world, ran, open, lastBelow, memory, counts, seen>>

(* open_exit_pass and guard_exit_pass: whatever the outcome, the monitors go. *)
ArmedExit(p) ==
  /\ pc \in {"openexit", "guardexit"} /\ p \in left /\ Handled(p)
  /\ Popped(p) /\ (Sold(p) \/ Refused(p))
  /\ UNCHANGED <<world, ran, lane, lastBelow, overnightDone, precloseDone, restarts, events, seen>>

(* arm(): once per position and process; a level that last_price is beyond is
   rejected as IMMEDIATE_FIRE and the position goes without. *)
Arm(p) == IF monitors[p] # "none" THEN monitors[p]
          ELSE IF p \in lastBelow THEN "spent" ELSE "armed"

Armed(p)  == monitors' = [monitors EXCEPT ![p] = Arm(p)]
Marked(p) == lastBelow' = IF p \in below THEN lastBelow \cup {p} ELSE lastBelow \ {p}

(* The minute's bar: the monitor is armed, the mark written, and any layer may
   call for the exit.  A raise is contained here. *)
StepPosition(p) ==
  /\ pc = "step" /\ p \in left /\ Handled(p)
  /\ checked' = checked \cup {p} /\ Marked(p)
  /\ \/ Armed(p) /\ UNCHANGED <<open, faults>>
     \/ Popped(p) /\ (Sold(p) \/ Refused(p))
     \/ Armed(p) /\ Refused(p)                  \* it raised
  /\ UNCHANGED <<world, ran, lane, overnightDone, precloseDone, restarts, events,
                 unsold, decisions, dateSteps, barSteps>>

(* A mutant: the flattening starts with the close. *)
ForceFlatLate(p) ==
  /\ pc = "flat" /\ p \in left /\ Handled(p) /\ Popped(p)
  /\ IF t > PrecloseAt THEN Sold(p) ELSE UNCHANGED <<open, faults>>
  /\ UNCHANGED <<world, ran, lane, lastBelow, overnightDone, precloseDone, restarts, events, seen>>

ForceFlat(p) ==
  /\ pc = "flat" /\ p \in left /\ Handled(p) /\ Popped(p)
  /\ \/ Sold(p) /\ UNCHANGED unsold
     \/ Refused(p) /\ Kept("flat", p)
  /\ UNCHANGED <<world, ran, lane, lastBelow, overnightDone, precloseDone, restarts, events,
                 checked, decisions, dateSteps, barSteps>>

(* A mutant: the provisional bar is fed to the monitors instead of shown. *)
PrecloseAdvances(p) ==
  /\ pc = "preclose" /\ p \in left /\ Handled(p)
  /\ Armed(p) /\ UNCHANGED <<open, faults, unsold>>
  /\ UNCHANGED <<world, ran, lane, lastBelow, overnightDone, precloseDone, restarts, events,
                 checked, decisions, dateSteps, barSteps>>

(* The provisional session bar, seen by monitors that can still fire; they are
   peeked at, not advanced. *)
Preclose(p) ==
  /\ pc = "preclose" /\ p \in left /\ Handled(p)
  /\ IF Arm(p) = "armed" /\ p \in below
     THEN \/ Sold(p) /\ Popped(p) /\ UNCHANGED unsold
          \/ Refused(p) /\ Armed(p) /\ Kept("preclose", p)
     ELSE Armed(p) /\ UNCHANGED <<open, faults, unsold>>
  /\ UNCHANGED <<world, ran, lane, lastBelow, overnightDone, precloseDone, restarts, events,
                 checked, decisions, dateSteps, barSteps>>

(* overnight_decision: hold or exit, for short horizons that are not scalps. *)
Overnight(p) ==
  /\ pc = "overnight" /\ p \in left /\ Handled(p)
  /\ decisions' = [decisions EXCEPT ![p] = @ + 1]
  /\ (UNCHANGED <<open, faults>> \/ Sold(p) \/ Refused(p))
  /\ UNCHANGED <<world, ran, lane, lastBelow, memory, restarts, events,
                 unsold, checked, dateSteps, barSteps>>

(* Out of session, or with the engine suspended. *)
CloseDue == t = ClosedAt /\ overnightDone # "session_close"

(* Each open position sees the last finished session's bar, collapsed to its
   close; an exit it calls for cannot fill after hours and its monitors go, a
   raise is contained and leaves a predicate that fired latched. *)
SessionClose(p) ==
  /\ pc = "after" /\ CloseDue /\ p \in left /\ Handled(p)
  /\ Marked(p)
  /\ dateSteps' = [dateSteps EXCEPT ![p] = @ + 1]
  /\ barSteps' = [barSteps EXCEPT ![p] = @ + 1]
  /\ LET fires == Arm(p) = "armed" /\ p \in below IN
       \/ (IF fires THEN Popped(p) ELSE Armed(p)) /\ UNCHANGED faults
       \/ Popped(p) /\ UNCHANGED faults        \* the close is through the stop
       \/ /\ faults < MaxFaults /\ faults' = faults + 1
          /\ monitors' = [monitors EXCEPT ![p] = IF fires THEN "spent" ELSE Arm(p)]
  /\ UNCHANGED <<world, ran, lane, open, overnightDone, precloseDone, restarts, events,
                 unsold, checked, decisions>>

AfterDone ==
  /\ pc = "after" /\ (left = {} \/ ~CloseDue)
  /\ Enter("idle")
  /\ overnightDone' = IF t >= ClosedAt THEN "session_close" ELSE overnightDone
  /\ UNCHANGED <<world, ran, lane, open, lastBelow, monitors, precloseDone, counts, seen>>

(* A raise that no pass contains ends the minute: the positions after it in this
   pass, and all passes after it, are left out.  Nothing is unmarked. *)
Raise(p) ==
  /\ pc \in Passes \ {"step"} /\ p \in left /\ faults < MaxFaults
  /\ faults' = faults + 1
  /\ Enter("idle")
  /\ checked' = IF pc \in {"promotion", "openexit", "guardexit"} THEN checked \cup {p} ELSE checked
  /\ unsold' = [flat     |-> IF pc = "preclose" \/ pc = "overnight" THEN unsold.flat ELSE open,
                preclose |-> IF pc = "preclose" THEN unsold.preclose \cup left ELSE unsold.preclose]
  /\ UNCHANGED <<world, ran, lane, open, lastBelow, memory, restarts, events,
                 decisions, dateSteps, barSteps>>

(* The process dies and comes back, its memory empty. *)
Restart ==
  /\ restarts < MaxRestarts /\ restarts' = restarts + 1
  /\ Enter("idle") /\ ran' = FALSE
  /\ monitors' = [p \in Positions |-> "none"]
  /\ overnightDone' = "no" /\ precloseDone' = FALSE
  /\ UNCHANGED <<world, lane, open, lastBelow, faults, events, seen>>

-----------------------------------------------------------------------------
(* The world between two minutes: A12 and C11 arm and confirm, the dead-man
   switch suspends and resumes, prices move. *)
World ==
  /\ pc = "idle" /\ events < MaxEvents /\ events' = events + 1
  /\ \/ \E p \in open : guarded' = guarded \cup {p} /\ UNCHANGED <<atOpen, confirmed, suspended>>
     \/ \E p \in open : /\ ~InSession /\ lane[p] = "thesis" /\ atOpen' = atOpen \cup {p}
                        /\ UNCHANGED <<guarded, confirmed, suspended>>
     \/ \E p \in open : confirmed' = confirmed \cup {p} /\ UNCHANGED <<atOpen, guarded, suspended>>
     \/ suspended' = ~suspended /\ UNCHANGED <<atOpen, guarded, confirmed>>
  /\ UNCHANGED <<day, kind, t, below, ran, lane, open, lastBelow, memory, pc, left,
                 faults, restarts, seen>>

(* Time goes on when the loop, which runs every minute, has had its pass. *)
Tick ==
  /\ pc = "idle" /\ ran /\ ran' = FALSE /\ checked' = {}
  /\ IF t < UntilAt
     THEN /\ t' = t + 1 /\ UNCHANGED <<day, kind, precloseDone, overnightDone, decisions, dateSteps, unsold>>
          /\ barSteps' = IF t' = ClosedAt /\ kind # "closed" THEN None ELSE barSteps
          /\ IF t' \in {Noon, PrecloseAt} /\ kind # "closed"
             THEN below' \in SUBSET open ELSE UNCHANGED below
     ELSE /\ day < MaxDays /\ day' = day + 1 /\ kind' \in Kinds /\ t' = Early
          /\ precloseDone' = FALSE /\ overnightDone' = "no"
          /\ decisions' = None /\ dateSteps' = None /\ unsold' = [unsold EXCEPT !.preclose = {}]
          /\ UNCHANGED <<below, barSteps>>
  /\ UNCHANGED <<suspended, atOpen, guarded, confirmed, lane, open, lastBelow, monitors, pc, left, counts>>

Next ==
  \/ Start \/ NextPass \/ AfterDone \/ Restart \/ World \/ Tick
  \/ \E p \in Positions :
       Promote(p) \/ ArmedExit(p) \/ StepPosition(p) \/ ForceFlat(p) \/ Preclose(p)
         \/ Overnight(p) \/ SessionClose(p) \/ Raise(p)

Spec == Init /\ [][Next]_vars

-----------------------------------------------------------------------------
(* Properties *)

(* "HARD RULE: C4 market-exits at force_flat_time_et": no scalp is carried over
   a night unless the last attempt to sell it failed or the engine was suspended. *)
NoScalpOvernight ==
  t >= ClosedAt /\ kind # "closed" => \A p \in open : lane[p] = "scalp" => p \in unsold.flat

(* So it is on full days. *)
ScalpsFlatOnFullDays ==
  t >= ClosedAt /\ kind = "full" => \A p \in open : lane[p] = "scalp" => p \in unsold.flat

(* "One position's failure is logged and the pass continues": a minute of the
   session that has begun sees every open position. *)
EveryPositionSeen ==
  [][(pc \in Passes /\ pc' = "idle" /\ restarts' = restarts) => open' \subseteq checked']_vars

(* Before the close, a position beyond its level whose monitor can still fire is
   sold, unless the exit was refused or the pass raised. *)
MonitoredSoldBeforeClose ==
  (t = PrecloseAt /\ pc = "idle" /\ ran /\ ~suspended /\ InSession /\ precloseDone) =>
     \A p \in open \cap below : monitors[p] = "armed" => p \in unsold.preclose

(* The docstring's promise, without regard to the state of the monitor. *)
InvalidatedSoldBeforeClose ==
  (t = PrecloseAt /\ pc = "idle" /\ ran /\ ~suspended /\ InSession /\ precloseDone) =>
     \A p \in open \cap below : p \in unsold.preclose

(* D1 is decided at 15:45 and once more at 15:55, and again only for a minute
   that raised or a process that restarted. *)
DecidedTwiceADay == \A p \in Positions : decisions[p] <= 2 + faults + 2 * restarts

(* The finished session bar is stepped once on a date, or once per process. *)
SteppedOncePerDate == \A p \in Positions : dateSteps[p] <= 1 + restarts

(* "After the close, once": a session's bar is stepped once. *)
SessionBarOnce == \A p \in Positions : barSteps[p] <= 1 + restarts
=============================================================================
