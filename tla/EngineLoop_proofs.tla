-------------------------- MODULE EngineLoop_proofs --------------------------
(***************************************************************************)
(* Safety of the minute loop for every set of positions, every calendar,    *)
(* and every number of days, restarts, faults and events.                   *)
(***************************************************************************)
EXTENDS EngineLoop, TLAPS

(* TypeOK with the shape of the functions and of unsold added. *)
FlagsOK == ran \in BOOLEAN /\ suspended \in BOOLEAN /\ precloseDone \in BOOLEAN

SetsOK ==
  /\ open \in SUBSET Positions /\ atOpen \in SUBSET Positions /\ guarded \in SUBSET Positions
  /\ confirmed \in SUBSET Positions /\ below \in SUBSET Positions /\ lastBelow \in SUBSET Positions
  /\ left \in SUBSET Positions /\ checked \in SUBSET Positions
  /\ unsold \in [flat : SUBSET Positions, preclose : SUBSET Positions]

MapsOK ==
  /\ lane \in [Positions -> {"scalp", "news", "thesis"}]
  /\ monitors \in [Positions -> {"none", "armed", "spent"}]
  /\ decisions \in [Positions -> Nat] /\ dateSteps \in [Positions -> Nat]
  /\ barSteps \in [Positions -> Nat]

ClockOK ==
  /\ day \in 1 .. MaxDays /\ kind \in Kinds /\ t \in Early .. UntilAt
  /\ overnightDone \in {"no", "15:45", "15:55", "session_close"}
  /\ pc \in Passes \cup {"idle", "after"} /\ (pc = "idle" => left = {})
  /\ faults \in 0 .. MaxFaults /\ restarts \in 0 .. MaxRestarts /\ events \in 0 .. MaxEvents

TypeInv == FlagsOK /\ SetsOK /\ MapsOK /\ ClockOK

(* The passes of the session run in the session only: time stands still for a
   minute's work. *)
InTime == pc \in Passes => InSession

-----------------------------------------------------------------------------
(* Scalps *)

FlatBut(rest) == \A p \in open : lane[p] = "scalp" => p \in unsold.flat \cup rest

(* The minutes of 15:55 of a full day end, whichever way, with every scalp sold
   or known to be unsold; after the close nothing changes that. *)
FlatInv ==
  kind = "full" =>
    /\ t >= ClosedAt => FlatBut({})
    /\ t = PrecloseAt =>
         /\ pc = "idle" /\ ran => FlatBut({})
         /\ pc \in {"after", "preclose", "overnight"} => FlatBut({})
         /\ pc = "flat" => FlatBut(left)

-----------------------------------------------------------------------------
(* Monitors *)

Fireable == {p \in open \cap below : monitors[p] = "armed"}
MarkedBut(rest) == open \cap below \subseteq lastBelow \cup rest

(* At 15:55 the step of the minute marks every position beyond its level, so
   that no monitor is armed on it anew, and the pre-close pass of the minute
   deals with the monitors that are. *)
PrecloseInv ==
  /\ precloseDone => t >= PrecloseAt
  /\ t = PrecloseAt =>
       /\ pc = "preclose" => precloseDone
       /\ pc = "step" => MarkedBut(left)
       /\ pc \in {"flat", "preclose", "overnight"} => MarkedBut({})
       /\ precloseDone =>
            /\ MarkedBut({})
            /\ Fireable \subseteq unsold.preclose \cup (IF pc = "preclose" THEN left ELSE {})

EngineInv == InTime /\ FlatInv /\ PrecloseInv

-----------------------------------------------------------------------------
(* Types *)

USE EngineAssumption

LEMMA DueType == SetsOK => (\A pass : Due(pass) \in SUBSET Positions) /\ Due("idle") = {}
  BY DEF SetsOK, Due

(* The actions of one position. *)
Handling(p) ==
  Promote(p) \/ ArmedExit(p) \/ StepPosition(p) \/ ForceFlat(p) \/ Preclose(p)
    \/ Overnight(p) \/ SessionClose(p)

LEMMA StepFlags == ASSUME FlagsOK, [Next]_vars PROVE FlagsOK'
<1> USE DEF FlagsOK, world, memory, counts, seen, vars
<1>1. CASE Start
  BY Zenon, <1>1 DEF Start
<1>2. CASE NextPass
  BY Zenon, <1>2 DEF NextPass
<1>3. CASE AfterDone
  BY Zenon, <1>3 DEF AfterDone
<1>4. CASE Restart
  BY Zenon, <1>4 DEF Restart
<1>5. CASE World
  BY Zenon, <1>5 DEF World
<1>6. CASE Tick
  BY Zenon, <1>6 DEF Tick
<1>7. ASSUME NEW p \in Positions, Handling(p) \/ Raise(p) PROVE FlagsOK'
  BY Zenon, <1>7 DEF Handling, Promote, ArmedExit, StepPosition, ForceFlat, Preclose, Overnight,
     SessionClose, Raise
<1>8. CASE UNCHANGED vars
  BY Zenon, <1>8
<1> QED
  BY Zenon, <1>1, <1>2, <1>3, <1>4, <1>5, <1>6, <1>7, <1>8 DEF Next, Handling

LEMMA StepSets == ASSUME SetsOK, [Next]_vars PROVE SetsOK'
<1> USE DEF SetsOK, world, memory, counts, seen, vars
<1>1. CASE Start
  BY <1>1, DueType DEF Start, Enter
<1>2. CASE NextPass
  BY <1>2, DueType DEF NextPass, Enter
<1>3. CASE AfterDone
  BY <1>3, DueType DEF AfterDone, Enter
<1>4. CASE Restart
  BY <1>4, DueType DEF Restart, Enter
<1>5. CASE World
  BY <1>5 DEF World
<1>6. CASE Tick
  BY <1>6 DEF Tick
<1>7. ASSUME NEW p \in Positions, Promote(p) \/ ArmedExit(p) \/ Overnight(p) PROVE SetsOK'
  BY <1>7 DEF Promote, ArmedExit, Overnight, Handled, Sold, Refused
<1>8. ASSUME NEW p \in Positions, StepPosition(p) PROVE SetsOK'
  BY <1>8 DEF StepPosition, Handled, Sold, Refused, Marked
<1>9. ASSUME NEW p \in Positions, ForceFlat(p) PROVE SetsOK'
  BY <1>9 DEF ForceFlat, Handled, Sold, Refused, Kept
<1>10. ASSUME NEW p \in Positions, Preclose(p) PROVE SetsOK'
  BY <1>10 DEF Preclose, Handled, Sold, Refused, Kept
<1>11. ASSUME NEW p \in Positions, SessionClose(p) PROVE SetsOK'
  BY <1>11 DEF SessionClose, Handled, Marked
<1>12. ASSUME NEW p \in Positions, Raise(p) PROVE SetsOK'
  BY <1>12, DueType DEF Raise, Enter
<1>13. CASE UNCHANGED vars
  BY <1>13
<1> QED
  BY Zenon, <1>1, <1>2, <1>3, <1>4, <1>5, <1>6, <1>7, <1>8, <1>9, <1>10, <1>11, <1>12,
     <1>13 DEF Next

LEMMA StepMaps == ASSUME MapsOK, [Next]_vars PROVE MapsOK'
<1> USE DEF MapsOK, world, memory, counts, seen, vars
<1>1. CASE Start \/ NextPass \/ AfterDone \/ World
  BY Zenon, <1>1 DEF Start, NextPass, AfterDone, World
<1>2. CASE Restart
  BY <1>2 DEF Restart
<1>3. CASE Tick
  BY <1>3 DEF Tick, None
<1>4. ASSUME NEW p \in Positions, Promote(p) PROVE MapsOK'
  BY <1>4 DEF Promote
<1>5. ASSUME NEW p \in Positions, ArmedExit(p) PROVE MapsOK'
  BY <1>5 DEF ArmedExit, Popped
<1>6. ASSUME NEW p \in Positions, StepPosition(p) PROVE MapsOK'
  BY <1>6 DEF StepPosition, Popped, Armed, Arm
<1>7. ASSUME NEW p \in Positions, ForceFlat(p) PROVE MapsOK'
  BY <1>7 DEF ForceFlat, Popped
<1>8. ASSUME NEW p \in Positions, Preclose(p) PROVE MapsOK'
  BY <1>8 DEF Preclose, Popped, Armed, Arm
<1>9. ASSUME NEW p \in Positions, Overnight(p) PROVE MapsOK'
  BY <1>9 DEF Overnight
<1>10. ASSUME NEW p \in Positions, SessionClose(p) PROVE MapsOK'
  BY <1>10 DEF SessionClose, Popped, Armed, Arm
<1>11. ASSUME NEW p \in Positions, Raise(p) PROVE MapsOK'
  BY Zenon, <1>11 DEF Raise
<1>12. CASE UNCHANGED vars
  BY Zenon, <1>12
<1> QED
  BY Zenon, <1>1, <1>2, <1>3, <1>4, <1>5, <1>6, <1>7, <1>8, <1>9, <1>10, <1>11, <1>12 DEF Next

LEMMA StepClock == ASSUME TypeInv, [Next]_vars PROVE ClockOK'
<1> USE DEF ClockOK, Passes, world, memory, counts, seen, vars
<1>0. SetsOK /\ ClockOK
  BY DEF TypeInv
<1>1. CASE Start
  <2>1. pc' \in {"promotion", "after"}
    BY <1>1 DEF Start, Enter
  <2>2. UNCHANGED <<day, kind, t, overnightDone, faults, restarts, events>>
    BY Zenon, <1>1 DEF Start
  <2> QED
    BY <1>0, <2>1, <2>2
<1>2. CASE NextPass
  <2>1. pc' \in Passes \cup {"idle"} /\ (pc' = "idle" => left' = {})
    <3>1. pc' = Following[pc] /\ left' = Due(Following[pc]) /\ pc \in Passes
      BY Zenon, <1>2 DEF NextPass, Enter
    <3>2. Following[pc] \in Passes \cup {"idle"}
      BY <3>1 DEF Following, AfterStep, AfterFlat
    <3> QED
      BY Zenon, <1>0, <3>1, <3>2, DueType
  <2>2. overnightDone' \in {"no", "15:45", "15:55", "session_close"}
    BY <1>0, <1>2 DEF NextPass, Label
  <2>3. UNCHANGED <<day, kind, t, faults, restarts, events>>
    BY Zenon, <1>2 DEF NextPass
  <2> QED
    BY <1>0, <2>1, <2>2, <2>3
<1>3. CASE AfterDone
  <2>1. pc' = "idle" /\ left' = {}
    BY Zenon, <1>0, <1>3, DueType DEF AfterDone, Enter
  <2> QED
    BY <1>0, <1>3, <2>1 DEF AfterDone
<1>4. CASE Restart
  <2>1. pc' = "idle" /\ left' = {}
    BY Zenon, <1>0, <1>4, DueType DEF Restart, Enter
  <2>2. restarts < MaxRestarts /\ restarts' = restarts + 1 /\ overnightDone' = "no"
        /\ UNCHANGED <<day, kind, t, faults, events>>
    BY Zenon, <1>4 DEF Restart
  <2> QED
    BY <1>0, <2>1, <2>2
<1>5. CASE World
  <2>1. events < MaxEvents /\ events' = events + 1
        /\ UNCHANGED <<day, kind, t, overnightDone, pc, left, faults, restarts>>
    BY Zenon, <1>5 DEF World
  <2> QED
    BY <1>0, <2>1
<1>6. CASE Tick
  <2>1. UNCHANGED <<pc, left, faults, restarts, events>>
    BY Zenon, <1>6 DEF Tick
  <2>2. CASE t < UntilAt
    <3>1. t' = t + 1 /\ UNCHANGED <<day, kind, overnightDone>>
      BY Zenon, <1>6, <2>2 DEF Tick
    <3> QED
      BY <1>0, <2>1, <2>2, <3>1 DEF Early, UntilAt
  <2>3. CASE ~(t < UntilAt)
    <3>1. day < MaxDays /\ day' = day + 1 /\ kind' \in Kinds /\ t' = Early /\ overnightDone' = "no"
      BY Zenon, <1>6, <2>3 DEF Tick
    <3> QED
      BY <1>0, <2>1, <3>1 DEF Early, UntilAt
  <2> QED
    BY <2>2, <2>3
<1>7. ASSUME NEW p \in Positions, Handling(p) PROVE ClockOK'
  <2>1. UNCHANGED <<day, kind, t, overnightDone, pc, restarts, events>>
    BY Zenon, <1>7 DEF Handling, Handled, Promote, ArmedExit, StepPosition, ForceFlat, Preclose,
       Overnight, SessionClose
  <2>2. left # {}
    BY Zenon, <1>7 DEF Handling, Promote, ArmedExit, StepPosition, ForceFlat, Preclose,
       Overnight, SessionClose
  <2>3. faults' = faults \/ (faults < MaxFaults /\ faults' = faults + 1)
    BY Zenon, <1>7 DEF Handling, Promote, ArmedExit, StepPosition, ForceFlat, Preclose,
       Overnight, SessionClose, Sold, Refused
  <2> QED
    BY <1>0, <2>1, <2>2, <2>3
<1>8. ASSUME NEW p \in Positions, Raise(p) PROVE ClockOK'
  <2>1. pc' = "idle" /\ left' = {}
    BY Zenon, <1>0, <1>8, DueType DEF Raise, Enter
  <2>2. faults < MaxFaults /\ faults' = faults + 1
        /\ UNCHANGED <<day, kind, t, overnightDone, restarts, events>>
    BY Zenon, <1>8 DEF Raise
  <2> QED
    BY <1>0, <2>1, <2>2
<1>9. CASE UNCHANGED vars
  BY <1>0, <1>9
<1> QED
  BY Zenon, <1>1, <1>2, <1>3, <1>4, <1>5, <1>6, <1>7, <1>8, <1>9 DEF Next, Handling

LEMMA InitType == Init => TypeInv
<1> SUFFICES ASSUME Init PROVE TypeInv
  OBVIOUS
<1>1. FlagsOK
  BY Zenon DEF Init, FlagsOK
<1>2. SetsOK
  BY DEF Init, SetsOK
<1>3. MapsOK
  BY DEF Init, MapsOK, None
<1>4. ClockOK
  BY DEF Init, ClockOK, Early, UntilAt
<1> QED
  BY <1>1, <1>2, <1>3, <1>4 DEF TypeInv

LEMMA EngineTypes == Spec => []TypeInv
<1>1. TypeInv /\ [Next]_vars => TypeInv'
  BY Zenon, StepFlags, StepSets, StepMaps, StepClock DEF TypeInv
<1> QED
  BY <1>1, InitType, PTL DEF Spec

(* Every variable keeps its range. *)
THEOREM EngineTypeCorrect == Spec => []TypeOK
<1>1. TypeInv => TypeOK
  <2> SUFFICES ASSUME TypeInv PROVE TypeOK
    OBVIOUS
  <2>1. \A s \in {open, atOpen, guarded, confirmed, below, lastBelow, left, checked} : s \subseteq Positions
    BY DEF TypeInv, SetsOK
  <2>2. \A p \in Positions : decisions[p] \in Nat /\ dateSteps[p] \in Nat /\ barSteps[p] \in Nat
    BY DEF TypeInv, MapsOK
  <2> QED
    BY Zenon, <2>1, <2>2 DEF TypeInv, TypeOK, FlagsOK, MapsOK, ClockOK
<1> QED
  BY <1>1, EngineTypes, PTL

-----------------------------------------------------------------------------
(* The inductive invariant *)

LEMMA InitEngine == Init => EngineInv
  BY DEF Init, EngineInv, InTime, FlatInv, PrecloseInv, Passes, Early, PrecloseAt, ClosedAt

LEMMA StepInTime == ASSUME TypeInv, InTime, [Next]_vars PROVE InTime'
<1> USE DEF InTime, InSession, Passes, world, memory, counts, seen, vars
<1>1. CASE Start
  BY <1>1 DEF Start, Enter
<1>2. CASE NextPass
  BY <1>2 DEF NextPass
<1>3. CASE AfterDone \/ Restart
  BY <1>3 DEF AfterDone, Restart, Enter
<1>4. CASE World \/ UNCHANGED vars
  BY <1>4 DEF World
<1>5. CASE Tick
  BY <1>5 DEF Tick
<1>6. ASSUME NEW p \in Positions, Handling(p) PROVE InTime'
  <2>1. UNCHANGED <<kind, t, pc>>
    BY Zenon, <1>6 DEF Handling, Handled, Promote, ArmedExit, StepPosition, ForceFlat, Preclose,
       Overnight, SessionClose
  <2> QED
    BY <2>1
<1>7. ASSUME NEW p \in Positions, Raise(p) PROVE InTime'
  BY <1>7 DEF Raise, Enter
<1> QED
  BY Zenon, <1>1, <1>2, <1>3, <1>4, <1>5, <1>6, <1>7 DEF Next, Handling

LEMMA StepFlat == ASSUME TypeInv, InTime, FlatInv, [Next]_vars PROVE FlatInv'
<1> USE DEF FlatInv, FlatBut, PrecloseAt, ClosedAt, world, memory, counts, seen, vars
<1>0. SetsOK /\ MapsOK /\ ClockOK
  BY DEF TypeInv
<1>1. ASSUME kind = "full", t >= ClosedAt PROVE pc \notin Passes
  BY <1>1, <1>0 DEF InTime, InSession, Noon, ClockOK
<1>2. CASE Start
  BY <1>2, <1>0 DEF Start, Enter, InSession, SetsOK, ClockOK
<1>3. CASE NextPass
  <2>1. pc' = Following[pc] /\ left' = Due(Following[pc]) /\ pc \in Passes /\ left = {}
        /\ UNCHANGED <<kind, t, open, lane, unsold>>
    BY Zenon, <1>3 DEF NextPass, Enter
  <2>2. ASSUME kind = "full", t = PrecloseAt
        PROVE  /\ pc = "step" => pc' = "flat" /\ left' = {p \in open : lane[p] = "scalp"}
               /\ pc \in {"promotion", "openexit", "guardexit"} =>
                    pc' \in {"openexit", "guardexit", "step"}
    BY <2>1, <2>2 DEF Following, AfterStep, FlatDue, OvernightAt, FlatAt, Due
  <2> QED
    BY <1>1, <2>1, <2>2, <1>0 DEF Passes, SetsOK
<1>4. CASE AfterDone \/ Restart
  BY <1>4, <1>0 DEF AfterDone, Restart, Enter, SetsOK
<1>5. CASE World \/ UNCHANGED vars
  BY <1>5 DEF World
<1>6. CASE Tick
  BY <1>6, <1>0 DEF Tick, Early, UntilAt, ClockOK, SetsOK
<1>7. ASSUME NEW p \in Positions, Promote(p) \/ ArmedExit(p) \/ StepPosition(p) PROVE FlatInv'
  <2>1. pc \in {"promotion", "openexit", "guardexit", "step"} /\ UNCHANGED <<pc, t, kind>>
    BY Zenon, <1>7 DEF Promote, ArmedExit, StepPosition, Handled
  <2> QED
    BY <1>1, <2>1, <1>0 DEF Passes
<1>8. ASSUME NEW p \in Positions, ForceFlat(p) PROVE FlatInv'
  <2>1. pc = "flat" /\ pc' = pc /\ left' = left \ {p} /\ UNCHANGED <<t, kind, lane>>
    BY Zenon, <1>8 DEF ForceFlat, Handled
  <2>2. (open' = open \ {p} /\ unsold' = unsold)
        \/ (open' = open /\ unsold' = [unsold EXCEPT !["flat"] = @ \cup {p}])
    BY Zenon, <1>8 DEF ForceFlat, Sold, Refused, Kept
  <2> QED
    BY <1>1, <2>1, <2>2, <1>0 DEF Passes, SetsOK
<1>9. ASSUME NEW p \in Positions, Preclose(p) \/ Overnight(p) PROVE FlatInv'
  <2>1. pc \in {"preclose", "overnight"} /\ UNCHANGED <<pc, t, kind, lane>>
    BY Zenon, <1>9 DEF Preclose, Overnight, Handled
  <2>2. /\ open' \subseteq open
        /\ unsold' = unsold \/ unsold' = [unsold EXCEPT !["preclose"] = @ \cup {p}]
    BY <1>9 DEF Preclose, Overnight, Sold, Refused, Kept
  <2>3. unsold'.flat = unsold.flat
    BY <2>2, <1>0 DEF SetsOK
  <2> QED
    BY <1>1, <2>1, <2>2, <2>3, <1>0 DEF Passes, SetsOK
<1>10. ASSUME NEW p \in Positions, SessionClose(p) PROVE FlatInv'
  BY <1>10 DEF SessionClose, Handled, CloseDue
<1>11. ASSUME NEW p \in Positions, Raise(p) PROVE FlatInv'
  BY <1>11, <1>1, <1>0 DEF Raise, Enter, Passes, SetsOK
<1> QED
  BY Zenon, <1>2, <1>3, <1>4, <1>5, <1>6, <1>7, <1>8, <1>9, <1>10, <1>11 DEF Next

LEMMA StepPreclose == ASSUME TypeInv, PrecloseInv, [Next]_vars PROVE PrecloseInv'
<1> USE DEF PrecloseInv, MarkedBut, Fireable, PrecloseAt, world, memory, counts, seen, vars
<1>0. SetsOK /\ MapsOK /\ ClockOK
  BY DEF TypeInv
<1>1. CASE Start
  BY <1>1, <1>0 DEF Start, Enter, SetsOK
<1>2. CASE NextPass
  <2>1. /\ pc' = Following[pc] /\ left' = Due(Following[pc]) /\ pc \in Passes /\ left = {}
        /\ UNCHANGED <<t, open, below, lastBelow, monitors, unsold>>
    BY Zenon, <1>2 DEF NextPass, Enter, memory
  <2>2. precloseDone' <=> precloseDone \/ pc' = "preclose"
    BY Zenon, <1>2, <2>1 DEF NextPass
  <2>3. /\ pc' = "preclose" => pc = "flat" /\ t >= PrecloseAt /\ left' = open
        /\ pc' = "step" => left' = open
        /\ pc' = "flat" => pc = "step"
        /\ pc' = "overnight" /\ t = PrecloseAt => pc \in {"flat", "preclose"}
    BY <2>1, <1>0 DEF Following, AfterStep, AfterFlat, FlatDue, PrecloseDue, OvernightAt, Due,
       Passes, ClockOK, Early, UntilAt
  <2> QED
    BY <2>1, <2>2, <2>3, <1>0 DEF SetsOK
<1>3. CASE AfterDone \/ Restart
  BY <1>3, <1>0 DEF AfterDone, Restart, Enter, SetsOK
<1>4. CASE World \/ UNCHANGED vars
  BY <1>4 DEF World
<1>5. CASE Tick
  BY <1>5, <1>0 DEF Tick, Early, UntilAt, ClockOK, SetsOK
<1>6. ASSUME NEW p \in Positions, Promote(p) \/ Overnight(p) PROVE PrecloseInv'
  BY <1>6, <1>0 DEF Promote, Overnight, Handled, Sold, Refused, SetsOK
<1>7. ASSUME NEW p \in Positions, ArmedExit(p) PROVE PrecloseInv'
  BY <1>7, <1>0 DEF ArmedExit, Handled, Sold, Refused, Popped, SetsOK, MapsOK
<1>8. ASSUME NEW p \in Positions, StepPosition(p) PROVE PrecloseInv'
  BY <1>8, <1>0 DEF StepPosition, Handled, Sold, Refused, Popped, Armed, Arm, Marked, SetsOK, MapsOK
<1>9. ASSUME NEW p \in Positions, ForceFlat(p) PROVE PrecloseInv'
  <2>1. /\ pc = "flat" /\ pc' = pc /\ UNCHANGED <<t, precloseDone, below, lastBelow>>
        /\ open' \subseteq open /\ monitors' = [monitors EXCEPT ![p] = "none"]
        /\ unsold' = unsold \/ unsold' = [unsold EXCEPT !["flat"] = @ \cup {p}]
    BY <1>9 DEF ForceFlat, Handled, Sold, Refused, Kept, Popped
  <2>2. unsold'.preclose = unsold.preclose
    BY <2>1, <1>0 DEF SetsOK
  <2> QED
    BY <2>1, <2>2, <1>0 DEF SetsOK, MapsOK
<1>10. ASSUME NEW p \in Positions, Preclose(p) PROVE PrecloseInv'
  <2>1. pc = "preclose" /\ pc' = pc /\ left' = left \ {p} /\ UNCHANGED <<t, precloseDone, below, lastBelow>>
    BY Zenon, <1>10 DEF Preclose, Handled
  <2>2. \/ open' = open \ {p} /\ unsold' = unsold /\ monitors' = [monitors EXCEPT ![p] = "none"]
        \/ /\ open' = open /\ monitors' = [monitors EXCEPT ![p] = Arm(p)]
           /\ unsold' = [unsold EXCEPT !["preclose"] = @ \cup {p}]
        \/ /\ open' = open /\ monitors' = [monitors EXCEPT ![p] = Arm(p)] /\ unsold' = unsold
           /\ p \notin below \/ Arm(p) # "armed"
    BY Zenon, <1>10 DEF Preclose, Sold, Refused, Kept, Popped, Armed
  <2> QED
    BY <2>1, <2>2, <1>0 DEF SetsOK, MapsOK
<1>11. ASSUME NEW p \in Positions, SessionClose(p) PROVE PrecloseInv'
  BY <1>11 DEF SessionClose, Handled, CloseDue, ClosedAt
<1>12. ASSUME NEW p \in Positions, Raise(p) PROVE PrecloseInv'
  BY <1>12, <1>0 DEF Raise, Enter, SetsOK
<1> QED
  BY Zenon, <1>1, <1>2, <1>3, <1>4, <1>5, <1>6, <1>7, <1>8, <1>9, <1>10, <1>11, <1>12 DEF Next

LEMMA InductiveEngine == Spec => [](TypeInv /\ EngineInv)
<1>1. TypeInv /\ TypeInv' /\ EngineInv /\ [Next]_vars => EngineInv'
  BY Zenon, StepInTime, StepFlat, StepPreclose DEF EngineInv
<1> QED
  BY <1>1, EngineTypes, InitEngine, PTL DEF Spec

(* No scalp is carried over the night of a full day unless its last attempt to be
   sold failed, or the engine was suspended or raised. *)
THEOREM EngineScalpsFlat == Spec => []ScalpsFlatOnFullDays
<1>1. TypeInv /\ EngineInv => ScalpsFlatOnFullDays
  <2> SUFFICES ASSUME EngineInv, t >= ClosedAt, kind = "full"
               PROVE  \A p \in open : lane[p] = "scalp" => p \in unsold.flat
    BY Zenon DEF ScalpsFlatOnFullDays
  <2>1. FlatBut({})
    BY Zenon DEF EngineInv, FlatInv
  <2> QED
    BY <2>1 DEF FlatBut
<1> QED
  BY <1>1, InductiveEngine, PTL

(* Once the pre-close pass has run, a position beyond its level with a monitor
   that can still fire is one whose exit failed. *)
THEOREM EngineMonitoredSold == Spec => []MonitoredSoldBeforeClose
<1>1. TypeInv /\ EngineInv => MonitoredSoldBeforeClose
  <2> SUFFICES ASSUME EngineInv, t = PrecloseAt, pc = "idle", precloseDone
               PROVE  \A p \in open \cap below : monitors[p] = "armed" => p \in unsold.preclose
    BY Zenon DEF MonitoredSoldBeforeClose
  <2>1. pc # "preclose"
    OBVIOUS
  <2>2. Fireable \subseteq unsold.preclose
    BY <2>1 DEF EngineInv, PrecloseInv
  <2> QED
    BY <2>2 DEF Fireable
<1> QED
  BY <1>1, InductiveEngine, PTL

-----------------------------------------------------------------------------
(* The decisions of a day *)

(* What overnightDone stands for: the decisions that every position of the day
   may have had. *)
Marks == IF overnightDone = "no" THEN 0 ELSE IF overnightDone = "15:45" THEN 1 ELSE 2

(* A position that the running pass is done with is one ahead of the mark. *)
Ahead(p) == IF pc = "overnight" /\ p \notin left THEN 1 ELSE 0

(* The overnight pass runs only when its mark is still to be made. *)
DecisionsInv ==
  /\ pc = "overnight" => overnightDone = "no" \/ (overnightDone = "15:45" /\ t >= PrecloseAt)
  /\ \A p \in Positions : decisions[p] <= Marks + Ahead(p) + faults + 2 * restarts

(* The session bar is stepped only on the evening that has no mark yet. *)
Stepping(p) == IF pc = "after" /\ p \notin left THEN 1 ELSE 0

DatesInv ==
  \A p \in Positions :
    /\ t < ClosedAt => dateSteps[p] = 0
    /\ dateSteps[p] <= 1 + restarts
    /\ t >= ClosedAt /\ overnightDone # "session_close" => dateSteps[p] <= Stepping(p) + restarts

LEMMA CountTypes ==
  ASSUME TypeInv
  PROVE  /\ faults \in Nat /\ restarts \in Nat /\ t \in Early .. UntilAt
         /\ \A p \in Positions : decisions[p] \in Nat /\ dateSteps[p] \in Nat
         /\ overnightDone \in {"no", "15:45", "15:55", "session_close"}
         /\ (pc = "idle" => left = {}) /\ left \in SUBSET Positions
  BY DEF TypeInv, ClockOK, MapsOK, SetsOK

LEMMA InitCounts == Init => DecisionsInv /\ DatesInv
  BY DEF Init, DecisionsInv, DatesInv, Marks, Ahead, Stepping, None, Early, ClosedAt

LEMMA StepDecisions == ASSUME TypeInv, TypeInv', DecisionsInv, [Next]_vars PROVE DecisionsInv'
<1> USE DEF DecisionsInv, Marks, Ahead, world, memory, counts, seen, vars
<1>0. /\ faults \in Nat /\ restarts \in Nat /\ t \in Early .. UntilAt
      /\ \A p \in Positions : decisions[p] \in Nat
      /\ overnightDone \in {"no", "15:45", "15:55", "session_close"}
  BY Zenon, CountTypes
<1>1. CASE Start
  BY <1>1, <1>0 DEF Start, Enter
<1>2. CASE NextPass
  <2>1. /\ pc' = Following[pc] /\ pc \in Passes /\ left = {}
        /\ overnightDone' = IF pc = "overnight" THEN Label ELSE overnightDone
        /\ UNCHANGED <<t, faults, restarts, decisions>>
    BY Zenon, <1>2 DEF NextPass, Enter
  <2>2. pc' = "overnight" => OvernightDue /\ pc # "overnight"
    BY <2>1 DEF Following, AfterStep, AfterFlat, Passes
  <2>3. CASE pc = "overnight"
    <3>1. pc' # "overnight"
      BY <2>2, <2>3
    <3>2. (overnightDone = "no" /\ overnightDone' = "15:45")
          \/ (overnightDone = "15:45" /\ overnightDone' = "15:55")
      BY <2>1, <2>3 DEF Label
    <3> QED
      BY <2>1, <2>3, <3>1, <3>2, <1>0
  <2>4. CASE pc # "overnight"
    BY <2>1, <2>2, <2>4, <1>0 DEF OvernightDue
  <2> QED
    BY <2>3, <2>4
<1>3. CASE AfterDone
  BY <1>3, <1>0 DEF AfterDone, Enter
<1>4. CASE Restart
  <2>1. pc' = "idle" /\ restarts' = restarts + 1 /\ overnightDone' = "no"
        /\ UNCHANGED <<faults, decisions>>
    BY Zenon, <1>4 DEF Restart, Enter
  <2>2. \A p \in Positions : Marks + Ahead(p) <= 2
    BY <1>0
  <2> QED
    BY <2>1, <2>2, <1>0
<1>5. CASE World \/ UNCHANGED vars
  BY <1>5 DEF World
<1>6. CASE Tick
  <2>1. pc = "idle" /\ UNCHANGED <<pc, left, faults, restarts>>
    BY Zenon, <1>6 DEF Tick
  <2>2. UNCHANGED <<decisions, overnightDone>> \/ (decisions' = None /\ overnightDone' = "no")
    BY Zenon, <1>6 DEF Tick
  <2> QED
    BY <2>1, <2>2, <1>0 DEF None
<1>7. ASSUME NEW q \in Positions,
             Promote(q) \/ ArmedExit(q) \/ StepPosition(q) \/ ForceFlat(q) \/ Preclose(q) \/ SessionClose(q)
      PROVE  DecisionsInv'
  <2>1. pc # "overnight" /\ UNCHANGED <<pc, t, overnightDone, restarts, decisions>>
    BY Zenon, <1>7 DEF Handled, Promote, ArmedExit, StepPosition, ForceFlat, Preclose, SessionClose
  <2>2. faults' = faults \/ faults' = faults + 1
    BY Zenon, <1>7 DEF Promote, ArmedExit, StepPosition, ForceFlat, Preclose, SessionClose,
       Sold, Refused
  <2> QED
    BY <2>1, <2>2, <1>0
<1>8. ASSUME NEW q \in Positions, Overnight(q) PROVE DecisionsInv'
  <2>1. /\ pc = "overnight" /\ q \in left /\ left' = left \ {q}
        /\ UNCHANGED <<pc, t, overnightDone, restarts>>
        /\ decisions' = [decisions EXCEPT ![q] = @ + 1]
    BY Zenon, <1>8 DEF Overnight, Handled
  <2>2. faults' = faults \/ faults' = faults + 1
    BY Zenon, <1>8 DEF Overnight, Sold, Refused
  <2>3. \A p \in Positions : decisions'[p] = IF p = q THEN decisions[p] + 1 ELSE decisions[p]
    BY <2>1 DEF TypeInv, MapsOK
  <2> QED
    BY <2>1, <2>2, <2>3, <1>0
<1>9. ASSUME NEW q \in Positions, Raise(q) PROVE DecisionsInv'
  <2>1. pc' = "idle" /\ faults' = faults + 1 /\ UNCHANGED <<overnightDone, restarts, decisions>>
    BY Zenon, <1>9 DEF Raise, Enter
  <2> QED
    BY <2>1, <1>0
<1> QED
  BY Zenon, <1>1, <1>2, <1>3, <1>4, <1>5, <1>6, <1>7, <1>8, <1>9 DEF Next

LEMMA StepDates == ASSUME TypeInv, InTime, DatesInv, [Next]_vars PROVE DatesInv'
<1> USE DEF DatesInv, Stepping, ClosedAt, world, memory, counts, seen, vars
<1>0. /\ restarts \in Nat /\ t \in Early .. UntilAt
      /\ \A p \in Positions : dateSteps[p] \in Nat
      /\ (pc = "idle" => left = {}) /\ left \in SUBSET Positions
  BY Zenon, CountTypes
<1>1. pc \in Passes => t < ClosedAt
  BY <1>0 DEF InTime, InSession, PrecloseAt, Noon, Early, UntilAt
<1>2. CASE Start
  <2>1. pc = "idle" /\ UNCHANGED <<t, overnightDone, restarts, dateSteps>>
    BY Zenon, <1>2 DEF Start
  <2> QED
    BY <2>1, <1>0
<1>3. CASE NextPass
  <2>1. pc \in Passes /\ UNCHANGED <<t, restarts, dateSteps>>
    BY Zenon, <1>3 DEF NextPass
  <2> QED
    BY <2>1, <1>1, <1>0
<1>4. CASE AfterDone
  <2>1. /\ pc' = "idle" /\ UNCHANGED <<t, restarts, dateSteps>>
        /\ t >= ClosedAt => overnightDone' = "session_close"
    BY Zenon, <1>4 DEF AfterDone, Enter
  <2> QED
    BY <2>1
<1>5. CASE Restart
  <2>1. pc' = "idle" /\ restarts' = restarts + 1 /\ UNCHANGED <<t, dateSteps>>
    BY Zenon, <1>5 DEF Restart, Enter
  <2> QED
    BY <2>1, <1>0
<1>6. CASE World \/ UNCHANGED vars
  BY <1>6 DEF World
<1>7. CASE Tick
  <2>1. pc = "idle" /\ UNCHANGED <<pc, left, restarts>>
    BY Zenon, <1>7 DEF Tick
  <2>2. (t' = t + 1 /\ UNCHANGED <<dateSteps, overnightDone>>) \/ dateSteps' = None
    BY Zenon, <1>7 DEF Tick
  <2> QED
    BY <2>1, <2>2, <1>0 DEF None, Early, UntilAt
<1>8. ASSUME NEW q \in Positions,
             Promote(q) \/ ArmedExit(q) \/ StepPosition(q) \/ ForceFlat(q) \/ Preclose(q)
               \/ Overnight(q) \/ Raise(q)
      PROVE  DatesInv'
  <2>1. pc \in Passes /\ UNCHANGED <<t, restarts, dateSteps>>
    BY Zenon, <1>8 DEF Passes, Promote, ArmedExit, StepPosition, ForceFlat, Preclose, Overnight, Raise
  <2> QED
    BY <2>1, <1>1, <1>0
<1>9. ASSUME NEW q \in Positions, SessionClose(q) PROVE DatesInv'
  <2>1. /\ pc = "after" /\ CloseDue /\ q \in left /\ left' = left \ {q}
        /\ UNCHANGED <<pc, t, overnightDone, restarts>>
        /\ dateSteps' = [dateSteps EXCEPT ![q] = @ + 1]
    BY Zenon, <1>9 DEF SessionClose, Handled
  <2>2. \A p \in Positions : dateSteps'[p] = IF p = q THEN dateSteps[p] + 1 ELSE dateSteps[p]
    BY <2>1 DEF TypeInv, MapsOK
  <2> QED
    BY <2>1, <2>2, <1>0 DEF CloseDue
<1> QED
  BY Zenon, <1>2, <1>3, <1>4, <1>5, <1>6, <1>7, <1>8, <1>9 DEF Next

(* D1 is decided at 15:45 and once more at 15:55 of a date, and again only for a
   minute that raised or a process that restarted. *)
THEOREM EngineDecidedTwice == Spec => []DecidedTwiceADay
<1>1. TypeInv /\ TypeInv' /\ DecisionsInv /\ [Next]_vars => DecisionsInv'
  BY Zenon, StepDecisions
<1>2. TypeInv /\ DecisionsInv => DecidedTwiceADay
  <2> SUFFICES ASSUME TypeInv, DecisionsInv, NEW p \in Positions
               PROVE  decisions[p] <= 2 + faults + 2 * restarts
    BY Zenon DEF DecidedTwiceADay
  <2> QED
    BY CountTypes DEF DecisionsInv, Marks, Ahead
<1> QED
  BY <1>1, <1>2, InitCounts, EngineTypes, PTL DEF Spec

(* The finished session bar is stepped at most once on a date, plus once for
   every restart of the process. *)
THEOREM EngineSteppedOnce == Spec => []SteppedOncePerDate
<1>1. TypeInv /\ EngineInv /\ DatesInv /\ [Next]_vars => DatesInv'
  BY Zenon, StepDates DEF EngineInv
<1>2. DatesInv => SteppedOncePerDate
  BY Zenon DEF DatesInv, SteppedOncePerDate
<1> QED
  BY <1>1, <1>2, InitCounts, InductiveEngine, PTL DEF Spec
===============================================================================
