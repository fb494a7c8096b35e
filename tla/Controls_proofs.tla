---------------------------- MODULE Controls_proofs ----------------------------
(***************************************************************************)
(* Safety of the controls for every trip limit, window, number of days,     *)
(* operator commands and aborted passes.                                    *)
(***************************************************************************)
EXTENDS Controls, FiniteSetTheorems, TLAPS

(* A clean operator block is not the monitor's, and the monitor, whatever it
   read before, is not about to write the flag. *)
CleanIsUntouched == clean => block /\ ~owner /\ ~Writing

(* With the kill switch on, an intent past its pre-flight is the first one. *)
FirstSlip == kill => IF cleared THEN slipped = 0 ELSE slipped <= 1

ControlsInv == TypeOK /\ CleanIsUntouched /\ FirstSlip

USE ControlsAssumption

LEMMA InitType == Init => TypeOK
<1>1. Init => FlagsOK
  BY Zenon DEF Init, FlagsOK
<1>2. Init => CountsOK
  BY DEF Init, CountsOK, Days, Rungs, Steps
<1> QED
  BY <1>1, <1>2 DEF TypeOK

(* The flags stay Boolean. *)
LEMMA StepFlags == ASSUME TypeOK, [Next]_vars PROVE FlagsOK'
<1> USE DEF TypeOK, FlagsOK, Goto, deadman, breakerVars, environment,
        pass, entries, provenance, bounds
<1>1. ASSUME ReadHeartbeats PROVE FlagsOK'
  BY Zenon, <1>1 DEF ReadHeartbeats
<1>2. ASSUME ReadBlock PROVE FlagsOK'
  BY Zenon, <1>2 DEF ReadBlock
<1>3. ASSUME SetBlock PROVE FlagsOK'
  BY Zenon, <1>3 DEF SetBlock
<1>4. ASSUME OwnBlock PROVE FlagsOK'
  BY Zenon, <1>4 DEF OwnBlock
<1>5. ASSUME ClearBlock PROVE FlagsOK'
  BY Zenon, <1>5 DEF ClearBlock
<1>6. ASSUME DisownBlock PROVE FlagsOK'
  BY Zenon, <1>6 DEF DisownBlock
<1>7. ASSUME SuspendExits PROVE FlagsOK'
  BY Zenon, <1>7 DEF SuspendExits
<1>8. ASSUME ReadHistory PROVE FlagsOK'
  BY Zenon, <1>8 DEF ReadHistory, Decision
<1>9. ASSUME ApplyReset PROVE FlagsOK'
  BY Zenon, <1>9 DEF ApplyReset
<1>10. ASSUME JudgePnl PROVE FlagsOK'
  BY Zenon, <1>10 DEF JudgePnl
<1>11. ASSUME Trip PROVE FlagsOK'
  BY Zenon, <1>11 DEF Trip, Record
<1>12. ASSUME Abort PROVE FlagsOK'
  BY Zenon, <1>12 DEF Abort
<1>13. ASSUME Preflight PROVE FlagsOK'
  BY Zenon, <1>13 DEF Preflight
<1>14. ASSUME Submit PROVE FlagsOK'
  BY Zenon, <1>14 DEF Submit
<1>15. ASSUME RaiseBlock PROVE FlagsOK'
  BY Zenon, <1>15 DEF RaiseBlock, Command
<1>16. ASSUME LowerBlock PROVE FlagsOK'
  BY Zenon, <1>16 DEF LowerBlock, Command
<1>17. ASSUME Kill PROVE FlagsOK'
  BY Zenon, <1>17 DEF Kill, Command
<1>18. ASSUME Resume PROVE FlagsOK'
  BY Zenon, <1>18 DEF Resume
<1>19. ASSUME LowerBreaker PROVE FlagsOK'
  BY Zenon, <1>19 DEF LowerBreaker, Command
<1>20. ASSUME Drift PROVE FlagsOK'
  BY Zenon, <1>20 DEF Drift
<1>21. ASSUME NextDay PROVE FlagsOK'
  BY Zenon, <1>21 DEF NextDay
<1>22. ASSUME UNCHANGED vars PROVE FlagsOK'
  BY Zenon, <1>22 DEF vars
<1> QED
  BY <1>1, <1>2, <1>3, <1>4, <1>5, <1>6, <1>7, <1>8, <1>9, <1>10, <1>11, <1>12, <1>13,
     <1>14, <1>15, <1>16, <1>17, <1>18, <1>19, <1>20, <1>21, <1>22 DEF Next, Pass, Operator

(* The other variables stay in their ranges. *)
LEMMA StepCounts == ASSUME TypeOK, [Next]_vars PROVE CountsOK'
<1> USE DEF TypeOK, CountsOK, Days, Rungs, Steps, Goto, deadman, breakerVars, environment,
        pass, entries, provenance, bounds
<1>1. ASSUME ReadHeartbeats PROVE CountsOK'
  BY <1>1 DEF ReadHeartbeats
<1>2. ASSUME ReadBlock PROVE CountsOK'
  BY <1>2 DEF ReadBlock
<1>3. ASSUME SetBlock PROVE CountsOK'
  BY <1>3 DEF SetBlock
<1>4. ASSUME OwnBlock PROVE CountsOK'
  BY <1>4 DEF OwnBlock
<1>5. ASSUME ClearBlock PROVE CountsOK'
  BY <1>5 DEF ClearBlock
<1>6. ASSUME DisownBlock PROVE CountsOK'
  BY <1>6 DEF DisownBlock
<1>7. ASSUME SuspendExits PROVE CountsOK'
  BY <1>7 DEF SuspendExits
<1>8. ASSUME ReadHistory PROVE CountsOK'
  BY <1>8 DEF ReadHistory, Decision
<1>9. ASSUME ApplyReset PROVE CountsOK'
  <2>1. /\ resets' = resets \/ resets' = resets \cup {day}
        /\ pc' = "pnl" /\ verdict' = "NONE" /\ asOf' = 0
        /\ UNCHANGED <<wanted, trips, rung, day, setter, slipped, ops, aborts>>
    BY Zenon, <1>9 DEF ApplyReset
  <2>2. resets' \subseteq Days
    BY Zenon, <2>1
  <2>3. /\ pc' \in Steps /\ asOf' \in Days /\ verdict' \in {"NONE", "RESET", "REFUSE"}
    BY <2>1
  <2> QED
    BY Zenon, <2>1, <2>2, <2>3
<1>10. ASSUME JudgePnl PROVE CountsOK'
  BY <1>10 DEF JudgePnl
<1>11. ASSUME Trip PROVE CountsOK'
  BY <1>11 DEF Trip, Record
<1>12. ASSUME Abort PROVE CountsOK'
  BY <1>12 DEF Abort
<1>13. ASSUME Preflight PROVE CountsOK'
  BY <1>13 DEF Preflight
<1>14. ASSUME Submit PROVE CountsOK'
  BY <1>14 DEF Submit
<1>15. ASSUME RaiseBlock PROVE CountsOK'
  BY <1>15 DEF RaiseBlock, Command
<1>16. ASSUME LowerBlock PROVE CountsOK'
  BY <1>16 DEF LowerBlock, Command
<1>17. ASSUME Kill PROVE CountsOK'
  BY <1>17 DEF Kill, Command
<1>18. ASSUME Resume PROVE CountsOK'
  BY <1>18 DEF Resume
<1>19. ASSUME LowerBreaker PROVE CountsOK'
  BY <1>19 DEF LowerBreaker, Command
<1>20. ASSUME Drift PROVE CountsOK'
  BY <1>20 DEF Drift
<1>21. ASSUME NextDay PROVE CountsOK'
  BY <1>21 DEF NextDay
<1>22. ASSUME UNCHANGED vars PROVE CountsOK'
  BY <1>22 DEF vars
<1> QED
  BY <1>1, <1>2, <1>3, <1>4, <1>5, <1>6, <1>7, <1>8, <1>9, <1>10, <1>11, <1>12, <1>13,
     <1>14, <1>15, <1>16, <1>17, <1>18, <1>19, <1>20, <1>21, <1>22 DEF Next, Pass, Operator

(* The monitor touches the flag only if it read it lowered, or as its own. *)
LEMMA StepClean == ASSUME CleanIsUntouched, [Next]_vars PROVE CleanIsUntouched'
<1> USE DEF CleanIsUntouched, Writing, Goto, deadman, breakerVars, environment,
        pass, entries, provenance, bounds
<1>1. ASSUME ReadHeartbeats PROVE CleanIsUntouched'
  BY Zenon, <1>1 DEF ReadHeartbeats
<1>2. ASSUME ReadBlock PROVE CleanIsUntouched'
  <2>1. CASE clean
    <3>1. pc' = "exits"
      BY Zenon, <1>2, <2>1 DEF ReadBlock
    <3> QED
      BY Zenon, <1>2, <2>1, <3>1 DEF ReadBlock
  <2>2. CASE ~clean
    BY Zenon, <1>2, <2>2 DEF ReadBlock
  <2> QED
    BY <2>1, <2>2
<1>3. ASSUME SetBlock \/ OwnBlock \/ ClearBlock \/ DisownBlock PROVE CleanIsUntouched'
  <2>1. ~clean /\ clean' = clean
    BY Zenon, <1>3 DEF SetBlock, OwnBlock, ClearBlock, DisownBlock
  <2> QED
    BY Zenon, <2>1
<1>4. ASSUME SuspendExits PROVE CleanIsUntouched'
  BY Zenon, <1>4 DEF SuspendExits
<1>5. ASSUME ReadHistory PROVE CleanIsUntouched'
  BY Zenon, <1>5 DEF ReadHistory
<1>6. ASSUME ApplyReset PROVE CleanIsUntouched'
  BY Zenon, <1>6 DEF ApplyReset
<1>7. ASSUME JudgePnl \/ Trip PROVE CleanIsUntouched'
  BY Zenon, <1>7 DEF JudgePnl, Trip
<1>8. ASSUME Abort PROVE CleanIsUntouched'
  BY Zenon, <1>8 DEF Abort
<1>9. ASSUME Preflight \/ Submit PROVE CleanIsUntouched'
  BY Zenon, <1>9 DEF Preflight, Submit
<1>10. ASSUME RaiseBlock PROVE CleanIsUntouched'
  BY Zenon, <1>10 DEF RaiseBlock
<1>11. ASSUME LowerBlock PROVE CleanIsUntouched'
  BY Zenon, <1>11 DEF LowerBlock
<1>12. ASSUME Kill \/ Resume \/ LowerBreaker PROVE CleanIsUntouched'
  BY Zenon, <1>12 DEF Kill, Resume, LowerBreaker
<1>13. ASSUME Drift \/ NextDay PROVE CleanIsUntouched'
  BY Zenon, <1>13 DEF Drift, NextDay
<1>14. ASSUME UNCHANGED vars PROVE CleanIsUntouched'
  BY Zenon, <1>14 DEF vars
<1> QED
  BY <1>1, <1>2, <1>3, <1>4, <1>5, <1>6, <1>7, <1>8, <1>9, <1>10, <1>11, <1>12,
     <1>13, <1>14 DEF Next, Pass, Operator

(* Only a submission counts, and a pre-flight passes with the switch off. *)
LEMMA StepSlip == ASSUME TypeOK, FirstSlip, [Next]_vars PROVE FirstSlip'
<1>1. ASSUME UNCHANGED <<kill, cleared, slipped>> PROVE FirstSlip'
  BY Zenon, <1>1 DEF FirstSlip
<1>2. ASSUME Pass \/ Abort PROVE UNCHANGED <<kill, cleared, slipped>>
  BY Zenon, <1>2 DEF Pass, ReadHeartbeats, ReadBlock, SetBlock, OwnBlock,
     ClearBlock, DisownBlock, SuspendExits, ReadHistory, ApplyReset, JudgePnl,
     Trip, Abort, entries
<1>3. ASSUME RaiseBlock \/ LowerBlock \/ LowerBreaker \/ Drift \/ NextDay \/ UNCHANGED vars
      PROVE  UNCHANGED <<kill, cleared, slipped>>
  BY Zenon, <1>3 DEF RaiseBlock, LowerBlock, LowerBreaker, Drift, NextDay, vars, entries
<1>4. ASSUME Preflight PROVE FirstSlip'
  <2>1. ~kill'
    BY Zenon, <1>4 DEF Preflight, EntriesBlocked
  <2> QED
    BY Zenon, <2>1 DEF FirstSlip
<1>5. ASSUME Submit PROVE FirstSlip'
  <2>1. CASE kill
    <3>1. slipped = 0 /\ slipped' = slipped + 1 /\ ~cleared'
      BY Zenon, <1>5, <2>1 DEF Submit, FirstSlip
    <3>2. slipped' <= 1
      BY <3>1
    <3> QED
      BY Zenon, <3>1, <3>2 DEF FirstSlip
  <2>2. CASE ~kill
    <3>1. ~kill'
      BY Zenon, <1>5, <2>2 DEF Submit
    <3> QED
      BY Zenon, <3>1 DEF FirstSlip
  <2> QED
    BY <2>1, <2>2
<1>6. ASSUME Kill \/ Resume PROVE FirstSlip'
  <2>1. slipped' = 0
    BY Zenon, <1>6 DEF Kill, Resume
  <2>2. slipped' <= 1
    BY <2>1
  <2> QED
    BY Zenon, <2>1, <2>2 DEF FirstSlip
<1> QED
  BY <1>1, <1>2, <1>3, <1>4, <1>5, <1>6 DEF Next, Operator

LEMMA InductiveInv == Spec => []ControlsInv
<1>1. Init => ControlsInv
  <2>1. Init => CleanIsUntouched /\ FirstSlip
    BY Zenon DEF Init, CleanIsUntouched, FirstSlip
  <2> QED
    BY <2>1, InitType DEF ControlsInv
<1>2. ControlsInv /\ [Next]_vars => ControlsInv'
  BY StepFlags, StepCounts, StepClean, StepSlip DEF ControlsInv, TypeOK
<1> QED
  BY <1>1, <1>2, PTL DEF Spec

(* Every variable keeps its range. *)
THEOREM ControlsTypeCorrect == Spec => []TypeOK
<1>1. ControlsInv => TypeOK
  BY DEF ControlsInv
<1> QED
  BY <1>1, InductiveInv, PTL

(* An operator's block that the monitor had no part in outlives every outage,
   recovery, aborted pass and restart. *)
THEOREM ControlsCleanBlockStays == Spec => []CleanBlockStays
<1>1. ControlsInv => CleanBlockStays
  BY Zenon DEF ControlsInv, CleanIsUntouched, CleanBlockStays
<1> QED
  BY <1>1, InductiveInv, PTL

(* The kill switch lets at most one entry slip, whatever the interleaving. *)
THEOREM ControlsAtMostOneSlips == Spec => []AtMostOneSlips
<1>1. ControlsInv => AtMostOneSlips
  <2>1. slipped = 0 => slipped <= 1
    OBVIOUS
  <2> QED
    BY Zenon, <2>1 DEF ControlsInv, FirstSlip, AtMostOneSlips
<1> QED
  BY <1>1, InductiveInv, PTL

-----------------------------------------------------------------------------
(* The reset of the breaker *)

(* The date of the pass is not in the future and neither is a trip; a reset in
   the monitor's hands is about to be applied on a date without a trip. *)
ResetIsEarned ==
  /\ asOf <= day
  /\ \A d \in Days : d > day => trips[d] = 0
  /\ verdict = "RESET" => pc = "apply" /\ trips[day] = 0

(* Today is the latest of the recent dates: a trip of today is the last trip. *)
LEMMA LastTripIsToday ==
  ASSUME TypeOK, trips[day] > 0
  PROVE  Max(TripDays) >= day
<1> USE DEF TypeOK, CountsOK, Days
<1>1. day \in TripDays /\ \A d \in TripDays : d \in Int /\ day >= d
  BY DEF TripDays, Recent
<1>2. \E x \in TripDays : \A y \in TripDays : x >= y
  BY <1>1
<1>3. Max(TripDays) \in TripDays /\ \A y \in TripDays : Max(TripDays) >= y
  BY <1>2 DEF Max
<1> QED
  BY <1>1, <1>3

LEMMA StepReset == ASSUME TypeOK, ResetIsEarned, [Next]_vars PROVE ResetIsEarned'
<1> USE DEF ResetIsEarned, TypeOK, CountsOK, Days, Goto, breakerVars, environment, pass
<1>1. CASE ReadHeartbeats
  BY <1>1 DEF ReadHeartbeats
<1>2. CASE ReadHistory
  <2>1. UNCHANGED <<trips, day, asOf>>
    BY <1>2 DEF ReadHistory
  <2>2. ASSUME verdict' = "RESET" PROVE pc' = "apply" /\ trips[day] = 0
    <3>1. Decision = "RESET"
      BY <1>2, <2>2 DEF ReadHistory
    <3>2. ~ (Max(TripDays) >= asOf)
      BY <3>1 DEF Decision
    <3>3. ~ (trips[day] > 0)
      <4> SUFFICES ASSUME trips[day] > 0 PROVE FALSE
        OBVIOUS
      <4>1. Max(TripDays) >= day
        BY LastTripIsToday
      <4>2. \A d \in TripDays : d \in Int
        BY DEF TripDays, Recent
      <4>3. day \in TripDays /\ \A d \in TripDays : day >= d
        BY DEF TripDays, Recent
      <4>4. Max(TripDays) \in TripDays
        BY <4>2, <4>3 DEF Max
      <4> QED
        BY <3>2, <4>1, <4>2, <4>4
    <3>4. pc' = "apply" /\ trips[day] = 0
      BY <1>2, <3>3 DEF ReadHistory
    <3> QED
      BY <3>4
  <2> QED
    BY <2>1, <2>2
<1>3. CASE ApplyReset
  BY <1>3 DEF ApplyReset
<1>4. CASE Trip
  <2>1. /\ trips' = [trips EXCEPT ![day] = IF @ < MaxTrips THEN @ + 1 ELSE @]
        /\ UNCHANGED <<day, asOf, verdict>> /\ pc = "trip"
    BY <1>4 DEF Trip, Record
  <2> QED
    BY <2>1
<1>5. CASE Abort
  BY <1>5 DEF Abort
<1>6. CASE NextDay
  BY <1>6 DEF NextDay
<1>7. CASE ReadBlock \/ SetBlock \/ OwnBlock \/ ClearBlock \/ DisownBlock \/ SuspendExits \/ JudgePnl
  BY <1>7 DEF ReadBlock, SetBlock, OwnBlock, ClearBlock, DisownBlock, SuspendExits, JudgePnl
<1>8. CASE Preflight \/ Submit \/ Operator \/ Drift
  BY <1>8 DEF Preflight, Submit, Operator, RaiseBlock, LowerBlock, Kill, Resume, LowerBreaker, Drift
<1>9. CASE UNCHANGED vars
  BY <1>9 DEF vars
<1> QED
  BY <1>1, <1>2, <1>3, <1>4, <1>5, <1>6, <1>7, <1>8, <1>9 DEF Next, Pass

LEMMA InductiveReset == Spec => []ResetIsEarned
<1>1. Init => ResetIsEarned
  BY DEF Init, ResetIsEarned, Days
<1> QED
  BY <1>1, StepReset, ControlsTypeCorrect, PTL DEF Spec

(* A breaker that tripped today falls by the operator's hand only: the monitor's
   own reset waits for a date without a trip, across every interleaving of
   trips, date changes, operator commands and aborted passes. *)
THEOREM ControlsTripHolds == Spec => TripHoldsForTheDay
<1> DEFINE Holds == breaker /\ ~breaker' /\ ops' = ops => trips[day] = 0
<1>1. ASSUME TypeOK, ResetIsEarned, [Next]_vars PROVE [Holds]_vars
  <2>1. ASSUME UNCHANGED breaker PROVE Holds
    BY Zenon, <2>1
  <2>2. ASSUME Pass, ~ApplyReset, breaker PROVE breaker'
    BY Zenon, <2>2 DEF Pass, ReadHeartbeats, ReadBlock, SetBlock, OwnBlock, ClearBlock,
       DisownBlock, SuspendExits, ReadHistory, JudgePnl, Trip, breakerVars
  <2>3. ASSUME ApplyReset PROVE Holds
    <3>1. CASE verdict = "RESET"
      BY Zenon, <1>1, <3>1 DEF ResetIsEarned
    <3>2. CASE verdict # "RESET"
      BY Zenon, <2>1, <2>3, <3>2 DEF ApplyReset
    <3> QED
      BY <3>1, <3>2
  <2>4. ASSUME Abort \/ Preflight \/ Submit \/ Drift \/ NextDay PROVE UNCHANGED breaker
    BY Zenon, <2>4 DEF Abort, Preflight, Submit, Drift, NextDay, breakerVars
  <2>5. ASSUME RaiseBlock \/ LowerBlock \/ Kill \/ Resume PROVE UNCHANGED breaker
    BY Zenon, <2>5 DEF RaiseBlock, LowerBlock, Kill, Resume, breakerVars
  <2>6. ASSUME LowerBreaker PROVE ops' # ops
    BY <1>1, <2>6 DEF LowerBreaker, Command, TypeOK, CountsOK
  <2>7. ASSUME UNCHANGED vars PROVE UNCHANGED breaker
    BY Zenon, <2>7 DEF vars, breakerVars
  <2> QED
    BY Zenon, <1>1, <2>1, <2>2, <2>3, <2>4, <2>5, <2>6, <2>7 DEF Next, Operator
<1> QED
  BY <1>1, ControlsTypeCorrect, InductiveReset, PTL DEF Spec, TripHoldsForTheDay

-----------------------------------------------------------------------------
(* The number of resets *)

Since(a)       == {d \in Days : d >= a}
ResetsSince(a) == {r \in resets : r >= a}

(* In every window that ends today: before a reset that is decided and not yet
   applied there are fewer trips than allowed, and every reset but the latest,
   and that one too once the breaker is up again, has a trip after it. *)
ResetsPaid ==
  \A a \in Int : day - a < Window =>
    /\ Cardinality(ResetsSince(a)) <= MaxTrips
    /\ Cardinality(ResetsSince(a)) <= Cardinality(TripRows(Since(a))) + 1
    /\ breaker \/ verdict = "RESET" => Cardinality(ResetsSince(a)) <= Cardinality(TripRows(Since(a)))
    /\ verdict = "RESET" => Cardinality(TripRows(Since(a))) < MaxTrips

ResetInv == (\A r \in resets : r <= day) /\ AutoResetsBounded /\ ResetsPaid

(* The dates and the rows of trips are finitely many. *)
LEMMA DatesFinite ==
  ASSUME TypeOK
  PROVE  /\ \A S \in SUBSET Days : IsFiniteSet(S) /\ IsFiniteSet(TripRows(S))
         /\ \A S \in SUBSET Days : Cardinality(S) \in Nat /\ Cardinality(TripRows(S)) \in Nat
         /\ \A S \in SUBSET Days : \A T \in SUBSET S :
              /\ Cardinality(T) <= Cardinality(S)
              /\ Cardinality(TripRows(T)) <= Cardinality(TripRows(S))
<1>1. IsFiniteSet(Days) /\ IsFiniteSet(1 .. MaxTrips)
  BY FS_Interval DEF Days
<1>2. IsFiniteSet(Days \X (1 .. MaxTrips))
  BY <1>1, FS_Product
<1>3. \A S \in SUBSET Days : TripRows(S) \in SUBSET (Days \X (1 .. MaxTrips))
  BY DEF TripRows
<1>4. \A S \in SUBSET Days : IsFiniteSet(S) /\ IsFiniteSet(TripRows(S))
  BY <1>1, <1>2, <1>3, FS_Subset
<1>5. \A S \in SUBSET Days : \A T \in SUBSET S : TripRows(T) \in SUBSET TripRows(S)
  BY DEF TripRows
<1>6. \A S \in SUBSET Days : Cardinality(S) \in Nat /\ Cardinality(TripRows(S)) \in Nat
  BY <1>4, FS_CardinalityType
<1> QED
  BY <1>4, <1>5, <1>6, FS_Subset

(* The same after a step. *)
LEMMA NextFinite ==
  ASSUME TypeOK'
  PROVE  \A S \in SUBSET Days : IsFiniteSet(TripRows(S)') /\ Cardinality(TripRows(S)') \in Nat
<1>1. IsFiniteSet(Days) /\ IsFiniteSet(1 .. MaxTrips)
  BY FS_Interval DEF Days
<1>2. IsFiniteSet(Days \X (1 .. MaxTrips))
  BY <1>1, FS_Product
<1>3. \A S \in SUBSET Days : TripRows(S)' \in SUBSET (Days \X (1 .. MaxTrips))
  BY DEF TripRows
<1>4. \A S \in SUBSET Days : IsFiniteSet(TripRows(S)')
  BY <1>2, <1>3, FS_Subset
<1> QED
  BY <1>4, FS_CardinalityType

(* A decision to reset has seen every trip of the window, and fewer than allowed. *)
LEMMA FewTripsSeen ==
  ASSUME TypeOK, ResetIsEarned, Decision = "RESET", NEW a \in Int, day - a < Window
  PROVE  Cardinality(TripRows(Since(a))) < MaxTrips
<1>1. ~ (TripCount >= MaxTrips)
  BY DEF Decision
<1>2. Recent \in SUBSET Days
  BY DEF Recent
<1>3. TripRows(Since(a)) \in SUBSET TripRows(Recent)
  <2> SUFFICES ASSUME NEW row \in TripRows(Since(a)) PROVE row \in TripRows(Recent)
    OBVIOUS
  <2>1. row[1] \in Days /\ row[1] >= a /\ row[2] \in 1 .. MaxTrips /\ row[2] <= trips[row[1]]
    BY DEF TripRows, Since
  <2>2. ~ (row[1] > day)
    BY <2>1 DEF ResetIsEarned
  <2>3. row[1] \in Recent
    BY <2>1, <2>2 DEF Recent, Days, TypeOK, CountsOK
  <2> QED
    BY <2>1, <2>3 DEF TripRows, Since
<1>4. Cardinality(TripRows(Since(a))) <= TripCount /\ TripCount \in Nat
  BY <1>2, <1>3, DatesFinite, FS_Subset DEF TripCount
<1>5. Cardinality(TripRows(Since(a))) \in Nat
  BY DatesFinite DEF Since
<1> QED
  BY <1>1, <1>4, <1>5

(* A trip of today pays for one more reset, or is one of as many as are counted. *)
LEMMA TripPays ==
  ASSUME TypeOK, TypeOK', Record(day), day' = day, NEW a \in Int, a <= day
  PROVE  \/ Cardinality(TripRows(Since(a))') >= Cardinality(TripRows(Since(a))) + 1
         \/ /\ trips' = trips
            /\ Cardinality(TripRows(Since(a))) >= MaxTrips
<1> USE DEF TypeOK, CountsOK
<1>0. day \in Since(a) /\ Since(a) \in SUBSET Days
  BY DEF Since, Days
<1>1. CASE trips[day] < MaxTrips
  <2> DEFINE new == <<day, trips[day] + 1>>
  <2>1. /\ trips'[day] = trips[day] + 1
        /\ \A d \in Days : d # day => trips'[d] = trips[d]
    BY <1>1 DEF Record
  <2>2. new \notin TripRows(Since(a))
    BY DEF TripRows
  <2>3. TripRows(Since(a)) \cup {new} \in SUBSET TripRows(Since(a))'
    <3>1. new \in TripRows(Since(a))'
      BY <1>0, <1>1, <2>1 DEF TripRows, Since
    <3>2. TripRows(Since(a)) \in SUBSET TripRows(Since(a))'
      <4> SUFFICES ASSUME NEW row \in TripRows(Since(a)) PROVE row \in TripRows(Since(a))'
        OBVIOUS
      <4>1. /\ row \in Since(a) \X (1 .. MaxTrips) /\ row[1] \in Days
            /\ row[2] <= trips[row[1]] /\ row[2] \in 1 .. MaxTrips
        BY <1>0 DEF TripRows
      <4>2. row[2] <= trips'[row[1]]
        BY <2>1, <4>1
      <4> QED
        BY <4>1, <4>2 DEF TripRows, Since
    <3> QED
      BY <3>1, <3>2
  <2>4. IsFiniteSet(TripRows(Since(a)))
    BY <1>0, DatesFinite
  <2>5. IsFiniteSet(TripRows(Since(a))')
    BY <1>0, NextFinite
  <2>6. Cardinality(TripRows(Since(a)) \cup {new}) = Cardinality(TripRows(Since(a))) + 1
    BY <2>2, <2>4, FS_AddElement
  <2>7. Cardinality(TripRows(Since(a)) \cup {new}) <= Cardinality(TripRows(Since(a))')
    BY <2>3, <2>5, FS_Subset
  <2> QED
    BY <2>6, <2>7
<1>2. CASE ~ (trips[day] < MaxTrips)
  <2>1. trips[day] = MaxTrips /\ trips' = trips
    BY <1>2 DEF Record
  <2>2. {day} \X (1 .. MaxTrips) \in SUBSET TripRows(Since(a))
    BY <1>0, <2>1 DEF TripRows
  <2>3. /\ IsFiniteSet({day}) /\ Cardinality({day}) = 1
        /\ IsFiniteSet(1 .. MaxTrips) /\ Cardinality(1 .. MaxTrips) = MaxTrips
    <3>1. IsFiniteSet({day}) /\ Cardinality({day}) = 1
      BY Zenon, FS_Singleton
    <3>2. IsFiniteSet(1 .. MaxTrips) /\ Cardinality(1 .. MaxTrips) = MaxTrips
      BY FS_Interval
    <3> QED
      BY <3>1, <3>2
  <2>4. Cardinality({day} \X (1 .. MaxTrips)) = 1 * MaxTrips
    BY <2>3, FS_Product
  <2>5. Cardinality({day} \X (1 .. MaxTrips)) <= Cardinality(TripRows(Since(a)))
    BY <1>0, <2>2, DatesFinite, FS_Subset
  <2> QED
    BY <2>1, <2>4, <2>5
<1> QED
  BY <1>1, <1>2

(* The steps that touch neither the trips nor the resets, the date or the breaker, and
   those that let the breaker fall or a decision go, leave nothing unpaid. *)
LEMMA PaidStays ==
  ASSUME TypeOK, ResetInv, UNCHANGED <<trips, resets, day>>,
         breaker' => breaker, verdict' = "RESET" => verdict = "RESET"
  PROVE  ResetInv'
<1>1. \A a : ResetsSince(a)' = ResetsSince(a) /\ TripRows(Since(a))' = TripRows(Since(a))
  BY DEF ResetsSince, TripRows, Since
<1>2. ResetsPaid'
  BY <1>1 DEF ResetInv, ResetsPaid
<1>3. AutoResetsBounded'
  BY DEF ResetInv, AutoResetsBounded
<1> QED
  BY <1>2, <1>3 DEF ResetInv

(* The resets of a window are among those since its first date. *)
LEMMA WindowSince ==
  ASSUME NEW R \in SUBSET Days, NEW d \in Days,
         Cardinality({r \in R : r >= d - Window + 1}) <= MaxTrips
  PROVE  Cardinality({r \in R : r <= d /\ d - r < Window}) <= MaxTrips
<1> DEFINE since == {r \in R : r >= d - Window + 1}
           within == {r \in R : r <= d /\ d - r < Window}
<1>1. within \in SUBSET since
  <2>1. d \in Int /\ Window \in Int /\ \A r \in R : r \in Int
    BY DEF Days
  <2>2. \A r \in R : d - r < Window => r >= d - Window + 1
    BY <2>1
  <2> QED
    BY <2>2
<1>2. IsFiniteSet(Days)
  BY FS_Interval DEF Days
<1>3. since \in SUBSET Days
  OBVIOUS
<1>4. IsFiniteSet(since)
  BY <1>2, <1>3, FS_Subset
<1>5. Cardinality(within) <= Cardinality(since) /\ IsFiniteSet(within)
  BY <1>1, <1>4, FS_Subset
<1>6. Cardinality(within) \in Nat /\ Cardinality(since) \in Nat
  BY <1>4, <1>5, FS_CardinalityType
<1> QED
  BY <1>5, <1>6

(* Every step pays for its reset. *)
LEMMA StepPaid ==
  ASSUME TypeOK, TypeOK', ResetIsEarned, ResetInv, [Next]_vars
  PROVE  ResetInv'
<1> USE DEF TypeOK, CountsOK
<1>0. \A a : /\ ResetsSince(a) \in SUBSET Days /\ Since(a) \in SUBSET Days
             /\ Cardinality(ResetsSince(a)) \in Nat /\ Cardinality(TripRows(Since(a))) \in Nat
  <2>1. \A a : ResetsSince(a) \in SUBSET Days /\ Since(a) \in SUBSET Days
    BY DEF ResetsSince, Since
  <2> QED
    BY <2>1, DatesFinite
<1>1. CASE ReadHistory
  <2>1. UNCHANGED <<trips, resets, day, breaker>> /\ verdict' = IF breaker THEN Decision ELSE "NONE"
    BY <1>1 DEF ReadHistory, breakerVars, environment
  <2>2. CASE verdict' # "RESET"
    BY <2>1, <2>2, PaidStays
  <2>3. CASE verdict' = "RESET"
    <3>1. breaker /\ Decision = "RESET"
      BY <2>1, <2>3
    <3>2. \A a : ResetsSince(a)' = ResetsSince(a) /\ TripRows(Since(a))' = TripRows(Since(a))
      BY <2>1 DEF ResetsSince, TripRows, Since
    <3>3. ResetsPaid'
      BY <2>1, <3>1, <3>2, FewTripsSeen DEF ResetInv, ResetsPaid
    <3>4. AutoResetsBounded'
      BY <2>1 DEF ResetInv, AutoResetsBounded
    <3> QED
      BY <2>1, <3>3, <3>4 DEF ResetInv
  <2> QED
    BY <2>2, <2>3
<1>2. CASE ApplyReset
  <2>1. UNCHANGED <<trips, day>> /\ verdict' = "NONE"
    BY <1>2 DEF ApplyReset, environment
  <2>2. CASE verdict # "RESET"
    <3>1. UNCHANGED <<breaker, resets>>
      BY <1>2, <2>2 DEF ApplyReset
    <3> QED
      BY <2>1, <3>1, PaidStays
  <2>3. CASE verdict = "RESET"
    <3>1. ~breaker' /\ resets' = resets \cup {day}
      BY Zenon, <1>2, <2>3 DEF ApplyReset
    <3>2. \A a : TripRows(Since(a))' = TripRows(Since(a))
      BY <2>1 DEF TripRows, Since
    <3>3. \A a : ResetsSince(a)' \in {ResetsSince(a), ResetsSince(a) \cup {day}}
      BY <3>1 DEF ResetsSince
    <3>4. \A a : Cardinality(ResetsSince(a)') <= Cardinality(ResetsSince(a)) + 1
      <4> TAKE a
      <4>1. IsFiniteSet(ResetsSince(a))
        BY <1>0, DatesFinite
      <4>2. Cardinality(ResetsSince(a) \cup {day}) \in {Cardinality(ResetsSince(a)), Cardinality(ResetsSince(a)) + 1}
        BY <4>1, FS_AddElement
      <4>3. Cardinality(ResetsSince(a)') \in {Cardinality(ResetsSince(a)), Cardinality(ResetsSince(a)) + 1}
        BY <3>3, <4>2, Zenon
      <4>4. Cardinality(ResetsSince(a)) \in Nat
        BY <1>0
      <4> QED
        BY <4>3, <4>4
    <3>5. \A a : Cardinality(ResetsSince(a)') \in Nat
      <4>1. \A a : ResetsSince(a)' \in SUBSET Days
        BY DEF ResetsSince
      <4> QED
        BY <4>1, DatesFinite
    <3>6. ResetsPaid'
      <4> SUFFICES ASSUME NEW a \in Int, day - a < Window
                   PROVE  /\ Cardinality(ResetsSince(a)') <= MaxTrips
                          /\ Cardinality(ResetsSince(a)') <= Cardinality(TripRows(Since(a))) + 1
        BY <2>1, <3>1, <3>2 DEF ResetsPaid
      <4>1. /\ Cardinality(ResetsSince(a)) <= Cardinality(TripRows(Since(a)))
            /\ Cardinality(TripRows(Since(a))) < MaxTrips
        BY <2>3 DEF ResetInv, ResetsPaid
      <4> QED
        BY <1>0, <3>4, <3>5, <4>1
    <3>7. AutoResetsBounded'
      <4> SUFFICES ASSUME NEW d \in Days
                   PROVE  Cardinality({r \in resets' : r <= d /\ d - r < Window}) <= MaxTrips
        BY DEF AutoResetsBounded
      <4>1. CASE d < day
        <5>1. {r \in resets' : r <= d /\ d - r < Window} = {r \in resets : r <= d /\ d - r < Window}
          BY <3>1, <4>1 DEF Days
        <5> QED
          BY <5>1 DEF ResetInv, AutoResetsBounded
      <4>2. CASE d >= day
        <5> DEFINE a == d - Window + 1
        <5>1. a \in Int /\ day - a < Window
          BY <4>2 DEF Days
        <5>2. Cardinality(ResetsSince(a)') <= MaxTrips
          BY <2>1, <3>6, <5>1 DEF ResetsPaid
        <5>3. ResetsSince(a)' = {r \in resets' : r >= a}
          BY DEF ResetsSince
        <5>4. Cardinality({r \in resets' : r >= d - Window + 1}) <= MaxTrips
          BY <5>2, <5>3
        <5>5. resets' \in SUBSET Days
          OBVIOUS
        <5> QED
          BY <5>4, <5>5, WindowSince
      <4> QED
        BY <4>1, <4>2 DEF Days
    <3>8. \A r \in resets' : r <= day'
      <4>1. day <= day
        BY DEF Days
      <4> QED
        BY <2>1, <3>1, <4>1 DEF ResetInv
    <3> QED
      BY <3>6, <3>7, <3>8, Zenon DEF ResetInv
  <2> QED
    BY <2>2, <2>3
<1>3. CASE Trip
  <2>1. /\ Record(day) /\ UNCHANGED <<resets, day, verdict>> /\ pc = "trip"
    BY <1>3 DEF Trip, Goto, environment
  <2>2. verdict # "RESET"
    BY <2>1 DEF ResetIsEarned
  <2>3. \A a : ResetsSince(a)' = ResetsSince(a)
    BY <2>1 DEF ResetsSince
  <2>4. \A a : Cardinality(TripRows(Since(a))') \in Nat
    <3>1. \A a : Since(a) \in SUBSET Days
      BY DEF Since
    <3> QED
      BY <3>1, NextFinite
  <2>5. ResetsPaid'
    <3> SUFFICES ASSUME NEW a \in Int, day - a < Window
                 PROVE  /\ Cardinality(ResetsSince(a)) <= MaxTrips
                        /\ Cardinality(ResetsSince(a)) <= Cardinality(TripRows(Since(a))')
      BY <2>1, <2>2, <2>3, <2>4, <1>0 DEF ResetsPaid
    <3>1. /\ Cardinality(ResetsSince(a)) <= MaxTrips
          /\ Cardinality(ResetsSince(a)) <= Cardinality(TripRows(Since(a))) + 1
      BY DEF ResetInv, ResetsPaid
    <3>2. CASE a > day
      <4>1. ResetsSince(a) = {}
        <5>1. \A r \in resets : r \in Int /\ r <= day
          BY DEF ResetInv, Days
        <5>2. day \in Int
          BY DEF Days
        <5>3. \A r \in resets : ~ (r >= a)
          BY <3>2, <5>1, <5>2
        <5> QED
          BY <5>3 DEF ResetsSince
      <4> QED
        BY <2>4, <3>1, <4>1, FS_EmptySet
    <3>3. CASE a <= day
      <4>1. CASE Cardinality(TripRows(Since(a))') >= Cardinality(TripRows(Since(a))) + 1
        BY <1>0, <2>4, <3>1, <4>1
      <4>2. CASE trips' = trips /\ Cardinality(TripRows(Since(a))) >= MaxTrips
        <5>1. TripRows(Since(a))' = TripRows(Since(a))
          BY <4>2 DEF TripRows, Since
        <5> QED
          BY <1>0, <3>1, <4>2, <5>1
      <4> QED
        BY <2>1, <3>3, <4>1, <4>2, TripPays
    <3> QED
      BY <3>2, <3>3 DEF Days
  <2>6. AutoResetsBounded'
    BY <2>1 DEF ResetInv, AutoResetsBounded
  <2> QED
    BY <2>1, <2>5, <2>6 DEF ResetInv
<1>4. CASE NextDay
  <2>1. day' = day + 1 /\ UNCHANGED <<trips, resets, breaker, verdict>>
    BY <1>4 DEF NextDay, breakerVars, pass
  <2>2. \A a : ResetsSince(a)' = ResetsSince(a) /\ TripRows(Since(a))' = TripRows(Since(a))
    BY <2>1 DEF ResetsSince, TripRows, Since
  <2>3. ResetsPaid'
    <3> SUFFICES ASSUME NEW a \in Int, day + 1 - a < Window
                 PROVE  /\ Cardinality(ResetsSince(a)) <= MaxTrips
                        /\ Cardinality(ResetsSince(a)) <= Cardinality(TripRows(Since(a))) + 1
                        /\ breaker \/ verdict = "RESET" => Cardinality(ResetsSince(a)) <= Cardinality(TripRows(Since(a)))
                        /\ verdict = "RESET" => Cardinality(TripRows(Since(a))) < MaxTrips
      BY <2>1, <2>2 DEF ResetsPaid
    <3>1. day - a < Window
      BY DEF Days
    <3> QED
      BY <3>1 DEF ResetInv, ResetsPaid
  <2>4. AutoResetsBounded'
    BY <2>1 DEF ResetInv, AutoResetsBounded
  <2> QED
    BY <2>1, <2>3, <2>4 DEF ResetInv, Days
<1>5. CASE Abort
  <2>1. UNCHANGED <<trips, resets, day, breaker>> /\ verdict' = "NONE"
    BY <1>5 DEF Abort, breakerVars, environment
  <2> QED
    BY <2>1, PaidStays
<1>6. CASE LowerBreaker
  <2>1. UNCHANGED <<trips, resets, day, verdict>> /\ ~breaker'
    BY <1>6 DEF LowerBreaker, environment, pass
  <2> QED
    BY <2>1, PaidStays
<1>7. CASE \/ ReadHeartbeats \/ ReadBlock \/ SetBlock \/ OwnBlock \/ ClearBlock \/ DisownBlock
           \/ SuspendExits \/ JudgePnl
  <2>1. UNCHANGED <<trips, resets, day, breaker, verdict>>
    BY Zenon, <1>7 DEF ReadHeartbeats, ReadBlock, SetBlock, OwnBlock, ClearBlock, DisownBlock,
       SuspendExits, JudgePnl, Goto, breakerVars, environment, pass
  <2> QED
    BY <2>1, PaidStays
<1>8. CASE Preflight \/ Submit \/ RaiseBlock \/ LowerBlock \/ Kill \/ Resume \/ Drift \/ UNCHANGED vars
  <2>1. UNCHANGED <<trips, resets, day, breaker, verdict>>
    BY Zenon, <1>8 DEF Preflight, Submit, RaiseBlock, LowerBlock, Kill, Resume, Drift, vars,
       breakerVars, environment, pass
  <2> QED
    BY <2>1, PaidStays
<1> QED
  BY <1>1, <1>2, <1>3, <1>4, <1>5, <1>6, <1>7, <1>8, Zenon DEF Next, Pass, Operator

(* However trips, resets, operator commands, date changes and aborted passes fall,
   auto_reset_decision lets code lower the breaker on at most max_trips_per_30d dates of
   any window of thirty days, for any such limit and window. *)
THEOREM ControlsAutoResetsBounded == Spec => []AutoResetsBounded
<1>1. Init => ResetInv
  <2> SUFFICES ASSUME Init PROVE ResetInv
    OBVIOUS
  <2>1. TypeOK
    BY InitType
  <2>2. resets = {} /\ verdict = "NONE" /\ ~breaker
    BY DEF Init
  <2>3. Cardinality({}) = 0
    BY FS_EmptySet
  <2>4. \A a : ResetsSince(a) = {} /\ Cardinality(TripRows(Since(a))) \in Nat
    <3>1. \A a : Since(a) \in SUBSET Days
      BY DEF Since
    <3> QED
      BY <2>1, <2>2, <3>1, DatesFinite DEF ResetsSince
  <2>5. ResetsPaid
    BY <2>2, <2>3, <2>4 DEF ResetsPaid
  <2>6. AutoResetsBounded
    <3>1. \A d : {r \in resets : r <= d /\ d - r < Window} = {}
      BY <2>2
    <3> QED
      BY <2>3, <3>1 DEF AutoResetsBounded
  <2> QED
    BY <2>2, <2>5, <2>6 DEF ResetInv
<1>2. TypeOK /\ TypeOK' /\ ResetIsEarned /\ ResetInv /\ [Next]_vars => ResetInv'
  BY StepPaid
<1>3. ResetInv => AutoResetsBounded
  BY DEF ResetInv
<1> QED
  BY <1>1, <1>2, <1>3, ControlsTypeCorrect, InductiveReset, PTL DEF Spec
===============================================================================
