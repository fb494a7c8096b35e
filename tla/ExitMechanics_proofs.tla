------------------------- MODULE ExitMechanics_proofs -------------------------
(***************************************************************************)
(* The exit sequence for any number of shares, passes and faults.  Three     *)
(* inductive invariants: TypeInv holds always; Sound as long as nothing      *)
(* happened that execute_exit does not provide for; Once through everything  *)
(* but an overlap of the engine and the reconciliation.                      *)
(***************************************************************************)
EXTENDS ExitMechanics, TLAPS

(* What the engine has in its hands at each place. *)
InPass ==
  /\ pc # "idle" => passes \in Passes /\ want > 0
  /\ pc \in {"cancel", "confirm", "bookStop", "protect", "link"} => cat \in Stops
  /\ pc = "protect" => cover > 0

(* A stop is for some shares, and sells them all. *)
StopSizes ==
  \A s \in Stops :
    /\ Live(stop[s]) => stop[s].qty > 0
    /\ stop[s].status = "filled" => stop[s].qty > 0 /\ stop[s].filled = stop[s].qty

TypeInv == TypeOK /\ InPass /\ StopSizes

USE ExitAssumption

(* The numbering of stops and passes. *)
LEMMA Numbers ==
  /\ Passes \subseteq Stops /\ Passes \subseteq Int /\ Stops \subseteq Nat
  /\ NoStop \in Int /\ NoStop \notin Stops /\ \A p \in Passes : NoStop < p
  /\ 0 \in Stops
  BY DEF Passes, Stops, NoStop

(* What the operators on orders and rows return. *)
LEMMA OrderTypes ==
  /\ NoOrder \in Orders
  /\ \A n \in Nat : Resting(n) \in Orders
  /\ \A o \in Orders : Cancelled(o) \in Orders
  BY DEF NoOrder, Orders, Resting, Cancelled, Live

LEMMA InitTypes == Init => TypeInv
  BY Numbers, OrderTypes DEF Init, TypeInv, TypeOK, InPass, StopSizes, Rows, Places, NoRow,
     Resting, NoOrder, Live

LEMMA BookedTypes == ASSUME row \in Rows, NEW n \in Int, Booked(n) PROVE row' \in Rows
  BY DEF Booked, Rows

(* Protect leaves the handler with something to protect, or at rest. *)
LEMMA ProtectTypes ==
  ASSUME TypeInv, pc # "idle", NEW n \in Int, Protect(n)
  PROVE  /\ pc' \in Places /\ passes' \in 0 .. MaxPasses
         /\ pos' \in Int /\ want' \in Int /\ cover' \in Int /\ cat' \in Stops \cup {NoStop}
         /\ InPass'
<1> USE DEF TypeInv, TypeOK, InPass, StopSizes, Places
<1>1. CASE cat # NoStop /\ n > 0
  BY <1>1 DEF Protect
<1>2. CASE ~ (cat # NoStop /\ n > 0)
  BY <1>2 DEF Protect, Return
<1> QED
  BY <1>1, <1>2

LEMMA EngineTypes == ASSUME TypeInv, Engine PROVE TypeInv'
<1> USE DEF TypeInv, TypeOK, InPass, StopSizes, Places, Goto, Return,
        journal, broker, engine, recon, history
<1>1. CASE Begin
  BY <1>1 DEF Begin, Rows, Passes
<1>2. CASE Lookup
  BY <1>2, Numbers DEF Lookup
<1>3. CASE CancelStop
  BY <1>3, OrderTypes DEF CancelStop, Cancelled
<1>4. CASE ConfirmStop
  BY <1>4 DEF ConfirmStop
<1>5. CASE ConfirmRaises
  BY <1>5 DEF ConfirmRaises, Anomalies
<1>6. CASE BookStop
  <2>1. stop[cat].filled \in Int
    BY <1>6 DEF BookStop, Orders
  <2>2. row' \in Rows
    BY <1>6, <2>1, BookedTypes DEF BookStop
  <2> QED
    BY <1>6, <2>2 DEF BookStop
<1>7. CASE SubmitExit
  <2>1. CASE exit' = [exit EXCEPT ![passes] = Resting(want)] /\ Goto("poll")
    <3>1. Resting(want) \in Orders
      BY <1>7, OrderTypes DEF SubmitExit
    <3> QED
      BY <1>7, <2>1, <3>1 DEF SubmitExit
  <2>2. CASE Protect(pos) /\ UNCHANGED exit
    BY <1>7, <2>2, ProtectTypes DEF SubmitExit
  <2> QED
    BY <1>7, <2>1, <2>2 DEF SubmitExit
<1>8. CASE PollFilled
  BY <1>8 DEF PollFilled
<1>9. CASE BookExit
  <2>1. exit[passes].filled \in Int
    BY <1>9 DEF BookExit, Orders
  <2>2. row' \in Rows
    BY <1>9, <2>1, BookedTypes DEF BookExit
  <2> QED
    BY <1>9, <2>1, <2>2, ProtectTypes DEF BookExit
<1>10. CASE Expire
  BY <1>10, OrderTypes DEF Expire
<1>11. CASE Final
  <2>1. exit[passes].filled \in Int
    BY <1>11 DEF Final, Orders
  <2>2. row' \in Rows
    BY <1>11, <2>1, BookedTypes DEF Final
  <2>3. CASE exit[passes].status = "filled"
    <3>1. Return /\ anomalies' \subseteq Anomalies
      BY <1>11, <2>3 DEF Final, Anomalies
    <3> QED
      BY <1>11, <2>2, <3>1 DEF Final
  <2>4. CASE exit[passes].status # "filled"
    <3>1. Protect(pos) /\ UNCHANGED row /\ anomalies' \subseteq Anomalies
      BY <1>11, <2>4 DEF Final, Anomalies
    <3> QED
      BY <1>11, <3>1, ProtectTypes DEF Final
  <2> QED
    BY <2>3, <2>4
<1>12. CASE PlaceStop
  BY <1>12, OrderTypes, Numbers DEF PlaceStop, Resting
<1>13. CASE LinkStop
  BY <1>13, Numbers DEF LinkStop
<1> QED
  BY <1>1, <1>2, <1>3, <1>4, <1>5, <1>6, <1>7, <1>8, <1>9, <1>10, <1>11, <1>12, <1>13
     DEF Engine

LEMMA ReconciliationTypes == ASSUME TypeInv, Reconciliation PROVE TypeInv'
<1> USE DEF TypeInv, TypeOK, InPass, StopSizes, journal, broker, engine, recon, history
<1>1. CASE FetchBroker
  BY <1>1 DEF FetchBroker
<1>2. CASE ReadLocal
  BY <1>2 DEF ReadLocal
<1>3. CASE Commit
  <2>0. ASSUME Reconcile PROVE row' \in Rows
    <3>1. CASE StopFilled /\ ~ (rHeld > 0)
      <4>1. stop[link].filled \in Int
        BY <3>1 DEF StopFilled, Orders
      <4> QED
        BY <2>0, <3>1, <4>1, BookedTypes DEF Reconcile
    <3> QED
      BY <2>0, <3>1 DEF Reconcile, Rows
  <2>1. row' \in Rows
    BY <1>3, <2>0 DEF Commit
  <2>2. booked' \in [Stops -> Nat]
    BY <1>3 DEF Commit, StopFilled
  <2>3. anomalies' \subseteq Anomalies
    BY <1>3 DEF Commit, Anomalies
  <2>4. rLocal' \in Rows
    BY <1>3 DEF Commit, NoRow, Rows
  <2> QED
    BY <1>3, <2>1, <2>2, <2>3, <2>4 DEF Commit
<1> QED
  BY <1>1, <1>2, <1>3 DEF Reconciliation

(* What the broker's steps do to the order concerned, and to no other. *)
LEMMA TriggerStopEffect ==
  ASSUME TypeInv, NEW s \in Stops, TriggerStop(s)
  PROVE  /\ stop' \in [Stops -> Orders]
         /\ stop'[s].status = "filled" /\ stop'[s].qty = stop[s].qty
         /\ stop'[s].filled = stop[s].qty
         /\ \A t \in Stops \ {s} : stop'[t] = stop[t]
         /\ held' = held - stop[s].qty /\ stop[s].qty \in Nat
<1> DEFINE o == [stop[s] EXCEPT !.status = "filled", !.filled = stop[s].qty]
<1>1. stop[s] \in Orders /\ stop \in [Stops -> Orders]
  BY DEF TypeInv, TypeOK
<1>2. o \in Orders /\ o.status = "filled" /\ o.qty = stop[s].qty /\ o.filled = stop[s].qty
  BY <1>1 DEF Orders
<1>3. stop' = [stop EXCEPT ![s] = o]
  BY DEF TriggerStop
<1> HIDE DEF o
<1>4. stop' \in [Stops -> Orders] /\ stop'[s] = o /\ \A t \in Stops \ {s} : stop'[t] = stop[t]
  BY <1>1, <1>2, <1>3
<1> QED
  BY <1>1, <1>2, <1>4 DEF TriggerStop, Orders

LEMMA FillExitEffect ==
  ASSUME TypeInv, NEW p \in Passes, FillExit(p)
  PROVE  /\ exit' \in [Passes -> Orders]
         /\ exit'[p].status = IF exit[p].filled + 1 = exit[p].qty THEN "filled" ELSE "accepted"
         /\ exit'[p].qty = exit[p].qty /\ exit'[p].filled = exit[p].filled + 1
         /\ \A q \in Passes \ {p} : exit'[q] = exit[q]
         /\ held' = held - 1
<1> DEFINE n == exit[p].filled + 1
<1> DEFINE st == IF n = exit[p].qty THEN "filled" ELSE "accepted"
<1> DEFINE o == [exit[p] EXCEPT !.filled = n, !.status = st]
<1>1. exit[p] \in Orders /\ exit \in [Passes -> Orders] /\ exit[p].status = "accepted"
  BY DEF TypeInv, TypeOK, FillExit, Live
<1>2. n \in Nat /\ st \in {"accepted", "filled"}
  BY <1>1 DEF Orders
<1>3. exit' = [exit EXCEPT ![p] = o]
  BY <1>1 DEF FillExit
<1>4. st = IF exit[p].filled + 1 = exit[p].qty THEN "filled" ELSE "accepted"
  OBVIOUS
<1>5. n = exit[p].filled + 1
  OBVIOUS
<1> HIDE DEF n, st
<1>6. o \in Orders /\ o.status = st /\ o.qty = exit[p].qty /\ o.filled = n
  BY <1>1, <1>2 DEF Orders
<1> HIDE DEF o
<1>7. exit' \in [Passes -> Orders] /\ exit'[p] = o /\ \A q \in Passes \ {p} : exit'[q] = exit[q]
  BY <1>1, <1>3, <1>6
<1> QED
  BY <1>4, <1>5, <1>6, <1>7 DEF FillExit

LEMMA BrokerTypes ==
  ASSUME TypeInv, (\E s \in Stops : TriggerStop(s)) \/ (\E p \in Passes : FillExit(p))
  PROVE  TypeInv'
<1>1. ASSUME NEW s \in Stops, TriggerStop(s) PROVE TypeInv'
  <2>1. UNCHANGED <<journal, exit, engine, recon, history>>
    BY <1>1 DEF TriggerStop
  <2>2. stop' \in [Stops -> Orders] /\ held' = held - stop[s].qty /\ stop[s].qty \in Nat
    BY <1>1, TriggerStopEffect
  <2>3. StopSizes'
    BY <1>1, TriggerStopEffect DEF TypeInv, StopSizes, Live, TriggerStop
  <2> QED
    BY <2>1, <2>2, <2>3 DEF TypeInv, TypeOK, InPass, journal, engine, recon, history
<1>2. ASSUME NEW p \in Passes, FillExit(p) PROVE TypeInv'
  <2>1. UNCHANGED <<journal, stop, engine, recon, history>>
    BY <1>2 DEF FillExit
  <2>2. exit' \in [Passes -> Orders] /\ held' = held - 1
    BY <1>2, FillExitEffect
  <2> QED
    BY <2>1, <2>2 DEF TypeInv, TypeOK, InPass, StopSizes, journal, engine, recon, history
<1> QED
  BY <1>1, <1>2

LEMMA StepTypes == ASSUME TypeInv, [Next]_vars PROVE TypeInv'
<1>1. CASE Interrupt
  BY <1>1 DEF Interrupt, TypeInv, TypeOK, InPass, StopSizes, Return, Places, Anomalies,
     journal, broker, recon
<1>2. CASE UNCHANGED vars
  BY <1>2 DEF vars, TypeInv, TypeOK, InPass, StopSizes,
     journal, broker, engine, recon, history
<1> QED
  BY <1>1, <1>2, EngineTypes, ReconciliationTypes, BrokerTypes DEF Next

(* What was seen to happen is not forgotten. *)
LEMMA AnomaliesStay == ASSUME [Next]_vars PROVE anomalies \subseteq anomalies'
  BY DEF Next, Engine, Reconciliation, vars, history, Begin, Lookup, CancelStop, ConfirmStop,
     ConfirmRaises, BookStop, SubmitExit, PollFilled, BookExit, Expire, Final, PlaceStop,
     LinkStop, Interrupt, FetchBroker, ReadLocal, Commit, TriggerStop, FillExit

LEMMA InductiveTypes == Spec => []TypeInv
  BY InitTypes, StepTypes, PTL DEF Spec

(* Type correctness: the journal, the broker's orders and the copies of both
   tasks keep their shapes, whatever raises or interleaves. *)
THEOREM ExitTypes == Spec => []TypeOK
  BY InductiveTypes, PTL DEF TypeInv

-----------------------------------------------------------------------------
(* Outside the anomalies *)

(* Nothing is live but the stop in force, or the exit order being polled. *)
OneSeller ==
  /\ \A s \in Stops : Live(stop[s]) =>
       \/ s = link /\ row.status = "OPEN" /\ pc \in {"idle", "lookup", "cancel"}
       \/ s = passes /\ pc = "link"
  /\ \A p \in Passes : Live(exit[p]) => p = passes /\ pc = "poll"

(* An open position has shares and no stop was booked; a closed one is gone. *)
Books ==
  /\ row.status = "OPEN" => row.qty > 0 /\ \A s \in Stops : booked[s] = 0
  /\ row.status = "CLOSED" => row.qty = 0 /\ held = 0 /\ pc = "idle"

(* The copies of the pass are those of the row it works on. *)
Copies ==
  pc # "idle" =>
    /\ pc \notin {"protect", "link"} => pos = row.qty /\ want <= pos
    /\ link < passes
    /\ pc # "lookup" => cat = link

(* Stop s protects the whole position, or has sold it. *)
Covers(s) ==
  /\ stop[s].qty = row.qty
  /\ \/ stop[s].status = "accepted" /\ held = row.qty
     \/ stop[s].status = "filled" /\ stop[s].filled = row.qty /\ held = 0

(* The exit order alone accounts for what is no longer held. *)
Sells ==
  LET o == exit[passes]
  IN /\ o.qty = want /\ held = row.qty - o.filled
     /\ o.filled <= want /\ (o.status = "filled" <=> o.filled = want)

(* What holds between the broker and the books at each place of execute_exit. *)
AtPlace ==
  /\ link <= passes
  /\ row.status = "OPEN" /\ pc \in {"idle", "lookup", "cancel"} =>
       IF link = NoStop THEN held = row.qty ELSE Covers(link)
  /\ pc \in {"confirm", "bookStop"} => stop[link].status = "filled" /\ Covers(link)
  /\ pc = "submit" => held = row.qty
  /\ pc \in {"poll", "book", "final"} => Sells
  /\ pc = "poll" => exit[passes].status \in {"accepted", "filled"}
  /\ pc = "book" => exit[passes].status = "filled"
  /\ pc = "protect" => held = row.qty /\ cover = row.qty
  /\ pc = "link" => Covers(passes)

Sound == OneSeller /\ Books /\ Copies /\ AtPlace

ExitInv == TypeInv /\ (anomalies = {} => Sound)

LEMMA InitSound == Init => Sound
<1> SUFFICES ASSUME Init PROVE Sound
  OBVIOUS
<1>1. /\ row = [status |-> "OPEN", qty |-> Shares] /\ held = Shares /\ pc = "idle" /\ passes = 0
      /\ link \in {0, NoStop} /\ \A s \in Stops : booked[s] = 0
      /\ \A s \in Stops : stop[s] = IF s = link THEN Resting(Shares) ELSE NoOrder
      /\ \A p \in Passes : exit[p] = NoOrder
  BY DEF Init
<1>2. ~ Live(NoOrder)
  BY DEF NoOrder, Live
<1>3. OneSeller /\ Books /\ Copies
  BY <1>1, <1>2 DEF OneSeller, Books, Copies
<1>4. AtPlace
  BY <1>1, Numbers DEF AtPlace, Covers, Resting, NoStop
<1> QED
  BY <1>3, <1>4 DEF Sound

(* One step of execute_exit. *)
LEMMA EngineSound == ASSUME TypeInv, Sound, Engine, anomalies' = {} PROVE Sound'
<1> USE Numbers DEF TypeInv, TypeOK, InPass, Sound, OneSeller, Books, Copies, AtPlace,
        Covers, Sells, Live, Goto, Return, journal, broker, recon, history
<1>1. CASE Begin
  BY <1>1 DEF Begin, Stops, NoStop
<1>2. CASE Lookup
  BY <1>2 DEF Lookup, Rows
<1>3. CASE CancelStop
  BY <1>3 DEF CancelStop, Cancelled, Rows, Orders
<1>4. CASE ConfirmStop
  BY <1>4 DEF ConfirmStop, Rows
<1>5. CASE ConfirmRaises
  BY <1>5 DEF ConfirmRaises
<1>6. CASE BookStop
  BY <1>6 DEF BookStop, Booked, Rows
<1>7. CASE SubmitExit
  <2>1. CASE exit' = [exit EXCEPT ![passes] = Resting(want)] /\ Goto("poll")
    BY <1>7, <2>1 DEF SubmitExit, Resting, Rows
  <2>2. CASE Protect(pos) /\ UNCHANGED exit
    BY <1>7, <2>2 DEF SubmitExit, Protect, Rows
  <2> QED
    BY <1>7, <2>1, <2>2 DEF SubmitExit
<1>8. CASE PollFilled
  BY <1>8 DEF PollFilled, Rows
<1>9. CASE BookExit
  BY <1>9 DEF BookExit, Booked, Protect, Rows
<1>10. CASE Expire
  BY <1>10 DEF Expire, Cancelled, Rows, Orders
<1>11. CASE Final
  <2>1. CASE exit[passes].status = "filled"
    BY <1>11, <2>1 DEF Final, Booked, Rows, Orders
  <2>2. CASE exit[passes].status # "filled"
    BY <1>11, <2>2 DEF Final, Protect, Rows, Orders
  <2> QED
    BY <2>1, <2>2
<1>12. CASE PlaceStop
  BY <1>12 DEF PlaceStop, Resting, Rows
<1>13. CASE LinkStop
  BY <1>13 DEF LinkStop, Rows
<1> QED
  BY <1>1, <1>2, <1>3, <1>4, <1>5, <1>6, <1>7, <1>8, <1>9, <1>10, <1>11, <1>12, <1>13
     DEF Engine

(* A commit that changes the row without an overlap finds the position sold by
   the linked stop. *)
LEMMA CommitSound == ASSUME TypeInv, Sound, Commit, anomalies' = {} PROVE Sound'
<1> USE Numbers DEF TypeInv, TypeOK, InPass, Sound, OneSeller, Books, Copies, AtPlace,
        Covers, Sells, Live
<1>1. CASE row' = row /\ UNCHANGED booked
  BY <1>1 DEF Commit, journal, broker, engine, history
<1>2. CASE ~ (row' = row /\ UNCHANGED booked)
  <2>1. rLocal.status = "OPEN" /\ Reconcile
    BY <1>2 DEF Commit
  <2>2. row' # row
    BY <1>2, <2>1 DEF Commit, StopFilled, Reconcile, Booked, Rows, StopSizes, Orders
  <2>3. rHeld = held /\ rLocal = row /\ pc = "idle"
    BY <1>2, <2>2 DEF Commit, Reconcile, StopFilled, Booked, Rows, Orders
  <2>4. StopFilled
    BY <1>2, <2>1, <2>3 DEF Commit, Reconcile, StopFilled, Rows
  <2> QED
    BY <2>1, <2>3, <2>4 DEF Commit, Reconcile, Booked, StopFilled, engine, broker, Rows
<1> QED
  BY <1>1, <1>2

(* The broker's own steps. *)
LEMMA BrokerSound ==
  ASSUME TypeInv, Sound,
         (\E s \in Stops : TriggerStop(s)) \/ (\E p \in Passes : FillExit(p))
  PROVE  Sound'
<1> USE Numbers DEF TypeInv, TypeOK, InPass, Sound, OneSeller, Books, Copies, AtPlace,
        Covers, Sells, Live, journal, engine, recon, history, Rows
<1>1. ASSUME NEW s \in Stops, TriggerStop(s) PROVE Sound'
  <2>1. UNCHANGED <<journal, exit, engine, recon, history>> /\ Live(stop[s])
    BY <1>1 DEF TriggerStop
  <2> QED
    BY <1>1, <2>1, TriggerStopEffect
<1>2. ASSUME NEW p \in Passes, FillExit(p) PROVE Sound'
  <2>1. UNCHANGED <<journal, stop, engine, recon, history>> /\ Live(exit[p])
    BY <1>2 DEF FillExit
  <2> QED
    BY <1>2, <2>1, FillExitEffect DEF Orders
<1> QED
  BY <1>1, <1>2

LEMMA StepSound == ASSUME ExitInv, [Next]_vars PROVE ExitInv'
<1>1. TypeInv'
  BY StepTypes DEF ExitInv
<1>2. ASSUME anomalies' = {} PROVE Sound'
  <2>1. TypeInv /\ anomalies = {} /\ Sound
    BY <1>2, AnomaliesStay DEF ExitInv
  <2>2. CASE Interrupt
    BY <1>2, <2>1, <2>2, Numbers DEF Interrupt, Return, journal, broker, recon, TypeInv, TypeOK,
       InPass, Sound, OneSeller, Books, Copies, AtPlace, Covers, Sells, Live, Rows
  <2>3. CASE FetchBroker \/ ReadLocal \/ UNCHANGED vars
    BY <2>1, <2>3 DEF FetchBroker, ReadLocal, vars, journal, broker, engine, history,
       Sound, OneSeller, Books, Copies, AtPlace, Covers, Sells
  <2> QED
    BY <1>2, <2>1, <2>2, <2>3, EngineSound, CommitSound, BrokerSound DEF Next, Reconciliation
<1> QED
  BY <1>1, <1>2 DEF ExitInv

LEMMA InductiveExit == Spec => []ExitInv
<1>1. Init => ExitInv
  BY InitTypes, InitSound DEF ExitInv
<1> QED
  BY <1>1, StepSound, PTL DEF Spec

(* Outside the anomalies the resting stop and the exit order of a pass never
   sell the same shares: the position is never short. *)
THEOREM ExitNotOversold == Spec => []NotOversold
<1>1. ExitInv => NotOversold
  BY Numbers DEF ExitInv, TypeInv, TypeOK, InPass, Sound, OneSeller, Books, Copies, AtPlace, Covers,
     Sells, NotOversold, Rows, Places, Orders
<1> QED
  BY <1>1, InductiveExit, PTL

(* Outside the anomalies an open position with a stop is at rest only with a
   stop for exactly its quantity, live or filled and about to be booked. *)
THEOREM ExitProtectedAtRest == Spec => []ProtectedAtRest
<1>1. ExitInv => ProtectedAtRest
  BY DEF ExitInv, Sound, AtPlace, Covers, ProtectedAtRest
<1> QED
  BY <1>1, InductiveExit, PTL

(* Outside the anomalies the journal at rest shows what the broker holds, but for
   a stop that has filled and waits to be booked. *)
THEOREM ExitBooksAgree == Spec => []BooksAgreeAtRest
<1>1. ExitInv => BooksAgreeAtRest
  BY Numbers DEF ExitInv, TypeInv, TypeOK, Sound, Books, AtPlace, Covers, BooksAgreeAtRest, Rows
<1> QED
  BY <1>1, InductiveExit, PTL

-----------------------------------------------------------------------------
(* Through every anomaly but an overlap *)

(* What a stop has sold. *)
Sold(s) == IF stop[s].status = "filled" THEN stop[s].qty ELSE 0

(* Shares sold that the books still owe: by the linked stop, by one placed and
   not yet linked, by the exit order of the pass. *)
Due == (IF link = NoStop THEN 0 ELSE Sold(link))
       + (IF pc = "link" THEN Sold(passes) ELSE 0)
       + (IF pc \in {"poll", "book", "final"} THEN exit[passes].filled ELSE 0)

(* A pass runs on an open row nobody else changes. *)
Running ==
  pc # "idle" =>
    /\ row.status = "OPEN" /\ link < passes
    /\ pc # "lookup" => cat = link
    /\ pc \notin {"protect", "link"} => pos = row.qty
    /\ pc = "protect" => cover = row.qty
    /\ pc = "bookStop" => stop[link].status = "filled"
    /\ pc = "link" => stop[passes].qty = row.qty

(* The books never show less than is held and owed, and never more than the
   linked stop would sell: booking that stop closes the row. *)
Covered ==
  row.status = "OPEN" =>
    /\ row.qty > 0 /\ held + Due <= row.qty
    /\ link # NoStop /\ stop[link].status \in {"accepted", "filled"} => row.qty <= stop[link].qty
NothingTwice ==
  \A s \in Stops : booked[s] <= 1 /\ (row.status = "OPEN" => booked[s] = 0)
Once == link <= passes /\ Running /\ Covered /\ NothingTwice

LEMMA InitOnce == Init => Once
<1> SUFFICES ASSUME Init PROVE Once
  OBVIOUS
<1>1. /\ row = [status |-> "OPEN", qty |-> Shares] /\ held = Shares /\ pc = "idle" /\ passes = 0
      /\ link \in {0, NoStop} /\ \A s \in Stops : booked[s] = 0
      /\ \A s \in Stops : stop[s] = IF s = link THEN Resting(Shares) ELSE NoOrder
  BY DEF Init
<1>2. Running /\ NothingTwice
  BY <1>1 DEF Running, NothingTwice
<1>3. Covered
  BY <1>1, Numbers DEF Covered, Due, Sold, Resting, NoOrder
<1> QED
  BY <1>1, <1>2, <1>3, Numbers DEF Once, NoStop

LEMMA EngineOnce == ASSUME TypeInv, Once, Engine PROVE Once'
<1> USE Numbers DEF TypeInv, TypeOK, InPass, StopSizes, Once, Running, Covered, NothingTwice,
        Due, Sold, Live, Goto, Return, journal, broker, recon, history, Rows, Orders
<1>1. CASE Begin
  BY <1>1 DEF Begin, Stops, NoStop
<1>2. CASE Lookup
  BY <1>2 DEF Lookup
<1>3. CASE CancelStop
  BY <1>3 DEF CancelStop, Cancelled
<1>4. CASE ConfirmStop
  BY <1>4 DEF ConfirmStop
<1>5. CASE ConfirmRaises
  BY <1>5 DEF ConfirmRaises
<1>6. CASE BookStop
  BY <1>6 DEF BookStop, Booked
<1>7. CASE SubmitExit
  BY <1>7 DEF SubmitExit, Resting, Protect
<1>8. CASE PollFilled
  BY <1>8 DEF PollFilled
<1>9. CASE BookExit
  BY <1>9 DEF BookExit, Booked, Protect
<1>10. CASE Expire
  BY <1>10 DEF Expire, Cancelled
<1>11. CASE Final
  BY <1>11 DEF Final, Booked, Protect
<1>12. CASE PlaceStop
  BY <1>12 DEF PlaceStop, Resting
<1>13. CASE LinkStop
  BY <1>13 DEF LinkStop
<1> QED
  BY <1>1, <1>2, <1>3, <1>4, <1>5, <1>6, <1>7, <1>8, <1>9, <1>10, <1>11, <1>12, <1>13
     DEF Engine

(* A commit without an overlap acts between two passes on the row as it is. *)
LEMMA CommitOnce == ASSUME TypeInv, Once, Commit, "overlap" \notin anomalies' PROVE Once'
<1> USE Numbers DEF TypeInv, TypeOK, InPass, StopSizes, Once, Running, Covered, NothingTwice,
        Due, Sold, Live
<1>1. CASE row' = row /\ UNCHANGED booked
  BY <1>1 DEF Commit, journal, broker, engine, history
<1>2. CASE ~ (row' = row /\ UNCHANGED booked)
  <2>1. rLocal.status = "OPEN" /\ Reconcile
    BY <1>2 DEF Commit
  <2>2. row' # row
    BY <1>2, <2>1 DEF Commit, StopFilled, Reconcile, Booked, Rows, Orders
  <2>3. rHeld = held /\ rLocal = row /\ pc = "idle"
    BY <1>2, <2>2 DEF Commit
  <2>4. CASE rHeld > 0
    <3>1. row' = [row EXCEPT !.qty = held] /\ UNCHANGED <<stop, exit, held, pc, passes, link>>
      BY <2>1, <2>2, <2>3, <2>4 DEF Reconcile, Commit, engine, broker
    <3>2. row'.qty = held /\ row'.status = row.status /\ row.status = "OPEN"
      BY <2>1, <2>3, <3>1 DEF Rows
    <3>3. link # NoStop => stop[link].status # "filled"
      <4> SUFFICES ASSUME link \in Stops, stop[link].status = "filled" PROVE FALSE
        OBVIOUS
      <4>1. Due = stop[link].qty
        BY <2>3 DEF Orders
      <4>2. held + Due <= row.qty /\ row.qty <= stop[link].qty
        BY <3>2
      <4> QED
        BY <2>3, <2>4, <4>1, <4>2 DEF Rows, Orders
    <3>4. Due = 0 /\ Due' = 0
      BY <2>3, <3>1, <3>3
    <3>5. Covered'
      BY <2>3, <2>4, <3>1, <3>2, <3>3, <3>4 DEF Rows, Orders
    <3>6. UNCHANGED booked
      BY <2>4, <2>3 DEF Commit, StopFilled
    <3> QED
      BY <2>3, <3>1, <3>2, <3>5, <3>6
  <2>5. CASE ~ (rHeld > 0) /\ StopFilled
    <3>1. /\ Booked(stop[link].filled) /\ UNCHANGED <<stop, exit, held, pc, passes, link>>
          /\ booked' = [booked EXCEPT ![link] = @ + 1]
      BY <2>1, <2>3, <2>5 DEF Reconcile, Commit, engine, broker
    <3>2. row.status = "OPEN" /\ row.qty <= stop[link].filled /\ link \in Stops
      BY <2>1, <2>3, <2>5 DEF StopFilled, Rows
    <3>3. row'.status = "CLOSED"
      BY <3>1, <3>2 DEF Booked, Rows, Orders
    <3>4. NothingTwice'
      BY <3>1, <3>2, <3>3
    <3> QED
      BY <2>3, <3>1, <3>3, <3>4
  <2>6. CASE ~ (rHeld > 0) /\ ~ StopFilled
    BY <2>1, <2>2, <2>3, <2>6 DEF Commit, Reconcile, StopFilled, engine, broker, Rows
  <2> QED
    BY <2>4, <2>5, <2>6
<1> QED
  BY <1>1, <1>2

(* A stop that fills owes to the books what it takes from the broker. *)
LEMMA TriggerOnce == ASSUME TypeInv, Once, NEW s \in Stops, TriggerStop(s) PROVE Once'
<1> USE Numbers DEF TypeInv, TypeOK, InPass, StopSizes, Live
<1>1. UNCHANGED <<journal, exit, engine, recon, history>> /\ Live(stop[s])
  BY DEF TriggerStop
<1>2. UNCHANGED <<row, link, pc, passes, pos, cat, cover, booked>>
  BY <1>1 DEF journal, engine, history
<1>3. /\ stop' \in [Stops -> Orders]
      /\ stop'[s].status = "filled" /\ stop'[s].qty = stop[s].qty
      /\ \A t \in Stops \ {s} : stop'[t] = stop[t]
      /\ held' = held - stop[s].qty /\ stop[s].qty \in Nat
  BY TriggerStopEffect
<1>4. \A t \in Stops : /\ stop'[t].qty = stop[t].qty
                      /\ (stop[t].status = "filled" => stop'[t].status = "filled")
  BY <1>1, <1>3
<1>5. Running' /\ NothingTwice'
  BY <1>2, <1>4 DEF Once, Running, NothingTwice
<1>6. Sold(s)' = stop[s].qty /\ Sold(s) = 0 /\ \A t \in Stops \ {s} : Sold(t)' = Sold(t)
  BY <1>1, <1>3 DEF Sold
<1>7. Due' <= Due + stop[s].qty
  <2>1. pc = "link" => link # passes
    BY DEF Once, Running
  <2>2. \A t \in Stops : Sold(t) \in Nat /\ Sold(t)' \in Nat
    BY <1>3 DEF Sold, Orders
  <2>3. pc \in {"poll", "book", "final"} => exit[passes].filled \in Nat
    BY DEF Orders
  <2>4. pc = "link" => passes \in Stops
    OBVIOUS
  <2>5. UNCHANGED exit
    BY <1>1
  <2> HIDE DEF Sold
  <2> QED
    BY <1>2, <1>3, <1>6, <2>1, <2>2, <2>3, <2>4, <2>5 DEF Due
<1>8. Due \in Int /\ Due' \in Int
  BY <1>1, <1>2, <1>3 DEF Due, Sold, Orders
<1>9. Covered'
  BY <1>1, <1>2, <1>3, <1>4, <1>7, <1>8 DEF Once, Covered, Rows
<1> QED
  BY <1>2, <1>5, <1>9 DEF Once

LEMMA FillOnce == ASSUME TypeInv, Once, NEW p \in Passes, FillExit(p) PROVE Once'
<1>1. UNCHANGED <<journal, stop, engine, recon, history>> /\ Live(exit[p])
  BY DEF FillExit
<1> QED
  BY <1>1, FillExitEffect, Numbers DEF TypeInv, TypeOK, InPass, StopSizes, Once, Running, Covered,
     NothingTwice, Due, Sold, Live, journal, engine, recon, history, Rows, Orders

OnceInv == TypeInv /\ ("overlap" \notin anomalies => Once)

LEMMA StepOnce == ASSUME OnceInv, [Next]_vars PROVE OnceInv'
<1>1. TypeInv'
  BY StepTypes DEF OnceInv
<1>2. ASSUME "overlap" \notin anomalies' PROVE Once'
  <2>1. TypeInv /\ Once
    BY <1>2, AnomaliesStay DEF OnceInv
  <2>2. CASE Interrupt
    BY <2>1, <2>2, Numbers DEF Interrupt, Return, journal, broker, recon, TypeInv, TypeOK, InPass,
       StopSizes, Once, Running, Covered, NothingTwice, Due, Sold, Live, Rows, Orders
  <2>3. CASE FetchBroker \/ ReadLocal \/ UNCHANGED vars
    BY <2>1, <2>3 DEF FetchBroker, ReadLocal, vars, journal, broker, engine, history,
       Once, Running, Covered, NothingTwice, Due, Sold
  <2> QED
    BY <1>2, <2>1, <2>2, <2>3, EngineOnce, CommitOnce, TriggerOnce, FillOnce
       DEF Next, Reconciliation
<1> QED
  BY <1>1, <1>2 DEF OnceInv

(* Engine and reconciliation both book the fill of a catastrophe stop; unless
   they overlap it is booked once, through lost calls, process deaths, partial
   fills and late ones. *)
THEOREM ExitStopBookedOnce == Spec => []StopBookedOnce
<1>1. Init => OnceInv
  BY InitTypes, InitOnce DEF OnceInv
<1>2. OnceInv => StopBookedOnce
  BY DEF OnceInv, Once, NothingTwice, StopBookedOnce
<1> QED
  BY <1>1, <1>2, StepOnce, PTL DEF Spec
===============================================================================
