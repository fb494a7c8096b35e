--------------------------- MODULE EntryFlow_proofs ---------------------------
(***************************************************************************)
(* The entry flow for any number of intents, retries, crashes and shares:    *)
(* the broker opens one entry per intent, an outcome once journaled is       *)
(* final, a row carries what its order filled, and a position without a stop *)
(* is accounted for.                                                         *)
(***************************************************************************)
EXTENDS EntryFlow, TLAPS

(* What the two properties need of the types. *)
FlowTypes ==
  /\ intent \in [Intents -> Statuses]
  /\ entry \in [Intents -> BrokerOrders]
  /\ submitted \in [Intents -> Nat]
  /\ pc \in Places
  /\ cur \in Intents \cup {None}

(* The handler works on an intent. *)
InHand == pc # "idle" => cur \in Intents

(* The broker knows the client_order_id exactly when it has opened the order. *)
OpenedOnce ==
  \A i \in Intents : submitted[i] = IF entry[i].status = "none" THEN 0 ELSE 1

(* What the journal says of the intent in hand at each place of the handler. *)
StatusAtPlace ==
  /\ pc \in {"preflight", "submit", "row", "status"} => intent[cur] = "PENDING"
  /\ pc \in {"poll", "reread", "transition", "unfilled", "fill"} => intent[cur] = "SUBMITTED"

FlowInv == FlowTypes /\ InHand /\ OpenedOnce /\ StatusAtPlace

(* What the actions that matter here can write. *)
flow == <<intent, entry, submitted, pc, cur>>

USE EntryAssumption

LEMMA InitFlow == Init => FlowInv
  BY DEF Init, FlowInv, FlowTypes, InHand, OpenedOnce, StatusAtPlace, Statuses,
         BrokerOrders, BrokerStatuses, Live, Places, NoOrder

LEMMA FlowUntouched == ASSUME FlowInv, UNCHANGED flow PROVE FlowInv'
  BY DEF FlowInv, FlowTypes, InHand, OpenedOnce, StatusAtPlace, flow

(* A submission opens the order only if the broker does not know it. *)
LEMMA SubmitFlow == ASSUME FlowInv, Submit PROVE FlowInv'
<1> USE DEF FlowInv, FlowTypes, InHand, OpenedOnce, StatusAtPlace, Statuses,
        BrokerOrders, BrokerStatuses, Live, Places, Accepted
<1>1. pc = "submit" /\ cur \in Intents /\ intent[cur] = "PENDING"
  BY DEF Submit
<1>2. ASSUME NEW place \in {"row", "fail"}, ReachBroker(place) PROVE FlowInv'
  <2>1. pc' = place /\ UNCHANGED <<cur, intent>>
    BY <1>2 DEF ReachBroker, Goto
  <2>2. CASE entry[cur].status = "none"
    <3>1. /\ entry' = [entry EXCEPT ![cur] = Accepted]
          /\ submitted' = [submitted EXCEPT ![cur] = @ + 1]
      BY <1>2, <2>2 DEF ReachBroker
    <3>2. submitted' = [submitted EXCEPT ![cur] = 1]
      <4>1. submitted[cur] = 0
        BY <1>1, <2>2
      <4>2. submitted[cur] + 1 = 1
        BY <4>1
      <4> QED
        BY ONLY <3>1, <4>2
    <3>3. Accepted \in BrokerOrders /\ Accepted.status = "accepted"
      OBVIOUS
    <3>4. entry' \in [Intents -> BrokerOrders] /\ submitted' \in [Intents -> Nat]
      BY <1>1, <3>1, <3>2, <3>3
    <3>5. OpenedOnce'
      BY <1>1, <3>1, <3>2, <3>3
    <3> QED
      BY <1>1, <2>1, <3>4, <3>5
  <2>3. CASE entry[cur].status # "none"
    <3>1. UNCHANGED <<entry, submitted>>
      BY <1>2, <2>3 DEF ReachBroker
    <3> QED
      BY <1>1, <2>1, <3>1
  <2> QED
    BY <2>2, <2>3
<1>3. CASE Goto("ack") /\ SetStatus("REJECTED") /\ UNCHANGED <<entry, submitted, seen>>
  BY <1>1, <1>3 DEF Goto, SetStatus
<1> QED
  BY <1>2, <1>3 DEF Submit

(* The handler's other steps. *)
LEMMA HandleFlow == ASSUME FlowInv, Handle PROVE FlowInv'
<1> USE DEF FlowInv, FlowTypes, InHand, OpenedOnce, StatusAtPlace, Statuses,
        BrokerOrders, BrokerStatuses, Live, Places, Goto, SetStatus, journal,
        queue, consumer, recon, broker, history
<1>1. CASE Check
  BY <1>1 DEF Check
<1>2. CASE Preflight
  BY <1>2 DEF Preflight
<1>3. CASE Submit
  BY <1>3, SubmitFlow
<1>4. CASE CreateOrder \/ MarkSubmitted
  BY <1>4 DEF CreateOrder, MarkSubmitted
<1>5. CASE Poll \/ Reread
  BY <1>5 DEF Poll, Reread
<1>6. CASE Timeout
  BY <1>6 DEF Timeout
<1>7. CASE Transition \/ CloseUnfilled
  BY <1>7 DEF Transition, CloseUnfilled
<1>8. CASE RecordFill \/ OpenPosition
  BY <1>8 DEF RecordFill, OpenPosition
<1>9. CASE PlaceStop \/ LinkStop
  BY <1>9 DEF PlaceStop, LinkStop
<1>10. CASE Ack \/ Raise \/ Fail
  BY <1>10 DEF Ack, Raise, Fail
<1> QED
  BY <1>1, <1>2, <1>3, <1>4, <1>5, <1>6, <1>7, <1>8, <1>9, <1>10 DEF Handle

(* The broker changes orders it knows, and forgets none. *)
LEMMA MarketFlow == ASSUME FlowInv, Market PROVE FlowInv'
<1> USE DEF FlowInv, FlowTypes, InHand, OpenedOnce, StatusAtPlace, BrokerOrders,
        BrokerStatuses, Live, journal, queue, consumer, recon, broker, history
<1>1. ASSUME NEW i \in Intents, NEW n \in 1 .. Qty[i], FillEntry(i, n) PROVE FlowInv'
  <2>1. n \in Nat
    BY DEF EntryAssumption
  <2> QED
    BY <1>1, <2>1 DEF FillEntry
<1>2. ASSUME NEW i \in Intents, ExpireEntry(i) PROVE FlowInv'
  BY <1>2 DEF ExpireEntry
<1>3. ASSUME NEW i \in Intents, TriggerStop(i) PROVE FlowInv'
  BY <1>3, FlowUntouched DEF TriggerStop, flow
<1>4. ASSUME CloseExternally PROVE FlowInv'
  BY <1>4, FlowUntouched DEF CloseExternally, flow
<1> QED
  BY <1>1, <1>2, <1>3, <1>4 DEF Market

LEMMA StepFlow == ASSUME FlowInv, [Next]_vars PROVE FlowInv'
<1> USE DEF journal, queue, consumer, recon, broker, history
<1>1. ASSUME NEW i \in Intents, Claim(i) PROVE FlowInv'
  BY <1>1 DEF Claim, FlowInv, FlowTypes, InHand, OpenedOnce, StatusAtPlace, Places
<1>2. ASSUME NEW i \in Intents, Reap(i) PROVE FlowInv'
  BY <1>2, FlowUntouched DEF Reap, flow
<1>3. CASE Handle
  BY <1>3, HandleFlow
<1>4. CASE Reconcile
  BY <1>4, FlowUntouched DEF Reconcile, FetchBroker, ReadLocal, Commit, flow
<1>5. CASE Market
  BY <1>5, MarketFlow
<1>6. CASE Crash
  BY <1>6 DEF Crash, FlowInv, FlowTypes, InHand, OpenedOnce, StatusAtPlace, Places
<1>7. CASE UNCHANGED vars
  BY <1>7, FlowUntouched DEF vars, flow
<1> QED
  BY <1>1, <1>2, <1>3, <1>4, <1>5, <1>6, <1>7 DEF Next

LEMMA InductiveFlow == Spec => []FlowInv
  BY InitFlow, StepFlow, PTL DEF Spec

(* The broker opens at most one entry order per intent, however often the
   intent is retried after an exception, a lost reply or a crash. *)
THEOREM EntryOneOrder == Spec => []OneEntryOrder
<1>1. FlowInv => OneEntryOrder
  BY DEF FlowInv, OpenedOnce, OneEntryOrder
<1> QED
  BY <1>1, InductiveFlow, PTL

(* An intent that reached an outcome keeps it. *)
THEOREM EntryOutcomeIsFinal == Spec => OutcomeIsFinal
<1> DEFINE Kept == \A i \in Intents :
                     intent[i] \notin {"PENDING", "SUBMITTED"} => intent'[i] = intent[i]
<1>1. ASSUME FlowInv, NEW st, intent[cur] \in {"PENDING", "SUBMITTED"}, SetStatus(st)
      PROVE  Kept
  BY <1>1 DEF FlowInv, FlowTypes, SetStatus
<1>2. ASSUME UNCHANGED intent PROVE Kept
  BY <1>2
<1>3. ASSUME FlowInv, Handle PROVE Kept
  <2>1. CASE Preflight \/ Submit \/ MarkSubmitted
    <3>1. intent[cur] = "PENDING"
      BY <1>3, <2>1 DEF FlowInv, StatusAtPlace, Preflight, Submit, MarkSubmitted
    <3>2. UNCHANGED intent \/ SetStatus("REJECTED") \/ SetStatus("SUBMITTED")
      BY <2>1 DEF Preflight, Submit, MarkSubmitted, ReachBroker
    <3> QED
      BY <3>1, <3>2, <1>1, <1>2, <1>3
  <2>2. CASE CloseUnfilled \/ RecordFill
    <3>1. intent[cur] = "SUBMITTED"
      BY <1>3, <2>2 DEF FlowInv, StatusAtPlace, CloseUnfilled, RecordFill
    <3>2. \E st : SetStatus(st)
      BY <2>2 DEF CloseUnfilled, RecordFill
    <3> QED
      BY <3>1, <3>2, <1>1, <1>3
  <2>3. CASE ~(Preflight \/ Submit \/ MarkSubmitted \/ CloseUnfilled \/ RecordFill)
    <3>1. UNCHANGED intent
      BY <2>3, <1>3 DEF Handle, Check, CreateOrder, Poll, Timeout, Reread, Transition,
         OpenPosition, PlaceStop, LinkStop, Ack, Raise, Fail, journal
    <3> QED
      BY <3>1, <1>2
  <2> QED
    BY <2>1, <2>2, <2>3
<1>4. ASSUME Next, ~Handle PROVE UNCHANGED intent
  BY <1>4 DEF Next, Reconcile, Market, Claim, Reap, FetchBroker, ReadLocal, Commit,
     FillEntry, ExpireEntry, TriggerStop, CloseExternally, Crash, journal
<1>5. ASSUME UNCHANGED vars PROVE UNCHANGED intent
  BY <1>5 DEF vars, journal
<1>6. FlowInv /\ [Next]_vars => [Kept]_vars
  BY <1>2, <1>3, <1>4, <1>5
<1> QED
  BY <1>6, InductiveFlow, PTL DEF Spec, OutcomeIsFinal

-----------------------------------------------------------------------------
(* Types, and what follows from a fill *)

(* A message that waits may be handed out once more. *)
Attempts == \A i \in Intents : msg[i] = "ready" => tries[i] < MaxAttempts

EntryTypes == TypeOK /\ Attempts

LEMMA Bounds == MaxCrashes \in Nat /\ MaxExternal \in Nat /\ MaxAttempts \in Nat \ {0}
  BY DEF EntryAssumption

LEMMA SetStatusTypes ==
  ASSUME FlowInv, pc # "idle", NEW st \in Statuses, SetStatus(st)
  PROVE  intent' \in [Intents -> Statuses]
  BY DEF FlowInv, FlowTypes, InHand, SetStatus

LEMMA OrderStateType == \A o : OrderState(o) \in {"ACCEPTED", "PARTIAL", "FILLED", "CANCELLED", "EXPIRED"}
  BY DEF OrderState

LEMMA HandleTypes == ASSUME FlowInv, EntryTypes, Handle, FlowInv' PROVE EntryTypes'
<1> USE DEF FlowInv, FlowTypes, InHand, EntryTypes, TypeOK, Attempts, Goto, journal, queue,
        consumer, recon, broker, history
<1>1. CASE Check
  BY <1>1 DEF Check
<1>2. CASE Preflight
  BY <1>2 DEF Preflight
<1>3. CASE Submit
  <2>1. seen' \in BrokerOrders
    BY <1>3 DEF Submit, ReachBroker, Accepted, BrokerOrders, BrokerStatuses, Live
  <2> QED
    BY <1>3, <2>1 DEF Submit
<1>4. CASE CreateOrder
  BY <1>4, OrderStateType DEF CreateOrder
<1>5. CASE MarkSubmitted
  BY <1>5 DEF MarkSubmitted
<1>6. CASE Poll \/ Reread
  BY <1>6 DEF Poll, Reread
<1>7. CASE Timeout
  BY <1>7 DEF Timeout
<1>8. CASE Transition
  BY <1>8, OrderStateType DEF Transition
<1>9. CASE CloseUnfilled \/ RecordFill
  BY <1>9 DEF CloseUnfilled, RecordFill
<1>10. CASE OpenPosition
  BY <1>10 DEF OpenPosition, PositionRows, BrokerOrders, Rows
<1>11. CASE PlaceStop
  BY <1>11 DEF PlaceStop
<1>12. CASE LinkStop
  BY <1>12 DEF LinkStop
<1>13. CASE Ack
  BY <1>13 DEF Ack, NoOrder, BrokerOrders, BrokerStatuses
<1>14. CASE Raise
  BY <1>14 DEF Raise
<1>15. CASE Fail
  BY <1>15 DEF Fail, NoOrder, BrokerOrders, BrokerStatuses
<1> QED
  BY <1>1, <1>2, <1>3, <1>4, <1>5, <1>6, <1>7, <1>8, <1>9, <1>10, <1>11, <1>12, <1>13,
     <1>14, <1>15 DEF Handle

(* Whatever a reconciliation pass writes is a row, and it opens none. *)
LEMMA ReconciledRow ==
  ASSUME TypeOK, NEW r \in Rows
  PROVE  /\ Reconciled(r) \in PositionRows
         /\ Reconciled(r).status \in {book[r].status, "CLOSED"}
<1> DEFINE Same == rHeld # 0 /\ rLocal[r].side = SideOf(rHeld)
<1> DEFINE Sold == rHeld = 0 /\ r \in linked /\ cat[r] = "filled"
<1>1. book[r] \in PositionRows /\ Size(rHeld) \in Int
  BY DEF TypeOK, Size
<1>2. CASE Same
  <2> DEFINE n == Size(rHeld)
  <2>1. Reconciled(r) = IF rLocal[r].qty = n THEN book[r] ELSE [book[r] EXCEPT !.qty = n]
    BY <1>2 DEF Reconciled
  <2> HIDE DEF n
  <2> QED
    BY <1>1, <2>1 DEF PositionRows, n
<1>3. CASE ~ Same /\ Sold
  <2> DEFINE left == book[r].qty - entry[r].filled
  <2>1. left \in Int
    BY <1>1, <1>3 DEF TypeOK, PositionRows, BrokerOrders
  <2>2. Reconciled(r) = [book[r] EXCEPT !.qty = left, !.status = IF left <= 0 THEN "CLOSED" ELSE @]
    BY <1>3 DEF Reconciled
  <2> HIDE DEF left
  <2> QED
    BY <1>1, <2>1, <2>2 DEF PositionRows
<1>4. CASE ~ Same /\ ~ Sold
  <2>1. PICK n \in Int : n = 0
    OBVIOUS
  <2>2. Reconciled(r) = [book[r] EXCEPT !.qty = n, !.status = "CLOSED"]
    BY <1>4, <2>1 DEF Reconciled
  <2> QED
    BY <1>1, <2>2 DEF PositionRows
<1> HIDE DEF Same, Sold
<1> QED
  BY <1>2, <1>3, <1>4

LEMMA ReconcileTypes == ASSUME EntryTypes, Reconcile PROVE EntryTypes'
<1> USE DEF EntryTypes, TypeOK, Attempts, journal, queue, consumer, recon, broker, history
<1>1. CASE FetchBroker
  BY <1>1 DEF FetchBroker
<1>2. CASE ReadLocal
  BY <1>2 DEF ReadLocal, Open
<1>3. CASE Commit
  <2> DEFINE read == [r \in Rows |-> IF r \in DOMAIN rLocal THEN Reconciled(r) ELSE book[r]]
  <2>1. \A r \in Rows : Reconciled(r) \in PositionRows
    BY ReconciledRow
  <2>2. read \in [Rows -> PositionRows]
    BY <2>1
  <2>3. Skeleton \in PositionRows
    BY DEF Skeleton, SideOf, Size, PositionRows
  <2>4. book' \in [Rows -> PositionRows]
    BY <1>3, <2>2, <2>3 DEF Commit, Unused
  <2>5. DOMAIN rLocal' \subseteq Rows
    BY <1>3 DEF Commit, NoRows
  <2> QED
    BY <1>3, <2>4, <2>5 DEF Commit
<1> QED
  BY <1>1, <1>2, <1>3 DEF Reconcile

LEMMA StepEntryTypes == ASSUME FlowInv, EntryTypes, [Next]_vars PROVE EntryTypes'
<1> USE DEF EntryTypes, TypeOK, Attempts, journal, queue, consumer, recon, broker, history
<1>1. FlowInv'
  BY StepFlow
<1>2. ASSUME NEW i \in Intents, Claim(i) \/ Reap(i) PROVE EntryTypes'
  BY <1>2 DEF Claim, Reap, Places
<1>3. CASE Handle
  BY <1>1, <1>3, HandleTypes
<1>4. CASE Reconcile
  BY <1>4, ReconcileTypes
<1>5. CASE Market
  <2>1. ASSUME NEW i \in Intents, TriggerStop(i) PROVE EntryTypes'
    BY <2>1 DEF TriggerStop, BrokerOrders
  <2>2. ASSUME NEW i \in Intents, ExpireEntry(i) PROVE EntryTypes'
    BY <1>1, <2>2 DEF ExpireEntry, FlowInv, FlowTypes
  <2>3. ASSUME NEW i \in Intents, NEW n \in 1 .. Qty[i], FillEntry(i, n) PROVE EntryTypes'
    BY <1>1, <2>3 DEF FillEntry, FlowInv, FlowTypes, EntryAssumption
  <2>4. CASE CloseExternally
    BY <2>4 DEF CloseExternally
  <2> QED
    BY <1>5, <2>1, <2>2, <2>3, <2>4 DEF Market
<1>6. CASE Crash
  <2>1. DOMAIN rLocal' \subseteq Rows
    BY <1>6 DEF Crash, NoRows
  <2>2. seen' \in BrokerOrders
    BY <1>6 DEF Crash, NoOrder, BrokerOrders, BrokerStatuses
  <2> QED
    <3>1. crashes' \in 0 .. MaxCrashes
      BY <1>6, Bounds DEF Crash
    <3>2. cutOff' \subseteq Intents
      BY <1>6, Bounds DEF Crash
    <3>3. rpc' \in {"idle", "local", "commit"}
      BY <1>6 DEF Crash
    <3>4. rHeld' \in Int
      BY <1>6 DEF Crash
    <3>5. booted' \in BOOLEAN
      BY <1>6 DEF Crash
    <3>6. pc' \in Places /\ cur' \in Intents \cup {None}
      BY <1>6 DEF Crash, Places
    <3> QED
      BY <1>6, <2>1, <2>2, <3>1, <3>2, <3>3, <3>4, <3>5, <3>6 DEF Crash
<1>7. CASE UNCHANGED vars
  BY <1>7 DEF vars
<1> QED
  BY <1>2, <1>3, <1>4, <1>5, <1>6, <1>7 DEF Next

(* Type correctness of the journal, the queue, both tasks and the broker. *)
THEOREM EntryTypeCorrect == Spec => []TypeOK
<1>1. ASSUME Init PROVE EntryTypes
  <2>1. DOMAIN rLocal \subseteq Rows
    BY <1>1 DEF Init, NoRows
  <2>2. NoOrder \in BrokerOrders /\ NoRow \in PositionRows
    BY DEF NoOrder, BrokerOrders, BrokerStatuses, NoRow, PositionRows
  <2>3. /\ intent \in [Intents -> Statuses] /\ book \in [Rows -> PositionRows]
        /\ order \in [Intents -> {"none", "ACCEPTED", "PARTIAL", "FILLED", "CANCELLED", "EXPIRED"}]
        /\ msg \in [Intents -> {"ready", "claimed", "done"}]
        /\ cat \in [Intents -> {"none", "live", "filled"}]
        /\ entry \in [Intents -> BrokerOrders]
    BY <1>1, <2>2 DEF Init, Statuses
  <2>4. /\ tries \in [Intents -> 0 .. MaxAttempts] /\ submitted \in [Intents -> Nat]
        /\ crashes \in 0 .. MaxCrashes /\ external \in 0 .. MaxExternal
        /\ rHeld \in Int /\ held \in Int /\ Attempts
    BY <1>1, Bounds DEF Init, Attempts
  <2>5. /\ linked \subseteq Intents /\ alarmed \subseteq Intents /\ cutOff \subseteq Intents
        /\ pc \in Places /\ cur \in Intents \cup {None} /\ seen \in BrokerOrders
        /\ rpc \in {"idle", "local", "commit"} /\ booted \in BOOLEAN
    BY <1>1, <2>2 DEF Init, Places
  <2> QED
    BY <2>1, <2>3, <2>4, <2>5 DEF EntryTypes, TypeOK
<1>2. EntryTypes => TypeOK
  BY DEF EntryTypes
<1> QED
  BY <1>1, <1>2, StepEntryTypes, InductiveFlow, PTL DEF Spec

-----------------------------------------------------------------------------
(* An opened position and its stop *)

(* Only the opening transaction opens the row of an intent. *)
LEMMA OpenedBy ==
  ASSUME FlowInv, TypeOK, [Next]_vars, NEW i \in Intents,
         book[i].status # "OPEN", book'[i].status = "OPEN"
  PROVE  OpenPosition /\ cur = i
<1> USE DEF journal
<1>1. ASSUME Commit PROVE FALSE
  <2> DEFINE read == [r \in Rows |-> IF r \in DOMAIN rLocal THEN Reconciled(r) ELSE book[r]]
  <2>1. i \in Rows /\ i \notin Adopted
    BY DEF Rows, EntryAssumption
  <2>2. book'[i] = read[i]
    BY <1>1, <2>1 DEF Commit, Unused
  <2>3. read[i].status \in {book[i].status, "CLOSED"}
    BY <2>1, ReconciledRow
  <2> QED
    BY <2>2, <2>3
<1>2. book' # book
  OBVIOUS
<1>3. CASE OpenPosition
  BY <1>3 DEF OpenPosition, TypeOK, FlowInv, InHand, Rows
<1>4. CASE ~ OpenPosition
  BY <1>1, <1>2, <1>4 DEF Next, vars, Handle, Reconcile, Market, Claim, Reap, Check, Preflight,
     Submit, CreateOrder, MarkSubmitted, Poll, Timeout, Reread, Transition, CloseUnfilled,
     RecordFill, PlaceStop, LinkStop, Ack, Raise, Fail, FetchBroker, ReadLocal, FillEntry,
     ExpireEntry, TriggerStop, CloseExternally, Crash
<1> QED
  BY <1>3, <1>4

(* What gives account of a position without a stop is not lost but by a stop. *)
LEMMA AccountedStep ==
  ASSUME FlowInv, TypeOK, [Next]_vars, NEW i \in Intents,
         (cur = i /\ pc = "stop") \/ i \in alarmed \cup cutOff
  PROVE  cat'[i] # "none" \/ (cur' = i /\ pc' = "stop") \/ i \in alarmed' \cup cutOff'
<1> USE DEF journal, consumer, broker, history
<1>1. alarmed \subseteq alarmed' /\ cutOff \subseteq cutOff'
  BY DEF Next, vars, Handle, Reconcile, Market, Claim, Reap, Check, Preflight,
     Submit, CreateOrder, MarkSubmitted, Poll, Timeout, Reread, Transition, CloseUnfilled,
     RecordFill, OpenPosition, PlaceStop, LinkStop, Ack, Raise, Fail, FetchBroker, ReadLocal,
     Commit, FillEntry, ExpireEntry, TriggerStop, CloseExternally, Crash
<1>2. CASE i \in alarmed \cup cutOff
  BY <1>1, <1>2
<1>3. CASE cur = i /\ pc = "stop"
  <2>1. CASE PlaceStop
    BY <1>3, <2>1 DEF PlaceStop, TypeOK
  <2>2. CASE Raise
    BY <1>3, <2>2 DEF Raise
  <2>3. CASE Crash
    BY <1>3, <2>3 DEF Crash, EntryAssumption
  <2>4. CASE ~ PlaceStop /\ ~ Raise /\ ~ Crash
    <3>1. UNCHANGED <<pc, cur>>
      BY <1>3, <2>4 DEF Next, vars, Handle, Reconcile, Market, Claim, Reap, Check, Preflight,
         Submit, CreateOrder, MarkSubmitted, Poll, Timeout, Reread, Transition, CloseUnfilled,
         RecordFill, OpenPosition, LinkStop, Ack, Fail, FetchBroker, ReadLocal,
         Commit, FillEntry, ExpireEntry, TriggerStop, CloseExternally
    <3> QED
      BY <1>3, <3>1
  <2> QED
    BY <2>1, <2>2, <2>3, <2>4
<1> QED
  BY <1>2, <1>3

(* The broker forgets no stop. *)
LEMMA StopStays ==
  ASSUME FlowInv, TypeOK, [Next]_vars, NEW i \in Intents, cat[i] # "none"
  PROVE  cat'[i] # "none"
  BY DEF broker, FlowInv, InHand, TypeOK, Next, vars, Handle, Reconcile, Market, Claim, Reap, Check,
     Preflight, Submit, CreateOrder, MarkSubmitted, Poll, Timeout, Reread, Transition,
     CloseUnfilled, RecordFill, OpenPosition, PlaceStop, LinkStop, Ack, Raise, Fail, FetchBroker,
     ReadLocal, Commit, FillEntry, ExpireEntry, TriggerStop, CloseExternally, Crash

(* A position opened for an intent has its stop at the broker, or the handler is
   about to place it, or an alarm was raised, or the handler was cut off: through
   every lost reply, retry, reconciliation and crash. *)
THEOREM EntryNeverSilentlyNaked == Spec => []NeverSilentlyNaked
<1>1. Init => NeverSilentlyNaked
  BY DEF Init, NeverSilentlyNaked, NoRow, Rows
<1>2. ASSUME FlowInv, TypeOK, NeverSilentlyNaked, [Next]_vars PROVE NeverSilentlyNaked'
  <2> SUFFICES ASSUME NEW i \in Intents, book'[i].status = "OPEN", cat'[i] = "none"
               PROVE  (cur' = i /\ pc' = "stop") \/ i \in alarmed' \cup cutOff'
    BY DEF NeverSilentlyNaked
  <2>1. cat[i] = "none"
    BY <1>2, StopStays
  <2>2. CASE book[i].status = "OPEN"
    BY <1>2, <2>1, <2>2, AccountedStep DEF NeverSilentlyNaked
  <2>3. CASE book[i].status # "OPEN"
    BY <1>2, <2>3, OpenedBy DEF OpenPosition, Goto
  <2> QED
    BY <2>2, <2>3
<1> QED
  BY <1>1, <1>2, InductiveFlow, EntryTypeCorrect, PTL DEF Spec

(* From the final reading on, the handler's copy is the order as the broker has
   it, and the order is over. *)
ReadIsFinal ==
  /\ pc \in {"reread", "transition", "unfilled", "fill", "open"} => entry[cur].status \notin Live
  /\ pc \in {"transition", "unfilled", "fill", "open"} => seen = entry[cur]

LEMMA StepRead == ASSUME FlowInv, TypeOK, ReadIsFinal, [Next]_vars PROVE ReadIsFinal'
<1> USE DEF ReadIsFinal, FlowInv, InHand, TypeOK, journal, queue, consumer, recon, broker, history,
        Goto, Live
<1>1. CASE Handle
  <2>1. CASE Check \/ Preflight \/ CreateOrder \/ MarkSubmitted
    BY <2>1 DEF Check, Preflight, CreateOrder, MarkSubmitted
  <2>2. CASE Submit
    BY <2>2 DEF Submit, ReachBroker
  <2>3. CASE Poll \/ Reread
    BY <2>3 DEF Poll, Reread
  <2>4. CASE Timeout
    BY <2>4 DEF Timeout, BrokerOrders
  <2>5. CASE Transition \/ CloseUnfilled \/ RecordFill \/ OpenPosition
    BY <2>5 DEF Transition, CloseUnfilled, RecordFill, OpenPosition
  <2>6. CASE PlaceStop \/ LinkStop \/ Ack \/ Raise \/ Fail
    BY <2>6 DEF PlaceStop, LinkStop, Ack, Raise, Fail
  <2> QED
    BY <1>1, <2>1, <2>2, <2>3, <2>4, <2>5, <2>6 DEF Handle
<1>2. ASSUME NEW i \in Intents, Claim(i) \/ Reap(i) PROVE ReadIsFinal'
  BY <1>2 DEF Claim, Reap
<1>3. CASE Reconcile
  BY <1>3 DEF Reconcile, FetchBroker, ReadLocal, Commit
<1>4. CASE Market
  BY <1>4 DEF Market, FillEntry, ExpireEntry, TriggerStop, CloseExternally
<1>5. CASE Crash
  BY <1>5 DEF Crash
<1>6. CASE UNCHANGED vars
  BY <1>6 DEF vars
<1> QED
  BY <1>1, <1>2, <1>3, <1>4, <1>5, <1>6 DEF Next

LEMMA InductiveRead == Spec => []ReadIsFinal
<1>1. Init => ReadIsFinal
  BY DEF Init, ReadIsFinal
<1> QED
  BY <1>1, StepRead, InductiveFlow, EntryTypeCorrect, PTL DEF Spec

(* The row an intent opens carries what its order filled, and that order can
   fill no more. *)
THEOREM EntryOpensWhatWasFilled == Spec => OpensWhatWasFilled
<1> DEFINE Opens ==
      \A i \in Intents :
        book[i].status = "none" /\ book'[i].status = "OPEN" =>
          /\ book'[i].qty = entry[i].filled
          /\ entry[i].status \notin Live
<1>1. ASSUME FlowInv, TypeOK, ReadIsFinal, [Next]_vars PROVE Opens
  <2> SUFFICES ASSUME NEW i \in Intents, book[i].status = "none", book'[i].status = "OPEN"
               PROVE  book'[i].qty = entry[i].filled /\ entry[i].status \notin Live
    OBVIOUS
  <2>1. OpenPosition /\ cur = i
    BY <1>1, OpenedBy
  <2>2. seen = entry[i] /\ entry[i].status \notin Live
    BY <1>1, <2>1 DEF ReadIsFinal, OpenPosition
  <2>3. book'[i].qty = seen.filled
    BY <1>1, <2>1 DEF OpenPosition, TypeOK, Rows
  <2> QED
    BY <2>2, <2>3
<1>2. FlowInv /\ TypeOK /\ ReadIsFinal /\ [Next]_vars => [Opens]_vars
  BY <1>1
<1> QED
  BY <1>2, InductiveFlow, EntryTypeCorrect, InductiveRead, PTL DEF Spec, OpensWhatWasFilled
===============================================================================
