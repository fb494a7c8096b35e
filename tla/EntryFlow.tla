------------------------------ MODULE EntryFlow ------------------------------
(***************************************************************************)
(* The entry half of the execution service C4 for one ticker: the consumer   *)
(* task that turns queued intents into broker orders and position rows       *)
(* (c4_exec/service.py), the reconciliation task that compares the books     *)
(* with the broker (c4_exec/reconcile.py), the broker behind both            *)
(* (common/broker.py), and the death of their process between any two steps. *)
(*                                                                           *)
(* The two tasks share one event loop and interleave at every await, so each *)
(* broker call and each database transaction is an action.  Prices, sides of *)
(* entries (long only here) and the exit engine are left out; what the       *)
(* engine does to a position is the subject of ExitMechanics.                *)
(***************************************************************************)
EXTENDS Integers, FiniteSets, FiniteSetsExt

CONSTANTS
  Intents,      \* intents for the ticker, one exec.intent message each
  Adopted,      \* ids for skeleton rows (bound: adoptions)
  Qty,          \* [Intents -> shares]
  Capacity,     \* effective capital, in shares
  MaxAttempts,  \* max_attempts of the queue
  MaxCrashes,   \* bound: process deaths
  MaxExternal,  \* bound: positions closed at the broker by somebody else
  None          \* no intent in hand

ASSUME EntryAssumption ==
  /\ Intents \cap Adopted = {}
  /\ Qty \in [Intents -> Nat \ {0}]
  /\ {Capacity, MaxCrashes, MaxExternal} \subseteq Nat /\ MaxAttempts \in Nat \ {0}
  /\ None \notin Intents \cup Adopted

VARIABLES
  \* the journal
  intent,    \* intents.status
  order,     \* orders.state of the ENTRY row, "none" without one
  book,      \* positions: one row per intent, and the adopted skeletons
  linked,    \* intents whose row names its catastrophe stop
  alarmed,   \* intents whose stop failed with a DEGRADED alarm and an event
  \* the queue
  msg, tries,
  \* the consumer task
  pc, cur, seen,
  \* the reconciliation task, and whether its first pass is over
  rpc, rHeld, rLocal, booted,
  \* the broker
  entry,     \* the entry order submitted under client_order_id = intent
  cat,       \* the stop submitted under client_order_id = cat-intent
  held,      \* signed position in the ticker
  \* history
  submitted, \* distinct entry orders the broker opened, per intent
  cutOff,    \* intents whose handler ended before it could place the stop
  crashes, external

journal == <<intent, order, book, linked, alarmed>>
queue == <<msg, tries>>
consumer == <<pc, cur, seen>>
recon == <<rpc, rHeld, rLocal, booted>>
broker == <<entry, cat, held>>
history == <<submitted, cutOff, crashes, external>>
vars == <<journal, queue, consumer, recon, broker, history>>

Rows == Intents \cup Adopted
Statuses == {"PENDING", "SUBMITTED", "FILLED", "PARTIAL", "CANCELLED", "EXPIRED", "REJECTED"}
Live == {"accepted", "partially_filled"}
BrokerStatuses == Live \cup {"none", "filled", "canceled", "expired"}
BrokerOrders == [status : BrokerStatuses, filled : Nat]
Places == {"idle", "check", "preflight", "submit", "row", "status", "poll", "reread",
           "transition", "unfilled", "fill", "open", "stop", "link", "ack", "fail"}
PositionRows == [status : {"none", "OPEN", "CLOSED"}, side : {"LONG", "SHORT"}, qty : Int]

TypeOK ==
  /\ intent \in [Intents -> Statuses]
  /\ order \in [Intents -> {"none", "ACCEPTED", "PARTIAL", "FILLED", "CANCELLED", "EXPIRED"}]
  /\ book \in [Rows -> PositionRows]
  /\ linked \subseteq Intents /\ alarmed \subseteq Intents /\ cutOff \subseteq Intents
  /\ msg \in [Intents -> {"ready", "claimed", "done"}]
  /\ tries \in [Intents -> 0 .. MaxAttempts]
  /\ pc \in Places /\ cur \in Intents \cup {None} /\ seen \in BrokerOrders
  /\ rpc \in {"idle", "local", "commit"} /\ rHeld \in Int /\ booted \in BOOLEAN
  /\ DOMAIN rLocal \subseteq Rows
  /\ entry \in [Intents -> BrokerOrders]
  /\ cat \in [Intents -> {"none", "live", "filled"}]
  /\ held \in Int
  /\ submitted \in [Intents -> Nat]
  /\ crashes \in 0 .. MaxCrashes /\ external \in 0 .. MaxExternal

NoOrder == [status |-> "none", filled |-> 0]
NoRow == [status |-> "none", side |-> "LONG", qty |-> 0]
NoRows == [r \in {} |-> NoRow]

Init ==
  /\ intent = [i \in Intents |-> "PENDING"]
  /\ order = [i \in Intents |-> "none"]
  /\ book = [r \in Rows |-> NoRow]
  /\ linked = {} /\ alarmed = {} /\ cutOff = {}
  /\ msg = [i \in Intents |-> "ready"]
  /\ tries = [i \in Intents |-> 0]
  /\ pc = "idle" /\ cur = None /\ seen = NoOrder
  /\ rpc = "idle" /\ rHeld = 0 /\ rLocal = NoRows /\ booted = FALSE
  /\ entry = [i \in Intents |-> NoOrder]
  /\ cat = [i \in Intents |-> "none"]
  /\ held = 0
  /\ submitted = [i \in Intents |-> 0]
  /\ crashes = 0 /\ external = 0

Open(b) == {r \in DOMAIN b : b[r].status = "OPEN"}
Shares(b) == MapThenSumSet(LAMBDA r : b[r].qty, Open(b))

(* BROKER_STATE: how the journal names a broker status. *)
OrderState(o) ==
  CASE o.status = "partially_filled" -> "PARTIAL"
    [] o.status = "filled"           -> "FILLED"
    [] o.status = "canceled"         -> "CANCELLED"
    [] o.status = "expired"          -> "EXPIRED"
    [] OTHER                         -> "ACCEPTED"

-----------------------------------------------------------------------------
(* The consumer task: handle_intent *)

Goto(place) == pc' = place /\ UNCHANGED cur

Claim(i) ==
  /\ booted
  /\ pc = "idle" /\ msg[i] = "ready"
  /\ msg' = [msg EXCEPT ![i] = "claimed"]
  /\ tries' = [tries EXCEPT ![i] = @ + 1]
  /\ pc' = "check" /\ cur' = i
  /\ UNCHANGED <<journal, seen, recon, broker, history>>

(* A mutant: only an ENTRY order marks an intent as processed. *)
CheckOrdersOnly ==
  /\ pc = "check"
  /\ Goto(IF order[cur] # "none" THEN "ack" ELSE "preflight")
  /\ UNCHANGED <<journal, queue, seen, recon, broker, history>>

(* _already_processed: any status past PENDING, or an ENTRY order row. *)
Check ==
  /\ pc = "check"
  /\ Goto(IF intent[cur] # "PENDING" \/ order[cur] # "none" THEN "ack" ELSE "preflight")
  /\ UNCHANGED <<journal, queue, seen, recon, broker, history>>

SetStatus(status) == intent' = [intent EXCEPT ![cur] = status]

(* _preflight: deployed capital from the OPEN rows; the flags and the settled
   cash may veto at any time.  A veto closes the intent. *)
Preflight ==
  /\ pc = "preflight"
  /\ \/ /\ Shares(book) + Qty[cur] <= Capacity
        /\ Goto("submit") /\ UNCHANGED intent
     \/ /\ Goto("ack") /\ SetStatus("REJECTED")
  /\ UNCHANGED <<order, book, linked, alarmed, queue, seen, recon, broker, history>>

Accepted == [status |-> "accepted", filled |-> 0]

(* A mutant: a client_order_id of its own for every attempt. *)
ReachWithFreshId(place) ==
  /\ Goto(place)
  /\ entry' = [entry EXCEPT ![cur] = Accepted]
  /\ submitted' = [submitted EXCEPT ![cur] = @ + 1]
  /\ seen' = IF place = "row" THEN Accepted ELSE seen
  /\ UNCHANGED intent

(* The broker opens the order, or finds that it knows the client_order_id. *)
ReachBroker(place) ==
  /\ Goto(place)
  /\ IF entry[cur].status = "none"
       THEN /\ entry' = [entry EXCEPT ![cur] = Accepted]
            /\ submitted' = [submitted EXCEPT ![cur] = @ + 1]
            /\ seen' = IF place = "row" THEN Accepted ELSE seen
       ELSE /\ seen' = IF place = "row" THEN entry[cur] ELSE seen
            /\ UNCHANGED <<entry, submitted>>
  /\ UNCHANGED intent

(* submit_limit with client_order_id = intent_id.  The call may take effect
   and still raise (a timeout); a refusal, which a repeated client_order_id
   can draw too, is a BrokerReject and closes the intent. *)
Submit ==
  /\ pc = "submit"
  /\ \/ ReachBroker("row")
     \/ ReachBroker("fail")
     \/ /\ Goto("ack") /\ SetStatus("REJECTED")
        /\ UNCHANGED <<entry, submitted, seen>>
  /\ UNCHANGED <<order, book, linked, alarmed, queue, recon, cat, held, cutOff, crashes, external>>

CreateOrder ==
  /\ pc = "row"
  /\ order' = [order EXCEPT ![cur] = OrderState(seen)]
  /\ Goto("status")
  /\ UNCHANGED <<intent, book, linked, alarmed, queue, seen, recon, broker, history>>

MarkSubmitted ==
  /\ pc = "status"
  /\ SetStatus("SUBMITTED")
  /\ Goto("poll")
  /\ UNCHANGED <<order, book, linked, alarmed, queue, seen, recon, broker, history>>

(* _await_terminal: a poll finds the order terminal ... *)
Poll ==
  /\ pc = "poll" /\ entry[cur].status \notin Live
  /\ seen' = entry[cur]
  /\ Goto("transition")
  /\ UNCHANGED <<journal, queue, recon, broker, history>>

(* ... or fill_timeout_secs pass and the order is cancelled, unless it became
   terminal meanwhile ... *)
Timeout ==
  /\ pc = "poll"
  /\ entry' = IF entry[cur].status \in Live
                THEN [entry EXCEPT ![cur].status = "canceled"] ELSE entry
  /\ Goto("reread")
  /\ UNCHANGED <<journal, queue, seen, recon, cat, held, history>>

(* ... and read once more. *)
Reread ==
  /\ pc = "reread"
  /\ seen' = entry[cur]
  /\ Goto("transition")
  /\ UNCHANGED <<journal, queue, recon, broker, history>>

Transition ==
  /\ pc = "transition"
  /\ order' = [order EXCEPT ![cur] = OrderState(seen)]
  /\ Goto(IF seen.filled = 0 THEN "unfilled" ELSE "fill")
  /\ UNCHANGED <<intent, book, linked, alarmed, queue, seen, recon, broker, history>>

CloseUnfilled ==
  /\ pc = "unfilled"
  /\ SetStatus(IF seen.status = "expired" THEN "EXPIRED" ELSE "CANCELLED")
  /\ Goto("ack")
  /\ UNCHANGED <<order, book, linked, alarmed, queue, seen, recon, broker, history>>

(* record_fill, then the intent's own outcome. *)
RecordFill ==
  /\ pc = "fill"
  /\ SetStatus(IF seen.filled >= Qty[cur] THEN "FILLED" ELSE "PARTIAL")
  /\ Goto("open")
  /\ UNCHANGED <<order, book, linked, alarmed, queue, seen, recon, broker, history>>

(* _open_position: one transaction for row, order link and decision. *)
OpenPosition ==
  /\ pc = "open"
  /\ book' = [book EXCEPT ![cur] = [status |-> "OPEN", side |-> "LONG", qty |-> seen.filled]]
  /\ Goto("stop")
  /\ UNCHANGED <<intent, order, linked, alarmed, queue, seen, recon, broker, history>>

(* A mutant: the failure of the stop is only logged. *)
PlaceStopQuietly ==
  /\ pc = "stop"
  /\ \/ /\ cat' = [cat EXCEPT ![cur] = "live"] /\ Goto("link")
     \/ /\ Goto("ack") /\ UNCHANGED cat
  /\ UNCHANGED <<journal, queue, seen, recon, entry, held, history>>

(* The catastrophe stop, after the transaction: placed, or failed with an
   alarm and an event (the broker may have taken it all the same). *)
PlaceStop ==
  /\ pc = "stop"
  /\ \/ /\ cat' = [cat EXCEPT ![cur] = "live"]
        /\ Goto("link") /\ UNCHANGED alarmed
     \/ /\ cat' \in {cat, [cat EXCEPT ![cur] = "live"]}
        /\ alarmed' = alarmed \cup {cur} /\ Goto("ack")
  /\ UNCHANGED <<intent, order, book, linked, queue, seen, recon, entry, held, history>>

(* Its order row and the link from the position; a failure raises the alarm. *)
LinkStop ==
  /\ pc = "link"
  /\ \/ linked' = linked \cup {cur} /\ UNCHANGED alarmed
     \/ linked' \in {linked, linked \cup {cur}} /\ alarmed' = alarmed \cup {cur}
  /\ Goto("ack")
  /\ UNCHANGED <<intent, order, book, queue, seen, recon, broker, history>>

(* The loop acks what the handler returned from. *)
Ack ==
  /\ pc = "ack"
  /\ msg' = [msg EXCEPT ![cur] = "done"]
  /\ pc' = "idle" /\ cur' = None /\ seen' = NoOrder
  /\ UNCHANGED <<journal, tries, recon, broker, history>>

(* Any broker or database call may raise, the alarm's own included, and the loop
   then fails the message.  A call that took effect and raised is its effect
   followed by this step: at "stop", the opening transaction whose reply was
   lost.  A submission that took no effect is a raise at "preflight". *)
Raise ==
  /\ pc \notin {"idle", "submit", "fail"}
  /\ Goto("fail")
  /\ cutOff' = IF pc = "stop" THEN cutOff \cup {cur} ELSE cutOff
  /\ UNCHANGED <<journal, queue, seen, recon, broker, submitted, crashes, external>>

(* queue.fail: back to the queue, or to the dead letters. *)
Fail ==
  /\ pc = "fail"
  /\ msg' = [msg EXCEPT ![cur] = IF tries[cur] >= MaxAttempts THEN "done" ELSE "ready"]
  /\ pc' = "idle" /\ cur' = None /\ seen' = NoOrder
  /\ UNCHANGED <<journal, tries, recon, broker, history>>

(* queue.reap_stale gives the claim of a dead consumer back.  No process calls
   it; an operator may. *)
Reap(i) ==
  /\ msg[i] = "claimed" /\ cur # i /\ tries[i] < MaxAttempts
  /\ msg' = [msg EXCEPT ![i] = "ready"]
  /\ UNCHANGED <<journal, tries, consumer, recon, broker, history>>

-----------------------------------------------------------------------------
(* The reconciliation task *)

FetchBroker ==
  /\ rpc = "idle"
  /\ rHeld' = held
  /\ rpc' = "local"
  /\ UNCHANGED <<journal, queue, consumer, rLocal, booted, broker, history>>

ReadLocal ==
  /\ rpc = "local"
  /\ rLocal' = [r \in Open(book) |-> book[r]]
  /\ rpc' = "commit"
  /\ UNCHANGED <<journal, queue, consumer, rHeld, booted, broker, history>>

SideOf(n) == IF n < 0 THEN "SHORT" ELSE "LONG"
Size(n) == IF n < 0 THEN -n ELSE n

(* What the pass writes into the row of a position it read as OPEN. *)
Reconciled(r) ==
  LET now == book[r]
      left == now.qty - entry[r].filled
  IN IF rHeld # 0 /\ rLocal[r].side = SideOf(rHeld)
       THEN IF rLocal[r].qty = Size(rHeld) THEN now
                                           ELSE [now EXCEPT !.qty = Size(rHeld)]
     ELSE IF rHeld = 0 /\ r \in linked /\ cat[r] = "filled"
       THEN [now EXCEPT !.qty = left, !.status = IF left <= 0 THEN "CLOSED" ELSE @]
     ELSE [now EXCEPT !.qty = 0, !.status = "CLOSED"]

Skeleton == [status |-> "OPEN", side |-> SideOf(rHeld), qty |-> Size(rHeld)]
Unused == {a \in Adopted : book[a].status = "none"}

(* A mutant: positions without a local record are only reported. *)
CommitWithoutAdoption ==
  /\ rpc = "commit"
  /\ book' = [r \in Rows |-> IF r \in DOMAIN rLocal THEN Reconciled(r) ELSE book[r]]
  /\ rpc' = "idle" /\ booted' = TRUE
  /\ rHeld' = 0 /\ rLocal' = NoRows
  /\ UNCHANGED <<intent, order, linked, alarmed, queue, consumer, broker, history>>

(* One transaction: every row read as OPEN is closed, snapped to the broker's
   quantity or left alone; a position no OPEN row speaks for is adopted. *)
Commit ==
  /\ rpc = "commit"
  /\ LET read == [r \in Rows |-> IF r \in DOMAIN rLocal THEN Reconciled(r) ELSE book[r]]
     IN IF rHeld # 0 /\ DOMAIN rLocal = {}
          THEN \E a \in Unused : book' = [read EXCEPT ![a] = Skeleton]
          ELSE book' = read
  /\ rpc' = "idle" /\ booted' = TRUE
  /\ rHeld' = 0 /\ rLocal' = NoRows
  /\ UNCHANGED <<intent, order, linked, alarmed, queue, consumer, broker, history>>

-----------------------------------------------------------------------------
(* The broker and the environment *)

FillEntry(i, n) ==
  /\ entry[i].status \in Live /\ entry[i].filled + n <= Qty[i]
  /\ entry' = [entry EXCEPT ![i] =
       [status |-> IF @.filled + n = Qty[i] THEN "filled" ELSE "partially_filled",
        filled |-> @.filled + n]]
  /\ held' = held + n
  /\ UNCHANGED <<journal, queue, consumer, recon, cat, history>>

(* The day ends on an unfilled remainder. *)
ExpireEntry(i) ==
  /\ entry[i].status \in Live
  /\ entry' = [entry EXCEPT ![i].status = "expired"]
  /\ UNCHANGED <<journal, queue, consumer, recon, cat, held, history>>

TriggerStop(i) ==
  /\ cat[i] = "live"
  /\ cat' = [cat EXCEPT ![i] = "filled"]
  /\ held' = held - entry[i].filled
  /\ UNCHANGED <<journal, queue, consumer, recon, entry, history>>

(* Somebody closes the position at the broker. *)
CloseExternally ==
  /\ held # 0 /\ external < MaxExternal
  /\ held' = 0
  /\ external' = external + 1
  /\ UNCHANGED <<journal, queue, consumer, recon, entry, cat, submitted, cutOff, crashes>>

(* Both tasks die; the restarted process reconciles before it consumes. *)
Crash ==
  /\ crashes < MaxCrashes
  /\ crashes' = crashes + 1
  /\ cutOff' = IF cur = None THEN cutOff ELSE cutOff \cup {cur}
  /\ pc' = "idle" /\ cur' = None /\ seen' = NoOrder
  /\ rpc' = "idle" /\ rHeld' = 0 /\ rLocal' = NoRows /\ booted' = FALSE
  /\ UNCHANGED <<journal, queue, broker, submitted, external>>

-----------------------------------------------------------------------------
Handle == \/ Check \/ Preflight \/ Submit \/ CreateOrder \/ MarkSubmitted
          \/ Poll \/ Timeout \/ Reread \/ Transition \/ CloseUnfilled \/ RecordFill
          \/ OpenPosition \/ PlaceStop \/ LinkStop \/ Ack \/ Raise \/ Fail

Reconcile == FetchBroker \/ ReadLocal \/ Commit

Market == \/ \E i \in Intents : \/ \E n \in 1 .. Qty[i] : FillEntry(i, n)
                                \/ ExpireEntry(i)
                                \/ TriggerStop(i)
          \/ CloseExternally

Next == \/ \E i \in Intents : Claim(i) \/ Reap(i)
        \/ Handle
        \/ Reconcile
        \/ Market
        \/ Crash

Spec == Init /\ [][Next]_vars

(* Reconciliation runs at boot and every reconcile_interval_min, forever. *)
FairSpec == Spec /\ WF_vars(Reconcile)

-----------------------------------------------------------------------------
(* Properties *)

(* "Idempotency at both layers": however often an intent is retried after an
   exception, a lost reply or a crash, the broker opens one entry for it. *)
OneEntryOrder == \A i \in Intents : submitted[i] <= 1

(* The row an intent opens carries what its order filled, and that order can
   fill no more: the time-out cancels before it reads. *)
OpensWhatWasFilled ==
  [][\A i \in Intents :
       book[i].status = "none" /\ book'[i].status = "OPEN" =>
         /\ book'[i].qty = entry[i].filled
         /\ entry[i].status \notin Live]_vars

(* An intent that reached an outcome keeps it through every retry. *)
OutcomeIsFinal ==
  [][\A i \in Intents :
       intent[i] \notin {"PENDING", "SUBMITTED"} => intent'[i] = intent[i]]_vars

(* A position opened for an intent has its stop at the broker, or the arming is
   in progress, or an alarm was raised, or the handler was cut off on the way. *)
NeverSilentlyNaked ==
  \A i \in Intents :
    book[i].status = "OPEN" /\ cat[i] = "none" =>
      (cur = i /\ pc = "stop") \/ i \in alarmed \cup cutOff

(* Whatever was lost or crashed, the books come to show a position exactly
   when the broker holds one. *)
BooksFollowBroker == []<>(held # 0 <=> Open(book) # {})

(* "The broker is the source of truth, ALWAYS ... local qty snapped to broker"
   (reconcile.py): a pass whose two readings are still current leaves the open
   rows with the broker's quantity. *)
ReconcileRestoresQuantity ==
  [][ Commit /\ rHeld = held /\ rLocal = [r \in Open(book) |-> book[r]]
        => Shares(book') = Size(held) ]_vars
==============================================================================
