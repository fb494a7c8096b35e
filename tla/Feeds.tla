-------------------------------- MODULE Feeds --------------------------------
(***************************************************************************)
(* C1, the RSS source (c1_ingestion/sources/rss.py): one loop over the      *)
(* feeds, conditional requests, retries, checks of what was answered, and   *)
(* entries stored one by one; beside it the watchdog that opens and closes  *)
(* gap rows (heartbeat.py) and the supervisor (service.py).                 *)
(*                                                                          *)
(* A feed publishes entries 1, 2, ... and shows the newest Shown of them;   *)
(* its validator (ETag or Last-Modified) is the number of the newest one.   *)
(* The DEGRADED row of a feed that answers and is stale needs no state of   *)
(* its own and is left out.                                                 *)
(***************************************************************************)
EXTENDS Integers, FiniteSets, Sequences, SequencesExt

CONSTANTS
  Feeds,
  Shown, Newest,   \* entries a feed shows, and the last it publishes
  Retries, FeedDegradeAfter, AggregateDegradeAfter,
  Threshold, OffhoursThreshold,   \* of a gap, in firings of the watchdog
  MaxFaults, None

VARIABLES
  newest,          \* entries each feed has published
  stored,          \* what is in the news store, or quarantined, of each feed
  cache, feedFails,          \* memory of the source, by feed
  aggFails,
  rowOf,           \* journal.health of each feed
  aggRow,          \* journal.health of ingestion:rss
  poll,            \* the poll in progress
  market,          \* is_market_hours()
  silent,          \* firings since mark_activity
  openGap,         \* open_gap_id is set
  gaps,            \* rows of news.ingestion_gaps without an end
  restarts, missed,    \* history: entries whose storing raised, or came after
  mishaps

memory  == <<cache, feedFails, aggFails>>
rowsOf  == <<rowOf, aggRow>>
watch   == <<market, silent, openGap, gaps>>
history == <<restarts, missed>>
feedVars == <<newest, stored, memory, rowsOf, poll, watch, history, mishaps>>

Turn(rest) == [phase |-> "feed", left |-> rest, attempt |-> 1, todo |-> <<>>]

Order == SetToSeq(Feeds)

FeedsInit ==
  /\ newest = [f \in Feeds |-> 0] /\ stored = [f \in Feeds |-> {}]
  /\ cache = [f \in Feeds |-> None] /\ feedFails = [f \in Feeds |-> 0] /\ aggFails = 0
  /\ rowOf = [f \in Feeds |-> "OK"] /\ aggRow = "OK"
  /\ poll = Turn(Order)
  /\ market = TRUE /\ silent = 0 /\ openGap = FALSE /\ gaps = 0
  /\ restarts = 0 /\ missed = [f \in Feeds |-> {}] /\ mishaps = 0

Feed == Head(poll.left)

Visible(f) == {n \in 1 .. newest[f] : n > newest[f] - Shown}

Polling == poll.phase = "feed" /\ poll.left # <<>> /\ poll.todo = <<>>

(* A wire publishes in bursts: only now and then between two cycles. *)
Publish(f) ==
  /\ newest[f] < Newest
  /\ newest' = [newest EXCEPT ![f] = @ + 1]
  /\ UNCHANGED <<stored, memory, rowsOf, poll, watch, history, mishaps>>

(* feed_health after a poll that succeeded, and mark_activity. *)
Succeed ==
  /\ rowOf' = [rowOf EXCEPT ![Feed] = "OK"]
  /\ feedFails' = [feedFails EXCEPT ![Feed] = 0]
  /\ poll' = Turn(Tail(poll.left))
  /\ UNCHANGED <<aggFails, aggRow>>

NotModified ==
  /\ Polling /\ cache[Feed] = newest[Feed]
  /\ silent' = 0
  /\ Succeed
  /\ UNCHANGED <<newest, stored, cache, market, openGap, gaps, history, mishaps>>

(* A mutant: the validator of an answer is kept before the answer is looked at. *)
UnparseableCached ==
  /\ Polling /\ mishaps < MaxFaults
  /\ mishaps' = mishaps + 1
  /\ cache' = [cache EXCEPT ![Feed] = newest[Feed]]
  /\ Succeed
  /\ UNCHANGED <<newest, stored, watch, history>>

(* A body without entries that does not parse: quarantined, and no failure. *)
Unparseable ==
  /\ Polling /\ mishaps < MaxFaults
  /\ mishaps' = mishaps + 1
  /\ Succeed
  /\ UNCHANGED <<newest, stored, cache, watch, history>>

FeedFailed ==
  /\ feedFails' = [feedFails EXCEPT ![Feed] = @ + 1]
  /\ rowOf' = IF feedFails[Feed] + 1 >= FeedDegradeAfter THEN [rowOf EXCEPT ![Feed] = "DEGRADED"] ELSE rowOf
  /\ poll' = Turn(Tail(poll.left))
  /\ UNCHANGED <<aggFails, aggRow>>

(* No connection, a time-out or a status that is worth another attempt. *)
Unreachable ==
  /\ Polling /\ mishaps < MaxFaults
  /\ mishaps' = mishaps + 1
  /\ IF poll.attempt <= Retries
     THEN poll' = [poll EXCEPT !.attempt = @ + 1] /\ UNCHANGED <<feedFails, aggFails, rowsOf>>
     ELSE FeedFailed
  /\ UNCHANGED <<newest, stored, cache, watch, history>>

(* content_errors: not the feed that was asked for; not tried again. *)
WrongContent ==
  /\ Polling /\ mishaps < MaxFaults
  /\ mishaps' = mishaps + 1
  /\ FeedFailed
  /\ UNCHANGED <<newest, stored, cache, watch, history>>

(* The validator of a good answer is kept, then its entries are stored, *)
(* the newest first.                                                    *)
Fetch ==
  /\ Polling /\ cache[Feed] # newest[Feed]
  /\ cache' = [cache EXCEPT ![Feed] = newest[Feed]]
  /\ IF Visible(Feed) = {}
     THEN silent' = 0 /\ Succeed
     ELSE /\ poll' = [poll EXCEPT !.todo = SetToSortSeq(Visible(Feed), >)]
          /\ UNCHANGED <<silent, feedFails, aggFails, rowsOf>>
  /\ UNCHANGED <<newest, stored, market, openGap, gaps, history, mishaps>>

(* Stored, known already, or quarantined: an odd entry stops no other. *)
StoreEntry ==
  /\ poll.todo # <<>>
  /\ stored' = [stored EXCEPT ![Feed] = @ \union {Head(poll.todo)}]
  /\ IF Len(poll.todo) = 1
     THEN silent' = 0 /\ Succeed
     ELSE poll' = [poll EXCEPT !.todo = Tail(@)] /\ UNCHANGED <<silent, feedFails, aggFails, rowsOf>>
  /\ UNCHANGED <<newest, cache, market, openGap, gaps, history, mishaps>>

(* store_item raises: what is left of the answer is not stored. *)
StoreRaises ==
  /\ poll.todo # <<>> /\ mishaps < MaxFaults
  /\ mishaps' = mishaps + 1
  /\ missed' = [missed EXCEPT ![Feed] = @ \union ToSet(poll.todo)]
  /\ FeedFailed
  /\ UNCHANGED <<newest, stored, cache, watch, restarts>>

AllDown == \A f \in Feeds : feedFails[f] > 0

(* aggregate_health, at the end of every cycle. *)
Aggregate ==
  /\ poll.phase = "feed" /\ poll.left = <<>>
  /\ aggFails' = IF ~AllDown THEN 0 ELSE IF aggFails < AggregateDegradeAfter THEN aggFails + 1 ELSE aggFails
  /\ aggRow' = IF ~AllDown THEN "OK" ELSE IF aggFails' >= AggregateDegradeAfter THEN "DEGRADED" ELSE aggRow
  /\ poll' = Turn(Order)
  /\ UNCHANGED <<newest, stored, cache, feedFails, rowOf, watch, history, mishaps>>

(***************************************************************************)
(* The watchdog, every half minute.                                        *)
(***************************************************************************)
GapThreshold == IF market THEN Threshold ELSE OffhoursThreshold

(* A mutant: the gap that is open is not remembered. *)
CheckGapAlone ==
  /\ silent' = IF silent > OffhoursThreshold THEN silent ELSE silent + 1
  /\ IF silent > GapThreshold
     THEN gaps' = gaps + (IF gaps > MaxFaults + 1 THEN 0 ELSE 1) /\ aggRow' = "DEGRADED"
     ELSE UNCHANGED <<gaps, aggRow>>
  /\ UNCHANGED <<newest, stored, memory, rowOf, poll, market, openGap, history, mishaps>>

CheckGap ==
  /\ silent' = IF silent > OffhoursThreshold THEN silent ELSE silent + 1
  /\ \/ /\ ~openGap /\ silent > GapThreshold
        /\ openGap' = TRUE /\ gaps' = gaps + 1 /\ aggRow' = "DEGRADED"
     \/ /\ openGap /\ silent <= GapThreshold
        /\ openGap' = FALSE /\ gaps' = gaps - 1 /\ aggRow' = "OK"
     \/ /\ openGap = (silent > GapThreshold)
        /\ UNCHANGED <<openGap, gaps, aggRow>>
  /\ UNCHANGED <<newest, stored, memory, rowOf, poll, market, history, mishaps>>

Session ==
  /\ market' = ~market
  /\ UNCHANGED <<newest, stored, memory, rowsOf, poll, silent, openGap, gaps, history, mishaps>>

(* The memory of the source and of the monitor goes with the process. *)
Restart ==
  /\ mishaps < MaxFaults
  /\ mishaps' = mishaps + 1
  /\ restarts' = restarts + 1
  /\ cache' = [f \in Feeds |-> None] /\ feedFails' = [f \in Feeds |-> 0] /\ aggFails' = 0
  /\ aggRow' = "OK"
  /\ poll' = Turn(Order)
  /\ silent' = 0 /\ openGap' = FALSE
  /\ UNCHANGED <<newest, stored, rowOf, market, gaps, missed>>

Cycle == NotModified \/ Fetch \/ StoreEntry \/ Aggregate

FeedsNext ==
  \/ \E f \in Feeds : Publish(f)
  \/ Cycle \/ Unparseable \/ Unreachable \/ WrongContent \/ StoreRaises
  \/ CheckGap \/ Session \/ Restart

FeedsSpec == FeedsInit /\ [][FeedsNext]_feedVars /\ WF_feedVars(Cycle)

(***************************************************************************)
(* Properties.                                                             *)
(***************************************************************************)

(* What a feed shows is stored or quarantined as long as it is shown, or is *)
(* of an answer whose storing raised: no answer that was refused, and no    *)
(* odd entry, keeps another entry from being seen.                          *)
ShownIsStored ==
  \A f \in Feeds : \A n \in 1 .. Newest :
    n \in Visible(f) ~> (n \in stored[f] \union missed[f] \/ n \notin Visible(f))

(* The rows without an end are one open gap of the running process and at   *)
(* most one of each process before it: silence is booked once.              *)
GapsAreBookedOnce == gaps <= restarts + 1 /\ (restarts = 0 => gaps = IF openGap THEN 1 ELSE 0)

(* "Opens/closes gap rows" (heartbeat.py:98): a gap that has ended is       *)
(* closed.                                                                  *)
GapsClose == gaps > 0 => openGap

(* "recovered" (heartbeat.py:123): a gap is closed because the source was   *)
(* heard again.                                                             *)
RecoveredMeansHeard == [][openGap /\ ~openGap' => silent <= Threshold \/ restarts' # restarts]_feedVars

(* The store keeps "every item exactly once": while a feed is polled with   *)
(* success, what it shows is stored.                                        *)
HealthyFeedIsStored ==
  \A f \in Feeds :
    feedFails[f] = 0 /\ rowOf[f] = "OK" /\ cache[f] = newest[f] /\ ~(poll.todo # <<>> /\ Feed = f)
      => Visible(f) \subseteq stored[f]
=============================================================================
