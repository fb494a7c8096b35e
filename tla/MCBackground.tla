---------------------------- MODULE MCBackground ----------------------------
(***************************************************************************)
(* Small instances of what runs without end around the pipeline, checked   *)
(* in one run with the fairness their loops justify.  They share no state  *)
(* at this level, so that a behaviour is one of a single part, chosen at   *)
(* the start: the message queue and its consumers (MessageQueue), C1's     *)
(* feeds (Feeds), C7 and C5 with the outbox between them (Alerts).         *)
(***************************************************************************)
EXTENDS MCMessageQueue, Sequences

CONSTANTS
  Parts,           \* the parts to check, by name
  Feeds, Shown, Newest, Retries, FeedDegradeAfter, AggregateDegradeAfter, Threshold,
  OffhoursThreshold, MaxFaults, None,                                                    \* Feeds
  ConfirmPasses, Realert, MailAttempts, MaxPasses, MaxStops                              \* Alerts

ASSUME BackgroundAssumption == Realert \in Nat

VARIABLES
  part,
  newest, stored, cache, feedFails, aggFails, rowOf, aggRow, poll, market, silent, openGap, gaps,
  restarts, missed, mishaps,
  flag, since, watchdog, outbox, mailer, passes, stops, found, torn

(* C7: a unit that is well, one that failed and beats no more, and one that is not enabled. *)
Well   == [loaded |-> TRUE, state |-> "active", enabled |-> TRUE, fresh |-> TRUE]
Probes == {[u |-> Well], [u |-> [Well EXCEPT !.state = "failed", !.fresh = FALSE]], [u |-> [Well EXCEPT !.enabled = FALSE]]}

F == INSTANCE Feeds
A == INSTANCE Alerts

queueVars == <<rows, done, hidden, claimedBy, attempts, quarantine, inHand, at, handled, failures,
               deferrals, crashes>>
feedVars  == <<newest, stored, cache, feedFails, aggFails, rowOf, aggRow, poll, market, silent,
               openGap, gaps, restarts, missed, mishaps>>
alertVars == <<flag, since, watchdog, outbox, mailer, passes, stops, found, torn>>
backgroundVars == <<part, queueVars, feedVars, alertVars>>

------------------------------------------------------------------------------
BackgroundInit == part \in Parts /\ Init /\ F!FeedsInit /\ A!AlertsInit

Queue(step) == part = "queue" /\ step /\ UNCHANGED <<part, feedVars, alertVars>>
Feed(step)  == part = "feeds" /\ step /\ UNCHANGED <<part, queueVars, alertVars>>
Alert(step) == part = "alerts" /\ step /\ UNCHANGED <<part, queueVars, feedVars>>

BackgroundNext == Queue(Next) \/ Feed(F!FeedsNext) \/ Alert(A!AlertsNext)

(* The consumers' loops run and time passes; a feed that is polled answers, or is
   given up, and the next has its turn; the mailer's loop runs. *)
BackgroundSpec ==
  /\ BackgroundInit /\ [][BackgroundNext]_backgroundVars
  /\ \A c \in Consumers : WF_backgroundVars(Queue(Loop(c)))
  /\ \A k \in Keys : WF_backgroundVars(Queue(BecomeAvailable(k)))
  /\ WF_backgroundVars(Feed(F!Cycle))
  /\ WF_backgroundVars(Alert(A!Mailing))

------------------------------------------------------------------------------
(* C1: what a feed shows is stored as long as it is shown, or is of an answer
   whose storing raised. *)
ShownIsStored == part = "feeds" => F!ShownIsStored

(* C1: a silence is booked as one gap by one process. *)
GapsAreBookedOnce == F!GapsAreBookedOnce

(* C7 and C5: after a complete pass the newest alert is about what is critical. *)
CriticalIsTold == A!CriticalIsTold

(* C5: a row of the outbox is sent or given up, and copied only by attempts
   that were written down or whose pass died. *)
EveryMailSettles == A!EveryMailSettles

(* C1: a gap that has ended is closed. *)
GapsClose == F!GapsClose

(* C1: a gap is closed because the source was heard again. *)
RecoveredMeansHeard == F!RecoveredMeansHeard

(* C1: what a feed shows while it is polled with success is stored. *)
HealthyFeedIsStored == F!HealthyFeedIsStored

(* C5: "oldest-first". *)
MailsInOrder == A!MailsInOrder
=============================================================================
