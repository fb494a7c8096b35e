-------------------------------- MODULE Guard --------------------------------
(***************************************************************************)
(* The position guard (a12_guard/service.py, auto.py, schema.py): one       *)
(* consumer of signal.guard gives one verdict per open position that an     *)
(* item touches, and arms the exit that C4 executes.                        *)
(*                                                                          *)
(* Notices are the messages about ONE item: A1's fan-out and A4's, whose    *)
(* keys differ, so both can be there.  Positions close at any time.  A      *)
(* model's answer is a record or a failure; contexts and texts are left     *)
(* out.  An exception fails the message, which comes back until its         *)
(* attempts are used up; a consumer that dies leaves it claimed.            *)
(***************************************************************************)
EXTENDS Integers, FiniteSets, Sequences, SequencesExt, FiniteSetsExt

CONSTANTS
  Notices,         \* messages on signal.guard about the item
  Holdings,        \* positions the messages name, as numbers
  Answers,         \* what the model may answer: see Verdicts
  GuardRetries,    \* retries_on_invalid
  MaxDeliveries,   \* of the queue
  MaxCloses        \* closings of positions while the model thinks

VARIABLES
  notice, deliveries,
  live,            \* positions that are OPEN
  aged,            \* the item is older than max_age_minutes
  slotUp,          \* the model's server answers, or can be woken
  general,         \* GUARD rows of the item without a position_id at the top level
  rulings,         \* GUARD rows of the item with one, by position
  arms,            \* arming events, by position
  review,          \* the handler
  named,           \* history: positions an ALERT_ONLY row names
  unheard          \* history: positions a handler turned away with no row of their own

guardVars == <<notice, deliveries, live, aged, slotUp, general, rulings, arms, review, named, unheard>>

NoReview == [phase |-> "none"]

GuardInit ==
  /\ notice = [n \in Notices |-> "ready"] /\ deliveries = [n \in Notices |-> 0]
  /\ live = Holdings /\ aged = FALSE /\ slotUp \in BOOLEAN
  /\ general = {}
  /\ rulings = [p \in Holdings |-> {}] /\ arms = [p \in Holdings |-> 0]
  /\ review = NoReview
  /\ named = {} /\ unheard = {}

(* validate_guard and the rule of the service: a broken thesis is not held. *)
Valid(v) == v.intact \/ v.action # "hold"

(* auto_execute_gate, with the lists of a12.yaml; the item is no correction. *)
AutoExecute(v) == v.action = "exit" /\ v.urgent /\ v.hit

rows == <<general, rulings, arms, named, unheard>>
around == <<live, aged, slotUp>>

Claim(n) ==
  /\ review = NoReview /\ notice[n] = "ready"
  /\ notice' = [notice EXCEPT ![n] = "claimed"]
  /\ deliveries' = [deliveries EXCEPT ![n] = @ + 1]
  /\ review' = [phase |-> "look", of |-> n]
  /\ UNCHANGED <<around, rows>>

Handled == review' = [phase |-> "ack", of |-> review.of]

(* A row about the message is written unless the item has one already. *)
BookOnce(action) == general' = IF general = {} THEN {action} ELSE general

Expired ==
  /\ review.phase = "look" /\ aged
  /\ BookOnce("EXPIRED")
  /\ Handled
  /\ UNCHANGED <<notice, deliveries, around, rulings, arms, named, unheard>>

(* The positions are read anew, and the server is probed after that. *)
Resolve ==
  /\ review.phase = "look" /\ ~aged
  /\ IF live = {}
     THEN BookOnce("NO_POSITION") /\ Handled
     ELSE /\ review' = [phase |-> "probe", of |-> review.of, todo |-> SetToSortSeq(live, <)]
          /\ UNCHANGED general
  /\ UNCHANGED <<notice, deliveries, around, rulings, arms, named, unheard>>

SlotReady ==
  /\ review.phase = "probe" /\ slotUp
  /\ review' = [review EXCEPT !.phase = "next"]
  /\ UNCHANGED <<notice, deliveries, around, rows>>

SlotDown ==
  /\ review.phase = "probe" /\ ~slotUp
  /\ BookOnce("ALERT_ONLY")
  /\ named' = named \union (IF general = {} THEN ToSet(review.todo) ELSE {})
  /\ unheard' = unheard \union {p \in ToSet(review.todo) : rulings[p] = {} /\ p \notin named'}
  /\ Handled
  /\ UNCHANGED <<notice, deliveries, around, rulings, arms>>

Subject == Head(review.todo)

(* A mutant: a verdict is looked for by the message, as the other rows are. *)
KnownByMessage == general # {}

Known == rulings[Subject] # {}

Pass == [phase |-> "next", of |-> review.of, todo |-> Tail(review.todo)]

Consider ==
  /\ review.phase = "next"
  /\ IF review.todo = <<>> THEN Handled
     ELSE review' = IF Known THEN Pass
                    ELSE [phase |-> "ask", of |-> review.of, todo |-> review.todo, attempt |-> 1]
  /\ UNCHANGED <<notice, deliveries, around, rows>>

(* The server died in between: an alert about this position alone. *)
TransportError ==
  /\ review.phase = "ask"
  /\ general' = general \union {"ALERT_ONLY"}
  /\ named' = named \union {Subject}
  /\ review' = Pass
  /\ UNCHANGED <<notice, deliveries, around, rulings, arms, unheard>>

Invalid ==
  /\ review.phase = "ask"
  /\ \E v \in Answers : ~Valid(v)
  /\ IF review.attempt <= GuardRetries
     THEN review' = [review EXCEPT !.attempt = @ + 1] /\ UNCHANGED rulings
     ELSE /\ rulings' = [rulings EXCEPT ![Subject] = @ \union {"REJECT"}]
          /\ review' = Pass
  /\ UNCHANGED <<notice, deliveries, around, general, arms, named, unheard>>

(* Decision, arming and ledger are one transaction; only an OPEN position is armed. *)
Rule ==
  /\ review.phase = "ask"
  /\ \E v \in Answers :
       /\ Valid(v)
       /\ rulings' = [rulings EXCEPT ![Subject] = @ \union {v.action}]
       /\ arms' = IF AutoExecute(v) /\ Subject \in live THEN [arms EXCEPT ![Subject] = @ + 1] ELSE arms
  /\ review' = Pass
  /\ UNCHANGED <<notice, deliveries, around, general, named, unheard>>

Acknowledge ==
  /\ review.phase = "ack"
  /\ notice' = [notice EXCEPT ![review.of] = "done"]
  /\ review' = NoReview
  /\ UNCHANGED <<deliveries, around, rows>>

(* Whatever raises: what is committed stays, the message comes back. *)
HandlerRaises ==
  /\ review # NoReview
  /\ notice' = [notice EXCEPT ![review.of] = IF deliveries[review.of] < MaxDeliveries THEN "ready" ELSE "dead"]
  /\ review' = NoReview
  /\ UNCHANGED <<deliveries, around, rows>>

ConsumerDies ==
  /\ review # NoReview
  /\ review' = NoReview
  /\ UNCHANGED <<notice, deliveries, around, rows>>

(* Around it. *)
PositionCloses(p) ==
  /\ p \in live /\ Cardinality(Holdings \ live) < MaxCloses
  /\ live' = live \ {p}
  /\ UNCHANGED <<notice, deliveries, aged, slotUp, review, rows>>

SlotChanges ==
  /\ slotUp' = ~slotUp
  /\ UNCHANGED <<notice, deliveries, live, aged, review, rows>>

ItemAges ==
  /\ aged' = TRUE
  /\ UNCHANGED <<notice, deliveries, live, slotUp, review, rows>>

GuardNext ==
  \/ \E n \in Notices : Claim(n)
  \/ Expired \/ Resolve \/ SlotReady \/ SlotDown \/ Consider
  \/ TransportError \/ Invalid \/ Rule \/ Acknowledge
  \/ HandlerRaises \/ ConsumerDies
  \/ \E p \in Holdings : PositionCloses(p)
  \/ SlotChanges \/ ItemAges

GuardSpec == GuardInit /\ [][GuardNext]_guardVars

(***************************************************************************)
(* Properties.                                                             *)
(***************************************************************************)

(* Two messages about one item, each handled again after any step of it     *)
(* failed, judge a position once and arm its exit at most once; what is     *)
(* armed was ruled an exit.                                                 *)
JudgedOnce ==
  \A p \in Holdings :
    /\ Cardinality(rulings[p]) <= 1
    /\ arms[p] <= 1 /\ (arms[p] = 1 => rulings[p] = {"exit"})

(* "the signal is never silently dropped" (service.py:180): a position a    *)
(* handler turns away with the server down has a verdict or an alert.       *)
NeverSilentlyDropped == unheard = {}
=============================================================================
