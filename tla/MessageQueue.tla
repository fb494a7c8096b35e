----------------------------- MODULE MessageQueue -----------------------------
(***************************************************************************)
(* One queue of queue.messages (common/queue.py and the functions claim_next, *)
(* ack and fail of schema/news-store-schema.sql) with the consumer loop every *)
(* service of the pipeline runs on it:                                       *)
(*                                                                           *)
(*     msg = claim(); try: handle(msg); ack(msg)                             *)
(*                    except Defer...: defer(msg)     (C3 and A2 only)       *)
(*                    except Exception: fail(msg)                            *)
(*                                                                           *)
(* A row is split into one function per column, keyed by dedup_key.  Every   *)
(* SQL call is one transaction, hence one action; a consumer may die between *)
(* any two of them and is restarted under a new claim name (CONSUMER holds   *)
(* the pid), so it never recognises a claim of its former self.              *)
(* Timestamps are abstracted to "available_ts is in the future" (hidden);    *)
(* among rows of equal priority the order by available_ts is left open.      *)
(***************************************************************************)
EXTENDS Naturals

CONSTANTS
  Keys,         \* dedup keys
  Consumers,    \* consumer processes of the queue
  Priority,     \* [Keys -> Nat], lower is sooner
  MaxAttempts,  \* column max_attempts (5 in the schema)
  MaxDefers,    \* bound: deferrals of one message
  MaxCrashes,   \* bound: consumer deaths
  Nobody,       \* claimed_by IS NULL
  Nothing       \* a consumer between two messages

ASSUME QueueAssumption ==
  /\ Priority \in [Keys -> Nat]
  /\ MaxAttempts \in Nat \ {0}
  /\ MaxDefers \in Nat
  /\ MaxCrashes \in Nat
  /\ Nobody \notin Consumers
  /\ Nothing \notin Keys

VARIABLES
  \* queue.messages and news.quarantine
  rows,        \* keys that have a row
  done,        \* rows whose done_ts is set
  hidden,      \* rows whose available_ts is in the future
  claimedBy,   \* column claimed_by
  attempts,    \* column attempts
  quarantine,  \* keys with a dead-letter row
  \* the consumers
  inHand,      \* the message a consumer works on
  at,          \* where its loop stands
  \* history
  handled,     \* keys some handler run returned from normally
  failures,    \* fail() calls per key
  deferrals,   \* defer() calls per key
  crashes      \* consumer deaths so far

rowVars == <<rows, done, hidden, claimedBy, attempts, quarantine>>
loopVars == <<inHand, at>>
history == <<handled, failures, deferrals, crashes>>
vars == <<rowVars, loopVars, history>>

Places == {"idle", "handling", "acking", "deferring", "failing"}

TypeOK ==
  /\ rows \subseteq Keys
  /\ done \subseteq rows
  /\ hidden \subseteq rows
  /\ claimedBy \in [Keys -> Consumers \cup {Nobody}]
  /\ attempts \in [Keys -> Nat]
  /\ quarantine \subseteq rows
  /\ inHand \in [Consumers -> Keys \cup {Nothing}]
  /\ at \in [Consumers -> Places]
  /\ handled \subseteq Keys
  /\ failures \in [Keys -> Nat]
  /\ deferrals \in [Keys -> Nat]
  /\ crashes \in Nat

Init ==
  /\ rows = {} /\ done = {} /\ hidden = {} /\ quarantine = {} /\ handled = {}
  /\ claimedBy = [k \in Keys |-> Nobody]
  /\ attempts = [k \in Keys |-> 0]
  /\ failures = [k \in Keys |-> 0]
  /\ deferrals = [k \in Keys |-> 0]
  /\ inHand = [c \in Consumers |-> Nothing]
  /\ at = [c \in Consumers |-> "idle"]
  /\ crashes = 0

-----------------------------------------------------------------------------
(* Producers and time *)

(* A mutant: ON CONFLICT DO UPDATE, which revives the row. *)
EnqueueUpsert(k, later) ==
  /\ rows' = rows \cup {k}
  /\ done' = done \ {k}
  /\ hidden' = IF later THEN hidden \cup {k} ELSE hidden
  /\ claimedBy' = [claimedBy EXCEPT ![k] = Nobody]
  /\ UNCHANGED <<attempts, quarantine, loopVars, history>>

(* INSERT ... ON CONFLICT (queue_name, dedup_key) DO NOTHING: a second send of
   a key is a no-op, even when the first is long done. *)
Enqueue(k, later) ==
  /\ k \notin rows
  /\ rows' = rows \cup {k}
  /\ hidden' = IF later THEN hidden \cup {k} ELSE hidden
  /\ UNCHANGED <<done, claimedBy, attempts, quarantine, loopVars, history>>

(* available_ts is reached. *)
BecomeAvailable(k) ==
  /\ k \in hidden
  /\ hidden' = hidden \ {k}
  /\ UNCHANGED <<rows, done, claimedBy, attempts, quarantine, loopVars, history>>

-----------------------------------------------------------------------------
(* The queue functions, as the consumer loop calls them *)

(* A mutant: claim_next without "done_ts IS NULL". *)
ReadyEvenIfDone == {k \in rows \ hidden : claimedBy[k] = Nobody}

(* A mutant: claim_next passes over a message on its last attempt. *)
ReadyBelowLimit ==
  {k \in rows \ (done \cup hidden) : claimedBy[k] = Nobody /\ attempts[k] + 1 < MaxAttempts}

Ready == {k \in rows \ (done \cup hidden) : claimedBy[k] = Nobody}

Urgent == {k \in Ready : \A j \in Ready : Priority[k] <= Priority[j]}

Claim(c) ==
  /\ at[c] = "idle"
  /\ \E k \in Urgent :
       /\ claimedBy' = [claimedBy EXCEPT ![k] = c]
       /\ attempts' = [attempts EXCEPT ![k] = @ + 1]
       /\ inHand' = [inHand EXCEPT ![c] = k]
  /\ at' = [at EXCEPT ![c] = "handling"]
  /\ UNCHANGED <<rows, done, hidden, quarantine, history>>

(* The handler returns. *)
HandlerReturns(c) ==
  /\ at[c] = "handling"
  /\ at' = [at EXCEPT ![c] = "acking"]
  /\ handled' = handled \cup {inHand[c]}
  /\ UNCHANGED <<rowVars, inHand, failures, deferrals, crashes>>

(* The handler raises DeferEvaluation (C3, wait for bars) or DeferAnalysis (A2). *)
HandlerDefers(c) ==
  /\ at[c] = "handling"
  /\ deferrals[inHand[c]] < MaxDefers
  /\ at' = [at EXCEPT ![c] = "deferring"]
  /\ UNCHANGED <<rowVars, inHand, history>>

HandlerRaises(c) ==
  /\ at[c] = "handling"
  /\ at' = [at EXCEPT ![c] = "failing"]
  /\ UNCHANGED <<rowVars, inHand, history>>

(* A consumer is through with its message. *)
Release(c) ==
  /\ inHand' = [inHand EXCEPT ![c] = Nothing]
  /\ at' = [at EXCEPT ![c] = "idle"]

Ack(c) ==
  /\ at[c] = "acking"
  /\ done' = done \cup {inHand[c]}
  /\ Release(c)
  /\ UNCHANGED <<rows, hidden, claimedBy, attempts, quarantine, history>>

(* The ack raises, with or without having committed: the same except clause
   that catches a failing handler catches it and calls fail(). *)
AckRaises(c) ==
  /\ at[c] = "acking"
  /\ \E committed \in BOOLEAN :
       done' = IF committed THEN done \cup {inHand[c]} ELSE done
  /\ at' = [at EXCEPT ![c] = "failing"]
  /\ UNCHANGED <<rows, hidden, claimedBy, attempts, quarantine, inHand, history>>

(* A mutant: the deferral keeps the attempt the claim consumed. *)
DeferKeepsAttempt(c) ==
  /\ at[c] = "deferring"
  /\ claimedBy' = [claimedBy EXCEPT ![inHand[c]] = Nobody]
  /\ hidden' = hidden \cup {inHand[c]}
  /\ deferrals' = [deferrals EXCEPT ![inHand[c]] = @ + 1]
  /\ Release(c)
  /\ UNCHANGED <<rows, done, attempts, quarantine, handled, failures, crashes>>

(* defer(): hand the message back for later and refund the attempt.  The
   UPDATE carries "done_ts IS NULL"; a message in hand here is never done. *)
Defer(c) ==
  LET k == inHand[c]
  IN /\ at[c] = "deferring"
     /\ IF k \in done
          THEN UNCHANGED <<claimedBy, attempts, hidden>>
          ELSE /\ claimedBy' = [claimedBy EXCEPT ![k] = Nobody]
               /\ attempts' = [attempts EXCEPT ![k] = IF @ = 0 THEN 0 ELSE @ - 1]
               /\ hidden' = hidden \cup {k}
     /\ deferrals' = [deferrals EXCEPT ![k] = @ + 1]
     /\ Release(c)
     /\ UNCHANGED <<rows, done, quarantine, handled, failures, crashes>>

(* fail(): past max_attempts the message goes to the dead letters and is done;
   before, it is released with a backoff.  Neither branch looks at done_ts or
   at who holds the claim. *)
Fail(c) ==
  LET k == inHand[c]
  IN /\ at[c] = "failing"
     /\ IF attempts[k] >= MaxAttempts
          THEN /\ quarantine' = quarantine \cup {k}
               /\ done' = done \cup {k}
               /\ UNCHANGED <<claimedBy, hidden>>
          ELSE /\ claimedBy' = [claimedBy EXCEPT ![k] = Nobody]
               /\ hidden' = hidden \cup {k}
               /\ UNCHANGED <<quarantine, done>>
     /\ failures' = [failures EXCEPT ![k] = @ + 1]
     /\ Release(c)
     /\ UNCHANGED <<rows, attempts, handled, deferrals, crashes>>

(* The process dies (kill, power loss, or an exception out of fail() or
   defer(), which nothing catches) and is restarted.  The row keeps its claim. *)
Crash(c) ==
  /\ at[c] # "idle"
  /\ crashes < MaxCrashes
  /\ crashes' = crashes + 1
  /\ Release(c)
  /\ UNCHANGED <<rowVars, handled, failures, deferrals>>

-----------------------------------------------------------------------------
Handler(c) == HandlerReturns(c) \/ HandlerDefers(c) \/ HandlerRaises(c)

Loop(c) == \/ Claim(c)
           \/ Handler(c)
           \/ Ack(c)
           \/ AckRaises(c)
           \/ Defer(c)
           \/ Fail(c)

Next ==
  \/ \E k \in Keys : BecomeAvailable(k) \/ \E later \in BOOLEAN : Enqueue(k, later)
  \/ \E c \in Consumers : Loop(c) \/ Crash(c)

(* The loop polls every five seconds when no NOTIFY wakes it, handlers are
   bounded by their timeouts, and time passes. *)
Fairness ==
  /\ \A c \in Consumers : WF_vars(Loop(c))
  /\ \A k \in Keys : WF_vars(BecomeAvailable(k))

Spec == Init /\ [][Next]_vars
FairSpec == Spec /\ Fairness

-----------------------------------------------------------------------------
(* Properties *)

(* Two consumers never work on the same message: SKIP LOCKED and the claim
   columns exclude them across failures, deferrals and lost ack replies. *)
SingleHandler ==
  \A c, d \in Consumers :
    c # d /\ inHand[c] # Nothing => inHand[c] # inHand[d]

(* A message reaches the dead letters only after max_attempts failures: no
   number of deferrals, of lost ack replies or of crashes brings it nearer. *)
DeadLetterEarned == \A k \in quarantine : failures[k] >= MaxAttempts

(* No message leaves the queue unseen: a done row was handled to the end or
   sits in the dead letters. *)
DoneWasHandled == done \subseteq handled \cup quarantine

(* What is done stays done and is never handed out again, although fail()
   clears the claim of a row that an ack with a lost reply already closed. *)
DoneIsFinal ==
  [][ /\ done \subseteq done'
      /\ \A c \in Consumers : inHand'[c] \in done => inHand'[c] = inHand[c]
    ]_vars

Held(k) == \E c \in Consumers : inHand[c] = k
Stranded(k) == k \notin done /\ claimedBy[k] # Nobody /\ ~Held(k)

(* Every message is settled at last, unless the consumer that held it died. *)
SettledUnlessStranded ==
  \A k \in Keys : k \in rows ~> (k \in done \/ Stranded(k))

(* "At-least-once everywhere downstream" (README) and "reclaim messages whose
   consumer died mid-claim (C7 runs periodically)" (news-store-schema.sql):
   every message is settled at last, whoever dies.  No process calls
   reap_stale, so the code does not provide it. *)
EveryMessageSettles == \A k \in Keys : k \in rows ~> k \in done

(* The rows and the consumer loops implement at-least-once delivery. *)
Delivered ==
  {k \in rows : claimedBy[k] # Nobody \/ failures[k] > 0 \/ deferrals[k] > 0}

Contract == INSTANCE QueueContract
  WITH sent <- rows, delivered <- Delivered, settled <- done, dead <- quarantine

AtLeastOnce == Contract!Spec
===============================================================================
