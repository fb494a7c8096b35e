-------------------------- MODULE Delivery_proofs --------------------------
(***************************************************************************)
(* What reaches the pipeline stays in it, for any number of messages,       *)
(* consumers, feeds, findings and items: the queue and its consumers, C1's  *)
(* watch over its feeds, the outbox between C7 and C5, and the way of a     *)
(* story from C1's store to A1's verdict.                                   *)
(***************************************************************************)
EXTENDS MCBackground, Intake, SequenceTheorems, NaturalsInduction, WellFoundedInduction, TLAPS

(***************************************************************************)
(* The queue.  The invariant ties the row's claim to the consumer that      *)
(* works on it, and the attempts column to the history of failures.         *)
(***************************************************************************)
(* A consumer has a message exactly when its loop is past the claim. *)
HandIffBusy == \A c \in Consumers : inHand[c] = Nothing <=> at[c] = "idle"

(* Who works on a message holds its claim. *)
HolderOwns ==
  \A c \in Consumers : inHand[c] # Nothing =>
    /\ inHand[c] \in rows \ quarantine
    /\ claimedBy[inHand[c]] = c

(* Only a consumer about to report a failure can hold a closed message. *)
OpenWhileWorking ==
  \A c \in Consumers :
    at[c] \in {"handling", "acking", "deferring"} => inHand[c] \notin done

AckedWasHandled == \A c \in Consumers : at[c] = "acking" => inHand[c] \in handled

(* Every attempt is a failure or the claim in progress: deferrals are refunded. *)
AttemptsAreFailures ==
  \A k \in Keys \ quarantine :
    attempts[k] = failures[k] + (IF claimedBy[k] = Nobody THEN 0 ELSE 1)

(* Dead-lettering closes the row. *)
DeadIsDone == quarantine \subseteq done

QueueInv ==
  /\ TypeOK
  /\ DeadIsDone
  /\ HandIffBusy
  /\ HolderOwns
  /\ OpenWhileWorking
  /\ AckedWasHandled
  /\ AttemptsAreFailures
  /\ DeadLetterEarned
  /\ DoneWasHandled

USE QueueAssumption

LEMMA InitInv == Init => QueueInv
  BY DEF Init, QueueInv, TypeOK, Places, HandIffBusy, HolderOwns,
         OpenWhileWorking, AckedWasHandled, AttemptsAreFailures,
         DeadLetterEarned, DoneWasHandled, DeadIsDone

(* Each step of a producer, of time or of a consumer keeps the invariant. *)
LEMMA EnqueueInv ==
  ASSUME QueueInv, NEW k \in Keys, NEW later \in BOOLEAN, Enqueue(k, later)
  PROVE  QueueInv'
  BY DEF Enqueue, loopVars, history, QueueInv, TypeOK, HandIffBusy, HolderOwns,
         OpenWhileWorking, AckedWasHandled, AttemptsAreFailures,
         DeadLetterEarned, DoneWasHandled, DeadIsDone

LEMMA BecomeAvailableInv ==
  ASSUME QueueInv, NEW k \in Keys, BecomeAvailable(k)
  PROVE  QueueInv'
  BY DEF BecomeAvailable, loopVars, history, QueueInv, TypeOK, HandIffBusy,
         HolderOwns, OpenWhileWorking, AckedWasHandled, AttemptsAreFailures,
         DeadLetterEarned, DoneWasHandled, DeadIsDone

LEMMA ClaimInv ==
  ASSUME QueueInv, NEW c \in Consumers, Claim(c)
  PROVE  QueueInv'
<1> PICK k \in Urgent :
      /\ claimedBy' = [claimedBy EXCEPT ![k] = c]
      /\ attempts' = [attempts EXCEPT ![k] = @ + 1]
      /\ inHand' = [inHand EXCEPT ![c] = k]
  BY DEF Claim
<1>0. /\ k \in rows /\ k \in Keys /\ k \notin done
      /\ claimedBy[k] = Nobody
      /\ k # Nothing
  BY DEF Urgent, Ready, QueueInv, TypeOK
<1>1. k \notin quarantine
  BY <1>0 DEF QueueInv, DeadIsDone
<1>2. TypeOK'
  BY <1>0 DEF Claim, QueueInv, TypeOK, history, Places
<1>3. (HandIffBusy /\ OpenWhileWorking /\ AckedWasHandled)'
  BY <1>0 DEF Claim, QueueInv, TypeOK, history, HandIffBusy,
              OpenWhileWorking, AckedWasHandled
<1>4. HolderOwns'
  BY <1>0, <1>1 DEF Claim, QueueInv, TypeOK, HolderOwns
<1>5. AttemptsAreFailures'
  BY <1>0 DEF Claim, QueueInv, TypeOK, history, AttemptsAreFailures
<1>6. (DeadLetterEarned /\ DoneWasHandled /\ DeadIsDone)'
  BY DEF Claim, QueueInv, history, DeadLetterEarned, DoneWasHandled, DeadIsDone
<1> QED
  BY <1>2, <1>3, <1>4, <1>5, <1>6 DEF QueueInv

LEMMA HandlerInv ==
  ASSUME QueueInv, NEW c \in Consumers, Handler(c)
  PROVE  QueueInv'
<1>0. c \in Consumers /\ at[c] = "handling" /\ UNCHANGED <<rowVars, inHand, failures>>
  BY DEF Handler, HandlerReturns, HandlerDefers, HandlerRaises, history
<1>1. at' \in {[at EXCEPT ![c] = p] : p \in {"acking", "deferring", "failing"}}
  BY DEF Handler, HandlerReturns, HandlerDefers, HandlerRaises
<1>2. handled' \in {handled, handled \cup {inHand[c]}}
      /\ (at'[c] = "acking" => handled' = handled \cup {inHand[c]})
  BY DEF Handler, HandlerReturns, HandlerDefers, HandlerRaises, history, QueueInv, TypeOK
<1>3. inHand[c] \in Keys
  BY <1>0 DEF QueueInv, TypeOK, HandIffBusy
<1>4. deferrals' = deferrals /\ crashes' = crashes
  BY DEF Handler, HandlerReturns, HandlerDefers, HandlerRaises, history
<1>5. TypeOK'
  BY <1>0, <1>1, <1>2, <1>3, <1>4 DEF QueueInv, TypeOK, Places, rowVars
<1>6. (HandIffBusy /\ HolderOwns /\ OpenWhileWorking)'
  BY <1>0, <1>1 DEF QueueInv, TypeOK, HandIffBusy, HolderOwns, OpenWhileWorking, rowVars
<1>7. AckedWasHandled'
  BY <1>0, <1>1, <1>2 DEF QueueInv, TypeOK, AckedWasHandled
<1>8. (AttemptsAreFailures /\ DeadLetterEarned /\ DoneWasHandled /\ DeadIsDone)'
  BY <1>0, <1>2 DEF QueueInv, AttemptsAreFailures, DeadLetterEarned,
                    DoneWasHandled, DeadIsDone, rowVars
<1> QED
  BY <1>5, <1>6, <1>7, <1>8 DEF QueueInv

LEMMA AckInv ==
  ASSUME QueueInv, NEW c \in Consumers, Ack(c) \/ AckRaises(c)
  PROVE  QueueInv'
<1>0. /\ at[c] = "acking" /\ inHand[c] \in Keys /\ inHand[c] \in rows
      /\ inHand[c] \in handled
  BY DEF Ack, AckRaises, QueueInv, TypeOK, HandIffBusy, HolderOwns, AckedWasHandled
<1>1. done' \in {done, done \cup {inHand[c]}}
      /\ UNCHANGED <<rows, hidden, claimedBy, attempts, quarantine, history>>
  BY DEF Ack, AckRaises
<1>2. \/ at' = [at EXCEPT ![c] = "idle"] /\ inHand' = [inHand EXCEPT ![c] = Nothing]
      \/ at' = [at EXCEPT ![c] = "failing"] /\ inHand' = inHand
  BY DEF Ack, AckRaises, Release
<1>3. TypeOK'
  BY <1>0, <1>1, <1>2 DEF QueueInv, TypeOK, Places, history
<1>4. (HandIffBusy /\ HolderOwns /\ AckedWasHandled)'
  BY <1>0, <1>1, <1>2 DEF QueueInv, TypeOK, HandIffBusy, HolderOwns, AckedWasHandled,
                          history
<1>5. OpenWhileWorking'
  \* another worker holds another message, since both own their claims
  <2> SUFFICES ASSUME NEW d \in Consumers,
                      at'[d] \in {"handling", "acking", "deferring"}
               PROVE  inHand'[d] \notin done'
    BY DEF OpenWhileWorking
  <2>1. d # c /\ at'[d] = at[d] /\ inHand'[d] = inHand[d]
    BY <1>2 DEF QueueInv, TypeOK
  <2>2. inHand[d] # Nothing
    BY <2>1 DEF QueueInv, HandIffBusy
  <2>3. inHand[d] # inHand[c]
    BY <1>0, <2>1, <2>2 DEF QueueInv, HolderOwns, HandIffBusy
  <2> QED
    BY <1>1, <2>1, <2>3 DEF QueueInv, OpenWhileWorking
<1>6. (AttemptsAreFailures /\ DeadLetterEarned /\ DoneWasHandled /\ DeadIsDone)'
  BY <1>0, <1>1 DEF QueueInv, AttemptsAreFailures, DeadLetterEarned,
                    DoneWasHandled, DeadIsDone, history
<1> QED
  BY <1>3, <1>4, <1>5, <1>6 DEF QueueInv

(* Two consumers never hold the same message. *)
LEMMA HandsDisjoint ==
  ASSUME QueueInv, NEW c \in Consumers, NEW d \in Consumers, c # d,
         inHand[c] # Nothing
  PROVE  inHand[c] # inHand[d]
  BY DEF QueueInv, HolderOwns

LEMMA DeferInv ==
  ASSUME QueueInv, NEW c \in Consumers, Defer(c)
  PROVE  QueueInv'
<1> DEFINE k == inHand[c]
<1>0. /\ at[c] = "deferring" /\ k \in Keys /\ k \in rows \ quarantine
      /\ k \notin done /\ claimedBy[k] = c /\ claimedBy[k] # Nobody
  BY DEF Defer, QueueInv, TypeOK, HandIffBusy, HolderOwns, OpenWhileWorking
<1>1. attempts[k] = failures[k] + 1 /\ failures[k] \in Nat /\ attempts[k] # 0
  BY <1>0 DEF QueueInv, TypeOK, AttemptsAreFailures
<1>2. /\ claimedBy' = [claimedBy EXCEPT ![k] = Nobody]
      /\ attempts' = [attempts EXCEPT ![k] = attempts[k] - 1]
      /\ hidden' = hidden \cup {k}
      /\ deferrals' = [deferrals EXCEPT ![k] = @ + 1]
      /\ inHand' = [inHand EXCEPT ![c] = Nothing]
      /\ at' = [at EXCEPT ![c] = "idle"]
      /\ UNCHANGED <<rows, done, quarantine, handled, failures, crashes>>
  BY <1>0, <1>1 DEF Defer, Release
<1>3. TypeOK'
  BY <1>0, <1>1, <1>2 DEF QueueInv, TypeOK, Places
<1>4. (HandIffBusy /\ OpenWhileWorking /\ AckedWasHandled)'
  BY <1>0, <1>2 DEF QueueInv, TypeOK, HandIffBusy, OpenWhileWorking, AckedWasHandled
<1>5. HolderOwns'
  BY <1>0, <1>2, HandsDisjoint DEF QueueInv, TypeOK, HolderOwns
<1>6. AttemptsAreFailures'
  BY <1>0, <1>1, <1>2 DEF QueueInv, TypeOK, AttemptsAreFailures
<1>7. (DeadLetterEarned /\ DoneWasHandled /\ DeadIsDone)'
  BY <1>2 DEF QueueInv, DeadLetterEarned, DoneWasHandled, DeadIsDone
<1> QED
  BY <1>3, <1>4, <1>5, <1>6, <1>7 DEF QueueInv

LEMMA FailInv ==
  ASSUME QueueInv, NEW c \in Consumers, Fail(c)
  PROVE  QueueInv'
<1> DEFINE k == inHand[c]
<1>0. /\ at[c] = "failing" /\ k \in Keys /\ k \in rows \ quarantine
      /\ claimedBy[k] = c /\ claimedBy[k] # Nobody
  BY DEF Fail, QueueInv, TypeOK, HandIffBusy, HolderOwns
<1>1. attempts[k] = failures[k] + 1 /\ failures[k] \in Nat
  BY <1>0 DEF QueueInv, TypeOK, AttemptsAreFailures
<1>2. /\ failures' = [failures EXCEPT ![k] = @ + 1]
      /\ inHand' = [inHand EXCEPT ![c] = Nothing]
      /\ at' = [at EXCEPT ![c] = "idle"]
      /\ UNCHANGED <<rows, attempts, handled, deferrals, crashes>>
  BY DEF Fail, Release
<1>3. \A d \in Consumers : d # c /\ inHand[d] # Nothing => inHand[d] # k
  BY <1>0, HandsDisjoint
<1>4. CASE attempts[k] >= MaxAttempts
  <2>1. /\ quarantine' = quarantine \cup {k} /\ done' = done \cup {k}
        /\ UNCHANGED <<claimedBy, hidden>>
    BY <1>4 DEF Fail
  <2>2. TypeOK'
    BY <1>0, <1>2, <2>1 DEF QueueInv, TypeOK, Places
  <2>3. (HandIffBusy /\ HolderOwns /\ AckedWasHandled)'
    BY <1>0, <1>2, <1>3, <2>1 DEF QueueInv, TypeOK, HandIffBusy, HolderOwns, AckedWasHandled
  <2>4. OpenWhileWorking'
    BY <1>0, <1>2, <1>3, <2>1 DEF QueueInv, TypeOK, HandIffBusy, OpenWhileWorking
  <2>5. (AttemptsAreFailures /\ DoneWasHandled /\ DeadIsDone)'
    BY <1>0, <1>2, <2>1 DEF QueueInv, TypeOK, AttemptsAreFailures, DoneWasHandled,
                              DeadIsDone
  <2>6. DeadLetterEarned'
    BY <1>0, <1>1, <1>2, <1>4, <2>1 DEF QueueInv, TypeOK, DeadLetterEarned
  <2> QED
    BY <2>2, <2>3, <2>4, <2>5, <2>6 DEF QueueInv
<1>5. CASE ~(attempts[k] >= MaxAttempts)
  <2>1. /\ claimedBy' = [claimedBy EXCEPT ![k] = Nobody] /\ hidden' = hidden \cup {k}
        /\ UNCHANGED <<quarantine, done>>
    BY <1>5 DEF Fail
  <2>2. TypeOK'
    BY <1>0, <1>2, <2>1 DEF QueueInv, TypeOK, Places
  <2>3. (HandIffBusy /\ OpenWhileWorking /\ AckedWasHandled)'
    BY <1>0, <1>2, <2>1 DEF QueueInv, TypeOK, HandIffBusy, OpenWhileWorking, AckedWasHandled
  <2>4. HolderOwns'
    BY <1>0, <1>2, <1>3, <2>1 DEF QueueInv, TypeOK, HolderOwns
  <2>5. AttemptsAreFailures'
    BY <1>0, <1>1, <1>2, <2>1 DEF QueueInv, TypeOK, AttemptsAreFailures
  <2>6. (DeadLetterEarned /\ DoneWasHandled /\ DeadIsDone)'
    BY <1>0, <1>2, <2>1 DEF QueueInv, TypeOK, DeadLetterEarned, DoneWasHandled, DeadIsDone
  <2> QED
    BY <2>2, <2>3, <2>4, <2>5, <2>6 DEF QueueInv
<1> QED
  BY <1>4, <1>5

LEMMA CrashInv ==
  ASSUME QueueInv, NEW c \in Consumers, Crash(c)
  PROVE  QueueInv'
<1>1. /\ crashes' = crashes + 1
      /\ inHand' = [inHand EXCEPT ![c] = Nothing]
      /\ at' = [at EXCEPT ![c] = "idle"]
      /\ UNCHANGED <<rows, done, hidden, claimedBy, attempts, quarantine, handled,
                     failures, deferrals>>
  BY DEF Crash, Release, rowVars
<1>2. TypeOK'
  BY <1>1 DEF QueueInv, TypeOK, Places
<1>3. (HandIffBusy /\ HolderOwns /\ OpenWhileWorking /\ AckedWasHandled)'
  BY <1>1 DEF QueueInv, TypeOK, HandIffBusy, HolderOwns, OpenWhileWorking, AckedWasHandled
<1>4. (AttemptsAreFailures /\ DeadLetterEarned /\ DoneWasHandled /\ DeadIsDone)'
  BY <1>1 DEF QueueInv, AttemptsAreFailures, DeadLetterEarned, DoneWasHandled, DeadIsDone
<1> QED
  BY <1>2, <1>3, <1>4 DEF QueueInv

LEMMA NextInv == QueueInv /\ [Next]_vars => QueueInv'
<1> SUFFICES ASSUME QueueInv, [Next]_vars PROVE QueueInv'
  OBVIOUS
<1>1. ASSUME NEW k \in Keys, BecomeAvailable(k) PROVE QueueInv'
  BY <1>1, BecomeAvailableInv
<1>2. ASSUME NEW k \in Keys, NEW later \in BOOLEAN, Enqueue(k, later) PROVE QueueInv'
  BY <1>2, EnqueueInv
<1>3. ASSUME NEW c \in Consumers, Loop(c) PROVE QueueInv'
  BY <1>3, ClaimInv, HandlerInv, AckInv, DeferInv, FailInv DEF Loop
<1>4. ASSUME NEW c \in Consumers, Crash(c) PROVE QueueInv'
  BY <1>4, CrashInv
<1>5. CASE UNCHANGED vars
  BY <1>5 DEF vars, rowVars, loopVars, history, QueueInv, TypeOK, HandIffBusy,
     HolderOwns, OpenWhileWorking, AckedWasHandled, AttemptsAreFailures,
     DeadLetterEarned, DoneWasHandled, DeadIsDone
<1> QED
  BY <1>1, <1>2, <1>3, <1>4, <1>5 DEF Next

(* The inductive invariant holds in every reachable state of the queue. *)
THEOREM QueueInvariant == Spec => []QueueInv
  BY InitInv, NextInv, PTL DEF Spec

(* Every column keeps its type: claimed_by, attempts and the consumers' places
   of queue.messages and the consumer loop. *)
THEOREM QueueTypeCorrect == Spec => []TypeOK
<1>1. QueueInv => TypeOK
  BY DEF QueueInv
<1> QED
  BY <1>1, QueueInvariant, PTL

(* claim_next, ack, fail and defer never let two consumers work on one message. *)
THEOREM QueueSingleHandler == Spec => []SingleHandler
<1>1. QueueInv => SingleHandler
  BY HandsDisjoint DEF SingleHandler
<1> QED
  BY <1>1, QueueInvariant, PTL

(* A dead letter has failed max_attempts times; a done message was handled or
   dead-lettered. *)
THEOREM QueueOutcomes == Spec => [](DeadLetterEarned /\ DoneWasHandled)
<1>1. QueueInv => DeadLetterEarned /\ DoneWasHandled
  BY DEF QueueInv
<1> QED
  BY <1>1, QueueInvariant, PTL

(* done_ts is never cleared, and a closed message is handed to nobody again. *)
THEOREM QueueDoneIsFinal == Spec => DoneIsFinal
<1> DEFINE Final == /\ done \subseteq done'
                    /\ \A c \in Consumers : inHand'[c] \in done => inHand'[c] = inHand[c]
<1>1. QueueInv /\ [Next]_vars => [Final]_vars
  <2> SUFFICES ASSUME QueueInv, Next PROVE Final
    OBVIOUS
  <2>1. Nothing \notin done
    BY DEF QueueInv, TypeOK
  <2>2. ASSUME NEW k \in Keys, BecomeAvailable(k) PROVE Final
    BY <2>2 DEF BecomeAvailable, loopVars
  <2>3. ASSUME NEW k \in Keys, NEW later \in BOOLEAN, Enqueue(k, later) PROVE Final
    BY <2>3 DEF Enqueue, loopVars
  <2>4. ASSUME NEW c \in Consumers, Claim(c) PROVE Final
    BY <2>4 DEF Claim, Urgent, Ready, QueueInv, TypeOK
  <2>5. ASSUME NEW c \in Consumers, Handler(c) PROVE Final
    BY <2>5 DEF Handler, HandlerReturns, HandlerDefers, HandlerRaises, rowVars
  <2>6. ASSUME NEW c \in Consumers, Ack(c) \/ AckRaises(c) PROVE Final
    BY <2>1, <2>6 DEF Ack, AckRaises, Release, QueueInv, TypeOK
  <2>7. ASSUME NEW c \in Consumers, Defer(c) \/ Fail(c) \/ Crash(c) PROVE Final
    BY <2>1, <2>7 DEF Defer, Fail, Crash, Release, rowVars, QueueInv, TypeOK
  <2> QED
    BY <2>2, <2>3, <2>4, <2>5, <2>6, <2>7 DEF Next, Loop
<1> QED
  BY <1>1, QueueInvariant, PTL DEF Spec, DoneIsFinal

(* A key that was never sent has no claim, failure or deferral. *)
UnsentUntouched ==
  \A k \in Keys \ rows : claimedBy[k] = Nobody /\ failures[k] = 0 /\ deferrals[k] = 0

LEMMA UntouchedNext == QueueInv /\ UnsentUntouched /\ [Next]_vars => UnsentUntouched'
<1> SUFFICES ASSUME QueueInv, UnsentUntouched, [Next]_vars PROVE UnsentUntouched'
  OBVIOUS
<1>0. \A c \in Consumers : at[c] # "idle" => inHand[c] \in rows
  BY DEF QueueInv, HandIffBusy, HolderOwns
<1>1. ASSUME NEW k \in Keys, BecomeAvailable(k) PROVE UnsentUntouched'
  BY <1>1 DEF BecomeAvailable, history, UnsentUntouched
<1>2. ASSUME NEW k \in Keys, NEW later \in BOOLEAN, Enqueue(k, later) PROVE UnsentUntouched'
  BY <1>2 DEF Enqueue, history, UnsentUntouched
<1>3. ASSUME NEW c \in Consumers, Claim(c) PROVE UnsentUntouched'
  BY <1>3 DEF Claim, Urgent, Ready, history, UnsentUntouched, QueueInv, TypeOK
<1>4. ASSUME NEW c \in Consumers, Handler(c) PROVE UnsentUntouched'
  BY <1>4 DEF Handler, HandlerReturns, HandlerDefers, HandlerRaises, rowVars, history,
              UnsentUntouched
<1>5. ASSUME NEW c \in Consumers, Ack(c) \/ AckRaises(c) \/ Crash(c) PROVE UnsentUntouched'
  BY <1>5 DEF Ack, AckRaises, Crash, rowVars, history, UnsentUntouched
<1>6. ASSUME NEW c \in Consumers, Defer(c) \/ Fail(c) PROVE UnsentUntouched'
  <2>1. inHand[c] \in rows
    BY <1>0, <1>6 DEF Defer, Fail
  <2> QED
    BY <1>6, <2>1 DEF Defer, Fail, UnsentUntouched, QueueInv, TypeOK
<1>7. CASE UNCHANGED vars
  BY <1>7 DEF vars, rowVars, history, UnsentUntouched
<1> QED
  BY <1>1, <1>2, <1>3, <1>4, <1>5, <1>6, <1>7 DEF Next, Loop

LEMMA UntouchedInvariant == Spec => []UnsentUntouched
<1>1. Init => UnsentUntouched
  BY DEF Init, UnsentUntouched
<1> QED
  BY <1>1, UntouchedNext, QueueInvariant, PTL DEF Spec

(* The queue implements at-least-once delivery: every step of a row, a consumer
   or a crash is a step of QueueContract or leaves its variables alone. *)
THEOREM QueueImplementsContract == Spec => AtLeastOnce
<1>1. Init => Contract!Init
  BY DEF Init, Contract!Init, Delivered
<1>2. QueueInv /\ UnsentUntouched /\ [Next]_vars => [Contract!Next]_(Contract!vars)
  <2> SUFFICES ASSUME QueueInv, UnsentUntouched, [Next]_vars
               PROVE  [Contract!Next]_(Contract!vars)
    OBVIOUS
  <2>1. ASSUME NEW k \in Keys, NEW later \in BOOLEAN, Enqueue(k, later)
        PROVE  Contract!Send(k)
    BY <2>1 DEF Enqueue, Contract!Send, Delivered, history, UnsentUntouched
  <2>2. ASSUME NEW k \in Keys, BecomeAvailable(k) PROVE UNCHANGED Contract!vars
    BY <2>2 DEF BecomeAvailable, Contract!vars, Delivered, history
  <2>3. ASSUME NEW c \in Consumers, Claim(c) PROVE \E k \in Keys : Contract!Deliver(k)
    <3> PICK k \in Urgent : claimedBy' = [claimedBy EXCEPT ![k] = c]
      BY <2>3 DEF Claim
    <3>1. k \in Keys /\ k \in rows \ done
      BY DEF Urgent, Ready, QueueInv, TypeOK
    <3>2. UNCHANGED <<rows, done, quarantine, failures, deferrals>>
      BY <2>3 DEF Claim, history
    <3>3. Delivered' = Delivered \cup {k}
      BY <3>1, <3>2 DEF Delivered, QueueInv, TypeOK
    <3> QED
      BY <3>1, <3>2, <3>3 DEF Contract!Deliver
  <2>4. ASSUME NEW c \in Consumers, Handler(c) \/ Crash(c) PROVE UNCHANGED Contract!vars
    BY <2>4 DEF Handler, HandlerReturns, HandlerDefers, HandlerRaises, Crash, rowVars,
                history, Contract!vars, Delivered
  <2>5. ASSUME NEW c \in Consumers, at[c] # "idle"
        PROVE  inHand[c] \in Keys /\ inHand[c] \in Delivered
    BY <2>5 DEF QueueInv, TypeOK, HandIffBusy, HolderOwns, Delivered
  <2>6. ASSUME NEW c \in Consumers, Ack(c) \/ AckRaises(c)
        PROVE  Contract!Settle(inHand[c]) \/ UNCHANGED Contract!vars
    <3>1. Delivered' = Delivered
      BY <2>6 DEF Ack, AckRaises, Delivered, history
    <3> QED
      BY <2>5, <2>6, <3>1 DEF Ack, AckRaises, Contract!Settle, Contract!vars
  <2>7. ASSUME NEW c \in Consumers, Defer(c) PROVE UNCHANGED Contract!vars
    <3>1. inHand[c] \in Keys /\ inHand[c] \in Delivered
      BY <2>5, <2>7 DEF Defer
    <3>2. UNCHANGED <<rows, failures>>
          /\ deferrals' = [deferrals EXCEPT ![inHand[c]] = @ + 1]
          /\ claimedBy' \in {claimedBy, [claimedBy EXCEPT ![inHand[c]] = Nobody]}
      BY <2>7 DEF Defer
    <3>3. Delivered' = Delivered
      BY <3>1, <3>2 DEF Delivered, QueueInv, TypeOK
    <3> QED
      BY <2>7, <3>3 DEF Defer, Contract!vars
  <2>8. ASSUME NEW c \in Consumers, Fail(c)
        PROVE  Contract!DeadLetter(inHand[c]) \/ UNCHANGED Contract!vars
    <3>1. inHand[c] \in Keys /\ inHand[c] \in Delivered
      BY <2>5, <2>8 DEF Fail
    <3>2. UNCHANGED <<rows, deferrals>>
          /\ failures' = [failures EXCEPT ![inHand[c]] = @ + 1]
          /\ claimedBy' \in {claimedBy, [claimedBy EXCEPT ![inHand[c]] = Nobody]}
      BY <2>8 DEF Fail
    <3>3. Delivered' = Delivered
      BY <3>1, <3>2 DEF Delivered, QueueInv, TypeOK
    <3> QED
      BY <2>8, <3>1, <3>3 DEF Fail, Contract!DeadLetter, Contract!vars
  <2>9. CASE UNCHANGED vars
    BY <2>9 DEF vars, rowVars, history, Contract!vars, Delivered
  <2> QED
    BY <2>1, <2>2, <2>3, <2>4, <2>5, <2>6, <2>7, <2>8, <2>9
       DEF Next, Loop, Contract!Next, Ack, AckRaises, Fail
<1> QED
  BY <1>1, <1>2, QueueInvariant, UntouchedInvariant, PTL DEF Spec, AtLeastOnce, Contract!Spec

(***************************************************************************)
(* C1's watchdog.                                                          *)
(***************************************************************************)

(* The feeds are a part of what runs in the background. *)
LEMMA FeedsAlone == BackgroundSpec => F!FeedsInit /\ [][F!FeedsNext]_(F!feedVars)
<1>1. BackgroundInit => F!FeedsInit
  BY DEF BackgroundInit
<1>2. [BackgroundNext]_backgroundVars => [F!FeedsNext]_(F!feedVars)
  BY DEF BackgroundNext, backgroundVars, Queue, Feed, Alert, feedVars, F!feedVars, F!memory, F!rowsOf, F!watch,
         F!history
<1> QED BY <1>1, <1>2, PTL DEF BackgroundSpec

(* One row without an end for each process that went before, and the open *)
(* gap of the one that runs, which remembers it.                          *)
OpenRows == IF openGap THEN 1 ELSE 0

GapInv ==
  /\ OpenRows \in {0, 1} /\ gaps \in Nat /\ restarts \in Nat
  /\ OpenRows <= gaps /\ gaps <= restarts + OpenRows
  /\ restarts = 0 => gaps = OpenRows

(* No gap is open at first. *)
LEMMA GapInvInit == F!FeedsInit => GapInv
<1> SUFFICES ASSUME F!FeedsInit PROVE GapInv
  OBVIOUS
<1>1. OpenRows = 0
  BY Zenon DEF F!FeedsInit, OpenRows
<1>2. gaps = 0 /\ restarts = 0
  BY Zenon DEF F!FeedsInit
<1> QED BY <1>1, <1>2 DEF GapInv

(* What the poll, the wire and the session do is no concern of the gap rows; *)
(* the watchdog opens, closes or leaves one, and a restart forgets the one   *)
(* that is open.                                                             *)
LEMMA GapInvNext == GapInv /\ [F!FeedsNext]_(F!feedVars) => GapInv'
<1> SUFFICES ASSUME GapInv, [F!FeedsNext]_(F!feedVars) PROVE GapInv'
  OBVIOUS
<1>1. ASSUME UNCHANGED <<openGap, gaps, restarts>> PROVE GapInv'
  <2>1. OpenRows' = OpenRows
    BY <1>1, Zenon DEF OpenRows
  <2> QED BY <1>1, <2>1 DEF GapInv
<1>2. CASE F!CheckGap
  <2>1. restarts' = restarts
    BY <1>2 DEF F!CheckGap, F!history
  <2>2. \/ OpenRows = 0 /\ OpenRows' = 1 /\ gaps' = gaps + 1
        \/ OpenRows = 1 /\ OpenRows' = 0 /\ gaps' = gaps - 1
        \/ UNCHANGED <<openGap, gaps, restarts>>
    BY <1>2, <2>1, Zenon DEF F!CheckGap, OpenRows
  <2> QED BY <1>1, <2>1, <2>2 DEF GapInv
<1>3. CASE F!Restart
  <2>1. OpenRows' = 0
    BY <1>3, Zenon DEF F!Restart, OpenRows
  <2>2. restarts' = restarts + 1 /\ gaps' = gaps
    BY <1>3, Zenon DEF F!Restart
  <2> QED BY <2>1, <2>2 DEF GapInv
<1>4. CASE \/ \E f \in Feeds : F!Publish(f)
           \/ F!Cycle \/ F!Unparseable \/ F!Unreachable \/ F!WrongContent \/ F!StoreRaises \/ F!Session
  <2>1. UNCHANGED <<openGap, gaps, restarts>>
    BY <1>4, Zenon DEF F!Publish, F!Cycle, F!NotModified, F!Fetch, F!StoreEntry, F!Aggregate, F!Unparseable,
                       F!Unreachable, F!WrongContent, F!StoreRaises, F!Session, F!watch, F!history
  <2> QED BY <1>1, <2>1
<1>5. CASE UNCHANGED F!feedVars
  BY <1>1, <1>5 DEF F!feedVars, F!watch, F!history
<1> QED BY <1>2, <1>3, <1>4, <1>5, Zenon DEF F!FeedsNext

(* C1's watch books a silence as one gap: the rows without an end are the open *)
(* gap of the running process and at most one of each process before it.       *)
THEOREM BackgroundGapsAreBookedOnce == BackgroundSpec => []GapsAreBookedOnce
<1>1. ASSUME GapInv PROVE GapsAreBookedOnce
  <2>1. gaps <= restarts + 1 /\ (restarts = 0 => gaps = OpenRows)
    BY <1>1 DEF GapInv
  <2> QED BY <2>1, Zenon DEF GapsAreBookedOnce, F!GapsAreBookedOnce, OpenRows
<1> QED BY <1>1, FeedsAlone, GapInvInit, GapInvNext, PTL

(***************************************************************************)
(* C7's alerts.                                                            *)
(***************************************************************************)

(* Watchdog and mailer are a part of what runs in the background. *)
LEMMA AlertsAlone == BackgroundSpec => A!AlertsInit /\ [][A!AlertsNext]_(A!alertVars)
<1>1. BackgroundInit => A!AlertsInit
  BY DEF BackgroundInit
<1>2. [BackgroundNext]_backgroundVars => [A!AlertsNext]_(A!alertVars)
  BY DEF BackgroundNext, backgroundVars, Queue, Feed, Alert, alertVars, A!alertVars
<1> QED BY <1>1, <1>2, PTL DEF BackgroundSpec

FindingCodes == {"UNIT_NOT_FOUND", "DOWN", "NOT_ENABLED", "HEARTBEAT_STALE"}

Findings == SUBSET [code : FindingCodes, unit : UNION {DOMAIN probe : probe \in Probes}]

Mails == [about : Findings, status : {"QUEUED", "SENT", "FAILED"}, attempts : Nat, copies : Nat]

(* The newest alert is about these findings. *)
Told(findings) == outbox # <<>> /\ outbox[Len(outbox)].about = findings

(* What a pass has left to write.  The damping counters come first; ... *)
Counters(todo, n) == \A i \in 1..n : todo[i][1] \in {"pendingFp", "pendingN"}

(* ... nothing more if the findings are those of the last alert; ... *)
Quiet(todo, findings) ==
  /\ Counters(todo, Len(todo))
  /\ A!HasCritical(findings) => flag.fp = findings /\ (Told(findings) \/ (torn /\ since < Realert))

(* ... or an alert, its fingerprint, its time and its severity, ... *)
Alerting(todo, findings, n) ==
  /\ Len(todo) = n + 4 /\ Counters(todo, n)
  /\ todo[n + 1] = <<"alert", findings>> /\ todo[n + 2] = <<"fp", findings>>
  /\ todo[n + 3][1] = "ts" /\ todo[n + 4][1] = "sev"

(* ... of which the alert may be queued, ... *)
Signing(todo, findings) ==
  /\ Len(todo) = 3 /\ todo[1] = <<"fp", findings>> /\ todo[2][1] = "ts" /\ todo[3][1] = "sev"
  /\ Told(findings)

(* ... and the fingerprint written; ... *)
Signed(todo, findings) ==
  /\ Len(todo) <= 2 /\ \A i \in 1..Len(todo) : todo[i][1] \in {"ts", "sev"}
  /\ flag.fp = findings /\ Told(findings)

(* ... or the silent end of a warning, ... *)
Clearing(todo, findings, n) ==
  /\ Len(todo) = n + 2 /\ Counters(todo, n)
  /\ todo[n + 1] = <<"fp", {}>> /\ todo[n + 2][1] = "sev"
  /\ findings = {}

(* ... half written. *)
Cleared(todo, findings) ==
  /\ Len(todo) <= 1 /\ \A i \in 1..Len(todo) : todo[i][1] = "sev"
  /\ findings = {}

Sequential(todo) == \E S : todo \in Seq(S)

AlertTypes ==
  /\ DOMAIN flag = {"fp", "sev", "pendingFp", "pendingN"}
  /\ flag.fp \in Findings
  /\ since \in Nat /\ outbox \in Seq(Mails)
  /\ watchdog.phase \in {"none", "write"}

Remaining(todo, findings) ==
  \/ Quiet(todo, findings)
  \/ Signing(todo, findings)
  \/ Signed(todo, findings)
  \/ Cleared(todo, findings)
  \/ \E n \in 0..2 : Alerting(todo, findings, n) \/ Clearing(todo, findings, n)

Passing ==
  watchdog.phase = "write" =>
    /\ DOMAIN watchdog = {"phase", "findings", "todo"}
    /\ watchdog.findings \in Findings
    /\ Sequential(watchdog.todo)
    /\ Remaining(watchdog.todo, watchdog.findings)

(* A critical fingerprint is that of the newest alert, or an alert was   *)
(* queued after it and is not signed.                                    *)
Remembered ==
  A!HasCritical(flag.fp) =>
    \/ Told(flag.fp)
    \/ torn
    \/ watchdog.phase = "write" /\ Signing(watchdog.todo, watchdog.findings)

AlertInv == AlertTypes /\ Passing /\ Remembered /\ A!CriticalIsTold

(* No unit has been looked at, no alert told. *)
LEMMA AlertInvInit == A!AlertsInit => AlertInv
<1> SUFFICES ASSUME A!AlertsInit PROVE AlertInv
  OBVIOUS
<1>1. flag = [fp |-> {}, sev |-> "", pendingFp |-> {}, pendingN |-> 0] /\ found = {} /\ outbox = <<>>
      /\ watchdog = [phase |-> "none"] /\ since = Realert + 1
  BY DEF A!AlertsInit
<1>2. ~A!HasCritical({})
  BY DEF A!HasCritical
<1>3. AlertTypes
  <2>1. DOMAIN flag = {"fp", "sev", "pendingFp", "pendingN"} /\ flag.fp = {}
    BY <1>1
  <2>2. since \in Nat
    <3>1. since = Realert + 1
      BY <1>1
    <3> HIDE <1>1
    <3> QED BY <3>1, BackgroundAssumption
  <2>3. watchdog.phase = "none" /\ outbox \in Seq(Mails) /\ {} \in Findings
    BY <1>1, EmptySeq DEF Findings
  <2> QED BY <2>1, <2>2, <2>3 DEF AlertTypes
<1> QED BY <1>1, <1>2, <1>3 DEF AlertInv, Passing, Remembered, A!CriticalIsTold

(* A look at the units gives findings. *)
LEMMA EvaluateIn ==
  ASSUME NEW probe \in Probes
  PROVE  A!Evaluate(probe) \in Findings
<1>1. ASSUME NEW u PROVE A!Codes(u) \subseteq FindingCodes
  BY DEF A!Codes, FindingCodes
<1>2. ASSUME NEW n \in DOMAIN probe, NEW c \in A!Codes(probe[n])
      PROVE  [code |-> c, unit |-> n] \in [code : FindingCodes, unit : UNION {DOMAIN q : q \in Probes}]
  <2>1. c \in FindingCodes
    BY <1>1
  <2>2. n \in UNION {DOMAIN q : q \in Probes}
    OBVIOUS
  <2> QED BY <2>1, <2>2, Zenon
<1>3. ASSUME NEW f \in A!Evaluate(probe) PROVE f \in [code : FindingCodes, unit : UNION {DOMAIN q : q \in Probes}]
  <2>1. PICK n \in DOMAIN probe : f \in {[code |-> c, unit |-> n] : c \in A!Codes(probe[n])}
    BY <1>3, Zenon DEF A!Evaluate
  <2>2. PICK c \in A!Codes(probe[n]) : f = [code |-> c, unit |-> n]
    BY <2>1, Zenon
  <2> QED BY <1>2, <2>2, Zenon
<1> QED BY <1>3, Zenon DEF Findings

(* Short sequences. *)
LEMMA TwoLong ==
  ASSUME NEW a, NEW b
  PROVE  << a, b >> \in Seq({a, b}) /\ Len(<< a, b >>) = 2 /\ << a, b >>[1] = a /\ << a, b >>[2] = b
OBVIOUS

LEMMA FourLong ==
  ASSUME NEW a, NEW b, NEW c, NEW d
  PROVE  LET s == << a, b, c, d >>
         IN  s \in Seq({a, b, c, d}) /\ Len(s) = 4 /\ s[1] = a /\ s[2] = b /\ s[3] = c /\ s[4] = d
OBVIOUS

LEMMA First == ASSUME NEW a, NEW b PROVE << a, b >>[1] = a
OBVIOUS

(* What a sequence begins and ends with. *)
LEMMA BeginsWith ==
  ASSUME NEW s, Sequential(s), NEW t, Sequential(t)
  PROVE  /\ Sequential(s \o t)
         /\ Len(s \o t) = Len(s) + Len(t)
         /\ \A i \in 1..Len(s) : (s \o t)[i] = s[i]
         /\ \A i \in 1..Len(t) : (s \o t)[Len(s) + i] = t[i]
<1>1. PICK S, T : s \in Seq(S) /\ t \in Seq(T)
  BY Zenon DEF Sequential
<1>2. s \in Seq(S \union T) /\ t \in Seq(S \union T)
  BY <1>1, SeqMonotonic
<1>3. Len(s) \in Nat /\ Len(t) \in Nat
  BY <1>2, LenProperties
<1>4. s \o t \in Seq(S \union T)
  BY <1>2, ConcatProperties
<1>5. Len(s \o t) = Len(s) + Len(t)
  BY <1>2, ConcatProperties
<1>6. \A i \in 1..(Len(s) + Len(t)) : (s \o t)[i] = IF i <= Len(s) THEN s[i] ELSE t[i - Len(s)]
  BY <1>2, ConcatProperties
<1>7. Sequential(s \o t)
  BY <1>4, Zenon DEF Sequential
<1>8. ASSUME NEW i \in 1..Len(t) PROVE (s \o t)[Len(s) + i] = t[i]
  <2>1. Len(s) + i \in 1..(Len(s) + Len(t)) /\ ~(Len(s) + i <= Len(s)) /\ (Len(s) + i) - Len(s) = i
    BY <1>3
  <2> QED BY <1>6, <2>1
<1>9. ASSUME NEW i \in 1..Len(s) PROVE (s \o t)[i] = s[i]
  BY <1>3, <1>6
<1> QED BY <1>5, <1>7, <1>8, <1>9

(* A pass begins with the counters, if they change, and goes on as its *)
(* verdict says.                                                       *)
LEMMA BeginsRemaining ==
  ASSUME AlertInv, watchdog.phase = "none", NEW findings \in Findings,
         NEW todo, todo = A!Writes(findings, A!Damped(findings))
  PROVE  Sequential(todo) /\ Remaining(todo, findings)
<1> DEFINE verdict == A!Damped(findings)
<1>0. PICK mode \in {"none", "NEW", "REPEAT", "RECOVERED", "CLEARED"} : \E n, fp :
        /\ verdict = [mode |-> mode, pending |-> A!Pending(fp, n)]
        /\ mode = "CLEARED" => findings = {}
        /\ mode = "none" /\ A!HasCritical(findings) => findings = flag.fp /\ ~(since >= Realert)
  <2>1. CASE findings # {} /\ findings # flag.fp
    <3>1. CASE A!HasCritical(findings) \/ A!Confirmed(findings) >= ConfirmPasses
      <4>1. verdict = [mode |-> "NEW", pending |-> A!Pending({}, 0)]
        BY <2>1, <3>1, Zenon DEF A!Damped
      <4> QED BY <4>1, Zenon
    <3>2. CASE ~(A!HasCritical(findings) \/ A!Confirmed(findings) >= ConfirmPasses)
      <4>1. verdict = [mode |-> "none", pending |-> A!Pending(findings, A!Confirmed(findings))]
        BY <2>1, <3>2, Zenon DEF A!Damped
      <4> QED BY <3>2, <4>1, Zenon
    <3> QED BY <3>1, <3>2
  <2>2. CASE ~(findings # {} /\ findings # flag.fp)
    <3> DEFINE mode == IF findings # {} THEN (IF since >= Realert THEN "REPEAT" ELSE "none")
                       ELSE IF flag.fp = {} THEN "none" ELSE IF flag.sev = "CRITICAL" THEN "RECOVERED" ELSE "CLEARED"
    <3>1. verdict = [mode |-> mode, pending |-> A!Pending({}, 0)]
      BY <2>2, Zenon DEF A!Damped
    <3>2. ~A!HasCritical({})
      BY DEF A!HasCritical
    <3>3. /\ mode \in {"none", "NEW", "REPEAT", "RECOVERED", "CLEARED"}
          /\ mode = "CLEARED" => findings = {}
          /\ mode = "none" /\ A!HasCritical(findings) => findings = flag.fp /\ ~(since >= Realert)
      BY <2>2, <3>2, Zenon
    <3> HIDE DEF mode
    <3> QED BY <3>1, <3>3, Zenon
  <2> QED BY <2>1, <2>2
<1>1. PICK n, fp :
        /\ verdict = [mode |-> mode, pending |-> A!Pending(fp, n)]
        /\ mode = "CLEARED" => findings = {}
        /\ mode = "none" /\ A!HasCritical(findings) => findings = flag.fp /\ ~(since >= Realert)
  BY <1>0
<1> DEFINE pre  == IF verdict.pending = A!Pending(flag.pendingFp, flag.pendingN) THEN <<>>
                   ELSE << <<"pendingFp", verdict.pending.fp>>, <<"pendingN", verdict.pending.n>> >>
           last == IF mode = "RECOVERED" THEN "" ELSE A!Severity(findings)
<1>2. verdict.mode = mode
  BY <1>1
<1> HIDE DEF verdict
<1>3. /\ Sequential(pre) /\ Len(pre) \in {0, 2}
      /\ \A i \in 1..Len(pre) : pre[i][1] \in {"pendingFp", "pendingN"}
  <2>1. CASE pre = <<>>
    BY <2>1, EmptySeq DEF Sequential
  <2>2. CASE pre = << <<"pendingFp", verdict.pending.fp>>, <<"pendingN", verdict.pending.n>> >>
    <3> HIDE DEF pre
    <3>1. /\ pre \in Seq({<<"pendingFp", verdict.pending.fp>>, <<"pendingN", verdict.pending.n>>}) /\ Len(pre) = 2
          /\ pre[1] = <<"pendingFp", verdict.pending.fp>> /\ pre[2] = <<"pendingN", verdict.pending.n>>
      BY <2>2, TwoLong, Zenon
    <3>2. pre[1][1] = "pendingFp" /\ pre[2][1] = "pendingN"
      BY <3>1
    <3>3. Sequential(pre)
      BY <3>1, Zenon DEF Sequential
    <3>4. Len(pre) = 2
      BY <3>1
    <3> HIDE <3>1, <2>2
    <3> QED BY <3>2, <3>3, <3>4
  <2> QED BY <2>1, <2>2
<1> HIDE DEF pre, last
<1>4. CASE mode = "none"
  <2>1. todo = pre \o <<>>
    BY <1>2, <1>4, Zenon DEF A!Writes, verdict, pre
  <2>2. todo = pre
    BY <1>3, <2>1, ConcatEmptySeq DEF Sequential
  <2>3. Counters(todo, Len(todo))
    BY <1>3, <2>2 DEF Counters
  <2>4. A!HasCritical(findings) => flag.fp = findings /\ (Told(findings) \/ (torn /\ since < Realert))
    <3>1. A!HasCritical(findings) => findings = flag.fp /\ since < Realert
      BY <1>1, <1>4, BackgroundAssumption DEF AlertInv, AlertTypes
    <3>2. A!HasCritical(flag.fp) => Told(flag.fp) \/ torn
      BY DEF AlertInv, Remembered
    <3> QED BY <3>1, <3>2, Zenon
  <2> QED BY <1>3, <2>2, <2>3, <2>4, Zenon DEF Remaining, Quiet
<1>5. ASSUME NEW post, Sequential(post), todo = pre \o post
      PROVE  /\ Sequential(todo) /\ Len(todo) = Len(pre) + Len(post) /\ Counters(todo, Len(pre))
             /\ \A i \in 1..Len(post) : todo[Len(pre) + i] = post[i]
  <2>1. /\ Sequential(todo)
        /\ Len(todo) = Len(pre) + Len(post)
        /\ \A i \in 1..Len(pre) : todo[i] = pre[i]
        /\ \A i \in 1..Len(post) : todo[Len(pre) + i] = post[i]
    BY <1>3, <1>5, BeginsWith
  <2> QED BY <1>3, <2>1, Zenon DEF Counters
<1>6. Len(pre) \in 0..2
  BY <1>3
<1>7. CASE mode = "CLEARED"
  <2> DEFINE post == << <<"fp", {}>>, <<"sev", "">> >>
  <2>1. todo = pre \o post
    BY <1>2, <1>7, Zenon DEF A!Writes, verdict, pre
  <2>2. Len(post) = 2 /\ post[1] = <<"fp", {}>> /\ post[2][1] = "sev" /\ Sequential(post)
    <3>1. post \in Seq({<<"fp", {}>>, <<"sev", "">>})
      BY TwoLong, Zenon
    <3>2. Len(post) = 2 /\ post[1] = <<"fp", {}>> /\ post[2] = <<"sev", "">>
      BY TwoLong, Zenon
    <3>3. post[2][1] = "sev"
      BY <3>2, First, Zenon
    <3> HIDE DEF post
    <3> QED BY <3>1, <3>2, <3>3, Zenon DEF Sequential
  <2> HIDE DEF post
  <2>3. /\ Sequential(todo) /\ Len(todo) = Len(pre) + 2 /\ Counters(todo, Len(pre))
        /\ todo[Len(pre) + 1] = post[1] /\ todo[Len(pre) + 2] = post[2]
    <3>1. /\ Sequential(todo) /\ Len(todo) = Len(pre) + Len(post) /\ Counters(todo, Len(pre))
          /\ \A i \in 1..Len(post) : todo[Len(pre) + i] = post[i]
      BY <1>5, <2>1, <2>2, Zenon
    <3>2. 1 \in 1..2 /\ 2 \in 1..2
      OBVIOUS
    <3> QED BY <2>2, <3>1, <3>2, Zenon
  <2>4. Clearing(todo, findings, Len(pre))
    BY <1>1, <1>7, <2>2, <2>3, Zenon DEF Clearing
  <2> QED BY <1>6, <2>3, <2>4, Zenon DEF Remaining
<1>8. CASE mode \in {"NEW", "REPEAT", "RECOVERED"}
  <2> DEFINE post == << <<"alert", findings>>, <<"fp", findings>>, <<"ts", 0>>, <<"sev", last>> >>
  <2>1. todo = pre \o post
    BY <1>2, <1>8, Zenon DEF A!Writes, verdict, pre, last
  <2>2. /\ Len(post) = 4 /\ Sequential(post)
        /\ post[1] = <<"alert", findings>> /\ post[2] = <<"fp", findings>>
        /\ post[3][1] = "ts" /\ post[4][1] = "sev"
    <3>1. post \in Seq({<<"alert", findings>>, <<"fp", findings>>, <<"ts", 0>>, <<"sev", last>>})
      BY FourLong, Zenon
    <3>2. /\ Len(post) = 4 /\ post[1] = <<"alert", findings>> /\ post[2] = <<"fp", findings>>
          /\ post[3] = <<"ts", 0>> /\ post[4] = <<"sev", last>>
      BY FourLong, Zenon
    <3>3. post[3][1] = "ts" /\ post[4][1] = "sev"
      BY <3>2, First, Zenon
    <3> HIDE DEF post
    <3> QED BY <3>1, <3>2, <3>3, Zenon DEF Sequential
  <2> HIDE DEF post
  <2>3. /\ Sequential(todo) /\ Len(todo) = Len(pre) + 4 /\ Counters(todo, Len(pre))
        /\ todo[Len(pre) + 1] = post[1] /\ todo[Len(pre) + 2] = post[2]
        /\ todo[Len(pre) + 3] = post[3] /\ todo[Len(pre) + 4] = post[4]
    <3>1. /\ Sequential(todo) /\ Len(todo) = Len(pre) + Len(post) /\ Counters(todo, Len(pre))
          /\ \A i \in 1..Len(post) : todo[Len(pre) + i] = post[i]
      BY <1>5, <2>1, <2>2, Zenon
    <3>2. 1 \in 1..4 /\ 2 \in 1..4 /\ 3 \in 1..4 /\ 4 \in 1..4
      OBVIOUS
    <3> QED BY <2>2, <3>1, <3>2, Zenon
  <2>4. Alerting(todo, findings, Len(pre))
    BY <2>2, <2>3, Zenon DEF Alerting
  <2> QED BY <1>6, <2>3, <2>4, Zenon DEF Remaining
<1> QED BY <1>1, <1>4, <1>7, <1>8

(* The mailer changes the state of rows, and not what they are about. *)
LEMMA MailKeeps ==
  ASSUME AlertInv, UNCHANGED <<flag, since, watchdog, found, torn>>,
         outbox' \in Seq(Mails), Len(outbox') = Len(outbox),
         \A i \in 1..Len(outbox) : outbox'[i].about = outbox[i].about
  PROVE  AlertInv'
<1>1. outbox \in Seq(Mails)
  BY DEF AlertInv, AlertTypes
<1>2. ASSUME NEW findings PROVE Told(findings)' <=> Told(findings)
  <2>1. CASE outbox = <<>>
    <3>1. outbox' = <<>>
      BY <2>1
    <3> QED BY <2>1, <3>1, Zenon DEF Told
  <2>2. CASE outbox # <<>>
    <3>1. outbox' # <<>> /\ Len(outbox) \in 1..Len(outbox)
      BY <1>1, <2>2, EmptySeq
    <3> QED BY <2>2, <3>1, Zenon DEF Told
  <2> QED BY <2>1, <2>2
<1>3. AlertTypes'
  BY DEF AlertInv, AlertTypes
<1>4. Passing'
  BY <1>2, Zenon DEF AlertInv, Passing, Remaining, Quiet, Signing, Signed, Cleared, Alerting, Clearing, Counters
<1>5. Remembered'
  BY <1>2, Zenon DEF AlertInv, Remembered, Signing
<1>6. A!CriticalIsTold'
  BY <1>2, Zenon DEF AlertInv, A!CriticalIsTold, A!Last, Told
<1> QED BY <1>3, <1>4, <1>5, <1>6 DEF AlertInv

(* The rest of a sequence. *)
LEMMA RestOf ==
  ASSUME NEW s, Sequential(s), s # <<>>
  PROVE  /\ Sequential(Tail(s)) /\ Len(s) \in Nat \ {0} /\ Len(Tail(s)) = Len(s) - 1 /\ Head(s) = s[1]
         /\ \A i \in 1..(Len(s) - 1) : Tail(s)[i] = s[i + 1]
<1>1. PICK S : s \in Seq(S)
  BY Zenon DEF Sequential
<1>2. Tail(s) \in Seq(S) /\ Len(Tail(s)) = Len(s) - 1
  BY <1>1, HeadTailProperties
<1>3. \A i \in 1..Len(Tail(s)) : Tail(s)[i] = s[i + 1]
  BY <1>1, HeadTailProperties
<1>4. Len(s) \in Nat \ {0}
  BY <1>1, EmptySeq
<1>5. Head(s) = s[1]
  BY <1>1, <1>4
<1>6. Sequential(Tail(s))
  BY <1>2, Zenon DEF Sequential
<1> QED BY <1>2, <1>3, <1>4, <1>5, <1>6

LEMMA RestOfCounters ==
  ASSUME NEW s, Sequential(s), s # <<>>, NEW n \in Nat, n > 0, n <= Len(s), Counters(s, n)
  PROVE  s[1][1] \in {"pendingFp", "pendingN"} /\ Counters(Tail(s), n - 1)
<1>1. s[1][1] \in {"pendingFp", "pendingN"}
  BY DEF Counters
<1>2. ASSUME NEW i \in 1..(n - 1) PROVE Tail(s)[i][1] \in {"pendingFp", "pendingN"}
  <2>1. i + 1 \in 1..n /\ i \in 1..(Len(s) - 1)
    BY RestOf
  <2>2. Tail(s)[i] = s[i + 1]
    BY <2>1, RestOf
  <2> QED BY <2>1, <2>2 DEF Counters
<1> QED BY <1>1, <1>2 DEF Counters

(* What a statement of the watchdog does, by its key. *)
LEMMA WriteDoes ==
  ASSUME AlertInv, A!Write, NEW key, NEW value, key = watchdog.todo[1][1], value = watchdog.todo[1][2]
  PROVE  /\ watchdog' = [watchdog EXCEPT !.todo = Tail(watchdog.todo)]
         /\ found' = found
         /\ key \in {"pendingFp", "pendingN", "sev"} =>
              /\ UNCHANGED <<since, outbox, torn>>
              /\ DOMAIN flag' = DOMAIN flag /\ flag'.fp = flag.fp
         /\ key = "alert" =>
              /\ UNCHANGED <<flag, since, torn>>
              /\ outbox' = Append(outbox, [about |-> value, status |-> "QUEUED", attempts |-> 0, copies |-> 0])
         /\ key = "fp" =>
              /\ UNCHANGED <<since, outbox>> /\ torn' = FALSE
              /\ DOMAIN flag' = DOMAIN flag /\ flag'.fp = value
         /\ key = "ts" => UNCHANGED <<flag, outbox, torn>> /\ since' = 0
<1>1. Sequential(watchdog.todo) /\ watchdog.todo # <<>>
  BY DEF AlertInv, Passing, A!Write
<1>2. Head(watchdog.todo) = watchdog.todo[1]
  BY <1>1, RestOf
<1>3. /\ flag' = IF key \in DOMAIN flag THEN [flag EXCEPT ![key] = value] ELSE flag
      /\ since' = IF key = "ts" THEN 0 ELSE since
      /\ outbox' = IF key = "alert"
                   THEN Append(outbox, [about |-> value, status |-> "QUEUED", attempts |-> 0, copies |-> 0])
                   ELSE outbox
      /\ torn' = IF key = "fp" THEN FALSE ELSE torn
      /\ watchdog' = [watchdog EXCEPT !.todo = Tail(watchdog.todo)]
      /\ found' = found
  BY <1>2, Zenon DEF A!Write
<1>4. DOMAIN flag = {"fp", "sev", "pendingFp", "pendingN"}
  BY DEF AlertInv, AlertTypes
<1>5. CASE key \in {"pendingFp", "pendingN", "sev"}
  <2>1. key # "ts" /\ key # "alert" /\ key # "fp" /\ key \in DOMAIN flag
    BY <1>4, <1>5
  <2>2. flag' = [flag EXCEPT ![key] = value]
    BY <1>3, <2>1, Zenon
  <2>3. DOMAIN flag' = DOMAIN flag /\ flag'.fp = flag.fp
    BY <2>1, <2>2
  <2> QED BY <1>3, <2>1, <2>3, Zenon
<1>6. CASE key = "alert"
  <2>1. key # "ts" /\ key # "fp" /\ key \notin DOMAIN flag /\ key \notin {"pendingFp", "pendingN", "sev"}
    BY <1>4, <1>6
  <2> QED BY <1>3, <1>6, <2>1, Zenon
<1>7. CASE key = "fp"
  <2>1. key # "ts" /\ key # "alert" /\ key \in DOMAIN flag /\ key \notin {"pendingFp", "pendingN", "sev"}
    BY <1>4, <1>7
  <2>2. flag' = [flag EXCEPT ![key] = value]
    BY <1>3, <2>1, Zenon
  <2>3. DOMAIN flag' = DOMAIN flag /\ flag'.fp = value
    BY <1>7, <2>1, <2>2
  <2> QED BY <1>3, <1>7, <2>1, <2>3, Zenon
<1>8. CASE key = "ts"
  <2>1. key # "alert" /\ key # "fp" /\ key \notin DOMAIN flag /\ key \notin {"pendingFp", "pendingN", "sev"}
    BY <1>4, <1>8
  <2> QED BY <1>3, <1>8, <2>1, Zenon
<1>9. CASE key \notin {"pendingFp", "pendingN", "sev", "alert", "fp", "ts"}
  BY <1>3, <1>9, Zenon
<1> QED BY <1>5, <1>6, <1>7, <1>8, <1>9

(* A statement keeps what is left of the pass in order. *)
LEMMA WriteKeeps == AlertInv /\ A!Write => AlertInv'
<1> SUFFICES ASSUME AlertInv, A!Write PROVE AlertInv'
  OBVIOUS
<1>1. PICK todo, findings, rest, key, value :
        /\ todo = watchdog.todo /\ findings = watchdog.findings
        /\ rest = Tail(todo) /\ key = todo[1][1] /\ value = todo[1][2]
  OBVIOUS
<1>2. /\ watchdog.phase = "write" /\ todo # <<>> /\ Sequential(todo) /\ Remaining(todo, findings)
      /\ DOMAIN watchdog = {"phase", "findings", "todo"} /\ findings \in Findings
  BY <1>1, Zenon DEF AlertInv, Passing, A!Write
<1>3. /\ watchdog'.phase = "write" /\ watchdog'.findings = findings /\ watchdog'.todo = rest
      /\ DOMAIN watchdog' = {"phase", "findings", "todo"} /\ found' = found
  <2>1. watchdog' = [watchdog EXCEPT !.todo = rest] /\ found' = found
    BY <1>1, WriteDoes
  <2> QED BY <1>1, <1>2, <2>1
<1>4. /\ key \in {"pendingFp", "pendingN", "sev"} =>
              UNCHANGED <<since, outbox, torn>> /\ DOMAIN flag' = DOMAIN flag /\ flag'.fp = flag.fp
      /\ key = "alert" =>
              /\ UNCHANGED <<flag, since, torn>>
              /\ outbox' = Append(outbox, [about |-> value, status |-> "QUEUED", attempts |-> 0, copies |-> 0])
      /\ key = "fp" => UNCHANGED <<since, outbox>> /\ torn' = FALSE /\ DOMAIN flag' = DOMAIN flag /\ flag'.fp = value
      /\ key = "ts" => UNCHANGED <<flag, outbox, torn>> /\ since' = 0
  BY <1>1, WriteDoes, Zenon
<1>5. /\ Sequential(rest) /\ Len(todo) \in Nat \ {0} /\ Len(rest) = Len(todo) - 1
      /\ \A i \in 1..(Len(todo) - 1) : rest[i] = todo[i + 1]
  BY <1>1, <1>2, RestOf
<1>6. AlertTypes
  BY DEF AlertInv
<1> SUFFICES AlertTypes' /\ Remaining(rest, findings)' /\ Remembered'
  BY <1>2, <1>3, <1>5, Zenon DEF AlertInv, Passing, A!CriticalIsTold
<1>7. ASSUME key \in {"pendingFp", "pendingN", "sev", "ts"}
      PROVE  AlertTypes' /\ Remembered' /\ flag'.fp = flag.fp /\ \A f : Told(f)' <=> Told(f)
  <2>1. /\ DOMAIN flag' = DOMAIN flag /\ flag'.fp = flag.fp /\ outbox' = outbox /\ torn' = torn
        /\ since' \in {since, 0}
    BY <1>4, <1>7
  <2>2. AlertTypes'
    BY <1>3, <1>6, <2>1 DEF AlertTypes
  <2>3. ASSUME NEW f PROVE Told(f)' <=> Told(f)
    BY <2>1, Zenon DEF Told
  <2>4. ~Signing(todo, findings)
    BY <1>1, <1>7 DEF Signing
  <2>5. Remembered'
    BY <1>1, <2>1, <2>3, <2>4, Zenon DEF AlertInv, Remembered
  <2> QED BY <2>1, <2>2, <2>3, <2>5
<1>8. ASSUME NEW n \in Nat, n > 0, n <= Len(todo), Counters(todo, n)
      PROVE  key \in {"pendingFp", "pendingN"} /\ Counters(rest, n - 1)
  BY <1>1, <1>2, <1>8, RestOfCounters, Zenon
<1>9. CASE Quiet(todo, findings)
  <2>1. key \in {"pendingFp", "pendingN"} /\ Counters(rest, Len(rest))
    BY <1>5, <1>8, <1>9 DEF Quiet
  <2>2. torn' = torn /\ since' = since
    BY <1>4, <2>1
  <2>3. Quiet(rest, findings)'
    BY <1>7, <1>9, <2>1, <2>2, Zenon DEF Quiet, Counters
  <2> QED BY <1>7, <2>1, <2>3, Zenon DEF Remaining
<1>10. CASE Signing(todo, findings)
  <2>1. key = "fp" /\ value = findings
    BY <1>1, <1>10 DEF Signing
  <2>2. outbox' = outbox /\ since' = since /\ DOMAIN flag' = DOMAIN flag /\ flag'.fp = findings
    BY <1>4, <2>1
  <2>3. Told(findings)'
    BY <1>10, <2>2, Zenon DEF Signing, Told
  <2>4. AlertTypes'
    BY <1>2, <1>3, <1>6, <2>2 DEF AlertTypes
  <2>5. Len(rest) <= 2 /\ \A i \in 1..Len(rest) : rest[i][1] \in {"ts", "sev"}
    <3>1. rest[1] = todo[2] /\ rest[2] = todo[3] /\ Len(rest) = 2
      BY <1>5, <1>10 DEF Signing
    <3>2. rest[1][1] = "ts" /\ rest[2][1] = "sev"
      BY <1>10, <3>1, Zenon DEF Signing
    <3> QED BY <3>1, <3>2
  <2> QED BY <2>2, <2>3, <2>4, <2>5, Zenon DEF Remaining, Signed, Remembered
<1>11. CASE Signed(todo, findings)
  <2>1. key \in {"ts", "sev"}
    BY <1>1, <1>5, <1>11 DEF Signed
  <2>2. Len(rest) <= 2 /\ \A i \in 1..Len(rest) : rest[i][1] \in {"ts", "sev"}
    BY <1>5, <1>11 DEF Signed
  <2>3. Signed(rest, findings)'
    BY <1>7, <1>11, <2>1, <2>2 DEF Signed
  <2> QED BY <1>7, <2>1, <2>3 DEF Remaining
<1>12. CASE Cleared(todo, findings)
  <2>1. key = "sev"
    BY <1>1, <1>5, <1>12 DEF Cleared
  <2>2. Len(rest) <= 1 /\ \A i \in 1..Len(rest) : rest[i][1] = "sev"
    BY <1>5, <1>12 DEF Cleared
  <2>3. Cleared(rest, findings)'
    BY <1>12, <2>2 DEF Cleared
  <2> QED BY <1>7, <2>1, <2>3 DEF Remaining
<1>13. ASSUME NEW n \in 0..2, Alerting(todo, findings, n)
       PROVE  AlertTypes' /\ Remaining(rest, findings)' /\ Remembered'
  <2>1. CASE n = 0
    <3>1. /\ todo[1] = <<"alert", findings>> /\ todo[2] = <<"fp", findings>>
          /\ todo[3][1] = "ts" /\ todo[4][1] = "sev" /\ Len(todo) = 4
      BY <1>13, <2>1 DEF Alerting
    <3>2. key = "alert" /\ value = findings
      BY <1>1, <3>1
    <3>3. /\ UNCHANGED <<flag, since, torn>>
          /\ outbox' = Append(outbox, [about |-> findings, status |-> "QUEUED", attempts |-> 0, copies |-> 0])
      BY <1>4, <3>2
    <3>4. Told(findings)' /\ outbox' \in Seq(Mails)
      <4> DEFINE mail == [about |-> findings, status |-> "QUEUED", attempts |-> 0, copies |-> 0]
      <4>1. mail \in Mails /\ mail.about = findings
        BY <1>2 DEF Mails
      <4> HIDE DEF mail
      <4>2. outbox' = Append(outbox, mail)
        BY <3>3 DEF mail
      <4>3. outbox' \in Seq(Mails) /\ outbox' # <<>> /\ outbox'[Len(outbox')] = mail
        <5>1. outbox \in Seq(Mails)
          BY <1>6 DEF AlertTypes
        <5>2. outbox' \in Seq(Mails) /\ outbox' # <<>>
          BY <4>1, <4>2, <5>1, AppendProperties
        <5>3. Len(outbox') = Len(outbox) + 1 /\ outbox'[Len(outbox) + 1] = mail
          BY <4>1, <4>2, <5>1, AppendProperties
        <5>4. outbox'[Len(outbox')] = mail
          BY <5>3
        <5> QED BY <5>2, <5>4, Zenon
      <4> QED BY <4>1, <4>3, Zenon DEF Told
    <3>5. AlertTypes'
      BY <1>3, <1>6, <3>3, <3>4 DEF AlertTypes
    <3>6. Len(rest) = 3 /\ rest[1] = todo[2] /\ rest[2] = todo[3] /\ rest[3] = todo[4]
      BY <1>5, <3>1
    <3>7. Signing(rest, findings)'
      BY <3>1, <3>4, <3>6, Zenon DEF Signing
    <3> QED BY <1>3, <3>5, <3>7, Zenon DEF Remaining, Remembered
  <2>2. CASE n > 0
    <3>1. key \in {"pendingFp", "pendingN"} /\ Counters(rest, n - 1)
      BY <1>8, <1>13, <2>2 DEF Alerting
    <3>2. /\ Len(rest) = (n - 1) + 4
          /\ rest[(n - 1) + 1] = todo[n + 1] /\ rest[(n - 1) + 2] = todo[n + 2]
          /\ rest[(n - 1) + 3] = todo[n + 3] /\ rest[(n - 1) + 4] = todo[n + 4]
      <4>1. Len(todo) = n + 4
        BY <1>13 DEF Alerting
      <4>2. CASE n = 1
        BY <1>5, <4>1, <4>2
      <4>3. CASE n = 2
        BY <1>5, <4>1, <4>3
      <4> QED BY <2>2, <4>2, <4>3
    <3>3. Alerting(rest, findings, n - 1)'
      BY <1>13, <3>1, <3>2, Zenon DEF Alerting, Counters
    <3>4. n - 1 \in 0..2
      BY <2>2
    <3> QED BY <1>7, <3>1, <3>3, <3>4, Zenon DEF Remaining
  <2> QED BY <2>1, <2>2
<1>14. ASSUME NEW n \in 0..2, Clearing(todo, findings, n)
       PROVE  AlertTypes' /\ Remaining(rest, findings)' /\ Remembered'
  <2>1. CASE n = 0
    <3>1. Len(todo) = 2 /\ todo[1] = <<"fp", {}>> /\ todo[2][1] = "sev" /\ findings = {}
      BY <1>14, <2>1 DEF Clearing
    <3>2. key = "fp" /\ value = {}
      BY <1>1, <3>1
    <3>3. outbox' = outbox /\ since' = since /\ DOMAIN flag' = DOMAIN flag /\ flag'.fp = {}
      BY <1>4, <3>2
    <3>4. AlertTypes'
      BY <1>3, <1>6, <3>3 DEF AlertTypes, Findings
    <3>5. Remembered'
      BY <3>3 DEF Remembered, A!HasCritical
    <3>6. Len(rest) = 1 /\ rest[1] = todo[2]
      BY <1>5, <3>1
    <3>7. Cleared(rest, findings)'
      BY <3>1, <3>6 DEF Cleared
    <3> QED BY <3>4, <3>5, <3>7 DEF Remaining
  <2>2. CASE n > 0
    <3>1. key \in {"pendingFp", "pendingN"} /\ Counters(rest, n - 1)
      BY <1>8, <1>14, <2>2 DEF Clearing
    <3>2. Len(rest) = (n - 1) + 2 /\ rest[(n - 1) + 1] = todo[n + 1] /\ rest[(n - 1) + 2] = todo[n + 2]
      <4>1. Len(todo) = n + 2
        BY <1>14 DEF Clearing
      <4> QED BY <1>5, <2>2, <4>1
    <3>3. Clearing(rest, findings, n - 1)'
      BY <1>14, <3>1, <3>2, Zenon DEF Clearing, Counters
    <3>4. n - 1 \in 0..2
      BY <2>2
    <3> QED BY <1>7, <3>1, <3>3, <3>4, Zenon DEF Remaining
  <2> QED BY <2>1, <2>2
<1> QED BY <1>2, <1>9, <1>10, <1>11, <1>12, <1>13, <1>14, Zenon DEF Remaining

(* A look begins a pass. *)
LEMMA LookKeeps == AlertInv /\ A!Look => AlertInv'
<1> SUFFICES ASSUME AlertInv, A!Look PROVE AlertInv'
  OBVIOUS
<1>1. watchdog.phase = "none" /\ UNCHANGED <<flag, since, outbox, found, torn>>
  BY DEF A!Look, A!mailVars
<1>2. PICK probe \in Probes :
        watchdog' = [phase |-> "write", findings |-> A!Evaluate(probe),
                     todo |-> A!Writes(A!Evaluate(probe), A!Damped(A!Evaluate(probe)))]
  BY DEF A!Look
<1>3. PICK findings, todo : findings = A!Evaluate(probe) /\ todo = A!Writes(findings, A!Damped(findings))
  OBVIOUS
<1>4. watchdog' = [phase |-> "write", findings |-> findings, todo |-> todo]
  BY <1>2, <1>3, Zenon
<1>5. findings \in Findings
  BY <1>3, EvaluateIn
<1>6. Sequential(todo) /\ Remaining(todo, findings)
  BY <1>1, <1>3, <1>5, BeginsRemaining, Zenon
<1>7. ASSUME NEW f PROVE Told(f)' <=> Told(f)
  BY <1>1, Zenon DEF Told
<1>8. Remaining(todo, findings)'
  BY <1>1, <1>6, <1>7, Zenon DEF Remaining, Quiet, Signing, Signed, Cleared, Alerting, Clearing, Counters
<1>9. /\ watchdog'.phase = "write" /\ watchdog'.findings = findings /\ watchdog'.todo = todo
      /\ DOMAIN watchdog' = {"phase", "findings", "todo"}
  BY <1>4
<1>10. AlertTypes'
  BY <1>1, <1>9 DEF AlertInv, AlertTypes
<1>11. Passing'
  BY <1>5, <1>6, <1>8, <1>9, Zenon DEF Passing
<1>12. Remembered'
  BY <1>1, <1>7, Zenon DEF AlertInv, Remembered
<1>13. A!CriticalIsTold'
  BY <1>9 DEF A!CriticalIsTold
<1> QED BY <1>10, <1>11, <1>12, <1>13 DEF AlertInv

(* A pass that is complete has told what it found, or that was told before. *)
LEMMA DoneKeeps == AlertInv /\ A!Done => AlertInv'
<1> SUFFICES ASSUME AlertInv, A!Done PROVE AlertInv'
  OBVIOUS
<1>1. PICK findings : findings = watchdog.findings
  OBVIOUS
<1>2. /\ watchdog.phase = "write" /\ watchdog.todo = <<>> /\ found' = findings
      /\ watchdog' = [phase |-> "none"] /\ since' = IF since <= Realert THEN since + 1 ELSE since
      /\ UNCHANGED <<flag, outbox, torn>>
  BY <1>1 DEF A!Done, A!mailVars
<1>3. Remaining(<<>>, findings) /\ Len(<<>>) = 0
  BY <1>1, <1>2 DEF AlertInv, Passing
<1>4. ASSUME NEW f PROVE Told(f)' <=> Told(f)
  BY <1>2, Zenon DEF Told
<1>5. since \in Nat /\ since' \in Nat /\ (since < Realert => since' <= Realert)
  BY <1>2, BackgroundAssumption DEF AlertInv, AlertTypes
<1>6. watchdog'.phase = "none"
  BY <1>2
<1>7. AlertTypes'
  BY <1>2, <1>5, <1>6 DEF AlertInv, AlertTypes
<1>8. ~Signing(<<>>, findings) /\ \A n \in 0..2 : ~Alerting(<<>>, findings, n) /\ ~Clearing(<<>>, findings, n)
  BY <1>3 DEF Signing, Alerting, Clearing
<1>9. Remembered'
  BY <1>1, <1>2, <1>4, <1>8, Zenon DEF AlertInv, Remembered
<1>10. A!HasCritical(findings) => Told(findings) \/ (torn /\ since < Realert)
  <2>1. ~A!HasCritical({})
    BY DEF A!HasCritical
  <2> QED BY <1>3, <1>8, <2>1, Zenon DEF Remaining, Quiet, Signed, Cleared
<1>11. A!CriticalIsTold'
  BY <1>2, <1>4, <1>5, <1>10, Zenon DEF A!CriticalIsTold, A!Last, Told
<1> QED BY <1>6, <1>7, <1>9, <1>11 DEF AlertInv, Passing

(* A pass that died leaves an alert that is not signed, or none. *)
LEMMA DiesKeeps == AlertInv /\ A!WatchdogDies => AlertInv'
<1> SUFFICES ASSUME AlertInv, A!WatchdogDies PROVE AlertInv'
  OBVIOUS
<1>1. /\ torn' = (torn \/ (Len(watchdog.todo) = 3 /\ watchdog.todo[1][1] = "fp"))
      /\ found' = {} /\ watchdog' = [phase |-> "none"]
      /\ since' = IF since <= Realert THEN since + 1 ELSE since
      /\ UNCHANGED <<flag, outbox>>
  BY DEF A!WatchdogDies, A!mailVars
<1>2. ASSUME NEW f PROVE Told(f)' <=> Told(f)
  BY <1>1, Zenon DEF Told
<1>3. Signing(watchdog.todo, watchdog.findings) => torn'
  <2>1. Signing(watchdog.todo, watchdog.findings) => Len(watchdog.todo) = 3 /\ watchdog.todo[1][1] = "fp"
    BY First, Zenon DEF Signing
  <2> QED BY <1>1, <2>1, Zenon
<1>4. torn => torn'
  BY <1>1, Zenon
<1>5. watchdog'.phase = "none"
  BY <1>1
<1>6. since' \in Nat
  BY <1>1, BackgroundAssumption DEF AlertInv, AlertTypes
<1>7. AlertTypes'
  BY <1>1, <1>5, <1>6 DEF AlertInv, AlertTypes
<1>8. Remembered'
  BY <1>1, <1>2, <1>3, <1>4, Zenon DEF AlertInv, Remembered
<1>9. A!CriticalIsTold'
  BY <1>1 DEF A!CriticalIsTold, A!HasCritical
<1> QED BY <1>5, <1>7, <1>8, <1>9 DEF AlertInv, Passing

(* Every step of watchdog and mailer keeps the invariant. *)
LEMMA AlertInvNext == AlertInv /\ [A!AlertsNext]_(A!alertVars) => AlertInv'
<1> SUFFICES ASSUME AlertInv, [A!AlertsNext]_(A!alertVars) PROVE AlertInv'
  OBVIOUS
<1>1. outbox \in Seq(Mails)
  BY DEF AlertInv, AlertTypes
<1>2. ASSUME UNCHANGED <<flag, since, watchdog, found, torn, outbox>> PROVE AlertInv'
  BY <1>1, <1>2, MailKeeps
<1>3. CASE A!MailPass \/ A!MailDone \/ A!MailerDies
  BY <1>2, <1>3 DEF A!MailPass, A!MailDone, A!MailerDies
<1>4. CASE A!SendSucceeds \/ A!MarkSent \/ A!SendFails
  <2>1. UNCHANGED <<flag, since, watchdog, found, torn>>
    BY <1>4 DEF A!SendSucceeds, A!MarkSent, A!SendFails
  <2> DEFINE old == outbox[A!Row]
  <2>2. \/ outbox' = [outbox EXCEPT ![A!Row].copies = @ + 1]
        \/ outbox' = [outbox EXCEPT ![A!Row] = [old EXCEPT !.status = "SENT", !.attempts = old.attempts + 1]]
        \/ \E s \in {"SENT", "FAILED", "QUEUED"}, late \in {0, 1} :
             outbox' = [outbox EXCEPT ![A!Row] = [old EXCEPT !.attempts = old.attempts + 1, !.copies = old.copies + late,
                                                             !.status = s]]
    <3>1. CASE A!SendSucceeds
      BY <3>1 DEF A!SendSucceeds
    <3>2. CASE A!MarkSent
      BY <3>2 DEF A!MarkSent
    <3>3. CASE A!SendFails
      BY <3>3 DEF A!SendFails
    <3> QED BY <1>4, <3>1, <3>2, <3>3
  <2>3. /\ outbox' \in Seq(Mails) /\ Len(outbox') = Len(outbox)
        /\ \A i \in 1..Len(outbox) : outbox'[i].about = outbox[i].about
    <3>1. CASE A!Row \in 1..Len(outbox)
      <4>1. old \in Mails
        BY <1>1, <3>1, ElementOfSeq
      <4>2. PICK mail \in Mails : mail.about = old.about /\ outbox' = [outbox EXCEPT ![A!Row] = mail]
        <5>1. CASE outbox' = [outbox EXCEPT ![A!Row].copies = @ + 1]
          <6>1. outbox' = [outbox EXCEPT ![A!Row] = [old EXCEPT !.copies = @ + 1]]
            BY <5>1
          <6> HIDE DEF old
          <6>2. [old EXCEPT !.copies = @ + 1] \in Mails /\ [old EXCEPT !.copies = @ + 1].about = old.about
            BY <4>1 DEF Mails
          <6> QED BY <6>1, <6>2, Zenon
        <5>2. ASSUME NEW s \in {"SENT", "FAILED", "QUEUED"}, NEW late \in {0, 1},
                     outbox' = [outbox EXCEPT ![A!Row] = [old EXCEPT !.attempts = old.attempts + 1,
                                                                     !.copies = old.copies + late, !.status = s]]
              PROVE  \E mail \in Mails : mail.about = old.about /\ outbox' = [outbox EXCEPT ![A!Row] = mail]
          <6> DEFINE n == old.attempts + 1
                     k == old.copies + late
                     new == [old EXCEPT !.attempts = n, !.copies = k, !.status = s]
          <6> HIDE DEF old
          <6>1. n \in Nat /\ k \in Nat
            BY <4>1 DEF Mails
          <6> HIDE DEF n, k
          <6>2. new \in Mails /\ new.about = old.about
            BY <4>1, <6>1 DEF Mails
          <6>3. outbox' = [outbox EXCEPT ![A!Row] = new]
            BY <5>2, Zenon DEF n, k
          <6> HIDE DEF new
          <6> QED BY <6>2, <6>3, Zenon
        <5>3. CASE outbox' = [outbox EXCEPT ![A!Row] = [old EXCEPT !.status = "SENT", !.attempts = old.attempts + 1]]
          <6> DEFINE n == old.attempts + 1
                     new == [old EXCEPT !.status = "SENT", !.attempts = n]
          <6> HIDE DEF old
          <6>1. n \in Nat
            BY <4>1 DEF Mails
          <6> HIDE DEF n
          <6>2. new \in Mails /\ new.about = old.about
            BY <4>1, <6>1 DEF Mails
          <6>3. outbox' = [outbox EXCEPT ![A!Row] = new]
            BY <5>3, Zenon DEF n
          <6> HIDE DEF new
          <6> QED BY <6>2, <6>3, Zenon
        <5> QED BY <2>2, <5>1, <5>2, <5>3, Zenon
      <4> QED BY <1>1, <3>1, <4>2, ExceptSeq
    <3>2. CASE A!Row \notin 1..Len(outbox)
      <4>1. outbox' = outbox
        BY <1>1, <2>2, <3>2
      <4> QED BY <1>1, <4>1
    <3> QED BY <3>1, <3>2
  <2> QED BY <2>1, <2>3, MailKeeps
<1>5. CASE UNCHANGED A!alertVars
  BY <1>2, <1>5 DEF A!alertVars
<1> QED BY <1>3, <1>4, <1>5, WriteKeeps, LookKeeps, DoneKeeps, DiesKeeps, Zenon DEF A!AlertsNext, A!Mailing

(* After a complete pass of C7 the newest alert is about what is critical, or  *)
(* a pass died between the alert and its fingerprint and the repeat is not due. *)
THEOREM BackgroundCriticalIsTold == BackgroundSpec => []CriticalIsTold
<1>1. AlertInv => CriticalIsTold
  BY DEF AlertInv, CriticalIsTold
<1> QED BY <1>1, AlertsAlone, AlertInvInit, AlertInvNext, PTL

(***************************************************************************)
(* From C1's store to A1's verdict.  The invariant says where a revision    *)
(* is, what C2 found about the one at hand, and that every cluster has an   *)
(* item whose first revision in it was not dropped.                         *)
(***************************************************************************)
(* What a queue holds: what is ready, what comes back later, the dead letters. *)
Waiting(q) == ToSet(q.ready) \union q.late \union q.dead

Queues == [ready : Seq(Revisions), late : SUBSET Revisions, tries : [Revisions -> Nat], dead : SUBSET Revisions]

Kinds == {"story", "duplicate", "related", "cosmetic", "revision"}

Phases == {"join", "index", "send"}

(* C2 is putting a revision into its cluster. *)
AtWork == c2.phase \in Phases

Working == [phase : Phases, key : Revisions, kind : Kinds, cluster : 1 .. clusters]

ShownTypes ==
  /\ shown \in [Items -> Seq(UNION {DOMAIN Shows[i] : i \in Items})]
  /\ \A i \in Items : Len(shown[i]) <= MaxRevision

QueueTypes == dedup \in Queues /\ triage \in Queues

HandTypes ==
  /\ c2 = Idle \/ c2 \in Working \/ c2 \in [phase : {"ack"}, key : DOMAIN bodies]
  /\ a1 = Idle \/ a1 \in [phase : {"ack"}, key : DOMAIN bodies]

(* Whatever has been indexed, dropped or sent on is in a cluster. *)
ClusterTypes ==
  /\ clusters \in Nat
  /\ member \in [Revisions -> 0 .. clusters]
  /\ \A v \in vectors : v.key \in Revisions /\ v.cluster \in 1 .. clusters /\ member[v.key] = v.cluster
  /\ \A k \in dropped \union DOMAIN bodies : k \in Revisions /\ member[k] # 0

(* The revisions of an item are in one cluster. *)
ItemsCluster == \A k, l \in Revisions : k[1] = l[1] /\ member[k] # 0 /\ member[l] # 0 => member[k] = member[l]

(* An item that is in the cluster, and had an earlier revision there when one *)
(* of its revisions was dropped.                                              *)
Leads(i, c) ==
  /\ \E k \in MembersOf(i) : member[k] = c
  /\ \A k \in dropped : k[1] = i => k[2] - 1 \in 1 .. MaxRevision /\ member[<<i, k[2] - 1>>] # 0

Led == \A k \in Revisions : member[k] # 0 => \E i \in Items : Leads(i, member[k])

(* What C2 found is still so while it works: nobody else writes clusters. *)
Found1 == c2.phase # "join" => member[c2.key] = c2.cluster

Found2 == \A k \in MembersOf(c2.key[1]) : member[k] = c2.cluster

FoundNone ==
  c2.kind \in {"story", "duplicate", "related"} =>
    \A k \in MembersOf(c2.key[1]) : k = c2.key /\ c2.phase # "join"

FoundOther == c2.kind \in {"duplicate", "related"} => \E i \in Items : i # c2.key[1] /\ Leads(i, c2.cluster)

FoundEarlier ==
  c2.kind = "cosmetic" => c2.key[2] - 1 \in 1 .. MaxRevision /\ member[<<c2.key[1], c2.key[2] - 1>>] # 0

FoundNew == c2.kind = "story" /\ c2.phase = "join" => \A k \in Revisions : member[k] # c2.cluster

FoundOwn == c2.kind \in {"cosmetic", "revision"} => MembersOf(c2.key[1]) # {}

HandFits == AtWork => Found1 /\ Found2 /\ FoundNone /\ FoundOther /\ FoundEarlier /\ FoundNew /\ FoundOwn

(* No revision is lost between the queues, C2's hand and its two ends, and *)
(* no message between its queue and A1's journal.                          *)
Tracked(k) == k \in Waiting(dedup) \/ (AtWork /\ c2.key = k) \/ k \in dropped \union DOMAIN bodies

StoredIsTracked == \A k \in Revisions : Stored(k) \/ member[k] # 0 => Tracked(k)

SentIsTracked == \A k \in DOMAIN bodies : k \in Waiting(triage) \/ Decided(k)

(* A1 judges what C2 sent on, and its journal is in the order of time. *)
JournalTypes ==
  /\ time \in Nat /\ Sequential(decisions)
  /\ \A n \in DOMAIN decisions :
       decisions[n].key \in DOMAIN bodies /\ decisions[n].time \in Nat /\ decisions[n].time <= time
  /\ \A m, n \in DOMAIN decisions : m < n => decisions[m].time <= decisions[n].time

SentInto ==
  /\ Waiting(triage) \subseteq DOMAIN bodies
  /\ \A k \in DOMAIN bodies : bodies[k].cluster = member[k]

IntakeTypes == ShownTypes /\ QueueTypes /\ HandTypes /\ ClusterTypes /\ JournalTypes

IntakeInv ==
  /\ IntakeTypes
  /\ ItemsCluster /\ Led /\ HandFits
  /\ StoredIsTracked /\ SentIsTracked /\ SentInto

USE IntakeAssumption

(* What the operations on a queue leave waiting. *)
LEMMA ReadyIs ==
  ASSUME NEW q \in Queues, NEW s
  PROVE  [q EXCEPT !.ready = s] = [ready |-> s, late |-> q.late, tries |-> q.tries, dead |-> q.dead]
  BY SMTT(40) DEF Queues

LEMMA AppendHas ==
  ASSUME NEW S, NEW s \in Seq(S), NEW k \in S
  PROVE  Append(s, k) \in Seq(S) /\ ToSet(Append(s, k)) = ToSet(s) \union {k}
<1>1. Append(s, k) \in Seq(S) /\ Len(Append(s, k)) = Len(s) + 1 /\ Len(s) \in Nat
      /\ Append(s, k)[Len(s) + 1] = k /\ \A i \in 1 .. Len(s) : Append(s, k)[i] = s[i]
  BY AppendProperties, LenProperties
<1>2. DOMAIN s = 1 .. Len(s) /\ DOMAIN Append(s, k) = 1 .. Len(s) + 1
  BY <1>1, LenProperties
<1> HIDE DEF ToSet
<1>3. ASSUME NEW x PROVE x \in ToSet(Append(s, k)) <=> x \in ToSet(s) \/ x = k
  BY <1>1, <1>2 DEF ToSet
<1> QED BY <1>1, <1>3

LEMMA PutWaits ==
  ASSUME NEW q \in Queues, NEW k \in Revisions
  PROVE  Put(q, k) \in Queues /\ Waiting(Put(q, k)) = Waiting(q) \union {k}
<1>1. Append(q.ready, k) \in Seq(Revisions)
      /\ ToSet(Append(q.ready, k)) = ToSet(q.ready) \union {k}
  BY AppendHas DEF Queues
<1>3. Put(q, k) = [ready |-> Append(q.ready, k), late |-> q.late, tries |-> q.tries, dead |-> q.dead]
  BY ReadyIs, Zenon DEF Put
<1> QED BY <1>1, <1>3 DEF Queues, Waiting

LEMMA TakeWaits ==
  ASSUME NEW q \in Queues, q.ready # <<>>
  PROVE  /\ Take(q) \in Queues /\ Head(q.ready) \in Revisions
         /\ Waiting(q) = Waiting(Take(q)) \union {Head(q.ready)}
<1>1. q.ready \in Seq(Revisions) /\ Tail(q.ready) \in Seq(Revisions) /\ Head(q.ready) \in Revisions
  BY HeadTailProperties DEF Queues
<1>2. ToSet(q.ready) = ToSet(Tail(q.ready)) \union {Head(q.ready)}
  <2>1. Len(q.ready) \in Nat \ {0} /\ Len(Tail(q.ready)) = Len(q.ready) - 1
        /\ \A i \in 1 .. Len(Tail(q.ready)) : Tail(q.ready)[i] = q.ready[i + 1]
    BY <1>1, HeadTailProperties, EmptySeq
  <2>2. Head(q.ready) = q.ready[1]
    BY <1>1
  <2>3. DOMAIN q.ready = 1 .. Len(q.ready) /\ DOMAIN Tail(q.ready) = 1 .. Len(Tail(q.ready))
    BY <1>1, LenProperties
  <2>4. \A i \in DOMAIN q.ready : i = 1 \/ i - 1 \in DOMAIN Tail(q.ready)
    BY <2>1, <2>3
  <2>5. \A i \in DOMAIN Tail(q.ready) : i + 1 \in DOMAIN q.ready /\ Tail(q.ready)[i] = q.ready[i + 1]
    BY <2>1, <2>3
  <2>6. \A i \in DOMAIN q.ready : i = 1 \/ q.ready[i] = Tail(q.ready)[i - 1]
    BY <2>1, <2>3
  <2>7. 1 \in DOMAIN q.ready
    BY <2>1, <2>3
  <2> QED BY <2>2, <2>4, <2>5, <2>6, <2>7 DEF ToSet
<1>3. Take(q) = [ready |-> Tail(q.ready), late |-> q.late, tries |-> q.tries, dead |-> q.dead]
  BY ReadyIs, Zenon DEF Take
<1> QED BY <1>1, <1>2, <1>3 DEF Queues, Waiting

LEMMA ReturnWaits ==
  ASSUME NEW q \in Queues, NEW k \in q.late
  PROVE  Return(q, k) \in Queues /\ Waiting(Return(q, k)) = Waiting(q)
<1> DEFINE s == Append(q.ready, k)
<1>1. s \in Seq(Revisions) /\ ToSet(s) = ToSet(q.ready) \union {k}
  BY AppendHas DEF Queues
<1>2. Return(q, k) = [q EXCEPT !.ready = s, !.late = q.late \ {k}]
  BY Zenon DEF Return
<1> HIDE DEF s
<1>3. Return(q, k) = [ready |-> s, late |-> q.late \ {k}, tries |-> q.tries, dead |-> q.dead]
  BY <1>2 DEF Queues
<1> QED BY <1>1, <1>3 DEF Queues, Waiting

LEMMA FailWaits ==
  ASSUME NEW q \in Queues, NEW k \in Revisions
  PROVE  FailLater(q, k) \in Queues /\ Waiting(FailLater(q, k)) = Waiting(q) \union {k}
<1> DEFINE tried == [q.tries EXCEPT ![k] = @ + 1]
<1>1. tried \in [Revisions -> Nat]
  BY DEF Queues
<1>2. CASE q.tries[k] + 1 >= MaxTries
  <2>0. FailLater(q, k) = [q EXCEPT !.tries = tried, !.dead = q.dead \union {k}]
    BY <1>2, Zenon DEF FailLater
  <2>1. FailLater(q, k) = [ready |-> q.ready, late |-> q.late, tries |-> tried, dead |-> q.dead \union {k}]
    BY <2>0, Zenon DEF Queues
  <2> QED BY <1>1, <2>1 DEF Queues, Waiting
<1>3. CASE ~(q.tries[k] + 1 >= MaxTries)
  <2>0. FailLater(q, k) = [q EXCEPT !.tries = tried, !.late = q.late \union {k}]
    BY <1>3, Zenon DEF FailLater
  <2>1. FailLater(q, k) = [ready |-> q.ready, late |-> q.late \union {k}, tries |-> tried, dead |-> q.dead]
    BY <2>0, Zenon DEF Queues
  <2> QED BY <1>1, <2>1 DEF Queues, Waiting
<1> QED BY <1>2, <1>3

(* What the journal does when a decision is appended. *)
LEMMA AppendLong ==
  ASSUME NEW s, Sequential(s), NEW d
  PROVE  /\ Sequential(Append(s, d)) /\ Len(s) \in Nat
         /\ DOMAIN s = 1 .. Len(s) /\ DOMAIN Append(s, d) = 1 .. Len(s) + 1
         /\ Append(s, d)[Len(s) + 1] = d
         /\ \A n \in 1 .. Len(s) : Append(s, d)[n] = s[n]
<1>1. PICK S : s \in Seq(S)
  BY DEF Sequential
<1>2. s \in Seq(S \union {d})
  BY <1>1, SeqMonotonic
<1>3. Append(s, d) \in Seq(S \union {d}) /\ Len(Append(s, d)) = Len(s) + 1
      /\ \A n \in 1 .. Len(s) : Append(s, d)[n] = s[n]
      /\ Append(s, d)[Len(s) + 1] = d
  BY <1>2, AppendProperties
<1>4. Len(s) \in Nat /\ DOMAIN s = 1 .. Len(s) /\ DOMAIN Append(s, d) = 1 .. Len(Append(s, d))
  BY <1>2, <1>3, LenProperties
<1> QED BY <1>3, <1>4 DEF Sequential

LEMMA IntakeInvInit == IntakeInit => IntakeInv
<1> SUFFICES ASSUME IntakeInit PROVE IntakeInv
  OBVIOUS
<1> USE DEF IntakeInit
<1>1. ShownTypes
  BY DEF ShownTypes
<1>2. Empty \in Queues /\ Waiting(Empty) = {}
  BY DEF Empty, Queues, Waiting, ToSet
<1>3. QueueTypes
  BY <1>2 DEF QueueTypes
<1>4. HandTypes
  BY DEF HandTypes
<1>5. DOMAIN bodies = {}
  OBVIOUS
<1>6. ClusterTypes /\ ItemsCluster /\ Led
  BY <1>5 DEF ClusterTypes, ItemsCluster, Led
<1>7. c2.phase = "idle"
  BY DEF Idle
<1>8. HandFits
  BY <1>7 DEF HandFits, AtWork, Phases
<1>9. Sequential(decisions) /\ DOMAIN decisions = {}
  BY EmptySeq DEF Sequential
<1>10. JournalTypes
  BY <1>9 DEF JournalTypes
<1>11. \A i \in Items : Len(shown[i]) = 0
  OBVIOUS
<1>12. StoredIsTracked
  BY <1>11 DEF StoredIsTracked, Stored, Revisions
<1>13. SentIsTracked /\ SentInto
  BY <1>2, <1>5 DEF SentIsTracked, SentInto
<1> QED BY <1>1, <1>3, <1>4, <1>6, <1>8, <1>10, <1>12, <1>13 DEF IntakeInv, IntakeTypes

(* What a step leaves alone stays as it was. *)
LEMMA KeepsClusters ==
  ASSUME IntakeInv, UNCHANGED <<clusters, member, dropped, bodies>>, vectors' \subseteq vectors
  PROVE  ClusterTypes' /\ ItemsCluster' /\ Led'
  BY DEF IntakeInv, IntakeTypes, ClusterTypes, ItemsCluster, Led, Leads, MembersOf

LEMMA KeepsHand ==
  ASSUME IntakeInv, UNCHANGED <<clusters, member, dropped, c2, bodies>>
  PROVE  HandFits' /\ (c2 = Idle \/ c2 \in Working \/ c2 \in [phase : {"ack"}, key : DOMAIN bodies])'
<1>1. HandFits'
  BY DEF IntakeInv, HandFits, AtWork, Found1, Found2, FoundNone, FoundOther, FoundEarlier, FoundNew, FoundOwn,
         Leads, MembersOf
<1>2. (c2 = Idle \/ c2 \in Working \/ c2 \in [phase : {"ack"}, key : DOMAIN bodies])'
  BY Zenon DEF IntakeInv, IntakeTypes, HandTypes, Working
<1> QED BY <1>1, <1>2

LEMMA KeepsJudge ==
  ASSUME IntakeInv, UNCHANGED <<a1, bodies>>
  PROVE  (a1 = Idle \/ a1 \in [phase : {"ack"}, key : DOMAIN bodies])'
  BY Zenon DEF IntakeInv, IntakeTypes, HandTypes

LEMMA KeepsJournal ==
  ASSUME IntakeInv, UNCHANGED <<decisions, bodies, time>>
  PROVE  JournalTypes'
  BY DEF IntakeInv, IntakeTypes, JournalTypes, Sequential

LEMMA KeepsSent ==
  ASSUME IntakeInv, UNCHANGED <<member, bodies, decisions>>, QueueTypes', Waiting(triage') = Waiting(triage)
  PROVE  SentIsTracked' /\ SentInto'
<1>1. Waiting(triage)' = Waiting(triage)
  BY DEF Waiting
<1> QED BY <1>1 DEF IntakeInv, SentIsTracked, SentInto, Decided

(* C1 stores a revision. *)
LEMMA StoreKeeps ==
  ASSUME IntakeInv, NEW i \in Items, NEW n \in DOMAIN Shows[i], StoreItem(i, n)
  PROVE  IntakeInv'
<1>1. UNCHANGED <<time, held, member, vectors, clusters, dropped, c2, triage, bodies, a1, decisions, sent, faults>>
      /\ shown' = [shown EXCEPT ![i] = Append(@, n)] /\ Len(shown[i]) < MaxRevision
      /\ dedup' = IF i \in Archived THEN dedup ELSE Put(dedup, <<i, Len(shown[i]) + 1>>)
  BY DEF StoreItem
<1> DEFINE Words == UNION {DOMAIN Shows[j] : j \in Items}
<1>2. shown \in [Items -> Seq(Words)] /\ \A j \in Items : Len(shown[j]) <= MaxRevision /\ Len(shown[j]) \in Nat
  BY LenProperties DEF IntakeInv, IntakeTypes, ShownTypes
<1>3. n \in Words
  OBVIOUS
<1> HIDE DEF Words
<1>4. Append(shown[i], n) \in Seq(Words) /\ Len(Append(shown[i], n)) = Len(shown[i]) + 1
  BY <1>2, <1>3, AppendProperties
<1>5. shown' \in [Items -> Seq(Words)]
      /\ \A j \in Items : Len(shown'[j]) = IF j = i THEN Len(shown[i]) + 1 ELSE Len(shown[j])
  BY <1>1, <1>2, <1>4
<1>6. ShownTypes'
  <2>1. \A j \in Items : Len(shown'[j]) <= MaxRevision
    BY <1>1, <1>2, <1>5
  <2> QED BY <1>5, <2>1 DEF ShownTypes, Words
<1>7. <<i, Len(shown[i]) + 1>> \in Revisions
  BY <1>1, <1>2 DEF Revisions
<1>8. dedup' \in Queues /\ Waiting(dedup) \subseteq Waiting(dedup')
      /\ (i \notin Archived => <<i, Len(shown[i]) + 1>> \in Waiting(dedup'))
  BY <1>1, <1>7, PutWaits DEF IntakeInv, IntakeTypes, QueueTypes
<1>9. QueueTypes'
  BY <1>1, <1>8 DEF IntakeInv, IntakeTypes, QueueTypes
<1>10. ASSUME NEW k \in Revisions, Stored(k)' \/ member'[k] # 0 PROVE Tracked(k)'
  <2>1. Stored(k) \/ member[k] # 0 => Tracked(k)
    BY DEF IntakeInv, StoredIsTracked
  <2>2. CASE Stored(k) \/ member[k] # 0
    BY <1>1, <1>8, <2>1, <2>2 DEF Tracked, Waiting, AtWork
  <2>3. CASE ~Stored(k) /\ member[k] = 0
    <3>1. k[1] \notin Archived /\ k[2] <= Len(shown'[k[1]]) /\ ~(k[2] <= Len(shown[k[1]]))
      BY <1>1, <1>10, <2>3 DEF Stored
    <3>2. k[1] = i /\ k[2] = Len(shown[i]) + 1
      BY <1>2, <1>5, <3>1 DEF Revisions
    <3>3. k = <<i, Len(shown[i]) + 1>>
      BY <3>2 DEF Revisions
    <3> QED BY <1>8, <3>1, <3>2, <3>3 DEF Tracked, Waiting
  <2> QED BY <2>2, <2>3
<1>11. StoredIsTracked'
  BY <1>10 DEF StoredIsTracked
<1>12. Waiting(triage') = Waiting(triage)
  BY <1>1
<1> QED
  BY <1>1, <1>6, <1>9, <1>11, <1>12, KeepsClusters, KeepsHand, KeepsJudge, KeepsJournal, KeepsSent, Zenon
     DEF IntakeInv, IntakeTypes, HandTypes

(* What C2 has at hand. *)
LEMMA AtHand ==
  ASSUME IntakeInv, AtWork
  PROVE  c2 \in Working /\ c2.key \in Revisions /\ c2.kind \in Kinds /\ c2.cluster \in 1 .. clusters
<1>1. c2.phase \in Phases
  BY DEF AtWork
<1>2. c2 # Idle
  BY <1>1 DEF Idle, Phases
<1>3. c2 \notin [phase : {"ack"}, key : DOMAIN bodies]
  BY <1>1 DEF Phases
<1>4. c2 \in Working
  BY <1>2, <1>3, Zenon DEF IntakeInv, IntakeTypes, HandTypes
<1> QED BY <1>4 DEF Working

(* The revision is written into the cluster, once. *)
LEMMA AddMemberKeeps ==
  ASSUME IntakeInv, AddMember
  PROVE  IntakeInv'
<1>1. UNCHANGED <<time, held, shown, vectors, clusters, dropped, dedup, triage, bodies, a1, decisions, sent, faults>>
      /\ c2.phase = "join" /\ c2' = [c2 EXCEPT !.phase = "index"]
      /\ member' = [member EXCEPT ![c2.key] = IF @ = 0 THEN c2.cluster ELSE @]
  BY DEF AddMember
<1>2. AtWork
  BY <1>1 DEF AtWork, Phases
<1>3. PICK k \in Revisions, c \in 1 .. clusters, kind \in Kinds :
        c2 = [phase |-> "join", key |-> k, kind |-> kind, cluster |-> c]
  BY <1>1, <1>2, AtHand DEF Working
<1>4. c2' = [phase |-> "index", key |-> k, kind |-> kind, cluster |-> c]
  BY <1>1, <1>3
<1> DEFINE C2Is(phase) == c2.phase = phase /\ c2.key = k /\ c2.kind = kind /\ c2.cluster = c
<1>5. C2Is("join") /\ C2Is("index")' /\ AtWork' /\ c2' \in Working'
  <2>1. C2Is("join")
    BY <1>3
  <2>2. C2Is("index")'
    BY <1>4
  <2>3. AtWork'
    BY <2>2 DEF AtWork, Phases
  <2>4. c2' \in Working'
    <3>1. c2' \in [phase : Phases, key : Revisions, kind : Kinds, cluster : 1 .. clusters]
      BY <1>4 DEF Phases
    <3>2. clusters' = clusters
      BY <1>1
    <3> QED BY <3>1, <3>2, Zenon DEF Working
  <2> QED BY <2>1, <2>2, <2>3, <2>4
<1>6. clusters \in Nat /\ member \in [Revisions -> 0 .. clusters]
  BY DEF IntakeInv, IntakeTypes, ClusterTypes
<1>7. member' = [member EXCEPT ![k] = IF @ = 0 THEN c ELSE @]
  BY <1>1, <1>3
<1>8. HandFits
  BY DEF IntakeInv
<1>9. \A l \in MembersOf(k[1]) : member[l] = c
  BY <1>2, <1>3, <1>8 DEF HandFits, Found2
<1>10. /\ member' \in [Revisions -> 0 .. clusters] /\ member'[k] = c /\ c # 0
       /\ \A l \in Revisions : member[l] # 0 => member'[l] = member[l]
       /\ \A l \in Revisions : l # k => member'[l] = member[l]
  BY <1>6, <1>7, <1>9 DEF MembersOf
<1>11. ClusterTypes'
  BY <1>1, <1>10 DEF IntakeInv, IntakeTypes, ClusterTypes
<1>12. ItemsCluster'
  <2>1. \A l \in Revisions : l[1] = k[1] /\ member'[l] # 0 => member'[l] = c
    BY <1>9, <1>10, Zenon DEF MembersOf
  <2>2. \A l \in Revisions : l[1] # k[1] => member'[l] = member[l]
    BY <1>10, Zenon
  <2>3. ItemsCluster
    BY DEF IntakeInv
  <2> QED BY <2>1, <2>2, <2>3 DEF ItemsCluster
<1>13. ASSUME NEW i \in Items, NEW d, Leads(i, d) PROVE Leads(i, d)'
  <2>1. \A l \in dropped : l[1] = i => l[2] - 1 \in 1 .. MaxRevision /\ member[<<i, l[2] - 1>>] # 0
    BY <1>13 DEF Leads
  <2>2. \A l \in dropped : l[1] = i => member'[<<i, l[2] - 1>>] # 0
    BY <1>10, <2>1 DEF Revisions
  <2>3. PICK l \in MembersOf(i) : member[l] = d
    BY <1>13 DEF Leads
  <2>4. l \in MembersOf(i)' /\ member'[l] = d
    BY <1>10, <2>3 DEF MembersOf
  <2> QED BY <1>1, <2>1, <2>2, <2>4 DEF Leads
<1>14. \E i \in Items : Leads(i, c)'
  <2>1. CASE kind \in {"duplicate", "related"}
    BY <1>2, <1>3, <1>8, <1>13, <2>1 DEF HandFits, FoundOther
  <2>2. CASE kind \in {"cosmetic", "revision"}
    <3>1. PICK l \in MembersOf(k[1]) : TRUE
      BY <1>2, <1>3, <1>8, <2>2 DEF HandFits, FoundOwn
    <3>2. l \in Revisions /\ member[l] = c /\ member[l] # 0
      BY <1>9, <3>1 DEF MembersOf
    <3> QED BY <1>13, <3>2 DEF IntakeInv, Led
  <2>3. CASE kind = "story"
    <3>1. MembersOf(k[1]) = {}
      BY <1>2, <1>3, <1>8, <2>3 DEF HandFits, FoundNone
    <3>2. k[1] \in Items /\ k \in MembersOf(k[1])'
      BY <1>10 DEF MembersOf, Revisions
    <3>3. \A l \in dropped : l[1] # k[1]
      BY <3>1 DEF MembersOf, IntakeInv, IntakeTypes, ClusterTypes
    <3> QED BY <1>1, <1>10, <3>2, <3>3 DEF Leads
  <2> QED BY <2>1, <2>2, <2>3 DEF Kinds
<1>15. Led'
  <2>1. ASSUME NEW l \in Revisions, member'[l] # 0, NEW d, d = member'[l]
        PROVE  \E i \in Items : Leads(i, d)'
    <3>1. CASE l = k
      BY <1>10, <1>14, <2>1, <3>1
    <3>2. CASE l # k
      <4>1. Led /\ member[l] = d /\ member[l] # 0
        BY <1>10, <2>1, <3>2, Zenon DEF IntakeInv
      <4> QED BY <1>13, <4>1, Zenon DEF Led
    <3> QED BY <3>1, <3>2
  <2>2. ASSUME NEW l \in Revisions, member'[l] # 0 PROVE \E i \in Items : (Leads(i, member[l]))'
    BY <2>1, <2>2 DEF Leads
  <2> QED BY <2>2, Zenon DEF Led
<1>16. HandFits'
  <2> HIDE DEF C2Is
  <2>0. C2Is("join") /\ C2Is("index")' /\ AtWork /\ HandFits
    BY <1>2, <1>5, <1>8
  <2>1. Found1' /\ Found2'
    <3>1. c2'.key = k /\ c2'.cluster = c
      BY <2>0 DEF C2Is
    <3>2. \A l \in Revisions : l[1] = k[1] /\ member'[l] # 0 => member'[l] = c
      BY <1>9, <1>10, Zenon DEF MembersOf
    <3> QED BY <1>10, <3>1, <3>2 DEF Found1, Found2, MembersOf
  <2>2. FoundNone'
    <3>1. c2'.kind = kind /\ c2'.key = k /\ c2'.phase # "join"
      BY <2>0 DEF C2Is
    <3>2. kind \in {"story", "duplicate", "related"} => MembersOf(k[1]) = {}
      BY <2>0 DEF C2Is, HandFits, FoundNone
    <3>3. kind \in {"story", "duplicate", "related"} => \A l \in Revisions : l[1] = k[1] /\ member'[l] # 0 => l = k
      BY <1>10, <3>2, Zenon DEF MembersOf
    <3> QED BY <3>1, <3>3 DEF FoundNone, MembersOf
  <2>3. FoundOther'
    BY <2>0, <1>13 DEF C2Is, HandFits, FoundOther
  <2>4. FoundEarlier'
    BY <2>0, <1>10 DEF C2Is, HandFits, FoundEarlier, Revisions
  <2>5. FoundNew'
    BY <2>0 DEF C2Is, FoundNew
  <2>6. FoundOwn'
    BY <2>0, <1>10 DEF C2Is, FoundOwn, MembersOf
  <2> QED BY <2>1, <2>2, <2>3, <2>4, <2>5, <2>6 DEF HandFits
<1>17. StoredIsTracked'
  <2>1. ASSUME NEW l \in Revisions, Stored(l)' \/ member'[l] # 0 PROVE Tracked(l)'
    <3>1. CASE l = k
      BY <1>4, <1>5, <3>1 DEF Tracked
    <3>2. CASE l # k
      <4>1. Tracked(l)
        BY <1>1, <1>10, <2>1, <3>2 DEF IntakeInv, StoredIsTracked, Stored
      <4> QED BY <1>1, <1>3, <3>2, <4>1 DEF Tracked, Waiting
    <3> QED BY <3>1, <3>2
  <2> QED BY <2>1 DEF StoredIsTracked
<1>18. SentIsTracked' /\ SentInto'
  BY <1>1, <1>10 DEF IntakeInv, IntakeTypes, ClusterTypes, SentIsTracked, SentInto, Waiting, Decided
<1>19. ShownTypes' /\ QueueTypes'
  BY <1>1 DEF IntakeInv, IntakeTypes, ShownTypes, QueueTypes
<1> QED
  BY <1>1, <1>5, <1>11, <1>12, <1>15, <1>16, <1>17, <1>18, <1>19, KeepsJudge, KeepsJournal, Zenon
     DEF IntakeInv, IntakeTypes, HandTypes

(* C2 has looked an item up: what it found holds while it works. *)
LEMMA FoundKeeps ==
  ASSUME IntakeInv, c2 = Idle, dedup.ready # <<>>, dedup' = Take(dedup),
         UNCHANGED <<time, shown, member, vectors, dropped, triage, bodies, a1, decisions>>,
         NEW k, k = Incoming, NEW kind \in Kinds, NEW c, c2' = Found(kind, c),
         clusters' \in Nat, clusters <= clusters', c \in 1 .. clusters',
         \A l \in MembersOf(k[1]) : member[l] = c,
         kind \in {"story", "duplicate", "related"} => MembersOf(k[1]) = {},
         kind \in {"duplicate", "related"} => \E i \in Items : i # k[1] /\ Leads(i, c),
         kind = "cosmetic" => k[2] - 1 \in 1 .. MaxRevision /\ member[<<k[1], k[2] - 1>>] # 0,
         kind = "story" => \A l \in Revisions : member[l] # c,
         kind \in {"cosmetic", "revision"} => MembersOf(k[1]) # {}
  PROVE  IntakeInv'
<1>1. /\ k \in Revisions /\ dedup' \in Queues
      /\ Waiting(dedup) = Waiting(dedup') \union {k}
  BY TakeWaits DEF IntakeInv, IntakeTypes, QueueTypes, Incoming
<1>2. c2' = [phase |-> "join", key |-> k, kind |-> kind, cluster |-> c]
  BY Zenon DEF Found
<1>3. c2'.phase = "join" /\ c2'.key = k /\ c2'.kind = kind /\ c2'.cluster = c
  BY <1>2
<1>4. c2' \in Working'
  <2>1. c2' \in [phase : Phases, key : Revisions, kind : Kinds, cluster : 1 .. clusters']
    BY <1>1, <1>2 DEF Phases
  <2> QED BY <2>1, Zenon DEF Working
<1>5. ClusterTypes'
  BY DEF IntakeInv, IntakeTypes, ClusterTypes
<1>6. ItemsCluster' /\ Led'
  BY DEF IntakeInv, ItemsCluster, Led, Leads, MembersOf
<1>7. HandFits'
  <2>1. MembersOf(k[1])' = MembersOf(k[1])
    BY DEF MembersOf
  <2>2. Found1' /\ FoundNew'
    BY <1>3 DEF Found1, FoundNew
  <2>3. Found2'
    BY <1>3, <2>1 DEF Found2
  <2>4. FoundNone'
    BY <1>3, <2>1 DEF FoundNone
  <2>5. FoundOther'
    <3>1. CASE kind \in {"duplicate", "related"}
      <4>1. PICK i \in Items : i # k[1] /\ Leads(i, c)
        BY <3>1
      <4>2. (Leads(i, c2.cluster))'
        BY <1>3, <4>1 DEF Leads, MembersOf
      <4> QED BY <1>3, <4>1, <4>2, Zenon DEF FoundOther
    <3>2. CASE kind \notin {"duplicate", "related"}
      BY <1>3, <3>2 DEF FoundOther
    <3> QED BY <3>1, <3>2
  <2>6. FoundEarlier' /\ FoundOwn'
    BY <1>3, <2>1 DEF FoundEarlier, FoundOwn
  <2> QED BY <2>2, <2>3, <2>4, <2>5, <2>6 DEF HandFits
<1>8. StoredIsTracked'
  <2>1. ~AtWork
    BY DEF Idle, AtWork, Phases
  <2>2. AtWork'
    BY <1>3 DEF AtWork, Phases
  <2>3. ASSUME NEW l \in Revisions, Stored(l)' \/ member'[l] # 0 PROVE Tracked(l)'
    <3>1. Tracked(l)
      BY <2>3 DEF IntakeInv, StoredIsTracked, Stored
    <3> QED BY <1>1, <1>3, <2>1, <2>2, <3>1 DEF Tracked, Waiting
  <2> QED BY <2>3 DEF StoredIsTracked
<1>9. SentIsTracked' /\ SentInto'
  BY DEF IntakeInv, SentIsTracked, SentInto, Waiting, Decided
<1>10. ShownTypes' /\ QueueTypes'
  BY <1>1 DEF IntakeInv, IntakeTypes, ShownTypes, QueueTypes
<1> QED
  BY <1>4, <1>5, <1>6, <1>7, <1>8, <1>9, <1>10, KeepsJudge, KeepsJournal, Zenon
     DEF IntakeInv, IntakeTypes, HandTypes

LEMMA ItemLookKeeps ==
  ASSUME IntakeInv, Look
  PROVE  IntakeInv'
<1>1. /\ c2 = Idle /\ dedup.ready # <<>> /\ dedup' = Take(dedup)
      /\ UNCHANGED <<time, shown, member, vectors, dropped, triage, bodies, a1, decisions>>
  BY DEF Look
<1> DEFINE k == Incoming
<1>2. k \in Revisions /\ clusters \in Nat /\ member \in [Revisions -> 0 .. clusters]
  BY <1>1, TakeWaits DEF IntakeInv, IntakeTypes, QueueTypes, ClusterTypes, Incoming
<1>3. \A v \in vectors : v.key \in Revisions /\ v.cluster \in 1 .. clusters /\ member[v.key] = v.cluster
  BY DEF IntakeInv, IntakeTypes, ClusterTypes
<1>4. CASE JoinOwnCluster
  <2> DEFINE kind == IF Cosmetic(k) THEN "cosmetic" ELSE "revision"
             l == CHOOSE m \in MembersOf(k[1]) : TRUE
             c == member[l]
  <2>1. MembersOf(k[1]) # {} /\ c2' = Found(kind, c) /\ clusters' = clusters
    BY <1>4, Zenon DEF JoinOwnCluster
  <2>2. l \in MembersOf(k[1])
    BY <2>1
  <2> HIDE DEF l
  <2>3. l \in Revisions /\ l[1] = k[1] /\ member[l] # 0
    BY <2>2 DEF MembersOf
  <2>4. c \in 1 .. clusters
    BY <1>2, <2>3
  <2>5. ItemsCluster
    BY DEF IntakeInv
  <2>6. \A m \in MembersOf(k[1]) : member[m] = c
    BY <2>3, <2>5, Zenon DEF MembersOf, ItemsCluster
  <2>7. kind = "cosmetic" => k[2] - 1 \in 1 .. MaxRevision /\ member[<<k[1], k[2] - 1>>] # 0
    <3>1. SUFFICES ASSUME Cosmetic(k) PROVE k[2] - 1 \in 1 .. MaxRevision /\ member[<<k[1], k[2] - 1>>] # 0
      OBVIOUS
    <3>2. PICK v \in vectors : v.key = <<k[1], k[2] - 1>>
      BY <3>1, Zenon DEF Cosmetic
    <3> QED BY <1>2, <1>3, <3>2 DEF Revisions
  <2>8. kind \in {"cosmetic", "revision"} /\ kind \in Kinds
    BY DEF Kinds
  <2>9. kind \notin {"story", "duplicate", "related"}
    OBVIOUS
  <2>10. clusters' \in Nat /\ clusters <= clusters' /\ c \in 1 .. clusters'
    BY <1>2, <2>1, <2>4
  <2> HIDE DEF k, kind, c
  <2>11. k = Incoming
    BY DEF k
  <2> QED BY <1>1, <2>1, <2>6, <2>7, <2>8, <2>9, <2>10, <2>11, FoundKeeps
<1>5. ASSUME MembersOf(k[1]) = {}, NEW degree, NEW kind \in {"duplicate", "related"}, JoinNeighbour(degree, kind)
      PROVE  IntakeInv'
  <2>1. PICK v \in vectors : c2' = Found(kind, v.cluster)
    BY <1>5, Zenon DEF JoinNeighbour, Near
  <2>2. clusters' = clusters
    BY <1>5, Zenon DEF JoinNeighbour
  <2> DEFINE c == v.cluster
  <2>3. v.key \in Revisions /\ member[v.key] = c /\ c \in 1 .. clusters
    BY <1>3
  <2>4. PICK i \in Items : Leads(i, c)
    BY <1>2, <2>3 DEF IntakeInv, Led
  <2>5. i # k[1]
    BY <1>5, <2>4 DEF Leads
  <2>6. kind \in Kinds /\ kind \notin {"cosmetic", "revision", "story"}
    BY DEF Kinds
  <2>7. clusters' \in Nat /\ clusters <= clusters' /\ c \in 1 .. clusters'
    BY <1>2, <2>2, <2>3
  <2> HIDE DEF k, c
  <2>8. k = Incoming /\ c2' = Found(kind, c)
    BY <2>1 DEF k, c
  <2> QED BY <1>1, <1>5, <2>4, <2>5, <2>6, <2>7, <2>8, FoundKeeps
<1>6. CASE MembersOf(k[1]) = {} /\ NewCluster
  <2> DEFINE c == clusters + 1
             kind == "story"
  <2>1. clusters' = c /\ c2' = Found(kind, c)
    BY <1>6, Zenon DEF NewCluster
  <2>2. clusters' \in Nat /\ clusters <= clusters' /\ c \in 1 .. clusters' /\ \A l \in Revisions : member[l] # c
    BY <1>2, <2>1
  <2>3. kind \in Kinds /\ kind \notin {"cosmetic", "revision", "duplicate", "related"}
    BY DEF Kinds
  <2> HIDE DEF k, c, kind
  <2>4. k = Incoming
    BY DEF k
  <2> QED BY <1>1, <1>6, <2>1, <2>2, <2>3, <2>4, FoundKeeps
<1> QED BY <1>4, <1>5, <1>6, Zenon DEF Look

LEMMA IndexKeeps ==
  ASSUME IntakeInv, Index
  PROVE  IntakeInv'
<1>1. /\ c2.phase = "index"
      /\ UNCHANGED <<time, held, shown, member, clusters, dropped, dedup, triage, bodies, a1, decisions, sent, faults>>
      /\ c2' = [c2 EXCEPT !.phase = "send"]
      /\ vectors' = {v \in vectors : v.key # c2.key} \union {[key |-> c2.key, cluster |-> c2.cluster, time |-> time]}
  BY DEF Index
<1>2. AtWork
  BY <1>1 DEF AtWork, Phases
<1>3. PICK k \in Revisions, c \in 1 .. clusters, kind \in Kinds :
        c2 = [phase |-> "index", key |-> k, kind |-> kind, cluster |-> c]
  BY <1>1, <1>2, AtHand DEF Working
<1>4. c2' = [phase |-> "send", key |-> k, kind |-> kind, cluster |-> c]
  BY <1>1, <1>3
<1> DEFINE C2Is(phase) == c2.phase = phase /\ c2.key = k /\ c2.kind = kind /\ c2.cluster = c
<1>5. C2Is("index") /\ C2Is("send")'
  BY <1>3, <1>4
<1>6. c2' \in Working' /\ AtWork'
  <2>1. c2' \in [phase : Phases, key : Revisions, kind : Kinds, cluster : 1 .. clusters]
    BY <1>4 DEF Phases
  <2>2. c2' \in Working'
    BY <1>1, <2>1, Zenon DEF Working
  <2> QED BY <1>5, <2>2 DEF AtWork, Phases
<1>7. HandFits
  BY DEF IntakeInv
<1>8. HandFits'
  <2>1. Found1' /\ Found2' /\ FoundNone' /\ FoundNew' /\ FoundOwn' /\ FoundEarlier'
    BY <1>1, <1>2, <1>5, <1>7
       DEF HandFits, Found1, Found2, FoundNone, FoundNew, FoundOwn, FoundEarlier, MembersOf
  <2>2. FoundOther'
    BY <1>1, <1>2, <1>5, <1>7 DEF HandFits, FoundOther, Leads, MembersOf
  <2> QED BY <2>1, <2>2 DEF HandFits
<1>9. ClusterTypes'
  <2>1. member[k] = c
    BY <1>2, <1>3, <1>7 DEF HandFits, Found1
  <2>2. ASSUME NEW v \in vectors' PROVE v.key \in Revisions /\ v.cluster \in 1 .. clusters /\ member[v.key] = v.cluster
    <3>1. CASE v \in vectors
      BY <3>1 DEF IntakeInv, IntakeTypes, ClusterTypes
    <3>2. CASE v = [key |-> k, cluster |-> c, time |-> time]
      BY <2>1, <3>2
    <3> QED BY <1>1, <1>5, <2>2, <3>1, <3>2
  <2> QED BY <1>1, <2>2 DEF IntakeInv, IntakeTypes, ClusterTypes
<1>10. ItemsCluster' /\ Led'
  BY <1>1 DEF IntakeInv, ItemsCluster, Led, Leads, MembersOf
<1>11. StoredIsTracked'
  BY <1>1, <1>2, <1>5, <1>6 DEF IntakeInv, StoredIsTracked, Stored, Tracked, Waiting
<1>12. ShownTypes' /\ QueueTypes' /\ Waiting(triage') = Waiting(triage)
  BY <1>1 DEF IntakeInv, IntakeTypes, ShownTypes, QueueTypes
<1> QED
  BY <1>1, <1>6, <1>8, <1>9, <1>10, <1>11, <1>12, KeepsJudge, KeepsJournal, KeepsSent, Zenon
     DEF IntakeInv, IntakeTypes, HandTypes

(* C2 has nothing at hand. *)
LEMMA IdleFits ==
  ASSUME c2' = Idle
  PROVE  HandFits' /\ ~AtWork'
<1>1. c2'.phase = "idle"
  BY DEF Idle
<1> QED BY <1>1 DEF HandFits, AtWork, Phases

(* A revision is dropped for another item that leads the cluster, or after an *)
(* earlier one of its own.                                                    *)
LEMMA DropKeeps ==
  ASSUME IntakeInv, Drop
  PROVE  IntakeInv'
<1>1. /\ c2.phase = "send" /\ Drops
      /\ UNCHANGED <<time, held, shown, member, vectors, clusters, dedup, triage, bodies, a1, decisions, sent, faults>>
      /\ c2' = Idle
      /\ dropped' = dropped \union {c2.key}
  BY DEF Drop
<1>2. AtWork
  BY <1>1 DEF AtWork, Phases
<1>3. HandFits /\ Led /\ ItemsCluster
  BY DEF IntakeInv
<1> DEFINE k == c2.key
           c == c2.cluster
<1>4. k \in Revisions /\ c \in 1 .. clusters /\ member[k] = c /\ member[k] # 0
  BY <1>1, <1>2, <1>3, AtHand DEF HandFits, Found1
<1>5. HandFits' /\ ~AtWork'
  BY <1>1, IdleFits
<1>6. ClusterTypes'
  BY <1>1, <1>4 DEF IntakeInv, IntakeTypes, ClusterTypes
<1>7. ItemsCluster'
  BY <1>1, <1>3 DEF ItemsCluster
<1>8. ASSUME NEW l \in Revisions, NEW d, d = member[l], d # 0 PROVE \E i \in Items : Leads(i, d)'
  <2>1. PICK i \in Items : Leads(i, d)
    BY <1>3, <1>8 DEF Led
  <2>2. ASSUME NEW j \in Items, Leads(j, d), j = k[1] => k[2] - 1 \in 1 .. MaxRevision /\ member[<<j, k[2] - 1>>] # 0
        PROVE  Leads(j, d)'
    <3>1. \E m \in MembersOf(j) : member[m] = d
      BY <2>2 DEF Leads
    <3>2. \A m \in dropped : m[1] = j => m[2] - 1 \in 1 .. MaxRevision /\ member[<<j, m[2] - 1>>] # 0
      BY <2>2 DEF Leads
    <3> QED BY <1>1, <2>2, <3>1, <3>2 DEF Leads, MembersOf
  <2>3. CASE i # k[1]
    BY <2>1, <2>2, <2>3
  <2>4. CASE i = k[1] /\ c2.kind = "duplicate"
    <3>1. PICK j \in Items : j # k[1] /\ Leads(j, c)
      BY <1>2, <1>3, <2>4 DEF HandFits, FoundOther
    <3>2. c = d
      BY <1>2, <1>3, <2>1, <2>4 DEF HandFits, Found2, Leads
    <3> QED BY <2>2, <3>1, <3>2
  <2>5. CASE i = k[1] /\ c2.kind = "cosmetic"
    <3>1. k[2] - 1 \in 1 .. MaxRevision /\ member[<<k[1], k[2] - 1>>] # 0
      BY <1>2, <1>3, <2>5 DEF HandFits, FoundEarlier
    <3> QED BY <2>1, <2>2, <2>5, <3>1
  <2> QED BY <1>1, <2>3, <2>4, <2>5 DEF Drops
<1>9. Led'
  <2>1. ASSUME NEW l \in Revisions, member'[l] # 0 PROVE \E i \in Items : (Leads(i, member[l]))'
    BY <1>1, <1>8, <2>1 DEF Leads
  <2> QED BY <2>1, Zenon DEF Led
<1>10. StoredIsTracked'
  <2>1. ASSUME NEW l \in Revisions, Stored(l)' \/ member'[l] # 0 PROVE Tracked(l)'
    <3>1. Tracked(l)
      BY <1>1, <2>1 DEF IntakeInv, StoredIsTracked, Stored
    <3> QED BY <1>1, <3>1 DEF Tracked, Waiting
  <2> QED BY <2>1 DEF StoredIsTracked
<1>11. ShownTypes' /\ QueueTypes' /\ Waiting(triage') = Waiting(triage)
  BY <1>1 DEF IntakeInv, IntakeTypes, ShownTypes, QueueTypes
<1>12. HandTypes'
  BY <1>1, KeepsJudge, Zenon DEF HandTypes, Idle
<1> QED
  BY <1>1, <1>5, <1>6, <1>7, <1>9, <1>10, <1>11, <1>12, KeepsJournal, KeepsSent, Zenon
     DEF IntakeInv, IntakeTypes

(* A revision is sent to A1, once. *)
LEMMA ForwardKeeps ==
  ASSUME IntakeInv, Forward
  PROVE  IntakeInv'
<1>1. /\ c2.phase = "send"
      /\ UNCHANGED <<time, held, shown, member, vectors, clusters, dropped, dedup, a1, decisions, sent, faults>>
      /\ c2' = [phase |-> "ack", key |-> c2.key]
  BY DEF Forward, store
<1>2. AtWork
  BY <1>1 DEF AtWork, Phases
<1>3. HandFits
  BY DEF IntakeInv
<1> DEFINE k == c2.key
           c == c2.cluster
<1>4. k \in Revisions /\ c \in 1 .. clusters /\ member[k] = c /\ member[k] # 0
  BY <1>1, <1>2, <1>3, AtHand DEF HandFits, Found1
<1>5. c2'.phase = "ack" /\ ~AtWork' /\ HandFits'
  BY <1>1 DEF AtWork, Phases, HandFits
<1>6. /\ DOMAIN bodies' = DOMAIN bodies \union {k}
      /\ triage' \in Queues
      /\ Waiting(triage) \subseteq Waiting(triage') /\ Waiting(triage') \subseteq Waiting(triage) \union {k}
      /\ \A l \in DOMAIN bodies : bodies'[l].cluster = bodies[l].cluster
      /\ bodies'[k].cluster = member[k]
      /\ k \notin DOMAIN bodies => k \in Waiting(triage')
  <2>1. triage \in Queues /\ \A l \in DOMAIN bodies : bodies[l].cluster = member[l]
    BY DEF IntakeInv, IntakeTypes, QueueTypes, SentInto
  <2>2. CASE k \in DOMAIN bodies
    <3>1. triage' = triage /\ bodies' = bodies
      BY <1>1, <2>2, Zenon DEF Forward
    <3> QED BY <2>1, <2>2, <3>1
  <2>3. CASE k \notin DOMAIN bodies
    <3>1. /\ triage' = Put(triage, k)
          /\ bodies' = [l \in DOMAIN bodies \union {k} |-> IF l = k THEN Body ELSE bodies[l]]
      BY <1>1, <2>3, Zenon DEF Forward
    <3>2. Body.cluster = c
      BY DEF Body
    <3> HIDE DEF k, c
    <3>3. /\ DOMAIN bodies' = DOMAIN bodies \union {k}
          /\ bodies'[k] = Body
          /\ \A l \in DOMAIN bodies : bodies'[l] = bodies[l]
      BY <2>3, <3>1, Zenon
    <3> QED BY <1>4, <2>1, <2>3, <3>1, <3>2, <3>3, PutWaits
  <2> QED BY <2>2, <2>3
<1>7. ClusterTypes'
  BY <1>1, <1>4, <1>6 DEF IntakeInv, IntakeTypes, ClusterTypes
<1>8. ItemsCluster' /\ Led'
  BY <1>1 DEF IntakeInv, ItemsCluster, Led, Leads, MembersOf
<1>9. ShownTypes' /\ QueueTypes'
  BY <1>1, <1>6 DEF IntakeInv, IntakeTypes, ShownTypes, QueueTypes
<1>10. HandTypes'
  <2>1. c2' \in [phase : {"ack"}, key : DOMAIN bodies']
    BY <1>1, <1>6
  <2>2. a1 = Idle \/ a1 \in [phase : {"ack"}, key : DOMAIN bodies]
    BY DEF IntakeInv, IntakeTypes, HandTypes
  <2>3. [phase : {"ack"}, key : DOMAIN bodies] \subseteq [phase : {"ack"}, key : DOMAIN bodies']
    BY <1>6
  <2>4. a1' = Idle \/ a1' \in [phase : {"ack"}, key : DOMAIN bodies']
    BY <1>1, <2>2, <2>3
  <2> QED BY <2>1, <2>4, Zenon DEF HandTypes
<1>11. JournalTypes'
  BY <1>1, <1>6 DEF IntakeInv, IntakeTypes, JournalTypes, Sequential
<1>12. StoredIsTracked'
  <2>1. ASSUME NEW l \in Revisions, Stored(l)' \/ member'[l] # 0 PROVE Tracked(l)'
    <3>1. Tracked(l)
      BY <1>1, <2>1 DEF IntakeInv, StoredIsTracked, Stored
    <3> QED BY <1>1, <1>6, <3>1 DEF Tracked, Waiting
  <2> QED BY <2>1 DEF StoredIsTracked
<1>13. SentIsTracked'
  <2>1. ASSUME NEW l \in DOMAIN bodies' PROVE l \in Waiting(triage') \/ Decided(l)
    BY <1>6 DEF IntakeInv, SentIsTracked
  <2> QED BY <1>1, <2>1 DEF SentIsTracked, Decided, Waiting
<1>14. SentInto'
  <2>1. Waiting(triage') \subseteq DOMAIN bodies'
    BY <1>6 DEF IntakeInv, SentInto
  <2>2. \A l \in DOMAIN bodies' : bodies'[l].cluster = member[l]
    BY <1>6 DEF IntakeInv, SentInto
  <2> QED BY <1>1, <2>1, <2>2 DEF SentInto, Waiting
<1> QED
  BY <1>5, <1>7, <1>8, <1>9, <1>10, <1>11, <1>12, <1>13, <1>14 DEF IntakeInv, IntakeTypes

LEMMA AckDedupKeeps ==
  ASSUME IntakeInv, AckDedup
  PROVE  IntakeInv'
<1>1. /\ c2.phase = "ack" /\ c2' = Idle /\ vectors' \subseteq vectors
      /\ UNCHANGED <<time, shown, member, vectors, clusters, dropped, dedup, triage, bodies, a1, decisions>>
  BY DEF AckDedup, store
<1>2. ~AtWork /\ ~AtWork' /\ HandFits'
  BY <1>1, IdleFits DEF AtWork, Phases
<1>3. HandTypes'
  BY <1>1, KeepsJudge, Zenon DEF HandTypes, Idle
<1>4. StoredIsTracked'
  <2>1. ASSUME NEW l \in Revisions, Stored(l)' \/ member'[l] # 0 PROVE Tracked(l)'
    <3>1. Tracked(l)
      BY <1>1, <2>1 DEF IntakeInv, StoredIsTracked, Stored
    <3> QED BY <1>1, <1>2, <3>1 DEF Tracked, Waiting
  <2> QED BY <2>1 DEF StoredIsTracked
<1>5. ShownTypes' /\ QueueTypes' /\ Waiting(triage') = Waiting(triage)
  BY <1>1 DEF IntakeInv, IntakeTypes, ShownTypes, QueueTypes
<1> QED
  BY <1>1, <1>2, <1>3, <1>4, <1>5, KeepsClusters, KeepsJournal, KeepsSent, Zenon DEF IntakeInv, IntakeTypes

(* What C2 had at hand comes back, or is a dead letter. *)
LEMMA C2FaultKeeps ==
  ASSUME IntakeInv, C2Fault
  PROVE  IntakeInv'
<1>1. /\ c2 # Idle /\ c2' = Idle /\ dedup' = FailLater(dedup, c2.key)
      /\ UNCHANGED <<time, shown, member, vectors, clusters, dropped, triage, bodies, a1, decisions>>
  BY DEF C2Fault, store
<1>2. ~AtWork' /\ HandFits' /\ vectors' \subseteq vectors
  BY <1>1, IdleFits
<1>3. HandTypes'
  BY <1>1, KeepsJudge, Zenon DEF HandTypes, Idle
<1>4. c2.key \in Revisions
  <2>1. c2 \in Working \/ c2 \in [phase : {"ack"}, key : DOMAIN bodies]
    BY <1>1 DEF IntakeInv, IntakeTypes, HandTypes
  <2>2. DOMAIN bodies \subseteq Revisions
    BY DEF IntakeInv, IntakeTypes, ClusterTypes
  <2>3. CASE c2 \in Working
    BY <2>3 DEF Working
  <2>4. CASE c2 \in [phase : {"ack"}, key : DOMAIN bodies]
    BY <2>2, <2>4
  <2> QED BY <2>1, <2>3, <2>4
<1>5. dedup' \in Queues /\ Waiting(dedup') = Waiting(dedup) \union {c2.key}
  BY <1>1, <1>4, FailWaits DEF IntakeInv, IntakeTypes, QueueTypes
<1>6. StoredIsTracked'
  <2>1. ASSUME NEW l \in Revisions, Stored(l)' \/ member'[l] # 0 PROVE Tracked(l)'
    <3>1. Tracked(l)
      BY <1>1, <2>1 DEF IntakeInv, StoredIsTracked, Stored
    <3> QED BY <1>1, <1>5, <3>1 DEF Tracked, Waiting
  <2> QED BY <2>1 DEF StoredIsTracked
<1>7. ShownTypes' /\ QueueTypes' /\ Waiting(triage') = Waiting(triage)
  BY <1>1, <1>5 DEF IntakeInv, IntakeTypes, ShownTypes, QueueTypes
<1> QED
  BY <1>1, <1>2, <1>3, <1>6, <1>7, KeepsClusters, KeepsJournal, KeepsSent, Zenon DEF IntakeInv, IntakeTypes

(* A message that is due again, vectors that are pruned, and time change *)
(* nothing of this.                                                      *)
LEMMA DueKeeps ==
  ASSUME IntakeInv, DueDedup \/ PruneVectors \/ DueTriage
  PROVE  IntakeInv'
<1>1. /\ UNCHANGED <<time, shown, member, clusters, dropped, c2, bodies, a1, decisions>>
      /\ vectors' \subseteq vectors
      /\ dedup' = dedup \/ \E k \in dedup.late : dedup' = Return(dedup, k)
      /\ triage' = triage \/ \E k \in triage.late : triage' = Return(triage, k)
  BY DEF DueDedup, PruneVectors, DueTriage, store
<1>2. dedup \in Queues /\ triage \in Queues
  BY DEF IntakeInv, IntakeTypes, QueueTypes
<1>3. /\ dedup' \in Queues /\ Waiting(dedup') = Waiting(dedup)
      /\ triage' \in Queues /\ Waiting(triage') = Waiting(triage)
  BY <1>1, <1>2, ReturnWaits
<1>4. StoredIsTracked'
  <2>1. ASSUME NEW l \in Revisions, Stored(l)' \/ member'[l] # 0 PROVE Tracked(l)'
    <3>1. Tracked(l)
      BY <1>1, <2>1 DEF IntakeInv, StoredIsTracked, Stored
    <3> QED BY <1>1, <1>3, <3>1 DEF Tracked, Waiting, AtWork
  <2> QED BY <2>1 DEF StoredIsTracked
<1>5. ShownTypes' /\ QueueTypes'
  BY <1>1, <1>3 DEF IntakeInv, IntakeTypes, ShownTypes, QueueTypes
<1>6. HandTypes' /\ HandFits'
  BY <1>1, KeepsHand, KeepsJudge, Zenon DEF HandTypes
<1> QED
  BY <1>1, <1>3, <1>4, <1>5, <1>6, KeepsClusters, KeepsJournal, KeepsSent, Zenon DEF IntakeInv, IntakeTypes

(* A1 journals a decision on the first message. *)
LEMMA JudgedKeeps ==
  ASSUME IntakeInv, Unjudged, Judged, NEW action, NEW tickers,
         decisions' = Append(decisions, Decision(Subject, action, tickers)),
         UNCHANGED <<time, store, dedup, c2, bodies>>
  PROVE  IntakeInv'
<1> DEFINE k == Subject
           d == Decision(Subject, action, tickers)
<1>1. /\ triage.ready # <<>> /\ triage' = Take(triage) /\ a1' = [phase |-> "ack", key |-> k]
      /\ UNCHANGED <<time, shown, member, vectors, clusters, dropped, dedup, c2, bodies>>
      /\ vectors' \subseteq vectors
  BY DEF Unjudged, Judged, store
<1>2. triage \in Queues /\ Waiting(triage) \subseteq DOMAIN bodies
  BY DEF IntakeInv, IntakeTypes, QueueTypes, SentInto
<1>3. triage' \in Queues /\ Waiting(triage) = Waiting(triage') \union {k} /\ k \in DOMAIN bodies
  BY <1>1, <1>2, TakeWaits DEF Subject
<1>4. d.key = k /\ d.time = time
  BY DEF Decision
<1> HIDE DEF k, d
<1>5. /\ time \in Nat /\ Sequential(decisions)
      /\ \A n \in DOMAIN decisions :
           decisions[n].key \in DOMAIN bodies /\ decisions[n].time \in Nat /\ decisions[n].time <= time
      /\ \A m, n \in DOMAIN decisions : m < n => decisions[m].time <= decisions[n].time
  BY DEF IntakeInv, IntakeTypes, JournalTypes
<1>6. /\ Sequential(decisions') /\ Len(decisions) \in Nat
      /\ DOMAIN decisions = 1 .. Len(decisions) /\ DOMAIN decisions' = 1 .. Len(decisions) + 1
      /\ decisions'[Len(decisions) + 1] = d
      /\ \A n \in 1 .. Len(decisions) : decisions'[n] = decisions[n]
  BY <1>5, AppendLong DEF d
<1>7. JournalTypes'
  <2>1. ASSUME NEW n \in DOMAIN decisions'
        PROVE  decisions'[n].key \in DOMAIN bodies /\ decisions'[n].time \in Nat /\ decisions'[n].time <= time
    <3>1. CASE n \in DOMAIN decisions
      BY <1>5, <1>6, <3>1
    <3>2. CASE n = Len(decisions) + 1
      BY <1>3, <1>4, <1>5, <1>6, <3>2
    <3> QED BY <1>6, <2>1, <3>1, <3>2
  <2>2. ASSUME NEW m \in DOMAIN decisions', NEW n \in DOMAIN decisions', m < n
        PROVE  decisions'[m].time <= decisions'[n].time
    <3>1. m \in DOMAIN decisions
      BY <1>6, <2>2
    <3>2. CASE n \in DOMAIN decisions
      BY <1>5, <1>6, <2>2, <3>1, <3>2
    <3>3. CASE n = Len(decisions) + 1
      BY <1>4, <1>5, <1>6, <3>1, <3>3
    <3> QED BY <1>6, <2>2, <3>2, <3>3
  <2> QED BY <1>1, <1>5, <1>6, <2>1, <2>2 DEF JournalTypes
<1>8. ASSUME NEW l PROVE /\ Decided(l) => Decided(l)'
                         /\ l = k => Decided(l)'
  <2>1. CASE Decided(l)
    BY <1>6, <2>1 DEF Decided
  <2>2. CASE l = k
    BY <1>4, <1>6, <2>2 DEF Decided
  <2> QED BY <2>1, <2>2
<1>9. SentIsTracked'
  <2>1. ASSUME NEW l \in DOMAIN bodies PROVE l \in Waiting(triage') \/ Decided(l)'
    BY <1>3, <1>8 DEF IntakeInv, SentIsTracked
  <2> QED BY <1>1, <2>1 DEF SentIsTracked, Waiting
<1>10. SentInto'
  <2>1. Waiting(triage') \subseteq DOMAIN bodies'
    BY <1>1, <1>2, <1>3
  <2> QED BY <1>1, <2>1 DEF IntakeInv, SentInto, Waiting
<1>11. HandTypes' /\ HandFits'
  <2>1. a1' \in [phase : {"ack"}, key : DOMAIN bodies']
    BY <1>1, <1>3
  <2> QED BY <1>1, <2>1, KeepsHand, Zenon DEF HandTypes
<1>12. ShownTypes' /\ QueueTypes' /\ StoredIsTracked'
  <2>1. StoredIsTracked'
    BY <1>1 DEF IntakeInv, StoredIsTracked, Stored, Tracked, Waiting, AtWork
  <2> QED BY <1>1, <1>3, <2>1 DEF IntakeInv, IntakeTypes, ShownTypes, QueueTypes
<1> QED
  BY <1>1, <1>7, <1>9, <1>10, <1>11, <1>12, KeepsClusters, Zenon DEF IntakeInv, IntakeTypes

(* A1's acknowledgement, a failure of A1, and time. *)
LEMMA JudgeKeeps ==
  ASSUME IntakeInv, AckTriage \/ A1Fault \/ Tick
  PROVE  IntakeInv'
<1>1. /\ UNCHANGED <<shown, member, vectors, clusters, dropped, dedup, c2, bodies, decisions>>
      /\ vectors' \subseteq vectors
      /\ time' \in {time, time + 1}
      /\ a1' \in {a1, Idle}
      /\ \/ triage' = triage
         \/ a1 # Idle /\ triage' = FailLater(triage, a1.key)
         \/ triage.ready # <<>> /\ triage' = FailLater(Take(triage), Head(triage.ready))
  BY DEF AckTriage, A1Fault, Tick, store, Unjudged, Subject
<1>2. triage \in Queues /\ Waiting(triage) \subseteq DOMAIN bodies /\ DOMAIN bodies \subseteq Revisions
  BY DEF IntakeInv, IntakeTypes, QueueTypes, SentInto, ClusterTypes
<1>3. a1 = Idle \/ a1 \in [phase : {"ack"}, key : DOMAIN bodies]
  BY DEF IntakeInv, IntakeTypes, HandTypes
<1>4. triage' \in Queues /\ Waiting(triage) \subseteq Waiting(triage') /\ Waiting(triage') \subseteq DOMAIN bodies
  <2>1. CASE triage' = triage
    BY <1>2, <2>1
  <2>2. CASE a1 # Idle /\ triage' = FailLater(triage, a1.key)
    <3>1. a1.key \in DOMAIN bodies
      BY <1>3, <2>2
    <3> QED BY <1>2, <2>2, <3>1, FailWaits
  <2>3. CASE triage.ready # <<>> /\ triage' = FailLater(Take(triage), Head(triage.ready))
    BY <1>2, <2>3, TakeWaits, FailWaits
  <2> QED BY <1>1, <2>1, <2>2, <2>3
<1>5. HandTypes' /\ HandFits'
  <2>1. a1' = Idle \/ a1' \in [phase : {"ack"}, key : DOMAIN bodies']
    BY <1>1, <1>3
  <2>2. Idle' = Idle
    BY DEF Idle
  <2> QED BY <1>1, <2>1, <2>2, KeepsHand, Zenon DEF HandTypes
<1>6. ShownTypes' /\ QueueTypes' /\ StoredIsTracked'
  <2>1. StoredIsTracked'
    BY <1>1 DEF IntakeInv, StoredIsTracked, Stored, Tracked, Waiting, AtWork
  <2> QED BY <1>1, <1>4, <2>1 DEF IntakeInv, IntakeTypes, ShownTypes, QueueTypes
<1>7. JournalTypes'
  <2>1. time' \in Nat /\ time <= time'
    BY <1>1 DEF IntakeInv, IntakeTypes, JournalTypes
  <2>2. \A n \in DOMAIN decisions :
           decisions[n].key \in DOMAIN bodies /\ decisions[n].time \in Nat /\ decisions[n].time <= time'
    BY <2>1 DEF IntakeInv, IntakeTypes, JournalTypes
  <2> QED BY <1>1, <2>1, <2>2 DEF IntakeInv, IntakeTypes, JournalTypes, Sequential
<1>8. SentIsTracked' /\ SentInto'
  BY <1>1, <1>4 DEF IntakeInv, SentIsTracked, SentInto, Decided, Waiting
<1> QED BY <1>1, <1>5, <1>6, <1>7, <1>8, KeepsClusters, Zenon DEF IntakeInv, IntakeTypes

LEMMA IntakeInvNext == IntakeInv /\ [IntakeNext]_intakeVars => IntakeInv'
<1> SUFFICES ASSUME IntakeInv, [IntakeNext]_intakeVars PROVE IntakeInv'
  OBVIOUS
<1>1. CASE Suppress
  <2>1. Unjudged /\ Judged /\ decisions' = Append(decisions, Decision(Subject, "SUPPRESS", {}))
        /\ UNCHANGED <<time, store, dedup, c2, bodies>>
    BY <1>1 DEF Suppress
  <2> QED BY <2>1, JudgedKeeps
<1>2. CASE Triage
  <2>1. /\ Unjudged /\ Judged /\ UNCHANGED <<time, store, dedup, c2, bodies>>
        /\ \E action, tickers : decisions' = Append(decisions, Decision(Subject, action, tickers))
    BY <1>2, Zenon DEF Triage
  <2> QED BY <2>1, JudgedKeeps
<1>3. CASE UNCHANGED intakeVars
  <2>1. /\ UNCHANGED <<time, shown, member, clusters, dropped, dedup, c2, triage, bodies, a1, decisions>>
        /\ vectors' \subseteq vectors
    BY <1>3 DEF intakeVars, store
  <2>2. ShownTypes' /\ QueueTypes' /\ StoredIsTracked'
    BY <2>1 DEF IntakeInv, IntakeTypes, ShownTypes, QueueTypes, StoredIsTracked, Stored, Tracked, Waiting, AtWork
  <2>3. HandTypes' /\ HandFits'
    BY <2>1, KeepsHand, KeepsJudge, Zenon DEF HandTypes
  <2> QED BY <2>1, <2>2, <2>3, KeepsClusters, KeepsJournal, KeepsSent, Zenon DEF IntakeInv, IntakeTypes
<1> QED
  BY <1>1, <1>2, <1>3, StoreKeeps, ItemLookKeeps, AddMemberKeeps, IndexKeeps, DropKeeps, ForwardKeeps, AckDedupKeeps,
     C2FaultKeeps, DueKeeps, JudgeKeeps, Zenon
     DEF IntakeNext, C2Step, A1Step

(* The invariant holds for any items, words, likeness and outlets.             *)
THEOREM IntakeInvariant == IntakeSpec => []IntakeInv
  BY IntakeInvInit, IntakeInvNext, PTL DEF IntakeSpec

(* No revision that C1 stored is lost on its way: it is in C2's queue or hand, *)
(* a dead letter, dropped, or sent to A1; and what was sent to A1 waits there, *)
(* is a dead letter, or has a verdict.                                         *)
THEOREM IntakeLosesNothing == IntakeSpec => [](StoredIsTracked /\ SentIsTracked)
<1>1. IntakeInv => StoredIsTracked /\ SentIsTracked
  BY DEF IntakeInv
<1> QED BY <1>1, IntakeInvariant, PTL

(* Whatever C2 compares an item with, its revisions are in one cluster. *)
THEOREM IntakeItemsStayTogether == IntakeSpec => []ItemsCluster
<1>1. IntakeInv => ItemsCluster
  BY DEF IntakeInv
<1> QED BY <1>1, IntakeInvariant, PTL

(* A set of naturals that is not empty has a least element. *)
LEMMA LeastNatural ==
  ASSUME NEW X \in SUBSET Nat, X # {}
  PROVE  \E n \in X : \A m \in X : n <= m
<1> DEFINE R == {ss \in Nat \X Nat : ss[1] < ss[2]}
<1>1. IsWellFoundedOn(R, Nat)
  BY NatLessThanWellFounded, Zenon DEF OpToRel
<1>2. \A m, n \in Nat : m < n => <<m, n>> \in R
  OBVIOUS
<1> HIDE DEF R
<1>3. PICK n \in X : \A m \in X : ~(<<m, n>> \in R)
  BY <1>1, WFMin
<1>4. ASSUME NEW m \in X PROVE n <= m
  <2>1. ~(m < n)
    BY <1>2, <1>3
  <2> QED BY <2>1
<1> QED BY <1>4

(* The first revision of the item that leads a cluster was not dropped. *)
LEMMA FirstIsSent ==
  ASSUME IntakeInv, NEW c, NEW i \in Items, Leads(i, c)
  PROVE  \E k \in Revisions : member[k] = c /\ k \notin dropped /\ member[k] # 0
<1> DEFINE ns == {n \in 1 .. MaxRevision : member[<<i, n>>] # 0}
<1>1. PICK l \in MembersOf(i) : member[l] = c
  BY DEF Leads
<1>2. l \in Revisions /\ l[1] = i /\ member[l] # 0
  BY <1>1 DEF MembersOf
<1>3. l[2] \in ns
  BY <1>2 DEF Revisions
<1>4. ns \in SUBSET Nat /\ ns # {}
  BY <1>3
<1>5. PICK n \in ns : \A m \in ns : n <= m
  BY <1>4, LeastNatural
<1> DEFINE k == <<i, n>>
<1>6. k \in Revisions /\ k[1] = i /\ k[2] = n /\ member[k] # 0
  BY <1>5 DEF Revisions
<1>7. ItemsCluster
  BY DEF IntakeInv
<1>8. member[k] = c
  BY <1>1, <1>2, <1>6, <1>7, Zenon DEF ItemsCluster
<1>9. ASSUME k \in dropped PROVE FALSE
  <2>1. n - 1 \in 1 .. MaxRevision /\ member[<<i, n - 1>>] # 0
    BY <1>6, <1>9 DEF Leads
  <2>2. n - 1 \in ns /\ n \in Nat
    BY <1>5, <2>1
  <2> QED BY <1>5, <2>2
<1> QED BY <1>6, <1>8, <1>9

(* When all queues are empty and nothing has died, every stored revision is in *)
(* a cluster that A1 has judged: for each cluster, the first revision of the    *)
(* item that leads it was sent.                                                *)
THEOREM IntakeNoStoryVanishes == IntakeSpec => []NoStoryVanishes
<1>1. ASSUME IntakeInv PROVE NoStoryVanishes
  <2> SUFFICES ASSUME AtRest, dedup.dead \union triage.dead = {}, NEW k \in Revisions, Stored(k)
               PROVE  /\ member[k] # 0
                      /\ \E l \in Revisions : member[l] = member[k] /\ Decided(l)
    BY Zenon DEF NoStoryVanishes
  <2>1. Waiting(dedup) = {} /\ Waiting(triage) = {}
    BY DEF AtRest, Waiting, ToSet
  <2>2. ~AtWork
    BY DEF AtRest, Idle, AtWork, Phases
  <2>3. \A l \in Revisions : Stored(l) \/ member[l] # 0 => l \in dropped \union DOMAIN bodies
    BY <1>1, <2>1, <2>2 DEF IntakeInv, StoredIsTracked, Tracked
  <2>4. member[k] # 0
    BY <1>1, <2>3 DEF IntakeInv, IntakeTypes, ClusterTypes
  <2>5. PICK i \in Items : Leads(i, member[k])
    BY <1>1, <2>4 DEF IntakeInv, Led
  <2>6. PICK l \in Revisions : member[l] = member[k] /\ l \notin dropped
    BY <1>1, <2>5, FirstIsSent
  <2>7. l \in DOMAIN bodies
    BY <2>3, <2>4, <2>6
  <2>8. Decided(l)
    BY <1>1, <2>1, <2>7 DEF IntakeInv, SentIsTracked
  <2> QED BY <2>4, <2>6, <2>8
<1> QED BY <1>1, IntakeInvariant, PTL

(* The last verdict on a cluster. *)
LEMMA LastPrior ==
  ASSUME IntakeInv, NEW c, Priors(c) # {}
  PROVE  \E p \in Priors(c) : Prior(c) = decisions[p] /\ \A m \in Priors(c) : m <= p
<1>1. Sequential(decisions)
  BY DEF IntakeInv, IntakeTypes, JournalTypes
<1>2. Len(decisions) \in Nat /\ DOMAIN decisions = 1 .. Len(decisions)
  BY <1>1, AppendLong
<1>3. Priors(c) \subseteq 1 .. Len(decisions)
  BY <1>2, Zenon DEF Priors
<1> DEFINE P == Priors(c)
           backs == {b \in Nat : Len(decisions) - b \in P}
<1> HIDE DEF P
<1>4. P \subseteq 1 .. Len(decisions) /\ P # {}
  BY <1>3 DEF P
<1>5. \A m \in P : Len(decisions) - m \in backs /\ m \in Nat
  BY <1>2, <1>4
<1>5b. backs \in SUBSET Nat /\ backs # {}
  BY <1>4, <1>5
<1>6. PICK b \in backs : \A a \in backs : b <= a
  BY <1>5b, LeastNatural
<1>7. PICK p \in P : p = Len(decisions) - b
  BY <1>6
<1>8. ASSUME NEW m \in P PROVE m <= p
  <2>1. b <= Len(decisions) - m
    BY <1>5, <1>6
  <2> QED BY <1>2, <1>5, <1>6, <1>7, <2>1
<1> DEFINE q == CHOOSE n \in P : \A m \in P : m <= n
<1>9. q \in P /\ \A m \in P : m <= q
  BY <1>7, <1>8
<1>10. Prior(c) = decisions[q]
  BY Zenon DEF Prior, P
<1> HIDE DEF q
<1> QED BY <1>9, <1>10, Zenon DEF P

(* The decisions taken, and what they are about, stay as they are. *)
LEMMA StayedDecided ==
  ASSUME IntakeInv, IntakeInv', [IntakeNext]_intakeVars
  PROVE  /\ held' = held
         /\ \A k \in DOMAIN bodies : k \in DOMAIN bodies' /\ member'[k] = member[k] /\ bodies'[k] = bodies[k]
<1>1. \A k \in DOMAIN bodies : k \in Revisions /\ member[k] # 0
  BY DEF IntakeInv, IntakeTypes, ClusterTypes
<1>2. CASE AddMember
  <2>1. /\ held' = held /\ bodies' = bodies
        /\ member' = [member EXCEPT ![c2.key] = IF @ = 0 THEN c2.cluster ELSE @]
    BY <1>2 DEF AddMember
  <2>2. member \in [Revisions -> 0 .. clusters]
    BY DEF IntakeInv, IntakeTypes, ClusterTypes
  <2>3. ASSUME NEW k \in DOMAIN bodies PROVE member'[k] = member[k]
    BY <1>1, <2>1, <2>2
  <2> QED BY <2>1, <2>3
<1>3. CASE Forward
  <2>1. UNCHANGED <<held, member>>
    BY <1>3 DEF Forward, store
  <2>2. \/ bodies' = bodies
        \/ /\ bodies' = [k \in DOMAIN bodies \union {c2.key} |-> IF k = c2.key THEN Body ELSE bodies[k]]
           /\ c2.key \notin DOMAIN bodies
    BY <1>3, Zenon DEF Forward
  <2>3. ASSUME NEW k \in DOMAIN bodies PROVE k \in DOMAIN bodies' /\ bodies'[k] = bodies[k]
    BY <2>2, Zenon
  <2> QED BY <2>1, <2>3
<1>4. CASE ~AddMember /\ ~Forward
  <2>1. UNCHANGED <<held, member, bodies>>
    BY <1>4 DEF IntakeNext, intakeVars, store, C2Step, A1Step, StoreItem, Look, Index, Drop, AckDedup, DueDedup,
                C2Fault, PruneVectors, Suppress, Triage, AckTriage, DueTriage, A1Fault, Tick
  <2> QED BY <2>1
<1> QED BY <1>2, <1>3, <1>4

(* Decisions are only appended, one at a time; an analysis of a follower is *)
(* appended only when the last verdict on its story has worn off.            *)
LEMMA JournalGrows ==
  ASSUME IntakeInv, [IntakeNext]_intakeVars, decisions' # decisions
  PROVE  /\ Unjudged /\ Subject \in DOMAIN bodies /\ bodies' = bodies /\ member' = member /\ time' = time
         /\ \E action, tickers :
              /\ decisions' = Append(decisions, Decision(Subject, action, tickers))
              /\ action = "SUPPRESS" \/ ~Repeat(Subject)
<1>1. Suppress \/ Triage
  BY DEF IntakeNext, intakeVars, store, C2Step, A1Step, StoreItem, Look, AddMember, Index, Drop, Forward, AckDedup,
         DueDedup, C2Fault, PruneVectors, AckTriage, DueTriage, A1Fault, Tick
<1>2. Unjudged /\ UNCHANGED <<time, member, bodies>>
  BY <1>1 DEF Suppress, Triage, store
<1>3. Subject \in DOMAIN bodies
  BY <1>2, TakeWaits DEF Unjudged, Subject, IntakeInv, IntakeTypes, QueueTypes, SentInto
<1>4. \E action, tickers :
         /\ decisions' = Append(decisions, Decision(Subject, action, tickers))
         /\ action = "SUPPRESS" \/ ~Repeat(Subject)
  BY <1>1, Zenon DEF Suppress, Triage
<1> QED BY <1>2, <1>3, <1>4

(* What was so of two decisions is so of them later. *)
LEMMA PastHolds ==
  ASSUME IntakeInv, OnlyFounderIsAnalysedAgain, held' = held,
         \A k \in DOMAIN bodies : k \in DOMAIN bodies' /\ member'[k] = member[k] /\ bodies'[k] = bodies[k],
         \A n \in DOMAIN decisions : decisions'[n] = decisions[n],
         NEW m \in DOMAIN decisions, NEW n \in DOMAIN decisions, (AnalysedAgain(m, n) /\ ~Reopened(n))'
  PROVE  (bodies[decisions[n].key].new)'
<1>1. /\ Sequential(decisions)
      /\ \A p \in DOMAIN decisions : decisions[p].key \in DOMAIN bodies
  BY DEF IntakeInv, IntakeTypes, JournalTypes
<1>2. Len(decisions) \in Nat /\ DOMAIN decisions = 1 .. Len(decisions)
  BY <1>1, AppendLong
<1>3. \A p \in DOMAIN decisions : decisions'[p] = decisions[p] /\ member'[decisions[p].key] = member[decisions[p].key]
  BY <1>1
<1>4. AnalysedAgain(m, n)
  BY <1>3 DEF AnalysedAgain, CorroborationBypass
<1>5. ASSUME Reopened(n) PROVE Reopened(n)'
  <2> DEFINE c == member[decisions[n].key]
  <2>1. PICK p \in 1 .. (n - 1) :
          /\ Verdict(p, c)
          /\ \A q \in (p + 1) .. (n - 1) : ~Verdict(q, c)
          /\ \/ decisions[p].action = "DISCARD" /\ decisions[n].time - decisions[p].time > DiscardWindow
             \/ CorroborationBypass(decisions[n].outlets, decisions[p].outlets)
    BY <1>5, Zenon DEF Reopened
  <2>2. p \in DOMAIN decisions /\ \A q \in (p + 1) .. (n - 1) : q \in DOMAIN decisions
    BY <1>2, <2>1
  <2>3. ASSUME NEW q \in DOMAIN decisions PROVE (Verdict(q, member[decisions[n].key]))' <=> Verdict(q, c)
    BY <1>3 DEF Verdict
  <2>4. \/ decisions'[p].action = "DISCARD" /\ decisions'[n].time - decisions'[p].time > DiscardWindow
        \/ CorroborationBypass(decisions'[n].outlets, decisions'[p].outlets)
    BY <1>3, <2>1, <2>2, Zenon
  <2> QED BY <2>1, <2>2, <2>3, <2>4, Zenon DEF Reopened
<1>6. bodies[decisions[n].key].new
  BY <1>4, <1>5, Zenon DEF OnlyFounderIsAnalysedAgain
<1> QED BY <1>1, <1>3, <1>6, Zenon

(* A second analysis of a story is the founder's, or follows a last verdict     *)
(* that has worn off: suppression sees the newest verdict on the cluster.       *)
THEOREM IntakeOnlyFounderIsAnalysedAgain == IntakeSpec => []OnlyFounderIsAnalysedAgain
<1>1. IntakeInit => OnlyFounderIsAnalysedAgain
  <2>1. IntakeInit => DOMAIN decisions = {}
    BY DEF IntakeInit
  <2> QED BY <2>1, Zenon DEF OnlyFounderIsAnalysedAgain
<1>2. ASSUME IntakeInv, IntakeInv', [IntakeNext]_intakeVars, OnlyFounderIsAnalysedAgain
      PROVE  OnlyFounderIsAnalysedAgain'
  <2>1. /\ held' = held
        /\ \A k \in DOMAIN bodies : k \in DOMAIN bodies' /\ member'[k] = member[k] /\ bodies'[k] = bodies[k]
    BY <1>2, StayedDecided
  <2>2. /\ Sequential(decisions)
        /\ \A p \in DOMAIN decisions : decisions[p].key \in DOMAIN bodies /\ decisions[p].time \in Nat
        /\ \A p, q \in DOMAIN decisions : p < q => decisions[p].time <= decisions[q].time
        /\ time \in Nat
        /\ \A k \in DOMAIN bodies : bodies[k].cluster = member[k]
        /\ \A k \in DOMAIN bodies : k \in Revisions /\ member[k] # 0
        /\ ItemsCluster
    BY <1>2 DEF IntakeInv, IntakeTypes, JournalTypes, SentInto, ClusterTypes
  <2>3. CASE decisions' = decisions
    <3>1. ASSUME NEW m \in DOMAIN decisions, NEW n \in DOMAIN decisions, (AnalysedAgain(m, n) /\ ~Reopened(n))'
          PROVE  (bodies[decisions[n].key].new)'
      BY <1>2, <2>1, <2>3, <3>1, PastHolds
    <3> QED BY <2>3, <3>1, Zenon DEF OnlyFounderIsAnalysedAgain
  <2>4. CASE decisions' # decisions
    <3>1. /\ Subject \in DOMAIN bodies /\ bodies' = bodies /\ member' = member /\ time' = time
          /\ \E action, tickers : /\ decisions' = Append(decisions, Decision(Subject, action, tickers))
                                  /\ action = "SUPPRESS" \/ ~Repeat(Subject)
      BY <1>2, <2>4, JournalGrows
    <3>2. PICK action, tickers : /\ decisions' = Append(decisions, Decision(Subject, action, tickers))
                                 /\ action = "SUPPRESS" \/ ~Repeat(Subject)
      BY <3>1
    <3> DEFINE last == Len(decisions) + 1
               d == Decision(Subject, action, tickers)
               k == Subject
    <3>3. d.key = k /\ d.time = time /\ d.action = action /\ d.outlets = bodies[k].outlets
      BY DEF Decision
    <3> HIDE DEF d
    <3>4. /\ Len(decisions) \in Nat /\ DOMAIN decisions = 1 .. Len(decisions)
          /\ DOMAIN decisions' = 1 .. last /\ decisions'[last] = d
          /\ \A n \in 1 .. Len(decisions) : decisions'[n] = decisions[n]
      BY <2>2, <3>2, AppendLong DEF d
    <3>5. ASSUME NEW m \in DOMAIN decisions', NEW n \in DOMAIN decisions', (AnalysedAgain(m, n) /\ ~Reopened(n))'
          PROVE  (bodies[decisions[n].key].new)'
      <4>1. CASE n \in DOMAIN decisions
        <5>1. m < n
          BY <3>5, Zenon DEF AnalysedAgain
        <5>2. m \in DOMAIN decisions
          BY <3>4, <4>1, <5>1
        <5> QED BY <1>2, <2>1, <3>4, <3>5, <4>1, <5>2, PastHolds
      <4>2. CASE n \notin DOMAIN decisions
        <5>1. n = last
          BY <3>4, <4>2
        <5>2. /\ m < n /\ k[2] = 1 /\ member[decisions'[m].key] = member[k]
              /\ decisions'[m].action = "ESCALATE" /\ action = "ESCALATE"
              /\ time - decisions'[m].time < Window /\ held' = {}
              /\ ~Reopened(n)'
          BY <3>1, <3>3, <3>4, <3>5, <5>1, Zenon DEF AnalysedAgain
        <5>3. m \in DOMAIN decisions /\ decisions'[m] = decisions[m]
          BY <3>4, <5>1, <5>2
        <5> DEFINE c == bodies[k].cluster
        <5>4. c = member[k] /\ held = {} /\ ~Repeat(k)
          BY <2>1, <2>2, <3>1, <3>2, <5>2
        <5> SUFFICES ASSUME ~bodies[k].new PROVE FALSE
          BY <3>1, <3>3, <3>4, <5>1, Zenon
        <5>5. m \in Priors(c)
          <6>1. decisions[m].time > time - Window
            BY <2>2, <5>2, <5>3, IntakeAssumption
          <6>2. decisions[m].key \in MembersOf(decisions[m].key[1]) /\ member[decisions[m].key] = c
            BY <2>2, <5>2, <5>3, <5>4 DEF MembersOf
          <6> QED BY <5>2, <5>3, <6>1, <6>2, Zenon DEF Priors
        <5>6. PICK p \in Priors(c) : Prior(c) = decisions[p] /\ \A q \in Priors(c) : q <= p
          BY <1>2, <5>5, LastPrior
        <5>7. /\ p \in DOMAIN decisions /\ decisions[p].action \in {"ESCALATE", "DISCARD"}
              /\ decisions[p].time > time - Window
              /\ \E l \in MembersOf(decisions[p].key[1]) : member[l] = c
          BY <5>6, Zenon DEF Priors
        <5>8. member[decisions[p].key] = c
          <6>1. PICK l \in MembersOf(decisions[p].key[1]) : member[l] = c
            BY <5>7
          <6>2. l \in Revisions /\ l[1] = decisions[p].key[1] /\ member[l] # 0
            BY <6>1, Zenon DEF MembersOf
          <6>3. decisions[p].key \in Revisions /\ member[decisions[p].key] # 0
            BY <2>2, <5>7
          <6> QED BY <2>2, <6>1, <6>2, <6>3, Zenon DEF ItemsCluster
        <5>9. ASSUME NEW q \in (p + 1) .. (n - 1) PROVE ~(Verdict(q, member[decisions[n].key]))'
          <6>1. q \in DOMAIN decisions /\ p < q /\ decisions'[q] = decisions[q]
            BY <3>4, <5>1, <5>7
          <6>2. q \notin Priors(c)
            BY <3>4, <5>6, <5>7, <6>1
          <6>3. decisions[q].time > time - Window
            BY <2>2, <5>7, <6>1, IntakeAssumption
          <6>4. ASSUME decisions[q].action \in {"ESCALATE", "DISCARD"}, member[decisions[q].key] = c PROVE FALSE
            <7>1. decisions[q].key \in MembersOf(decisions[q].key[1])
              BY <2>2, <6>1 DEF MembersOf
            <7> QED BY <6>1, <6>2, <6>3, <6>4, <7>1, Zenon DEF Priors
          <6>5. decisions'[n].key = k /\ member'[k] = c
            BY <3>1, <3>3, <3>4, <5>1, <5>4
          <6>6. member' = member
            BY <3>1
          <6> QED BY <6>1, <6>4, <6>5, <6>6, Zenon DEF Verdict
        <5>10. (Verdict(p, member[decisions[n].key]))'
          <6>1. decisions'[n].key = k /\ member'[k] = c /\ decisions'[p] = decisions[p]
            BY <3>1, <3>3, <3>4, <5>1, <5>4, <5>7
          <6> QED BY <3>1, <5>7, <5>8, <6>1, Zenon DEF Verdict
        <5>11. \/ decisions[p].action = "DISCARD" /\ time - decisions[p].time > DiscardWindow
               \/ CorroborationBypass(bodies[k].outlets, decisions[p].outlets)
          <6>1. Priors(bodies[k].cluster) # {} /\ ~bodies[k].new /\ k[2] = 1
            BY <5>2, <5>5
          <6>2. \/ DiscardCooldownExpired(Prior(bodies[k].cluster))
                \/ CorroborationBypass(bodies[k].outlets, Prior(bodies[k].cluster).outlets)
                \/ (Symbols[k[1]] \union Prior(bodies[k].cluster).tickers) \intersect held # {}
            BY <5>4, <6>1, Zenon DEF Repeat
          <6>3. (Symbols[k[1]] \union Prior(bodies[k].cluster).tickers) \intersect held = {}
            BY <5>4
          <6> QED BY <5>6, <6>2, <6>3, Zenon DEF DiscardCooldownExpired
        <5>12. Reopened(n)'
          <6>1. p \in 1 .. (n - 1)
            BY <3>4, <5>1, <5>7
          <6>2. /\ decisions'[p] = decisions[p] /\ decisions'[n].time = time
                /\ decisions'[n].outlets = bodies[k].outlets
            BY <3>3, <3>4, <5>1, <5>7
          <6> QED BY <5>9, <5>10, <5>11, <6>1, <6>2, Zenon DEF Reopened
        <5> QED BY <5>2, <5>12
      <4> QED BY <4>1, <4>2
    <3> QED BY <3>5, Zenon DEF OnlyFounderIsAnalysedAgain
  <2> QED BY <2>3, <2>4
<1>3. IntakeInv /\ IntakeInv' /\ [IntakeNext]_intakeVars /\ OnlyFounderIsAnalysedAgain => OnlyFounderIsAnalysedAgain'
  BY <1>2
<1> QED BY <1>1, <1>3, IntakeInvariant, PTL DEF IntakeSpec
=============================================================================
