------------------------------- MODULE Themes -------------------------------
(***************************************************************************)
(* The thematic store (a5_thematic/service.py, store.py): once a night a    *)
(* run takes a batch of the thesis lane, on deep nights reads a week of     *)
(* escalated items beside it, asks a model what they mean for the standing  *)
(* theses, and writes the answer thesis by thesis, item by item.            *)
(*                                                                          *)
(* A message is about one revision of an item.  Each write of the run is a  *)
(* transaction of its own and each acknowledgement another; the run may die *)
(* between any two, and may be started again the same night.  The model's   *)
(* answer is what resolve_ops makes of it: an operation per item and a list *)
(* of reviews.  Digest and e-mail texts, contexts and confidences are left  *)
(* out.                                                                     *)
(***************************************************************************)
EXTENDS Integers, FiniteSets, Sequences, SequencesExt

CONSTANTS
  ThesisLane,      \* messages that may come on signal.thesis: [item, revision]
  Wide,            \* items A1 escalated to other lanes: [item, revision]
  Seeds,           \* theses of the store at the start
  NewIds,          \* identifiers the sequence still has, in order
  TopK,            \* top_k and deep_top_k
  ReviewLists,     \* reviews a model may give of one thesis: sequences of operations
  MaxAttempts, MaxLaneAge, StaleNights, Nights, MaxDeaths

ThesisIds == Seeds \union ToSet(NewIds)

VARIABLES
  nightNo,
  signal,          \* queue.messages of signal.thesis
  tries, waited,     \* attempts and nights in the queue, by message
  standing,        \* journal.theses: status
  quiet,           \* nights since a thesis had evidence
  evidence,        \* journal.thesis_evidence
  counted,         \* evidence_count
  digests,         \* nights with a DIGEST
  a5,              \* the run
  answered,        \* messages whose item has a decision of A5
  expired,         \* history: messages bulk_expire closed
  ended,           \* history: final statuses a thesis was given
  deaths

lane    == <<signal, tries, waited>>
theses  == <<standing, quiet, evidence, counted, ended>>
themeVars == <<nightNo, lane, theses, digests, a5, answered, expired, deaths>>

NoRun == [phase |-> "none"]

ThemesInit ==
  /\ nightNo = 1
  /\ signal = [m \in ThesisLane |-> "none"]
  /\ tries = [m \in ThesisLane |-> 0] /\ waited = [m \in ThesisLane |-> 0]
  /\ standing = [t \in ThesisIds |-> IF t \in Seeds THEN "ACTIVE" ELSE "none"]
  /\ quiet = [t \in ThesisIds |-> 0]
  /\ evidence = {} /\ counted = [t \in ThesisIds |-> 0]
  /\ ended = [t \in ThesisIds |-> {}]
  /\ digests = {} /\ a5 = NoRun
  /\ answered = {} /\ expired = {} /\ deaths = 0

Active == {t \in ThesisIds : standing[t] = "ACTIVE"}
Open == {m \in ThesisLane : signal[m] \in {"ready", "failed", "claimed"}}

(***************************************************************************)
(* The store.                                                              *)
(***************************************************************************)
(* A mutant: a conflict is not noticed. *)
AddEvidenceAlways(t, x) ==
  /\ evidence' = evidence \union {[thesis |-> t, of |-> x]}
  /\ counted' = [counted EXCEPT ![t] = @ + 1]
  /\ quiet' = [quiet EXCEPT ![t] = 0]

AddEvidence(t, x) ==
  IF [thesis |-> t, of |-> x] \in evidence THEN UNCHANGED <<evidence, counted, quiet>>
  ELSE /\ evidence' = evidence \union {[thesis |-> t, of |-> x]}
       /\ counted' = [counted EXCEPT ![t] = @ + 1]
       /\ quiet' = [quiet EXCEPT ![t] = 0]

SetStatus(t, status) ==
  IF standing[t] # "ACTIVE" THEN UNCHANGED <<standing, ended>>
  ELSE /\ standing' = [standing EXCEPT ![t] = status]
       /\ ended' = [ended EXCEPT ![t] = @ \union {status}]

(***************************************************************************)
(* The run.                                                                *)
(***************************************************************************)
Start ==
  /\ a5 = NoRun /\ nightNo \notin digests
  /\ \E deep \in BOOLEAN : a5' = [phase |-> "expire", deep |-> deep]
  /\ LET old == {m \in ThesisLane : signal[m] \in {"ready", "failed"} /\ waited[m] > MaxLaneAge}
     IN  /\ signal' = [m \in ThesisLane |-> IF m \in old THEN "done" ELSE signal[m]]
         /\ expired' = expired \union old
  /\ UNCHANGED <<nightNo, tries, waited, theses, digests, answered, deaths>>

(* stale_active: no evidence for so long, one transaction each. *)
ExpireStale(t) ==
  /\ a5.phase = "expire" /\ t \in Active /\ quiet[t] > StaleNights
  /\ SetStatus(t, "EXPIRED")
  /\ UNCHANGED <<nightNo, lane, quiet, evidence, counted, digests, a5, answered, expired, deaths>>

(* A quiet night asks for no slot; without a slot nothing is claimed. *)
Slot ==
  /\ a5.phase = "expire" /\ \A t \in Active : quiet[t] <= StaleNights
  /\ IF Open = {} /\ ~a5.deep
     THEN a5' = [phase |-> "claim", deep |-> FALSE, model |-> FALSE, batch |-> <<>>]
     ELSE \/ a5' = [phase |-> "claim", deep |-> a5.deep, model |-> TRUE, batch |-> <<>>]
          \/ a5' = NoRun
  /\ UNCHANGED <<nightNo, lane, theses, digests, answered, expired, deaths>>

InBatch(item) == \E i \in DOMAIN a5.batch : a5.batch[i].item = item

(* fail: a message comes back until its attempts are used up. *)
Failed(attempts) == IF attempts < MaxAttempts THEN "failed" ELSE "dead"

(* A second revision of an item of the batch is failed, and comes back later. *)
Claim(m) ==
  /\ a5.phase = "claim" /\ Len(a5.batch) < TopK /\ signal[m] = "ready"
  /\ tries' = [tries EXCEPT ![m] = @ + 1]
  /\ IF InBatch(m.item)
     THEN signal' = [signal EXCEPT ![m] = Failed(tries[m] + 1)] /\ UNCHANGED a5
     ELSE signal' = [signal EXCEPT ![m] = "claimed"] /\ a5' = [a5 EXCEPT !.batch = Append(@, m)]
  /\ UNCHANGED <<nightNo, waited, theses, digests, answered, expired, deaths>>

(* What the model is asked about: the batch, and on a deep night the rest. *)
Items == ToSet(a5.batch) \union (IF a5.deep THEN {x \in Wide : ~InBatch(x.item)} ELSE {})

Asked ==
  /\ a5.phase = "claim"
  /\ Len(a5.batch) = TopK \/ \A m \in ThesisLane : signal[m] # "ready"

Consulted == Items # {} \/ (a5.deep /\ Active # {})

(* No valid answer after the retries: the batch goes back to the lane. *)
Reject ==
  /\ Asked /\ Consulted
  /\ signal' = [m \in ThesisLane |-> IF m \in ToSet(a5.batch) THEN Failed(tries[m]) ELSE signal[m]]
  /\ a5' = NoRun
  /\ UNCHANGED <<nightNo, tries, waited, theses, digests, answered, expired, deaths>>

(* resolve_ops: an item anchors a thesis, is evidence for a standing one, or *)
(* is ignored, which is also what an unknown thesis or no answer becomes.    *)
Update ==
  /\ Asked /\ (Consulted => a5.model)
  /\ \E ops \in [Items -> {"anchor", "ignore"} \union Active], t \in Active \union {"none"}, r \in ReviewLists :
       /\ Cardinality({x \in Items : ops[x] = "anchor"}) <= Cardinality({n \in ToSet(NewIds) : standing[n] = "none"})
       /\ a5' = [phase |-> "apply", ops |-> ops, batch |-> ToSet(a5.batch), toAck |-> {},
                 reviews |-> IF t = "none" \/ ~Consulted THEN <<>>
                             ELSE [i \in DOMAIN r |-> [thesis |-> t, op |-> r[i]]]]
  /\ UNCHANGED <<nightNo, lane, theses, digests, answered, expired, deaths>>

Remaining == DOMAIN a5.ops
Without(x) == [y \in Remaining \ {x} |-> a5.ops[y]]

Applied(x) == a5' = [a5 EXCEPT !.ops = Without(x), !.toAck = {x} \intersect a5.batch]

NextId == NewIds[CHOOSE i \in DOMAIN NewIds :
                   standing[NewIds[i]] = "none" /\ \A j \in 1 .. (i - 1) : standing[NewIds[j]] # "none"]

(* Decision, thesis and anchor evidence are one transaction. *)
CreateThesis(x) ==
  /\ a5.phase = "apply" /\ a5.toAck = {} /\ x \in Remaining /\ a5.ops[x] = "anchor"
  /\ standing' = [standing EXCEPT ![NextId] = "ACTIVE"]
  /\ AddEvidence(NextId, x)
  /\ answered' = answered \union {x}
  /\ Applied(x)
  /\ UNCHANGED <<nightNo, lane, ended, digests, expired, deaths>>

(* Decision and evidence are one; a wide item that is ignored leaves no row. *)
ApplyItem(x) ==
  /\ a5.phase = "apply" /\ a5.toAck = {} /\ \A y \in Remaining : a5.ops[y] # "anchor"
  /\ x \in Remaining
  /\ IF a5.ops[x] = "ignore" THEN UNCHANGED <<evidence, counted, quiet>> ELSE AddEvidence(a5.ops[x], x)
  /\ answered' = IF a5.ops[x] = "ignore" /\ x \notin a5.batch THEN answered ELSE answered \union {x}
  /\ Applied(x)
  /\ UNCHANGED <<nightNo, lane, standing, ended, digests, expired, deaths>>

Acknowledge ==
  /\ a5.phase = "apply" /\ a5.toAck # {}
  /\ signal' = [m \in ThesisLane |-> IF m \in a5.toAck THEN "done" ELSE signal[m]]
  /\ a5' = [a5 EXCEPT !.toAck = {}]
  /\ UNCHANGED <<nightNo, tries, waited, theses, digests, answered, expired, deaths>>

Settled == a5.phase = "apply" /\ a5.toAck = {} /\ Remaining = {}

(* "keep" sets a confidence; the other two end the thesis. *)
Review ==
  /\ Settled /\ a5.reviews # <<>>
  /\ a5' = [a5 EXCEPT !.reviews = Tail(@)]
  /\ LET r == Head(a5.reviews)
     IN  IF r.op = "keep" THEN UNCHANGED <<standing, ended>>
         ELSE SetStatus(r.thesis, IF r.op = "invalidate" THEN "INVALIDATED" ELSE "REALIZED")
  /\ UNCHANGED <<nightNo, lane, quiet, evidence, counted, digests, answered, expired, deaths>>

Digest ==
  /\ Settled /\ a5.reviews = <<>>
  /\ digests' = digests \union {nightNo}
  /\ a5' = NoRun
  /\ UNCHANGED <<nightNo, lane, theses, answered, expired, deaths>>

(* The run dies, or a statement of it raises: what it claimed stays claimed. *)
Die ==
  /\ a5 # NoRun /\ deaths < MaxDeaths
  /\ deaths' = deaths + 1
  /\ a5' = NoRun
  /\ UNCHANGED <<nightNo, lane, theses, digests, answered, expired>>

(* Around it. *)
Arrive(m) ==
  /\ signal[m] = "none"
  /\ signal' = [signal EXCEPT ![m] = "ready"]
  /\ UNCHANGED <<nightNo, tries, waited, theses, digests, a5, answered, expired, deaths>>

NextNight ==
  /\ a5 = NoRun /\ nightNo < Nights
  /\ nightNo' = nightNo + 1
  /\ signal' = [m \in ThesisLane |-> IF signal[m] = "failed" THEN "ready" ELSE signal[m]]
  /\ waited' = [m \in ThesisLane |-> IF m \in Open THEN waited[m] + 1 ELSE waited[m]]
  /\ quiet' = [t \in ThesisIds |-> IF t \in Active THEN quiet[t] + 1 ELSE quiet[t]]
  /\ UNCHANGED <<tries, standing, evidence, counted, ended, digests, a5, answered, expired, deaths>>

ThemesNext ==
  \/ Start \/ Slot \/ Reject \/ Update \/ Acknowledge \/ Review \/ Digest \/ Die \/ NextNight
  \/ \E t \in ThesisIds : ExpireStale(t)
  \/ \E m \in ThesisLane : Claim(m) \/ Arrive(m)
  \/ \E x \in ThesisLane \union Wide : CreateThesis(x) \/ ApplyItem(x)

ThemesSpec == ThemesInit /\ [][ThemesNext]_themeVars

(***************************************************************************)
(* Properties.                                                             *)
(***************************************************************************)

(* An item counts once for a thesis, though it comes by the lane, by the wide *)
(* pass of another night and again after a run that died; and a thesis ends   *)
(* once, whatever the reviews of one answer and the staleness rule say of it. *)
EvidenceCountedOnce ==
  \A t \in ThesisIds :
    /\ counted[t] = Cardinality({e \in evidence : e.thesis = t})
    /\ Cardinality(ended[t]) <= 1 /\ (ended[t] # {} => standing[t] \in ended[t])

(* A message leaves the lane with a decision about its item, or with the     *)
(* bulk expiry, over rejected answers, second revisions and died runs.       *)
DoneWasAnswered == \A m \in ThesisLane : signal[m] = "done" => m \in answered \union expired

(* "items released back to the lane" (service.py:474): a message is claimed *)
(* only while a run is going on.                                            *)
ReleasedToTheLane == a5 = NoRun => \A m \in ThesisLane : signal[m] # "claimed"
=============================================================================
