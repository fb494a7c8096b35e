------------------------------- MODULE Intake -------------------------------
(***************************************************************************)
(* From the wire to a verdict: C1 stores what the feeds show and enqueues   *)
(* it (c1_ingestion/store.py), C2 puts it into a cluster of the story and   *)
(* drops duplicates (c2_dedup), A1 suppresses repeats, asks its model and   *)
(* routes (a1_triage, router/rules.py).                                     *)
(*                                                                          *)
(* Every step of C2 that is a write of its own is an action of its own; a   *)
(* step may fail, and the message comes back later than those that arrived  *)
(* meanwhile, until its attempts are used up.  A text is a word, Alike says *)
(* how near two words are: "duplicate" from 0.90 on, "related" from 0.80.   *)
(* The lanes of scanner signals and of synthetic signals are in Overnight.  *)
(***************************************************************************)
EXTENDS Integers, Sequences, FiniteSets, SequencesExt

CONSTANTS
  Items,
  Shows,           \* the words a feed shows for each item, in their order
  Alike(_, _),
  Outlet,          \* the source of each item
  Symbols,         \* the names each item is tagged with by its feed
  Archived,        \* items of forms that are kept and never enter the pipeline
  Immutable,       \* items of sources that are never revised
  Markets,         \* sessions a verdict may fall into: open, extended, closed
  Verdicts,        \* what the model answers: [valid, material, tickers, strong]
  HeldNames,       \* sets of names that may be held
  MaxRevision, MaxTries, MaxIntakeFaults, MaxTime,
  DiscardWindow, Window, VectorWindow,    \* in units of time
  Reescalate       \* outlets that make a story new again

ASSUME IntakeAssumption == MaxRevision \in Nat /\ Window \in Nat

VARIABLES
  time, held,
  shown,           \* news_items: what each item has shown, one per revision
  dedup,           \* signal.dedup, as [ready, late, tries, dead]
  member,          \* cluster of each revision, 0 for none
  vectors,         \* collection of vectors: [key, cluster, time]
  clusters,
  c2,
  triage,          \* signal.triage, as dedup, with the body of each message
  bodies,
  a1,
  decisions,       \* what A1 journals, oldest first
  sent,            \* messages to the queues further down: [queue, key, origin]
  dropped,         \* history: revisions C2 dropped
  faults

store == <<shown, member, vectors, clusters, dropped>>
intakeVars == <<time, held, store, dedup, c2, triage, bodies, a1, decisions, sent, faults>>

Revisions == Items \X (1..MaxRevision)

Idle == [phase |-> "idle"]

Empty == [ready |-> <<>>, late |-> {}, tries |-> [k \in Revisions |-> 0], dead |-> {}]

IntakeInit ==
  /\ time = 0 /\ held \in HeldNames
  /\ shown = [i \in Items |-> <<>>]
  /\ dedup = Empty /\ triage = Empty
  /\ bodies = [k \in {} |-> 0]
  /\ member = [k \in Revisions |-> 0] /\ vectors = {} /\ clusters = 0
  /\ c2 = Idle /\ a1 = Idle
  /\ decisions = <<>> /\ sent = {} /\ dropped = {} /\ faults = 0

(***************************************************************************)
(* Queues: a message that failed is due again behind those already there.  *)
(***************************************************************************)
Put(q, k) == [q EXCEPT !.ready = Append(@, k)]

Take(q) == [q EXCEPT !.ready = Tail(@)]

Return(q, k) == [q EXCEPT !.ready = Append(@, k), !.late = @ \ {k}]

FailLater(q, k) ==
  IF q.tries[k] + 1 >= MaxTries
  THEN [q EXCEPT !.tries[k] = @ + 1, !.dead = @ \union {k}]
  ELSE [q EXCEPT !.tries[k] = @ + 1, !.late = @ \union {k}]

(***************************************************************************)
(* C1: the feed shows an item; row and message are one transaction.        *)
(***************************************************************************)
Echo(i, n) == shown[i] # <<>> /\ (i \in Immutable \/ Last(shown[i]) = n)

(* A mutant: the message is enqueued after the row is committed, and a crash *)
(* in between loses it.                                                      *)
StoreItemThenEnqueue(i, n) ==
  /\ ~Echo(i, n) /\ Len(shown[i]) < MaxRevision
  /\ \A m \in ToSet(shown[i]) : m < n
  /\ shown' = [shown EXCEPT ![i] = Append(@, n)]
  /\ dedup' \in {dedup, Put(dedup, <<i, Len(shown[i]) + 1>>)}
  /\ UNCHANGED <<time, held, member, vectors, clusters, dropped, c2, triage, bodies, a1, decisions, sent, faults>>

StoreItem(i, n) ==
  /\ ~Echo(i, n) /\ Len(shown[i]) < MaxRevision
  /\ \A m \in ToSet(shown[i]) : m < n
  /\ shown' = [shown EXCEPT ![i] = Append(@, n)]
  /\ dedup' = IF i \in Archived THEN dedup ELSE Put(dedup, <<i, Len(shown[i]) + 1>>)
  /\ UNCHANGED <<time, held, member, vectors, clusters, dropped, c2, triage, bodies, a1, decisions, sent, faults>>

(***************************************************************************)
(* C2.                                                                     *)
(***************************************************************************)
Word(k) == Shows[k[1]][shown[k[1]][k[2]]]

MembersOf(i) == {k \in Revisions : k[1] = i /\ member[k] # 0}

Outlets(c) == Cardinality({Outlet[k[1]] : k \in {l \in Revisions : member[l] = c}})

(* The symbol gate: both are tagged and share no name. *)
TemplateMatch(i, j) == Symbols[i] # {} /\ Symbols[j] # {} /\ Symbols[i] \intersect Symbols[j] = {}

Near(k, degree) ==
  {v \in vectors : v.key[1] # k[1] /\ Alike(Word(k), Word(v.key)) = degree /\ ~TemplateMatch(k[1], v.key[1])}

Incoming == Head(dedup.ready)

Found(kind, cluster) == [phase |-> "join", key |-> Incoming, kind |-> kind, cluster |-> cluster]

Cosmetic(k) ==
  \E v \in vectors : v.key = <<k[1], k[2] - 1>> /\ Alike(Word(k), Word(v.key)) = "duplicate"

JoinOwnCluster ==
  /\ MembersOf(Incoming[1]) # {}
  /\ c2' = Found(IF Cosmetic(Incoming) THEN "cosmetic" ELSE "revision",
                 member[CHOOSE k \in MembersOf(Incoming[1]) : TRUE])
  /\ UNCHANGED clusters

JoinNeighbour(degree, kind) ==
  /\ \E v \in Near(Incoming, degree) : c2' = Found(kind, v.cluster)
  /\ UNCHANGED clusters

NewCluster ==
  /\ Near(Incoming, "duplicate") \union Near(Incoming, "related") = {}
  /\ clusters' = clusters + 1
  /\ c2' = Found("story", clusters + 1)

(* A mutant: an item is compared with all that is indexed before its own *)
(* cluster is looked up.                                                 *)
LookAtTextFirst ==
  /\ c2 = Idle /\ dedup.ready # <<>>
  /\ dedup' = Take(dedup)
  /\ IF \E v \in vectors : Alike(Word(Incoming), Word(v.key)) = "duplicate"
     THEN /\ \E v \in vectors : /\ Alike(Word(Incoming), Word(v.key)) = "duplicate"
                                /\ c2' = Found("duplicate", v.cluster)
          /\ UNCHANGED clusters
     ELSE JoinOwnCluster \/ (MembersOf(Incoming[1]) = {} /\ (JoinNeighbour("related", "related") \/ NewCluster))
  /\ UNCHANGED <<time, held, shown, member, vectors, dropped, triage, bodies, a1, decisions, sent, faults>>

(* Claim and process: the cluster of an earlier revision, else of the nearest *)
(* text.                                                                      *)
Look ==
  /\ c2 = Idle /\ dedup.ready # <<>>
  /\ dedup' = Take(dedup)
  /\ \/ JoinOwnCluster
     \/ /\ MembersOf(Incoming[1]) = {}
        /\ \/ JoinNeighbour("duplicate", "duplicate")
           \/ Near(Incoming, "duplicate") = {} /\ JoinNeighbour("related", "related")
           \/ NewCluster
  /\ UNCHANGED <<time, held, shown, member, vectors, dropped, triage, bodies, a1, decisions, sent, faults>>

AddMember ==
  /\ c2.phase = "join"
  /\ member' = [member EXCEPT ![c2.key] = IF @ = 0 THEN c2.cluster ELSE @]
  /\ c2' = [c2 EXCEPT !.phase = "index"]
  /\ UNCHANGED <<time, held, shown, vectors, clusters, dropped, dedup, triage, bodies, a1, decisions, sent, faults>>

Index ==
  /\ c2.phase = "index"
  /\ vectors' = {v \in vectors : v.key # c2.key} \union {[key |-> c2.key, cluster |-> c2.cluster, time |-> time]}
  /\ c2' = [c2 EXCEPT !.phase = "send"]
  /\ UNCHANGED <<time, held, shown, member, clusters, dropped, dedup, triage, bodies, a1, decisions, sent, faults>>

HeldSymbols(i) == Symbols[i] \intersect held # {}

Drops == c2.kind = "duplicate" \/ (c2.kind = "cosmetic" /\ ~HeldSymbols(c2.key[1]))

Drop ==
  /\ c2.phase = "send" /\ Drops
  /\ dropped' = dropped \union {c2.key}
  /\ c2' = Idle
  /\ UNCHANGED <<time, held, shown, member, vectors, clusters, dedup, triage, bodies, a1, decisions, sent, faults>>

Body == [cluster |-> c2.cluster, new |-> c2.kind = "story", outlets |-> Outlets(c2.cluster)]

Forward ==
  /\ c2.phase = "send" /\ ~Drops
  /\ IF c2.key \in DOMAIN bodies
     THEN UNCHANGED <<triage, bodies>>
     ELSE /\ triage' = Put(triage, c2.key)
          /\ bodies' = [k \in DOMAIN bodies \union {c2.key} |-> IF k = c2.key THEN Body ELSE bodies[k]]
  /\ c2' = [phase |-> "ack", key |-> c2.key]
  /\ UNCHANGED <<time, held, store, dedup, a1, decisions, sent, faults>>

AckDedup ==
  /\ c2.phase = "ack"
  /\ c2' = Idle
  /\ UNCHANGED <<time, held, store, dedup, triage, bodies, a1, decisions, sent, faults>>

C2Fault ==
  /\ c2 # Idle /\ faults < MaxIntakeFaults
  /\ faults' = faults + 1
  /\ dedup' = FailLater(dedup, c2.key)
  /\ c2' = Idle
  /\ UNCHANGED <<time, held, store, triage, bodies, a1, decisions, sent>>

DueDedup ==
  /\ \E k \in dedup.late : dedup' = Return(dedup, k)
  /\ UNCHANGED <<time, held, store, c2, triage, bodies, a1, decisions, sent, faults>>

PruneVectors ==
  /\ \E v \in vectors : v.time < time - VectorWindow
  /\ vectors' = {v \in vectors : v.time >= time - VectorWindow}
  /\ UNCHANGED <<time, held, shown, member, clusters, dropped, dedup, c2, triage, bodies, a1, decisions, sent, faults>>

(***************************************************************************)
(* A1: suppression, verdict, routes.                                       *)
(***************************************************************************)
Unjudged == a1 = Idle /\ triage.ready # <<>>

Subject == Head(triage.ready)

(* A mutant: a verdict counts for the item it was given on. *)
PriorsOfItem(c) ==
  {n \in DOMAIN decisions : /\ decisions[n].action \in {"ESCALATE", "DISCARD"}
                            /\ decisions[n].time > time - Window
                            /\ decisions[n].key[1] = Subject[1]}

(* find_prior_verdict: the last verdict on any item that is in the cluster. *)
Priors(c) ==
  {n \in DOMAIN decisions : /\ decisions[n].action \in {"ESCALATE", "DISCARD"}
                            /\ decisions[n].time > time - Window
                            /\ \E k \in MembersOf(decisions[n].key[1]) : member[k] = c}

Prior(c) == decisions[CHOOSE n \in Priors(c) : \A m \in Priors(c) : m <= n]

CorroborationBypass(now, before) == now >= Reescalate /\ Reescalate > before

DiscardCooldownExpired(d) == d.action = "DISCARD" /\ time - d.time > DiscardWindow

Repeat(k) ==
  /\ ~bodies[k].new
  /\ k[2] = 1
  /\ Priors(bodies[k].cluster) # {}
  /\ LET prior == Prior(bodies[k].cluster)
     IN  /\ ~DiscardCooldownExpired(prior)
         /\ ~CorroborationBypass(bodies[k].outlets, prior.outlets)
         /\ (Symbols[k[1]] \union prior.tickers) \intersect held = {}

(* route: the queues of a verdict, with the origin stamped on its copy. *)
Route(v, market) ==
  LET confident == v.material /\ v.sure
      named     == confident /\ v.tickers # {}
      to(cond, queue, origin) == IF cond THEN {<<queue, origin>>} ELSE {}
  IN  to(v.tickers \intersect held # {}, "guard", "none")
      \union to(confident /\ ~named, "thesis", "none")
      \union to(named /\ market = "open", "analyst", "none")
      \union to(named /\ market # "open", "overnight", "none")
      \union to(named /\ market = "extended", "analyst", "eh_shadow")
      \union to(named /\ v.strong, "thesis", "thesis_copy")

Decision(k, action, tickers) ==
  [key |-> k, action |-> action, tickers |-> tickers, outlets |-> bodies[k].outlets, time |-> time]

Judged ==
  /\ triage' = Take(triage)
  /\ a1' = [phase |-> "ack", key |-> Subject]

Suppress ==
  /\ Unjudged /\ Repeat(Subject)
  /\ decisions' = Append(decisions, Decision(Subject, "SUPPRESS", {}))
  /\ Judged
  /\ UNCHANGED <<time, held, store, dedup, c2, bodies, sent, faults>>

(* Decision and messages are one transaction. *)
Triage ==
  /\ Unjudged /\ ~Repeat(Subject)
  /\ \E v \in Verdicts, market \in Markets :
       IF v.valid
       THEN /\ decisions' = Append(decisions, Decision(Subject, IF v.material /\ v.sure THEN "ESCALATE" ELSE "DISCARD", v.tickers))
            /\ sent' = sent \union {[queue |-> r[1], key |-> Subject, origin |-> r[2]] : r \in Route(v, market)}
       ELSE /\ decisions' = Append(decisions, Decision(Subject, "REJECT", {}))
            /\ UNCHANGED sent
  /\ Judged
  /\ UNCHANGED <<time, held, store, dedup, c2, bodies, faults>>

AckTriage ==
  /\ a1.phase = "ack"
  /\ a1' = Idle
  /\ UNCHANGED <<time, held, store, dedup, c2, triage, bodies, decisions, sent, faults>>

A1Fault ==
  /\ faults < MaxIntakeFaults
  /\ faults' = faults + 1
  /\ \/ a1 # Idle /\ triage' = FailLater(triage, a1.key)
     \/ Unjudged /\ triage' = FailLater(Take(triage), Subject)
  /\ a1' = Idle
  /\ UNCHANGED <<time, held, store, dedup, c2, bodies, decisions, sent>>

DueTriage ==
  /\ \E k \in triage.late : triage' = Return(triage, k)
  /\ UNCHANGED <<time, held, store, dedup, c2, bodies, a1, decisions, sent, faults>>

(* Hours pass only while nothing is ready. *)
Tick ==
  /\ time < MaxTime
  /\ c2 = Idle /\ a1 = Idle /\ dedup.ready = <<>> /\ triage.ready = <<>>
  /\ time' = time + 1
  /\ UNCHANGED <<held, store, dedup, c2, triage, bodies, a1, decisions, sent, faults>>

C2Step == Look \/ AddMember \/ Index \/ Drop \/ Forward \/ AckDedup \/ DueDedup

A1Step == Suppress \/ Triage \/ AckTriage \/ DueTriage

IntakeNext ==
  \/ \E i \in Items : \E n \in DOMAIN Shows[i] : StoreItem(i, n)
  \/ C2Step \/ C2Fault \/ PruneVectors
  \/ A1Step \/ A1Fault
  \/ Tick

IntakeFairness == WF_intakeVars(C2Step) /\ WF_intakeVars(A1Step)

IntakeSpec == IntakeInit /\ [][IntakeNext]_intakeVars

FairIntake == IntakeSpec /\ IntakeFairness

(***************************************************************************)
(* Properties.                                                             *)
(***************************************************************************)
Stored(k) == k[1] \notin Archived /\ k[2] <= Len(shown[k[1]])

Decided(k) == \E n \in DOMAIN decisions : decisions[n].key = k

AtRest ==
  /\ c2 = Idle /\ a1 = Idle
  /\ dedup.ready = <<>> /\ dedup.late = {} /\ triage.ready = <<>> /\ triage.late = {}

(* A duplicate is dropped because the story is being looked at: when the   *)
(* queues are empty and no message has died, every revision that was       *)
(* stored is in a cluster some member of which has a verdict of A1, though *)
(* membership, vector and message are written one after the other and any  *)
(* of these writes may fail.                                               *)
NoStoryVanishes ==
  AtRest /\ dedup.dead \union triage.dead = {} =>
    \A k \in Revisions : Stored(k) =>
      /\ member[k] # 0
      /\ \E l \in Revisions : member[l] = member[k] /\ Decided(l)

(* What C1 stores for the pipeline is judged by A1, dropped by C2, or ends *)
(* in the dead letters: it never just stays.                               *)
StoredIsJudged ==
  \A k \in Revisions : Stored(k) ~> (Decided(k) \/ k \in dropped \union dedup.dead \union triage.dead)

(* "any revision touching a held ticker forwards regardless" (c2_dedup/   *)
(* service.py:73): no revision of a held name is dropped.                 *)
CorrectionsGetThrough == \A k \in dropped : k[2] > 1 => ~HeldSymbols(k[1])

(* Two unrevised items of one story, on no held name and not newly         *)
(* corroborated, are both analysed within the window.                      *)
AnalysedAgain(m, n) ==
  LET before == decisions[m]
      after  == decisions[n]
  IN  /\ m < n /\ before.key[2] = 1 /\ after.key[2] = 1 /\ member[before.key] = member[after.key]
      /\ before.action = "ESCALATE" /\ after.action = "ESCALATE" /\ after.time - before.time < Window
      /\ held = {} /\ ~CorroborationBypass(after.outlets, before.outlets)

Verdict(p, c) == decisions[p].action \in {"ESCALATE", "DISCARD"} /\ member[decisions[p].key] = c

(* The last verdict on the story before n has cooled off, or came before the *)
(* corroboration.                                                            *)
Reopened(n) ==
  \E p \in 1..(n - 1) :
    /\ Verdict(p, member[decisions[n].key])
    /\ \A q \in (p + 1)..(n - 1) : ~Verdict(q, member[decisions[n].key])
    /\ \/ decisions[p].action = "DISCARD" /\ decisions[n].time - decisions[p].time > DiscardWindow
       \/ CorroborationBypass(decisions[n].outlets, decisions[p].outlets)

(* A second analysis of a story whose last verdict still holds is that of    *)
(* the item that founded it, overtaken by a follower while it was failing;   *)
(* every other repeat, in whatever order messages come back, is suppressed.  *)
OnlyFounderIsAnalysedAgain ==
  \A m, n \in DOMAIN decisions : AnalysedAgain(m, n) /\ ~Reopened(n) => bodies[decisions[n].key].new

(* "ESCALATE priors keep the long window: an analyst already saw that story" *)
(* (suppression.py:71): a younger discard does not reopen it.                *)
AnalysisHolds ==
  \A m, n \in DOMAIN decisions : AnalysedAgain(m, n) => bodies[decisions[n].key].new

(* "one article and its revisions/re-syndications cost at most ONE analysis *)
(* unless materially new information arrives" (suppression.py:8).           *)
OneAnalysisPerStory ==
  \A m, n \in DOMAIN decisions : AnalysedAgain(m, n) => decisions[m].key = decisions[n].key
=============================================================================
