-------------------------------- MODULE Gate --------------------------------
(***************************************************************************)
(* The confirmation gate (c3_gate/service.py): one consumer of signal.gate *)
(* that looks at a thesis until its verdict is final, journals it, and     *)
(* measures what it refused (c3_gate/counterfactual.py).                   *)
(*                                                                         *)
(* A message is put off while its window cannot hold enough minutes, put   *)
(* off again while a veto can still change, and judged once.  The journal  *)
(* write and the measurement are separate transactions, the consumer can   *)
(* die or an operation can raise between any two of them, and fail() hands *)
(* the message out again.  Time counts units of the confirmation window.   *)
(*                                                                         *)
(* The handler of news theses reads the names lane, cclass and item_source,*)
(* which only the handler of the extended hours binds (lines 520-522).     *)
(* NamesBound = FALSE is the code; TRUE binds them the way those lines do, *)
(* so that the rest of the handler can be checked at all.                  *)
(***************************************************************************)
EXTENDS GateRules, FiniteSets, FiniteSetsExt, TLC

CONSTANTS
  Msgs,         \* messages on signal.gate
  Items,        \* what a message can be about: [kind, th, inSession, arrives]
  Markets,      \* what a look at the market can find
  Stories,      \* what the cluster of the item can hold: sets of [item, outlet, tier]
  NamesBound,
  MaxAttempts,  \* column max_attempts of the queue
  SweepLimit,   \* rows one sweep takes
  MaxTime,      \* instants from here on are not told apart
  MaxFaults     \* faults that hit one message

ASSUME GateAssumption ==
  /\ IsFiniteSet(Msgs)
  /\ NamesBound \in BOOLEAN
  /\ {Window, Margin, Step, MinBars, FastBars, DeferCap, MaxAttempts, SweepLimit} \subseteq Nat \ {0}
  /\ {MaxTime, MaxFaults} \subseteq Nat
  /\ MaxTime > Window

VARIABLES
  about,        \* the item of each message; never changes
  now,          \* minutes since the news was published
  at,           \* where each message stands
  due,          \* column available_ts
  attempts,     \* column attempts
  judged,       \* in memory: the refusal in hand and the shorts it might have been
  rows,         \* GATE decisions of each message
  risk,         \* messages whose pass is on signal.risk
  cfs,          \* the incomplete journal.gate_counterfactuals, by veto_ts
  rechecked,    \* history: a veto of the message has been put off
  late,         \* history: the message came back later than it was put off to
  hits          \* history: the faults that hit each message

vars == <<about, now, at, due, attempts, judged, rows, risk, cfs, rechecked, late, hits>>

Places == {"queued", "claimed", "measuring", "acking", "done", "dead", "stranded"}

(* The age of a counterfactual row: its session is open, is over, or lies 48 *)
(* hours back (GIVE_UP_HOURS).  Whether there are bars for it to be filled   *)
(* from is the feed's affair.                                                *)
InOpenSession == 1
Closed   == 2
Stale    == 3

Row(rule, verdict) == [rule |-> rule, verdict |-> verdict]

Cap(time) == Smaller(time, MaxTime)

Init ==
  /\ about \in [Msgs -> Items]
  /\ now = 0
  /\ at = [m \in Msgs |-> "queued"]
  /\ due = [m \in Msgs |-> about[m].arrives]
  /\ attempts = [m \in Msgs |-> 0]
  /\ judged = <<>>
  /\ rows = [m \in Msgs |-> <<>>]
  /\ risk = {}
  /\ cfs = <<>>
  /\ rechecked = [m \in Msgs |-> FALSE]
  /\ late = [m \in Msgs |-> FALSE]
  /\ hits = [m \in Msgs |-> 0]

(* Nothing depends on the clock once every message is settled. *)
Settled == \A m \in Msgs : at[m] \in {"done", "dead", "stranded"}

Tick ==
  /\ now < MaxTime /\ ~Settled
  /\ now' = now + 1
  /\ UNCHANGED <<about, at, due, attempts, judged, rows, risk, cfs, rechecked, late, hits>>

(* claim(): the loop holds one message at a time. *)
Claim(m) ==
  /\ at[m] = "queued" /\ due[m] <= now
  /\ \A n \in Msgs : at[n] \notin {"claimed", "measuring", "acking"}
  /\ at' = [at EXCEPT ![m] = "claimed"]
  /\ attempts' = [attempts EXCEPT ![m] = @ + 1]
  /\ UNCHANGED <<about, now, due, judged, rows, risk, cfs, rechecked, late, hits>>

(* defer() gives the attempt back. *)
PutOff(m, delay) ==
  /\ at' = [at EXCEPT ![m] = "queued"]
  /\ due' = [due EXCEPT ![m] = Cap(now + delay)]
  /\ attempts' = [attempts EXCEPT ![m] = @ - 1]
  /\ UNCHANGED <<about, now, judged, rows, risk, cfs, late, hits>>

Journal(m, rule, verdict) ==
  rows' = [rows EXCEPT ![m] = Append(@, Row(rule, verdict))]

(* A pass and its message to A3 are one transaction with one dedup key. *)
LetPass(m, rule) ==
  /\ Journal(m, rule, Pass)
  /\ risk' = risk \union {m}
  /\ at' = [at EXCEPT ![m] = "acking"]
  /\ UNCHANGED <<about, now, due, attempts, judged, cfs, rechecked, late, hits>>

Refuse(m, rule, verdict, shadows) ==
  /\ Journal(m, rule, verdict)
  /\ judged' = << Row(rule, verdict) >> \o shadows
  /\ late' = [late EXCEPT ![m] = @ \/ now > due[m] + Margin]
  /\ at' = [at EXCEPT ![m] = "measuring"]
  /\ UNCHANGED <<about, now, due, attempts, risk, cfs, rechecked, hits>>

(* fail(): a linear backoff, and the dead letters after MaxAttempts. *)
Raise(m) ==
  /\ at' = [at EXCEPT ![m] = IF attempts[m] >= MaxAttempts THEN "dead" ELSE "queued"]
  /\ due' = [due EXCEPT ![m] = Cap(now + attempts[m])]
  /\ late' = [late EXCEPT ![m] = TRUE]
  /\ judged' = <<>>
  /\ UNCHANGED <<about, now, attempts, rows, risk, cfs, rechecked>>

(* The verdict of one look at a news thesis: what masks an extended move *)
(* is set aside, because waiting would not help.                         *)
NewsVerdict(m, s) ==
  LET th == about[m].th
      v  == LaneSourceFilter(Evaluate(th, LaneFor(th), s, now, about[m].inSession), th)
  IN  IF v # Pass /\ AbandonRecheck(s) THEN "GATE_EXTENDED" ELSE v

(* The shorts a refused news thesis might have been (_fade_shadow and *)
(* _drift_shadow), under the gate for shorts of their own lane.       *)
FadeRows(m, s, verdict) ==
  IF FadeCandidate(about[m].th, s, verdict)
  THEN LET v == FirstFailing(DirectionGate([about[m].th EXCEPT !.dir = "down"], "fade", s))
       IN  << Row("fade", IF v = Pass THEN "WOULD_TRADE" ELSE v) >>
  ELSE <<>>

DriftRows(m, s, verdict) ==
  IF DriftCandidate(about[m].th, s, verdict)
  THEN LET v == FirstFailing(DirectionGate(about[m].th, "drift_short", s))
       IN  << Row("drift_short", IF v = Pass THEN "WOULD_TRADE" ELSE v) >>
  ELSE <<>>

Shadows(m, s, verdict) == FadeRows(m, s, verdict) \o DriftRows(m, s, verdict)

PutOffFirst(m)  == about[m].inSession /\ DeferDelay(about[m].th, now) > 0
CanChange(m, v) == about[m].inSession /\ v \in Rechecked

Recheck(m, v) == PutOff(m, RecheckDelay(now))

JudgeNews(m, s) ==
  /\ about[m].kind = "news" /\ at[m] = "claimed"
  /\ ~PutOffFirst(m) /\ NamesBound
  /\ LET v       == NewsVerdict(m, s)
         another == CanChange(m, v) /\ RecheckDelay(now) > 0
     IN  \/ v = Pass /\ LetPass(m, "news")
         \/ v # Pass /\ ~another /\ Refuse(m, "news", v, Shadows(m, s, v))
         \/ /\ another
            /\ Recheck(m, v)
            /\ rechecked' = [rechecked EXCEPT ![m] = TRUE]

(* Too few completed minutes yet: come back when there can be enough. *)
Await(m) ==
  /\ about[m].kind = "news" /\ at[m] = "claimed"
  /\ PutOffFirst(m)
  /\ PutOff(m, DeferDelay(about[m].th, now))
  /\ UNCHANGED rechecked

(* The handler reaches the names nobody bound. *)
Unbound(m) ==
  /\ about[m].kind = "news" /\ at[m] = "claimed"
  /\ ~PutOffFirst(m) /\ ~NamesBound
  /\ Raise(m)
  /\ UNCHANGED hits

JudgeScanner(m, s) ==
  /\ about[m].kind = "scanner" /\ at[m] = "claimed"
  /\ LET v == EvaluateScanner(about[m].th, s)
     IN  IF v = Pass THEN LetPass(m, "scanner") ELSE Refuse(m, "scanner", v, <<>>)

(* Extended hours are judged and measured; nothing goes on to A3.  The lane *)
(* asked for a borrow is the one without the class of the headline: an      *)
(* offering is judged as any short.                                         *)
JudgeExtendedHours(m, s) ==
  /\ about[m].kind = "eh_shadow" /\ at[m] = "claimed"
  /\ LET th == about[m].th
         v  == EvaluateEH(th, LaneFor([th EXCEPT !.offering = FALSE]), s, now)
     IN  Refuse(m, "eh_shadow", IF v = Pass THEN "WOULD_TRADE" ELSE v, <<>>)

(* Each measurement is best effort: a row may fail to be written, and the *)
(* shadows are journaled with theirs.                                     *)
Measure(m) ==
  /\ at[m] = "measuring"
  /\ \E bars \in BOOLEAN :
     LET opened(kept) == [i \in DOMAIN kept |-> [age |-> InOpenSession, bars |-> bars]]
     IN  \/ /\ rows' = [rows EXCEPT ![m] = @ \o Tail(judged)]
            /\ cfs' = cfs \o opened(judged)
         \/ \E journaled, measured \in {<<>>, Tail(judged)} :
              /\ rows' = [rows EXCEPT ![m] = @ \o journaled]
              /\ cfs' = cfs \o opened(measured)
  /\ judged' = <<>>
  /\ at' = [at EXCEPT ![m] = "acking"]
  /\ UNCHANGED <<about, now, due, attempts, risk, rechecked, late, hits>>

Ack(m) ==
  /\ at[m] = "acking"
  /\ at' = [at EXCEPT ![m] = "done"]
  /\ UNCHANGED <<about, now, due, attempts, judged, rows, risk, cfs, rechecked, late, hits>>

(* A market-data call, the database or the ack raises. *)
Fault(m) ==
  /\ at[m] \in {"claimed", "acking"}
  /\ hits[m] < MaxFaults
  /\ hits' = [hits EXCEPT ![m] = @ + 1]
  /\ Raise(m)

(* The consumer dies with the message in hand; nothing hands it out again. *)
Crash(m) ==
  /\ at[m] \in {"claimed", "measuring", "acking"}
  /\ at' = [at EXCEPT ![m] = "stranded"]
  /\ judged' = <<>>
  /\ UNCHANGED <<about, now, due, attempts, rows, risk, cfs, rechecked, late, hits>>

(***************************************************************************)
(* The sweep of the counterfactuals.                                       *)
(***************************************************************************)
SessionCloses ==
  /\ \E i \in DOMAIN cfs : cfs[i].age = InOpenSession
  /\ cfs' = [i \in DOMAIN cfs |-> [cfs[i] EXCEPT !.age = Larger(@, Closed)]]
  /\ UNCHANGED <<about, now, at, due, attempts, judged, rows, risk, rechecked, late, hits>>

(* 48 hours after its veto; the oldest row first. *)
RowGoesStale ==
  /\ \E i \in DOMAIN cfs :
       /\ cfs[i].age = Closed
       /\ \A j \in 1..(i - 1) : cfs[j].age = Stale
       /\ cfs' = [cfs EXCEPT ![i].age = Stale]
  /\ UNCHANGED <<about, now, at, due, attempts, judged, rows, risk, rechecked, late, hits>>

(* A mutant: a row without bars is tried for ever. *)
UnfinishedWithoutBars(c) == c.age = InOpenSession \/ ~c.bars

(* A row past its close is filled from the bars, if there are any; only a *)
(* stale one is closed out without them.                                  *)
Unfinished(c) == c.age = InOpenSession \/ (c.age = Closed /\ ~c.bars)

(* A sweep looks at the oldest SweepLimit rows and at no others. *)
Swept == LET n == Smaller(SweepLimit, Len(cfs))
         IN  SelectSeq(SubSeq(cfs, 1, n), Unfinished) \o SubSeq(cfs, n + 1, Len(cfs))

Sweep ==
  /\ Swept # cfs
  /\ cfs' = Swept
  /\ UNCHANGED <<about, now, at, due, attempts, judged, rows, risk, rechecked, late, hits>>

(* The cluster of the item; an item without one speaks for itself. *)
Corroboration(story) ==
  IF story = {} THEN [outlets |-> 1, tier |-> 3, items |-> 1]
  ELSE [outlets |-> Cardinality({i.outlet : i \in story}),
        tier    |-> Min({i.tier : i \in story}),
        items   |-> Cardinality({i.item : i \in story})]

(* What one look finds, in the market and in the store, is not kept: every *)
(* look builds it anew.                                                    *)
BuildState == {market @@ Corroboration(story) : market \in Markets, story \in Stories}

Judge(m) == Await(m) \/ Unbound(m)
            \/ \E s \in BuildState : JudgeNews(m, s) \/ JudgeScanner(m, s) \/ JudgeExtendedHours(m, s)

Serve(m) == Claim(m) \/ (at[m] = "claimed" /\ Judge(m)) \/ Measure(m) \/ Ack(m)

Next ==
  \/ Tick \/ Sweep \/ SessionCloses \/ RowGoesStale
  \/ \E m \in Msgs : Serve(m) \/ Fault(m) \/ Crash(m)

(* Time passes, the loop claims and carries through what it has claimed,  *)
(* and the sweep runs every ten minutes whatever the messages do.         *)
Fairness ==
  /\ WF_vars(Tick)
  /\ \A m \in Msgs : WF_vars(Serve(m))
  /\ WF_vars(Sweep)
  /\ WF_vars(SessionCloses \/ RowGoesStale)

Spec     == Init /\ [][Next]_vars
FairSpec == Spec /\ Fairness

(***************************************************************************)
(* Properties.                                                             *)
(***************************************************************************)

TypeOK ==
  /\ about \in [Msgs -> Items]
  /\ now \in 0..MaxTime
  /\ at \in [Msgs -> Places]
  /\ due \in [Msgs -> 0..MaxTime]
  /\ attempts \in [Msgs -> 0..MaxAttempts]
  /\ risk \subseteq Msgs
  /\ {rechecked, late} \subseteq [Msgs -> BOOLEAN]
  /\ \A i \in DOMAIN cfs : cfs[i].age \in {InOpenSession, Closed, Stale}

Verdicts(m) == {i \in DOMAIN rows[m] : rows[m][i].rule = about[m].kind}

(* A thesis is judged once: the journal holds one verdict of it, and a      *)
(* further one, which may contradict it, only for each fault that made the  *)
(* queue hand the message out again after the journal had been written.     *)
JudgedOncePerFault == \A m \in Msgs : Cardinality(Verdicts(m)) <= 1 + hits[m]

(* The last look lands before the window ends: a thesis that was put off    *)
(* and came back on time is never refused for having missed the window,     *)
(* which would hide the reason it was really refused for (recheck_delay).   *)
NoMisleadingWindow ==
  \A m \in Msgs : \A i \in Verdicts(m) :
    rows[m][i].verdict = "GATE_WINDOW" => ~rechecked[m] \/ late[m]

(* Dead letters are for messages the gate failed on MaxAttempts times       *)
(* because something else failed; no thesis gets there by itself.           *)
DeadOnlyByFaults == \A m \in Msgs : at[m] = "dead" => hits[m] >= MaxAttempts

(* The shadow of a bearish refusal is a would-be trade whenever the name    *)
(* can be borrowed and is not restricted (patch-notes-v0_24_0, section 1).  *)
DriftIsMeasured ==
  \A m \in Msgs : \A i \in DOMAIN rows[m] :
    rows[m][i].rule = "drift_short" => rows[m][i].verdict # "LONG_ONLY"

(* Deferrals cost no attempt, and still every thesis comes to an end: it    *)
(* is judged, or lies in the dead letters, or its consumer died with it.    *)
EveryThesisSettles == <>Settled

(* Every veto that is recorded is measured or closed out in the end, even   *)
(* when rows that cannot be filled stand before it in the sweep's order.    *)
EveryVetoMeasured == <>[](cfs = <<>>)
=============================================================================
