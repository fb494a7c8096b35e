# Formal models of the news pipeline

TLA+ models of the news trading pipeline, the TLC runs that check them on small
instances and the TLAPS proofs that carry the main results to every size. Paths
such as `c4_exec/service.py` are relative to the Python sources (`src/src/` as
this project names them); `schema/`, `ops/`, `config/` and `dashboard/` are at the
root of the repository.

Contents: [the system](#1-the-system) · [hard behaviours](#2-what-is-hard-here) ·
[modules](#3-modules-and-how-they-correspond-to-the-code) ·
[runs](#4-runs-bounds-and-fairness) · [proofs](#5-proofs) ·
[disagreements found](#6-where-code-and-documentation-disagree) ·
[not modelled](#7-not-modelled) · [plan](#8-plan)

## 1. The system

Some twenty processes, each an asyncio program under systemd, share one
PostgreSQL database with three schemas: `news` (items, clusters, quarantine,
gaps), `queue` (messages) and `journal` (intents, orders, positions, control
flags, health, audit, outbox). They interact in four ways only: messages through
`queue.messages`, rows of the journal read by somebody else, flags in
`journal.control`, and the broker's view of orders and positions.

The trading path is

    C1 ingest -> C2 dedup -> A1 triage/router -> A2 analyst -> C3 gate -> A3 sizing -> C4 execution -> broker
                                   \-> A12 guard (news on an open position) -> exit_policy -> C4 exit engine

with C10 (scanner) and C11 (thesis entries) feeding C3 and A3 from the side, and
A4, A5, A6 working in nightly batches on the same queues.

| Component | State it keeps | Operations | Properties that make it correct |
|---|---|---|---|
| Queue (`common/queue.py`, `schema/news-store-schema.sql`) and the consumer loop of every service | rows with dedup key, claim, availability, attempts; dead letters | enqueue, claim_next, ack, fail, defer, reap_stale | one handler per message; a settled message is never handed out again; dead letters only after `max_attempts` failures; at-least-once delivery |
| C1 ingestion | validators, failure counts, health rows, gaps, items and revisions | poll a feed, store + enqueue in one transaction, open and close gaps | what a feed shows is stored; a silence is booked once; a revision is delivered once |
| C2 dedup | clusters, vectors | find the story, add, index, drop or forward | no story disappears as a duplicate of itself |
| A1 triage + router, A2 analyst | decisions, theses, related signals | suppress, judge, route; defer, analyse, fan out | one analysis per story; fan-out stops after one hop |
| A4 pre-market review | batch claims, sheet, late budget | expire, sift, rank, hand over, give back | the late budget lasts to the open; every night signal is disposed of |
| C3 gate | verdicts, shadow and counterfactual rows | put off, look again, judge, measure | the last look lands in the window; every thesis comes to an end; every veto is measured |
| A3 sizing | intents | gates, caps, size | what is sized fits the caps together with what it saw open; C4 buys within the capital; A3's trades a day |
| C4 entry (`c4_exec/service.py`) | intents.status, ENTRY orders, positions, their catastrophe stop | handle_intent: dedup check, pre-flight, submit, await, book, open, protect | one broker order per intent; no silent unprotected position; outcomes are final |
| C4 reconciliation (`c4_exec/reconcile.py`) | positions | close, snap quantity, adopt | the books follow the broker, whatever was lost |
| C4 exits (`c4_exec/mechanics.py`) | exit orders, the link to the stop | cancel stop, sell, poll, book, put the stop back | never sells twice; protected between two passes; each fill booked once |
| C4 exit engine (`c4_exec/engine.py`, `exits.py`, `service.py: engine_loop`) | exit_policy of each position, monitors and marks in memory | the passes of a minute, stop moves, scale-out, promotion, arms | stops tighten; one scale-out; no arm is lost; scalps are flat at night |
| C4 controls (`c4_exec/deadman.py`, `breaker.py`, `flags.py`) | control flags, audit | dead-man ladder, drawdown breaker and its automatic reset, kill switch | the ladder follows the heartbeats; an operator's flag is not unwound; a trip holds for its day |
| Broker adapters (`common/broker.py`) | orders and positions at Alpaca, or in FakeBroker | submit, get, cancel, positions | a client order id opens one order |
| A12 guard | guard verdicts, ledger, exit_policy.guard_exit | judge an item against every open position | one verdict per position and item; an arm is what was ruled |
| A5 thematic store | theses, evidence, digest | expire, claim, ask, create, add evidence, review | an item counts once for a thesis, a thesis ends once |
| C11 thesis entry | the anchor row of the evening, intents, exit_policy | manage, plan, anchor | one entry per ticker; a dead thesis is left at the next open |
| C10 scanner | journal rows of candidates, memory of the day | survey, filter, rank, emit | caps on messages hold over failures and restarts |
| C5 mailer, C7 watchdog | outbox, alert fingerprints | send, alert, re-alert, recover | a queued mail is settled; what is critical is told |
| A6–A9, A11, A13, C8, C12, evening digest, dashboard views | reports, metrics, research rows | read and render | - |

What is hard about it: everything is `async` and reads before an `await` what it
writes after it; services and the operator write the same rows; every broker call
can time out after it took effect; a process may die between any two transactions;
and the broker changes the truth by itself (fills, stops, expiries) meanwhile.

## 2. What is hard here

`PROJECT.json` lists the hazards at the line where they bite. In groups:

* **The queue under failure.** A lost reply to `ack` makes the loop call `fail`
  on a settled row; `defer` refunds what `claim` took; a dead consumer keeps its
  claim.
* **Entry against retry and crash.** Submission may take effect and raise; after
  `SUBMITTED` every retry is a no-op, so the handler never opens the row of an
  order that filled; only reconciliation brings it into the books.
* **Two tasks on one row.** Reconciliation compares a broker snapshot with a
  later local read and writes later still, while the entry task opens rows and
  the engine reduces them.
* **Cancel against fill.** A stop or an exit order may fill while it is being
  cancelled; the answer decides who books which shares and whether a stop is put
  back.
* **Flags.** Read in one transaction and written in another, with an operator at
  the same flags; the breaker's date and 30-day window arithmetic.
* **Whole-document writes.** Engine, promotion and thesis management write the
  `exit_policy` they read some awaits ago; A12 merges one key into it.
* **A loop with memory.** Passes that are due at fixed times in a session whose end
  is not fixed, marks that a restart forgets, one exception that ends a minute.
* **Books read before a model call.** A3's caps count open rows, C10's caps rows of
  emissions, C11's room open lots; what is in flight is in none of
  them. And the book A3 reads has other writers that ask for none of A3's caps: C11
  puts entries straight to C4, reconciliation adopts what it finds.
* **Stories.** Membership, vector and message of an item are written one after the
  other; a revision may overtake the one it corrects, a follower its founder.
* **Putting off.** The gate gives a message back again and again without using its
  attempts, and must come to an end inside its window.
* **Batches.** A4 and A5 claim a night's messages before they look at the first.
* **Alerts.** Alert, fingerprint and time are separate statements; a mail is sent
  before it is marked, and an attempt that raises may have delivered it.

## 3. Modules and how they correspond to the code

### QueueContract and MessageQueue

`QueueContract` is the promise: a key is sent, may be delivered any number of
times while open, and leaves only after a delivery, settled or dead-lettered.

`MessageQueue` is one queue and the loop that every consumer runs. The row's
columns are functions on the dedup key (`claimedBy`, `attempts`) or sets of keys
(`done`, `hidden` for `available_ts > now()`, `quarantine`). `Enqueue` is the
INSERT ... ON CONFLICT DO NOTHING, `Claim`, `Ack`, `Fail` are the SQL functions,
`Defer` is `queue.defer`, `HandlerReturns/Raises/Defers` the three ways out of a
handler, `AckRaises` an ack whose call raises with or without having committed,
`Crash` the death of a consumer anywhere in its loop. A restarted consumer has a
new claim name (it contains the pid), so its claims of before are nobody's.

`AtLeastOnce` says that `MessageQueue` implements `QueueContract`, with a key
*delivered* once it is claimed or has a failure or a deferral behind it.

### EntryFlow

One ticker seen by the two tasks of C4 that write its books. `pc` walks through
`handle_intent`, one place per await: `Check` (`_already_processed`),
`Preflight`, `Submit` (accepted; accepted and raised; refused), `CreateOrder`,
`MarkSubmitted`, `Poll`, `Timeout` + `Reread` (`_await_terminal`), `Transition`,
`CloseUnfilled` or `RecordFill`, `OpenPosition` (one transaction), `PlaceStop`,
`LinkStop`, `Ack`. `Raise` is an exception at any call, `Fail` the queue's answer
to it, `Reap` an operator who gives the claim of a dead consumer back with
`reap_stale`. `FetchBroker`, `ReadLocal`, `Commit` are a reconciliation pass with
its two readings and its transaction. The broker fills, expires, triggers the
stop; somebody closes the position by hand; `Crash` kills both tasks, and the
restarted process reconciles before it consumes (`booted`), as `main` does.

### ExitMechanics

One position seen by the engine task and by reconciliation. `execute_exit` is
walked the same way: `Lookup`, `CancelStop`, `ConfirmStop` (or `ConfirmRaises`,
the blind branch), `BookStop`, `SubmitExit`, `PollFilled` + `BookExit` or
`Expire` + `Final`, and `PlaceStop` + `LinkStop`. The engine's copy of the row
(`pos`) is taken at the start of the pass and used to the end, as in the code.
Why the engine exits is left open: any pass may sell any part of the position.

The code accepts some situations it cannot put right. The model records them in
`anomalies`, and each property names what it makes allowance for:

| anomaly | meaning |
|---|---|
| `interrupted` | a call raised or the process died after the stop was cancelled |
| `blind` | the reading after a refused cancel raised, and the stop had filled |
| `partial` | the exit was cancelled partly filled; what was sold is not booked |
| `raced` | a scale-out filled between last poll and cancel; no stop is put back |
| `overlap` | reconciliation wrote on readings the engine or the broker had overtaken |

Outside them the sequence is right under every interleaving; `GoneIsClosed`
holds with all of them, because reconciliation repairs.

### Controls

The monitor part of an engine pass, one step per transaction: `ReadHeartbeats`,
`ReadBlock`, `SetBlock` + `OwnBlock` or `ClearBlock` + `DisownBlock`,
`SuspendExits` (`deadman.check`), then `ReadHistory` + `ApplyReset`
(`maybe_auto_reset`) and `JudgePnl` + `Trip` (`check_breaker`). `Abort` ends a
pass anywhere. The operator raises and lowers `block_entries`, throws and resets
the kill switch, lowers the breaker; the consumer task passes the pre-flight
(`entries_blocked`) and later submits. Heartbeats are the rung of the ladder they
call for; a day's P&L is "a loss at the threshold or not"; dates are numbers.

### ExitRules, ExitPolicy and EngineLoop

`ExitRules` is `common/direction.py` and `exits.py` as operators: `Evaluate` maps a
policy, a bar and a cause to the actions of one bar, in the code's order. Prices are
integers and the thresholds of the profile distances.

`ExitPolicy` is one position of any lane and side and everybody who writes its
policy. The engine works on `pos`, its copy, through `ReadPosition`, `Step`, one
`Apply...` per action and `UpdatePolicy`; `Promote`, `OpenExit` and `GuardExit` are
the passes before it; `Verdict` is A12's merge, `ReadThesis` + `ArmThesisExit` C11's
read and late write. `Interrupt` is an exception anywhere in a pass.

`EngineLoop` is the loop around it for several positions and dates: `Passes` in
their order, which of them is contained by the per-position `try` (`Handled`), the
times at which a pass is due, what is in memory only (`monitors`, the two done marks)
and lost in `Restart`. A time is the rank of a moment of the day; a day is full,
half or without a session.

### Sizing and RiskCaps

`Sizing` is the chain of `a3_risk/sizing.py`: `HardGate`, the first of the `Gates` that
`Vetoes`, then `Quantity` as the least of the `Clips`, then `Viable`. Percentages are
the amounts they come to at an effective capital, `min(broker_equity, trading_capital)`.
`RiskCaps` is A3's handler around it: `Read` takes controls and books, `Decide`
writes the intent after the model call, `Settle` is C4 filling (in part), refusing
or cancelling an entry with its own pre-flight of the whole book, `Ratchet` and `Close`
go on meanwhile, and `Revalue` moves the effective capital.

The book has three writers. `PlanEntry` is C11, whose entries go straight to C4: they
are sized by C11's own budget and stop at neither heat nor `MAX_TRADES`, but count in
both once they are there. `Found` is reconciliation, which snaps a quantity to the
broker's and adopts a position without a record. So no bound on the heat of the whole
book is true of the code, nor one on the day's intents of all services. What A3
guarantees, and `HeatExceededOnlyByUnseen` states, is a relation between an entry of A3
and what its sizing could see: `shown` is what was open at the reading for the message in
hand, `seen` the same for each entry, and both forget a position when it is closed or when
reconciliation changes it. `TradesCapped` is about A3's own entries; C4's pre-flight holds
for everybody's (`DeployedWithinCapital`), at the moment of a fill.

### Scanner

A scan is `Begin` (controls, counts of the journal), `Survey`, `Rank`, and for every
survivor `Ask` + `Emit` or `Withhold`. `journaled` is the set in memory, `rows` the
EMITTED rows, `sent` the messages. `Chosen` is the choice of an emission, shared by
`Emit` and `Fault`, which drops the transaction of a row after its key was
remembered; `Restart` empties memory; others buy and sell.

### Intake and Overnight

`Intake` follows an item from `StoreItem` through C2 (`Look`, `AddMember`, `Index`,
`Drop` or `Forward`, each a write of its own) to A1 (`Suppress` or `Triage` and its
transaction of decision and routes). A failed message comes back behind those that
arrived meanwhile. `Alike` says how near two texts are.

`Overnight` is the night: `Escalate` and `TriageSynthetic` put signals on
`signal.overnight`, `StartSheet`/`Sift`/`Rank`/`Dispose` are A4's sheet,
`StartLate`/`PlanForwarding`/`Forward`/`DeferRest` the late passes, `RunDies` the end
of either at any point, `Thesis` A2's transaction that may spawn related signals.

### GateRules and Gate

`GateRules` holds the rules of the three evaluators and the arithmetic of waiting
(`DeferDelay`, `RecheckDelay`, `AbandonRecheck`); `FirstFailing` is a rule list as a
sequence of condition and reason. `Gate` is the handler around them: `Await`,
`PutOffFirst`, `Recheck`, `Refuse` or `LetPass`, `Measure`, `Ack`, each its own
transaction, with `Fault` and `Crash` between them, and the counterfactual `Sweep`
on the journal. As the code stands no news thesis gets past the names that are not
bound (see 6); `NamesBound` decides whether they are, so that the rest is checkable.

### Feeds

One source: `Fetch` and the five ways a poll can end (`NotModified`, `Unparseable`,
`WrongContent`, `Unreachable`, an exception while entries are stored), the failure
counts behind health rows, and the gap monitor (`CheckGap`) with its memory.

### Guard, ThesisPlan, Themes

`Guard` walks A12's handler position by position: staleness, `SlotReady` or
`SlotDown`, `Known`, then `Rule`, `Invalid` or `TransportError` for each position;
two messages about one item may both be there. `ThesisPlan` is an evening of C11:
`Manage` writes back the policies it read, `ReadStore` + `Plan` writes intents one
by one, `Anchor` marks the evening; `Execute`, `Sell` and `EndSession` are C4 on the
next day. `Themes` is a night of A5: `Claim`, `Update`, `CreateThesis`, `ApplyItem`,
`Acknowledge`, `Review`, `Digest`, one transaction each, with `Die` between any two.

### Alerts

`Look` compares the findings of a watchdog pass with the last fingerprint and lists
the statements it will write (`Writes`); `Write` does one at a time and
`WatchdogDies` may come in between. `MailPass` reads the QUEUED rows, `SendSucceeds`
and `MarkSent` are separate. `SendFails` may have delivered a copy (`late`): the transport
can raise after the server took the mail, and the row is queued again.

### MCServices and MCBackground

These two put small instances of modules that share no state into one run: a
behaviour chooses a `part` at the start and stays in it. `MCServices` (no fairness)
holds RiskCaps, Sizing over every small input, Scanner, Guard, ThesisPlan, Themes
and Overnight; `MCBackground` (with the fairness of the loops) MessageQueue, Feeds
and Alerts. A part can be run alone by shortening `Parts` in the cfg.

### Modelling assumptions

* Broker: a cancel that returns is final (the code reads once after it and
  relies on that; FakeBroker does so too). `new`, `pending` and `rejected` are
  folded into live orders and refusals. EntryFlow and ExitMechanics are long side.
* A status update and the fill or exit row the code writes in the next statement
  without an intervening broker call are one action where nothing else can tell
  them apart (`RecordFill`, `BookExit`, `BookStop`).
* `qty_open` has no CHECK in the schema: the models let it go negative where the
  code would.
* `reap_stale` is only an operator's act, because no code calls it.
* The dashboard writes `kill_switch` and settings only; `block_entries` and
  `drawdown_breaker` are changed by SQL.
* A model's answer, a feed's answer, a quote, a bar and a clock are choices from a
  small set of values that the code tells apart.
* RiskCaps: a new configuration version gives an intent a new id but has the same limits,
  and the operator's `max_trades_per_day` does not change; the effective capital does.
* A failed message is handed out again after those that were ready; a service that
  dies leaves its claims where they are.

## 4. Runs, bounds and fairness

| run | module, cfg | what it shows | instance | distinct states |
|---|---|---|---|---|
| `entry` | MCEntryFlow, Entry.cfg | idempotency, finality, protection, the books follow the broker | 1 intent of 2 shares, 2 attempts, 2 crashes, 1 outside close, 3 adoptions | 464 k |
| `exit` | ExitMechanics, Exit.cfg | no double sale, protection at rest, repair | 3 shares, 2 passes, 2 faults | 407 k |
| `controls` | Controls, Controls.cfg | ladder, ownership, kill switch, breaker | 2 trips per window of 3 dates, 4 dates, 1 operator command, 1 aborted pass | 393 k |
| `policy` | ExitPolicy, Policy.cfg | one scale-out per fault, stops, arms | both sides, each lane, prices 0 to 5, 2 verdicts or deaths, 1 fault, 1 refused exit | 169 k |
| `engine` | MCEngineLoop, Engine.cfg | scalps at night, monitors before the close | 2 positions, 2 dates (full or without a session), 1 fault, 1 restart, 1 outside event, symmetry in positions | 4.2 M |
| `intake` | MCIntake, Intake.cfg | no story vanishes, one analysis while its verdict holds but for the founder's, everything stored is judged | 2 items of one story, 2 revisions or a reprint, 2 attempts, 1 fault, 2 times | 351 k |
| `gate` | MCGate, Gate.cfg | the last look, termination, measurement | 1 thesis of 6 kinds, 5 markets, with and without corroboration, window of 4, 2 attempts, 2 faults | 300 k |
| `services` | MCServices, Services.cfg | RiskCaps, Sizing, Scanner, Guard, ThesisPlan, Themes, Overnight (ten properties) | see below | 1.2 M |
| `background` | MCBackground, Background.cfg | MessageQueue, Feeds, Alerts (eight properties, the refinement among them) | see below | 138 k |
| `queue_crash` | MCMessageQueue, QueueCrash.cfg | a crashed consumer's message is never settled (violation) | 1 crash | - |
| `exit_protect` | ExitMechanics, ExitProtect.cfg | a raced scale-out is left unprotected (violation) | 2 shares, 1 pass, no fault | - |
| `gate_names` | MCGate, GateNames.cfg | a news thesis raises until it is dead (violation) | as `gate`, `NamesBound = FALSE` | - |

**Bounds.** Two of everything that can race, three of everything that counts, one
fault more than the recovery needs:

* *Entry, exits, controls.* One intent of two shares has every partial fill; two
  crashes let the second fall into the recovery of the first; three adoption ids
  outlast the adoptions one outside close and two crashes permit. Three shares let
  two passes each sell a part. Three dates in the window of four put trips on both
  edges.
* *Policy.* Six prices with entry 2 (the R unit is 1) lie below the stop, at it, at
  entry, at breakeven, at the target and beyond the trail, on either side of the
  entry, so that every threshold of a profile is crossed in both directions. Two
  pieces of news let the guard arm while the thesis dies.
* *Engine.* Two positions are the fewest for one to be skipped because another
  raised. One fault, one restart and one outside event fall on any two passes of a day
  and on the seam to a second date.
* *Intake.* Two items, because suppression, duplication and corroboration all
  relate two; two revisions, because a revision relates to one predecessor; two
  attempts let a message come back behind another. The long window contains both times
  while a discard wears off between them, so that both answers of the suppression
  are given.
* *Gate.* A window of four with margin one and step two has a first look, rechecks
  that double, and a last look; two faults kill a message or let one fault fall on
  the redelivery after the other.
* *Services.* RiskCaps: a scalp and a live news short of one sector, beside an
  entry of C11 and a position found at the broker, one for each horizon; two effective
  capitals, at the smaller of which every limit is half, rounded down; every cap within two sizings of
  its limit. Sizing: every combination of small inputs (26
  thousand cases, each an initial state). Scanner: 2 names, 2 days of 3 times, caps of
  1 per hour and day, 1 restart or fault. Guard: two messages, two positions, 2 deliveries. ThesisPlan: two
  theses with one beneficiary, 4 dates of which 2 are sessions, 1 crash. Themes: 2
  revisions of one item on the lane and 1 by the wide pass, 2 nights, 1 death. Overnight: a news
  signal and two related names, 2 late passes, 1 death.
* *Background.* Queue: two messages of different priority, two consumers, three
  attempts, one deferral, two crashes - a failure, a deferral and a lost reply may fall
  on one message and still leave an attempt. Feeds: one source, two entries, two
  mishaps. Alerts: a unit that is well, failed without a heartbeat, or
  not enabled; three passes, two confirmations, two attempts, one death.

**Fairness**, and why the code justifies it. Queue: a consumer's loop goes on (it
polls every five seconds without any NOTIFY, handlers are bounded by timeouts) and
`available_ts` is reached; producers, outcomes and crashes are free. EntryFlow and
ExitMechanics: only reconciliation is fair (at boot and every
`reconcile_interval_min`); handler, engine, broker and operator may stop anywhere,
and the liveness properties still hold. Controls: the engine loop goes on, once a
minute. ExitPolicy: a pass that began goes on, weakly; a session lasts hours and
the loop runs every minute, so that passes in sessions happen again and again, which
is *strong* fairness because night disables them (`SessionPass`, `Tick`); C11's late
write is an await that returns. Gate: the loop and the sweep run, time passes,
sessions close or rows grow stale. Intake: C2's and A1's loops run; C1 owes nothing.
Feeds: a poll ends and the next begins. Alerts: the mailer's loop runs; the watchdog
owes nothing. EngineLoop and everything in `services` are checked for safety only.

All configurations turn the deadlock check off: the systems come to rest when the
bounded supply of messages, crashes, faults or dates is used up.

**The liveness properties in words.** `SettledUnlessStranded`: every message is done
in the end unless the consumer holding it died. `BooksFollowBroker`: again and
again, and so in the end if the world stops changing, there is an open row exactly
when the broker holds a position. `GoneIsClosed`: a position gone for good is
closed for good. `LadderFollowsHeartbeats`: a lasting outage ends with entries
blocked and exits suspended as `deadman.yaml` says, a lasting recovery undoes it.
`GuardArmIsSold`: an arm of A12 is executed, however many orders fail, unless a
whole-policy write has overwritten it. `EveryThesisSettles`: deferrals that cost no
attempt still come to an end. `EveryVetoMeasured`: rows that never find bars do not
keep the others from being measured. `StoredIsJudged`: what C1 stores is judged,
dropped as a duplicate, or dead. `ShownIsStored`: what a feed goes on showing is
stored or quarantined, or belongs to an answer whose storing raised.
`EveryMailSettles`: a queued mail is sent or given up, and each copy is accounted for by an
attempt that is written down or a pass that died; one copy is not promised, because an
attempt that raised after the server took the mail is made again.

Every property of a passing run is paired in `PROJECT.json` with a plausible bug
(the definitions commented "A mutant" in the modules) that makes TLC refute it.

**More to check.** The modules state further properties that hold in the same
instances and are left out of the standing runs to keep these short; add the name
to the cfg to check it. All of them were checked so, and those in the first group are
proved as well (section 5): `TypeOK` of MessageQueue, EntryFlow, ExitMechanics, Controls,
ExitPolicy and EngineLoop, `SingleHandler`, `DoneWasHandled` (queue),
`OpensWhatWasFilled` (entry), `BooksAgreeAtRest`, `StopBookedOnce` (exit),
`AutoResetsBounded` (controls), `PromotedOnce` (policy), `DecidedTwiceADay`,
`SteppedOncePerDate` (engine), `JudgedOncePerFault` (gate), `DeployedWithinCapital`,
`TradesCapped`, `OneRowPerMessage`, `CooloffHolds`, `DoneWasAnswered` (services). The others: `TypeOK` of Gate and RiskCaps, and
`DeadThesisIsSold` (policy).

## 5. Proofs

Each component with theorems has a module `..._proofs` that extends it. Two of these
modules serve several: `Services_proofs` all parts of `MCServices`, and `Delivery_proofs`
what carries something from one process to another, that is queue, feeds and
alerts (the parts of `MCBackground`) and intake. TLAPS proves, for all values of the constants that satisfy the named
assumptions:

| assumption | what it says, and why |
|---|---|
| `QueueAssumption`, `EntryAssumption`, `ControlsAssumption`, `EngineAssumption` | limits are naturals, `max_attempts`, window, trips and dates at least 1; null values lie outside the sets they stand beside; orders are for at least a share |
| `ExitAssumption` | the position opens with at least a share |
| `PolicyAssumption`, `RulesAssumption` | prices are integers, the thresholds of a profile and the R unit are not negative |
| `GateAssumption` | window, margin, step, bars, attempts are positive, `MaxTime > Window`: the cap on instants lies beyond the window |
| `SizingAssumption`, `RiskCapsAssumption` | budgets, caps and numbers are naturals; signals, C11's plans, strays and versions are finitely many, version 1 among them; each has a side, a horizon, a positive price and a stop distance, a positive one if C11 plans it |
| `IntakeAssumption`, `BackgroundAssumption` | the number of revisions, the long window and the time to a repeat are naturals |
| `ServicesAssumption` | items, signals and tickers are finitely many, a related name is no news item, `NewIds` is a sequence; caps, limits and the cool-off are naturals; `MaxAge > 0`: nothing expires in the night it arrives; `LateMax >= Slots`: the late budget has one signal for each pass (`config/a4.yaml`: 24, and 15 passes fit into a night) |

| theorem | statement | inductive invariant |
|---|---|---|
| `QueueInvariant`, `QueueTypeCorrect` | `Spec => []QueueInv`, `[]TypeOK` | `QueueInv` |
| `QueueSingleHandler` | `[]SingleHandler` | |
| `QueueOutcomes` | `[](DeadLetterEarned /\ DoneWasHandled)` | |
| `QueueDoneIsFinal` | `DoneIsFinal` (action property) | |
| `QueueImplementsContract` | `Spec => AtLeastOnce` (refinement) | and `UnsentUntouched` |
| `EntryTypeCorrect` | `[]TypeOK` | `FlowInv`, `EntryTypes` |
| `EntryOneOrder` | `[]OneEntryOrder` | `FlowInv` |
| `EntryOutcomeIsFinal` | `OutcomeIsFinal` (action property) | |
| `EntryNeverSilentlyNaked` | `[]NeverSilentlyNaked` | itself, with the types |
| `EntryOpensWhatWasFilled` | `OpensWhatWasFilled` (action property) | `ReadIsFinal` |
| `ExitTypes` | `[]TypeOK` | `TypeInv` |
| `ExitNotOversold`, `ExitProtectedAtRest`, `ExitBooksAgree` | `[]NotOversold`, `[]ProtectedAtRest`, `[]BooksAgreeAtRest` | `ExitInv` |
| `ExitStopBookedOnce` | `[]StopBookedOnce` | `OnceInv` |
| `ControlsTypeCorrect` | `[]TypeOK` | `ControlsInv` |
| `ControlsCleanBlockStays`, `ControlsAtMostOneSlips` | `[]CleanBlockStays`, `[]AtMostOneSlips` | |
| `ControlsTripHolds` | `TripHoldsForTheDay` (action property) | and `ResetIsEarned` |
| `ControlsAutoResetsBounded` | `[]AutoResetsBounded` | and `ResetInv` |
| `PolicyTypeCorrect` | `[]TypeOK` | `TypeInv` |
| `PolicyScaledOncePerFault`, `PolicyPromotedOnce` | `[]ScaledOncePerFault`, `[]PromotedOnce` | `PolicyInv` |
| `PolicyLoosenedOnlyByInvalidation` | `LoosenedOnlyByInvalidation` (action property) | |
| `EngineTypeCorrect` | `[]TypeOK` | `TypeInv` |
| `EngineScalpsFlat`, `EngineMonitoredSold` | `[]ScalpsFlatOnFullDays`, `[]MonitoredSoldBeforeClose` | `EngineInv` |
| `EngineDecidedTwice`, `EngineSteppedOnce` | `[]DecidedTwiceADay`, `[]SteppedOncePerDate` | `DecisionsInv`, `DatesInv` |
| `GateNoMisleadingWindow`, `GateJudgedOncePerFault` | `[]NoMisleadingWindow`, `[]JudgedOncePerFault` | `GateInv` |
| `GateDeadByFaultsOrUnjudged` | dead by `MaxAttempts` faults, or an unjudged news thesis of unbound names | and `Unjudged` |
| `ServicesJudgedOnce` (A12) | `[]JudgedOnce` | `GuardInv` |
| `ServicesOneEntryPerTicker` (C11) | `[]OneEntryPerTicker` | `PlanInv` |
| `ServicesDeadThesisIsLeft` (C11) | `DeadThesisIsLeft` (action property) | `DeadInv` |
| `ServicesEvidenceCountedOnce` (A5) | `[]EvidenceCountedOnce` | `ThemesInv` |
| `ServicesDoneWasAnswered` (A5) | `[]DoneWasAnswered` | and `AnswersFirst` |
| `ServicesBudgetLasts`, `ServicesSympathyStops`, `ServicesNightWorkedOff` (A4, A2) | `[]BudgetLastsToTheOpen`, `[]SympathyStopsAfterOneHop`, `[]NightIsWorkedOff` | `NightInv` |
| `ServicesSentWithinCaps` (C10) | `[]SentWithinCaps` | `CapsInv` |
| `ServicesOneRowPerMessage`, `ServicesCooloffHolds` (C10) | `[]OneRowPerMessage`, `CooloffHolds` (action property) | and `ListInv` |
| `ServicesHeatExceededOnlyByUnseen` (A3) | `[]HeatExceededOnlyByUnseen` | `HeatInv` |
| `ServicesDeployedWithinCapital`, `ServicesTradesCapped` (A3, C4) | `DeployedWithinCapital` (action property), `[]TradesCapped` | `BookTypes`, `TradesInv` |
| `ChainFillsTheCaps` (A3) | what the chain sizes breaks no limit, one share more breaks one: for all naturals | - |
| `ServicesSizedToTheCaps` (A3) | `[]SizedToTheCaps`, the same for the run's cases | |
| `IntakeInvariant` | `IntakeSpec => []IntakeInv` | `IntakeInv` |
| `IntakeLosesNothing`, `IntakeItemsStayTogether` | `[](StoredIsTracked /\ SentIsTracked)`, `[]ItemsCluster` | |
| `IntakeNoStoryVanishes`, `IntakeOnlyFounderIsAnalysedAgain` | `[]NoStoryVanishes`, `[]OnlyFounderIsAnalysedAgain` | |
| `BackgroundGapsAreBookedOnce` (C1) | `[]GapsAreBookedOnce` | `GapInv` |
| `BackgroundCriticalIsTold` (C7) | `[]CriticalIsTold` | `AlertInv` |

Invariants that are not obvious were first checked by TLC on the instance of the
run their component has. The arguments:

**Queue.** `SingleHandler` alone is not inductive: nothing in it stops a claim of
a message somebody works on. `HolderOwns` ties the message in hand to the row's
claim; with it two holders would be one. `fail()` does not look at `done_ts`, so
the proof needs `OpenWhileWorking`: only a consumer that is about to report a
failure can hold a settled row. Dead letters need `AttemptsAreFailures`: in every
row that is not dead-lettered, attempts = failures + (1 if claimed), which deferral
keeps by its refund and a crash keeps because the claim stays.

**Entry.** `OpenedOnce` (the broker knows the client order id exactly when one
order was opened) is inductive with `InHand` and gives `OneEntryOrder`;
`StatusAtPlace` (what the journal says of the intent at each place of the
handler) shows that each status write overwrites PENDING or SUBMITTED only. The
types need `Attempts` (a message that waits has an attempt left): otherwise the
counter could leave its range. For `NeverSilentlyNaked`, `OpenedBy` shows that only
the opening transaction makes a row of an intent open, which leaves the handler at
`stop`, and each way on from there links, alarms or is cut off. `ReadIsFinal`: from
the last reading on, the order is over and the handler's copy is the broker's.

**Exits.** Outside the anomalies `Sound` holds: *one seller* (nothing is live but
the stop in force, or the exit order being polled), *books* (an open row has
shares and no booked stop, a closed one is gone), *copies* (the pass's are
the row's) and `AtPlace`, the equation between broker and books at each place of
`execute_exit`. The three properties are this equation read at rest. `StopBookedOnce`
allows for every anomaly but an overlap, so that no equation holds: `Once` keeps
the inequality `held + Due <= row.qty`, where `Due` is what was sold and is not
booked. Booking a stop closes the row because the linked stop is never for less
than the row shows.

**Controls.** `CleanIsUntouched`: a clean operator block is set, not owned by the
monitor, *and the monitor is not between its read and its write of the flag* -
the part without which the property fails. `FirstSlip`: with the kill switch on,
an intent past its pre-flight is the first. `ResetIsEarned`: a reset in the
monitor's hands belongs to a date without a trip, since trips and resets are
written by the same task and a date change finds it with nothing decided.
`AutoResetsBounded` compares resets with a limit on *trips*. What links them is
`ResetsPaid`: in every window that ends today there are at most as many resets as trips, or
one more while the breaker is down after a reset that no trip has followed yet; and a reset
is decided only while the trips are below the limit. Windows that ended earlier gain nothing
any more.

**Policy.** `CopiesFresh` is the reason that writing back a whole policy is harmless
for stop, `scaled` and `promoted`: the engine's copy and C11's agree with the
row in these, because C11 holds one at night only, when the engine is idle, and A12
merges its arm without touching them. (They need not agree in the arm of A12; that is the
divergence of `PolicyArm` in section 6.) `PlanOK` says what is left of a bar's actions:
a scale-out comes first and only if there was none, a ratchet is still
tighter than the stop it meets. `Paid` counts scale-outs against faults, with the
flag not yet written as the one in between. The lemmas about `ExitRules` say
what `Evaluate` may return, for every bar and profile.

**Engine.** Passes run in sessions only (`InTime`). `FlatInv` and `PrecloseInv` follow
one minute through its passes: what is left of the pass at work, what it has
marked unsold, and that after the minute every scalp is in one of the two. The
pre-close pass relies on the step before it: every position beyond its
level has been seen, so that none is armed anew behind its back. What is marked in
memory is counted against its marks: `DecisionsInv` says how many decisions `overnight_done`
stands for, with one ahead of it for a position the running pass is done with, one more for
each raise and two for each restart, which forgets both marks; that the mark a running
pass is going to make is still to be made is the part that makes it inductive. `DatesInv`
is the same for the session bar, with `InTime` to exclude passes after the close.

**Gate.** `BackInTime`: a message whose veto was put off has had its completed minutes,
so that a first-look deferral can no longer move it, and is due a margin before
the window ends. A refusal for the window needs an age beyond it (`EvaluateIs`, a lemma
about the rules for every reading of the market), so such a message came late.
`JudgedLast`: only a failure brings a judged message back. Verdicts are counted against
faults plus the attempt in hand (`VerdictsPaid`), attempts likewise (`AttemptsPaid`);
the latter where nothing raises by itself, that is for a scanner or extended-hours thesis,
and for news if the names are bound (see 6). For the code as it is, `Unjudged` follows a
news thesis to where it ends: nothing of it is journaled or sent on.
`GateDeadByFaultsOrUnjudged` puts the two together and assumes nothing about the names.

**Services.** A step of the composition is a step of one part or leaves its
variables alone; the lemmas `...Alone` lift the invariant of a part to
`ServicesSpec`.

* *A12* (`GuardInv`): a handler that asks the model about a position found no verdict of
  it, and only one handler is at work.
* *C11* (`PlanInv`): the set of names an evening treats as taken covers what is pending
  or held, because positions and intents change by day and plans are made in
  the evening. `DeadInv`: what a run has read of theses is
  old only about those that died that same day, and each dead holding
  is still on its list or armed; an arm that was read is never gone when the
  copy is written back.
* *A5* (`ThemesInv`): counters are cardinalities of evidence rows, an ended thesis keeps
  its one status. It needs `RoomForAnchors`: there is an unused identifier
  for every anchor still to be applied, or a thesis could begin again. `AnswersFirst`: what
  is about to be acknowledged has its decision already.
* *A4, A2* (`NightInv`): `Reserve`, what the budget has left once the pass at
  work has forwarded its share, is at least the number of passes to come. `Lineage`
  follows a related name through desk, night queue and hand: everything traced there
  was derived from news, and the parent of a related name is no related name.
  `Claimed` and `NoneTooOld` do the same for claims and ages.
* *C10* (`CapsInv`): the counts a scan began with, plus what it emitted, cover the rows
  of the day and of every hour that could still be rolling, as an hour only loses rows
  while a scan goes on. A name that is remembered without a row is in
  `unwritten`, which the property names. `ListInv`: what a scan has yet to judge has no row,
  is on its list once, and is rested but for a loss of this very day, as no day passes
  during a scan; that covers the loss that comes between look and judgment.
* *A3* (`HeatInv`): `SeenIsOpen`, what an entry or the hand has seen is open;
  `ReadCovers`, the sums that were read for the message in hand cover what is left of the
  book they were read from; `SizedFit`, the property for pending entries of A3 as well as
  open ones. From the reading to the model's answer, fills and closes only take away from
  what was seen, and what C11, reconciliation or C4 add is not seen, or is forgotten
  because it changed; so the chain's room, computed on the reading, is room beside what is
  left of it (`FitAdmits`), and later steps only shrink the set (`FitShrinks`). Everything is
  measured at the capital the entry was sized at, which the entry keeps while `Revalue`
  goes on. A sum of naturals is modelled as the number of its units, so that the
  library's theorems on finite sets say how sums grow and shrink. For the capital, C4's
  pre-flight adds up the whole book (`FillDeploys`), and no other step fills (`NotFilled`).
  `TradesInv`: while a signal is in hand the day has room for one more entry of A3,
  also when midnight has passed since the reading, as A3 has none in the new day.
* *Sizing* (`ChainFillsTheCaps`): each limit is turned into the room it leaves, a
  quotient rounded down, with the two halves of division as lemmas (as many shares as
  the room fit, one more does not); the size is the smallest room, and the limit
  it belongs to is the one that the next share breaks.

**Intake.** C2 makes three writes for a revision and may fail between any two, so the
invariant says where everything is. `StoredIsTracked`: a stored revision waits for
C2, is in its hand, a dead letter, dropped, or was sent; `SentIsTracked` the same
of A1. Nothing is lost, but that does not yet make a story heard: a revision may be
dropped as a duplicate of one that was dropped itself. `Led` excludes that: each cluster
has an item in it none of whose dropped revisions stands alone, each has a
predecessor in the cluster; the first of them was sent. `HandFits` carries this
through C2's writes: what it found when it looked still holds, as nobody else
writes clusters. The other theorem needs the journal's order only: an analysis
within the window of an earlier one means that A1 looked at a later verdict which had worn
off, or that the message was a founder's, which is not looked up.

**Feeds and alerts.** `GapInv`: the rows without an end are the one the process has
open and at most one for each process before. `AlertInv` follows C7's pass from
what it found to what it wrote (`Passing`) and says what the fingerprint
stands for (`Remembered`): the findings of the newest alert, or of a pass that died
between alert and fingerprint, which the repeat makes good when it is due.

**Only model-checked**, and why:

* *Liveness*, in all modules, and ENABLED: outside TLAPS. These are all properties of the
  passing runs that no theorem states: `SettledUnlessStranded`,
  `BooksFollowBroker`, `GoneIsClosed`, `LadderFollowsHeartbeats`, `GuardArmIsSold`,
  `EveryThesisSettles`, `EveryVetoMeasured`, `StoredIsJudged`, `ShownIsStored`,
  `EveryMailSettles`. (`Scanner` names the guard of `Emit`, `Chosen`, where `Fault` needs
  it, so that no ENABLED is in the way.)
* *Folds*: a fold is a recursive function, and the library's theorems that unfold one take
  an operator as a parameter. Sums that a proof needs are therefore modelled as numbers
  of units (RiskCaps) or rows (Controls); the fold that is left, `Shares` of EntryFlow, is
  used by a liveness property only.
* *Not attempted*: `TypeOK` of Gate and RiskCaps, of which the invariants `GateInv` and
  `HeatInv` hold the part that their proofs need.

## 6. Where code and documentation disagree

Three disagreements are standing runs:

1. **Nobody reaps** (`queue_crash`). `schema/news-store-schema.sql:245` has C7
   call `reap_stale` periodically, and `README.md:111` promises at-least-once
   everywhere; no process calls it. A message whose consumer dies stays claimed.
2. **A raced scale-out is left bare** (`exit_protect`). `c4_exec/mechanics.py:160`
   books an exit that filled between last poll and cancellation and returns; the
   stop for the remaining shares, step list lines 8-9, is not put back.
3. **Names that are not bound** (`gate_names`). `C3Service.handle` reads `lane`,
   `cclass` and `item_source` (`c3_gate/service.py:639` on), which only the handler of
   extended hours binds. Every news thesis old enough to be judged raises `NameError`
   until it is dead. `gate` therefore sets `NamesBound`, as the patch notes describe
   the handler, to check what lies behind.

The others can be reproduced with a configuration kept in this directory
(`tlc -config X.cfg Module`), each for one property that quotes the sentence:

| cfg, module | sentence | what the code does |
|---|---|---|
| EntryBooks, MCEntryFlow | "local qty snapped to broker" (`c4_exec/reconcile.py:11`) | a broker position the entry task is about to open a row for is adopted, or each of two rows is compared with the whole quantity: both carry all of it |
| ControlsManual, Controls | "never unwound by code" (`deadman.py`) | a block raised between the monitor's read and its writes becomes the monitor's and is cleared on recovery |
| ControlsRefusal, Controls | "until the operator clears" (`breaker.py:134`) | trips are counted afresh each pass: a refused reset is granted when the oldest leaves the window |
| PolicyArm, ExitPolicy | "on the next engine pass" (`guard_exit_pass`) | the engine or a promotion writes back the policy it read before A12 armed it; the arm is gone |
| PolicyTighten, ExitPolicy | "TIGHTEN-ONLY" (`exits.py`) | an invalidation's stop is measured against the stop of before the bar and applied after the bar's ratchet: it may loosen it |
| EngineHalf, MCEngineLoop | "HARD RULE: C4 market-exits" (`exit_profiles.yaml:26`) | the flattening begins at a fixed 15:45; on a half day the session is over, and scalps stay overnight |
| EngineSeen, MCEngineLoop | "one position's failure is logged and the pass continues" (`c4_exec/service.py:354`) | holds for the step; an exception in one of the passes before it ends the minute for all positions |
| EngineInvalid, MCEngineLoop | the provisional check before the close (`c4_exec/service.py:382`) | after a restart a monitor is armed beyond its level, counts as spent, and the position is not sold |
| EngineWeekend, MCEngineLoop | the session-close pass runs "once" | it runs on dates without a session too and steps the last session's bar again |
| Gate, MCGate, with `DriftIsMeasured` as INVARIANT | a vetoed bearish thesis becomes a would-be short (patch notes v0.24.0, section 1) | the shadow asks for its own lane, which `config/shorting.yaml` does not list (it lists `fade`): every would-be short is LONG_ONLY |
| IntakeHeld, MCIntake | "any revision touching a held ticker forwards regardless" (`c2_dedup/service.py:73`) | the duplicate check comes first: a revision that resembles another item of the story is dropped |
| Intake, MCIntake, with `AnalysisHolds` as INVARIANT | "ESCALATE priors keep the long window: an analyst already saw that story" (`suppression.py:71`) | only the newest verdict on the cluster is looked at: a discard after the analysis hides it, and when the discard has worn off the story is analysed again |
| IntakeTwice, MCIntake | "at most ONE analysis" (`suppression.py:8`) | a founder that failed is judged after its follower, and both are escalated |

and, with `Services.cfg` or `Background.cfg` reduced to one part (`Parts = {"..."}`) and the
property in place of the listed ones:

| part: property | sentence | what the code does |
|---|---|---|
| scanner: `NothingEmittedEarly` | "emit nothing" in the early window | `early` is passed only to the second look, that of a short's borrow (`c10_scanner/service.py:514`): a rising name is emitted in the window |
| risk: `HeatFromCurrentStops` | "open heat from CURRENT stops" | `a3_risk/service.py:121` reads the initial stop: a position at breakeven still takes up heat |
| risk: `ScannerConcurrency` (with `s2` among the signals) | "max_concurrent_positions" | open rows are counted (`a3_risk/service.py:140`), intents in flight are not |
| guard: `NeverSilentlyDropped` | "never silently dropped" (`a12_guard/service.py:180`) | an alert about one position stands in for the others when the message is handed out again and the server is down |
| night: `ForwardedIsSent` | "forwarded to the open" (`a4_premarket/late.py:245`) | the key is that of item and revision, which a related name shares with the news it came from: journaled, not sent |
| night: `SpawnedOnce` | one hop, one fan-out | a redelivered analysis writes a second thesis that fans out again |
| plan: `OpenWithinMax` (with `Theses <- MCTwoNames`, `MaxOpenPositions = 1`) | "total origin='thesis' positions" (`config/thesis_entry.yaml:35`) | pending intents are not in the count, so that two evenings before one session plan two |
| themes: `ReleasedToTheLane` | "items released back to the lane" (`a5_thematic/service.py:474`) | true of a rejected answer (it holds with `MaxDeaths = 0`); a run that dies keeps its batch claimed |
| feeds: `GapsClose`, `RecoveredMeansHeard` | a gap is closed on recovery | a restart forgets the open row; and a gap also "recovers" because the market closes and the threshold grows |
| feeds: `HealthyFeedIsStored` | every item exactly once | an entry whose storing raised is passed over while the validator of its answer is kept |
| alerts: `MailsInOrder` | "oldest-first" (`c5_mailer/service.py:78`) | a row whose sending failed waits, younger ones go out |

Seen while reading, without a model of its own: pending intents of a thesis that
died are not cancelled; a cool-off of one calendar day lets Friday's stop-out be
planned again at once; two sets of warnings that alternate never confirm each other;
an alert torn from its fingerprint silences its subject until the next repetition;
"on failure NOTHING is written" (`c3_gate/service.py:222`) but the handler sets the same
row to DEGRADED; `abandon_recheck` calls a look "provably pointless" although the price
may fall back; A2's pre-check waits up to an hour where the gate's window is thirty minutes;
a new story redelivered by C2 is no longer new, a duplicate redelivered is triaged.

## 7. Not modelled

* Prices, embeddings, model calls, prompts, feeds' syntax, and thresholds on market
  data: data from outside, a choice from a small set where a module meets them.
* A6, A7, A8, A9, A11, the evening digest and the read-only dashboard: they read and
  render; their state is an outbox row and a mark per day. A6's verdicts are inputs of
  ThesisPlan.
* A13 (questions and answers over read-only packs), C8, sectors and macro data
  (fetching and arithmetic), C12 (a research journal without orders).
* The Alpaca and EDGAR adapters of C1, parsing, HTTP. Their loops are those of Feeds.
* Of C4: the short side of entries (buying power, borrow), account flags.
* Of A1 the scanner lane, of C10 the catalyst shadow, of A4 and C7 mails, texts and
  health rows, of the queue the pruning of done rows (after seven days, far beyond any
  retry) and depth statistics.
* `config/thesis_entry.yaml` pauses C11's entries (`max_new_per_day: 0`); ThesisPlan
  models the lane as it runs when it is open.

## 8. Plan

| # | module | composes | abstract specification and properties | theorems | status |
|---|---|---|---|---|---|
| 1 | QueueContract, MessageQueue | - | at-least-once delivery | all safety, refinement | proved |
| 2 | EntryFlow | queue, C4 entry, reconciliation, broker | idempotent entry | types, one order, final outcome, never silently naked, what was filled | proved |
| 3 | Controls | C4 monitors, operator, consumer | ladder, ownership, breaker | types, clean block, kill switch, trip of the day, resets of a window | proved |
| 4 | ExitMechanics | engine, reconciliation, broker | protected and agreed at rest | types, not oversold, protected, books, one booking | proved |
| 5 | ExitRules, ExitPolicy | engine, A12, C11, promotion on one policy | stops, arms, one scale-out | types, one scale-out, one promotion, loosening | proved |
| 6 | EngineLoop | the passes of a day | scalps, monitors, marks in memory | types, all three | proved |
| 7 | Sizing, RiskCaps | A3 with C4's intents in flight | caps | the chain for all naturals, heat, capital, trades | proved |
| 8 | Intake, Overnight | C1, C2, A1, A2, A4 over their queues | no story vanishes, budget, one hop | nothing lost, no story vanishes, the founder's analysis; the three of Overnight | proved |
| 9 | GateRules, Gate | C3 with its sweep | last look, termination, measurement | last look, one verdict per fault, dead letters | proved |
| 10 | Scanner, Guard, ThesisPlan, Themes | C10, A12, C11, A5 with C4 around them | caps, cool-off, one verdict, one entry, one count | those of the standing run | proved |
| 11 | Feeds, Alerts | C1, C7, C5 | stored, told, mailed | gaps booked once, critical told | proved |

"Proved" speaks of the safety properties listed under theorems, which are all that the
passing runs check; liveness stays with TLC. What could come next: the refinement of the
contract of `QueueContract` by the queues of `Intake`, and the short side of entries.
