------------------------------- MODULE Scanner -------------------------------
(***************************************************************************)
(* The momentum scanner (c10_scanner/rules.py and service.py): a loop that *)
(* looks at the movers, filters and ranks them, and emits the best within  *)
(* caps per scan, per hour and per day.                                    *)
(*                                                                         *)
(* A scan reads the controls and the emissions of the day, then what is    *)
(* held, then the open scanner positions, and judges its survivors one by  *)
(* one; the operator, the positions and the database go on in between.     *)
(* What limits emissions is counted from EMITTED rows of the journal; a    *)
(* key in memory keeps a row from being written twice, and is set before   *)
(* the row is.  Rows of other kinds are read by nobody here and left out.  *)
(*                                                                         *)
(* A measurement is a record of truths: etf, cheap, illiquid, down, small, *)
(* taped, quiet, stale, wide, banded, reporting say which filter it meets, *)
(* weak, ssr and etb what the emission asks; news is "strong" while the     *)
(* news lane owns the name.  The shadow lanes, which only journal, are left *)
(* out.                                                                     *)
(***************************************************************************)
EXTENDS Integers, Sequences, FiniteSets, SequencesExt

CONSTANTS
  Tickers,
  Readings,        \* what a look at a mover can measure
  Losers,          \* include_losers
  ObserveAfterCap,
  MaxPerScan, MaxPerHour, MaxPerDay, MaxConcurrent, MaxLosses,
  Cooloff,         \* calendar days a losing name stays out
  EarlyUntil,      \* instants before this one are the early window
  MaxTime,         \* instants of a day's scan window
  HourLength,      \* instants in a rolling hour
  MaxDay, MaxFaults

VARIABLES
  day, time,
  stopped,         \* kill_switch is on, or scanner_enabled off
  rows,            \* EMITTED rows of the day: [ticker, time]
  sent,            \* names with a message on signal.analyst today
  held,            \* origin of the open position in each ticker, or "none"
  taken,           \* messages the rest of the pipeline has used
  lossOn,          \* day of the last losing scanner trade in each ticker, 0 for none
  losses,          \* losing scanner trades closed today
  journaled, static,   \* memory of the process, for the day
  scan,
  unwritten,       \* history: names of the day whose row was lost
  tooEarly,        \* history: something was emitted in the early window
  faults

memory == <<journaled, static>>
books  == <<held, taken, lossOn, losses>>
vars   == <<day, time, stopped, rows, sent, books, memory, scan, unwritten, tooEarly, faults>>

Idle == [phase |-> "idle"]

Init ==
  /\ day = 1 /\ time = 0
  /\ stopped = FALSE
  /\ rows = {} /\ sent = {}
  /\ held = [t \in Tickers |-> "none"]
  /\ taken = {} /\ losses = 0
  /\ lossOn = [t \in Tickers |-> 0]
  /\ journaled = {} /\ static = {}
  /\ scan = Idle
  /\ unwritten = {} /\ tooEarly = FALSE /\ faults = 0

(***************************************************************************)
(* Rules.                                                                  *)
(***************************************************************************)
InEarlyWindow == time < EarlyUntil

FirstReason(checks) ==
  IF \E i \in DOMAIN checks : checks[i][1]
  THEN checks[CHOOSE i \in DOMAIN checks : checks[i][1] /\ \A j \in 1..(i - 1) : ~checks[j][1]][2]
  ELSE "none"

(* A derivative shape and a low price are met before the measurement. *)
FilterCandidate(m) ==
  FirstReason(<< <<m.shape, "INSTRUMENT_SHAPE">>,
                 <<m.etf, "ETF_EXCLUDED">>,
                 <<m.cheap, "PRICE_FLOOR">>,
                 <<m.illiquid, "DOLLAR_VOLUME">>,
                 <<m.small \/ (m.down /\ ~Losers), "MOVE_PCT">>,
                 <<~m.taped, "NO_TAPE">>,
                 <<m.quiet, "REL_VOLUME">>,
                 <<m.stale, "MOVE_STALE_HOD">>,
                 <<m.wide, "SPREAD">>,
                 <<m.banded, "LULD_HEADROOM">>,
                 <<m.reporting, "EARNINGS_SOON">>,
                 <<m.news = "strong", "NEWS_OWNS_IT">> >>)

(* Rejects that will not change today. *)
StaticRejects == {"INSTRUMENT_SHAPE", "ETF_EXCLUDED", "PRICE_FLOOR", "DOLLAR_VOLUME", "EARNINGS_SOON"}

ScanMode(emitted) ==
  IF emitted < MaxPerDay THEN "EMIT" ELSE IF ObserveAfterCap THEN "OBSERVE" ELSE "IDLE"

(* emission_disposition: quality and borrow before the caps. *)
EmissionDisposition(m, emitted, today, lastHour, open, etb, early) ==
  FirstReason(<< <<m.weak, "SCORE_FLOOR">>,
                 <<m.down /\ m.ssr, "SSR_RESTRICTED">>,
                 <<m.down /\ ~etb, "SHORT_UNAVAILABLE">>,
                 <<early, "EARLY_WINDOW">>,
                 <<emitted >= MaxPerScan, "PER_SCAN">>,
                 <<today >= MaxPerDay, "PER_DAY">>,
                 <<lastHour >= MaxPerHour, "PER_HOUR">>,
                 <<open >= MaxConcurrent, "CONCURRENT">> >>)

(***************************************************************************)
(* One scan.                                                               *)
(***************************************************************************)
EmittedToday == {r.ticker : r \in rows}

EmittedLastHour == {r \in rows : r.time > time - HourLength}

OpenScanner == {t \in Tickers : held[t] = "scanner"}

Cooling == {t \in Tickers : lossOn[t] > 0 /\ lossOn[t] > day - Cooloff}

Begin ==
  /\ scan = Idle /\ time < MaxTime
  /\ ~stopped
  /\ losses < MaxLosses
  /\ ScanMode(Cardinality(EmittedToday)) # "IDLE"
  /\ scan' = [phase |-> "survey", early |-> InEarlyWindow, known |-> EmittedToday]
  /\ UNCHANGED <<day, time, stopped, rows, sent, books, memory, unwritten, tooEarly, faults>>

(* The movers that are not emitted, rejected for the day, held or cooling; *)
(* seen gives what is measured of those the screener lists.                *)
Survey ==
  /\ scan.phase = "survey"
  /\ \E listed \in SUBSET (Tickers \ (scan.known \union static)) :
     \E seen \in [listed \ ({t \in Tickers : held[t] # "none"} \union Cooling) -> Readings] :
       LET rejected(codes) == {t \in DOMAIN seen : FilterCandidate(seen[t]) \in codes}
       IN  /\ static' = static \union rejected(StaticRejects)
           /\ scan' = [phase |-> "rank", early |-> scan.early, known |-> scan.known,
                       left |-> [t \in rejected({"none"}) |-> seen[t]]]
  /\ UNCHANGED <<day, time, stopped, rows, sent, books, journaled, unwritten, tooEarly, faults>>

(* The survivors by score, the weak ones last. *)
Rank ==
  /\ scan.phase = "rank"
  /\ \E order \in SetToSeqs(DOMAIN scan.left) :
       /\ \A i, j \in DOMAIN order : i < j /\ scan.left[order[i]].weak => scan.left[order[j]].weak
       /\ scan' = [phase |-> "judge", early |-> scan.early, known |-> scan.known,
                   left |-> [i \in DOMAIN order |-> [ticker |-> order[i], seen |-> scan.left[order[i]]]], emitted |-> 0,
                   open |-> Cardinality(OpenScanner), lastHour |-> Cardinality(EmittedLastHour)]
  /\ UNCHANGED <<day, time, stopped, rows, sent, books, memory, unwritten, tooEarly, faults>>

(* A mutant: the counts are those the scan began with. *)
AskOfBefore(m, etb, early) ==
  EmissionDisposition(m, scan.emitted, Cardinality(scan.known), scan.lastHour, scan.open, etb, early)

Ask(m, etb, early) ==
  EmissionDisposition(m, scan.emitted, Cardinality(scan.known) + scan.emitted,
                      scan.lastHour + scan.emitted, scan.open, etb, early)

(* The borrow is looked up only for what would otherwise be emitted; the *)
(* early window is asked about in that second question alone.            *)
Disposition(m) ==
  IF Ask(m, TRUE, FALSE) = "none" /\ m.down THEN Ask(m, m.etb, scan.early) ELSE Ask(m, TRUE, FALSE)

Subject == Head(scan.left).ticker

Judged == [scan EXCEPT !.left = Tail(@)]

(* The row is written unless memory says that it has been. *)
Write(t) ==
  rows' = IF t \in journaled THEN rows
          ELSE rows \union {[ticker |-> t, time |-> time]}

Chosen ==
  /\ scan.phase = "judge" /\ scan.left # <<>>
  /\ Disposition(Head(scan.left).seen) = "none"

(* Item, message and row are one transaction; the message has one key for *)
(* its name and day.                                                      *)
Emit ==
  /\ Chosen
  /\ sent' = sent \union {Subject}
  /\ Write(Subject)
  /\ journaled' = journaled \union {Subject}
  /\ tooEarly' = (tooEarly \/ InEarlyWindow)
  /\ scan' = [Judged EXCEPT !.emitted = @ + 1]
  /\ UNCHANGED <<day, time, stopped, books, static, unwritten, faults>>

Withhold ==
  /\ scan.phase = "judge" /\ scan.left # <<>>
  /\ Disposition(Head(scan.left).seen) # "none"
  /\ scan' = Judged
  /\ UNCHANGED <<day, time, stopped, rows, sent, books, memory, unwritten, tooEarly, faults>>

Finish ==
  /\ scan.phase = "judge" /\ scan.left = <<>>
  /\ scan' = Idle
  /\ UNCHANGED <<day, time, stopped, rows, sent, books, memory, unwritten, tooEarly, faults>>

(* A read or a write raises; the loop goes on with the next scan.  When it  *)
(* is the transaction of an emission, the key of the row is set all the same.*)
Fault ==
  /\ scan # Idle /\ faults < MaxFaults
  /\ faults' = faults + 1
  /\ \/ UNCHANGED <<journaled, unwritten>>
     \/ /\ Chosen
        /\ journaled' = journaled \union {Subject}
        /\ unwritten' = unwritten \union ({Subject} \ journaled)
  /\ scan' = Idle
  /\ UNCHANGED <<day, time, stopped, rows, sent, books, static, tooEarly>>

Restart ==
  /\ faults < MaxFaults
  /\ faults' = faults + 1
  /\ scan' = Idle
  /\ journaled' = {} /\ static' = {}
  /\ UNCHANGED <<day, time, stopped, rows, sent, books, unwritten, tooEarly>>

(***************************************************************************)
(* Around the scanner.                                                     *)
(***************************************************************************)
World == <<rows, sent, memory, scan, unwritten, tooEarly, faults>>

Tick ==
  /\ time < MaxTime
  /\ time' = time + 1
  /\ UNCHANGED <<day, stopped, books, World>>

(* The first scan of a day empties the memory, and nobody asks for the rows *)
(* and messages of the day before.                                          *)
NewDay ==
  /\ time = MaxTime /\ scan = Idle /\ day < MaxDay
  /\ day' = day + 1 /\ time' = 0
  /\ losses' = 0
  /\ journaled' = {} /\ static' = {}
  /\ rows' = {} /\ sent' = {} /\ taken' = {} /\ unwritten' = {}
  /\ UNCHANGED <<stopped, held, lossOn, scan, tooEarly, faults>>

Operator ==
  /\ stopped' = ~stopped
  /\ UNCHANGED <<day, time, books, World>>

(* What was sent is bought or refused further down; another lane may hold *)
(* the name.                                                              *)
Settle(t) ==
  /\ t \in sent \ taken
  /\ taken' = taken \union {t}
  /\ \/ /\ held[t] = "none"
        /\ held' = [held EXCEPT ![t] = "scanner"]
     \/ UNCHANGED held
  /\ UNCHANGED <<day, time, stopped, lossOn, losses, World>>

OtherLane(t) ==
  /\ held' = [held EXCEPT ![t] = IF @ = "none" THEN "news" ELSE IF @ = "news" THEN "none" ELSE @]
  /\ held' # held
  /\ UNCHANGED <<day, time, stopped, taken, lossOn, losses, World>>

Close(t, lost) ==
  /\ held[t] = "scanner"
  /\ held' = [held EXCEPT ![t] = "none"]
  /\ losses' = losses + (IF lost THEN 1 ELSE 0)
  /\ lossOn' = [lossOn EXCEPT ![t] = IF lost THEN day ELSE @]
  /\ UNCHANGED <<day, time, stopped, taken, World>>

Next ==
  \/ Begin \/ Survey \/ Rank \/ Emit \/ Withhold \/ Finish \/ Fault \/ Restart
  \/ Tick \/ NewDay \/ Operator
  \/ \E t \in Tickers : Settle(t) \/ OtherLane(t) \/ \E lost \in BOOLEAN : Close(t, lost)

Spec == Init /\ [][Next]_vars

(***************************************************************************)
(* Properties.                                                             *)
(***************************************************************************)

(* The caps limit messages, not rows: what is on signal.analyst stays within *)
(* the cap of the day, and of any rolling hour, over failed scans and        *)
(* restarts, except for names whose row was lost.                            *)
SentWithinCaps ==
  /\ Cardinality(sent \ unwritten) <= MaxPerDay
  /\ \A end \in 0..MaxTime :
       Cardinality({r \in rows : r.time \in (end - HourLength + 1)..end}) <= MaxPerHour

(* A name is emitted once a day, whatever the process forgets, and every *)
(* message has its row unless the write of that row failed.              *)
OneRowPerMessage ==
  /\ \A r, s \in rows : r.ticker = s.ticker => r = s
  /\ sent \ unwritten = EmittedToday \ unwritten

(* A name that lost is not emitted on the following days of its cooling, *)
(* though the loss may come between the look at the holdings and the     *)
(* emission, and memory is lost every night.                             *)
CooloffHolds ==
  [][\A t \in sent' \ sent : lossOn[t] \in {0, day} \/ day - lossOn[t] >= Cooloff]_vars

(* In the early window the scanner journals and emits nothing (rules.py:384). *)
NothingEmittedEarly == ~tooEarly
=============================================================================
