---------------------------- MODULE MCServices ----------------------------
(***************************************************************************)
(* Small instances of the services beside the pipeline, checked in one     *)
(* run.  They share no state at this level, so that a behaviour is one of  *)
(* a single part, chosen at the start: A3 with its caps (RiskCaps), its    *)
(* sizing chain on every small input (Sizing), C10 (Scanner), A12 (Guard), *)
(* C11 (ThesisPlan), A5 (Themes), and the night of A1, A4 and A2           *)
(* (Overnight).                                                            *)
(***************************************************************************)
EXTENDS RiskCaps, Sequences

CONSTANTS
  Parts,           \* the parts to check, by name
  Tickers, Readings, Losers, ObserveAfterCap, MaxPerScan, MaxPerHour, MaxPerDay, MaxConcurrent,
  MaxLosses, Cooloff, EarlyUntil, MaxTime, HourLength, MaxDay, MaxFaults,                \* Scanner
  Notices, Holdings, Answers, GuardRetries, MaxDeliveries, MaxCloses,                    \* Guard
  Theses, TradingDays, Days, MaxNewPerDay, MaxOpenPositions, MaxPerThesis,
  ReviewVerdicts, CooloffDays, MaxCrashes,                                               \* ThesisPlan
  ThesisLane, Wide, Seeds, NewIds, TopK, ReviewLists, MaxAttempts, MaxLaneAge, StaleNights,
  Nights, MaxDeaths,                                                                     \* Themes
  News, Synthetics, Slots, LateMax, PassMax, MaxAge, None                                \* Overnight

VARIABLES
  part,
  input, verdict, qty,
  scanDay, time, stopped, rows, sent, held, taken, lossOn, losses, journaled, static, scan,
  unwritten, tooEarly, faults,
  notice, deliveries, live, aged, slotUp, general, rulings, arms, review, named, unheard,
  today, evening, thesis, lot, policy, doubts, forcedOut, plans, plan, left, reruns, lastRun,
  nightNo, signal, tries, waited, standing, quiet, evidence, counted, digests, a5, answered,
  expired, ended, deaths,
  slot, fired, night, age, run, sheetDone, late, disposed, guard, stranded, desk, a2, gate,
  parent, spawned, derived, mishaps

ASSUME ServicesAssumption ==
  /\ IsFiniteSet(ThesisLane \cup Wide)
  /\ NewIds \in Seq({NewIds[i] : i \in DOMAIN NewIds})
  /\ IsFiniteSet(News \cup Synthetics) /\ News \cap Synthetics = {} /\ None \notin Synthetics
  /\ IsFiniteSet(Tickers)
  /\ {MaxPerDay, MaxPerHour, HourLength, Cooloff} \subseteq Nat
  /\ {Slots, LateMax, PassMax, MaxAge} \subseteq Nat
  /\ MaxAge > 0          \* nothing expires in the night it comes
  /\ LateMax >= Slots    \* config/a4.yaml: 24, for 15 passes

S == INSTANCE Scanner WITH day <- scanDay
G == INSTANCE Guard
P == INSTANCE ThesisPlan
H == INSTANCE Themes
N == INSTANCE Overnight WITH faults <- mishaps

caseVars    == <<input, verdict, qty>>
scannerVars == <<scanDay, time, stopped, rows, sent, held, taken, lossOn, losses, journaled, static,
                 scan, unwritten, tooEarly, faults>>
guardVars   == <<notice, deliveries, live, aged, slotUp, general, rulings, arms, review, named, unheard>>
planVars    == <<today, evening, thesis, lot, policy, doubts, forcedOut, plans, plan, left, reruns, lastRun>>
themeVars   == <<nightNo, signal, tries, waited, standing, quiet, evidence, counted, digests, a5,
                 answered, expired, ended, deaths>>
nightVars   == <<slot, fired, night, age, run, sheetDone, late, disposed, guard, stranded, desk, a2,
                 gate, parent, spawned, derived, mishaps>>
servicesVars == <<part, vars, caseVars, scannerVars, guardVars, planVars, themeVars, nightVars>>

------------------------------------------------------------------------------
(* A3: news longs and scalps, and a live news short for weeks, beside an entry of C11
   and a position found at the broker. *)

About(o, s, h, p, d, x) == [origin |-> o, side |-> s, horizon |-> h, price |-> p, stop |-> d, sector |-> x]

MCSig ==
  [n1 |-> About("news", "LONG", "LONG", 2, 1, "tech"),
   s1 |-> About("scanner", "LONG", "SHORT", 2, 2, "tech"),
   s2 |-> About("scanner", "LONG", "SHORT", 1, 1, "bank"),
   b1 |-> About("news", "SHORT", "LONG", 1, 1, "tech"),
   c1 |-> About("thesis", "LONG", "LONG", 1, 1, "tech"),
   x1 |-> About("adopted", "LONG", "SHORT", 1, 1, "bank")]

(* What the percentages come to: the amount at the larger capital, in proportion. *)
Of(amount)     == [c \in Capitals |-> (amount * c) \div 6]
MCBudget       == [c \in Capitals |-> [l \in Lanes |-> Of(2)[c]]]
MCNotional     == [c \in Capitals |-> [l \in Lanes |-> Of(4)[c]]]
MCHeat         == [c \in Capitals |-> [h \in Horizons |-> Of(IF h = "SHORT" THEN 3 ELSE 2)[c]]]
MCTotal        == Of(4)
MCSector       == Of(3)
MCShorts       == Of(2)
MCThesisBudget == Of(1)

(* The sizing chain over every small input: a state is one call and its result. *)

CaseBudget   == [l \in Lanes |-> IF l = "news_short" THEN 2 ELSE 4]
CaseNotional == [l \in Lanes |-> IF l = "scanner" THEN 8 ELSE 6]
CaseHeat     == [h \in Horizons |-> IF h = "SHORT" THEN 5 ELSE 3]

AtTen(v) == [c \in {10} |-> v]
Z == INSTANCE Sizing WITH
       Capitals <- {10}, Budget <- AtTen(CaseBudget), NotionalCap <- AtTen(CaseNotional),
       HeatCap <- AtTen(CaseHeat), TotalHeatCap <- AtTen(7), SectorCap <- AtTen(4),
       ShortHeatCap <- AtTen(3), GrossShortCap <- AtTen(5), MaxTrades <- 1

Cases ==
  [capital : {10},
   lane : Lanes, side : {"LONG", "SHORT"}, horizon : Horizons, price : {1, 2}, stop : 0 .. 3,
   heat : [Horizons -> {0, 2, 4}], deployed : {0, 9}, cash : {2, 8}, power : {2, 8},
   liquidity : {0, 3}, sectorHeat : {-1, 2}, shortHeat : {0, 2}, shortNotional : {0, 3}]

(* The flags and market conditions of the hard gates, one at a time. *)
Clear == [kill |-> FALSE, breaker |-> FALSE, blocked |-> FALSE, halted |-> FALSE, trades |-> 0,
          minutes |-> BlackoutMin + 1, spread |-> MaxSpreadBps, earnings |-> FALSE, exDividend |-> FALSE]
Conditions ==
  {Clear, [Clear EXCEPT !.blocked = TRUE], [Clear EXCEPT !.trades = 1],
   [Clear EXCEPT !.minutes = BlackoutMin], [Clear EXCEPT !.exDividend = TRUE]}

Join(i, c) == [f \in DOMAIN i \cup DOMAIN c |-> IF f \in DOMAIN i THEN i[f] ELSE c[f]]

Sensible(i, c) ==
  /\ (i.side = "SHORT") = (i.lane = "news_short")
  /\ (c # Clear => i.deployed = 0 /\ 8 \in {i.cash, i.power})
  /\ (i.side = "LONG" => i.shortHeat = 0 /\ i.shortNotional = 0 /\ i.power = 2)
  /\ (i.side = "SHORT" => i.cash = 2)

SizingInit ==
  /\ \E i \in Cases, c \in Conditions : Sensible(i, c) /\ input = Join(i, c)
  /\ verdict = Z!Verdict(input)
  /\ qty = IF verdict = "SIZE" THEN Z!Quantity(input) ELSE 0

(* C10: a look at a mover passes every filter, or meets one of them. *)
Plain ==
  [shape |-> FALSE, etf |-> FALSE, cheap |-> FALSE, illiquid |-> FALSE, small |-> FALSE,
   down |-> FALSE, taped |-> TRUE, quiet |-> FALSE, stale |-> FALSE, wide |-> FALSE,
   banded |-> FALSE, reporting |-> FALSE, news |-> "none", weak |-> FALSE, ssr |-> FALSE, etb |-> TRUE]
MCReadings ==
  {Plain, [Plain EXCEPT !.down = TRUE], [Plain EXCEPT !.cheap = TRUE]}

(* A12: the answers that its rules tell apart. *)
Answer(a, i, u, h) == [action |-> a, intact |-> i, urgent |-> u, hit |-> h]
MCAnswers ==
  {Answer("hold", TRUE, FALSE, FALSE), Answer("hold", FALSE, FALSE, FALSE), Answer("exit", FALSE, TRUE, TRUE)}

(* C11: two theses that name the same ticker. *)
MCTheses == << [id |-> "t1", beneficiaries |-> <<"a">>], [id |-> "t2", beneficiaries |-> <<"a">>] >>

(* The same with a second name, for the number of open positions. *)
MCTwoNames == << [id |-> "t1", beneficiaries |-> <<"a", "b">>], [id |-> "t2", beneficiaries |-> <<"a">>] >>

(* A5: one story on the lane with two revisions, the first escalated elsewhere too. *)
MCLane    == {[item |-> "x", revision |-> 1], [item |-> "x", revision |-> 2]}
MCWide    == {[item |-> "x", revision |-> 1]}
MCNewIds  == <<"t2">>
MCReviews == {<<>>, <<"keep">>, <<"invalidate", "realize">>}

------------------------------------------------------------------------------
ServicesInit ==
  /\ part \in Parts
  /\ Init /\ S!Init /\ G!GuardInit /\ P!PlanInit /\ H!ThemesInit /\ N!Init
  /\ part # "guard" => slotUp
  /\ part # "risk" => effective = Max(Capitals)
  /\ IF part = "sizing" THEN SizingInit ELSE input = Empty /\ verdict = "none" /\ qty = 0

ServicesNext ==
  \/ part = "risk" /\ Next /\ UNCHANGED <<part, caseVars, scannerVars, guardVars, planVars, themeVars, nightVars>>
  \/ part = "scanner" /\ S!Next /\ UNCHANGED <<part, caseVars, vars, guardVars, planVars, themeVars, nightVars>>
  \/ part = "guard" /\ G!GuardNext /\ UNCHANGED <<part, caseVars, vars, scannerVars, planVars, themeVars, nightVars>>
  \/ part = "plan" /\ P!PlanNext /\ UNCHANGED <<part, caseVars, vars, scannerVars, guardVars, themeVars, nightVars>>
  \/ part = "themes" /\ H!ThemesNext /\ UNCHANGED <<part, caseVars, vars, scannerVars, guardVars, planVars, nightVars>>
  \/ part = "night" /\ N!Next /\ UNCHANGED <<part, caseVars, vars, scannerVars, guardVars, planVars, themeVars>>

ServicesSpec == ServicesInit /\ [][ServicesNext]_servicesVars

------------------------------------------------------------------------------
(* Every limit of the sizing chain, as a statement about holding n shares more. *)
Within(n) ==
  LET risk == n * input.stop
      cost == n * input.price IN
  /\ risk <= CaseBudget[input.lane] /\ cost <= CaseNotional[input.lane]
  /\ n > 0 => /\ input.deployed + cost <= 10
              /\ input.heat[input.horizon] + risk <= CaseHeat[input.horizon]
              /\ input.heat["SHORT"] + input.heat["LONG"] + risk <= 7
              /\ (input.liquidity # 0 => n <= input.liquidity)
              /\ (input.side = "LONG" => cost <= input.cash)
              /\ (input.side = "SHORT" => /\ cost <= input.power
                                          /\ input.shortHeat + risk <= 3
                                          /\ input.shortNotional + cost <= 5)
              /\ (input.lane # "scanner" /\ input.sectorHeat # -1 => input.sectorHeat + risk <= 4)

(* "size = risk_budget / stop_distance, then clipped": what is sized breaks no
   limit of the configuration, and one share more would. *)
SizedToTheCaps == part = "sizing" /\ verdict = "SIZE" => Within(qty) /\ ~Within(qty + 1)

(* C10 against what it has sent: the caps of a scan, an hour and a day hold for
   the messages, not only for the rows it counts. *)
SentWithinCaps == S!SentWithinCaps

(* C10: no message goes out whose row is missing, restarts and failed writes
   between the two aside. *)
OneRowPerMessage == S!OneRowPerMessage

(* C10: a name that lost is not traded again before its cool-off is over. *)
CooloffHolds == S!CooloffHolds

(* A12: a position is judged once for an item, over redeliveries, degradations
   and crashes. *)
JudgedOnce == G!JudgedOnce

(* A12's docstring: "never silently dropped". *)
NeverSilentlyDropped == G!NeverSilentlyDropped

(* C11: a ticker never has two entries in flight or open, whichever theses name it. *)
OneEntryPerTicker == P!OneEntryPerTicker

(* C11: a lot whose thesis is dead is out, or armed for the next open, once a run
   has managed every position. *)
DeadThesisIsLeft == P!DeadThesisIsLeft

(* A5: an item counts once for a thesis, over redeliveries and crashes. *)
EvidenceCountedOnce == H!EvidenceCountedOnce

(* A5: a message that is done without having expired has a decision. *)
DoneWasAnswered == H!DoneWasAnswered

(* A4: the budget of the late passes lasts to the last one before the open. *)
BudgetLastsToTheOpen == N!BudgetLastsToTheOpen

(* A2 and A1: a related name is one hop away from the news. *)
SympathyStopsAfterOneHop == N!SympathyStopsAfterOneHop

(* A4: only runs that died leave claims behind, and nothing outlives its night. *)
NightIsWorkedOff == N!NightIsWorkedOff

(* A4: "forwarded to the open". *)
ForwardedIsSent == N!ForwardedIsSent

(* C10: "emit nothing" in the early window. *)
NothingEmittedEarly == S!NothingEmittedEarly

(* C11: open positions of the lane stay within their number. *)
OpenWithinMax == P!OpenWithinMax

(* A2: a thesis spawns its related names once. *)
SpawnedOnce == N!SpawnedOnce

(* A5: what a run claims comes back to the lane. *)
ReleasedToTheLane == H!ReleasedToTheLane
=============================================================================
