------------------------------- MODULE Sizing -------------------------------
(***************************************************************************)
(* The sizing chain of A3 (a3_risk/sizing.py), a pure function from what   *)
(* the service has read to a verdict.  Money and prices are integers; the  *)
(* percentages of the configuration are given as the amounts they come to  *)
(* for each effective capital, min(broker_equity, trading_capital).        *)
(***************************************************************************)
EXTENDS Integers, FiniteSets, FiniteSetsExt

CONSTANTS
  Capitals,        \* what the effective capital may be
  Budget,          \* risk_per_trade_pct of it, by lane
  NotionalCap,     \* max_position_notional_pct of it, by lane
  HeatCap,         \* heat_split of it, by horizon
  TotalHeatCap,    \* max_portfolio_heat_pct
  SectorCap,       \* max_sector_heat_pct; the scanner lane is not clipped
  ShortHeatCap, GrossShortCap,
  MaxSpreadBps, BlackoutMin, MaxTrades

Lanes    == {"news", "news_short", "scanner"}
Horizons == {"SHORT", "LONG"}

ASSUME SizingAssumption ==
  /\ Capitals \subseteq Nat
  /\ {MaxTrades, MaxSpreadBps, BlackoutMin} \subseteq Nat
  /\ {TotalHeatCap, SectorCap, ShortHeatCap, GrossShortCap} \subseteq [Capitals -> Nat]
  /\ {Budget, NotionalCap} \subseteq [Capitals -> [Lanes -> Nat]]
  /\ HeatCap \in [Capitals -> [Horizons -> Nat]]

(* scanner_capital_cfg and news_capital_cfg: every lane has its own budget and cap. *)
Lane(origin, side) == IF origin = "scanner" THEN "scanner"
                      ELSE IF side = "SHORT" THEN "news_short" ELSE "news"

(* hard_gates, cheapest first. *)
Gates == <<"KILL_SWITCH", "BREAKER", "BLOCK_ENTRIES", "HALTED", "MAX_TRADES", "ENTRY_BLACKOUT",
           "WIDE_SPREAD", "EARNINGS_BLACKOUT", "EX_DIVIDEND", "NO_ATR">>

Vetoes(gate, i) ==
  \/ gate = "KILL_SWITCH" /\ i.kill
  \/ gate = "BREAKER" /\ i.breaker
  \/ gate = "BLOCK_ENTRIES" /\ i.blocked
  \/ gate = "HALTED" /\ i.halted
  \/ gate = "MAX_TRADES" /\ i.trades >= MaxTrades
  \/ gate = "ENTRY_BLACKOUT" /\ i.minutes <= BlackoutMin
  \/ gate = "WIDE_SPREAD" /\ i.spread > MaxSpreadBps
  \/ gate = "EARNINGS_BLACKOUT" /\ i.earnings
  \/ gate = "EX_DIVIDEND" /\ i.side = "SHORT" /\ i.exDividend
  \/ gate = "NO_ATR" /\ i.stop <= 0

HardGate(i) ==
  LET hit == {n \in DOMAIN Gates : Vetoes(Gates[n], i)}
  IN  IF hit = {} THEN "none" ELSE Gates[Min(hit)]

Left(cap, used) == IF used >= cap THEN 0 ELSE cap - used

(* What each cap leaves room for, in shares. *)
Clips(i) ==
  {NotionalCap[i.capital][i.lane] \div i.price,
   Left(i.capital, i.deployed) \div i.price,
   Left(HeatCap[i.capital][i.horizon], i.heat[i.horizon]) \div i.stop,
   Left(TotalHeatCap[i.capital], i.heat["SHORT"] + i.heat["LONG"]) \div i.stop}
  \cup (IF i.liquidity = 0 THEN {} ELSE {i.liquidity})       \* adv_participation_max of adv_20d
  \cup (IF i.side = "LONG" THEN {i.cash \div i.price}
        ELSE {i.power \div i.price,
              Left(ShortHeatCap[i.capital], i.shortHeat) \div i.stop,
              Left(GrossShortCap[i.capital], i.shortNotional) \div i.price})
  \cup (IF i.lane = "scanner" \/ i.sectorHeat = -1 THEN {}   \* -1: the sector is not known
        ELSE {Left(SectorCap[i.capital], i.sectorHeat) \div i.stop})

(* A mutant: the budget is missed by one. *)
QuantityShort(i) == Min({(Budget[i.capital][i.lane] - 1) \div i.stop} \cup Clips(i))

Quantity(i) == Min({Budget[i.capital][i.lane] \div i.stop} \cup Clips(i))

(* At least half of the risk budget has to be left after the clips. *)
Viable(i) == Quantity(i) > 0 /\ 2 * Quantity(i) * i.stop >= Budget[i.capital][i.lane]

Verdict(i) ==
  IF HardGate(i) # "none" THEN HardGate(i)
  ELSE IF Viable(i) THEN "SIZE" ELSE "SIZE_CLIPPED"
=============================================================================
