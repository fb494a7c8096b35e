------------------------------ MODULE RiskCaps ------------------------------
(***************************************************************************)
(* A3 at work (A3Service.handle): one signal at a time it reads the        *)
(* controls and the open book, asks its model, sizes with the chain of     *)
(* Sizing and writes an intent; C4 settles the intents behind its back.    *)
(* The book is not A3's alone: C11 writes entries of its own straight to   *)
(* C4, and C4's reconciliation takes over what it finds at the broker, and *)
(* neither asks for a cap.  A3 checks its caps against open positions, so  *)
(* that what is in flight, or comes to the book after it was read, is what *)
(* a cap can miss.                                                         *)
(***************************************************************************)
EXTENDS Sizing

CONSTANTS
  Signals,
  Planned,       \* the entries C11 may plan, by (thesis, ticker, session)
  Strays,        \* positions without a record that the broker may turn out to hold
  Sig,           \* what any of them is about: origin, side, horizon, price, stop, sector
  ThesisBudget,  \* C11's risk_pct of the effective capital
  MaxFound,      \* a bound on the shares that are found at the broker
  MaxScanner,    \* scanner.max_concurrent_positions
  ClusterMode,   \* scanner.sector_cluster.mode
  ClusterMax,    \* scanner.sector_cluster.max_per_sector
  ShortMode,     \* shorting.mode
  Versions,      \* configuration versions, 1 first
  MaxDays

ASSUME RiskCapsAssumption ==
  /\ MaxScanner \in Nat /\ ClusterMax \in Nat /\ MaxDays \in Nat
  /\ ClusterMode \in {"shadow", "veto"}
  /\ ShortMode \in {"off", "shadow", "live"}
  /\ IsFiniteSet(Signals) /\ IsFiniteSet(Planned) /\ IsFiniteSet(Strays)
  /\ Signals \cap (Planned \cup Strays) = {}
  /\ ThesisBudget \in [Capitals -> Nat] /\ MaxFound \in Nat
  /\ IsFiniteSet(Versions) /\ Versions = 1 .. Cardinality(Versions) /\ 1 \in Versions
  /\ \A s \in Signals \cup Planned \cup Strays :
       /\ Sig[s].side \in {"LONG", "SHORT"} /\ Sig[s].horizon \in Horizons
       /\ Sig[s].price \in Nat \ {0} /\ Sig[s].stop \in Nat
  /\ \A s \in Planned : Sig[s].stop > 0

VARIABLES
  inbox,      \* signal.risk, by signal: ready or done
  hand,       \* what was read for the message in hand, or Empty
  version,    \* active_config_version() of the running process
  effective,  \* min(broker_equity, trading_capital), which the market and the operator move
  book,       \* journal.intents and the positions opened from them, by intent_id
  shown,      \* history: what was open when A3's hand was read, and is as it was
  seen,       \* history: the same of the reading that each of A3's entries is from
  blocked,    \* control.block_entries
  day         \* the UTC date

vars == <<inbox, hand, version, effective, book, shown, seen, blocked, day>>

Entries == Signals \X Versions         \* sha256(signal:revision:config_version)
Keys    == Entries \cup ((Planned \cup Strays) \X {1})
NoBook  == [status |-> "none", qty |-> 0, day |-> 0, risky |-> TRUE, by |-> "none", capital |-> 0]
Empty   == [signal |-> "none"]

Stock(k)  == Sig[k[1]]

(* An intent, or the position of one: who made it this large, at which capital. *)
Entry(status, n, by) == [status |-> status, qty |-> n, day |-> day, risky |-> TRUE, by |-> by, capital |-> effective]

Open      == {k \in Keys : book[k].status = "OPEN"}
InFlight  == {k \in Keys : book[k].status = "PENDING"}
Risk      == [k \in Keys |-> book[k].qty * Stock(k).stop]
Cost      == [k \in Keys |-> book[k].qty * Stock(k).price]

(* A sum of naturals counts its units, which takes no recursion. *)
Units(f, S) == UNION {{k} \X (1 .. f[k]) : k \in S}
Sum(f, S)   == Cardinality(Units(f, S))

Init ==
  /\ inbox = [s \in Signals |-> "ready"]
  /\ hand = Empty /\ version = 1 /\ blocked = FALSE /\ day = 1
  /\ effective \in Capitals
  /\ book = [k \in Keys |-> NoBook]
  /\ shown = {} /\ seen = [k \in Keys |-> {}]

------------------------------------------------------------------------------
(* What is read of the journal. *)

(* portfolio_state: by horizon, from the stop the position was opened with. *)
Heat    == [h \in Horizons |-> Sum(Risk, {k \in Open : Stock(k).horizon = h})]
Shorts  == {k \in Open : Stock(k).side = "SHORT"}
Deployed == Sum(Cost, Open)

TradesToday == Cardinality({k \in Keys : book[k].status \notin {"none", "REJECTED"} /\ book[k].day = day})

OpenScanner   == {k \in Open : Stock(k).origin = "scanner"}
SameSector(s) == {k \in OpenScanner : Stock(k).sector = Sig[s].sector}

(* open_sector_heat in mode net; the sector may not be to be had. *)
SectorHeat(s) ==
  LET there == {k \in Open : Stock(k).sector = Sig[s].sector}
      net   == Sum(Risk, there \ Shorts) - Sum(Risk, there \cap Shorts)
  IN  IF net < 0 THEN -net ELSE net

ScannerVeto(s) ==
  /\ Sig[s].origin = "scanner"
  /\ \/ ClusterMode = "veto" /\ Cardinality(SameSector(s)) >= ClusterMax
     \/ Cardinality(OpenScanner) >= MaxScanner

(* The inputs of the chain that do not change while the model thinks. *)
Inputs(s) ==
  [signal |-> s, lane |-> Lane(Sig[s].origin, Sig[s].side), side |-> Sig[s].side,
   horizon |-> Sig[s].horizon, price |-> Sig[s].price, stop |-> Sig[s].stop,
   capital |-> effective,
   heat |-> Heat, deployed |-> Deployed, cash |-> effective, power |-> effective,
   shortHeat |-> Sum(Risk, Shorts), shortNotional |-> Sum(Cost, Shorts),
   liquidity |-> 0, sectorHeat |-> -1,
   kill |-> FALSE, breaker |-> FALSE, blocked |-> blocked, halted |-> FALSE,
   trades |-> TradesToday, minutes |-> BlackoutMin + 1, spread |-> 0,
   earnings |-> FALSE, exDividend |-> FALSE]

------------------------------------------------------------------------------
(* A3 *)

(* A mutant: the book is not read again once something was sized from it. *)
ReadStale(s) ==
  /\ hand = Empty /\ inbox[s] = "ready"
  /\ hand' = [Inputs(s) EXCEPT !.heat = [h \in Horizons |-> 0]]
  /\ shown' = Open
  /\ UNCHANGED <<inbox, version, effective, book, seen, blocked, day>>

(* handle, up to the model call: a veto ends the message. *)
Read(s) ==
  /\ hand = Empty /\ inbox[s] = "ready"
  /\ IF \/ Sig[s].side = "SHORT" /\ ShortMode = "off"
        \/ ScannerVeto(s)
        \/ HardGate(Inputs(s)) # "none"
     THEN inbox' = [inbox EXCEPT ![s] = "done"] /\ UNCHANGED <<hand, shown>>
     ELSE hand' = Inputs(s) /\ shown' = Open /\ inbox' = inbox
  /\ UNCHANGED <<version, effective, book, seen, blocked, day>>

(* The rest of handle: the sector's heat is read now, the chain decides, and the
   decision, the intent and the message to C4 are one transaction.  An intent
   that is there already is left alone.  The ack may be lost. *)
Decide ==
  /\ hand # Empty
  /\ \E heat \in {-1, SectorHeat(hand.signal)}, after \in {"ready", "done"} :
       LET i == [hand EXCEPT !.sectorHeat = heat]
           k == <<hand.signal, version>>
       IN  /\ inbox' = [inbox EXCEPT ![hand.signal] = after]
           /\ IF /\ Verdict(i) = "SIZE" /\ book[k].status = "none"
                 /\ (i.side = "LONG" \/ ShortMode = "live")
              THEN /\ book' = [book EXCEPT ![k] = [Entry("PENDING", Quantity(i), "A3") EXCEPT !.capital = i.capital]]
                   /\ seen' = [seen EXCEPT ![k] = shown]
              ELSE UNCHANGED <<book, seen>>
  /\ hand' = Empty /\ shown' = {}
  /\ UNCHANGED <<version, effective, blocked, day>>

(* The process dies; main() registers the configuration it starts with. *)
Restart ==
  /\ hand' = Empty /\ shown' = {}
  /\ version' \in {v \in Versions : v \in {version, version + 1}}
  /\ <<hand', version'>> # <<hand, version>>
  /\ UNCHANGED <<inbox, effective, book, seen, blocked, day>>

------------------------------------------------------------------------------
(* C11 (ThesisPlan): an entry that fills its own risk budget, put straight to C4.
   No heat is read and no trades are counted.  What else may stop it, its own room
   and the filters of a name, only means that it is not planned. *)
PlanEntry(k) ==
  /\ k \in Planned \X {1} /\ book[k].status = "none"
  /\ LET n == ThesisBudget[effective] \div Stock(k).stop
     IN  n >= 1 /\ book' = [book EXCEPT ![k] = Entry("PENDING", n, "C11")]
  /\ UNCHANGED <<inbox, hand, version, effective, shown, seen, blocked, day>>

------------------------------------------------------------------------------
(* C4, one entry at a time *)

(* _preflight: the whole book, gross, against the effective capital. *)
Preflight(k) == ~blocked /\ Deployed + Cost[k] <= effective

(* It is not what it was when somebody saw it. *)
Forgotten(k) == shown' = shown \ {k} /\ seen' = [j \in Keys |-> IF j = k THEN {} ELSE seen[j] \ {k}]

(* Nothing is held of it any more: it was REJECTED, or it is OVER, an order without a
   fill or a position that is closed. *)
Gone(k, status) ==
  /\ book' = [book EXCEPT ![k] = [NoBook EXCEPT !.status = status, !.day = book[k].day]]
  /\ Forgotten(k)

(* handle_intent to its end: the limit order fills, in part, or not at all. *)
Settle(k) ==
  /\ book[k].status = "PENDING"
  /\ \/ /\ Preflight(k)
        /\ \E n \in 1 .. book[k].qty :
             book' = [book EXCEPT ![k].status = "OPEN", ![k].qty = n]
        /\ UNCHANGED <<shown, seen>>
     \/ /\ Preflight(k)
        /\ Gone(k, "OVER")
     \/ /\ ~Preflight(k)
        /\ Gone(k, "REJECTED")
  /\ UNCHANGED <<inbox, hand, version, effective, blocked, day>>

(* The exit engine brings the stop to the entry, or sells. *)
Ratchet(k) ==
  /\ k \in Open /\ book[k].risky
  /\ book' = [book EXCEPT ![k].risky = FALSE]
  /\ UNCHANGED <<inbox, hand, version, effective, shown, seen, blocked, day>>
Close(k) ==
  /\ k \in Open
  /\ Gone(k, "OVER")
  /\ UNCHANGED <<inbox, hand, version, effective, blocked, day>>

(* reconcile: the broker is right about a position, and one without a record is
   adopted with an intent of today. *)
Found(k, n) ==
  /\ k \in Open \/ (k \in Strays \X {1} /\ book[k].status = "none")
  /\ n # book[k].qty
  /\ book' = [book EXCEPT ![k] = IF k \in Open THEN [@ EXCEPT !.qty = n, !.by = "C4"] ELSE Entry("OPEN", n, "C4")]
  /\ Forgotten(k)
  /\ UNCHANGED <<inbox, hand, version, effective, blocked, day>>

(* The broker's equity and the operator's limit on the capital. *)
Revalue ==
  /\ effective' \in Capitals \ {effective}
  /\ UNCHANGED <<inbox, hand, version, book, shown, seen, blocked, day>>

(* The operator's switch, and midnight UTC. *)
Block ==
  /\ blocked' = ~blocked
  /\ UNCHANGED <<inbox, hand, version, effective, book, shown, seen, day>>
NewDay ==
  /\ day < MaxDays /\ day' = day + 1
  /\ UNCHANGED <<inbox, hand, version, effective, book, shown, seen, blocked>>

Next ==
  \/ \E s \in Signals : Read(s)
  \/ Decide \/ Restart
  \/ \E k \in Keys : PlanEntry(k) \/ Settle(k) \/ Ratchet(k) \/ Close(k)
  \/ \E k \in Keys, n \in 1 .. MaxFound : Found(k, n)
  \/ Revalue \/ Block \/ NewDay

Spec == Init /\ [][Next]_vars

------------------------------------------------------------------------------
TypeOK ==
  /\ inbox \in [Signals -> {"ready", "done"}]
  /\ hand = Empty \/ hand.signal \in Signals
  /\ version \in Versions /\ effective \in Capitals /\ blocked \in BOOLEAN /\ day \in 1 .. MaxDays
  /\ shown \subseteq Open
  /\ \A k \in Keys :
       /\ book[k].status \in {"none", "PENDING", "OPEN", "OVER", "REJECTED"}
       /\ (book[k].qty = 0) = (book[k].status \in {"none", "OVER", "REJECTED"})
       /\ seen[k] \subseteq Open

(* A set of entries, within the caps on heat and on shorts that the configuration
   has for entry k at the capital it was sized for. *)
FitsCaps(T, k) ==
  LET c == book[k].capital
      h == Stock(k).horizon
      short == {j \in T : Stock(j).side = "SHORT"}
  IN  /\ Sum(Risk, {j \in T : Stock(j).horizon = h}) <= HeatCap[c][h]
      /\ Sum(Risk, T) <= TotalHeatCap[c]
      /\ Stock(k).side = "SHORT" => Sum(Risk, short) <= ShortHeatCap[c] /\ Sum(Cost, short) <= GrossShortCap[c]

(* A3 reads its caps before the model call, from the open book.  However C4 fills, in
   whole or in part, and sells, whatever C11 plans, the broker turns out to hold and the
   capital comes to: an open entry that A3 sized and everything still open of what it
   saw, C11's positions too, are within the caps that it was sized by.  Where the open
   book exceeds them, there is a position in it that the entry's sizing did not see. *)
HeatExceededOnlyByUnseen ==
  \A k \in Open : book[k].by = "A3" => FitsCaps({k} \cup seen[k], k)

(* C4 looks at the whole book again before it buys: an entry it fills, A3's or C11's,
   takes what is deployed no further than the effective capital of that moment. *)
DeployedWithinCapital ==
  [][(\E k \in Keys : book[k].status = "PENDING" /\ book'[k].status = "OPEN") => Deployed' <= effective]_vars

(* A3 adds to a day only while its entries, those in flight and C11's included, are
   fewer than the day may have: whatever C11 adds, A3's are never more than that. *)
TradesCapped ==
  \A d \in 1 .. MaxDays :
    Cardinality({k \in Entries : book[k].status \notin {"none", "REJECTED"} /\ book[k].day = d}) <= MaxTrades

(* "max_concurrent_positions: open origin=scanner positions (A3 veto)". *)
ScannerConcurrency == Cardinality(OpenScanner) <= MaxScanner

(* "open heat per HORIZON lane from CURRENT stops": a position whose stop is at
   its entry adds nothing to the heat that is read. *)
HeatFromCurrentStops ==
  [][hand = Empty /\ hand' # Empty
       => \A h \in Horizons :
            hand'.heat[h] = Sum(Risk, {k \in Open : Stock(k).horizon = h /\ book[k].risky})]_vars
=============================================================================
