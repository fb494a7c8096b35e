----------------------------- MODULE Gate_proofs -----------------------------
(***************************************************************************)
(* Proofs about the confirmation gate: the last look lands in the window,  *)
(* a thesis is judged once for each time it was handed out, and only       *)
(* faults, or the names nobody bound, fill the dead letters.               *)
(***************************************************************************)
EXTENDS Gate, FiniteSetTheorems, WellFoundedInduction, TLAPS

Kinds     == {"news", "scanner", "eh_shadow"}
InHand    == {"claimed", "measuring", "acking"}
Reasons   ==
  { "LONG_ONLY", "SHORT_UNAVAILABLE", "SSR_RESTRICTED", "CREDIBILITY", "LANE_SOURCE",
    "GATE_WINDOW", "GATE_EXTENDED", "MARKETDATA_MISSING", "GATE_NO_CONFIRM", "STALE_MARKETDATA",
    "GATE_OPEN_WINDOW", "PRICED_IN", "HANDOFF_UNMOVED", "EH_LIQUIDITY",
    "SCANNER_STALE", "SCANNER_STRUCTURE", "SCANNER_PARABOLIC", "SCANNER_LIQUIDITY" }
Decisions == [rule : Kinds \union {"fade", "drift_short"}, verdict : Reasons \union {Pass, "WOULD_TRADE"}]

GateShape ==
  /\ now \in Nat /\ at \in [Msgs -> Places]
  /\ DOMAIN due = Msgs
  /\ attempts \in [Msgs -> Int] /\ hits \in [Msgs -> Nat]
  /\ rows \in [Msgs -> Seq(Decisions)]
  /\ rechecked \in [Msgs -> BOOLEAN] /\ late \in [Msgs -> BOOLEAN]

(* The loop has one message in hand, and what it measures is the refusal of  *)
(* that message, followed by shadows, which are no verdicts.                 *)
OneInHand == \A m, n \in Msgs : at[m] \in InHand /\ at[n] \in InHand => m = n

RefusalInHand ==
  \A m \in Msgs : at[m] = "measuring" =>
    /\ about[m].kind \in Kinds
    /\ judged \in Seq(Decisions) /\ judged # <<>>
    /\ \A i \in 2 .. Len(judged) : judged[i].rule \notin Kinds

(* A message whose veto was put off has minutes enough, so that nothing but   *)
(* another look puts it off again, and it comes back inside the window.       *)
BackInTime(m) ==
  rechecked[m] =>
    /\ about[m].kind = "news" /\ now > ConfirmBars(about[m].th)
    /\ ~late[m] /\ at[m] \in {"queued", "claimed"} => due[m] \in Nat /\ due[m] + Margin <= Window

(* Only a fault brings a message back that was judged. *)
JudgedLast(m) == ~late[m] /\ at[m] \in {"queued", "claimed"} => rows[m] = <<>>

NotMisled(m) ==
  \A i \in Verdicts(m) : rows[m][i].verdict = "GATE_WINDOW" => ~rechecked[m] \/ late[m]

(* A verdict is paid for by a fault, or is that of the attempt in hand or the *)
(* last one; so is an attempt, where nothing raises by itself.                *)
VerdictsPaid(m) ==
  Cardinality(Verdicts(m)) <= hits[m] + (IF at[m] \in {"queued", "claimed", "dead"} THEN 0 ELSE 1)

AttemptsPaid(m) ==
  NamesBound \/ about[m].kind # "news" =>
    /\ at[m] \in {"queued", "dead"} => attempts[m] <= hits[m]
    /\ at[m] \in InHand => attempts[m] <= hits[m] + 1
    /\ at[m] = "dead" => attempts[m] >= MaxAttempts

Accounted(m) ==
  BackInTime(m) /\ JudgedLast(m) /\ NotMisled(m) /\ VerdictsPaid(m) /\ AttemptsPaid(m)

GateInv ==
  GateShape /\ OneInHand /\ RefusalInHand /\ \A m \in Msgs : Accounted(m)

USE GateAssumption

-----------------------------------------------------------------------------
(* The rules *)

(* A set of naturals that is not empty has a least element. *)
LEMMA LeastNatural ==
  ASSUME NEW X \in SUBSET Nat, X # {}
  PROVE  \E n \in X : \A m \in X : n <= m
<1> DEFINE R == {ss \in Nat \X Nat : ss[1] < ss[2]}
<1>1. IsWellFoundedOn(R, Nat)
  BY NatLessThanWellFounded, Zenon DEF OpToRel
<1>2. \A m, n \in Nat : m < n => <<m, n>> \in R
  OBVIOUS
<1> HIDE DEF R
<1>3. PICK n \in X : \A m \in X : ~(<<m, n>> \in R)
  BY <1>1, WFMin
<1>4. ASSUME NEW m \in X PROVE n <= m
  <2>1. ~(m < n)
    BY <1>2, <1>3
  <2> QED BY <2>1
<1> QED BY <1>4

(* A list of rules passes, or gives the reason of one of its rules that holds. *)
LEMMA FirstFailingIs ==
  ASSUME NEW R, NEW checks \in Seq(R), FirstFailing(checks) # Pass
  PROVE  \E x \in R : x.on /\ FirstFailing(checks) = x.veto
<1> DEFINE Hits == {n \in 1 .. Len(checks) : checks[n].on}
           First(n) == checks[n].on /\ \A j \in 1 .. (n - 1) : ~checks[j].on
           c == CHOOSE n \in DOMAIN checks : First(n)
<1>1. DOMAIN checks = 1 .. Len(checks) /\ Len(checks) \in Nat
  OBVIOUS
<1>2. \E n \in DOMAIN checks : checks[n].on
  BY Zenon DEF FirstFailing
<1>3. Hits \in SUBSET Nat /\ Hits # {}
  BY <1>1, <1>2
<1>4. PICK n \in Hits : \A j \in Hits : n <= j
  BY <1>3, LeastNatural
<1>5. n \in DOMAIN checks /\ checks[n].on
  BY <1>1, <1>4
<1>6. ASSUME NEW j \in 1 .. (n - 1) PROVE ~checks[j].on
  <2>1. j \in 1 .. Len(checks) /\ ~(n <= j)
    BY <1>1, <1>5
  <2> QED BY <1>4, <2>1
<1>7. c \in DOMAIN checks /\ First(c)
  BY <1>5, <1>6, Zenon
<1>8. FirstFailing(checks) = checks[c].veto
  BY <1>2, Zenon DEF FirstFailing
<1>9. checks[c] \in R
  BY <1>1, <1>7
<1> QED BY <1>7, <1>8, <1>9, Zenon

(* The rules of a direction, and those of the three evaluators, as sets. *)
DirectionRules(th, lane, s) ==
  { Check(th.dir = "down" /\ lane \notin ShortLanes, "LONG_ONLY"),
    Check(th.dir = "down" /\ ~s.etb, "SHORT_UNAVAILABLE"),
    Check(th.dir = "down" /\ s.ssr, "SSR_RESTRICTED") }

LEMMA DirectionIs ==
  ASSUME NEW th, NEW lane, NEW s
  PROVE  /\ DirectionGate(th, lane, s) \in Seq(DirectionRules(th, lane, s))
         /\ FirstFailing(DirectionGate(th, lane, s)) \in Reasons \union {Pass}
<1>1. DirectionGate(th, lane, s) \in Seq(DirectionRules(th, lane, s))
  BY DEF DirectionGate, DirectionRules
<1>2. \A x \in DirectionRules(th, lane, s) : x.veto \in Reasons
  BY DEF DirectionRules, Check, Reasons
<1>3. FirstFailing(DirectionGate(th, lane, s)) # Pass
      => \E x \in DirectionRules(th, lane, s) : FirstFailing(DirectionGate(th, lane, s)) = x.veto
  BY <1>1, FirstFailingIs, Zenon
<1> QED BY <1>1, <1>2, <1>3 DEF Pass

(* A sequence of rules followed by rules is a sequence of rules. *)
LEMMA Followed ==
  ASSUME NEW A, NEW B, NEW a \in Seq(A), NEW b \in Seq(B)
  PROVE  a \o b \in Seq(A \union B)
<1>1. a \in Seq(A \union B) /\ b \in Seq(A \union B)
  OBVIOUS
<1> QED BY <1>1

(* News is refused for having missed the window only after the window. *)
LEMMA EvaluateIs ==
  ASSUME NEW th, NEW lane, NEW s, NEW age, NEW inSession
  PROVE  LET v == Evaluate(th, lane, s, age, inSession)
         IN  v \in Reasons \union {Pass} /\ (v = "GATE_WINDOW" => age > Window)
<1> DEFINE D == DirectionRules(th, lane, s)
           C == {Incredible(CredibilityWithClass(CredibilityRequired(th, s), th), s)}
           I == { Check(age > Window, "GATE_WINDOW"),
                  Check(s.move >= 12, "GATE_EXTENDED"),
                  Check(s.vol = "none", "MARKETDATA_MISSING"),
                  Check(s.move < 3 \/ s.vol = "low", "GATE_NO_CONFIRM"),
                  Check(s.stale, "STALE_MARKETDATA") }
           O == { Check(s.clock \in {"closed", "blackout"}, "GATE_OPEN_WINDOW"),
                  Check(2 * s.gap >= th.magnitude, "PRICED_IN"),
                  Check(s.move >= 12, "GATE_EXTENDED"),
                  Check(th.dir = "up" /\ s.move < 4, "HANDOFF_UNMOVED") }
           ofCredibility == << Incredible(CredibilityWithClass(CredibilityRequired(th, s), th), s) >>
           ofSession == << Check(age > Window, "GATE_WINDOW"),
               Check(s.move >= 12, "GATE_EXTENDED"),
               Check(s.vol = "none", "MARKETDATA_MISSING"),
               Check(s.move < 3 \/ s.vol = "low", "GATE_NO_CONFIRM"),
               Check(s.stale, "STALE_MARKETDATA") >>
           ofOpen == << Check(s.clock \in {"closed", "blackout"}, "GATE_OPEN_WINDOW"),
               Check(2 * s.gap >= th.magnitude, "PRICED_IN"),
               Check(s.move >= 12, "GATE_EXTENDED"),
               Check(th.dir = "up" /\ s.move < 4, "HANDOFF_UNMOVED") >>
           rest == IF inSession THEN ofSession ELSE ofOpen
           checks == DirectionGate(th, lane, s) \o ofCredibility \o rest
<1>1. ofCredibility \in Seq(C)
  OBVIOUS
<1>2. rest \in Seq(I \union O)
  <2>1. ofSession \in Seq(I \union O)
    BY DEF Check
  <2>2. ofOpen \in Seq(I \union O)
    BY DEF Check
  <2> QED BY <2>1, <2>2, Zenon
<1>3. DirectionGate(th, lane, s) \in Seq(D)
  BY DirectionIs, Zenon
<1>4. \A x \in D \union C \union (I \union O) :
        x.veto \in Reasons /\ (x.veto = "GATE_WINDOW" /\ x.on => age > Window)
  <2>1. \A x \in D \union C \union (I \union O) :
          x.veto \in Reasons /\ (x.veto = "GATE_WINDOW" => x = Check(age > Window, "GATE_WINDOW"))
    BY DEF DirectionRules, Incredible, Check, Reasons
  <2>2. Check(age > Window, "GATE_WINDOW").on = (age > Window)
    BY Zenon DEF Check
  <2> HIDE DEF D, C, I, O
  <2> QED BY <2>1, <2>2, Zenon
<1>5. Evaluate(th, lane, s, age, inSession) = FirstFailing(checks)
  BY Zenon DEF Evaluate
<1> HIDE DEF D, C, I, O, ofCredibility, rest
<1>6. checks \in Seq(D \union C \union (I \union O))
  BY <1>1, <1>2, <1>3, Followed, Zenon
<1> HIDE DEF checks
<1>7. FirstFailing(checks) # Pass
      => \E x \in D \union C \union (I \union O) : x.on /\ FirstFailing(checks) = x.veto
  BY <1>6, FirstFailingIs, Zenon
<1> QED BY <1>4, <1>5, <1>7 DEF Pass

LEMMA EvaluateEHIs ==
  ASSUME NEW th, NEW lane, NEW s, NEW age
  PROVE  EvaluateEH(th, lane, s, age) \in Reasons \union {Pass}
<1> DEFINE D == DirectionRules(th, lane, s)
           E == { Incredible(CredibilityRequired(th, s), s),
                  Check(age > Window, "GATE_WINDOW"),
                  Check(s.move >= 12, "GATE_EXTENDED"),
                  Check(~s.twoSided, "EH_LIQUIDITY") }
           rest == << Incredible(CredibilityRequired(th, s), s),
                      Check(age > Window, "GATE_WINDOW"),
                      Check(s.move >= 12, "GATE_EXTENDED"),
                      Check(~s.twoSided, "EH_LIQUIDITY") >>
           checks == DirectionGate(th, lane, s) \o rest
<1>1. rest \in Seq(E)
  OBVIOUS
<1>2. DirectionGate(th, lane, s) \in Seq(D)
  BY DirectionIs, Zenon
<1>3. \A x \in D \union E : x.veto \in Reasons
  BY DEF DirectionRules, Incredible, Check, Reasons
<1>4. EvaluateEH(th, lane, s, age) = FirstFailing(checks)
  BY Zenon DEF EvaluateEH
<1> HIDE DEF D, E, rest
<1>5. checks \in Seq(D \union E)
  BY <1>1, <1>2, Followed, Zenon
<1> HIDE DEF checks
<1>6. FirstFailing(checks) # Pass => \E x \in D \union E : FirstFailing(checks) = x.veto
  BY <1>5, FirstFailingIs, Zenon
<1> QED BY <1>3, <1>4, <1>6 DEF Pass

LEMMA EvaluateScannerIs ==
  ASSUME NEW th, NEW s PROVE EvaluateScanner(th, s) \in Reasons \union {Pass}
<1> DEFINE D == DirectionRules(th, "scanner", s)
           E == { Check(s.late \/ s.ranOn, "SCANNER_STALE"),
                  Check(s.wrongSide, "SCANNER_STRUCTURE"),
                  Check(s.vertical, "SCANNER_PARABOLIC"),
                  Check(~s.twoSided, "SCANNER_LIQUIDITY") }
           rest == << Check(s.late \/ s.ranOn, "SCANNER_STALE"),
                      Check(s.wrongSide, "SCANNER_STRUCTURE"),
                      Check(s.vertical, "SCANNER_PARABOLIC"),
                      Check(~s.twoSided, "SCANNER_LIQUIDITY") >>
           checks == DirectionGate(th, "scanner", s) \o rest
<1>1. rest \in Seq(E)
  OBVIOUS
<1>2. DirectionGate(th, "scanner", s) \in Seq(D)
  BY DirectionIs, Zenon
<1>3. \A x \in D \union E : x.veto \in Reasons
  BY DEF DirectionRules, Check, Reasons
<1>4. EvaluateScanner(th, s) = FirstFailing(checks)
  BY Zenon DEF EvaluateScanner
<1> HIDE DEF D, E, rest
<1>5. checks \in Seq(D \union E)
  BY <1>1, <1>2, Followed, Zenon
<1> HIDE DEF checks
<1>6. FirstFailing(checks) # Pass => \E x \in D \union E : FirstFailing(checks) = x.veto
  BY <1>5, FirstFailingIs, Zenon
<1> QED BY <1>3, <1>4, <1>6 DEF Pass

(* What is done with the verdict on a news thesis adds no other reason. *)
LEMMA NewsVerdictIs ==
  ASSUME NEW m \in Msgs, NEW s
  PROVE  /\ NewsVerdict(m, s) \in Reasons \union {Pass}
         /\ NewsVerdict(m, s) = "GATE_WINDOW" => now > Window
<1> DEFINE e == Evaluate(about[m].th, LaneFor(about[m].th), s, now, about[m].inSession)
<1>1. e \in Reasons \union {Pass} /\ (e = "GATE_WINDOW" => now > Window)
  BY EvaluateIs, Zenon
<1>2. NewsVerdict(m, s) \in {e, "LANE_SOURCE", "GATE_EXTENDED"}
  <2> DEFINE f == LaneSourceFilter(e, about[m].th)
  <2>1. f \in {e, "LANE_SOURCE"}
    BY DEF LaneSourceFilter
  <2>2. NewsVerdict(m, s) \in {f, "GATE_EXTENDED"}
    BY DEF NewsVerdict
  <2> QED BY <2>1, <2>2
<1> HIDE DEF e
<1> QED BY <1>1, <1>2 DEF Reasons, Pass

-----------------------------------------------------------------------------
(* Waiting *)

(* A message for which a further look is planned has minutes enough. *)
LEMMA DeferIsOver ==
  ASSUME NEW th, NEW age \in Nat
  PROVE  ConfirmBars(th) \in Nat /\ (DeferDelay(th, age) > 0 <=> age <= ConfirmBars(th))
BY DEF DeferDelay, ConfirmBars, Larger, Smaller

(* A delay is taken off what remains of the window before its margin. *)
LEMMA RecheckInWindow ==
  ASSUME NEW age \in Nat
  PROVE  /\ RecheckDelay(age) \in Nat
         /\ RecheckDelay(age) > 0 => age + RecheckDelay(age) + Margin <= Window
                                     /\ Cap(age + RecheckDelay(age)) = age + RecheckDelay(age)
BY DEF RecheckDelay, Smaller, Cap

-----------------------------------------------------------------------------
(* Decisions of a message *)

VerdictsIn(decisions, kind) == {i \in DOMAIN decisions : decisions[i].rule = kind}

LEMMA VerdictsFinite ==
  ASSUME NEW decisions \in Seq(Decisions), NEW kind
  PROVE  IsFiniteSet(VerdictsIn(decisions, kind)) /\ Cardinality(VerdictsIn(decisions, kind)) \in Nat
<1>1. IsFiniteSet(1 .. Len(decisions))
  <2>1. Len(decisions) \in Int /\ 1 \in Int
    OBVIOUS
  <2> QED BY <2>1, FS_Interval, Zenon
<1>2. VerdictsIn(decisions, kind) \in SUBSET (1 .. Len(decisions))
  BY DEF VerdictsIn
<1> QED BY <1>1, <1>2, FS_Subset, FS_CardinalityType

(* A decision adds at most one verdict, and one of another rule adds none. *)
LEMMA VerdictsAppend ==
  ASSUME NEW decisions \in Seq(Decisions), NEW kind, NEW row \in Decisions
  PROVE  Cardinality(VerdictsIn(Append(decisions, row), kind))
           <= Cardinality(VerdictsIn(decisions, kind)) + 1
<1> DEFINE new == Len(decisions) + 1
<1>1. VerdictsIn(Append(decisions, row), kind) \in SUBSET (VerdictsIn(decisions, kind) \union {new})
  BY DEF VerdictsIn
<1>2. /\ IsFiniteSet(VerdictsIn(decisions, kind) \union {new})
      /\ Cardinality(VerdictsIn(decisions, kind) \union {new}) <= Cardinality(VerdictsIn(decisions, kind)) + 1
      /\ Cardinality(VerdictsIn(decisions, kind) \union {new}) \in Nat
  <2> HIDE DEF new
  <2>1. IsFiniteSet(VerdictsIn(decisions, kind)) /\ Cardinality(VerdictsIn(decisions, kind)) \in Nat
    BY VerdictsFinite, Zenon
  <2> DEFINE old == VerdictsIn(decisions, kind)
  <2>2. IsFiniteSet(old \union {new})
        /\ Cardinality(old \union {new}) = IF new \in old THEN Cardinality(old) ELSE Cardinality(old) + 1
    BY <2>1, FS_AddElement, Zenon
  <2> HIDE DEF old
  <2>3. Cardinality(old) \in Nat
    BY <2>1 DEF old
  <2>4. Cardinality(old \union {new}) \in Nat /\ Cardinality(old \union {new}) <= Cardinality(old) + 1
    BY <2>2, <2>3
  <2> QED BY <2>2, <2>4 DEF old
<1>3. Cardinality(VerdictsIn(Append(decisions, row), kind)) \in Nat
  BY <1>1, <1>2, FS_Subset, FS_CardinalityType
<1>4. Cardinality(VerdictsIn(Append(decisions, row), kind)) <= Cardinality(VerdictsIn(decisions, kind) \union {new})
  BY <1>1, <1>2, FS_Subset
<1> QED BY <1>2, <1>3, <1>4, VerdictsFinite

LEMMA VerdictsConcat ==
  ASSUME NEW decisions \in Seq(Decisions), NEW kind, NEW more \in Seq(Decisions),
         \A i \in 1 .. Len(more) : more[i].rule # kind
  PROVE  /\ VerdictsIn(decisions \o more, kind) = VerdictsIn(decisions, kind)
         /\ \A i \in VerdictsIn(decisions, kind) : (decisions \o more)[i] = decisions[i]
<1>1. decisions \o more \in Seq(Decisions) /\ Len(decisions \o more) = Len(decisions) + Len(more)
  OBVIOUS
<1>2. \A i \in 1 .. Len(decisions) : (decisions \o more)[i] = decisions[i]
  OBVIOUS
<1>3. \A i \in 1 .. Len(decisions) + Len(more) :
        i > Len(decisions) => i - Len(decisions) \in 1 .. Len(more)
                              /\ (decisions \o more)[i] = more[i - Len(decisions)]
  OBVIOUS
<1>4. DOMAIN (decisions \o more) = 1 .. Len(decisions) + Len(more) /\ DOMAIN decisions = 1 .. Len(decisions)
  BY <1>1
<1>5. ASSUME NEW i \in 1 .. Len(decisions) + Len(more), (decisions \o more)[i].rule = kind
      PROVE  i \in 1 .. Len(decisions)
  <2>1. Len(decisions) \in Nat /\ i \in Nat /\ i >= 1
    OBVIOUS
  <2>2. ASSUME i > Len(decisions) PROVE FALSE
    <3>1. i - Len(decisions) \in 1 .. Len(more) /\ (decisions \o more)[i] = more[i - Len(decisions)]
      BY <1>3, <2>2, Zenon
    <3> QED BY <1>5, <3>1, Zenon
  <2> QED BY <2>1, <2>2
<1>6. 1 .. Len(decisions) \subseteq 1 .. Len(decisions) + Len(more)
  OBVIOUS
<1> QED BY <1>2, <1>4, <1>5, <1>6, Zenon DEF VerdictsIn

(* The shadows of a refusal are no verdicts. *)
LEMMA ShadowsAre ==
  ASSUME NEW m \in Msgs, NEW s, NEW v
  PROVE  /\ Shadows(m, s, v) \in Seq(Decisions)
         /\ \A i \in 1 .. Len(Shadows(m, s, v)) : Shadows(m, s, v)[i].rule \notin Kinds
<1> DEFINE Ghosts == {d \in Decisions : d.rule \in {"fade", "drift_short"}}
<1>1. \A th, lane : LET f == FirstFailing(DirectionGate(th, lane, s))
                    IN  (IF f = Pass THEN "WOULD_TRADE" ELSE f) \in Reasons \union {Pass, "WOULD_TRADE"}
  BY DirectionIs, Zenon
<1>2. \A r \in Reasons \union {Pass, "WOULD_TRADE"} : Row("fade", r) \in Ghosts /\ Row("drift_short", r) \in Ghosts
  BY DEF Row, Decisions, Kinds
<1> HIDE DEF Ghosts
<1>3. FadeRows(m, s, v) \in Seq(Ghosts)
  <2>1. CASE FadeRows(m, s, v) = <<>>
    BY <2>1
  <2>2. CASE \E g \in Ghosts : FadeRows(m, s, v) = <<g>>
    BY <2>2
  <2> QED BY <1>1, <1>2, <2>1, <2>2, Zenon DEF FadeRows
<1>4. DriftRows(m, s, v) \in Seq(Ghosts)
  <2>1. CASE DriftRows(m, s, v) = <<>>
    BY <2>1
  <2>2. CASE \E g \in Ghosts : DriftRows(m, s, v) = <<g>>
    BY <2>2
  <2> QED BY <1>1, <1>2, <2>1, <2>2, Zenon DEF DriftRows
<1>5. Shadows(m, s, v) \in Seq(Ghosts)
  BY <1>3, <1>4 DEF Shadows
<1>6. \A g \in Ghosts : g \in Decisions /\ g.rule \notin Kinds
  BY DEF Ghosts, Kinds
<1>7. Shadows(m, s, v) \in Seq(Decisions)
  <2>1. \A i \in 1 .. Len(Shadows(m, s, v)) : Shadows(m, s, v)[i] \in Decisions
    BY <1>5, <1>6
  <2> QED BY <1>5, <2>1
<1> QED BY <1>5, <1>6, <1>7

-----------------------------------------------------------------------------
(* Every step keeps the invariant *)

(* What a step leaves alone of a message. *)
Same(n) ==
  /\ at'[n] = at[n] /\ due'[n] = due[n] /\ attempts'[n] = attempts[n] /\ rows'[n] = rows[n]
  /\ rechecked'[n] = rechecked[n] /\ late'[n] = late[n] /\ hits'[n] = hits[n]

(* A message that a step leaves alone stays accounted for; time may pass. *)
LEMMA Untouched ==
  ASSUME NEW n \in Msgs, Accounted(n), Same(n), about' = about, now \in Nat, now' \in Nat, now <= now'
  PROVE  Accounted(n)'
<1> USE DEF Same
<1>1. BackInTime(n)'
  <2>1. ConfirmBars(about[n].th) \in Nat
    BY DeferIsOver
  <2> QED BY <2>1 DEF Accounted, BackInTime
<1>2. JudgedLast(n)'
  BY DEF Accounted, JudgedLast
<1>3. Verdicts(n)' = Verdicts(n)
  BY DEF Verdicts
<1>4. NotMisled(n)' /\ VerdictsPaid(n)'
  BY <1>3, Zenon DEF Accounted, NotMisled, VerdictsPaid
<1>5. AttemptsPaid(n)'
  BY DEF Accounted, AttemptsPaid
<1> QED BY <1>1, <1>2, <1>4, <1>5 DEF Accounted

LEMMA GateInit == Init => GateInv
<1> SUFFICES ASSUME Init PROVE GateInv
  OBVIOUS
<1>1. GateShape
  BY DEF Init, GateShape, Places
<1>2. OneInHand /\ RefusalInHand
  BY DEF Init, OneInHand, RefusalInHand, InHand
<1>3. ASSUME NEW m \in Msgs PROVE Accounted(m)
  <2>1. rows[m] = <<>> /\ at[m] = "queued" /\ hits[m] = 0 /\ attempts[m] = 0 /\ ~rechecked[m]
    BY DEF Init
  <2>2. Verdicts(m) = {}
    BY <2>1 DEF Verdicts
  <2>3. Cardinality(Verdicts(m)) = 0
    BY <2>2, FS_EmptySet
  <2> QED BY <2>1, <2>2, <2>3 DEF Accounted, BackInTime, JudgedLast, NotMisled, VerdictsPaid, AttemptsPaid, InHand
<1> QED BY <1>1, <1>2, <1>3 DEF GateInv

(* The clock and the sweep. *)
LEMMA StepClock ==
  ASSUME GateInv, now' \in Nat, now <= now',
         UNCHANGED <<about, at, due, attempts, judged, rows, rechecked, late, hits>>
  PROVE  GateInv'
<1>1. GateShape'
  BY DEF GateInv, GateShape
<1>2. OneInHand' /\ RefusalInHand'
  BY DEF GateInv, OneInHand, RefusalInHand
<1>3. ASSUME NEW m \in Msgs PROVE Accounted(m)'
  BY Untouched DEF GateInv, GateShape, Same
<1> QED BY <1>1, <1>2, <1>3 DEF GateInv

LEMMA StepClaim == ASSUME GateInv, NEW m \in Msgs, Claim(m) PROVE GateInv'
<1> USE DEF Claim
<1>1. GateShape'
  BY SMTT(30) DEF GateInv, GateShape, Places
<1>2. OneInHand' /\ RefusalInHand'
  BY DEF GateInv, GateShape, OneInHand, RefusalInHand, InHand
<1>3. ASSUME NEW n \in Msgs, n # m PROVE Accounted(n)'
  BY <1>3, Untouched DEF GateInv, GateShape, Same
<1>4. Accounted(m)'
  <2> USE DEF GateInv, GateShape, Accounted
  <2>1. at'[m] = "claimed" /\ attempts'[m] = attempts[m] + 1
    OBVIOUS
  <2>2. BackInTime(m)' /\ JudgedLast(m)'
    BY <2>1 DEF BackInTime, JudgedLast
  <2>3. NotMisled(m)' /\ VerdictsPaid(m)'
    BY <2>1 DEF NotMisled, VerdictsPaid, Verdicts
  <2>4. AttemptsPaid(m)'
    BY <2>1, SMTT(30) DEF AttemptsPaid, InHand
  <2> QED BY <2>2, <2>3, <2>4
<1> QED BY <1>1, <1>2, <1>3, <1>4 DEF GateInv

(* What the loop does with the message it has claimed leaves the others alone, *)
(* and none of these is in its hands.                                          *)
LEMMA StepInHand ==
  ASSUME GateInv, NEW m \in Msgs, at[m] \in InHand,
         GateShape', \A n \in Msgs : n # m => Same(n), UNCHANGED <<about, now>>,
         at'[m] = "measuring" =>
           /\ about[m].kind \in Kinds
           /\ judged' \in Seq(Decisions) /\ judged' # <<>>
           /\ \A i \in 2 .. Len(judged') : judged'[i].rule \notin Kinds,
         Accounted(m)'
  PROVE  GateInv'
<1>1. \A n \in Msgs : n # m => at[n] \notin InHand
  BY DEF GateInv, OneInHand
<1>2. OneInHand'
  BY <1>1 DEF OneInHand, Same, InHand
<1>3. RefusalInHand'
  BY <1>1 DEF RefusalInHand, Same, InHand
<1>4. ASSUME NEW n \in Msgs, n # m PROVE Accounted(n)'
  BY <1>4, Untouched DEF GateInv, GateShape
<1> QED BY <1>2, <1>3, <1>4 DEF GateInv

LEMMA StepAck == ASSUME GateInv, NEW m \in Msgs, Ack(m) PROVE GateInv'
<1> USE DEF Ack
<1>1. GateShape'
  BY DEF GateInv, GateShape, Places
<1>2. \A n \in Msgs : n # m => Same(n)
  BY DEF GateInv, GateShape, Same
<1>3. at'[m] = "done" /\ at[m] = "acking"
  BY DEF GateInv, GateShape
<1>4. Accounted(m)'
  BY <1>3 DEF GateInv, GateShape, Accounted, BackInTime, JudgedLast, NotMisled, VerdictsPaid, Verdicts,
              AttemptsPaid, InHand
<1> QED BY <1>1, <1>2, <1>3, <1>4, StepInHand DEF InHand

LEMMA StepCrash == ASSUME GateInv, NEW m \in Msgs, Crash(m) PROVE GateInv'
<1> USE DEF Crash
<1>1. GateShape'
  BY DEF GateInv, GateShape, Places
<1>2. \A n \in Msgs : n # m => Same(n)
  BY DEF GateInv, GateShape, Same
<1>3. at'[m] = "stranded" /\ at[m] \in InHand
  BY DEF GateInv, GateShape, InHand
<1>4. Accounted(m)'
  <2> USE DEF GateInv, GateShape, Accounted
  <2>1. BackInTime(m)' /\ JudgedLast(m)' /\ NotMisled(m)' /\ AttemptsPaid(m)'
    BY <1>3 DEF BackInTime, JudgedLast, NotMisled, Verdicts, AttemptsPaid, InHand
  <2>2. Cardinality(Verdicts(m)) \in Nat
    <3>1. rows[m] \in Seq(Decisions) /\ Verdicts(m) = VerdictsIn(rows[m], about[m].kind)
      BY DEF Verdicts, VerdictsIn
    <3> QED BY <3>1, VerdictsFinite
  <2>3. Cardinality(Verdicts(m)) <= hits[m] + 1
    BY <2>2 DEF VerdictsPaid
  <2>4. VerdictsPaid(m)'
    BY <1>3, <2>3 DEF VerdictsPaid, Verdicts
  <2> QED BY <2>1, <2>4
<1> QED BY <1>1, <1>2, <1>3, <1>4, StepInHand

(* An exception costs an attempt and is a fault, unless names are not bound. *)
LEMMA StepRaise ==
  ASSUME GateInv, NEW m \in Msgs, Raise(m),
         \/ at[m] \in {"claimed", "acking"} /\ hits' = [hits EXCEPT ![m] = @ + 1]
         \/ at[m] = "claimed" /\ ~NamesBound /\ about[m].kind = "news" /\ UNCHANGED hits
  PROVE  GateInv'
<1> USE DEF Raise
<1>1. at[m] \in {"claimed", "acking"} /\ about' = about /\ now' = now
  OBVIOUS
<1>2. GateShape'
  <2>1. GateShape
    BY DEF GateInv
  <2>2. /\ UNCHANGED <<attempts, rows, rechecked>>
        /\ at' = [at EXCEPT ![m] = IF attempts[m] >= MaxAttempts THEN "dead" ELSE "queued"]
        /\ due' = [due EXCEPT ![m] = Cap(now + attempts[m])]
        /\ late' = [late EXCEPT ![m] = TRUE]
        /\ hits' = [hits EXCEPT ![m] = @ + 1] \/ hits' = hits
    BY Zenon
  <2> HIDE DEF Raise
  <2> HIDE GateAssumption
  <2>3. at' \in [Msgs -> Places]
    BY <2>1, <2>2 DEF GateShape, Places
  <2>4. DOMAIN due' = Msgs
    BY <2>1, <2>2, Zenon DEF GateShape
  <2>5. late' \in [Msgs -> BOOLEAN]
    BY <2>1, <2>2 DEF GateShape
  <2>6. hits' \in [Msgs -> Nat]
    BY <2>1, <2>2 DEF GateShape
  <2> QED BY <1>1, <2>1, <2>2, <2>3, <2>4, <2>5, <2>6 DEF GateShape
<1>3. \A n \in Msgs : n # m => Same(n)
  BY DEF GateInv, GateShape, Same
<1>4. /\ at'[m] = IF attempts[m] >= MaxAttempts THEN "dead" ELSE "queued"
      /\ late'[m] /\ rechecked'[m] = rechecked[m] /\ rows'[m] = rows[m] /\ attempts'[m] = attempts[m]
      /\ hits[m] \in Nat /\ hits'[m] \in Nat /\ attempts[m] \in Int
  BY <1>2 DEF GateInv, GateShape
<1>5. \/ hits'[m] = hits[m] + 1
      \/ at[m] = "claimed" /\ ~NamesBound /\ about[m].kind = "news" /\ hits'[m] = hits[m]
  BY DEF GateInv, GateShape
<1> HIDE DEF Raise
<1>6. Accounted(m)'
  <2>1. Accounted(m)
    BY DEF GateInv
  <2>2. BackInTime(m)'
    BY <1>1, <1>4, <2>1 DEF Accounted, BackInTime
  <2>7. JudgedLast(m)' /\ NotMisled(m)'
    <3>1. late'[m]
      BY <1>4
    <3> QED BY <3>1 DEF JudgedLast, NotMisled
  <2>3. Cardinality(Verdicts(m)) \in Nat /\ Verdicts(m)' = Verdicts(m)
    <3>1. Verdicts(m) = VerdictsIn(rows[m], about[m].kind) /\ rows[m] \in Seq(Decisions)
      BY DEF Verdicts, VerdictsIn, GateInv, GateShape
    <3>2. Verdicts(m)' = Verdicts(m)
      BY <1>1, <1>4, Zenon DEF Verdicts
    <3> QED BY <3>1, <3>2, VerdictsFinite
  <2>4. Cardinality(Verdicts(m)) <= hits'[m]
    BY <1>1, <1>4, <1>5, <2>1, <2>3 DEF Accounted, VerdictsPaid
  <2>5. VerdictsPaid(m)'
    BY <1>4, <2>3, <2>4 DEF VerdictsPaid
  <2>6. AttemptsPaid(m)'
    BY <1>1, <1>4, <1>5, <2>1 DEF Accounted, AttemptsPaid, InHand
  <2> QED BY <2>2, <2>5, <2>6, <2>7 DEF Accounted
<1>7. at[m] \in InHand /\ at'[m] # "measuring"
  BY <1>1, <1>4 DEF InHand
<1> QED BY <1>1, <1>2, <1>3, <1>6, <1>7, StepInHand

(* A thesis that waits for its first look has not been put off by a veto. *)
LEMMA StepAwait == ASSUME GateInv, NEW m \in Msgs, Await(m) PROVE GateInv'
<1> DEFINE delay == DeferDelay(about[m].th, now)
<1>1. at[m] = "claimed" /\ PutOff(m, delay) /\ delay > 0 /\ rechecked' = rechecked
  BY DEF Await, PutOffFirst
<1>2. now \in Nat /\ ~rechecked[m]
  BY <1>1, DeferIsOver DEF GateInv, GateShape, Accounted, BackInTime
<1> HIDE DEF delay
<1> USE DEF PutOff
<1>3. GateShape'
  BY <1>1, SMTT(30) DEF GateInv, GateShape, Places
<1>4. \A n \in Msgs : n # m => Same(n)
  BY <1>1 DEF GateInv, GateShape, Same
<1>5. at'[m] = "queued" /\ attempts'[m] = attempts[m] - 1 /\ about' = about /\ now' = now
  BY <1>1 DEF GateInv, GateShape
<1>6. Accounted(m)'
  <2>1. rows' = rows /\ late' = late /\ hits' = hits /\ ~rechecked'[m] /\ Accounted(m)
    BY <1>1, <1>2 DEF GateInv
  <2>2. BackInTime(m)' /\ NotMisled(m)'
    BY <2>1 DEF BackInTime, NotMisled
  <2>3. JudgedLast(m)' /\ VerdictsPaid(m)'
    BY <1>1, <1>5, <2>1 DEF Accounted, JudgedLast, VerdictsPaid, Verdicts
  <2>4. AttemptsPaid(m)'
    BY <1>1, <1>3, <1>5, <2>1, SMTT(30) DEF Accounted, AttemptsPaid, InHand, GateInv, GateShape
  <2> QED BY <2>2, <2>3, <2>4 DEF Accounted
<1> QED BY <1>1, <1>3, <1>4, <1>5, <1>6, StepInHand DEF InHand

(* A veto that can still change is looked at again inside the window. *)
LEMMA StepRecheck ==
  ASSUME GateInv, NEW m \in Msgs, NEW v, at[m] = "claimed", about[m].kind = "news",
         CanChange(m, v), ~PutOffFirst(m), RecheckDelay(now) > 0, Recheck(m, v),
         rechecked' = [rechecked EXCEPT ![m] = TRUE]
  PROVE  GateInv'
<1>1. now \in Nat /\ now > ConfirmBars(about[m].th)
  <2>1. now \in Nat
    BY DEF GateInv, GateShape
  <2>2. ~(DeferDelay(about[m].th, now) > 0)
    BY DEF CanChange, PutOffFirst
  <2> QED BY <2>1, <2>2, DeferIsOver
<1>2. /\ Cap(now + RecheckDelay(now)) \in Nat
      /\ Cap(now + RecheckDelay(now)) + Margin <= Window
  BY <1>1, RecheckInWindow
<1> USE DEF Recheck, PutOff
<1>3. GateShape'
  BY SMTT(30) DEF GateInv, GateShape, Places
<1>4. \A n \in Msgs : n # m => Same(n)
  BY DEF GateInv, GateShape, Same
<1>5. /\ at'[m] = "queued" /\ attempts'[m] = attempts[m] - 1 /\ about' = about /\ now' = now
      /\ due'[m] = Cap(now + RecheckDelay(now)) /\ rows' = rows /\ late' = late /\ hits' = hits
      /\ rechecked'[m]
  BY DEF GateInv, GateShape
<1> HIDE DEF Recheck, PutOff
<1>6. Accounted(m)
  BY DEF GateInv
<1>7. BackInTime(m)'
  BY <1>1, <1>2, <1>5 DEF BackInTime
<1>8. JudgedLast(m)'
  BY <1>5, <1>6 DEF Accounted, JudgedLast
<1>9. NotMisled(m)'
  <2>1. late[m] \/ Verdicts(m)' = {}
    BY <1>5, <1>6 DEF Accounted, JudgedLast, Verdicts
  <2> QED BY <1>5, <2>1 DEF NotMisled
<1>10. VerdictsPaid(m)'
  BY <1>5, <1>6 DEF Accounted, VerdictsPaid, Verdicts
<1>11. AttemptsPaid(m)'
  BY <1>3, <1>5, <1>6, SMTT(30) DEF Accounted, AttemptsPaid, InHand, GateInv, GateShape
<1>12. Accounted(m)'
  BY <1>7, <1>8, <1>9, <1>10, <1>11 DEF Accounted
<1> QED BY <1>3, <1>4, <1>5, <1>12, StepInHand DEF InHand

(* One more decision on the message in hand: a verdict of its own rule. *)
LEMMA Journaled ==
  ASSUME GateInv, NEW m \in Msgs, NEW verdict \in Reasons \union {Pass, "WOULD_TRADE"},
         at[m] = "claimed", about' = about, hits' = hits, rechecked' = rechecked,
         about[m].kind \in Kinds, rows' \in [Msgs -> Seq(Decisions)],
         rows'[m] = Append(rows[m], Row(about[m].kind, verdict)),
         at'[m] \in {"measuring", "acking"}, late'[m] \in BOOLEAN, late[m] => late'[m],
         verdict = "GATE_WINDOW" => ~rechecked[m] \/ late'[m]
  PROVE  JudgedLast(m)' /\ NotMisled(m)' /\ VerdictsPaid(m)'
<1> DEFINE kind == about[m].kind
           row  == Row(kind, verdict)
<1>1. Accounted(m) /\ rows[m] \in Seq(Decisions) /\ hits[m] \in Nat
  BY DEF GateInv, GateShape
<1>2. row \in Decisions
  BY DEF Row, Decisions
<1>3. Verdicts(m) = VerdictsIn(rows[m], kind) /\ Verdicts(m)' = VerdictsIn(Append(rows[m], row), kind)
  BY Zenon DEF Verdicts, VerdictsIn
<1>4. JudgedLast(m)'
  BY DEF JudgedLast
<1>5. NotMisled(m)'
  <2> SUFFICES ASSUME NEW i \in Verdicts(m)', rows'[m][i].verdict = "GATE_WINDOW", rechecked[m]
               PROVE  late'[m]
    BY DEF NotMisled
  <2>1. CASE i = Len(rows[m]) + 1
    <3>1. rows'[m][i].verdict = verdict
      BY <1>1, <1>2, <2>1 DEF Row
    <3> QED BY <3>1
  <2>2. CASE i # Len(rows[m]) + 1
    <3>1. i \in DOMAIN rows[m] /\ rows'[m][i] = rows[m][i] /\ rows'[m][i].rule = kind
      BY <1>1, <1>2, <1>3, <2>2, SMTT(30) DEF VerdictsIn
    <3>2. i \in Verdicts(m)
      BY <3>1 DEF Verdicts
    <3> QED BY <1>1, <3>1, <3>2 DEF Accounted, NotMisled
  <2> QED BY <2>1, <2>2
<1>6. VerdictsPaid(m)'
  <2>1. Cardinality(Verdicts(m)) <= hits[m]
    BY <1>1 DEF Accounted, VerdictsPaid
  <2>2. Cardinality(Verdicts(m)) \in Nat /\ Cardinality(Verdicts(m)') <= Cardinality(Verdicts(m)) + 1
    BY <1>1, <1>2, <1>3, VerdictsAppend, VerdictsFinite, Zenon
  <2>3. Append(rows[m], row) \in Seq(Decisions)
    BY <1>1, <1>2
  <2>4. Cardinality(Verdicts(m)') \in Nat
    BY <1>3, <2>3, VerdictsFinite, Zenon
  <2>5. Cardinality(Verdicts(m)') <= hits[m] + 1
    BY <1>1, <2>1, <2>2, <2>4, SMTT(30)
  <2> QED BY <2>5 DEF VerdictsPaid
<1> QED BY <1>4, <1>5, <1>6

LEMMA StepLetPass ==
  ASSUME GateInv, NEW m \in Msgs, at[m] = "claimed", about[m].kind \in Kinds,
         LetPass(m, about[m].kind)
  PROVE  GateInv'
<1> USE DEF LetPass, Journal
<1>1. Row(about[m].kind, Pass) \in Decisions
  BY DEF Row, Decisions
<1>2. GateShape'
  BY <1>1 DEF GateInv, GateShape, Places
<1>3. \A n \in Msgs : n # m => Same(n)
  BY DEF GateInv, GateShape, Same
<1>4. /\ at'[m] = "acking" /\ UNCHANGED <<about, now, due, attempts, rechecked, late, hits>>
      /\ rows'[m] = Append(rows[m], Row(about[m].kind, Pass))
  BY DEF GateInv, GateShape
<1> HIDE DEF LetPass, Journal
<1>5. JudgedLast(m)' /\ NotMisled(m)' /\ VerdictsPaid(m)'
  <2>1. late'[m] \in BOOLEAN /\ (late[m] => late'[m]) /\ rows' \in [Msgs -> Seq(Decisions)]
    BY <1>2, <1>4 DEF GateShape
  <2>2. Pass \in Reasons \union {Pass, "WOULD_TRADE"} /\ Pass # "GATE_WINDOW"
    BY DEF Pass
  <2> QED BY <1>4, <2>1, <2>2, Journaled, Zenon
<1>6. BackInTime(m)' /\ AttemptsPaid(m)'
  BY <1>4 DEF GateInv, Accounted, BackInTime, AttemptsPaid, InHand
<1> QED BY <1>2, <1>3, <1>4, <1>5, <1>6, StepInHand DEF InHand, Accounted

LEMMA StepRefuse ==
  ASSUME GateInv, NEW m \in Msgs, at[m] = "claimed", about[m].kind \in Kinds,
         NEW verdict \in Reasons \union {"WOULD_TRADE"}, NEW shadows \in Seq(Decisions),
         \A i \in 1 .. Len(shadows) : shadows[i].rule \notin Kinds,
         about[m].kind = "news" /\ verdict = "GATE_WINDOW" => now > Window,
         Refuse(m, about[m].kind, verdict, shadows)
  PROVE  GateInv'
<1> USE DEF Refuse, Journal
<1> DEFINE row == Row(about[m].kind, verdict)
<1>1. row \in Decisions
  BY DEF Row, Decisions
<1>2. GateShape'
  BY <1>1, SMTT(30) DEF GateInv, GateShape, Places
<1>3. \A n \in Msgs : n # m => Same(n)
  BY DEF GateInv, GateShape, Same
<1>4. /\ at'[m] = "measuring" /\ UNCHANGED <<about, now, due, attempts, rechecked, hits>>
      /\ rows'[m] = Append(rows[m], row) /\ judged' = <<row>> \o shadows
      /\ late'[m] = (late[m] \/ now > due[m] + Margin)
  BY Zenon DEF GateInv, GateShape
<1> HIDE DEF Refuse, Journal
<1>5. Accounted(m)
  BY DEF GateInv
<1>6. JudgedLast(m)' /\ NotMisled(m)' /\ VerdictsPaid(m)'
  <2>1. late'[m] \in BOOLEAN /\ (late[m] => late'[m]) /\ rows' \in [Msgs -> Seq(Decisions)]
    BY <1>2, <1>4 DEF GateShape
  <2>2. ASSUME verdict = "GATE_WINDOW", rechecked[m], ~late'[m] PROVE FALSE
    <3>1. about[m].kind = "news" /\ due[m] \in Nat /\ due[m] + Margin <= Window
      BY <1>5, <2>1, <2>2 DEF Accounted, BackInTime
    <3>2. now > Window /\ now \in Nat
      BY <2>2, <3>1 DEF GateInv, GateShape
    <3>3. now > due[m] + Margin
      BY <3>1, <3>2
    <3> QED BY <1>4, <2>2, <3>3
  <2>3. verdict = "GATE_WINDOW" => ~rechecked[m] \/ late'[m]
    BY <2>2
  <2> QED BY <1>4, <2>1, <2>3, Journaled, Zenon
<1>7. BackInTime(m)' /\ AttemptsPaid(m)'
  BY <1>4, <1>5 DEF Accounted, BackInTime, AttemptsPaid, InHand
<1>8. /\ judged' \in Seq(Decisions) /\ judged' # <<>>
      /\ \A i \in 2 .. Len(judged') : judged'[i].rule \notin Kinds
  <2> HIDE DEF row
  <2>1. <<row>> \o shadows \in Seq(Decisions) /\ Len(<<row>> \o shadows) = Len(shadows) + 1
    BY <1>1
  <2>2. <<row>> \o shadows # <<>>
    BY <2>1
  <2>3. ASSUME NEW i \in 2 .. Len(shadows) + 1
        PROVE  i - 1 \in 1 .. Len(shadows) /\ (<<row>> \o shadows)[i] = shadows[i - 1]
    BY <1>1
  <2> QED BY <1>4, <2>1, <2>2, <2>3
<1> QED BY <1>2, <1>3, <1>4, <1>6, <1>7, <1>8, StepInHand DEF InHand, Accounted

(* The measurement journals shadows at most. *)
LEMMA StepMeasure == ASSUME GateInv, NEW m \in Msgs, Measure(m) PROVE GateInv'
<1>1. /\ at[m] = "measuring" /\ at' = [at EXCEPT ![m] = "acking"]
      /\ UNCHANGED <<about, now, due, attempts, rechecked, late, hits>>
  BY DEF Measure
<1>2. PICK more \in {<<>>, Tail(judged)} : rows' = [rows EXCEPT ![m] = @ \o more]
  <2>1. \/ rows' = [rows EXCEPT ![m] = @ \o Tail(judged)]
        \/ \E journaled \in {<<>>, Tail(judged)} : rows' = [rows EXCEPT ![m] = @ \o journaled]
    BY Zenon DEF Measure
  <2> QED BY <2>1
<1>3. about[m].kind \in Kinds /\ judged \in Seq(Decisions) /\ judged # <<>>
      /\ \A i \in 2 .. Len(judged) : judged[i].rule \notin Kinds
  BY <1>1 DEF GateInv, RefusalInHand
<1>4. more \in Seq(Decisions) /\ \A i \in 1 .. Len(more) : more[i].rule \notin Kinds
  <2>1. CASE more = <<>>
    BY <2>1
  <2>2. CASE more = Tail(judged)
    <3>1. /\ Tail(judged) \in Seq(Decisions) /\ Len(Tail(judged)) = Len(judged) - 1
          /\ \A i \in 1 .. Len(judged) - 1 : Tail(judged)[i] = judged[i + 1] /\ i + 1 \in 2 .. Len(judged)
      BY <1>3
    <3> QED BY <1>3, <2>2, <3>1
  <2> QED BY <1>2, <2>1, <2>2
<1>5. GateShape'
  BY <1>1, <1>2, <1>4, SMTT(30) DEF GateInv, GateShape, Places
<1>6. \A n \in Msgs : n # m => Same(n)
  BY <1>1, <1>2 DEF GateInv, GateShape, Same
<1>7. at'[m] = "acking" /\ rows'[m] = rows[m] \o more
  BY <1>1, <1>2 DEF GateInv, GateShape
<1>8. Accounted(m)
  BY DEF GateInv
<1>9. BackInTime(m)' /\ JudgedLast(m)' /\ AttemptsPaid(m)'
  BY <1>1, <1>7, <1>8 DEF Accounted, BackInTime, JudgedLast, AttemptsPaid, InHand
<1>10. /\ Verdicts(m)' = Verdicts(m)
       /\ \A i \in Verdicts(m) : rows'[m][i] = rows[m][i]
  <2>1. rows[m] \in Seq(Decisions)
    BY DEF GateInv, GateShape
  <2>2. Verdicts(m) = VerdictsIn(rows[m], about[m].kind)
        /\ Verdicts(m)' = VerdictsIn(rows[m] \o more, about[m].kind)
    BY <1>1, <1>7, Zenon DEF Verdicts, VerdictsIn
  <2>3. \A i \in 1 .. Len(more) : more[i].rule # about[m].kind
    BY <1>3, <1>4
  <2>4. /\ VerdictsIn(rows[m] \o more, about[m].kind) = VerdictsIn(rows[m], about[m].kind)
        /\ \A i \in VerdictsIn(rows[m], about[m].kind) : (rows[m] \o more)[i] = rows[m][i]
    BY <1>4, <2>1, <2>3, VerdictsConcat
  <2> QED BY <1>7, <2>2, <2>4, Zenon
<1>11. NotMisled(m)' /\ VerdictsPaid(m)'
  <2>1. NotMisled(m)'
    BY <1>1, <1>8, <1>10, Zenon DEF Accounted, NotMisled
  <2>2. VerdictsPaid(m)'
    BY <1>1, <1>7, <1>8, <1>10 DEF Accounted, VerdictsPaid
  <2> QED BY <2>1, <2>2
<1> QED BY <1>1, <1>5, <1>6, <1>7, <1>9, <1>11, StepInHand DEF InHand, Accounted

(* The handlers choose between the steps above. *)
LEMMA StepJudge == ASSUME GateInv, NEW m \in Msgs, at[m] = "claimed", Judge(m) PROVE GateInv'
<1>1. CASE Await(m)
  BY <1>1, StepAwait
<1>2. CASE Unbound(m)
  BY <1>2, StepRaise DEF Unbound
<1>3. ASSUME NEW s, JudgeNews(m, s) PROVE GateInv'
  <2> DEFINE v == NewsVerdict(m, s)
  <2>1. about[m].kind = "news" /\ ~PutOffFirst(m)
    BY <1>3 DEF JudgeNews
  <2>2. v \in Reasons \union {Pass} /\ (v = "GATE_WINDOW" => now > Window)
    BY NewsVerdictIs, Zenon
  <2>3. \/ LetPass(m, "news")
        \/ v # Pass /\ Refuse(m, "news", v, Shadows(m, s, v))
        \/ /\ CanChange(m, v) /\ RecheckDelay(now) > 0 /\ Recheck(m, v)
           /\ rechecked' = [rechecked EXCEPT ![m] = TRUE]
    BY <1>3, Zenon DEF JudgeNews
  <2> HIDE DEF v
  <2>4. CASE LetPass(m, "news")
    BY <2>1, <2>4, StepLetPass DEF Kinds
  <2>5. CASE v # Pass /\ Refuse(m, "news", v, Shadows(m, s, v))
    <3>1. Shadows(m, s, v) \in Seq(Decisions)
          /\ \A i \in 1 .. Len(Shadows(m, s, v)) : Shadows(m, s, v)[i].rule \notin Kinds
      BY ShadowsAre, Zenon
    <3>2. v \in Reasons \union {"WOULD_TRADE"} /\ about[m].kind \in Kinds
      BY <2>1, <2>2, <2>5 DEF Kinds
    <3> QED BY <2>1, <2>2, <2>5, <3>1, <3>2, StepRefuse, Zenon
  <2>6. CASE /\ CanChange(m, v) /\ RecheckDelay(now) > 0 /\ Recheck(m, v)
             /\ rechecked' = [rechecked EXCEPT ![m] = TRUE]
    BY <2>1, <2>6, StepRecheck, Zenon
  <2> QED BY <2>3, <2>4, <2>5, <2>6
<1>4. /\ <<>> \in Seq(Decisions)
      /\ \A i \in 1 .. Len(<<>>) : <<>>[i].rule \notin Kinds
  OBVIOUS
<1>5. ASSUME NEW s, JudgeScanner(m, s) PROVE GateInv'
  <2> DEFINE v == EvaluateScanner(about[m].th, s)
  <2>1. about[m].kind = "scanner" /\ (IF v = Pass THEN LetPass(m, "scanner") ELSE Refuse(m, "scanner", v, <<>>))
    BY <1>5, Zenon DEF JudgeScanner
  <2>2. v \in Reasons \union {Pass}
    BY EvaluateScannerIs, Zenon
  <2> HIDE DEF v
  <2>3. CASE LetPass(m, "scanner")
    BY <2>1, <2>3, StepLetPass DEF Kinds
  <2>4. CASE v # Pass /\ Refuse(m, "scanner", v, <<>>)
    <3>1. v \in Reasons \union {"WOULD_TRADE"} /\ about[m].kind \in Kinds /\ about[m].kind # "news"
      BY <2>1, <2>2, <2>4 DEF Kinds
    <3> QED BY <1>4, <2>1, <2>4, <3>1, StepRefuse, Zenon
  <2> QED BY <2>1, <2>3, <2>4
<1>6. ASSUME NEW s, JudgeExtendedHours(m, s) PROVE GateInv'
  <2> DEFINE e == EvaluateEH(about[m].th, LaneFor([about[m].th EXCEPT !.offering = FALSE]), s, now)
             v == IF e = Pass THEN "WOULD_TRADE" ELSE e
  <2>1. about[m].kind = "eh_shadow" /\ Refuse(m, "eh_shadow", v, <<>>)
    BY <1>6, Zenon DEF JudgeExtendedHours
  <2>2. v \in Reasons \union {"WOULD_TRADE"}
    <3>1. e \in Reasons \union {Pass}
      BY EvaluateEHIs, Zenon
    <3> HIDE DEF e
    <3> QED BY <3>1
  <2> HIDE DEF v
  <2>3. about[m].kind \in Kinds /\ about[m].kind # "news"
    BY <2>1 DEF Kinds
  <2> QED BY <1>4, <2>1, <2>2, <2>3, StepRefuse, Zenon
<1> QED BY <1>1, <1>2, <1>3, <1>5, <1>6, Zenon DEF Judge

LEMMA StepGate == GateInv /\ [Next]_vars => GateInv'
<1> SUFFICES ASSUME GateInv, [Next]_vars PROVE GateInv'
  OBVIOUS
<1>1. now \in Nat
  BY DEF GateInv, GateShape
<1>2. CASE Tick
  BY <1>1, <1>2, StepClock DEF Tick
<1>3. CASE Sweep \/ SessionCloses \/ RowGoesStale
  <2>1. UNCHANGED <<about, now, at, due, attempts, judged, rows, rechecked, late, hits>>
    BY <1>3, Zenon DEF Sweep, SessionCloses, RowGoesStale
  <2> QED BY <1>1, <2>1, StepClock
<1>4. ASSUME NEW m \in Msgs, Serve(m) PROVE GateInv'
  BY <1>4, StepClaim, StepJudge, StepMeasure, StepAck, Zenon DEF Serve
<1>5. ASSUME NEW m \in Msgs, Fault(m) PROVE GateInv'
  BY <1>5, StepRaise, Zenon DEF Fault
<1>6. ASSUME NEW m \in Msgs, Crash(m) PROVE GateInv'
  BY <1>6, StepCrash
<1>7. CASE UNCHANGED vars
  BY <1>1, <1>7, StepClock DEF vars
<1> QED BY <1>2, <1>3, <1>4, <1>5, <1>6, <1>7, Zenon DEF Next

LEMMA InductiveGate == Spec => []GateInv
BY GateInit, StepGate, PTL DEF Spec

(* C3: the last look lands before the window ends.  Over any number of first *)
(* looks, rechecks, failures and redeliveries, a thesis that was put off and *)
(* came back on time is not refused for having missed the window.            *)
THEOREM GateNoMisleadingWindow == Spec => []NoMisleadingWindow
<1>1. GateInv => NoMisleadingWindow
  BY Zenon DEF GateInv, Accounted, NotMisled, NoMisleadingWindow
<1> QED BY <1>1, InductiveGate, PTL

(* C3: the journal holds one verdict of a thesis, and a further one only for *)
(* a fault that struck after the verdict had been written.                   *)
THEOREM GateJudgedOncePerFault == Spec => []JudgedOncePerFault
<1>1. GateInv => JudgedOncePerFault
  <2> SUFFICES ASSUME GateInv, NEW m \in Msgs PROVE Cardinality(Verdicts(m)) <= 1 + hits[m]
    BY DEF JudgedOncePerFault
  <2>1. rows[m] \in Seq(Decisions) /\ hits[m] \in Nat
        /\ Verdicts(m) = VerdictsIn(rows[m], about[m].kind)
    BY DEF GateInv, GateShape, Verdicts, VerdictsIn
  <2>2. Cardinality(Verdicts(m)) \in Nat
    BY <2>1, VerdictsFinite
  <2>3. VerdictsPaid(m)
    BY Zenon DEF GateInv, Accounted
  <2> QED BY <2>1, <2>2, <2>3 DEF VerdictsPaid
<1> QED BY <1>1, InductiveGate, PTL

(* Where names are not bound, a thesis of news is never judged. *)
Unjudged ==
  \A m \in Msgs : ~NamesBound /\ about[m].kind = "news" =>
    at[m] \in {"queued", "claimed", "dead", "stranded"} /\ rows[m] = <<>> /\ m \notin risk

LEMMA StepUnjudged == GateInv /\ Unjudged /\ [Next]_vars => Unjudged'
<1> SUFFICES ASSUME GateInv, Unjudged, [Next]_vars,
                    NEW m \in Msgs, ~NamesBound, about'[m].kind = "news"
             PROVE  /\ at'[m] \in {"queued", "claimed", "dead", "stranded"}
                    /\ rows'[m] = <<>> /\ m \notin risk'
  BY DEF Unjudged
<1>1. at \in [Msgs -> Places] /\ rows \in [Msgs -> Seq(Decisions)]
  BY DEF GateInv, GateShape
<1>2. about' = about
  <2>1. ASSUME NEW n \in Msgs, Judge(n) PROVE about' = about
    <3>1. CASE Await(n)
      BY <3>1, Zenon DEF Await, PutOff
    <3>2. CASE Unbound(n)
      BY <3>2, Zenon DEF Unbound, Raise
    <3>3. ASSUME NEW s, JudgeNews(n, s) PROVE about' = about
      BY <3>3 DEF JudgeNews
    <3>4. ASSUME NEW s, JudgeScanner(n, s) \/ JudgeExtendedHours(n, s) PROVE about' = about
      <4>1. PICK rule, verdict, shadows : LetPass(n, rule) \/ Refuse(n, rule, verdict, shadows)
        BY <3>4, Zenon DEF JudgeScanner, JudgeExtendedHours
      <4> QED BY <4>1, Zenon DEF LetPass, Refuse
    <3> QED BY <2>1, <3>1, <3>2, <3>3, <3>4, Zenon DEF Judge
  <2>2. ASSUME NEW n \in Msgs, Serve(n) \/ Fault(n) \/ Crash(n) PROVE about' = about
    <3>1. Judge(n) \/ Claim(n) \/ Measure(n) \/ Ack(n) \/ Raise(n) \/ Crash(n)
      BY <2>2, Zenon DEF Serve, Fault
    <3>2. CASE Claim(n) \/ Measure(n) \/ Ack(n)
      BY <3>2, Zenon DEF Claim, Measure, Ack
    <3>3. CASE Raise(n) \/ Crash(n)
      BY <3>3, Zenon DEF Raise, Crash
    <3> QED BY <2>1, <3>1, <3>2, <3>3
  <2>3. CASE Tick \/ Sweep \/ SessionCloses \/ RowGoesStale \/ UNCHANGED vars
    BY <2>3, Zenon DEF Tick, Sweep, SessionCloses, RowGoesStale, vars
  <2> QED BY <2>2, <2>3, Zenon DEF Next
<1>3. about[m].kind = "news" /\ at[m] \in {"queued", "claimed", "dead", "stranded"}
      /\ rows[m] = <<>> /\ m \notin risk
  BY <1>2 DEF Unjudged
<1>4. CASE UNCHANGED <<at, rows, risk>>
  BY <1>3, <1>4
<1>5. ASSUME NEW n \in Msgs, rows' = rows, risk' = risk,
             NEW place \in {"queued", "claimed", "dead", "stranded"}, at' = [at EXCEPT ![n] = place]
      PROVE  at'[m] \in {"queued", "claimed", "dead", "stranded"} /\ rows'[m] = <<>> /\ m \notin risk'
  BY <1>1, <1>3, <1>5
<1>6. ASSUME NEW n \in Msgs, n # m,
             NEW place, at' = [at EXCEPT ![n] = place], risk' \in {risk, risk \union {n}},
             rows'[m] = rows[m]
      PROVE  at'[m] \in {"queued", "claimed", "dead", "stranded"} /\ rows'[m] = <<>> /\ m \notin risk'
  BY <1>1, <1>3, <1>6
<1>7. ASSUME NEW n \in Msgs, Serve(n)
      PROVE  at'[m] \in {"queued", "claimed", "dead", "stranded"} /\ rows'[m] = <<>> /\ m \notin risk'
  <2>1. CASE Claim(n)
    BY <1>5, <2>1, Zenon DEF Claim
  <2>2. CASE Measure(n) \/ Ack(n)
    <3>1. at[n] \in {"measuring", "acking"}
      BY <2>2 DEF Measure, Ack
    <3>2. n # m
      BY <1>3, <3>1
    <3>3. risk' = risk /\ rows'[m] = rows[m]
      <4>1. risk' = risk /\ (rows' = rows \/ \E more : rows' = [rows EXCEPT ![n] = more])
        BY <2>2, Zenon DEF Measure, Ack
      <4> QED BY <1>1, <3>2, <4>1
    <3>4. at' = [at EXCEPT ![n] = "acking"] \/ at' = [at EXCEPT ![n] = "done"]
      BY <2>2, Zenon DEF Measure, Ack
    <3> QED BY <1>6, <3>2, <3>3, <3>4
  <2>3. CASE Await(n)
    <3>1. rows' = rows /\ risk' = risk /\ at' = [at EXCEPT ![n] = "queued"]
      BY <2>3, Zenon DEF Await, PutOff
    <3> QED BY <1>5, <3>1
  <2>4. CASE Unbound(n)
    <3>1. rows' = rows /\ risk' = risk
          /\ at' = [at EXCEPT ![n] = IF attempts[n] >= MaxAttempts THEN "dead" ELSE "queued"]
      BY <2>4, Zenon DEF Unbound, Raise
    <3> QED BY <1>5, <3>1
  <2>5. ASSUME NEW s, JudgeNews(n, s) PROVE FALSE
    BY <2>5 DEF JudgeNews
  <2>6. ASSUME NEW s, JudgeScanner(n, s) \/ JudgeExtendedHours(n, s)
        PROVE  at'[m] \in {"queued", "claimed", "dead", "stranded"} /\ rows'[m] = <<>> /\ m \notin risk'
    <3>1. n # m
      <4>1. about[n].kind # "news"
        BY <2>6 DEF JudgeScanner, JudgeExtendedHours
      <4> QED BY <1>3, <4>1
    <3>2. PICK rule, verdict, shadows : LetPass(n, rule) \/ Refuse(n, rule, verdict, shadows)
      BY <2>6, Zenon DEF JudgeScanner, JudgeExtendedHours
    <3>3. /\ \E row : rows' = [rows EXCEPT ![n] = row]
          /\ risk' = risk \/ risk' = risk \union {n}
          /\ at' = [at EXCEPT ![n] = "acking"] \/ at' = [at EXCEPT ![n] = "measuring"]
      BY <3>2, Zenon DEF LetPass, Refuse, Journal
    <3>4. rows'[m] = rows[m]
      BY <1>1, <3>1, <3>3
    <3> QED BY <1>6, <3>1, <3>3, <3>4
  <2> QED BY <1>7, <2>1, <2>2, <2>3, <2>4, <2>5, <2>6, Zenon DEF Serve, Judge
<1>8. ASSUME NEW n \in Msgs, Fault(n)
      PROVE  at'[m] \in {"queued", "claimed", "dead", "stranded"} /\ rows'[m] = <<>> /\ m \notin risk'
  <2>1. rows' = rows /\ risk' = risk
        /\ at' = [at EXCEPT ![n] = IF attempts[n] >= MaxAttempts THEN "dead" ELSE "queued"]
    BY <1>8, Zenon DEF Fault, Raise
  <2> QED BY <1>5, <2>1
<1>9. ASSUME NEW n \in Msgs, Crash(n)
      PROVE  at'[m] \in {"queued", "claimed", "dead", "stranded"} /\ rows'[m] = <<>> /\ m \notin risk'
  BY <1>5, <1>9, Zenon DEF Crash
<1>10. CASE Tick \/ Sweep \/ SessionCloses \/ RowGoesStale \/ UNCHANGED vars
  BY <1>4, <1>10, Zenon DEF Tick, Sweep, SessionCloses, RowGoesStale, vars
<1> QED BY <1>7, <1>8, <1>9, <1>10, Zenon DEF Next

(* C3 as it stands: a message reaches the dead letters only by as many       *)
(* faults as it has attempts, however often it is put off, or because it is  *)
(* a thesis of news whose handler reads names nobody bound; the latter is    *)
(* lost without a verdict, in the journal or on signal.risk.                 *)
THEOREM GateDeadByFaultsOrUnjudged ==
  Spec => [](\A m \in Msgs : at[m] = "dead" =>
               \/ hits[m] >= MaxAttempts
               \/ ~NamesBound /\ about[m].kind = "news" /\ rows[m] = <<>> /\ m \notin risk)
<1> DEFINE Earned ==
      \A m \in Msgs : at[m] = "dead" =>
        \/ hits[m] >= MaxAttempts
        \/ ~NamesBound /\ about[m].kind = "news" /\ rows[m] = <<>> /\ m \notin risk
<1>1. Init => Unjudged
  BY DEF Init, Unjudged
<1>2. GateInv /\ Unjudged => Earned
  BY DEF GateInv, GateShape, Accounted, AttemptsPaid, Unjudged
<1> QED BY <1>1, <1>2, StepUnjudged, InductiveGate, PTL DEF Spec
=============================================================================
