------------------------ MODULE DeliveryCoordinatorProofs ------------------------
(***************************************************************************)
(* Proofs about the expiry index and the sweeps it drives: for any         *)
(* traders, expiries and number of overlapping sweeps, any batch size and  *)
(* any number of faults.                                                   *)
(***************************************************************************)
EXTENDS DeliveryCoordinator, FiniteSetTheorems, TLAPS

Facts == [pos : Position, active : BOOLEAN, version : Nat]

IndexTyped ==
    /\ open \subseteq Position
    /\ version \in [Position -> Nat]
    /\ matches \in Seq(Facts) /\ settlements \in Seq(Facts)
    /\ liquidations \in Seq(Position)
    /\ replay \subseteq Facts /\ reads \subseteq Facts
    /\ indexed \subseteq Position
    /\ seen \in [Position -> Nat]
    /\ spoiled \subseteq Position /\ beyond \subseteq Position

\* What will still be applied to the index, and what will still be read.
InTransit == Range(matches) \cup Range(settlements) \cup reads \cup replay

ToBeRead(p) == \E q \in Range(liquidations) : p \in LegsRead(q)

\* A fact is of the past, and one of now is true.
FactsTrue ==
    \A fact \in InTransit :
        /\ fact.version <= version[fact.pos]
        /\ fact.version = version[fact.pos] =>
              (fact.active <=> fact.pos \in open)

SeenIsPast == \A p \in Position : seen[p] <= version[p]

\* The last change of a position is on its way, or it was applied or missed, or
\* it was made before the logs of this start begin.
Carried(p) ==
    \/ ToBeRead(p)
    \/ \E fact \in InTransit : fact.pos = p /\ fact.version = version[p]

Applied(p) ==
    /\ seen[p] = version[p]
    /\ p \in spoiled \cup beyond \/ (p \in indexed <=> p \in open)

NothingForgotten == \A p \in Position : Carried(p) \/ Applied(p)

\* The start-up holds one fact of a position.
ReplayInOrder ==
    /\ \A f, g \in replay : f.pos = g.pos => f = g
    /\ phase \notin {"replay", "reconcile"} => replay = {}

IndexInv ==
    /\ IndexTyped
    /\ FactsTrue
    /\ SeenIsPast
    /\ NothingForgotten
    /\ ReplayInOrder

--------------------------------------------------------------------------------
(* Feeds.                                                                  *)

LEMMA TailRange ==
    ASSUME NEW S, NEW s \in Seq(S), s # <<>>
    PROVE  /\ Head(s) \in S /\ Tail(s) \in Seq(S)
           /\ Range(s) = {Head(s)} \cup Range(Tail(s))
  <1>1. Len(s) \in Nat \ {0} /\ DOMAIN s = 1..Len(s) /\ Head(s) = s[1]
    OBVIOUS
  <1>2. /\ Tail(s) \in Seq(S) /\ Len(Tail(s)) = Len(s) - 1
        /\ DOMAIN Tail(s) = 1..(Len(s) - 1)
        /\ \A i \in 1..(Len(s) - 1) : Tail(s)[i] = s[i + 1]
    OBVIOUS
  <1>3. ASSUME NEW i \in DOMAIN s, i # 1
        PROVE  i - 1 \in DOMAIN Tail(s) /\ s[i] = Tail(s)[i - 1]
    BY <1>1, <1>2, <1>3
  <1>4. \A i \in DOMAIN Tail(s) : i + 1 \in DOMAIN s /\ Tail(s)[i] = s[i + 1]
    BY <1>1, <1>2
  <1>5. Range(s) \subseteq {Head(s)} \cup Range(Tail(s))
    BY <1>1, <1>3 DEF Range
  <1>6. {Head(s)} \cup Range(Tail(s)) \subseteq Range(s)
    BY <1>1, <1>4 DEF Range
  <1> QED
    BY <1>1, <1>2, <1>5, <1>6

LEMMA AppendRange ==
    ASSUME NEW S, NEW s \in Seq(S), NEW e \in S
    PROVE  Append(s, e) \in Seq(S) /\ Range(Append(s, e)) = Range(s) \cup {e}
  <1>1. /\ Append(s, e) \in Seq(S) /\ Len(s) \in Nat /\ DOMAIN s = 1..Len(s)
        /\ DOMAIN Append(s, e) = 1..(Len(s) + 1)
        /\ Append(s, e)[Len(s) + 1] = e
        /\ \A i \in 1..Len(s) : Append(s, e)[i] = s[i]
    OBVIOUS
  <1>2. \A i \in 1..(Len(s) + 1) : i \in 1..Len(s) \/ i = Len(s) + 1
    BY <1>1
  <1>3. Len(s) + 1 \in 1..(Len(s) + 1) /\ 1..Len(s) \subseteq 1..(Len(s) + 1)
    BY <1>1
  <1> QED
    BY <1>1, <1>2, <1>3 DEF Range

\* The logs of one transaction, in some order.
LEMMA SetToSeqRange ==
    ASSUME NEW T, NEW S \in SUBSET T, IsFiniteSet(S)
    PROVE  SetToSeq(S) \in Seq(T) /\ Range(SetToSeq(S)) = S
  <1> DEFINE n == Cardinality(S)
             f == SetToSeq(S)
  <1>1. n \in Nat /\ ExistsBijection(1..n, S)
    BY FS_CardinalityType
  <1>2. \E g \in [1..n -> S] : IsInjective(g)
    BY <1>1 DEF ExistsBijection, Bijection, Injection
  <1>3. f \in [1..n -> S] /\ IsInjective(f)
    BY <1>2 DEF SetToSeq
  <1>4. f \in Injection(1..n, S)
    BY <1>3 DEF Injection
  <1>5. IsFiniteSet(1..n) /\ Cardinality(1..n) = n
    BY <1>1, FS_Interval
  <1>6. f \in Surjection(1..n, S)
    BY <1>4, <1>5, FS_Injection
  <1> HIDE DEF f
  <1>7. \A x \in S : \E i \in 1..n : f[i] = x
    BY <1>6 DEF Surjection
  <1>8. f \in Seq(T)
    BY <1>1, <1>3
  <1>9. Range(f) = S
    BY <1>3, <1>7 DEF Range
  <1> QED
    BY <1>8, <1>9 DEF f

LEMMA ConcatRange ==
    ASSUME NEW S, NEW s \in Seq(S), NEW t \in Seq(S)
    PROVE  s \o t \in Seq(S) /\ Range(s \o t) = Range(s) \cup Range(t)
  <1>1. /\ s \o t \in Seq(S) /\ Len(s) \in Nat /\ Len(t) \in Nat
        /\ DOMAIN s = 1..Len(s) /\ DOMAIN t = 1..Len(t)
        /\ DOMAIN (s \o t) = 1..(Len(s) + Len(t))
        /\ \A i \in 1..(Len(s) + Len(t)) :
              (s \o t)[i] = IF i <= Len(s) THEN s[i] ELSE t[i - Len(s)]
    OBVIOUS
  <1>2. ASSUME NEW i \in DOMAIN s
        PROVE  i \in DOMAIN (s \o t) /\ (s \o t)[i] = s[i]
    BY <1>1
  <1>3. ASSUME NEW i \in DOMAIN t
        PROVE  i + Len(s) \in DOMAIN (s \o t) /\ (s \o t)[i + Len(s)] = t[i]
    BY <1>1
  <1>4. ASSUME NEW i \in DOMAIN (s \o t)
        PROVE  \/ i \in DOMAIN s /\ (s \o t)[i] = s[i]
               \/ i - Len(s) \in DOMAIN t /\ (s \o t)[i] = t[i - Len(s)]
    BY <1>1
  <1>5. Range(s \o t) \subseteq Range(s) \cup Range(t)
    BY <1>4 DEF Range
  <1>6. Range(s) \cup Range(t) \subseteq Range(s \o t)
    BY <1>2, <1>3 DEF Range
  <1> QED
    BY <1>1, <1>5, <1>6

LEMMA RangeTyped ==
    ASSUME NEW S, NEW s \in Seq(S)
    PROVE  Range(s) \subseteq S
  BY DEF Range
--------------------------------------------------------------------------------
(* The index.                                                              *)

LEMMA FactTyped ==
    ASSUME NEW p \in Position, NEW ver \in Nat
    PROVE  /\ Fact(p, TRUE, ver) \in Facts
           /\ Fact(p, TRUE, ver).pos = p /\ Fact(p, TRUE, ver).version = ver
           /\ Fact(p, TRUE, ver).active
           /\ Fact(p, FALSE, ver) \in Facts
           /\ Fact(p, FALSE, ver).pos = p /\ Fact(p, FALSE, ver).version = ver
           /\ ~Fact(p, FALSE, ver).active
  <1>1. Fact(p, TRUE, ver) \in Facts
    BY DEF Fact, Facts
  <1>2. Fact(p, TRUE, ver).pos = p /\ Fact(p, TRUE, ver).version = ver
    BY DEF Fact
  <1>3. Fact(p, TRUE, ver).active
    BY DEF Fact
  <1>4. Fact(p, FALSE, ver) \in Facts
    BY DEF Fact, Facts
  <1>5. Fact(p, FALSE, ver).pos = p /\ Fact(p, FALSE, ver).version = ver
    BY DEF Fact
  <1>6. ~Fact(p, FALSE, ver).active
    BY DEF Fact
  <1> QED
    BY <1>1, <1>2, <1>3, <1>4, <1>5, <1>6

LEMMA Typed ==
    ASSUME IndexTyped
    PROVE  /\ InTransit \subseteq Facts
           /\ Range(liquidations) \subseteq Position
           /\ \A p \in Position : Current(p) \in Facts /\ Current(p).pos = p
                                    /\ Current(p).version = version[p]
                                    /\ (Current(p).active <=> p \in open)
           /\ \A p \in Position : LegsRead(p) \subseteq Position
  <1>1. InTransit \subseteq Facts /\ Range(liquidations) \subseteq Position
    BY RangeTyped DEF IndexTyped, InTransit
  <1>2. \A p \in Position : Current(p) \in Facts /\ Current(p).pos = p
                              /\ Current(p).version = version[p]
                              /\ (Current(p).active <=> p \in open)
    <2> SUFFICES ASSUME NEW p \in Position
                 PROVE  /\ Current(p) \in Facts /\ Current(p).pos = p
                        /\ Current(p).version = version[p]
                        /\ Current(p).active <=> p \in open
      OBVIOUS
    <2>1. version[p] \in Nat
      BY DEF IndexTyped
    <2>2. CASE p \in open
      <3>1. Current(p) = Fact(p, TRUE, version[p])
        BY <2>2, (p \in open) = TRUE DEF Current
      <3>2. /\ Fact(p, TRUE, version[p]) \in Facts
            /\ Fact(p, TRUE, version[p]).pos = p
            /\ Fact(p, TRUE, version[p]).version = version[p]
            /\ Fact(p, TRUE, version[p]).active
        BY <2>1, FactTyped
      <3> QED
        BY <2>2, <3>1, <3>2, Zenon
    <2>3. CASE p \notin open
      <3>1. Current(p) = Fact(p, FALSE, version[p])
        BY <2>3, (p \in open) = FALSE DEF Current
      <3>2. /\ Fact(p, FALSE, version[p]) \in Facts
            /\ Fact(p, FALSE, version[p]).pos = p
            /\ Fact(p, FALSE, version[p]).version = version[p]
            /\ ~Fact(p, FALSE, version[p]).active
        BY <2>1, FactTyped
      <3> QED
        BY <2>3, <3>1, <3>2, Zenon
    <2> QED
      BY <2>2, <2>3
  <1>3. \A p \in Position : LegsRead(p) \subseteq Position
    BY DEF LegsRead, BackstopLeg, ExpirationAt, Position, Account
  <1> QED
    BY <1>1, <1>2, <1>3

LEMMA MaxOfTwo ==
    ASSUME NEW a \in Nat, NEW b \in Nat
    PROVE  /\ Max({a, b}) = IF a >= b THEN a ELSE b
           /\ Max({a}) = a
  <1>1. ASSUME NEW S, S # {}, S \in SUBSET Nat, NEW m \in S, \A y \in S : m >= y
        PROVE  Max(S) = m
    <2>1. Max(S) \in S /\ \A y \in S : Max(S) >= y
      BY <1>1 DEF Max
    <2>2. Max(S) \in Nat /\ m \in Nat
      BY <1>1, <2>1
    <2>3. Max(S) >= m /\ m >= Max(S)
      BY <1>1, <2>1
    <2> QED
      BY <2>2, <2>3
  <1>2. CASE a >= b
    BY <1>1, <1>2
  <1>3. CASE b > a
    BY <1>1, <1>3
  <1>4. Max({a}) = a
    BY <1>1
  <1> QED
    BY <1>2, <1>3, <1>4

\* What facts make of the newest version known of a position.
LEMMA SeenAfterFacts ==
    ASSUME IndexTyped, NEW facts \in SUBSET Facts,
           \A f, g \in facts : f.pos = g.pos => f = g
    PROVE  /\ SeenAfter(facts) \in [Position -> Nat]
           /\ \A p \in Position :
                 (\A fact \in facts : fact.pos # p) => SeenAfter(facts)[p] = seen[p]
           /\ \A fact \in facts :
                 SeenAfter(facts)[fact.pos] = IF seen[fact.pos] >= fact.version
                                              THEN seen[fact.pos] ELSE fact.version
  <1> DEFINE Versions(p) == {f.version : f \in {g \in facts : g.pos = p}}
             after == SeenAfter(facts)
  <1>1. \A p \in Position : seen[p] \in Nat
    BY DEF IndexTyped
  <1>2. \A fact \in facts : fact.pos \in Position /\ fact.version \in Nat
    BY DEF Facts
  <1>3. \A p \in Position : after[p] = Max({seen[p]} \cup Versions(p))
    BY DEF SeenAfter
  <1>4. ASSUME NEW p \in Position, \A fact \in facts : fact.pos # p
        PROVE  after[p] = seen[p]
    <2>1. {seen[p]} \cup Versions(p) = {seen[p]}
      BY <1>4
    <2> QED
      BY <2>1, <1>1, <1>3, MaxOfTwo
  <1>5. ASSUME NEW fact \in facts
        PROVE  after[fact.pos] = IF seen[fact.pos] >= fact.version
                                 THEN seen[fact.pos] ELSE fact.version
    <2>1. Versions(fact.pos) = {fact.version}
      BY <1>2
    <2>2. {seen[fact.pos]} \cup Versions(fact.pos) = {seen[fact.pos], fact.version}
      BY <2>1
    <2>3. seen[fact.pos] \in Nat /\ fact.version \in Nat
      BY <1>1, <1>2
    <2>4. after[fact.pos] = Max({seen[fact.pos], fact.version})
      BY <2>2, <1>2, <1>3
    <2> QED
      BY <2>3, <2>4, MaxOfTwo
  <1>6. after \in [Position -> Nat]
    <2>1. ASSUME NEW p \in Position PROVE after[p] \in Nat
      <3>1. CASE \A fact \in facts : fact.pos # p
        BY <1>1, <1>4, <3>1
      <3>2. CASE \E fact \in facts : fact.pos = p
        BY <1>1, <1>2, <1>5, <3>2
      <3> QED
        BY <3>1, <3>2
    <2>2. after = [p \in Position |-> after[p]]
      BY DEF SeenAfter
    <2> QED
      BY <2>1, <2>2
  <1> QED
    BY <1>4, <1>5, <1>6

\* What applying facts does to a position they are about, and to the others.
LEMMA SetPositions ==
    ASSUME IndexTyped, NEW facts \in SUBSET Facts,
           \A f, g \in facts : f.pos = g.pos => f = g,
           setPositions(facts)
    PROVE  /\ indexed' \subseteq Position /\ spoiled' \subseteq Position
           /\ beyond' \subseteq Position
           /\ seen' \in [Position -> Nat]
           /\ \A p \in Position :
                 (\A fact \in facts : fact.pos # p) =>
                    /\ seen'[p] = seen[p]
                    /\ p \in indexed' <=> p \in indexed
                    /\ p \in spoiled' <=> p \in spoiled
                    /\ p \in beyond' <=> p \in beyond
           /\ \A fact \in facts :
                 /\ seen'[fact.pos] = IF seen[fact.pos] >= fact.version
                                      THEN seen[fact.pos] ELSE fact.version
                 /\ fact.pos \in indexed' <=> fact.active
                 /\ fact.pos \in spoiled' <=> fact.version < seen[fact.pos]
  <1>1. indexed \subseteq Position /\ spoiled \subseteq Position /\ beyond \subseteq Position
    BY DEF IndexTyped
  <1>2. \A fact \in facts : fact.pos \in Position /\ fact.active \in BOOLEAN
    BY DEF Facts
  <1>3. seen' = SeenAfter(facts)
    BY DEF setPositions
  <1>4. ASSUME NEW p \in Position, \A fact \in facts : fact.pos # p
        PROVE  /\ seen'[p] = seen[p]
               /\ p \in indexed' <=> p \in indexed
               /\ p \in spoiled' <=> p \in spoiled
               /\ p \in beyond' <=> p \in beyond
    <2>1. seen'[p] = seen[p]
      BY <1>3, <1>4, SeenAfterFacts
    <2> QED
      BY <2>1, <1>4 DEF setPositions
  <1>5. ASSUME NEW fact \in facts
        PROVE  /\ seen'[fact.pos] = IF seen[fact.pos] >= fact.version
                                    THEN seen[fact.pos] ELSE fact.version
               /\ fact.pos \in indexed' <=> fact.active
               /\ fact.pos \in spoiled' <=> fact.version < seen[fact.pos]
    <2>1. seen'[fact.pos] = IF seen[fact.pos] >= fact.version
                            THEN seen[fact.pos] ELSE fact.version
      BY <1>3, SeenAfterFacts
    <2>2. fact.pos \in indexed' <=> fact.active
      BY <1>2 DEF setPositions
    <2>3. fact.pos \in spoiled' <=> fact.version < seen[fact.pos]
      BY <1>2 DEF setPositions
    <2> QED
      BY <2>1, <2>2, <2>3
  <1>6. indexed' \subseteq Position /\ spoiled' \subseteq Position /\ beyond' \subseteq Position
    BY <1>1, <1>2 DEF setPositions
  <1>7. seen' \in [Position -> Nat]
    BY <1>3, SeenAfterFacts
  <1> QED
    BY <1>4, <1>5, <1>6, <1>7

\* Facts that were in transit are applied: what is then known of a position is
\* its last change, or that change is still on its way.
LEMMA Applying ==
    ASSUME IndexInv, NEW facts \in SUBSET InTransit,
           \A f, g \in facts : f.pos = g.pos => f = g,
           setPositions(facts),
           UNCHANGED <<open, version, liquidations>>,
           InTransit' \subseteq InTransit \cup {Current(p) : p \in Position},
           \A fact \in InTransit \ facts :
               fact \in InTransit' \/ Current(fact.pos) \in InTransit'
    PROVE  /\ indexed' \subseteq Position /\ spoiled' \subseteq Position
           /\ beyond' \subseteq Position
           /\ seen' \in [Position -> Nat]
           /\ \A p \in Position : seen[p] <= seen'[p]
           /\ FactsTrue' /\ SeenIsPast' /\ NothingForgotten'
  <1>1. facts \in SUBSET Facts /\ IndexTyped
    BY Typed DEF IndexInv
  <1>2. /\ indexed' \subseteq Position /\ spoiled' \subseteq Position
        /\ beyond' \subseteq Position
        /\ seen' \in [Position -> Nat]
    BY <1>1, SetPositions
  <1>3. \A p \in Position :
            (\A fact \in facts : fact.pos # p) =>
               /\ seen'[p] = seen[p]
               /\ p \in indexed' <=> p \in indexed
               /\ p \in spoiled' <=> p \in spoiled
               /\ p \in beyond' <=> p \in beyond
    BY <1>1, SetPositions
  <1>4. \A fact \in facts :
            /\ seen'[fact.pos] = IF seen[fact.pos] >= fact.version
                                 THEN seen[fact.pos] ELSE fact.version
            /\ fact.pos \in indexed' <=> fact.active
            /\ fact.pos \in spoiled' <=> fact.version < seen[fact.pos]
    BY <1>1, SetPositions
  <1>5. FactsTrue'
    <2>1. ASSUME NEW fact \in InTransit
          PROVE  /\ fact.version <= version'[fact.pos]
                 /\ fact.version = version'[fact.pos] =>
                       (fact.active <=> fact.pos \in open')
      BY DEF IndexInv, FactsTrue
    <2>2. ASSUME NEW p \in Position
          PROVE  /\ Current(p).version <= version'[Current(p).pos]
                 /\ Current(p).active <=> Current(p).pos \in open'
      BY <1>1, Typed DEF IndexTyped
    <2> QED
      BY <2>1, <2>2 DEF FactsTrue
  <1>6. /\ \A p \in Position : seen[p] \in Nat /\ version[p] \in Nat
        /\ \A p \in Position : seen[p] <= version[p]
        /\ \A fact \in facts : fact.pos \in Position /\ fact.version \in Nat
                                 /\ fact.version <= version[fact.pos]
    BY <1>1 DEF IndexInv, IndexTyped, SeenIsPast, FactsTrue, Facts
  <1>7. ASSUME NEW p \in Position
        PROVE  seen[p] <= seen'[p] /\ seen'[p] <= version[p]
    <2>1. CASE \A fact \in facts : fact.pos # p
      BY <2>1, <1>3, <1>6
    <2>2. CASE \E fact \in facts : fact.pos = p
      BY <2>2, <1>4, <1>6
    <2> QED
      BY <2>1, <2>2
  <1>8. ASSUME NEW p \in Position
        PROVE  Carried(p)' \/ Applied(p)'
    <2>1. ASSUME NEW fact \in InTransit \ facts, fact.pos = p,
                 fact.version = version[p]
          PROVE  Carried(p)'
      BY <2>1, <1>1, Typed DEF Carried
    <2>2. CASE ToBeRead(p)
      BY <2>2 DEF Carried, ToBeRead
    <2>3. ASSUME NEW fact \in facts, fact.pos = p, fact.version = version[p]
          PROVE  Applied(p)'
      <3>1. fact.active <=> p \in open
        BY <2>3 DEF IndexInv, FactsTrue
      <3> QED
        BY <2>3, <3>1, <1>4, <1>6 DEF Applied
    <2>4. CASE Applied(p)
      <3>1. CASE \A fact \in facts : fact.pos # p
        BY <2>4, <3>1, <1>3 DEF Applied
      <3>2. ASSUME NEW fact \in facts, fact.pos = p, fact.version # version[p]
            PROVE  Applied(p)'
        BY <2>4, <3>2, <1>4, <1>6 DEF Applied
      <3> QED
        BY <3>1, <3>2, <2>3
    <2>5. Carried(p) \/ Applied(p)
      BY DEF IndexInv, NothingForgotten
    <2> QED
      BY <2>1, <2>2, <2>3, <2>4, <2>5 DEF Carried
  <1>9. SeenIsPast'
    BY <1>7 DEF SeenIsPast
  <1>10. NothingForgotten'
    BY <1>8 DEF NothingForgotten
  <1> QED
    BY <1>2, <1>5, <1>7, <1>9, <1>10

\* Facts are lost: what was last known of a position is on its way, was applied
\* or is marked as missed.
LEMMA Missing ==
    ASSUME IndexInv, NEW facts \in SUBSET Facts,
           \A f, g \in facts : f.pos = g.pos => f = g,
           \A fact \in facts : fact.version <= version[fact.pos],
           Missed(facts), UNCHANGED <<open, version>>,
           InTransit' \subseteq InTransit, InTransit \ InTransit' \subseteq facts,
           \A p \in Position :
               ToBeRead(p) => \/ ToBeRead(p)'
                              \/ \E fact \in facts : /\ fact.pos = p
                                                       /\ fact.version = version[p]
    PROVE  /\ indexed' \subseteq Position /\ spoiled' \subseteq Position
           /\ beyond' \subseteq Position
           /\ seen' \in [Position -> Nat]
           /\ FactsTrue' /\ SeenIsPast' /\ NothingForgotten'
  <1>1. IndexTyped /\ UNCHANGED <<indexed, beyond>> /\ seen' = SeenAfter(facts)
        /\ spoiled' = spoiled \cup {fact.pos : fact \in facts}
    BY DEF IndexInv, Missed
  <1>2. /\ seen' \in [Position -> Nat]
        /\ \A p \in Position : (\A fact \in facts : fact.pos # p) => seen'[p] = seen[p]
        /\ \A fact \in facts : seen'[fact.pos] = IF seen[fact.pos] >= fact.version
                                                THEN seen[fact.pos] ELSE fact.version
    BY <1>1, SeenAfterFacts
  <1>3. /\ \A p \in Position : seen[p] \in Nat /\ version[p] \in Nat
                                 /\ seen[p] <= version[p]
        /\ \A fact \in facts : fact.pos \in Position /\ fact.version \in Nat
    BY <1>1 DEF IndexInv, IndexTyped, SeenIsPast, Facts
  <1>4. ASSUME NEW p \in Position
        PROVE  seen'[p] \in Nat /\ seen[p] <= seen'[p] /\ seen'[p] <= version[p]
    <2>1. CASE \A fact \in facts : fact.pos # p
      BY <2>1, <1>2, <1>3
    <2>2. CASE \E fact \in facts : fact.pos = p
      BY <2>2, <1>2, <1>3
    <2> QED
      BY <2>1, <2>2
  <1>5. ASSUME NEW fact \in facts, fact.version = version[fact.pos]
        PROVE  Applied(fact.pos)'
    <2>1. seen'[fact.pos] = version[fact.pos]
      BY <1>2, <1>3, <1>5
    <2> QED
      BY <1>1, <2>1 DEF Applied
  <1>6. ASSUME NEW p \in Position
        PROVE  Carried(p)' \/ Applied(p)'
    <2>1. CASE Applied(p)
      <3>1. seen'[p] = version[p]
        BY <1>3, <1>4, <2>1 DEF Applied
      <3> QED
        BY <1>1, <2>1, <3>1 DEF Applied
    <2>2. CASE ToBeRead(p)
      BY <1>5, <2>2 DEF Carried
    <2>3. ASSUME NEW g \in InTransit, g.pos = p, g.version = version[p]
          PROVE  Carried(p)' \/ Applied(p)'
      BY <1>5, <2>3 DEF Carried
    <2> QED
      BY <2>1, <2>2, <2>3 DEF IndexInv, NothingForgotten, Carried
  <1>7. FactsTrue'
    BY DEF IndexInv, FactsTrue
  <1>8. SeenIsPast' /\ NothingForgotten'
    BY <1>4, <1>6 DEF SeenIsPast, NothingForgotten
  <1>9. indexed' \subseteq Position /\ spoiled' \subseteq Position /\ beyond' \subseteq Position
    BY <1>1, <1>3 DEF IndexTyped
  <1> QED
    BY <1>2, <1>7, <1>8, <1>9

\* Nothing is applied, and nothing that carries a last change is lost.
LEMMA Carrying ==
    ASSUME IndexInv, UNCHANGED <<open, version, indexed, seen, spoiled, beyond>>,
           InTransit' \subseteq InTransit \cup {Current(p) : p \in Position},
           \A p \in Position : Carried(p) => Carried(p)'
    PROVE  FactsTrue' /\ SeenIsPast' /\ NothingForgotten'
  <1>1. FactsTrue'
    <2>1. ASSUME NEW fact \in InTransit
          PROVE  /\ fact.version <= version'[fact.pos]
                 /\ fact.version = version'[fact.pos] =>
                       (fact.active <=> fact.pos \in open')
      BY DEF IndexInv, FactsTrue
    <2>2. ASSUME NEW p \in Position
          PROVE  /\ Current(p).version <= version'[Current(p).pos]
                 /\ Current(p).active <=> Current(p).pos \in open'
      BY Typed DEF IndexTyped, IndexInv
    <2> QED
      BY <2>1, <2>2 DEF FactsTrue
  <1>2. SeenIsPast'
    BY DEF IndexInv, SeenIsPast
  <1>3. NothingForgotten'
    BY DEF IndexInv, NothingForgotten, Applied
  <1> QED
    BY <1>1, <1>2, <1>3

\* The chain changes some positions, and says so or has it read.
LEMMA Changing ==
    ASSUME IndexInv, NEW changed \in SUBSET Position,
           version' \in [Position -> Nat],
           \A p \in changed : version[p] < version'[p] /\ Carried(p)',
           \A p \in Position \ changed :
               version'[p] = version[p] /\ (p \in open' <=> p \in open),
           InTransit \subseteq InTransit', InTransit' \subseteq Facts,
           \A fact \in InTransit' \ InTransit :
               /\ fact.version = version'[fact.pos]
               /\ fact.active <=> fact.pos \in open',
           Range(liquidations) \subseteq Range(liquidations)',
           UNCHANGED <<indexed, seen, spoiled, beyond, phase, replay>>
    PROVE  FactsTrue' /\ SeenIsPast' /\ NothingForgotten' /\ ReplayInOrder'
  <1>1. \A p \in Position : /\ version[p] \in Nat /\ version'[p] \in Nat
                            /\ version[p] <= version'[p] /\ seen[p] \in Nat
    <2>1. \A p \in Position : /\ version[p] \in Nat /\ version'[p] \in Nat
                              /\ seen[p] \in Nat
      BY DEF IndexInv, IndexTyped
    <2>2. \A p \in Position : version[p] <= version'[p]
      BY <2>1
    <2> QED
      BY <2>1, <2>2
  <1>2. \A fact \in InTransit : fact.pos \in Position /\ fact.version \in Nat
    BY Typed DEF IndexInv, Facts
  <1>3. FactsTrue'
    <2>1. ASSUME NEW fact \in InTransit
          PROVE  /\ fact.version <= version'[fact.pos]
                 /\ fact.version = version'[fact.pos] =>
                       (fact.active <=> fact.pos \in open')
      <3>1. /\ fact.version <= version[fact.pos]
            /\ fact.version = version[fact.pos] =>
                  (fact.active <=> fact.pos \in open)
        BY DEF IndexInv, FactsTrue
      <3>2. CASE fact.pos \in changed
        BY <1>1, <1>2, <3>1, <3>2
      <3>3. CASE fact.pos \notin changed
        BY <1>1, <1>2, <3>1, <3>3
      <3> QED
        BY <3>2, <3>3
    <2>2. ASSUME NEW fact \in InTransit' \ InTransit
          PROVE  /\ fact.version <= version'[fact.pos]
                 /\ fact.version = version'[fact.pos] =>
                       (fact.active <=> fact.pos \in open')
      <3>1. fact.pos \in Position /\ version'[fact.pos] \in Nat
        BY <1>1 DEF Facts
      <3> QED
        BY <3>1
    <2> QED
      BY <2>1, <2>2 DEF FactsTrue
  <1>4. SeenIsPast'
    BY <1>1 DEF IndexInv, SeenIsPast
  <1>5. NothingForgotten'
    <2>1. ASSUME NEW p \in Position \ changed, Carried(p)
          PROVE  Carried(p)'
      BY <2>1 DEF Carried, ToBeRead
    <2>2. ASSUME NEW p \in Position \ changed, Applied(p)
          PROVE  Applied(p)'
      BY <2>2 DEF Applied
    <2> QED
      BY <2>1, <2>2 DEF IndexInv, NothingForgotten
  <1>6. ReplayInOrder'
    BY DEF IndexInv, ReplayInOrder
  <1> QED
    BY <1>3, <1>4, <1>5, <1>6

\* Settling says so of every position it settles, in whatever order.
LEMMA SettlesKeepsIndex ==
    ASSUME IndexInv, NEW done \in SUBSET open, Settles(done),
           UNCHANGED <<matches, liquidations, indexState>>
    PROVE  IndexInv'
  <1> DEFINE logged == {Fact(p, FALSE, version'[p]) : p \in done}
  <1>1. done \subseteq Position /\ open \subseteq Position /\ IndexTyped
        /\ \A p \in Position : version[p] \in Nat
    BY DEF IndexInv, IndexTyped
  <1>2. /\ version' \in [Position -> Nat]
        /\ \A p \in done : version'[p] = version[p] + 1
        /\ \A p \in Position \ done : version'[p] = version[p]
    BY <1>1 DEF Settles
  <1>3. IsFiniteSet(done)
    <2>1. IsFiniteSet({Backstop}) /\ IsFiniteSet(Trader) /\ IsFiniteSet(Expiry)
      BY FS_Singleton, IndexScope
    <2>2. IsFiniteSet(Account)
      BY <2>1, FS_Union DEF Account
    <2>3. IsFiniteSet(Position)
      BY <2>1, <2>2, FS_Product DEF Position
    <2> QED
      BY <1>1, <2>3, FS_Subset
  <1>4. \A p \in done : /\ Fact(p, FALSE, version'[p]) \in Facts
                        /\ Fact(p, FALSE, version'[p]).pos = p
                        /\ Fact(p, FALSE, version'[p]).version = version'[p]
                        /\ ~Fact(p, FALSE, version'[p]).active
    <2>1. \A p \in done : p \in Position /\ version'[p] \in Nat
      BY <1>1, <1>2
    <2> QED
      BY <2>1, FactTyped, Zenon
  <1>5. IsFiniteSet(logged)
    <2> DEFINE f == [p \in done |-> Fact(p, FALSE, version'[p])]
    <2>1. f \in Surjection(done, logged)
      BY DEF Surjection
    <2> QED
      BY <1>3, <2>1, FS_Surjection
  <1>6. logged \subseteq Facts
    BY <1>4
  <1>7. ASSUME NEW fact \in logged
        PROVE  /\ fact.pos \in done /\ ~fact.active
               /\ fact.version = version'[fact.pos]
    <2>1. PICK p \in done : fact = Fact(p, FALSE, version'[p])
      OBVIOUS
    <2> QED
      BY <1>4, <2>1, Zenon
  <1>8. SetToSeq(logged) \in Seq(Facts) /\ Range(SetToSeq(logged)) = logged
    BY <1>5, <1>6, SetToSeqRange
  <1>9. settlements \in Seq(Facts) /\ settlements' = settlements \o SetToSeq(logged)
    BY <1>1 DEF Settles, IndexTyped
  <1> HIDE DEF logged
  <1>10. settlements' \in Seq(Facts) /\ Range(settlements') = Range(settlements) \cup logged
    BY <1>8, <1>9, ConcatRange
  <1>11. IndexTyped'
    BY <1>1, <1>2, <1>10 DEF Settles, IndexTyped, indexState
  <1>12. InTransit' = InTransit \cup logged /\ Range(liquidations)' = Range(liquidations)
    BY <1>10 DEF InTransit, indexState
  <1>13. open' = open \ done
    BY DEF Settles
  <1>14. ASSUME NEW p \in done
         PROVE  version[p] < version'[p] /\ Carried(p)'
    <2>1. Fact(p, FALSE, version'[p]) \in InTransit'
      BY <1>12 DEF logged
    <2>2. Carried(p)'
      BY <1>4, <2>1 DEF Carried
    <2> QED
      BY <1>1, <1>2, <2>2
  <1>15. \A p \in Position \ done :
             version'[p] = version[p] /\ (p \in open' <=> p \in open)
    BY <1>2, <1>13
  <1>16. \A fact \in InTransit' \ InTransit :
             /\ fact.version = version'[fact.pos]
             /\ fact.active <=> fact.pos \in open'
    BY <1>7, <1>12, <1>13
  <1>17. FactsTrue' /\ SeenIsPast' /\ NothingForgotten' /\ ReplayInOrder'
    <2>1. InTransit' \subseteq Facts
      BY <1>6, <1>12, Typed DEF IndexInv
    <2> QED
      BY <2>1, <1>1, <1>2, <1>12, <1>14, <1>15, <1>16, Changing DEF indexState
  <1> QED
    BY <1>11, <1>17 DEF IndexInv
\* Every step of the index keeps its invariant.
LEMMA FollowKeepsIndex ==
    ASSUME IndexInv, Follow
    PROVE  IndexInv'
  <1> USE DEF IndexInv
  <1>1. IndexTyped /\ InTransit \subseteq Facts
    BY Typed
  <1>2. ASSUME NEW fact \in InTransit, setPosition(fact),
               UNCHANGED <<chainVars, liquidations, phase, replay, faults>>,
               InTransit' \subseteq InTransit, InTransit \ {fact} \subseteq InTransit',
               matches' \in Seq(Facts), settlements' \in Seq(Facts), reads' \subseteq reads
        PROVE  IndexInv'
    <2>1. setPositions({fact}) /\ UNCHANGED <<open, version, liquidations>>
      BY <1>2 DEF setPosition, chainVars
    <2>2. /\ indexed' \subseteq Position /\ spoiled' \subseteq Position
          /\ beyond' \subseteq Position /\ seen' \in [Position -> Nat]
          /\ FactsTrue' /\ SeenIsPast' /\ NothingForgotten'
      BY <1>2, <2>1, Applying
    <2>3. ReplayInOrder'
      BY <1>2 DEF ReplayInOrder
    <2>4. IndexTyped'
      BY <1>1, <1>2, <2>1, <2>2 DEF IndexTyped
    <2> QED
      BY <2>2, <2>3, <2>4
  <1>3. CASE onOrderMatched
    <2>1. /\ matches # <<>> /\ matches' = Tail(matches) /\ matches \in Seq(Facts)
          /\ UNCHANGED <<settlements, liquidations, reads, replay, phase, faults>>
          /\ UNCHANGED chainVars /\ setPosition(Head(matches))
      BY <1>1, <1>3 DEF onOrderMatched, IndexTyped
    <2>2. /\ Tail(matches) \in Seq(Facts)
          /\ Range(matches) = {Head(matches)} \cup Range(Tail(matches))
      BY <2>1, TailRange
    <2>3. /\ Head(matches) \in InTransit /\ InTransit' \subseteq InTransit
          /\ InTransit \ {Head(matches)} \subseteq InTransit'
      BY <2>1, <2>2 DEF InTransit
    <2> QED
      BY <1>1, <1>2, <2>1, <2>2, <2>3 DEF IndexTyped
  <1>4. CASE onPositionSettled
    <2>1. /\ settlements # <<>> /\ settlements' = Tail(settlements)
          /\ settlements \in Seq(Facts)
          /\ UNCHANGED <<matches, liquidations, reads, replay, phase, faults>>
          /\ UNCHANGED chainVars /\ setPosition(Head(settlements))
      BY <1>1, <1>4 DEF onPositionSettled, IndexTyped
    <2>2. /\ Tail(settlements) \in Seq(Facts)
          /\ Range(settlements) = {Head(settlements)} \cup Range(Tail(settlements))
      BY <2>1, TailRange
    <2>3. /\ Head(settlements) \in InTransit /\ InTransit' \subseteq InTransit
          /\ InTransit \ {Head(settlements)} \subseteq InTransit'
      BY <2>1, <2>2 DEF InTransit
    <2> QED
      BY <1>1, <1>2, <2>1, <2>2, <2>3 DEF IndexTyped
  <1>5. ASSUME NEW fact \in reads, ReadApplied(fact)
        PROVE  IndexInv'
    <2>1. /\ fact \in InTransit /\ setPosition(fact) /\ reads' = reads \ {fact}
          /\ UNCHANGED <<matches, settlements, liquidations, replay, phase, faults>>
          /\ UNCHANGED chainVars
      BY <1>5 DEF ReadApplied, InTransit, feeds
    <2>2. InTransit' \subseteq InTransit /\ InTransit \ {fact} \subseteq InTransit'
      BY <2>1 DEF InTransit
    <2> QED
      BY <1>1, <1>2, <2>1, <2>2 DEF IndexTyped
  <1>6. CASE onPositionLiquidated
    <2> DEFINE q == Head(liquidations)
               answers == {Current(p) : p \in LegsRead(q)}
    <2>1. /\ liquidations # <<>> /\ liquidations' = Tail(liquidations)
          /\ liquidations \in Seq(Position) /\ reads' = reads \cup answers
          /\ UNCHANGED <<open, version, matches, settlements, phase, replay>>
          /\ UNCHANGED <<indexed, seen, spoiled, beyond>>
      BY <1>1, <1>6 DEF onPositionLiquidated, IndexTyped, chainVars
    <2>2. /\ q \in Position /\ Tail(liquidations) \in Seq(Position)
          /\ Range(liquidations) = {q} \cup Range(Tail(liquidations))
      BY <2>1, TailRange
    <2>3. LegsRead(q) \subseteq Position
      BY <1>1, <2>2, Typed
    <2>4. /\ answers \subseteq Facts /\ InTransit' = InTransit \cup answers
          /\ answers \subseteq {Current(p) : p \in Position}
      BY <1>1, <2>1, <2>3, Typed DEF InTransit
    <2>5. ASSUME NEW p \in Position, Carried(p)
          PROVE  Carried(p)'
      <3>1. CASE p \in LegsRead(q)
        <4>1. Current(p) \in InTransit'
          BY <2>4, <3>1
        <4>2. Current(p).pos = p /\ Current(p).version = version[p]
          BY <1>1, Typed
        <4> QED
          BY <2>1, <4>1, <4>2 DEF Carried
      <3>2. CASE p \notin LegsRead(q)
        BY <2>1, <2>2, <2>4, <2>5, <3>2 DEF Carried, ToBeRead, LegsRead
      <3> QED
        BY <3>1, <3>2
    <2>6. FactsTrue' /\ SeenIsPast' /\ NothingForgotten'
      BY <2>1, <2>4, <2>5, Carrying
    <2>7. IndexTyped'
      BY <1>1, <2>1, <2>2, <2>4 DEF IndexTyped
    <2>8. ReplayInOrder'
      BY <2>1 DEF ReplayInOrder
    <2> QED
      BY <2>6, <2>7, <2>8
  <1> QED
    BY <1>3, <1>4, <1>5, <1>6 DEF Follow
LEMMA StartUpKeepsIndex ==
    ASSUME IndexInv, StartUp
    PROVE  IndexInv'
  <1> USE DEF IndexInv
  <1>1. IndexTyped /\ InTransit \subseteq Facts
        /\ \A p \in Position : Current(p) \in Facts /\ Current(p).pos = p
                                 /\ Current(p).version = version[p]
    BY Typed
  <1>2. CASE Replay
    <2>1. PICK liquidated \in SUBSET {fact.pos : fact \in replay} :
              /\ setPositions({fact \in replay : fact.pos \notin liquidated})
              /\ reads' = reads \cup {Current(p) : p \in liquidated}
      BY <1>2 DEF Replay
    <2> DEFINE facts == {fact \in replay : fact.pos \notin liquidated}
    <2>2. /\ UNCHANGED <<open, version, matches, settlements, liquidations>>
          /\ replay' = {} /\ phase' = "replayed"
      BY <1>2 DEF Replay, chainVars, feeds
    <2>3. /\ facts \in SUBSET InTransit
          /\ \A f, g \in facts : f.pos = g.pos => f = g
      BY DEF ReplayInOrder, InTransit
    <2> liquidated \subseteq Position
      BY <1>1 DEF IndexTyped, Facts
    <2>4. /\ InTransit' \subseteq InTransit \cup {Current(p) : p \in Position}
          /\ reads' \subseteq Facts
      BY <1>1, <2>1, <2>2 DEF InTransit, IndexTyped
    <2>5. ASSUME NEW fact \in InTransit \ facts
          PROVE  fact \in InTransit' \/ Current(fact.pos) \in InTransit'
      <3>1. CASE fact \in replay
        BY <2>1, <3>1 DEF InTransit
      <3>2. CASE fact \notin replay
        BY <2>1, <2>2, <3>2 DEF InTransit
      <3> QED
        BY <3>1, <3>2
    <2> HIDE DEF facts
    <2>6. setPositions(facts)
      BY <2>1 DEF facts
    <2>7. /\ indexed' \subseteq Position /\ spoiled' \subseteq Position
          /\ beyond' \subseteq Position /\ seen' \in [Position -> Nat]
          /\ FactsTrue' /\ SeenIsPast' /\ NothingForgotten'
      BY <2>2, <2>3, <2>4, <2>5, <2>6, Applying
    <2>8. IndexTyped' /\ ReplayInOrder'
      BY <1>1, <2>2, <2>4, <2>7 DEF IndexTyped, ReplayInOrder
    <2> QED
      BY <2>7, <2>8
  <1>3. CASE ReconcileReads
    <2>1. /\ UNCHANGED <<open, version, matches, settlements, liquidations, reads>>
          /\ UNCHANGED <<indexed, seen, spoiled, beyond>>
          /\ replay = {} /\ replay' = {Current(p) : p \in indexed}
          /\ phase' = "reconcile"
      BY <1>3 DEF ReconcileReads, chainVars, feeds, ReplayInOrder
    <2>2. /\ replay' \subseteq Facts /\ \A f, g \in replay' : f.pos = g.pos => f = g
          /\ replay' \subseteq {Current(p) : p \in Position}
      BY <1>1, <2>1 DEF IndexTyped
    <2>3. InTransit' = InTransit \cup replay'
      BY <2>1 DEF InTransit
    <2>4. \A p \in Position : Carried(p) => Carried(p)'
      BY <2>1, <2>3 DEF Carried, ToBeRead, LegsRead
    <2>5. FactsTrue' /\ SeenIsPast' /\ NothingForgotten'
      BY <2>1, <2>2, <2>3, <2>4, Carrying
    <2>6. IndexTyped' /\ ReplayInOrder'
      BY <1>1, <2>1, <2>2 DEF IndexTyped, ReplayInOrder
    <2> QED
      BY <2>5, <2>6
  <1>4. CASE ReconcileApplies
    <2>1. /\ UNCHANGED <<open, version, matches, settlements, liquidations, reads>>
          /\ replay' = {} /\ phase' = "seed" /\ setPositions(replay)
      BY <1>4 DEF ReconcileApplies, chainVars, feeds
    <2>2. /\ replay \in SUBSET InTransit /\ \A f, g \in replay : f.pos = g.pos => f = g
          /\ InTransit' \subseteq InTransit
          /\ \A fact \in InTransit \ replay : fact \in InTransit'
      BY <2>1 DEF InTransit, ReplayInOrder
    <2>3. /\ indexed' \subseteq Position /\ spoiled' \subseteq Position
          /\ beyond' \subseteq Position /\ seen' \in [Position -> Nat]
          /\ FactsTrue' /\ SeenIsPast' /\ NothingForgotten'
      BY <2>1, <2>2, Applying
    <2>4. IndexTyped' /\ ReplayInOrder'
      BY <1>1, <2>1, <2>3 DEF IndexTyped, ReplayInOrder
    <2> QED
      BY <2>3, <2>4
  <1>5. CASE seedUsers
    <2>1. /\ UNCHANGED <<open, version, matches, settlements, liquidations, replay>>
          /\ UNCHANGED <<indexed, seen, spoiled, beyond>>
          /\ reads' = reads \cup {Current(p) : p \in {q \in open : HeldBy(q) \in Seed}}
          /\ phase = "seed" /\ phase' = "ready"
      BY <1>5 DEF seedUsers, chainVars, feeds
    <2>2. /\ reads' \subseteq Facts /\ InTransit \subseteq InTransit'
          /\ InTransit' \subseteq InTransit \cup {Current(p) : p \in Position}
      BY <1>1, <2>1 DEF InTransit, IndexTyped
    <2>3. \A p \in Position : Carried(p) => Carried(p)'
      BY <2>1, <2>2 DEF Carried, ToBeRead, LegsRead
    <2>4. FactsTrue' /\ SeenIsPast' /\ NothingForgotten'
      BY <2>1, <2>2, <2>3, Carrying
    <2>5. IndexTyped' /\ ReplayInOrder'
      BY <1>1, <2>1, <2>2 DEF IndexTyped, ReplayInOrder
    <2> QED
      BY <2>4, <2>5
  <1>6. CASE bootstrap
    <2>1. PICK logged \in SUBSET Position : /\ replay' = {Current(p) : p \in logged}
                                           /\ beyond' = beyond \ logged
      BY <1>6 DEF bootstrap
    <2>2. /\ UNCHANGED <<open, version, matches, settlements, liquidations, reads>>
          /\ UNCHANGED <<indexed, seen, spoiled>>
          /\ replay = {} /\ phase' = "replay"
      BY <1>6 DEF bootstrap, chainVars, feeds, ReplayInOrder
    <2>3. /\ replay' \subseteq Facts /\ \A f, g \in replay' : f.pos = g.pos => f = g
          /\ \A fact \in replay' :
                /\ fact.version = version[fact.pos]
                /\ fact.active <=> fact.pos \in open
      BY <1>1, <2>1, Typed
    <2>4. InTransit' = InTransit \cup replay'
      BY <2>2 DEF InTransit
    <2>5. ASSUME NEW p \in logged
          PROVE  Carried(p)'
      BY <1>1, <2>1, <2>2, <2>4 DEF Carried
    <2>6. ASSUME NEW p \in Position \ logged
          PROVE  Carried(p)' \/ Applied(p)'
      BY <2>1, <2>2, <2>4
         DEF NothingForgotten, Carried, Applied, ToBeRead, LegsRead, BackstopLeg
    <2>7. FactsTrue'
      <3>1. ASSUME NEW fact \in replay'
            PROVE  /\ fact.version <= version'[fact.pos]
                   /\ fact.version = version'[fact.pos] =>
                         (fact.active <=> fact.pos \in open')
        <4>1. fact.version = version[fact.pos] /\ (fact.active <=> fact.pos \in open)
          BY <2>3, <3>1
        <4>2. fact.version \in Nat
          BY <2>3, <3>1 DEF Facts
        <4>3. open' = open /\ version' = version
          BY <2>2
        <4> QED
          BY <4>1, <4>2, <4>3
      <3>2. ASSUME NEW fact \in InTransit
            PROVE  /\ fact.version <= version'[fact.pos]
                   /\ fact.version = version'[fact.pos] =>
                         (fact.active <=> fact.pos \in open')
        BY <2>2 DEF FactsTrue
      <3> QED
        BY <2>4, <3>1, <3>2 DEF FactsTrue
    <2>8. SeenIsPast' /\ NothingForgotten'
      BY <2>2, <2>5, <2>6 DEF SeenIsPast, NothingForgotten
    <2>9. IndexTyped' /\ ReplayInOrder'
      BY <1>1, <2>1, <2>2, <2>3 DEF IndexTyped, ReplayInOrder
    <2> QED
      BY <2>7, <2>8, <2>9
  <1>7. CASE NoTargets
    BY <1>7 DEF NoTargets, IndexTyped, FactsTrue, SeenIsPast, NothingForgotten, ReplayInOrder,
                InTransit, Carried, Applied, ToBeRead, LegsRead, BackstopLeg, chainVars, feeds
  <1> QED
    BY <1>2, <1>3, <1>4, <1>5, <1>6, <1>7 DEF StartUp

\* A position whose fact is lost is marked, and known to be behind no further
\* than that fact.
LEMMA FailureKeepsIndex ==
    ASSUME IndexInv, IndexFails
    PROVE  IndexInv'
  <1> USE DEF IndexInv
  <1>1. /\ IndexTyped /\ InTransit \subseteq Facts /\ Range(liquidations) \subseteq Position
        /\ \A p \in Position : Current(p) \in Facts /\ Current(p).pos = p
                                 /\ Current(p).version = version[p]
        /\ \A p \in Position : version[p] \in Nat
        /\ \A fact \in InTransit : fact.version <= version[fact.pos]
    BY Typed DEF IndexTyped, FactsTrue
  \* Facts in transit are lost, and nothing else.
  <1>2. ASSUME NEW facts \in SUBSET InTransit,
               \A f, g \in facts : f.pos = g.pos => f = g,
               Missed(facts), UNCHANGED <<open, version, liquidations, phase>>,
               InTransit' \subseteq InTransit, InTransit \ InTransit' \subseteq facts,
               matches' \in Seq(Facts), settlements' \in Seq(Facts),
               reads' \subseteq reads, replay' \subseteq replay
        PROVE  IndexInv'
    <2>1. \A p \in Position : ToBeRead(p) => ToBeRead(p)'
      BY <1>2 DEF ToBeRead, LegsRead, BackstopLeg
    <2>2. /\ indexed' \subseteq Position /\ spoiled' \subseteq Position
          /\ beyond' \subseteq Position /\ seen' \in [Position -> Nat]
          /\ FactsTrue' /\ SeenIsPast' /\ NothingForgotten'
      <3>1. /\ facts \in SUBSET Facts
            /\ \A fact \in facts : fact.version <= version[fact.pos]
        BY <1>1
      <3> QED
        BY <1>2, <2>1, <3>1, Missing
    <2>3. IndexTyped' /\ ReplayInOrder'
      BY <1>1, <1>2, <2>2 DEF IndexTyped, ReplayInOrder
    <2> QED
      BY <2>2, <2>3
  <1>3. CASE ReplayFails
    <2>1. PICK chunk \in SUBSET replay : Missed(chunk) /\ replay' = replay \ chunk
      BY <1>3 DEF ReplayFails
    <2>2. UNCHANGED <<open, version, matches, settlements, liquidations, reads, phase>>
      BY <1>3 DEF ReplayFails, chainVars, feeds
    <2>3. /\ chunk \in SUBSET InTransit /\ InTransit' \subseteq InTransit
          /\ InTransit \ InTransit' \subseteq chunk
      BY <2>1, <2>2 DEF InTransit
    <2>4. \A f, g \in chunk : f.pos = g.pos => f = g
      BY DEF ReplayInOrder
    <2>5. matches' \in Seq(Facts) /\ settlements' \in Seq(Facts)
      BY <1>1, <2>2 DEF IndexTyped
    <2> QED
      BY <1>2, <2>1, <2>2, <2>3, <2>4, <2>5
  <1>4. ASSUME NEW fact \in reads, ReadFails(fact)
        PROVE  IndexInv'
    <2>1. /\ UNCHANGED <<open, version, matches, settlements, liquidations, replay, phase>>
          /\ reads' = reads \ {fact} /\ Missed({fact})
      BY <1>4 DEF ReadFails, chainVars, feeds
    <2>2. /\ {fact} \in SUBSET InTransit /\ InTransit' \subseteq InTransit
          /\ InTransit \ InTransit' \subseteq {fact}
      BY <2>1 DEF InTransit
    <2>3. matches' \in Seq(Facts) /\ settlements' \in Seq(Facts)
      BY <1>1, <2>1 DEF IndexTyped
    <2> QED
      BY <1>2, <2>1, <2>2, <2>3
  <1>5. CASE LogLost
    <2>1. UNCHANGED <<open, version, phase, replay, reads>>
      BY <1>5 DEF LogLost, chainVars
    <2>2. CASE /\ matches # <<>> /\ Missed({Head(matches)}) /\ matches' = Tail(matches)
               /\ UNCHANGED <<liquidations, settlements>>
      <3>1. matches \in Seq(Facts) /\ settlements' \in Seq(Facts)
        BY <1>1, <2>2 DEF IndexTyped
      <3>2. /\ Tail(matches) \in Seq(Facts)
            /\ Range(matches) = {Head(matches)} \cup Range(Tail(matches))
        BY <2>2, <3>1, TailRange
      <3>3. /\ {Head(matches)} \in SUBSET InTransit /\ InTransit' \subseteq InTransit
            /\ InTransit \ InTransit' \subseteq {Head(matches)}
        BY <2>1, <2>2, <3>2 DEF InTransit
      <3> QED
        BY <1>2, <2>1, <2>2, <3>1, <3>2, <3>3
    <2>3. CASE /\ settlements # <<>> /\ Missed({Head(settlements)})
               /\ settlements' = Tail(settlements)
               /\ UNCHANGED <<matches, liquidations>>
      <3>1. settlements \in Seq(Facts) /\ matches' \in Seq(Facts)
        BY <1>1, <2>3 DEF IndexTyped
      <3>2. /\ Tail(settlements) \in Seq(Facts)
            /\ Range(settlements) = {Head(settlements)} \cup Range(Tail(settlements))
        BY <2>3, <3>1, TailRange
      <3>3. /\ {Head(settlements)} \in SUBSET InTransit /\ InTransit' \subseteq InTransit
            /\ InTransit \ InTransit' \subseteq {Head(settlements)}
        BY <2>1, <2>3, <3>2 DEF InTransit
      <3> QED
        BY <1>2, <2>1, <2>3, <3>1, <3>2, <3>3
    \* Neither leg of a lost liquidation is read back.
    <2>4. CASE /\ liquidations # <<>>
               /\ Missed({Current(Head(liquidations)),
                          Current(BackstopLeg(Head(liquidations)))})
               /\ liquidations' = Tail(liquidations)
               /\ UNCHANGED <<matches, settlements>>
      <3> DEFINE q == Head(liquidations)
                 facts == {Current(q), Current(BackstopLeg(q))}
      <3>1. liquidations \in Seq(Position)
        BY <1>1 DEF IndexTyped
      <3>2. /\ q \in Position /\ Tail(liquidations) \in Seq(Position)
            /\ Range(liquidations) = {q} \cup Range(Tail(liquidations))
        BY <2>4, <3>1, TailRange
      <3>3. BackstopLeg(q) \in Position
        BY <3>2 DEF BackstopLeg, ExpirationAt, Position, Account
      <3>4. /\ facts \in SUBSET Facts /\ \A f, g \in facts : f.pos = g.pos => f = g
            /\ \A fact \in facts : fact.version <= version[fact.pos]
        BY <1>1, <3>2, <3>3
      <3>5. InTransit' = InTransit
        BY <2>1, <2>4 DEF InTransit
      <3>6. ASSUME NEW p \in Position, ToBeRead(p)
            PROVE  \/ ToBeRead(p)'
                   \/ \E fact \in facts : fact.pos = p /\ fact.version = version[p]
        <4>1. CASE p \in LegsRead(q)
          <5>1. p = q \/ p = BackstopLeg(q)
            BY <4>1 DEF LegsRead
          <5> QED
            BY <1>1, <3>2, <3>3, <5>1
        <4>2. CASE p \notin LegsRead(q)
          BY <2>4, <3>2, <3>6, <4>2 DEF ToBeRead, LegsRead, BackstopLeg
        <4> QED
          BY <4>1, <4>2
      <3>7. Missed(facts)
        BY <2>4
      <3> HIDE DEF facts
      <3>8. /\ indexed' \subseteq Position /\ spoiled' \subseteq Position
            /\ beyond' \subseteq Position /\ seen' \in [Position -> Nat]
            /\ FactsTrue' /\ SeenIsPast' /\ NothingForgotten'
        BY <2>1, <3>4, <3>5, <3>6, <3>7, Missing
      <3>9. IndexTyped' /\ ReplayInOrder'
        BY <1>1, <2>1, <2>4, <3>2, <3>8 DEF IndexTyped, ReplayInOrder
      <3> QED
        BY <3>8, <3>9
    <2> QED
      BY <1>5, <2>2, <2>3, <2>4 DEF LogLost
  <1> QED
    BY <1>3, <1>4, <1>5 DEF IndexFails

LEMMA MarketKeepsIndex ==
    ASSUME IndexInv, Market
    PROVE  IndexInv'
  <1> USE DEF IndexInv
  <1>1. /\ IndexTyped /\ InTransit \subseteq Facts
        /\ \A p \in Position : version[p] \in Nat
    BY Typed DEF IndexTyped
  <1>2. ASSUME NEW p \in Position, Trade(p)
        PROVE  IndexInv'
    <2>1. PICK active \in BOOLEAN :
              /\ open' = IF active THEN open \cup {p} ELSE open \ {p}
              /\ version' = [version EXCEPT ![p] = @ + 1]
              /\ matches' = Append(matches, Fact(p, active, version'[p]))
      BY <1>2 DEF Trade
    <2> DEFINE logged == Fact(p, active, version'[p])
    <2>2. UNCHANGED <<settlements, liquidations, phase, replay, reads, indexed, seen, spoiled, beyond>>
      BY <1>2 DEF Trade, indexVars, indexState
    <2>3. /\ version' \in [Position -> Nat] /\ version'[p] = version[p] + 1
          /\ \A q \in Position \ {p} : version'[q] = version[q]
      BY <1>1, <2>1 DEF IndexTyped
    <2>4. /\ logged \in Facts /\ logged.pos = p /\ logged.version = version'[p]
          /\ logged.active <=> p \in open'
      <3>1. version'[p] \in Nat
        BY <2>3
      <3>2. CASE active = TRUE
        <4>1. p \in open'
          BY <2>1, <3>2
        <4> QED
          BY <3>1, <3>2, <4>1, FactTyped
      <3>3. CASE active = FALSE
        <4>1. p \notin open'
          BY <2>1, <3>3
        <4> QED
          BY <3>1, <3>3, <4>1, FactTyped
      <3> QED
        BY <3>2, <3>3
    <2>5. matches \in Seq(Facts) /\ matches' = Append(matches, logged)
      BY <1>1, <2>1 DEF IndexTyped
    <2> HIDE DEF logged
    <2>6. matches' \in Seq(Facts) /\ Range(matches') = Range(matches) \cup {logged}
      BY <2>4, <2>5, AppendRange
    <2>7. InTransit' = InTransit \cup {logged}
      BY <2>2, <2>6 DEF InTransit
    <2>8. open' \subseteq Position /\ \A q \in Position \ {p} : q \in open' <=> q \in open
      BY <1>1, <2>1 DEF IndexTyped
    <2>9. IndexTyped'
      BY <1>1, <2>2, <2>3, <2>6, <2>8 DEF IndexTyped
    <2>10. version[p] < version'[p] /\ Carried(p)'
      BY <1>1, <2>3, <2>4, <2>7 DEF Carried
    <2>11. FactsTrue' /\ SeenIsPast' /\ NothingForgotten' /\ ReplayInOrder'
      <3>1. InTransit' \subseteq Facts /\ Range(liquidations)' = Range(liquidations)
        BY <1>1, <2>2, <2>4, <2>7
      <3>2. \A fact \in InTransit' \ InTransit :
                /\ fact.version = version'[fact.pos]
                /\ fact.active <=> fact.pos \in open'
        BY <2>4, <2>7
      <3>3. \A q \in {p} : version[q] < version'[q] /\ Carried(q)'
        BY <2>10
      <3>4. {p} \in SUBSET Position /\ InTransit \subseteq InTransit'
        BY <2>7
      <3> QED
        BY <2>2, <2>3, <2>8, <3>1, <3>2, <3>3, <3>4, Changing
    <2> QED
      BY <2>9, <2>11
  <1>3. ASSUME NEW p \in Position, Liquidate(p)
        PROVE  IndexInv'
    <2> DEFINE leg == <<Backstop, ExpirationAt(p)>>
    <2>1. /\ version' = [version EXCEPT ![p] = @ + 1, ![leg] = @ + 1]
          /\ liquidations' = Append(liquidations, p)
          /\ \E left \in SUBSET {p, leg} : open' = (open \ {p, leg}) \cup left
          /\ HeldBy(p) # Backstop
          /\ UNCHANGED <<matches, settlements, phase, replay, reads, indexed, seen, spoiled, beyond>>
      BY <1>3 DEF Liquidate, indexVars, indexState, BackstopLeg
    <2>2. leg \in Position /\ leg # p /\ LegsRead(p) = {p, leg}
      BY <2>1 DEF Position, Account, ExpirationAt, HeldBy, LegsRead, BackstopLeg
    <2> HIDE DEF leg
    <2>3. /\ version' \in [Position -> Nat]
          /\ \A q \in {p, leg} : version'[q] = version[q] + 1
          /\ \A q \in Position \ {p, leg} : version'[q] = version[q]
      <3>1. version \in [Position -> Nat]
        BY <1>1 DEF IndexTyped
      <3>2. \A q \in Position :
               version'[q] = IF q \in {p, leg} THEN version[q] + 1 ELSE version[q]
        BY <2>1, <2>2, <3>1
      <3>3. version' \in [Position -> Nat]
        BY <2>1, <2>2, <3>1
      <3> QED
        BY <2>2, <3>2, <3>3
    <2>4. /\ open' \subseteq Position
          /\ \A q \in Position \ {p, leg} : q \in open' <=> q \in open
      BY <1>1, <2>1, <2>2 DEF IndexTyped
    <2>5. /\ liquidations' \in Seq(Position)
          /\ Range(liquidations') = Range(liquidations) \cup {p}
      BY <1>1, <2>1, AppendRange DEF IndexTyped
    <2>6. InTransit' = InTransit
      BY <2>1 DEF InTransit
    <2>7. ASSUME NEW q \in {p, leg}
          PROVE  version[q] < version'[q] /\ Carried(q)'
      <3>1. version[q] < version'[q]
        BY <1>1, <2>2, <2>3
      <3>2. p \in Range(liquidations') /\ q \in LegsRead(p)
        BY <2>2, <2>5
      <3> QED
        BY <3>1, <3>2 DEF Carried, ToBeRead, LegsRead, BackstopLeg
    <2>8. IndexTyped'
      BY <1>1, <2>1, <2>3, <2>4, <2>5 DEF IndexTyped
    <2>9. FactsTrue' /\ SeenIsPast' /\ NothingForgotten' /\ ReplayInOrder'
      BY <1>1, <2>1, <2>2, <2>3, <2>4, <2>5, <2>6, <2>7, Changing
    <2> QED
      BY <2>8, <2>9
  <1>4. ASSUME NEW e \in Expiry, Mature(e)
        PROVE  IndexInv'
    <2>1. UNCHANGED <<open, version, matches, settlements, liquidations, phase, replay>>
          /\ UNCHANGED <<reads, indexed, seen, spoiled, beyond>>
      BY <1>4 DEF Mature, feeds, indexVars, indexState
    <2> QED
      BY <2>1 DEF IndexTyped, FactsTrue, SeenIsPast, NothingForgotten, ReplayInOrder,
                  InTransit, Carried, Applied, ToBeRead, LegsRead, BackstopLeg
  <1>5. ASSUME NEW p \in Position, RivalSettles(p)
        PROVE  IndexInv'
    <2>1. {p} \in SUBSET open /\ Settles({p})
          /\ UNCHANGED <<matches, liquidations, indexState>>
      BY <1>5 DEF RivalSettles, indexVars
    <2> QED
      BY <2>1, SettlesKeepsIndex
  <1> QED
    BY <1>2, <1>3, <1>4, <1>5 DEF Market
LEMMA IndexInvInductive ==
    /\ CoordinatorInit => IndexInv
    /\ IndexInv /\ [Next]_vars => IndexInv'
  <1>1. ASSUME CoordinatorInit
        PROVE  IndexInv
    <2>1. /\ open \subseteq Position /\ version \in [Position -> Nat]
          /\ matches = <<>> /\ settlements = <<>> /\ liquidations = <<>>
          /\ reads = {} /\ indexed = {} /\ spoiled = {} /\ seen = version
          /\ replay = {} /\ beyond = Position
      BY <1>1 DEF CoordinatorInit, Init
    <2>2. InTransit = {}
      BY <2>1 DEF InTransit, Range
    <2>3. IndexTyped /\ FactsTrue /\ SeenIsPast /\ NothingForgotten /\ ReplayInOrder
      BY <2>1, <2>2 DEF IndexTyped, FactsTrue, SeenIsPast, NothingForgotten, Applied,
                        ReplayInOrder
    <2> QED
      BY <2>3 DEF IndexInv
  <1>2. ASSUME IndexInv,
               UNCHANGED <<open, version, feeds, indexState>>
        PROVE  IndexInv'
    BY <1>2 DEF IndexInv, IndexTyped, FactsTrue, SeenIsPast, NothingForgotten,
                ReplayInOrder, InTransit, Carried, Applied, ToBeRead, LegsRead, feeds, indexState
  <1>3. ASSUME IndexInv, NEW positions, Mined(positions),
               UNCHANGED <<matches, liquidations, indexState>>
        PROVE  IndexInv'
    <2>1. CASE Settles(positions \cap open)
      BY <1>3, <2>1, SettlesKeepsIndex
    <2>2. CASE NothingSettles
      BY <1>2, <1>3, <2>2 DEF NothingSettles, feeds
    <2> QED
      BY <1>3, <2>1, <2>2 DEF Mined
  <1>4. ASSUME IndexInv, [Next]_vars
        PROVE  IndexInv'
    <2>1. CASE Follow \/ StartUp \/ IndexFails \/ Market
      BY <1>4, <2>1, FollowKeepsIndex, StartUpKeepsIndex, FailureKeepsIndex,
         MarketKeepsIndex
    <2>2. CASE start
      BY <1>2, <1>4, <2>2 DEF start, allIndexVars, chainVars, indexVars
    <2>3. ASSUME NEW s \in Sweep, sweep(s) \/ nextSlice(s)
          PROVE  IndexInv'
      BY <1>2, <1>4, <2>3
         DEF sweep, nextSlice, settleBatch, allIndexVars, chainVars, indexVars
    <2>4. CASE Simulate
      BY <1>2, <1>4, <2>4 DEF Simulate, chainVars
    <2>5. CASE Write
      BY <1>2, <1>4, <2>5 DEF Write, chainVars
    <2>6. CASE Receipt
      BY <1>3, <1>4, <2>6 DEF Receipt
    <2>7. CASE ReceiptLost
      <3>1. CASE Settles(settleable \cap open)
        BY <1>4, <2>7, <3>1, SettlesKeepsIndex DEF ReceiptLost
      <3>2. CASE NothingSettles
        BY <1>2, <1>4, <2>7, <3>2 DEF ReceiptLost, NothingSettles, feeds
      <3> QED
        BY <2>7, <3>1, <3>2 DEF ReceiptLost
    <2>8. ASSUME NEW p \in Position, Fallback(p)
          PROVE  IndexInv'
      <3>1. CASE NothingSettles
        BY <1>2, <1>4, <2>8, <3>1 DEF Fallback, NothingSettles, feeds
      <3>2. CASE Mined({p})
        BY <1>3, <1>4, <2>8, <3>2 DEF Fallback
      <3> QED
        BY <2>8, <3>1, <3>2 DEF Fallback
    <2>9. CASE Restart
      <3>1. /\ open' = open /\ version' = version
            /\ matches' = <<>> /\ settlements' = <<>> /\ liquidations' = <<>>
            /\ reads' = {} /\ indexed' = {} /\ spoiled' = {} /\ seen' = version
            /\ replay' = {} /\ beyond' = Position
        BY <2>9 DEF Restart, chainVars
      <3>2. IndexTyped /\ \A p \in Position : version[p] \in Nat
        BY <1>4 DEF IndexInv, IndexTyped
      <3>3. InTransit' = {}
        BY <3>1 DEF InTransit, Range
      <3>4. IndexTyped' /\ FactsTrue' /\ SeenIsPast' /\ NothingForgotten' /\ ReplayInOrder'
        BY <3>1, <3>2, <3>3 DEF IndexTyped, FactsTrue, SeenIsPast, NothingForgotten, Applied,
                                ReplayInOrder
      <3> QED
        BY <3>4 DEF IndexInv
    <2>10. CASE UNCHANGED vars
      BY <1>2, <1>4, <2>10 DEF vars, allIndexVars, chainVars, indexVars
    <2> QED
      BY <1>4, <2>1, <2>2, <2>3, <2>4, <2>5, <2>6, <2>7, <2>8, <2>9, <2>10 DEF Next, Attempt
  <1> QED
    BY <1>1, <1>4

\* With nothing about a position on its way, the index says of it what the chain
\* says, unless its last fact was stale or was lost, or the position is older than
\* the logs this start could see: whatever the order in which four watchers that
\* may lose logs, reads, the replay of the window and crashes fall.
THEOREM IndexFollowsChain == Spec => []IndexIsExact
  <1>1. IndexInv => IndexIsExact
    <2> SUFFICES ASSUME IndexInv, NEW p \in Position, Quiet(p),
                        p \notin spoiled \cup beyond
                 PROVE  p \in indexed <=> p \in open
      BY DEF IndexIsExact
    <2>1. replay = {}
      BY DEF IndexInv, ReplayInOrder, Quiet
    <2>2. \A fact \in InTransit : fact.pos # p
      BY <2>1 DEF InTransit, Range, Quiet
    <2>3. ASSUME NEW i \in DOMAIN liquidations
          PROVE  p \notin LegsRead(liquidations[i])
      <3>1. CASE p = liquidations[i]
        BY <3>1 DEF Quiet
      <3>2. CASE p = BackstopLeg(liquidations[i])
        BY <3>2 DEF Quiet, HeldBy, ExpirationAt, BackstopLeg
      <3> QED
        BY <3>1, <3>2 DEF LegsRead
    <2>4. ~Carried(p)
      BY <2>2, <2>3 DEF Carried, ToBeRead, Range
    <2> QED
      BY <2>4 DEF IndexInv, NothingForgotten, Applied
  <1> QED
    BY <1>1, IndexInvInductive, PTL DEF Spec
--------------------------------------------------------------------------------
(* Batches.                                                                *)

BatchInv ==
    /\ DOMAIN batch = Sweep
    /\ txChain \in Seq(Sweep)
    /\ OneBatchPerPosition

LEMMA TailInjective ==
    ASSUME NEW S, NEW s \in Seq(S), s # <<>>, IsInjective(s)
    PROVE  IsInjective(Tail(s)) /\ Range(Tail(s)) = Range(s) \ {Head(s)}
  <1>1. /\ Len(s) \in Nat \ {0} /\ DOMAIN s = 1..Len(s) /\ Head(s) = s[1]
        /\ DOMAIN Tail(s) = 1..(Len(s) - 1)
        /\ \A i \in 1..(Len(s) - 1) : Tail(s)[i] = s[i + 1]
    OBVIOUS
  <1>2. \A i \in DOMAIN Tail(s) : i + 1 \in DOMAIN s /\ i + 1 # 1
    BY <1>1
  <1>3. IsInjective(Tail(s))
    <2> SUFFICES ASSUME NEW i \in DOMAIN Tail(s), NEW j \in DOMAIN Tail(s),
                        Tail(s)[i] = Tail(s)[j]
                 PROVE  i = j
      BY DEF IsInjective
    <2>1. s[i + 1] = s[j + 1]
      BY <1>1
    <2>2. i + 1 = j + 1
      BY <1>2, <2>1 DEF IsInjective
    <2> QED
      BY <1>1, <2>2
  <1>4. Range(s) = {Head(s)} \cup Range(Tail(s))
    BY TailRange
  <1>5. Head(s) \notin Range(Tail(s))
    <2> SUFFICES ASSUME NEW i \in DOMAIN Tail(s), Tail(s)[i] = Head(s)
                 PROVE  FALSE
      BY DEF Range
    <2>1. s[i + 1] = s[1] /\ 1 \in DOMAIN s
      BY <1>1
    <2> QED
      BY <1>2, <2>1 DEF IsInjective
  <1> QED
    BY <1>3, <1>4, <1>5

LEMMA AppendKeepsInjective ==
    ASSUME NEW S, NEW s \in Seq(S), NEW e \in S, IsInjective(s), e \notin Range(s)
    PROVE  IsInjective(Append(s, e))
  <1>1. /\ Len(s) \in Nat /\ DOMAIN s = 1..Len(s)
        /\ DOMAIN Append(s, e) = 1..(Len(s) + 1)
        /\ Append(s, e)[Len(s) + 1] = e
        /\ \A i \in 1..Len(s) : Append(s, e)[i] = s[i]
    OBVIOUS
  <1>2. \A i \in DOMAIN Append(s, e) :
            \/ i \in DOMAIN s /\ Append(s, e)[i] = s[i] /\ s[i] # e
            \/ i = Len(s) + 1 /\ Append(s, e)[i] = e
    BY <1>1 DEF Range
  <1>3. ASSUME NEW i \in DOMAIN Append(s, e), NEW j \in DOMAIN Append(s, e),
               Append(s, e)[i] = Append(s, e)[j]
        PROVE  i = j
    BY <1>2, <1>3 DEF IsInjective
  <1> QED
    BY <1>3 DEF IsInjective

\* The head of the queue has a batch to run.
LEMMA RunningIsABatch ==
    ASSUME BatchInv, txChain # <<>>
    PROVE  Head(txChain) \in Sweep /\ batch[Head(txChain)] # {}
  <1>1. /\ Head(txChain) \in Sweep
        /\ Range(txChain) = {Head(txChain)} \cup Range(Tail(txChain))
    BY TailRange DEF BatchInv
  <1>2. Range(txChain) = {s \in Sweep : batch[s] # {}}
    BY DEF BatchInv, OneBatchPerPosition, Range
  <1> QED
    BY <1>1, <1>2

LEMMA SliceKeepsBatches ==
    ASSUME BatchInv, NEW s \in Sweep, batch[s] = {}, NEW candidates,
           settleBatch(s, candidates)
    PROVE  BatchInv'
  <1>1. PICK slice \in SUBSET candidates :
            /\ batch' = [batch EXCEPT ![s] = fresh(slice)]
            /\ inflight' = inflight \cup fresh(slice)
            /\ txChain' = IF fresh(slice) = {} THEN txChain ELSE Append(txChain, s)
    BY DEF settleBatch
  <1>2. UNCHANGED <<stage, settleable>>
    BY DEF settleBatch
  <1> DEFINE new == fresh(slice)
  <1>3. new \cap inflight = {}
    BY DEF fresh
  <1> HIDE DEF new
  <1>4. /\ DOMAIN batch = Sweep /\ txChain \in Seq(Sweep) /\ IsInjective(txChain)
        /\ inflight = UNION {batch[t] : t \in Sweep}
        /\ Range(txChain) = {t \in Sweep : batch[t] # {}}
        /\ \A t, u \in Sweep : t # u => batch[t] \cap batch[u] = {}
        /\ stage # "idle" => txChain # <<>> /\ settleable \subseteq batch[Head(txChain)]
    BY DEF BatchInv, OneBatchPerPosition, Range, Running
  <1>5. /\ DOMAIN batch' = Sweep /\ batch'[s] = new
        /\ \A t \in Sweep \ {s} : batch'[t] = batch[t]
    BY <1>1, <1>4 DEF new
  <1>6. inflight' = UNION {batch'[t] : t \in Sweep}
    BY <1>1, <1>4, <1>5 DEF new
  <1>7. \A t, u \in Sweep : t # u => batch'[t] \cap batch'[u] = {}
    BY <1>3, <1>4, <1>5
  <1>8. /\ txChain' \in Seq(Sweep) /\ IsInjective(txChain')
        /\ Range(txChain') = {t \in Sweep : batch'[t] # {}}
        /\ txChain # <<>> => txChain' # <<>> /\ Head(txChain') = Head(txChain)
    <2>1. CASE new = {}
      BY <1>1, <1>4, <1>5, <2>1 DEF new
    <2>2. CASE new # {}
      <3>1. txChain' = Append(txChain, s) /\ s \notin Range(txChain)
        BY <1>1, <1>4, <2>2 DEF new
      <3>2. txChain' \in Seq(Sweep) /\ Range(txChain') = Range(txChain) \cup {s}
        BY <1>4, <3>1, AppendRange
      <3>3. IsInjective(txChain')
        BY <1>4, <3>1, AppendKeepsInjective
      <3>4. txChain # <<>> => txChain' # <<>> /\ Head(txChain') = Head(txChain)
        BY <1>4, <3>1
      <3>5. Range(txChain') = {t \in Sweep : batch'[t] # {}}
        BY <1>4, <1>5, <2>2, <3>2
      <3> QED
        BY <3>2, <3>3, <3>4, <3>5
    <2> QED
      BY <2>1, <2>2
  <1>9. stage' # "idle" => txChain' # <<>> /\ settleable' \subseteq batch'[Head(txChain')]
    <2> SUFFICES ASSUME stage # "idle"
                 PROVE  txChain' # <<>> /\ settleable \subseteq batch'[Head(txChain')]
      BY <1>2
    <2>1. Head(txChain) \in Sweep \ {s}
      BY <1>4, RunningIsABatch
    <2> QED
      BY <1>4, <1>5, <1>8, <2>1
  <1> QED
    BY <1>5, <1>6, <1>7, <1>8, <1>9 DEF BatchInv, OneBatchPerPosition, Range, Running

LEMMA EndKeepsBatches ==
    ASSUME BatchInv, txChain # <<>>, EndBatch
    PROVE  BatchInv'
  <1> DEFINE h == Head(txChain)
  <1>1. /\ DOMAIN batch = Sweep /\ txChain \in Seq(Sweep) /\ IsInjective(txChain)
        /\ inflight = UNION {batch[t] : t \in Sweep}
        /\ Range(txChain) = {t \in Sweep : batch[t] # {}}
        /\ \A t, u \in Sweep : t # u => batch[t] \cap batch[u] = {}
    BY DEF BatchInv, OneBatchPerPosition, Range
  <1>2. /\ batch' = [batch EXCEPT ![h] = {}] /\ txChain' = Tail(txChain)
        /\ inflight' = inflight \ batch[h] /\ stage' = "idle"
    BY DEF EndBatch, Running
  <1>3. h \in Sweep
    BY RunningIsABatch
  <1>4. /\ IsInjective(txChain') /\ Range(txChain') = Range(txChain) \ {h}
        /\ txChain' \in Seq(Sweep)
    BY <1>1, <1>2, TailInjective, TailRange
  <1> HIDE DEF h
  <1>5. /\ DOMAIN batch' = Sweep /\ batch'[h] = {}
        /\ \A t \in Sweep \ {h} : batch'[t] = batch[t]
    BY <1>1, <1>2, <1>3
  <1>6. inflight' = UNION {batch'[t] : t \in Sweep}
    BY <1>1, <1>2, <1>3, <1>5
  <1>7. \A t, u \in Sweep : t # u => batch'[t] \cap batch'[u] = {}
    BY <1>1, <1>5
  <1>8. Range(txChain') = {t \in Sweep : batch'[t] # {}}
    BY <1>1, <1>3, <1>4, <1>5
  <1> QED
    BY <1>2, <1>4, <1>5, <1>6, <1>7, <1>8 DEF BatchInv, OneBatchPerPosition, Range

LEMMA EnterKeepsBatches ==
    ASSUME BatchInv, txChain # <<>>, NEW next, NEW positions \in SUBSET Running,
           Enter(next, positions)
    PROVE  BatchInv'
  BY DEF BatchInv, OneBatchPerPosition, Enter, Running

LEMMA BatchInvInductive ==
    /\ CoordinatorInit => BatchInv
    /\ BatchInv /\ [Next]_vars => BatchInv'
  <1>1. CoordinatorInit => BatchInv
    BY DEF CoordinatorInit, BatchInv, OneBatchPerPosition, IsInjective
  <1>2. BatchInv /\ [Next]_vars => BatchInv'
    <2> SUFFICES ASSUME BatchInv, [Next]_vars
                 PROVE  BatchInv'
      OBVIOUS
    <2>1. ASSUME UNCHANGED <<inflight, batch, txChain, stage, settleable>>
          PROVE  BatchInv'
      BY <2>1 DEF BatchInv, OneBatchPerPosition, Running
    <2>2. stage # "idle" => txChain # <<>> /\ settleable \subseteq Running
      BY DEF BatchInv, OneBatchPerPosition
    <2>3. CASE onPositionChanged \/ start \/ UNCHANGED vars
      BY <2>1, <2>3 DEF onPositionChanged, start, vars, coordinatorVars, batchVars
    <2>4. ASSUME NEW s \in Sweep, sweep(s) \/ nextSlice(s)
          PROVE  BatchInv'
      BY <2>4, SliceKeepsBatches DEF sweep, nextSlice, CanSweep
    <2>5. CASE Simulate
      <3>1. PICK skipped \in SUBSET (Running \cap open) :
                LET rest == (Running \cap open) \ skipped
                IN  IF rest = {} THEN EndBatch ELSE Enter("write", rest)
        BY <2>5 DEF Simulate
      <3>2. txChain # <<>> /\ (Running \cap open) \ skipped \in SUBSET Running
        BY <2>5 DEF Simulate
      <3> QED
        BY <3>1, <3>2, EndKeepsBatches, EnterKeepsBatches
    <2>6. CASE Write
      <3>1. \/ Enter("receipt", settleable) \/ EndBatch
            \/ Enter("fallback", settleable)
        BY <2>6 DEF Write
      <3>2. txChain # <<>> /\ settleable \in SUBSET Running
        BY <2>2, <2>6 DEF Write
      <3> QED
        BY <3>1, <3>2, EndKeepsBatches, EnterKeepsBatches
    <2>7. CASE Receipt \/ ReceiptLost
      <3>1. EndBatch /\ txChain # <<>>
        BY <2>2, <2>7 DEF Receipt, ReceiptLost
      <3> QED
        BY <3>1, EndKeepsBatches
    <2>8. ASSUME NEW p \in Position, Fallback(p)
          PROVE  BatchInv'
      <3>1. EndBatch \/ Enter("fallback", settleable \ {p})
        BY <2>8 DEF Fallback
      <3>2. txChain # <<>> /\ settleable \ {p} \in SUBSET Running
        BY <2>2, <2>8 DEF Fallback
      <3> QED
        BY <3>1, <3>2, EndKeepsBatches, EnterKeepsBatches
    <2>9. CASE Restart
      <3>1. /\ batch' = [s \in Sweep |-> {}] /\ inflight' = {}
            /\ txChain' = <<>> /\ stage' = "idle"
        BY <2>9 DEF Restart
      <3> QED
        BY <3>1 DEF BatchInv, OneBatchPerPosition, IsInjective
    <2> QED
      BY <2>3, <2>4, <2>5, <2>6, <2>7, <2>8, <2>9 DEF Next, Attempt
  <1> QED
    BY <1>1, <1>2

\* However sweeps and timers overlap, no position is in two batches at once,
\* what is in flight is what the batches hold, and batches wait in one queue.
THEOREM BatchesAreDisjoint == Spec => []OneBatchPerPosition
  <1>1. BatchInv => OneBatchPerPosition
    BY DEF BatchInv
  <1> QED
    BY <1>1, BatchInvInductive, PTL DEF Spec

--------------------------------------------------------------------------------
(* What the sweeps lose.                                                   *)

\* What is settled has matured, so nothing opens it again; and what the index
\* holds and the sweeps do not has matured, and is settled or was reverted.
Taken == settleable \cup UNION {batch[s] \cup pending[s] : s \in Sweep}

LossInv ==
    /\ BatchInv
    /\ DOMAIN pending = Sweep
    /\ \A p \in Taken : IsMatured(p)
    /\ listening =>
          \A p \in indexed \ tracked : IsMatured(p) /\ (p \in open => p \in reverted)

\* A matured position is never opened, nor is a maturity taken back.
LEMMA MaturedStaysClosed ==
    ASSUME Follow \/ StartUp \/ IndexFails \/ Market
    PROVE  \A p \in Position : IsMatured(p) => IsMatured(p)' /\ (p \in open' => p \in open)
  <1>1. ASSUME UNCHANGED <<open, matured>>
        PROVE  \A p \in Position : IsMatured(p) => IsMatured(p)' /\ (p \in open' => p \in open)
    BY <1>1 DEF IsMatured
  <1>2. CASE Follow
    BY <1>1, <1>2 DEF Follow, onOrderMatched, onPositionLiquidated, onPositionSettled,
                      ReadApplied, chainVars
  <1>3. CASE StartUp
    BY <1>1, <1>3 DEF StartUp, bootstrap, NoTargets, Replay, ReconcileReads,
                      ReconcileApplies, seedUsers, chainVars
  <1>4. CASE IndexFails
    BY <1>1, <1>4 DEF IndexFails, ReplayFails, LogLost, ReadFails, chainVars
  <1>5. ASSUME NEW p \in Position, Trade(p)
        PROVE  \A q \in Position : IsMatured(q) => IsMatured(q)' /\ (q \in open' => q \in open)
    <2>1. /\ ~IsMatured(p) /\ matured' = matured /\ open' \subseteq open \cup {p}
      BY <1>5 DEF Trade
    <2> QED
      BY <2>1 DEF IsMatured
  <1>6. ASSUME NEW p \in Position, Liquidate(p)
        PROVE  \A q \in Position : IsMatured(q) => IsMatured(q)' /\ (q \in open' => q \in open)
    <2> DEFINE leg == <<Backstop, ExpirationAt(p)>>
    <2>1. /\ ~IsMatured(p) /\ matured' = matured /\ open' \subseteq open \cup {p, leg}
      BY <1>6 DEF Liquidate, BackstopLeg
    <2>2. ~IsMatured(leg)
      BY <2>1 DEF IsMatured, ExpirationAt
    <2> HIDE DEF leg
    <2> QED
      BY <2>1, <2>2 DEF IsMatured
  <1>7. ASSUME NEW e \in Expiry, Mature(e)
        PROVE  \A q \in Position : IsMatured(q) => IsMatured(q)' /\ (q \in open' => q \in open)
    BY <1>7 DEF Mature, IsMatured
  <1>8. ASSUME NEW p \in Position, RivalSettles(p)
        PROVE  \A q \in Position : IsMatured(q) => IsMatured(q)' /\ (q \in open' => q \in open)
    BY <1>8 DEF RivalSettles, Settles, IsMatured
  <1> QED
    BY <1>2, <1>3, <1>4, <1>5, <1>6, <1>7, <1>8 DEF Market

LEMMA LossInvInductive ==
    /\ CoordinatorInit => LossInv
    /\ LossInv /\ IndexInv /\ BatchInv' /\ [Next]_vars => LossInv'
  <1>1. ASSUME CoordinatorInit
        PROVE  LossInv
    <2>1. BatchInv
      BY <1>1 DEF CoordinatorInit, BatchInv, OneBatchPerPosition, IsInjective
    <2>2. /\ DOMAIN pending = Sweep /\ Taken = {} /\ listening = FALSE
      BY <1>1 DEF CoordinatorInit, Taken
    <2> QED
      BY <2>1, <2>2 DEF LossInv
  <1> SUFFICES ASSUME LossInv, IndexInv, BatchInv', [Next]_vars
               PROVE  LossInv'
    BY <1>1
  <1>2. /\ BatchInv /\ DOMAIN pending = Sweep /\ DOMAIN batch = Sweep
        /\ \A p \in Taken : IsMatured(p)
        /\ indexed \subseteq Position
        /\ listening =>
              \A p \in indexed \ tracked : IsMatured(p) /\ (p \in open => p \in reverted)
    BY DEF LossInv, BatchInv, IndexInv, IndexTyped
  <1>3. stage # "idle" => txChain # <<>>
    BY <1>2 DEF BatchInv, OneBatchPerPosition
  \* Nothing new is taken, and what is dropped is settled or was reverted.
  <1>4. ASSUME UNCHANGED <<matured, indexed, listening>>, open' \subseteq open,
               DOMAIN pending' = Sweep, Taken' \subseteq Taken,
               reverted \subseteq reverted',
               tracked \subseteq tracked' \cup Taken,
               \A p \in tracked \ tracked' : p \in open' => p \in reverted'
        PROVE  LossInv'
    <2>1. \A p \in Taken' : IsMatured(p)'
      BY <1>2, <1>4 DEF IsMatured
    <2>2. ASSUME listening, NEW p \in indexed \ tracked'
          PROVE  IsMatured(p)' /\ (p \in open' => p \in reverted')
      <3>1. CASE p \in tracked
        BY <1>2, <1>4, <2>2, <3>1 DEF IsMatured
      <3>2. CASE p \notin tracked
        BY <1>2, <1>4, <2>2, <3>2 DEF IsMatured
      <3> QED
        BY <3>1, <3>2
    <2> QED
      BY <1>4, <2>1, <2>2 DEF LossInv
  <1>5. ASSUME EndBatch, txChain # <<>>
        PROVE  DOMAIN pending' = Sweep /\ Taken' \subseteq Taken
    <2>1. /\ pending' = pending /\ settleable' = {}
          /\ batch' = [batch EXCEPT ![Head(txChain)] = {}]
      BY <1>5 DEF EndBatch
    <2>2. \A s \in Sweep : batch'[s] \subseteq batch[s]
      BY <1>2, <2>1
    <2> QED
      BY <1>2, <2>1, <2>2 DEF Taken
  <1>6. Running \subseteq Taken \/ txChain = <<>>
    BY <1>2, RunningIsABatch DEF Running, Taken
  <1>7. ASSUME NEW next, NEW positions \in SUBSET Taken, Enter(next, positions)
        PROVE  DOMAIN pending' = Sweep /\ Taken' \subseteq Taken
    BY <1>2, <1>7 DEF Enter, Taken
  <1>8. CASE (Follow \/ StartUp \/ IndexFails \/ Market) /\ onPositionChanged
    <2>1. /\ tracked' = IF listening
                        THEN (tracked \cup (indexed' \ indexed)) \ (indexed \ indexed')
                        ELSE tracked
          /\ UNCHANGED <<listening, pending, batch, settleable, reverted>>
      BY <1>8 DEF onPositionChanged, batchVars
    <2>2. \A p \in Position : IsMatured(p) => IsMatured(p)' /\ (p \in open' => p \in open)
      BY <1>8, MaturedStaysClosed
    <2>3. matured \subseteq matured'
      BY <1>8 DEF Follow, onOrderMatched, onPositionLiquidated, onPositionSettled,
                  ReadApplied, StartUp, bootstrap, NoTargets, Replay, ReconcileReads,
                  ReconcileApplies, seedUsers, IndexFails, ReplayFails, LogLost, ReadFails,
                  chainVars, Market, Trade, Liquidate, Mature, RivalSettles
    <2>4. \A p \in Taken' : IsMatured(p)'
      BY <1>2, <2>1, <2>3 DEF Taken, IsMatured
    <2>5. ASSUME listening, NEW p \in indexed' \ tracked'
          PROVE  IsMatured(p)' /\ (p \in open' => p \in reverted')
      <3>1. p \in indexed \ tracked
        BY <2>1, <2>5
      <3> QED
        BY <1>2, <2>1, <2>2, <2>5, <3>1
    <2> QED
      BY <1>2, <2>1, <2>4, <2>5 DEF LossInv
  <1>9. CASE start
    <2>1. /\ tracked' = indexed /\ indexed' = indexed
          /\ UNCHANGED <<matured, pending, batch, settleable>>
      BY <1>9 DEF start, allIndexVars, chainVars, indexVars, indexState, batchVars
    <2> QED
      BY <1>2, <2>1 DEF LossInv, Taken, IsMatured
  <1>10. ASSUME NEW s \in Sweep, sweep(s) \/ nextSlice(s)
         PROVE  LossInv'
    <2>1. PICK candidates : /\ settleBatch(s, candidates)
                            /\ \A p \in candidates : IsMatured(p)
      <3>1. CASE sweep(s)
        <4>1. settleBatch(s, Candidates)
          BY <3>1 DEF sweep
        <4>2. \A p \in Candidates : IsMatured(p)
          BY DEF Candidates
        <4> QED
          BY <4>1, <4>2
      <3>2. CASE nextSlice(s)
        BY <1>2, <3>2 DEF nextSlice, Taken
      <3> QED
        BY <1>10, <3>1, <3>2
    <2>2. PICK slice \in SUBSET candidates :
              /\ pending' = [pending EXCEPT ![s] = candidates \ slice]
              /\ batch' = [batch EXCEPT ![s] = fresh(slice)]
      BY <2>1 DEF settleBatch
    <2>3. /\ UNCHANGED <<open, matured, indexed, listening, tracked, settleable, reverted>>
      BY <2>1 DEF settleBatch, allIndexVars, chainVars, indexVars, indexState
    <2>4. ASSUME NEW t \in Sweep, NEW p \in batch'[t] \cup pending'[t]
          PROVE  p \in Taken \cup candidates
      BY <1>2, <2>2, <2>4 DEF fresh, Taken
    <2>5. \A p \in Taken' : IsMatured(p)'
      <3>1. Taken' \subseteq Taken \cup candidates
        BY <2>3, <2>4 DEF Taken
      <3> QED
        BY <1>2, <2>1, <2>3, <3>1 DEF IsMatured
    <2> QED
      BY <1>2, <2>2, <2>3, <2>5 DEF LossInv, IsMatured
  <1>11. CASE Simulate
    <2>1. /\ txChain # <<>> /\ tracked' = tracked \ (Running \ open)
          /\ UNCHANGED <<open, matured, indexed, listening, reverted>>
      BY <1>11 DEF Simulate, dropMissing, chainVars, indexState
    <2>2. EndBatch \/ \E rest \in SUBSET Running : Enter("write", rest)
      BY <1>11 DEF Simulate
    <2>3. DOMAIN pending' = Sweep /\ Taken' \subseteq Taken
      BY <1>5, <1>6, <1>7, <2>1, <2>2
    <2> QED
      BY <1>4, <1>6, <2>1, <2>3
  <1>12. CASE Write
    <2>1. UNCHANGED <<open, matured, indexed, listening, tracked, reverted>>
      BY <1>12 DEF Write, chainVars, indexState
    <2>2. EndBatch \/ \E next \in {"receipt", "fallback"} : Enter(next, settleable)
      BY <1>12 DEF Write
    <2>3. settleable \in SUBSET Taken /\ txChain # <<>>
      BY <1>3, <1>12 DEF Taken, Write
    <2>4. DOMAIN pending' = Sweep /\ Taken' \subseteq Taken
      BY <1>5, <1>7, <2>2, <2>3
    <2> QED
      BY <1>4, <2>1, <2>4
  <1>13. ASSUME NEW positions, Mined(positions)
         PROVE  /\ open' \subseteq open /\ reverted \subseteq reverted'
                /\ \A p \in positions : p \in open' => p \in reverted'
    BY <1>13 DEF Mined, Settles, NothingSettles
  <1>14. CASE Receipt
    <2>1. /\ UNCHANGED <<matured, indexed, listening>> /\ tracked' = tracked \ settleable
          /\ Mined(settleable) /\ EndBatch /\ txChain # <<>>
      BY <1>3, <1>14 DEF Receipt, indexState
    <2>2. settleable \subseteq Taken
      BY DEF Taken
    <2> QED
      BY <1>4, <1>5, <1>13, <2>1, <2>2
  <1>15. CASE ReceiptLost
    <2>1. /\ UNCHANGED <<matured, indexed, listening, tracked, reverted>>
          /\ open' \subseteq open /\ EndBatch /\ txChain # <<>>
      BY <1>3, <1>15 DEF ReceiptLost, Settles, NothingSettles, indexState
    <2> QED
      BY <1>4, <1>5, <2>1
  <1>16. ASSUME NEW p \in Position, Fallback(p)
         PROVE  LossInv'
    <2>1. /\ UNCHANGED <<matured, indexed, listening>> /\ txChain # <<>>
          /\ p \in Taken /\ settleable \subseteq Taken
          /\ EndBatch \/ Enter("fallback", settleable \ {p})
      BY <1>3, <1>16 DEF Fallback, Taken, indexState
    <2>2. /\ open' \subseteq open /\ reverted \subseteq reverted'
          /\ tracked \subseteq tracked' \cup {p}
          /\ \A q \in tracked \ tracked' : q \in open' => q \in reverted'
      <3>1. CASE NothingSettles /\ dropMissing({p}) /\ reverted' = reverted
        BY <3>1 DEF NothingSettles, dropMissing
      <3>2. CASE Mined({p}) /\ tracked' = tracked \ {p}
        BY <1>13, <3>2
      <3> QED
        BY <1>16, <3>1, <3>2 DEF Fallback
    <2>3. DOMAIN pending' = Sweep /\ Taken' \subseteq Taken
      BY <1>5, <1>7, <2>1
    <2> QED
      BY <1>4, <2>1, <2>2, <2>3
  <1>17. CASE Restart
    <2>1. /\ pending' = [s \in Sweep |-> {}] /\ batch' = [s \in Sweep |-> {}]
          /\ settleable' = {} /\ listening' = FALSE
      BY <1>17 DEF Restart
    <2> QED
      BY <2>1 DEF LossInv, Taken
  <1>18. CASE UNCHANGED vars
    BY <1>2, <1>4, <1>18 DEF vars, allIndexVars, chainVars, indexVars, indexState, coordinatorVars,
                             batchVars, Taken
  <1> QED
    BY <1>8, <1>9, <1>10, <1>11, <1>12, <1>14, <1>15, <1>16, <1>17, <1>18
       DEF Next, Attempt

\* An indexed position that is open is tracked, or was dropped after a
\* transaction that was mined and reverted: no overlap of sweeps, no failure, no
\* rival and no crash takes a position away from the sweeps in another way.
THEOREM OnlyRevertsLose == Spec => []OnlyARevertLoses
  <1>1. BatchInv /\ [Next]_vars => BatchInv'
    BY BatchInvInductive
  <1>2. CoordinatorInit => IndexInv /\ LossInv
    BY IndexInvInductive, LossInvInductive
  <1>3. IndexInv /\ LossInv /\ [Next]_vars => (IndexInv /\ LossInv)'
    BY <1>1, IndexInvInductive, LossInvInductive DEF LossInv
  <1>4. LossInv => OnlyARevertLoses
    BY DEF LossInv, OnlyARevertLoses
  <1> QED
    BY <1>2, <1>3, <1>4, PTL DEF Spec
================================================================================
