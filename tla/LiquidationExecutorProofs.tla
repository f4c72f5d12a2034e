------------------------ MODULE LiquidationExecutorProofs ------------------------
(***************************************************************************)
(* Proofs about LiquidationExecutor: for any accounts, workers and levels  *)
(* of health.                                                              *)
(***************************************************************************)
EXTENDS LiquidationExecutor, OperatorFacts, SequenceTheorems

Entries(q) == {q[i] : i \in DOMAIN q}

\* What CoordinatorQueue keeps: the most underwater first, and nobody twice.
IsQueue(q) ==
    /\ q \in Seq(Health)
    /\ \A i, j \in DOMAIN q :
          i < j => q[i].surplus <= q[j].surplus /\ q[i].user # q[j].user

--------------------------------------------------------------------------------
(* The queue.                                                              *)

LEMMA MinIsLeast ==
    ASSUME NEW I, I \subseteq Nat, I # {}
    PROVE  Min(I) \in I /\ \A m \in I : Min(I) <= m
  <1>1. PICK n \in I : \A m \in I : n <= m
    BY LeastNumber
  <1> QED
    BY <1>1 DEF Min

LEMMA MaxIsGreatest ==
    ASSUME NEW n \in Nat, NEW I, I \subseteq 1..n, I # {}
    PROVE  Max(I) \in I /\ \A m \in I : m <= Max(I)
  <1> DEFINE J == {n - i : i \in I}
  <1>1. J \subseteq Nat /\ J # {}
    <2>1. \A i \in I : n - i \in Nat
      OBVIOUS
    <2> QED
      BY <2>1
  <1>2. PICK k \in J : \A m \in J : k <= m
    <2> HIDE DEF J
    <2> QED
      BY <1>1, LeastNumber
  <1>3. PICK j \in I : k = n - j
    BY <1>2
  <1>4. ASSUME NEW m \in I PROVE m <= j
    <2>1. n - j <= n - m
      BY <1>2, <1>3
    <2> QED
      BY <2>1
  <1>5. j \in I /\ \A m \in I : m <= j
    BY <1>4
  <1> QED
    BY <1>5 DEF Max

\* A sequence without its k-th entry, put together from what is before and after.
LEMMA Joined ==
    ASSUME NEW q \in Seq(Health), NEW k \in 1..Len(q),
           NEW a \in Seq(Health), Len(a) = k - 1, \A i \in 1..k - 1 : a[i] = q[i],
           NEW b \in Seq(Health), Len(b) = Len(q) - k, \A i \in 1..Len(q) - k : b[i] = q[k + i]
    PROVE  /\ a \o b \in Seq(Health)
           /\ Len(a \o b) = Len(q) - 1
           /\ \A i \in 1..Len(q) - 1 : (a \o b)[i] = IF i < k THEN q[i] ELSE q[i + 1]
  <1> DEFINE r == a \o b
  <1>0. Len(q) \in Nat
    BY LenProperties
  <1>1. /\ r \in Seq(Health) /\ Len(r) = Len(a) + Len(b)
        /\ \A i \in 1..Len(a) + Len(b) :
              r[i] = IF i <= Len(a) THEN a[i] ELSE b[i - Len(a)]
    BY ConcatProperties
  <1> HIDE DEF r
  <1>2. ASSUME NEW i \in 1..Len(q) - 1
        PROVE  r[i] = IF i < k THEN q[i] ELSE q[i + 1]
    <2>1. CASE i < k
      <3>1. i \in 1..k - 1 /\ i \in 1..Len(a) + Len(b) /\ i <= Len(a)
        BY <1>0, <2>1
      <3> QED
        BY <1>1, <2>1, <3>1
    <2>2. CASE i >= k
      <3>1. /\ ~(i <= Len(a)) /\ ~(i < k) /\ i \in 1..Len(a) + Len(b)
            /\ i - Len(a) \in 1..Len(q) - k
            /\ k + (i - Len(a)) = i + 1
        BY <1>0, <2>2
      <3>2. r[i] = b[i - Len(a)]
        BY <1>1, <3>1
      <3> QED
        BY <3>1, <3>2
    <2> QED
      BY <1>0, <2>1, <2>2
  <1>3. Len(r) = Len(q) - 1
    BY <1>0, <1>1
  <1> QED
    BY <1>1, <1>2, <1>3 DEF r

LEMMA Cut ==
    ASSUME NEW q \in Seq(Health), NEW k \in 1..Len(q)
    PROVE  LET r == SubSeq(q, 1, k - 1) \o SubSeq(q, k + 1, Len(q))
           IN  /\ r \in Seq(Health)
               /\ Len(r) = Len(q) - 1
               /\ \A i \in 1..Len(q) - 1 : r[i] = IF i < k THEN q[i] ELSE q[i + 1]
  <1> DEFINE a == SubSeq(q, 1, k - 1)
             b == SubSeq(q, k + 1, Len(q))
  <1>1. Len(q) \in Nat /\ \A i \in 1..Len(q) : q[i] \in Health
    BY LenProperties, ElementOfSeq
  <1>2. /\ a \in Seq(Health) /\ Len(a) = k - 1
        /\ \A i \in 1..k - 1 : a[i] = q[i]
    <2>1. \A i \in 1..k - 1 : q[i] \in Health
      BY <1>1
    <2> QED
      BY <1>1, <2>1, SubSeqProperties
  <1>3. /\ b \in Seq(Health) /\ Len(b) = Len(q) - k
        /\ \A i \in 1..Len(q) - k : b[i] = q[k + i]
    <2>1. \A i \in k + 1..Len(q) : q[i] \in Health
      BY <1>1
    <2> QED
      BY <1>1, <2>1, SubSeqProperties
  <1> HIDE DEF a, b
  <1>4. /\ a \o b \in Seq(Health)
        /\ Len(a \o b) = Len(q) - 1
        /\ \A i \in 1..Len(q) - 1 : (a \o b)[i] = IF i < k THEN q[i] ELSE q[i + 1]
    BY <1>1, <1>2, <1>3, Joined
  <1> QED
    BY <1>4 DEF a, b

LEMMA Put ==
    ASSUME NEW q \in Seq(Health), NEW k \in 1..Len(q) + 1, NEW h \in Health
    PROVE  LET r == InsertAt(q, k, h)
           IN  /\ r \in Seq(Health)
               /\ Len(r) = Len(q) + 1
               /\ \A i \in 1..Len(r) :
                     r[i] = IF i < k THEN q[i] ELSE IF i = k THEN h ELSE q[i - 1]
  <1> DEFINE r == InsertAt(q, k, h)
             a == SubSeq(q, 1, k - 1)
             b == SubSeq(q, k, Len(q))
             c == a \o <<h>>
  <1>1. Len(q) \in Nat /\ \A i \in 1..Len(q) : q[i] \in Health
    BY LenProperties, ElementOfSeq
  <1>2. /\ a \in Seq(Health) /\ Len(a) = k - 1
        /\ \A i \in 1..k - 1 : a[i] = q[i]
    <2>1. \A i \in 1..k - 1 : q[i] \in Health
      BY <1>1
    <2> QED
      BY <1>1, <2>1, SubSeqProperties
  <1>3. /\ b \in Seq(Health) /\ Len(b) = Len(q) - k + 1
        /\ \A i \in 1..Len(q) - k + 1 : b[i] = q[k - 1 + i]
    <2>1. \A i \in k..Len(q) : q[i] \in Health
      BY <1>1
    <2> QED
      BY <1>1, <2>1, SubSeqProperties
  <1> HIDE DEF a, b, r
  <1>4. /\ c \in Seq(Health) /\ Len(c) = k
        /\ \A i \in 1..k : c[i] = IF i < k THEN a[i] ELSE h
    <2>1. <<h>> \in Seq(Health) /\ Len(<<h>>) = 1 /\ <<h>>[1] = h
      OBVIOUS
    <2> QED
      BY <1>1, <1>2, <2>1, ConcatProperties
  <1> HIDE DEF c
  <1>5. /\ r \in Seq(Health) /\ Len(r) = Len(q) + 1
        /\ \A i \in 1..Len(r) : r[i] = IF i <= k THEN c[i] ELSE b[i - k]
    <2>1. r = c \o b
      BY DEF a, b, c, r, InsertAt
    <2>2. /\ r \in Seq(Health) /\ Len(r) = Len(c) + Len(b)
          /\ \A i \in 1..Len(c) + Len(b) :
                r[i] = IF i <= Len(c) THEN c[i] ELSE b[i - Len(c)]
      BY <1>3, <1>4, <2>1, ConcatProperties
    <2> QED
      BY <1>1, <1>3, <1>4, <2>2
  <1>6. ASSUME NEW i \in 1..Len(r)
        PROVE  r[i] = IF i < k THEN q[i] ELSE IF i = k THEN h ELSE q[i - 1]
    <2>1. CASE i <= k
      <3>1. i \in 1..k /\ (i < k => i \in 1..k - 1)
        BY <1>1, <1>5, <2>1
      <3>2. r[i] = IF i < k THEN a[i] ELSE h
        BY <1>4, <1>5, <2>1, <3>1
      <3> QED
        BY <1>2, <2>1, <3>1, <3>2
    <2>2. CASE i > k
      <3>1. /\ ~(i <= k) /\ ~(i < k) /\ i # k
            /\ i - k \in 1..Len(q) - k + 1
            /\ k - 1 + (i - k) = i - 1
        BY <1>1, <1>5, <2>2
      <3>2. r[i] = b[i - k]
        BY <1>5, <3>1
      <3> QED
        BY <1>3, <3>1, <3>2
    <2> QED
      BY <1>1, <1>5, <2>1, <2>2
  <1> QED
    BY <1>5, <1>6 DEF r

LEMMA QueueEntries ==
    ASSUME NEW q \in Seq(Health)
    PROVE  /\ Len(q) \in Nat /\ DOMAIN q = 1..Len(q)
           /\ \A i \in 1..Len(q) : q[i] \in Health /\ q[i].user \in User /\ q[i].surplus \in Int
  <1>1. \A i \in 1..Len(q) : q[i] \in Health
    BY ElementOfSeq
  <1> QED
    BY <1>1, LenProperties DEF Health

\* A queue without one account is a queue, and has no other entry.
LEMMA RemoveKeeps ==
    ASSUME NEW q, IsQueue(q), NEW user \in User
    PROVE  LET r == removeUser[user][q]
           IN  /\ IsQueue(r)
               /\ \A i \in DOMAIN r : r[i] \in Entries(q) /\ r[i].user # user
  <1> DEFINE I == {i \in 1..Len(q) : q[i].user = user}
             k == Min(I)
             r == removeUser[user][q]
  <1>1. /\ q \in Seq(Health) /\ Len(q) \in Nat /\ DOMAIN q = 1..Len(q)
        /\ \A i \in 1..Len(q) : q[i].user \in User /\ q[i].surplus \in Int
        /\ \A i, j \in 1..Len(q) :
              i < j => q[i].surplus <= q[j].surplus /\ q[i].user # q[j].user
    BY QueueEntries DEF IsQueue
  <1>2. CASE I = {}
    <2>1. r = q
      BY <1>1, <1>2 DEF removeUser, SelectInSeq
    <2>2. \A i \in DOMAIN q : q[i] \in Entries(q) /\ q[i].user # user
      BY <1>1, <1>2 DEF Entries
    <2> QED
      BY <2>1, <2>2
  <1>3. CASE I # {}
    <2>1. k \in 1..Len(q) /\ q[k].user = user
      <3>1. I \subseteq Nat
        BY <1>1
      <3> QED
        BY <1>3, <3>1, MinIsLeast
    <2>2. r = SubSeq(q, 1, k - 1) \o SubSeq(q, k + 1, Len(q))
      <3>1. SelectInSeq(q, LAMBDA h : h.user = user) = k
        BY <1>3 DEF SelectInSeq
      <3>2. k # 0
        BY <2>1
      <3> QED
        BY <1>1, <3>1, <3>2 DEF removeUser
    <2> HIDE DEF r, k, I
    <2>3. /\ r \in Seq(Health) /\ Len(r) = Len(q) - 1
          /\ \A i \in 1..Len(q) - 1 : r[i] = IF i < k THEN q[i] ELSE q[i + 1]
      BY <1>1, <2>1, <2>2, Cut
    <2>4. DOMAIN r = 1..Len(q) - 1
      BY <2>3, QueueEntries
    <2> DEFINE s(i) == IF i < k THEN i ELSE i + 1
    <2>5. \A i \in DOMAIN r :
              s(i) \in 1..Len(q) /\ s(i) # k /\ r[i] = q[s(i)]
      BY <1>1, <2>1, <2>3, <2>4
    <2>6. \A i, j \in DOMAIN r : i < j => s(i) < s(j)
      BY <1>1, <2>1, <2>4
    <2> HIDE DEF s
    <2>7. IsQueue(r)
      BY <1>1, <2>3, <2>5, <2>6 DEF IsQueue
    <2>8. \A i, j \in 1..Len(q) : i # j => q[i].user # q[j].user
      BY <1>1
    <2>9. \A i \in DOMAIN r : r[i] \in Entries(q) /\ r[i].user # user
      BY <1>1, <2>1, <2>5, <2>8 DEF Entries
    <2> QED
      BY <2>7, <2>9 DEF r
  <1> QED
    BY <1>2, <1>3

\* An entry put before the first that is less underwater, where the account has none.
LEMMA InsertKeeps ==
    ASSUME NEW q, IsQueue(q), NEW h \in Health, \A i \in DOMAIN q : q[i].user # h.user
    PROVE  LET r == insertSorted[h][q]
           IN  IsQueue(r) /\ Entries(r) \subseteq Entries(q) \cup {h}
  <1> DEFINE I == {i \in 1..Len(q) : h.surplus < q[i].surplus}
             k == IF I = {} THEN Len(q) + 1 ELSE Min(I)
             r == insertSorted[h][q]
  <1>1. /\ q \in Seq(Health) /\ Len(q) \in Nat /\ DOMAIN q = 1..Len(q)
        /\ \A i \in 1..Len(q) : q[i].user \in User /\ q[i].surplus \in Int
        /\ \A i, j \in 1..Len(q) :
              i < j => q[i].surplus <= q[j].surplus /\ q[i].user # q[j].user
        /\ h.user \in User /\ h.surplus \in Int
    BY QueueEntries DEF IsQueue, Health
  <1>2. /\ k \in 1..Len(q) + 1
        /\ \A i \in 1..Len(q) : i < k => q[i].surplus <= h.surplus
        /\ \A i \in 1..Len(q) : i >= k => h.surplus <= q[i].surplus
    <2>1. CASE I = {}
      BY <1>1, <2>1
    <2>2. CASE I # {}
      <3>1. I \subseteq Nat
        BY <1>1
      <3>2. k \in I /\ \A m \in I : k <= m
        BY <2>2, <3>1, MinIsLeast
      <3>3. \A i \in 1..Len(q) : i < k => q[i].surplus <= h.surplus
        BY <1>1, <3>2
      <3>4. \A i \in 1..Len(q) : i >= k => h.surplus <= q[i].surplus
        <4>1. k \in 1..Len(q) /\ h.surplus < q[k].surplus
          BY <3>2
        <4>2. \A i \in 1..Len(q) : i = k \/ i > k => q[k].surplus <= q[i].surplus
          <5> HIDE DEF k, I
          <5> QED
            BY <1>1, <4>1
        <4> HIDE DEF k, I
        <4> QED
          BY <1>1, <4>1, <4>2
      <3>5. k \in 1..Len(q) + 1
        <4>1. k \in 1..Len(q)
          BY <3>2
        <4> HIDE DEF k, I
        <4> QED
          BY <1>1, <4>1
      <3> QED
        BY <3>3, <3>4, <3>5
    <2> QED
      BY <2>1, <2>2
  <1>3. r = InsertAt(q, k, h)
    <2>1. I # {} => Min(I) # 0
      <3>1. I \subseteq Nat
        BY <1>1
      <3> QED
        BY <3>1, MinIsLeast
    <2> QED
      BY <1>1, <2>1 DEF insertSorted, SelectInSeq
  <1> HIDE DEF r, k, I
  <1>4. /\ r \in Seq(Health)
        /\ Len(r) = Len(q) + 1
        /\ \A i \in 1..Len(r) :
              r[i] = IF i < k THEN q[i] ELSE IF i = k THEN h ELSE q[i - 1]
    <2>1. q \in Seq(Health) /\ k \in 1..Len(q) + 1
      BY <1>1, <1>2
    <2> DEFINE s == InsertAt(q, k, h)
    <2>2. /\ s \in Seq(Health)
          /\ Len(s) = Len(q) + 1
          /\ \A i \in 1..Len(s) :
                s[i] = IF i < k THEN q[i] ELSE IF i = k THEN h ELSE q[i - 1]
      BY <2>1, Put
    <2> QED
      BY <1>3, <2>2
  <1>5. DOMAIN r = 1..Len(q) + 1 /\ Len(r) = Len(q) + 1
    BY <1>4, QueueEntries
  <1>6. /\ r[k] = h
        /\ \A i \in 1..Len(q) + 1 : i < k => i \in 1..Len(q) /\ r[i] = q[i]
        /\ \A i \in 1..Len(q) + 1 : i > k => i - 1 \in 1..Len(q) /\ r[i] = q[i - 1]
    BY <1>1, <1>2, <1>4
  <1>7. ASSUME NEW i \in DOMAIN r, NEW j \in DOMAIN r, i < j
        PROVE  r[i].surplus <= r[j].surplus /\ r[i].user # r[j].user
    <2>0. i \in 1..Len(q) + 1 /\ j \in 1..Len(q) + 1
      BY <1>5
    <2>1. CASE j < k
      BY <1>1, <1>2, <1>6, <1>7, <2>0, <2>1
    <2>2. CASE j = k
      BY <1>1, <1>2, <1>6, <1>7, <2>0, <2>2
    <2>3. CASE i = k
      <3>1. r[j] = q[j - 1] /\ j - 1 \in 1..Len(q) /\ j - 1 >= k /\ r[i] = h
        BY <1>1, <1>2, <1>6, <1>7, <2>0, <2>3
      <3> QED
        BY <1>1, <1>2, <3>1
    <2>4. CASE i < k /\ k < j
      <3>1. /\ r[j] = q[j - 1] /\ j - 1 \in 1..Len(q) /\ j - 1 >= k
            /\ r[i] = q[i] /\ i \in 1..Len(q) /\ i < j - 1
        BY <1>1, <1>2, <1>6, <1>7, <2>0, <2>4
      <3> QED
        BY <1>1, <3>1
    <2>5. CASE k < i
      <3>1. /\ r[j] = q[j - 1] /\ j - 1 \in 1..Len(q)
            /\ r[i] = q[i - 1] /\ i - 1 \in 1..Len(q) /\ i - 1 < j - 1
        BY <1>1, <1>2, <1>6, <1>7, <2>0, <2>5
      <3> QED
        BY <1>1, <3>1
    <2> QED
      BY <1>1, <1>2, <1>7, <2>0, <2>1, <2>2, <2>3, <2>4, <2>5
  <1>8. \A i \in DOMAIN r : r[i] \in Entries(q) \cup {h}
    BY <1>1, <1>2, <1>5, <1>6 DEF Entries
  <1>9. IsQueue(r)
    BY <1>4, <1>7 DEF IsQueue
  <1>10. Entries(r) \subseteq Entries(q) \cup {h}
    BY <1>8 DEF Entries
  <1> QED
    BY <1>9, <1>10 DEF r

\* A snapshot read of an account takes the place of the one that was queued;
\* one that is not underwater only takes it away.
LEMMA UpsertKeeps ==
    ASSUME NEW q, IsQueue(q), NEW h \in Health
    PROVE  /\ IsQueue(upsert(q, h))
           /\ Entries(upsert(q, h)) \subseteq Entries(q) \cup {e \in {h} : e.surplus < 0}
  <1> DEFINE rest == removeUser[h.user][q]
  <1>1. h.user \in User /\ h.surplus \in Int
    BY DEF Health
  <1>2. IsQueue(rest) /\ \A i \in DOMAIN rest : rest[i] \in Entries(q) /\ rest[i].user # h.user
    BY <1>1, RemoveKeeps
  <1>3. Entries(rest) \subseteq Entries(q)
    BY <1>2 DEF Entries
  <1>4. CASE h.surplus >= 0
    BY <1>2, <1>3, <1>4 DEF upsert
  <1>5. CASE h.surplus < 0
    <2>1. upsert(q, h) = insertSorted[h][rest]
      BY <1>1, <1>5 DEF upsert
    <2> HIDE DEF rest
    <2>2. IsQueue(insertSorted[h][rest]) /\ Entries(insertSorted[h][rest]) \subseteq Entries(rest) \cup {h}
      BY <1>2, InsertKeeps
    <2> QED
      BY <1>3, <1>5, <2>1, <2>2
  <1> QED
    BY <1>1, <1>4, <1>5

\* g folds the snapshots of each set of positions into a queue.
Folds(g, base, seq) ==
    g = [T \in SUBSET DOMAIN seq |->
            IF T = {} THEN base ELSE upsert(g[T \ {Max(T)}], seq[Max(T)])]

\* A batch of snapshots put into a queue leaves a queue, and brings into it no
\* account that was read healthy.
LEMMA UpsertsKeep ==
    ASSUME NEW base, IsQueue(base), NEW seq \in Seq(Health)
    PROVE  LET r == FoldLeft(upsert, base, seq)
           IN  /\ IsQueue(r)
               /\ Entries(r) \subseteq
                      Entries(base) \cup {e \in Entries(seq) : e.surplus < 0}
  <1> DEFINE Allowed == Entries(base) \cup {e \in Entries(seq) : e.surplus < 0}
             V == {q \in Seq(Health) : IsQueue(q) /\ Entries(q) \subseteq Allowed}
             S == DOMAIN seq
             step == [i \in S |-> [q \in V |-> upsert(q, seq[i])]]
             pick == [T \in SUBSET S |-> Max(T)]
  <1>1. Len(seq) \in Nat /\ S = 1..Len(seq) /\ \A i \in S : seq[i] \in Health
    BY QueueEntries
  <1>2. IsFiniteSet(S) /\ base \in V
    <2>1. IsFiniteSet(1..Len(seq))
      BY <1>1, FS_Interval
    <2> QED
      BY <1>1, <2>1 DEF IsQueue
  <1>3. ASSUME NEW i \in S, NEW q \in V PROVE upsert(q, seq[i]) \in V
    <2>1. seq[i] \in Health /\ seq[i] \in Entries(seq)
      BY <1>1 DEF Entries
    <2>2. /\ IsQueue(upsert(q, seq[i]))
          /\ Entries(upsert(q, seq[i])) \subseteq Entries(q) \cup {e \in {seq[i]} : e.surplus < 0}
      BY <2>1, UpsertKeeps
    <2> QED
      BY <2>1, <2>2 DEF IsQueue
  <1>4. \A T \in SUBSET S : T # {} => Max(T) \in T
    BY <1>1, MaxIsGreatest
  <1>5. \E g : Folds(g, base, seq)
    <2>1. Foldable(S, V, base, step, pick)
      BY <1>2, <1>3, <1>4 DEF Foldable
    <2>2. PICK g : Folded(g, S, V, base, step, pick)
      BY <2>1, FoldExists
    <2>3. ASSUME NEW T \in SUBSET S, T # {}
          PROVE  g[T] = upsert(g[T \ {Max(T)}], seq[Max(T)])
      <3>1. Max(T) \in S /\ T \ {Max(T)} \in SUBSET S
        BY <1>4, <2>3
      <3>2. g[T \ {Max(T)}] \in V
        BY <2>2, <3>1 DEF Folded
      <3>3. pick[T] = Max(T)
        OBVIOUS
      <3>4. g[T] = step[Max(T)][g[T \ {Max(T)}]]
        BY <2>2, <2>3, <3>3 DEF Folded
      <3> QED
        BY <3>1, <3>2, <3>4
    <2>4. g[{}] = base /\ g \in [SUBSET S -> V]
      BY <2>2 DEF Folded
    <2> HIDE DEF V
    <2>5. g = [T \in SUBSET S |-> IF T = {} THEN base ELSE upsert(g[T \ {Max(T)}], seq[Max(T)])]
      BY <2>3, <2>4
    <2> QED
      BY <2>5 DEF Folds
  <1> DEFINE iter == CHOOSE g : Folds(g, base, seq)
  <1>6. Folds(iter, base, seq)
    BY <1>5
  <1>7. FoldLeft(upsert, base, seq) = iter[S]
    BY DEF FoldLeft, MapThenFoldSet, Folds
  <1> DEFINE G == {T \in SUBSET S : iter[T] \in V}
  <1>8. iter[S] \in V
    <2> HIDE DEF iter
    <2>1. {} \in G
      BY <1>2, <1>6 DEF Folds
    <2>2. ASSUME NEW T \in SUBSET S, T # {}, \A x \in T : T \ {x} \in G
          PROVE  T \in G
      <3>1. Max(T) \in T
        BY <1>4, <2>2
      <3>2. iter[T \ {Max(T)}] \in V
        BY <2>2, <3>1
      <3>3. iter[T] = upsert(iter[T \ {Max(T)}], seq[Max(T)])
        BY <1>6, <2>2 DEF Folds
      <3> QED
        BY <1>3, <3>1, <3>2, <3>3
    <2>3. SUBSET S \subseteq G
      <3> HIDE DEF G, S
      <3> QED
        BY <1>2, <2>1, <2>2, SubsetsByInduction
    <2> QED
      BY <2>3
  <1> QED
    BY <1>7, <1>8

LEMMA SliceKeeps ==
    ASSUME NEW q, IsQueue(q), NEW m \in 1..Len(q) + 1, NEW n \in 0..Len(q)
    PROVE  LET r == SubSeq(q, m, n)
           IN  IsQueue(r) /\ \A e \in Entries(r) : \E j \in m..n : e = q[j]
  <1> DEFINE r == SubSeq(q, m, n)
  <1>1. /\ q \in Seq(Health) /\ Len(q) \in Nat /\ DOMAIN q = 1..Len(q)
        /\ \A i \in 1..Len(q) : q[i] \in Health
        /\ \A i, j \in 1..Len(q) :
              i < j => q[i].surplus <= q[j].surplus /\ q[i].user # q[j].user
    BY QueueEntries DEF IsQueue
  <1>2. /\ r \in Seq(Health)
        /\ Len(r) = IF m <= n THEN n - m + 1 ELSE 0
        /\ \A i \in 1..n - m + 1 : r[i] = q[m + i - 1]
    <2>1. \A i \in m..n : q[i] \in Health
      BY <1>1
    <2>2. m \in Int /\ n \in Int
      BY <1>1
    <2> QED
      BY <2>1, <2>2, SubSeqProperties
  <1> HIDE DEF r
  <1>3. DOMAIN r = 1..Len(r)
    BY <1>2, QueueEntries
  <1>4. ASSUME NEW i \in DOMAIN r
        PROVE  m + i - 1 \in m..n /\ m + i - 1 \in 1..Len(q) /\ r[i] = q[m + i - 1]
    <2>1. m <= n /\ i \in 1..n - m + 1
      BY <1>1, <1>2, <1>3
    <2> QED
      BY <1>1, <1>2, <2>1
  <1>5. \A i, j \in DOMAIN r : i < j => m + i - 1 < m + j - 1
    BY <1>1, <1>2, <1>3
  <1>6. IsQueue(r)
    BY <1>1, <1>2, <1>4, <1>5 DEF IsQueue
  <1>7. \A e \in Entries(r) : \E j \in m..n : e = q[j]
    BY <1>4 DEF Entries
  <1> QED
    BY <1>6, <1>7 DEF r

LEMMA EmptyQueue == IsQueue(<<>>) /\ Entries(<<>>) = {}
  <1>1. <<>> \in Seq(Health) /\ DOMAIN <<>> = {}
    BY EmptySeq, LenProperties
  <1> QED
    BY <1>1 DEF IsQueue, Entries

\* popNonInflight takes the most underwater account nobody plans, and puts back
\* the entries it skipped.
LEMMA TakingKeeps ==
    ASSUME NEW q, IsQueue(q), NEW busy, FirstFree(q, busy) # 0
    PROVE  LET taken == q[FirstFree(q, busy)]
           IN  /\ taken \in Entries(q)
               /\ taken \in Health
               /\ taken.user \notin busy
               /\ IsQueue(Remaining(q, busy))
               /\ \A e \in Entries(Remaining(q, busy)) :
                     /\ e \in Entries(q)
                     /\ e.user # taken.user
                     /\ e.user \in busy \/ taken.surplus <= e.surplus
  <1> DEFINE I == {i \in 1..Len(q) : q[i].user \notin busy}
             k == FirstFree(q, busy)
             before == SubSeq(q, 1, k - 1)
             after == SubSeq(q, k + 1, Len(q))
             r == FoldLeft(upsert, after, before)
  <1>1. /\ q \in Seq(Health) /\ Len(q) \in Nat /\ DOMAIN q = 1..Len(q)
        /\ \A i \in 1..Len(q) : q[i] \in Health
        /\ \A i, j \in 1..Len(q) :
              i < j => q[i].surplus <= q[j].surplus /\ q[i].user # q[j].user
    BY QueueEntries DEF IsQueue
  <1>2. k \in 1..Len(q) /\ q[k].user \notin busy /\ \A i \in 1..Len(q) : i < k => q[i].user \in busy
    <2>1. I # {} /\ k = Min(I)
      BY DEF FirstFree, SelectInSeq
    <2>2. I \subseteq Nat
      BY <1>1
    <2>3. k \in I /\ \A m \in I : k <= m
      BY <2>1, <2>2, MinIsLeast
    <2> HIDE DEF k
    <2> QED
      BY <1>1, <2>3
  <1>3. Remaining(q, busy) = r
    BY DEF Remaining
  <1> HIDE DEF k
  <1>4. /\ IsQueue(before)
        /\ \A e \in Entries(before) : \E j \in 1..k - 1 : e = q[j]
    <2>1. k - 1 \in 0..Len(q) /\ 1 \in 1..Len(q) + 1
      BY <1>1, <1>2
    <2> QED
      BY <2>1, SliceKeeps
  <1>5. /\ IsQueue(after)
        /\ \A e \in Entries(after) : \E j \in k + 1..Len(q) : e = q[j]
    <2>1. k + 1 \in 1..Len(q) + 1 /\ Len(q) \in 0..Len(q)
      BY <1>1, <1>2
    <2> QED
      BY <2>1, SliceKeeps
  <1> HIDE DEF before, after
  <1>6. IsQueue(r) /\ Entries(r) \subseteq Entries(after) \cup Entries(before)
    BY <1>4, <1>5, UpsertsKeep DEF IsQueue
  <1>7. ASSUME NEW e \in Entries(before)
        PROVE  e \in Entries(q) /\ e.user # q[k].user /\ e.user \in busy
    <2>1. PICK j \in 1..k - 1 : e = q[j]
      BY <1>4, <1>7
    <2>2. j \in 1..Len(q) /\ j < k
      BY <1>1, <1>2
    <2> QED
      BY <1>1, <1>2, <2>1, <2>2 DEF Entries
  <1>8. ASSUME NEW e \in Entries(after)
        PROVE  e \in Entries(q) /\ e.user # q[k].user /\ q[k].surplus <= e.surplus
    <2>1. PICK j \in k + 1..Len(q) : e = q[j]
      BY <1>5, <1>8
    <2>2. j \in 1..Len(q) /\ k < j
      BY <1>1, <1>2
    <2> QED
      BY <1>1, <1>2, <2>1, <2>2 DEF Entries
  <1>9. q[k] \in Entries(q) /\ q[k] \in Health
    BY <1>1, <1>2 DEF Entries
  <1> HIDE DEF r
  <1> QED
    BY <1>2, <1>3, <1>6, <1>7, <1>8, <1>9 DEF k

\* When it takes none, everything queued is being planned.
LEMMA SkippingKeeps ==
    ASSUME NEW q, IsQueue(q), NEW busy, FirstFree(q, busy) = 0
    PROVE  /\ IsQueue(Remaining(q, busy))
           /\ \A e \in Entries(Remaining(q, busy)) : e \in Entries(q) /\ e.user \in busy
  <1> DEFINE I == {i \in 1..Len(q) : q[i].user \notin busy}
  <1>1. /\ q \in Seq(Health) /\ DOMAIN q = 1..Len(q)
    BY QueueEntries DEF IsQueue
  <1>2. I = {}
    <2>1. ASSUME I # {} PROVE FALSE
      <3>1. I \subseteq Nat
        OBVIOUS
      <3>2. Min(I) \in I /\ Min(I) = 0
        BY <2>1, <3>1, MinIsLeast DEF FirstFree, SelectInSeq
      <3> QED
        BY <3>2
    <2> QED
      BY <2>1
  <1>3. \A e \in Entries(q) : e.user \in busy
    BY <1>1, <1>2 DEF Entries
  <1>4. Remaining(q, busy) = FoldLeft(upsert, <<>>, q)
    BY DEF Remaining
  <1>5. /\ IsQueue(FoldLeft(upsert, <<>>, q))
        /\ Entries(FoldLeft(upsert, <<>>, q)) \subseteq Entries(q)
    BY <1>1, EmptyQueue, UpsertsKeep
  <1> QED
    BY <1>3, <1>4, <1>5

\* A read is a sequence of snapshots of the accounts it was made for.
LEMMA HealthsOfRead ==
    ASSUME NEW read, NEW users \in SUBSET User, read \in [users -> Int]
    PROVE  /\ Healths(read) \in Seq(Health)
           /\ \A e \in Entries(Healths(read)) : e.user \in users /\ e.surplus = read[e.user]
  <1> DEFINE S == {[user |-> u, surplus |-> read[u]] : u \in users}
             n == Cardinality(S)
  <1>1. IsFiniteSet(S)
    <2>1. IsFiniteSet(users)
      BY Scope, FS_Subset
    <2>2. Surjection(users, S) # {}
      <3> DEFINE f == [u \in users |-> [user |-> u, surplus |-> read[u]]]
      <3>1. f \in Surjection(users, S)
        BY DEF Surjection
      <3> QED
        BY <3>1
    <2> QED
      BY <2>1, <2>2, FS_Surjection DEF ExistsSurjection
  <1>2. n \in Nat /\ \E f \in [1..n -> S] : IsInjective(f)
    <2>1. n \in Nat /\ ExistsBijection(1..n, S)
      BY <1>1, FS_CardinalityType
    <2>2. PICK f \in Bijection(1..n, S) : TRUE
      BY <2>1 DEF ExistsBijection
    <2>3. f \in [1..n -> S] /\ \A a, b \in 1..n : f[a] = f[b] => a = b
      BY <2>2 DEF Bijection, Injection, Surjection, IsInjective
    <2> QED
      BY <2>1, <2>3 DEF IsInjective
  <1>3. Healths(read) \in [1..n -> S]
    BY <1>2 DEF Healths, SetToSeq
  <1>4. S \subseteq Health
    BY DEF Health
  <1>5. Healths(read) \in Seq(Health)
    <2>1. \A i \in 1..n : Healths(read)[i] \in Health
      BY <1>3, <1>4
    <2> QED
      BY <1>2, <1>3, <2>1, IsASeq
  <1>6. \A e \in Entries(Healths(read)) : e \in S
    BY <1>3 DEF Entries
  <1> QED
    BY <1>5, <1>6

--------------------------------------------------------------------------------
(* The pipeline.                                                           *)

IsRead(r) == r # None => \E users \in SUBSET User : r \in [users -> Int]

TypeOK ==
    /\ surplus \in [User -> Int]
    /\ IsQueue(queue)
    /\ worker \in [Worker -> {Ready, Waiting, Exited} \cup {Planning(h) : h \in Health}]
    /\ running \in BOOLEAN
    /\ IsRead(sweep) /\ IsRead(crossing)

ReadyWorkers == {w \in Worker : worker[w] = Ready}

SomeoneWaits == \E w \in Worker : worker[w] = Waiting

\* Queued accounts that nobody plans.
Free(q, busy) == {e.user : e \in Entries(q)} \ busy

\* A worker waits only while the pipeline runs, and while those already on their
\* way to the queue are enough for what is free there.
WakeUps ==
    SomeoneWaits =>
        /\ running
        /\ Cardinality(Free(queue, inflight)) <= Cardinality(ReadyWorkers)

IInv == TypeOK /\ PlannedOnce /\ WakeUps

LEMMA FreeIsFinite ==
    ASSUME NEW q, IsQueue(q), NEW busy
    PROVE  Free(q, busy) \subseteq User /\ IsFiniteSet(Free(q, busy))
  <1>1. \A e \in Entries(q) : e.user \in User
    BY QueueEntries DEF IsQueue, Entries
  <1> QED
    BY <1>1, Scope, FS_Subset DEF Free

\* The head of a worker's loop: what is given up there (busy) no longer counts
\* this worker's account, and at most one account more is free than the others
\* on their way to the queue can take.
LEMMA LoopKeeps ==
    ASSUME NEW w \in Worker, NEW q, IsQueue(q), NEW busy, TypeOK,
           worker[w] # Waiting,
           busy = {Planned(x) : x \in {y \in Worker \ {w} : Plans(y)}},
           \A x, y \in Worker \ {w} :
               Plans(x) /\ Plans(y) /\ Planned(x) = Planned(y) => x = y,
           SomeoneWaits =>
               /\ running
               /\ Cardinality(Free(q, busy)) <= Cardinality(ReadyWorkers \ {w}) + 1,
           workerLoop(w, q, busy), UNCHANGED <<surplus, running, sweep, crossing>>
    PROVE  IInv'
  <1>0. /\ IsFiniteSet(ReadyWorkers \ {w})
        /\ Cardinality(ReadyWorkers \ {w}) \in Nat
        /\ \A S \in SUBSET User : IsFiniteSet(S) /\ Cardinality(S) \in Nat
    <2>1. ReadyWorkers \ {w} \subseteq Worker
      BY DEF ReadyWorkers
    <2> QED
      BY <2>1, Scope, FS_Subset, FS_CardinalityType
  <1>a. /\ Exited.at # "planning" /\ Waiting.at # "planning"
        /\ Exited # Ready /\ Waiting # Ready /\ Exited # Waiting
        /\ \A h : /\ Planning(h).at = "planning" /\ Planning(h).health = h
                  /\ Planning(h) # Ready /\ Planning(h) # Waiting
    BY DEF Exited, Waiting, Ready, Planning
  <1>1. ASSUME NEW state \in {Waiting, Exited},
               worker' = [worker EXCEPT ![w] = state], inflight' = busy, IsQueue(queue'),
               state = Waiting => running /\ Free(queue', busy) = {},
               state = Exited => ~running
        PROVE  IInv'
    <2>1. /\ worker'[w] = state
          /\ \A x \in Worker \ {w} : worker'[x] = worker[x]
      BY <1>1 DEF TypeOK
    <2>2. /\ ~Plans(w)'
          /\ \A x \in Worker \ {w} : (Plans(x)' <=> Plans(x)) /\ Planned(x)' = Planned(x)
      BY <1>1, <1>a, <2>1 DEF Plans, Planned
    <2>3. inflight' = {Planned(x)' : x \in {y \in Worker : Plans(y)'}}
      BY <1>1, <2>2
    <2>4. PlannedOnce'
      BY <2>2, <2>3 DEF PlannedOnce
    <2>5. TypeOK'
      BY <1>1 DEF TypeOK, IsRead
    <2>6. WakeUps'
      <3>1. CASE state = Exited
        <4>1. ~SomeoneWaits'
          BY <1>1, <1>a, <2>1, <3>1 DEF SomeoneWaits
        <4> QED
          BY <4>1 DEF WakeUps
      <3>2. CASE state = Waiting
        <4>1. Cardinality(Free(queue, inflight)') = 0
          BY <1>1, <3>2, FS_EmptySet
        <4>2. ReadyWorkers' = ReadyWorkers \ {w}
          BY <1>a, <2>1, <3>2 DEF ReadyWorkers
        <4> QED
          BY <1>0, <1>1, <3>2, <4>1, <4>2 DEF WakeUps
      <3> QED
        BY <1>1, <3>1, <3>2
    <2> QED
      BY <2>4, <2>5, <2>6 DEF IInv
  <1>2. ASSUME FirstFree(q, busy) # 0, running, queue' = Remaining(q, busy),
               inflight' = busy \cup {q[FirstFree(q, busy)].user},
               worker' = [worker EXCEPT ![w] = Planning(q[FirstFree(q, busy)])]
        PROVE  IInv'
    <2>1. PICK taken : taken = q[FirstFree(q, busy)]
      OBVIOUS
    <2>2. /\ taken \in Entries(q) /\ taken \in Health /\ taken.user \notin busy
          /\ IsQueue(queue')
          /\ \A e \in Entries(queue') : e \in Entries(q) /\ e.user # taken.user
      <3>1. LET r == Remaining(q, busy)
                t == q[FirstFree(q, busy)]
            IN  /\ t \in Entries(q) /\ t \in Health /\ t.user \notin busy
                /\ IsQueue(r)
                /\ \A e \in Entries(r) : e \in Entries(q) /\ e.user # t.user
        BY <1>2, TakingKeeps
      <3> QED
        BY <1>2, <2>1, <3>1
    <2>3. /\ worker'[w] = Planning(taken)
          /\ \A x \in Worker \ {w} : worker'[x] = worker[x]
      BY <1>2, <2>1 DEF TypeOK
    <2>4. /\ Plans(w)' /\ Planned(w)' = taken.user
          /\ \A x \in Worker \ {w} : (Plans(x)' <=> Plans(x)) /\ Planned(x)' = Planned(x)
      BY <1>a, <2>3 DEF Plans, Planned
    <2>5. inflight' = {Planned(x)' : x \in {y \in Worker : Plans(y)'}}
      BY <1>2, <2>1, <2>4
    <2>6. \A x \in Worker \ {w} : Plans(x)' => Planned(x)' # taken.user
      BY <2>2, <2>4
    <2>7. PlannedOnce'
      BY <2>4, <2>5, <2>6 DEF PlannedOnce
    <2>8. TypeOK'
      BY <1>2, <2>1, <2>2 DEF TypeOK, IsRead
    <2>9. WakeUps'
      <3>1. SomeoneWaits' => SomeoneWaits
        BY <1>a, <2>3 DEF SomeoneWaits
      <3>2. ReadyWorkers' = ReadyWorkers \ {w}
        BY <1>a, <2>3 DEF ReadyWorkers
      <3>3. /\ taken.user \in Free(q, busy)
            /\ Free(queue', inflight') \subseteq Free(q, busy) \ {taken.user}
        BY <1>2, <2>1, <2>2 DEF Free
      <3>4. IsFiniteSet(Free(q, busy)) /\ Free(q, busy) \subseteq User
        BY FreeIsFinite
      <3>5. Cardinality(Free(q, busy) \ {taken.user}) = Cardinality(Free(q, busy)) - 1
        BY <3>3, <3>4, FS_RemoveElement
      <3>6. Cardinality(Free(queue', inflight')) <= Cardinality(Free(q, busy) \ {taken.user})
        <4>1. IsFiniteSet(Free(q, busy) \ {taken.user})
          BY <1>0, <3>4
        <4> QED
          BY <3>3, <4>1, FS_Subset
      <3>7. /\ Cardinality(Free(q, busy)) \in Nat
            /\ Cardinality(Free(q, busy) \ {taken.user}) \in Nat
            /\ Cardinality(Free(queue', inflight')) \in Nat
        BY <1>0, <3>3, <3>4
      <3> QED
        BY <1>0, <1>2, <3>1, <3>2, <3>5, <3>6, <3>7 DEF WakeUps
    <2> QED
      BY <2>7, <2>8, <2>9 DEF IInv
  <1>3. CASE /\ ~running
             /\ queue' = q
             /\ inflight' = busy
             /\ worker' = [worker EXCEPT ![w] = Exited]
    BY <1>1, <1>3, <1>a
  <1>4. CASE /\ running
             /\ FirstFree(q, busy) = 0
             /\ queue' = Remaining(q, busy)
             /\ inflight' = busy
             /\ worker' = [worker EXCEPT ![w] = Waiting]
    <2>1. IsQueue(queue') /\ Free(queue', busy) = {}
      BY <1>4, SkippingKeeps DEF Free
    <2> QED
      BY <1>1, <1>4, <1>a, <2>1
  <1> QED
    BY <1>2, <1>3, <1>4 DEF workerLoop

\* A batch of snapshots is put into the queue; if one is underwater every
\* worker that waited is on its way, if none is nothing new is queued.
LEMMA AppliedKeeps ==
    ASSUME IInv, NEW read, IsRead(read), read # None,
           queue' = FoldLeft(upsert, queue, Healths(read)),
           IF Underwater(read) THEN kick ELSE UNCHANGED worker,
           UNCHANGED <<surplus, inflight, running>>, IsRead(sweep)', IsRead(crossing)'
    PROVE  IInv'
  <1>1. PICK users \in SUBSET User : read \in [users -> Int]
    BY DEF IsRead
  <1>2. /\ Healths(read) \in Seq(Health)
        /\ \A e \in Entries(Healths(read)) : e.user \in users /\ e.surplus = read[e.user]
    BY <1>1, HealthsOfRead
  <1>3. /\ IsQueue(queue')
        /\ Entries(queue') \subseteq
               Entries(queue) \cup {e \in Entries(Healths(read)) : e.surplus < 0}
    BY <1>2, UpsertsKeep DEF IInv, TypeOK
  <1>4. CASE Underwater(read)
    <2>1. worker' = Kicked
      BY <1>4 DEF kick
    <2>2. /\ worker' \in [Worker -> {Ready, Waiting, Exited} \cup {Planning(h) : h \in Health}]
          /\ \A w \in Worker : Plans(w)' <=> Plans(w)
          /\ \A w \in Worker : Plans(w) => Planned(w)' = Planned(w)
          /\ ~SomeoneWaits'
      BY <2>1 DEF IInv, TypeOK, Kicked, Plans, Planned, Waiting, Ready, SomeoneWaits
    <2>3. PlannedOnce'
      BY <2>2 DEF IInv, PlannedOnce
    <2>4. TypeOK'
      BY <1>3, <2>2 DEF IInv, TypeOK, IsRead
    <2> QED
      BY <2>2, <2>3, <2>4 DEF IInv, WakeUps
  <1>5. CASE ~Underwater(read)
    <2>1. worker' = worker
      BY <1>5
    <2>2. PlannedOnce'
      BY <2>1 DEF IInv, PlannedOnce, Plans, Planned
    <2>3. TypeOK'
      BY <1>3, <2>1 DEF IInv, TypeOK, IsRead
    <2>4. Entries(queue') \subseteq Entries(queue)
      BY <1>1, <1>2, <1>3, <1>5 DEF Underwater
    <2>5. Free(queue', inflight') \subseteq Free(queue, inflight)
      BY <2>4 DEF Free
    <2>6. /\ IsFiniteSet(Free(queue, inflight))
          /\ IsFiniteSet(Free(queue', inflight'))
          /\ Cardinality(Free(queue', inflight')) <= Cardinality(Free(queue, inflight))
      BY <2>5, FreeIsFinite, FS_Subset DEF IInv, TypeOK
    <2>7. ReadyWorkers' = ReadyWorkers /\ (SomeoneWaits' <=> SomeoneWaits)
      BY <2>1 DEF ReadyWorkers, SomeoneWaits
    <2>8. IsFiniteSet(ReadyWorkers)
      BY Scope, FS_Subset DEF ReadyWorkers
    <2>9. WakeUps'
      <3>1. /\ Cardinality(Free(queue, inflight)) \in Nat
            /\ Cardinality(Free(queue', inflight')) \in Nat
            /\ Cardinality(ReadyWorkers) \in Nat
        BY <2>6, <2>8, FS_CardinalityType
      <3> QED
        BY <2>6, <2>7, <3>1 DEF IInv, WakeUps
    <2> QED
      BY <2>2, <2>3, <2>9 DEF IInv
  <1> QED
    BY <1>4, <1>5

\* What a worker gives up when its plan ends, and what it takes then.
LEMMA LoopAfterPlanKeeps ==
    ASSUME IInv, NEW w \in Worker, Plans(w), NEW q, IsQueue(q),
           \A e \in Entries(q) : e \in Entries(queue) \/ e.user = Planned(w),
           workerLoop(w, q, inflight \ {Planned(w)}),
           UNCHANGED <<surplus, running, sweep, crossing>>
    PROVE  IInv'
  <1> DEFINE busy == inflight \ {Planned(w)}
  <1>1. worker[w] # Waiting /\ worker[w] # Ready
    BY DEF Plans, Waiting, Ready
  <1>2. /\ busy = {Planned(x) : x \in {y \in Worker \ {w} : Plans(y)}}
        /\ \A x, y \in Worker \ {w} :
              Plans(x) /\ Plans(y) /\ Planned(x) = Planned(y) => x = y
    BY DEF IInv, PlannedOnce
  <1>3. ReadyWorkers \ {w} = ReadyWorkers
    BY <1>1 DEF ReadyWorkers
  <1>4. Free(q, busy) \subseteq Free(queue, inflight) \cup {Planned(w)}
    BY DEF Free
  <1>5. /\ IsFiniteSet(Free(queue, inflight))
        /\ IsFiniteSet(Free(queue, inflight) \cup {Planned(w)})
        /\ Cardinality(Free(queue, inflight) \cup {Planned(w)})
              <= Cardinality(Free(queue, inflight)) + 1
    <2>1. IsFiniteSet(Free(queue, inflight))
      BY FreeIsFinite DEF IInv, TypeOK
    <2>2. Cardinality(Free(queue, inflight)) \in Nat
      BY <2>1, FS_CardinalityType
    <2>3. /\ IsFiniteSet(Free(queue, inflight) \cup {Planned(w)})
          /\ Cardinality(Free(queue, inflight) \cup {Planned(w)})
                = IF Planned(w) \in Free(queue, inflight)
                  THEN Cardinality(Free(queue, inflight))
                  ELSE Cardinality(Free(queue, inflight)) + 1
      BY <2>1, FS_AddElement
    <2> QED
      BY <2>1, <2>2, <2>3
  <1>6. Cardinality(Free(q, busy)) <= Cardinality(Free(queue, inflight)) + 1
    <2>1. /\ IsFiniteSet(Free(q, busy))
          /\ Cardinality(Free(q, busy))
                <= Cardinality(Free(queue, inflight) \cup {Planned(w)})
      BY <1>4, <1>5, FS_Subset
    <2>2. /\ Cardinality(Free(q, busy)) \in Nat
          /\ Cardinality(Free(queue, inflight)) \in Nat
          /\ Cardinality(Free(queue, inflight) \cup {Planned(w)}) \in Nat
      BY <1>5, <2>1, FS_CardinalityType
    <2> HIDE DEF busy
    <2> QED
      BY <1>5, <2>1, <2>2
  <1>7. SomeoneWaits =>
            /\ running
            /\ Cardinality(Free(q, busy)) <= Cardinality(ReadyWorkers \ {w}) + 1
    <2>1. /\ Cardinality(Free(q, busy)) \in Nat
          /\ Cardinality(Free(queue, inflight)) \in Nat
          /\ Cardinality(ReadyWorkers) \in Nat
      <3>1. ReadyWorkers \subseteq Worker
        BY DEF ReadyWorkers
      <3> QED
        BY <1>5, <3>1, FreeIsFinite, Scope, FS_Subset, FS_CardinalityType
    <2> HIDE DEF busy
    <2> QED
      BY <1>3, <1>6, <2>1 DEF IInv, WakeUps
  <1> HIDE DEF busy
  <1>8. workerLoop(w, q, busy)
    BY DEF busy
  <1> QED
    BY <1>1, <1>2, <1>7, <1>8, LoopKeeps DEF IInv

LEMMA Started == Init => IInv
  <1> SUFFICES ASSUME Init PROVE IInv
    OBVIOUS
  <1>1. PICK started : worker = [w \in Worker |-> IF w \in started THEN Ready ELSE Exited]
    BY DEF Init
  <1>2. \A w \in Worker : ~Plans(w) /\ worker[w] # Waiting
    BY <1>1 DEF Plans, Ready, Exited, Waiting
  <1>3. PlannedOnce /\ WakeUps
    BY <1>2 DEF Init, PlannedOnce, WakeUps, SomeoneWaits
  <1>4. surplus \in [User -> Int]
    <2>1. surplus \in [User -> UNION Range(Level)] /\ \A u \in User : surplus[u] \in Level[u]
      BY DEF Init
    <2>2. \A u \in User : Level[u] \subseteq Int
      BY Scope
    <2> QED
      BY <2>1, <2>2
  <1>5. TypeOK
    BY <1>1, <1>4, EmptyQueue DEF Init, TypeOK, IsRead
  <1> QED
    BY <1>3, <1>5 DEF IInv

LEMMA StepsKeep == IInv /\ [Next]_vars => IInv'
  <1> SUFFICES ASSUME IInv, [Next]_vars PROVE IInv'
    OBVIOUS
  <1>1. ASSUME NEW w \in Worker, Wake(w) PROVE IInv'
    <2>1. /\ ~Plans(w) /\ worker[w] # Waiting /\ w \in ReadyWorkers
          /\ workerLoop(w, queue, inflight)
          /\ UNCHANGED <<surplus, running, sweep, crossing>>
      BY <1>1 DEF Wake, Plans, Ready, Waiting, ReadyWorkers
    <2>2. /\ inflight = {Planned(x) : x \in {y \in Worker \ {w} : Plans(y)}}
          /\ \A x, y \in Worker \ {w} :
                Plans(x) /\ Plans(y) /\ Planned(x) = Planned(y) => x = y
      BY <2>1 DEF IInv, PlannedOnce
    <2>3. Cardinality(ReadyWorkers) = Cardinality(ReadyWorkers \ {w}) + 1
      <3>1. IsFiniteSet(ReadyWorkers)
        BY Scope, FS_Subset DEF ReadyWorkers
      <3>2. Cardinality(ReadyWorkers) \in Nat
        BY <3>1, FS_CardinalityType
      <3>3. Cardinality(ReadyWorkers \ {w}) = Cardinality(ReadyWorkers) - 1
        BY <2>1, <3>1, FS_RemoveElement
      <3> QED
        BY <3>2, <3>3
    <2> QED
      BY <2>1, <2>2, <2>3, LoopKeeps DEF IInv, TypeOK, WakeUps
  <1>2. ASSUME NEW w \in Worker, PlanReturns(w) PROVE IInv'
    BY <1>2, LoopAfterPlanKeeps DEF PlanReturns, Planned, IInv, TypeOK
  <1>3. ASSUME NEW w \in Worker, PlanThrows(w) PROVE IInv'
    <2> DEFINE health == worker[w].health
    <2>1. /\ Plans(w) /\ Planned(w) = health.user
          /\ workerLoop(w, upsert(queue, health), inflight \ {Planned(w)})
          /\ UNCHANGED <<surplus, running, sweep, crossing>>
      BY <1>3 DEF PlanThrows, Planned
    <2>2. health \in Health
      BY <2>1 DEF IInv, TypeOK, Plans, Ready, Waiting, Exited, Planning
    <2>3. /\ IsQueue(upsert(queue, health))
          /\ \A e \in Entries(upsert(queue, health)) :
                e \in Entries(queue) \/ e.user = health.user
      BY <2>2, UpsertKeeps DEF IInv, TypeOK
    <2> HIDE DEF health
    <2> QED
      BY <2>1, <2>3, LoopAfterPlanKeeps
  <1>4. CASE stop
    <2>1. /\ worker' \in [Worker -> {Ready, Waiting, Exited} \cup {Planning(h) : h \in Health}]
          /\ \A w \in Worker : Plans(w)' <=> Plans(w)
          /\ \A w \in Worker : Plans(w) => Planned(w)' = Planned(w)
          /\ ~SomeoneWaits'
      BY <1>4 DEF stop, kick, IInv, TypeOK, Kicked, Plans, Planned, Waiting, Ready, SomeoneWaits
    <2>2. PlannedOnce'
      BY <1>4, <2>1 DEF stop, IInv, PlannedOnce
    <2>3. TypeOK'
      BY <1>4, <2>1 DEF stop, IInv, TypeOK, IsRead
    <2> QED
      BY <2>1, <2>2, <2>3 DEF IInv, WakeUps
  <1>5. ASSUME TypeOK', UNCHANGED <<queue, inflight, worker, running>> PROVE IInv'
    <2>1. PlannedOnce'
      BY <1>5 DEF IInv, PlannedOnce, Plans, Planned
    <2>2. WakeUps'
      BY <1>5 DEF IInv, WakeUps, SomeoneWaits, ReadyWorkers
    <2> QED
      BY <1>5, <2>1, <2>2 DEF IInv
  <1>6. CASE SweepReads
    <2>1. IsRead(surplus)
      BY DEF IInv, TypeOK, IsRead
    <2> QED
      BY <1>5, <1>6, <2>1 DEF SweepReads, IInv, TypeOK, IsRead
  <1>7. CASE CrossingReads
    <2>1. PICK users \in SUBSET Predicted \ {{}} : crossing' = [u \in users |-> surplus[u]]
      BY <1>7 DEF CrossingReads
    <2>2. users \in SUBSET User
      BY Scope
    <2>3. crossing' \in [users -> Int]
      BY <2>1, <2>2 DEF IInv, TypeOK
    <2>4. IsRead(crossing)'
      BY <2>2, <2>3 DEF IsRead
    <2> QED
      BY <1>5, <1>7, <2>4 DEF CrossingReads, IInv, TypeOK, IsRead
  <1>8. CASE SweepApplies
    <2>1. IsRead(sweep) /\ IsRead(sweep)' /\ IsRead(crossing)'
      BY <1>8 DEF SweepApplies, IInv, TypeOK, IsRead
    <2> QED
      BY <1>8, <2>1, AppliedKeeps DEF SweepApplies
  <1>9. CASE CrossingApplies
    <2>1. IsRead(crossing) /\ IsRead(sweep)' /\ IsRead(crossing)'
      BY <1>9 DEF CrossingApplies, IInv, TypeOK, IsRead
    <2> QED
      BY <1>9, <2>1, AppliedKeeps DEF CrossingApplies
  <1>10. CASE SweepFails \/ CrossingFails
    BY <1>5, <1>10 DEF SweepFails, CrossingFails, IInv, TypeOK, IsRead
  <1>11. CASE HealthMoves
    <2>1. PICK u \in User : \E s \in Level[u] : surplus' = [surplus EXCEPT ![u] = s]
      BY <1>11 DEF HealthMoves
    <2>2. surplus' \in [User -> Int]
      BY <2>1, Scope DEF IInv, TypeOK
    <2> QED
      BY <1>5, <1>11, <2>2 DEF HealthMoves, IInv, TypeOK, IsRead
  <1>12. CASE UNCHANGED vars
    BY <1>5, <1>12 DEF vars, IInv, TypeOK, IsRead
  <1> QED
    BY <1>1, <1>2, <1>3, <1>4, <1>6, <1>7, <1>8, <1>9, <1>10, <1>11, <1>12 DEF Next

\* Two workers never plan one account, and nobody is queued twice: whatever is
\* read, put back or thrown back while a plan is under way, the account stays
\* marked as in flight and the queue keeps one entry of it.
THEOREM OnePlanAtATime == Spec => []OnePlanPerUser
  <1>1. IInv => OnePlanPerUser
    <2> SUFFICES ASSUME IInv PROVE OnePlanPerUser
      OBVIOUS
    <2>1. DOMAIN queue = 1..Len(queue) /\ Len(queue) \in Nat
      BY QueueEntries DEF IInv, TypeOK, IsQueue
    <2>2. \A i, j \in DOMAIN queue : i # j => i < j \/ j < i
      BY <2>1
    <2>3. \A i, j \in DOMAIN queue : i < j => queue[i].user # queue[j].user
      BY DEF IInv, TypeOK, IsQueue
    <2>4. \A i, j \in DOMAIN queue : queue[i].user = queue[j].user => i = j
      BY <2>2, <2>3
    <2> QED
      BY <2>4 DEF IInv, OnePlanPerUser
  <1> QED
    BY <1>1, Started, StepsKeep, PTL DEF Spec

\* No wake-up is lost, for any number of workers: while one waits there are
\* never more queued accounts to plan than workers on their way to the queue.
THEOREM NoWakeUpLost == Spec => []NoIdleWorkerWithWork
  <1>1. IInv => NoIdleWorkerWithWork
    <2> SUFFICES ASSUME IInv, SomeoneWaits
                 PROVE  Cardinality(Workable) <= Cardinality(ReadyWorkers)
      BY DEF NoIdleWorkerWithWork, SomeoneWaits, ReadyWorkers
    <2>1. IsFiniteSet(Free(queue, inflight)) /\ IsFiniteSet(ReadyWorkers)
      BY FreeIsFinite, Scope, FS_Subset DEF IInv, TypeOK, ReadyWorkers
    <2> DEFINE f == [i \in Workable |-> queue[i].user]
    <2>2. f \in Injection(Workable, Free(queue, inflight))
      <3>1. DOMAIN queue = 1..Len(queue) /\ Len(queue) \in Nat
        BY QueueEntries DEF IInv, TypeOK, IsQueue
      <3>2. \A i, j \in DOMAIN queue : i # j => i < j \/ j < i
        BY <3>1
      <3>3. \A i, j \in DOMAIN queue : queue[i].user = queue[j].user => i = j
        BY <3>2 DEF IInv, TypeOK, IsQueue
      <3>4. \A i \in Workable : queue[i].user \in Free(queue, inflight)
        BY DEF Workable, Free, Entries
      <3> QED
        BY <3>3, <3>4 DEF Injection, IsInjective, Workable
    <2>3. IsFiniteSet(Workable) /\ Cardinality(Workable) <= Cardinality(Free(queue, inflight))
      BY <2>1, <2>2, FS_Injection
    <2>4. Cardinality(Free(queue, inflight)) <= Cardinality(ReadyWorkers)
      BY DEF IInv, WakeUps
    <2>5. /\ Cardinality(Workable) \in Nat
          /\ Cardinality(Free(queue, inflight)) \in Nat
          /\ Cardinality(ReadyWorkers) \in Nat
      BY <2>1, <2>3, FS_CardinalityType
    <2> QED
      BY <2>3, <2>4, <2>5
  <1> QED
    BY <1>1, Started, StepsKeep, PTL DEF Spec

LEMMA LoopTakesTheWorst ==
    ASSUME NEW w \in Worker, NEW q, IsQueue(q), NEW busy, TypeOK, workerLoop(w, q, busy)
    PROVE  TakesTheWorst
  <1> SUFFICES ASSUME NEW x \in Worker, worker[x] # worker'[x], worker'[x].at = "planning",
                      NEW i \in DOMAIN queue'
               PROVE  queue'[i].user \in inflight'
                        \/ worker'[x].health.surplus <= queue'[i].surplus
    BY DEF TakesTheWorst
  <1> DEFINE taken == q[FirstFree(q, busy)]
  <1>1. /\ FirstFree(q, busy) # 0
        /\ queue' = Remaining(q, busy)
        /\ inflight' = busy \cup {taken.user}
        /\ worker' = [worker EXCEPT ![w] = Planning(taken)]
    <2>1. ASSUME NEW state, worker' = [worker EXCEPT ![w] = state] PROVE x = w /\ worker'[x] = state
      BY <2>1 DEF TypeOK
    <2>2. Exited.at # "planning" /\ Waiting.at # "planning"
      BY DEF Exited, Waiting
    <2> QED
      BY <2>1, <2>2 DEF workerLoop
  <1>2. worker'[x].health = taken
    <2>1. worker'[x] = Planning(taken)
      BY <1>1 DEF TypeOK
    <2> QED
      BY <2>1 DEF Planning
  <1>3. queue'[i] \in Entries(queue')
    BY DEF Entries
  <1>4. LET t == q[FirstFree(q, busy)]
        IN  \A e \in Entries(Remaining(q, busy)) : e.user \in busy \/ t.surplus <= e.surplus
    BY <1>1, TakingKeeps
  <1> HIDE DEF taken
  <1> QED
    BY <1>1, <1>2, <1>3, <1>4 DEF taken

\* A worker takes the most underwater account that nobody is planning, whatever
\* order snapshots arrived in.
THEOREM WorstComesFirst == Spec => WorstFirst
  <1>1. IInv /\ [Next]_vars => [TakesTheWorst]_vars
    <2> SUFFICES ASSUME IInv, Next PROVE TakesTheWorst
      OBVIOUS
    <2>1. ASSUME NEW w \in Worker, Wake(w) PROVE TakesTheWorst
      BY <2>1, LoopTakesTheWorst DEF Wake, IInv, TypeOK
    <2>2. ASSUME NEW w \in Worker, PlanReturns(w) PROVE TakesTheWorst
      BY <2>2, LoopTakesTheWorst DEF PlanReturns, IInv, TypeOK
    <2>3. ASSUME NEW w \in Worker, PlanThrows(w) PROVE TakesTheWorst
      <3>1. worker[w].health \in Health
        BY <2>3 DEF PlanThrows, IInv, TypeOK, Plans, Ready, Waiting, Exited, Planning
      <3>2. IsQueue(upsert(queue, worker[w].health))
        BY <3>1, UpsertKeeps DEF IInv, TypeOK
      <3> QED
        BY <2>3, <3>2, LoopTakesTheWorst DEF PlanThrows, IInv
    <2>4. ASSUME kick \/ UNCHANGED worker PROVE TakesTheWorst
      BY <2>4 DEF IInv, TypeOK, kick, Kicked, TakesTheWorst, Waiting, Ready
    <2> QED
      BY <2>1, <2>2, <2>3, <2>4
         DEF Next, stop, SweepReads, SweepApplies, SweepFails, CrossingReads, CrossingApplies,
             CrossingFails, HealthMoves
  <1> QED
    BY <1>1, Started, StepsKeep, PTL DEF Spec, WorstFirst
================================================================================
