--------------------------- MODULE MarketMakerProofs ---------------------------
(***************************************************************************)
(* Proofs about the market maker.  About NonceManager: for any number of   *)
(* submissions, any budgets of replacements and resyncs, and whatever the  *)
(* node does.  About PortfolioRunner: for any markets, grid, allowances    *)
(* and quotes, and whatever the venues and the prices do.                  *)
(***************************************************************************)
EXTENDS NonceManager, PortfolioRunner, OperatorFacts, TLAPS

--------------------------------------------------------------------------------
(* The nonce manager.                                                      *)

Steps == {"idle", "send", "wait", "cancelAfterError", "cancelAfterTimeout"}

QueueTyped ==
    /\ queue \in Seq(Tx)
    /\ outcome \in [Tx -> {"new", "queued", "landed", "failed"}]

StepTyped ==
    /\ next \in Nat \cup {Unknown}
    /\ step \in Steps
    /\ current \in [tx : Tx \cup {CANCEL}, nonce : Nat, attempt : Nat, resyncs : Nat]
    /\ step # "idle" => current.tx \in Tx

NodeTyped ==
    /\ chain \in Seq(Payload)
    /\ Spent <= MaxNonce + 1
    /\ DOMAIN pool \subseteq Spent..MaxNonce
    /\ pool \in [DOMAIN pool -> Payload]
    /\ foreign \in Nat
    /\ evictions \in Nat

WellTyped == QueueTyped /\ StepTyped /\ NodeTyped

\* Nobody but the manager fills the pool and nothing leaves it but by being
\* mined: it is an unbroken run that ends where the manager is.
Unbroken == \A n \in DOMAIN pool : \A m \in Spent..n : m \in DOMAIN pool

AheadOfPool ==
    next # Unknown =>
        \A n \in DOMAIN pool : n <= next /\ (step = "idle" => n < next)

OwnNonce ==
    step # "idle" =>
        /\ next = current.nonce
        /\ current.nonce \in DOMAIN pool => pool[current.nonce] = current.tx

WaitedFor ==
    step \in {"wait", "cancelAfterTimeout"} =>
        current.nonce < Spent \/ current.nonce \in DOMAIN pool

Gapless == next # Unknown => \A n \in Spent..(next - 1) : n \in DOMAIN pool

Book == Unbroken /\ AheadOfPool /\ OwnNonce /\ WaitedFor /\ Gapless

Serial == Undisturbed => Book

\* With the wallet its own, what the manager waits for is its submission.
WaitsForOwn ==
    foreign = 0 /\ step = "wait" =>
        /\ current.nonce < Spent => chain[current.nonce + 1] = current.tx
        /\ current.nonce \in DOMAIN pool => pool[current.nonce] = current.tx

\* A submission is in one place: not handed over yet, in the queue, being
\* handled, or done with.
Waiting(t) == outcome[t] = "new" \/ t \in Range(queue)

Ordered ==
    /\ \A i, j \in DOMAIN queue : queue[i] = queue[j] => i = j
    /\ \A t \in Range(queue) : outcome[t] = "queued"
    /\ step # "idle" =>
          outcome[current.tx] = "queued" /\ current.tx \notin Range(queue)

\* One that waits has no nonce, and the one at hand has one more, at most, than
\* it was resynced.
PlacesSpent == Places(current.tx) \cup {current.nonce}

Counted ==
    /\ \A t \in Tx : Waiting(t) => Places(t) = {}
    /\ step # "idle" =>
          /\ current.nonce \in 0..MaxNonce
          /\ current.resyncs <= maxNonceResyncs
          /\ Cardinality(PlacesSpent) <= 1 + current.resyncs

--------------------------------------------------------------------------------

\* The node's answer to eth_getTransactionCount exists.
LEMMA PendingCountIsFree ==
    ASSUME NodeTyped
    PROVE  /\ PendingCount \in Spent..(MaxNonce + 1)
           /\ PendingCount \notin DOMAIN pool
           /\ \A m \in Spent..(PendingCount - 1) : m \in DOMAIN pool
  <1> DEFINE free == (Spent..(MaxNonce + 1)) \ DOMAIN pool
             R == OpToRel(<, Nat)
  <1>1. Spent \in Nat /\ MaxNonce \in Nat
    BY Limits DEF NodeTyped, Spent
  <1>2. free \subseteq Nat /\ MaxNonce + 1 \in free
    BY <1>1 DEF NodeTyped
  <1>3. PICK n \in free : \A y \in free : ~ (<<y, n>> \in R)
    <2>1. IsWellFoundedOn(R, Nat)
      BY NatLessThanWellFounded
    <2> QED
      BY <2>1, <1>2, WFMin
  <1>4. \A y \in free : ~ (y < n)
    BY <1>2, <1>3 DEF OpToRel
  <1>5. \A m \in Spent..(n - 1) : m \in DOMAIN pool
    BY <1>1, <1>2, <1>4
  <1> QED
    BY <1>1, <1>3, <1>5 DEF PendingCount

\* What a broadcast the node takes does to the pool.
LEMMA AcceptsKeepsNode ==
    ASSUME NodeTyped, NEW nonce \in Nat, NEW payload \in Payload,
           Accepts(nonce, payload)
    PROVE  NodeTyped'
  <1>1. Spent \in Nat /\ MaxNonce \in Nat /\ Spent' = Spent
    BY Limits DEF NodeTyped, Spent, Accepts
  <1>2. DOMAIN pool' = DOMAIN pool \cup {nonce}
    BY DEF Accepts, Pooled
  <1>3. pool' \in [DOMAIN pool' -> Payload]
    BY DEF Accepts, Pooled, NodeTyped
  <1> QED
    BY <1>1, <1>2, <1>3 DEF Accepts, NodeTyped

\* The same for the node's own steps.
LEMMA NodeKeepsTypes ==
    ASSUME NodeTyped, Mine \/ Evict \/ ThirdParty
    PROVE  NodeTyped'
  <1> USE Limits
  <1>1. CASE Mine
    <2>1. chain' \in Seq(Payload) /\ Spent' = Spent + 1 /\ Spent \in Nat
      BY <1>1 DEF Mine, NodeTyped, Spent
    <2>2. /\ DOMAIN pool' = DOMAIN pool \ {Spent}
          /\ pool' \in [DOMAIN pool' -> Payload]
      BY <1>1 DEF Mine, NodeTyped, Restrict
    <2>3. foreign' \in Nat /\ evictions' \in Nat
      BY <1>1 DEF Mine, NodeTyped
    <2>4. Spent \in DOMAIN pool /\ DOMAIN pool \subseteq Spent..MaxNonce
      BY <1>1 DEF Mine, NodeTyped
    <2>5. Spent' <= MaxNonce + 1 /\ DOMAIN pool' \subseteq Spent'..MaxNonce
      BY <2>1, <2>2, <2>4
    <2> QED
      BY <2>1, <2>2, <2>3, <2>5 DEF NodeTyped
  <1>2. CASE Evict
    <2>1. PICK n \in DOMAIN pool : pool' = Restrict(pool, DOMAIN pool \ {n})
      BY <1>2 DEF Evict
    <2>2. /\ DOMAIN pool' = DOMAIN pool \ {n}
          /\ pool' \in [DOMAIN pool' -> Payload]
      BY <2>1 DEF NodeTyped, Restrict
    <2>3. chain' = chain /\ foreign' = foreign /\ evictions' = evictions + 1
      BY <1>2 DEF Evict
    <2> QED
      BY <2>2, <2>3 DEF NodeTyped, Spent
  <1>3. CASE ThirdParty
    <2>1. PendingCount \in Spent..MaxNonce
      BY <1>3, PendingCountIsFree DEF ThirdParty, NodeTyped, Spent
    <2>2. /\ DOMAIN pool' = DOMAIN pool \cup {PendingCount}
          /\ pool' \in [DOMAIN pool' -> Payload]
      BY <1>3 DEF ThirdParty, Pooled, NodeTyped, Payload
    <2> QED
      BY <1>3, <2>1, <2>2 DEF ThirdParty, NodeTyped, Spent
  <1> QED
    BY <1>1, <1>2, <1>3

\* Queue, counters, pool and chain keep their types, and the pool holds nothing
\* below the nonces that are spent.
THEOREM TypeCorrect == Spec => []WellTyped
  <1>1. Init => WellTyped
    <2> SUFFICES ASSUME Init PROVE WellTyped
      OBVIOUS
    <2>1. QueueTyped
      BY DEF Init, QueueTyped
    <2>2. StepTyped
      BY DEF Init, StepTyped, Steps, Idle
    <2>3. NodeTyped
      BY Limits DEF Init, NodeTyped, Spent
    <2> QED
      BY <2>1, <2>2, <2>3 DEF WellTyped
  <1>2. WellTyped /\ [Next]_vars => WellTyped'
    <2> SUFFICES ASSUME WellTyped, [Next]_vars PROVE WellTyped'
      OBVIOUS
    <2> USE DEF WellTyped
    <2>0. PendingCount \in Nat
      BY PendingCountIsFree DEF NodeTyped, Spent
    <2>1. ASSUME NEW t \in Tx, submit(t) PROVE WellTyped'
      BY <2>1 DEF submit, node, QueueTyped, StepTyped, NodeTyped, Spent
    <2>2. CASE Start
      <3>1. NodeTyped'
        BY <2>2 DEF Start, node, NodeTyped, Spent
      <3>2. Head(queue) \in Tx /\ QueueTyped'
        BY <2>2 DEF Start, QueueTyped
      <3>3. StepTyped'
        BY <2>0, <2>2, <3>2 DEF Start, StepTyped, Steps
      <3> QED
        BY <3>1, <3>2, <3>3
    <2>3. CASE StartFails
      BY <2>3 DEF StartFails, node, QueueTyped, StepTyped, NodeTyped, Spent
    <2>4. ASSUME NEW result \in {"landed", "failed"}, NEW nonce \in Nat \cup {Unknown},
                 Ends(result, nonce), NodeTyped'
          PROVE  WellTyped'
      BY <2>4 DEF Ends, QueueTyped, StepTyped, Steps, Idle
    <2>5. CASE Sent
      <3>1. NodeTyped'
        BY <2>5, AcceptsKeepsNode DEF Sent, StepTyped, Payload
      <3> QED
        BY <2>5, <3>1 DEF Sent, QueueTyped, StepTyped, Steps
    <2>6. CASE SendFails
      <3>1. PICK accepted \in BOOLEAN : step = "send" /\ Retried(accepted)
        BY <2>6 DEF SendFails
      <3>2. NodeTyped'
        <4>1. CASE accepted
          BY <3>1, <4>1, AcceptsKeepsNode DEF Retried, StepTyped, Payload
        <4>2. CASE ~accepted
          BY <3>1, <4>2 DEF Retried, node, NodeTyped, Spent
        <4> QED
          BY <4>1, <4>2
      <3>3. QueueTyped' /\ StepTyped'
        BY <3>1 DEF Retried, QueueTyped, StepTyped, Steps
      <3> QED
        BY <3>2, <3>3
    <2>7. CASE Resync
      <3>1. NodeTyped' /\ QueueTyped'
        BY <2>7 DEF Resync, Desynced, node, NodeTyped, QueueTyped, Spent
      <3>2. current' \in [tx : Tx \cup {CANCEL}, nonce : Nat, attempt : Nat,
                          resyncs : Nat]
        <4>1. current \in [tx : Tx \cup {CANCEL}, nonce : Nat, attempt : Nat,
                           resyncs : Nat]
          BY DEF StepTyped
        <4>2. PICK n \in Nat : current' = [current EXCEPT !.nonce = n, !.attempt = 0,
                                                      !.resyncs = @ + 1]
          BY <2>0, <2>7 DEF Resync
        <4>3. current' = [tx |-> current.tx, nonce |-> n, attempt |-> 0,
                          resyncs |-> current.resyncs + 1]
          BY <4>1, <4>2
        <4> QED
          BY <4>1, <4>3
      <3>3. StepTyped'
        BY <2>0, <2>7, <3>2 DEF Resync, Desynced, StepTyped, Steps
      <3> QED
        BY <3>1, <3>3
    <2>8. CASE ResyncFails
      <3>1. NodeTyped'
        BY <2>8 DEF ResyncFails, Desynced, node, NodeTyped, Spent
      <3> QED
        BY <2>8, <2>4, <3>1 DEF ResyncFails
    <2>9. CASE Receipt
      <3>1. NodeTyped' /\ current.nonce + 1 \in Nat
        BY <2>9 DEF Receipt, node, NodeTyped, StepTyped, Spent
      <3> QED
        BY <2>9, <2>4, <3>1 DEF Receipt
    <2>10. CASE Timeout
      <3>1. NodeTyped' /\ QueueTyped'
        BY <2>10 DEF Timeout, node, NodeTyped, QueueTyped, Spent
      <3>2. StepTyped'
        BY <2>10 DEF Timeout, StepTyped, Steps
      <3> QED
        BY <3>1, <3>2
    <2>11. CASE tryCancelTx
      <3>1. NodeTyped'
        <4>1. CASE Accepts(current.nonce, CANCEL)
          BY <4>1, AcceptsKeepsNode DEF StepTyped, Payload
        <4>2. CASE UNCHANGED node
          BY <4>2 DEF node, NodeTyped, Spent
        <4> QED
          BY <2>11, <4>1, <4>2 DEF tryCancelTx
      <3>2. AfterCancel \in Nat \cup {Unknown}
        BY DEF AfterCancel, StepTyped
      <3> QED
        BY <2>11, <2>4, <3>1, <3>2 DEF tryCancelTx
    <2>12. CASE Mine \/ Evict \/ ThirdParty
      <3>1. UNCHANGED manager
        BY <2>12 DEF Mine, Evict, ThirdParty
      <3> QED
        BY <2>12, <3>1, NodeKeepsTypes DEF manager, QueueTyped, StepTyped
    <2>13. CASE UNCHANGED vars
      BY <2>13 DEF vars, manager, node, QueueTyped, StepTyped, NodeTyped, Spent
    <2> QED
      BY <2>1, <2>2, <2>3, <2>5, <2>6, <2>7, <2>8, <2>9, <2>10, <2>11, <2>12, <2>13
         DEF Next, submitInner
  <1> QED
    BY <1>1, <1>2, PTL DEF Spec

--------------------------------------------------------------------------------

\* The nonce the node reports is above its whole pool when that has no hole.
LEMMA PendingCountIsAbove ==
    ASSUME NodeTyped, Unbroken
    PROVE  \A n \in DOMAIN pool : n < PendingCount
  BY PendingCountIsFree, Limits DEF NodeTyped, Unbroken, Spent

\* A broadcast at the manager's nonce extends the run or replaces its end.
LEMMA BroadcastKeepsRun ==
    ASSUME WellTyped, Book, step # "idle", NEW payload \in Payload,
           Accepts(current.nonce, payload)
    PROVE  /\ Unbroken'
           /\ \A n \in DOMAIN pool' : n <= current.nonce
           /\ \A n \in Spent..current.nonce : n \in DOMAIN pool'
           /\ pool'[current.nonce] = payload
           /\ Spent' = Spent
           /\ Spent <= current.nonce
  <1> USE DEF WellTyped
  <1>1. /\ Spent \in Nat /\ MaxNonce \in Nat /\ Spent' = Spent
        /\ Spent <= current.nonce /\ current.nonce \in Nat
    BY Limits DEF NodeTyped, StepTyped, Spent, Accepts
  <1>2. /\ DOMAIN pool' = DOMAIN pool \cup {current.nonce}
        /\ pool'[current.nonce] = payload
    BY DEF Accepts, Pooled
  <1>3. next = current.nonce /\ next # Unknown
    BY Limits, <1>1 DEF Book, OwnNonce
  <1>4. \A n \in Spent..(current.nonce - 1) : n \in DOMAIN pool
    BY <1>3 DEF Book, Gapless
  <1>5. \A n \in DOMAIN pool : n <= current.nonce /\ n \in Nat
    BY <1>1, <1>3 DEF Book, AheadOfPool, NodeTyped
  <1>6. \A n \in Spent..current.nonce : n \in DOMAIN pool'
    BY <1>1, <1>2, <1>4
  <1>7. Unbroken'
    BY <1>1, <1>2, <1>5, <1>6 DEF Unbroken
  <1> QED
    BY <1>1, <1>2, <1>5, <1>6, <1>7

\* No action breaks the run or loses the manager's place at its end.
LEMMA SerialStep ==
    ASSUME WellTyped, Serial, [Next]_vars
    PROVE  Serial'
  <1> USE DEF WellTyped
  <1> SUFFICES ASSUME Undisturbed' PROVE Book'
    BY DEF Serial
  <1>0. /\ Spent \in Nat /\ MaxNonce \in Nat /\ Unknown \notin Nat
        /\ current.nonce \in Nat
    BY Limits DEF NodeTyped, Spent, StepTyped
  <1>1. Undisturbed /\ ~Evict /\ ~ThirdParty
    <2>1. foreign \in Nat /\ evictions \in Nat
      BY DEF NodeTyped
    <2>2. CASE Evict \/ ThirdParty
      BY <2>1, <2>2 DEF Evict, ThirdParty, Undisturbed
    <2>3. CASE ~Evict /\ ~ThirdParty
      BY <2>3 DEF Next, submit, submitInner, Start, StartFails, Sent, SendFails,
                  Retried, Accepts, Resync, ResyncFails, Desynced, Receipt, Timeout,
                  tryCancelTx, Mine, vars, node, Undisturbed
    <2> QED
      BY <2>2, <2>3
  <1>2. Book
    BY <1>1 DEF Serial
  <1>3. /\ PendingCount \in Nat /\ Spent <= PendingCount
        /\ PendingCount \notin DOMAIN pool
        /\ \A m \in Spent..(PendingCount - 1) : m \in DOMAIN pool
        /\ \A n \in DOMAIN pool : n < PendingCount
    BY <1>0, <1>2, PendingCountIsFree, PendingCountIsAbove DEF Book
  <1>4. ASSUME UNCHANGED <<next, step, current, pool, chain>> PROVE Book'
    BY <1>2, <1>4 DEF Book, Unbroken, AheadOfPool, OwnNonce, WaitedFor, Gapless, Spent
  <1>5. CASE Start
    <2>1. UNCHANGED node /\ step' = "send" /\ step = "idle"
      BY <1>5 DEF Start
    <2>2. /\ next' = current'.nonce /\ next' \in Nat
          /\ next' \notin DOMAIN pool
          /\ \A n \in DOMAIN pool : n <= next'
          /\ \A n \in Spent..(next' - 1) : n \in DOMAIN pool
      <3>1. CASE next = Unknown
        BY <1>0, <1>3, <1>5, <3>1 DEF Start, NodeTyped
      <3>2. CASE next # Unknown
        BY <1>0, <1>2, <1>5, <3>2
           DEF Start, Book, AheadOfPool, Gapless, StepTyped, NodeTyped
      <3> QED
        BY <3>1, <3>2
    <2> QED
      BY <1>2, <2>1, <2>2
         DEF node, Book, Unbroken, AheadOfPool, OwnNonce, WaitedFor, Gapless, Spent
  <1>6. ASSUME step # "idle", NEW payload \in Payload, Accepts(current.nonce, payload),
               next' = current.nonce, current'.nonce = current.nonce,
               current'.tx = payload, step' # "idle"
        PROVE  Book'
    BY <1>0, <1>2, <1>6, BroadcastKeepsRun
       DEF Book, Unbroken, AheadOfPool, OwnNonce, WaitedFor, Gapless, NodeTyped
  <1>7. CASE Sent
    <2>1. current.tx \in Payload /\ next = current.nonce
      BY <1>2, <1>7 DEF Sent, StepTyped, Payload, Book, OwnNonce
    <2> QED
      BY <1>6, <1>7, <2>1 DEF Sent
  <1>8. CASE SendFails
    <2>1. PICK accepted \in BOOLEAN : step = "send" /\ Retried(accepted)
      BY <1>8 DEF SendFails
    <2>2. /\ next' = next /\ current'.nonce = current.nonce
          /\ current'.tx = current.tx
          /\ step' \in {"send", "cancelAfterError"}
      BY <2>1 DEF Retried, StepTyped
    <2>3. CASE accepted
      <3>1. current.tx \in Payload /\ next = current.nonce
        BY <1>2, <2>1 DEF StepTyped, Payload, Book, OwnNonce
      <3> QED
        BY <1>6, <2>1, <2>2, <2>3, <3>1 DEF Retried
    <2>4. CASE ~accepted
      <3>1. UNCHANGED node
        BY <2>1, <2>4 DEF Retried
      <3> QED
        BY <1>2, <2>1, <2>2, <3>1
           DEF node, Book, Unbroken, AheadOfPool, OwnNonce, WaitedFor, Gapless, Spent
    <2> QED
      BY <2>3, <2>4
  <1>9. CASE Resync
    <2>1. /\ UNCHANGED node /\ next' = PendingCount /\ current'.nonce = PendingCount
          /\ step' = "send"
      BY <1>9 DEF Resync, Desynced, StepTyped
    <2> QED
      BY <1>2, <1>3, <2>1
         DEF node, Book, Unbroken, AheadOfPool, OwnNonce, WaitedFor, Gapless, Spent,
             NodeTyped
  <1>10. CASE ResyncFails
    BY <1>2, <1>10
       DEF ResyncFails, Desynced, Ends, node, Book, Unbroken, AheadOfPool, OwnNonce,
           WaitedFor, Gapless, Spent
  <1>11. ASSUME step \in {"wait", "cancelAfterTimeout"}, UNCHANGED node,
                next' = current.nonce + 1, step' = "idle"
         PROVE  Book'
    <2>1. next = current.nonce /\ next # Unknown
      BY <1>0, <1>2, <1>11 DEF Book, OwnNonce
    <2>2. \A n \in DOMAIN pool : n <= current.nonce /\ n \in Nat
      BY <1>0, <1>2, <2>1 DEF Book, AheadOfPool, NodeTyped
    <2>3. \A n \in Spent..current.nonce : n \in DOMAIN pool
      BY <1>0, <1>2, <1>11, <2>1 DEF Book, WaitedFor, Gapless
    <2> QED
      BY <1>0, <1>2, <1>11, <2>2, <2>3
         DEF node, Book, Unbroken, AheadOfPool, OwnNonce, WaitedFor, Gapless, Spent
  <1>12. CASE Receipt
    BY <1>11, <1>12 DEF Receipt, Ends
  <1>13. CASE Timeout
    <2>1. /\ UNCHANGED node /\ step = "wait"
          /\ step' \in {"send", "cancelAfterTimeout"}
          /\ next' = next /\ current'.nonce = current.nonce
          /\ current'.tx = current.tx
      BY <1>13 DEF Timeout, StepTyped
    <2> QED
      BY <1>2, <2>1
         DEF node, Book, Unbroken, AheadOfPool, OwnNonce, WaitedFor, Gapless, Spent
  <1>14. CASE tryCancelTx
    <2>1. /\ step \in {"cancelAfterError", "cancelAfterTimeout"}
          /\ step' = "idle" /\ next' = AfterCancel
      BY <1>14 DEF tryCancelTx, Ends
    <2>2. CASE Accepts(current.nonce, CANCEL)
      <3>1. /\ Unbroken'
            /\ \A n \in DOMAIN pool' : n <= current.nonce /\ n \in Int
            /\ \A n \in Spent'..current.nonce : n \in DOMAIN pool'
        BY <1>0, <1>2, <2>1, <2>2, BroadcastKeepsRun
           DEF Payload, Accepts, Pooled, NodeTyped
      <3>2. next' = Unknown \/ next' = current.nonce + 1
        BY <2>1 DEF AfterCancel
      <3> QED
        BY <1>0, <2>1, <3>1, <3>2
           DEF Book, AheadOfPool, OwnNonce, WaitedFor, Gapless, Spent
    <2>3. CASE UNCHANGED node
      <3>1. CASE step = "cancelAfterTimeout"
        BY <1>11, <2>1, <2>3, <3>1 DEF AfterCancel
      <3>2. CASE step = "cancelAfterError"
        BY <1>2, <2>1, <2>3, <3>2
           DEF AfterCancel, node, Book, Unbroken, AheadOfPool, OwnNonce, WaitedFor,
               Gapless, Spent
      <3> QED
        BY <2>1, <3>1, <3>2
    <2> QED
      BY <1>14, <2>2, <2>3 DEF tryCancelTx
  <1>15. CASE Mine
    <2>1. /\ UNCHANGED <<next, step, current>>
          /\ Spent' = Spent + 1
          /\ pool' = [n \in DOMAIN pool \ {Spent} |-> pool[n]]
      BY <1>15 DEF Mine, manager, Spent, NodeTyped, Restrict
    <2>2. DOMAIN pool \subseteq Nat
      BY <1>0 DEF NodeTyped
    <2>3. Unbroken'
      BY <1>0, <1>2, <2>1, <2>2 DEF Book, Unbroken
    <2>4. AheadOfPool' /\ OwnNonce'
      BY <1>2, <2>1 DEF Book, AheadOfPool, OwnNonce
    <2>5. WaitedFor'
      BY <1>0, <1>2, <2>1 DEF Book, WaitedFor
    <2>6. Gapless'
      BY <1>0, <1>2, <2>1 DEF Book, Gapless, StepTyped
    <2> QED
      BY <2>3, <2>4, <2>5, <2>6 DEF Book
  <1>16. CASE StartFails \/ (\E t \in Tx : submit(t)) \/ UNCHANGED vars
    BY <1>4, <1>16 DEF StartFails, submit, vars, manager, node
  <1> QED
    BY <1>1, <1>5, <1>7, <1>8, <1>9, <1>10, <1>12, <1>13, <1>14, <1>15, <1>16
       DEF Next, submitInner

\* A cached nonce is never past a hole in the pool: none of the manager's
\* submissions waits for a nonce that nobody is going to fill.
THEOREM NonceGapFree == Spec => []NoNonceGap
  <1>1. Init => Serial
    BY Limits DEF Init, Serial, Book, Unbroken, AheadOfPool, OwnNonce, WaitedFor, Gapless
  <1>2. Serial => NoNonceGap
    BY DEF Serial, Book, Gapless, NoNonceGap
  <1> QED
    BY <1>1, <1>2, SerialStep, TypeCorrect, PTL DEF Spec

\* A broadcast replaces only what is at its own nonce.
LEMMA BroadcastIsLocal ==
    ASSUME NEW nonce, NEW payload, Accepts(nonce, payload)
    PROVE  \A n \in DOMAIN pool \cap DOMAIN pool' :
               pool'[n] # pool[n] => n = nonce /\ pool'[n] = payload
  BY DEF Accepts, Pooled

\* What the manager broadcasts over a transaction in the pool is a version of
\* the same submission or its cancellation: submissions never collide.
THEOREM SubmissionsNeverCollide == Spec => NoCollision
  <1> DEFINE Safe ==
          Undisturbed =>
              \A n \in DOMAIN pool \cap DOMAIN pool' :
                  pool'[n] # pool[n] => pool[n] = current.tx /\ pool'[n] = CANCEL
  <1>1. Init => Serial
    BY Limits DEF Init, Serial, Book, Unbroken, AheadOfPool, OwnNonce, WaitedFor, Gapless
  <1>2. WellTyped /\ Serial /\ [Next]_vars => Safe
    <2> SUFFICES ASSUME WellTyped, Serial, [Next]_vars, Undisturbed,
                        NEW n \in DOMAIN pool \cap DOMAIN pool', pool'[n] # pool[n]
                 PROVE  pool[n] = current.tx /\ pool'[n] = CANCEL
      OBVIOUS
    <2>1. step # "idle" /\ n = current.nonce => pool[n] = current.tx
      BY DEF Serial, Book, OwnNonce
    <2>2. ~(Sent \/ SendFails)
      <3>1. ASSUME step = "send", Accepts(current.nonce, current.tx) PROVE FALSE
        BY <2>1, <3>1, BroadcastIsLocal
      <3>2. ~ UNCHANGED node
        BY DEF node
      <3> QED
        BY <3>1, <3>2 DEF Sent, SendFails, Retried
    <2>3. ~(Mine \/ Evict)
      BY DEF Mine, Evict, Restrict
    <2>4. ~ThirdParty
      BY PendingCountIsFree DEF ThirdParty, Pooled, WellTyped
    <2>5. tryCancelTx
      BY <2>2, <2>3, <2>4
         DEF Next, submit, submitInner, Start, StartFails, Resync, ResyncFails, Desynced,
             Receipt, Timeout, vars, node
    <2>6. step # "idle" /\ Accepts(current.nonce, CANCEL)
      BY <2>5 DEF tryCancelTx, node
    <2> QED
      BY <2>1, <2>6, BroadcastIsLocal
  <1> QED
    BY <1>1, <1>2, SerialStep, TypeCorrect, PTL DEF Spec, NoCollision

--------------------------------------------------------------------------------

\* A nonce that is spent keeps what spent it.
LEMMA ChainGrows ==
    ASSUME NodeTyped, [Next]_vars
    PROVE  /\ \A i \in 1..Len(chain) : i \in 1..Len(chain') /\ chain'[i] = chain[i]
           /\ Range(chain) \subseteq Range(chain')
  <1>1. chain \in Seq(Payload)
    BY DEF NodeTyped
  <1>2. CASE Mine
    BY <1>1, <1>2 DEF Mine, Range
  <1>3. CASE UNCHANGED chain
    BY <1>1, <1>3
  <1> QED
    BY <1>2, <1>3
       DEF Next, submit, submitInner, Start, StartFails, Sent, SendFails, Retried, Accepts,
           Resync, ResyncFails, Desynced, Receipt, Timeout, tryCancelTx, Evict,
           ThirdParty, vars, node

LEMMA WaitsForOwnStep ==
    ASSUME WellTyped, WaitsForOwn, [Next]_vars
    PROVE  WaitsForOwn'
  <1> USE DEF WellTyped
  <1> SUFFICES ASSUME foreign' = 0, step' = "wait" PROVE WaitsForOwn'
    BY DEF WaitsForOwn
  <1>0. Spent \in Nat /\ current.nonce \in Nat /\ foreign \in Nat
    BY DEF NodeTyped, Spent, StepTyped
  <1>1. CASE Sent
    <2>1. /\ Spent' = Spent /\ Spent <= current.nonce
          /\ pool'[current.nonce] = current.tx /\ current' = current
      BY <1>1 DEF Sent, Accepts, Pooled, Spent
    <2> QED
      BY <1>0, <2>1 DEF WaitsForOwn
  <1>2. CASE Mine
    <2>1. /\ foreign = 0 /\ step = "wait" /\ current' = current
          /\ Spent \in DOMAIN pool
          /\ chain' = Append(chain, pool[Spent])
          /\ pool' = [n \in DOMAIN pool \ {Spent} |-> pool[n]]
      BY <1>2 DEF Mine, manager, Restrict
    <2>2. /\ Spent' = Spent + 1 /\ chain'[Spent + 1] = pool[Spent]
          /\ \A i \in 1..Spent : chain'[i] = chain[i]
      BY <2>1 DEF NodeTyped, Spent
    <2>3. current.nonce < Spent + 1 => chain'[current.nonce + 1] = current.tx
      <3>1. CASE current.nonce < Spent
        <4>1. chain[current.nonce + 1] = current.tx
          BY <2>1, <3>1 DEF WaitsForOwn
        <4>2. current.nonce + 1 \in 1..Spent
          BY <1>0, <3>1
        <4> QED
          BY <2>2, <4>1, <4>2
      <3>2. CASE current.nonce = Spent
        BY <2>1, <2>2, <3>2 DEF WaitsForOwn
      <3> QED
        BY <1>0, <3>1, <3>2
    <2> QED
      BY <2>1, <2>2, <2>3 DEF WaitsForOwn
  <1>3. CASE Evict
    BY <1>3 DEF Evict, manager, Restrict, WaitsForOwn, Spent
  <1>4. CASE UNCHANGED <<step, current, pool, chain, foreign>>
    BY <1>4 DEF WaitsForOwn, Spent
  <1>5. ~ThirdParty
    BY <1>0 DEF ThirdParty
  <1> QED
    BY <1>1, <1>2, <1>3, <1>4, <1>5
       DEF Next, submit, submitInner, Start, StartFails, SendFails, Retried, Ends,
           Resync, ResyncFails, Desynced, Receipt, Timeout, tryCancelTx, vars, manager,
           node

\* A submission whose caller is told that it landed is on the chain: the receipt
\* at its nonce is never that of another transaction of this process.
THEOREM LandedIsOnChain == Spec => []ResolvedIsOnChain
  <1>1. Init => WaitsForOwn /\ ResolvedIsOnChain
    BY DEF Init, WaitsForOwn, ResolvedIsOnChain
  <1>2. WellTyped /\ WaitsForOwn /\ ResolvedIsOnChain /\ [Next]_vars => ResolvedIsOnChain'
    <2> SUFFICES ASSUME WellTyped, WaitsForOwn, ResolvedIsOnChain, [Next]_vars,
                        foreign' = 0, NEW t \in Tx, outcome'[t] = "landed"
                 PROVE  t \in Range(chain')
      BY DEF ResolvedIsOnChain
    <2> USE DEF WellTyped
    <2>1. foreign = 0
      BY DEF NodeTyped, Next, submit, submitInner, Start, StartFails, Sent, SendFails,
             Retried, Accepts, Resync, ResyncFails, Desynced, Receipt, Timeout,
             tryCancelTx, Mine, Evict, ThirdParty, vars, node
    <2>2. CASE outcome[t] = "landed"
      BY <2>1, <2>2, ChainGrows DEF ResolvedIsOnChain
    <2>3. CASE outcome[t] # "landed"
      <3>1. Receipt /\ t = current.tx
        BY <2>3
           DEF QueueTyped, Next, submit, submitInner, Start, StartFails, Sent, SendFails,
               Retried, Resync, ResyncFails, Receipt, Timeout, tryCancelTx, Ends, Mine,
               Evict, ThirdParty, vars, manager
      <3>2. current.nonce + 1 \in 1..Len(chain) /\ chain[current.nonce + 1] = t
        BY <2>1, <3>1 DEF Receipt, WaitsForOwn, Spent, StepTyped, NodeTyped
      <3>3. t \in Range(chain)
        BY <3>2 DEF Range, NodeTyped
      <3> QED
        BY <3>3, ChainGrows
    <2> QED
      BY <2>2, <2>3
  <1> QED
    BY <1>1, <1>2, WaitsForOwnStep, TypeCorrect, PTL DEF Spec

--------------------------------------------------------------------------------

\* Submissions keep to their places.
LEMMA OrderedStep ==
    ASSUME WellTyped, Ordered, [Next]_vars
    PROVE  Ordered'
  <1> USE DEF WellTyped
  <1>0. queue \in Seq(Tx) /\ outcome \in [Tx -> {"new", "queued", "landed", "failed"}]
    BY DEF QueueTyped
  <1>1. ASSUME NEW t \in Tx, submit(t) PROVE Ordered'
    <2>1. /\ queue' = Append(queue, t) /\ outcome' = [outcome EXCEPT ![t] = "queued"]
          /\ outcome[t] = "new" /\ t \notin Range(queue)
          /\ step' = step /\ current' = current
      BY <1>1 DEF submit, Ordered
    <2>2. Range(queue') = Range(queue) \cup {t}
      BY <1>0, <2>1 DEF Range
    <2>3. \A i, j \in DOMAIN queue' : queue'[i] = queue'[j] => i = j
      BY <1>0, <2>1 DEF Ordered, Range
    <2>4. \A u \in Range(queue') : outcome'[u] = "queued"
      BY <1>0, <2>1, <2>2 DEF Ordered, Range
    <2>5. step' # "idle" =>
              outcome'[current'.tx] = "queued" /\ current'.tx \notin Range(queue')
      BY <1>0, <2>1, <2>2 DEF Ordered, StepTyped
    <2> QED
      BY <2>3, <2>4, <2>5 DEF Ordered
  <1>2. ASSUME queue # <<>>, queue' = Tail(queue)
        PROVE  /\ \A i, j \in DOMAIN queue' : queue'[i] = queue'[j] => i = j
               /\ Range(queue') \subseteq Range(queue) \ {Head(queue)}
               /\ Head(queue) \in Range(queue) /\ Head(queue) \in Tx
    BY <1>0, <1>2 DEF Ordered, Range
  <1>3. CASE Start
    BY <1>2, <1>3 DEF Start, Ordered
  <1>4. CASE StartFails
    <2>1. /\ step' = "idle"
          /\ \A u \in Range(queue') : u \in Range(queue) /\ outcome'[u] = outcome[u]
      BY <1>0, <1>2, <1>4 DEF StartFails, Range
    <2> QED
      BY <1>2, <1>4, <2>1 DEF StartFails, Ordered
  <1>5. ASSUME NEW result, NEW nonce, Ends(result, nonce), step # "idle" PROVE Ordered'
    BY <1>0, <1>5 DEF Ends, Ordered, Range
  <1>6. ASSUME UNCHANGED <<queue, outcome>>, current'.tx = current.tx, step # "idle"
        PROVE  Ordered'
    BY <1>6 DEF Ordered, Range
  <1>7. CASE Sent \/ SendFails \/ Timeout \/ Resync
    BY <1>6, <1>7 DEF Sent, SendFails, Retried, Timeout, Resync, Desynced, StepTyped
  <1>8. CASE ResyncFails \/ Receipt \/ tryCancelTx
    BY <1>5, <1>8 DEF ResyncFails, Desynced, Receipt, tryCancelTx
  <1>9. CASE UNCHANGED manager
    BY <1>9 DEF manager, Ordered, Range
  <1> QED
    BY <1>1, <1>3, <1>4, <1>7, <1>8, <1>9
       DEF Next, submitInner, Mine, Evict, ThirdParty, vars

\* Only a broadcast of its own gives a submission a nonce.
LEMMA PlacesStep ==
    ASSUME WellTyped, [Next]_vars, NEW t \in Tx
    PROVE  \/ Places(t)' \subseteq Places(t)
           \/ /\ step = "send" /\ t = current.tx
              /\ Places(t)' \subseteq Places(t) \cup {current.nonce}
  <1> USE DEF WellTyped
  <1>0. /\ Spent \in Nat /\ MaxNonce \in Nat /\ DOMAIN pool \subseteq Spent..MaxNonce
        /\ t # CANCEL /\ t # FOREIGN
    BY Limits, Payloads DEF NodeTyped, Spent
  <1>1. CASE UNCHANGED <<pool, chain>>
    BY <1>1 DEF Places, Spent
  <1>2. ASSUME NEW nonce \in Nat, NEW payload, Accepts(nonce, payload)
        PROVE  Places(t)' \subseteq Places(t) \cup (IF payload = t THEN {nonce} ELSE {})
    <2>1. /\ chain' = chain /\ Spent' = Spent
          /\ DOMAIN pool' = DOMAIN pool \cup {nonce}
          /\ pool'[nonce] = payload
          /\ \A n \in DOMAIN pool : n # nonce => pool'[n] = pool[n]
      BY <1>2 DEF Accepts, Pooled, Spent
    <2> QED
      BY <1>0, <2>1 DEF Places
  <1>3. CASE Sent \/ SendFails
    BY <1>1, <1>2, <1>3 DEF Sent, SendFails, Retried, node, StepTyped
  <1>4. CASE tryCancelTx
    BY <1>0, <1>1, <1>2, <1>4 DEF tryCancelTx, node, StepTyped
  <1>5. CASE Mine
    <2>1. /\ Spent' = Spent + 1 /\ chain'[Spent + 1] = pool[Spent]
          /\ \A i \in 1..Spent : chain'[i] = chain[i]
          /\ Spent \in DOMAIN pool
          /\ pool' = [n \in DOMAIN pool \ {Spent} |-> pool[n]]
      BY <1>5 DEF Mine, NodeTyped, Spent, Restrict
    <2>2. ASSUME NEW n \in Places(t)' PROVE n \in Places(t)
      <3>1. CASE n < Spent
        <4>1. n \in 0..MaxNonce /\ n + 1 \in 1..Spent
          BY <1>0, <2>2, <3>1 DEF Places
        <4>2. chain'[n + 1] = t
          BY <1>0, <2>1, <2>2, <3>1 DEF Places
        <4> QED
          BY <2>1, <3>1, <4>1, <4>2 DEF Places
      <3>2. CASE n = Spent
        BY <1>0, <2>1, <2>2, <3>2 DEF Places
      <3>3. CASE n > Spent
        BY <1>0, <2>1, <2>2, <3>3 DEF Places
      <3> QED
        BY <1>0, <2>2, <3>1, <3>2, <3>3 DEF Places
    <2> QED
      BY <2>2
  <1>6. CASE Evict
    BY <1>6 DEF Evict, Restrict, Places, Spent
  <1>7. CASE ThirdParty
    <2>1. /\ chain' = chain /\ DOMAIN pool' = DOMAIN pool \cup {PendingCount}
          /\ pool'[PendingCount] = FOREIGN
          /\ \A n \in DOMAIN pool : n # PendingCount => pool'[n] = pool[n]
      BY <1>7 DEF ThirdParty, Pooled
    <2> QED
      BY <1>0, <2>1 DEF Places, Spent
  <1> QED
    BY <1>1, <1>3, <1>4, <1>5, <1>6, <1>7
       DEF Next, submit, submitInner, Start, StartFails, Resync, ResyncFails, Desynced,
           Receipt, Timeout, vars, node

\* What a submission is given is counted by its resyncs.
LEMMA CountedStep ==
    ASSUME WellTyped, Ordered, Counted, [Next]_vars
    PROVE  Counted'
  <1> USE DEF WellTyped
  <1>0. /\ queue \in Seq(Tx) /\ MaxNonce \in Nat /\ maxNonceResyncs \in Nat
        /\ outcome \in [Tx -> {"new", "queued", "landed", "failed"}]
        /\ current.nonce \in Nat /\ current.resyncs \in Nat
    BY Limits DEF QueueTyped, StepTyped
  <1>1. ASSUME NEW t \in Tx, Waiting(t)' PROVE Waiting(t)
    <2>1. CASE outcome'[t] = "new"
      BY <1>0, <2>1
         DEF Waiting, Next, submit, submitInner, Start, StartFails, Sent, SendFails,
             Retried, Resync, ResyncFails, Receipt, Timeout, tryCancelTx, Ends, Mine,
             Evict, ThirdParty, vars, manager
    <2>2. CASE t \in Range(queue')
      <3>1. CASE \E u \in Tx : submit(u)
        BY <1>0, <2>2, <3>1 DEF submit, Waiting, Range
      <3>2. CASE Start \/ StartFails
        BY <1>0, <2>2, <3>2 DEF Start, StartFails, Waiting, Range
      <3>3. CASE UNCHANGED queue
        BY <2>2, <3>3 DEF Waiting, Range
      <3> QED
        BY <3>1, <3>2, <3>3
           DEF Next, submitInner, Sent, SendFails, Retried, Resync, ResyncFails,
               Receipt, Timeout, tryCancelTx, Ends, Mine, Evict, ThirdParty, vars,
               manager
    <2> QED
      BY <1>1, <2>1, <2>2 DEF Waiting
  <1>2. ASSUME NEW t \in Tx, Waiting(t)' PROVE Places(t)' = {}
    <2>1. Places(t) = {}
      BY <1>1, <1>2 DEF Counted
    <2>2. ~(step = "send" /\ t = current.tx)
      BY <1>1, <1>2 DEF Ordered, Waiting
    <2> QED
      BY <2>1, <2>2, PlacesStep
  <1>3. IsFiniteSet(0..MaxNonce)
    BY <1>0, FS_Interval
  <1>4. ASSUME step # "idle", step' # "idle", current'.tx = current.tx,
               current'.nonce = current.nonce, current'.resyncs = current.resyncs
        PROVE  Counted'
    <2>1. current.tx \in Tx
      BY <1>4 DEF StepTyped
    <2>2. PlacesSpent' \subseteq PlacesSpent
      BY <1>4, <2>1, PlacesStep DEF PlacesSpent, Places
    <2>3. IsFiniteSet(PlacesSpent)
      <3>1. PlacesSpent \subseteq 0..MaxNonce
        BY <1>4 DEF PlacesSpent, Places, Counted
      <3> QED
        BY <1>3, <3>1, FS_Subset
    <2>4. /\ Cardinality(PlacesSpent') <= Cardinality(PlacesSpent)
          /\ Cardinality(PlacesSpent') \in Nat /\ Cardinality(PlacesSpent) \in Nat
      BY <2>2, <2>3, FS_Subset, FS_CardinalityType
    <2>5. Cardinality(PlacesSpent') <= 1 + current'.resyncs
      BY <1>0, <1>4, <2>4 DEF Counted
    <2> QED
      BY <1>2, <1>4, <2>5 DEF Counted
  <1>5. CASE Start
    <2>1. PICK t \in Tx : t = Head(queue)
      BY <1>0, <1>5 DEF Start
    <2>2. /\ current'.tx = t /\ current'.nonce \in 0..MaxNonce
          /\ current'.resyncs = 0 /\ UNCHANGED node /\ Waiting(t)
      <3>1. PendingCount \in Nat
        BY PendingCountIsFree DEF NodeTyped, Spent
      <3> QED
        BY <1>0, <1>5, <2>1, <3>1 DEF Start, StepTyped, Waiting, Range
    <2>3. Places(t)' = {}
      BY <2>2 DEF Counted, Places, node, Spent
    <2>4. PlacesSpent' = {current'.nonce}
      BY <2>2, <2>3 DEF PlacesSpent, Places
    <2>5. Cardinality(PlacesSpent') = 1
      BY <2>4, FS_Singleton
    <2> QED
      BY <1>0, <1>2, <2>2, <2>5 DEF Counted
  <1>6. CASE Resync
    <2>1. /\ current'.tx = current.tx /\ current'.nonce \in 0..MaxNonce
          /\ current'.resyncs = current.resyncs + 1
          /\ current.resyncs < maxNonceResyncs
          /\ step = "send" /\ UNCHANGED node
      <3>1. PendingCount \in Nat
        BY PendingCountIsFree DEF NodeTyped, Spent
      <3> QED
        BY <1>0, <1>6, <3>1 DEF Resync, Desynced, StepTyped
    <2>2. IsFiniteSet(PlacesSpent)
      <3>1. PlacesSpent \subseteq 0..MaxNonce
        BY <2>1 DEF PlacesSpent, Places, Counted
      <3> QED
        BY <1>3, <3>1, FS_Subset
    <2>3. PlacesSpent' \subseteq PlacesSpent \cup {current'.nonce}
      BY <2>1 DEF PlacesSpent, Places, node, Spent
    <2>4. /\ IsFiniteSet(PlacesSpent \cup {current'.nonce})
          /\ Cardinality(PlacesSpent \cup {current'.nonce})
                <= Cardinality(PlacesSpent) + 1
          /\ Cardinality(PlacesSpent) \in Nat
      BY <2>2, FS_AddElement, FS_CardinalityType
    <2>5. /\ Cardinality(PlacesSpent')
                <= Cardinality(PlacesSpent \cup {current'.nonce})
          /\ Cardinality(PlacesSpent') \in Nat
          /\ Cardinality(PlacesSpent \cup {current'.nonce}) \in Nat
      BY <2>3, <2>4, FS_Subset, FS_CardinalityType
    <2>6. Cardinality(PlacesSpent') <= 1 + current'.resyncs
      BY <1>0, <2>1, <2>4, <2>5 DEF Counted
    <2> QED
      BY <1>0, <1>2, <2>1, <2>6 DEF Counted
  <1>7. CASE step' = "idle"
    BY <1>2, <1>7 DEF Counted
  <1>8. CASE Sent \/ SendFails \/ Timeout
    BY <1>4, <1>7, <1>8 DEF Sent, SendFails, Retried, Timeout, StepTyped
  <1>9. CASE UNCHANGED <<step, current>>
    BY <1>4, <1>7, <1>9
  <1> QED
    BY <1>5, <1>6, <1>7, <1>8, <1>9
       DEF Next, submit, submitInner, StartFails, ResyncFails, Receipt, tryCancelTx, Ends,
           Mine, Evict, ThirdParty, vars, manager

\* Sharing the wallet costs a submission at most one more nonce for each resync:
\* it is never in more places than its budget of resyncs allows.
THEOREM PlacesAreBounded == Spec => []LandsOncePerResync
  <1>1. Init => Ordered /\ Counted /\ LandsOncePerResync
    <2> SUFFICES ASSUME Init PROVE Ordered /\ Counted /\ LandsOncePerResync
      OBVIOUS
    <2>1. \A t \in Tx : Places(t) = {}
      BY DEF Init, Places, Spent
    <2>2. Ordered /\ Counted
      BY <2>1 DEF Init, Ordered, Counted, Range
    <2>3. LandsOncePerResync
      BY <2>1, Limits, FS_EmptySet DEF LandsOncePerResync
    <2> QED
      BY <2>2, <2>3
  <1>2. WellTyped /\ Counted /\ LandsOncePerResync /\ [Next]_vars => LandsOncePerResync'
    <2> SUFFICES ASSUME WellTyped, Counted, LandsOncePerResync, [Next]_vars,
                        NEW t \in Tx
                 PROVE  (Cardinality(Places(t)) <= 1 + maxNonceResyncs)'
      BY DEF LandsOncePerResync
    <2>0. /\ MaxNonce \in Nat /\ maxNonceResyncs \in Nat
          /\ IsFiniteSet(0..MaxNonce)
      BY Limits, FS_Interval
    <2>1. IsFiniteSet(Places(t)) /\ Places(t) \subseteq 0..MaxNonce
      BY <2>0, FS_Subset DEF Places
    <2>2. CASE Places(t)' \subseteq Places(t)
      <3>1. /\ Cardinality(Places(t)') <= Cardinality(Places(t))
            /\ Cardinality(Places(t)') \in Nat /\ Cardinality(Places(t)) \in Nat
        BY <2>1, <2>2, FS_Subset, FS_CardinalityType
      <3> QED
        BY <2>0, <3>1 DEF LandsOncePerResync
    <2>3. CASE /\ step = "send" /\ t = current.tx
               /\ Places(t)' \subseteq Places(t) \cup {current.nonce}
      <3>1. /\ Places(t)' \subseteq PlacesSpent
            /\ PlacesSpent \subseteq 0..MaxNonce
            /\ Cardinality(PlacesSpent) <= 1 + current.resyncs
            /\ current.resyncs <= maxNonceResyncs
        BY <2>1, <2>3 DEF PlacesSpent, Counted
      <3>2. IsFiniteSet(PlacesSpent) /\ current.resyncs \in Nat
        BY <2>0, <3>1, FS_Subset DEF WellTyped, StepTyped
      <3>3. /\ Cardinality(Places(t)') <= Cardinality(PlacesSpent)
            /\ Cardinality(Places(t)') \in Nat /\ Cardinality(PlacesSpent) \in Nat
        BY <3>1, <3>2, FS_Subset, FS_CardinalityType
      <3> QED
        BY <2>0, <3>1, <3>2, <3>3
    <2> QED
      BY <2>2, <2>3, PlacesStep
  <1> QED
    BY <1>1, <1>2, OrderedStep, CountedStep, TypeCorrect, PTL DEF Spec

--------------------------------------------------------------------------------
(* The loop: what it takes from sequences.                                 *)

\* A filter takes from a sequence some of its members, in their order.
Picks(r, s, S) ==
    /\ r \in Seq(Range(s) \cap S)
    /\ \E at \in [1 .. Len(r) -> 1 .. Len(s)] :
          /\ \A k \in 1 .. Len(r) : r[k] = s[at[k]]
          /\ \A j, k \in 1 .. Len(r) : j < k => at[j] < at[k]

Filtering(s, S) ==
    [n \in 1 .. Len(s) |->
        [r \in Seq(Range(s) \cap S) |-> IF s[n] \in S THEN Append(r, s[n]) ELSE r]]

LEMMA AmongInSteps ==
    ASSUME NEW T, NEW s \in Seq(T), NEW S
    PROVE  \E h : /\ InSteps(h, Len(s), Seq(Range(s) \cap S), <<>>, Filtering(s, S))
                  /\ Among(s, S) = h[Len(s)]
<1> DEFINE n == Len(s)
           V == Seq(Range(s) \cap S)
           takes == Filtering(s, S)
           Is(f) == f = [k \in 0 .. n |->
                           IF k = 0 THEN <<>>
                           ELSE IF s[k] \in S THEN Append(f[k - 1], s[k]) ELSE f[k - 1]]
           f == CHOOSE f : Is(f)
<1>1. n \in Nat /\ DOMAIN s = 1 .. n /\ <<>> \in V
    OBVIOUS
<1>2. ASSUME NEW i \in 1 .. n, NEW v \in V
      PROVE  /\ takes[i][v] = IF s[i] \in S THEN Append(v, s[i]) ELSE v
             /\ takes[i][v] \in V
    <2>1. takes[i][v] = IF s[i] \in S THEN Append(v, s[i]) ELSE v
        BY DEF Filtering
    <2>2. s[i] \in Range(s)
        BY <1>1 DEF Range
    <2> QED
        BY <2>1, <2>2
<1>3. Among(s, S) = f[n]
    BY <1>1 DEF Among
<1> HIDE DEF n, V, takes
<1>4. Is(f)
    <2>1. PICK h : InSteps(h, n, V, <<>>, takes)
        BY <1>1, <1>2, StepsExist
    <2>2. \A k \in 1 .. n : k - 1 \in 0 .. n /\ k - 1 # k
        BY <1>1
    <2>3. ASSUME NEW k \in 0 .. n
          PROVE  h[k] = IF k = 0 THEN <<>>
                        ELSE IF s[k] \in S THEN Append(h[k - 1], s[k]) ELSE h[k - 1]
        <3>1. CASE k = 0
            BY <2>1, <3>1 DEF InSteps
        <3>2. CASE k # 0
            <4>1. k \in 1 .. n /\ k - 1 \in 0 .. n
                BY <1>1, <3>2
            <4>2. h[k - 1] \in V /\ h[k] = takes[k][h[k - 1]]
                BY <2>1, <4>1 DEF InSteps
            <4> QED
                BY <1>2, <3>2, <4>1, <4>2
        <3> QED
            BY <3>1, <3>2
    <2>4. Is(h)
        <3>1. h = [k \in 0 .. n |-> h[k]]
            BY <2>1 DEF InSteps
        <3> QED
            BY <2>3, <3>1
    <2> HIDE DEF Is
    <2> QED
        BY <2>4
<1> HIDE DEF f
<1>5. InSteps(f, n, V, <<>>, takes)
    <2>1. f = [i \in 0 .. n |-> f[i]] /\ f[0] = <<>>
        BY <1>1, <1>4
    <2>2. ASSUME NEW i \in 1 .. n, f[i - 1] \in V
          PROVE  f[i] = takes[i][f[i - 1]]
        <3>1. i \in 0 .. n /\ i # 0
            BY <1>1
        <3>2. f[i] = IF s[i] \in S THEN Append(f[i - 1], s[i]) ELSE f[i - 1]
            BY <1>4, <3>1
        <3> QED
            BY <1>2, <2>2, <3>2
    <2> QED
        BY <1>1, <1>2, <2>1, <2>2, StepsFollow
<1> QED
    BY <1>3, <1>5 DEF n, V, takes

\* Every filter picks.
LEMMA AmongPicks ==
    ASSUME NEW T, NEW s \in Seq(T), NEW S
    PROVE  Picks(Among(s, S), s, S)
<1> DEFINE n == Len(s)
           V == Seq(Range(s) \cap S)
           takes == Filtering(s, S)
           Upto(r, i) ==
              \E at \in [1 .. Len(r) -> 1 .. i] :
                  /\ \A k \in 1 .. Len(r) : r[k] = s[at[k]]
                  /\ \A j, k \in 1 .. Len(r) : j < k => at[j] < at[k]
<1>1. n \in Nat /\ DOMAIN s = 1 .. n
    OBVIOUS
<1>2. PICK h : InSteps(h, n, V, <<>>, takes) /\ Among(s, S) = h[n]
    BY AmongInSteps
<1> DEFINE Off == {i \in 0 .. n : ~Upto(h[i], i)}
<1>3. ASSUME Off # {} PROVE FALSE
    <2>1. PICK i \in Off : \A j \in Off : i <= j
        <3>1. Off \subseteq Nat
            OBVIOUS
        <3> HIDE DEF Off
        <3> QED
            BY <1>3, <3>1, LeastNumber
    <2>2. i \in 0 .. n /\ ~Upto(h[i], i)
        BY <2>1
    <2>3. i # 0
        <3>1. ASSUME i = 0 PROVE FALSE
            <4>1. h[i] = <<>>
                BY <1>2, <3>1 DEF InSteps
            <4>2. Upto(h[i], i)
                <5>1. Len(h[i]) = 0
                    BY <4>1
                <5>2. [k \in 1 .. 0 |-> 1] \in [1 .. 0 -> 1 .. 0]
                    OBVIOUS
                <5>3. [k \in 1 .. 0 |-> 1] \in [1 .. Len(h[i]) -> 1 .. i]
                    BY <3>1, <5>1, <5>2
                <5>4. 1 .. Len(h[i]) = {}
                    BY <5>1
                <5> QED
                    BY <5>3, <5>4
            <4> QED
                BY <2>2, <4>2
        <3> QED
            BY <3>1
    <2>4. i \in 1 .. n /\ i - 1 \in 0 .. n /\ ~(i <= i - 1)
        BY <2>2, <2>3
    <2>5. h[i - 1] \in V /\ h[i] = takes[i][h[i - 1]]
        BY <1>2, <2>4 DEF InSteps
    <2>6. Upto(h[i - 1], i - 1)
        <3> HIDE DEF Upto
        <3> QED
            BY <2>1, <2>4
    <2> DEFINE r == h[i - 1]
    <2>7. PICK at \in [1 .. Len(r) -> 1 .. i - 1] :
              /\ \A k \in 1 .. Len(r) : r[k] = s[at[k]]
              /\ \A j, k \in 1 .. Len(r) : j < k => at[j] < at[k]
        BY <2>6
    <2>8. r \in V /\ Len(r) \in Nat
        BY <2>5
    <2>9. h[i] = IF s[i] \in S THEN Append(r, s[i]) ELSE r
        BY <2>4, <2>5 DEF Filtering
    <2> HIDE DEF r
    <2>10. CASE s[i] \notin S
        <3>1. at \in [1 .. Len(r) -> 1 .. i]
            BY <2>4, <2>7
        <3>2. Upto(r, i)
            BY <2>7, <3>1
        <3> QED
            BY <2>2, <2>9, <2>10, <3>2
    <2>11. CASE s[i] \in S
        <3> DEFINE q == Append(r, s[i])
                   by == [k \in 1 .. Len(r) + 1 |-> IF k = Len(r) + 1 THEN i ELSE at[k]]
        <3>1. Len(q) = Len(r) + 1 /\ (\A k \in 1 .. Len(r) : q[k] = r[k]) /\ q[Len(r) + 1] = s[i]
            BY <2>8
        <3>2. by \in [1 .. Len(q) -> 1 .. i]
            BY <2>4, <2>7, <2>8, <3>1
        <3>3. \A k \in 1 .. Len(q) : q[k] = s[by[k]]
            BY <2>7, <2>8, <3>1
        <3>4. ASSUME NEW j \in 1 .. Len(q), NEW k \in 1 .. Len(q), j < k
              PROVE  by[j] < by[k]
            <4>1. j \in 1 .. Len(r) /\ by[j] = at[j] /\ at[j] \in 1 .. i - 1
                BY <2>7, <2>8, <3>1, <3>4
            <4>2. CASE k = Len(r) + 1
                BY <2>4, <2>8, <4>1, <4>2
            <4>3. CASE k # Len(r) + 1
                <5>1. k \in 1 .. Len(r) /\ by[k] = at[k]
                    BY <2>8, <3>1, <4>3
                <5> QED
                    BY <2>7, <3>4, <4>1, <5>1
            <4> QED
                BY <4>2, <4>3
        <3>5. Upto(q, i)
            <4> HIDE DEF q, by
            <4> QED
                BY <3>2, <3>3, <3>4
        <3> QED
            BY <2>2, <2>9, <2>11, <3>5
    <2> QED
        BY <2>10, <2>11
<1>4. Upto(h[n], n) /\ h[n] \in V
    <2>1. n \in 0 .. n
        BY <1>1
    <2> QED
        BY <1>2, <1>3, <2>1 DEF InSteps
<1> QED
    BY <1>2, <1>4 DEF Picks

--------------------------------------------------------------------------------
(* The quoter's grid.                                                      *)

LEMMA Divided ==
    ASSUME NEW x \in Int, NEW d \in Nat \ {0}
    PROVE  /\ (x \div d) * d \in Int
           /\ (x \div d) * d <= x
           /\ x % d \in 0 .. d - 1
           /\ x = (x \div d) * d + (x % d)
<1>1. x \div d \in Int /\ x % d \in 0 .. d - 1
    BY Z3
<1>2. (x \div d) * d \in Int
    BY <1>1, Z3
<1>3. x = d * (x \div d) + (x % d)
    BY Z3
<1>4. d * (x \div d) = (x \div d) * d
    BY <1>1, Z3
<1> QED
    BY <1>1, <1>2, <1>3, <1>4

\* A bid is rounded down; an ask up by less than a tick, to nothing or to a tick at least.
LEMMA RoundedDown ==
    ASSUME NEW x \in Int
    PROVE  /\ roundDownToTick(x) \in Int
           /\ roundDownToTick(x) <= x
<1>1. tick \in Nat \ {0}
    BY Quotable
<1> QED
    BY <1>1, Divided DEF roundDownToTick

LEMMA RoundedUp ==
    ASSUME NEW x \in Nat
    PROVE  /\ roundUpToTick(x) \in Nat
           /\ x <= roundUpToTick(x)
           /\ roundUpToTick(x) < x + tick
           /\ roundUpToTick(x) > 0 => roundUpToTick(x) >= tick
<1> DEFINE k == (x \div tick) * tick
           rest == x % tick
<1>1. tick \in Nat \ {0}
    BY Quotable
<1>2. k \in Int /\ k <= x /\ rest \in 0 .. tick - 1 /\ x = k + rest
    BY <1>1, Divided
<1>3. roundUpToTick(x) = IF rest = 0 THEN x ELSE x + tick - rest
    BY DEF roundUpToTick
<1>4. x # 0 => x >= tick \/ rest # 0
    <2>1. ASSUME x < tick PROVE x % tick = x
        BY <1>1, <2>1, Z3
    <2> QED
        BY <1>1, <2>1
<1>5. k >= 0
    <2>1. x \div tick \in Nat
        BY <1>1, Z3
    <2> QED
        BY <1>1, <2>1, Z3
<1> HIDE DEF k, rest
<1> QED
    BY <1>1, <1>2, <1>3, <1>4, <1>5

LEMMA FunctionIsSeq ==
    ASSUME NEW n \in Nat, NEW T, NEW f \in [1 .. n -> T]
    PROVE  f \in Seq(T) /\ Len(f) = n /\ DOMAIN f = 1 .. n
<1>1. f \in Seq(T)
    OBVIOUS
<1>2. DOMAIN f = 1 .. n
    OBVIOUS
<1> QED
    BY <1>1, <1>2

LEMMA GreatestBelow ==
    ASSUME NEW S, S \subseteq Int, S # {}, NEW b \in Int, \A x \in S : x <= b
    PROVE  Max(S) \in S /\ \A x \in S : x <= Max(S)
<1> DEFINE N == {b - x : x \in S}
<1>1. \A x \in S : x \in Int /\ b - x \in Nat
    OBVIOUS
<1>2. N \subseteq Nat /\ N # {}
    BY <1>1
<1>3. PICK d \in N : \A e \in N : d <= e
    <2> HIDE DEF N
    <2> QED
        BY <1>2, LeastNumber
<1>4. PICK m \in S : d = b - m
    BY <1>3
<1>5. ASSUME NEW x \in S PROVE m >= x
    <2>1. d <= b - x
        BY <1>3
    <2> QED
        BY <1>1, <1>4, <2>1
<1>6. Max(S) \in S /\ \A x \in S : Max(S) >= x
    BY <1>5 DEF Max
<1> QED
    BY <1>1, <1>6

LEMMA LeastAbove ==
    ASSUME NEW S, S \subseteq Int, S # {}, NEW b \in Int, \A x \in S : b <= x
    PROVE  Min(S) \in S /\ \A x \in S : Min(S) <= x
<1> DEFINE N == {x - b : x \in S}
<1>1. \A x \in S : x \in Int /\ x - b \in Nat
    OBVIOUS
<1>2. N \subseteq Nat /\ N # {}
    BY <1>1
<1>3. PICK d \in N : \A e \in N : d <= e
    <2> HIDE DEF N
    <2> QED
        BY <1>2, LeastNumber
<1>4. PICK m \in S : d = m - b
    BY <1>3
<1>5. ASSUME NEW x \in S PROVE m <= x
    <2>1. d <= x - b
        BY <1>3
    <2> QED
        BY <1>1, <1>4, <2>1
<1> QED
    BY <1>5 DEF Min

\* An intent, and a sequence of intents.
IsIntent(i) ==
    i = [side |-> i.side, price |-> i.price, size |-> i.size] /\ i.price \in Int

Intents(s) == \E T : s \in Seq(T) /\ \A i \in T : IsIntent(i)

\* What is left to open: each bid is at most each ask, and no two asks share a price.
LocksAtMost(s) ==
    /\ \A i, j \in 1 .. Len(s) :
          s[i].side = "buy" /\ s[j].side = "sell" => s[i].price <= s[j].price
    /\ \A i, j \in 1 .. Len(s) :
          i # j /\ s[i].side = "sell" /\ s[j].side = "sell" => s[i].price # s[j].price

LEMMA PricesAt ==
    ASSUME NEW T, NEW s \in Seq(T), NEW side
    PROVE  PricesOf(s, side) = {s[i].price : i \in {k \in 1 .. Len(s) : s[k].side = side}}
<1>1. DOMAIN s = 1 .. Len(s)
    OBVIOUS
<1> QED
    BY <1>1 DEF PricesOf, Range

\* One tick opens such a book.
LEMMA Widened ==
    ASSUME NEW s, Intents(s), LocksAtMost(s)
    PROVE  /\ Intents(widenLockedBook(s))
           /\ ~Locks(widenLockedBook(s))
<1> DEFINE bids == PricesOf(s, "buy")
           asks == PricesOf(s, "sell")
           I == {i \in 1 .. Len(s) : s[i].side = "sell" /\ s[i].price = Min(asks)}
           best == IF I # {} THEN Min(I) ELSE 0
           r == [s EXCEPT ![best].price = Max(bids) + tick]
<1>1. PICK T : s \in Seq(T) /\ \A i \in T : IsIntent(i)
    BY DEF Intents
<1>2. tick \in Nat \ {0} /\ Len(s) \in Nat /\ DOMAIN s = 1 .. Len(s)
    BY <1>1, Quotable
<1>3. /\ bids = {s[i].price : i \in {k \in 1 .. Len(s) : s[k].side = "buy"}}
      /\ asks = {s[i].price : i \in {k \in 1 .. Len(s) : s[k].side = "sell"}}
    BY <1>1, PricesAt
<1>4. \A i \in 1 .. Len(s) : IsIntent(s[i]) /\ s[i].price \in Int
    BY <1>1 DEF IsIntent
<1>5. \A p \in bids, q \in asks : p \in Int /\ q \in Int /\ p <= q
    BY <1>3, <1>4 DEF LocksAtMost
<1>6. widenLockedBook(s) = IF bids = {} \/ asks = {} THEN s
                           ELSE IF Max(bids) < Min(asks) THEN s ELSE r
    BY DEF widenLockedBook, SelectInSeq
<1>7. CASE bids = {} \/ asks = {}
    BY <1>6, <1>7 DEF Locks
<1>8. CASE bids # {} /\ asks # {}
    <2> HIDE DEF bids, asks, r
    <2>1. /\ Max(bids) \in bids /\ \A p \in bids : p <= Max(bids)
          /\ Min(asks) \in asks /\ \A q \in asks : Min(asks) <= q
        <3>1. bids \subseteq Int /\ asks \subseteq Int
            BY <1>5, <1>8
        <3>2. PICK p \in bids : TRUE
            BY <1>8
        <3>3. PICK q \in asks : TRUE
            BY <1>8
        <3> QED
            BY <1>5, <3>1, <3>2, <3>3, GreatestBelow, LeastAbove
    <2>2. Max(bids) \in Int /\ Min(asks) \in Int /\ Max(bids) <= Min(asks)
        BY <1>5, <2>1
    <2>3. CASE Max(bids) < Min(asks)
        <3>1. \A p \in bids, q \in asks : ~(p >= q)
            BY <1>5, <2>1, <2>2, <2>3
        <3>2. ~Locks(s)
            BY <3>1 DEF Locks, bids, asks
        <3> QED
            BY <1>6, <1>8, <2>3, <3>2
    <2>4. CASE ~(Max(bids) < Min(asks))
        <3>1. Max(bids) = Min(asks)
            BY <2>2, <2>4
        <3>2. best \in I
            <4>1. I # {}
                BY <1>3, <2>1
            <4>2. I \subseteq Int
                BY <1>2
            <4>3. PICK b \in Int : \A i \in I : b <= i
                <5>1. 0 \in Int /\ \A i \in I : 0 <= i
                    BY <1>2
                <5> QED
                    BY <5>1
            <4> HIDE DEF I
            <4>4. Min(I) \in I
                BY <4>1, <4>2, <4>3, LeastAbove
            <4> QED
                BY <4>1, <4>4
        <3>3. best \in 1 .. Len(s) /\ s[best].side = "sell" /\ s[best].price = Min(asks)
            BY <3>2
        <3> HIDE DEF best, I
        <3> DEFINE top == [side |-> s[best].side, price |-> Max(bids) + tick, size |-> s[best].size]
        <3>4. IsIntent(top) /\ top.price = Max(bids) + tick /\ top.side = "sell"
            BY <1>2, <2>2, <3>3 DEF IsIntent
        <3>5. r = [i \in 1 .. Len(s) |-> IF i = best THEN top ELSE s[i]]
            <4>1. s[best] = [side |-> s[best].side, price |-> s[best].price, size |-> s[best].size]
                BY <1>4, <3>3 DEF IsIntent
            <4>2. [s[best] EXCEPT !.price = Max(bids) + tick] = top
                BY <4>1
            <4> HIDE DEF top
            <4> QED
                BY <1>1, <1>2, <3>3, <4>2 DEF r
        <3> HIDE DEF top
        <3>6. r \in Seq(T \cup {top}) /\ Len(r) = Len(s)
            <4>1. \A i \in 1 .. Len(s) : s[i] \in T
                BY <1>1
            <4> QED
                BY <1>2, <3>5, <4>1
        <3>7. Intents(r)
            BY <1>1, <3>4, <3>6 DEF Intents
        <3>8. ASSUME NEW p \in PricesOf(r, "buy"), NEW q \in PricesOf(r, "sell")
              PROVE  ~(p >= q)
            <4>1. PICK i \in 1 .. Len(s) : r[i].side = "buy" /\ r[i].price = p
                BY <3>6, <3>8, PricesAt
            <4>2. PICK j \in 1 .. Len(s) : r[j].side = "sell" /\ r[j].price = q
                BY <3>6, <3>8, PricesAt
            <4>3. i # best /\ s[i].side = "buy" /\ s[i].price = p
                BY <3>4, <3>5, <4>1
            <4>4. p \in bids /\ p \in Int /\ p <= Max(bids)
                BY <1>3, <1>4, <2>1, <4>3
            <4>5. CASE j = best
                <5>1. q = Max(bids) + tick
                    BY <3>4, <3>5, <4>2, <4>5
                <5> QED
                    BY <1>2, <2>2, <4>4, <5>1
            <4>6. CASE j # best
                <5>1. s[j].side = "sell" /\ s[j].price = q
                    BY <3>5, <4>2, <4>6
                <5>2. q \in asks /\ q \in Int /\ Min(asks) <= q
                    BY <1>3, <1>4, <2>1, <5>1
                <5>3. q # Min(asks)
                    BY <3>3, <4>6, <5>1 DEF LocksAtMost
                <5> QED
                    BY <2>2, <3>1, <4>4, <5>2, <5>3
            <4> QED
                BY <4>5, <4>6
        <3>9. ~Locks(r)
            BY <3>8 DEF Locks
        <3> QED
            BY <1>6, <1>8, <2>4, <3>7, <3>9
    <2> QED
        BY <2>3, <2>4
<1> QED
    BY <1>7, <1>8

LEMMA NoIntents == Intents(<<>>)
<1>1. PICK T : T = {}
    OBVIOUS
<1>2. <<>> \in Seq(T) /\ \A i \in T : IsIntent(i)
    BY <1>1
<1> QED
    BY <1>2 DEF Intents

Offset(level) == (level - 1) * levelSpacingTicks * tick

\* Levels are a tick apart at least.
LEMMA OffsetsGrow ==
    ASSUME NEW l \in Nat \ {0}
    PROVE  /\ Offset(l) \in Nat
           /\ \A k \in Nat : l < k => Offset(l) + tick <= Offset(k)
<1>1. tick \in Nat \ {0} /\ levelSpacingTicks \in Nat \ {0}
    BY Quotable
<1>2. ASSUME NEW k \in Nat \ {0}
      PROVE  (k - 1) * levelSpacingTicks \in Nat /\ Offset(k) \in Nat
    <2>1. k - 1 \in Nat
        OBVIOUS
    <2>2. (k - 1) * levelSpacingTicks \in Nat
        BY <1>1, <2>1, TimesMonotone
    <2> QED
        BY <1>1, <2>2, TimesMonotone DEF Offset
<1>3. ASSUME NEW k \in Nat, l < k
      PROVE  Offset(l) + tick <= Offset(k)
    <2> DEFINE a == (l - 1) * levelSpacingTicks
               b == (k - 1) * levelSpacingTicks
    <2>1. k \in Nat \ {0} /\ l - 1 \in Nat /\ k - 1 \in Nat /\ l <= k - 1
        BY <1>3
    <2>2. a \in Nat /\ b \in Nat
        BY <1>2, <2>1
    <2>3. l * levelSpacingTicks <= b
        BY <1>1, <2>1, TimesMonotone
    <2>4. l * levelSpacingTicks = a + levelSpacingTicks
        BY <1>1, Z3
    <2>5. a + 1 <= b
        BY <1>1, <2>2, <2>3, <2>4
    <2> HIDE DEF a, b
    <2>6. (a + 1) * tick <= b * tick
        BY <1>1, <2>2, <2>5, TimesMonotone
    <2>7. (a + 1) * tick = a * tick + tick
        BY <1>1, <2>2, Z3
    <2> QED
        BY <2>6, <2>7 DEF Offset, a, b
<1> QED
    BY <1>2, <1>3

Bid(q, level) == IF q.bid > Offset(level) THEN q.bid - Offset(level) ELSE tick

BidAt(q, level) ==
    [side |-> "buy", price |-> roundDownToTick(Bid(q, level)), size |-> sizes[level]]

AskAt(q, level) ==
    [side |-> "sell", price |-> roundUpToTick(q.ask + Offset(level)), size |-> sizes[level]]

Bids(q) == [level \in 1 .. Len(sizes) |-> BidAt(q, level)]
Asks(q) == [level \in 1 .. Len(sizes) |-> AskAt(q, level)]

BidSet(q) == {BidAt(q, level) : level \in 1 .. Len(sizes)}
AskSet(q) == {AskAt(q, level) : level \in 1 .. Len(sizes)}

\* A quote that asks for nothing below zero.
Sound(q) == q.price \in Int /\ q.bid \in Int /\ q.ask \in Nat /\ q.bid <= q.ask

LEMMA AsksGrow ==
    ASSUME NEW q, Sound(q), NEW l \in Nat \ {0}
    PROVE  /\ AskAt(q, l).price \in Nat
           /\ \A k \in Nat : l < k => AskAt(q, l).price < AskAt(q, k).price
<1>1. tick \in Nat \ {0} /\ q.ask \in Nat
    BY Quotable DEF Sound
<1>2. ASSUME NEW k \in Nat \ {0}
      PROVE  /\ q.ask + Offset(k) \in Nat
             /\ AskAt(q, k).price \in Nat
             /\ q.ask + Offset(k) <= AskAt(q, k).price
             /\ AskAt(q, k).price < q.ask + Offset(k) + tick
    <2>1. q.ask + Offset(k) \in Nat
        BY <1>1, OffsetsGrow
    <2> QED
        BY <2>1, RoundedUp DEF AskAt
<1>3. ASSUME NEW k \in Nat, l < k
      PROVE  AskAt(q, l).price < AskAt(q, k).price
    <2>1. k \in Nat \ {0} /\ Offset(l) + tick <= Offset(k)
        BY <1>3, OffsetsGrow
    <2>2. Offset(l) \in Nat /\ Offset(k) \in Nat
        BY <2>1, OffsetsGrow
    <2>3. /\ AskAt(q, l).price \in Nat /\ AskAt(q, l).price < q.ask + Offset(l) + tick
          /\ AskAt(q, k).price \in Nat /\ q.ask + Offset(k) <= AskAt(q, k).price
        BY <1>2, <2>1
    <2> DEFINE a == AskAt(q, l).price
               b == AskAt(q, k).price
               x == q.ask
               u == Offset(l)
               v == Offset(k)
    <2>4. /\ a \in Nat /\ b \in Nat /\ x \in Nat /\ u \in Nat /\ v \in Nat /\ tick \in Nat
          /\ a < x + u + tick /\ x + v <= b /\ u + tick <= v
        BY <1>1, <2>1, <2>2, <2>3
    <2> HIDE DEF a, b, x, u, v
    <2>5. a < b
        BY <2>4
    <2> QED
        BY <2>5 DEF a, b
<1> QED
    BY <1>2, <1>3

\* No bid is above an ask.
LEMMA BidsBelowAsks ==
    ASSUME NEW q, Sound(q), NEW l \in Nat \ {0}
    PROVE  /\ BidAt(q, l).price \in Int
           /\ \A k \in Nat \ {0} :
                 AskAt(q, k).price > 0 => BidAt(q, l).price <= AskAt(q, k).price
<1>1. tick \in Nat \ {0} /\ q.ask \in Nat /\ q.bid \in Int /\ q.bid <= q.ask
    BY Quotable DEF Sound
<1>2. Offset(l) \in Nat
    BY OffsetsGrow
<1>3. Bid(q, l) \in Int
    BY <1>1, <1>2 DEF Bid
<1>4. BidAt(q, l).price \in Int /\ BidAt(q, l).price <= Bid(q, l)
    BY <1>3, RoundedDown DEF BidAt
<1>5. ASSUME NEW k \in Nat \ {0}, AskAt(q, k).price > 0
      PROVE  BidAt(q, l).price <= AskAt(q, k).price
    <2>1. Offset(k) \in Nat
        BY OffsetsGrow
    <2>2. q.ask + Offset(k) \in Nat
        BY <1>1, <2>1
    <2>3. /\ AskAt(q, k).price \in Nat /\ q.ask + Offset(k) <= AskAt(q, k).price
          /\ tick <= AskAt(q, k).price
        BY <1>5, <2>2, RoundedUp DEF AskAt
    <2>4. Bid(q, l) <= q.ask \/ Bid(q, l) = tick
        BY <1>1, <1>2 DEF Bid
    <2> DEFINE a == AskAt(q, k).price
               b == BidAt(q, l).price
               c == Bid(q, l)
               x == q.ask
               u == Offset(k)
    <2>5. /\ a \in Nat /\ b \in Int /\ c \in Int /\ x \in Nat /\ u \in Nat /\ tick \in Nat
          /\ b <= c /\ x + u <= a /\ tick <= a /\ (c <= x \/ c = tick)
        BY <1>1, <1>3, <1>4, <2>1, <2>3, <2>4
    <2> HIDE DEF a, b, c, x, u
    <2>6. b <= a
        BY <2>5
    <2> QED
        BY <2>6 DEF a, b
<1> QED
    BY <1>4, <1>5

Positive(s) == {a \in Range(s) : a.price > 0}

LEMMA BidsAreIntents ==
    ASSUME NEW q, Sound(q)
    PROVE  /\ Bids(q) \in Seq(BidSet(q))
           /\ Asks(q) \in Seq(AskSet(q))
           /\ Len(Asks(q)) = Len(sizes)
           /\ \A l \in 1 .. Len(sizes) :
                 /\ IsIntent(BidAt(q, l)) /\ BidAt(q, l).side = "buy"
                 /\ IsIntent(AskAt(q, l)) /\ AskAt(q, l).side = "sell"
<1>1. Len(sizes) \in Nat
    BY Quotable
<1>2. /\ Bids(q) \in Seq(BidSet(q))
      /\ Asks(q) \in Seq(AskSet(q))
      /\ Len(Asks(q)) = Len(sizes)
    <2>1. /\ \A l \in 1 .. Len(sizes) : BidAt(q, l) \in BidSet(q)
          /\ \A l \in 1 .. Len(sizes) : AskAt(q, l) \in AskSet(q)
        BY DEF BidSet, AskSet
    <2>2. Bids(q) \in [1 .. Len(sizes) -> BidSet(q)]
        BY <2>1 DEF Bids
    <2>3. Asks(q) \in [1 .. Len(sizes) -> AskSet(q)]
        BY <2>1 DEF Asks
    <2> QED
        BY <1>1, <2>2, <2>3, FunctionIsSeq
<1>3. ASSUME NEW l \in 1 .. Len(sizes)
      PROVE  /\ IsIntent(BidAt(q, l)) /\ BidAt(q, l).side = "buy"
             /\ IsIntent(AskAt(q, l)) /\ AskAt(q, l).side = "sell"
    <2>1. l \in Nat \ {0}
        BY <1>1
    <2>2. BidAt(q, l).price \in Int /\ AskAt(q, l).price \in Int
        BY <2>1, BidsBelowAsks, AsksGrow
    <2> QED
        BY <2>2 DEF IsIntent, BidAt, AskAt
<1> QED
    BY <1>2, <1>3

\* The asks that are left, best first.
LEMMA AsksKept ==
    ASSUME NEW q, Sound(q), NEW A, A = Among(Asks(q), Positive(Asks(q))) \/ A = <<>>
    PROVE  /\ Intents(A)
           /\ A \in Seq(AskSet(q))
           /\ \A k \in 1 .. Len(A) :
                 \E l \in 1 .. Len(sizes) : A[k] = AskAt(q, l) /\ AskAt(q, l).price > 0
           /\ \A j, k \in 1 .. Len(A) : j < k => A[j].price < A[k].price
<1> DEFINE T == AskSet(q)
<1>1. Asks(q) \in Seq(T) /\ Len(Asks(q)) = Len(sizes) /\ Len(sizes) \in Nat
    <2>1. Len(sizes) \in Nat
        BY Quotable
    <2> QED
        BY <2>1, BidsAreIntents
<1>2. \A a \in T : IsIntent(a)
    BY BidsAreIntents DEF AskSet
<1> HIDE DEF T
<1>3. \A l \in 1 .. Len(sizes) : Asks(q)[l] = AskAt(q, l)
    BY DEF Asks
<1>4. CASE A = <<>>
    <2>1. Len(A) = 0 /\ A \in Seq(T) /\ A \in Seq({})
        BY <1>4
    <2>2. Intents(A)
        BY <1>4, NoIntents
    <2>3. 1 .. Len(A) = {}
        BY <2>1
    <2> QED
        BY <2>1, <2>2, <2>3 DEF T
<1>5. CASE A = Among(Asks(q), Positive(Asks(q)))
    <2>1. Picks(A, Asks(q), Positive(Asks(q)))
        BY <1>1, <1>5, AmongPicks
    <2>2. Range(Asks(q)) \subseteq T
        BY <1>1 DEF Range
    <2>3. A \in Seq(T) /\ Len(A) \in Nat
        <3>1. A \in Seq(Range(Asks(q)) \cap Positive(Asks(q)))
            BY <2>1 DEF Picks
        <3>2. Range(Asks(q)) \cap Positive(Asks(q)) \subseteq T
            BY <2>2
        <3> HIDE DEF T
        <3> QED
            BY <3>1, <3>2
    <2>4. PICK at \in [1 .. Len(A) -> 1 .. Len(sizes)] :
              /\ \A k \in 1 .. Len(A) : A[k] = Asks(q)[at[k]]
              /\ \A j, k \in 1 .. Len(A) : j < k => at[j] < at[k]
        BY <1>1, <2>1 DEF Picks
    <2>5. \A k \in 1 .. Len(A) : A[k] = AskAt(q, at[k]) /\ at[k] \in 1 .. Len(sizes)
        BY <1>3, <2>4
    <2>6. \A k \in 1 .. Len(A) : A[k].price > 0
        BY <2>1 DEF Picks, Positive
    <2>7. ASSUME NEW j \in 1 .. Len(A), NEW k \in 1 .. Len(A), j < k
          PROVE  A[j].price < A[k].price
        <3>1. at[j] \in 1 .. Len(sizes) /\ at[k] \in 1 .. Len(sizes) /\ at[j] < at[k]
            BY <2>4, <2>7
        <3>2. at[j] \in Nat \ {0} /\ at[k] \in Nat
            BY <1>1, <3>1
        <3> QED
            BY <2>5, <3>1, <3>2, AsksGrow
    <2>8. Intents(A)
        BY <1>2, <2>3 DEF Intents
    <2> QED
        BY <2>3, <2>5, <2>6, <2>7, <2>8 DEF T
<1> QED
    BY <1>4, <1>5

\* A market's own quotes never lock.
LEMMA GridIsOpen ==
    ASSUME NEW q, Sound(q)
    PROVE  Intents(computeQuotes(q)) /\ ~Locks(computeQuotes(q))
<1> DEFINE B == IF "buy" \in q.sides THEN Bids(q) ELSE <<>>
           A == IF "sell" \in q.sides THEN Among(Asks(q), Positive(Asks(q))) ELSE <<>>
           T == BidSet(q)
           U == AskSet(q)
           s == B \o A
<1>1. DOMAIN sizes = 1 .. Len(sizes) /\ Len(sizes) \in Nat
    BY Quotable
<1>2. computeQuotes(q) = IF q.price = 0 THEN <<>> ELSE widenLockedBook(s)
    BY <1>1 DEF computeQuotes, Bids, Asks, BidAt, AskAt, Bid, Offset, Positive
<1>3. /\ B \in Seq(T)
      /\ \A l \in 1 .. Len(sizes) :
            /\ IsIntent(BidAt(q, l)) /\ BidAt(q, l).side = "buy"
            /\ IsIntent(AskAt(q, l)) /\ AskAt(q, l).side = "sell"
    <2>1. <<>> \in Seq(T) /\ Bids(q) \in Seq(T)
        BY BidsAreIntents
    <2> QED
        BY <2>1, BidsAreIntents
<1>4. /\ A \in Seq(U)
      /\ \A k \in 1 .. Len(A) :
            \E l \in 1 .. Len(sizes) : A[k] = AskAt(q, l) /\ AskAt(q, l).price > 0
      /\ \A j, k \in 1 .. Len(A) : j < k => A[j].price < A[k].price
    <2>1. A = Among(Asks(q), Positive(Asks(q))) \/ A = <<>>
        OBVIOUS
    <2> HIDE DEF A
    <2> QED
        BY <2>1, AsksKept
<1> HIDE DEF A, B, T, U
<1>5. /\ s \in Seq(T \cup U) /\ Len(s) = Len(B) + Len(A)
      /\ Len(A) \in Nat /\ Len(B) \in Nat
    BY <1>3, <1>4
<1>6. ASSUME NEW i \in 1 .. Len(s)
      PROVE  \/ i \in 1 .. Len(B) /\ s[i] = B[i] /\ B[i] \in T
             \/ i - Len(B) \in 1 .. Len(A) /\ s[i] = A[i - Len(B)] /\ A[i - Len(B)] \in U
    <2>1. CASE i <= Len(B)
        <3>1. i \in 1 .. Len(B)
            BY <1>5, <1>6, <2>1
        <3> QED
            BY <1>3, <1>4, <3>1
    <2>2. CASE ~(i <= Len(B))
        <3>1. i - Len(B) \in 1 .. Len(A) /\ i \in 1 .. Len(B) + Len(A)
            BY <1>5, <1>6, <2>2
        <3>2. s[i] = A[i - Len(B)]
            BY <1>3, <1>4, <1>5, <2>2, <3>1
        <3> QED
            BY <1>4, <3>1, <3>2
    <2> QED
        BY <2>1, <2>2
<1> HIDE DEF s
<1>7. Intents(s)
    <2>1. \A i \in T \cup U : IsIntent(i)
        BY <1>3 DEF T, U, BidSet, AskSet
    <2> QED
        BY <1>5, <2>1 DEF Intents
<1>8. ASSUME NEW i \in 1 .. Len(s), NEW j \in 1 .. Len(s), s[i].side = "buy", s[j].side = "sell"
      PROVE  s[i].price <= s[j].price
    <2>1. PICK l \in 1 .. Len(sizes) : s[i] = BidAt(q, l)
        BY <1>3, <1>6, <1>8 DEF T, U, BidSet, AskSet
    <2>2. j - Len(B) \in 1 .. Len(A) /\ s[j] = A[j - Len(B)]
        BY <1>3, <1>6, <1>8 DEF T, BidSet
    <2>3. PICK k \in 1 .. Len(sizes) : s[j] = AskAt(q, k) /\ AskAt(q, k).price > 0
        BY <1>4, <2>2
    <2>4. l \in Nat \ {0} /\ k \in Nat \ {0}
        BY <1>1
    <2> QED
        BY <2>1, <2>3, <2>4, BidsBelowAsks
<1>9. ASSUME NEW i \in 1 .. Len(s), NEW j \in 1 .. Len(s),
             s[i].side = "sell", s[j].side = "sell", i # j
      PROVE  s[i].price # s[j].price
    <2> DEFINE a == i - Len(B)
               b == j - Len(B)
    <2>1. a \in 1 .. Len(A) /\ s[i] = A[a] /\ b \in 1 .. Len(A) /\ s[j] = A[b]
        BY <1>3, <1>6, <1>9 DEF T, BidSet
    <2>2. a < b \/ b < a
        BY <1>5, <1>9
    <2> HIDE DEF a, b
    <2>3. A[a].price < A[b].price \/ A[b].price < A[a].price
        BY <1>4, <2>1, <2>2
    <2>4. A[a].price \in Int /\ A[b].price \in Int
        <3>1. A[a] \in U /\ A[b] \in U
            <4> HIDE DEF U
            <4>1. \A k \in 1 .. Len(A) : A[k] \in U
                BY <1>4
            <4> QED
                BY <2>1, <4>1
        <3> QED
            BY <1>3, <3>1 DEF IsIntent, U, AskSet
    <2> QED
        BY <2>1, <2>3, <2>4
<1>10. LocksAtMost(s)
    BY <1>8, <1>9 DEF LocksAtMost
<1>11. CASE q.price = 0
    <2>1. computeQuotes(q) = <<>>
        BY <1>2, <1>11
    <2>2. PricesOf(<<>>, "buy") = {}
        BY DEF PricesOf, Range
    <2>3. ~Locks(<<>>)
        BY <2>2 DEF Locks
    <2>5. Intents(<<>>)
        BY NoIntents
    <2> QED
        BY <2>1, <2>3, <2>5
<1>12. CASE q.price # 0
    BY <1>2, <1>7, <1>10, <1>12, Widened
<1> QED
    BY <1>11, <1>12

--------------------------------------------------------------------------------
(* What a diff keeps and adds.                                             *)

IsOrder(o) ==
    /\ o = [id |-> o.id, side |-> o.side, price |-> o.price, size |-> o.size]
    /\ o.price \in Int

Orders(s) == \E T : s \in Seq(T) /\ \A o \in T : IsOrder(o)

\* An element of a sequence that asks the same as one of a set.
SameLevel(a, S) == \E b \in S : a.side = b.side /\ a.price = b.price

LEMMA ReducedIsOrder ==
    ASSUME NEW o, IsOrder(o), NEW reduces
    PROVE  /\ IsOrder(Reduced(o, reduces))
           /\ Reduced(o, reduces).side = o.side
           /\ Reduced(o, reduces).price = o.price
           /\ Reduced(o, reduces).id = o.id
<1> DEFINE n == IF \E r \in reduces : r.id = o.id
                THEN (CHOOSE r \in reduces : r.id = o.id).newSize ELSE o.size
<1>1. o = [id |-> o.id, side |-> o.side, price |-> o.price, size |-> o.size] /\ o.price \in Int
    BY DEF IsOrder
<1>2. Reduced(o, reduces) = [o EXCEPT !.size = n]
    BY <1>1 DEF Reduced
<1> HIDE DEF n
<1>3. Reduced(o, reduces) = [id |-> o.id, side |-> o.side, price |-> o.price, size |-> n]
    BY <1>1, <1>2
<1> QED
    BY <1>1, <1>3 DEF IsOrder

LEMMA KeptAt ==
    ASSUME NEW s, Orders(s), NEW diff
    PROVE  /\ Orders(After(s, diff))
           /\ \A k \in 1 .. Len(After(s, diff)) :
                 SameLevel(After(s, diff)[k], {o \in Range(s) : o.id \notin diff.cancels})
<1> DEFINE S == {o \in Range(s) : o.id \notin diff.cancels}
           kept == Without(s, diff.cancels)
           r == After(s, diff)
           U == {Reduced(o, diff.reduces) : o \in S}
<1>1. PICK T : s \in Seq(T) /\ \A o \in T : IsOrder(o)
    BY DEF Orders
<1>2. \A o \in S : IsOrder(o)
    BY <1>1 DEF Range
<1>3. kept \in Seq(S) /\ Len(kept) \in Nat /\ DOMAIN kept = 1 .. Len(kept)
    <2>1. kept = Among(s, S)
        BY DEF Without
    <2>2. Picks(kept, s, S)
        BY <1>1, <2>1, AmongPicks
    <2>3. Range(s) \cap S = S
        OBVIOUS
    <2> HIDE DEF S, kept
    <2>4. kept \in Seq(S)
        BY <2>2, <2>3 DEF Picks
    <2> QED
        BY <2>4
<1>4. \A k \in 1 .. Len(kept) : kept[k] \in S
    <2> HIDE DEF S, kept
    <2> QED
        BY <1>3
<1>5. r = [k \in 1 .. Len(kept) |-> Reduced(kept[k], diff.reduces)]
    BY <1>3 DEF After
<1> HIDE DEF kept, r, S
<1>6. r \in [1 .. Len(kept) -> U]
    BY <1>4, <1>5
<1> HIDE DEF U
<1>7. r \in Seq(U) /\ Len(r) = Len(kept)
    BY <1>3, <1>6, FunctionIsSeq
<1>8. \A u \in U : IsOrder(u)
    BY <1>2, ReducedIsOrder DEF U
<1>9. Orders(r)
    BY <1>7, <1>8 DEF Orders
<1>10. ASSUME NEW k \in 1 .. Len(r)
       PROVE  SameLevel(r[k], S)
    <2>1. kept[k] \in S /\ r[k] = Reduced(kept[k], diff.reduces)
        BY <1>4, <1>5, <1>7
    <2> QED
        BY <1>2, <2>1, ReducedIsOrder DEF SameLevel
<1> QED
    BY <1>9, <1>10 DEF S, r

LEMMA NewAt ==
    ASSUME NEW d, Intents(d), NEW existing
    PROVE  /\ Intents(findNewOrders(d, existing))
           /\ \A k \in 1 .. Len(findNewOrders(d, existing)) :
                 SameLevel(findNewOrders(d, existing)[k], Range(d))
<1> DEFINE short == {i \in Range(d) : sizeDeltaAboveThreshold(i.price, Deficit(existing, i))}
           missing == Among(d, short)
           New(i) == [side |-> i.side, price |-> i.price, size |-> Deficit(existing, i)]
           U == {New(i) : i \in Range(d)}
           r == findNewOrders(d, existing)
<1>1. PICK T : d \in Seq(T) /\ \A i \in T : IsIntent(i)
    BY DEF Intents
<1>2. \A i \in Range(d) : IsIntent(i)
    BY <1>1 DEF Range
<1>3. missing \in Seq(Range(d)) /\ Len(missing) \in Nat /\ DOMAIN missing = 1 .. Len(missing)
    <2>1. Picks(missing, d, short)
        BY <1>1, AmongPicks
    <2>2. Range(d) \cap short \subseteq Range(d)
        OBVIOUS
    <2> HIDE DEF short, missing
    <2>3. missing \in Seq(Range(d))
        BY <2>1, <2>2 DEF Picks
    <2> QED
        BY <2>3
<1>4. r = [k \in 1 .. Len(missing) |-> [missing[k] EXCEPT !.size = Deficit(existing, missing[k])]]
    BY <1>3 DEF findNewOrders
<1> HIDE DEF short, missing, r
<1>5. \A k \in 1 .. Len(missing) : missing[k] \in Range(d)
    BY <1>3
<1>6. ASSUME NEW k \in 1 .. Len(missing)
      PROVE  r[k] = New(missing[k])
    <2>1. IsIntent(missing[k])
        BY <1>2, <1>5
    <2>2. missing[k] = [side |-> missing[k].side, price |-> missing[k].price, size |-> missing[k].size]
        BY <2>1 DEF IsIntent
    <2>3. r[k] = [missing[k] EXCEPT !.size = Deficit(existing, missing[k])]
        BY <1>4
    <2> QED
        BY <2>2, <2>3
<1>7. r \in [1 .. Len(missing) -> U]
    <2>1. DOMAIN r = 1 .. Len(missing) /\ r = [k \in 1 .. Len(missing) |-> r[k]]
        BY <1>4
    <2>2. \A k \in 1 .. Len(missing) : r[k] \in U
        BY <1>5, <1>6
    <2> HIDE DEF U
    <2> QED
        BY <2>1, <2>2
<1>8. \A i \in Range(d) : IsIntent(New(i)) /\ New(i).side = i.side /\ New(i).price = i.price
    BY <1>2 DEF IsIntent
<1>9. \A u \in U : IsIntent(u)
    BY <1>8
<1> HIDE DEF U, New
<1>10. r \in Seq(U) /\ Len(r) = Len(missing)
    BY <1>3, <1>7, FunctionIsSeq
<1>11. Intents(r)
    BY <1>9, <1>10 DEF Intents
<1>12. ASSUME NEW k \in 1 .. Len(r)
       PROVE  SameLevel(r[k], Range(d))
    BY <1>5, <1>6, <1>8, <1>10 DEF SameLevel
<1> QED
    BY <1>11, <1>12 DEF r

\* An order that is kept is no better than the grid on its side, and short of the other.
LEMMA KeptIsNotStale ==
    ASSUME NEW s, NEW d, NEW o \in Range(s), o.id \notin findStaleOrders(s, d).cancels
    PROVE  /\ o.side = "buy" =>
                 /\ \E p \in PricesOf(d, "buy") : o.price <= p
                 /\ \A p \in PricesOf(d, "sell") : ~(p <= o.price)
           /\ o.side = "sell" =>
                 /\ \E p \in PricesOf(d, "sell") : o.price >= p
                 /\ \A p \in PricesOf(d, "buy") : ~(p >= o.price)
<1>1. ~Stale(o, d)
    <2>1. {x.id : x \in {y \in Range(s) : Stale(y, d)}} \subseteq findStaleOrders(s, d).cancels
        BY DEF findStaleOrders
    <2> QED
        BY <2>1
<1>2. ~WouldSelfMatch(o, d)
    BY <1>1 DEF Stale
<1>3. ASSUME o.side = "buy"
      PROVE  /\ \E p \in PricesOf(d, "buy") : o.price <= p
             /\ \A p \in PricesOf(d, "sell") : ~(p <= o.price)
    BY <1>2, <1>3 DEF WouldSelfMatch, Opposite
<1>4. ASSUME o.side = "sell"
      PROVE  /\ \E p \in PricesOf(d, "sell") : o.price >= p
             /\ \A p \in PricesOf(d, "buy") : ~(p >= o.price)
    BY <1>2, <1>4 DEF WouldSelfMatch, Opposite
<1> QED
    BY <1>3, <1>4

LEMMA PricesOfJoined ==
    ASSUME NEW T, NEW a \in Seq(T), NEW b \in Seq(T), NEW side, NEW p \in PricesOf(a \o b, side)
    PROVE  \/ \E k \in 1 .. Len(a) : a[k].side = side /\ a[k].price = p
           \/ \E k \in 1 .. Len(b) : b[k].side = side /\ b[k].price = p
<1>1. a \o b \in Seq(T) /\ Len(a \o b) = Len(a) + Len(b) /\ Len(a) \in Nat /\ Len(b) \in Nat
    OBVIOUS
<1>2. PICK i \in 1 .. Len(a \o b) : (a \o b)[i].side = side /\ (a \o b)[i].price = p
    <2> DEFINE c == a \o b
    <2> HIDE DEF c
    <2>1. c \in Seq(T) /\ p \in PricesOf(c, side)
        BY <1>1 DEF c
    <2>2. PricesOf(c, side) = {c[i].price : i \in {k \in 1 .. Len(c) : c[k].side = side}}
        BY <2>1, PricesAt
    <2> QED
        BY <2>1, <2>2 DEF c
<1>3. CASE i <= Len(a)
    <2>1. i \in 1 .. Len(a) /\ (a \o b)[i] = a[i]
        BY <1>1, <1>3
    <2> QED
        BY <1>2, <2>1
<1>4. CASE ~(i <= Len(a))
    <2>1. i - Len(a) \in 1 .. Len(b) /\ i \in 1 .. Len(a) + Len(b)
        BY <1>1, <1>4
    <2>2. (a \o b)[i] = b[i - Len(a)]
        BY <1>1, <1>4, <2>1
    <2> QED
        BY <1>2, <2>1, <2>2
<1> QED
    BY <1>3, <1>4

\* A diff that cancels what a plan cancels and creates what it creates, or nothing,
\* leaves nothing to match with itself.
LEMMA PlanIsOpen ==
    ASSUME NEW s, Orders(s), NEW d, Intents(d), ~Locks(d), NEW diff,
           diff.cancels = findStaleOrders(s, d).cancels,
           NEW existing, diff.creates = findNewOrders(d, existing) \/ diff.creates = <<>>
    PROVE  ~Locks(After(s, diff) \o diff.creates)
<1> DEFINE S == {o \in Range(s) : o.id \notin diff.cancels}
           kept == After(s, diff)
           new == diff.creates
<1>1. Orders(kept) /\ \A k \in 1 .. Len(kept) : SameLevel(kept[k], S)
    BY KeptAt
<1>2. Intents(new) /\ \A k \in 1 .. Len(new) : SameLevel(new[k], Range(d))
    <2>1. CASE new = findNewOrders(d, existing)
        BY <2>1, NewAt
    <2>2. CASE new = <<>>
        <3>1. 1 .. Len(new) = {}
            BY <2>2
        <3> QED
            BY <2>2, <3>1, NoIntents
    <2> QED
        BY <2>1, <2>2
<1>3. PICK T : kept \in Seq(T) /\ \A o \in T : IsOrder(o)
    BY <1>1 DEF Orders
<1>4. PICK U : new \in Seq(U) /\ \A i \in U : IsIntent(i)
    BY <1>2 DEF Intents
<1>5. /\ \A p \in PricesOf(d, "buy"), q \in PricesOf(d, "sell") : p < q
      /\ PricesOf(d, "buy") \subseteq Int /\ PricesOf(d, "sell") \subseteq Int
    <2>1. PICK V : d \in Seq(V) /\ \A i \in V : IsIntent(i)
        BY DEF Intents
    <2>2. \A i \in Range(d) : i.price \in Int
        BY <2>1 DEF Range, IsIntent
    <2>3. PricesOf(d, "buy") \subseteq Int /\ PricesOf(d, "sell") \subseteq Int
        BY <2>2 DEF PricesOf
    <2> QED
        BY <2>3 DEF Locks
<1>6. \A o \in S : o.price \in Int
    <2>1. PICK V : s \in Seq(V) /\ \A o \in V : IsOrder(o)
        BY DEF Orders
    <2> QED
        BY <2>1 DEF Range, IsOrder
<1> DEFINE At(side, p) == \/ \E o \in S : o.side = side /\ o.price = p
                          \/ p \in PricesOf(d, side)
<1>7. ASSUME NEW side, NEW p \in PricesOf(kept \o new, side)
      PROVE  At(side, p)
    <2>1. kept \in Seq(T \cup U) /\ new \in Seq(T \cup U)
        BY <1>3, <1>4
    <2>2. \/ \E k \in 1 .. Len(kept) : kept[k].side = side /\ kept[k].price = p
          \/ \E k \in 1 .. Len(new) : new[k].side = side /\ new[k].price = p
        <3> HIDE DEF kept, new
        <3> QED
            BY <2>1, PricesOfJoined
    <2> HIDE DEF kept, new, S
    <2>3. ASSUME NEW k \in 1 .. Len(kept), kept[k].side = side, kept[k].price = p
          PROVE  \E o \in S : o.side = side /\ o.price = p
        BY <1>1, <2>3 DEF SameLevel
    <2>4. ASSUME NEW k \in 1 .. Len(new), new[k].side = side, new[k].price = p
          PROVE  p \in PricesOf(d, side)
        BY <1>2, <2>4 DEF SameLevel, PricesOf
    <2> QED
        BY <2>2, <2>3, <2>4
<1>8. ASSUME NEW o \in S
      PROVE  /\ o.side = "buy" =>
                   /\ \E p \in PricesOf(d, "buy") : o.price <= p
                   /\ \A p \in PricesOf(d, "sell") : ~(p <= o.price)
             /\ o.side = "sell" =>
                   /\ \E p \in PricesOf(d, "sell") : o.price >= p
                   /\ \A p \in PricesOf(d, "buy") : ~(p >= o.price)
    <2>1. o \in Range(s) /\ o.id \notin findStaleOrders(s, d).cancels
        OBVIOUS
    <2> QED
        BY <2>1, KeptIsNotStale
<1> HIDE DEF S
<1>9. ASSUME NEW p, NEW q, At("buy", p), At("sell", q)
      PROVE  ~(p >= q)
    <2>1. p \in Int /\ q \in Int
        BY <1>5, <1>6, <1>9
    <2>2. CASE p \in PricesOf(d, "buy") /\ q \in PricesOf(d, "sell")
        BY <1>5, <2>1, <2>2
    <2>3. ASSUME NEW o \in S, o.side = "buy", o.price = p, q \in PricesOf(d, "sell")
          PROVE  ~(p >= q)
        BY <1>8, <2>1, <2>3
    <2>4. ASSUME NEW o \in S, o.side = "sell", o.price = q, p \in PricesOf(d, "buy")
          PROVE  ~(p >= q)
        BY <1>8, <2>1, <2>4
    <2>5. ASSUME NEW o \in S, o.side = "buy", o.price = p, NEW x \in S, x.side = "sell", x.price = q
          PROVE  ~(p >= q)
        <3>1. PICK b \in PricesOf(d, "buy") : p <= b
            BY <1>8, <2>5
        <3>2. ~(b >= q) /\ b \in Int
            BY <1>5, <1>8, <2>5, <3>1
        <3> QED
            BY <2>1, <3>1, <3>2
    <2> QED
        BY <1>9, <2>2, <2>3, <2>4, <2>5
<1> HIDE DEF At
<1> QED
    BY <1>7, <1>9 DEF Locks

LEMMA OrdersHold ==
    ASSUME NEW s, Orders(s)
    PROVE  /\ Len(s) \in Nat /\ DOMAIN s = 1 .. Len(s)
           /\ s \in Seq(Range(s))
           /\ \A k \in 1 .. Len(s) : s[k] \in Range(s)
           /\ \A o \in Range(s) : IsOrder(o)
<1>1. PICK T : s \in Seq(T) /\ \A o \in T : IsOrder(o)
    BY DEF Orders
<1>2. Len(s) \in Nat /\ DOMAIN s = 1 .. Len(s)
    BY <1>1
<1>3. \A k \in 1 .. Len(s) : s[k] \in Range(s) /\ s[k] \in T
    BY <1>1, <1>2 DEF Range
<1>4. \A o \in Range(s) : IsOrder(o)
    BY <1>1, <1>2, <1>3 DEF Range
<1>5. s = [k \in 1 .. Len(s) |-> s[k]]
    BY <1>1
<1>6. s \in [1 .. Len(s) -> Range(s)]
    BY <1>3, <1>5
<1>7. s \in Seq(Range(s))
    BY <1>2, <1>6, FunctionIsSeq
<1> QED
    BY <1>2, <1>3, <1>4, <1>7

LEMMA NoOrders == Orders(<<>>)
<1>1. PICK T : T = {}
    OBVIOUS
<1>2. <<>> \in Seq(T) /\ \A i \in T : IsOrder(i)
    BY <1>1
<1> QED
    BY <1>2 DEF Orders

LEMMA OrdersJoined ==
    ASSUME NEW a, Orders(a), NEW b, Orders(b)
    PROVE  Orders(a \o b)
<1>1. PICK T : a \in Seq(T) /\ \A o \in T : IsOrder(o)
    BY DEF Orders
<1>2. PICK U : b \in Seq(U) /\ \A o \in U : IsOrder(o)
    BY DEF Orders
<1>3. a \in Seq(T \cup U) /\ b \in Seq(T \cup U)
    BY <1>1, <1>2
<1>4. a \o b \in Seq(T \cup U) /\ \A o \in T \cup U : IsOrder(o)
    BY <1>1, <1>2, <1>3
<1> QED
    BY <1>4 DEF Orders

LEMMA AmongOrders ==
    ASSUME NEW s, Orders(s), NEW S
    PROVE  /\ Orders(Among(s, S))
           /\ Among(s, S) \in Seq(Range(s) \cap S)
<1>1. s \in Seq(Range(s)) /\ \A o \in Range(s) : IsOrder(o)
    BY OrdersHold
<1>2. Among(s, S) \in Seq(Range(s) \cap S)
    BY <1>1, AmongPicks DEF Picks
<1>3. \A o \in Range(s) \cap S : IsOrder(o)
    BY <1>1
<1> QED
    BY <1>2, <1>3 DEF Orders

\* The members of a function on an interval are orders, so it is a book.
LEMMA OrdersListed ==
    ASSUME NEW n \in Nat, NEW f, f = [k \in 1 .. n |-> f[k]], \A k \in 1 .. n : IsOrder(f[k])
    PROVE  Orders(f)
<1> DEFINE U == {f[k] : k \in 1 .. n}
<1>1. \A k \in 1 .. n : f[k] \in U
    OBVIOUS
<1>2. \A u \in U : IsOrder(u)
    OBVIOUS
<1> HIDE DEF U
<1>3. f \in [1 .. n -> U]
    BY <1>1
<1>4. f \in Seq(U)
    BY <1>3, FunctionIsSeq
<1> QED
    BY <1>2, <1>4 DEF Orders

LEMMA CreatedOrders ==
    ASSUME NEW m, NEW diff, Intents(diff.creates)
    PROVE  Orders(Created(m, diff))
<1> DEFINE c == diff.creates
           f == Created(m, diff)
<1>1. PICK T : c \in Seq(T) /\ \A i \in T : IsIntent(i)
    BY DEF Intents
<1>2. Len(c) \in Nat /\ DOMAIN c = 1 .. Len(c) /\ \A k \in 1 .. Len(c) : c[k].price \in Int
    BY <1>1 DEF IsIntent
<1>3. PICK ids : f = [k \in 1 .. Len(c) |->
                        [id |-> ids[k], side |-> c[k].side, price |-> c[k].price, size |-> c[k].size]]
    BY <1>2 DEF Created
<1> HIDE DEF f, c
<1>4. \A k \in 1 .. Len(c) : IsOrder(f[k])
    BY <1>2, <1>3 DEF IsOrder
<1>5. f = [k \in 1 .. Len(c) |-> f[k]]
    BY <1>3
<1> QED
    BY <1>2, <1>4, <1>5, OrdersListed DEF f

LEMMA LandedOrders ==
    ASSUME NEW m, NEW s, Orders(s), NEW diff, Intents(diff.creates)
    PROVE  Orders(After(s, diff) \o Created(m, diff))
BY KeptAt, CreatedOrders, OrdersJoined

\* Events, and the logs of transactions.
IsEvent(e) ==
    /\ e.type \in {"removed", "updated", "added"}
    /\ IsOrder(e.order)

Events(s) == \E E : s \in Seq(E) /\ \A e \in E : IsEvent(e)

Logged(l) == \E E : l \in Seq(Seq(E)) /\ \A e \in E : IsEvent(e)

LEMMA EventsListed ==
    ASSUME NEW type \in {"removed", "updated", "added"}, NEW s, Orders(s),
           NEW f, f = [k \in DOMAIN s |-> f[k]],
           \A k \in DOMAIN s : \E o : IsOrder(o) /\ f[k] = Event(type, o)
    PROVE  Events(f)
<1> DEFINE n == Len(s)
           U == {f[k] : k \in 1 .. n}
<1>1. n \in Nat /\ DOMAIN s = 1 .. n
    BY OrdersHold
<1>2. \A k \in 1 .. n : IsEvent(f[k])
    BY <1>1 DEF IsEvent, Event
<1>3. \A k \in 1 .. n : f[k] \in U
    OBVIOUS
<1>4. \A u \in U : IsEvent(u)
    BY <1>2
<1> HIDE DEF U, n
<1>5. f \in [1 .. n -> U]
    BY <1>1, <1>3
<1>6. f \in Seq(U)
    BY <1>1, <1>5, FunctionIsSeq
<1> QED
    BY <1>4, <1>6 DEF Events

LEMMA EventsJoined ==
    ASSUME NEW a, Events(a), NEW b, Events(b)
    PROVE  Events(a \o b)
<1>1. PICK T : a \in Seq(T) /\ \A o \in T : IsEvent(o)
    BY DEF Events
<1>2. PICK U : b \in Seq(U) /\ \A o \in U : IsEvent(o)
    BY DEF Events
<1>3. a \in Seq(T \cup U) /\ b \in Seq(T \cup U)
    BY <1>1, <1>2
<1>4. a \o b \in Seq(T \cup U) /\ \A o \in T \cup U : IsEvent(o)
    BY <1>1, <1>2, <1>3
<1> QED
    BY <1>4 DEF Events

LEMMA EventsOfDiff ==
    ASSUME NEW s, Orders(s), NEW diff, NEW created, Orders(created)
    PROVE  Events(EventsOf(s, diff, created))
<1> DEFINE gone == Among(s, {o \in Range(s) : o.id \in diff.cancels})
           less == Among(s, {o \in Range(s) : o.id \in {r.id : r \in diff.reduces}})
           a == [i \in DOMAIN gone |-> Event("removed", gone[i])]
           b == [i \in DOMAIN less |-> Event("updated", Reduced(less[i], diff.reduces))]
           c == [i \in DOMAIN created |-> Event("added", created[i])]
<1>1. EventsOf(s, diff, created) = a \o b \o c
    BY DEF EventsOf
<1>2. Orders(gone) /\ Orders(less)
    BY AmongOrders
<1> HIDE DEF gone, less
<1>3. /\ \A i \in DOMAIN gone : IsOrder(gone[i])
      /\ \A i \in DOMAIN less : IsOrder(less[i])
      /\ \A i \in DOMAIN created : IsOrder(created[i])
    BY <1>2, OrdersHold
<1>4. PICK type \in {"removed", "updated", "added"} : type = "removed"
    OBVIOUS
<1>5. Events(a)
    BY <1>2, <1>3, <1>4, EventsListed
<1>6. PICK update \in {"removed", "updated", "added"} : update = "updated"
    OBVIOUS
<1>7. Events(b)
    BY <1>2, <1>3, <1>6, EventsListed, ReducedIsOrder
<1>8. PICK add \in {"removed", "updated", "added"} : add = "added"
    OBVIOUS
<1>9. Events(c)
    BY <1>3, <1>8, EventsListed
<1> HIDE DEF a, b, c
<1> QED
    BY <1>1, <1>5, <1>7, <1>9, EventsJoined

LEMMA EventsAppended ==
    ASSUME NEW l, Logged(l), NEW events, Events(events)
    PROVE  Logged(Append(l, events))
<1>1. PICK T : l \in Seq(Seq(T)) /\ \A o \in T : IsEvent(o)
    BY DEF Logged
<1>2. PICK U : events \in Seq(U) /\ \A o \in U : IsEvent(o)
    BY DEF Events
<1> DEFINE V == T \cup U
<1>3. Seq(T) \subseteq Seq(V) /\ events \in Seq(V)
    BY <1>2
<1>4. l \in Seq(Seq(V))
    <2> DEFINE A == Seq(T)
               B == Seq(V)
    <2>1. A \subseteq B /\ l \in Seq(A)
        BY <1>1, <1>3
    <2> HIDE DEF A, B
    <2>2. l \in Seq(B)
        BY <2>1
    <2> QED
        BY <2>2 DEF B
<1>5. Append(l, events) \in Seq(Seq(V))
    BY <1>3, <1>4
<1>6. \A e \in V : IsEvent(e)
    BY <1>1, <1>2
<1> HIDE DEF V
<1> QED
    BY <1>5, <1>6 DEF Logged

LEMMA NoLogs == Logged(<<>>)
<1>1. PICK T : T = {}
    OBVIOUS
<1>2. <<>> \in Seq(Seq(T)) /\ \A i \in T : IsEvent(i)
    BY <1>1
<1> QED
    BY <1>2 DEF Logged

LEMMA LogsTaken ==
    ASSUME NEW l, Logged(l), l # <<>>
    PROVE  Logged(Tail(l)) /\ Events(Head(l))
<1>1. PICK T : l \in Seq(Seq(T)) /\ \A o \in T : IsEvent(o)
    BY DEF Logged
<1>2. Tail(l) \in Seq(Seq(T)) /\ Head(l) \in Seq(T)
    BY <1>1
<1> QED
    BY <1>1, <1>2 DEF Logged, Events

\* What a market passes on to its mirror are events too.
LEMMA RoutedEvents ==
    ASSUME NEW m, NEW events, Events(events)
    PROVE  Events(Routed(m, events))
<1> DEFINE S == {e \in Range(events) : e.type = "added" \/ e.order.id \in IdsOf(cache[m])}
           mine == Among(events, S)
           f == [i \in DOMAIN mine |->
                    IF mine[i].type = "updated" THEN Event("added", mine[i].order) ELSE mine[i]]
<1>1. Routed(m, events) = IF m \in Cached THEN f ELSE events
    BY DEF Routed
<1>2. PICK E : events \in Seq(E) /\ \A e \in E : IsEvent(e)
    BY DEF Events
<1>3. mine \in Seq(Range(events) \cap S) /\ Range(events) \subseteq E
    <2>1. Range(events) \subseteq E
        BY <1>2 DEF Range
    <2> HIDE DEF S
    <2>2. Picks(mine, events, S)
        BY <1>2, AmongPicks
    <2> QED
        BY <2>1, <2>2 DEF Picks
<1> HIDE DEF S, mine
<1>4. /\ Len(mine) \in Nat /\ DOMAIN mine = 1 .. Len(mine)
      /\ \A i \in 1 .. Len(mine) : IsEvent(mine[i])
    BY <1>2, <1>3
<1>5. \A i \in 1 .. Len(mine) : IsEvent(f[i])
    BY <1>4 DEF IsEvent, Event
<1> DEFINE U == {f[i] : i \in 1 .. Len(mine)}
<1>6. (\A i \in 1 .. Len(mine) : f[i] \in U) /\ (\A u \in U : IsEvent(u))
    BY <1>5
<1>7. f = [i \in 1 .. Len(mine) |-> f[i]]
    BY <1>4
<1> HIDE DEF f, U
<1>8. f \in [1 .. Len(mine) -> U]
    BY <1>6, <1>7
<1>9. f \in Seq(U)
    BY <1>4, <1>8, FunctionIsSeq
<1>10. Events(f)
    BY <1>6, <1>9 DEF Events
<1> QED
    BY <1>1, <1>10

\* The orders that a mirror and some events name, with the sizes they name.
Told(s, events) == Range(s) \cup {e.order : e \in Range(events)}

Resized(o, x) == [id |-> o.id, side |-> o.side, price |-> o.price, size |-> x.size]

Known(s, events) == {Resized(o, x) : o \in Told(s, events), x \in Told(s, events)}

LEMMA KnownOrders ==
    ASSUME NEW s, Orders(s), NEW events, Events(events)
    PROVE  /\ s \in Seq(Known(s, events))
           /\ \A o \in Known(s, events) : IsOrder(o)
           /\ \A k \in DOMAIN events : IsEvent(events[k]) /\ events[k].order \in Known(s, events)
           /\ Len(events) \in Nat /\ DOMAIN events = 1 .. Len(events)
           /\ \A o \in Known(s, events), x \in Known(s, events) :
                 [o EXCEPT !.size = x.size] \in Known(s, events)
<1> DEFINE told == Told(s, events)
           K == Known(s, events)
<1>1. PICK E : events \in Seq(E) /\ \A e \in E : IsEvent(e)
    BY DEF Events
<1>2. /\ Len(events) \in Nat /\ DOMAIN events = 1 .. Len(events)
      /\ \A k \in DOMAIN events : IsEvent(events[k]) /\ events[k].order \in told
    BY <1>1 DEF Range, Told
<1>3. \A o \in told : IsOrder(o)
    <2>1. \A e \in Range(events) : IsOrder(e.order)
        BY <1>1 DEF Range, IsEvent
    <2> QED
        BY <2>1, OrdersHold DEF Told
<1>4. /\ \A o, x \in told : Resized(o, x) \in K
      /\ \A y \in K : \E o, x \in told : y = Resized(o, x)
    BY DEF Known
<1>5. \A o \in told : o \in K
    <2> SUFFICES ASSUME NEW o \in told PROVE o \in K
        OBVIOUS
    <2>1. o = Resized(o, o)
        BY <1>3 DEF IsOrder, Resized
    <2> HIDE DEF K
    <2> QED
        BY <1>4, <2>1
<1>6. s \in Seq(K)
    <2>1. s \in Seq(Range(s)) /\ Range(s) \subseteq K
        BY <1>5, OrdersHold DEF Told
    <2> HIDE DEF K
    <2> QED
        BY <2>1
<1> HIDE DEF told, K
<1>7. \A o \in K : IsOrder(o)
    <2> SUFFICES ASSUME NEW o \in told, NEW x \in told PROVE IsOrder(Resized(o, x))
        BY <1>4
    <2>1. o.price \in Int
        BY <1>3 DEF IsOrder
    <2> QED
        BY <2>1 DEF IsOrder, Resized
<1>8. ASSUME NEW o \in K, NEW x \in K
      PROVE  [o EXCEPT !.size = x.size] \in K
    <2>1. PICK a \in told, b \in told : o = Resized(a, b)
        BY <1>4
    <2>2. PICK c \in told, d \in told : x = Resized(c, d)
        BY <1>4
    <2>3. [o EXCEPT !.size = x.size] = Resized(a, d)
        BY <2>1, <2>2 DEF Resized
    <2> QED
        BY <1>4, <2>3
<1> QED
    BY <1>2, <1>5, <1>6, <1>7, <1>8 DEF K

LEMMA NotedStays ==
    ASSUME NEW s, Orders(s), NEW events, Events(events),
           NEW mine \in Seq(Known(s, events)), NEW k \in DOMAIN events
    PROVE  Noted(mine, events[k]) \in Seq(Known(s, events))
<1> DEFINE K == Known(s, events)
           e == events[k]
           n == Len(mine)
<1>1. /\ e.type \in {"removed", "updated", "added"} /\ e.order \in K
      /\ \A o \in K, x \in K : [o EXCEPT !.size = x.size] \in K
    BY KnownOrders DEF IsEvent
<1>2. n \in Nat /\ DOMAIN mine = 1 .. n /\ \A i \in 1 .. n : mine[i] \in K
    OBVIOUS
<1> HIDE DEF K, e
<1>3. CASE e.type = "removed"
    <2> DEFINE S == {o \in Range(mine) : o.id \notin {e.order.id}}
    <2>1. Noted(mine, e) = Among(mine, S)
        BY <1>3 DEF Noted, Without
    <2>2. Among(mine, S) \in Seq(Range(mine) \cap S)
        BY AmongPicks DEF Picks, K
    <2>3. Range(mine) \subseteq K
        BY <1>2 DEF Range
    <2> HIDE DEF S
    <2>4. Range(mine) \cap S \subseteq K
        BY <2>3
    <2> QED
        BY <2>1, <2>2, <2>4 DEF K, e
<1>4. CASE e.type = "updated"
    <2> DEFINE f == [i \in 1 .. n |-> IF mine[i].id = e.order.id
                                      THEN [mine[i] EXCEPT !.size = e.order.size] ELSE mine[i]]
    <2>1. Noted(mine, e) = f
        BY <1>2, <1>4 DEF Noted
    <2>2. \A i \in 1 .. n : f[i] \in K
        BY <1>1, <1>2
    <2>3. f \in [1 .. n -> K]
        BY <2>2
    <2> HIDE DEF f, n
    <2>4. f \in Seq(K)
        BY <1>2, <2>3, FunctionIsSeq
    <2> QED
        BY <2>1, <2>4 DEF K, e
<1>5. CASE e.type = "added"
    <2> DEFINE f == [i \in 1 .. n |-> IF mine[i].id = e.order.id THEN e.order ELSE mine[i]]
    <2>1. Noted(mine, e) = IF e.order.id \in IdsOf(mine) THEN f ELSE Append(mine, e.order)
        BY <1>2, <1>5 DEF Noted
    <2>2. f \in [1 .. n -> K]
        BY <1>1, <1>2
    <2>3. Append(mine, e.order) \in Seq(K)
        BY <1>1 DEF K
    <2> HIDE DEF f, n
    <2>4. f \in Seq(K)
        BY <1>2, <2>2, FunctionIsSeq
    <2> QED
        BY <2>1, <2>3, <2>4 DEF K, e
<1> QED
    BY <1>1, <1>3, <1>4, <1>5

LEMMA HeardOrders ==
    ASSUME NEW s, Orders(s), NEW events, Events(events)
    PROVE  Orders(Heard(s, events))
<1> DEFINE n == Len(events)
           V == Seq(Known(s, events))
           noted(mine, k) == CHOOSE r \in {Noted(o, events[k]) : o \in {mine}} : TRUE
           takes == [k \in 1 .. n |-> [mine \in V |-> Noted(mine, events[k])]]
           pick == [T \in SUBSET (1 .. n) |-> Max(T)]
           Iterates(g) ==
              g = [T \in SUBSET (1 .. n) |->
                     IF T = {} THEN s ELSE noted(g[T \ {Max(T)}], Max(T))]
           g == CHOOSE g : Iterates(g)
<1>1. n \in Nat /\ DOMAIN events = 1 .. n /\ IsFiniteSet(1 .. n) /\ s \in V
    <2>1. n \in Nat /\ DOMAIN events = 1 .. n /\ s \in V
        BY KnownOrders
    <2> HIDE DEF n
    <2> QED
        BY <2>1, FS_Interval
<1>2. ASSUME NEW k, NEW mine
      PROVE  noted(mine, k) = Noted(mine, events[k])
    OBVIOUS
<1>3. ASSUME NEW k \in 1 .. n, NEW mine \in V
      PROVE  takes[k][mine] = noted(mine, k) /\ takes[k][mine] \in V
    <2>1. takes[k][mine] = Noted(mine, events[k])
        OBVIOUS
    <2> QED
        BY <1>1, <1>2, <2>1, NotedStays
<1>4. \A T \in SUBSET (1 .. n) :
          T # {} => /\ pick[T] = Max(T) /\ pick[T] \in T /\ pick[T] \in 1 .. n
                    /\ \A k \in T : k <= pick[T]
    <2> SUFFICES ASSUME NEW T \in SUBSET (1 .. n), T # {}
                 PROVE  Max(T) \in T /\ \A k \in T : k <= Max(T)
        OBVIOUS
    <2>1. T \subseteq Int /\ n \in Int /\ \A k \in T : k <= n
        BY <1>1
    <2> HIDE DEF n
    <2> QED
        BY <2>1, GreatestBelow
<1>5. Heard(s, events) = g[1 .. n]
    BY <1>1 DEF Heard, FoldLeft, MapThenFoldSet
<1> HIDE DEF n, V, takes, pick, noted
<1>6. Iterates(g)
    <2>1. PICK f : Folded(f, 1 .. n, V, s, takes, pick)
        <3>1. Foldable(1 .. n, V, s, takes, pick)
            BY <1>1, <1>3, <1>4 DEF Foldable
        <3> QED
            BY <3>1, FoldExists
    <2>2. \A T \in SUBSET (1 .. n) : T # {} => f[T] = noted(f[T \ {Max(T)}], Max(T))
        BY <1>3, <1>4, <2>1 DEF Folded
    <2>3. Iterates(f)
        BY <2>1, <2>2 DEF Folded
    <2> HIDE DEF Iterates
    <2> QED
        BY <2>3
<1> HIDE DEF g
<1>7. g[{}] = s
    BY <1>6
<1>8. ASSUME NEW T \in SUBSET (1 .. n), T # {}, g[T \ {pick[T]}] \in V
      PROVE  g[T] = takes[pick[T]][g[T \ {pick[T]}]]
    <2>1. pick[T] = Max(T) /\ pick[T] \in 1 .. n
        BY <1>4, <1>8
    <2>2. g[T] = noted(g[T \ {Max(T)}], Max(T))
        BY <1>6, <1>8
    <2> QED
        BY <1>3, <1>8, <2>1, <2>2
<1>9. InSteps([i \in 0 .. n |-> g[1 .. i]], n, V, s, takes)
    <2>1. FoldsWith(g, n, V, s, takes, pick)
        BY <1>3, <1>7, <1>8 DEF FoldsWith
    <2>2. PicksLast(pick, n)
        BY <1>4 DEF PicksLast
    <2> QED
        BY <1>1, <2>1, <2>2, FoldInOrder
<1>10. Heard(s, events) \in V
    <2>1. n \in 0 .. n
        BY <1>1
    <2> QED
        BY <1>5, <1>9, <2>1 DEF InSteps
<1> QED
    BY <1>10, KnownOrders DEF V, Orders

LEMMA FilledOrders ==
    ASSUME NEW s, Orders(s), NEW o \in Range(s), NEW left
    PROVE  /\ IsOrder([o EXCEPT !.size = left])
           /\ Orders(Without(s, {o.id}))
           /\ Orders([i \in DOMAIN s |-> IF s[i].id = o.id THEN [o EXCEPT !.size = left] ELSE s[i]])
<1> DEFINE filled == [o EXCEPT !.size = left]
           f == [i \in DOMAIN s |-> IF s[i].id = o.id THEN filled ELSE s[i]]
<1>1. /\ Len(s) \in Nat /\ DOMAIN s = 1 .. Len(s) /\ IsOrder(o)
      /\ \A k \in 1 .. Len(s) : IsOrder(s[k])
    BY OrdersHold
<1>2. IsOrder(filled)
    <2>1. filled = [id |-> o.id, side |-> o.side, price |-> o.price, size |-> left] /\ o.price \in Int
        BY <1>1 DEF IsOrder
    <2> HIDE DEF filled
    <2> QED
        BY <2>1 DEF IsOrder
<1>3. Orders(Without(s, {o.id}))
    BY AmongOrders DEF Without
<1> HIDE DEF filled
<1>4. Orders(f)
    <2>1. f = [k \in 1 .. Len(s) |-> f[k]] /\ \A k \in 1 .. Len(s) : IsOrder(f[k])
        BY <1>1, <1>2
    <2> HIDE DEF f
    <2> QED
        BY <1>1, <2>1, OrdersListed
<1> QED
    BY <1>2, <1>3, <1>4 DEF filled

LEMMA ListedOrders ==
    ASSUME NEW m \in Markets, Orders(book[m]), NEW ids, Orders(ids)
    PROVE  Orders(OrdersOf(m, ids))
<1> DEFINE there(o) == {x \in Range(book[m]) : x.id = o.id}
           now(o) == IF there(o) = {} THEN Gone(o.id) ELSE CHOOSE x \in there(o) : TRUE
           read == [i \in DOMAIN ids |-> now(ids[i])]
<1>1. OrdersOf(m, ids) =
        IF m \in Cached THEN Among(read, {o \in Range(read) : o.size > 0}) ELSE read
    BY DEF OrdersOf
<1>2. Len(ids) \in Nat /\ DOMAIN ids = 1 .. Len(ids) /\ \A x \in Range(book[m]) : IsOrder(x)
    BY OrdersHold
<1>3. \A o : IsOrder(now(o))
    <2> SUFFICES ASSUME NEW o PROVE IsOrder(now(o))
        OBVIOUS
    <2>1. IsOrder(Gone(o.id))
        BY DEF IsOrder, Gone
    <2>2. \A x \in there(o) : IsOrder(x)
        BY <1>2
    <2> HIDE DEF there
    <2> QED
        BY <2>1, <2>2
<1> HIDE DEF now
<1>4. Orders(read)
    <2>1. read = [k \in 1 .. Len(ids) |-> read[k]] /\ \A k \in 1 .. Len(ids) : IsOrder(read[k])
        BY <1>2, <1>3
    <2> HIDE DEF read
    <2> QED
        BY <1>2, <2>1, OrdersListed
<1> HIDE DEF read
<1> QED
    BY <1>1, <1>4, AmongOrders

\* A cache that takes in the orders read.
LEMMA MergedOrders ==
    ASSUME NEW s, Orders(s), NEW read, Orders(read)
    PROVE  Orders(Heard(s, [i \in DOMAIN read |-> Event("added", read[i])]))
<1> DEFINE c == [i \in DOMAIN read |-> Event("added", read[i])]
<1>1. \A i \in DOMAIN read : IsOrder(read[i])
    BY OrdersHold
<1>2. PICK add \in {"removed", "updated", "added"} : add = "added"
    OBVIOUS
<1>3. Events(c)
    BY <1>1, <1>2, EventsListed
<1> HIDE DEF c
<1>4. Orders(Heard(s, c))
    BY <1>3, HeardOrders
<1> QED
    BY <1>4 DEF c

--------------------------------------------------------------------------------
(* What the loop keeps: every price of an own order, an event or an intent *)
(* is a number, and every quote is one of Quotes.                          *)

IsDiff(d) ==
    /\ d = [cancels |-> d.cancels, reduces |-> d.reduces, creates |-> d.creates]
    /\ Intents(d.creates)

QuotesTyped == fair \in [Markets -> Quotes] /\ quote \in [Markets -> Quotes]

BooksTyped ==
    /\ DOMAIN book = Markets /\ DOMAIN own = Markets /\ DOMAIN cache = Markets
    /\ \A m \in Markets : Orders(book[m]) /\ Orders(own[m]) /\ Orders(cache[m])
    /\ Orders(answer)

LogsTyped == DOMAIN logs = Markets /\ \A m \in Markets : Logged(logs[m])

DiffsTyped ==
    /\ \A m \in Markets : IsDiff(batch[m])
    /\ \A m \in Markets \cap DOMAIN late : IsDiff(late[m])

\* The orders of a market of this scenario are read.
ListTyped == phase \in {"list", "apply"} => Head(todo) \in Markets

LoopTyped == QuotesTyped /\ BooksTyped /\ LogsTyped /\ DiffsTyped /\ ListTyped

\* No quote asks for less than nothing: with an ask below zero the remainder rounds
\* it a tick too far, two levels may meet, and only one of them is opened.
AsksAboveZero == \A q \in Quotes : q.ask \in Nat

LEMMA QuotesAreSound ==
    ASSUME AsksAboveZero, NEW q \in Quotes
    PROVE  Sound(q)
BY Quoted DEF AsksAboveZero, Sound

LEMMA EmptyDiff ==
    /\ IsDiff(NoDiff)
    /\ \A allow \in BOOLEAN : Placed(NoDiff, allow) = NoDiff
<1>1. IsDiff(NoDiff)
    BY NoIntents DEF IsDiff, NoDiff
<1>2. ASSUME NEW allow \in BOOLEAN PROVE Placed(NoDiff, allow) = NoDiff
    BY DEF Placed, NoDiff
<1> QED
    BY <1>1, <1>2

LEMMA PlacedIsDiff ==
    ASSUME NEW d, IsDiff(d), NEW allow
    PROVE  /\ IsDiff(Placed(d, allow))
           /\ Placed(d, allow).cancels = d.cancels
           /\ Placed(d, allow).creates = d.creates \/ Placed(d, allow).creates = <<>>
<1>1. CASE allow
    BY <1>1 DEF Placed
<1>2. CASE ~allow
    <2>1. Placed(d, allow) = [cancels |-> d.cancels, reduces |-> d.reduces, creates |-> <<>>]
        BY <1>2 DEF Placed, IsDiff
    <2> QED
        BY <2>1, NoIntents DEF IsDiff
<1> QED
    BY <1>1, <1>2

LEMMA PlanIsDiff ==
    ASSUME AsksAboveZero, LoopTyped, NEW m \in Markets
    PROVE  /\ IsDiff(plan(m))
           /\ \/ plan(m) = NoDiff
              \/ plan(m) = planDiff(own[m], computeQuotes(quote[m]))
<1> DEFINE desired == computeQuotes(quote[m])
           p == planDiff(own[m], desired)
<1>1. plan(m) = NoDiff \/ plan(m) = p
    BY DEF plan
<1>2. Intents(desired)
    <2>1. quote[m] \in Quotes
        BY DEF LoopTyped, QuotesTyped
    <2>2. Sound(quote[m])
        BY <2>1, QuotesAreSound
    <2> QED
        BY <2>2, GridIsOpen
<1>3. IsDiff(p)
    <2> HIDE DEF desired
    <2>1. p = [cancels |-> p.cancels, reduces |-> p.reduces, creates |-> p.creates]
        BY DEF planDiff
    <2>2. Intents(p.creates)
        BY <1>2, NewAt DEF planDiff
    <2> QED
        BY <2>1, <2>2 DEF IsDiff
<1> QED
    BY <1>1, <1>3, EmptyDiff

LEMMA BatchLands ==
    ASSUME BooksTyped, LogsTyped, NEW diffs,
           \A m \in Markets \cap DOMAIN diffs : IsDiff(diffs[m]),
           Lands(diffs), UNCHANGED <<scenario, cache, own, answer>>
    PROVE  BooksTyped' /\ LogsTyped'
<1> DEFINE touched == {m \in DOMAIN diffs : diffs[m] # NoDiff}
           rests(m) == After(book[m], diffs[m]) \o Created(m, diffs[m])
           told(m) == EventsOf(book[m], diffs[m], Created(m, diffs[m]))
<1>1. Markets' = Markets
    BY DEF Markets
<1>2. CASE \E m \in touched : Refused(book[m], diffs[m])
    <2>1. UNCHANGED <<book, logs>>
        BY <1>2 DEF Lands
    <2> QED
        BY <1>1, <2>1 DEF BooksTyped, LogsTyped
<1>3. CASE ~\E m \in touched : Refused(book[m], diffs[m])
    <2>1. /\ book' = [m \in Markets |-> IF m \in touched THEN rests(m) ELSE book[m]]
          /\ logs' = [m \in Markets |-> IF m \in touched THEN Emit(m, told(m)) ELSE logs[m]]
        BY <1>3 DEF Lands
    <2>2. ASSUME NEW m \in Markets, m \in touched
          PROVE  Orders(rests(m)) /\ Logged(Emit(m, told(m)))
        <3>1. Orders(book[m]) /\ Intents(diffs[m].creates) /\ Logged(logs[m])
            BY <2>2 DEF BooksTyped, LogsTyped, IsDiff
        <3>2. Orders(rests(m)) /\ Orders(Created(m, diffs[m]))
            BY <3>1, LandedOrders, CreatedOrders
        <3>3. Events(told(m))
            BY <3>1, <3>2, EventsOfDiff
        <3> HIDE DEF told
        <3>4. Logged(Emit(m, told(m)))
            BY <3>1, <3>3, EventsAppended DEF Emit
        <3> QED
            BY <3>2, <3>4
    <2> HIDE DEF touched, rests, told
    <2>3. DOMAIN book' = Markets /\ \A m \in Markets : Orders(book'[m])
        BY <2>1, <2>2 DEF BooksTyped
    <2>4. DOMAIN logs' = Markets /\ \A m \in Markets : Logged(logs'[m])
        BY <2>1, <2>2 DEF LogsTyped
    <2> QED
        BY <1>1, <2>3, <2>4 DEF BooksTyped, LogsTyped
<1> QED
    BY <1>2, <1>3

LEMMA InitTyped ==
    ASSUME LoopInit
    PROVE  LoopTyped
<1>1. QuotesTyped
    BY DEF LoopInit, QuotesTyped
<1>2. BooksTyped
    <2> DEFINE first == [id |-> 1, side |-> "buy", price |-> tick, size |-> 2]
    <2>1. tick \in Int
        BY Quotable
    <2>2. IsOrder(first)
        BY <2>1 DEF IsOrder
    <2> HIDE DEF first
    <2>3. Orders(<<first>>)
        <3>1. PICK T : T = {first}
            OBVIOUS
        <3>2. <<first>> \in Seq(T) /\ \A o \in T : IsOrder(o)
            BY <2>2, <3>1
        <3> QED
            BY <3>2 DEF Orders
    <2>4. book \in [Markets -> {<<>>, <<first>>}]
        BY DEF LoopInit, first
    <2>5. own = [m \in Markets |-> <<>>] /\ cache = [m \in Markets |-> <<>>] /\ answer = <<>>
        BY DEF LoopInit
    <2> QED
        BY <2>3, <2>4, <2>5, NoOrders DEF BooksTyped
<1>3. LogsTyped
    BY NoLogs DEF LoopInit, LogsTyped
<1>4. DiffsTyped
    <2>1. batch = [m \in Markets |-> NoDiff] /\ late = <<>>
        BY DEF LoopInit, NoBatch, NoLate
    <2>2. \A m \in Markets : batch[m] = NoDiff
        BY <2>1
    <2>3. \A m \in Markets \cap DOMAIN late : FALSE
        BY <2>1
    <2> QED
        BY <2>2, <2>3, EmptyDiff DEF DiffsTyped
<1>5. ListTyped
    BY DEF LoopInit, ListTyped
<1> QED
    BY <1>1, <1>2, <1>3, <1>4, <1>5 DEF LoopTyped

LEMMA SameTyped ==
    ASSUME UNCHANGED scenario
    PROVE  /\ Markets' = Markets
           /\ QuotesTyped /\ UNCHANGED <<fair, quote>> => QuotesTyped'
           /\ BooksTyped /\ UNCHANGED <<book, cache, own, answer>> => BooksTyped'
           /\ LogsTyped /\ UNCHANGED logs => LogsTyped'
           /\ DiffsTyped /\ UNCHANGED <<batch, late>> => DiffsTyped'
           /\ phase' \notin {"list", "apply"} => ListTyped'
           /\ ListTyped /\ UNCHANGED <<phase, todo>> => ListTyped'
<1>1. Markets' = Markets
    BY DEF Markets
<1> QED
    BY <1>1 DEF QuotesTyped, BooksTyped, LogsTyped, DiffsTyped, ListTyped

LEMMA OutcomeTyped ==
    ASSUME LoopTyped, NEW diffs, NEW venue, Outcome(diffs, venue),
           \A m \in Markets \cap DOMAIN diffs : IsDiff(diffs[m]),
           UNCHANGED <<cache, own, answer>>
    PROVE  /\ UNCHANGED scenario
           /\ BooksTyped' /\ LogsTyped'
           /\ \A m \in Markets \cap DOMAIN late' : IsDiff(late'[m])
<1>1. BooksTyped /\ LogsTyped /\ DiffsTyped
    BY DEF LoopTyped
<1>2. CASE Lands(diffs) /\ UNCHANGED <<late, scenario>>
    BY <1>1, <1>2, BatchLands DEF DiffsTyped
<1>3. CASE UNCHANGED <<book, logs, scenario>> /\ (late' = late \/ late' = diffs)
    <2>1. BooksTyped' /\ LogsTyped'
        BY <1>1, <1>3, SameTyped
    <2> QED
        BY <1>1, <1>3, <2>1 DEF DiffsTyped
<1>4. CASE Lands(diffs) /\ UNCHANGED scenario /\ late' = diffs
    BY <1>1, <1>4, BatchLands
<1> QED
    BY <1>2, <1>3, <1>4 DEF Outcome, Fault

LEMMA TickTyped ==
    ASSUME AsksAboveZero, LoopTyped, Tick
    PROVE  LoopTyped'
<1>1. QuotesTyped /\ BooksTyped /\ LogsTyped /\ DiffsTyped /\ ListTyped
    BY DEF LoopTyped
<1>2. CASE BeginTick
    <2>1. UNCHANGED <<scenario, outside, market, answer, batch>> /\ phase' = "update"
        BY <1>2 DEF BeginTick, Fault
    <2> QED
        BY <1>1, <2>1, SameTyped DEF LoopTyped, outside, market, knows
<1>a. ASSUME NEW m \in Markets,
             quote' = quote \/ quote' = Priced(m),
             UNCHANGED <<scenario, fair>>
      PROVE  QuotesTyped'
    BY <1>1, <1>a, SameTyped DEF QuotesTyped, Priced
\* An update that is over.
<1>b. ASSUME NEW m \in Markets, Updated, UNCHANGED cache,
             quote' = quote \/ quote' = Priced(m),
             \/ own' = own
             \/ phase = "apply" /\ m = Head(todo) /\ own' = [own EXCEPT ![m] = answer]
      PROVE  LoopTyped'
    <2>1. /\ UNCHANGED <<scenario, outside, cache, batch>> /\ answer' = <<>>
          /\ phase' \notin {"list", "apply"}
        BY <1>b DEF Updated
    <2>2. BooksTyped'
        BY <1>1, <1>b, <2>1, NoOrders, SameTyped DEF BooksTyped, outside
    <2>3. QuotesTyped'
        BY <1>a, <1>b, <2>1 DEF outside
    <2> QED
        BY <1>1, <2>1, <2>2, <2>3, SameTyped DEF LoopTyped, outside
<1>3. ASSUME NEW m \in Markets, SkipUpdate(m) \/ UpdateReads(m)
      PROVE  LoopTyped'
    <2>1. Updated /\ UNCHANGED <<cache, own>> /\ (quote' = quote \/ quote' = Priced(m))
        BY <1>3 DEF SkipUpdate, UpdateReads, Refreshes, knows
    <2> QED
        BY <1>b, <2>1
<1>4. ASSUME NEW m \in Markets, UpdateResyncs(m)
      PROVE  LoopTyped'
    <2>1. /\ UNCHANGED <<scenario, outside, own, batch, todo>>
          /\ quote' = Priced(m) /\ m = Head(todo)
          /\ \/ answer' = cache[m] /\ cache' = cache
             \/ answer' = book[m] /\ cache' = [cache EXCEPT ![m] = <<>>]
        BY <1>4 DEF UpdateResyncs, Refreshes, Updating
    <2>2. QuotesTyped'
        BY <1>a, <2>1 DEF outside
    <2>3. BooksTyped'
        BY <1>1, <2>1, NoOrders, SameTyped DEF BooksTyped, outside
    <2>4. ListTyped'
        BY <2>1, SameTyped DEF ListTyped
    <2> QED
        BY <1>1, <2>1, <2>2, <2>3, <2>4, SameTyped DEF LoopTyped, outside
<1>5. CASE ListOrders
    <2> DEFINE m == Head(todo)
               read == OrdersOf(m, answer)
               merged == Heard(cache[m], [i \in DOMAIN read |-> Event("added", read[i])])
    <2>1. /\ UNCHANGED <<scenario, outside, own, quote, batch, todo>>
          /\ phase = "list" /\ phase' = "apply"
          /\ \/ answer' = merged /\ cache' = [cache EXCEPT ![m] = answer']
             \/ answer' = read /\ cache' = cache
        BY <1>5 DEF ListOrders
    <2>2. m \in Markets
        BY <1>1, <2>1 DEF ListTyped
    <2>3. Orders(read)
        BY <1>1, <2>2, ListedOrders DEF BooksTyped
    <2>4. Orders(merged)
        <3> HIDE DEF read, m
        <3> QED
            BY <1>1, <2>2, <2>3, MergedOrders DEF BooksTyped
    <2> HIDE DEF read, merged
    <2>5. BooksTyped'
        <3> HIDE DEF m
        <3> QED
            BY <1>1, <2>1, <2>2, <2>3, <2>4, SameTyped DEF BooksTyped, outside
    <2>6. ListTyped'
        BY <2>1, <2>2, SameTyped DEF ListTyped
    <2> QED
        BY <1>1, <2>1, <2>5, <2>6, SameTyped DEF LoopTyped, outside
<1>6. ASSUME NEW m \in Markets, UpdateApplies(m)
      PROVE  LoopTyped'
    <2>1. /\ Updated /\ UNCHANGED cache /\ (quote' = quote \/ quote' = Priced(m))
          /\ phase = "apply" /\ m = Head(todo) /\ own' = [own EXCEPT ![m] = answer]
        BY <1>6 DEF UpdateApplies, fullResync
    <2> QED
        BY <1>b, <2>1
<1>7. ASSUME NEW m \in Markets, UpdateFails(m)
      PROVE  LoopTyped'
    <2>1. /\ Updated /\ UNCHANGED cache /\ (quote' = quote \/ quote' = Priced(m))
          /\ \/ own' = own
             \/ phase = "apply" /\ m = Head(todo) /\ own' = [own EXCEPT ![m] = answer]
        BY <1>7 DEF UpdateFails, fullResync
    <2> QED
        BY <1>b, <2>1
<1>8. ASSUME NEW diffs, NEW how, how \notin {"list", "apply"}, Send(diffs, how),
             \A m \in Markets : IsDiff(diffs[m]),
             UNCHANGED <<scenario, outside, market, answer>>
      PROVE  LoopTyped'
    <2>1. /\ batch' = NoBatch \/ batch' = diffs
          /\ phase' = "idle" \/ phase' = how
        BY <1>8 DEF Send
    <2>2. \A m \in Markets : IsDiff(batch'[m])
        BY <1>8, <2>1, EmptyDiff DEF NoBatch
    <2>3. DiffsTyped'
        BY <1>1, <1>8, <2>2, SameTyped DEF DiffsTyped, outside
    <2> QED
        BY <1>1, <1>8, <2>1, <2>3, SameTyped DEF LoopTyped, outside, market, knows
<1>9. CASE riskGate
    <2> DEFINE diffs == [m \in Markets |-> cancelsOf(m)]
    <2>1. \A m \in Markets : IsDiff(diffs[m])
        BY NoIntents DEF IsDiff, cancelsOf, NoDiff
    <2>2. Send(diffs, "halt") /\ UNCHANGED <<scenario, outside, market, answer>>
        BY <1>9 DEF riskGate
    <2> DEFINE how == "halt"
    <2>3. how \notin {"list", "apply"} /\ Send(diffs, how)
        BY <2>2
    <2> HIDE DEF diffs, how
    <2> QED
        BY <1>8, <2>1, <2>2, <2>3
<1>10. CASE planTick
    <2> DEFINE diffs == [m \in Markets |-> Placed(plan(m), ~pauseNew)]
    <2>1. \A m \in Markets : IsDiff(diffs[m])
        BY PlanIsDiff, PlacedIsDiff
    <2>2. Send(diffs, "submit") /\ UNCHANGED <<scenario, outside, market, answer>>
        BY <1>10 DEF planTick
    <2> DEFINE how == "submit"
    <2>3. how \notin {"list", "apply"} /\ Send(diffs, how)
        BY <2>2
    <2> HIDE DEF diffs, how
    <2> QED
        BY <1>8, <2>1, <2>2, <2>3
<1>11. ASSUME NEW diffs, NEW venue, Outcome(diffs, venue),
              \A m \in Markets \cap DOMAIN diffs : IsDiff(diffs[m]),
              UNCHANGED <<fair, cache, own, quote, answer>>, batch' = batch \/ batch' = NoBatch,
              phase \notin {"list", "apply"}, phase' = phase \/ phase' = "idle"
       PROVE  LoopTyped'
    <2>1. /\ UNCHANGED scenario /\ BooksTyped' /\ LogsTyped'
          /\ \A m \in Markets \cap DOMAIN late' : IsDiff(late'[m])
        BY <1>11, OutcomeTyped
    <2>2. \A m \in Markets : IsDiff(batch'[m])
        BY <1>1, <1>11, EmptyDiff DEF NoBatch, DiffsTyped
    <2>3. DiffsTyped'
        BY <2>1, <2>2, SameTyped DEF DiffsTyped
    <2> QED
        BY <1>1, <1>11, <2>1, <2>3, SameTyped DEF LoopTyped
<1>12. CASE Submit
    <2> DEFINE venue == VenueOf[Head(todo)]
               diffs == [m \in {x \in Range(todo) : VenueOf[x] = venue} |->
                            Placed(batch[m], inputs.allow)]
    <2>1. \A m \in Markets \cap DOMAIN diffs : IsDiff(diffs[m])
        BY <1>1, PlacedIsDiff DEF DiffsTyped
    <2>2. /\ Outcome(diffs, venue) /\ UNCHANGED <<fair, cache, own, quote, answer>>
          /\ batch' = batch \/ batch' = NoBatch
          /\ phase = "submit" /\ (phase' = phase \/ phase' = "idle")
        BY <1>12 DEF Submit, knows
    <2> HIDE DEF diffs, venue
    <2> QED
        BY <1>11, <2>1, <2>2
<1>13. ASSUME NEW m \in Markets, cancelAll(m)
       PROVE  LoopTyped'
    <2> DEFINE venue == VenueOf[m]
               diffs == [x \in {m} |-> batch[m]]
    <2>1. \A x \in Markets \cap DOMAIN diffs : IsDiff(diffs[x])
        BY <1>1 DEF DiffsTyped
    <2>2. /\ Outcome(diffs, venue) /\ UNCHANGED <<fair, cache, own, quote, answer>>
          /\ batch' = batch \/ batch' = NoBatch
          /\ phase = "halt" /\ (phase' = phase \/ phase' = "idle")
        BY <1>13 DEF cancelAll, market, knows
    <2> HIDE DEF diffs, venue
    <2> QED
        BY <1>11, <2>1, <2>2
<1>14. CASE canPlaceThrows
    <2>1. /\ UNCHANGED <<scenario, outside, market, answer>>
          /\ phase' = "idle" /\ batch' = NoBatch
        BY <1>14 DEF canPlaceThrows, Fault
    <2>2. \A m \in Markets : IsDiff(batch'[m])
        BY <2>1, EmptyDiff DEF NoBatch
    <2>3. DiffsTyped'
        BY <1>1, <2>1, <2>2, SameTyped DEF DiffsTyped, outside
    <2> QED
        BY <1>1, <2>1, <2>3, SameTyped DEF LoopTyped, outside, market, knows
<1> QED
    BY <1>2, <1>3, <1>4, <1>5, <1>6, <1>7, <1>9, <1>10, <1>12, <1>13, <1>14 DEF Tick

LEMMA MoveTyped ==
    ASSUME LoopTyped, Move
    PROVE  LoopTyped'
<1>1. QuotesTyped /\ BooksTyped /\ LogsTyped /\ DiffsTyped /\ ListTyped
    BY DEF LoopTyped
<1>2. UNCHANGED <<scenario, late, market, tick_>>
    BY DEF Move
<1>3. ASSUME NEW m \in Markets, Fill(m)
      PROVE  LoopTyped'
    <2>1. PICK o \in Range(book[m]) : \E left \in 0 .. (o.size - 1) :
             LET filled == [o EXCEPT !.size = left] IN
             /\ book' = [book EXCEPT ![m] =
                            IF left = 0 THEN Without(@, {o.id})
                            ELSE [i \in DOMAIN @ |-> IF @[i].id = o.id THEN filled ELSE @[i]]]
             /\ logs' = [logs EXCEPT ![m] =
                            Emit(m, <<Event(IF left = 0 THEN "removed" ELSE "updated", filled)>>)]
             /\ UNCHANGED fair
        BY <1>3 DEF Fill
    <2>a. PICK left \in 0 .. (o.size - 1) :
             LET filled == [o EXCEPT !.size = left] IN
             /\ book' = [book EXCEPT ![m] =
                            IF left = 0 THEN Without(@, {o.id})
                            ELSE [i \in DOMAIN @ |-> IF @[i].id = o.id THEN filled ELSE @[i]]]
             /\ logs' = [logs EXCEPT ![m] =
                            Emit(m, <<Event(IF left = 0 THEN "removed" ELSE "updated", filled)>>)]
             /\ UNCHANGED fair
        BY <2>1
    <2> DEFINE filled == [o EXCEPT !.size = left]
               rests == IF left = 0 THEN Without(book[m], {o.id})
                        ELSE [i \in DOMAIN book[m] |->
                                IF book[m][i].id = o.id THEN filled ELSE book[m][i]]
               event == Event(IF left = 0 THEN "removed" ELSE "updated", filled)
    <2>2. Orders(book[m]) /\ Logged(logs[m])
        BY <1>1 DEF BooksTyped, LogsTyped
    <2>3. Orders(rests) /\ IsOrder(filled)
        BY <2>2, FilledOrders
    <2>4. book' = [book EXCEPT ![m] = rests]
        BY <2>a
    <2>5. logs' = [logs EXCEPT ![m] = Emit(m, <<event>>)]
        BY <2>a
    <2> HIDE DEF filled, rests
    <2>6. IsEvent(event)
        BY <2>3 DEF IsEvent, Event
    <2> HIDE DEF event
    <2>7. Events(<<event>>)
        <3>1. PICK E : E = {event}
            OBVIOUS
        <3>2. <<event>> \in Seq(E) /\ \A e \in E : IsEvent(e)
            BY <2>6, <3>1
        <3> QED
            BY <3>2 DEF Events
    <2>8. Logged(Emit(m, <<event>>))
        BY <2>2, <2>7, EventsAppended DEF Emit
    <2>9. BooksTyped'
        BY <1>1, <1>2, <2>3, <2>4, SameTyped DEF BooksTyped, market, knows, tick_
    <2>10. LogsTyped'
        BY <1>1, <1>2, <2>5, <2>8, SameTyped DEF LogsTyped
    <2> QED
        BY <1>1, <1>2, <2>a, <2>9, <2>10, SameTyped DEF LoopTyped, market, knows, tick_
<1>4. ASSUME NEW m \in Markets, NEW q \in Quotes,
             fair' = [fair EXCEPT ![m] = q], UNCHANGED <<book, logs>>
      PROVE  LoopTyped'
    <2>1. QuotesTyped'
        BY <1>1, <1>2, <1>4, SameTyped DEF QuotesTyped, market, knows
    <2> QED
        BY <1>1, <1>2, <1>4, <2>1, SameTyped DEF LoopTyped, market, knows, tick_
<1>5. CASE UNCHANGED <<book, logs, fair>>
    BY <1>1, <1>2, <1>5, SameTyped DEF LoopTyped, market, knows, tick_
<1> QED
    BY <1>3, <1>4, <1>5 DEF Move

LEMMA LoopStepTyped ==
    ASSUME AsksAboveZero, LoopTyped, [LoopNext]_loopVars
    PROVE  LoopTyped'
<1>1. QuotesTyped /\ BooksTyped /\ LogsTyped /\ DiffsTyped /\ ListTyped
    BY DEF LoopTyped
<1>2. CASE Tick
    BY <1>2, TickTyped
<1>3. CASE Move
    BY <1>3, MoveTyped
<1>4. CASE LateLands
    <2>1. /\ late' = <<>> /\ (Lands(late) \/ UNCHANGED <<book, logs>>)
          /\ UNCHANGED <<scenario, fair, market, tick_>>
        BY <1>4 DEF LateLands, NoLate
    <2>2. BooksTyped' /\ LogsTyped'
        <3>1. CASE Lands(late)
            BY <1>1, <2>1, <3>1, BatchLands DEF DiffsTyped, market, knows, tick_
        <3>2. CASE UNCHANGED <<book, logs>>
            BY <1>1, <2>1, <3>2, SameTyped DEF market, knows, tick_
        <3> QED
            BY <2>1, <3>1, <3>2
    <2>3. DiffsTyped'
        <3>1. \A m \in Markets \cap DOMAIN late' : FALSE
            BY <2>1
        <3> QED
            BY <1>1, <2>1, <3>1, SameTyped DEF DiffsTyped, tick_
    <2> QED
        BY <1>1, <2>1, <2>2, <2>3, SameTyped DEF LoopTyped, market, knows, tick_
<1>5. ASSUME NEW m \in Markets, LoseLogs(m)
      PROVE  LoopTyped'
    <2>1. /\ UNCHANGED <<scenario, book, fair, late, market, tick_>>
          /\ logs[m] # <<>> /\ logs' = [logs EXCEPT ![m] = Tail(@)]
        BY <1>5 DEF LoseLogs, Polled, Fault
    <2>2. LogsTyped'
        BY <1>1, <2>1, LogsTaken, SameTyped DEF LogsTyped
    <2> QED
        BY <1>1, <2>1, <2>2, SameTyped DEF LoopTyped, market, knows, tick_
<1>6. ASSUME NEW m \in Markets, Deliver(m)
      PROVE  LoopTyped'
    <2> DEFINE news == Head(logs[m])
               mirrored == Heard(own[m], Routed(m, news))
               cached == Heard(cache[m], news)
    <2>1. /\ UNCHANGED <<scenario, book, fair, late, quote, tick_>>
          /\ logs[m] # <<>> /\ logs' = [logs EXCEPT ![m] = Tail(@)]
          /\ own' = [own EXCEPT ![m] = mirrored]
          /\ cache' = [cache EXCEPT ![m] = cached] \/ cache' = cache
        BY <1>6 DEF Deliver, Polled
    <2>2. LogsTyped'
        BY <1>1, <2>1, LogsTaken, SameTyped DEF LogsTyped
    <2>3. Orders(mirrored) /\ Orders(cached)
        <3>1. Events(news) /\ Orders(own[m]) /\ Orders(cache[m])
            BY <1>1, <2>1, LogsTaken DEF LogsTyped, BooksTyped
        <3> HIDE DEF news
        <3>2. Events(Routed(m, news))
            BY <3>1, RoutedEvents
        <3> QED
            BY <3>1, <3>2, HeardOrders
    <2> HIDE DEF mirrored, cached
    <2>4. BooksTyped'
        BY <1>1, <2>1, <2>3, SameTyped DEF BooksTyped, tick_
    <2> QED
        BY <1>1, <2>1, <2>2, <2>4, SameTyped DEF LoopTyped, tick_
<1>7. ASSUME NEW m \in Markets, CooldownOver(m) \/ BackoffOver(m)
      PROVE  LoopTyped'
    <2>1. UNCHANGED <<scenario, outside, cache, own, quote, tick_>>
        BY <1>7 DEF CooldownOver, BackoffOver, Timer, knows
    <2> QED
        BY <1>1, <2>1, SameTyped DEF LoopTyped, outside, tick_
<1>8. CASE UNCHANGED loopVars
    BY <1>1, <1>8, SameTyped DEF LoopTyped, loopVars, outside, market, knows, tick_
<1> QED
    BY <1>2, <1>3, <1>4, <1>5, <1>6, <1>7, <1>8 DEF LoopNext

\* A step that turns plans into a batch.
LEMMA PlanStep ==
    ASSUME AsksAboveZero, LoopTyped, [LoopNext]_loopVars,
           phase = "plan", phase' = "submit"
    PROVE  \A m \in Markets : batch'[m] # NoDiff =>
              ~Locks(After(own[m], batch'[m]) \o batch'[m].creates)
<1>1. planTick
    <2>1. CASE Tick
        BY <2>1 DEF Tick, BeginTick, ListOrders, riskGate, Send, canPlaceThrows, Submit, SkipUpdate,
                    UpdateReads, UpdateResyncs, UpdateApplies, UpdateFails, cancelAll, Refreshes,
                    Updating
    <2>2. CASE Move \/ LateLands
        BY <2>2 DEF Move, LateLands, tick_
    <2>3. ASSUME NEW m \in Markets, LoseLogs(m) \/ Deliver(m)
          PROVE  FALSE
        BY <2>3 DEF LoseLogs, Deliver, tick_
    <2>4. ASSUME NEW m \in Markets, CooldownOver(m) \/ BackoffOver(m)
          PROVE  FALSE
        BY <2>4 DEF CooldownOver, BackoffOver, Timer, tick_
    <2>5. CASE UNCHANGED loopVars
        BY <2>5 DEF loopVars, tick_
    <2> QED
        BY <2>1, <2>2, <2>3, <2>4, <2>5 DEF LoopNext
<1>2. batch' = [m \in Markets |-> Placed(plan(m), ~pauseNew)]
    BY <1>1 DEF planTick, Send
<1>3. ASSUME NEW m \in Markets, batch'[m] # NoDiff
      PROVE  ~Locks(After(own[m], batch'[m]) \o batch'[m].creates)
    <2> DEFINE desired == computeQuotes(quote[m])
               p == planDiff(own[m], desired)
               existing == After(own[m], findStaleOrders(own[m], desired))
    <2>1. batch'[m] = Placed(plan(m), ~pauseNew)
        BY <1>2
    <2>2. plan(m) = p /\ IsDiff(p)
        <3>1. plan(m) # NoDiff
            <4>1. PICK allow \in BOOLEAN : allow = ~pauseNew
                OBVIOUS
            <4> QED
                BY <1>3, <2>1, <4>1, EmptyDiff
        <3> QED
            BY <3>1, PlanIsDiff
    <2>3. /\ batch'[m].cancels = p.cancels
          /\ batch'[m].creates = p.creates \/ batch'[m].creates = <<>>
        BY <2>1, <2>2, PlacedIsDiff
    <2>4. p.cancels = findStaleOrders(own[m], desired).cancels
          /\ p.creates = findNewOrders(desired, existing)
        BY DEF planDiff
    <2>5. Intents(desired) /\ ~Locks(desired)
        <3>1. quote[m] \in Quotes
            BY DEF LoopTyped, QuotesTyped
        <3> QED
            BY <3>1, QuotesAreSound, GridIsOpen
    <2>6. Orders(own[m])
        BY DEF LoopTyped, BooksTyped
    <2> HIDE DEF p, desired, existing
    <2> QED
        BY <2>3, <2>4, <2>5, <2>6, PlanIsOpen
<1> QED
    BY <1>3

\* What a plan keeps and what it adds never match, for any markets, orders, grid and
\* allowances, as long as no quote asks for less than nothing: the prices of a market's
\* own orders are what the invariant keeps, the rest follows from the diff.
THEOREM PlansNeverCross ==
    ASSUME AsksAboveZero
    PROVE  LoopSpec => PlanNeverCrosses
<1>1. LoopInit => LoopTyped
    BY InitTyped
<1>2. LoopTyped /\ [LoopNext]_loopVars => LoopTyped'
    BY LoopStepTyped
<1> DEFINE Crosses == phase = "plan" /\ phase' = "submit" =>
                        \A m \in Markets : batch'[m] # NoDiff =>
                            ~Locks(After(own[m], batch'[m]) \o batch'[m].creates)
<1>3. LoopTyped /\ [LoopNext]_loopVars => Crosses
    BY PlanStep
<1>4. PlanNeverCrosses <=> [][Crosses]_loopVars
    BY DEF PlanNeverCrosses
<1> HIDE DEF Crosses
<1> QED
    BY <1>1, <1>2, <1>3, <1>4, PTL DEF LoopSpec

================================================================================
