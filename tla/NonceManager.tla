------------------------------ MODULE NonceManager ------------------------------
(***************************************************************************)
(* The market maker's owner of the shared wallet's nonce                   *)
(* (market-maker/src/core/nonceManager.ts).  Submissions are queued and    *)
(* handled one at a time: broadcast at a nonce, wait for the receipt, on a *)
(* timeout broadcast again at the same nonce for a higher fee, at last     *)
(* send a cancel transaction and move on.  An error that says the nonce is *)
(* spent makes the manager read the nonce again and start over with it.    *)
(*                                                                         *)
(* The node, its pool and the chain are external: they lose answers, mine  *)
(* or drop what they hold whenever they like, and a third party may use    *)
(* the same wallet.  Fees are left out: whether a replacement outbids what *)
(* the pool holds is one of the outcomes of a broadcast.                   *)
(***************************************************************************)
EXTENDS Integers, Sequences, FiniteSets, Functions

CONSTANTS
    Tx,                 \* logical submissions
    CANCEL,             \* the 0-value self-send
    FOREIGN,            \* a transaction of a third party on this wallet
    Unknown,            \* no cached nonce
    maxReplacements,
    maxNonceResyncs

CONSTANTS               \* bounds of the exploration
    MaxNonce, MaxForeign, MaxEvictions,
    LosesAnswers        \* a broadcast that threw may have been taken

Payload == Tx \cup {CANCEL, FOREIGN}

ASSUME Payloads == CANCEL # FOREIGN /\ {CANCEL, FOREIGN} \cap Tx = {}

ASSUME Limits ==
    /\ maxReplacements \in Nat
    /\ maxNonceResyncs \in Nat
    /\ MaxNonce \in Nat
    /\ Unknown \notin Nat

VARIABLES
    queue,              \* submissions waiting for their turn
    outcome,            \* how each submission ended
    next,               \* the cached nonce
    step,               \* where submitInner is
    current,            \* its submission, nonce and counters
    pool,               \* nonce |-> payload, broadcast and not mined
    chain,              \* payloads of the nonces spent, oldest first
    foreign, evictions  \* how often the world interfered

manager == <<queue, outcome, next, step, current>>
node == <<pool, chain, foreign, evictions>>
vars == <<manager, node>>

Idle == [tx |-> CANCEL, nonce |-> 0, attempt |-> 0, resyncs |-> 0]

Init ==
    /\ queue = <<>>
    /\ outcome = [t \in Tx |-> "new"]
    /\ next = Unknown
    /\ step = "idle"
    /\ current = Idle
    /\ pool = <<>>
    /\ chain = <<>>
    /\ foreign = 0
    /\ evictions = 0

--------------------------------------------------------------------------------
(* The node.                                                               *)

Spent == Len(chain)

\* eth_getTransactionCount(pending): spent nonces and the pool's unbroken run.
PendingCount ==
    CHOOSE n \in Spent..(MaxNonce + 1) :
        /\ n \notin DOMAIN pool
        /\ \A m \in Spent..(n - 1) : m \in DOMAIN pool

Pooled(nonce, payload) ==
    [n \in DOMAIN pool \cup {nonce} |-> IF n = nonce THEN payload ELSE pool[n]]

Accepts(nonce, payload) ==
    /\ Spent <= nonce
    /\ nonce <= MaxNonce
    /\ pool' = Pooled(nonce, payload)
    /\ UNCHANGED <<chain, foreign, evictions>>

Mine ==
    /\ Spent \in DOMAIN pool
    /\ chain' = Append(chain, pool[Spent])
    /\ pool' = Restrict(pool, DOMAIN pool \ {Spent})
    /\ UNCHANGED <<manager, foreign, evictions>>

Evict ==
    /\ evictions < MaxEvictions
    /\ evictions' = evictions + 1
    /\ \E n \in DOMAIN pool : pool' = Restrict(pool, DOMAIN pool \ {n})
    /\ UNCHANGED <<manager, chain, foreign>>

ThirdParty ==
    /\ foreign < MaxForeign
    /\ foreign' = foreign + 1
    /\ PendingCount <= MaxNonce
    /\ pool' = Pooled(PendingCount, FOREIGN)
    /\ UNCHANGED <<manager, chain, evictions>>

--------------------------------------------------------------------------------
(* submit and submitInner.                                                 *)

submit(t) ==
    /\ outcome[t] = "new"
    /\ outcome' = [outcome EXCEPT ![t] = "queued"]
    /\ queue' = Append(queue, t)
    /\ UNCHANGED <<next, step, current, node>>

\* nextNonce reads the chain only when nothing is cached.
Start ==
    LET nonce == IF next = Unknown THEN PendingCount ELSE next
    IN  /\ step = "idle"
        /\ queue # <<>>
        /\ nonce <= MaxNonce
        /\ next' = nonce
        /\ current' = [tx |-> Head(queue), nonce |-> nonce,
                       attempt |-> 0, resyncs |-> 0]
        /\ queue' = Tail(queue)
        /\ step' = "send"
        /\ UNCHANGED <<outcome, node>>

\* The nonce could not be read: submitInner throws before it sent anything.
StartFails ==
    /\ step = "idle"
    /\ queue # <<>>
    /\ next = Unknown
    /\ outcome' = [outcome EXCEPT ![Head(queue)] = "failed"]
    /\ queue' = Tail(queue)
    /\ UNCHANGED <<next, step, current, node>>

Ends(result, nonce) ==
    /\ outcome' = [outcome EXCEPT ![current.tx] = result]
    /\ next' = nonce
    /\ step' = "idle"
    /\ current' = Idle
    /\ UNCHANGED queue

Sent ==
    /\ step = "send"
    /\ Accepts(current.nonce, current.tx)
    /\ step' = "wait"
    /\ UNCHANGED <<queue, outcome, next, current>>

\* The send threw: nothing was taken, or it was and only the answer was lost.
Retried(accepted) ==
    /\ IF accepted THEN Accepts(current.nonce, current.tx) ELSE UNCHANGED node
    /\ UNCHANGED <<queue, outcome, next>>
    /\ IF current.attempt < maxReplacements
       THEN /\ current' = [current EXCEPT !.attempt = @ + 1]
            /\ UNCHANGED step
       ELSE /\ step' = "cancelAfterError"
            /\ UNCHANGED current

SendFails ==
    step = "send" /\ \E accepted \in BOOLEAN : (accepted => LosesAnswers) /\ Retried(accepted)

\* "nonce too low", or for a nonce past a gap "nonce too high".
Desynced ==
    /\ step = "send"
    /\ current.nonce < Spent \/ current.nonce > PendingCount
    /\ UNCHANGED node

\* Variant: resyncs are not counted.
ResyncUncounted ==
    /\ Desynced
    /\ PendingCount <= MaxNonce
    /\ next' = PendingCount
    /\ current' = [current EXCEPT !.nonce = PendingCount, !.attempt = 0]
    /\ UNCHANGED <<queue, outcome, step>>

\* Starts over at the nonce the chain reports, with the whole retry budget.
Resync ==
    /\ Desynced
    /\ current.resyncs < maxNonceResyncs
    /\ PendingCount <= MaxNonce
    /\ next' = PendingCount
    /\ current' = [current EXCEPT !.nonce = PendingCount, !.attempt = 0,
                                  !.resyncs = @ + 1]
    /\ UNCHANGED <<queue, outcome, step>>

\* Out of budget, or the fresh nonce could not be read.
ResyncFails == Desynced /\ Ends("failed", Unknown)

\* viem answers with the receipt of whatever was mined at this nonce.
Receipt ==
    /\ step = "wait"
    /\ current.nonce < Spent
    /\ Ends("landed", current.nonce + 1)
    /\ UNCHANGED node

\* Variant: a timed-out attempt is not counted.
TimeoutUncounted ==
    /\ step = "wait"
    /\ step' = "send"
    /\ UNCHANGED <<queue, outcome, next, current, node>>

\* Variant: a missing receipt is taken for one.
TimeoutLands ==
    /\ step = "wait"
    /\ Ends("landed", current.nonce + 1)
    /\ UNCHANGED node

\* The timer fires first, or reading the receipt failed.
Timeout ==
    /\ step = "wait"
    /\ IF current.attempt < maxReplacements
       THEN /\ current' = [current EXCEPT !.attempt = @ + 1]
            /\ step' = "send"
       ELSE /\ step' = "cancelAfterTimeout"
            /\ UNCHANGED current
    /\ UNCHANGED <<queue, outcome, next, node>>

\* Variant: the cached nonce is kept after a persistent send error.
AfterCancelCached == current.nonce + 1

\* Variant: the nonce of a stuck transaction is used again.
AfterCancelReused == IF step = "cancelAfterError" THEN Unknown ELSE current.nonce

\* tryCancelTx swallows every failure, so its caller moves on in any case.
AfterCancel ==
    IF step = "cancelAfterError" THEN Unknown ELSE current.nonce + 1

tryCancelTx ==
    /\ step \in {"cancelAfterError", "cancelAfterTimeout"}
    /\ Accepts(current.nonce, CANCEL) \/ UNCHANGED node
    /\ Ends("failed", AfterCancel)

submitInner ==
    \/ Start \/ StartFails
    \/ Sent \/ SendFails \/ Resync \/ ResyncFails
    \/ Receipt \/ Timeout
    \/ tryCancelTx

Next ==
    \/ \E t \in Tx : submit(t)
    \/ submitInner
    \/ Mine \/ Evict \/ ThirdParty

\* Every await in submitInner ends: a call answers or throws, the timer fires.
Spec == Init /\ [][Next]_vars /\ WF_vars(submitInner)

--------------------------------------------------------------------------------
(* Properties.                                                             *)

\* The wallet is this process's own and the pool keeps what it took.
Undisturbed == foreign = 0 /\ evictions = 0

\* A cached nonce is never past a gap: every lower one is spent or in the pool,
\* so no later submission waits for a nonce nobody is going to fill.
NoNonceGap ==
    Undisturbed /\ next # Unknown =>
        \A n \in Spent..(next - 1) : n \in DOMAIN pool

\* Serialised submissions never collide: what is broadcast at a nonce in the
\* pool replaces a version of the same submission or cancels it.
NoCollision ==
    [][Undisturbed =>
        \A n \in DOMAIN pool \cap DOMAIN pool' :
            pool'[n] # pool[n] => pool[n] = current.tx /\ pool'[n] = CANCEL]_vars

\* A submission that resolved is on the chain.
ResolvedIsOnChain ==
    foreign = 0 =>
        \A t \in Tx : outcome[t] = "landed" => t \in Range(chain)

Places(t) ==
    {n \in 0..MaxNonce : IF n < Spent THEN chain[n + 1] = t
                         ELSE n \in DOMAIN pool /\ pool[n] = t}

\* Even with the wallet shared, one submission is given at most one nonce more
\* than it was resynced, so it lands at most that often.
LandsOncePerResync ==
    \A t \in Tx : Cardinality(Places(t)) <= 1 + maxNonceResyncs

\* Replacing at the same nonce lets at most one of the versions land, so a
\* submission is safe even when it creates orders.
LandsAtMostOnce ==
    Undisturbed => \A t \in Tx : Cardinality({n \in DOMAIN chain : chain[n] = t}) <= 1

\* Whatever the node does, every submission ends and the queue moves on.
EverySubmissionEnds ==
    \A t \in Tx : outcome[t] = "queued" ~> outcome[t] \in {"landed", "failed"}
================================================================================
