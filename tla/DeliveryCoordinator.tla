-------------------------- MODULE DeliveryCoordinator --------------------------
(***************************************************************************)
(* Settlement of matured futures positions by the keeper                   *)
(* (keeper/src/delivery/coordinator.ts), driven by the expiry index.       *)
(*                                                                         *)
(* Sweeps overlap: the interval and a timer per position all call sweep,   *)
(* so a sweep is here possible at any time.  A sweep settles its           *)
(* candidates slice by slice; slices of all sweeps queue up on one promise *)
(* chain, and the head of the chain simulates, sends and waits.  Dry runs  *)
(* and the paths without an index are left out.                            *)
(***************************************************************************)
EXTENDS FuturesExpiryIndex

CONSTANTS
    Sweep,              \* sweeps that may be under way at a time
    BatchSizes          \* values MaxBatchSize may be configured with

ASSUME CoordinatorScope == BatchSizes \subseteq Nat \ {0}

VARIABLES
    listening,          \* start() is done: index changes reach tracked
    tracked,
    inflight,           \* positions of queued or running batches
    pending,            \* of each sweep: candidates not sliced yet
    MaxBatchSize,       \* as configured
    batch,              \* of each sweep: its slice on the promise chain
    txChain,            \* sweeps whose batch waits or runs, in order
    stage,              \* of the running batch
    settleable,         \* positions of it that the stage is about
    reverted            \* history: dropped after a transaction that reverted

batchVars == <<inflight, pending, batch, txChain, stage, settleable>>
coordinatorVars == <<listening, tracked, batchVars, reverted, MaxBatchSize>>
vars == <<allIndexVars, coordinatorVars>>

CoordinatorInit ==
    /\ Init
    /\ MaxBatchSize \in BatchSizes
    /\ listening = FALSE
    /\ tracked = {}
    /\ inflight = {}
    /\ pending = [s \in Sweep |-> {}]
    /\ batch = [s \in Sweep |-> {}]
    /\ txChain = <<>>
    /\ stage = "idle"
    /\ settleable = {}
    /\ reverted = {}

--------------------------------------------------------------------------------
(* The index and its listener.                                             *)

\* The listener hears of changes only, not of every setPosition.
onPositionChanged ==
    /\ tracked' = IF listening
                  THEN (tracked \cup (indexed' \ indexed)) \ (indexed \ indexed')
                  ELSE tracked
    /\ UNCHANGED <<listening, batchVars, reverted, MaxBatchSize>>

\* Variant: what the index holds already is not taken over.
startEmpty ==
    /\ phase = "ready" /\ ~listening
    /\ tracked' = {}
    /\ listening' = TRUE
    /\ UNCHANGED <<allIndexVars, batchVars, reverted, MaxBatchSize>>

start ==
    /\ phase = "ready" /\ ~listening
    /\ tracked' = indexed
    /\ listening' = TRUE
    /\ UNCHANGED <<allIndexVars, batchVars, reverted, MaxBatchSize>>

--------------------------------------------------------------------------------
(* Sweeps.                                                                 *)

\* Variant: what is in flight is sent again.
freshAll(slice) == slice

\* Of a slice, what no other batch is settling.
fresh(slice) == slice \ inflight

settleBatch(s, candidates) ==
    \E slice \in SUBSET candidates :
        /\ slice # {}
        /\ \/ Cardinality(slice) = MaxBatchSize
           \/ slice = candidates /\ Cardinality(slice) <= MaxBatchSize
        /\ pending' = [pending EXCEPT ![s] = candidates \ slice]
        /\ batch' = [batch EXCEPT ![s] = fresh(slice)]
        /\ inflight' = inflight \cup fresh(slice)
        /\ txChain' = IF fresh(slice) = {} THEN txChain ELSE Append(txChain, s)
    /\ UNCHANGED <<allIndexVars, listening, tracked, stage, settleable, reverted,
                   MaxBatchSize>>

Candidates == {p \in tracked \ inflight : IsMatured(p)}

CanSweep(s) == listening /\ pending[s] = {} /\ batch[s] = {} /\ Candidates # {}

\* Sweeps are alike, so a new one may take any free place.
sweep(s) ==
    /\ CanSweep(s)
    /\ s = CHOOSE t \in Sweep : CanSweep(t)
    /\ settleBatch(s, Candidates)

nextSlice(s) ==
    /\ batch[s] = {}
    /\ settleBatch(s, pending[s])

--------------------------------------------------------------------------------
(* The batch at the head of the promise chain.                             *)

Running == batch[Head(txChain)]

\* Variant: a batch that ends early leaves its positions in flight.
EndBatchInFlight ==
    /\ inflight' = inflight
    /\ batch' = [batch EXCEPT ![Head(txChain)] = {}]
    /\ txChain' = Tail(txChain)
    /\ stage' = "idle"
    /\ settleable' = {}
    /\ UNCHANGED pending

\* However it ends, the batch is no longer in flight and the next one runs.
EndBatch ==
    /\ inflight' = inflight \ Running
    /\ batch' = [batch EXCEPT ![Head(txChain)] = {}]
    /\ txChain' = Tail(txChain)
    /\ stage' = "idle"
    /\ settleable' = {}
    /\ UNCHANGED pending

Enter(next, positions) ==
    /\ stage' = next
    /\ settleable' = positions
    /\ UNCHANGED <<inflight, pending, batch, txChain>>

\* Variant: a position that is gone stays tracked.
dropMissingNone(positions) == tracked' = tracked

\* PositionNotExists: somebody else settled it, or it never was.
dropMissing(positions) == tracked' = tracked \ (positions \ open)

\* Each position is simulated; those that fail for another reason are skipped.
Simulate ==
    /\ stage = "idle" /\ txChain # <<>>
    /\ dropMissing(Running)
    /\ \E skipped \in SUBSET (Running \cap open) :
          LET rest == (Running \cap open) \ skipped
          IN  /\ IF skipped = {} THEN faults' = faults ELSE Fault
              /\ IF rest = {} THEN EndBatch ELSE Enter("write", rest)
    /\ UNCHANGED <<chainVars, feeds, indexState,
                   listening, reverted, MaxBatchSize>>

\* settlePositions is sent.  A transient error leaves the batch to the next
\* sweep; any other makes the fallback take it position by position.
Write ==
    /\ stage = "write"
    /\ \/ Enter("receipt", settleable) /\ faults' = faults
       \/ EndBatch /\ Fault
       \/ Enter("fallback", settleable) /\
          IF settleable \subseteq open THEN Fault ELSE faults' = faults
    /\ UNCHANGED <<chainVars, feeds, indexState,
                   listening, tracked, reverted, MaxBatchSize>>

NothingSettles == UNCHANGED <<open, version, settlements>>

\* Mined: either what is still open is settled, or nothing is, because a
\* position is gone or the price is not there.
Mined(positions) ==
    \/ /\ Settles(positions \cap open)
       /\ reverted' = reverted
       /\ faults' = faults
    \/ /\ NothingSettles
       /\ reverted' = reverted \cup (positions \cap open)
       /\ IF positions \subseteq open THEN Fault ELSE faults' = faults

\* The receipt's status is not looked at: settled or not, all are dropped.
Receipt ==
    /\ stage = "receipt"
    /\ Mined(settleable)
    /\ tracked' = tracked \ settleable
    /\ EndBatch
    /\ UNCHANGED <<matured, matches, liquidations, indexState,
                   listening, MaxBatchSize>>

\* Waiting for the receipt fails, mined or not: the batch throws.
ReceiptLost ==
    /\ stage = "receipt"
    /\ Fault
    /\ Settles(settleable \cap open) \/ NothingSettles
    /\ EndBatch
    /\ UNCHANGED <<matured, matches, liquidations, indexState,
                   listening, tracked, reverted, MaxBatchSize>>

\* One position of the fallback: it is gone and dropped, or skipped, or sent
\* on its own and dropped, whatever became of it.
Fallback(p) ==
    /\ stage = "fallback" /\ p \in settleable
    /\ \/ /\ NothingSettles
          /\ dropMissing({p})
          /\ reverted' = reverted
          /\ IF p \in open THEN Fault ELSE faults' = faults
       \/ p \in open /\ Mined({p}) /\ tracked' = tracked \ {p}
    /\ IF settleable = {p} THEN EndBatch ELSE Enter("fallback", settleable \ {p})
    /\ UNCHANGED <<matured, matches, liquidations, indexState,
                   listening, MaxBatchSize>>

\* The process crashes and starts again: what was in memory is lost, the
\* watchers start at the new head, and the window is bootstrapped once more.
Restart ==
    /\ Fault
    /\ matches' = <<>> /\ liquidations' = <<>> /\ settlements' = <<>>
    /\ phase' = "start" /\ replay' = {} /\ reads' = {} /\ indexed' = {}
    /\ seen' = version /\ spoiled' = {} /\ beyond' = Position
    /\ listening' = FALSE /\ tracked' = {} /\ inflight' = {}
    /\ pending' = [s \in Sweep |-> {}] /\ batch' = [s \in Sweep |-> {}]
    /\ txChain' = <<>> /\ stage' = "idle" /\ settleable' = {} /\ reverted' = {}
    /\ UNCHANGED <<chainVars, MaxBatchSize>>

--------------------------------------------------------------------------------

Attempt == Simulate \/ Write \/ Receipt \/ ReceiptLost \/ \E p \in Position : Fallback(p)

Next ==
    \/ (Follow \/ StartUp \/ IndexFails \/ Market) /\ onPositionChanged
    \/ start
    \/ \E s \in Sweep : sweep(s) \/ nextSlice(s)
    \/ Attempt
    \/ Restart

\* The process is scheduled, the node answers, and the sweep's timer fires: logs
\* and answers are handled, the start-up ends, no sweep stays due or between two
\* slices, and the head of the chain goes on.  Of each there is a bounded amount to
\* do, so this is weak fairness of the actions.
Fairness ==
    /\ []<>(matches = <<>> /\ liquidations = <<>> /\ settlements = <<>> /\ reads = {})
    /\ []<>(phase = "ready" /\ listening)
    /\ []<>(~ \E s \in Sweep : CanSweep(s))
    /\ \A s \in Sweep : []<>(batch[s] # {} \/ pending[s] = {})
    /\ []<>(txChain = <<>> \/ stage # "idle")
    /\ []<>(stage = "idle")

Spec == CoordinatorInit /\ [][Next]_vars /\ Fairness

--------------------------------------------------------------------------------
(* Properties.                                                             *)

\* However sweeps and timers overlap, no position is in two batches, what is in
\* flight is just what the batches hold, and only the head of the chain runs.
OneBatchPerPosition ==
    /\ inflight = UNION {batch[s] : s \in Sweep}
    /\ \A s, t \in Sweep : s # t => batch[s] \cap batch[t] = {}
    /\ {txChain[i] : i \in DOMAIN txChain} = {s \in Sweep : batch[s] # {}}
    /\ IsInjective(txChain)
    /\ stage # "idle" => txChain # <<>> /\ settleable \subseteq Running

\* Once nothing the chain did to a position is on its way, the index agrees
\* with the chain, with three exceptions: an older fact was applied after a newer
\* one; a read, a watcher or a chunk of the replay failed and lost its last fact;
\* or no log of this start was about it, because its expiry is older than the
\* previous one or the venue listed no expiry.  Four watchers, reads back, the
\* replay of the window and crashes lose nothing else.
IndexIsExact ==
    \A p \in Position :
        Quiet(p) /\ p \notin spoiled \cup beyond => (p \in indexed <=> p \in open)

\* An indexed position that is open is tracked: it can be lost to the sweeps
\* in one way only, a transaction that was mined and reverted.
OnlyARevertLoses ==
    listening => indexed \cap open \subseteq tracked \cup reverted

\* A matured position does not stay open for ever, however sweeps, failures,
\* rivals and a crash fall, unless its last fact was stale or lost, it was dropped
\* after a reverted transaction, or the keeper started when the position's expiry
\* was already out of the window that is replayed.
MaturedIsSettled ==
    \A p \in Position :
        <>[](p \in open /\ IsMatured(p)) =>
            <>[](p \in spoiled \cup reverted \cup beyond)


\* A position tracked by mistake, or settled by a rival, leaves the sweeps.
GhostsLeave ==
    \A p \in Position :
        p \in tracked /\ IsMatured(p) /\ p \notin open ~> p \notin tracked

\* Every active aggregate is found: with nothing on its way and no call failing
\* the index holds it, or no sweep will ever settle it.  Positions older than the
\* window are left out: the disagreement is about those it covers.
EveryAggregateIsIndexed ==
    \A p \in Position : Quiet(p) /\ p \in open \ beyond => p \in indexed
================================================================================
