-------------------------- MODULE LiquidationExecutor --------------------------
(***************************************************************************)
(* The keeper's liquidation pipeline: the queue of underwater accounts     *)
(* (keeper/src/coordinator/queue.ts), the workers that plan them           *)
(* (coordinator/executor.ts), and the two sources that read account health *)
(* and queue it: the periodic sweep (runtime/scheduler.ts) and the         *)
(* predictive layer's price crossings (predict/coordinator.ts).            *)
(*                                                                         *)
(* The process is one JavaScript thread: what runs between two awaits is   *)
(* one step.  A health read is two steps, taken on chain and applied when  *)
(* the answer arrives.  A plan (LiquidationPlanner) is here the time       *)
(* between its start and its end, and it may throw.                        *)
(***************************************************************************)
EXTENDS Integers, SequencesExt

CONSTANTS
    User,               \* tracked accounts
    Worker,
    Pools,              \* sets of workers the keeper may be started with
    Level,              \* values of each account's mmSurplus
    Predicted,          \* accounts with a predicted liquidation price
    None                \* no account, no outstanding read

ASSUME Scope ==
    /\ IsFiniteSet(User) /\ IsFiniteSet(Worker)
    /\ Pools \subseteq (SUBSET Worker) \ {{}}
    /\ Level \in [User -> SUBSET Int]
    /\ Predicted \subseteq User
    /\ None \notin User

VARIABLES
    surplus,            \* balance - mmRequired on chain
    queue,              \* health snapshots, most underwater first
    inflight,           \* accounts being planned
    worker,             \* where each worker loop is, and its snapshot
    running,
    sweep,              \* the answer of the sweep's read, not applied yet
    crossing            \* the same for one batch of price crossings

vars == <<surplus, queue, inflight, worker, running, sweep, crossing>>

Health == [user : User, surplus : Int]

NoHealth == [user |-> None, surplus |-> 0]
Ready == [at |-> "ready", health |-> NoHealth]
Waiting == [at |-> "waiting", health |-> NoHealth]
Exited == [at |-> "exited", health |-> NoHealth]
Planning(health) == [at |-> "planning", health |-> health]

Init ==
    /\ surplus \in {f \in [User -> UNION Range(Level)] : \A u \in User : f[u] \in Level[u]}
    /\ queue = <<>>
    /\ inflight = {}
    /\ \E pool \in Pools : worker = [w \in Worker |-> IF w \in pool THEN Ready ELSE Exited]
    /\ running = TRUE
    /\ sweep = None
    /\ crossing = None

--------------------------------------------------------------------------------
(* CoordinatorQueue.                                                       *)

\* The first entry of the account goes, if it has one.
removeUser[user \in User] == [q \in Seq(Health) |->
    LET at == SelectInSeq(q, LAMBDA h : h.user = user)
    IN  IF at = 0 THEN q ELSE SubSeq(q, 1, at - 1) \o SubSeq(q, at + 1, Len(q))]

\* Before the first entry that is less underwater.
insertSorted[health \in Health] == [q \in Seq(Health) |->
    LET at == SelectInSeq(q, LAMBDA h : health.surplus < h.surplus)
    IN  InsertAt(q, IF at = 0 THEN Len(q) + 1 ELSE at, health)]

\* Variant: queued in order of arrival.
upsertLast(q, health) ==
    LET rest == removeUser[health.user][q]
    IN  IF health.surplus >= 0 THEN rest ELSE Append(rest, health)

\* A healthy snapshot takes the account out of the queue.
upsert(q, health) ==
    LET rest == removeUser[health.user][q]
    IN  IF health.surplus >= 0 THEN rest ELSE insertSorted[health][rest]

--------------------------------------------------------------------------------
(* CoordinatorExecutor.                                                    *)

\* Variant: the head is taken, in flight or not.
FirstFreeHead(q, busy) == IF q = <<>> THEN 0 ELSE 1

\* The entry popNonInflight returns, 0 when there is none.
FirstFree(q, busy) == SelectInSeq(q, LAMBDA h : h.user \notin busy)

\* What it leaves: the entries it skipped are put back.
Remaining(q, busy) ==
    LET at == FirstFree(q, busy)
    IN  IF at = 0
        THEN FoldLeft(upsert, <<>>, q)
        ELSE FoldLeft(upsert, SubSeq(q, at + 1, Len(q)), SubSeq(q, 1, at - 1))

\* From the head of the loop to its next await.
workerLoop(w, q, busy) ==
    LET at == FirstFree(q, busy)
    IN  \/ /\ ~running
           /\ queue' = q
           /\ inflight' = busy
           /\ worker' = [worker EXCEPT ![w] = Exited]
        \/ /\ running
           /\ at = 0
           /\ queue' = Remaining(q, busy)
           /\ inflight' = busy
           /\ worker' = [worker EXCEPT ![w] = Waiting]
        \/ /\ running
           /\ at # 0
           /\ queue' = Remaining(q, busy)
           /\ inflight' = busy \cup {q[at].user}
           /\ worker' = [worker EXCEPT ![w] = Planning(q[at])]

Wake(w) ==
    /\ worker[w] = Ready
    /\ workerLoop(w, queue, inflight)
    /\ UNCHANGED <<surplus, running, sweep, crossing>>

Plans(w) == worker[w].at = "planning"

\* healthy, liquidated, badDebt and stalled: handleOutcome only logs.
PlanReturns(w) ==
    LET user == worker[w].health.user
    IN  /\ Plans(w)
        /\ workerLoop(w, queue, inflight \ {user})
        /\ UNCHANGED <<surplus, running, sweep, crossing>>

\* The old snapshot is queued again, over whatever was read since.  A plan that
\* throws with nothing else to do and is taken up again is a stuttering step.
PlanThrows(w) ==
    LET health == worker[w].health
    IN  /\ Plans(w)
        /\ workerLoop(w, upsert(queue, health), inflight \ {health.user})
        /\ UNCHANGED <<surplus, running, sweep, crossing>>

\* Variant: only the worker that waited last is woken.
KickedLast ==
    LET waiting == {w \in Worker : worker[w] = Waiting}
    IN  IF waiting = {} THEN worker
        ELSE [worker EXCEPT ![CHOOSE w \in waiting : TRUE] = Ready]

\* Every waiting worker has chained itself to wakeUp.
Kicked == [w \in Worker |-> IF worker[w] = Waiting THEN Ready ELSE worker[w]]

kick == worker' = Kicked

\* Variant: the waiting workers are left waiting.
stopUnkicked ==
    /\ running
    /\ running' = FALSE
    /\ UNCHANGED <<surplus, queue, inflight, worker, sweep, crossing>>

stop ==
    /\ running
    /\ running' = FALSE
    /\ kick
    /\ UNCHANGED <<surplus, queue, inflight, sweep, crossing>>

--------------------------------------------------------------------------------
(* The sources of health.                                                  *)

\* In the order of the batch, which is any.
Healths(read) == SetToSeq({[user |-> u, surplus |-> read[u]] : u \in DOMAIN read})

Underwater(read) == \E u \in DOMAIN read : read[u] < 0

\* runSweep up to its multicall; a sweep still in flight skips the tick.
SweepReads ==
    /\ sweep = None
    /\ sweep' = surplus
    /\ UNCHANGED <<surplus, queue, inflight, worker, running, crossing>>

\* Variant: the workers are not woken.
SweepAppliesQuietly ==
    /\ sweep # None
    /\ queue' = FoldLeft(upsert, queue, Healths(sweep))
    /\ sweep' = None
    /\ UNCHANGED <<surplus, inflight, worker, running, crossing>>

SweepApplies ==
    /\ sweep # None
    /\ queue' = FoldLeft(upsert, queue, Healths(sweep))
    /\ IF Underwater(sweep) THEN kick ELSE UNCHANGED worker
    /\ sweep' = None
    /\ UNCHANGED <<surplus, inflight, running, crossing>>

SweepFails ==
    /\ sweep # None
    /\ sweep' = None
    /\ UNCHANGED <<surplus, queue, inflight, worker, running, crossing>>

\* handleCrossings: a price tick crossed the thresholds of some accounts.
CrossingReads ==
    /\ crossing = None
    /\ \E users \in SUBSET Predicted \ {{}} :
           crossing' = [u \in users |-> surplus[u]]
    /\ UNCHANGED <<surplus, queue, inflight, worker, running, sweep>>

CrossingApplies ==
    /\ crossing # None
    /\ queue' = FoldLeft(upsert, queue, Healths(crossing))
    /\ IF Underwater(crossing) THEN kick ELSE UNCHANGED worker
    /\ crossing' = None
    /\ UNCHANGED <<surplus, inflight, running, sweep>>

CrossingFails ==
    /\ crossing # None
    /\ crossing' = None
    /\ UNCHANGED <<surplus, queue, inflight, worker, running, sweep>>

\* Prices, trades, deposits and the liquidations themselves.
HealthMoves ==
    /\ \E u \in User : \E s \in Level[u] : surplus' = [surplus EXCEPT ![u] = s]
    /\ UNCHANGED <<queue, inflight, worker, running, sweep, crossing>>

--------------------------------------------------------------------------------

Next ==
    \/ \E w \in Worker : Wake(w) \/ PlanReturns(w) \/ PlanThrows(w)
    \/ stop
    \/ SweepReads \/ SweepApplies \/ SweepFails
    \/ CrossingReads \/ CrossingApplies \/ CrossingFails
    \/ HealthMoves

\* Promises settle and the sweep's timer fires; a failing RPC recovers, so a
\* plan tried again and again, and the sweep, at last succeed.
Fairness ==
    /\ \A w \in Worker :
          /\ WF_vars(Wake(w))
          /\ WF_vars(PlanReturns(w) \/ PlanThrows(w))
          /\ SF_vars(PlanReturns(w))
    /\ WF_vars(SweepReads)
    /\ SF_vars(SweepApplies)

Spec == Init /\ [][Next]_vars /\ Fairness

--------------------------------------------------------------------------------
(* Properties.                                                             *)

Planned(w) == worker[w].health.user

PlannedOnce ==
    /\ inflight = {Planned(w) : w \in {x \in Worker : Plans(x)}}
    /\ \A w, x \in Worker : Plans(w) /\ Plans(x) /\ Planned(w) = Planned(x) => w = x

\* Two plans never run for one account, whatever is queued while one does, and
\* what is queued is each account once.
OnePlanPerUser ==
    /\ \A i, j \in DOMAIN queue : queue[i].user = queue[j].user => i = j
    /\ PlannedOnce

Workable == {i \in DOMAIN queue : queue[i].user \notin inflight}

\* No wake-up is lost: while a worker waits there are no more entries to work
\* on than workers already on their way to the queue.
NoIdleWorkerWithWork ==
    (\E w \in Worker : worker[w] = Waiting) =>
        Cardinality(Workable) <= Cardinality({w \in Worker : worker[w] = Ready})

TakesTheWorst ==
    \A w \in Worker :
        worker[w] # worker'[w] /\ worker'[w].at = "planning" =>
            \A i \in DOMAIN queue' :
                queue'[i].user \in inflight'
                  \/ worker'[w].health.surplus <= queue'[i].surplus

\* A worker takes the most underwater account that nobody is planning.
WorstFirst == [][TakesTheWorst]_vars

Worst(u) ==
    surplus[u] < 0 /\ \A v \in User \ {u} : surplus[u] < surplus[v]

\* Snapshots go stale, arrive late and overwrite newer ones, reads and plans
\* fail: still an account that stays the most underwater is planned, again and
\* again, for the sweep refreshes what is queued.  Health that moves forever may
\* put another account first whenever a single worker looks.
WorstIsPlanned ==
    \A u \in User :
        <>[](running /\ Worst(u)) /\ <>[][FALSE]_surplus => []<>(u \in inflight)

\* Once stopped the plans under way finish and every worker ends.
StopDrains == ~running ~> \A w \in Worker : worker[w] = Exited
================================================================================
