--------------------------- MODULE FuturesExpiryIndex ---------------------------
(***************************************************************************)
(* Which accounts hold a futures position at which expiry, as the keeper   *)
(* believes (keeper/src/discovery/futuresExpiryIndex.ts).  The index is    *)
(* rebuilt at start from the logs of a bounded window and then follows     *)
(* four watchers.  A watcher delivers its own event in order, but nothing  *)
(* orders the watchers against one another, a log one of them loses is not *)
(* asked for again, and a liquidation does not say what is left: the       *)
(* position is read back and the answer is applied when it arrives.        *)
(*                                                                         *)
(* The set of participants, which feeds account discovery, and the pruning *)
(* of empty expiries are left out: neither touches a position.             *)
(***************************************************************************)
EXTENDS Integers, SequencesExt

CONSTANTS
    Trader,
    Backstop,           \* the protocol's ledger of liquidated positions
    Expiry,
    Seed,               \* accounts read at start whatever the logs say
    MaxVersion,         \* bound: changes of a position, by holder
    MaxFeed,            \* bound: logs of one watcher not delivered yet
    MaxFaults           \* bound: RPC calls, watchers and transactions that fail

Account == Trader \cup {Backstop}
Position == Account \X Expiry

ASSUME IndexScope ==
    /\ IsFiniteSet(Trader) /\ IsFiniteSet(Expiry)
    /\ Backstop \notin Trader
    /\ Seed \subseteq Account
    /\ MaxVersion \in [Account -> Nat]
    /\ MaxFeed \in Nat /\ MaxFaults \in Nat

VARIABLES
    open,               \* positions with a net quantity, on chain
    version,            \* of each position: how often the chain changed it
    matured,            \* expiries that have passed
    matches,            \* OrderMatched logs on their way to the watcher
    liquidations,       \* PositionLiquidated logs
    settlements,        \* PositionSettled logs
    phase,              \* of the start-up
    replay,             \* facts the start-up has read and not applied
    reads,              \* answers of getUserPosition, not applied yet
    indexed,            \* positions the index holds for active
    seen,               \* history: newest version applied, or missed
    spoiled,            \* history: last applied fact stale, or lost
    beyond,             \* history: no log of this start was about it
    faults

chainVars == <<open, version, matured>>
feeds == <<matches, liquidations, settlements>>
indexState == <<phase, replay, reads, indexed, seen, spoiled, beyond>>
indexVars == <<indexState, faults>>
allIndexVars == <<chainVars, feeds, indexVars>>

Fact(p, active, ver) == [pos |-> p, active |-> active, version |-> ver]
HeldBy(p) == p[1]
ExpirationAt(p) == p[2]
IsMatured(p) == ExpirationAt(p) \in matured

MayChange(p) == version[p] < MaxVersion[HeldBy(p)]
Fault == faults < MaxFaults /\ faults' = faults + 1

\* What getUserPosition answers now.
Current(p) == Fact(p, p \in open, version[p])

\* Who takes over what is closed of p.
BackstopLeg(p) == <<Backstop, ExpirationAt(p)>>

\* The process starts beside a venue of any age: the watchers are set up, and
\* nothing has been read.
Init ==
    /\ open \in SUBSET Position
    /\ version = [p \in Position |-> 0]
    /\ matured \in SUBSET Expiry
    /\ matches = <<>> /\ liquidations = <<>> /\ settlements = <<>>
    /\ phase = "start"
    /\ replay = {}
    /\ reads = {}
    /\ indexed = {}
    /\ seen = version
    /\ spoiled = {}
    /\ beyond = Position
    /\ faults = 0

--------------------------------------------------------------------------------
(* The chain.                                                              *)

\* A match of one party of the pair: it opens, changes or closes a position.
Trade(p) ==
    /\ ~IsMatured(p) /\ MayChange(p) /\ Len(matches) < MaxFeed
    /\ \E active \in BOOLEAN :
          /\ p \in open \/ active
          /\ open' = IF active THEN open \cup {p} ELSE open \ {p}
          /\ version' = [version EXCEPT ![p] = @ + 1]
          /\ matches' = Append(matches, Fact(p, active, version'[p]))
    /\ UNCHANGED <<matured, liquidations, settlements, indexVars>>

\* A liquidation hands some or all of a position to the backstop, whose own
\* position it may net to nothing.
Liquidate(p) ==
    LET leg == BackstopLeg(p)
    IN  /\ p \in open /\ HeldBy(p) # Backstop /\ ~IsMatured(p)
        /\ MayChange(p) /\ MayChange(leg)
        /\ Len(liquidations) < MaxFeed
        /\ \E left \in SUBSET {p, leg} :
              /\ leg \in open \cup left
              /\ open' = (open \ {p, leg}) \cup left
        /\ version' = [version EXCEPT ![p] = @ + 1, ![leg] = @ + 1]
        /\ liquidations' = Append(liquidations, p)
        /\ UNCHANGED <<matured, matches, settlements, indexVars>>

Mature(e) ==
    /\ e \notin matured
    /\ matured' = matured \cup {e}
    /\ UNCHANGED <<open, version, feeds, indexVars>>

\* settlePosition of the positions of done, by anybody.
Settles(done) ==
    /\ open' = open \ done
    /\ version' = [p \in Position |-> version[p] + IF p \in done THEN 1 ELSE 0]
    /\ settlements' =
          settlements \o
            SetToSeq({Fact(p, FALSE, version'[p]) : p \in done})

RivalSettles(p) ==
    /\ p \in open /\ IsMatured(p)
    /\ Settles({p})
    /\ UNCHANGED <<matured, matches, liquidations, indexVars>>

--------------------------------------------------------------------------------
(* Handlers of live logs.                                                  *)

SeenAfter(facts) ==
    [p \in Position |->
        Max({seen[p]} \cup {f.version : f \in {g \in facts : g.pos = p}})]

\* setPosition of one fact or of several, each about a position of its own.
setPositions(facts) ==
    LET about == {fact.pos : fact \in facts}
        stale == {fact.pos : fact \in {f \in facts : f.version < seen[f.pos]}}
    IN  /\ indexed' = (indexed \ about)
                       \cup {fact.pos : fact \in {f \in facts : f.active}}
        /\ seen' = SeenAfter(facts)
        /\ spoiled' = (spoiled \ about) \cup stale
        /\ beyond' = beyond \ about

setPosition(fact) == setPositions({fact})

\* Facts that the index will never hear of.
Missed(facts) ==
    /\ seen' = SeenAfter(facts)
    /\ spoiled' = spoiled \cup {fact.pos : fact \in facts}
    /\ UNCHANGED <<indexed, beyond>>

onOrderMatched ==
    /\ matches # <<>>
    /\ setPosition(Head(matches))
    /\ matches' = Tail(matches)
    /\ UNCHANGED <<chainVars, liquidations, settlements, phase, replay, reads, faults>>

\* Variant: only the liquidated account is read back.
LegsReadOfUser(p) == {p}

\* After a liquidation the position is read back, and the backstop's.
LegsRead(p) == {p, BackstopLeg(p)}

\* reconcilePosition.  When the log is handled and when the node answers can be
\* taken for one moment, since the handler does nothing but ask.
onPositionLiquidated ==
    /\ liquidations # <<>>
    /\ reads' = reads \cup {Current(p) : p \in LegsRead(Head(liquidations))}
    /\ liquidations' = Tail(liquidations)
    /\ UNCHANGED <<chainVars, matches, settlements, phase, replay, indexed,
                   seen, spoiled, beyond, faults>>

onPositionSettled ==
    /\ settlements # <<>>
    /\ setPosition(Head(settlements))
    /\ settlements' = Tail(settlements)
    /\ UNCHANGED <<chainVars, matches, liquidations, phase, replay, reads, faults>>

\* The answer is applied, whatever was applied since it was given.
ReadApplied(fact) ==
    /\ setPosition(fact)
    /\ reads' = reads \ {fact}
    /\ UNCHANGED <<chainVars, feeds, phase, replay, faults>>

\* A read that fails is logged and nothing asks again.
ReadFails(fact) ==
    /\ Fault
    /\ Missed({fact})
    /\ reads' = reads \ {fact}
    /\ UNCHANGED <<chainVars, feeds, phase, replay>>

\* A watcher has no error handler: a log its poll does not return is lost.
LogLost ==
    /\ Fault
    /\ \/ /\ matches # <<>>
          /\ Missed({Head(matches)})
          /\ matches' = Tail(matches)
          /\ UNCHANGED <<liquidations, settlements>>
       \/ /\ liquidations # <<>>
          /\ LET p == Head(liquidations)
             IN  Missed({Current(p), Current(BackstopLeg(p))})
          /\ liquidations' = Tail(liquidations)
          /\ UNCHANGED <<matches, settlements>>
       \/ /\ settlements # <<>>
          /\ Missed({Head(settlements)})
          /\ settlements' = Tail(settlements)
          /\ UNCHANGED <<matches, liquidations>>
    /\ UNCHANGED <<chainVars, phase, replay, reads>>

--------------------------------------------------------------------------------
(* Start-up: window, replay, one read of what it left active, seeds.       *)

\* The window goes back to when the previous expiry was listed, so it holds
\* every log of that expiry and of the active ones.  Of an older position it
\* holds all there was since then, or nothing; an expiry that has matured is older
\* or the previous one, as others have passed since.  Of each position only the
\* last log matters: before the coordinator listens nobody sees the others.
bootstrap ==
    /\ phase = "start"
    /\ \E retired \in SUBSET matured :
       \E older \in SUBSET {p \in Position : ExpirationAt(p) \in retired} :
          LET logged == older \cup {p \in Position : ExpirationAt(p) \notin retired}
          IN  /\ replay' = {Current(p) : p \in logged}
              /\ beyond' = beyond \ logged
    /\ phase' = "replay"
    /\ UNCHANGED <<chainVars, feeds, reads, indexed, seen, spoiled, faults>>

\* The venue lists no expiry: nothing is replayed, and nothing reconciled.
NoTargets ==
    /\ phase = "start"
    /\ phase' = "seed"
    /\ UNCHANGED <<chainVars, feeds, replay, reads, indexed, seen, spoiled, beyond,
                   faults>>

\* The logs up to the head are dispatched while the watchers already run.
\* Where the last one of a position is a liquidation it is read back.
Replay ==
    /\ phase = "replay"
    /\ \E liquidated \in SUBSET {fact.pos : fact \in replay} :
          /\ setPositions({fact \in replay : fact.pos \notin liquidated})
          /\ reads' = reads \cup {Current(p) : p \in liquidated}
    /\ replay' = {}
    /\ phase' = "replayed"
    /\ UNCHANGED <<chainVars, feeds, faults>>

\* A chunk whose logs cannot be fetched is skipped.
ReplayFails ==
    /\ phase = "replay"
    /\ Fault
    /\ \E chunk \in SUBSET replay \ {{}} :
          /\ Missed(chunk)
          /\ replay' = replay \ chunk
    /\ UNCHANGED <<chainVars, feeds, phase, reads>>

\* reconcileAllPositions reads the positions that are active by now ...
ReconcileReads ==
    /\ phase = "replayed"
    /\ replay' = {Current(p) : p \in indexed}
    /\ phase' = "reconcile"
    /\ UNCHANGED <<chainVars, feeds, reads, indexed, seen, spoiled, beyond, faults>>

\* ... and applies what it read.
ReconcileApplies ==
    /\ phase = "reconcile"
    /\ setPositions(replay)
    /\ replay' = {}
    /\ phase' = "seed"
    /\ UNCHANGED <<chainVars, feeds, reads, faults>>

seedUsers ==
    /\ phase = "seed"
    /\ reads' = reads \cup {Current(p) : p \in {q \in open : HeldBy(q) \in Seed}}
    /\ phase' = "ready"
    /\ UNCHANGED <<chainVars, feeds, replay, indexed, seen, spoiled, beyond, faults>>

--------------------------------------------------------------------------------

Follow ==
    \/ onOrderMatched \/ onPositionLiquidated \/ onPositionSettled
    \/ \E fact \in reads : ReadApplied(fact)

StartUp ==
    \/ bootstrap \/ NoTargets \/ Replay
    \/ ReconcileReads \/ ReconcileApplies \/ seedUsers

IndexFails == ReplayFails \/ LogLost \/ \E fact \in reads : ReadFails(fact)

Market ==
    \/ \E p \in Position : Trade(p) \/ Liquidate(p)
    \/ \E e \in Expiry : Mature(e)
    \/ \E p \in Position : RivalSettles(p)

\* Nothing the chain did to p is still on its way to the index.
Quiet(p) ==
    /\ phase = "ready"
    /\ \A feed \in {matches, settlements} :
          \A i \in DOMAIN feed : feed[i].pos # p
    /\ \A fact \in reads : fact.pos # p
    /\ \A i \in DOMAIN liquidations :
          ExpirationAt(liquidations[i]) = ExpirationAt(p) =>
              p # liquidations[i] /\ HeldBy(p) # Backstop
================================================================================
