---------------------------- MODULE PortfolioRunner ----------------------------
(***************************************************************************)
(* The market maker's loop over its markets                                *)
(* (market-maker/src/core/portfolioRunner.ts): shared inputs, an update of *)
(* every market behind its breaker, the risk gate, a plan per market       *)
(* (OrderDiff) and one batch per venue.  What a market knows of its own    *)
(* orders is a mirror (bookTracker.ts), fed by the venue's logs and now    *)
(* and then replaced: on perps by what the chain says, on futures by a     *)
(* cache that was read once and that the same logs keep                    *)
(* (adapters/futures/ownOrders.ts).                                        *)
(*                                                                         *)
(* The venues are external: a batch of one venue lands whole or reverts,   *)
(* and the logs of a transaction arrive later, in order, or are lost.      *)
(* Fees, top-ups, the roll, /stop and the shutdown are left out.           *)
(***************************************************************************)
EXTENDS OrderDiff, FiniteSets

CONSTANTS
    Scenarios,      \* [markets: Seq, broken: venues that refuse, moves, faults,
                    \*  unheard: transactions not heard of when a cooldown ends]
    VenueOf,        \* market -> venue
    Cached,         \* markets that list a cache of their own orders
    Quotes,         \* [price, bid, ask, sides] of oracle, inventory and strategy
    quarantineThreshold

\* Both strategies put half a spread, a sum of nothing negative, on either side of one
\* price (effectiveSpread.ts:114, reservationPrice.ts:121).
ASSUME Quoted ==
    \A q \in Quotes : {q.price, q.bid, q.ask} \subseteq Int /\ q.bid <= q.ask

VARIABLES
    scenario, book, fair, logs, breach, room, late,         \* outside
    listening, ready, cache, own,                           \* each market
    quote, lastQuoteMidPrice, cooling,
    errors, waiting,                                        \* its breaker
    phase, todo, answer, batch, inputs, pauseNew,           \* the tick
    moves, faults, missed                                   \* bounds; lost logs

outside  == <<book, logs, fair, breach, room, late, missed>>
knows    == <<listening, ready, cache, own>>
market   == <<knows, quote, lastQuoteMidPrice, cooling, errors, waiting>>
tick_    == <<phase, todo, answer, batch, inputs, pauseNew>>
loopVars == <<scenario, outside, market, tick_, moves, faults>>

Markets == Range(scenario.markets)
IdsOf(orders) == {o.id : o \in Range(orders)}
NoLate == <<>>

--------------------------------------------------------------------------------
(* The venue (external).                                                   *)

Refused(orders, diff) ==
    \/ ~(diff.cancels \subseteq IdsOf(orders))
    \/ \E r \in diff.reduces : ~\E o \in Range(orders) : o.id = r.id /\ r.newSize < o.size
    \/ diff.creates # <<>> /\ ~room

\* An id no one refers to any more is free again.
FreshIds(m, n) ==
    LET known == UNION {IdsOf(book[m]), IdsOf(cache[m]), IdsOf(own[m]), IdsOf(answer), batch[m].cancels,
                        {r.id : r \in batch[m].reduces},
                        {e.order.id : e \in UNION {Range(logs[m][i]) : i \in DOMAIN logs[m]}},
                        IF m \in DOMAIN late THEN late[m].cancels \cup {r.id : r \in late[m].reduces} ELSE {}}
        fresh[i \in 1..n] ==
            Min((1..(Cardinality(known) + i)) \ (known \cup {fresh[j] : j \in 1..(i - 1)}))
    IN  fresh

Created(m, diff) ==
    LET ids == FreshIds(m, Len(diff.creates))
    IN  [i \in DOMAIN diff.creates |->
                              [id |-> ids[i], side |-> diff.creates[i].side,
                               price |-> diff.creates[i].price, size |-> diff.creates[i].size]]

Event(type, order) == [type |-> type, order |-> order]

EventsOf(orders, diff, created) ==
    LET touched(ids) == Among(orders, {o \in Range(orders) : o.id \in ids})
        reduced == touched({r.id : r \in diff.reduces})
    IN  [i \in DOMAIN touched(diff.cancels) |-> Event("removed", touched(diff.cancels)[i])]
        \o [i \in DOMAIN reduced |-> Event("updated", Reduced(reduced[i], diff.reduces))]
        \o [i \in DOMAIN created |-> Event("added", created[i])]

\* Logs of a market that has read its orders and does not listen yet are lost.
Emit(m, events) ==
    IF m \in listening THEN Append(logs[m], events) ELSE logs[m]

Unheard(m) == m \notin listening /\ phase \in {"list", "apply"} /\ Head(todo) = m

\* The orders and logs that the batches of some markets leave, all or none.
Lands(diffs) ==
    LET touched == {m \in DOMAIN diffs : diffs[m] # NoDiff}
    IN  IF \E m \in touched : Refused(book[m], diffs[m])
        THEN UNCHANGED <<book, logs, missed>>
        ELSE /\ book' = [m \in Markets |->
                            IF m \in touched THEN After(book[m], diffs[m]) \o Created(m, diffs[m])
                            ELSE book[m]]
             /\ logs' = [m \in Markets |->
                            IF m \in touched
                            THEN Emit(m, EventsOf(book[m], diffs[m], Created(m, diffs[m])))
                            ELSE logs[m]]
             /\ missed' = missed \cup {m \in touched : Unheard(m)}

Fill(m) ==
    \E o \in Range(book[m]) : \E left \in 0..(o.size - 1) :
        LET filled == [o EXCEPT !.size = left] IN
        /\ book' = [book EXCEPT ![m] =
                        IF left = 0 THEN Without(@, {o.id})
                        ELSE [i \in DOMAIN @ |-> IF @[i].id = o.id THEN filled ELSE @[i]]]
        /\ logs' = [logs EXCEPT ![m] =
                        Emit(m, <<Event(IF left = 0 THEN "removed" ELSE "updated", filled)>>)]
        /\ missed' = missed \cup {x \in {m} : Unheard(x)}
        /\ UNCHANGED <<fair, breach, room>>

\* Prices, inventory, collateral and fills move of themselves, for a while.
Move ==
    /\ moves > 0
    /\ moves' = moves - 1
    /\ \/ \E m \in Markets : Fill(m)
       \/ \E m \in Markets, q \in Quotes :
            fair' = [fair EXCEPT ![m] = q] /\ UNCHANGED <<book, logs, missed, breach, room>>
       \/ breach' = ~breach /\ UNCHANGED <<book, logs, missed, fair, room>>
       \/ room' = ~room /\ UNCHANGED <<book, logs, missed, fair, breach>>
    /\ UNCHANGED <<scenario, late, market, tick_, faults>>

Fault ==
    /\ faults > 0
    /\ faults' = faults - 1
    /\ UNCHANGED <<scenario, moves>>

\* The logs of the oldest transaction come in, or are lost.
Polled(m) == logs[m] # <<>> /\ logs' = [logs EXCEPT ![m] = Tail(@)]

LoseLogs(m) ==
    /\ Polled(m)
    /\ missed' = missed \cup {m}
    /\ Fault
    /\ UNCHANGED <<book, fair, breach, room, late, market, tick_>>

\* A batch that was broadcast again at another nonce, or whose submission threw, may
\* be mined after all.
LateLands ==
    /\ late # NoLate
    /\ late' = NoLate
    /\ Lands(late) \/ UNCHANGED <<book, logs, missed>>
    /\ UNCHANGED <<scenario, fair, breach, room, market, tick_, moves, faults>>

--------------------------------------------------------------------------------
(* BookTracker and the own-order sources.                                  *)

\* The Map of own orders after one event.
Noted(orders, e) ==
    CASE e.type = "removed" -> Without(orders, {e.order.id})
      [] e.type = "updated" ->
            [i \in DOMAIN orders |->
                IF orders[i].id = e.order.id THEN [orders[i] EXCEPT !.size = e.order.size] ELSE orders[i]]
      [] e.type = "added" ->
            IF e.order.id \in IdsOf(orders)
            THEN [i \in DOMAIN orders |-> IF orders[i].id = e.order.id THEN e.order ELSE orders[i]]
            ELSE Append(orders, e.order)

\* After the events of a transaction, one after another (heard is bound to a value: an
\* argument would be evaluated again at each of its uses).
Heard(orders, events) ==
    FoldLeft(LAMBDA heard, e : CHOOSE noted \in {Noted(o, e) : o \in {heard}} : TRUE,
             orders, events)

\* Futures passes on to the mirror what concerns an order of its cache, and an updated
\* order whole.  Every event of a transaction is about another order.
Routed(m, events) ==
    LET mine == Among(events, {e \in Range(events) :
                                e.type = "added" \/ e.order.id \in IdsOf(cache[m])})
    IN  IF m \in Cached
        THEN [i \in DOMAIN mine |->
                IF mine[i].type = "updated" THEN Event("added", mine[i].order) ELSE mine[i]]
        ELSE events

Deliver(m) ==
    /\ Polled(m)
    /\ own' = [own EXCEPT ![m] = Heard(@, Routed(m, Head(logs[m])))]
    /\ cache' = IF m \in Cached THEN [cache EXCEPT ![m] = Heard(@, Head(logs[m]))] ELSE cache
    /\ UNCHANGED <<scenario, book, fair, breach, room, late, missed, listening, ready, quote,
                   lastQuoteMidPrice, cooling, errors, waiting, tick_, moves, faults>>

\* The orders of the ids read before, as they are now: one that is gone reads
\* as zeros, which futures leaves out and perps takes for a sell of nothing.
Gone(id) == [id |-> id, side |-> "sell", price |-> 0, size |-> 0]

OrdersOf(m, ids) ==
    LET now(o) == LET there == {x \in Range(book[m]) : x.id = o.id}
                  IN  IF there = {} THEN Gone(o.id) ELSE CHOOSE x \in there : TRUE
        read == [i \in DOMAIN ids |-> now(ids[i])]
    IN  IF m \in Cached THEN Among(read, {o \in Range(read) : o.size > 0}) ELSE read

--------------------------------------------------------------------------------
(* CircuitBreaker.                                                         *)

canAttempt(m) == m \notin waiting

recordError(m) ==
    /\ errors' = [errors EXCEPT ![m] = IF @ < quarantineThreshold THEN @ + 1 ELSE @]
    /\ waiting' = IF errors'[m] >= quarantineThreshold THEN waiting \cup {m} ELSE waiting

recordSuccess(m) ==
    /\ errors' = [errors EXCEPT ![m] = 0]
    /\ waiting' = waiting \ {m}

--------------------------------------------------------------------------------
(* runPortfolioTick.                                                       *)

NoBatch == [m \in Markets |-> NoDiff]

LoopInit ==
    /\ scenario \in Scenarios
    /\ book \in [Markets -> {<<>>, <<[id |-> 1, side |-> "buy", price |-> tick, size |-> 2]>>}]
    /\ fair \in [Markets -> Quotes]
    /\ logs = [m \in Markets |-> <<>>]
    /\ breach = FALSE /\ room = TRUE /\ late = NoLate /\ missed = {}
    /\ listening = {} /\ ready = {} /\ cooling = {} /\ waiting = {}
    /\ cache = [m \in Markets |-> <<>>]
    /\ own = [m \in Markets |-> <<>>]
    /\ quote = fair
    /\ lastQuoteMidPrice = [m \in Markets |-> 0]
    /\ errors = [m \in Markets |-> 0]
    /\ phase = "idle" /\ todo = <<>> /\ answer = <<>> /\ batch = NoBatch
    /\ inputs = [fresh |-> TRUE, breach |-> FALSE, spiking |-> FALSE, allow |-> TRUE]
    /\ pauseNew = FALSE
    /\ moves = scenario.moves /\ faults = scenario.faults

\* Gas and collateral: stale past the grace, they stop new placements.
BeginTick ==
    /\ phase = "idle"
    /\ phase' = "update" /\ todo' = scenario.markets
    /\ \/ /\ inputs' = [inputs EXCEPT !.fresh = TRUE, !.breach = breach, !.spiking = FALSE]
          /\ pauseNew' = FALSE
          /\ UNCHANGED <<scenario, moves, faults>>
       \/ /\ inputs' = [inputs EXCEPT !.fresh = TRUE, !.breach = breach, !.spiking = TRUE]
          /\ pauseNew' = FALSE
          /\ Fault
       \/ /\ inputs' = [inputs EXCEPT !.fresh = FALSE]
          /\ pauseNew' \in {pauseNew, TRUE}
          /\ Fault
    /\ UNCHANGED <<outside, market, answer, batch>>

Updated ==
    /\ todo' = Tail(todo)
    /\ phase' = IF Len(todo) = 1 THEN "plan" ELSE "update"
    /\ answer' = <<>>
    /\ UNCHANGED <<scenario, outside, lastQuoteMidPrice, cooling, batch, inputs, pauseNew>>

Updating(m) == phase = "update" /\ m = Head(todo)

SkipUpdate(m) ==
    /\ Updating(m) /\ ~canAttempt(m)
    /\ Updated
    /\ UNCHANGED <<knows, quote, errors, waiting, moves, faults>>

Priced(m) == [quote EXCEPT ![m] = fair[m]]

Refreshes(m) ==
    /\ Updating(m) /\ canAttempt(m)
    /\ quote' = Priced(m)
    /\ UNCHANGED <<listening, ready, own, moves, faults>>

\* The price, when the last resync is not old.
UpdateReads(m) ==
    /\ Refreshes(m)
    /\ m \in ready
    /\ recordSuccess(m)
    /\ Updated
    /\ UNCHANGED cache

\* The price, and what the market knows of its own orders: the ids on chain, or on
\* futures, once it has started, its cache as it is before the snapshot of the book that
\* is awaited with it.
UpdateResyncs(m) ==
    /\ Refreshes(m)
    /\ IF m \in ready \cap Cached
       THEN phase' = "apply" /\ answer' = cache[m] /\ UNCHANGED cache
       ELSE phase' = "list" /\ answer' = book[m] /\ cache' = [cache EXCEPT ![m] = <<>>]
    /\ UNCHANGED <<scenario, outside, lastQuoteMidPrice, cooling, errors, waiting, todo, batch,
                   inputs, pauseNew>>

\* The orders of these ids.  Futures puts them in its cache, to what it heard meanwhile if
\* an earlier start left it listening, and lists that.
ListOrders ==
    /\ phase = "list"
    /\ phase' = "apply"
    /\ LET m == Head(todo)
           read == OrdersOf(m, answer)
       IN  IF m \in Cached
           THEN /\ answer' = Heard(cache[m], [i \in DOMAIN read |-> Event("added", read[i])])
                /\ cache' = [cache EXCEPT ![m] = answer']
           ELSE answer' = read /\ UNCHANGED cache
    /\ UNCHANGED <<scenario, outside, listening, ready, own, quote, lastQuoteMidPrice, cooling,
                   errors, waiting, todo, batch, inputs, pauseNew, moves, faults>>

\* Variant: a resync adds what it finds and forgets nothing.
fullResyncAdds(m) ==
    LET unknown == SelectSeq(answer, LAMBDA o : o.id \notin IdsOf(own[m]))
    IN  own' = [own EXCEPT ![m] = @ \o unknown] /\ listening' = listening \cup {m}

\* The mirror becomes the answer, whatever was heard while it was on its way.
fullResync(m) == own' = [own EXCEPT ![m] = answer] /\ listening' = listening \cup {m}

\* A market that starts reads the price once more.
UpdateApplies(m) ==
    /\ phase = "apply" /\ m = Head(todo)
    /\ quote' = IF m \in ready THEN quote ELSE Priced(m)
    /\ fullResync(m)
    /\ ready' = ready \cup {m}
    /\ recordSuccess(m)
    /\ Updated
    /\ UNCHANGED <<cache, moves, faults>>

\* A market whose update fails keeps what it had by then: a fresh price, or a mirror that
\* was replaced before the quoter (of a market that starts) or the position failed.
UpdateFails(m) ==
    /\ \/ /\ Updating(m) /\ canAttempt(m)
          /\ quote' \in {quote, Priced(m)}
          /\ UNCHANGED <<listening, ready, own>>
       \/ /\ phase \in {"list", "apply"} /\ m = Head(todo)
          /\ UNCHANGED <<quote, listening, ready, own>>
       \/ /\ phase = "apply" /\ m = Head(todo)
          /\ fullResync(m)
          /\ ready' \in {ready, ready \cup {m}}
          /\ quote' \in {quote, IF m \in ready THEN quote ELSE Priced(m)}
    /\ recordError(m)
    /\ Updated
    /\ Fault
    /\ UNCHANGED cache

plan(m) ==
    LET desired == computeQuotes(quote[m]) IN
    IF \/ m \notin ready \/ ~canAttempt(m) \/ m \in cooling
       \/ ~shouldRequote(own[m], desired)
       \/ inputs.spiking /\ ~Urgent(quote[m], lastQuoteMidPrice[m])
    THEN NoDiff
    ELSE planDiff(own[m], desired)

Placed(diff, allow) == IF allow THEN diff ELSE [diff EXCEPT !.creates = <<>>]

cancelsOf(m) == [NoDiff EXCEPT !.cancels = IdsOf(own[m])]

Active(diffs) == SelectSeq(scenario.markets, LAMBDA m : diffs[m] # NoDiff)

\* A tick with nothing to send is over.
Send(diffs, how) ==
    /\ todo' = Active(diffs)
    /\ batch' = IF todo' = <<>> THEN NoBatch ELSE diffs
    /\ phase' = IF todo' = <<>> THEN "idle" ELSE how

\* Variant: a breach only stops new placements.
riskGateKeeps ==
    /\ phase = "plan"
    /\ inputs.fresh /\ inputs.breach
    /\ Send([m \in Markets |-> Placed(plan(m), FALSE)], "halt")
    /\ UNCHANGED <<scenario, outside, market, answer, inputs, pauseNew, moves, faults>>

\* A breach read this tick cancels all that is known, one request per market.
riskGate ==
    /\ phase = "plan"
    /\ inputs.fresh /\ inputs.breach
    /\ Send([m \in Markets |-> cancelsOf(m)], "halt")
    /\ UNCHANGED <<scenario, outside, market, answer, inputs, pauseNew, moves, faults>>

\* Plans of all markets and the gate on what they place together.
planTick ==
    /\ phase = "plan"
    /\ ~(inputs.fresh /\ inputs.breach)
    /\ Send([m \in Markets |-> Placed(plan(m), ~pauseNew)], "submit")
    /\ inputs' = [inputs EXCEPT !.allow = room]
    /\ UNCHANGED <<scenario, outside, market, answer, pauseNew, moves, faults>>

--------------------------------------------------------------------------------
(* TxCoordinator, and the cancels of a halt.                               *)

\* What becomes of a request: mined (or reverted), refused, given up and perhaps mined
\* later, or mined now and, as it was sent at two nonces, again later.
Outcome(diffs, venue) ==
    \/ /\ venue \notin scenario.broken
       /\ Lands(diffs)
       /\ UNCHANGED <<late, scenario, moves, faults>>
    \/ /\ venue \in scenario.broken
       /\ UNCHANGED <<book, logs, missed, late, scenario, moves, faults>>
    \/ /\ Fault
       /\ \/ UNCHANGED <<late, book, logs, missed>>
          \/ /\ late = NoLate /\ late' = diffs
             /\ \/ UNCHANGED <<book, logs, missed>>
                \/ venue \notin scenario.broken /\ Lands(diffs)

\* The gate is asked before anything is sent; when it throws the tick is over and no
\* market has requoted.
canPlaceThrows ==
    /\ phase = "submit" /\ todo = Active(batch)
    /\ \E m \in Range(todo) : batch[m].creates # <<>>
    /\ phase' = "idle" /\ todo' = <<>> /\ batch' = NoBatch
    /\ Fault
    /\ UNCHANGED <<outside, market, answer, inputs, pauseNew>>

\* Once all are sent, every active market has requoted, its batch sent or not.
Submit ==
    /\ phase = "submit"
    /\ LET venue == VenueOf[Head(todo)]
           rest == SelectSeq(todo, LAMBDA m : VenueOf[m] # venue)
           diffs == [m \in {x \in Range(todo) : VenueOf[x] = venue} |-> Placed(batch[m], inputs.allow)]
           active == Range(Active(batch))
       IN  /\ Outcome(diffs, venue)
           /\ todo' = rest
           /\ IF rest # <<>>
              THEN UNCHANGED <<phase, batch, cooling, lastQuoteMidPrice>>
              ELSE /\ phase' = "idle" /\ batch' = NoBatch
                   /\ cooling' = cooling \cup active
                   /\ lastQuoteMidPrice' = [m \in Markets |->
                            IF m \in active THEN quote[m].price ELSE lastQuoteMidPrice[m]]
    /\ UNCHANGED <<fair, breach, room, knows, quote, errors, waiting,
                   answer, inputs, pauseNew>>

\* The requests of a halt run together, one per market, past the coordinator.
cancelAll(m) ==
    /\ phase = "halt" /\ m \in Range(todo)
    /\ Outcome([x \in {m} |-> batch[m]], VenueOf[m])
    /\ todo' = SelectSeq(todo, LAMBDA x : x # m)
    /\ IF todo' # <<>> THEN UNCHANGED <<phase, batch>> ELSE phase' = "idle" /\ batch' = NoBatch
    /\ UNCHANGED <<fair, breach, room, market, answer, inputs, pauseNew>>

--------------------------------------------------------------------------------
(* Timers.                                                                 *)

\* Nothing in the code waits for the logs of a batch: a cooldown that ends before
\* they arrive places its levels twice, up to the bound.
Timer(unchanged) == UNCHANGED <<scenario, outside, knows, quote, lastQuoteMidPrice, errors,
                                tick_, moves, faults, unchanged>>

CooldownOver(m) ==
    /\ m \in cooling /\ Len(logs[m]) <= scenario.unheard
    /\ cooling' = cooling \ {m}
    /\ Timer(waiting)

\* A tick takes the time once, when it starts.
BackoffOver(m) ==
    phase = "idle" /\ m \in waiting /\ waiting' = waiting \ {m} /\ Timer(cooling)

Tick ==
    \/ BeginTick \/ ListOrders \/ riskGate \/ planTick \/ canPlaceThrows \/ Submit
    \/ \E m \in Markets :
        \/ SkipUpdate(m) \/ UpdateReads(m) \/ UpdateResyncs(m) \/ UpdateApplies(m) \/ UpdateFails(m)
        \/ cancelAll(m)

LoopNext ==
    \/ Tick \/ Move \/ LateLands
    \/ \E m \in Markets : LoseLogs(m) \/ Deliver(m) \/ CooldownOver(m) \/ BackoffOver(m)

\* Ticks begin and end for ever (a step of Tick is always enabled: this is its
\* weak fairness).  A backoff ends, which a tick sees when it starts, and an update finds
\* its last resync old, not every time but again and again.  Cooldowns end, logs that are
\* not lost arrive, and what is in flight is mined or dropped in the end.
Fairness ==
    /\ []<>(phase = "idle") /\ []<>(phase # "idle")
    /\ []<>(late = NoLate)
    /\ \A m \in UNION {Range(s.markets) : s \in Scenarios} :
        /\ []<>(m \notin waiting)
        /\ []<>(m \in Markets => phase = "apply" /\ Head(todo) = m)
        /\ WF_logs(m \in Markets /\ Polled(m))
        /\ WF_loopVars(m \in Markets /\ CooldownOver(m))

LoopSpec == LoopInit /\ [][LoopNext]_loopVars /\ Fairness

--------------------------------------------------------------------------------
(* Properties.                                                             *)

Locks(orders) == \E p \in PricesOf(orders, "buy"), q \in PricesOf(orders, "sell") : p >= q

\* What a plan keeps of the orders a market knows, with what it adds, never has
\* a bid at an ask of its own: the venue would match the two.
PlanNeverCrosses ==
    [][phase = "plan" /\ phase' = "submit" =>
        \A m \in Markets : batch'[m] # NoDiff =>
            ~Locks(After(own[m], batch'[m]) \o batch'[m].creates)]_loopVars

\* The book holds the quotes of the last price, up to the allowance.
AsQuoted(m) ==
    LET desired == computeQuotes(fair[m])
        near(a, b, price) == ~sizeDeltaAboveThreshold(price, a - b)
    IN  /\ \A i \in Range(desired) :
            LET rests == TotalSize(LevelOf(book[m], i)) IN
            near(i.size, rests, i.price) /\ near(rests, TotalSize(LevelOf(desired, i)), i.price)
        /\ \A o \in Range(book[m]) : ~Stale(o, desired)

Healthy == {m \in Markets : VenueOf[m] \notin scenario.broken}

\* No market that lists a cache has missed the logs of a transaction: what is wrong in the
\* cache then, no resync puts right.
NoGhost == missed \cap Cached = {}

\* Once markets, budget and limits are quiet, every market of a venue that takes
\* orders rests what its last price asks for, and sends nothing any more: no failed or
\* late batch, none that lands twice, no gate that throws, no resync that overwrites what
\* was heard meanwhile and no breaker leaves it short, doubled or stale, and no other
\* venue that refuses holds it up.  A log may be lost on perps; on futures the premise
\* (NoGhost) is that none is.
QuotesSettle ==
    <>[](room /\ ~breach /\ NoGhost) =>
        \A m \in UNION {Range(s.markets) : s \in Scenarios} :
            <>[](m \in Markets /\ VenueOf[m] \notin scenario.broken => AsQuoted(m) /\ batch[m] = NoDiff)

\* A breach that lasts empties the books of the venues that take orders, although a batch
\* sent before may land after the halt's cancels, or once more, and a mirror may be behind
\* what its market has resting.  Under the same premise: of an order that a futures market
\* has not heard of, or takes for resting when it is gone, the halt knows nothing better.
BreachEmptiesBook ==
    <>[](breach /\ NoGhost) => <>[](\A m \in Healthy : book[m] = <<>>)

================================================================================
