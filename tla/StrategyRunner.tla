---------------------------- MODULE StrategyRunner ----------------------------
(***************************************************************************)
(* One StrategyRunner task (application/strategy_runner.py) with the parts *)
(* it calls on every candle: PositionManager (domain/position_manager.py), *)
(* the strategy, RiskManager, OrderExecutor and, behind that, create_order *)
(* and the event bus.  The runner is sequential; what makes it hard is     *)
(* that each of its awaits may fail, and that it may be cancelled at any   *)
(* of them, between an order, its event and the position it opens.         *)
(*                                                                         *)
(* Orders are numbered in the order they reach the exchange, and a         *)
(* position has the number of the BUY order that opened it.  Prices are    *)
(* levels, percentages are distances in levels, every size is one unit.    *)
(* Only longs: a position is opened by a BUY, and for a spot symbol        *)
(* reconcile() finds none on the exchange.                                 *)
(***************************************************************************)
EXTENDS Integers, FiniteSets

CONSTANTS
    Prices,        \* price levels
    Distances,     \* stop_loss_pct and take_profit_pct, in levels; 0 = None
    DefaultStop,   \* the bot's own, for signals that carry none
    DefaultTake,
    MaxCandles,    \* bound: candles the market data yields
    MaxOrders,     \* bound: orders that reach the exchange
    InfoLogs,      \* values of: level INFO is enabled for the stdlib loggers
    CallsMayFail   \* get_balance, publish, on_start and on_candle may raise

ASSUME PricesAssumption == Prices \subseteq Nat \ {0} /\ Prices # {}
ASSUME DistancesAssumption ==
    Distances \subseteq Nat /\ {0, DefaultStop, DefaultTake} \subseteq Distances
ASSUME RunnerBoundsAssumption == MaxCandles \in Nat /\ MaxOrders \in Nat
ASSUME RunnerSwitchesAssumption ==
    InfoLogs \subseteq BOOLEAN /\ CallsMayFail \in BOOLEAN

Orders == 1..MaxOrders
Candles == {k \in [low : Prices, high : Prices, close : Prices] :
               k.low <= k.close /\ k.close <= k.high}
Positions == [order : Orders, entry : Int, stop : Distances, take : Distances]

\* An exit names the position it closes, an entry none (0); stop and take are
\* the metadata of an entry.
Signals == [side : {"buy", "sell"}, exitOf : 0..MaxOrders, price : Int,
            stop : Distances, take : Distances]

NoSignal == [side |-> "sell", exitOf |-> 0, price |-> 0, stop |-> 0, take |-> 0]

VARIABLES
    info,       \* the INFO switch, fixed at start
    candles,    \* how many candles were consumed
    candle,     \* the one in hand
    pc,         \* where the task is
    cur,        \* the signal in hand
    queue,      \* exit signals of this candle still to be executed
    tracked,    \* PositionManager._positions, listed by order number
    placed,     \* how many orders exist on the exchange
    side,       \* of each of them: its side,
    exitOf,     \* and the position it closes, or 0
    acked,      \* orders whose create_order returned
    announced,  \* orders whose NEW_TRADE was published
    exited,     \* ghost: positions check_exits has returned a signal for
    tried       \* ghost: those whose signal was ordered, refused or rejected

orderVars == <<placed, side, exitOf, acked>>
vars == <<info, candles, candle, pc, cur, queue, tracked, orderVars, announced,
          exited, tried>>

Awaits == {"start", "candle", "check", "order", "publish", "reject"}
Locations == Awaits \cup {"exits", "dead", "cancelled"}

TypeOK ==
    /\ info \in InfoLogs
    /\ candles \in 0..MaxCandles
    /\ candle \in Candles
    /\ pc \in Locations
    /\ cur \in Signals
    /\ queue \subseteq Signals
    /\ tracked \subseteq Positions
    /\ placed \in 0..MaxOrders
    /\ side \in [Orders -> {"buy", "sell"}]
    /\ exitOf \in [Orders -> 0..MaxOrders]
    /\ acked \subseteq 1..placed
    /\ announced \subseteq acked
    /\ exited \subseteq Orders
    /\ tried \subseteq exited

Init ==
    /\ info \in InfoLogs
    /\ candles = 0
    /\ candle \in Candles
    /\ pc = "start"
    /\ cur = NoSignal
    /\ queue = {}
    /\ tracked = {}
    /\ placed = 0
    /\ side = [o \in Orders |-> "buy"]
    /\ exitOf = [o \in Orders |-> 0]
    /\ acked = {}
    /\ announced = {}
    /\ exited = {}
    /\ tried = {}

-----------------------------------------------------------------------------
(* PositionManager *)

StopPrice(p) == p.entry - p.stop
TakePrice(p) == p.entry + p.take
StopHit(p, k) == p.stop # 0 /\ k.low <= StopPrice(p)
TakeHit(p, k) == p.take # 0 /\ k.high >= TakePrice(p)

\* _check_single: the stop is looked at first.
ExitSignal(p, k) ==
    [side |-> "sell", exitOf |-> p.order,
     price |-> IF StopHit(p, k) THEN StopPrice(p) ELSE TakePrice(p),
     stop |-> 0, take |-> 0]

\* Seeded fault: the positions that are exited stay on the list.
KeepAll(hits) == tracked

\* Seeded fault: the collected indexes are popped front to back, so that each
\* pop after the first takes a position further on.
PopFromFront(hits) ==
    LET First == {p \in hits : \A q \in hits : p.order <= q.order}
        After(p) == {q \in tracked : q.order > p.order}
        Next1(p) == {q \in After(p) : \A r \in After(p) : q.order <= r.order}
    IN  tracked \ (First \cup UNION {Next1(p) : p \in hits \ First})

\* The positions check_exits leaves on its list when it exits those in hits.
Remaining(hits) == tracked \ hits

\* open(): at the price of the order, with the signal's own distances, or else
\* the bot's.
Opened(o, price) ==
    [order |-> o, entry |-> price,
     stop |-> IF cur.stop # 0 THEN cur.stop ELSE DefaultStop,
     take |-> IF cur.take # 0 THEN cur.take ELSE DefaultTake]

-----------------------------------------------------------------------------
(* run(): a candle, the exits it triggers, and what the strategy makes of it *)

\* The strategy's on_start, before the first candle is asked for.
OnStart ==
    /\ pc = "start"
    /\ pc' = "candle"
    /\ UNCHANGED <<info, candles, candle, cur, queue, tracked, orderVars,
                   announced, exited, tried>>

OnStartRaises ==
    /\ CallsMayFail /\ pc = "start"
    /\ pc' = "dead"
    /\ UNCHANGED <<info, candles, candle, cur, queue, tracked, orderVars,
                   announced, exited, tried>>

\* The candle arrives and check_exits runs on it, without an await between.
Candle(k) ==
    LET hits == {p \in tracked : StopHit(p, k) \/ TakeHit(p, k)} IN
    /\ pc = "candle" /\ candles < MaxCandles
    /\ candles' = candles + 1
    /\ candle' = k
    /\ tracked' = Remaining(hits)
    /\ queue' = {ExitSignal(p, k) : p \in hits}
    /\ exited' = exited \cup {p.order : p \in hits}
    /\ pc' = "exits"
    /\ UNCHANGED <<info, cur, orderVars, announced, tried>>

\* _check_exits: one signal after the other, oldest position first.
NextExit ==
    /\ pc = "exits"
    /\ \E s \in queue :
          /\ \A t \in queue : s.exitOf <= t.exitOf
          /\ cur' = s
          /\ queue' = queue \ {s}
    /\ pc' = "check"
    /\ UNCHANGED <<info, candles, candle, tracked, orderVars, announced, exited,
                   tried>>

\* on_candle gives no signal, or one at the close; a strategy is free to choose.
NoEntry ==
    /\ pc = "exits" /\ queue = {}
    /\ pc' = "candle"
    /\ UNCHANGED <<info, candles, candle, cur, queue, tracked, orderVars,
                   announced, exited, tried>>

Entry(s, stop, take) ==
    /\ pc = "exits" /\ queue = {}
    /\ s = "sell" => stop = 0 /\ take = 0
    /\ cur' = [side |-> s, exitOf |-> 0, price |-> candle.close,
               stop |-> stop, take |-> take]
    /\ pc' = "check"
    /\ UNCHANGED <<info, candles, candle, queue, tracked, orderVars, announced,
                   exited, tried>>

OnCandleRaises ==
    /\ CallsMayFail /\ pc = "exits" /\ queue = {}
    /\ pc' = "dead"
    /\ UNCHANGED <<info, candles, candle, cur, queue, tracked, orderVars,
                   announced, exited, tried>>

-----------------------------------------------------------------------------
(* _execute_signal: RiskManager.check, OrderExecutor.execute, open() *)

\* Where the loop goes on: with the exits it is in, or with the next candle.
Resume == IF cur.exitOf # 0 THEN "exits" ELSE "candle"

Tried == tried \cup ({cur.exitOf} \ {0})

\* get_balance returned and the signal passes; its size, price and the balance
\* are data this module leaves open.
Approve ==
    /\ pc = "check"
    /\ pc' = "order"
    /\ UNCHANGED <<info, candles, candle, cur, queue, tracked, orderVars,
                   announced, exited, tried>>

\* RiskRejectedError, or OrderExecutionError because create_order raised and no
\* order came of it.
Reject ==
    /\ pc \in {"check", "order"}
    /\ pc' = "reject"
    /\ tried' = Tried
    /\ UNCHANGED <<info, candles, candle, cur, queue, tracked, orderVars,
                   announced, exited>>

\* get_balance still raises after its retries: no handler for that.
BalanceFails ==
    /\ CallsMayFail /\ pc = "check"
    /\ pc' = "dead"
    /\ UNCHANGED <<info, candles, candle, cur, queue, tracked, orderVars,
                   announced, exited, tried>>

PlaceOrder ==
    /\ placed < MaxOrders
    /\ placed' = placed + 1
    /\ side' = [side EXCEPT ![placed + 1] = cur.side]
    /\ exitOf' = [exitOf EXCEPT ![placed + 1] = cur.exitOf]

CreateOrder ==
    /\ pc = "order"
    /\ PlaceOrder
    /\ acked' = acked \cup {placed + 1}
    /\ tried' = Tried
    /\ pc' = "publish"
    /\ UNCHANGED <<info, candles, candle, cur, queue, tracked, announced, exited>>

\* Seeded fault: an order whose reply is lost is taken for confirmed.
ReplyLostConfirmed ==
    /\ pc = "order"
    /\ PlaceOrder
    /\ tried' = Tried
    /\ pc' = "publish"
    /\ UNCHANGED <<info, candles, candle, cur, queue, tracked, acked, announced,
                   exited>>

\* The order exists, its reply is lost: reported as execution_failed.
CreateOrderReplyLost ==
    /\ pc = "order"
    /\ PlaceOrder
    /\ tried' = Tried
    /\ pc' = "reject"
    /\ UNCHANGED <<info, candles, candle, cur, queue, tracked, acked, announced,
                   exited>>

\* NEW_TRADE is out; a BUY is handed to the PositionManager, at the price the
\* exchange reports: the rounded limit, or another.  open() logs that with
\* keyword arguments a stdlib logger refuses -- once it has to format them.
PublishTrade ==
    /\ pc = "publish"
    /\ announced' = announced \cup {placed}
    /\ IF cur.side = "buy"
       THEN \E price \in Prices : tracked' = tracked \cup {Opened(placed, price)}
       ELSE UNCHANGED tracked
    /\ pc' = IF cur.side = "buy" /\ info THEN "dead" ELSE Resume
    /\ UNCHANGED <<info, candles, candle, cur, queue, orderVars, exited, tried>>

\* Seeded fault: a NEW_TRADE that cannot be published is passed over.
PublishTradePassedOver ==
    /\ CallsMayFail /\ pc = "publish"
    /\ pc' = Resume
    /\ UNCHANGED <<info, candles, candle, cur, queue, tracked, orderVars,
                   announced, exited, tried>>

\* publish raises: the order stands, unannounced and untracked.
PublishTradeFails ==
    /\ CallsMayFail /\ pc = "publish"
    /\ pc' = "dead"
    /\ UNCHANGED <<info, candles, candle, cur, queue, tracked, orderVars,
                   announced, exited, tried>>

\* Seeded fault: the handlers sit around the loop over the exits.
PublishErrorAndLeave ==
    /\ pc = "reject"
    /\ pc' = "candle"
    /\ UNCHANGED <<info, candles, candle, cur, queue, tracked, orderVars,
                   announced, exited, tried>>

\* STRATEGY_ERROR is published and the loop goes on.
PublishError ==
    /\ pc = "reject"
    /\ pc' = Resume
    /\ UNCHANGED <<info, candles, candle, cur, queue, tracked, orderVars,
                   announced, exited, tried>>

PublishErrorFails ==
    /\ CallsMayFail /\ pc = "reject"
    /\ pc' = "dead"
    /\ UNCHANGED <<info, candles, candle, cur, queue, tracked, orderVars,
                   announced, exited, tried>>

\* stop_strategy cancels the task at whatever it awaits; a create_order that
\* was under way may have reached the exchange.
Cancel ==
    /\ pc \in Awaits
    /\ pc' = "cancelled"
    /\ \/ UNCHANGED <<placed, side, exitOf>>
       \/ pc = "order" /\ PlaceOrder
    /\ UNCHANGED <<info, candles, candle, cur, queue, tracked, acked, announced,
                   exited, tried>>

-----------------------------------------------------------------------------

Execute ==
    \/ Approve \/ Reject \/ BalanceFails
    \/ CreateOrder \/ CreateOrderReplyLost
    \/ PublishTrade \/ PublishTradeFails
    \/ PublishError \/ PublishErrorFails

OnCandle ==
    \/ NoEntry \/ OnCandleRaises
    \/ \E s \in {"buy", "sell"}, stop, take \in Distances : Entry(s, stop, take)

Next ==
    \/ OnStart \/ OnStartRaises
    \/ \E k \in Candles : Candle(k)
    \/ NextExit \/ OnCandle \/ Execute
    \/ Cancel

Spec == Init /\ [][Next]_vars

\* What the task awaits returns or raises, and the event loop runs it on.
Fairness == WF_vars(NextExit \/ OnCandle \/ Execute)

FairSpec == Spec /\ Fairness

-----------------------------------------------------------------------------
(* Properties *)

Ended == pc \in {"dead", "cancelled"}

\* A position is sold by at most one exit, however long the price stays beyond
\* its stop and whether or not that exit was acknowledged.
OneExitPerPosition ==
    \A o, q \in 1..placed : exitOf[o] # 0 /\ exitOf[o] = exitOf[q] => o = q

\* Between two candles every BUY the exchange has confirmed is watched by the
\* PositionManager or was signalled to be exited, and never both.
WatchedOrExited ==
    pc = "candle" =>
        \A o \in acked : side[o] = "buy" =>
            ((\E p \in tracked : p.order = o) <=> o \notin exited)

\* The trade history has no hole: a confirmed order that was not announced is
\* the last thing its runner did.
HistoryHasNoHole ==
    \A o \in acked \ announced : o = placed /\ (pc = "publish" \/ Ended)

\* One exit that is rejected or fails does not take the others of its candle
\* with it: each is tried, unless the runner ends.
ExitsTried == \A o \in Orders : o \in exited ~> (o \in tried \/ Ended)

\* Errors on a candle do not end the loop: with every call of the runner to the
\* outside answered, only stop_strategy ends it.
LoopKeepsRunning == pc # "dead"

\* PositionManager tracks the open positions: a confirmed BUY for which no exit
\* order reached the exchange is still watched on the next candle.
OpenIsTracked ==
    pc = "candle" =>
        \A o \in announced : side[o] = "buy" =>
            \/ \E p \in tracked : p.order = o
            \/ \E q \in 1..placed : exitOf[q] = o
=============================================================================
