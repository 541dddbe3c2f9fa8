------------------------------ MODULE Backtest ------------------------------
(***************************************************************************)
(* A backtest: BacktestRunner (application/backtest_runner.py) feeding     *)
(* historical candles to a strategy, RiskManager and OrderExecutor, with   *)
(* SimulatedExchangeAdapter (infrastructure/simulated_exchange.py) as the  *)
(* exchange.  Every signal has a price, so every order is a LIMIT order:   *)
(* it rests until the range of a later candle holds its price.  Nothing is *)
(* reserved for a resting order, so a fill may find the money gone; that   *)
(* exception leaves on_candle, and with it run().                          *)
(*                                                                         *)
(* Orders are numbered as they are placed, and the list of trades has one  *)
(* entry per order: they are kept together here.  A sum of money is in     *)
(* units of 1/FeeDen of the quote currency, so that a fee is whole.        *)
(***************************************************************************)
EXTENDS Strategies, FiniteSets, SequencesExt

CONSTANTS
    Prices,         \* price levels, positive
    InitQuote, InitBase,  \* initial_balance
    FeeNum, FeeDen, \* fee_rate
    PctNum, PctDen, \* max_position_pct of RiskManager
    MinLot,         \* min_lot
    SnapshotEvery,  \* equity_snapshot_every
    MaxCandles      \* bound: candles in the file

ASSUME PricesAssumption == Prices \subseteq Nat \ {0}
ASSUME SomePriceAssumption == Prices # {}
ASSUME FundsAssumption == InitQuote \in Nat /\ InitBase \in Nat
ASSUME SizesAssumption ==
    /\ OrderSize \in Nat \ {0} /\ MinLot \in Nat \ {0}
    /\ SnapshotEvery \in Nat \ {0} /\ MaxCandles \in Nat
    /\ \A p \in Prices : DcaAmount \div p \in Nat
\* Fees are a share of the notional, and the share of the balance one order may
\* take leaves room for its fee: 0.95 and 0.001 by default.
ASSUME RatesAssumption ==
    /\ FeeNum \in Nat /\ FeeDen \in Nat \ {0} /\ FeeNum <= FeeDen
    /\ PctNum \in Nat \ {0} /\ PctDen \in Nat \ {0}
    /\ PctNum * (FeeDen + FeeNum) <= PctDen * FeeDen

BacktestCandles == {k \in [low : Prices, high : Prices, close : Prices] :
                       k.low <= k.close /\ k.close <= k.high}

NoCost == [known |-> FALSE, amount |-> 0]
Known(x) == [known |-> TRUE, amount |-> x]
Costs == [known : BOOLEAN, amount : Int]

VARIABLES
    phase,     \* what run() is doing
    kind,      \* the strategy,
    strategy,  \* and its state
    candle,    \* the candle in hand
    index,     \* candles taken
    orders,    \* orders placed and, with fee and pnl, the trades recorded
    open,      \* _open_orders, by number
    queue,     \* those on_candle has still to look at
    kept,      \* those it has left open
    fills,     \* _filled_orders, by number, in the order of the fills
    quote,     \* the balances
    base,
    buyCost,   \* _last_buy_cost
    curve,     \* _equity_curve
    result,    \* of _build_result
    netSignals, firstCell  \* ghosts for the grid: sells less buys; first cell

exchangeVars == <<open, queue, kept, fills, quote, base>>
recordVars == <<orders, buyCost, curve, result>>
strategyVars == <<strategy, netSignals, firstCell>>
backtestVars == <<phase, kind, candle, index, exchangeVars, recordVars,
                  strategyVars>>

Order == [side : Sides, size : Nat, price : Nat, after : Nat, fee : Nat,
          pnl : Costs]
NoResult == [drop |-> 0, peak |-> 1, closed |-> 0, wins |-> 0]

BacktestTypeOK ==
    /\ phase \in {"new", "candle", "match", "signal", "snapshot", "done", "aborted"}
    /\ kind \in Kinds
    /\ candle \in BacktestCandles
    /\ index \in 0..MaxCandles
    /\ orders \in Seq(Order)
    /\ open \subseteq DOMAIN orders
    /\ queue \subseteq open /\ kept \subseteq open
    /\ fills \in Seq(DOMAIN orders)
    /\ quote \in Nat /\ base \in Nat
    /\ buyCost \in Costs

BacktestInit ==
    /\ phase = "new" /\ kind = "cross" /\ strategy = NewStrategy
    /\ candle = CHOOSE k \in BacktestCandles : TRUE
    /\ index = 0
    /\ orders = <<>> /\ buyCost = NoCost /\ curve = <<>> /\ result = NoResult
    /\ open = {} /\ queue = {} /\ kept = {} /\ fills = <<>>
    /\ quote = InitQuote * FeeDen /\ base = InitBase
    /\ netSignals = 0 /\ firstCell = -1

-----------------------------------------------------------------------------
(* The simulated exchange *)

Notional(o) == o.size * o.price
Fee(o) == Notional(o) * FeeNum
Value(o) == Notional(o) * FeeDen

\* The number of the last order filled decides the fee a trade records.
LastFillFee == IF fills = <<>> THEN 0 ELSE Fee(orders[fills[Len(fills)]])

\* Seeded fault: a buyer is not asked for the fee.
AffordableButFee(o) ==
    IF o.side = "buy" THEN Value(o) <= quote ELSE o.size <= base

\* What _apply_fill asks before it moves anything.
Affordable(o) ==
    IF o.side = "buy" THEN Value(o) + Fee(o) <= quote ELSE o.size <= base

InRange(o) == candle.low <= o.price /\ o.price <= candle.high

\* Seeded fault: the fee of a sale is not charged.
FillFreeSale(i) ==
    LET o == orders[i]
    IN /\ quote' = IF o.side = "buy" THEN quote - Value(o) - Fee(o)
                                     ELSE quote + Value(o)
       /\ base' = IF o.side = "buy" THEN base + o.size ELSE base - o.size
       /\ fills' = Append(fills, i)

Fill(i) ==
    LET o == orders[i]
    IN /\ quote' = IF o.side = "buy" THEN quote - Value(o) - Fee(o)
                                     ELSE quote + Value(o) - Fee(o)
       /\ base' = IF o.side = "buy" THEN base + o.size ELSE base - o.size
       /\ fills' = Append(fills, i)

\* Seeded fault: an order that was filled stays on the list.
MatchKeepingFilled(i) ==
    /\ phase = "match" /\ i \in queue /\ \A j \in queue : i <= j
    /\ InRange(orders[i]) => Affordable(orders[i])
    /\ queue' = queue \ {i}
    /\ kept' = kept \cup {i}
    /\ IF InRange(orders[i]) THEN Fill(i) ELSE UNCHANGED <<fills, quote, base>>
    /\ UNCHANGED <<phase, open>>

\* One turn of the loop of on_candle, in the order of the list.
Match(i) ==
    /\ phase = "match" /\ i \in queue /\ \A j \in queue : i <= j
    /\ InRange(orders[i]) => Affordable(orders[i])
    /\ queue' = queue \ {i}
    /\ IF InRange(orders[i])
       THEN Fill(i) /\ UNCHANGED kept
       ELSE kept' = kept \cup {i} /\ UNCHANGED <<fills, quote, base>>
    /\ UNCHANGED <<phase, open>>

\* OrderExecutionError leaves on_candle before _open_orders is replaced, and
\* run() with it: there is no result.
MatchRaises(i) ==
    /\ phase = "match" /\ i \in queue /\ \A j \in queue : i <= j
    /\ InRange(orders[i]) /\ ~Affordable(orders[i])
    /\ phase' = "aborted"
    /\ UNCHANGED exchangeVars

MatchDone ==
    /\ phase = "match" /\ queue = {}
    /\ open' = kept
    /\ phase' = "signal"
    /\ UNCHANGED <<queue, kept, fills, quote, base>>

-----------------------------------------------------------------------------
(* The runner *)

Start(k) ==
    /\ phase = "new"
    /\ kind' = k
    /\ phase' = "candle"
    /\ UNCHANGED <<candle, index, exchangeVars, recordVars, strategyVars>>

TakeCandle(k) ==
    /\ phase = "candle" /\ index < MaxCandles
    /\ candle' = k
    /\ index' = index + 1
    /\ phase' = "match"
    /\ queue' = open /\ kept' = {}
    /\ UNCHANGED <<kind, open, fills, quote, base, recordVars, strategyVars>>

MatchOrders ==
    /\ MatchDone \/ \E i \in queue : Match(i) \/ MatchRaises(i)
    /\ UNCHANGED <<kind, candle, index, recordVars, strategyVars>>

\* Seeded fault: the fee is left out of what an order may take.
ApprovedUncapped(o) ==
    /\ o.size >= MinLot
    /\ IF o.side = "buy" THEN Value(o) <= quote ELSE o.size <= base

\* RiskManager.check; the cap is on the quote balance, for a sale as well.
Approved(o) ==
    /\ o.size >= MinLot
    /\ IF o.side = "buy" THEN Value(o) <= quote ELSE o.size <= base
    /\ Value(o) * PctDen <= quote * PctNum

\* Seeded fault: the cost of a buy serves every later sale.
RecordNeverCleared(o) ==
    LET amount == Value(o) - LastFillFee - buyCost.amount
        pnl == IF o.side = "sell" /\ buyCost.known THEN Known(amount) ELSE NoCost
    IN /\ orders' = Append(orders, [o EXCEPT !.fee = LastFillFee, !.pnl = pnl])
       /\ buyCost' = IF o.side = "buy" THEN Known(Value(o) + LastFillFee) ELSE buyCost

\* _on_new_trade, called while the order is placed.
Record(o) ==
    LET amount == Value(o) - LastFillFee - buyCost.amount
        pnl == IF o.side = "sell" /\ buyCost.known THEN Known(amount) ELSE NoCost
    IN /\ orders' = Append(orders, [o EXCEPT !.fee = LastFillFee, !.pnl = pnl])
       /\ buyCost' = IF o.side = "buy" THEN Known(Value(o) + LastFillFee) ELSE NoCost

\* create_order: a LIMIT order joins the open ones, and nothing is reserved.
PlaceLimit == open' = open \cup {Len(orders) + 1}

\* `after` is a ghost: how many fills there were when the order was approved.
Signal(r) ==
    LET next == Step(kind, strategy, candle.close, r)
        o == [side |-> next.side, size |-> SizeOf(kind, candle.close),
              price |-> candle.close, after |-> Len(fills), fee |-> 0,
              pnl |-> NoCost]
    IN /\ phase = "signal"
       /\ phase' = "snapshot"
       /\ strategy' = next.s
       /\ firstCell' = IF firstCell = -1 THEN next.s.cell ELSE firstCell
       /\ netSignals' = CASE next.side = "buy" -> netSignals - 1
                          [] next.side = "sell" -> netSignals + 1
                          [] OTHER -> netSignals
       /\ IF next.side \in Sides /\ Approved(o)
          THEN PlaceLimit /\ Record(o)
          ELSE UNCHANGED <<orders, buyCost, open>>
       /\ UNCHANGED <<kind, candle, index, curve, result, queue, kept, fills,
                      quote, base>>

Equity == quote + base * candle.close * FeeDen

Snapshot ==
    /\ phase = "snapshot"
    /\ phase' = "candle"
    /\ curve' = IF (index - 1) % SnapshotEvery = 0 THEN Append(curve, Equity)
                                                   ELSE curve
    /\ UNCHANGED <<kind, candle, index, exchangeVars, orders, buyCost, result,
                   strategyVars>>

\* The loop over the equity curve, a drawdown as the fraction drop / of.
WorstDrop(c) ==
    LET worse(m, e) ==
            LET peak == IF e > m.peak THEN e ELSE m.peak
            IN IF peak > 0 /\ (peak - e) * m.of > m.drop * peak
               THEN [peak |-> peak, drop |-> peak - e, of |-> peak]
               ELSE [m EXCEPT !.peak = peak]
    IN FoldLeft(worse, [peak |-> c[1], drop |-> 0, of |-> 1], c)

\* _build_result, of which the return and the Sharpe ratio are left out.
Summary(c) ==
    LET worst == WorstDrop(c)
        pnls == {i \in DOMAIN orders : orders[i].pnl.known}
    IN [drop |-> worst.drop, peak |-> worst.of,
        closed |-> Cardinality(pnls),
        wins |-> Cardinality({i \in pnls : orders[i].pnl.amount > 0})]

\* The file is at its end: the last point of the curve, and the result.
Finish ==
    /\ phase = "candle" /\ index > 0
    /\ phase' = "done"
    /\ curve' = Append(curve, Equity)
    /\ result' = Summary(curve')
    /\ UNCHANGED <<kind, candle, index, exchangeVars, orders, buyCost, strategyVars>>

BacktestNext ==
    \/ \E k \in Kinds : Start(k)
    \/ \E k \in BacktestCandles : TakeCandle(k)
    \/ MatchOrders
    \/ \E r \in Readings(kind) : Signal(r)
    \/ Snapshot
    \/ Finish

BacktestSpec == BacktestInit /\ [][BacktestNext]_backtestVars

-----------------------------------------------------------------------------
(* What must hold *)

\* What filling an order makes of the balances.
Moved(f, o) ==
    IF o.side = "buy"
    THEN [q |-> f.q - Value(o) - Fee(o), b |-> f.b + o.size]
    ELSE [q |-> f.q + Value(o) - Fee(o), b |-> f.b - o.size]

\* The balances after each of filled_orders.
Funds[k \in 0..Len(fills)] ==
    IF k = 0 THEN [q |-> InitQuote * FeeDen, b |-> InitBase]
    ELSE Moved(Funds[k - 1], orders[fills[k]])

\* Money and base come only from the fills, each at its own price and with its
\* own fee, so what the run ends with can be recomputed from filled_orders.
FundsAccounted ==
    LET last == Funds[Len(fills)] IN quote = last.q /\ base = last.b

\* The orders on_candle has not dealt with, in the middle of a pass or after.
Resting == IF phase \in {"match", "aborted"} THEN queue \cup kept ELSE open

\* Every recorded trade is an order that rests or has been filled, not both,
\* and no order is filled twice.
OrdersAccounted ==
    LET filled == {fills[k] : k \in DOMAIN fills}
    IN /\ Resting \cup filled = DOMAIN orders
       /\ Resting \cap filled = {}
       /\ \A j, k \in DOMAIN fills : fills[j] = fills[k] => j = k

\* The check of RiskManager is good for its order until another one is filled:
\* a run is aborted only by an order that had to share its money, or its base,
\* with one filled since it was approved.
AbortNeedsOverlap ==
    phase = "aborted" =>
        \E i \in queue : ~Affordable(orders[i]) /\ orders[i].after < Len(fills)

\* A sale has a result exactly if the trade before it is a buy, and then it is
\* of that pair: of several buys in a row only the last is ever accounted for,
\* of several sales only the first.
PnlOfAdjacentPair ==
    \A i \in DOMAIN orders :
        LET o == orders[i]
            paired == o.side = "sell" /\ i > 1 /\ orders[i - 1].side = "buy"
        IN IF paired
           THEN o.pnl = Known(Value(o) - o.fee
                              - (Value(orders[i - 1]) + orders[i - 1].fee))
           ELSE o.pnl = NoCost

Count(s, side) == Cardinality({i \in DOMAIN s : s[i] = side})

\* The grid never forgets a cell: the signals it has given and those it still
\* holds back add up to the cells between its first candle and its last.
GridTracksPrice ==
    kind = "grid" =>
        netSignals + Count(strategy.pending, "sell") - Count(strategy.pending, "buy")
            = strategy.cell - firstCell
=============================================================================
