----------------------------- MODULE Strategies -----------------------------
(***************************************************************************)
(* The strategies (strategies/...) as the state machines behind their      *)
(* on_candle: which side, if any, a candle makes them signal.  Every       *)
(* signal is priced at the candle's close.                                 *)
(*                                                                         *)
(* What an indicator computes is abstracted to what on_candle asks of it,  *)
(* the reading: for the crossings (SmaCross, MacdCross) where the fast     *)
(* line lies, for the position-keeping ones (RsiThreshold, BollingerBands, *)
(* BollingerRsi, AdaptiveRsi once calibrated, MlRsi) whether the condition *)
(* to enter holds, the one to leave, both (a flat Bollinger window), or    *)
(* none.  While its window fills, a strategy reads "none".  MlRsi reads    *)
(* "leave" also when its model cannot predict: _predict then returns 0.0.  *)
(***************************************************************************)
EXTENDS Integers, Sequences

CONSTANTS
    OrderSize,    \* order_size, base_per_level
    GridLow, GridStep, GridLevels,  \* price_low, distance and num_levels
    DcaAmount,    \* buy_amount_quote: a multiple of every price
    DcaInterval   \* interval_candles

\* What the constructor of the grid insists on: price_low < price_high, and two
\* levels at least.
ASSUME GridAssumption ==
    GridLow \in Int /\ GridStep \in Nat \ {0} /\ GridLevels \in Nat \ {0, 1}

Kinds == {"cross", "position", "grid", "dca"}
Sides == {"buy", "sell"}

CrossReadings == {"none", "below", "equal", "above"}

\* RsiThreshold, BollingerRsi and AdaptiveRsi: oversold is below overbought.
RsiReadings == {"none", "enter", "leave"}

\* BollingerBands: the bands of a flat window meet in its price.
BandReadings == RsiReadings \cup {"both"}

\* MlRsi: nothing relates its two thresholds.
ModelReadings == RsiReadings \cup {"both"}

Readings(kind) ==
    CASE kind = "cross" -> CrossReadings
      [] kind = "position" -> RsiReadings \cup BandReadings \cup ModelReadings
      [] OTHER -> {"none"}

\* The fields of all strategies; each kind uses its own.
NewStrategy ==
    [prev |-> "none", inPosition |-> FALSE, cell |-> -1, pending |-> <<>>,
     counter |-> 0]

CrossStep(s, r) ==
    [s |-> IF r = "none" THEN s ELSE [s EXCEPT !.prev = r],
     side |-> IF s.prev \in {"below", "equal"} /\ r = "above" THEN "buy"
              ELSE IF s.prev \in {"above", "equal"} /\ r = "below" THEN "sell"
              ELSE "none"]

\* _in_position is set with the signal, before anyone has accepted it.
PositionStep(s, r) ==
    LET buys == r \in {"enter", "both"} /\ ~s.inPosition
        sells == r \in {"leave", "both"} /\ s.inPosition
    IN [s |-> [s EXCEPT !.inPosition = (@ \/ buys) /\ ~sells],
        side |-> IF buys THEN "buy" ELSE IF sells THEN "sell" ELSE "none"]

FindCell(price) ==
    IF price <= GridLow THEN 0
    ELSE LET i == (price - GridLow) \div GridStep
         IN IF i >= GridLevels - 1 THEN GridLevels - 1 ELSE i

\* Seeded fault: one signal however many cells the price has crossed.
GridQueueOnce(s, cell) ==
    IF s.cell = -1 \/ cell = s.cell THEN s.pending
    ELSE Append(s.pending, IF cell < s.cell THEN "buy" ELSE "sell")

\* A BUY for each cell the price fell, a SELL for each it rose.
GridQueue(s, cell) ==
    IF s.cell = -1 THEN s.pending
    ELSE s.pending \o [k \in 1..(IF cell < s.cell THEN s.cell - cell
                                                  ELSE cell - s.cell)
                           |-> IF cell < s.cell THEN "buy" ELSE "sell"]

\* One signal leaves the queue per candle, whatever the price is by then.
GridOnCandle(s, close) ==
    LET cell == FindCell(close)
        all == GridQueue(s, cell)
    IN [s |-> [s EXCEPT !.cell = cell,
                        !.pending = IF all = <<>> THEN all ELSE Tail(all)],
        side |-> IF all = <<>> THEN "none" ELSE Head(all)]

DcaStep(s) ==
    LET due == s.counter + 1 >= DcaInterval
    IN [s |-> [s EXCEPT !.counter = IF due THEN 0 ELSE @ + 1],
        side |-> IF due THEN "buy" ELSE "none"]

\* on_candle of the strategy of this kind.
Step(kind, s, close, r) ==
    CASE kind = "cross" -> CrossStep(s, r)
      [] kind = "position" -> PositionStep(s, r)
      [] kind = "grid" -> GridOnCandle(s, close)
      [] OTHER -> DcaStep(s)

SizeOf(kind, close) == IF kind = "dca" THEN DcaAmount \div close ELSE OrderSize
=============================================================================
