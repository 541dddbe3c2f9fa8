----------------------------- MODULE AdaptiveRsi ----------------------------
(***************************************************************************)
(* AdaptiveRsiStrategy (strategies/adaptive_rsi.py): closes are collected, *)
(* on_start replays them for every combination of parameters and keeps the *)
(* best, and on_candle trades with those.  Its three copies of Wilder's    *)
(* RSI, with compute_rsi of ml/features.py, are one definition here; the   *)
(* loops around them are not shared, because that they agree is the        *)
(* question.                                                               *)
(*                                                                         *)
(* Averages are kept as integers: both times `scale`.  The RSI is compared *)
(* with a threshold x by 100 * gain < x * (gain + loss), so that nothing   *)
(* is divided, where the code rounds to the 28 digits of a Decimal.        *)
(***************************************************************************)
EXTENDS Integers, SequencesExt

CONSTANTS
    Closes,        \* closing prices
    RsiPeriods, Oversolds, Overboughts,  \* sequences: the ranges searched
    DefaultParams, \* used after a warm-up shorter than
    MinWarmup,     \* this many candles, 50
    MaxWarmup,     \* optimization_candles
    MaxTraded      \* bound: candles after the calibration

Params == [n : Nat \ {0}, low : Int, high : Int]

\* A period of 0 would be divided by.
ASSUME RangesAssumption ==
    /\ RsiPeriods \in Seq(Nat \ {0})
    /\ Oversolds \in Seq(Int) /\ Overboughts \in Seq(Int)
ASSUME AdaptiveAssumption ==
    /\ Closes \subseteq Nat \ {0}
    /\ DefaultParams \in Params
    /\ MinWarmup \in Nat \ {0} /\ MaxWarmup \in Nat \ {0} /\ MaxTraded \in Nat

VARIABLES
    calibrated,
    raised,    \* on_start raised, and the runner ended
    warmup,    \* _closes
    params,    \* _best_rsi_period, _best_oversold, _best_overbought
    window,    \* _rsi_closes
    average,   \* _avg_gain, _avg_loss
    holds,     \* _in_position
    signals,   \* ghost: the signals given, side and price
    traded     \* ghost: the closes since the calibration

adaptiveVars == <<calibrated, raised, warmup, params, window, average, holds,
                  signals, traded>>

NoAverage == [gain |-> 0, loss |-> 0, scale |-> 0]

AdaptiveInit ==
    /\ calibrated = FALSE /\ raised = FALSE /\ warmup = <<>> /\ params = DefaultParams
    /\ window = <<>> /\ average = NoAverage /\ holds = FALSE
    /\ signals = <<>> /\ traded = <<>>

-----------------------------------------------------------------------------
(* Wilder's RSI *)

Rise(from, to) == IF to > from THEN to - from ELSE 0

SumOf(s) ==
    LET sum[k \in 0..Len(s)] == IF k = 0 THEN 0 ELSE sum[k - 1] + s[k]
    IN sum[Len(s)]

\* The mean of the first n moves of n + 1 closes.
FirstAverage(cl, n) ==
    [gain |-> SumOf([i \in 1..n |-> Rise(cl[i], cl[i + 1])]),
     loss |-> SumOf([i \in 1..n |-> Rise(cl[i + 1], cl[i])]),
     scale |-> n]

NextAverage(a, from, to, n) ==
    [gain |-> a.gain * (n - 1) + Rise(from, to) * a.scale,
     loss |-> a.loss * (n - 1) + Rise(to, from) * a.scale,
     scale |-> a.scale * n]

\* An RSI without losses is 100.
RsiBelow(a, x) == IF a.loss = 0 THEN 100 < x ELSE 100 * a.gain < x * (a.gain + a.loss)
RsiAbove(a, x) == IF a.loss = 0 THEN 100 > x ELSE 100 * a.gain > x * (a.gain + a.loss)

-----------------------------------------------------------------------------
(* Calibration *)

\* One turn of the loop of _simulate_rsi_trades, at the i-th close; 0 stands
\* for no price bought at.
Turn(cl, p, s, i) ==
    LET a == IF s.average = NoAverage
             THEN FirstAverage(SubSeq(cl, i - p.n, i), p.n)
             ELSE NextAverage(s.average, cl[i - 1], cl[i], p.n)
    IN IF RsiBelow(a, p.low) /\ s.bought = 0
       THEN [average |-> a, bought |-> cl[i], pnls |-> s.pnls]
       ELSE IF RsiAbove(a, p.high) /\ s.bought # 0
       THEN [average |-> a, bought |-> 0, pnls |-> Append(s.pnls, cl[i] - s.bought)]
       ELSE [average |-> a, bought |-> s.bought, pnls |-> s.pnls]

NewReplay == [average |-> NoAverage, bought |-> 0, pnls |-> <<>>]

Replayed(cl, p) ==
    LET after[i \in 0..Len(cl)] ==
            IF i <= p.n THEN NewReplay ELSE Turn(cl, p, after[i - 1], i)
    IN after[Len(cl)]

\* The results of the trades one combination would have made.
Replay(cl, p) == Replayed(cl, p).pnls

\* mean / std as the signed square num / den: the mean and the deviation are
\* sum / k and sqrt(k * squares - sum^2) / k.
Ratio(sum, var) ==
    IF var = 0 THEN [num |-> IF sum > 0 THEN 1 ELSE -1, den |-> 0]  \* +-Infinity
    ELSE [num |-> IF sum > 0 THEN sum * sum ELSE -(sum * sum), den |-> var]

ScoreOf(pnls) ==
    LET sum == SumOf(pnls)
        squares == SumOf([i \in DOMAIN pnls |-> pnls[i] * pnls[i]])
    IN Ratio(sum, Len(pnls) * squares - sum * sum)

\* _evaluate_rsi_params
Score(cl, p) == ScoreOf(Replay(cl, p))

Better(x, y) == IF x.den = 0 /\ y.den = 0 THEN x.num > y.num
                ELSE x.num * y.den > y.num * x.den

\* The combination of the k-th turn of the three loops, the last innermost.
Turns == Len(RsiPeriods) * Len(Oversolds) * Len(Overboughts)
Combination(k) ==
    LET i == (k - 1) \div Len(Overboughts)
    IN [n |-> RsiPeriods[(i \div Len(Oversolds)) + 1],
        low |-> Oversolds[(i % Len(Oversolds)) + 1],
        high |-> Overboughts[((k - 1) % Len(Overboughts)) + 1]]

\* The turns that are not skipped.
Tried(cl) ==
    {k \in 1..Turns : Combination(k).n <= Len(cl) /\ Combination(k).low < Combination(k).high}

Scored(cl, k) ==
    [params |-> Combination(k), score |-> Score(cl, Combination(k))]

NoneBest == [score |-> [num |-> -1, den |-> 0], params |-> {}]

\* Seeded fault: a better combination joins those it beats.
KeepBestNotReset(best, c) ==
    IF ~Better(best.score, c.score)
    THEN [score |-> c.score, params |-> best.params \cup {c.params}] ELSE best

\* One turn of the loop: the best so far and those as good.
KeepBest(best, c) ==
    IF Better(c.score, best.score) THEN [c EXCEPT !.params = {@}]
    ELSE IF Better(best.score, c.score) THEN best
    ELSE [best EXCEPT !.params = @ \cup {c.params}]

\* The best combinations, of which one is drawn.
BestParams(cl) ==
    LET best[k \in 0..Turns] ==
            IF k = 0 THEN NoneBest
            ELSE IF k \in Tried(cl) THEN KeepBest(best[k - 1], Scored(cl, k))
            ELSE best[k - 1]
    IN best[Turns].params

-----------------------------------------------------------------------------

\* on_candle before on_start; the deque drops its oldest close.
Collect(close) ==
    /\ ~calibrated /\ ~raised
    /\ LET all == Append(warmup, close)
       IN warmup' = IF Len(all) > MaxWarmup THEN Tail(all) ELSE all
    /\ UNCHANGED <<calibrated, raised, params, window, average, holds, signals,
                   traded>>

OnStart ==
    /\ ~calibrated /\ ~raised
    /\ calibrated' = TRUE
    /\ params' \in IF Len(warmup) < MinWarmup THEN {DefaultParams}
                                              ELSE BestParams(warmup)
    /\ window' = <<>>
    /\ UNCHANGED <<raised, warmup, average, holds, signals, traded>>

\* Every combination was skipped: random.choice of the empty list raises, and
\* the runner has no handler for it.
OnStartRaises ==
    /\ ~calibrated /\ ~raised
    /\ Len(warmup) >= MinWarmup /\ BestParams(warmup) = {}
    /\ raised' = TRUE
    /\ UNCHANGED <<calibrated, warmup, params, window, average, holds, signals,
                   traded>>

\* Seeded fault: the averages start from one close too few.
TradeEarly(close) ==
    LET cl == SubSeq(Append(window, close),
                     IF Len(window) = params.n THEN 2 ELSE 1, Len(window) + 1)
        a == IF average = NoAverage THEN FirstAverage(cl, Len(cl) - 1)
             ELSE NextAverage(average, cl[Len(cl) - 1], close, params.n)
        buys == RsiBelow(a, params.low) /\ ~holds
        sells == RsiAbove(a, params.high) /\ holds
    IN /\ calibrated /\ Len(traded) < MaxTraded
       /\ window' = cl
       /\ traded' = Append(traded, close)
       /\ IF Len(cl) < params.n THEN UNCHANGED <<average, holds, signals>>
          ELSE /\ average' = a
               /\ holds' = IF buys THEN TRUE ELSE IF sells THEN FALSE ELSE holds
               /\ signals' = IF buys THEN Append(signals, <<"buy", close>>)
                             ELSE IF sells THEN Append(signals, <<"sell", close>>)
                             ELSE signals
       /\ UNCHANGED <<calibrated, raised, warmup, params>>

\* on_candle once calibrated.
Trade(close) ==
    LET cl == SubSeq(Append(window, close),
                     IF Len(window) = params.n + 1 THEN 2 ELSE 1, Len(window) + 1)
        a == IF average = NoAverage THEN FirstAverage(cl, params.n)
             ELSE NextAverage(average, cl[Len(cl) - 1], close, params.n)
        buys == RsiBelow(a, params.low) /\ ~holds
        sells == RsiAbove(a, params.high) /\ holds
    IN /\ calibrated /\ Len(traded) < MaxTraded
       /\ window' = cl
       /\ traded' = Append(traded, close)
       /\ IF Len(cl) < params.n + 1 THEN UNCHANGED <<average, holds, signals>>
          ELSE /\ average' = a
               /\ holds' = IF buys THEN TRUE ELSE IF sells THEN FALSE ELSE holds
               /\ signals' = IF buys THEN Append(signals, <<"buy", close>>)
                             ELSE IF sells THEN Append(signals, <<"sell", close>>)
                             ELSE signals
       /\ UNCHANGED <<calibrated, raised, warmup, params>>

AdaptiveNext ==
    \/ \E close \in Closes : Collect(close) \/ Trade(close)
    \/ OnStart \/ OnStartRaises

AdaptiveSpec == AdaptiveInit /\ [][AdaptiveNext]_adaptiveVars

-----------------------------------------------------------------------------
(* What must hold *)

\* What on_start optimises is what on_candle does: the signals given since the
\* calibration, a SELL for each BUY, make just the trades the replay of the
\* same closes makes.
CalibrationReplaysLive ==
    LET pairs == Len(signals) \div 2
    IN /\ \A i \in DOMAIN signals : signals[i][1] = IF i % 2 = 1 THEN "buy" ELSE "sell"
       /\ calibrated => Replay(traded, params) =
              [i \in 1..pairs |-> signals[2 * i][2] - signals[2 * i - 1][2]]

\* No combination that was to be tried has a better score than the one chosen,
\* infinite scores, of a single trade or of none, included.
CalibratedToTheBest ==
    calibrated /\ traded = <<>> /\ Len(warmup) >= MinWarmup =>
        LET all == {Combination(k) : k \in Tried(warmup)}
        IN /\ params \in all
           /\ \A p \in all : ~Better(Score(warmup, p), Score(warmup, params))
=============================================================================
