----------------------------- MODULE MCCandles ------------------------------
(***************************************************************************)
(* The parts of the system that are driven by candles, side by side: the   *)
(* live stream, the cache of a backtest, the backtest, calibration,        *)
(* training, and the bots of an account.  A behaviour is of one of them,   *)
(* chosen first, while the others stay as they began.  They share no       *)
(* variable, so a property of one is checked on all that one can do.       *)
(***************************************************************************)
EXTENDS LiveCandles, CandleCache, Backtest, AdaptiveRsi, WalkForward, Account

VARIABLE program

MCRsiPeriods == <<2, 3>>
MCOversolds == <<30, 40>>
MCOverboughts == <<35, 60>>
MCDefaultParams == [n |-> 2, low |-> 30, high |-> 70]

\* Nothing tells one bot of an account from another.
Symmetry == Permutations(Bots)

MCInit ==
    /\ program \in {"feed", "cache", "backtest", "adaptive", "training", "account"}
    /\ LiveInit /\ CacheInit /\ BacktestInit /\ AdaptiveInit /\ TrainingInit
    /\ AccountInit

MCNext ==
    /\ UNCHANGED program
    /\ \/ /\ program = "feed" /\ LiveNext
          /\ UNCHANGED <<cacheVars, backtestVars, adaptiveVars,
                         trainingVars, accountVars>>
       \/ /\ program = "cache" /\ CacheNext
          /\ UNCHANGED <<liveVars, backtestVars, adaptiveVars,
                         trainingVars, accountVars>>
       \/ /\ program = "backtest" /\ BacktestNext
          /\ UNCHANGED <<liveVars, cacheVars, adaptiveVars,
                         trainingVars, accountVars>>
       \/ /\ program = "adaptive" /\ AdaptiveNext
          /\ UNCHANGED <<liveVars, cacheVars, backtestVars,
                         trainingVars, accountVars>>
       \/ /\ program = "training" /\ TrainingNext
          /\ UNCHANGED <<liveVars, cacheVars, backtestVars,
                         adaptiveVars, accountVars>>
       \/ /\ program = "account" /\ AccountNext
          /\ UNCHANGED <<liveVars, cacheVars, backtestVars,
                         adaptiveVars, trainingVars>>

MCSpec ==
    MCInit /\ [][MCNext]_<<program, liveVars, cacheVars, backtestVars,
                           adaptiveVars, trainingVars, accountVars>>
=============================================================================
