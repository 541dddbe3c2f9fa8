-------------------------- MODULE MCStrategyRunner --------------------------
(* StrategyRunner for TLC.  Its constants are given in the .cfg files. *)
EXTENDS StrategyRunner

\* The candle in hand is first read after one has arrived: any will do.
MCInit == Init /\ candle = CHOOSE k \in Candles : TRUE

MCSpec == MCInit /\ [][Next]_vars /\ Fairness
=============================================================================
