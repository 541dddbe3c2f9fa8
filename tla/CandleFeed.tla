----------------------------- MODULE CandleFeed -----------------------------
(***************************************************************************)
(* What a MarketDataProvider promises its StrategyRunner: candles of ever  *)
(* later times, so that no candle comes twice and none after a later one.  *)
(* It does not promise that none is left out.                              *)
(***************************************************************************)
EXTENDS Naturals

CONSTANT Times  \* of candles, positive

VARIABLE newest  \* the time of the last candle handed over, 0 before it

FeedInit == newest = 0

HandOver(t) == t > newest /\ newest' = t

FeedNext == \E t \in Times : HandOver(t)

FeedSpec == FeedInit /\ [][FeedNext]_newest
=============================================================================
