---------------------------- MODULE LiveCandles -----------------------------
(***************************************************************************)
(* CCXTMarketDataProvider (infrastructure/ccxt_market_data.py): the live   *)
(* candles of one bot.  A candle is its time, counted in candles.  Every   *)
(* answer of watch_ohlcv is some of the candles up to the one being        *)
(* formed, in order: one that was seen before is in it again as long as it *)
(* changes, and after a reconnection there may be a gap or old ones again. *)
(* What a row holds is not modelled but for whether _to_candle accepts it. *)
(***************************************************************************)
EXTENDS Integers, SequencesExt

CONSTANTS
    LastTime,   \* bound: the number of candles the market forms
    MaxBackoff  \* _MAX_BACKOFF_SEC

ASSUME LiveAssumption == LastTime \in Nat \ {0} /\ MaxBackoff \in Nat \ {0}

Times == 1..LastTime

VARIABLES
    market,    \* the candle being formed
    stream,    \* what _stream is doing
    backoff,
    lastTs,    \* last_ts_ms, 0 for None
    rows,      \* rows of the batch not looked at yet
    delivered, \* candles yielded
    seen,      \* ghost: candles that were in a batch
    excused    \* ghost: those behind a failed row, or first seen too late

liveVars == <<market, stream, backoff, lastTs, rows, delivered, seen, excused>>

\* The answers watch_ohlcv may give while `now` is being formed.
Batches(now) ==
    UNION {{b \in [1..n -> 1..now] : \A i, j \in 1..n : i < j => b[i] < b[j]} :
               n \in 1..now}

Latest(s) == IF s = <<>> THEN 0 ELSE Last(s)

LiveInit ==
    /\ market = 1 /\ stream = "watching" /\ backoff = 1 /\ lastTs = 0
    /\ rows = <<>> /\ delivered = <<>> /\ seen = {} /\ excused = {}

FormCandle ==
    /\ market < LastTime
    /\ market' = market + 1
    /\ UNCHANGED <<stream, backoff, lastTs, rows, delivered, seen, excused>>

Watch(batch) ==
    /\ stream = "watching"
    /\ stream' = "rows"
    /\ backoff' = 1
    /\ rows' = batch
    /\ seen' = seen \cup ToSet(batch)
    /\ excused' = excused \cup {t \in ToSet(batch) \ seen : t <= lastTs}
    /\ UNCHANGED <<market, lastTs, delivered>>

\* Any exception but a cancellation: sleep for `backoff` seconds.
WatchFails ==
    /\ stream = "watching"
    /\ stream' = "sleeping"
    /\ UNCHANGED <<market, backoff, lastTs, rows, delivered, seen, excused>>

\* Seeded fault: the rows before the newest of the batch are taken for old.
YieldNewestOnly ==
    /\ stream = "rows" /\ rows # <<>>
    /\ lastTs' = Last(rows)
    /\ rows' = <<>>
    /\ delivered' = IF Last(rows) > lastTs THEN Append(delivered, Last(rows))
                                           ELSE delivered
    /\ UNCHANGED <<market, stream, backoff, seen, excused>>

\* The next row, yielded unless it is not newer.  The consumer handles it
\* before the loop goes on; the market does not wait.
Yield ==
    /\ stream = "rows" /\ rows # <<>>
    /\ rows' = Tail(rows)
    /\ IF Head(rows) > lastTs
       THEN lastTs' = Head(rows) /\ delivered' = Append(delivered, Head(rows))
       ELSE UNCHANGED <<lastTs, delivered>>
    /\ UNCHANGED <<market, stream, backoff, seen, excused>>

\* _to_candle rejects a row: lastTs has moved, the rest of the batch is gone.
RowFails ==
    /\ stream = "rows" /\ rows # <<>> /\ Head(rows) > lastTs
    /\ lastTs' = Head(rows)
    /\ excused' = excused \cup ToSet(rows)
    /\ rows' = <<>>
    /\ stream' = "sleeping"
    /\ UNCHANGED <<market, backoff, delivered, seen>>

BatchDone ==
    /\ stream = "rows" /\ rows = <<>>
    /\ stream' = "watching"
    /\ UNCHANGED <<market, backoff, lastTs, rows, delivered, seen, excused>>

\* Seeded fault: a reconnection starts from nothing.
WakeAnew ==
    /\ stream = "sleeping"
    /\ stream' = "watching"
    /\ lastTs' = 0
    /\ backoff' = IF 2 * backoff < MaxBackoff THEN 2 * backoff ELSE MaxBackoff
    /\ UNCHANGED <<market, rows, delivered, seen, excused>>

Wake ==
    /\ stream = "sleeping"
    /\ stream' = "watching"
    /\ backoff' = IF 2 * backoff < MaxBackoff THEN 2 * backoff ELSE MaxBackoff
    /\ UNCHANGED <<market, lastTs, rows, delivered, seen, excused>>

\* The runner's task is cancelled, in watch_ohlcv, at a yield or asleep.
CancelStream ==
    /\ stream # "cancelled"
    /\ stream' = "cancelled"
    /\ UNCHANGED <<market, backoff, lastTs, rows, delivered, seen, excused>>

LiveNext ==
    \/ FormCandle
    \/ \E batch \in Batches(market) : Watch(batch)
    \/ WatchFails \/ Yield \/ RowFails \/ BatchDone \/ Wake \/ CancelStream

LiveSpec == LiveInit /\ [][LiveNext]_liveVars

-----------------------------------------------------------------------------
(* What must hold *)

\* Through reconnections, rejected rows and repeated updates the strategy sees
\* every candle at most once and never an older one after a newer one.
Feed == INSTANCE CandleFeed WITH newest <- Latest(delivered)

FeedSpec == Feed!FeedSpec

\* A candle the exchange has sent and the loop is past was delivered, unless a
\* row at or before it in its batch was rejected, or a newer candle had already
\* gone out when it first came.
LostOnlyByFailure ==
    \A t \in seen \ ToSet(rows) :
        t \in ToSet(delivered) \cup excused
=============================================================================
