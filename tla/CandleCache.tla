----------------------------- MODULE CandleCache ----------------------------
(***************************************************************************)
(* The historical candles of one market: backtest_main.py                  *)
(* (_ensure_market_data and its helpers), infrastructure/ccxt_historical.py*)
(* and the reading half of infrastructure/csv_market_data.py.  A backtest  *)
(* is served from the file if its first and last candle span the period,   *)
(* and else after the whole period has been downloaded, page by page, and  *)
(* merged into it.  Backtests run one after the other; the clock runs on.  *)
(*                                                                         *)
(* Of a candle only its time is kept; candles stand at multiples of Frame,  *)
(* dates anywhere.  A line of the file is one that gives a candle, or one   *)
(* that a killed save spoilt: its first field is still read as a time.      *)
(***************************************************************************)
EXTENDS Ordering, SequencesExt

CONSTANTS
    Frame,      \* timeframe_ms
    Listing,    \* the time of the market's first candle
    Page,       \* candles the exchange returns at most, 1000
    LastClock,  \* bound: the clock
    Beyond,     \* 2^63 - 1, past every date and candle
    Dates,      \* dates a backtest is asked for
    MaxBacktests \* bound: backtests

\* What is left of a time cut short is a date in the seventies at most.
Torn == 0

ASSUME CacheAssumption ==
    /\ Frame \in Nat \ {0} /\ Listing \in Nat \ {Torn} /\ Page \in Nat \ {0}
    /\ Listing % Frame = 0 /\ MaxBacktests \in Nat
    /\ LastClock \in Nat /\ Beyond \in Nat /\ Listing <= LastClock /\ LastClock < Beyond
    /\ Dates \subseteq Nat \ {Torn} /\ \A d \in Dates : d < Beyond

VARIABLES
    clock,      \* of the exchange
    pandas,     \* whether pandas is installed
    file,       \* the data file
    backtests,  \* how many were started
    job,        \* what the backtest is doing,
    period,     \* the period it was asked for,
    since,      \* where its next page starts,
    fetched,    \* the candles downloaded
    answer,     \* and those it is served
    kills,      \* ghost: saves of the CSV file that were killed
    asked,      \* ghost: candles that downloads merged into the file asked for
    asking      \* ghost: those the download under way asks for

cacheVars == <<clock, pandas, file, backtests, job, period, since, fetched,
               answer, kills, asked, asking>>

Candles(now) == {t \in Listing..now : t % Frame = 0}

\* A line of the file; one that is not whole does not make a candle.
Row(t) == [time |-> t, whole |-> TRUE]
Piece(t) == [time |-> t, whole |-> FALSE]
Rows(ts) == [i \in DOMAIN ts |-> Row(ts[i])]
TimesOf(rs) == {rs[i].time : i \in DOMAIN rs}

\* What becomes of the next line appended: usually a row.  The first line of a
\* file is read as its header, and one that follows on an unended line is joined
\* to it.  rows are the lines after the header.
NoFile == [state |-> "none", rows |-> <<>>, next |-> "row"]
Saved(rs) == [state |-> "good", rows |-> rs, next |-> "row"]

NoDate == -1
Undated == [from |-> NoDate, to |-> NoDate]
Dated(p) == p.from # NoDate /\ p.to # NoDate
Periods == {p \in [from : Dates \cup {NoDate}, to : Dates \cup {NoDate}] :
               Dated(p) => p.from <= p.to}

CacheInit ==
    /\ clock = Listing /\ pandas = TRUE /\ file = NoFile /\ backtests = 0
    /\ job = "idle" /\ period = Undated /\ since = 0 /\ fetched = <<>>
    /\ answer = <<>> /\ kills = 0 /\ asked = {} /\ asking = {}

ClockTicks ==
    /\ clock < LastClock
    /\ clock' = clock + 1
    /\ UNCHANGED <<pandas, file, backtests, job, period, since, fetched,
                   answer, kills, asked, asking>>

\* Where the CSV file is the fallback, nothing ever is a parquet file.
WithoutPandas ==
    /\ backtests = 0 /\ pandas
    /\ pandas' = FALSE
    /\ UNCHANGED <<clock, file, backtests, job, period, since, fetched,
                   answer, kills, asked, asking>>

-----------------------------------------------------------------------------
(* Reading *)

\* Seeded fault: the file must reach the end itself.
CoveredToTheEnd(p) ==
    /\ file.state = "good" /\ file.rows # <<>>
    /\ Dated(p) => LET times == TimesOf(file.rows)
                   IN /\ \E t \in times : t <= p.from
                      /\ \E t \in times : t >= p.to

\* A period without both dates is covered by any file there is; a damaged one
\* has no range.
Covered(p) ==
    IF ~Dated(p) THEN file.state # "none"
    ELSE LET times == TimesOf(file.rows)
         IN /\ file.state = "good"
            /\ \E t \in times : t <= p.from
            /\ \E t \in times : t >= p.to - Frame

\* A missing date is 0 or 2^63 - 1, if the other is there.
Within(t, p) ==
    /\ p.from # NoDate => p.from <= t /\ t <= Beyond
    /\ p.to # NoDate => t <= p.to

\* CSVMarketDataProvider sorts the rows, stably, and keeps the period's.
Provided(rs, p) ==
    LET kept == {i \in DOMAIN rs : Within(rs[i].time, p)}
        earlier(i) == {j \in kept : \/ rs[j].time < rs[i].time
                                    \/ rs[j].time = rs[i].time /\ j < i}
        sorted == ByRank([i \in kept |-> earlier(i)])
    IN [k \in DOMAIN sorted |-> rs[sorted[k]]]

\* Nothing in the period is an error, as is a damaged file, and a spoilt line
\* raises when the backtest comes to it.
Usable(f, p) ==
    LET rs == Provided(f.rows, p)
    IN f.state = "good" /\ rs # <<>> /\ \A k \in DOMAIN rs : rs[k].whole

Serve(f, p) ==
    LET rs == Provided(f.rows, p)
    IN IF Usable(f, p)
       THEN job' = "served" /\ answer' = [k \in DOMAIN rs |-> rs[k].time]
       ELSE job' = "failed" /\ answer' = <<>>

\* A backtest starts: it is served, refused for want of dates, or downloads.
Request(p) ==
    /\ job \notin {"fetching", "saving"} /\ backtests < MaxBacktests
    /\ backtests' = backtests + 1
    /\ period' = p
    /\ IF Covered(p) THEN Serve(file, p) /\ UNCHANGED <<since, fetched, asking>>
       ELSE IF ~Dated(p)
       THEN job' = "failed" /\ answer' = <<>> /\ UNCHANGED <<since, fetched, asking>>
       ELSE /\ job' = "fetching" /\ answer' = <<>>
            /\ since' = p.from /\ fetched' = <<>>
            /\ asking' = {t \in Candles(clock) : p.from <= t /\ t < p.to}
    /\ UNCHANGED <<clock, pandas, file, kills, asked>>

-----------------------------------------------------------------------------
(* Downloading: fetch_ohlcv_rows *)

PageFrom(t) ==
    LET later == {c \in Candles(clock) : c >= t}
    IN {c \in later : Cardinality({d \in later : d < c}) < Page}

\* Seeded fault: a candle is skipped between two pages.
FetchPageSkipping ==
    /\ job = "fetching" /\ since < period.to
    /\ LET page == PageFrom(since)
           wanted == InOrder({t \in page : t <= period.to})
       IN IF page = {} THEN job' = "saving" /\ UNCHANGED <<since, fetched>>
          ELSE /\ fetched' = fetched \o wanted
               /\ since' = Max(page) + 2 * Frame
               /\ UNCHANGED job
    /\ UNCHANGED <<clock, pandas, file, backtests, period, answer, kills, asked,
                   asking>>

\* The next page, of which the rows up to the end are kept.  A page that ends
\* one candle before the end is the last, since being no longer before the end:
\* the candle at the end comes only if a page that began before it reaches it.
FetchPage ==
    /\ job = "fetching" /\ since < period.to
    /\ LET page == PageFrom(since)
           wanted == InOrder({t \in page : t <= period.to})
       IN IF page = {} THEN job' = "saving" /\ UNCHANGED <<since, fetched>>
          ELSE /\ fetched' = fetched \o wanted
               /\ since' = Max(page) + Frame
               /\ UNCHANGED job
    /\ UNCHANGED <<clock, pandas, file, backtests, period, answer, kills, asked,
                   asking>>

FetchDone ==
    /\ job = "fetching" /\ since >= period.to
    /\ job' = "saving"
    /\ UNCHANGED <<clock, pandas, file, backtests, period, since, fetched,
                   answer, kills, asked, asking>>

\* The exchange raises, or the backtest is killed: nothing was saved.
FetchFails ==
    /\ job = "fetching"
    /\ job' = "failed"
    /\ UNCHANGED <<clock, pandas, file, backtests, period, since, fetched,
                   answer, kills, asked, asking>>

-----------------------------------------------------------------------------
(* Saving *)

OldRows == IF file.state = "good" THEN file.rows ELSE <<>>

\* save_parquet keeps one row of each time, in order.
Merged == Rows(InOrder(TimesOf(OldRows) \cup Range(fetched)))

\* _save_csv writes what the file does not have; the download is in order.
New == InOrder(Range(fetched) \ TimesOf(OldRows))

\* What a line makes with the next one appended to it.  One that lacks but its
\* end gets too many fields.  A time cut short runs on into the next line's, past
\* every date, and 14 or 15 digits still make a date; cut right after its time,
\* the line gets too many digits for any.
Joined(line) ==
    IF line.whole THEN {Piece(line.time)}
    ELSE IF line.time = Torn THEN {Row(Beyond), Piece(Beyond), Piece(Beyond + 1)}
    ELSE {Piece(line.time), Piece(Beyond + 1)}

\* The rows after the file has got one more line, and after it has got several.
NextLine(t) ==
    CASE file.next = "row"    -> {Append(OldRows, Row(t))}
      [] file.next = "header" -> {OldRows}
      [] file.next = "joined" ->
             {[OldRows EXCEPT ![Len(OldRows)] = line] : line \in Joined(Last(OldRows))}

Appended(ts) == {rs \o Rows(Tail(ts)) : rs \in NextLine(Head(ts))}

\* The rows are merged into the file, which then serves the backtest.  A parquet
\* file that could not be read is replaced.
Save ==
    /\ job = "saving"
    /\ IF fetched = <<>>
       THEN job' = "failed" /\ UNCHANGED <<file, answer, asked>>
       ELSE /\ IF pandas THEN file' = Saved(Merged)
               ELSE IF New = <<>> THEN UNCHANGED file
               ELSE \E rs \in Appended(New) : file' = Saved(rs)
            /\ asked' = asking \cup (IF file.state = "good" THEN asked ELSE {})
            /\ Serve(file', period)
    /\ UNCHANGED <<clock, pandas, backtests, period, since, fetched, kills, asking>>

\* What is written of a line whose end is not: part of its time, its time and
\* not all fields, or all of it but the line end.
Begun(t) == {Piece(Torn), Piece(t), Row(t)}

\* A killed save of the CSV file that wrote something: a file that was opened
\* and has no header yet, or just that, some of the lines, and perhaps part of
\* the next.  The file is written in blocks that are longer than a line.
WrittenInPart ==
    \/ /\ file.state = "none"
       /\ \E what \in {"header", "row"} :
              file' = [state |-> "good", rows |-> <<>>, next |-> what]
    \/ \E n \in DOMAIN New : \E rs \in Appended(SubSeq(New, 1, n)) :
           \/ file' = Saved(rs)
           \/ /\ n + 1 \in DOMAIN New
              /\ \E line \in Begun(New[n + 1]) :
                     file' = [state |-> "good", rows |-> Append(rs, line),
                              next |-> "joined"]

\* The backtest is killed while it saves, or the disk is full.
SaveCrashes ==
    /\ job = "saving" /\ fetched # <<>>
    /\ job' = "failed"
    /\ \/ UNCHANGED <<file, kills>>
       \/ pandas /\ file' = [state |-> "damaged", rows |-> <<>>, next |-> "row"]
                 /\ UNCHANGED kills
       \/ ~pandas /\ WrittenInPart /\ kills' = kills + 1
    /\ UNCHANGED <<clock, pandas, backtests, period, since, fetched, answer,
                   asked, asking>>

CacheNext ==
    \/ ClockTicks \/ WithoutPandas
    \/ \E p \in Periods : Request(p)
    \/ FetchPage \/ FetchDone \/ FetchFails
    \/ Save \/ SaveCrashes

CacheSpec == CacheInit /\ [][CacheNext]_cacheVars

-----------------------------------------------------------------------------
(* What must hold *)

\* A backtest gets its candles in order and each once, and misses none that some
\* download asked for, its own or an earlier one, but for two per killed save of
\* the CSV file: what it misses else, although the file covers its period, lies
\* between two downloads.  A line of a time beyond every date may come last.
ServedAsAsked ==
    job = "served" =>
        /\ \A i, j \in DOMAIN answer :
               i < j => answer[i] < answer[j] \/ answer[i] = Beyond
        /\ Cardinality({t \in asked : Within(t, period)} \ Range(answer)) <= 2 * kills

\* A period downloaded whole is covered from then on, so that the same backtest
\* is not downloaded again: also when the last candle is missing, which is why
\* the file need only reach to one step before the end.  After a killed save of
\* the CSV file it may not be: its first line may have become the header.
DownloadedIsCovered ==
    job = "served" /\ fetched # <<>> /\ kills = 0 /\ period.from \in asked
                   /\ (\E t \in asked : t >= period.to - Frame)
        => Covered(period)
=============================================================================
