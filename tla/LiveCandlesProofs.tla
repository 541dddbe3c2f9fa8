-------------------------- MODULE LiveCandlesProofs -------------------------
(***************************************************************************)
(* Proofs about LiveCandles: it implements CandleFeed, whatever the        *)
(* exchange sends and however often the loop reconnects, and what it does  *)
(* not deliver of the candles it was sent is excused.                      *)
(*                                                                         *)
(* That the feed never goes back hangs on lastTs, which is never before    *)
(* what was delivered last.  That nothing is lost hangs on SettledInv: all *)
(* that was seen up to lastTs has been dealt with, so that a row may be    *)
(* skipped for its time alone; it needs the batches to be in order.        *)
(***************************************************************************)
EXTENDS LiveCandles, TLAPS

RowsInv ==
    /\ market \in Times
    /\ rows \in Seq(Times)
    /\ \A i, j \in DOMAIN rows : i < j => rows[i] < rows[j]
    /\ stream \in {"watching", "sleeping"} => rows = <<>>

LastInv ==
    /\ delivered \in Seq(Times)
    /\ lastTs \in Nat /\ Latest(delivered) <= lastTs

SettledInv ==
    \A t \in seen : t <= lastTs => t \in ToSet(delivered) \cup excused

LiveInv == RowsInv /\ LastInv /\ seen \subseteq Times /\ SettledInv
                   /\ LostOnlyByFailure

\* A batch holds candles of the market, in order.
LEMMA BatchOfTimes ==
  ASSUME NEW now \in Times, NEW b \in Batches(now)
  PROVE  /\ b \in Seq(Times) /\ b # <<>>
         /\ \A i, j \in DOMAIN b : i < j => b[i] < b[j]
<1>1. PICK n \in 1..now : b \in [1..n -> 1..now]
                          /\ \A i, j \in 1..n : i < j => b[i] < b[j]
  BY DEF Batches
<1>2. now \in Nat /\ 1..now \subseteq Times
  BY LiveAssumption DEF Times
<1>3. n \in Nat /\ n > 0 /\ DOMAIN b = 1..n
  BY <1>1, <1>2
<1>4. b \in Seq(Times)
  BY <1>1, <1>2, <1>3
<1> QED
  BY <1>1, <1>3, <1>4

LEMMA HeadAndTail ==
  ASSUME NEW s \in Seq(Times), s # <<>>
  PROVE  /\ Head(s) \in Times /\ Tail(s) \in Seq(Times)
         /\ ToSet(s) = {Head(s)} \cup ToSet(Tail(s))
         /\ (\A i, j \in DOMAIN s : i < j => s[i] < s[j])
              => /\ \A i, j \in DOMAIN Tail(s) : i < j => Tail(s)[i] < Tail(s)[j]
                 /\ \A t \in ToSet(Tail(s)) : Head(s) < t
<1>1. Len(s) \in Nat /\ Len(s) > 0 /\ DOMAIN s = 1..Len(s)
  OBVIOUS
<1>2. /\ Head(s) = s[1] /\ Head(s) \in Times /\ Tail(s) \in Seq(Times)
      /\ DOMAIN Tail(s) = 1..Len(s) - 1
      /\ \A i \in 1..Len(s) - 1 : Tail(s)[i] = s[i + 1]
  BY <1>1
<1>3. ToSet(Tail(s)) = {s[i + 1] : i \in 1..Len(s) - 1}
  BY <1>2 DEF ToSet
<1>4. ASSUME NEW t \in ToSet(s) PROVE t \in {Head(s)} \cup ToSet(Tail(s))
  <2>1. PICK i \in 1..Len(s) : t = s[i]
    BY <1>1, <1>4 DEF ToSet
  <2>2. CASE i = 1
    BY <1>2, <2>1, <2>2
  <2>3. CASE i # 1
    <3>1. i - 1 \in 1..Len(s) - 1 /\ s[(i - 1) + 1] = t
      BY <1>1, <2>1, <2>3
    <3> QED
      BY <1>3, <3>1
  <2> QED
    BY <2>2, <2>3
<1>5. {Head(s)} \cup ToSet(Tail(s)) \subseteq ToSet(s)
  BY <1>1, <1>2, <1>3 DEF ToSet
<1>6. ASSUME \A i, j \in DOMAIN s : i < j => s[i] < s[j]
      PROVE  /\ \A i, j \in DOMAIN Tail(s) : i < j => Tail(s)[i] < Tail(s)[j]
             /\ \A t \in ToSet(Tail(s)) : Head(s) < t
  BY <1>1, <1>2, <1>3, <1>6
<1> QED
  BY <1>2, <1>4, <1>5, <1>6

LEMMA AppendOne ==
  ASSUME NEW s \in Seq(Times), NEW t \in Times
  PROVE  /\ Append(s, t) \in Seq(Times) /\ Latest(Append(s, t)) = t
         /\ ToSet(Append(s, t)) = ToSet(s) \cup {t}
<1>1. /\ Append(s, t) \in Seq(Times) /\ Len(Append(s, t)) = Len(s) + 1
      /\ Append(s, t)[Len(s) + 1] = t /\ Append(s, t) # <<>>
      /\ DOMAIN Append(s, t) = 1..Len(s) + 1
      /\ \A i \in 1..Len(s) : Append(s, t)[i] = s[i]
  OBVIOUS
<1>2. Latest(Append(s, t)) = t
  BY <1>1 DEF Latest, Last
<1>3. ToSet(Append(s, t)) = ToSet(s) \cup {t}
  <2>1. DOMAIN s = 1..Len(s) /\ Len(s) \in Nat
    OBVIOUS
  <2>2. 1..Len(s) + 1 = 1..Len(s) \cup {Len(s) + 1}
    BY <2>1
  <2> QED
    BY <1>1, <2>1, <2>2 DEF ToSet
<1> QED
  BY <1>1, <1>2, <1>3

LEMMA LatestIsTime ==
  ASSUME NEW s \in Seq(Times) PROVE Latest(s) \in Nat
<1>1. \A t \in Times : t \in Nat
  BY DEF Times
<1>2. CASE s = <<>>
  BY <1>2 DEF Latest
<1>3. CASE s # <<>>
  <2>1. Len(s) \in DOMAIN s /\ s[Len(s)] \in Times
    BY <1>3
  <2> QED
    BY <1>1, <1>3, <2>1 DEF Latest, Last
<1> QED
  BY <1>2, <1>3

LEMMA LiveInvInit == LiveInit => LiveInv
BY LiveAssumption DEF LiveInit, LiveInv, RowsInv, LastInv, SettledInv,
     LostOnlyByFailure, Latest, Times, ToSet

LEMMA WatchKeeps ==
  ASSUME LiveInv, NEW b \in Batches(market), Watch(b) PROVE LiveInv'
<1>1. /\ b \in Seq(Times) /\ \A i, j \in DOMAIN b : i < j => b[i] < b[j]
  BY BatchOfTimes DEF LiveInv, RowsInv
<1>2. ToSet(b) \subseteq Times
  BY <1>1 DEF ToSet
<1>3. rows = <<>> /\ ToSet(rows) = {}
  BY DEF LiveInv, RowsInv, Watch, ToSet
<1>4. RowsInv' /\ LastInv' /\ (seen \subseteq Times)'
  BY <1>1, <1>2 DEF LiveInv, RowsInv, LastInv, Watch
<1>5. SettledInv'
  BY DEF LiveInv, SettledInv, Watch
<1>6. LostOnlyByFailure'
  BY <1>3 DEF LiveInv, LostOnlyByFailure, Watch
<1> QED
  BY <1>4, <1>5, <1>6 DEF LiveInv

LEMMA YieldKeeps ==
  ASSUME LiveInv, Yield PROVE LiveInv'
<1> DEFINE t == Head(rows)
<1>1. rows \in Seq(Times) /\ rows # <<>>
  BY DEF LiveInv, RowsInv, Yield
<1>2. /\ t \in Times /\ Tail(rows) \in Seq(Times)
      /\ ToSet(rows) = {t} \cup ToSet(Tail(rows))
      /\ \A i, j \in DOMAIN Tail(rows) : i < j => Tail(rows)[i] < Tail(rows)[j]
      /\ \A u \in ToSet(Tail(rows)) : t < u
  BY <1>1, HeadAndTail DEF LiveInv, RowsInv
<1>3. RowsInv'
  BY <1>2 DEF LiveInv, RowsInv, Yield
<1>4. seen' = seen /\ excused' = excused /\ seen \subseteq Times /\ Times \subseteq Nat
  BY DEF LiveInv, Yield, Times
<1>5. CASE t > lastTs
  <2>1. lastTs' = t /\ delivered' = Append(delivered, t) /\ rows' = Tail(rows)
    BY <1>5 DEF Yield
  <2>2. /\ delivered' \in Seq(Times) /\ Latest(delivered') = t
        /\ ToSet(delivered') = ToSet(delivered) \cup {t}
    BY <1>2, <2>1, AppendOne DEF LiveInv, LastInv
  <2>3. LastInv'
    <3>1. t \in Nat
      BY <1>2, <1>4
    <3> QED
      BY <3>1, <2>1, <2>2 DEF LastInv
  <2>4. SettledInv'
    <3> SUFFICES ASSUME NEW u \in seen, u <= t
                 PROVE  u \in ToSet(delivered') \cup excused
      BY <1>4, <2>1 DEF SettledInv
    <3>1. u \in Nat /\ t \in Nat
      BY <1>2, <1>4
    <3>2. u \notin ToSet(Tail(rows))
      BY <1>2, <3>1
    <3>3. u = t \/ u \notin ToSet(rows)
      BY <1>2, <3>2
    <3> QED
      BY <2>2, <3>3 DEF LiveInv, LostOnlyByFailure
  <2>5. LostOnlyByFailure'
    BY <1>2, <1>4, <2>1, <2>2 DEF LiveInv, LostOnlyByFailure
  <2> QED
    BY <1>3, <1>4, <2>3, <2>4, <2>5 DEF LiveInv
<1>6. CASE ~(t > lastTs)
  <2>1. lastTs' = lastTs /\ delivered' = delivered /\ rows' = Tail(rows)
    BY <1>6 DEF Yield
  <2>2. t <= lastTs
    <3>1. t \in Nat /\ lastTs \in Nat
      BY <1>2, <1>4 DEF LiveInv, LastInv
    <3> QED
      BY <3>1, <1>6
  <2>3. LastInv' /\ SettledInv'
    BY <1>4, <2>1 DEF LiveInv, LastInv, SettledInv
  <2>4. LostOnlyByFailure'
    BY <1>2, <1>4, <2>1, <2>2 DEF LiveInv, LostOnlyByFailure, SettledInv
  <2> QED
    BY <1>3, <1>4, <2>3, <2>4 DEF LiveInv
<1> QED
  BY <1>5, <1>6

LEMMA RowFailsKeeps ==
  ASSUME LiveInv, RowFails PROVE LiveInv'
<1> DEFINE t == Head(rows)
<1>1. rows \in Seq(Times) /\ rows # <<>>
  BY DEF LiveInv, RowsInv, RowFails
<1>2. /\ t \in Times
      /\ ToSet(rows) = {t} \cup ToSet(Tail(rows))
      /\ \A u \in ToSet(Tail(rows)) : t < u
  BY <1>1, HeadAndTail DEF LiveInv, RowsInv
<1>3. /\ lastTs' = t /\ t > lastTs /\ excused' = excused \cup ToSet(rows)
      /\ rows' = <<>> /\ stream' = "sleeping"
      /\ UNCHANGED <<market, delivered, seen>>
  BY DEF RowFails
<1>4. ToSet(<<>>) = {} /\ Times \subseteq Nat
  BY DEF ToSet, Times
<1>5. RowsInv'
  BY <1>3 DEF LiveInv, RowsInv
<1>6. LastInv'
  <2>1. Latest(delivered) \in Nat
    BY LatestIsTime DEF LiveInv, LastInv
  <2>2. t \in Nat
    BY <1>2, <1>4
  <2>3. delivered \in Seq(Times) /\ lastTs \in Nat /\ Latest(delivered) <= lastTs
    BY DEF LiveInv, LastInv
  <2>4. Latest(delivered) <= t
    BY <1>3, <2>1, <2>2, <2>3
  <2> QED
    BY <1>3, <2>2, <2>3, <2>4 DEF LastInv
<1>7. LostOnlyByFailure'
  BY <1>3, <1>4 DEF LiveInv, LostOnlyByFailure
<1>8. SettledInv'
  BY <1>3, <1>4, <1>7 DEF SettledInv, LostOnlyByFailure
<1> QED
  BY <1>3, <1>5, <1>6, <1>7, <1>8 DEF LiveInv

LEMMA LiveInvStep == LiveInv /\ [LiveNext]_liveVars => LiveInv'
<1> SUFFICES ASSUME LiveInv, [LiveNext]_liveVars PROVE LiveInv'
  OBVIOUS
<1> USE DEF LiveInv, RowsInv, LastInv, SettledInv, LostOnlyByFailure
<1>1. CASE FormCandle
  BY <1>1, LiveAssumption DEF FormCandle, Times
<1>2. ASSUME NEW b \in Batches(market), Watch(b) PROVE LiveInv'
  BY <1>2, WatchKeeps
<1>3. CASE WatchFails
  BY <1>3 DEF WatchFails
<1>4. CASE Yield
  BY <1>4, YieldKeeps
<1>5. CASE RowFails
  BY <1>5, RowFailsKeeps
<1>6. CASE BatchDone
  BY <1>6 DEF BatchDone
<1>7. CASE Wake
  BY <1>7 DEF Wake
<1>8. CASE CancelStream
  BY <1>8 DEF CancelStream
<1>9. CASE UNCHANGED liveVars
  BY <1>9 DEF liveVars
<1> QED
  BY <1>1, <1>2, <1>3, <1>4, <1>5, <1>6, <1>7, <1>8, <1>9 DEF LiveNext

\* The invariant of the live stream holds in every reachable state.
THEOREM LiveInvariant == LiveSpec => []LiveInv
<1> QED
  BY LiveInvInit, LiveInvStep, PTL DEF LiveSpec

\* What was sent and not delivered is excused, for any number of candles and
\* any answers of the exchange.
THEOREM NothingIsLostUnexcused == LiveSpec => []LostOnlyByFailure
<1>1. LiveInv => LostOnlyByFailure
  BY DEF LiveInv
<1> QED
  BY <1>1, LiveInvariant, PTL

\* The live provider is a candle feed: a step hands over one newer candle or
\* leaves the feed as it is.
THEOREM LiveImplementsFeed == LiveSpec => FeedSpec
<1>1. LiveInit => Feed!FeedInit
  BY DEF LiveInit, Feed!FeedInit, Latest
<1>2. LiveInv /\ [LiveNext]_liveVars => [Feed!FeedNext]_(Latest(delivered))
  <2> SUFFICES ASSUME LiveInv, [LiveNext]_liveVars
               PROVE  Feed!FeedNext \/ UNCHANGED Latest(delivered)
    OBVIOUS
  <2>1. CASE Yield /\ Head(rows) > lastTs
    <3>1. rows \in Seq(Times) /\ rows # <<>> /\ delivered \in Seq(Times)
      BY <2>1 DEF LiveInv, RowsInv, LastInv, Yield
    <3>2. Head(rows) \in Times
      BY <3>1
    <3>3. delivered' = Append(delivered, Head(rows))
      BY <2>1 DEF Yield
    <3>4. Latest(delivered') = Head(rows)
      BY <3>1, <3>2, <3>3, AppendOne
    <3>5. Head(rows) > Latest(delivered)
      <4>1. Latest(delivered) \in Nat /\ Head(rows) \in Nat /\ lastTs \in Nat
        <5>1. \A t \in Times : t \in Nat
          BY DEF Times
        <5> QED
          BY <3>1, <3>2, <5>1, LatestIsTime DEF LiveInv, LastInv
      <4> QED
        BY <2>1, <4>1 DEF LiveInv, LastInv
    <3>6. Feed!HandOver(Head(rows))
      BY <3>4, <3>5 DEF Feed!HandOver
    <3> QED
      BY <3>2, <3>6 DEF Feed!FeedNext
  <2>2. CASE ~(Yield /\ Head(rows) > lastTs)
    <3>1. delivered' = delivered
      BY <2>2 DEF LiveNext, liveVars, FormCandle, Watch, WatchFails, Yield,
                  RowFails, BatchDone, Wake, CancelStream
    <3> QED
      BY <3>1 DEF Latest
  <2> QED
    BY <2>1, <2>2
<1> QED
  BY <1>1, <1>2, LiveInvariant, PTL DEF LiveSpec, FeedSpec, Feed!FeedSpec
=============================================================================
