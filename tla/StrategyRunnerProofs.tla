------------------------- MODULE StrategyRunnerProofs -------------------------
(***************************************************************************)
(* Proofs about StrategyRunner: the trade history has no hole, a position  *)
(* is sold by one exit at most, and every confirmed BUY is watched or was  *)
(* signalled to be exited -- wherever a call fails or the task is cancelled.*)
(*                                                                         *)
(* The inductive invariant follows an order through the loop.  CurInv: the *)
(* signal in hand and the order it became.  QueueInv: a position goes from *)
(* the list to the queue of exits to the hand to an order, and is at one   *)
(* of these places only.  WatchInv: none drops off the list otherwise.     *)
(***************************************************************************)
EXTENDS StrategyRunner, TLAPS

Executing == pc \in {"check", "order"}

CurInv ==
    /\ cur.exitOf # 0 => cur.exitOf \in exited
    /\ pc = "publish" => placed \in acked \ announced /\ side[placed] = cur.side
    /\ HistoryHasNoHole

QueueInv ==
    /\ \A p \in tracked : p.order \in announced /\ p.order \notin exited
    /\ \A p, q \in tracked : p.order = q.order => p = q
    /\ exited \subseteq announced
    /\ \A s \in queue : s.exitOf \in exited
    /\ \A s, t \in queue : s.exitOf = t.exitOf => s = t
    /\ Executing => \A s \in queue : s.exitOf # cur.exitOf
    /\ \A o \in 1..placed : exitOf[o] # 0 =>
          /\ exitOf[o] \in exited
          /\ \A s \in queue : s.exitOf # exitOf[o]
          /\ Executing => cur.exitOf # exitOf[o]
    /\ OneExitPerPosition

WatchInv ==
    \A o \in announced : side[o] = "buy" =>
        (\E p \in tracked : p.order = o) \/ o \in exited

RunInv == TypeOK /\ CurInv /\ QueueInv /\ WatchInv

-----------------------------------------------------------------------------
(* Types *)

\* The numbers of placed orders.
LEMMA PlacedOrders ==
  ASSUME TypeOK
  PROVE  /\ 1..placed \subseteq Orders /\ acked \subseteq Orders /\ announced \subseteq Orders
         /\ placed + 1 \notin 1..placed /\ placed + 1 \notin acked
         /\ 0 \notin Orders
         /\ placed < MaxOrders => /\ placed + 1 \in Orders /\ placed + 1 \in 0..MaxOrders
                                  /\ 1..(placed + 1) = 1..placed \cup {placed + 1}
BY RunnerBoundsAssumption DEF TypeOK, Orders

LEMMA LevelsAreNumbers == (\A x \in Prices : x \in Int) /\ (\A x \in Distances : x \in Int)
<1>1. \A x \in Nat : x \in Int
  OBVIOUS
<1>2. Prices \subseteq Nat /\ Distances \subseteq Nat
  BY PricesAssumption, DistancesAssumption
<1> QED
  BY <1>1, <1>2

LEMMA ExitSignalType ==
  ASSUME NEW p \in Positions, NEW k \in Candles
  PROVE  ExitSignal(p, k) \in Signals /\ ExitSignal(p, k).exitOf = p.order
<1>1. /\ p.entry \in Int /\ p.stop \in Distances /\ p.take \in Distances
      /\ p.order \in 0..MaxOrders
  BY RunnerBoundsAssumption DEF Positions, Orders
<1>2. StopPrice(p) \in Int /\ TakePrice(p) \in Int
  <2>1. p.stop \in Int /\ p.take \in Int
    BY <1>1, LevelsAreNumbers
  <2> QED
    BY <1>1, <2>1 DEF StopPrice, TakePrice
<1>3. 0 \in Distances
  BY DistancesAssumption
<1> QED
  BY <1>1, <1>2, <1>3 DEF ExitSignal, Signals

LEMMA OpenedType ==
  ASSUME NEW o \in Orders, NEW price \in Prices, cur \in Signals
  PROVE  Opened(o, price) \in Positions /\ Opened(o, price).order = o
BY DistancesAssumption, LevelsAreNumbers DEF Opened, Positions, Signals

LEMMA TypeInit == Init => TypeOK
<1> SUFFICES ASSUME Init PROVE TypeOK
  OBVIOUS
<1>1. NoSignal \in Signals
  BY DistancesAssumption, RunnerBoundsAssumption DEF NoSignal, Signals
<1> QED
  BY <1>1, RunnerBoundsAssumption DEF Init, TypeOK, Locations, Awaits, Orders

LEMMA TypeStep == TypeOK /\ CurInv /\ [Next]_vars => TypeOK'
<1> SUFFICES ASSUME TypeOK, CurInv, [Next]_vars PROVE TypeOK'
  OBVIOUS
<1>1. ASSUME NEW k \in Candles, Candle(k) PROVE TypeOK'
  <2> DEFINE hits == {p \in tracked : StopHit(p, k) \/ TakeHit(p, k)}
  <2>1. hits \subseteq Positions /\ Remaining(hits) \subseteq Positions
    BY DEF TypeOK, Remaining
  <2>2. queue' \subseteq Signals
    BY <1>1, <2>1, ExitSignalType DEF Candle
  <2>3. exited' \subseteq Orders /\ tried \subseteq exited'
    BY <1>1, <2>1 DEF Candle, TypeOK, Positions
  <2>4. candles' \in 0..MaxCandles
    BY <1>1, RunnerBoundsAssumption DEF Candle, TypeOK
  <2> QED
    BY <1>1, <2>1, <2>2, <2>3, <2>4 DEF Candle, TypeOK, Locations, orderVars
<1>2. ASSUME NEW s \in {"buy", "sell"}, NEW stop \in Distances, NEW take \in Distances,
             Entry(s, stop, take)
      PROVE  TypeOK'
  <2>1. cur' \in Signals
    <3>1. candle.close \in Int
      <4>1. candle.close \in Prices
        BY DEF TypeOK, Candles
      <4> QED
        BY <4>1, LevelsAreNumbers
    <3>2. 0 \in 0..MaxOrders
      BY RunnerBoundsAssumption
    <3> QED
      BY <1>2, <3>1, <3>2 DEF Entry, Signals
  <2> QED
    BY <1>2, <2>1 DEF Entry, TypeOK, Locations, Awaits, orderVars
<1>3. ASSUME Reject PROVE TypeOK'
  <2>1. tried' \subseteq exited
    BY <1>3 DEF Reject, Tried, CurInv, TypeOK
  <2> QED
    BY <1>3, <2>1 DEF Reject, TypeOK, Locations, Awaits, orderVars
<1>4. ASSUME CreateOrder PROVE TypeOK'
  <2>1. /\ placed' \in 0..MaxOrders /\ acked' \subseteq 1..placed'
        /\ announced \subseteq acked'
    BY <1>4, PlacedOrders DEF CreateOrder, PlaceOrder, TypeOK
  <2>2. side' \in [Orders -> {"buy", "sell"}] /\ exitOf' \in [Orders -> 0..MaxOrders]
    BY <1>4 DEF CreateOrder, PlaceOrder, TypeOK, Signals
  <2>3. tried' \subseteq exited
    BY <1>4 DEF CreateOrder, Tried, CurInv, TypeOK
  <2> QED
    BY <1>4, <2>1, <2>2, <2>3 DEF CreateOrder, TypeOK, Locations, Awaits
<1>5. ASSUME CreateOrderReplyLost PROVE TypeOK'
  <2>1. /\ placed' \in 0..MaxOrders /\ acked \subseteq 1..placed'
        /\ announced \subseteq acked
    BY <1>5, PlacedOrders DEF CreateOrderReplyLost, PlaceOrder, TypeOK
  <2>2. side' \in [Orders -> {"buy", "sell"}] /\ exitOf' \in [Orders -> 0..MaxOrders]
    BY <1>5 DEF CreateOrderReplyLost, PlaceOrder, TypeOK, Signals
  <2>3. tried' \subseteq exited
    BY <1>5 DEF CreateOrderReplyLost, Tried, CurInv, TypeOK
  <2> QED
    BY <1>5, <2>1, <2>2, <2>3 DEF CreateOrderReplyLost, TypeOK, Locations, Awaits
<1>6. ASSUME PublishTrade PROVE TypeOK'
  <2>1. placed \in Orders /\ announced' \subseteq acked
    BY <1>6, PlacedOrders DEF PublishTrade, CurInv, TypeOK
  <2>2. tracked' \subseteq Positions
    BY <1>6, <2>1, OpenedType DEF PublishTrade, TypeOK
  <2> QED
    BY <1>6, <2>1, <2>2 DEF PublishTrade, Resume, TypeOK, Locations, Awaits, orderVars
<1>7. ASSUME Cancel PROVE TypeOK'
  <2>1. CASE UNCHANGED <<placed, side, exitOf>>
    BY <1>7, <2>1 DEF Cancel, TypeOK, Locations
  <2>2. CASE PlaceOrder
    <3>1. placed' \in 0..MaxOrders /\ acked \subseteq 1..placed'
      BY <2>2, PlacedOrders DEF PlaceOrder, TypeOK
    <3>2. side' \in [Orders -> {"buy", "sell"}] /\ exitOf' \in [Orders -> 0..MaxOrders]
      BY <2>2 DEF PlaceOrder, TypeOK, Signals
    <3> QED
      BY <1>7, <3>1, <3>2 DEF Cancel, TypeOK, Locations
  <2> QED
    BY <1>7, <2>1, <2>2 DEF Cancel
<1> USE DEF TypeOK, Locations, Awaits, orderVars
<1>8. ASSUME NextExit PROVE TypeOK'
  BY <1>8 DEF NextExit
<1>9. ASSUME NoEntry PROVE TypeOK'
  BY <1>9 DEF NoEntry
<1>10. ASSUME OnCandleRaises PROVE TypeOK'
  BY <1>10 DEF OnCandleRaises
<1>11. ASSUME Approve PROVE TypeOK'
  BY <1>11 DEF Approve
<1>12. ASSUME BalanceFails PROVE TypeOK'
  BY <1>12 DEF BalanceFails
<1>13. ASSUME PublishTradeFails PROVE TypeOK'
  BY <1>13 DEF PublishTradeFails
<1>14. ASSUME PublishError PROVE TypeOK'
  BY <1>14 DEF PublishError, Resume
<1>15. ASSUME PublishErrorFails PROVE TypeOK'
  BY <1>15 DEF PublishErrorFails
<1>16. CASE UNCHANGED vars
  BY <1>16 DEF vars
<1>17. ASSUME OnStart \/ OnStartRaises PROVE TypeOK'
  BY <1>17 DEF OnStart, OnStartRaises
<1> QED
  BY <1>1, <1>2, <1>3, <1>4, <1>5, <1>6, <1>7, <1>8, <1>9, <1>10, <1>11, <1>12, <1>13, <1>14, <1>15, <1>16,
     <1>17
  DEF Next, OnCandle, Execute

-----------------------------------------------------------------------------
(* The signal in hand *)

LEMMA CurStep == TypeOK /\ CurInv /\ QueueInv /\ [Next]_vars => CurInv'
<1> SUFFICES ASSUME TypeOK, CurInv, QueueInv, [Next]_vars PROVE CurInv'
  OBVIOUS
<1>1. ASSUME NextExit PROVE CurInv'
  BY <1>1 DEF NextExit, CurInv, QueueInv, HistoryHasNoHole, Ended, orderVars
<1> USE PlacedOrders DEF CurInv, HistoryHasNoHole, Ended, orderVars, TypeOK
<1>2. ASSUME NEW k \in Candles, Candle(k) PROVE CurInv'
  BY <1>2 DEF Candle
<1>3. ASSUME NoEntry PROVE CurInv'
  BY <1>3 DEF NoEntry
<1>4. ASSUME NEW s \in {"buy", "sell"}, NEW stop \in Distances, NEW take \in Distances,
             Entry(s, stop, take)
      PROVE  CurInv'
  BY <1>4 DEF Entry
<1>5. ASSUME OnCandleRaises PROVE CurInv'
  BY <1>5 DEF OnCandleRaises
<1>6. ASSUME Approve PROVE CurInv'
  BY <1>6 DEF Approve
<1>7. ASSUME Reject PROVE CurInv'
  BY <1>7 DEF Reject, Tried
<1>8. ASSUME BalanceFails PROVE CurInv'
  BY <1>8 DEF BalanceFails
<1>9. ASSUME CreateOrder PROVE CurInv'
  BY <1>9 DEF CreateOrder, PlaceOrder, Tried
<1>10. ASSUME CreateOrderReplyLost PROVE CurInv'
  BY <1>10 DEF CreateOrderReplyLost, PlaceOrder, Tried
<1>11. ASSUME PublishTrade PROVE CurInv'
  BY <1>11 DEF PublishTrade, Resume
<1>12. ASSUME PublishTradeFails PROVE CurInv'
  BY <1>12 DEF PublishTradeFails
<1>13. ASSUME PublishError PROVE CurInv'
  BY <1>13 DEF PublishError, Resume
<1>14. ASSUME PublishErrorFails PROVE CurInv'
  BY <1>14 DEF PublishErrorFails
<1>15. ASSUME Cancel PROVE CurInv'
  BY <1>15 DEF Cancel, PlaceOrder, Awaits
<1>16. CASE UNCHANGED vars
  BY <1>16 DEF vars
<1>17. ASSUME OnStart \/ OnStartRaises PROVE CurInv'
  BY <1>17 DEF OnStart, OnStartRaises
<1> QED
  BY <1>1, <1>2, <1>3, <1>4, <1>5, <1>6, <1>7, <1>8, <1>9, <1>10, <1>11, <1>12, <1>13, <1>14, <1>15, <1>16,
     <1>17
  DEF Next, OnCandle, Execute

-----------------------------------------------------------------------------
(* Where a position is on its way out *)

LEMMA QueueStep == TypeOK /\ CurInv /\ QueueInv /\ [Next]_vars => QueueInv'
<1> SUFFICES ASSUME TypeOK, CurInv, QueueInv, [Next]_vars PROVE QueueInv'
  OBVIOUS
<1>1. ASSUME NEW k \in Candles, Candle(k) PROVE QueueInv'
  <2> DEFINE hits == {p \in tracked : StopHit(p, k) \/ TakeHit(p, k)}
  <2>1. /\ tracked' = tracked \ hits /\ exited' = exited \cup {p.order : p \in hits}
        /\ queue' = {ExitSignal(p, k) : p \in hits}
        /\ pc' = "exits" /\ UNCHANGED <<placed, exitOf, announced>>
    BY <1>1 DEF Candle, Remaining, orderVars
  <2>2. \A s \in queue' : \E p \in hits : s = ExitSignal(p, k) /\ s.exitOf = p.order
    BY <2>1, ExitSignalType DEF TypeOK
  <2>3. \A p \in tracked' : p.order \in announced /\ p.order \notin exited'
    BY <2>1 DEF QueueInv
  <2>4. exited' \subseteq announced /\ \A s \in queue' : s.exitOf \in exited' \ exited
    BY <2>1, <2>2 DEF QueueInv
  <2>5. \A s, t \in queue' : s.exitOf = t.exitOf => s = t
    BY <2>2 DEF QueueInv
  <2>6. ~Executing'
    BY <2>1 DEF Executing
  <2>7. \A o \in 1..placed : exitOf[o] # 0 =>
            exitOf[o] \in exited' /\ \A s \in queue' : s.exitOf # exitOf[o]
    BY <2>1, <2>4 DEF QueueInv
  <2> HIDE DEF hits
  <2> QED
    BY <2>1, <2>3, <2>4, <2>5, <2>6, <2>7 DEF QueueInv, OneExitPerPosition
<1>2. ASSUME PublishTrade PROVE QueueInv'
  <2>1. /\ placed \in Orders /\ announced' = announced \cup {placed}
        /\ placed \notin announced
        /\ ~Executing' /\ UNCHANGED <<placed, exitOf, exited, queue>>
    BY <1>2, PlacedOrders
    DEF PublishTrade, Resume, Executing, CurInv, TypeOK, orderVars
  <2>2. \/ tracked' = tracked
        \/ \E price \in Prices : tracked' = tracked \cup {Opened(placed, price)}
    BY <1>2 DEF PublishTrade
  <2>3. \A price \in Prices : Opened(placed, price).order = placed
    BY <2>1, OpenedType DEF TypeOK
  <2>4. \A p \in tracked' : p.order \in announced' /\ p.order \notin exited'
    BY <2>1, <2>2, <2>3 DEF QueueInv
  <2>5. \A p, q \in tracked' : p.order = q.order => p = q
    BY <2>1, <2>2, <2>3 DEF QueueInv
  <2> QED
    BY <2>1, <2>4, <2>5 DEF QueueInv, OneExitPerPosition
<1> USE PlacedOrders DEF QueueInv, Executing, OneExitPerPosition, CurInv, orderVars, TypeOK
<1>3. ASSUME NextExit PROVE QueueInv'
  BY <1>3 DEF NextExit
<1>4. ASSUME NoEntry PROVE QueueInv'
  BY <1>4 DEF NoEntry
<1>5. ASSUME NEW s \in {"buy", "sell"}, NEW stop \in Distances, NEW take \in Distances,
             Entry(s, stop, take)
      PROVE  QueueInv'
  BY <1>5 DEF Entry
<1>6. ASSUME OnCandleRaises PROVE QueueInv'
  BY <1>6 DEF OnCandleRaises
<1>7. ASSUME Approve PROVE QueueInv'
  BY <1>7 DEF Approve
<1>8. ASSUME Reject PROVE QueueInv'
  BY <1>8 DEF Reject, Tried
<1>9. ASSUME BalanceFails PROVE QueueInv'
  BY <1>9 DEF BalanceFails
<1>10. ASSUME CreateOrder PROVE QueueInv'
  BY <1>10 DEF CreateOrder, PlaceOrder, Tried
<1>11. ASSUME CreateOrderReplyLost PROVE QueueInv'
  BY <1>11 DEF CreateOrderReplyLost, PlaceOrder, Tried
<1>12. ASSUME PublishTradeFails PROVE QueueInv'
  BY <1>12 DEF PublishTradeFails
<1>13. ASSUME PublishError PROVE QueueInv'
  BY <1>13 DEF PublishError, Resume
<1>14. ASSUME PublishErrorFails PROVE QueueInv'
  BY <1>14 DEF PublishErrorFails
<1>15. ASSUME Cancel PROVE QueueInv'
  BY <1>15 DEF Cancel, PlaceOrder, Awaits
<1>16. CASE UNCHANGED vars
  BY <1>16 DEF vars
<1>17. ASSUME OnStart \/ OnStartRaises PROVE QueueInv'
  BY <1>17 DEF OnStart, OnStartRaises
<1> QED
  BY <1>1, <1>2, <1>3, <1>4, <1>5, <1>6, <1>7, <1>8, <1>9, <1>10, <1>11, <1>12, <1>13, <1>14, <1>15, <1>16,
     <1>17
  DEF Next, OnCandle, Execute

-----------------------------------------------------------------------------
(* No position drops off the list but by its exit *)

LEMMA WatchStep == TypeOK /\ CurInv /\ WatchInv /\ [Next]_vars => WatchInv'
<1> SUFFICES ASSUME TypeOK, CurInv, WatchInv, [Next]_vars PROVE WatchInv'
  OBVIOUS
<1>1. ASSUME NEW k \in Candles, Candle(k) PROVE WatchInv'
  <2>1. /\ tracked' = tracked \ {p \in tracked : StopHit(p, k) \/ TakeHit(p, k)}
        /\ \A p \in tracked : p \in tracked' \/ p.order \in exited'
        /\ exited \subseteq exited' /\ UNCHANGED <<announced, side>>
    BY <1>1 DEF Candle, Remaining, orderVars
  <2> QED
    BY <2>1 DEF WatchInv
<1>2. ASSUME PublishTrade PROVE WatchInv'
  <2>1. /\ announced' = announced \cup {placed} /\ tracked \subseteq tracked'
        /\ UNCHANGED <<side, exited>> /\ (placed \in Orders)
    BY <1>2, PlacedOrders DEF PublishTrade, CurInv, orderVars
  <2>2. side[placed] = "buy" => \E price \in Prices : Opened(placed, price) \in tracked'
    BY <1>2 DEF PublishTrade, CurInv
  <2>3. cur \in Signals
    BY DEF TypeOK
  <2> QED
    BY <2>1, <2>2, <2>3, OpenedType DEF WatchInv
<1> USE PlacedOrders DEF WatchInv, CurInv, orderVars, TypeOK
<1>3. ASSUME NextExit PROVE WatchInv'
  BY <1>3 DEF NextExit
<1>4. ASSUME NoEntry PROVE WatchInv'
  BY <1>4 DEF NoEntry
<1>5. ASSUME NEW s \in {"buy", "sell"}, NEW stop \in Distances, NEW take \in Distances,
             Entry(s, stop, take)
      PROVE  WatchInv'
  BY <1>5 DEF Entry
<1>6. ASSUME OnCandleRaises PROVE WatchInv'
  BY <1>6 DEF OnCandleRaises
<1>7. ASSUME Approve PROVE WatchInv'
  BY <1>7 DEF Approve
<1>8. ASSUME Reject PROVE WatchInv'
  BY <1>8 DEF Reject, Tried
<1>9. ASSUME BalanceFails PROVE WatchInv'
  BY <1>9 DEF BalanceFails
<1>10. ASSUME CreateOrder PROVE WatchInv'
  BY <1>10 DEF CreateOrder, PlaceOrder, Tried
<1>11. ASSUME CreateOrderReplyLost PROVE WatchInv'
  BY <1>11 DEF CreateOrderReplyLost, PlaceOrder, Tried
<1>12. ASSUME PublishTradeFails PROVE WatchInv'
  BY <1>12 DEF PublishTradeFails
<1>13. ASSUME PublishError PROVE WatchInv'
  BY <1>13 DEF PublishError, Resume
<1>14. ASSUME PublishErrorFails PROVE WatchInv'
  BY <1>14 DEF PublishErrorFails
<1>15. ASSUME Cancel PROVE WatchInv'
  BY <1>15 DEF Cancel, PlaceOrder, Awaits
<1>16. CASE UNCHANGED vars
  BY <1>16 DEF vars
<1>17. ASSUME OnStart \/ OnStartRaises PROVE WatchInv'
  BY <1>17 DEF OnStart, OnStartRaises
<1> QED
  BY <1>1, <1>2, <1>3, <1>4, <1>5, <1>6, <1>7, <1>8, <1>9, <1>10, <1>11, <1>12, <1>13, <1>14, <1>15, <1>16,
     <1>17
  DEF Next, OnCandle, Execute

-----------------------------------------------------------------------------
(* The inductive invariant and what follows from it *)

LEMMA RunInit == Init => RunInv
<1> SUFFICES ASSUME Init PROVE RunInv
  OBVIOUS
<1>1. 1..placed = {}
  BY DEF Init
<1>2. CurInv
  BY DEF Init, CurInv, HistoryHasNoHole, NoSignal
<1>3. QueueInv
  BY <1>1 DEF Init, QueueInv, Executing, OneExitPerPosition
<1>4. WatchInv
  BY DEF Init, WatchInv
<1> QED
  BY <1>2, <1>3, <1>4, TypeInit DEF RunInv

LEMMA RunCorrect == Spec => []RunInv
<1>1. RunInv /\ [Next]_vars => RunInv'
  BY TypeStep, CurStep, QueueStep, WatchStep DEF RunInv
<1> QED
  BY <1>1, RunInit, PTL DEF Spec

\* Every reachable state of the runner is well typed; in particular no order is
\* announced that was not confirmed.
THEOREM RunnerTypeCorrect == Spec => []TypeOK
<1>1. RunInv => TypeOK
  BY DEF RunInv
<1> QED
  BY <1>1, RunCorrect, PTL

\* A confirmed order that was not announced is the last of its runner.
THEOREM HistoryIsWhole == Spec => []HistoryHasNoHole
<1>1. RunInv => HistoryHasNoHole
  BY DEF RunInv, CurInv
<1> QED
  BY <1>1, RunCorrect, PTL

\* No position is sold by two of the runner's exit orders.
THEOREM ExitsAreUnique == Spec => []OneExitPerPosition
<1>1. RunInv => OneExitPerPosition
  BY DEF RunInv, QueueInv
<1> QED
  BY <1>1, RunCorrect, PTL

\* Between candles a confirmed BUY is either watched or was signalled to be exited.
THEOREM BuysAreWatched == Spec => []WatchedOrExited
<1>1. RunInv => WatchedOrExited
  <2> SUFFICES ASSUME RunInv, pc = "candle", NEW o \in acked, side[o] = "buy"
               PROVE  (\E p \in tracked : p.order = o) <=> o \notin exited
    BY DEF WatchedOrExited
  <2>1. o \in announced
    BY DEF RunInv, CurInv, HistoryHasNoHole, Ended
  <2>2. (\E p \in tracked : p.order = o) \/ o \in exited
    BY <2>1 DEF RunInv, WatchInv
  <2> QED
    BY <2>2 DEF RunInv, QueueInv
<1> QED
  BY <1>1, RunCorrect, PTL
=============================================================================
