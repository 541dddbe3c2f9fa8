--------------------------- MODULE BacktestProofs ---------------------------
(***************************************************************************)
(* Proofs about Backtest: its balances are never negative and are what the *)
(* fills make of the initial funds, no order is lost or filled twice, only *)
(* orders that shared their money abort a run, a sale's result is that of  *)
(* the pair it closes, and a grid signals each cell it crosses once.       *)
(*                                                                         *)
(* CoverInv carries OnlyOverlapAborts through the loop of on_candle: until *)
(* another order is filled, the money of an open order is there.  CostInv  *)
(* says what the cost of the last buy is kept for, FundsInv and GridInv    *)
(* are for the ledger and the grid and stand before their proofs.          *)
(***************************************************************************)
EXTENDS Backtest, FiniteSetTheorems, TLAPS

CoverInv ==
    \A i \in Resting :
        /\ orders[i].after <= Len(fills)
        /\ orders[i].after = Len(fills) => Affordable(orders[i])

CostInv ==
    buyCost = IF orders # <<>> /\ orders[Len(orders)].side = "buy"
              THEN Known(Value(orders[Len(orders)]) + orders[Len(orders)].fee)
              ELSE NoCost

\* Of the disposition of the orders, what OrdersAccounted does not say.
SplitInv == queue \cap kept = {}

BookInv == SplitInv /\ OrdersAccounted /\ CoverInv

BacktestInv == BacktestTypeOK /\ BookInv /\ CostInv /\ PnlOfAdjacentPair

-----------------------------------------------------------------------------
(* Money *)

LEMMA ProductOfNats ==
  ASSUME NEW a \in Nat, NEW b \in Nat PROVE a * b \in Nat
OBVIOUS

LEMMA ProductGrows ==
  ASSUME NEW a \in Nat, NEW b \in Nat, NEW c \in Nat, b <= c PROVE a * b <= a * c
OBVIOUS

LEMMA CancelFactor ==
  ASSUME NEW a \in Nat, NEW b \in Nat, NEW c \in Nat \ {0}, a * c <= b * c
  PROVE  a <= b
<1> SUFFICES ASSUME a > b PROVE FALSE
  OBVIOUS
<1>1. a - b \in Nat /\ a - b >= 1
  OBVIOUS
<1>2. (a - b) * c >= c
  BY <1>1
<1>3. (a - b) * c = a * c - b * c
  OBVIOUS
<1> QED
  BY <1>2, <1>3

\* The notional of an order, its value and its fee; the fee is within the value.
LEMMA OrderMoney ==
  ASSUME NEW o \in Order
  PROVE  /\ Notional(o) \in Nat
         /\ Value(o) \in Nat /\ Fee(o) \in Nat /\ Fee(o) <= Value(o)
<1>1. Notional(o) \in Nat
  BY ProductOfNats DEF Order, Notional
<1>2. FeeNum \in Nat /\ FeeDen \in Nat /\ FeeNum <= FeeDen
  BY RatesAssumption
<1> QED
  BY <1>1, <1>2, ProductOfNats, ProductGrows DEF Value, Fee

\* An order approved against the balances can be filled from them.
LEMMA ApprovedIsAffordable ==
  ASSUME NEW o \in Order, quote \in Nat, Approved(o) PROVE Affordable(o)
<1>1. CASE o.side = "buy"
  <2> DEFINE n == Notional(o)
             both == FeeDen + FeeNum
  <2>1. n \in Nat /\ PctNum \in Nat \ {0} /\ PctDen \in Nat \ {0} /\ FeeDen \in Nat
        /\ FeeNum \in Nat /\ PctNum * both <= PctDen * FeeDen
    BY RatesAssumption, OrderMoney
  <2>2. (n * FeeDen) * PctDen <= quote * PctNum
    BY DEF Approved, Value
  <2>3. n * (PctNum * both) <= n * (PctDen * FeeDen)
    <3>1. PctNum * both \in Nat /\ PctDen * FeeDen \in Nat
      BY <2>1, ProductOfNats
    <3> HIDE DEF n, both
    <3> QED
      BY <2>1, <3>1, ProductGrows
  <2>4. n * (PctNum * both) = (n * both) * PctNum
    <3>1. both \in Nat
      BY <2>1
    <3> HIDE DEF n, both
    <3> QED
      BY <2>1, <3>1
  <2>5. n * (PctDen * FeeDen) = (n * FeeDen) * PctDen
    <3> HIDE DEF n
    <3> QED
      BY <2>1
  <2>6. n * both \in Nat
    BY <2>1, ProductOfNats
  <2>7. (n * both) * PctNum <= quote * PctNum
    <3>1. (n * both) * PctNum \in Nat /\ (n * FeeDen) * PctDen \in Nat
          /\ quote * PctNum \in Nat
      BY <2>1, <2>6, ProductOfNats
    <3> HIDE DEF n, both
    <3> QED
      BY <2>2, <2>3, <2>4, <2>5, <3>1
  <2>8. n * both <= quote
    <3> HIDE DEF n, both
    <3> QED
      BY <2>1, <2>6, <2>7, CancelFactor
  <2>9. n * both = n * FeeDen + n * FeeNum
    <3> HIDE DEF n
    <3> QED
      BY <2>1
  <2> QED
    BY <1>1, <2>8, <2>9 DEF Affordable, Value, Fee
<1>2. CASE o.side # "buy"
  BY <1>2 DEF Approved, Affordable
<1> QED
  BY <1>1, <1>2

-----------------------------------------------------------------------------
(* The steps that touch orders *)

LEMMA FillKeeps ==
  ASSUME BacktestTypeOK, NEW i \in DOMAIN orders, Affordable(orders[i]), Fill(i)
  PROVE  quote' \in Nat /\ base' \in Nat /\ fills' = Append(fills, i)
         /\ fills' \in Seq(DOMAIN orders)
<1>1. orders[i] \in Order /\ quote \in Nat /\ base \in Nat
  BY DEF BacktestTypeOK
<1>2. /\ Value(orders[i]) \in Nat /\ Fee(orders[i]) \in Nat
      /\ Fee(orders[i]) <= Value(orders[i]) /\ orders[i].size \in Nat
  BY <1>1, OrderMoney DEF Order
<1>3. quote' \in Nat /\ base' \in Nat
  <2> DEFINE v == Value(orders[i])
             f == Fee(orders[i])
             s == orders[i].size
  <2>1. CASE orders[i].side = "buy"
    <3>1. quote' = quote - v - f /\ base' = base + s /\ v + f <= quote
      BY <2>1 DEF Fill, Affordable
    <3>2. v \in Nat /\ f \in Nat /\ s \in Nat
      BY <1>2
    <3> HIDE DEF v, f, s
    <3> QED
      BY <1>1, <3>1, <3>2
  <2>2. CASE orders[i].side # "buy"
    <3>1. quote' = quote + v - f /\ base' = base - s /\ s <= base
      BY <2>2 DEF Fill, Affordable
    <3>2. v \in Nat /\ f \in Nat /\ f <= v /\ s \in Nat
      BY <1>2
    <3> HIDE DEF v, f, s
    <3> QED
      BY <1>1, <3>1, <3>2
  <2> QED
    BY <2>1, <2>2
<1> QED
  BY <1>3 DEF Fill, BacktestTypeOK

\* A signal leaves the orders alone, or places one that was approved.
LEMMA SignalPlaces ==
  ASSUME BacktestTypeOK, NEW r, Signal(r)
  PROVE  \/ UNCHANGED <<orders, buyCost, open>>
         \/ \E o \in Order : /\ o.after = Len(fills) /\ Approved(o) /\ Record(o)
                             /\ open' = open \cup {Len(orders) + 1}
<1> DEFINE next == Step(kind, strategy, candle.close, r)
           o == [side |-> next.side, size |-> SizeOf(kind, candle.close),
                 price |-> candle.close, after |-> Len(fills), fee |-> 0,
                 pnl |-> NoCost]
<1>1. CASE next.side \in Sides /\ Approved(o)
  <2>1. candle.close \in Prices /\ candle.close \in Nat
    BY PricesAssumption DEF BacktestTypeOK, BacktestCandles
  <2>2. SizeOf(kind, candle.close) \in Nat
    BY <2>1, SizesAssumption DEF SizeOf
  <2>3. Len(fills) \in Nat
    BY DEF BacktestTypeOK
  <2>4. o \in Order
    <3> HIDE DEF next
    <3> QED
      BY <1>1, <2>1, <2>2, <2>3 DEF Order, Costs, NoCost
  <2>5. Record(o) /\ open' = open \cup {Len(orders) + 1}
    BY <1>1 DEF Signal, PlaceLimit
  <2>6. o.after = Len(fills)
    OBVIOUS
  <2> HIDE DEF o
  <2> QED
    BY <1>1, <2>4, <2>5, <2>6
<1>2. CASE ~(next.side \in Sides /\ Approved(o))
  BY <1>2 DEF Signal
<1> QED
  BY <1>1, <1>2

\* A recorded trade is an order like the approved one, behind the others.
LEMMA RecordAppends ==
  ASSUME BacktestTypeOK, NEW o \in Order, Record(o)
  PROVE  \E t \in Order :
             /\ orders' = Append(orders, t)
             /\ t.side = o.side /\ t.after = o.after /\ t.size = o.size
             /\ t.price = o.price /\ t.fee = LastFillFee
             /\ t.pnl = (IF o.side = "sell" /\ buyCost.known
                         THEN Known(Value(o) - LastFillFee - buyCost.amount)
                         ELSE NoCost)
             /\ buyCost' = (IF o.side = "buy" THEN Known(Value(o) + LastFillFee)
                                              ELSE NoCost)
             /\ buyCost' \in Costs
<1> DEFINE p == IF o.side = "sell" /\ buyCost.known
                THEN Known(Value(o) - LastFillFee - buyCost.amount) ELSE NoCost
           t == [o EXCEPT !.fee = LastFillFee, !.pnl = p]
<1>1. LastFillFee \in Nat
  <2>1. CASE fills = <<>>
    BY <2>1 DEF LastFillFee
  <2>2. CASE fills # <<>>
    <3>1. fills[Len(fills)] \in DOMAIN orders
      BY <2>2 DEF BacktestTypeOK
    <3>2. orders[fills[Len(fills)]] \in Order
      BY <3>1 DEF BacktestTypeOK
    <3> QED
      BY <2>2, <3>2, OrderMoney DEF LastFillFee
  <2> QED
    BY <2>1, <2>2
<1>2. Value(o) \in Nat
  BY OrderMoney
<1>3. p \in Costs
  BY <1>1, <1>2 DEF BacktestTypeOK, Costs, Known, NoCost
<1>4. t \in Order
  <2> HIDE DEF p
  <2> QED
    BY <1>1, <1>3 DEF Order
<1>5. orders' = Append(orders, t)
      /\ buyCost' = IF o.side = "buy" THEN Known(Value(o) + LastFillFee) ELSE NoCost
  BY DEF Record
<1>6. buyCost' \in Costs
  BY <1>1, <1>2, <1>5 DEF Costs, Known, NoCost
<1>7. /\ t.side = o.side /\ t.after = o.after /\ t.size = o.size
      /\ t.price = o.price /\ t.fee = LastFillFee /\ t.pnl = p
  BY DEF Order
<1> HIDE DEF t
<1> QED
  BY <1>4, <1>5, <1>6, <1>7

LEMMA OrderMoneyOf ==
  ASSUME NEW o \in Order, NEW t \in Order,
         t.side = o.side, t.size = o.size, t.price = o.price
  PROVE  Value(t) = Value(o) /\ Fee(t) = Fee(o)
         /\ (Affordable(o) => Affordable(t))
BY DEF Value, Fee, Notional, Affordable

LEMMA SignalKeeps ==
  ASSUME BacktestInv, NEW r, Signal(r) PROVE BacktestInv'
<1>1. /\ phase = "signal" /\ phase' = "snapshot"
      /\ UNCHANGED <<kind, candle, index, queue, kept, fills, quote, base>>
  BY DEF Signal
<1>2. CASE UNCHANGED <<orders, buyCost, open>>
  BY <1>1, <1>2 DEF BacktestInv, BacktestTypeOK, BookInv, SplitInv, OrdersAccounted,
                    CoverInv, CostInv, PnlOfAdjacentPair, Resting, Affordable
<1>3. ASSUME NEW o \in Order, o.after = Len(fills), Approved(o), Record(o),
             open' = open \cup {Len(orders) + 1}
      PROVE  BacktestInv'
  <2>1. PICK t \in Order :
             /\ orders' = Append(orders, t)
             /\ t.side = o.side /\ t.after = o.after /\ t.size = o.size
             /\ t.price = o.price /\ t.fee = LastFillFee
             /\ t.pnl = (IF o.side = "sell" /\ buyCost.known
                         THEN Known(Value(o) - LastFillFee - buyCost.amount)
                         ELSE NoCost)
             /\ buyCost' = (IF o.side = "buy" THEN Known(Value(o) + LastFillFee)
                                              ELSE NoCost)
             /\ buyCost' \in Costs
    BY <1>3, RecordAppends DEF BacktestInv
  <2>2. orders \in Seq(Order) /\ fills \in Seq(DOMAIN orders) /\ quote \in Nat
    BY DEF BacktestInv, BacktestTypeOK
  <2> DEFINE n == Len(orders) + 1
  <2>3. /\ orders' \in Seq(Order) /\ Len(orders') = n /\ DOMAIN orders' = 1..n
        /\ orders'[n] = t /\ DOMAIN orders = 1..Len(orders) /\ Len(orders) \in Nat
        /\ \A i \in 1..Len(orders) : orders'[i] = orders[i]
    BY <2>1, <2>2
  <2>4. DOMAIN orders' = DOMAIN orders \cup {n} /\ n \notin DOMAIN orders
    BY <2>3
  <2>5. fills \in Seq(DOMAIN orders')
    BY <2>2, <2>4
  <2>6. BacktestTypeOK'
    BY <1>1, <1>3, <2>1, <2>3, <2>4, <2>5 DEF BacktestInv, BacktestTypeOK
  <2>7. Resting' = Resting \cup {n}
    BY <1>1, <1>3 DEF Resting
  <2>8. OrdersAccounted' /\ SplitInv'
    <3>1. Resting \cup {fills[k] : k \in DOMAIN fills} = DOMAIN orders
          /\ Resting \cap {fills[k] : k \in DOMAIN fills} = {}
          /\ \A j, k \in DOMAIN fills : fills[j] = fills[k] => j = k
      BY DEF BacktestInv, BookInv, OrdersAccounted
    <3> QED
      BY <1>1, <2>4, <2>7, <3>1 DEF BacktestInv, BookInv, OrdersAccounted, SplitInv
  <2>9. CoverInv'
    <3>1. Affordable(t)
      BY <1>3, <2>1, <2>2, ApprovedIsAffordable, OrderMoneyOf
    <3>2. \A x : Affordable(x)' <=> IF x'.side = "buy" THEN Value(x') + Fee(x') <= quote
                                                      ELSE x'.size <= base
      BY <1>1 DEF Affordable, Value, Fee, Notional
    <3>3. Resting \subseteq DOMAIN orders
      BY DEF BacktestInv, BookInv, OrdersAccounted
    <3>4. \A i \in Resting : orders'[i] = orders[i]
      BY <2>3, <3>3
    <3>5. ASSUME NEW i \in Resting'
          PROVE  /\ orders'[i].after <= Len(fills)
                 /\ orders'[i].after = Len(fills) =>
                       IF orders'[i].side = "buy"
                       THEN Value(orders'[i]) + Fee(orders'[i]) <= quote
                       ELSE orders'[i].size <= base
      <4>1. CASE i \in Resting
        BY <3>4, <4>1 DEF BacktestInv, BookInv, CoverInv, Affordable
      <4>2. CASE i = n
        BY <1>3, <2>1, <2>2, <2>3, <3>1, <4>2 DEF Affordable
      <4> QED
        BY <2>7, <4>1, <4>2
    <3> QED
      BY <1>1, <3>5 DEF CoverInv, Affordable, Value, Fee, Notional
  <2>10. Value(t) = Value(o)
    BY <2>1, OrderMoneyOf
  <2>11. CostInv'
    <3>1. orders' # <<>>
      BY <2>3
    <3>2. buyCost' = IF t.side = "buy" THEN Known(Value(t) + t.fee) ELSE NoCost
      BY <2>1, <2>10
    <3> QED
      BY <2>3, <3>1, <3>2 DEF CostInv, Value, Notional
  <2>12. PnlOfAdjacentPair'
    <3> DEFINE Paired(s, i) == s[i].side = "sell" /\ i > 1 /\ s[i - 1].side = "buy"
               Result(s, i) == Known(Value(s[i]) - s[i].fee
                                     - (Value(s[i - 1]) + s[i - 1].fee))
    <3>1. ASSUME NEW i \in 1..Len(orders)
          PROVE  orders'[i].pnl = IF Paired(orders', i) THEN Result(orders', i) ELSE NoCost
      <4>1. orders[i].pnl = IF Paired(orders, i) THEN Result(orders, i) ELSE NoCost
        BY <2>3, <3>1 DEF BacktestInv, PnlOfAdjacentPair
      <4>2. orders'[i] = orders[i] /\ (i > 1 => orders'[i - 1] = orders[i - 1])
        BY <2>3, <3>1
      <4> QED
        BY <4>1, <4>2
    <3>2. orders'[n].pnl = IF Paired(orders', n) THEN Result(orders', n) ELSE NoCost
      <4>1. CASE orders = <<>>
        <5>1. buyCost = NoCost /\ n = 1
          BY <4>1 DEF BacktestInv, CostInv
        <5>2. ~buyCost.known
          BY <5>1 DEF NoCost
        <5>3. t.pnl = NoCost
          BY <2>1, <5>2
        <5>4. ~Paired(orders', n)
          BY <5>1
        <5> QED
          BY <2>3, <5>3, <5>4
      <4>2. CASE orders # <<>>
        <5>1. /\ Len(orders) \in 1..Len(orders) /\ n - 1 = Len(orders) /\ n > 1
              /\ orders'[n - 1] = orders[Len(orders)]
              /\ orders[Len(orders)] \in Order
          BY <2>2, <2>3, <4>2
        <5> DEFINE q == orders[Len(orders)]
        <5>2. buyCost = IF q.side = "buy" THEN Known(Value(q) + q.fee) ELSE NoCost
          BY <4>2 DEF BacktestInv, CostInv
        <5>3. q.side = "buy" => buyCost.known /\ buyCost.amount = Value(q) + q.fee
          BY <5>2 DEF Known
        <5>4. q.side # "buy" => ~buyCost.known
          BY <5>2 DEF NoCost
        <5>5. CASE t.side = "sell" /\ q.side = "buy"
          <6>1. t.pnl = Known(Value(t) - t.fee - (Value(q) + q.fee))
            BY <2>1, <2>10, <5>3, <5>5
          <6> QED
            BY <2>3, <5>1, <5>5, <6>1
        <5>6. CASE ~(t.side = "sell" /\ q.side = "buy")
          <6>1. t.pnl = NoCost
            BY <2>1, <5>4, <5>6
          <6> QED
            BY <2>3, <5>1, <5>6, <6>1
        <5> QED
          BY <5>5, <5>6
      <4> QED
        BY <4>1, <4>2
    <3>3. \A i \in DOMAIN orders' :
              orders'[i].pnl = IF Paired(orders', i) THEN Result(orders', i) ELSE NoCost
      BY <2>3, <3>1, <3>2
    <3> QED
      BY <3>3 DEF PnlOfAdjacentPair, Value, Notional
  <2> QED
    BY <2>6, <2>8, <2>9, <2>11, <2>12 DEF BacktestInv, BookInv
<1> QED
  BY <1>2, <1>3, SignalPlaces DEF BacktestInv

LEMMA MatchKeeps ==
  ASSUME BacktestInv, NEW i \in queue, Match(i),
         UNCHANGED <<kind, candle, index, recordVars, strategyVars>>
  PROVE  BacktestInv'
<1>1. /\ phase = "match" /\ phase' = phase /\ open' = open
      /\ queue' = queue \ {i}
      /\ orders' = orders /\ buyCost' = buyCost
  BY DEF Match, recordVars
<1>2. i \in DOMAIN orders /\ fills \in Seq(DOMAIN orders)
  BY DEF BacktestInv, BacktestTypeOK
<1>3. CostInv' /\ PnlOfAdjacentPair'
  BY <1>1 DEF BacktestInv, CostInv, PnlOfAdjacentPair, Value, Notional
<1>4. CASE InRange(orders[i])
  <2>1. Fill(i) /\ kept' = kept /\ Affordable(orders[i])
    BY <1>4 DEF Match
  <2>2. /\ quote' \in Nat /\ base' \in Nat /\ fills' = Append(fills, i)
        /\ fills' \in Seq(DOMAIN orders)
    BY <1>2, <2>1, FillKeeps DEF BacktestInv
  <2>3. BacktestTypeOK'
    BY <1>1, <2>1, <2>2 DEF BacktestInv, BacktestTypeOK
  <2>4. /\ Len(fills) \in Nat /\ Len(fills') = Len(fills) + 1
        /\ DOMAIN fills = 1..Len(fills) /\ DOMAIN fills' = 1..Len(fills) + 1
        /\ fills'[Len(fills) + 1] = i
        /\ \A k \in 1..Len(fills) : fills'[k] = fills[k]
    BY <1>2, <2>2
  <2>5. i \in Resting /\ Resting' = Resting \ {i}
    BY <1>1, <2>1 DEF Resting, BacktestInv, BookInv, SplitInv
  <2>6. {fills'[k] : k \in DOMAIN fills'} = {fills[k] : k \in DOMAIN fills} \cup {i}
    BY <2>4
  <2>7. OrdersAccounted' /\ SplitInv'
    <3>1. Resting \cup {fills[k] : k \in DOMAIN fills} = DOMAIN orders
          /\ Resting \cap {fills[k] : k \in DOMAIN fills} = {}
          /\ \A j, k \in DOMAIN fills : fills[j] = fills[k] => j = k
      BY DEF BacktestInv, BookInv, OrdersAccounted
    <3>2. \A k \in DOMAIN fills : fills[k] # i
      BY <2>5, <3>1
    <3>3. \A j, k \in DOMAIN fills' : fills'[j] = fills'[k] => j = k
      BY <2>4, <3>1, <3>2
    <3>4. /\ Resting' \cup {fills'[k] : k \in DOMAIN fills'} = DOMAIN orders'
          /\ Resting' \cap {fills'[k] : k \in DOMAIN fills'} = {}
      BY <1>1, <2>5, <2>6, <3>1
    <3>5. SplitInv'
      BY <1>1, <2>1 DEF BacktestInv, BookInv, SplitInv
    <3> QED
      BY <3>3, <3>4, <3>5 DEF OrdersAccounted
  <2>8. CoverInv'
    <3>1. ASSUME NEW j \in Resting' PROVE orders'[j].after < Len(fills')
      <4>1. j \in Resting /\ j \in DOMAIN orders
        BY <2>5, <3>1 DEF BacktestInv, BookInv, OrdersAccounted
      <4>2. orders[j] \in Order
        BY <4>1 DEF BacktestInv, BacktestTypeOK
      <4>3. orders[j].after \in Nat /\ orders[j].after <= Len(fills)
        BY <4>1, <4>2 DEF BacktestInv, BookInv, CoverInv, Order
      <4> QED
        BY <1>1, <2>4, <4>3
    <3>2. ASSUME NEW j \in Resting' PROVE orders'[j].after \in Nat
      <4>1. orders'[j] \in Order
        BY <1>1, <2>5, <3>2 DEF BacktestInv, BookInv, OrdersAccounted, BacktestTypeOK
      <4> QED
        BY <4>1 DEF Order
    <3> QED
      BY <2>4, <3>1, <3>2 DEF CoverInv
  <2> QED
    BY <1>3, <2>3, <2>7, <2>8 DEF BacktestInv, BookInv
<1>5. CASE ~InRange(orders[i])
  <2>1. kept' = kept \cup {i} /\ UNCHANGED <<fills, quote, base>>
    BY <1>5 DEF Match
  <2>2. Resting' = Resting
    BY <1>1, <2>1 DEF Resting
  <2>3. BacktestTypeOK'
    BY <1>1, <2>1 DEF BacktestInv, BacktestTypeOK
  <2>4. BookInv'
    BY <1>1, <2>1, <2>2 DEF BacktestInv, BookInv, SplitInv, OrdersAccounted, CoverInv,
                            Affordable, Value, Fee, Notional
  <2> QED
    BY <1>3, <2>3, <2>4 DEF BacktestInv
<1> QED
  BY <1>4, <1>5

\* A step that leaves orders, fills and balances alone, and loses no order.
LEMMA QuietKeeps ==
  ASSUME BacktestInv, UNCHANGED <<orders, buyCost, fills, quote, base>>,
         Resting' = Resting, SplitInv', BacktestTypeOK'
  PROVE  BacktestInv'
BY DEF BacktestInv, BookInv, OrdersAccounted, CoverInv, CostInv,
       PnlOfAdjacentPair, Affordable, Value, Fee, Notional

LEMMA BacktestInvInit == BacktestInit => BacktestInv
<1> SUFFICES ASSUME BacktestInit PROVE BacktestInv
  OBVIOUS
<1>1. orders = <<>> /\ fills = <<>> /\ open = {} /\ queue = {} /\ kept = {}
  BY DEF BacktestInit
<1>2. quote \in Nat /\ base \in Nat
  BY FundsAssumption, RatesAssumption, ProductOfNats DEF BacktestInit
<1>3. ASSUME BacktestCandles # {} PROVE candle \in BacktestCandles
  BY <1>3 DEF BacktestInit
<1>4. BacktestCandles # {}
  <2>1. PICK p \in Prices : p \in Nat
    BY SomePriceAssumption, PricesAssumption
  <2>2. [low |-> p, high |-> p, close |-> p] \in BacktestCandles
    BY <2>1 DEF BacktestCandles
  <2> QED
    BY <2>2
<1>5. BacktestTypeOK
  BY <1>1, <1>2, <1>3, <1>4, SizesAssumption
  DEF BacktestInit, BacktestTypeOK, Kinds, Costs, NoCost
<1>6. BookInv /\ CostInv /\ PnlOfAdjacentPair
  BY <1>1 DEF BacktestInit, BookInv, SplitInv, OrdersAccounted, CoverInv, CostInv,
              PnlOfAdjacentPair, Resting
<1> QED
  BY <1>5, <1>6 DEF BacktestInv

LEMMA BacktestInvStep == BacktestInv /\ [BacktestNext]_backtestVars => BacktestInv'
<1> SUFFICES ASSUME BacktestInv, [BacktestNext]_backtestVars PROVE BacktestInv'
  OBVIOUS
<1> USE DEF exchangeVars, recordVars, strategyVars
<1>1. ASSUME NEW k \in Kinds, Start(k) PROVE BacktestInv'
  BY <1>1, QuietKeeps DEF Start, BacktestInv, BookInv, BacktestTypeOK, SplitInv, Resting
<1>2. ASSUME NEW k \in BacktestCandles, TakeCandle(k) PROVE BacktestInv'
  <2>1. BacktestTypeOK'
    BY <1>2, SizesAssumption DEF TakeCandle, BacktestInv, BacktestTypeOK
  <2> QED
    BY <1>2, <2>1, QuietKeeps DEF TakeCandle, BacktestInv, BookInv, SplitInv, Resting
<1>3. CASE MatchOrders
  <2>1. CASE MatchDone
    BY <1>3, <2>1, QuietKeeps
    DEF MatchOrders, MatchDone, BacktestInv, BookInv, BacktestTypeOK, SplitInv, Resting
  <2>2. ASSUME NEW i \in queue, Match(i) PROVE BacktestInv'
    BY <1>3, <2>2, MatchKeeps DEF MatchOrders
  <2>3. ASSUME NEW i \in queue, MatchRaises(i) PROVE BacktestInv'
    BY <1>3, <2>3, QuietKeeps
    DEF MatchOrders, MatchRaises, BacktestInv, BookInv, BacktestTypeOK, SplitInv, Resting
  <2> QED
    BY <1>3, <2>1, <2>2, <2>3 DEF MatchOrders
<1>4. ASSUME NEW r \in Readings(kind), Signal(r) PROVE BacktestInv'
  BY <1>4, SignalKeeps
<1>5. CASE Snapshot
  BY <1>5, QuietKeeps DEF Snapshot, BacktestInv, BookInv, BacktestTypeOK, SplitInv, Resting
<1>6. CASE Finish
  BY <1>6, QuietKeeps DEF Finish, BacktestInv, BookInv, BacktestTypeOK, SplitInv, Resting
<1>7. CASE UNCHANGED backtestVars
  BY <1>7, QuietKeeps
  DEF backtestVars, BacktestInv, BookInv, BacktestTypeOK, SplitInv, Resting
<1> QED
  BY <1>1, <1>2, <1>3, <1>4, <1>5, <1>6, <1>7 DEF BacktestNext

\* The invariant of the backtest holds in every reachable state.
THEOREM BacktestInvariant == BacktestSpec => []BacktestInv
<1> QED
  BY BacktestInvInit, BacktestInvStep, PTL DEF BacktestSpec

\* The balances are never negative, whatever the strategy and the candles.
THEOREM BalancesNeverNegative == BacktestSpec => []BacktestTypeOK
<1>1. BacktestInv => BacktestTypeOK
  BY DEF BacktestInv
<1> QED
  BY <1>1, BacktestInvariant, PTL

LEMMA AbortStep ==
  BacktestInv /\ AbortNeedsOverlap /\ [BacktestNext]_backtestVars => AbortNeedsOverlap'
<1> SUFFICES ASSUME BacktestInv, AbortNeedsOverlap, [BacktestNext]_backtestVars,
                    phase' = "aborted"
             PROVE  AbortNeedsOverlap'
  BY DEF AbortNeedsOverlap
<1>1. ASSUME NEW i \in queue, MatchRaises(i),
             UNCHANGED <<kind, candle, index, recordVars, strategyVars>>
      PROVE  AbortNeedsOverlap'
  <2>1. /\ phase = "match" /\ ~Affordable(orders[i])
        /\ UNCHANGED <<orders, queue, fills, quote, base>>
    BY <1>1 DEF MatchRaises, exchangeVars, recordVars
  <2>2. i \in DOMAIN orders /\ orders[i] \in Order /\ Len(fills) \in Nat
    BY DEF BacktestInv, BacktestTypeOK
  <2>3. orders[i].after < Len(fills)
    <3>1. i \in Resting /\ orders[i].after \in Nat
      BY <2>1, <2>2 DEF Resting, Order
    <3> QED
      BY <2>1, <2>2, <3>1 DEF BacktestInv, BookInv, CoverInv
  <2> QED
    BY <2>1, <2>3 DEF AbortNeedsOverlap, Affordable, Value, Fee, Notional
<1>2. CASE UNCHANGED backtestVars
  BY <1>2 DEF backtestVars, exchangeVars, recordVars, AbortNeedsOverlap,
              Affordable, Value, Fee, Notional
<1> QED
  BY <1>1, <1>2
  DEF BacktestNext, Start, TakeCandle, MatchOrders, MatchDone, Match, Signal,
      PlaceLimit, Snapshot, Finish

\* Whatever the rates, within the bound of RatesAssumption: an order the risk
\* check let pass can be filled as long as no other has been.
THEOREM OnlyOverlapAborts == BacktestSpec => []AbortNeedsOverlap
<1>1. BacktestInit => AbortNeedsOverlap
  BY DEF BacktestInit, AbortNeedsOverlap
<1> QED
  BY <1>1, AbortStep, BacktestInvariant, PTL DEF BacktestSpec

\* Every order recorded rests or was filled, once.
THEOREM NoOrderLost == BacktestSpec => []OrdersAccounted
<1>1. BacktestInv => OrdersAccounted
  BY DEF BacktestInv, BookInv
<1> QED
  BY <1>1, BacktestInvariant, PTL

\* A sale's result is that of the buy just before it, or there is none.
THEOREM ResultsAreOfPairs == BacktestSpec => []PnlOfAdjacentPair
<1>1. BacktestInv => PnlOfAdjacentPair
  BY DEF BacktestInv
<1> QED
  BY <1>1, BacktestInvariant, PTL

-----------------------------------------------------------------------------
(* The ledger of the fills                                                 *)
(*                                                                         *)
(* FundsInv carries the recursion through the run, so that no induction is *)
(* left for its end: there are balances after each fill, and whatever      *)
(* balances there are, the last are those the exchange holds.              *)

FundsBody(f) ==
    [k \in 0..Len(fills) |->
        IF k = 0 THEN [q |-> InitQuote * FeeDen, b |-> InitBase]
        ELSE Moved(f[k - 1], orders[fills[k]])]

FundsInv ==
    /\ \E f : f = FundsBody(f)
    /\ \A f : f = FundsBody(f) => f[Len(fills)] = [q |-> quote, b |-> base]

LEMMA FundsDefined ==
  ASSUME NEW g, g = FundsBody(g)
  PROVE  Funds = FundsBody(Funds)
<1> DEFINE P(f) == f = [k \in 0..Len(fills) |->
                          IF k = 0 THEN [q |-> InitQuote * FeeDen, b |-> InitBase]
                          ELSE Moved(f[k - 1], orders[fills[k]])]
<1>1. P(g)
  BY DEF FundsBody
<1>2. P(CHOOSE f : P(f))
  <2> HIDE DEF P
  <2> QED
    BY <1>1
<1>3. Funds = CHOOSE f : P(f)
  BY Zenon DEF Funds
<1> QED
  BY <1>2, <1>3 DEF FundsBody

LEMMA InitFunds == BacktestInit => FundsInv
<1> SUFFICES ASSUME BacktestInit PROVE FundsInv
  OBVIOUS
<1>1. fills = <<>> /\ Len(fills) = 0 /\ quote = InitQuote * FeeDen /\ base = InitBase
  BY DEF BacktestInit
<1> DEFINE f0 == [k \in 0..0 |-> [q |-> InitQuote * FeeDen, b |-> InitBase]]
<1>2. f0 = FundsBody(f0)
  BY <1>1 DEF FundsBody
<1>3. \A f : f = FundsBody(f) => f[0] = [q |-> quote, b |-> base]
  BY <1>1 DEF FundsBody
<1> QED
  BY <1>1, <1>2, <1>3 DEF FundsInv

\* A fill appends what it moves.
LEMMA FillFunds ==
  ASSUME BacktestTypeOK, FundsInv, NEW i \in DOMAIN orders, Fill(i), orders' = orders
  PROVE  FundsInv'
<1> DEFINE n == Len(fills)
           start == [q |-> InitQuote * FeeDen, b |-> InitBase]
           now == [q |-> quote, b |-> base]
           Old(f) == [k \in 0..n |-> IF k = 0 THEN start
                                     ELSE Moved(f[k - 1], orders[fills[k]])]
           New(f) == [k \in 0..n + 1 |-> IF k = 0 THEN start
                                         ELSE Moved(f[k - 1], orders[fills'[k]])]
<1>1. /\ n \in Nat /\ fills' = Append(fills, i) /\ Len(fills') = n + 1
      /\ fills'[n + 1] = i /\ \A k \in 1..n : fills'[k] = fills[k]
  BY DEF Fill, BacktestTypeOK
<1>2. [q |-> quote', b |-> base'] = Moved(now, orders[i])
  BY DEF Fill, Moved
<1>3. \A f : FundsBody(f) = Old(f)
  BY DEF FundsBody
<1>4. (\E f : f = New(f)) /\ (\A f : f = New(f) => f[n + 1] = Moved(now, orders[i]))
  <2> HIDE DEF start, now
  <2>1. PICK f : f = Old(f)
    BY <1>3 DEF FundsInv
  <2>2. f[n] = now
    BY <1>3, <2>1 DEF FundsInv, now
  <2> DEFINE h == [k \in 0..n + 1 |-> IF k = n + 1 THEN Moved(now, orders[i]) ELSE f[k]]
  <2>3. h = New(h)
    <3>1. \A k \in 0..n + 1 : h[k] = New(h)[k]
      <4> SUFFICES ASSUME NEW k \in 0..n + 1 PROVE h[k] = New(h)[k]
        OBVIOUS
      <4>1. CASE k = 0
        <5>1. f[0] = start
          BY <1>1, <2>1
        <5> QED
          BY <1>1, <4>1, <5>1
      <4>2. CASE k \in 1..n
        <5>1. f[k] = Moved(f[k - 1], orders[fills[k]])
          BY <1>1, <2>1, <4>2
        <5>2. h[k - 1] = f[k - 1]
          BY <1>1, <4>2
        <5> QED
          BY <1>1, <4>2, <5>1, <5>2
      <4>3. CASE k = n + 1
        <5>1. h[k - 1] = now /\ fills'[k] = i /\ k # 0
          BY <1>1, <2>2, <4>3
        <5> QED
          BY <1>1, <4>3, <5>1
      <4> QED
        BY <1>1, <4>1, <4>2, <4>3
    <3> QED
      BY <3>1
  <2>4. ASSUME NEW g, g = New(g) PROVE g[n + 1] = Moved(now, orders[i])
    <3> DEFINE r == [k \in 0..n |-> g[k]]
    <3>1. r = Old(r)
      <4>1. \A k \in 0..n : r[k] = Old(r)[k]
        <5> SUFFICES ASSUME NEW k \in 0..n PROVE r[k] = Old(r)[k]
          OBVIOUS
        <5>0. k \in 0..n + 1
          BY <1>1
        <5>1. g[k] = IF k = 0 THEN start ELSE Moved(g[k - 1], orders[fills'[k]])
          BY <2>4, <5>0
        <5>2. k # 0 => r[k - 1] = g[k - 1] /\ fills'[k] = fills[k]
          BY <1>1
        <5> QED
          BY <5>1, <5>2
      <4> QED
        BY <4>1
    <3>2. r[n] = now
      BY <1>3, <3>1 DEF FundsInv, now
    <3>3. g[n] = now
      BY <1>1, <3>2
    <3>4. g[n + 1] = Moved(g[n], orders[fills'[n + 1]])
      BY <1>1, <2>4
    <3> QED
      BY <1>1, <3>3, <3>4
  <2> QED
    BY <2>3, <2>4
<1>5. \A f : FundsBody(f)' = New(f)
  BY <1>1 DEF FundsBody, Moved, Value, Fee, Notional
<1>6. \E f : f = FundsBody(f)'
  <2> HIDE DEF New
  <2> QED
    BY <1>4, <1>5
<1>7. \A f : f = FundsBody(f)' => f[Len(fills')] = [q |-> quote', b |-> base']
  <2> HIDE DEF New, now
  <2> QED
    BY <1>1, <1>2, <1>4, <1>5
<1> QED
  BY <1>6, <1>7 DEF FundsInv

\* The funds do not change with orders that are not filled.
LEMMA FundsKept ==
  ASSUME BacktestTypeOK, FundsInv, UNCHANGED <<fills, quote, base>>,
         \A i \in DOMAIN orders : orders'[i] = orders[i]
  PROVE  FundsInv'
<1>1. \A k \in 1..Len(fills) : fills[k] \in DOMAIN orders
  BY DEF BacktestTypeOK
<1>2. Len(fills) \in Nat
  BY DEF BacktestTypeOK
<1>3. \A f : FundsBody(f)' = FundsBody(f)
  BY <1>1, <1>2 DEF FundsBody, Moved, Value, Fee, Notional
<1> QED
  BY <1>3 DEF FundsInv

LEMMA FundsStep ==
  ASSUME BacktestInv, FundsInv, [BacktestNext]_backtestVars
  PROVE  FundsInv'
<1>0. BacktestTypeOK
  BY DEF BacktestInv
<1>1. ASSUME NEW i \in queue, Match(i), UNCHANGED orders PROVE FundsInv'
  <2>1. i \in DOMAIN orders
    BY <1>0 DEF BacktestTypeOK
  <2>2. CASE InRange(orders[i])
    BY <1>0, <1>1, <2>1, <2>2, FillFunds DEF Match
  <2>3. CASE ~InRange(orders[i])
    BY <1>0, <1>1, <2>3, FundsKept DEF Match
  <2> QED
    BY <2>2, <2>3
<1>2. CASE MatchOrders
  <2>1. ASSUME MatchDone \/ \E i \in queue : MatchRaises(i), UNCHANGED orders PROVE FundsInv'
    BY <1>0, <2>1, FundsKept DEF MatchDone, MatchRaises, exchangeVars
  <2> QED
    BY <1>1, <1>2, <2>1 DEF MatchOrders, recordVars
<1>3. ASSUME NEW r \in Readings(kind), Signal(r) PROVE FundsInv'
  <2>1. UNCHANGED <<fills, quote, base>>
    BY <1>3 DEF Signal
  <2>2. \A i \in DOMAIN orders : orders'[i] = orders[i]
    <3>1. ASSUME NEW o \in Order, Record(o) PROVE \A i \in DOMAIN orders : orders'[i] = orders[i]
      <4>1. PICK t \in Order : orders' = Append(orders, t)
        BY <1>0, <3>1, RecordAppends
      <4> QED
        BY <1>0, <4>1 DEF BacktestTypeOK
    <3> QED
      BY <1>0, <1>3, <3>1, SignalPlaces
  <2> QED
    BY <1>0, <2>1, <2>2, FundsKept
<1>4. CASE \/ \E k \in Kinds : Start(k)
           \/ \E k \in BacktestCandles : TakeCandle(k)
           \/ Snapshot \/ Finish \/ UNCHANGED backtestVars
  <2>1. UNCHANGED <<orders, fills, quote, base>>
    BY <1>4 DEF Start, TakeCandle, Snapshot, Finish, backtestVars, exchangeVars, recordVars
  <2> QED
    BY <1>0, <2>1, FundsKept
<1> QED
  BY <1>2, <1>3, <1>4 DEF BacktestNext

\* What the balances end with is what the fills recorded in filled_orders make
\* of the initial ones, for any strategy, fees and candles.
THEOREM FundsComeFromFills == BacktestSpec => []FundsAccounted
<1>1. FundsInv => FundsAccounted
  BY FundsDefined DEF FundsInv, FundsAccounted
<1> QED
  BY <1>1, InitFunds, FundsStep, BacktestInvariant, PTL DEF BacktestSpec

-----------------------------------------------------------------------------
(* The queue of the grid *)

LEMMA CountType ==
  ASSUME NEW S, NEW s \in Seq(S), NEW x
  PROVE  /\ IsFiniteSet({i \in DOMAIN s : s[i] = x})
         /\ Count(s, x) \in Nat
<1>1. IsFiniteSet(1..Len(s)) /\ DOMAIN s = 1..Len(s)
  BY FS_Interval
<1>2. IsFiniteSet({i \in DOMAIN s : s[i] = x})
  BY <1>1, FS_Subset
<1> QED
  BY <1>2, FS_CardinalityType DEF Count

LEMMA CountEmpty == ASSUME NEW x PROVE Count(<<>>, x) = 0
<1>1. {i \in DOMAIN <<>> : <<>>[i] = x} = {}
  OBVIOUS
<1> QED
  BY <1>1, FS_EmptySet DEF Count

AllAre(t, side) == \A k \in 1..Len(t) : t[k] = side

\* A run of one side at the end of a queue counts for that side.
LEMMA CountAppended ==
  ASSUME NEW s \in Seq(Sides), NEW t \in Seq(Sides), NEW side,
         AllAre(t, side)
  PROVE  /\ Count(s \o t, side) = Count(s, side) + Len(t)
         /\ \A x : x # side => Count(s \o t, x) = Count(s, x)
<1> SUFFICES ASSUME NEW x
             PROVE  Count(s \o t, x) = Count(s, x) + (IF x = side THEN Len(t) ELSE 0)
  <2>1. Count(s, side) \in Nat
    BY CountType
  <2>2. \A x : x # side => Count(s, x) \in Nat
    BY CountType
  <2> QED
    BY <2>1, <2>2
<1> DEFINE n == Len(s)
           d == Len(t)
           old == {i \in DOMAIN s : s[i] = x}
           new == IF x = side THEN n + 1..n + d ELSE {}
<1>1. n \in Nat /\ d \in Nat /\ DOMAIN s = 1..n
  OBVIOUS
<1>2. /\ DOMAIN (s \o t) = 1..n + d
      /\ \A i \in 1..n : (s \o t)[i] = s[i]
      /\ \A i \in n + 1..n + d : (s \o t)[i] = side
  <2>1. /\ DOMAIN (s \o t) = 1..n + d
        /\ \A i \in 1..n + d : (s \o t)[i] = IF i <= n THEN s[i] ELSE t[i - n]
    OBVIOUS
  <2>2. \A i \in n + 1..n + d : t[i - n] = side
    BY <1>1 DEF AllAre
  <2> QED
    BY <1>1, <2>1, <2>2
<1> DEFINE u == s \o t
           both == {i \in DOMAIN u : u[i] = x}
<1>3. both = old \cup new /\ old \cap new = {}
  <2>1. /\ DOMAIN u = 1..n + d
        /\ \A i \in 1..n : u[i] = s[i]
        /\ \A i \in n + 1..n + d : u[i] = side
    BY <1>2
  <2> HIDE DEF u
  <2> QED
    BY <1>1, <2>1
<1>4. IsFiniteSet(old) /\ Cardinality(old) \in Nat
  BY CountType DEF Count
<1>5. IsFiniteSet(new) /\ Cardinality(new) = IF x = side THEN d ELSE 0
  <2>1. CASE x = side
    <3>1. new = n + 1..n + d
      BY <2>1
    <3>2. IsFiniteSet(n + 1..n + d) /\ Cardinality(n + 1..n + d) = d
      <4> DEFINE a == n + 1
                 b == n + d
      <4>1. a \in Int /\ b \in Int /\ (IF a > b THEN 0 ELSE b - a + 1) = d
        BY <1>1
      <4> HIDE DEF a, b
      <4>2. IsFiniteSet(a..b) /\ Cardinality(a..b) = d
        BY <4>1, FS_Interval
      <4> QED
        BY <4>2 DEF a, b
    <3> QED
      BY <2>1, <3>1, <3>2
  <2>2. CASE x # side
    BY <2>2, FS_EmptySet
  <2> QED
    BY <2>1, <2>2
<1>6. Cardinality(both) = Cardinality(old) + Cardinality(new)
  <2> HIDE DEF both, old, new
  <2>1. Cardinality(old \cup new)
           = Cardinality(old) + Cardinality(new) - Cardinality(old \cap new)
    BY <1>4, <1>5, FS_Union
  <2>2. old \cap new = {} /\ Cardinality({}) = 0
    BY <1>3, FS_EmptySet
  <2>3. Cardinality(new) \in Nat
    BY <1>5
  <2>4. Cardinality(old \cap new) = 0
    BY <2>2
  <2>5. Cardinality(both) = Cardinality(old \cup new)
    BY <1>3
  <2> QED
    BY <1>4, <2>1, <2>3, <2>4, <2>5
<1>7. Count(s, x) = Cardinality(old) /\ Count(u, x) = Cardinality(both)
  BY DEF Count
<1> HIDE DEF both, old, new, u
<1>8. Count(u, x) = Count(s, x) + (IF x = side THEN d ELSE 0)
  BY <1>5, <1>6, <1>7
<1> QED
  BY <1>8 DEF u

\* What leaves the queue is its head.
LEMMA CountTail ==
  ASSUME NEW S, NEW s \in Seq(S), s # <<>>, NEW x
  PROVE  Count(s, x) = Count(Tail(s), x) + (IF Head(s) = x THEN 1 ELSE 0)
<1> DEFINE n == Len(s)
           all == {i \in DOMAIN s : s[i] = x}
           rest == {i \in DOMAIN Tail(s) : Tail(s)[i] = x}
           f == [i \in rest |-> i + 1]
<1>1. /\ n \in Nat \ {0} /\ DOMAIN s = 1..n /\ DOMAIN Tail(s) = 1..n - 1
      /\ \A i \in 1..n - 1 : Tail(s)[i] = s[i + 1]
      /\ Head(s) = s[1]
  OBVIOUS
<1>2. IsFiniteSet(all) /\ IsFiniteSet(rest) /\ Cardinality(all) \in Nat
      /\ Cardinality(rest) \in Nat
  <2>1. Tail(s) \in Seq(S)
    OBVIOUS
  <2> QED
    BY <2>1, CountType DEF Count
<1>3. \A j \in all \ {1} : j - 1 \in rest /\ f[j - 1] = j
  BY <1>1
<1>4. \A i \in rest : f[i] \in all \ {1} /\ f[i] = i + 1
  BY <1>1
<1>5. f \in Bijection(rest, all \ {1})
  <2>1. f \in [rest -> all \ {1}]
    BY <1>4
  <2>2. \A i, j \in rest : f[i] = f[j] => i = j
    BY <1>1, <1>4
  <2>3. \A j \in all \ {1} : \E i \in rest : f[i] = j
    BY <1>3
  <2> HIDE DEF f, all, rest
  <2> QED
    BY <2>1, <2>2, <2>3 DEF Bijection, Injection, Surjection, IsInjective
<1>6. Cardinality(all \ {1}) = Cardinality(rest)
  <2>1. ExistsBijection(rest, all \ {1})
    <3> HIDE DEF f, all, rest
    <3> QED
      BY <1>5 DEF ExistsBijection
  <2> HIDE DEF all, rest
  <2> QED
    BY <1>2, <2>1, FS_Bijection
<1>7. Cardinality(all \ {1}) = IF 1 \in all THEN Cardinality(all) - 1 ELSE Cardinality(all)
  BY <1>2, FS_RemoveElement
<1>8. 1 \in all <=> Head(s) = x
  BY <1>1
<1> HIDE DEF all, rest
<1>9. Cardinality(all) = Cardinality(rest) + (IF Head(s) = x THEN 1 ELSE 0)
  BY <1>2, <1>6, <1>7, <1>8
<1> QED
  BY <1>9 DEF Count, all, rest

States == [prev : CrossReadings, inPosition : BOOLEAN, cell : Nat \cup {-1},
           pending : Seq(Sides), counter : Nat]

\* Until a grid has its first cell neither has its ghost.
GridInv ==
    /\ strategy \in States
    /\ firstCell \in Nat \cup {-1} /\ netSignals \in Int
    /\ phase = "new" => strategy = NewStrategy /\ netSignals = 0 /\ firstCell = -1
    /\ kind = "grid" => (strategy.cell = -1 <=> firstCell = -1)
    /\ GridTracksPrice

LEMMA FindCellType ==
  ASSUME NEW price \in Nat
  PROVE  FindCell(price) \in Nat
<1>1. CASE price <= GridLow
  BY <1>1 DEF FindCell
<1>2. CASE ~(price <= GridLow)
  <2>1. price - GridLow \in Nat
    BY <1>2, GridAssumption
  <2>2. (price - GridLow) \div GridStep \in Nat
    BY <2>1, GridAssumption
  <2> QED
    BY <1>2, <2>2, GridAssumption DEF FindCell
<1> QED
  BY <1>1, <1>2

\* The queue of a candle: what was held back, and one signal per cell crossed.
LEMMA GridQueueCounts ==
  ASSUME NEW s \in States, NEW cell \in Nat
  PROVE  /\ GridQueue(s, cell) \in Seq(Sides)
         /\ Count(GridQueue(s, cell), "sell") - Count(GridQueue(s, cell), "buy")
              = Count(s.pending, "sell") - Count(s.pending, "buy")
                + (IF s.cell = -1 THEN 0 ELSE cell - s.cell)
<1> DEFINE p == s.pending
           side == IF cell < s.cell THEN "buy" ELSE "sell"
           d == IF cell < s.cell THEN s.cell - cell ELSE cell - s.cell
           t == [k \in 1..d |-> side]
<1>1. /\ p \in Seq(Sides) /\ s.cell \in Nat \cup {-1}
      /\ Count(p, "sell") \in Nat /\ Count(p, "buy") \in Nat
  BY CountType DEF States
<1>2. CASE s.cell = -1
  BY <1>1, <1>2 DEF GridQueue
<1>3. CASE s.cell # -1
  <2>1. d \in Nat /\ side \in Sides
    <3>1. s.cell \in Nat
      BY <1>1, <1>3
    <3>2. CASE cell < s.cell
      BY <3>1, <3>2 DEF Sides
    <3>3. CASE ~(cell < s.cell)
      BY <3>1, <3>3 DEF Sides
    <3> QED
      BY <3>2, <3>3
  <2>2. GridQueue(s, cell) = p \o t
    BY <1>3 DEF GridQueue
  <2> HIDE DEF d, side, p
  <2>3. t \in Seq(Sides) /\ Len(t) = d /\ \A k \in 1..Len(t) : t[k] = side
    BY <2>1
  <2> HIDE DEF t
  <2>4. p \o t \in Seq(Sides)
    BY <1>1, <2>3
  <2>5. /\ Count(p \o t, side) = Count(p, side) + Len(t)
        /\ \A x : x # side => Count(p \o t, x) = Count(p, x)
    <3>1. p \in Seq(Sides)
      BY <1>1
    <3>2. t \in Seq(Sides)
      BY <2>3
    <3>3. AllAre(t, side)
      BY <2>3 DEF AllAre
    <3> QED
      BY <3>1, <3>2, <3>3, CountAppended
  <2> DEFINE sells == Count(p, "sell")
             buys == Count(p, "buy")
  <2>7. /\ sells \in Nat /\ buys \in Nat
        /\ Count(p \o t, "sell") = sells + (IF "sell" = side THEN d ELSE 0)
        /\ Count(p \o t, "buy") = buys + (IF "buy" = side THEN d ELSE 0)
    BY <1>1, <2>3, <2>5
  <2> HIDE DEF sells, buys
  <2>8. Count(p \o t, "sell") - Count(p \o t, "buy") = sells - buys + (cell - s.cell)
    <3>1. CASE cell < s.cell
      <4>1. side = "buy" /\ d = s.cell - cell
        BY <3>1 DEF side, d
      <4>2. Count(p \o t, "sell") = sells /\ Count(p \o t, "buy") = buys + d
        BY <2>7, <4>1
      <4>3. s.cell \in Nat
        BY <1>1, <1>3
      <4> QED
        BY <2>7, <4>1, <4>2, <4>3
    <3>2. CASE ~(cell < s.cell)
      <4>1. side = "sell" /\ d = cell - s.cell
        BY <3>2 DEF side, d
      <4>2. Count(p \o t, "sell") = sells + d /\ Count(p \o t, "buy") = buys
        BY <2>1, <2>7, <4>1
      <4> QED
        BY <1>1, <2>7, <4>1, <4>2
    <3> QED
      BY <3>1, <3>2
  <2> QED
    BY <1>3, <2>2, <2>4, <2>8 DEF sells, buys, p
<1> QED
  BY <1>2, <1>3

\* A candle moves the grid to its cell: the signal it gives and what it leaves
\* in the queue are those of the queue before, and of the cells crossed.
LEMMA GridCandle ==
  ASSUME NEW s \in States, NEW close \in Nat, NEW next, next = GridOnCandle(s, close)
  PROVE  /\ next.s \in States /\ next.s.cell \in Nat /\ next.side \in Sides \cup {"none"}
         /\ Count(next.s.pending, "sell") - Count(next.s.pending, "buy")
            + (CASE next.side = "sell" -> 1 [] next.side = "buy" -> -1 [] OTHER -> 0)
              = Count(s.pending, "sell") - Count(s.pending, "buy")
                + (IF s.cell = -1 THEN 0 ELSE next.s.cell - s.cell)
<1> DEFINE cell == FindCell(close)
           all == GridQueue(s, cell)
           left == IF all = <<>> THEN all ELSE Tail(all)
<1>1. cell \in Nat
  BY FindCellType
<1>2. next = [s |-> [s EXCEPT !.cell = cell, !.pending = left],
              side |-> IF all = <<>> THEN "none" ELSE Head(all)]
  BY DEF GridOnCandle
<1>3. all \in Seq(Sides)
  BY <1>1, GridQueueCounts
<1>4. Count(all, "sell") - Count(all, "buy")
        = Count(s.pending, "sell") - Count(s.pending, "buy")
          + (IF s.cell = -1 THEN 0 ELSE cell - s.cell)
  BY <1>1, GridQueueCounts
<1> HIDE DEF cell, all
<1>5. left \in Seq(Sides)
  BY <1>3
<1>6. \/ next.side = "none" /\ all = <<>> /\ left = all
      \/ /\ next.side \in Sides /\ all # <<>>
         /\ \A x : Count(all, x) = Count(left, x) + (IF next.side = x THEN 1 ELSE 0)
  <2>1. CASE all = <<>>
    BY <1>2, <2>1
  <2>2. CASE all # <<>>
    <3>1. next.side = Head(all) /\ Head(all) \in Sides /\ left = Tail(all)
      BY <1>2, <1>3, <2>2
    <3> QED
      BY <1>3, <2>2, <3>1, CountTail
  <2> QED
    BY <2>1, <2>2
<1> HIDE DEF left
<1>7. /\ next.s \in States /\ next.s.cell = cell /\ next.s.pending = left
  <2>1. next.s = [s EXCEPT !.cell = cell, !.pending = left]
    BY <1>2
  <2>2. cell \in Nat \cup {-1}
    BY <1>1
  <2> QED
    BY <1>5, <2>1, <2>2 DEF States
<1>8. /\ Count(left, "sell") \in Nat /\ Count(left, "buy") \in Nat
      /\ Count(s.pending, "sell") \in Nat /\ Count(s.pending, "buy") \in Nat
      /\ s.cell \in Nat \cup {-1}
  BY <1>5, CountType DEF States
<1>9. Count(all, "sell") - Count(all, "buy")
        = Count(left, "sell") - Count(left, "buy")
          + (CASE next.side = "sell" -> 1 [] next.side = "buy" -> -1 [] OTHER -> 0)
  BY <1>6, <1>8 DEF Sides
<1> QED
  BY <1>1, <1>4, <1>6, <1>7, <1>8, <1>9

LEMMA GridInit == BacktestInit => GridInv
<1> SUFFICES ASSUME BacktestInit PROVE GridInv
  OBVIOUS
<1>1. NewStrategy \in States
  BY DEF NewStrategy, States, CrossReadings
<1> QED
  BY <1>1 DEF BacktestInit, GridInv, GridTracksPrice

\* The strategies other than the grid keep their fields in their types.
LEMMA OtherSteps ==
  ASSUME NEW s \in States, NEW k \in Kinds, k # "grid", NEW close \in Nat,
         NEW r \in Readings(k), NEW next, next = Step(k, s, close, r)
  PROVE  next.s \in States /\ next.side \in Sides \cup {"none"}
<1>1. CASE k = "cross"
  <2>1. r \in CrossReadings
    BY <1>1 DEF Readings
  <2>2. next = CrossStep(s, r)
    BY <1>1 DEF Step
  <2>3. next.s \in States
    BY <2>1, <2>2 DEF CrossStep, States
  <2>4. next.side \in Sides \cup {"none"}
    BY <2>2 DEF CrossStep, Sides
  <2> QED
    BY <2>3, <2>4
<1>2. CASE k = "position"
  <2>1. next = PositionStep(s, r)
    BY <1>2 DEF Step
  <2>2. next.s \in States
    <3> DEFINE buys == r \in {"enter", "both"} /\ ~s.inPosition
               sells == r \in {"leave", "both"} /\ s.inPosition
               b == (s.inPosition \/ buys) /\ ~sells
               out == IF buys THEN "buy" ELSE IF sells THEN "sell" ELSE "none"
    <3>0. next = [s |-> [s EXCEPT !.inPosition = b], side |-> out]
      BY <2>1, Zenon DEF PositionStep
    <3>1. next.s = [s EXCEPT !.inPosition = b]
      <4> HIDE DEF b, out
      <4> QED
        BY <3>0
    <3>2. b \in BOOLEAN
      BY Zenon
    <3> HIDE DEF b
    <3> QED
      BY <3>1, <3>2 DEF States
  <2>3. next.side \in Sides \cup {"none"}
    BY <2>1 DEF PositionStep, Sides
  <2> QED
    BY <2>2, <2>3
<1>3. CASE k = "dca"
  <2>1. next = DcaStep(s)
    BY <1>3 DEF Step
  <2>2. next.s \in States
    BY <2>1 DEF DcaStep, States
  <2>3. next.side \in Sides \cup {"none"}
    BY <2>1 DEF DcaStep, Sides
  <2> QED
    BY <2>2, <2>3
<1> QED
  BY <1>1, <1>2, <1>3 DEF Kinds

LEMMA GridSignal ==
  ASSUME BacktestTypeOK, GridInv, NEW r \in Readings(kind), Signal(r)
  PROVE  GridInv'
<1> DEFINE next == Step(kind, strategy, candle.close, r)
<1>1. candle.close \in Nat
  BY PricesAssumption DEF BacktestTypeOK, BacktestCandles
<1>2. /\ phase = "signal" /\ phase' = "snapshot" /\ kind' = kind
      /\ strategy' = next.s
      /\ firstCell' = IF firstCell = -1 THEN next.s.cell ELSE firstCell
      /\ netSignals' = CASE next.side = "buy" -> netSignals - 1
                         [] next.side = "sell" -> netSignals + 1
                         [] OTHER -> netSignals
  BY DEF Signal
<1>3. /\ strategy \in States /\ kind \in Kinds
      /\ firstCell \in Nat \cup {-1} /\ netSignals \in Int
  BY DEF GridInv, BacktestTypeOK
<1>4. CASE kind = "grid"
  <2>1. next = GridOnCandle(strategy, candle.close)
    BY <1>4 DEF Step
  <2> HIDE DEF next
  <2> DEFINE sells == Count(strategy.pending, "sell")
             buys == Count(strategy.pending, "buy")
             sells1 == Count(next.s.pending, "sell")
             buys1 == Count(next.s.pending, "buy")
             sum == CASE next.side = "sell" -> 1 [] next.side = "buy" -> -1 [] OTHER -> 0
  <2>2. /\ next.s \in States /\ next.s.cell \in Nat
        /\ next.side \in Sides \cup {"none"}
        /\ sells1 - buys1 + sum
             = sells - buys + (IF strategy.cell = -1 THEN 0 ELSE next.s.cell - strategy.cell)
    BY <1>1, <1>3, <2>1, GridCandle
  <2>3. /\ sells \in Nat /\ buys \in Nat /\ sells1 \in Nat /\ buys1 \in Nat
        /\ strategy.cell \in Nat \cup {-1}
    BY <1>3, <2>2, CountType DEF States
  <2>4. /\ netSignals + sells - buys = strategy.cell - firstCell
        /\ strategy.cell = -1 <=> firstCell = -1
    BY <1>4 DEF GridInv, GridTracksPrice
  <2>5. sum \in Int /\ netSignals' = netSignals + sum
    <3>1. CASE next.side = "sell"
      BY <1>2, <1>3, <3>1
    <3>2. CASE next.side = "buy"
      BY <1>2, <1>3, <3>2
    <3>3. CASE next.side = "none"
      BY <1>2, <1>3, <3>3
    <3> QED
      BY <2>2, <3>1, <3>2, <3>3 DEF Sides
  <2> HIDE DEF sells, buys, sells1, buys1, sum
  <2>6. netSignals' + sells1 - buys1 = next.s.cell - firstCell'
    <3>1. CASE firstCell = -1
      <4>1. strategy.cell = -1 /\ firstCell' = next.s.cell
        BY <1>2, <2>4, <3>1
      <4> QED
        BY <1>3, <2>2, <2>3, <2>4, <2>5, <3>1, <4>1
    <3>2. CASE firstCell # -1
      <4>1. strategy.cell # -1 /\ firstCell' = firstCell
        BY <1>2, <2>4, <3>2
      <4> QED
        BY <1>3, <2>2, <2>3, <2>4, <2>5, <3>2, <4>1
    <3> QED
      BY <3>1, <3>2
  <2>7. netSignals' \in Int /\ firstCell' \in Nat
    BY <1>2, <1>3, <2>2, <2>5
  <2> QED
    BY <1>2, <2>2, <2>6, <2>7 DEF GridInv, GridTracksPrice, sells1, buys1
<1>5. CASE kind # "grid"
  <2>2. next.s \in States /\ next.side \in Sides \cup {"none"}
    BY <1>1, <1>3, <1>5, OtherSteps
  <2> HIDE DEF next
  <2>3. netSignals' \in Int /\ firstCell' \in Nat \cup {-1}
    BY <1>2, <1>3, <2>2 DEF States
  <2> QED
    BY <1>2, <1>5, <2>2, <2>3 DEF GridInv, GridTracksPrice
<1> QED
  BY <1>4, <1>5

LEMMA GridStepKeeps == BacktestTypeOK /\ GridInv /\ [BacktestNext]_backtestVars => GridInv'
<1> SUFFICES ASSUME BacktestTypeOK, GridInv, [BacktestNext]_backtestVars
             PROVE  GridInv'
  OBVIOUS
<1>1. CASE \E k \in Kinds : Start(k)
  <2>1. /\ phase = "new" /\ phase' = "candle"
        /\ UNCHANGED <<strategy, netSignals, firstCell>>
    BY <1>1 DEF Start, strategyVars
  <2>2. strategy = NewStrategy /\ netSignals = 0 /\ firstCell = -1
    BY <2>1 DEF GridInv
  <2>3. NewStrategy.pending = <<>> /\ NewStrategy.cell = -1
    BY DEF NewStrategy
  <2>4. Count(<<>>, "sell") = 0 /\ Count(<<>>, "buy") = 0
    BY CountEmpty
  <2>5. GridTracksPrice'
    BY <2>1, <2>2, <2>3, <2>4 DEF GridTracksPrice
  <2> QED
    BY <2>1, <2>2, <2>3, <2>5 DEF GridInv
<1>2. CASE \E r \in Readings(kind) : Signal(r)
  BY <1>2, GridSignal
<1>3. CASE \/ \E k \in BacktestCandles : TakeCandle(k)
           \/ MatchOrders \/ Snapshot \/ Finish \/ UNCHANGED backtestVars
  <2>1. /\ UNCHANGED <<kind, strategy, netSignals, firstCell>>
        /\ phase' = "new" => phase = "new"
    <3>1. CASE \/ \E k \in BacktestCandles : TakeCandle(k)
               \/ Snapshot \/ Finish \/ UNCHANGED backtestVars
      BY <3>1 DEF TakeCandle, Snapshot, Finish, strategyVars, backtestVars
    <3>2. CASE MatchOrders
      BY <3>2 DEF MatchOrders, MatchDone, Match, MatchRaises, strategyVars
    <3> QED
      BY <1>3, <3>1, <3>2
  <2> QED
    BY <2>1 DEF GridInv, GridTracksPrice
<1> QED
  BY <1>1, <1>2, <1>3 DEF BacktestNext

\* The signals a grid has given and those it holds back are the cells between
\* the first candle and the last, wherever the prices jump.
THEOREM GridForgetsNoCell == BacktestSpec => []GridTracksPrice
<1>1. BacktestInv => BacktestTypeOK
  BY DEF BacktestInv
<1>2. GridInv => GridTracksPrice
  BY DEF GridInv
<1> QED
  BY <1>1, <1>2, GridInit, GridStepKeeps, BacktestInvariant, PTL DEF BacktestSpec
=============================================================================
