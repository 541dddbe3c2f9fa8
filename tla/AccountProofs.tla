---------------------------- MODULE AccountProofs ----------------------------
(***************************************************************************)
(* Proofs about Account: an approval is spoilt by another order alone, and *)
(* the cap by a fill alone, however many bots share the account.           *)
(*                                                                         *)
(* RaceInv is the first claim in a form that is inductive: nothing but the *)
(* acceptance of an order lowers a free balance.  CapInv is the second:    *)
(* nothing but a fill moves a total.  MineInv says that the order a runner *)
(* is about to track is the one it has placed.  SoldInv, in the second     *)
(* half, makes it inductive that no position is sold twice: a position is  *)
(* at one place at a time.                                                 *)
(***************************************************************************)
EXTENDS Account, TLAPS

MineInv ==
    \A b \in Bots : pc[b] = "publish" =>
        /\ mine[b] \in DOMAIN accepted
        /\ accepted[mine[b]] = [bot |-> b, sig |-> signal[b]]

RaceInv ==
    \A b \in Bots : pc[b] = "order" =>
        /\ asOf[b].accepted <= Len(accepted)
        /\ asOf[b].accepted = Len(accepted) => Funded(signal[b])

CapInv ==
    \A b \in Bots : pc[b] = "order" =>
        /\ asOf[b].filled \subseteq filled
        /\ asOf[b].filled = filled => Capped(signal[b])

AccountInv == AccountTypeOK /\ MineInv /\ RaceInv /\ CapInv

\* An order costs a whole amount.
LEMMA CostIsNat ==
  ASSUME NEW s \in Signals
  PROVE  Cost(s) \in Nat /\ s.size \in Nat /\ s.side \in {"buy", "sell"}
<1>1. s.size \in Nat /\ s.price \in Nat
  BY AccountAssumption DEF Signals
<1> QED
  BY <1>1 DEF Signals, Cost

LEMMA NoSignalIsNone == NoSignal \notin Signals
BY DEF NoSignal, Signals

LEMMA InitInv == AccountInit => AccountInv
<1> SUFFICES ASSUME AccountInit PROVE AccountInv
  OBVIOUS
<1>1. DOMAIN accepted = {} /\ accepted \in Seq(Placed)
  BY DEF AccountInit
<1>2. AccountTypeOK
  BY <1>1, AccountAssumption DEF AccountInit, AccountTypeOK, Unasked, BuysOf
<1>3. MineInv /\ RaceInv /\ CapInv
  BY DEF AccountInit, MineInv, RaceInv, CapInv
<1> QED
  BY <1>2, <1>3 DEF AccountInv

-----------------------------------------------------------------------------
(* The exchange *)

\* What the acceptance of an order changes, and keeps.
LEMMA AcceptFacts ==
  ASSUME AccountTypeOK, NEW b \in Bots, NEW s \in Signals, Accept(b, s)
  PROVE  /\ accepted' \in Seq(Placed) /\ Len(accepted') = Len(accepted) + 1
         /\ DOMAIN accepted \subseteq DOMAIN accepted'
         /\ Len(accepted') \in DOMAIN accepted'
         /\ \A i \in DOMAIN accepted : accepted'[i] = accepted[i]
         /\ accepted'[Len(accepted')] = [bot |-> b, sig |-> s]
         /\ quoteFree' \in Nat /\ baseFree' \in Nat
         /\ quoteUsed' \in Int /\ baseUsed' \in Int
         /\ quoteFree' + quoteUsed' = quoteFree + quoteUsed
         /\ filled' = filled
         /\ \A c \in Bots : BuysOf(c) \subseteq BuysOf(c)'
<1>1. [bot |-> b, sig |-> s] \in Placed /\ accepted \in Seq(Placed)
  BY DEF AccountTypeOK, Placed
<1>2. /\ accepted' \in Seq(Placed) /\ Len(accepted') = Len(accepted) + 1
      /\ DOMAIN accepted \subseteq DOMAIN accepted'
      /\ Len(accepted') \in DOMAIN accepted'
      /\ \A i \in DOMAIN accepted : accepted'[i] = accepted[i]
      /\ accepted'[Len(accepted')] = [bot |-> b, sig |-> s]
  BY <1>1 DEF Accept
<1>3. /\ quoteFree' \in Nat /\ baseFree' \in Nat
      /\ quoteUsed' \in Int /\ baseUsed' \in Int
      /\ quoteFree' + quoteUsed' = quoteFree + quoteUsed
      /\ filled' = filled
  <2>1. /\ quoteFree \in Nat /\ baseFree \in Nat
        /\ quoteUsed \in Int /\ baseUsed \in Int
    BY DEF AccountTypeOK
  <2>2. Cost(s) \in Nat /\ s.size \in Nat
    BY CostIsNat
  <2>3. CASE s.side = "buy"
    BY <2>1, <2>2, <2>3 DEF Accept, Funded
  <2>4. CASE s.side # "buy"
    BY <2>1, <2>2, <2>4 DEF Accept, Funded
  <2> QED
    BY <2>3, <2>4
<1>4. \A c \in Bots : BuysOf(c) \subseteq BuysOf(c)'
  BY <1>2 DEF BuysOf
<1> QED
  BY <1>2, <1>3, <1>4

\* An order that is accepted leaves the cap as it is, and outdates the checks
\* of the runners that have not ordered yet.
LEMMA AcceptKeeps ==
  ASSUME AccountInv, NEW b \in Bots, NEW s \in Signals, Accept(b, s),
         UNCHANGED <<signal, asOf>>,
         \A c \in Bots : pc'[c] = "order" => pc[c] = "order"
  PROVE  RaceInv' /\ CapInv'
<1>1. /\ Len(accepted') = Len(accepted) + 1 /\ filled' = filled
      /\ quoteFree' + quoteUsed' = quoteFree + quoteUsed
  BY AcceptFacts DEF AccountInv
<1>2. Len(accepted) \in Nat /\ \A c \in Bots : asOf[c].accepted \in Nat
  BY DEF AccountInv, AccountTypeOK
<1>3. RaceInv'
  <2> SUFFICES ASSUME NEW c \in Bots, pc'[c] = "order"
               PROVE  asOf[c].accepted < Len(accepted')
    BY <1>1, <1>2 DEF RaceInv
  <2>1. asOf[c].accepted <= Len(accepted)
    BY DEF AccountInv, RaceInv
  <2> QED
    BY <1>1, <1>2, <2>1
<1>4. CapInv'
  BY <1>1 DEF AccountInv, CapInv, Capped, QuoteTotal
<1> QED
  BY <1>3, <1>4

\* A step that leaves the exchange alone and makes no new approval.
LEMMA StillApproved ==
  ASSUME AccountInv, UNCHANGED <<balanceVars, accepted, filled>>,
         \A c \in Bots : pc'[c] = "order" =>
             pc[c] = "order" /\ signal'[c] = signal[c] /\ asOf'[c] = asOf[c]
  PROVE  RaceInv' /\ CapInv'
<1>1. RaceInv'
  BY DEF AccountInv, RaceInv, Funded, balanceVars
<1>2. CapInv'
  BY DEF AccountInv, CapInv, Capped, QuoteTotal, balanceVars
<1> QED
  BY <1>1, <1>2

\* A step after which every order to be tracked was one to be tracked.
LEMMA StillMine ==
  ASSUME AccountInv,
         \A i \in DOMAIN accepted : i \in DOMAIN accepted' /\ accepted'[i] = accepted[i],
         \A c \in Bots : pc'[c] = "publish" =>
             pc[c] = "publish" /\ signal'[c] = signal[c] /\ mine'[c] = mine[c]
  PROVE  MineInv'
BY DEF AccountInv, MineInv

-----------------------------------------------------------------------------
(* The steps of the exchange *)

LEMMA FillOrderInv ==
  ASSUME AccountInv, NEW i \in DOMAIN accepted, FillOrder(i) PROVE AccountInv'
<1> DEFINE s == accepted[i].sig
<1>1. s \in Signals
  <2>1. accepted[i] \in Placed
    BY DEF AccountInv, AccountTypeOK
  <2> QED
    BY <2>1 DEF Placed
<1>2. Cost(s) \in Nat /\ s.size \in Nat
  BY <1>1, CostIsNat
<1>3. /\ quoteFree \in Nat /\ baseFree \in Nat
      /\ quoteUsed \in Int /\ baseUsed \in Int
  BY DEF AccountInv, AccountTypeOK
<1>4. /\ quoteFree' \in Nat /\ baseFree' \in Nat
      /\ quoteUsed' \in Int /\ baseUsed' \in Int
      /\ quoteFree <= quoteFree' /\ baseFree <= baseFree'
  BY <1>2, <1>3 DEF FillOrder
<1>5. /\ UNCHANGED <<accepted, late, tracked, leaving, pc, signal, mine, asOf>>
      /\ i \notin filled /\ filled' = filled \cup {i}
  BY DEF FillOrder, positionVars
<1>6. AccountTypeOK'
  BY <1>4, <1>5 DEF AccountInv, AccountTypeOK, BuysOf
<1>7. MineInv'
  BY <1>5 DEF AccountInv, MineInv
<1>8. RaceInv'
  <2> SUFFICES ASSUME NEW c \in Bots, pc[c] = "order"
               PROVE  /\ asOf[c].accepted <= Len(accepted)
                      /\ asOf[c].accepted = Len(accepted) => Funded(signal[c])'
    BY <1>5 DEF RaceInv
  <2>1. signal[c] \in Signals
    BY DEF AccountInv, AccountTypeOK
  <2>2. Cost(signal[c]) \in Nat /\ signal[c].size \in Nat
    BY <2>1, CostIsNat
  <2>3. Funded(signal[c]) => Funded(signal[c])'
    BY <1>3, <1>4, <1>5, <2>2 DEF Funded, Cost
  <2> QED
    BY <2>3 DEF AccountInv, RaceInv
<1>9. CapInv'
  BY <1>5 DEF AccountInv, CapInv
<1> QED
  BY <1>6, <1>7, <1>8, <1>9 DEF AccountInv

LEMMA LateArrivesInv ==
  ASSUME AccountInv, NEW b \in Bots, LateArrives(b) PROVE AccountInv'
<1>1. late[b] \in Signals /\ Accept(b, late[b])
  BY DEF AccountInv, AccountTypeOK, LateArrives
<1>2. UNCHANGED <<tracked, leaving, pc, signal, mine, asOf>>
  BY DEF LateArrives, positionVars
<1>3. RaceInv' /\ CapInv'
  BY <1>1, <1>2, AcceptKeeps
<1>4. AccountTypeOK'
  <2>1. late' \in [Bots -> Signals \cup {NoSignal}]
    BY DEF AccountInv, AccountTypeOK, LateArrives
  <2> QED
    BY <1>1, <1>2, <2>1, AcceptFacts DEF AccountInv, AccountTypeOK
<1>5. MineInv'
  BY <1>1, <1>2, AcceptFacts, StillMine DEF AccountInv
<1> QED
  BY <1>3, <1>4, <1>5 DEF AccountInv

LEMMA LateLostInv ==
  ASSUME AccountInv, NEW b \in Bots, LateLost(b) PROVE AccountInv'
<1>1. UNCHANGED <<balanceVars, accepted, filled, tracked, leaving, pc, signal, mine, asOf>>
  BY DEF LateLost, positionVars
<1>2. RaceInv' /\ CapInv' /\ MineInv'
  BY <1>1, StillApproved, StillMine
<1>3. AccountTypeOK'
  BY <1>1 DEF AccountInv, AccountTypeOK, LateLost, balanceVars, BuysOf
<1> QED
  BY <1>2, <1>3 DEF AccountInv

-----------------------------------------------------------------------------
(* The steps of a runner *)

LEMMA CandleInv ==
  ASSUME AccountInv, NEW b \in Bots, NEW hits \in SUBSET tracked[b], Candle(b, hits)
  PROVE  AccountInv'
<1>1. /\ UNCHANGED <<balanceVars, accepted, filled, late, signal, mine, asOf>>
      /\ pc' = [pc EXCEPT ![b] = "exits"]
  BY DEF Candle, sharedVars
<1>2. RaceInv' /\ CapInv' /\ MineInv'
  BY <1>1, StillApproved, StillMine DEF AccountInv, AccountTypeOK
<1>3. /\ tracked' \in [Bots -> SUBSET Nat] /\ leaving' \in [Bots -> SUBSET Nat]
      /\ \A c \in Bots : tracked'[c] \subseteq BuysOf(c) /\ leaving'[c] \subseteq BuysOf(c)
  BY DEF AccountInv, AccountTypeOK, Candle
<1>4. /\ pc' \in [Bots -> {"candle", "exits", "check", "order", "publish"}]
      /\ \A c \in Bots : pc'[c] \in {"check", "order", "publish"} => signal[c] \in Signals
  BY <1>1 DEF AccountInv, AccountTypeOK
<1>5. AccountTypeOK'
  BY <1>1, <1>3, <1>4 DEF AccountInv, AccountTypeOK, balanceVars, BuysOf
<1> QED
  BY <1>2, <1>5 DEF AccountInv

LEMMA TakeExitInv ==
  ASSUME AccountInv, NEW b \in Bots, NEW o \in leaving[b], NEW price \in Levels,
         TakeExit(b, o, price)
  PROVE  AccountInv'
<1> DEFINE s == [side |-> "sell", price |-> price, size |-> accepted[o].sig.size,
                 exitOf |-> o]
<1>1. /\ UNCHANGED <<balanceVars, accepted, filled, late, tracked, mine, asOf>>
      /\ pc' = [pc EXCEPT ![b] = "check"] /\ signal' = [signal EXCEPT ![b] = s]
      /\ leaving' = [leaving EXCEPT ![b] = @ \ {o}]
  BY DEF TakeExit, sharedVars
<1>2. RaceInv' /\ CapInv' /\ MineInv'
  BY <1>1, StillApproved, StillMine DEF AccountInv, AccountTypeOK
<1>3. s \in Signals
  <2>1. o \in DOMAIN accepted /\ o \in Nat /\ accepted \in Seq(Placed)
    BY DEF AccountInv, AccountTypeOK, BuysOf
  <2>2. accepted[o].sig \in Signals
    <3>1. accepted[o] \in Placed
      BY <2>1
    <3> QED
      BY <3>1 DEF Placed
  <2> QED
    BY <2>1, <2>2 DEF Signals
<1>4. /\ signal' \in [Bots -> Signals \cup {NoSignal}]
      /\ pc' \in [Bots -> {"candle", "exits", "check", "order", "publish"}]
      /\ \A c \in Bots : pc'[c] \in {"check", "order", "publish"} => signal'[c] \in Signals
  BY <1>1, <1>3 DEF AccountInv, AccountTypeOK
<1>5. /\ leaving' \in [Bots -> SUBSET Nat]
      /\ \A c \in Bots : leaving'[c] \subseteq BuysOf(c)
  BY <1>1 DEF AccountInv, AccountTypeOK
<1>6. AccountTypeOK'
  BY <1>1, <1>4, <1>5 DEF AccountInv, AccountTypeOK, balanceVars, BuysOf
<1> QED
  BY <1>2, <1>6 DEF AccountInv

LEMMA EntryInv ==
  ASSUME AccountInv, NEW b \in Bots, NEW s \in Signals, Entry(b, s)
  PROVE  AccountInv'
<1>1. /\ UNCHANGED <<balanceVars, accepted, filled, late, tracked, leaving, mine, asOf>>
      /\ pc' = [pc EXCEPT ![b] = "check"] /\ signal' = [signal EXCEPT ![b] = s]
  BY DEF Entry, sharedVars, positionVars
<1>2. RaceInv' /\ CapInv' /\ MineInv'
  BY <1>1, StillApproved, StillMine DEF AccountInv, AccountTypeOK
<1>3. AccountTypeOK'
  BY <1>1 DEF AccountInv, AccountTypeOK, balanceVars, BuysOf
<1> QED
  BY <1>2, <1>3 DEF AccountInv

LEMMA NoEntryInv ==
  ASSUME AccountInv, NEW b \in Bots, NoEntry(b) PROVE AccountInv'
<1>1. /\ UNCHANGED <<balanceVars, accepted, filled, late, tracked, leaving, signal,
                     mine, asOf>>
      /\ pc' = [pc EXCEPT ![b] = "candle"]
  BY DEF NoEntry, sharedVars, positionVars
<1>2. RaceInv' /\ CapInv' /\ MineInv'
  BY <1>1, StillApproved, StillMine DEF AccountInv, AccountTypeOK
<1>3. AccountTypeOK'
  BY <1>1 DEF AccountInv, AccountTypeOK, balanceVars, BuysOf
<1> QED
  BY <1>2, <1>3 DEF AccountInv

\* What RiskManager approved can be ordered as the balances are.
LEMMA ApproveInv ==
  ASSUME AccountInv, NEW b \in Bots, Approve(b) PROVE AccountInv'
<1> DEFINE now == [accepted |-> Len(accepted), filled |-> filled]
<1>1. /\ UNCHANGED <<balanceVars, accepted, filled, late, tracked, leaving, signal, mine>>
      /\ pc' = [pc EXCEPT ![b] = "order"] /\ asOf' = [asOf EXCEPT ![b] = now]
      /\ Funded(signal[b]) /\ Capped(signal[b]) /\ pc[b] = "check"
  BY DEF Approve, sharedVars, positionVars, Passes
<1>2. Len(accepted) \in Nat /\ filled \in SUBSET Nat
  BY DEF AccountInv, AccountTypeOK
<1>3. AccountTypeOK'
  BY <1>1, <1>2 DEF AccountInv, AccountTypeOK, balanceVars, BuysOf
<1>4. MineInv'
  BY <1>1, StillMine DEF AccountInv, AccountTypeOK
<1>5. asOf'[b] = now /\ \A c \in Bots \ {b} : asOf'[c] = asOf[c] /\ pc'[c] = pc[c]
  BY <1>1 DEF AccountInv, AccountTypeOK
<1>6. RaceInv'
  BY <1>1, <1>2, <1>5 DEF AccountInv, RaceInv, Funded, balanceVars
<1>7. CapInv'
  BY <1>1, <1>5 DEF AccountInv, CapInv, Capped, QuoteTotal, balanceVars
<1> QED
  BY <1>3, <1>4, <1>6, <1>7 DEF AccountInv

\* _execute_signal returns without having placed an order that it knows of.
LEMMA ReturnInv ==
  ASSUME AccountInv, NEW b \in Bots, Return(b),
         UNCHANGED <<balanceVars, accepted, filled>>,
         late' \in [Bots -> Signals \cup {NoSignal}],
         leaving' = leaving, tracked' \in [Bots -> SUBSET Nat],
         \A c \in Bots : tracked'[c] \subseteq BuysOf(c)
  PROVE  AccountInv'
<1>1. /\ signal' = [signal EXCEPT ![b] = NoSignal] /\ mine' = [mine EXCEPT ![b] = 0]
      /\ asOf' = [asOf EXCEPT ![b] = Unasked]
      /\ \E next \in {"exits", "candle"} : pc' = [pc EXCEPT ![b] = next]
  BY DEF Return
<1>2. RaceInv' /\ CapInv' /\ MineInv'
  BY <1>1, StillApproved, StillMine DEF AccountInv, AccountTypeOK
<1>3. AccountTypeOK'
  BY <1>1 DEF AccountInv, AccountTypeOK, balanceVars, BuysOf, Unasked
<1> QED
  BY <1>2, <1>3 DEF AccountInv

LEMMA EndWithoutOrderInv ==
  ASSUME AccountInv, NEW b \in Bots,
         Reject(b) \/ CreateOrderRefused(b) \/ CreateOrderTimesOut(b)
  PROVE  AccountInv'
<1>1. /\ Return(b)
      /\ UNCHANGED <<balanceVars, accepted, filled, leaving, tracked>>
  BY DEF Reject, CreateOrderRefused, CreateOrderTimesOut, sharedVars, positionVars
<1>2. late' \in [Bots -> Signals \cup {NoSignal}]
  BY DEF AccountInv, AccountTypeOK, Reject, CreateOrderRefused, CreateOrderTimesOut, sharedVars
<1> QED
  BY <1>1, <1>2, ReturnInv DEF AccountInv, AccountTypeOK

LEMMA CreateOrderInv ==
  ASSUME AccountInv, NEW b \in Bots, CreateOrder(b) PROVE AccountInv'
<1>1. signal[b] \in Signals /\ Accept(b, signal[b])
  BY DEF AccountInv, AccountTypeOK, CreateOrder
<1>2. /\ UNCHANGED <<late, tracked, leaving, signal, asOf>>
      /\ mine' = [mine EXCEPT ![b] = Len(accepted) + 1]
      /\ pc' = [pc EXCEPT ![b] = "publish"]
  BY DEF CreateOrder, positionVars
<1>3. /\ mine'[b] = Len(accepted') /\ pc'[b] = "publish"
      /\ \A c \in Bots \ {b} : mine'[c] = mine[c] /\ pc'[c] = pc[c]
  BY <1>1, <1>2, AcceptFacts DEF AccountInv, AccountTypeOK
<1>4. /\ Len(accepted') = Len(accepted) + 1 /\ filled' = filled
      /\ quoteFree' + quoteUsed' = quoteFree + quoteUsed
  BY <1>1, AcceptFacts DEF AccountInv
<1>5. RaceInv' /\ CapInv'
  BY <1>1, <1>2, <1>3, AcceptKeeps
<1>6. AccountTypeOK'
  <2>1. mine' \in [Bots -> Nat] /\ Len(accepted) \in Nat
    BY <1>2 DEF AccountInv, AccountTypeOK
  <2> QED
    BY <1>1, <1>2, <2>1, AcceptFacts DEF AccountInv, AccountTypeOK
<1>7. MineInv'
  <2> SUFFICES ASSUME NEW c \in Bots, pc'[c] = "publish"
               PROVE  /\ mine'[c] \in DOMAIN accepted'
                      /\ accepted'[mine'[c]] = [bot |-> c, sig |-> signal[c]]
    BY <1>2 DEF MineInv
  <2>1. CASE c = b
    BY <1>1, <1>3, <2>1, AcceptFacts DEF AccountInv
  <2>2. CASE c # b
    <3>1. /\ mine[c] \in DOMAIN accepted
          /\ accepted[mine[c]] = [bot |-> c, sig |-> signal[c]]
      BY <1>3, <2>2 DEF AccountInv, MineInv
    <3> QED
      BY <1>1, <1>3, <2>2, <3>1, AcceptFacts DEF AccountInv
  <2> QED
    BY <2>1, <2>2
<1> QED
  BY <1>5, <1>6, <1>7 DEF AccountInv

\* The order tracked is a BUY of this bot.
LEMMA TrackInv ==
  ASSUME AccountInv, NEW b \in Bots, Track(b) PROVE AccountInv'
<1>1. /\ Return(b)
      /\ UNCHANGED <<balanceVars, accepted, filled, leaving, late>>
      /\ tracked' = IF signal[b].side = "buy"
                    THEN [tracked EXCEPT ![b] = @ \cup {mine[b]}] ELSE tracked
  BY DEF Track, sharedVars
<1>2. signal[b].side = "buy" => mine[b] \in BuysOf(b)
  <2>1. /\ mine[b] \in DOMAIN accepted
        /\ accepted[mine[b]] = [bot |-> b, sig |-> signal[b]]
    BY DEF AccountInv, MineInv, Track
  <2>2. accepted[mine[b]].bot = b /\ accepted[mine[b]].sig = signal[b]
    BY <2>1
  <2> QED
    BY <2>1, <2>2 DEF BuysOf
<1>3. /\ tracked' \in [Bots -> SUBSET Nat]
      /\ \A c \in Bots : tracked'[c] \subseteq BuysOf(c)
  BY <1>1, <1>2 DEF AccountInv, AccountTypeOK
<1> QED
  BY <1>1, <1>3, ReturnInv DEF AccountInv, AccountTypeOK

LEMMA RestartInv ==
  ASSUME AccountInv, NEW b \in Bots, Restart(b) PROVE AccountInv'
<1>1. /\ UNCHANGED <<balanceVars, accepted, filled>>
      /\ pc' = [pc EXCEPT ![b] = "candle"]
      /\ signal' = [signal EXCEPT ![b] = NoSignal] /\ mine' = [mine EXCEPT ![b] = 0]
      /\ asOf' = [asOf EXCEPT ![b] = Unasked]
      /\ tracked' = [tracked EXCEPT ![b] = {}] /\ leaving' = [leaving EXCEPT ![b] = {}]
  BY DEF Restart
<1>2. late' \in [Bots -> Signals \cup {NoSignal}]
  BY DEF AccountInv, AccountTypeOK, Restart
<1>3. RaceInv' /\ CapInv' /\ MineInv'
  BY <1>1, StillApproved, StillMine DEF AccountInv, AccountTypeOK
<1>4. /\ asOf' \in [Bots -> [accepted : Nat, filled : SUBSET Nat]]
      /\ mine' \in [Bots -> Nat]
      /\ signal' \in [Bots -> Signals \cup {NoSignal}]
      /\ pc' \in [Bots -> {"candle", "exits", "check", "order", "publish"}]
      /\ \A c \in Bots : pc'[c] \in {"check", "order", "publish"} => signal'[c] \in Signals
  BY <1>1 DEF AccountInv, AccountTypeOK, Unasked
<1>5. /\ tracked' \in [Bots -> SUBSET Nat] /\ leaving' \in [Bots -> SUBSET Nat]
      /\ \A c \in Bots : tracked'[c] \subseteq BuysOf(c) /\ leaving'[c] \subseteq BuysOf(c)
  BY <1>1 DEF AccountInv, AccountTypeOK
<1>6. AccountTypeOK'
  BY <1>1, <1>2, <1>4, <1>5 DEF AccountInv, AccountTypeOK, balanceVars, BuysOf
<1> QED
  BY <1>3, <1>6 DEF AccountInv

-----------------------------------------------------------------------------

LEMMA RunnerInv ==
  ASSUME AccountInv, NEW b \in Bots, Runner(b) PROVE AccountInv'
<1>1. ASSUME NEW hits \in SUBSET tracked[b], Candle(b, hits) PROVE AccountInv'
  BY <1>1, CandleInv
<1>2. ASSUME NEW o \in leaving[b], NEW price \in Levels, TakeExit(b, o, price)
      PROVE  AccountInv'
  BY <1>2, TakeExitInv
<1>3. ASSUME NEW side \in {"buy", "sell"}, NEW size \in Sizes, NEW price \in Levels,
             Entry(b, [side |-> side, size |-> size, price |-> price, exitOf |-> 0])
      PROVE  AccountInv'
  <2>1. [side |-> side, size |-> size, price |-> price, exitOf |-> 0] \in Signals
    BY DEF Signals
  <2> QED
    BY <1>3, <2>1, EntryInv
<1>4. CASE NoEntry(b)
  BY <1>4, NoEntryInv
<1>5. CASE Approve(b)
  BY <1>5, ApproveInv
<1>6. CASE Reject(b) \/ CreateOrderRefused(b) \/ CreateOrderTimesOut(b)
  BY <1>6, EndWithoutOrderInv
<1>7. CASE CreateOrder(b)
  BY <1>7, CreateOrderInv
<1>8. CASE Track(b)
  BY <1>8, TrackInv
<1>9. CASE Restart(b)
  BY <1>9, RestartInv
<1> QED
  BY <1>1, <1>2, <1>3, <1>4, <1>5, <1>6, <1>7, <1>8, <1>9 DEF Runner

LEMMA StutterInv == AccountInv /\ UNCHANGED accountVars => AccountInv'
<1> SUFFICES ASSUME AccountInv, UNCHANGED accountVars PROVE AccountInv'
  OBVIOUS
<1>1. UNCHANGED <<balanceVars, accepted, filled, late, tracked, leaving, pc, signal,
                  mine, asOf>>
  BY DEF accountVars, sharedVars, positionVars
<1>2. RaceInv' /\ CapInv' /\ MineInv'
  BY <1>1, StillApproved, StillMine
<1>3. AccountTypeOK'
  BY <1>1 DEF AccountInv, AccountTypeOK, balanceVars, BuysOf
<1> QED
  BY <1>2, <1>3 DEF AccountInv

LEMMA InvHolds == AccountSpec => []AccountInv
<1>1. AccountInv /\ [AccountNext]_accountVars => AccountInv'
  BY RunnerInv, LateArrivesInv, LateLostInv, FillOrderInv, StutterInv DEF AccountNext
<1> QED
  BY InitInv, <1>1, PTL DEF AccountSpec

\* The account and the runners of its bots stay within their types; a position
\* is a BUY of the bot that tracks it.
THEOREM TypeCorrect == AccountSpec => []AccountTypeOK
<1>1. AccountInv => AccountTypeOK
  BY DEF AccountInv
<1> QED
  BY InvHolds, <1>1, PTL

\* Between RiskManager.check and create_order only the acceptance of another
\* order can make the exchange refuse.
THEOREM RefusalNeedsARace == AccountSpec => []RefusedOnlyByRace
<1>1. AccountInv => RefusedOnlyByRace
  <2> SUFFICES ASSUME AccountInv, NEW b \in Bots, pc[b] = "order", ~Funded(signal[b])
               PROVE  Len(accepted) > asOf[b].accepted
    BY DEF RefusedOnlyByRace
  <2>1. asOf[b].accepted \in Nat /\ Len(accepted) \in Nat
    BY DEF AccountInv, AccountTypeOK
  <2> QED
    BY <2>1 DEF AccountInv, RaceInv
<1> QED
  BY InvHolds, <1>1, PTL

\* Between RiskManager.check and create_order only a fill can move the cap.
THEOREM CapBreachNeedsAFill == AccountSpec => []CapBrokenOnlyByFill
<1>1. AccountInv => CapBrokenOnlyByFill
  BY DEF AccountInv, CapInv, CapBrokenOnlyByFill
<1> QED
  BY InvHolds, <1>1, PTL

\* So an approval stands unless an order or a fill comes in between.
THEOREM ApprovalsAreKept == AccountSpec => []ApprovalsHold
<1>1. RefusedOnlyByRace /\ CapBrokenOnlyByFill => ApprovalsHold
  BY DEF ApprovalsHold
<1> QED
  BY RefusalNeedsARace, CapBreachNeedsAFill, <1>1, PTL
-----------------------------------------------------------------------------
(* No position is sold twice.  On its way from the list to an exit order a *)
(* position is at one place at a time: tracked, in the queue of exits, in  *)
(* the signal in hand, in a request nobody waits for, or ordered.          *)

\* The position whose exit the runner has in hand; 0 is none.
HandExit(b) == IF pc[b] \in {"check", "order"} THEN signal[b].exitOf ELSE 0

PlacedExit(b, o) ==
    \E i \in DOMAIN accepted : accepted[i].bot = b /\ accepted[i].sig.exitOf = o

Away(b, o) == o = HandExit(b) \/ o = late[b].exitOf \/ PlacedExit(b, o)

PlaceInv(b) ==
    /\ HandExit(b) \in BuysOf(b) \cup {0}
    /\ late[b].exitOf \in BuysOf(b) \cup {0}
    /\ \A o : PlacedExit(b, o) => o \in BuysOf(b) \cup {0}
    /\ tracked[b] \cap leaving[b] = {}
    /\ \A o \in tracked[b] \cup leaving[b] : ~Away(b, o)
    /\ HandExit(b) # 0 => HandExit(b) # late[b].exitOf /\ ~PlacedExit(b, HandExit(b))
    /\ late[b].exitOf # 0 => ~PlacedExit(b, late[b].exitOf)
    /\ pc[b] = "publish" => mine[b] \notin tracked[b] \cup leaving[b]
                            /\ ~Away(b, mine[b])

SoldInv == SoldOnce /\ \A b \in Bots : PlaceInv(b)

LEMMA SoldInit == AccountInit => SoldInv
<1> SUFFICES ASSUME AccountInit PROVE SoldInv
  OBVIOUS
<1>1. DOMAIN accepted = {}
  BY DEF AccountInit
<1> QED
  BY <1>1 DEF AccountInit, SoldInv, SoldOnce, PlaceInv, Away, HandExit, PlacedExit,
              NoSignal

\* Orders have numbers from 1, and the list holds some of the bot's.
LEMMA ListFacts ==
  ASSUME AccountInv, NEW b \in Bots
  PROVE  /\ tracked[b] \subseteq BuysOf(b) /\ leaving[b] \subseteq BuysOf(b)
         /\ 0 \notin BuysOf(b) /\ BuysOf(b) \subseteq DOMAIN accepted
         /\ BuysOf(b) \subseteq 1..Len(accepted) /\ Len(accepted) \in Nat
<1>1. accepted \in Seq(Placed)
  BY DEF AccountInv, AccountTypeOK
<1>2. DOMAIN accepted = 1..Len(accepted) /\ Len(accepted) \in Nat
  BY <1>1
<1> QED
  BY <1>2 DEF AccountInv, AccountTypeOK, BuysOf

\* A bot that does nothing keeps its positions where they are.
LEMMA PlaceKept ==
  ASSUME NEW c \in Bots, PlaceInv(c), BuysOf(c) \subseteq BuysOf(c)',
         \A o : PlacedExit(c, o)' <=> PlacedExit(c, o),
         pc'[c] = pc[c], signal'[c] = signal[c], mine'[c] = mine[c],
         late'[c] = late[c], tracked'[c] = tracked[c], leaving'[c] = leaving[c]
  PROVE  PlaceInv(c)'
<1>1. HandExit(c)' = HandExit(c) /\ \A o : Away(c, o)' <=> Away(c, o)
  BY DEF HandExit, Away
<1>2. /\ HandExit(c)' \in BuysOf(c)' \cup {0}
      /\ late'[c].exitOf \in BuysOf(c)' \cup {0}
      /\ \A o : PlacedExit(c, o)' => o \in BuysOf(c)' \cup {0}
  BY <1>1 DEF PlaceInv
<1>3. /\ tracked'[c] \cap leaving'[c] = {}
      /\ \A o \in tracked'[c] \cup leaving'[c] : ~Away(c, o)'
  BY <1>1 DEF PlaceInv
<1>4. /\ HandExit(c)' # 0 =>
            HandExit(c)' # late'[c].exitOf /\ ~PlacedExit(c, HandExit(c))'
      /\ late'[c].exitOf # 0 => ~PlacedExit(c, late[c].exitOf)'
  BY <1>1 DEF PlaceInv
<1>5. pc'[c] = "publish" => mine'[c] \notin tracked'[c] \cup leaving'[c]
                            /\ ~Away(c, mine[c])'
  BY <1>1 DEF PlaceInv
<1> QED
  BY <1>2, <1>3, <1>4, <1>5 DEF PlaceInv

\* A step of one bot that places no order.
LEMMA QuietStep ==
  ASSUME SoldInv, NEW b \in Bots, accepted' = accepted, PlaceInv(b)',
         \A c \in Bots \ {b} :
             /\ pc'[c] = pc[c] /\ signal'[c] = signal[c] /\ mine'[c] = mine[c]
             /\ late'[c] = late[c]
             /\ tracked'[c] = tracked[c] /\ leaving'[c] = leaving[c]
  PROVE  SoldInv'
<1>1. SoldOnce'
  BY DEF SoldInv, SoldOnce
<1>2. ASSUME NEW c \in Bots \ {b} PROVE PlaceInv(c)'
  <2>1. BuysOf(c) \subseteq BuysOf(c)' /\ \A o : PlacedExit(c, o)' <=> PlacedExit(c, o)
    BY DEF BuysOf, PlacedExit
  <2> QED
    BY <2>1, PlaceKept DEF SoldInv
<1> QED
  BY <1>1, <1>2 DEF SoldInv

\* An order that exits what is not yet exited, and is not on its way elsewhere.
LEMMA AcceptSold ==
  ASSUME AccountInv, SoldInv, NEW b \in Bots, NEW s \in Signals, Accept(b, s),
         s.exitOf \in BuysOf(b) \cup {0},
         s.exitOf # 0 => ~PlacedExit(b, s.exitOf)
  PROVE  /\ SoldOnce'
         /\ BuysOf(b) \subseteq BuysOf(b)'
         /\ \A o : PlacedExit(b, o)' <=> PlacedExit(b, o) \/ o = s.exitOf
         /\ \A c \in Bots \ {b} :
               /\ BuysOf(c) \subseteq BuysOf(c)'
               /\ \A o : PlacedExit(c, o)' <=> PlacedExit(c, o)
<1> DEFINE n == Len(accepted')
<1>1. /\ Len(accepted') = Len(accepted) + 1
      /\ accepted \in Seq(Placed) /\ accepted' \in Seq(Placed)
      /\ \A i \in DOMAIN accepted : accepted'[i] = accepted[i]
      /\ accepted'[n] = [bot |-> b, sig |-> s]
      /\ \A c \in Bots : BuysOf(c) \subseteq BuysOf(c)'
  BY AcceptFacts DEF AccountInv, AccountTypeOK
<1>2. DOMAIN accepted' = DOMAIN accepted \cup {n} /\ n \notin DOMAIN accepted
  BY <1>1
<1>3. accepted'[n].bot = b /\ accepted'[n].sig = s
  BY <1>1
<1>4. \A c \in Bots : \A o :
          PlacedExit(c, o)' <=> PlacedExit(c, o) \/ (c = b /\ o = s.exitOf)
  BY <1>1, <1>2, <1>3 DEF PlacedExit
<1>5. SoldOnce'
  <2>1. ASSUME NEW i \in DOMAIN accepted, s.exitOf # 0,
               accepted[i].sig.exitOf = s.exitOf
        PROVE  FALSE
    <3>1. accepted[i].bot \in Bots
      <4>1. accepted[i] \in Placed
        BY <1>1
      <4> QED
        BY <4>1 DEF Placed
    <3>2. PlacedExit(accepted[i].bot, s.exitOf)
      BY <2>1 DEF PlacedExit
    <3>3. s.exitOf \in BuysOf(accepted[i].bot) \cap BuysOf(b)
      BY <2>1, <3>1, <3>2 DEF SoldInv, PlaceInv
    <3>4. accepted[i].bot = b
      BY <3>3 DEF BuysOf
    <3> QED
      BY <2>1, <3>2, <3>4
  <2> SUFFICES ASSUME NEW i \in DOMAIN accepted', NEW j \in DOMAIN accepted',
                      accepted'[i].sig.exitOf = accepted'[j].sig.exitOf,
                      accepted'[i].sig.exitOf # 0
               PROVE  i = j
    BY DEF SoldOnce
  <2>2. CASE i \in DOMAIN accepted /\ j \in DOMAIN accepted
    BY <1>1, <2>2 DEF SoldInv, SoldOnce
  <2>3. CASE i = n \/ j = n
    BY <1>1, <1>2, <1>3, <2>1, <2>3
  <2> QED
    BY <1>2, <2>2, <2>3
<1> QED
  BY <1>1, <1>4, <1>5

\* A step of one bot with which an order of it is accepted.
LEMMA OrderStep ==
  ASSUME AccountInv, SoldInv, NEW b \in Bots, NEW s \in Signals, Accept(b, s),
         s.exitOf \in BuysOf(b) \cup {0},
         s.exitOf # 0 => ~PlacedExit(b, s.exitOf),
         PlaceInv(b)',
         \A c \in Bots \ {b} :
             /\ pc'[c] = pc[c] /\ signal'[c] = signal[c] /\ mine'[c] = mine[c]
             /\ late'[c] = late[c]
             /\ tracked'[c] = tracked[c] /\ leaving'[c] = leaving[c]
  PROVE  SoldInv'
<1>1. SoldOnce'
  BY AcceptSold
<1>2. ASSUME NEW c \in Bots \ {b} PROVE PlaceInv(c)'
  <2>1. BuysOf(c) \subseteq BuysOf(c)' /\ \A o : PlacedExit(c, o)' <=> PlacedExit(c, o)
    BY AcceptSold
  <2> QED
    BY <2>1, PlaceKept DEF SoldInv
<1> QED
  BY <1>1, <1>2 DEF SoldInv

LEMMA FillSold ==
  ASSUME SoldInv, NEW i \in DOMAIN accepted, FillOrder(i) PROVE SoldInv'
BY DEF FillOrder, positionVars, SoldInv, SoldOnce, PlaceInv, Away, HandExit,
       PlacedExit, BuysOf

LEMMA LateArrivesSold ==
  ASSUME AccountInv, SoldInv, NEW b \in Bots, LateArrives(b) PROVE SoldInv'
<1> DEFINE s == late[b]
<1>1. s \in Signals /\ Accept(b, s)
  BY DEF AccountInv, AccountTypeOK, LateArrives
<1>2. /\ late' = [late EXCEPT ![b] = NoSignal]
      /\ UNCHANGED <<tracked, leaving, pc, signal, mine>>
  BY DEF LateArrives, positionVars
<1>3. late'[b] = NoSignal /\ \A c \in Bots \ {b} : late'[c] = late[c]
  BY <1>2 DEF AccountInv, AccountTypeOK
<1>4. PlaceInv(b)
  BY DEF SoldInv
<1>5. s.exitOf \in BuysOf(b) \cup {0} /\ (s.exitOf # 0 => ~PlacedExit(b, s.exitOf))
  BY <1>4 DEF PlaceInv
<1>6. /\ BuysOf(b) \subseteq BuysOf(b)'
      /\ \A o : PlacedExit(b, o)' <=> PlacedExit(b, o) \/ o = s.exitOf
  BY <1>1, <1>5, AcceptSold
<1>7. late'[b].exitOf = 0 /\ HandExit(b)' = HandExit(b)
  BY <1>2, <1>3 DEF NoSignal, HandExit
<1>8. \A o : Away(b, o)' => Away(b, o) \/ o = 0
  BY <1>6, <1>7 DEF Away
<1>9. 0 \notin tracked[b] \cup leaving[b] /\ (pc[b] = "publish" => mine[b] # 0)
  <2>1. 0 \notin tracked[b] \cup leaving[b]
    BY ListFacts
  <2>2. ASSUME pc[b] = "publish" PROVE mine[b] # 0
    <3>1. mine[b] \in DOMAIN accepted /\ accepted \in Seq(Placed)
      BY <2>2 DEF AccountInv, MineInv, AccountTypeOK
    <3> QED
      BY <3>1
  <2> QED
    BY <2>1, <2>2
<1>10. HandExit(b) # 0 => ~PlacedExit(b, HandExit(b))'
  <2>1. HandExit(b) # 0 => HandExit(b) # s.exitOf /\ ~PlacedExit(b, HandExit(b))
    BY <1>4 DEF PlaceInv
  <2> QED
    BY <1>6, <1>7, <2>1 DEF PlacedExit
<1>11. PlaceInv(b)'
  BY <1>2, <1>4, <1>5, <1>6, <1>7, <1>8, <1>9, <1>10 DEF PlaceInv
<1> QED
  BY <1>1, <1>2, <1>3, <1>5, <1>11, OrderStep

LEMMA LateLostSold ==
  ASSUME AccountInv, SoldInv, NEW b \in Bots, LateLost(b) PROVE SoldInv'
<1>1. /\ late' = [late EXCEPT ![b] = NoSignal]
      /\ UNCHANGED <<accepted, tracked, leaving, pc, signal, mine>>
  BY DEF LateLost, positionVars
<1>2. late'[b] = NoSignal /\ \A c \in Bots \ {b} : late'[c] = late[c]
  BY <1>1 DEF AccountInv, AccountTypeOK
<1>3. 0 \notin tracked[b] \cup leaving[b] /\ PlaceInv(b)
  BY ListFacts DEF SoldInv
<1>4. pc[b] = "publish" => mine[b] # 0
  <2>1. ASSUME pc[b] = "publish" PROVE mine[b] \in DOMAIN accepted /\ accepted \in Seq(Placed)
    BY <2>1 DEF AccountInv, MineInv, AccountTypeOK
  <2> QED
    BY <2>1
<1>5. PlaceInv(b)'
  BY <1>1, <1>2, <1>3, <1>4 DEF PlaceInv, Away, HandExit, PlacedExit, BuysOf, NoSignal
<1> QED
  BY <1>1, <1>2, <1>5, QuietStep

LEMMA CandleSold ==
  ASSUME AccountInv, SoldInv, NEW b \in Bots, NEW hits \in SUBSET tracked[b],
         Candle(b, hits)
  PROVE  SoldInv'
<1>1. /\ UNCHANGED <<accepted, late, signal, mine>>
      /\ pc[b] = "candle" /\ pc' = [pc EXCEPT ![b] = "exits"]
      /\ tracked' = [tracked EXCEPT ![b] = @ \ hits]
      /\ leaving' = [leaving EXCEPT ![b] = hits]
  BY DEF Candle, sharedVars
<1>2. /\ pc'[b] = "exits" /\ tracked'[b] = tracked[b] \ hits /\ leaving'[b] = hits
      /\ \A c \in Bots \ {b} : /\ pc'[c] = pc[c]
                              /\ tracked'[c] = tracked[c] /\ leaving'[c] = leaving[c]
  BY <1>1 DEF AccountInv, AccountTypeOK
<1>3. PlaceInv(b)'
  BY <1>1, <1>2 DEF SoldInv, PlaceInv, Away, HandExit, PlacedExit, BuysOf
<1> QED
  BY <1>1, <1>2, <1>3, QuietStep

LEMMA TakeExitSold ==
  ASSUME AccountInv, SoldInv, NEW b \in Bots, NEW o \in leaving[b],
         NEW price \in Levels, TakeExit(b, o, price)
  PROVE  SoldInv'
<1>1. /\ UNCHANGED <<accepted, late, mine, tracked>>
      /\ pc[b] = "exits" /\ pc' = [pc EXCEPT ![b] = "check"]
      /\ leaving' = [leaving EXCEPT ![b] = @ \ {o}]
      /\ signal' = [signal EXCEPT ![b] = [side |-> "sell", price |-> price,
                                          size |-> accepted[o].sig.size, exitOf |-> o]]
  BY DEF TakeExit, sharedVars
<1>2. /\ pc'[b] = "check" /\ leaving'[b] = leaving[b] \ {o} /\ signal'[b].exitOf = o
      /\ \A c \in Bots \ {b} : /\ pc'[c] = pc[c] /\ leaving'[c] = leaving[c]
                              /\ signal'[c] = signal[c]
  BY <1>1 DEF AccountInv, AccountTypeOK
<1>3. o \in BuysOf(b) /\ PlaceInv(b) /\ o \notin tracked[b] /\ ~Away(b, o)
  BY ListFacts DEF SoldInv, PlaceInv
<1>4. HandExit(b)' = o /\ HandExit(b) = 0
  BY <1>1, <1>2 DEF HandExit
<1>5. /\ \A x : PlacedExit(b, x)' <=> PlacedExit(b, x)
      /\ BuysOf(b)' = BuysOf(b)
  BY <1>1 DEF PlacedExit, BuysOf
<1>6. /\ o # late[b].exitOf /\ ~PlacedExit(b, o)
      /\ \A x : Away(b, x)' => Away(b, x) \/ x = o
  BY <1>1, <1>3, <1>4, <1>5 DEF Away
<1>7. PlaceInv(b)'
  BY <1>1, <1>2, <1>3, <1>4, <1>5, <1>6 DEF PlaceInv
<1> QED
  BY <1>1, <1>2, <1>7, QuietStep

LEMMA EntrySold ==
  ASSUME AccountInv, SoldInv, NEW b \in Bots, NEW s \in Signals, Entry(b, s)
  PROVE  SoldInv'
<1>1. /\ UNCHANGED <<accepted, late, mine, tracked, leaving>>
      /\ pc[b] = "exits" /\ pc' = [pc EXCEPT ![b] = "check"]
      /\ signal' = [signal EXCEPT ![b] = s] /\ s.exitOf = 0
  BY DEF Entry, sharedVars, positionVars
<1>2. /\ pc'[b] = "check" /\ signal'[b] = s
      /\ \A c \in Bots \ {b} : pc'[c] = pc[c] /\ signal'[c] = signal[c]
  BY <1>1 DEF AccountInv, AccountTypeOK
<1>3. HandExit(b)' = HandExit(b)
  BY <1>1, <1>2 DEF HandExit
<1>4. PlaceInv(b)'
  BY <1>1, <1>2, <1>3 DEF SoldInv, PlaceInv, Away, PlacedExit, BuysOf
<1> QED
  BY <1>1, <1>2, <1>4, QuietStep

LEMMA NoEntrySold ==
  ASSUME AccountInv, SoldInv, NEW b \in Bots, NoEntry(b) PROVE SoldInv'
<1>1. /\ UNCHANGED <<accepted, late, mine, tracked, leaving, signal>>
      /\ pc[b] = "exits" /\ pc' = [pc EXCEPT ![b] = "candle"]
  BY DEF NoEntry, sharedVars, positionVars
<1>2. pc'[b] = "candle" /\ \A c \in Bots \ {b} : pc'[c] = pc[c]
  BY <1>1 DEF AccountInv, AccountTypeOK
<1>3. PlaceInv(b)'
  BY <1>1, <1>2 DEF SoldInv, PlaceInv, Away, HandExit, PlacedExit, BuysOf
<1> QED
  BY <1>1, <1>2, <1>3, QuietStep

LEMMA ApproveSold ==
  ASSUME AccountInv, SoldInv, NEW b \in Bots, Approve(b) PROVE SoldInv'
<1>1. /\ UNCHANGED <<accepted, late, mine, tracked, leaving, signal>>
      /\ pc[b] = "check" /\ pc' = [pc EXCEPT ![b] = "order"]
  BY DEF Approve, sharedVars, positionVars
<1>2. pc'[b] = "order" /\ \A c \in Bots \ {b} : pc'[c] = pc[c]
  BY <1>1 DEF AccountInv, AccountTypeOK
<1>3. PlaceInv(b)'
  BY <1>1, <1>2 DEF SoldInv, PlaceInv, Away, HandExit, PlacedExit, BuysOf
<1> QED
  BY <1>1, <1>2, <1>3, QuietStep

\* The exit in hand is dropped, or becomes a request nobody waits for.
LEMMA EndWithoutOrderSold ==
  ASSUME AccountInv, SoldInv, NEW b \in Bots,
         Reject(b) \/ CreateOrderRefused(b) \/ CreateOrderTimesOut(b)
  PROVE  SoldInv'
<1>1. /\ UNCHANGED <<accepted, tracked, leaving>> /\ Return(b)
      /\ pc[b] \in {"check", "order"}
      /\ \/ UNCHANGED late
         \/ late[b].exitOf = 0 /\ late' = [late EXCEPT ![b] = signal[b]]
  BY DEF Reject, CreateOrderRefused, CreateOrderTimesOut, NoneLate, NoSignal,
         sharedVars, positionVars
<1>2. /\ pc'[b] \in {"exits", "candle"}
      /\ \A c \in Bots \ {b} : /\ pc'[c] = pc[c] /\ signal'[c] = signal[c]
                              /\ mine'[c] = mine[c] /\ late'[c] = late[c]
      /\ late'[b] = late[b] \/ (late[b].exitOf = 0 /\ late'[b] = signal[b])
  BY <1>1 DEF AccountInv, AccountTypeOK, Return
<1>3. HandExit(b)' = 0 /\ HandExit(b) = signal[b].exitOf
  BY <1>1, <1>2 DEF HandExit
<1>4. 0 \notin tracked[b] \cup leaving[b] /\ PlaceInv(b)
  BY ListFacts DEF SoldInv
<1>5. /\ \A o : PlacedExit(b, o)' <=> PlacedExit(b, o)
      /\ BuysOf(b)' = BuysOf(b)
  BY <1>1 DEF PlacedExit, BuysOf
<1>6. \A o : Away(b, o)' => Away(b, o) \/ o = 0
  BY <1>2, <1>3, <1>5 DEF Away
<1>7. PlaceInv(b)'
  BY <1>1, <1>2, <1>3, <1>4, <1>5, <1>6 DEF PlaceInv
<1> QED
  BY <1>1, <1>2, <1>7, QuietStep

LEMMA CreateOrderSold ==
  ASSUME AccountInv, SoldInv, NEW b \in Bots, CreateOrder(b) PROVE SoldInv'
<1> DEFINE s == signal[b]
<1>1. /\ s \in Signals /\ Accept(b, s) /\ pc[b] = "order"
      /\ UNCHANGED <<late, tracked, leaving, signal>>
      /\ mine' = [mine EXCEPT ![b] = Len(accepted) + 1]
      /\ pc' = [pc EXCEPT ![b] = "publish"]
  BY DEF AccountInv, AccountTypeOK, CreateOrder, positionVars
<1>2. /\ pc'[b] = "publish" /\ mine'[b] = Len(accepted) + 1
      /\ \A c \in Bots \ {b} : pc'[c] = pc[c] /\ mine'[c] = mine[c]
  BY <1>1 DEF AccountInv, AccountTypeOK
<1>3. HandExit(b)' = 0 /\ HandExit(b) = s.exitOf
  BY <1>1, <1>2 DEF HandExit
<1>4. PlaceInv(b)
  BY DEF SoldInv
<1>5. s.exitOf \in BuysOf(b) \cup {0} /\ (s.exitOf # 0 => ~PlacedExit(b, s.exitOf))
  BY <1>3, <1>4 DEF PlaceInv
<1>6. /\ BuysOf(b) \subseteq BuysOf(b)'
      /\ \A o : PlacedExit(b, o)' <=> PlacedExit(b, o) \/ o = s.exitOf
  BY <1>1, <1>5, AcceptSold
<1>7. \A o : Away(b, o)' => Away(b, o) \/ o = 0
  BY <1>1, <1>3, <1>6 DEF Away
<1>8. /\ tracked[b] \subseteq BuysOf(b) /\ leaving[b] \subseteq BuysOf(b)
      /\ 0 \notin BuysOf(b) /\ BuysOf(b) \subseteq 1..Len(accepted)
      /\ Len(accepted) \in Nat
  BY ListFacts
<1>9. \A o : Away(b, o) => o \in BuysOf(b) \cup {0}
  BY <1>4 DEF PlaceInv, Away
<1>10. /\ Len(accepted) + 1 \notin BuysOf(b) \cup {0}
       /\ Len(accepted) + 1 \notin tracked[b] \cup leaving[b]
  BY <1>8
<1>11. late[b].exitOf # 0 => ~PlacedExit(b, late[b].exitOf)'
  <2>1. late[b].exitOf # 0 => late[b].exitOf # s.exitOf /\ ~PlacedExit(b, late[b].exitOf)
    BY <1>3, <1>4 DEF PlaceInv
  <2> QED
    BY <1>1, <1>6, <2>1 DEF PlacedExit
<1>12. PlaceInv(b)'
  <2>1. /\ HandExit(b)' \in BuysOf(b)' \cup {0}
        /\ late'[b].exitOf \in BuysOf(b)' \cup {0}
        /\ \A o : PlacedExit(b, o)' => o \in BuysOf(b)' \cup {0}
    BY <1>1, <1>3, <1>4, <1>5, <1>6 DEF PlaceInv
  <2>2. /\ tracked'[b] \cap leaving'[b] = {}
        /\ \A o \in tracked'[b] \cup leaving'[b] : ~Away(b, o)'
    BY <1>1, <1>4, <1>7, <1>8 DEF PlaceInv
  <2>3. /\ mine'[b] \notin tracked'[b] \cup leaving'[b]
        /\ ~Away(b, mine[b])'
    <3>1. ~Away(b, Len(accepted) + 1) /\ Len(accepted) + 1 # 0
      BY <1>9, <1>10
    <3>2. ~Away(b, mine[b])'
      <4>1. ASSUME Away(b, mine[b])' PROVE FALSE
        BY <1>2, <1>6, <1>3, <1>1, <3>1, <4>1 DEF Away
      <4> QED
        BY <4>1
    <3> QED
      BY <1>1, <1>2, <1>10, <3>2
  <2> QED
    BY <1>1, <1>3, <1>11, <2>1, <2>2, <2>3 DEF PlaceInv
<1> QED
  BY <1>1, <1>2, <1>5, <1>12, OrderStep

LEMMA TrackSold ==
  ASSUME AccountInv, SoldInv, NEW b \in Bots, Track(b) PROVE SoldInv'
<1>1. /\ UNCHANGED <<accepted, leaving, late>> /\ Return(b) /\ pc[b] = "publish"
      /\ tracked' = [tracked EXCEPT ![b] = @ \cup {mine[b]}] \/ tracked' = tracked
  BY DEF Track, sharedVars
<1>2. /\ pc'[b] \in {"exits", "candle"}
      /\ tracked'[b] \subseteq tracked[b] \cup {mine[b]}
      /\ \A c \in Bots \ {b} : /\ pc'[c] = pc[c] /\ signal'[c] = signal[c]
                              /\ mine'[c] = mine[c] /\ tracked'[c] = tracked[c]
  BY <1>1 DEF AccountInv, AccountTypeOK, Return
<1>3. HandExit(b)' = 0 /\ HandExit(b) = 0
  BY <1>1, <1>2 DEF HandExit
<1>4. PlaceInv(b)'
  BY <1>1, <1>2, <1>3 DEF SoldInv, PlaceInv, Away, PlacedExit, BuysOf
<1> QED
  BY <1>1, <1>2, <1>4, QuietStep

LEMMA RestartSold ==
  ASSUME AccountInv, SoldInv, NEW b \in Bots, Restart(b) PROVE SoldInv'
<1>1. /\ UNCHANGED accepted
      /\ pc' = [pc EXCEPT ![b] = "candle"] /\ signal' = [signal EXCEPT ![b] = NoSignal]
      /\ mine' = [mine EXCEPT ![b] = 0]
      /\ tracked' = [tracked EXCEPT ![b] = {}] /\ leaving' = [leaving EXCEPT ![b] = {}]
      /\ \/ UNCHANGED late
         \/ pc[b] = "order" /\ late' = [late EXCEPT ![b] = signal[b]]
  BY DEF Restart
<1>2. /\ pc'[b] = "candle" /\ tracked'[b] = {} /\ leaving'[b] = {}
      /\ late'[b] = late[b] \/ (pc[b] = "order" /\ late'[b] = signal[b])
      /\ \A c \in Bots \ {b} : /\ pc'[c] = pc[c] /\ signal'[c] = signal[c]
                              /\ mine'[c] = mine[c] /\ late'[c] = late[c]
                              /\ tracked'[c] = tracked[c] /\ leaving'[c] = leaving[c]
  BY <1>1 DEF AccountInv, AccountTypeOK
<1>3. HandExit(b)' = 0 /\ (pc[b] = "order" => HandExit(b) = signal[b].exitOf)
  BY <1>2 DEF HandExit
<1>4. PlaceInv(b)'
  BY <1>1, <1>2, <1>3 DEF SoldInv, PlaceInv, PlacedExit, BuysOf
<1> QED
  BY <1>1, <1>2, <1>4, QuietStep

LEMMA StutterSold == SoldInv /\ UNCHANGED accountVars => SoldInv'
BY DEF SoldInv, SoldOnce, PlaceInv, Away, HandExit, PlacedExit, BuysOf, accountVars,
       sharedVars, positionVars

LEMMA RunnerSold ==
  ASSUME AccountInv, SoldInv, NEW b \in Bots, Runner(b) PROVE SoldInv'
<1>1. ASSUME NEW hits \in SUBSET tracked[b], Candle(b, hits) PROVE SoldInv'
  BY <1>1, CandleSold
<1>2. ASSUME NEW o \in leaving[b], NEW price \in Levels, TakeExit(b, o, price)
      PROVE  SoldInv'
  BY <1>2, TakeExitSold
<1>3. ASSUME NEW side \in {"buy", "sell"}, NEW size \in Sizes, NEW price \in Levels,
             Entry(b, [side |-> side, size |-> size, price |-> price, exitOf |-> 0])
      PROVE  SoldInv'
  <2>1. [side |-> side, size |-> size, price |-> price, exitOf |-> 0] \in Signals
    BY DEF Signals
  <2> QED
    BY <1>3, <2>1, EntrySold
<1>4. CASE NoEntry(b)
  BY <1>4, NoEntrySold
<1>5. CASE Approve(b)
  BY <1>5, ApproveSold
<1>6. CASE Reject(b) \/ CreateOrderRefused(b) \/ CreateOrderTimesOut(b)
  BY <1>6, EndWithoutOrderSold
<1>7. CASE CreateOrder(b)
  BY <1>7, CreateOrderSold
<1>8. CASE Track(b)
  BY <1>8, TrackSold
<1>9. CASE Restart(b)
  BY <1>9, RestartSold
<1> QED
  BY <1>1, <1>2, <1>3, <1>4, <1>5, <1>6, <1>7, <1>8, <1>9 DEF Runner

\* However exits fail, time out, arrive late or are forgotten in a restart: two
\* exit orders are never for the same position.
THEOREM PositionsSoldOnce == AccountSpec => []SoldOnce
<1>1. AccountInv /\ SoldInv /\ [AccountNext]_accountVars => SoldInv'
  <2> SUFFICES ASSUME AccountInv, SoldInv, [AccountNext]_accountVars PROVE SoldInv'
    OBVIOUS
  <2>1. ASSUME NEW b \in Bots, Runner(b) PROVE SoldInv'
    BY <2>1, RunnerSold
  <2>2. ASSUME NEW b \in Bots, LateArrives(b) PROVE SoldInv'
    BY <2>2, LateArrivesSold
  <2>3. ASSUME NEW b \in Bots, LateLost(b) PROVE SoldInv'
    BY <2>3, LateLostSold
  <2>4. ASSUME NEW i \in DOMAIN accepted, FillOrder(i) PROVE SoldInv'
    BY <2>4, FillSold
  <2>5. CASE UNCHANGED accountVars
    BY <2>5, StutterSold
  <2> QED
    BY <2>1, <2>2, <2>3, <2>4, <2>5 DEF AccountNext
<1>2. SoldInv => SoldOnce
  BY DEF SoldInv
<1> QED
  BY SoldInit, InvHolds, <1>1, <1>2, PTL DEF AccountSpec
=============================================================================
