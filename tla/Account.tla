------------------------------- MODULE Account -------------------------------
(***************************************************************************)
(* Several bots on one credential: their StrategyRunners, each with its    *)
(* PositionManager, RiskManager and OrderExecutor, and the exchange        *)
(* account they share.  RiskManager.check and create_order are two awaits, *)
(* and between them the other bots go on.                                  *)
(*                                                                         *)
(* The exchange is external: it reserves what a resting LIMIT order needs, *)
(* refuses an order it cannot reserve for, and fills an order whole, at    *)
(* its price, at any time.  All bots trade one symbol, prices and sizes    *)
(* are multiples of its steps, fees are left out.  What StrategyRunner has *)
(* already (failing calls, events, stop and take levels) is left out, but  *)
(* for what it does to the account.                                        *)
(***************************************************************************)
EXTENDS Integers, Sequences

CONSTANTS
    Bots,
    Levels, Sizes,          \* of limit orders
    StartQuote, StartBase,  \* what the account holds at first
    CapNum, CapDen,         \* max_position_pct
    MaxOrders               \* bound: orders that reach the exchange

ASSUME AccountAssumption ==
    /\ Levels \subseteq Nat \ {0} /\ Sizes \subseteq Nat \ {0}
    /\ StartQuote \in Nat /\ StartBase \in Nat
    /\ CapNum \in Nat \ {0} /\ CapDen \in Nat \ {0}
    /\ MaxOrders \in Nat

VARIABLES
    quoteFree, quoteUsed, baseFree, baseUsed,  \* the balances
    accepted,  \* orders the exchange has accepted, in order,
    filled,    \* and those it has filled
    late,      \* of each bot a request nobody waits for any more
    pc,        \* where the runner of each bot is,
    signal,    \* the signal it has in hand,
    mine,      \* and the order that became of it
    tracked,   \* PositionManager._positions, by the number of the BUY
    leaving,   \* positions check_exits gave up, whose exits are still to come
    asOf       \* ghost: orders and fills when the check read the balances

balanceVars == <<quoteFree, quoteUsed, baseFree, baseUsed>>
sharedVars == <<balanceVars, accepted, filled, late>>
positionVars == <<tracked, leaving>>
accountVars == <<sharedVars, positionVars, pc, signal, mine, asOf>>

Signals == [side : {"buy", "sell"}, size : Sizes, price : Levels, exitOf : Nat]
NoSignal == [side |-> "none", size |-> 0, price |-> 0, exitOf |-> 0]
Unasked == [accepted |-> 0, filled |-> {}]
Placed == [bot : Bots, sig : Signals]

BuysOf(b) == {i \in DOMAIN accepted : accepted[i].bot = b /\ accepted[i].sig.side = "buy"}

AccountTypeOK ==
    /\ quoteFree \in Nat /\ baseFree \in Nat
    /\ quoteUsed \in Int /\ baseUsed \in Int
    /\ accepted \in Seq(Placed)
    /\ filled \subseteq DOMAIN accepted
    /\ late \in [Bots -> Signals \cup {NoSignal}]
    /\ pc \in [Bots -> {"candle", "exits", "check", "order", "publish"}]
    /\ signal \in [Bots -> Signals \cup {NoSignal}]
    /\ mine \in [Bots -> Nat]
    /\ tracked \in [Bots -> SUBSET Nat] /\ leaving \in [Bots -> SUBSET Nat]
    /\ asOf \in [Bots -> [accepted : Nat, filled : SUBSET Nat]]
    /\ \A b \in Bots :
          /\ tracked[b] \subseteq BuysOf(b) /\ leaving[b] \subseteq BuysOf(b)
          /\ pc[b] \in {"check", "order", "publish"} => signal[b] \in Signals

AccountInit ==
    /\ quoteFree = StartQuote /\ quoteUsed = 0
    /\ baseFree = StartBase /\ baseUsed = 0
    /\ accepted = <<>> /\ filled = {}
    /\ late = [b \in Bots |-> NoSignal]
    /\ pc = [b \in Bots |-> "candle"]
    /\ signal = [b \in Bots |-> NoSignal]
    /\ mine = [b \in Bots |-> 0]
    /\ tracked = [b \in Bots |-> {}] /\ leaving = [b \in Bots |-> {}]
    /\ asOf = [b \in Bots |-> Unasked]

-----------------------------------------------------------------------------
(* The exchange *)

Cost(s) == s.size * s.price

\* There is free money, or base, for the order of this signal: RiskManager asks
\* it of the balances it has read, the exchange when the order arrives.
Funded(s) == IF s.side = "buy" THEN Cost(s) <= quoteFree
                                ELSE s.size <= baseFree

\* The order is accepted and rests; what it needs is reserved.
Accept(b, s) ==
    /\ Funded(s) /\ Len(accepted) < MaxOrders
    /\ accepted' = Append(accepted, [bot |-> b, sig |-> s])
    /\ IF s.side = "buy"
       THEN /\ quoteFree' = quoteFree - Cost(s)
            /\ quoteUsed' = quoteUsed + Cost(s)
            /\ UNCHANGED <<baseFree, baseUsed>>
       ELSE /\ baseFree' = baseFree - s.size
            /\ baseUsed' = baseUsed + s.size
            /\ UNCHANGED <<quoteFree, quoteUsed>>
    /\ UNCHANGED filled

FillOrder(i) ==
    /\ i \notin filled
    /\ filled' = filled \cup {i}
    /\ LET s == accepted[i].sig
       IN IF s.side = "buy"
          THEN /\ quoteUsed' = quoteUsed - Cost(s)
               /\ baseFree' = baseFree + s.size
               /\ UNCHANGED <<quoteFree, baseUsed>>
          ELSE /\ baseUsed' = baseUsed - s.size
               /\ quoteFree' = quoteFree + Cost(s)
               /\ UNCHANGED <<quoteUsed, baseFree>>
    /\ UNCHANGED <<accepted, late, positionVars, pc, signal, mine, asOf>>

NoneLate == \A b \in Bots : late[b] = NoSignal  \* bound

\* A request whose sender has given up reaches the exchange after all.
LateArrives(b) ==
    /\ late[b] # NoSignal
    /\ Accept(b, late[b])
    /\ late' = [late EXCEPT ![b] = NoSignal]
    /\ UNCHANGED <<positionVars, pc, signal, mine, asOf>>

\* It never does, or is refused.
LateLost(b) ==
    /\ late[b] # NoSignal
    /\ late' = [late EXCEPT ![b] = NoSignal]
    /\ UNCHANGED <<balanceVars, accepted, filled, positionVars, pc, signal, mine, asOf>>

-----------------------------------------------------------------------------
(* A candle, its exits and its signal *)

\* Seeded fault: the positions stay on the list until their exits are done.
CandleKeeping(b, hits) ==
    /\ pc[b] = "candle"
    /\ leaving' = [leaving EXCEPT ![b] = hits]
    /\ pc' = [pc EXCEPT ![b] = "exits"]
    /\ UNCHANGED <<sharedVars, tracked, signal, mine, asOf>>

\* check_exits gives up the positions whose levels the candle has hit.
Candle(b, hits) ==
    /\ pc[b] = "candle"
    /\ tracked' = [tracked EXCEPT ![b] = @ \ hits]
    /\ leaving' = [leaving EXCEPT ![b] = hits]
    /\ pc' = [pc EXCEPT ![b] = "exits"]
    /\ UNCHANGED <<sharedVars, signal, mine, asOf>>

\* The oldest exit, of the size of its position, at its stop or take level.
TakeExit(b, o, price) ==
    /\ pc[b] = "exits" /\ \A q \in leaving[b] : o <= q
    /\ leaving' = [leaving EXCEPT ![b] = @ \ {o}]
    /\ signal' = [signal EXCEPT ![b] = [side |-> "sell", price |-> price,
                                        size |-> accepted[o].sig.size, exitOf |-> o]]
    /\ pc' = [pc EXCEPT ![b] = "check"]
    /\ UNCHANGED <<sharedVars, tracked, mine, asOf>>

Entry(b, s) ==
    /\ pc[b] = "exits" /\ leaving[b] = {} /\ s.exitOf = 0
    /\ signal' = [signal EXCEPT ![b] = s]
    /\ pc' = [pc EXCEPT ![b] = "check"]
    /\ UNCHANGED <<sharedVars, positionVars, mine, asOf>>

NoEntry(b) ==
    /\ pc[b] = "exits" /\ leaving[b] = {}
    /\ pc' = [pc EXCEPT ![b] = "candle"]
    /\ UNCHANGED <<sharedVars, positionVars, signal, mine, asOf>>

-----------------------------------------------------------------------------
(* _execute_signal *)

\* As get_balance reports it.
QuoteTotal == quoteFree + quoteUsed

\* _to_balances leaves out a currency of which there is nothing, and without a
\* quote balance check knows no cap.
Capped(s) == QuoteTotal = 0 \/ Cost(s) * CapDen <= QuoteTotal * CapNum

\* Seeded fault: what is reserved for other orders is counted as well.
PassesOnTotal(s) ==
    /\ IF s.side = "buy" THEN Cost(s) <= QuoteTotal
                         ELSE s.size <= baseFree + baseUsed
    /\ Capped(s)

\* What RiskManager.check asks of the balances.
Passes(s) == Funded(s) /\ Capped(s)

\* _execute_signal is over: the runner goes on with the exits, or the candles.
Return(b) ==
    /\ pc' = [pc EXCEPT ![b] = IF signal[b].exitOf # 0 THEN "exits" ELSE "candle"]
    /\ signal' = [signal EXCEPT ![b] = NoSignal]
    /\ mine' = [mine EXCEPT ![b] = 0]
    /\ asOf' = [asOf EXCEPT ![b] = Unasked]

Approve(b) ==
    /\ pc[b] = "check" /\ Passes(signal[b])
    /\ asOf' = [asOf EXCEPT ![b] = [accepted |-> Len(accepted), filled |-> filled]]
    /\ pc' = [pc EXCEPT ![b] = "order"]
    /\ UNCHANGED <<sharedVars, positionVars, signal, mine>>

\* RiskRejectedError: the signal is gone, and with it the exit of a position.
Reject(b) ==
    /\ pc[b] = "check" /\ ~Passes(signal[b])
    /\ Return(b)
    /\ UNCHANGED <<sharedVars, positionVars>>

CreateOrder(b) ==
    /\ pc[b] = "order"
    /\ Accept(b, signal[b])
    /\ mine' = [mine EXCEPT ![b] = Len(accepted) + 1]
    /\ pc' = [pc EXCEPT ![b] = "publish"]
    /\ UNCHANGED <<late, positionVars, signal, asOf>>

\* The exchange refuses: OrderExecutionError.
CreateOrderRefused(b) ==
    /\ pc[b] = "order" /\ ~Funded(signal[b])
    /\ Return(b)
    /\ UNCHANGED <<sharedVars, positionVars>>

\* No answer: OrderExecutionError too, while the request may still arrive.
CreateOrderTimesOut(b) ==
    /\ pc[b] = "order" /\ NoneLate
    /\ late' = [late EXCEPT ![b] = signal[b]]
    /\ Return(b)
    /\ UNCHANGED <<balanceVars, accepted, filled, positionVars>>

\* The order has been announced; that of a BUY is tracked.
Track(b) ==
    /\ pc[b] = "publish"
    /\ IF signal[b].side = "buy"
       THEN tracked' = [tracked EXCEPT ![b] = @ \cup {mine[b]}]
       ELSE UNCHANGED tracked
    /\ Return(b)
    /\ UNCHANGED <<sharedVars, leaving>>

\* The runner is cancelled wherever it is, and a new one starts: its
\* PositionManager is empty, because reconcile() is given no position of a
\* spot symbol.  A request that was under way may still arrive.
Restart(b) ==
    /\ pc' = [pc EXCEPT ![b] = "candle"]
    /\ signal' = [signal EXCEPT ![b] = NoSignal]
    /\ mine' = [mine EXCEPT ![b] = 0]
    /\ asOf' = [asOf EXCEPT ![b] = Unasked]
    /\ tracked' = [tracked EXCEPT ![b] = {}]
    /\ leaving' = [leaving EXCEPT ![b] = {}]
    /\ \/ UNCHANGED late
       \/ /\ pc[b] = "order" /\ NoneLate
          /\ late' = [late EXCEPT ![b] = signal[b]]
    /\ UNCHANGED <<balanceVars, accepted, filled>>

-----------------------------------------------------------------------------

Runner(b) ==
    \/ \E hits \in SUBSET tracked[b] : Candle(b, hits)
    \/ \E o \in leaving[b], price \in Levels : TakeExit(b, o, price)
    \/ \E side \in {"buy", "sell"}, size \in Sizes, price \in Levels :
           Entry(b, [side |-> side, size |-> size, price |-> price, exitOf |-> 0])
    \/ NoEntry(b)
    \/ Approve(b) \/ Reject(b)
    \/ CreateOrder(b) \/ CreateOrderRefused(b) \/ CreateOrderTimesOut(b)
    \/ Track(b)
    \/ Restart(b)

AccountNext ==
    \/ \E b \in Bots : Runner(b) \/ LateArrives(b) \/ LateLost(b)
    \/ \E i \in DOMAIN accepted : FillOrder(i)

AccountSpec == AccountInit /\ [][AccountNext]_accountVars

-----------------------------------------------------------------------------
(* What must hold *)

\* The exchange refuses an order that passed RiskManager only if another order
\* was accepted in between, from another bot or from an earlier request of this
\* one: no fill, and nothing the runner does by itself, spoils an approval.
RefusedOnlyByRace ==
    \A b \in Bots :
        pc[b] = "order" /\ ~Funded(signal[b]) => Len(accepted) > asOf[b].accepted

\* An order goes out above max_position_pct only if one was filled after its
\* check: resting orders, whoever placed them, do not move the cap.
CapBrokenOnlyByFill ==
    \A b \in Bots :
        pc[b] = "order" /\ ~Capped(signal[b]) => filled # asOf[b].filled

\* A signal that RiskManager let through may be ordered, however long the other
\* bots keep the runner from it -- unless, of what they do, it is an order that
\* takes the funds, or a fill that moves the cap.
ApprovalsHold == RefusedOnlyByRace /\ CapBrokenOnlyByFill

\* No position is sold twice by its stop: not by a request of the last exit that
\* arrives late, nor by the new PositionManager of a restarted bot.
SoldOnce ==
    \A i, j \in DOMAIN accepted :
        accepted[i].sig.exitOf = accepted[j].sig.exitOf
            => i = j \/ accepted[i].sig.exitOf = 0
=============================================================================
