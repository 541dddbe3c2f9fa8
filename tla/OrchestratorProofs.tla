-------------------------- MODULE OrchestratorProofs --------------------------
(***************************************************************************)
(* Proofs about Orchestrator: whatever calls race and wherever a start     *)
(* fails, a bot has one runner, that runner can be reached by a stop, its  *)
(* adapter is open while it trades, and after a shutdown nothing is left.  *)
(*                                                                         *)
(* The inductive invariant follows the calls.  IdsInv: a call number is    *)
(* used for one adapter and one task.  HandInv: what a caller that holds   *)
(* the lock has in hand.  TableInv: what _running knows.  ClosingInv: what *)
(* is left once shutdown was called.                                       *)
(***************************************************************************)
EXTENDS Orchestrator, TLAPS

Starting == {"load", "warmup", "skipped", "reconcile", "announce", "failed"}
Stopping == {"join", "close"}

\* The number of a call is nobody else's, and nothing was made with it before
\* the call's start got that far.
IdsInv ==
    /\ \A p \in Callers : Busy(p) => id[p] # 0
    /\ \A p, q \in Callers : id[p] # 0 /\ id[p] = id[q] => p = q
    /\ \A p \in Callers :
          (starts[p] # {} /\ pc[p] \in {"unlocked", "load", "join", "close"}) =>
              adapter[id[p]] = "none" /\ task[id[p]] = "none"
    /\ \A i \in Ids : i > calls => adapter[i] = "none" /\ task[i] = "none"

\* Where a caller is under the lock tells what it holds.
HandInv ==
    \A p \in Callers :
        /\ pc[p] \in {"unlocked", "load"} => inst[p] = 0
        /\ pc[p] \in Starting => stops[p] = {} /\ starts[p] # {}
        /\ pc[p] \in Stopping =>
              /\ bot[p] \in stops[p] /\ inst[p] # 0
              /\ botOf[inst[p]] = bot[p] /\ running[bot[p]] = 0
              /\ adapter[inst[p]] = "open"
        /\ pc[p] = "join" => task[inst[p]] \in {"cancelling", "done"}
        /\ pc[p] = "close" => task[inst[p]] = "done"
        /\ pc[p] \in {"load", "warmup", "skipped", "reconcile"} =>
              running[bot[p]] = 0
        /\ pc[p] \in {"warmup", "skipped", "reconcile"} =>
              /\ inst[p] = id[p] /\ botOf[inst[p]] = bot[p]
              /\ adapter[inst[p]] = "open" /\ task[inst[p]] = "none"
        /\ pc[p] = "announce" => inst[p] # 0 /\ running[botOf[inst[p]]] = inst[p]
        /\ (pc[p] = "failed" /\ inst[p] # 0) =>
              \/ task[inst[p]] = "none"
              \/ running[botOf[inst[p]]] = inst[p]

TableInv ==
    /\ \A b \in Bots : running[b] # 0 =>
          /\ botOf[running[b]] = b
          /\ task[running[b]] \in {"alive", "done"}
          /\ adapter[running[b]] = "open"
    /\ \A i \in Ids : task[i] # "none" => adapter[i] # "none"
    /\ EveryRunnerOwned
    /\ LaunchedAdaptersOwned

ClosingInv ==
    closing => /\ \A p \in Callers : starts[p] = {}
               /\ \A b \in Running : \E p \in Callers : b \in stops[p]

OwnInv == TypeOK /\ IdsInv /\ HandInv /\ TableInv /\ ClosingInv

-----------------------------------------------------------------------------
(* Types and the lock *)

Typed ==
    /\ calls \in 0..MaxCalls
    /\ closing \in BOOLEAN
    /\ id \in [Callers -> 0..calls]
    /\ stops \in [Callers -> SUBSET Bots]
    /\ starts \in [Callers -> SUBSET Bots]
    /\ pc \in [Callers -> Locations]
    /\ bot \in [Callers -> Bots]
    /\ inst \in [Callers -> 0..calls]
    /\ running \in [Bots -> 0..calls]
    /\ adapter \in [Ids -> {"none", "open", "closed"}]
    /\ task \in [Ids -> {"none", "alive", "cancelling", "done"}]
    /\ botOf \in [Ids -> Bots]

LEMMA TypedInit == Init => Typed
<1> SUFFICES ASSUME Init PROVE Typed
  OBVIOUS
<1>1. calls \in 0..MaxCalls
  BY MaxCallsAssumption DEF Init
<1>2. id \in [Callers -> 0..calls] /\ inst \in [Callers -> 0..calls]
  BY DEF Init
<1>3. stops \in [Callers -> SUBSET Bots] /\ starts \in [Callers -> SUBSET Bots]
  BY DEF Init
<1>4. pc \in [Callers -> Locations] /\ bot \in [Callers -> Bots]
  BY DEF Init, Locations
<1>5. running \in [Bots -> 0..calls] /\ botOf \in [Ids -> Bots]
  BY DEF Init
<1>6. adapter \in [Ids -> {"none", "open", "closed"}]
  BY DEF Init
<1>7. task \in [Ids -> {"none", "alive", "cancelling", "done"}]
  BY DEF Init
<1>8. closing \in BOOLEAN
  BY DEF Init
<1> QED
  BY <1>1, <1>2, <1>3, <1>4, <1>5, <1>6, <1>7, <1>8 DEF Typed

LEMMA TypedCall ==
  ASSUME Typed, NEW p \in Callers, Calling(p)
  PROVE  Typed'
<1> DEFINE One(S, T) == S \in SUBSET Bots /\ T \in SUBSET Bots
                        /\ Call(p, S, T) /\ closing' \in BOOLEAN
<1>1. \E S, T : One(S, T)
  <2>1. ASSUME NEW b \in Bots, StartStrategy(p, b) PROVE One({}, {b})
    BY <2>1 DEF StartStrategy, Typed
  <2>2. ASSUME NEW b \in Bots, StopStrategy(p, b) PROVE One({b}, {})
    BY <2>2 DEF StopStrategy, Typed
  <2>3. ASSUME NEW b \in Bots, UpdateStrategy(p, b) PROVE One({b} \cap Running, {b})
    BY <2>3 DEF UpdateStrategy, Typed
  <2>4. ASSUME Shutdown(p) PROVE One(Running, {})
    BY <2>4 DEF Shutdown, Running
  <2> QED
    BY <2>1, <2>2, <2>3, <2>4 DEF Calling
<1>2. PICK S, T : One(S, T)
  BY <1>1
<1>3. /\ calls' = calls + 1 /\ calls' \in 0..MaxCalls
      /\ calls' \in 0..calls' /\ 0..calls \subseteq 0..calls'
  BY <1>2, MaxCallsAssumption DEF Call, Typed
<1>4. id' \in [Callers -> 0..calls'] /\ inst' \in [Callers -> 0..calls']
  BY <1>2, <1>3 DEF Call, Typed
<1>5. running' \in [Bots -> 0..calls']
  BY <1>2, <1>3 DEF Call, Typed
<1>6. stops' \in [Callers -> SUBSET Bots] /\ starts' \in [Callers -> SUBSET Bots]
  BY <1>2 DEF Call, Typed
<1>7. UNCHANGED <<pc, bot, adapter, task, botOf>>
  BY <1>2 DEF Call
<1> QED
  BY <1>2, <1>3, <1>4, <1>5, <1>6, <1>7 DEF Typed

LEMMA TypedEnter ==
  ASSUME Typed, NEW p \in Callers, Enter(p)
  PROVE  Typed'
<1>1. ASSUME NEW b \in Bots, Start(p, b) PROVE Typed'
  BY <1>1 DEF Typed, Start, Goto, Return, Locations, callVars
<1>2. ASSUME NEW b \in Bots, Stop(p, b) PROVE Typed'
  <2>1. /\ UNCHANGED <<calls, closing, id, adapter, botOf>>
        /\ bot' \in [Callers -> Bots] /\ pc' \in [Callers -> Locations]
    BY <1>2 DEF Typed, Stop, Goto, Return, Locations, callVars
  <2>2. stops' \in [Callers -> SUBSET Bots] /\ starts' \in [Callers -> SUBSET Bots]
    BY <1>2 DEF Typed, Stop, Return, callVars
  <2>3. running' \in [Bots -> 0..calls] /\ inst' \in [Callers -> 0..calls]
    BY <1>2 DEF Typed, Stop, Return
  <2>4. task' \in [Ids -> {"none", "alive", "cancelling", "done"}]
    BY <1>2 DEF Typed, Stop
  <2> QED
    BY <2>1, <2>2, <2>3, <2>4 DEF Typed
<1> QED
  BY <1>1, <1>2 DEF Enter

LEMMA TypedStep == Typed /\ [Next]_vars => Typed'
<1> SUFFICES ASSUME Typed, [Next]_vars PROVE Typed'
  OBVIOUS
<1>1. ASSUME NEW p \in Callers, Load(p) \/ LoadFails(p) PROVE Typed'
  BY <1>1 DEF Typed, Load, LoadFails, Goto, Locations, callVars
<1>2. ASSUME NEW p \in Callers, Warmup(p) \/ AnnounceSkipped(p) PROVE Typed'
  BY <1>2 DEF Typed, Warmup, AnnounceSkipped, Goto, Locations, callVars
<1>3. ASSUME NEW p \in Callers, Launch(p) PROVE Typed'
  BY <1>3 DEF Typed, Launch, Goto, Locations, callVars
<1>4. ASSUME NEW p \in Callers, Announce(p) \/ AnnounceFails(p) \/ Fail(p) PROVE Typed'
  BY <1>4 DEF Typed, Announce, AnnounceFails, Fail, Goto, Return, Locations, callVars
<1>5. ASSUME NEW p \in Callers, Join(p) \/ Close(p) PROVE Typed'
  BY <1>5 DEF Typed, Join, Close, Goto, Return, Locations, callVars
<1>6. ASSUME NEW i \in Ids, RunnerEnds(i) \/ RunnerCancelled(i) PROVE Typed'
  BY <1>6 DEF Typed, RunnerEnds, RunnerCancelled, callVars
<1>7. CASE UNCHANGED vars
  BY <1>7 DEF Typed, vars, callVars
<1> QED
  BY <1>1, <1>2, <1>3, <1>4, <1>5, <1>6, <1>7, TypedCall, TypedEnter DEF Next, UnderLock

\* Only Start and Stop take the lock, and only when nobody has it.
LEMMA OneHolderStep == Typed /\ OneHolder /\ [Next]_vars => OneHolder'
<1> SUFFICES ASSUME Typed, OneHolder, [Next]_vars PROVE OneHolder'
  OBVIOUS
<1> USE DEF Typed, OneHolder
<1>1. ASSUME NEW p \in Callers, Calling(p) PROVE OneHolder'
  BY <1>1 DEF Calling, StartStrategy, StopStrategy, UpdateStrategy, Shutdown, Call
<1>2. ASSUME NEW p \in Callers, Enter(p) PROVE OneHolder'
  <2>1. Unlocked /\ \A q \in Callers : q # p => pc'[q] = pc[q]
    BY <1>2 DEF Enter, Start, Stop, Goto, Return
  <2> QED
    BY <2>1 DEF Unlocked
<1>3. ASSUME NEW p \in Callers, UnderLock(p) PROVE OneHolder'
  <2>1. pc[p] # "unlocked" /\ \A q \in Callers : q # p => pc'[q] = pc[q]
    BY <1>3 DEF UnderLock, Load, LoadFails, Warmup, AnnounceSkipped, Launch, Announce,
       AnnounceFails, Fail, Join, Close, Goto, Return
  <2> QED
    BY <2>1
<1>4. ASSUME NEW i \in Ids, RunnerEnds(i) \/ RunnerCancelled(i) PROVE OneHolder'
  BY <1>4 DEF RunnerEnds, RunnerCancelled
<1>5. CASE UNCHANGED vars
  BY <1>5 DEF vars
<1> QED
  BY <1>1, <1>2, <1>3, <1>4, <1>5 DEF Next

LEMMA TypeOKParts == TypeOK <=> Typed /\ OneHolder
BY DEF TypeOK, Typed

\* Every reachable state is well typed, and one caller at most is under the lock.
THEOREM TypeCorrect == Spec => []TypeOK
<1>1. Init => TypeOK
  BY TypedInit, TypeOKParts DEF Init, OneHolder
<1>2. TypeOK /\ [Next]_vars => TypeOK'
  <2>1. TypeOK' <=> Typed' /\ OneHolder'
    BY DEF TypeOK, Typed
  <2> QED
    BY <2>1, TypedStep, OneHolderStep, TypeOKParts
<1> QED
  BY <1>1, <1>2, PTL DEF Spec

-----------------------------------------------------------------------------
(* Call numbers *)

LEMMA IdsAreCalls ==
  ASSUME Typed
  PROVE  /\ 0 \notin Ids /\ calls + 1 > calls
         /\ \A i \in 0..calls : i # 0 => i \in Ids
         /\ \A b \in Bots : running[b] # 0 => running[b] \in Ids
         /\ \A p \in Callers : inst[p] # 0 => inst[p] \in Ids
         /\ \A p \in Callers : id[p] # 0 => id[p] \in Ids
BY MaxCallsAssumption DEF Typed, Ids

\* A step that makes nothing, calls nothing and starts nothing keeps IdsInv.
LEMMA IdsKept ==
  ASSUME Typed, IdsInv, UNCHANGED <<calls, id>>,
         \A q \in Callers :
             /\ stops'[q] \subseteq stops[q] /\ starts'[q] \subseteq starts[q]
             /\ pc'[q] \in {"unlocked", "load", "join", "close"} =>
                    \/ starts'[q] = {}
                    \/ pc[q] \in {"unlocked", "load", "join", "close"},
         \A i \in Ids : adapter[i] = "none" /\ task[i] = "none" =>
                            adapter'[i] = "none" /\ task'[i] = "none"
  PROVE  IdsInv'
<1>1. \A q \in Callers : Busy(q)' => Busy(q)
  BY DEF Busy
<1>2. ASSUME NEW q \in Callers, starts'[q] # {},
             pc'[q] \in {"unlocked", "load", "join", "close"}
      PROVE  adapter'[id[q]] = "none" /\ task'[id[q]] = "none"
  <2>1. Busy(q) /\ id[q] \in Ids
    BY <1>2, IdsAreCalls DEF IdsInv, Busy
  <2>2. adapter[id[q]] = "none" /\ task[id[q]] = "none"
    BY <1>2 DEF IdsInv
  <2> QED
    BY <2>1, <2>2
<1> QED
  BY <1>1, <1>2 DEF IdsInv

LEMMA IdsStep == Typed /\ OneHolder /\ IdsInv /\ HandInv /\ TableInv /\ [Next]_vars => IdsInv'
<1> SUFFICES ASSUME Typed, OneHolder, IdsInv, HandInv, TableInv, [Next]_vars
             PROVE  IdsInv'
  OBVIOUS
<1>1. ASSUME NEW p \in Callers, Calling(p) PROVE IdsInv'
  <2>1. PICK S, T : Call(p, S, T)
    BY <1>1 DEF Calling, StartStrategy, StopStrategy, UpdateStrategy, Shutdown
  <2>2. calls + 1 \in Ids /\ calls + 1 # 0 /\ calls' = calls + 1
    BY <2>1, MaxCallsAssumption DEF Call, Typed, Ids
  <2>3. \A q \in Callers : id[q] # calls + 1
    BY MaxCallsAssumption DEF Typed
  <2>4. adapter[calls + 1] = "none" /\ task[calls + 1] = "none"
    BY <2>2, IdsAreCalls DEF IdsInv
  <2>5. \A q \in Callers : /\ id'[q] = IF q = p THEN calls + 1 ELSE id[q]
                           /\ q # p => starts'[q] = starts[q] /\ stops'[q] = stops[q]
    BY <2>1 DEF Call, Typed
  <2>6. \A i \in Ids : i > calls' => i > calls
    BY <2>2, MaxCallsAssumption DEF Typed, Ids
  <2> QED
    BY <2>1, <2>2, <2>3, <2>4, <2>5, <2>6 DEF IdsInv, Busy, Call
<1>2. ASSUME NEW p \in Callers, Enter(p) PROVE IdsInv'
  <2>1. /\ UNCHANGED <<calls, id, adapter>>
        /\ \A i \in Ids : task[i] = "none" => task'[i] = "none"
    BY <1>2 DEF Enter, Start, Stop, Return, callVars, Typed
  <2>2. \A q \in Callers :
            /\ stops'[q] \subseteq stops[q] /\ starts'[q] \subseteq starts[q]
            /\ pc[q] = "unlocked"
    BY <1>2 DEF Enter, Start, Stop, Return, callVars, Typed, Unlocked
  <2> QED
    BY <2>1, <2>2, IdsKept
<1>3. ASSUME NEW p \in Callers, Load(p) PROVE IdsInv'
  <2>1. id[p] \in Ids /\ id[p] \in 1..calls /\ UNCHANGED <<calls, id, starts, stops, task>>
    BY <1>3, MaxCallsAssumption DEF Load, HandInv, IdsInv, Busy, Starting, callVars, Typed, Ids
  <2>2. \A q \in Callers : q # p => id[q] # id[p] \/ id[q] = 0
    BY <2>1 DEF IdsInv
  <2>3. /\ \A q \in Callers : q # p => pc'[q] = pc[q]
        /\ pc'[p] \in {"warmup", "failed"}
        /\ \A i \in Ids : i # id[p] => adapter'[i] = adapter[i]
    BY <1>3 DEF Load, Goto, Typed
  <2>4. \A i \in Ids : i > calls => i # id[p]
    BY <2>1, MaxCallsAssumption DEF Typed, Ids
  <2>5. \A q \in Callers : starts[q] # {} => id[q] \in Ids /\ id[q] # 0
    BY IdsAreCalls DEF IdsInv, Busy
  <2> QED
    BY <2>1, <2>2, <2>3, <2>4, <2>5 DEF IdsInv, Busy
<1>4. ASSUME NEW p \in Callers,
             LoadFails(p) \/ Warmup(p) \/ AnnounceSkipped(p) \/ AnnounceFails(p) \/ Join(p)
      PROVE  IdsInv'
  BY <1>4, IdsKept DEF LoadFails, Warmup, AnnounceSkipped, AnnounceFails, Join, Goto, callVars,
     Typed
<1>5. ASSUME NEW p \in Callers, Launch(p) PROVE IdsInv'
  <2>1. /\ inst[p] = id[p] /\ id[p] \in 1..calls /\ id[p] \in Ids
        /\ UNCHANGED <<calls, id, starts, stops, adapter>>
    <3>1. pc[p] = "reconcile" /\ UNCHANGED <<calls, id, starts, stops, adapter>>
      BY <1>5 DEF Launch, callVars
    <3>2. inst[p] = id[p] /\ starts[p] # {}
      BY <3>1 DEF HandInv, Starting
    <3>3. id[p] # 0 /\ id[p] \in 0..calls /\ calls \in 0..MaxCalls
      BY <3>1, <3>2 DEF IdsInv, Busy, Typed
    <3> QED
      BY <3>1, <3>2, <3>3, MaxCallsAssumption DEF Ids
  <2>2. \A q \in Callers : q # p => id[q] # id[p] \/ id[q] = 0
    BY <2>1 DEF IdsInv
  <2>3. /\ \A q \in Callers : q # p => pc'[q] = pc[q]
        /\ pc'[p] = "announce"
        /\ \A i \in Ids : i # id[p] => task'[i] = task[i]
    BY <1>5, <2>1 DEF Launch, Goto, Typed
  <2>4. \A i \in Ids : i > calls => i # id[p]
    BY <2>1, MaxCallsAssumption DEF Typed, Ids
  <2>5. \A q \in Callers : starts[q] # {} => id[q] \in Ids /\ id[q] # 0
    BY IdsAreCalls DEF IdsInv, Busy
  <2> QED
    BY <2>1, <2>2, <2>3, <2>4, <2>5 DEF IdsInv, Busy
<1>6. ASSUME NEW p \in Callers, Announce(p) \/ Fail(p) PROVE IdsInv'
  <2>1. stops[p] = {}
    BY <1>6 DEF Announce, Fail, HandInv, Starting
  <2> QED
    BY <1>6, <2>1, IdsKept DEF Announce, Fail, Return, Goto, Typed
<1>7. ASSUME NEW p \in Callers, Close(p) PROVE IdsInv'
  <2>1. inst[p] \in Ids /\ adapter[inst[p]] = "open" /\ pc[p] = "close"
    BY <1>7, IdsAreCalls DEF Close, HandInv, Stopping
  <2>2. UNCHANGED <<calls, id, task>> /\ \A i \in Ids : adapter[i] = "none" => adapter'[i] = "none"
    BY <1>7, <2>1 DEF Close, Return, Typed
  <2>3. \A q \in Callers :
            /\ stops'[q] \subseteq stops[q] /\ starts'[q] \subseteq starts[q]
            /\ q # p => pc'[q] = pc[q]
    BY <1>7 DEF Close, Return, Goto, Typed
  <2> QED
    BY <2>1, <2>2, <2>3, IdsKept
<1>8. ASSUME NEW i \in Ids, RunnerEnds(i) \/ RunnerCancelled(i) PROVE IdsInv'
  BY <1>8, IdsKept DEF RunnerEnds, RunnerCancelled, callVars, Typed
<1>9. CASE UNCHANGED vars
  BY <1>9, IdsKept DEF vars, callVars
<1> QED
  BY <1>1, <1>2, <1>3, <1>4, <1>5, <1>6, <1>7, <1>8, <1>9 DEF Next, UnderLock

-----------------------------------------------------------------------------
(* What a caller has in hand *)

LEMMA CallFrame ==
  ASSUME Typed, HandInv, NEW p \in Callers, Calling(p)
  PROVE  /\ UNCHANGED <<pc, bot, inst, running, adapter, task, botOf>>
         /\ stops[p] = {} /\ starts[p] = {} /\ pc[p] = "unlocked"
         /\ \A q \in Callers : q # p => stops'[q] = stops[q] /\ starts'[q] = starts[q]
                                             /\ id'[q] = id[q]
<1>1. PICK S, T : Call(p, S, T)
  BY DEF Calling, StartStrategy, StopStrategy, UpdateStrategy, Shutdown
<1>2. ~Busy(p) /\ UNCHANGED <<pc, bot, inst, running, adapter, task, botOf>>
  BY <1>1 DEF Call
<1>3. stops[p] = {} /\ starts[p] = {}
  BY <1>2 DEF Busy
<1>4. pc[p] \in Locations
  BY DEF Typed
<1>5. pc[p] \notin Starting /\ pc[p] \notin Stopping
  BY <1>3 DEF HandInv
<1>6. pc[p] = "unlocked"
  BY <1>4, <1>5 DEF Locations, Starting, Stopping
<1>7. \A q \in Callers : q # p => stops'[q] = stops[q] /\ starts'[q] = starts[q]
                                   /\ id'[q] = id[q]
  BY <1>1 DEF Call, Typed
<1> QED
  BY <1>2, <1>3, <1>6, <1>7

LEMMA HandStep ==
  Typed /\ OneHolder /\ IdsInv /\ HandInv /\ TableInv /\ [Next]_vars => HandInv'
<1> SUFFICES ASSUME Typed, OneHolder, IdsInv, HandInv, TableInv, [Next]_vars
             PROVE  HandInv'
  OBVIOUS
<1> USE MaxCallsAssumption
    DEF Typed, Ids, Starting, Stopping, OneHolder, HandInv, IdsInv, Busy
<1>1. ASSUME NEW p \in Callers, Calling(p) PROVE HandInv'
  <2>1. \A q \in Callers : pc'[q] # "unlocked" => q # p
    BY <1>1, CallFrame
  <2>2. \A q \in Callers : pc'[q] = "unlocked" => inst'[q] = 0
    BY <1>1, CallFrame
  <2> HIDE DEF Typed, Ids, IdsInv, OneHolder, Busy
  <2> QED
    BY <1>1, <2>1, <2>2, CallFrame
<1>2. ASSUME NEW p \in Callers, NEW b \in Bots, Start(p, b) PROVE HandInv'
  BY <1>2 DEF Start, Goto, Return, callVars, Unlocked, Running
<1>3. ASSUME NEW p \in Callers, NEW b \in Bots, Stop(p, b) PROVE HandInv'
  BY <1>3 DEF Stop, Goto, Return, callVars, Unlocked, Running, TableInv
<1>4. ASSUME NEW p \in Callers, Load(p) PROVE HandInv'
  BY <1>4 DEF Load, Goto, callVars, TableInv
<1>5. ASSUME NEW p \in Callers, LoadFails(p) PROVE HandInv'
  BY <1>5 DEF LoadFails, Goto, callVars
<1>6. ASSUME NEW p \in Callers, Warmup(p) PROVE HandInv'
  BY <1>6 DEF Warmup, Goto, callVars
<1>7. ASSUME NEW p \in Callers, AnnounceSkipped(p) PROVE HandInv'
  BY <1>7 DEF AnnounceSkipped, Goto, callVars
<1>8. ASSUME NEW p \in Callers, Launch(p) PROVE HandInv'
  BY <1>8 DEF Launch, Goto, callVars
<1>9. ASSUME NEW p \in Callers, Announce(p) PROVE HandInv'
  BY <1>9 DEF Announce, Goto, Return, callVars
<1>10. ASSUME NEW p \in Callers, AnnounceFails(p) PROVE HandInv'
  BY <1>10 DEF AnnounceFails, Goto, callVars
<1>11. ASSUME NEW p \in Callers, Fail(p) PROVE HandInv'
  BY <1>11 DEF Fail, Goto, Return, callVars
<1>12. ASSUME NEW p \in Callers, Join(p) PROVE HandInv'
  BY <1>12 DEF Join, Goto, callVars
<1>13. ASSUME NEW p \in Callers, Close(p) PROVE HandInv'
  BY <1>13 DEF Close, Goto, Return, callVars
<1>14. ASSUME NEW i \in Ids, RunnerEnds(i) PROVE HandInv'
  BY <1>14 DEF RunnerEnds, callVars
<1>15. ASSUME NEW i \in Ids, RunnerCancelled(i) PROVE HandInv'
  BY <1>15 DEF RunnerCancelled, callVars
<1>16. CASE UNCHANGED vars
  BY <1>16 DEF vars, callVars
<1> QED
  BY <1>1, <1>2, <1>3, <1>4, <1>5, <1>6, <1>7, <1>8, <1>9, <1>10, <1>11, <1>12, <1>13, <1>14, <1>15, <1>16 DEF Next, Enter, UnderLock

-----------------------------------------------------------------------------
(* What _running knows *)

LEMMA TableStep ==
  Typed /\ OneHolder /\ IdsInv /\ HandInv /\ TableInv /\ [Next]_vars => TableInv'
<1> SUFFICES ASSUME Typed, OneHolder, IdsInv, HandInv, TableInv, [Next]_vars
             PROVE  TableInv'
  OBVIOUS
<1> USE MaxCallsAssumption
    DEF Typed, Ids, Starting, Stopping, OneHolder, HandInv, IdsInv, Busy, TableInv,
        EveryRunnerOwned, LaunchedAdaptersOwned, Live, InHand
<1>1. ASSUME NEW p \in Callers, Calling(p) PROVE TableInv'
  BY <1>1, CallFrame
<1>2. ASSUME NEW p \in Callers, NEW b \in Bots, Start(p, b) PROVE TableInv'
  BY <1>2 DEF Start, Goto, Return, callVars, Unlocked
<1>3. ASSUME NEW p \in Callers, NEW b \in Bots, Stop(p, b) PROVE TableInv'
  <2>1. \A q \in Callers : pc[q] = "unlocked"
    BY <1>3 DEF Stop, Unlocked
  <2>2. \A i \in Ids : /\ Live(i) => running[botOf[i]] = i
                       /\ adapter[i] = "open" /\ task[i] # "none" => running[botOf[i]] = i
    BY <2>1
  <2>3. UNCHANGED <<adapter, botOf>>
    BY <1>3 DEF Stop
  <2>4. CASE b \notin Running
    <3>1. UNCHANGED <<running, task>>
      BY <1>3, <2>4 DEF Stop
    <3> HIDE DEF Typed, Ids, IdsInv, OneHolder, HandInv
    <3> QED
      BY <2>2, <2>3, <3>1
  <2>5. CASE b \in Running
    <3> DEFINE j == running[b]
    <3>1. j \in Ids /\ botOf[j] = b /\ adapter[j] = "open" /\ task[j] \in {"alive", "done"}
      BY <2>5, IdsAreCalls DEF Running
    <3>2. pc'[p] = "join" /\ inst'[p] = j
      BY <1>3, <2>5 DEF Stop, Goto
    <3>3. \A c \in Bots : running'[c] = IF c = b THEN 0 ELSE running[c]
      BY <1>3, <2>5 DEF Stop
    <3>4. \A i \in Ids : task'[i] = IF i = j /\ task[i] = "alive" THEN "cancelling" ELSE task[i]
      BY <1>3, <2>5 DEF Stop
    <3>5. \A c \in Bots : running[c] # 0 => running[c] \in Ids /\ (c # b => running[c] # j)
      BY <3>1, IdsAreCalls
    <3>6. \A i \in Ids : botOf[i] \in Bots
      OBVIOUS
    <3> HIDE DEF Typed, Ids, IdsInv, OneHolder, HandInv, j
    <3>7. \A c \in Bots : running'[c] # 0 =>
              /\ botOf'[running'[c]] = c
              /\ task'[running'[c]] \in {"alive", "done"}
              /\ adapter'[running'[c]] = "open"
      BY <2>3, <3>3, <3>4, <3>5
    <3>8. \A i \in Ids : task'[i] # "none" => adapter'[i] # "none"
      BY <2>3, <3>4
    <3>9. ASSUME NEW i \in Ids, i # j, running[botOf[i]] = i PROVE running'[botOf'[i]] = i
      <4>1. botOf[i] # b
        BY <3>9 DEF j
      <4> QED
        BY <2>3, <3>3, <3>6, <3>9, <4>1
    <3>10. EveryRunnerOwned'
      BY <2>2, <3>2, <3>4, <3>9
    <3>11. LaunchedAdaptersOwned'
      BY <2>2, <2>3, <3>2, <3>4, <3>9
    <3> QED
      BY <3>7, <3>8, <3>10, <3>11
  <2> QED
    BY <2>4, <2>5
<1>4. ASSUME NEW p \in Callers, Load(p) PROVE TableInv'
  <2>1. id[p] \in Ids /\ task[id[p]] = "none" /\ inst[p] = 0
    BY <1>4 DEF Load
  <2>2. UNCHANGED <<running, task>> /\ task'[id[p]] = "none"
    BY <1>4, <2>1 DEF Load
  <2>3. \A i \in Ids : i # id[p] => adapter'[i] = adapter[i] /\ botOf'[i] = botOf[i]
    BY <1>4 DEF Load
  <2>4. \A q \in Callers : q # p => pc[q] = "unlocked"
    BY <1>4 DEF Load
  <2>5. adapter'[id[p]] = "open"
    BY <1>4, <2>1 DEF Load
  <2> HIDE DEF Typed, Ids, IdsInv, OneHolder, HandInv
  <2>6. \A b \in Bots : running[b] # 0 => running[b] \in Ids /\ running[b] # id[p]
    BY <2>1, IdsAreCalls
  <2>7. \A b \in Bots : running'[b] # 0 =>
            /\ botOf'[running'[b]] = b
            /\ task'[running'[b]] \in {"alive", "done"}
            /\ adapter'[running'[b]] = "open"
    BY <2>2, <2>3, <2>6
  <2>8. \A i \in Ids : task'[i] # "none" => adapter'[i] # "none"
    BY <2>2, <2>3, <2>5
  <2>9. EveryRunnerOwned'
    BY <2>1, <2>2, <2>3, <2>4, <1>4 DEF Load
  <2>10. LaunchedAdaptersOwned'
    BY <2>1, <2>2, <2>3, <2>4, IdsAreCalls
  <2> QED
    BY <2>7, <2>8, <2>9, <2>10
<1>5. ASSUME NEW p \in Callers, LoadFails(p) PROVE TableInv'
  BY <1>5 DEF LoadFails, Goto, callVars
<1>6. ASSUME NEW p \in Callers, Warmup(p) PROVE TableInv'
  BY <1>6 DEF Warmup, Goto, callVars
<1>7. ASSUME NEW p \in Callers, AnnounceSkipped(p) PROVE TableInv'
  BY <1>7 DEF AnnounceSkipped, Goto, callVars
<1>8. ASSUME NEW p \in Callers, Launch(p) PROVE TableInv'
  BY <1>8 DEF Launch, Goto, callVars
<1>9. ASSUME NEW p \in Callers, Announce(p) PROVE TableInv'
  <2>1. inst[p] # 0 /\ running[botOf[inst[p]]] = inst[p] /\ inst[p] \in Ids
    BY <1>9 DEF Announce
  <2>2. UNCHANGED <<running, adapter, task, botOf>>
    BY <1>9 DEF Announce
  <2>3. \A q \in Callers : q # p => pc'[q] = pc[q] /\ inst'[q] = inst[q]
    BY <1>9 DEF Announce, Goto, Return
  <2>4. pc[p] # "join"
    BY <1>9 DEF Announce
  <2> QED
    BY <2>1, <2>2, <2>3, <2>4
<1>10. ASSUME NEW p \in Callers, AnnounceFails(p) PROVE TableInv'
  BY <1>10 DEF AnnounceFails, Goto, callVars
<1>11. ASSUME NEW p \in Callers, Fail(p) PROVE TableInv'
  <2>1. (inst[p] # 0 /\ task[inst[p]] # "none") =>
            running[botOf[inst[p]]] = inst[p]
    BY <1>11 DEF Fail
  <2>2. UNCHANGED <<running, adapter, task, botOf>>
    BY <1>11 DEF Fail
  <2>3. \A q \in Callers : q # p => pc'[q] = pc[q] /\ inst'[q] = inst[q]
    BY <1>11 DEF Fail, Goto, Return
  <2>4. pc[p] # "join"
    BY <1>11 DEF Fail
  <2> HIDE DEF Typed, Ids, IdsInv, OneHolder, HandInv
  <2>5. EveryRunnerOwned'
    BY <2>2, <2>3, <2>4
  <2>6. LaunchedAdaptersOwned'
    BY <2>1, <2>2, <2>3, IdsAreCalls
  <2> QED
    BY <2>2, <2>5, <2>6
<1>12. ASSUME NEW p \in Callers, Join(p) PROVE TableInv'
  BY <1>12 DEF Join, Goto, callVars
<1>13. ASSUME NEW p \in Callers, Close(p) PROVE TableInv'
  BY <1>13 DEF Close, Goto, Return, callVars
<1>14. ASSUME NEW i \in Ids, RunnerEnds(i) PROVE TableInv'
  BY <1>14 DEF RunnerEnds, callVars
<1>15. ASSUME NEW i \in Ids, RunnerCancelled(i) PROVE TableInv'
  BY <1>15 DEF RunnerCancelled, callVars
<1>16. CASE UNCHANGED vars
  BY <1>16 DEF vars, callVars
<1> QED
  BY <1>1, <1>2, <1>3, <1>4, <1>5, <1>6, <1>7, <1>8, <1>9, <1>10, <1>11, <1>12, <1>13, <1>14, <1>15, <1>16 DEF Next, Enter, UnderLock

-----------------------------------------------------------------------------
(* After shutdown was called *)

LEMMA ClosingStep ==
  Typed /\ HandInv /\ ClosingInv /\ [Next]_vars => ClosingInv'
<1> SUFFICES ASSUME Typed, HandInv, ClosingInv, [Next]_vars
             PROVE  ClosingInv'
  OBVIOUS
<1> USE MaxCallsAssumption
    DEF Typed, Starting, Stopping, HandInv, Running, ClosingInv
<1>1. ASSUME NEW p \in Callers, Calling(p) PROVE ClosingInv'
  <2>1. CASE Shutdown(p)
    <3>1. \A q \in Callers : starts'[q] = {}
      BY <2>1 DEF Shutdown, Call, Busy
    <3>2. stops'[p] = Running /\ running' = running
      BY <2>1 DEF Shutdown, Call
    <3> QED
      BY <3>1, <3>2
  <2>2. CASE ~Shutdown(p)
    <3>1. ~closing /\ closing' = closing
      BY <1>1, <2>2 DEF Calling, StartStrategy, StopStrategy, UpdateStrategy
    <3> QED
      BY <3>1
  <2> QED
    BY <2>1, <2>2
<1>2. ASSUME NEW p \in Callers, NEW b \in Bots, Start(p, b) PROVE ClosingInv'
  BY <1>2 DEF Start, Goto, Return, callVars, Unlocked
<1>3. ASSUME NEW p \in Callers, NEW b \in Bots, Stop(p, b) PROVE ClosingInv'
  <2>1. closing' = closing
    BY <1>3 DEF Stop, Return, callVars
  <2>2. \A q \in Callers : starts'[q] \subseteq starts[q]
    BY <1>3 DEF Stop, Return, callVars
  <2>4. \A q \in Callers : stops'[q] = stops[q] \/ stops'[q] = stops[q] \ {b}
    BY <1>3 DEF Stop, Return, callVars
  <2>3. Running' = Running \ {b}
    BY <1>3 DEF Stop
  <2> QED
    BY <2>1, <2>2, <2>3, <2>4
<1>4. ASSUME NEW p \in Callers, Load(p) PROVE ClosingInv'
  BY <1>4 DEF Load, Goto, callVars
<1>5. ASSUME NEW p \in Callers, LoadFails(p) PROVE ClosingInv'
  BY <1>5 DEF LoadFails, Goto, callVars
<1>6. ASSUME NEW p \in Callers, Warmup(p) PROVE ClosingInv'
  BY <1>6 DEF Warmup, Goto, callVars
<1>7. ASSUME NEW p \in Callers, AnnounceSkipped(p) PROVE ClosingInv'
  BY <1>7 DEF AnnounceSkipped, Goto, callVars
<1>8. ASSUME NEW p \in Callers, Launch(p) PROVE ClosingInv'
  BY <1>8 DEF Launch, Goto, callVars
<1>9. ASSUME NEW p \in Callers, Announce(p) PROVE ClosingInv'
  BY <1>9 DEF Announce, Goto, Return, callVars
<1>10. ASSUME NEW p \in Callers, AnnounceFails(p) PROVE ClosingInv'
  BY <1>10 DEF AnnounceFails, Goto, callVars
<1>11. ASSUME NEW p \in Callers, Fail(p) PROVE ClosingInv'
  BY <1>11 DEF Fail, Goto, Return, callVars
<1>12. ASSUME NEW p \in Callers, Join(p) PROVE ClosingInv'
  BY <1>12 DEF Join, Goto, callVars
<1>13. ASSUME NEW p \in Callers, Close(p) PROVE ClosingInv'
  BY <1>13 DEF Close, Goto, Return, callVars
<1>14. ASSUME NEW i \in Ids, RunnerEnds(i) PROVE ClosingInv'
  BY <1>14 DEF RunnerEnds, callVars
<1>15. ASSUME NEW i \in Ids, RunnerCancelled(i) PROVE ClosingInv'
  BY <1>15 DEF RunnerCancelled, callVars
<1>16. CASE UNCHANGED vars
  BY <1>16 DEF vars, callVars
<1> QED
  BY <1>1, <1>2, <1>3, <1>4, <1>5, <1>6, <1>7, <1>8, <1>9, <1>10, <1>11, <1>12, <1>13, <1>14, <1>15, <1>16 DEF Next, Enter, UnderLock

-----------------------------------------------------------------------------
(* The inductive invariant *)

LEMMA OwnInit == Init => OwnInv
<1> SUFFICES ASSUME Init PROVE OwnInv
  OBVIOUS
<1>1. TypeOK
  BY TypedInit, TypeOKParts DEF Init, OneHolder
<1>2. IdsInv
  BY DEF Init, IdsInv, Busy
<1>3. HandInv
  BY DEF Init, HandInv, Starting, Stopping
<1>4. TableInv
  BY DEF Init, TableInv, EveryRunnerOwned, LaunchedAdaptersOwned, Live
<1>5. ClosingInv
  BY DEF Init, ClosingInv
<1> QED
  BY <1>1, <1>2, <1>3, <1>4, <1>5 DEF OwnInv

LEMMA OwnStep == OwnInv /\ [Next]_vars => OwnInv'
<1> SUFFICES ASSUME OwnInv, [Next]_vars PROVE OwnInv'
  OBVIOUS
<1>1. Typed /\ OneHolder /\ IdsInv /\ HandInv /\ TableInv /\ ClosingInv
  BY TypeOKParts DEF OwnInv
<1>2. TypeOK'
  <2>1. TypeOK' <=> Typed' /\ OneHolder'
    BY DEF TypeOK, Typed
  <2> QED
    BY <1>1, <2>1, TypedStep, OneHolderStep
<1> QED
  BY <1>1, <1>2, IdsStep, HandStep, TableStep, ClosingStep DEF OwnInv

LEMMA OwnCorrect == Spec => []OwnInv
BY OwnInit, OwnStep, PTL DEF Spec

-----------------------------------------------------------------------------
(* What follows from it *)

\* A live runner is the one _running knows for its bot, or a stop is at it.
THEOREM RunnersAreOwned == Spec => []EveryRunnerOwned
<1>1. OwnInv => EveryRunnerOwned
  BY DEF OwnInv, TableInv
<1> QED
  BY <1>1, OwnCorrect, PTL

\* The adapter of a live runner is open: stop_strategy joins before it closes.
THEOREM AdaptersOutliveRunners == Spec => []OpenWhileTrading
<1>1. OwnInv => OpenWhileTrading
  <2> SUFFICES ASSUME OwnInv, NEW i \in Ids, Live(i)
               PROVE  adapter[i] = "open"
    BY DEF OpenWhileTrading
  <2>1. Typed /\ HandInv /\ TableInv
    BY TypeOKParts DEF OwnInv
  <2>2. CASE running[botOf[i]] = i
    BY <2>1, <2>2, IdsAreCalls DEF TableInv, Typed
  <2>3. CASE \E p \in Callers : pc[p] = "join" /\ inst[p] = i
    BY <2>1, <2>3 DEF HandInv, Stopping
  <2> QED
    BY <2>1, <2>2, <2>3 DEF TableInv, EveryRunnerOwned
<1> QED
  BY <1>1, OwnCorrect, PTL

\* An adapter whose strategy was launched stays known until it is closed.
THEOREM AdaptersAreOwned == Spec => []LaunchedAdaptersOwned
<1>1. OwnInv => LaunchedAdaptersOwned
  BY DEF OwnInv, TableInv
<1> QED
  BY <1>1, OwnCorrect, PTL

\* When engine_main's shutdown is over, every runner has ended and every adapter
\* a runner traded through is closed, whatever runs it found or how they ended.
THEOREM NothingIsLeft == Spec => []ShutdownIsComplete
<1>1. OwnInv => ShutdownIsComplete
  <2> SUFFICES ASSUME OwnInv, closing, \A p \in Callers : ~Busy(p), NEW i \in Ids
               PROVE  /\ task[i] \in {"none", "done"}
                      /\ task[i] = "done" => adapter[i] = "closed"
    BY DEF ShutdownIsComplete
  <2>1. Typed /\ HandInv /\ TableInv /\ ClosingInv
    BY TypeOKParts DEF OwnInv
  <2>2. \A p \in Callers : stops[p] = {} /\ starts[p] = {}
    BY DEF Busy
  <2>3. \A p \in Callers : pc[p] = "unlocked"
    BY <2>1, <2>2 DEF HandInv, Typed, Locations, Starting, Stopping
  <2>4. \A b \in Bots : running[b] = 0
    BY <2>1, <2>2 DEF ClosingInv, Running
  <2>5. i # 0 /\ botOf[i] \in Bots
    BY <2>1, IdsAreCalls DEF Typed
  <2>6. ~Live(i)
    BY <2>1, <2>3, <2>4, <2>5 DEF TableInv, EveryRunnerOwned
  <2>7. adapter[i] = "open" => task[i] = "none"
    BY <2>1, <2>3, <2>4, <2>5 DEF TableInv, LaunchedAdaptersOwned, InHand
  <2>8. task[i] # "none" => adapter[i] # "none"
    BY <2>1 DEF TableInv
  <2> QED
    BY <2>1, <2>6, <2>7, <2>8 DEF Live, Typed
<1> QED
  BY <1>1, OwnCorrect, PTL

\* stop_strategy takes a bot off its list only when no runner of it is left.
LEMMA StopStep ==
  ASSUME OwnInv, [Next]_vars, NEW p \in Callers, NEW b \in stops[p] \ stops'[p],
         NEW i \in Ids, botOf[i] = b
  PROVE  task'[i] \notin {"alive", "cancelling"}
<1>1. Typed /\ OneHolder /\ HandInv /\ TableInv
  BY TypeOKParts DEF OwnInv
<1>2. i # 0 /\ b \in Bots
  BY <1>1, IdsAreCalls DEF Typed
<1>3. ASSUME NEW q \in Callers, Calling(q) PROVE FALSE
  BY <1>1, <1>3, CallFrame
<1>4. ASSUME NEW q \in Callers, NEW c \in Bots, Start(q, c) PROVE FALSE
  BY <1>1, <1>4 DEF Start, Return, callVars, Typed
<1>5. ASSUME NEW q \in Callers, NEW c \in Bots, Stop(q, c)
      PROVE  ~Live(i) /\ task' = task
  <2>1. q = p /\ c = b /\ b \notin Running /\ task' = task
    BY <1>1, <1>5 DEF Stop, Return, callVars, Typed
  <2>2. running[b] = 0 /\ \A r \in Callers : pc[r] # "join"
    BY <1>2, <1>5, <2>1 DEF Running, Stop, Unlocked
  <2> QED
    BY <1>1, <1>2, <2>1, <2>2 DEF TableInv, EveryRunnerOwned
<1>6. ASSUME NEW q \in Callers, Load(q) \/ LoadFails(q) \/ Warmup(q) \/ AnnounceSkipped(q)
                                \/ Launch(q) \/ AnnounceFails(q) \/ Join(q)
      PROVE  FALSE
  BY <1>6 DEF Load, LoadFails, Warmup, AnnounceSkipped, Launch, AnnounceFails, Join, callVars
<1>7. ASSUME NEW q \in Callers, Announce(q) \/ Fail(q) PROVE FALSE
  <2>1. stops[q] = {}
    BY <1>1, <1>7 DEF Announce, Fail, HandInv, Starting
  <2> QED
    BY <1>1, <1>7, <2>1 DEF Announce, Fail, Return, Typed
<1>8. ASSUME NEW q \in Callers, Close(q)
      PROVE  ~Live(i) /\ task' = task
  <2>1. q = p /\ bot[q] = b /\ task' = task /\ pc[q] = "close"
    BY <1>1, <1>8 DEF Close, Return, Typed
  <2>2. running[b] = 0 /\ \A r \in Callers : pc[r] # "join"
    BY <1>1, <2>1 DEF HandInv, Stopping, OneHolder
  <2> QED
    BY <1>1, <1>2, <2>1, <2>2 DEF TableInv, EveryRunnerOwned
<1>9. ASSUME NEW j \in Ids, RunnerEnds(j) \/ RunnerCancelled(j) PROVE FALSE
  BY <1>9 DEF RunnerEnds, RunnerCancelled, callVars
<1>10. CASE UNCHANGED vars
  BY <1>10 DEF vars, callVars
<1> QED
  BY <1>3, <1>4, <1>5, <1>6, <1>7, <1>8, <1>9, <1>10 DEF Next, Enter, UnderLock, Live

\* Whatever was launched for a bot before stop_strategy returns has ended by then.
THEOREM StopsAreComplete == Spec => StopIsComplete
<1> DEFINE Complete ==
      \A p \in Callers : \A b \in stops[p] \ stops'[p] :
          \A i \in Ids : botOf[i] = b => task'[i] \notin {"alive", "cancelling"}
<1>1. OwnInv /\ [Next]_vars => [Complete]_vars
  BY StopStep
<1> QED
  BY <1>1, OwnCorrect, PTL DEF Spec, StopIsComplete

=============================================================================
