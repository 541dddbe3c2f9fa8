----------------------------- MODULE Orchestrator -----------------------------
(***************************************************************************)
(* EngineOrchestrator (application/orchestrator.py): who may run a bot's   *)
(* StrategyRunner task, and who owns the exchange adapter it trades        *)
(* through.  start_strategy, stop_strategy, update_strategy and shutdown   *)
(* are called by concurrent coroutines; an asyncio.Lock serialises the     *)
(* starts and the stops they are made of.  Each await under the lock is a  *)
(* step, so runner tasks die, other calls arrive and publishes fail there. *)
(*                                                                         *)
(* A call is a set of bots to stop and then a set of bots to start:        *)
(*                                                                         *)
(*    start b    {}            {b}      update b   {b} if it runs   {b}    *)
(*    stop b     {b}           {}       shutdown   all that run     {}     *)
(*                                                                         *)
(* Call number i makes at most one adapter and one task: those have its    *)
(* number.                                                                 *)
(***************************************************************************)
EXTENDS Naturals, FiniteSets

CONSTANTS
    Bots,            \* bot ids
    Callers,         \* coroutines that call the orchestrator
    MaxCalls,        \* bound: how many calls are made
    PublishMayFail   \* EventBus.publish may raise

ASSUME MaxCallsAssumption == MaxCalls \in Nat
ASSUME PublishMayFailAssumption == PublishMayFail \in BOOLEAN

Ids == 1..MaxCalls

VARIABLES
    calls,     \* how many calls were made
    closing,   \* engine_main has called shutdown
    id,        \* number of the call a coroutine is in
    stops,     \* bots it has yet to stop
    starts,    \* bots it has yet to start
    pc,        \* where it is under the lock, or "unlocked"
    bot,       \* the bot in hand
    inst,      \* the adapter and task in hand
    running,   \* _running: bot -> its adapter and task, 0 if absent
    adapter,   \* "none", "open", or "closed" (close() was called)
    task,      \* "none", "alive", "cancelling", or "done"
    botOf      \* the bot an adapter was made for

callVars == <<calls, closing, id, stops, starts>>
vars == <<callVars, pc, bot, inst, running, adapter, task, botOf>>

Locations == {"unlocked", "load", "warmup", "skipped", "reconcile", "announce",
              "failed", "join", "close"}

\* Nobody is under the lock but one caller.
OneHolder ==
    \A p, q \in Callers : (pc[p] # "unlocked" /\ pc[q] # "unlocked") => p = q

TypeOK ==
    /\ calls \in 0..MaxCalls
    /\ closing \in BOOLEAN
    /\ id \in [Callers -> 0..calls]
    /\ stops \in [Callers -> SUBSET Bots]
    /\ starts \in [Callers -> SUBSET Bots]
    /\ pc \in [Callers -> Locations]
    /\ bot \in [Callers -> Bots]
    /\ inst \in [Callers -> 0..calls]
    /\ running \in [Bots -> 0..calls]
    /\ adapter \in [Ids -> {"none", "open", "closed"}]
    /\ task \in [Ids -> {"none", "alive", "cancelling", "done"}]
    /\ botOf \in [Ids -> Bots]
    /\ OneHolder

Busy(p) == stops[p] \cup starts[p] # {}
Live(i) == task[i] \in {"alive", "cancelling"}
Running == {b \in Bots : running[b] # 0}

Init ==
    /\ calls = 0
    /\ closing = FALSE
    /\ id = [p \in Callers |-> 0]
    /\ stops = [p \in Callers |-> {}]
    /\ starts = [p \in Callers |-> {}]
    /\ pc = [p \in Callers |-> "unlocked"]
    /\ bot \in [Callers -> Bots]
    /\ inst = [p \in Callers |-> 0]
    /\ running = [b \in Bots |-> 0]
    /\ adapter = [i \in Ids |-> "none"]
    /\ task = [i \in Ids |-> "none"]
    /\ botOf \in [Ids -> Bots]

-----------------------------------------------------------------------------
(* Calls *)

Call(p, toStop, toStart) ==
    /\ ~Busy(p) /\ calls < MaxCalls
    /\ calls' = calls + 1
    /\ id' = [id EXCEPT ![p] = calls + 1]
    /\ stops' = [stops EXCEPT ![p] = toStop]
    /\ starts' = [starts EXCEPT ![p] = toStart]
    /\ UNCHANGED <<pc, bot, inst, running, adapter, task, botOf>>

StartStrategy(p, b) == ~closing /\ Call(p, {}, {b}) /\ UNCHANGED closing

StopStrategy(p, b) == ~closing /\ Call(p, {b}, {}) /\ UNCHANGED closing

\* `bot_id in self._running` is read before, and outside of, the lock.
UpdateStrategy(p, b) ==
    ~closing /\ Call(p, {b} \cap Running, {b}) /\ UNCHANGED closing

\* Seeded fault: engine_main shuts down without awaiting the other callers.
ShutdownAtOnce(p) ==
    /\ ~closing
    /\ Call(p, Running, {})
    /\ closing' = TRUE

\* engine_main has awaited the listener, so no other call is in progress.
Shutdown(p) ==
    /\ ~closing /\ \A q \in Callers : ~Busy(q)
    /\ Call(p, Running, {})
    /\ closing' = TRUE

-----------------------------------------------------------------------------
(* The lock: taken where pc leaves "unlocked", released where it returns. *)

Unlocked == \A q \in Callers : pc[q] = "unlocked"

Goto(p, l) == pc' = [pc EXCEPT ![p] = l]

Return(p, b) ==
    /\ Goto(p, "unlocked")
    /\ stops' = [stops EXCEPT ![p] = @ \ {b}]
    /\ starts' = [starts EXCEPT ![p] = IF stops[p] = {} THEN {} ELSE @]
    /\ inst' = [inst EXCEPT ![p] = 0]
    /\ UNCHANGED <<calls, closing, id>>

-----------------------------------------------------------------------------
(* start_strategy and _start_impl *)

\* Seeded fault: start_strategy does not take the lock.
StartUnlocked(p, b) ==
    /\ stops[p] = {} /\ b \in starts[p] /\ pc[p] = "unlocked"
    /\ bot' = [bot EXCEPT ![p] = b]
    /\ IF b \in Running
       THEN Return(p, b)
       ELSE Goto(p, "load") /\ UNCHANGED <<callVars, inst>>
    /\ UNCHANGED <<running, adapter, task, botOf>>

\* A bot that runs already is left alone.
Start(p, b) ==
    /\ stops[p] = {} /\ b \in starts[p] /\ Unlocked
    /\ bot' = [bot EXCEPT ![p] = b]
    /\ IF b \in Running
       THEN Return(p, b)
       ELSE Goto(p, "load") /\ UNCHANGED <<callVars, inst>>
    /\ UNCHANGED <<running, adapter, task, botOf>>

\* Bot, credential, strategy class, adapter, market data, strategy: what fails
\* before the adapter is made leaves nothing, what fails after leaves it open.
LoadFails(p) ==
    /\ pc[p] = "load"
    /\ Goto(p, "failed")
    /\ UNCHANGED <<callVars, bot, inst, running, adapter, task, botOf>>

Load(p) ==
    /\ pc[p] = "load"
    /\ inst' = [inst EXCEPT ![p] = id[p]]
    /\ adapter' = [adapter EXCEPT ![id[p]] = "open"]
    /\ botOf' = [botOf EXCEPT ![id[p]] = bot[p]]
    /\ Goto(p, "warmup") \/ Goto(p, "failed")
    /\ UNCHANGED <<callVars, bot, running, task>>

\* fetch_ohlcv and the replayed candles; a failure is only announced ...
Warmup(p) ==
    /\ pc[p] = "warmup"
    /\ Goto(p, "reconcile") \/ Goto(p, "skipped")
    /\ UNCHANGED <<callVars, bot, inst, running, adapter, task, botOf>>

\* ... but if that publish raises, the start fails after all.
AnnounceSkipped(p) ==
    /\ pc[p] = "skipped"
    /\ Goto(p, "reconcile") \/ (PublishMayFail /\ Goto(p, "failed"))
    /\ UNCHANGED <<callVars, bot, inst, running, adapter, task, botOf>>

\* get_positions, whatever it raises; then the task and its entry in _running.
Launch(p) ==
    /\ pc[p] = "reconcile"
    /\ task' = [task EXCEPT ![inst[p]] = "alive"]
    /\ running' = [running EXCEPT ![bot[p]] = inst[p]]
    /\ Goto(p, "announce")
    /\ UNCHANGED <<callVars, bot, inst, adapter, botOf>>

Announce(p) ==
    /\ pc[p] = "announce"
    /\ Return(p, bot[p])
    /\ UNCHANGED <<bot, running, adapter, task, botOf>>

\* The runner is left in place, though the caller is told startup_failed.
AnnounceFails(p) ==
    /\ PublishMayFail /\ pc[p] = "announce"
    /\ Goto(p, "failed")
    /\ UNCHANGED <<callVars, bot, inst, running, adapter, task, botOf>>

\* startup_failed is published, or that fails too; the start raises.
Fail(p) ==
    /\ pc[p] = "failed"
    /\ Return(p, bot[p])
    /\ UNCHANGED <<bot, running, adapter, task, botOf>>

-----------------------------------------------------------------------------
(* stop_strategy *)

\* Seeded fault: the bot is dropped from _running and its task not cancelled.
StopWithoutCancel(p, b) ==
    /\ b \in stops[p] /\ Unlocked
    /\ bot' = [bot EXCEPT ![p] = b]
    /\ IF b \notin Running
       THEN Return(p, b) /\ UNCHANGED <<running, task>>
       ELSE /\ running' = [running EXCEPT ![b] = 0]
            /\ inst' = [inst EXCEPT ![p] = running[b]]
            /\ Goto(p, "join")
            /\ UNCHANGED <<callVars, task>>
    /\ UNCHANGED <<adapter, botOf>>

\* Popped and cancelled in one go; a task that is done stays done.
Stop(p, b) ==
    /\ b \in stops[p] /\ Unlocked
    /\ bot' = [bot EXCEPT ![p] = b]
    /\ IF b \notin Running
       THEN Return(p, b) /\ UNCHANGED <<running, task>>
       ELSE /\ running' = [running EXCEPT ![b] = 0]
            /\ inst' = [inst EXCEPT ![p] = running[b]]
            /\ task' = [task EXCEPT ![running[b]] =
                          IF @ = "alive" THEN "cancelling" ELSE @]
            /\ Goto(p, "join")
            /\ UNCHANGED callVars
    /\ UNCHANGED <<adapter, botOf>>

\* Seeded fault: the cancelled task is not awaited.
JoinAtOnce(p) ==
    /\ pc[p] = "join"
    /\ Goto(p, "close")
    /\ UNCHANGED <<callVars, bot, inst, running, adapter, task, botOf>>

\* await running.task
Join(p) ==
    /\ pc[p] = "join" /\ task[inst[p]] = "done"
    /\ Goto(p, "close")
    /\ UNCHANGED <<callVars, bot, inst, running, adapter, task, botOf>>

\* Seeded fault: stop_strategy returns without closing the adapter.
ReturnUnclosed(p) ==
    /\ pc[p] = "close"
    /\ Return(p, bot[p])
    /\ UNCHANGED <<bot, running, adapter, task, botOf>>

Close(p) ==
    /\ pc[p] = "close"
    /\ adapter' = [adapter EXCEPT ![inst[p]] = "closed"]
    /\ Return(p, bot[p])
    /\ UNCHANGED <<bot, running, task, botOf>>

-----------------------------------------------------------------------------
(* The runner tasks *)

\* run() returns or raises; nobody awaits the task until its bot is stopped.
RunnerEnds(i) ==
    /\ task[i] = "alive"
    /\ task' = [task EXCEPT ![i] = "done"]
    /\ UNCHANGED <<callVars, pc, bot, inst, running, adapter, botOf>>

\* CancelledError, or whatever was raised before it, ends the task.
RunnerCancelled(i) ==
    /\ task[i] = "cancelling"
    /\ task' = [task EXCEPT ![i] = "done"]
    /\ UNCHANGED <<callVars, pc, bot, inst, running, adapter, botOf>>

-----------------------------------------------------------------------------

Calling(p) ==
    \/ \E b \in Bots : StartStrategy(p, b) \/ StopStrategy(p, b) \/ UpdateStrategy(p, b)
    \/ Shutdown(p)

Enter(p) == \E b \in Bots : Start(p, b) \/ Stop(p, b)

UnderLock(p) ==
    \/ Load(p) \/ LoadFails(p) \/ Warmup(p) \/ AnnounceSkipped(p) \/ Launch(p)
    \/ Announce(p) \/ AnnounceFails(p) \/ Fail(p) \/ Join(p) \/ Close(p)

Next ==
    \/ \E p \in Callers : Calling(p) \/ Enter(p) \/ UnderLock(p)
    \/ \E i \in Ids : RunnerEnds(i) \/ RunnerCancelled(i)

Spec == Init /\ [][Next]_vars

\* Awaits return, a cancelled task ends, and asyncio.Lock wakes its waiters in
\* turn, so a caller that wants the lock again and again gets it: SF of Enter.
Fairness ==
    /\ \A p \in Callers : WF_vars(UnderLock(p)) /\ SF_vars(Enter(p))
    /\ \A i \in Ids : WF_vars(RunnerCancelled(i))

FairSpec == Spec /\ Fairness

-----------------------------------------------------------------------------
(* Properties *)

InHand(i) == \E p \in Callers : pc[p] # "unlocked" /\ inst[p] = i

\* A runner that lives is the one _running knows for its bot, or is just being
\* stopped: no bot is ever traded by two runners, and none is out of reach of
\* stop_strategy -- whatever calls race and wherever publishes fail.
EveryRunnerOwned ==
    \A i \in Ids : Live(i) =>
        \/ running[botOf[i]] = i
        \/ \E p \in Callers : pc[p] = "join" /\ inst[p] = i

\* The adapter is closed after the runner that trades through it has ended.
OpenWhileTrading == \A i \in Ids : Live(i) => adapter[i] = "open"

\* The adapter of a strategy that was ever launched is not forgotten open:
\* only a start that fails before its task exists leaves one behind.
LaunchedAdaptersOwned ==
    \A i \in Ids : (adapter[i] = "open" /\ task[i] # "none") =>
        running[botOf[i]] = i \/ InHand(i)

\* When stop_strategy returns, no runner of the bot is left that was launched
\* before: all of it under the lock, though update_strategy takes it twice.
StopIsComplete ==
    [][\A p \in Callers : \A b \in stops[p] \ stops'[p] :
          \A i \in Ids : botOf[i] = b => task'[i] \notin {"alive", "cancelling"}]_vars

\* After engine_main's shutdown nothing trades and no launched adapter is open.
ShutdownIsComplete ==
    (closing /\ \A p \in Callers : ~Busy(p)) =>
        \A i \in Ids : task[i] \in {"none", "done"}
                       /\ (task[i] = "done" => adapter[i] = "closed")

\* Every call returns: the lock is never kept, the join never waits for ever.
CallsReturn == \A p \in Callers : Busy(p) ~> ~Busy(p)

\* What the gauge engine_running_strategies and the heartbeat report as live
\* strategies are strategies whose runner is alive.
ReportedIsAlive == \A b \in Running : task[running[b]] # "done"
=============================================================================
