---------------------------- MODULE StateManager ----------------------------
(***************************************************************************)
(* StateManager (infrastructure/state_manager.py) inside the engine        *)
(* process: one task with three loops in a TaskGroup.  The heartbeat loop  *)
(* publishes which bots run; the balance loop polls the balance of every   *)
(* stored credential through an adapter it caches, then the positions of   *)
(* the running bots; the snapshot loop refreshes a Redis key per bot, with *)
(* a time to live.  An exception that leaves one loop makes the TaskGroup  *)
(* cancel the other two, and nothing starts the task again: engine_main    *)
(* only gathers it when the process stops.                                 *)
(*                                                                         *)
(* A call to Redis, the database or an exchange succeeds or raises.  The   *)
(* calls of the balance loop take any time; the SETs of the snapshot loop  *)
(* are taken to be short beside Period, so no time passes in a pass.       *)
(***************************************************************************)
EXTENDS Integers, FiniteSets

CONSTANTS
    Bots,    \* bots that may be started and stopped, again and again
    Creds,   \* credentials that may be stored and deleted, once: ids are new
    Period,  \* ticks between two passes of the snapshot loop
    Ttl      \* ticks a snapshot key lives, snapshot_ttl_sec

\* Nothing in the settings relates the two (settings.py:28-30).
ASSUME PeriodAssumption == Period \in Nat \ {0}
ASSUME TtlAssumption == Ttl \in Nat \ {0}

VARIABLES
    bots,      \* the orchestrator's running bots
    rows,      \* credentials in the table
    deleted,   \* and those that were
    pc,        \* where the balance loop is
    running,   \* its snapshot of bots: whose positions it has still to poll
    todo,      \* credentials this pass has listed and not tried yet
    stale,     \* cached adapters still to be closed
    cached,    \* _balance_adapters: whose adapter is cached
    live,      \* ghost: of each credential, adapters built and not closed
    killer,    \* ghost: the unguarded publish that raised, or "none"
    beat,      \* the heartbeat loop: "live" or "ended"
    snap,      \* where the snapshot loop is,
    writing,   \* bots whose key this pass has still to write,
    timer,     \* and ticks until the next pass
    ttl,       \* of each bot, ticks its key has left; 0: no key
    written,   \* ghost: running bots whose key was written since they started
    missed,    \* ghost: of those, failed SETs since the last good one, up to Ttl
    stopped,   \* the stop event, set by SIGTERM
    engine     \* "up", or "down" after orchestrator.shutdown()

balanceVars == <<pc, running, todo, stale, cached, live, killer>>
snapshotVars == <<snap, writing, timer, ttl, written, missed>>
tableVars == <<rows, deleted>>
vars == <<bots, tableVars, balanceVars, beat, snapshotVars, stopped,
          engine>>

TypeOK ==
    /\ bots \subseteq Bots
    /\ rows \subseteq Creds /\ deleted \subseteq Creds
    /\ pc \in {"sleep", "list", "listReport", "close", "poll", "report",
               "positions", "finally", "ended"}
    /\ running \subseteq Bots
    /\ todo \subseteq Creds
    /\ stale \subseteq cached /\ cached \subseteq Creds
    /\ live \in [Creds -> Nat]
    /\ killer \in {"none", "listReport", "report"}
    /\ beat \in {"live", "ended"}
    /\ snap \in {"sleep", "write", "ended"}
    /\ writing \subseteq Bots
    /\ timer \in 0..Period
    /\ ttl \in [Bots -> 0..Ttl]
    /\ written \subseteq bots
    /\ missed \in [Bots -> 0..Ttl]
    /\ stopped \in BOOLEAN
    /\ engine \in {"up", "down"}

Init ==
    /\ bots = {} /\ rows = {} /\ deleted = {}
    /\ pc = "sleep" /\ running = {} /\ todo = {} /\ stale = {}
    /\ cached = {} /\ live = [c \in Creds |-> 0] /\ killer = "none"
    /\ beat = "live"
    /\ snap = "sleep" /\ writing = {} /\ timer = 0
    /\ ttl = [b \in Bots |-> 0]
    /\ written = {} /\ missed = [b \in Bots |-> 0]
    /\ stopped = FALSE /\ engine = "up"

-----------------------------------------------------------------------------
(* The rest of the engine and the dashboard's side of the database *)

BotStarts(b) ==
    /\ engine = "up" /\ b \notin bots
    /\ bots' = bots \cup {b}
    /\ UNCHANGED <<tableVars, balanceVars, beat, snapshotVars, stopped, engine>>

BotStops(b) ==
    /\ b \in bots
    /\ bots' = bots \ {b}
    /\ written' = written \ {b}
    /\ UNCHANGED <<tableVars, balanceVars, beat, snap, writing, timer,
                   ttl, missed, stopped, engine>>

StoreCredential(c) ==
    /\ c \notin rows \cup deleted
    /\ rows' = rows \cup {c}
    /\ UNCHANGED <<bots, deleted, balanceVars, beat, snapshotVars,
                   stopped, engine>>

DeleteCredential(c) ==
    /\ c \in rows
    /\ rows' = rows \ {c}
    /\ deleted' = deleted \cup {c}
    /\ UNCHANGED <<bots, balanceVars, beat, snapshotVars, stopped, engine>>

-----------------------------------------------------------------------------
(* The balance loop *)

\* Seeded fault: a pass begins although the stop event is set.
BeginPassAnyway ==
    /\ pc = "sleep"
    /\ pc' = "list"
    /\ running' = bots
    /\ UNCHANGED <<todo, stale, cached, live, killer>>

\* The `running` list is taken here and used after every await of the pass.
BeginPass ==
    /\ pc = "sleep" /\ ~stopped
    /\ pc' = "list"
    /\ running' = bots
    /\ UNCHANGED <<todo, stale, cached, live, killer>>

\* The loop is left, by its condition or by an exception, for the finally.
EnterFinally(why) ==
    /\ pc' = "finally"
    /\ stale' = cached
    /\ killer' = why
    /\ UNCHANGED <<running, todo, cached, live>>

LeaveLoop ==
    /\ pc = "sleep" /\ stopped
    /\ EnterFinally("none")

\* list_decrypted raises as a whole: one row that cannot be decrypted is enough,
\* and then no credential at all is polled in this pass.
ListCredentials ==
    /\ pc = "list"
    /\ \/ /\ todo' = rows
          /\ stale' = cached \ rows
          /\ pc' = "close"
       \/ /\ pc' = "listReport"
          /\ UNCHANGED <<todo, stale>>
    /\ UNCHANGED <<running, cached, live, killer>>

\* The publish of `balance_poll_failed` after a failed listing is not guarded.
ListReport ==
    /\ pc = "listReport"
    /\ \/ /\ pc' = "positions" /\ todo' = {}
          /\ UNCHANGED <<running, stale, cached, live, killer>>
       \/ EnterFinally("listReport")

\* pop, then close() under suppress(Exception).
CloseOne(c) ==
    /\ pc \in {"close", "finally"} /\ c \in stale
    /\ stale' = stale \ {c}
    /\ cached' = cached \ {c}
    /\ live' = [live EXCEPT ![c] = @ - 1]
    /\ UNCHANGED <<pc, running, todo, killer>>

CloseDone ==
    /\ pc \in {"close", "finally"} /\ stale = {}
    /\ pc' = IF pc = "close" THEN "poll" ELSE "ended"
    /\ UNCHANGED <<running, todo, stale, cached, live, killer>>

Build(c) ==
    /\ cached' = cached \cup {c}
    /\ live' = [live EXCEPT ![c] = @ + 1]

\* Seeded fault: an adapter is built although one is cached.
PollRebuilding(c) ==
    /\ pc = "poll" /\ c \in todo
    /\ todo' = todo \ {c}
    /\ pc' \in {"poll", "report"}
    /\ Build(c)
    /\ UNCHANGED <<running, stale, killer>>

\* The factory, get_balance and the publish are in one try: whichever raises,
\* the error is reported and the next credential is polled.
Poll(c) ==
    /\ pc = "poll" /\ c \in todo
    /\ todo' = todo \ {c}
    /\ \/ pc' \in {"poll", "report"} /\ c \notin cached /\ Build(c)
       \/ pc' \in {"poll", "report"} /\ c \in cached /\ UNCHANGED <<cached, live>>
       \/ pc' = "report" /\ c \notin cached /\ UNCHANGED <<cached, live>>
    /\ UNCHANGED <<running, stale, killer>>

\* _publish_balance_error: its publish is not guarded, its SET is.
Report ==
    /\ pc = "report"
    /\ \/ /\ pc' = "poll"
          /\ UNCHANGED <<running, todo, stale, cached, live, killer>>
       \/ EnterFinally("report")

PollDone ==
    /\ pc = "poll" /\ todo = {}
    /\ pc' = "positions"
    /\ UNCHANGED <<running, todo, stale, cached, live, killer>>

\* Guarded per bot; the bot may have stopped since, and its adapter be closed.
QueryPositions(b) ==
    /\ pc = "positions" /\ b \in running
    /\ running' = running \ {b}
    /\ UNCHANGED <<pc, todo, stale, cached, live, killer>>

\* _record_balance_poll_success, guarded, and back to sleep.
RecordPass ==
    /\ pc = "positions" /\ running = {}
    /\ pc' = "sleep"
    /\ UNCHANGED <<running, todo, stale, cached, live, killer>>

BalanceStep ==
    \/ BeginPass \/ LeaveLoop \/ ListCredentials \/ ListReport \/ CloseDone
    \/ Report \/ PollDone \/ RecordPass
    \/ \E c \in Creds : CloseOne(c) \/ Poll(c)
    \/ \E b \in Bots : QueryPositions(b)

BalanceLoop ==
    /\ BalanceStep
    /\ UNCHANGED <<bots, tableVars, beat, snapshotVars, stopped, engine>>

-----------------------------------------------------------------------------
(* The heartbeat loop *)

\* Seeded fault: a publish that raises ends the loop.
HeartbeatUnguarded ==
    /\ beat = "live"
    /\ beat' = "ended"
    /\ UNCHANGED <<bots, tableVars, balanceVars, snapshotVars, stopped, engine>>

\* An iteration publishes the running bots, guarded, and changes nothing here:
\* whatever the publish does, only a stop ends the loop.
Heartbeat ==
    /\ beat = "live" /\ stopped
    /\ beat' = "ended"
    /\ UNCHANGED <<bots, tableVars, balanceVars, snapshotVars, stopped, engine>>

-----------------------------------------------------------------------------
(* The snapshot loop *)

\* Seeded fault: bots that are no longer running are listed as well.
SnapshotBeginAll ==
    /\ snap = "sleep" /\ timer = 0 /\ ~stopped
    /\ snap' = "write"
    /\ writing' = Bots
    /\ UNCHANGED <<timer, ttl, written, missed>>

SnapshotBegin ==
    /\ snap = "sleep" /\ timer = 0 /\ ~stopped
    /\ snap' = "write"
    /\ writing' = bots
    /\ UNCHANGED <<timer, ttl, written, missed>>

\* SET engine:state:<bot> EX ttl, guarded per bot: a bot that stopped since
\* the pass began gets its key all the same.
SnapshotWrite(b) ==
    /\ snap = "write" /\ b \in writing
    /\ writing' = writing \ {b}
    /\ \/ /\ ttl' = [ttl EXCEPT ![b] = Ttl]
          /\ written' = written \cup ({b} \cap bots)
          /\ missed' = [missed EXCEPT ![b] = 0]
       \/ /\ missed' = [missed EXCEPT ![b] = IF b \in written /\ @ < Ttl THEN @ + 1 ELSE @]
          /\ UNCHANGED <<ttl, written>>
    /\ UNCHANGED <<snap, timer>>

\* Seeded fault: the pause is that of the heartbeat, twice as long.
SnapshotEndSlow ==
    /\ snap = "write" /\ writing = {}
    /\ snap' = "sleep"
    /\ timer' = 2 * Period
    /\ UNCHANGED <<writing, ttl, written, missed>>

SnapshotEnd ==
    /\ snap = "write" /\ writing = {}
    /\ snap' = "sleep"
    /\ timer' = Period
    /\ UNCHANGED <<writing, ttl, written, missed>>

SnapshotStops ==
    /\ snap = "sleep" /\ stopped
    /\ snap' = "ended"
    /\ UNCHANGED <<writing, timer, ttl, written, missed>>

SnapshotLoop ==
    /\ SnapshotBegin \/ SnapshotEnd \/ SnapshotStops
       \/ \E b \in Bots : SnapshotWrite(b)
    /\ UNCHANGED <<bots, tableVars, balanceVars, beat, stopped, engine>>

\* Time passes while the snapshot loop sleeps, whatever the others do, and
\* after it has ended.
Tick ==
    /\ \/ snap = "sleep" /\ timer > 0 /\ ~stopped
       \/ snap = "ended" /\ \E b \in Bots : ttl[b] > 0
    /\ timer' = IF timer > 0 THEN timer - 1 ELSE 0
    /\ ttl' = [b \in Bots |-> IF ttl[b] > 0 THEN ttl[b] - 1 ELSE 0]
    /\ UNCHANGED <<bots, tableVars, balanceVars, beat, snap, writing,
                   written, missed, stopped, engine>>

-----------------------------------------------------------------------------
(* The task and the process *)

\* The TaskGroup: the balance loop has raised, its siblings are cancelled.
CancelSiblings ==
    /\ pc = "ended" /\ killer # "none"
    /\ beat = "live" \/ snap # "ended"
    /\ beat' = "ended"
    /\ snap' = "ended"
    /\ UNCHANGED <<bots, tableVars, balanceVars, writing, timer, ttl,
                   written, missed, stopped, engine>>

Signal ==
    /\ ~stopped
    /\ stopped' = TRUE
    /\ UNCHANGED <<bots, tableVars, balanceVars, beat, snapshotVars, engine>>

TaskOver == pc = "ended" /\ beat = "ended" /\ snap = "ended"

\* engine_main: gather(return_exceptions=True), then orchestrator.shutdown().
Shutdown ==
    /\ stopped /\ TaskOver /\ engine = "up"
    /\ engine' = "down"
    /\ bots' = {}
    /\ written' = {}
    /\ UNCHANGED <<tableVars, balanceVars, beat, snap, writing, timer,
                   ttl, missed, stopped>>

Environment ==
    \/ \E b \in Bots : BotStarts(b) \/ BotStops(b)
    \/ \E c \in Creds : StoreCredential(c) \/ DeleteCredential(c)

Next ==
    \/ Environment \/ BalanceLoop \/ Heartbeat \/ SnapshotLoop \/ Tick
    \/ CancelSiblings \/ Signal \/ Shutdown

\* Every call returns or raises in the end, and the clock runs.
Fairness ==
    /\ WF_vars(BalanceLoop) /\ WF_vars(Heartbeat) /\ WF_vars(SnapshotLoop)
    /\ WF_vars(Tick) /\ WF_vars(CancelSiblings) /\ WF_vars(Shutdown)

Spec == Init /\ [][Next]_vars /\ Fairness

-----------------------------------------------------------------------------
(* What must hold *)

\* No adapter leaks: an adapter that was built and not closed is the cached one
\* of its credential, and once the loop is over, however it ended, none is open.
NoAdapterLeaks ==
    /\ \A c \in Creds : live[c] = IF c \in cached THEN 1 ELSE 0
    /\ pc = "ended" => cached = {}

\* Without a stop the loops end for one reason only: a credential listing or a
\* balance poll failed, and then the publish of its log event failed as well.
\* No failure of the heartbeat, the snapshots, the positions or a close() does.
OnlyReportsKill ==
    (TaskOver \/ beat = "ended" \/ snap = "ended" \/ pc \in {"finally", "ended"})
        => stopped \/ killer # "none"

\* While the snapshot loop is there, the key of a running bot expires only
\* after so many failed SETs in a row that they fill its time to live.
SnapshotSurvives ==
    \A b \in written :
        snap # "ended" /\ ttl[b] = 0 => Period * (missed[b] + 1) >= Ttl

\* A stop ends the engine, whichever loop was in the middle of what, and also
\* when the state task has died before.
StopEndsEngine == stopped ~> engine = "down"

\* A stopped bot, or a dead engine, is not shown as running for ever: its key
\* expires even if a pass that had listed it writes the key once more.
StaleKeysExpire == \A b \in Bots : b \notin bots ~> ttl[b] = 0 \/ b \in bots
=============================================================================
