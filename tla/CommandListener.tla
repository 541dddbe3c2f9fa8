--------------------------- MODULE CommandListener ---------------------------
(***************************************************************************)
(* CommandListener (infrastructure/command_listener.py) together with the  *)
(* three things it stands between: the bot_commands rows the backend       *)
(* inserts (db_repositories.py), the pub/sub channel it also publishes     *)
(* them on, and the dedup keys in Redis.  One asyncio task takes a command *)
(* from either source, claims it with SET NX EX, calls the orchestrator    *)
(* and sets processed_at.  Each await of that task is a step here, so a    *)
(* crash, the backend and the clock may come between any two of them.      *)
(*                                                                         *)
(* Commands are numbered in the order of created_at.  Time is counted in   *)
(* abstract ticks.  The orchestrator is reduced to the set of bots it runs *)
(* (Orchestrator.tla refines that).                                        *)
(***************************************************************************)
EXTENDS Naturals, Sequences, FiniteSets

CONSTANTS
    Bots,          \* bot ids
    MaxCommands,   \* bound: how many commands the backend issues
    MaxPublish,    \* bound: how often it publishes one command
    MaxTime,       \* bound: the last tick of the clock
    BatchSize,     \* pending_batch_size
    MaxAge,        \* list_pending's max_age_sec
    DedupTtl,      \* dedup_ttl_sec
    Linger,        \* how long past MaxAge a copy may wait to be claimed
    Junk,          \* messages that name no command (bad JSON, no command_id),
    Poison,        \* those of them that are JSON, but not an object
    UserKinds,     \* the kinds of command the backend issues
    MayCrash,      \* the process may be killed at any await
    RedisMayFail,  \* get_message and SET may raise
    DbMayFail      \* list_pending and mark_processed may raise

ASSUME BoundsAssumption ==
    /\ MaxCommands \in Nat /\ MaxPublish \in Nat /\ MaxTime \in Nat
    /\ BatchSize \in Nat \ {0}
    /\ MaxAge \in Nat /\ Linger \in Nat /\ DedupTtl \in Nat \ {0}
    /\ Bots # {}
    /\ Junk \cap Nat = {} /\ Poison \subseteq Junk
    /\ UserKinds \subseteq {"start", "stop", "update"}

ASSUME SwitchesAssumption ==
    {MayCrash, RedisMayFail, DbMayFail} \subseteq BOOLEAN

Commands == 1..MaxCommands
Kinds == {"start", "stop", "update"}

VARIABLES
    now,         \* the clock that created_at and the key TTLs are read on
    issued,      \* commands 1..issued have a row
    kind, bot, created,  \* their columns
    processed,   \* the commands whose row carries processed_at
    status,      \* bots.status: "up" = starting/running, "down" = stopping/stopped
    published,   \* how often each command went out on its channel
    keys,        \* dedup key of a command: tick at which it expires, 0 if never set
    channel,     \* messages buffered for the subscribed listener, oldest first
    pc,          \* where the listener task is
    batch,       \* what list_pending returned and is still to do
    cur,         \* the command in hand
    src,         \* and where it came from
    stopping,    \* _stopped is set
    running,     \* bots the orchestrator runs
    dispatched,  \* ghost: how often the orchestrator was called with a command
    claims,      \* ghost: how often the dedup key of a command was set
    via,         \* ghost: the source it was last called from
    applied      \* ghost: commands whose handler returned in this process life

backendVars == <<issued, kind, bot, created, status>>
keyVars == <<keys, claims>>
engineVars == <<running, dispatched, via, applied>>
vars == <<now, backendVars, processed, published, keyVars, channel, pc, batch,
          cur, src, stopping, engineVars>>

Locations == {"off", "poll", "batch", "recv", "loop", "claim", "claimed",
              "handling", "mark", "dead"}

TypeOK ==
    /\ now \in Nat
    /\ issued \in 0..MaxCommands
    /\ kind \in [Commands -> Kinds]
    /\ bot \in [Commands -> Bots]
    /\ created \in [Commands -> Nat]
    /\ processed \subseteq 1..issued
    /\ status \in [Bots -> {"up", "down"}]
    /\ published \in [Commands -> Nat]
    /\ keys \in [Commands -> Nat]
    /\ channel \in Seq((1..issued) \cup Junk)
    /\ pc \in Locations
    /\ batch \subseteq 1..issued
    /\ cur \in 0..issued
    /\ src \in {"none", "db", "pubsub"}
    /\ stopping \in BOOLEAN
    /\ running \subseteq Bots
    /\ dispatched \in [Commands -> Nat] /\ claims \in [Commands -> Nat]
    /\ via \in [Commands -> {"none", "db", "pubsub"}]
    /\ applied \subseteq 1..issued

-----------------------------------------------------------------------------
(* Helpers *)

HasKey(c) == now < keys[c]
Subscribed == pc \notin {"off", "dead"}
InChannel(c) == \E i \in DOMAIN channel : channel[i] = c
Holding == pc \in {"claim", "claimed", "handling", "mark"}

\* A copy that is still to be claimed: listed, buffered, or in hand.
InFlight(c) == c \in batch \/ InChannel(c) \/ (pc = "claim" /\ cur = c)

\* The WHERE clause of list_pending.
Eligible(c) ==
    /\ c \in 1..issued \ processed
    /\ now <= created[c] + MaxAge
    /\ status[bot[c]] = (IF kind[c] = "stop" THEN "down" ELSE "up")

\* Its ORDER BY created_at and LIMIT.
Listed ==
    {c \in Commands :
        /\ Eligible(c)
        /\ Cardinality({d \in Commands : d < c /\ Eligible(d)}) < BatchSize}

Init ==
    /\ now = 0
    /\ issued = 0
    /\ kind = [c \in Commands |-> "start"]
    /\ bot = [c \in Commands |-> CHOOSE b \in Bots : TRUE]
    /\ created = [c \in Commands |-> 0]
    /\ processed = {}
    /\ status = [b \in Bots |-> "down"]
    /\ published = [c \in Commands |-> 0]
    /\ keys = [c \in Commands |-> 0]
    /\ channel = <<>>
    /\ pc = "off"
    /\ batch = {}
    /\ cur = 0
    /\ src = "none"
    /\ stopping = FALSE
    /\ running = {}
    /\ dispatched = [c \in Commands |-> 0]
    /\ claims = [c \in Commands |-> 0]
    /\ via = [c \in Commands |-> "none"]
    /\ applied = {}

-----------------------------------------------------------------------------
(* The backend and the clock *)

\* The backend records the user's wish: bots.status and the command's row, in
\* one transaction.  It updates only a bot it believes up.
Issue(b, k) ==
    LET c == issued + 1 IN
    /\ issued < MaxCommands
    /\ k = "update" => status[b] = "up"
    /\ issued' = c
    /\ bot' = [bot EXCEPT ![c] = b]
    /\ kind' = [kind EXCEPT ![c] = k]
    /\ created' = [created EXCEPT ![c] = now]
    /\ status' = [status EXCEPT ![b] = IF k = "stop" THEN "down" ELSE "up"]
    /\ UNCHANGED <<now, processed, published, keyVars, channel, pc, batch, cur,
                   src, stopping, engineVars>>

\* ... and publishes it: some time later, perhaps again, in any order.  Redis
\* forgets a message nobody is subscribed to.
Publish(c) ==
    /\ c <= issued
    /\ published[c] < MaxPublish
    /\ now <= created[c] + MaxAge + Linger
    /\ published' = [published EXCEPT ![c] = @ + 1]
    /\ channel' = IF Subscribed THEN Append(channel, c) ELSE channel
    /\ UNCHANGED <<now, backendVars, processed, keyVars, pc, batch, cur, src,
                   stopping, engineVars>>

\* One stray message at a time is enough to interleave with everything.
PublishJunk(j) ==
    /\ Subscribed
    /\ \A i \in DOMAIN channel : channel[i] \notin Junk
    /\ channel' = Append(channel, j)
    /\ UNCHANGED <<now, backendVars, processed, published, keyVars, pc, batch, cur,
                   src, stopping, engineVars>>

\* Time passes, but no copy waits unclaimed beyond MaxAge + Linger.
Tick ==
    /\ now < MaxTime
    /\ \A c \in Commands : InFlight(c) => now < created[c] + MaxAge + Linger
    /\ now' = now + 1
    /\ UNCHANGED <<backendVars, processed, published, keyVars, channel, pc, batch,
                   cur, src, stopping, engineVars>>

-----------------------------------------------------------------------------
(* The listener task: run() and _process_pending_commands() *)

\* A new process subscribes and enters the loop; SIGTERM may come before that.
Boot ==
    /\ pc = "off"
    /\ pc' = "loop"
    /\ UNCHANGED <<now, backendVars, processed, published, keyVars, channel, batch,
                   cur, src, stopping, engineVars>>

\* subscribe raises, and like get_message it ends the task.
BootFails ==
    /\ RedisMayFail /\ pc = "off"
    /\ pc' = "dead"
    /\ UNCHANGED <<now, backendVars, processed, published, keyVars, channel, batch,
                   cur, src, stopping, engineVars>>

\* The head of the loop, pending_poll_interval_sec having passed or not (right
\* after the boot it always has; here that poll may be late like any other).
PollDue ==
    /\ pc = "loop" /\ ~stopping
    /\ pc' = "poll"
    /\ UNCHANGED <<now, backendVars, processed, published, keyVars, channel, batch,
                   cur, src, stopping, engineVars>>

PollNotDue ==
    /\ pc = "loop" /\ ~stopping
    /\ pc' = "recv"
    /\ UNCHANGED <<now, backendVars, processed, published, keyVars, channel, batch,
                   cur, src, stopping, engineVars>>

ListPending ==
    /\ pc = "poll"
    /\ batch' = Listed
    /\ pc' = "batch"
    /\ UNCHANGED <<now, backendVars, processed, published, keyVars, channel, cur,
                   src, stopping, engineVars>>

\* list_pending raises: logged, and the loop goes on without a batch.
ListPendingFails ==
    /\ DbMayFail /\ pc = "poll"
    /\ pc' = "recv"
    /\ UNCHANGED <<now, backendVars, processed, published, keyVars, channel, batch,
                   cur, src, stopping, engineVars>>

\* Seeded fault: the batch is worked off from its newest command.
TakeNewestFromBatch ==
    /\ pc = "batch"
    /\ \E c \in batch :
           /\ \A d \in batch : d <= c
           /\ cur' = c
           /\ batch' = batch \ {c}
    /\ src' = "db"
    /\ pc' = "claim"
    /\ UNCHANGED <<now, backendVars, processed, published, keyVars, channel,
                   stopping, engineVars>>

TakeFromBatch ==
    /\ pc = "batch"
    /\ \E c \in batch :
           /\ \A d \in batch : c <= d
           /\ cur' = c
           /\ batch' = batch \ {c}
    /\ src' = "db"
    /\ pc' = "claim"
    /\ UNCHANGED <<now, backendVars, processed, published, keyVars, channel,
                   stopping, engineVars>>

BatchDone ==
    /\ pc = "batch" /\ batch = {}
    /\ pc' = "recv"
    /\ UNCHANGED <<now, backendVars, processed, published, keyVars, channel, batch,
                   cur, src, stopping, engineVars>>

\* Seeded fault: a stray message is taken for a command.
ReceiveUnfiltered ==
    /\ pc = "recv" /\ channel # <<>>
    /\ pc' = "claim"
    /\ cur' = Head(channel)
    /\ src' = "pubsub"
    /\ channel' = Tail(channel)
    /\ UNCHANGED <<now, backendVars, processed, published, keyVars, batch,
                   stopping, engineVars>>

\* get_message: nothing within its timeout, a stray message, or a command.
Receive ==
    /\ pc = "recv"
    /\ channel # <<>> => Head(channel) \notin Poison
    /\ IF channel = <<>> \/ Head(channel) \in Junk
       THEN /\ pc' = "loop"
            /\ UNCHANGED <<cur, src>>
       ELSE /\ pc' = "claim"
            /\ cur' = Head(channel)
            /\ src' = "pubsub"
    /\ channel' = IF channel = <<>> THEN channel ELSE Tail(channel)
    /\ UNCHANGED <<now, backendVars, processed, published, keyVars, batch,
                   stopping, engineVars>>

\* JSON that is not an object passes json.loads, and payload.get raises out of
\* run(), as nothing there catches it.
ReceiveRaises ==
    /\ pc = "recv" /\ channel # <<>> /\ Head(channel) \in Poison
    /\ pc' = "dead"
    /\ channel' = <<>>
    /\ UNCHANGED <<now, backendVars, processed, published, keyVars, batch, cur,
                   src, stopping, engineVars>>

\* get_message raises: run() has no handler for it, the task ends unsubscribed
\* and nobody looks at it before shutdown.
ReceiveFails ==
    /\ RedisMayFail /\ pc = "recv"
    /\ pc' = "dead"
    /\ channel' = <<>>
    /\ UNCHANGED <<now, backendVars, processed, published, keyVars, batch, cur,
                   src, stopping, engineVars>>

\* The key is set: SET EX.
SetKey(c) ==
    /\ keys' = [keys EXCEPT ![c] = now + DedupTtl]
    /\ claims' = [claims EXCEPT ![c] = @ + 1]

\* Seeded fault: SET without NX, every copy wins the claim.
ClaimWithoutNX ==
    /\ pc = "claim"
    /\ SetKey(cur)
    /\ pc' = "claimed"
    /\ UNCHANGED <<now, backendVars, processed, published, channel, batch, cur,
                   src, stopping, engineVars>>

\* _claim: SET key NX EX.  The loser is a duplicate, and its row is marked.
Claim ==
    /\ pc = "claim"
    /\ IF HasKey(cur)
       THEN pc' = "mark" /\ UNCHANGED keyVars
       ELSE pc' = "claimed" /\ SetKey(cur)
    /\ UNCHANGED <<now, backendVars, processed, published, channel, batch, cur,
                   src, stopping, engineVars>>

\* Seeded fault: the batch loop marks the row of a command that raised.
RaiseAndMark ==
    IF src = "db"
    THEN pc' = "mark" /\ UNCHANGED channel
    ELSE pc' = "dead" /\ channel' = <<>>

\* Where an exception of _process_payload leads: caught per command in the
\* batch loop, and out of run() from _handle_message.
Raise ==
    IF src = "db"
    THEN pc' = "batch" /\ UNCHANGED channel
    ELSE pc' = "dead" /\ channel' = <<>>

\* SET raises: it was not executed, or it was and its reply got lost.
ClaimFails ==
    /\ RedisMayFail /\ pc = "claim"
    /\ \/ UNCHANGED keyVars
       \/ ~HasKey(cur) /\ SetKey(cur)
    /\ Raise
    /\ UNCHANGED <<now, backendVars, processed, published, batch, cur, src,
                   stopping, engineVars>>

\* The handler of the dispatch table is called.
Dispatch ==
    /\ pc = "claimed"
    /\ pc' = "handling"
    /\ dispatched' = [dispatched EXCEPT ![cur] = @ + 1]
    /\ via' = [via EXCEPT ![cur] = src]
    /\ UNCHANGED <<now, backendVars, processed, published, keyVars, channel, batch,
                   cur, src, stopping, running, applied>>

Returned(bots, ok) ==
    /\ running' = bots
    /\ applied' = IF ok THEN applied \cup {cur} ELSE applied
    /\ pc' = "mark"
    /\ UNCHANGED <<now, backendVars, processed, published, keyVars, channel, batch,
                   cur, src, stopping, dispatched, via>>

\* start_strategy: ignored if running; else it starts, or raises with or
\* without the bot left running.
HandleStart ==
    /\ pc = "handling" /\ kind[cur] = "start"
    /\ \/ Returned(running \cup {bot[cur]}, TRUE)
       \/ bot[cur] \notin running
          /\ \E left \in SUBSET {bot[cur]} : Returned(running \cup left, FALSE)

\* stop_strategy swallows whatever the task and the adapter raise.
HandleStop ==
    /\ pc = "handling" /\ kind[cur] = "stop"
    /\ Returned(running \ {bot[cur]}, TRUE)

\* update_strategy stops the bot if it runs, and starts it in any case.
HandleUpdate ==
    /\ pc = "handling" /\ kind[cur] = "update"
    /\ \/ Returned(running \cup {bot[cur]}, TRUE)
       \/ \E left \in SUBSET {bot[cur]} :
              Returned((running \ {bot[cur]}) \cup left, FALSE)

\* Seeded fault: only the commands of the channel are marked.
MarkChannelOnly ==
    /\ pc = "mark"
    /\ processed' = IF src = "pubsub" THEN processed \cup {cur} ELSE processed
    /\ pc' = IF src = "db" THEN "batch" ELSE "loop"
    /\ UNCHANGED <<now, backendVars, published, keyVars, channel, batch, cur, src,
                   stopping, engineVars>>

\* _mark_pending_processed, then the next command of the batch or the loop.
MarkProcessed ==
    /\ pc = "mark"
    /\ processed' = processed \cup {cur}
    /\ pc' = IF src = "db" THEN "batch" ELSE "loop"
    /\ UNCHANGED <<now, backendVars, published, keyVars, channel, batch, cur, src,
                   stopping, engineVars>>

MarkProcessedFails ==
    /\ DbMayFail /\ pc = "mark"
    /\ pc' = IF src = "db" THEN "batch" ELSE "loop"
    /\ UNCHANGED <<now, backendVars, processed, published, keyVars, channel, batch,
                   cur, src, stopping, engineVars>>

-----------------------------------------------------------------------------
(* The process around the task: engine_main.py *)

\* SIGTERM: listener.stop() sets the flag the loop head reads.
StopSignal ==
    /\ pc # "off" /\ ~stopping
    /\ stopping' = TRUE
    /\ UNCHANGED <<now, backendVars, processed, published, keyVars, channel, pc,
                   batch, cur, src, engineVars>>

ProcessEnds ==
    /\ pc' = "off"
    /\ channel' = <<>>
    /\ batch' = {}
    /\ cur' = 0
    /\ src' = "none"
    /\ stopping' = FALSE
    /\ running' = {}
    /\ applied' = {}
    /\ UNCHANGED <<now, backendVars, processed, published, keyVars, dispatched, via>>

\* Seeded fault: shutdown cancels the listener task instead of awaiting it.
ExitCancelling == stopping /\ ProcessEnds

\* The loop has seen the flag, or the task had died; the orchestrator is shut
\* down and the process ends.
Exit ==
    /\ stopping /\ pc \in {"loop", "dead"}
    /\ ProcessEnds

Crash ==
    /\ MayCrash /\ pc # "off"
    /\ ProcessEnds

-----------------------------------------------------------------------------

Backend ==
    \/ \E b \in Bots, k \in UserKinds : Issue(b, k)
    \/ \E c \in Commands : Publish(c)
    \/ \E j \in Junk : PublishJunk(j)

Handle == HandleStart \/ HandleStop \/ HandleUpdate

Task ==
    \/ Boot \/ BootFails \/ PollDue \/ PollNotDue \/ ListPending \/ ListPendingFails
    \/ TakeFromBatch \/ BatchDone
    \/ Receive \/ ReceiveRaises \/ ReceiveFails
    \/ Claim \/ ClaimFails \/ Dispatch \/ Handle
    \/ MarkProcessed \/ MarkProcessedFails
    \/ Exit

Next == Backend \/ Tick \/ Task \/ StopSignal \/ Crash

Spec == Init /\ [][Next]_vars

\* The event loop runs a ready task, awaits return, a supervisor restarts the
\* process, and the poll interval of a loop that goes round passes: WF of every
\* step of the task, SF of the poll coming due.  A call that may raise
\* succeeds if it is retried for ever: SF of ListPending, Claim, MarkProcessed.
Fairness ==
    /\ WF_vars(Task)
    /\ SF_vars(PollDue) /\ SF_vars(ListPending) /\ SF_vars(Claim)
    /\ SF_vars(MarkProcessed)

FairSpec == Spec /\ Fairness

-----------------------------------------------------------------------------
(* Properties *)

\* A command reaches the orchestrator again only when its dedup key has expired
\* while a copy of it still travelled (a late publish, a row listed again
\* because processed_at could not be set), however often the process dies: n
\* calls more take n lives of the key since the command was created, all within
\* the time a copy may travel.  So a key that outlives the copies lets no command
\* through twice.  The default, a day for the key as for max_age_sec, does not.
OncePerKeyLife ==
    \A c \in Commands : dispatched[c] > 0 =>
        LET more == (dispatched[c] - 1) * DedupTtl
        IN more <= now - created[c] /\ more <= MaxAge + Linger

\* processed_at is set only on a command the orchestrator was called with:
\* "the key existed" means "already handled", as the module's docstring has it.
ProcessedWasHandled == \A c \in processed : dispatched[c] > 0

LastOf(b) ==
    LET mine == {c \in 1..issued : bot[c] = b}
    IN  {c \in mine : \A d \in mine : d <= c}

\* Once the listener is idle with nothing left to list, a bot does what its
\* latest command said, however failures, retries and reversals of the user
\* interleaved -- for a bot whose commands were all taken from the database and
\* claimed once, and provided the latest one was handled in this process life.
ConvergesWhenPolled ==
    (pc = "loop" /\ \A c \in Commands : ~Eligible(c)) =>
        \A b \in Bots : \A last \in LastOf(b) :
            (/\ last \in applied
             /\ \A c \in 1..issued :
                    bot[c] = b => via[c] # "pubsub" /\ claims[c] <= 1)
            => (b \in running <=> status[b] = "up")

\* Outlived by the clock or reversed by the user.
Stale(c) ==
    \/ now > created[c] + MaxAge
    \/ status[bot[c]] # (IF kind[c] = "stop" THEN "down" ELSE "up")

\* A pending command is not forgotten: unless it goes stale first, the
\* orchestrator is eventually called with it, though database calls fail,
\* batches are limited and the process is stopped and started at will.
EventuallyHandled ==
    \A c \in Commands : Eligible(c) ~> (dispatched[c] > 0 \/ Stale(c))

\* The claims on a command that have been used or lost: all but one whose
\* handler is about to be called.
Spent ==
    [c \in Commands |-> IF pc = "claimed" /\ cur = c THEN claims[c] - 1 ELSE claims[c]]

Delivery == INSTANCE CommandDelivery
    WITH KeyLife <- DedupTtl, CopyLife <- MaxAge + Linger,
         rows <- 1..issued, attempts <- Spent, delivered <- dispatched,
         retired <- processed

\* The listener implements the abstract delivery of commands: attempts to
\* deliver, a key's life apart, each of which delivers once or is lost, and a
\* row that is retired only after an attempt.
DeliveryRefined == Delivery!Spec
=============================================================================
