--------------------------- MODULE CommandDelivery ---------------------------
(***************************************************************************)
(* What the control plane promises about a command the backend has issued, *)
(* with no Redis, no batches and no listener in sight.  A command with a   *)
(* row is attempted, and an attempt either delivers it to the orchestrator *)
(* or is lost; the next one may not come before a further KeyLife of the   *)
(* time a copy of the command may travel has passed.  With a KeyLife above *)
(* CopyLife there is a single attempt, and a command is delivered once or  *)
(* never.  The row is retired (processed_at is set) only after an attempt. *)
(*                                                                         *)
(* A lost attempt is the price of claiming a command before handling it;   *)
(* CommandListener shows that only a crash or a Redis reply that never     *)
(* arrives pays it.                                                        *)
(***************************************************************************)
EXTENDS Naturals

CONSTANTS
    Commands,  \* the command ids the backend may issue
    KeyLife,   \* how long an attempt keeps others away
    CopyLife   \* how long after its issue a command may be attempted

VARIABLES
    rows,       \* the commands that were issued
    attempts,   \* how often each was attempted,
    delivered,  \* and how often the orchestrator was called with it
    retired     \* the commands whose row carries processed_at

vars == <<rows, attempts, delivered, retired>>

Init ==
    /\ rows = {} /\ retired = {}
    /\ attempts = [c \in Commands |-> 0]
    /\ delivered = [c \in Commands |-> 0]

\* The backend inserts the command's row.
Issue(c) ==
    /\ c \notin rows
    /\ rows' = rows \cup {c}
    /\ UNCHANGED <<attempts, delivered, retired>>

Attempt(c) ==
    /\ c \in rows
    /\ attempts[c] * KeyLife <= CopyLife
    /\ attempts' = [attempts EXCEPT ![c] = @ + 1]
    /\ UNCHANGED <<rows, retired>>

\* The orchestrator is called with the command.
Deliver(c) ==
    /\ Attempt(c)
    /\ delivered' = [delivered EXCEPT ![c] = @ + 1]

\* The claim on the command outlives the process that took it.
Lose(c) == Attempt(c) /\ UNCHANGED delivered

\* The row leaves the pending list for good.
Retire(c) ==
    /\ attempts[c] > 0
    /\ retired' = retired \cup {c}
    /\ UNCHANGED <<rows, attempts, delivered>>

Next == \E c \in Commands : Issue(c) \/ Deliver(c) \/ Lose(c) \/ Retire(c)

Spec == Init /\ [][Next]_vars
=============================================================================
