--------------------------- MODULE MCOrchestrator ---------------------------
(* Orchestrator for TLC.  Its constants are given in the .cfg files. *)
EXTENDS Orchestrator, TLC

\* The initial values of bot and botOf are never read: one of each will do.
MCInit ==
    /\ Init
    /\ bot = [p \in Callers |-> CHOOSE b \in Bots : TRUE]
    /\ botOf = [i \in Ids |-> CHOOSE b \in Bots : TRUE]

MCSpec == MCInit /\ [][Next]_vars /\ Fairness
=============================================================================
