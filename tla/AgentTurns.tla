----------------------------- MODULE AgentTurns -----------------------------
(***************************************************************************)
(* What a runner promises the worker that uses it (agent/runner.go,        *)
(* Runner and ClosableRunner, as runWorker takes them): turns that return  *)
(* one result each, a further turn only after a missing handoff, and a     *)
(* process that is there for those turns only.  CodexSession implements    *)
(* it, and so does the runner of each run in CodexRunner.                  *)
(***************************************************************************)
EXTENDS Naturals

CONSTANT MaxTurns   \* the first turn and its continuations

VARIABLES
    at,             \* ready for a turn, in it, or returned; over for the worker; closed
    turn,           \* which turn
    taken,          \* the gateway took a handoff from the runner in this turn
    result,         \* what Run returned
    process         \* the agent's process is there

turnVars == <<at, turn, taken, result, process>>

TurnInit ==
    /\ at = "ready"
    /\ turn = 1
    /\ taken = FALSE
    /\ result = "none"
    /\ process = FALSE

\* Only the first turn starts a process.
Start ==
    /\ at = "ready" /\ turn = 1
    /\ process' = TRUE
    /\ UNCHANGED <<at, turn, taken, result>>

\* The process may exit at any time.
Exit ==
    /\ process' = FALSE
    /\ UNCHANGED <<at, turn, taken, result>>

Begin ==
    /\ at = "ready"
    /\ at' = "turn"
    /\ process' \in {process, process \/ turn = 1}
    /\ UNCHANGED <<turn, taken, result>>

Take ==
    /\ at = "turn"
    /\ taken' = TRUE
    /\ UNCHANGED <<at, turn, result, process>>

\* A result is earned in its turn, and only a missing handoff leaves the process alone.
Return(res) ==
    /\ \/ at = "turn"
       \/ at = "ready" /\ res = "failed"
    /\ res = "success" => taken
    /\ IF res = "missing" THEN ~taken /\ UNCHANGED process ELSE ~process'
    /\ at' = "returned"
    /\ result' = res
    /\ taken' = FALSE
    /\ UNCHANGED turn

Continue ==
    /\ at = "returned" /\ result = "missing"
    /\ turn < MaxTurns
    /\ at' = "ready"
    /\ turn' = turn + 1
    /\ result' = "none"
    /\ UNCHANGED <<taken, process>>

\* The worker goes on without the runner, or never came to use it.
Leave ==
    /\ at \in {"ready", "returned"}
    /\ at' = "over"
    /\ result' = "none"
    /\ UNCHANGED <<turn, taken, process>>

\* The runner is closed when its worker ends, or gone with the daemon's process.
Close ==
    /\ at # "closed"
    /\ ~process'
    /\ at' = "closed"
    /\ turn' = 1 /\ taken' = FALSE /\ result' = "none"

TurnNext ==
    \/ Start \/ Exit \/ Begin \/ Take \/ Continue \/ Leave \/ Close
    \/ \E res \in {"success", "missing", "failed"} : Return(res)

TurnSpec == TurnInit /\ [][TurnNext]_turnVars

=============================================================================
