---------------------------- MODULE CodexSession ----------------------------
(***************************************************************************)
(* One Codex runner and its app-server process                             *)
(* (internal/agent/codex/codex.go): the process group, the pipe it writes, *)
(* the goroutine that scans it into a channel, the goroutine in cmd.Wait,  *)
(* and Run, which waits for lines, timers and cancellation at once.        *)
(*                                                                         *)
(* The process writes what it likes, when it likes, may exit or ignore a   *)
(* signal, and may leave its stdin unread: a write to it then blocks, and  *)
(* while it does Run looks at no timer, no line and no cancellation.       *)
(* CodexRunner takes Run as a whole; here are its steps.                   *)
(***************************************************************************)
EXTENDS Naturals, Sequences, SequencesExt

CONSTANTS
    MaxLines,       \* bound: lines the process writes
    Capacity        \* of the channel of lines; 128 in the code

ASSUME BoundsAssumption == MaxLines \in Nat /\ Capacity \in Nat \ {0}

VARIABLES
    run,            \* where Run is, in which turn, and what it returned
    session,        \* processSession: no, open or closed; handshakeDone
    received,       \* handoffReceived of this turn
    leader,         \* the app-server process; silent once it has closed its stdout
    child,          \* a process it started in its group
    reads,          \* a write to its stdin is taken: it reads on, or the pipe has room
    reaped,         \* cmd.Wait has returned and closed the pipe
    waitCh,         \* its result is in waitCh
    pipe,           \* lines written and not yet scanned
    scanner,        \* scanStdout
    lines,          \* the channel of lines
    written,        \* how many lines were written
    said,           \* observation: how far the process kept to a turn with a handoff
    accepted,       \* observation: turns in which the gateway accepted a handoff
    disturbed       \* observation: a timer, a cancellation or a failed call came in

sessionState == <<run, session, received>>
processState == <<leader, child, reads, reaped, waitCh>>
streamState  == <<pipe, scanner, lines, written, said>>
appVars == <<sessionState, processState, streamState, accepted, disturbed>>

\* note stands for the lines that only need the handshake; bad for a handshake that
\* does not match the fixture, a turn that failed and what is not understood.
Kinds == {"handshake", "note", "handoff", "approval", "completed", "bad"}

\* The turn in which a line is handled does not matter to it: a line of the first turn
\* that was not read is read in the second.
AppTypeOK ==
    /\ run \in [at : {"idle", "write", "loop", "approval", "answer", "stop", "exit", "kill",
                      "returned", "closed"},
                turn : 1..2, closing : BOOLEAN,
                result : {"none", "success", "missing", "failed"}]
    /\ session \in [is : {"none", "open", "closed"}, handshake : BOOLEAN]
    /\ received \in BOOLEAN
    /\ leader \in {"none", "running", "silent", "exited"}
    /\ child \in {"none", "running"}
    /\ reads \in BOOLEAN /\ reaped \in BOOLEAN /\ waitCh \in BOOLEAN
    /\ pipe \in Seq(Kinds)
    /\ scanner \in {"off", "reading", "done"}
    /\ lines \in Seq(Kinds) /\ Len(lines) <= Capacity
    /\ written \in 0..MaxLines
    /\ said \in {"nothing", "handshake", "handoff", "completed", "other"}
    /\ accepted \subseteq 1..2
    /\ disturbed \in BOOLEAN

AppInit ==
    /\ run = [at |-> "idle", turn |-> 1, closing |-> FALSE, result |-> "none"]
    /\ session = [is |-> "none", handshake |-> FALSE]
    /\ received = FALSE
    /\ leader = "none"
    /\ child = "none"
    /\ reads = TRUE
    /\ reaped = FALSE /\ waitCh = FALSE
    /\ pipe = <<>>
    /\ scanner = "off"
    /\ lines = <<>>
    /\ written = 0
    /\ said = "nothing"
    /\ accepted = {}
    /\ disturbed = FALSE

At(stage) == run.at = stage

Goto(stage) == run' = [run EXCEPT !.at = stage]

-----------------------------------------------------------------------------
(* The process and the two goroutines.                                     *)

Says(k) ==
    CASE said = "nothing" /\ k = "handshake" -> "handshake"
      [] said = "handshake" /\ k = "handoff" -> "handoff"
      [] said = "handoff" /\ k = "completed" -> "completed"
      [] OTHER -> IF k = "note" /\ said # "nothing" THEN said ELSE "other"

\* It writes from the start; Run does not wait for it to read start_turn.
Write(k) ==
    /\ leader = "running"
    /\ ~reaped /\ written < MaxLines
    /\ pipe' = Append(pipe, k)
    /\ written' = written + 1
    /\ said' = Says(k)
    /\ UNCHANGED <<sessionState, processState, scanner, lines, accepted, disturbed>>

StartChild ==
    /\ leader = "running" /\ child = "none"
    /\ child' = "running"
    /\ UNCHANGED <<sessionState, leader, reads, reaped, waitCh, streamState, accepted, disturbed>>

ExitChild ==
    /\ child = "running"
    /\ child' = "none"
    /\ UNCHANGED <<sessionState, leader, reads, reaped, waitCh, streamState, accepted, disturbed>>

CloseStdout ==
    /\ leader = "running"
    /\ leader' = "silent"
    /\ UNCHANGED <<sessionState, child, reads, reaped, waitCh, streamState, accepted, disturbed>>

Alive == leader \in {"running", "silent"}

\* For good: one that reads on later is a Run that was slow.
StopReading ==
    /\ Alive /\ reads
    /\ reads' = FALSE
    /\ UNCHANGED <<sessionState, leader, child, reaped, waitCh, streamState, accepted, disturbed>>

Exit ==
    /\ Alive
    /\ leader' = "exited"
    /\ UNCHANGED <<sessionState, child, reads, reaped, waitCh, streamState, accepted, disturbed>>

\* cmd.Wait closes the read end as soon as the process has exited: what is still in
\* the pipe may be lost.
Reap ==
    /\ leader = "exited" /\ ~reaped
    /\ reaped' = TRUE
    /\ waitCh' = TRUE
    /\ pipe' \in {SubSeq(pipe, 1, n) : n \in 0..Len(pipe)}
    /\ UNCHANGED <<sessionState, leader, child, reads, scanner, lines, written, said, accepted,
                   disturbed>>

\* The channel takes Capacity lines; after that the goroutine waits for Run.
Scan ==
    /\ scanner = "reading"
    /\ pipe # <<>> /\ Len(lines) < Capacity
    /\ lines' = Append(lines, Head(pipe))
    /\ pipe' = Tail(pipe)
    /\ UNCHANGED <<sessionState, processState, scanner, written, said, accepted, disturbed>>

\* The end of the file: the pipe is closed here, or nobody holds its other end.
EndScan ==
    /\ scanner = "reading"
    /\ pipe = <<>>
    /\ reaped \/ (leader # "running" /\ child = "none")
    /\ scanner' = "done"
    /\ UNCHANGED <<sessionState, processState, pipe, lines, written, said, accepted, disturbed>>

-----------------------------------------------------------------------------
(* Run.                                                                    *)

\* No version, no fixture for it, or the process does not start.
StartFails ==
    /\ At("idle")
    /\ run' = [run EXCEPT !.at = "returned", !.result = "failed"]
    /\ UNCHANGED <<session, received, processState, streamState, accepted, disturbed>>

startAppServer ==
    /\ At("idle")
    /\ leader' = "running"
    /\ scanner' = "reading"
    /\ session' = [session EXCEPT !.is = "open"]
    /\ Goto("write")
    /\ UNCHANGED <<received, child, reads, reaped, waitCh, pipe, lines, written, said, accepted,
                   disturbed>>

\* closeSession up to waitForProcess; Run returns result after it.  SIGTERM goes to the
\* group, in which each process exits when it likes (Exit, ExitChild).
Close(result) ==
    /\ session' = [session EXCEPT !.is = "closed"]
    /\ run' = [run EXCEPT !.at = "stop", !.result = result]

EndTurn(result) == Close(result)

\* start_turn goes to the process's stdin; without a reader the write fails.  A turn
\* starts afresh; the handshake is the session's.
WriteTurn ==
    /\ At("write")
    /\ \/ /\ reads
          /\ Goto("loop")
          /\ received' = FALSE
          /\ UNCHANGED <<session, disturbed>>
       \/ /\ leader = "exited"
          /\ Close("failed")
          /\ disturbed' = TRUE
          /\ UNCHANGED received
    /\ UNCHANGED <<processState, streamState, accepted>>

\* Startup, turn, stall or read timer, or the context.
Interrupt ==
    /\ At("loop") \/ At("approval")
    /\ Close("failed")
    /\ disturbed' = TRUE
    /\ UNCHANGED <<received, processState, streamState, accepted>>

\* Mutant: a line is handled whether or not the handshake is done.
AllowedEarly(k) == TRUE

\* Before the handshake nothing else is accepted.
Allowed(k) == session.handshake \/ k = "handshake"

Unchanged == UNCHANGED <<received, accepted, disturbed>>

\* handleProtocolLine and handleApprovalRequest.
HandleLine ==
    /\ At("loop") /\ lines # <<>>
    /\ lines' = Tail(lines)
    /\ LET k == Head(lines)
       IN  \/ /\ ~Allowed(k) \/ k = "bad"
              /\ EndTurn("failed")
              /\ UNCHANGED <<received, accepted, disturbed>>
           \/ /\ k = "handshake"
              /\ session' = [session EXCEPT !.handshake = TRUE]
              /\ UNCHANGED run /\ Unchanged
           \/ /\ k = "note" /\ Allowed(k)
              /\ UNCHANGED <<run, session>> /\ Unchanged
           \/ /\ k = "handoff" /\ Allowed(k)
              /\ \/ /\ received' = TRUE
                    /\ accepted' = accepted \cup {run.turn}
                    /\ UNCHANGED <<run, session, disturbed>>
                 \/ /\ EndTurn("failed")
                    /\ disturbed' = TRUE
                    /\ UNCHANGED <<received, accepted>>
           \/ /\ k = "approval" /\ Allowed(k)
              /\ Goto("approval")
              /\ UNCHANGED session /\ Unchanged
           \/ /\ k = "completed" /\ Allowed(k) /\ received
              /\ EndTurn("success")
              /\ Unchanged
           \/ /\ k = "completed" /\ Allowed(k) /\ ~received
              /\ run' = [run EXCEPT !.at = "returned", !.result = "missing"]
              /\ UNCHANGED session /\ Unchanged
    /\ UNCHANGED <<processState, pipe, scanner, written, said>>

\* The channel is closed: Run waits for the process, two seconds.
LinesEnd ==
    /\ At("loop") /\ lines = <<>> /\ scanner = "done"
    /\ run' = [run EXCEPT !.at = "exit", !.result = "failed"]
    /\ UNCHANGED <<session, received, processState, streamState, accepted, disturbed>>

\* An approval is decided, allowed by policy or granted before; or it is denied, times out
\* or cannot be stored, and the turn ends.
Decide ==
    /\ At("approval")
    /\ \/ /\ Goto("answer")
          /\ UNCHANGED <<session, disturbed>>
       \/ /\ EndTurn("failed")
          /\ disturbed' = TRUE
    /\ UNCHANGED <<received, processState, streamState, accepted>>

\* The answer goes to the process's stdin too, and Run reads on.
writeApprovalDecision ==
    /\ At("answer")
    /\ \/ /\ reads
          /\ Goto("loop")
          /\ UNCHANGED <<session, disturbed>>
       \/ /\ leader = "exited"
          /\ EndTurn("failed")
          /\ disturbed' = TRUE
    /\ UNCHANGED <<received, processState, streamState, accepted>>

\* Mutant: the session is left open although waitCh has been read.
LosesProcessOpen ==
    /\ At("approval") /\ waitCh
    /\ waitCh' = FALSE
    /\ Close("failed")
    /\ disturbed' = TRUE
    /\ UNCHANGED <<received, leader, child, reads, reaped, streamState, accepted>>

\* While it waits for a decision Run reads waitCh too.
LosesProcess ==
    /\ At("approval") /\ waitCh
    /\ waitCh' = FALSE
    /\ session' = [session EXCEPT !.is = "closed"]
    /\ run' = [run EXCEPT !.at = "returned", !.result = "failed"]
    /\ disturbed' = TRUE
    /\ UNCHANGED <<received, leader, child, reads, reaped, streamState, accepted>>

\* waitForProcess has the process's result, which it has taken from waitCh.
Returns == run' = [run EXCEPT !.at = IF run.closing THEN "closed" ELSE "returned"]

Waited ==
    /\ At("stop") \/ At("exit") \/ At("kill")
    /\ waitCh
    /\ waitCh' = FALSE
    /\ session' = [session EXCEPT !.is = "closed"]
    /\ Returns
    /\ UNCHANGED <<received, leader, child, reads, reaped, streamState, accepted, disturbed>>

\* Mutant: a process that does not exit within two seconds is left alone.
LeaveProcess ==
    /\ At("stop") \/ At("exit")
    /\ session' = [session EXCEPT !.is = "closed"]
    /\ Returns
    /\ UNCHANGED <<received, processState, streamState, accepted, disturbed>>

\* After two seconds: SIGKILL to the group, if its leader has not been waited for.
KillGroup ==
    /\ At("stop") \/ At("exit")
    /\ ~waitCh
    /\ IF reaped THEN UNCHANGED <<leader, child>>
       ELSE leader' = "exited" /\ child' = "none"
    /\ Goto("kill")
    /\ UNCHANGED <<session, received, reads, reaped, waitCh, streamState, accepted, disturbed>>

-----------------------------------------------------------------------------
(* What runWorker does with the runner.                                    *)

\* Mutants: the worker does not count its turns; it asks again after any failure.
ContinueAgain ==
    /\ At("returned") /\ run.result = "missing"
    /\ run' = [run EXCEPT !.at = "write", !.turn = @ + 1, !.result = "none"]
    /\ UNCHANGED <<session, received, processState, streamState, accepted, disturbed>>

ContinueFailed ==
    /\ At("returned") /\ run.result \in {"missing", "failed"} /\ run.turn = 1
    /\ run' = [run EXCEPT !.at = "write", !.turn = @ + 1, !.result = "none"]
    /\ UNCHANGED <<session, received, processState, streamState, accepted, disturbed>>

\* A missing handoff is asked for once more, in the same process.
Continue ==
    /\ At("returned") /\ run.result = "missing" /\ run.turn = 1
    /\ run' = [run EXCEPT !.at = "write", !.turn = @ + 1, !.result = "none"]
    /\ UNCHANGED <<session, received, processState, streamState, accepted, disturbed>>

\* The deferred closeRunner, whatever way the worker ends.
CloseRunner ==
    /\ At("returned")
    /\ IF session.is = "open"
       THEN /\ session' = [session EXCEPT !.is = "closed"]
            /\ run' = [run EXCEPT !.at = "stop", !.closing = TRUE]
       ELSE /\ Goto("closed")
            /\ UNCHANGED session
    /\ UNCHANGED <<received, processState, streamState, accepted, disturbed>>

RunStep ==
    \/ StartFails \/ startAppServer \/ WriteTurn \/ Interrupt \/ HandleLine \/ LinesEnd
    \/ Decide \/ writeApprovalDecision \/ LosesProcess \/ Waited \/ KillGroup

ProcessStep ==
    \/ \E k \in Kinds : Write(k)
    \/ StartChild \/ ExitChild \/ CloseStdout \/ StopReading \/ Exit

AppNext ==
    \/ RunStep \/ ProcessStep \/ Reap \/ Scan \/ EndScan \/ Continue \/ CloseRunner

\* Goroutines go on and timers fire; a worker ends.  Nothing is assumed of the process:
\* also not that it reads its stdin or exits.
AppSpec ==
    AppInit /\ [][AppNext]_appVars
            /\ WF_appVars(RunStep) /\ WF_appVars(Reap) /\ WF_appVars(Scan)
            /\ WF_appVars(EndScan) /\ WF_appVars(CloseRunner)

-----------------------------------------------------------------------------
(* Properties.                                                             *)

\* A run succeeds only after a compatible handshake and a handoff that the gateway took,
\* and is reported as missing one only when it took none in that turn, however late the
\* lines are read and whichever turn they were written in.
ResultsAreEarned ==
    /\ run.result = "success" => session.handshake /\ accepted # {}
    /\ run.result = "missing" => session.handshake /\ run.turn \notin accepted

\* Once Run has returned anything but a missing handoff, and once the runner is closed,
\* the app-server process is gone: it does not go on in the workspace of a run that is
\* over.
NoProcessIsLeft ==
    (At("closed") \/ (At("returned") /\ run.result # "missing")) => ~Alive

\* A write to a process that is there and does not read.
Blocked == (At("write") \/ At("answer")) /\ ~reads /\ Alive

\* Run and Close return, but for a write to the process's stdin that blocks for ever: also
\* when the process ignores SIGTERM, when it fills the channel, and when its exit was
\* noticed first by the wait for an approval, which takes the only value there is in waitCh.
RunReturns ==
    <>[]Blocked \/ ((At("write") \/ At("stop")) ~> (At("returned") \/ At("closed")))

-----------------------------------------------------------------------------
(* What a runner promises its worker, as AgentTurns.                       *)

\* A turn lasts until Run has returned, also from waiting for the process.
TurnStage ==
    CASE run.at \in {"idle", "write"} -> "ready"
      [] run.at \in {"returned", "closed"} -> run.at
      [] run.at \in {"loop", "approval", "answer", "stop", "exit", "kill"} ->
            IF run.closing THEN "over" ELSE "turn"

Turns == INSTANCE AgentTurns WITH
    MaxTurns <- 2,
    at <- TurnStage,
    turn <- IF At("closed") THEN 1 ELSE run.turn,
    taken <- TurnStage = "turn" /\ run.turn \in accepted,
    result <- IF At("returned") THEN run.result ELSE "none",
    process <- Alive

\* Of its worker's two turns the second follows only a missing handoff, in the same
\* process.  Whatever the process writes and when it exits, a turn returns success only
\* if the gateway took a handoff in it, a missing one only if it took none, and anything
\* else when the process is gone.
TakesTurns == Turns!TurnSpec

-----------------------------------------------------------------------------
(* What the repository says and the code does not do.                      *)

\* codex_test.go:137-187: the process that shakes hands, hands off and completes its
\* turn, and then exits, has succeeded.
CompletedTurnsSucceed ==
    (At("returned") /\ run.turn = 1 /\ said = "completed" /\ ~disturbed)
        => run.result = "success"

=============================================================================
