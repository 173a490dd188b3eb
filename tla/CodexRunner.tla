---------------------------- MODULE CodexRunner ----------------------------
(***************************************************************************)
(* The Codex runner (internal/agent/codex/codex.go) inside the worker of   *)
(* RunWorker, and the approvals it asks for (approval_requests in          *)
(* internal/store/store.go).                                               *)
(*                                                                         *)
(* The runner reads what its agent says, one line at a time.  A request    *)
(* that needs a decision becomes a row that the operator decides, from     *)
(* HTTP or the command line, while the runner polls it under two timers.   *)
(* The run may be ended by others, and the daemon may stop, at any time.   *)
(* AgentReturns of RunWorker is what all of this is to the worker.         *)
(***************************************************************************)
EXTENDS RunWorker

CONSTANTS
    Approvals,      \* ids of approval_requests rows
    Subjects,       \* what an agent asks for: kind, directory and fingerprint
    Denied,         \* the subjects the security policy denies
    MaxGrants       \* bound: how far grants are counted

ASSUME ApprovalsAssumption == None \notin Approvals /\ IsFiniteSet(Approvals)
ASSUME SubjectsAssumption == None \notin Subjects /\ Denied \subseteq Subjects
ASSUME MaxGrantsAssumption == MaxGrants \in Nat

VARIABLES
    runner,         \* the Codex runner of the run's worker
    approval,       \* rows of approval_requests
    grants          \* observation: how often an agent was told to go ahead

codexVars == <<runner, approval, grants>>
everything == <<allVars, codexVars>>

Decisions == {"approved_once", "approved_for_run", "denied"}

\* at: what the runner does next.  session: its app-server process is alive and
\* past the handshake.  received: handoffReceived of this turn.  subject, waits:
\* the request being handled, and its row.  result: what Run returns.
Runners == [at : {"off", "reading", "handoff", "match", "create", "waiting", "returned"},
            session : BOOLEAN, received : BOOLEAN, subject : Subjects \cup {None},
            waits : Approvals \cup {None}, result : {"none", "success", "missing", "failed"}]

NoRunner == [at |-> "off", session |-> FALSE, received |-> FALSE, subject |-> None,
             waits |-> None, result |-> "none"]

\* lapsed is an observation: the row was pending when the store failed its runner,
\* which gave up on it.
Rows == [run : Runs \cup {None}, subject : Subjects \cup {None},
         status : Decisions \cup {"none", "pending", "timeout", "cancelled", "auto_denied"},
         lapsed : BOOLEAN]

NoRow == [run |-> None, subject |-> None, status |-> "none", lapsed |-> FALSE]

CodexTypeOK ==
    /\ WorkerTypeOK
    /\ runner \in [Runs -> Runners]
    /\ approval \in [Approvals -> Rows]
    /\ grants \in [Runs -> [Subjects -> 0..MaxGrants]]

CodexInit ==
    /\ WorkerInit
    /\ runner = [r \in Runs |-> NoRunner]
    /\ approval = [a \in Approvals |-> NoRow]
    /\ grants = [r \in Runs |-> [s \in Subjects |-> 0]]

-----------------------------------------------------------------------------
(* Turns.                                                                  *)

Stage(r, stage) == At(r, "agent") /\ runner[r].at = stage

\* The turn fails and the session is closed.
Fail(r) == runner' = [runner EXCEPT ![r] = [NoRunner EXCEPT !.at = "returned", !.result = "failed"]]

KeepReading(r) ==
    runner' = [runner EXCEPT ![r].at = "reading", ![r].subject = None, ![r].waits = None]

\* Run: a turn in the session of the previous one, or in a new one, whose start
\* can fail (unsupported version, no process, no handshake in time).
Run(r) ==
    /\ Stage(r, "off")
    /\ \/ runner' = [runner EXCEPT ![r].at = "reading", ![r].session = TRUE, ![r].received = FALSE]
       \/ ~runner[r].session /\ Fail(r)
    /\ UNCHANGED <<allVars, approval, grants>>

\* A turn that completes: the session goes on only when the handoff is missing.
\* handoffReceived says whether this turn submitted one through the runner.
EndTurn(r) ==
    /\ Stage(r, "reading")
    /\ runner' = [runner EXCEPT ![r] =
           IF runner[r].received THEN [NoRunner EXCEPT !.at = "returned", !.result = "success"]
                                 ELSE [@ EXCEPT !.at = "returned", !.result = "missing"]]
    /\ UNCHANGED <<allVars, approval, grants>>

\* The agent reports a failure, breaks the protocol, exits or falls silent; a
\* timer fires; the worker's context is cancelled because the run has ended.
FailTurn(r) ==
    /\ Stage(r, "reading")
    /\ Fail(r)
    /\ UNCHANGED <<allVars, approval, grants>>

\* Mutant: the line counts as a handoff before the gateway has taken it.
SubmitUnanswered(r) ==
    /\ Stage(r, "reading")
    /\ \/ /\ ValidateCall(r, "handoff.submit")
          /\ runner' = [runner EXCEPT ![r].received = TRUE]
       \/ /\ token[r] # "live" \/ runStatus[r] # "running"
          /\ Fail(r)
          /\ UNCHANGED allVars
    /\ UNCHANGED <<approval, grants>>

\* The agent's handoff line: a call of the gateway, which fails when the token is
\* not valid any more.
SubmitHandoff(r) ==
    /\ Stage(r, "reading")
    /\ \/ /\ ValidateCall(r, "handoff.submit")
          /\ runner' = [runner EXCEPT ![r].at = "handoff"]
       \/ /\ token[r] # "live" \/ runStatus[r] # "running"
          /\ Fail(r)
          /\ UNCHANGED allVars
    /\ UNCHANGED <<approval, grants>>

\* A second handoff is accepted when it is the first one again; one that is in but cannot
\* be read back fails the turn.
FinishHandoff(r) ==
    /\ Stage(r, "handoff")
    /\ DispatchCall(r)
    /\ \/ runner' = [runner EXCEPT ![r].at = "reading", ![r].received = TRUE]
       \/ Fail(r)
    /\ UNCHANGED <<approval, grants>>

\* What Run returns, to runWorker.
ReturnResult(r) ==
    /\ Stage(r, "returned")
    /\ \/ /\ runner[r].result = "success"
          /\ Goto(r, "check_after_run")
       \/ /\ runner[r].result = "failed"
          /\ GiveUp(r, "worker_failed", "check_after_run")
       \/ /\ runner[r].result = "missing"
          /\ \/ GiveUp(r, "missing_handoff", "check_after_run")
             \/ /\ ~worker[r].continued
                /\ worker' = [worker EXCEPT ![r].continued = TRUE, ![r].at = "check_continue"]
    /\ runner' = [runner EXCEPT ![r].at = "off", ![r].result = "none"]
    /\ UNCHANGED <<vars, diskVars, call, daemonVars, approval, grants>>

-----------------------------------------------------------------------------
(* Approvals, as the runner handles them.                                  *)

\* CreatePendingApprovalRequest and CreateAutoDeniedApprovalRequest.
InsertRow(r, s, status, lapsed) ==
    /\ IsActive(r)
    /\ \E a \in Approvals :
          /\ approval[a].status = "none"
          /\ approval' = [approval EXCEPT ![a] =
                 [run |-> r, subject |-> s, status |-> status, lapsed |-> lapsed]]

\* Mutant: the row is resolved whatever it holds.
Resolve(a, status) == approval' = [approval EXCEPT ![a].status = status]

\* markApprovalTimeoutIfPending, markApprovalCancelledIfPending.
MarkIfPending(a, status) ==
    approval' = [approval EXCEPT ![a].status = IF @ = "pending" THEN status ELSE @]

\* A read or a write of the store fails, and the row stays as it is.
Lapse(a) ==
    approval' = [approval EXCEPT ![a].lapsed = @ \/ approval[a].status = "pending"]

\* Mutant: an approval of one request approves the next.
HasApproved(r, s) ==
    \E a \in Approvals : /\ approval[a].run = r
                         /\ approval[a].subject = s
                         /\ approval[a].status \in {"approved_once", "approved_for_run"}

HasApprovedForRun(r, s) ==
    \E a \in Approvals : /\ approval[a].run = r
                         /\ approval[a].subject = s
                         /\ approval[a].status = "approved_for_run"

\* The agent is told to go ahead, unless writing to it fails.
Grant(r, s) ==
    \/ /\ KeepReading(r)
       /\ grants' = [grants EXCEPT ![r][s] = IF @ < MaxGrants THEN @ + 1 ELSE @]
    \/ Fail(r) /\ UNCHANGED grants

\* A request.  One the policy allows is answered at once and changes nothing.
\* One it denies ends the run's work, whether or not the store takes its row.  Any
\* other may have been approved for the run; a request for permissions, and one
\* without a fingerprint, never is.
Ask(r, s) ==
    /\ Stage(r, "reading")
    /\ \/ /\ s \in Denied
          /\ InsertRow(r, s, "auto_denied", FALSE) \/ UNCHANGED approval
          /\ Fail(r)
       \/ /\ s \notin Denied
          /\ \E stage \in {"match", "create"} :
                runner' = [runner EXCEPT ![r].at = stage, ![r].subject = s]
          /\ UNCHANGED approval
    /\ UNCHANGED <<allVars, grants>>

\* HasApprovedForRunApproval refuses a run that is not active, and may fail.
Match(r) ==
    LET s == runner[r].subject IN
    /\ Stage(r, "match")
    /\ \/ Fail(r) /\ UNCHANGED grants
       \/ IsActive(r) /\ HasApprovedForRun(r, s) /\ Grant(r, s)
       \/ /\ IsActive(r) /\ ~HasApprovedForRun(r, s)
          /\ runner' = [runner EXCEPT ![r].at = "create"]
          /\ UNCHANGED grants
    /\ UNCHANGED <<allVars, approval>>

\* The row is inserted and read back.  Either may fail, the second with the row in
\* place; a run that is not active gets none.
Create(r) ==
    /\ Stage(r, "create")
    /\ \/ /\ InsertRow(r, runner[r].subject, "pending", FALSE)
          /\ \E a \in Approvals :
                /\ approval'[a] # approval[a]
                /\ runner' = [runner EXCEPT ![r].at = "waiting", ![r].waits = a]
       \/ InsertRow(r, runner[r].subject, "pending", TRUE) /\ Fail(r)
       \/ Fail(r) /\ UNCHANGED approval
    /\ UNCHANGED <<allVars, grants>>

\* Mutant: a cancelled request is answered like a denied one.
PollCancelAsDenial(r) ==
    LET a == runner[r].waits IN
    /\ Stage(r, "waiting")
    /\ \/ approval[a].status = "timeout" /\ Fail(r) /\ UNCHANGED grants
       \/ /\ approval[a].status \in {"approved_once", "approved_for_run"}
          /\ Grant(r, runner[r].subject)
       \/ /\ approval[a].status \in {"denied", "cancelled"}
          /\ KeepReading(r) \/ Fail(r)
          /\ UNCHANGED grants
    /\ UNCHANGED <<allVars, approval>>

\* The poll finds the row resolved, or cannot read it.
Poll(r) ==
    LET a == runner[r].waits IN
    /\ Stage(r, "waiting")
    /\ \/ Lapse(a) /\ Fail(r) /\ UNCHANGED grants
       \/ /\ approval[a].status \in {"timeout", "cancelled"}
          /\ Fail(r)
          /\ UNCHANGED <<approval, grants>>
       \/ /\ approval[a].status \in {"approved_once", "approved_for_run"}
          /\ Grant(r, runner[r].subject)
          /\ UNCHANGED approval
       \/ /\ approval[a].status = "denied"
          /\ KeepReading(r) \/ Fail(r)
          /\ UNCHANGED <<approval, grants>>
    /\ UNCHANGED allVars

\* A timer fires: the request's, or the turn's, which always runs.
TimeOut(r) ==
    LET a == runner[r].waits IN
    /\ Stage(r, "waiting")
    /\ MarkIfPending(a, "timeout") \/ Lapse(a)
    /\ Fail(r)
    /\ UNCHANGED <<allVars, grants>>

\* The agent's process exits, or the worker's context is cancelled because the
\* run has ended.
StopWaiting(r) ==
    LET a == runner[r].waits IN
    /\ Stage(r, "waiting")
    /\ MarkIfPending(a, "cancelled") \/ Lapse(a)
    /\ Fail(r)
    /\ UNCHANGED <<allVars, grants>>

RunnerStep(r) ==
    \/ Run(r) \/ EndTurn(r) \/ FailTurn(r) \/ SubmitHandoff(r) \/ FinishHandoff(r)
    \/ (\E s \in Subjects : Ask(r, s)) \/ Match(r) \/ Create(r)
    \/ Poll(r) \/ TimeOut(r) \/ StopWaiting(r) \/ ReturnResult(r)

-----------------------------------------------------------------------------
(* The operator.                                                           *)

\* Mutants: cancel_run is stored as it was sent; cancel_run leaves the run's
\* issue as it is.
StoredAsSent(decision) == decision

CancelOnlyRun(r) ==
    /\ EndRun(r, "cancelled", "operator_cancelled")
    /\ UNCHANGED <<issueVars, relations, workVars>>

StoredStatus(decision) == IF decision = "cancel_run" THEN "cancelled" ELSE decision

CancelForApproval(r) == CancelRun(r)

\* DecideApproval does not look at expires_at.
DecideApproval(a, decision) ==
    LET r == approval[a].run IN
    /\ approval[a].status = "pending"
    /\ \/ decision = "cancel_run" /\ CancelForApproval(r)
       \/ decision # "cancel_run" /\ IsActive(r) /\ UNCHANGED vars
    /\ approval' = [approval EXCEPT ![a].status = StoredStatus(decision)]
    /\ UNCHANGED <<worker, diskVars, call, daemonVars, runner, grants>>

-----------------------------------------------------------------------------
(* The rest of the system, with what it does to runners and approvals.     *)

\* runWorker closes the runner when it returns.
WorkerStepBesides(r) ==
    /\ ~At(r, "agent")
    /\ WorkerStep(r)
    /\ runner' = [runner EXCEPT ![r] = IF Lives(r)' THEN @ ELSE NoRunner]
    /\ UNCHANGED <<approval, grants>>

\* A tool call over HTTP, from the agent's process.
ToolCall(r) ==
    /\ \/ /\ daemon = "up"
          /\ runner[r].session
          /\ \E tool \in {"handoff.submit", "issue.block"} : ValidateCall(r, tool)
       \/ runner[r].at # "handoff" /\ DispatchCall(r)
    /\ UNCHANGED codexVars

\* A runner ends with its daemon's process.
StopRunners(lost, list) ==
    /\ StopDaemon(lost, list)
    /\ runner' = [r \in Runs |-> IF r \in lost THEN NoRunner ELSE runner[r]]
    /\ UNCHANGED <<approval, grants>>

KillRunner(r) ==
    /\ KillFormer(r)
    /\ runner' = [runner EXCEPT ![r] = NoRunner]
    /\ UNCHANGED <<approval, grants>>

\* Mutant: startup leaves the run's requests pending.
KeepPending(r) == UNCHANGED approval

\* cancelPendingApprovalsForRunInTx.
CancelPending(r) ==
    approval' = [a \in Approvals |->
        IF approval[a].run = r /\ approval[a].status = "pending"
        THEN [approval[a] EXCEPT !.status = "cancelled"] ELSE approval[a]]

ReconcileWithApprovals(r) ==
    /\ ReconcileStale(r)
    /\ CancelPending(r)
    /\ UNCHANGED <<runner, grants>>

Surroundings ==
    /\ \/ OperatorStep
       \/ \E i \in Issues, r \in Runs : StartWorker(i, r) \/ StartLateWorker(i, r)
       \/ \E i \in Issues : EndDrain(i)
       \/ StartDaemon \/ AbortStartup \/ FinishStartup
    /\ UNCHANGED codexVars

CodexNext ==
    \/ \E r \in Runs : \/ RunnerStep(r)
                       \/ WorkerStepBesides(r)
                       \/ ToolCall(r)
                       \/ KillRunner(r)
                       \/ ReconcileWithApprovals(r)
    \/ \E a \in Approvals, d \in Decisions \cup {"cancel_run"} : DecideApproval(a, d)
    \/ \E lost \in SUBSET Runs, list \in SUBSET Issues : StopRunners(lost, list)
    \/ Surroundings

CodexSpec == CodexInit /\ [][CodexNext]_everything

-----------------------------------------------------------------------------
(* Correctness properties.                                                 *)

\* An agent is told to go ahead no more often than the operator approved that
\* very request in that run, unless one approval was for the whole run.
GrantsAreBacked ==
    \A r \in Runs, s \in Subjects :
        \/ \E a \in Approvals : /\ approval[a].run = r /\ approval[a].subject = s
                                /\ approval[a].status = "approved_for_run"
        \/ grants[r][s] <= Cardinality({a \in Approvals : /\ approval[a].run = r
                                                         /\ approval[a].subject = s
                                                         /\ approval[a].status = "approved_once"})

\* The first of a decision, a timeout, a cancellation and a startup stands.
ResolvedIsFinal ==
    [][\A a \in Approvals : approval[a].status \notin {"none", "pending"}
                             => approval'[a] = approval[a]]_everything

\* The agent of a run is told nothing any more and gets no further turn.
AgentIsOver(r) ==
    \/ runner[r].at = "returned" /\ runner[r].result = "failed"
    \/ ~At(r, "agent") /\ ~At(r, "check_continue")

\* A request that is pending has a runner waiting for it.  There are two ways to
\* lose that runner: its process, after which the request of a run that nobody ended
\* is left only until the next startup (the runs of ticks that outlived their daemon
\* excepted), and the store, which failed that very runner when it read or resolved
\* the row: such a request may stay pending for ever, but the agent that asked is
\* over.  No request outlives the startup that ends its run.
PendingIsWaited ==
    \A a \in Approvals : approval[a].status = "pending" =>
        LET r == approval[a].run IN
        \/ runner[r].at = "waiting" /\ runner[r].waits = a
        \/ /\ runCode[r] # "daemon_restarted_run_interrupted"
           /\ \/ approval[a].lapsed /\ AgentIsOver(r)
              \/ At(r, "dead") /\ (IsActive(r) => daemon = "down" \/ r \in stale \cup late)

\* An agent whose request was denied by policy, timed out or was cancelled is
\* not told anything any more, and gets no further turn.
UnansweredStopsAgent ==
    \A a \in Approvals : approval[a].status \in {"timeout", "cancelled", "auto_denied"} =>
        \/ runner[approval[a].run].at = "waiting" /\ runner[approval[a].run].waits = a
        \/ AgentIsOver(approval[a].run)

-----------------------------------------------------------------------------
(* What a runner promises its worker, as AgentTurns.                       *)

TurnStage(r) ==
    CASE worker[r].at \in {"done", "lost", "dead"} -> "closed"
      [] worker[r].at \in {"check_after_run", "after_run", "check_outcome", "outcome",
                           "check_generate", "generate", "complete", "fail"} -> "over"
      [] OTHER -> IF runner[r].at = "off" THEN "ready"
                  ELSE IF runner[r].at = "returned" THEN "returned" ELSE "turn"

Turns(r) == INSTANCE AgentTurns WITH
    MaxTurns <- 2,
    at <- TurnStage(r),
    turn <- IF worker[r].continued THEN 2 ELSE 1,
    taken <- runner[r].received /\ handoff[r] # None,
    result <- runner[r].result,
    process <- runner[r].session

\* The runner of every run keeps that promise, whoever ends the run and whenever the
\* daemon stops: an agent is only said to have succeeded with its handoff in the store,
\* it gets a second turn only in the session of one that missed it, and the worker makes
\* no more of a result than AgentTurns allows.
RunnersTakeTurns ==
    /\ \A r \in Runs : Turns(r)!TurnInit
    /\ [][\A r \in Runs : [Turns(r)!TurnNext]_(Turns(r)!turnVars)]_everything

-----------------------------------------------------------------------------
(* What TECH_SPEC.md says and the code does not do.                        *)

\* Sections 7.7 and 8.14: a turn's outcome is a missing handoff only when the run
\* has none.  The runner counts the handoff line of the turn, not the handoff that
\* the agent submitted with the tool, as its prompt tells it to; runWorker then
\* ends the run completed_without_handoff.
MissingHandoffIsMissing ==
    [][\A r \in Runs : runner[r].at = "reading" /\ runner'[r].result = "missing"
                        => handoff[r] = None]_everything
=============================================================================
