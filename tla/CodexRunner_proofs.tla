-------------------------- MODULE CodexRunner_proofs --------------------------
(***************************************************************************)
(* Proofs about CodexRunner: that the runner is what the worker takes it   *)
(* for, and what becomes of the approvals it asks for.                     *)
(***************************************************************************)
EXTENDS CodexRunner, RunWorker_proofs

\* Stages of a worker whose agent gets no further turn.
Past == {"check_after_run", "after_run", "check_outcome", "outcome", "check_generate",
         "generate", "complete", "fail", "done", "lost", "dead"}

Waited(a) == LET r == approval[a].run IN runner[r].at = "waiting" /\ runner[r].waits = a

Returned(r) == runner[r].at = "returned" /\ runner[r].result = "failed"

\* A request belongs to a run that was claimed.
RowHasRun(a) ==
    approval[a].status # "none" =>
        approval[a].run \in Runs /\ runStatus[approval[a].run] # "none"

\* A pending request is waited for, unless the worker was lost with its process or
\* its runner gave up when the store failed it; it does not outlive the startup that
\* ends its run.
PendingIsHeld(a) ==
    approval[a].status = "pending" =>
        /\ \/ Waited(a)
           \/ At(approval[a].run, "dead")
           \/ approval[a].lapsed /\ (Returned(approval[a].run) \/ worker[approval[a].run].at \in Past)
        /\ runCode[approval[a].run] # "daemon_restarted_run_interrupted"

\* An agent whose request was not answered is through.
UnansweredEnds(a) ==
    approval[a].status \in {"timeout", "cancelled", "auto_denied"} =>
        \/ Waited(a)
        \/ Returned(approval[a].run)
        \/ worker[approval[a].run].at \in Past

\* A runner works only for a worker that is at its agent, and waits only for a
\* request of its own.
ServesWorker(r) ==
    /\ runner[r].at # "off" => At(r, "agent")
    /\ runner[r].at = "waiting" => /\ runner[r].waits \in Approvals
                                   /\ approval[runner[r].waits].run = r
                                   /\ approval[runner[r].waits].status # "none"

RowsHaveRuns == \A a \in Approvals : RowHasRun(a)
RunnersServeWorkers == \A r \in Runs : ServesWorker(r)
PendingInv == \A a \in Approvals : PendingIsHeld(a)
UnansweredInv == \A a \in Approvals : UnansweredEnds(a)

\* A run has a failure code only when it has ended.
CodesAreOfEndedRuns == \A r \in Runs : ~Ended(r) => runCode[r] = "none"

CodexInv ==
    /\ WorkerInv
    /\ CodexTypeOK
    /\ RowsHaveRuns
    /\ RunnersServeWorkers
    /\ PendingInv
    /\ UnansweredInv
    /\ CodesAreOfEndedRuns

-----------------------------------------------------------------------------
(* What a step is to the workers.                                          *)

\* A step of the runner is what AgentReturns allows, a tool call, or nothing.
LEMMA RunnerStepOfWorker ==
    ASSUME NEW r \in Runs, RunnerStep(r)
    PROVE  [WorkerNext]_allVars
<1>1. CASE SubmitHandoff(r)
  BY <1>1 DEF SubmitHandoff, WorkerNext
<1>2. CASE FinishHandoff(r)
  BY <1>2 DEF FinishHandoff, WorkerNext
<1>3. CASE ReturnResult(r)
  <2>1. AgentReturns(r)
    BY <1>3 DEF ReturnResult, AgentReturns, Stage
  <2> QED BY <2>1 DEF WorkerNext, WorkerStep
<1> QED BY <1>1, <1>2, <1>3
        DEF RunnerStep, Run, EndTurn, FailTurn, Ask, Match, Create, Poll, TimeOut, StopWaiting

\* A step of the system is a step of workers, tool calls, daemon and operator.
LEMMA StepOfWorkers ==
    ASSUME RowsHaveRuns, [CodexNext]_everything
    PROVE  [WorkerNext]_allVars
<1>1. ASSUME NEW r \in Runs, WorkerStepBesides(r) \/ KillRunner(r) \/ ReconcileWithApprovals(r)
      PROVE  WorkerNext
  BY <1>1 DEF WorkerStepBesides, KillRunner, ReconcileWithApprovals, WorkerNext, DaemonStep
<1>2. ASSUME NEW r \in Runs, ToolCall(r)
      PROVE  WorkerNext
  BY <1>2 DEF ToolCall, WorkerNext
<1>3. ASSUME NEW a \in Approvals, NEW d, DecideApproval(a, d)
      PROVE  [WorkerNext]_allVars
  <2>1. approval[a].run \in Runs
    BY <1>3 DEF DecideApproval, RowsHaveRuns, RowHasRun
  <2>2. CASE CancelForApproval(approval[a].run)
    <3>1. OperatorNext
      BY <2>1, <2>2 DEF CancelForApproval, OperatorNext
    <3> QED BY <1>3, <3>1 DEF DecideApproval, OperatorStep, WorkerNext
  <2>3. CASE UNCHANGED vars
    BY <1>3, <2>3 DEF DecideApproval, allVars
  <2> QED BY <1>3, <2>2, <2>3 DEF DecideApproval
<1>4. ASSUME NEW lost \in SUBSET Runs, NEW list \in SUBSET Issues, StopRunners(lost, list)
      PROVE  WorkerNext
  BY <1>4 DEF StopRunners, WorkerNext
<1>5. ASSUME Surroundings PROVE WorkerNext
  BY <1>5 DEF Surroundings, WorkerNext, DaemonStep
<1> QED BY <1>1, <1>2, <1>3, <1>4, <1>5, RunnerStepOfWorker DEF CodexNext, everything

\* An operation of the store records a code only when it ends the run, and the
\* code of a restart only when the startup does.
LEMMA CodeStep ==
    ASSUME TypeOK, WorkerTypeOK, FailureIsDue, [WorkerNext]_allVars, NEW r \in Runs
    PROVE  \/ runCode'[r] = runCode[r]
           \/ Ended(r)' /\ runCode'[r] # "daemon_restarted_run_interrupted"
           \/ Ended(r)' /\ ReconcileStale(r)
<1> DEFINE Restart == "daemon_restarted_run_interrupted"
           Fact == runCode'[r] = runCode[r] \/ (Ended(r)' /\ runCode'[r] # Restart)
<1>1. runCode' = runCode => Fact
  OBVIOUS
<1>2. ASSUME NEW q \in Runs, NEW status \in EndedRunStatus, NEW code, code # Restart,
             EndRun(q, status, code)
      PROVE  Fact
  BY <1>2 DEF EndRun, TypeOK, Ended
<1>3. ASSUME NEW i \in Issues, NEW target, NEW duplicateOf,
             TransitionIssue(i, target, duplicateOf)
      PROVE  Fact
  BY <1>1, <1>2, <1>3 DEF TransitionIssue, ActiveRunsOf, ActiveRuns, EndedRunStatus, runVars
<1>4. CASE OperatorStep
  BY <1>1, <1>2, <1>3, <1>4
     DEF OperatorStep, OperatorNext, CreateIssue, UpdateIssue, AddBlocker, RemoveBlocker,
         RemoveDuplicate, DispatchPause, DispatchResume, MarkDone, SendToRework, ReviewAction,
         CancelRun, EndedRunStatus, runVars
<1>5. ASSUME NEW q \in Runs, ReportFailure(q) PROVE Fact
  <2>1. worker[q].due \in {"worker_failed", "missing_handoff"}
    BY <1>5 DEF ReportFailure, WorkerTypeOK, Workers, FailureIsDue
  <2> QED BY <1>1, <1>2, <1>5, <2>1
         DEF ReportFailure, FailureStatus, FailRun, EndedRunStatus, vars, runVars
<1>6. ASSUME NEW q \in Runs, WorkerStep(q) PROVE Fact
  BY <1>1, <1>5, <1>6
     DEF WorkerStep, Load, AdvanceRun, CheckActive, DecideAfterCreate, CheckDirectory,
         AddWorktree, RecordWorkspace, InsertWorkspace, LoseRun, StartAfterCreate,
         FinishAfterCreate, Render, RunBeforeRun,
         IssueToken, AgentReturns, RunAfterRun, Decide, Generate, Complete, UpdateRunStatus,
         CreateToolToken, InsertReviewPacket, CompleteRunWithReview, vars, runVars
<1>7. ASSUME NEW q \in Runs, DispatchCall(q) PROVE Fact
  BY <1>1, <1>2, <1>7
     DEF DispatchCall, InsertHandoff, BlockRunByAgent, EndedRunStatus, vars, runVars
<1>8. ASSUME NEW q \in Runs, q # r, ReconcileStale(q) PROVE Fact
  BY <1>8 DEF ReconcileStale, ReconcileRun, FailRun, EndRun, TypeOK
<1>9. ASSUME NEW i \in Issues, NEW q \in Runs, StartWorker(i, q) \/ StartLateWorker(i, q)
      PROVE  Fact
  BY <1>1, <1>9 DEF StartWorker, StartLateWorker, ClaimRun
<1>10. CASE UNCHANGED vars
  BY <1>1, <1>10 DEF vars, runVars
<1>11. ReconcileStale(r) => Ended(r)'
  BY DEF ReconcileStale, ReconcileRun, FailRun, EndRun, Ended, EndedRunStatus, TypeOK
<1> QED BY <1>4, <1>6, <1>7, <1>8, <1>9, <1>10, <1>11
        DEF WorkerNext, DaemonStep, EndDrain, ValidateCall, KillFormer, StopDaemon, StartDaemon,
            AbortStartup, FinishStartup, allVars

\* The worker of a claimed run does not go back to its agent once it is past it,
\* and one that was killed stays so.
LEMMA StageStep ==
    ASSUME WorkerInv, [WorkerNext]_allVars, NEW r \in Runs, runStatus[r] # "none"
    PROVE  /\ runStatus'[r] # "none"
           /\ worker[r].at \in Past => worker'[r].at \in Past
           /\ worker[r].at = "dead" => worker'[r].at = "dead"
<1> DEFINE Fact == /\ worker[r].at \in Past => worker'[r].at \in Past
                   /\ worker[r].at = "dead" => worker'[r].at = "dead"
<1>1. /\ TypeOK /\ RunRows /\ WorkerTypeOK /\ FailureIsDue /\ NoWorkerBeforeClaim
      /\ worker \in [Runs -> Workers] /\ worker[r] \in Workers
  BY DEF WorkerInv, IndInv, WorkerTypeOK
<1>2. runStatus'[r] # "none"
  <2>1. ASSUME NEW i \in Issues, NEW q \in Runs, ClaimRun(i, q) PROVE runStatus'[r] # "none"
    BY <1>1, <2>1 DEF ClaimRun, TypeOK
  <2>2. ClaimStep => runStatus'[r] # "none"
    BY <2>1 DEF ClaimStep, StartWorker, StartLateWorker
  <2> QED BY <1>1, <2>2, StepOfStore, ProgressStep
<1>3. worker' = worker => Fact
  OBVIOUS
<1>4. ASSUME NEW q \in Runs \ {r}, WorkerStep(q) PROVE Fact
  BY <1>1, <1>4, WorkerMoves DEF Moves
<1>5. ASSUME NEW stage, Goto(r, stage) PROVE worker'[r].at = stage
  BY <1>1, <1>5 DEF Goto, Workers
<1>6. ASSUME NEW stage, NEW code, GiveUp(r, code, stage) PROVE worker'[r].at = stage
  BY <1>1, <1>6 DEF GiveUp, Workers
<1>7. Return(r) => worker'[r].at = "done"
  BY <1>1 DEF Return, NoWorker
<1>8. ASSUME CheckActive(r), worker[r].at \in Past PROVE worker'[r].at \in Past
  BY <1>5, <1>7, <1>8 DEF CheckActive, AfterCheck, Past
<1>9. ASSUME RunAfterRun(r) \/ Decide(r) \/ Generate(r) \/ Complete(r) \/ ReportFailure(r)
             \/ LoseRun(r)
      PROVE  worker'[r].at \in Past
  <2>1. LoseRun(r) => worker'[r].at = "lost"
    BY <1>1 DEF LoseRun, NoWorker
  <2> QED BY <1>5, <1>6, <1>7, <1>9, <2>1
          DEF RunAfterRun, Decide, Generate, Complete, ReportFailure, At, Past
<1>10. ASSUME WorkerStep(r) PROVE Fact
  <2>1. \/ worker[r].at \notin Past \/ CheckActive(r) \/ RunAfterRun(r)
        \/ Decide(r) \/ Generate(r) \/ Complete(r) \/ ReportFailure(r) \/ LoseRun(r)
    BY <1>10 DEF WorkerStep, AgentReturns, Load, AdvanceRun, Advances, DecideAfterCreate,
                 CheckDirectory, AddWorktree, RecordWorkspace, InsertWorkspace,
                 StartAfterCreate, FinishAfterCreate, Render, RunBeforeRun,
                 IssueToken, At, Past
  <2>2. worker[r].at # "dead"
    BY <1>1, <1>10, WorkerMoves DEF Lives
  <2> QED BY <1>8, <1>9, <2>1, <2>2
<1>11. ASSUME NEW i \in Issues, NEW q \in Runs, StartWorker(i, q) \/ StartLateWorker(i, q)
       PROVE  Fact
  <2>1. q # r
    BY <1>11 DEF StartWorker, StartLateWorker, ClaimRun
  <2> QED BY <1>1, <1>11, <2>1 DEF StartWorker, StartLateWorker, Goto
<1>12. ASSUME NEW q \in Runs, KillFormer(q) PROVE Fact
  BY <1>1, <1>12 DEF KillFormer, NoWorker, Past
<1>13. ASSUME NEW lost \in SUBSET Runs, NEW list \in SUBSET Issues, StopDaemon(lost, list)
       PROVE  Fact
  <2>1. \/ worker'[r] = worker[r]
        \/ worker'[r] = NoWorker("dead")
        \/ worker'[r] = [worker[r] EXCEPT !.former = TRUE]
    BY <1>13 DEF StopDaemon
  <2>2. worker'[r].at \in {worker[r].at, "dead"}
    BY <1>1, <2>1 DEF NoWorker, Workers
  <2> QED BY <2>2 DEF Past
<1>14. UNCHANGED allVars \/ OperatorStep => worker' = worker
  BY DEF OperatorStep, allVars
<1>15. Fact
  BY <1>3, <1>4, <1>10, <1>11, <1>12, <1>13, <1>14
     DEF WorkerNext, DaemonStep, EndDrain, ValidateCall, DispatchCall, StartDaemon,
         ReconcileStale, AbortStartup, FinishStartup
<1> QED BY <1>2, <1>15

-----------------------------------------------------------------------------
(* What a step of a runner is to the runner and to the requests.           *)

\* Runner r alone changes, to w.
Becomes(r, w) ==
    /\ runner' = [runner EXCEPT ![r] = w]
    /\ w \in Runners

\* The runner that gave up, and the one that reads on.
Failed == [NoRunner EXCEPT !.at = "returned", !.result = "failed"]
Reading(r) == [runner[r] EXCEPT !.at = "reading", !.subject = None, !.waits = None]

\* What the two ways to leave a request, and the change of a row, amount to.
LEMMA RunnerMoves ==
    ASSUME CodexTypeOK, NEW r \in Runs
    PROVE  /\ Fail(r) => Becomes(r, Failed)
           /\ KeepReading(r) => Becomes(r, Reading(r))
           /\ \A s : Grant(r, s) =>
                 /\ Becomes(r, Failed) \/ Becomes(r, Reading(r))
                 /\ grants' \in [Runs -> [Subjects -> 0..MaxGrants]]
<1>1. runner \in [Runs -> Runners] /\ runner[r] \in Runners
  BY DEF CodexTypeOK
<1>2. Failed \in Runners
  BY DEF Failed, NoRunner, Runners
<1>3. Reading(r) \in Runners
  BY <1>1 DEF Reading, Runners
<1>4. Fail(r) => Becomes(r, Failed)
  BY <1>2 DEF Fail, Failed, Becomes
<1>5. ASSUME KeepReading(r) PROVE Becomes(r, Reading(r))
  <2>1. runner' = [runner EXCEPT ![r] = Reading(r)]
    BY <1>1, <1>5 DEF KeepReading, Reading
  <2> QED BY <2>1, <1>3 DEF Becomes
<1>6. ASSUME NEW s, Grant(r, s)
      PROVE  grants' \in [Runs -> [Subjects -> 0..MaxGrants]]
  <2>1. CASE UNCHANGED grants
    BY <2>1 DEF CodexTypeOK
  <2>2. CASE grants' = [grants EXCEPT ![r][s] = IF @ < MaxGrants THEN @ + 1 ELSE @]
    <3>1. grants[r] \in [Subjects -> 0..MaxGrants]
      BY DEF CodexTypeOK
    <3> DEFINE g == [grants[r] EXCEPT ![s] = IF @ < MaxGrants THEN @ + 1 ELSE @]
           v == IF grants[r][s] < MaxGrants THEN grants[r][s] + 1 ELSE grants[r][s]
    <3>2. s \in Subjects => v \in 0..MaxGrants
      BY <3>1, MaxGrantsAssumption
    <3>3. g = [grants[r] EXCEPT ![s] = v]
      OBVIOUS
    <3> HIDE DEF v
    <3>4. g \in [Subjects -> 0..MaxGrants]
      BY <3>1, <3>2, <3>3
    <3>5. grants' = [grants EXCEPT ![r] = g]
      BY <2>2
    <3> HIDE DEF g
    <3> QED BY <3>4, <3>5 DEF CodexTypeOK
  <2> QED BY <1>6, <2>1, <2>2 DEF Grant
<1> QED BY <1>4, <1>5, <1>6 DEF Grant

\* Only the request r waits for may change, and only while it is pending: it is
\* resolved, or it is left pending for good.
Marked(a, status) ==
    /\ approval' \in [Approvals -> Rows]
    /\ \A b \in Approvals \ {a} : approval'[b] = approval[b]
    /\ approval[a].status = "pending" =>
          /\ \/ approval'[a].status = status
             \/ approval'[a].status = "pending" /\ approval'[a].lapsed
          /\ approval'[a].run = approval[a].run
          /\ approval'[a].subject = approval[a].subject
    /\ approval[a].status # "pending" => approval'[a] = approval[a]

\* Both marks change the row only while it is pending, and so does their failure.
LEMMA MarkIsMarked ==
    ASSUME CodexTypeOK, NEW a \in Approvals, NEW status \in {"timeout", "cancelled"},
           MarkIfPending(a, status) \/ Lapse(a)
    PROVE  Marked(a, status)
<1> DEFINE row == [approval[a] EXCEPT !.status = IF @ = "pending" THEN status ELSE @]
           left == [approval[a] EXCEPT !.lapsed = @ \/ approval[a].status = "pending"]
<1>1. approval \in [Approvals -> Rows] /\ approval[a] \in Rows
  BY DEF CodexTypeOK
<1>2. CASE MarkIfPending(a, status)
  <2>1. row \in Rows
    BY <1>1 DEF Rows
  <2>2. approval' = [approval EXCEPT ![a] = row]
    BY <1>1, <1>2 DEF MarkIfPending
  <2>3. approval[a].status # "pending" => row = approval[a]
    BY <1>1 DEF Rows
  <2>4. approval[a].status = "pending" => /\ row.status = status
                                          /\ row.run = approval[a].run
                                          /\ row.subject = approval[a].subject
    BY <1>1 DEF Rows
  <2> QED BY <1>1, <2>1, <2>2, <2>3, <2>4 DEF Marked
<1>3. CASE Lapse(a)
  <2>1. left \in Rows
    BY <1>1 DEF Rows
  <2>2. approval' = [approval EXCEPT ![a] = left]
    BY <1>1, <1>3 DEF Lapse
  <2>3. approval[a].status # "pending" => left = approval[a]
    BY <1>1 DEF Rows
  <2>4. approval[a].status = "pending" => /\ left.status = "pending" /\ left.lapsed
                                          /\ left.run = approval[a].run
                                          /\ left.subject = approval[a].subject
    BY <1>1 DEF Rows
  <2> QED BY <1>1, <2>1, <2>2, <2>3, <2>4 DEF Marked
<1> QED BY <1>2, <1>3

\* A new request takes a free row.
Inserted(a, r, status) ==
    /\ approval' \in [Approvals -> Rows]
    /\ approval[a].status = "none"
    /\ approval'[a].run = r /\ approval'[a].status = status
    /\ \A b \in Approvals \ {a} : approval'[b] = approval[b]

\* Both inserts take a free row, for a run that is active.
LEMMA InsertIsInserted ==
    ASSUME CodexTypeOK, NEW r \in Runs, NEW s \in Subjects \cup {None},
           NEW status \in {"pending", "auto_denied"}, NEW lapsed \in BOOLEAN,
           InsertRow(r, s, status, lapsed)
    PROVE  /\ IsActive(r)
           /\ \E a \in Approvals : Inserted(a, r, status) /\ approval'[a].lapsed = lapsed
<1> DEFINE row == [run |-> r, subject |-> s, status |-> status, lapsed |-> lapsed]
<1>1. PICK a \in Approvals : approval[a].status = "none" /\ approval' = [approval EXCEPT ![a] = row]
  BY DEF InsertRow
<1>2. row \in Rows
  BY DEF Rows
<1> QED BY <1>1, <1>2 DEF Inserted, InsertRow, CodexTypeOK

-----------------------------------------------------------------------------
(* The steps of a runner that becomes w, by what happens to its requests.  *)

\* It works without a request that is open, or becomes one that does.
Works(r, w) ==
    /\ runner[r].at \notin {"waiting", "returned"}
    /\ w.at \notin {"off", "waiting"}
    /\ UNCHANGED <<worker, approval>>

\* Its request is denied by policy, or its new row cannot be read back.
IsDenied(r, w) ==
    /\ runner[r].at \notin {"waiting", "returned"}
    /\ w = Failed
    /\ IsActive(r)
    /\ \E a \in Approvals : \/ Inserted(a, r, "auto_denied")
                            \/ Inserted(a, r, "pending") /\ approval'[a].lapsed
    /\ UNCHANGED worker

\* It begins to wait for a request of its own.
Waits(r, w) ==
    /\ runner[r].at \notin {"waiting", "returned"}
    /\ IsActive(r)
    /\ w.at = "waiting"
    /\ w.waits \in Approvals /\ Inserted(w.waits, r, "pending")
    /\ approval'[w.waits].subject = w.subject
    /\ UNCHANGED worker

\* It finds its request resolved, and goes on only after a decision.
IsAnswered(r, w) ==
    /\ runner[r].at = "waiting"
    /\ approval[runner[r].waits].status # "pending"
    /\ w = Failed \/ (w = Reading(r) /\ approval[runner[r].waits].status \in Decisions)
    /\ UNCHANGED <<worker, approval>>

\* It stops waiting, and resolves its request if nobody did and the store lets it.
Stops(r, w) ==
    /\ runner[r].at = "waiting"
    /\ \E status \in {"timeout", "cancelled"} : Marked(runner[r].waits, status)
    /\ w = Failed
    /\ UNCHANGED worker

\* It returns to its worker, which goes on to another turn only if the handoff is
\* missing.
Returns(r, w) ==
    /\ runner[r].at = "returned"
    /\ w.at = "off"
    /\ worker'[r].at \in {"check_after_run", "check_continue"}
    /\ Returned(r) => worker'[r].at = "check_after_run"
    /\ \A q \in Runs \ {r} : worker'[q] = worker[q]
    /\ UNCHANGED approval

\* Every step of a runner is one of these.
LEMMA RunnerSteps ==
    ASSUME WorkerInv, CodexTypeOK, RunnersServeWorkers, NEW r \in Runs, RunnerStep(r)
    PROVE  /\ At(r, "agent")
           /\ UNCHANGED daemonVars
           /\ grants' \in [Runs -> [Subjects -> 0..MaxGrants]]
           /\ \E w \in Runners :
                 /\ Becomes(r, w)
                 /\ \/ Works(r, w) \/ IsDenied(r, w) \/ Waits(r, w)
                    \/ IsAnswered(r, w) \/ Stops(r, w) \/ Returns(r, w)
<1> DEFINE Outcome(w) == \/ Works(r, w) \/ IsDenied(r, w) \/ Waits(r, w)
                         \/ IsAnswered(r, w) \/ Stops(r, w) \/ Returns(r, w)
           Goal == \E w \in Runners : Becomes(r, w) /\ Outcome(w)
           Kept == grants' \in [Runs -> [Subjects -> 0..MaxGrants]]
<1>1. runner \in [Runs -> Runners] /\ runner[r] \in Runners
  BY DEF CodexTypeOK
<1>2. UNCHANGED grants => Kept
  BY DEF CodexTypeOK
<1>3. At(r, "agent") /\ UNCHANGED daemonVars
  BY DEF RunnerStep, Run, EndTurn, FailTurn, SubmitHandoff, FinishHandoff, ReturnResult, Ask,
         Match, Create, Poll, TimeOut, StopWaiting, Stage, ValidateCall, DispatchCall, allVars
<1>4. Failed.at = "returned" /\ Reading(r).at = "reading"
  BY <1>1 DEF Failed, NoRunner, Reading, Runners
<1>5. ASSUME Fail(r), runner[r].at \notin {"waiting", "returned"}, UNCHANGED <<worker, approval>>
      PROVE  Goal
  BY <1>4, <1>5, RunnerMoves DEF Works, Becomes
<1>6. ASSUME NEW w \in Runners, runner' = [runner EXCEPT ![r] = w], w.at \notin {"off", "waiting"},
             runner[r].at \notin {"waiting", "returned"}, UNCHANGED <<worker, approval>>
      PROVE  Goal
  BY <1>6 DEF Works, Becomes
<1>7. CASE Run(r)
  <2> DEFINE w == [runner[r] EXCEPT !.at = "reading", !.session = TRUE, !.received = FALSE]
  <2>1. w \in Runners /\ w.at = "reading"
    BY <1>1 DEF Runners
  <2>2. Fail(r) \/ runner' = [runner EXCEPT ![r] = w]
    BY <1>1, <1>7 DEF Run
  <2>3. Goal
    BY <1>5, <1>6, <1>7, <2>1, <2>2 DEF Run, Stage, allVars
  <2> QED BY <1>2, <1>3, <1>7, <2>3 DEF Run
<1>8. CASE EndTurn(r)
  <2> DEFINE w1 == [NoRunner EXCEPT !.at = "returned", !.result = "success"]
             w2 == [runner[r] EXCEPT !.at = "returned", !.result = "missing"]
  <2>1. w1 \in Runners /\ w1.at = "returned"
    BY DEF NoRunner, Runners
  <2>2. w2 \in Runners /\ w2.at = "returned"
    BY <1>1 DEF Runners
  <2>3. runner' = [runner EXCEPT ![r] = w1] \/ runner' = [runner EXCEPT ![r] = w2]
    BY <1>8 DEF EndTurn
  <2>4. Goal
    BY <1>6, <1>8, <2>1, <2>2, <2>3 DEF EndTurn, Stage, allVars
  <2> QED BY <1>2, <1>3, <1>8, <2>4 DEF EndTurn
<1>9. CASE FailTurn(r)
  BY <1>2, <1>3, <1>5, <1>9 DEF FailTurn, Stage, allVars
<1>10. CASE SubmitHandoff(r)
  <2> DEFINE w == [runner[r] EXCEPT !.at = "handoff"]
  <2>1. w \in Runners /\ w.at = "handoff"
    BY <1>1 DEF Runners
  <2>2. Fail(r) \/ runner' = [runner EXCEPT ![r] = w]
    BY <1>1, <1>10 DEF SubmitHandoff
  <2>3. runner[r].at = "reading" /\ UNCHANGED <<worker, approval, grants>>
    BY <1>10 DEF SubmitHandoff, Stage, ValidateCall, allVars
  <2> QED BY <1>2, <1>3, <1>5, <1>6, <2>1, <2>2, <2>3
<1>11. CASE FinishHandoff(r)
  <2> DEFINE w == [runner[r] EXCEPT !.at = "reading", !.received = TRUE]
  <2>1. w \in Runners /\ w.at = "reading"
    BY <1>1 DEF Runners
  <2>2. Fail(r) \/ runner' = [runner EXCEPT ![r] = w]
    BY <1>1, <1>11 DEF FinishHandoff
  <2>3. runner[r].at = "handoff" /\ UNCHANGED <<worker, approval, grants>>
    BY <1>11 DEF FinishHandoff, Stage, DispatchCall
  <2> QED BY <1>2, <1>3, <1>5, <1>6, <2>1, <2>2, <2>3
<1>12. CASE ReturnResult(r)
  <2> DEFINE w == [runner[r] EXCEPT !.at = "off", !.result = "none"]
  <2>1. w \in Runners /\ w.at = "off"
    BY <1>1 DEF Runners
  <2>2. runner' = [runner EXCEPT ![r] = w]
    BY <1>1, <1>12 DEF ReturnResult
  <2>3. worker \in [Runs -> Workers] /\ worker[r] \in Workers
    BY DEF WorkerInv, WorkerTypeOK
  <2>4. /\ worker'[r].at \in {"check_after_run", "check_continue"}
        /\ Returned(r) => worker'[r].at = "check_after_run"
        /\ \A q \in Runs \ {r} : worker'[q] = worker[q]
    BY <1>12, <2>3 DEF ReturnResult, Returned, Goto, GiveUp, Workers
  <2>5. Returns(r, w)
    BY <1>12, <2>1, <2>4 DEF ReturnResult, Returns, Stage
  <2> QED BY <1>2, <1>3, <1>12, <2>1, <2>2, <2>5 DEF ReturnResult, Becomes
<1>13. ASSUME NEW s \in Subjects, Ask(r, s) PROVE Goal /\ Kept
  <2>1. runner[r].at = "reading" /\ UNCHANGED <<worker, grants>>
    BY <1>13 DEF Ask, Stage, allVars
  <2>2. CASE InsertRow(r, s, "auto_denied", FALSE) /\ Fail(r)
    <3>1. Becomes(r, Failed)
      BY <2>2, RunnerMoves
    <3>2. IsDenied(r, Failed)
      BY <2>1, <2>2, InsertIsInserted DEF IsDenied
    <3> QED BY <1>2, <2>1, <3>1, <3>2 DEF Becomes
  <2>3. CASE UNCHANGED approval /\ Fail(r)
    BY <1>2, <1>5, <2>1, <2>3
  <2>4. ASSUME NEW stage \in {"match", "create"}, UNCHANGED approval,
               runner' = [runner EXCEPT ![r].at = stage, ![r].subject = s]
        PROVE  Goal /\ Kept
    <3> DEFINE w == [runner[r] EXCEPT !.at = stage, !.subject = s]
    <3>1. w \in Runners /\ w.at = stage
      BY <1>1 DEF Runners
    <3>2. runner' = [runner EXCEPT ![r] = w]
      BY <1>1, <2>4
    <3> QED BY <1>2, <1>6, <2>1, <2>4, <3>1, <3>2
  <2> QED BY <1>13, <2>2, <2>3, <2>4 DEF Ask
<1>14. CASE Match(r)
  <2>1. runner[r].at = "match" /\ UNCHANGED <<worker, approval>>
    BY <1>14 DEF Match, Stage, allVars
  <2>2. CASE Fail(r) /\ UNCHANGED grants
    BY <1>2, <1>3, <1>5, <2>1, <2>2
  <2>3. CASE HasApprovedForRun(r, runner[r].subject) /\ Grant(r, runner[r].subject)
    <3>1. Kept /\ (Becomes(r, Failed) \/ Becomes(r, Reading(r)))
      BY <2>3, RunnerMoves
    <3> QED BY <1>3, <1>4, <1>6, <2>1, <3>1 DEF Becomes
  <2>4. CASE runner' = [runner EXCEPT ![r].at = "create"] /\ UNCHANGED grants
    <3> DEFINE w == [runner[r] EXCEPT !.at = "create"]
    <3>1. w \in Runners /\ w.at = "create"
      BY <1>1 DEF Runners
    <3>2. runner' = [runner EXCEPT ![r] = w]
      BY <1>1, <2>4
    <3> QED BY <1>2, <1>3, <1>6, <2>1, <2>4, <3>1, <3>2
  <2> QED BY <1>14, <2>2, <2>3, <2>4 DEF Match
<1>15. CASE Create(r)
  <2>1. runner[r].at = "create" /\ UNCHANGED <<worker, grants>>
    BY <1>15 DEF Create, Stage, allVars
  <2>2. CASE Fail(r) /\ UNCHANGED approval
    BY <1>2, <1>3, <1>5, <2>1, <2>2
  <2>3. ASSUME InsertRow(r, runner[r].subject, "pending", FALSE), NEW a \in Approvals,
               approval'[a] # approval[a],
               runner' = [runner EXCEPT ![r].at = "waiting", ![r].waits = a]
        PROVE  Goal
    <3> DEFINE w == [runner[r] EXCEPT !.at = "waiting", !.waits = a]
    <3>1. w \in Runners /\ w.at = "waiting" /\ w.waits = a /\ w.subject = runner[r].subject
      BY <1>1 DEF Runners
    <3>2. runner' = [runner EXCEPT ![r] = w]
      BY <1>1, <2>3
    <3>3. PICK b \in Approvals : Inserted(b, r, "pending")
      BY <2>3, <1>1, InsertIsInserted DEF Runners
    <3>4. a = b
      BY <2>3, <3>3 DEF Inserted
    <3>5. approval'[a].subject = runner[r].subject
      <4> DEFINE row == [run |-> r, subject |-> runner[r].subject, status |-> "pending",
                         lapsed |-> FALSE]
      <4>1. PICK c \in Approvals : approval' = [approval EXCEPT ![c] = row]
        BY <2>3 DEF InsertRow
      <4>2. a = c
        BY <2>3, <4>1
      <4> QED BY <4>1, <4>2 DEF CodexTypeOK
    <3>6. Waits(r, w)
      BY <2>1, <2>3, <3>1, <3>3, <3>4, <3>5 DEF Waits, InsertRow
    <3> QED BY <3>1, <3>2, <3>6 DEF Becomes
  <2>4. CASE InsertRow(r, runner[r].subject, "pending", TRUE) /\ Fail(r)
    <3>1. Becomes(r, Failed)
      BY <2>4, RunnerMoves
    <3>2. runner[r].subject \in Subjects \cup {None}
      BY <1>1 DEF Runners
    <3>3. IsActive(r) /\ \E a \in Approvals : Inserted(a, r, "pending") /\ approval'[a].lapsed
      BY <2>4, <3>2, InsertIsInserted
    <3>4. IsDenied(r, Failed)
      BY <2>1, <3>3 DEF IsDenied
    <3> QED BY <1>2, <1>3, <2>1, <3>1, <3>4 DEF Becomes
  <2> QED BY <1>2, <1>3, <1>15, <2>1, <2>2, <2>3, <2>4 DEF Create
<1>16. ASSUME NEW status \in {"timeout", "cancelled"}, runner[r].at = "waiting",
              MarkIfPending(runner[r].waits, status) \/ Lapse(runner[r].waits), Fail(r), UNCHANGED <<worker, grants>>
       PROVE  Goal /\ Kept
  <2>1. runner[r].waits \in Approvals
    BY <1>16 DEF RunnersServeWorkers, ServesWorker
  <2>2. Marked(runner[r].waits, status)
    BY <1>16, <2>1, MarkIsMarked
  <2>3. Becomes(r, Failed) /\ Stops(r, Failed)
    BY <1>16, <2>2, RunnerMoves DEF Stops
  <2> QED BY <1>2, <1>16, <2>3 DEF Becomes
<1>17. CASE Poll(r)
  <2> DEFINE a == runner[r].waits
  <2>1. runner[r].at = "waiting" /\ UNCHANGED worker
    BY <1>17 DEF Poll, Stage, allVars
  <2>2. ASSUME Becomes(r, Failed), approval[a].status # "pending", UNCHANGED approval PROVE Goal
    BY <2>1, <2>2 DEF IsAnswered, Becomes
  <2>3. ASSUME Becomes(r, Reading(r)), approval[a].status \in Decisions, UNCHANGED approval
        PROVE  Goal
    <3>1. approval[a].status # "pending"
      BY <2>3 DEF Decisions
    <3> QED BY <2>1, <2>3, <3>1 DEF IsAnswered, Becomes
  <2>4. CASE approval[a].status \in {"timeout", "cancelled"} /\ Fail(r)
             /\ UNCHANGED <<approval, grants>>
    BY <1>2, <1>3, <2>2, <2>4, RunnerMoves
  <2>5. CASE approval[a].status \in {"approved_once", "approved_for_run"}
             /\ Grant(r, runner[r].subject) /\ UNCHANGED approval
    <3>1. Kept /\ (Becomes(r, Failed) \/ Becomes(r, Reading(r)))
      BY <2>5, RunnerMoves
    <3> QED BY <1>3, <2>2, <2>3, <2>5, <3>1 DEF Decisions
  <2>6. CASE approval[a].status = "denied" /\ (KeepReading(r) \/ Fail(r))
             /\ UNCHANGED <<approval, grants>>
    BY <1>2, <1>3, <2>2, <2>3, <2>6, RunnerMoves DEF Decisions
  <2>7. CASE Lapse(a) /\ Fail(r) /\ UNCHANGED grants
    BY <1>3, <1>16, <2>1, <2>7
  <2> QED BY <1>17, <2>4, <2>5, <2>6, <2>7 DEF Poll
<1>18. CASE TimeOut(r) \/ StopWaiting(r)
  BY <1>3, <1>16, <1>18 DEF TimeOut, StopWaiting, Stage, allVars
<1> QED BY <1>3, <1>7, <1>8, <1>9, <1>10, <1>11, <1>12, <1>13, <1>14, <1>15, <1>17, <1>18
        DEF RunnerStep

-----------------------------------------------------------------------------
(* The invariant.                                                          *)

\* What a step has to keep, besides the workers' invariant and the codes.
Kept ==
    /\ runner' \in [Runs -> Runners]
    /\ approval' \in [Approvals -> Rows]
    /\ grants' \in [Runs -> [Subjects -> 0..MaxGrants]]
    /\ RowsHaveRuns'
    /\ RunnersServeWorkers'
    /\ PendingInv'
    /\ UnansweredInv'

\* Of the requests of a run whose worker is at its agent, the one that is waited
\* for may be open, and no other unless the runner gave up.
LEMMA OpenRequests ==
    ASSUME PendingInv, UnansweredInv, NEW r \in Runs, At(r, "agent"),
           NEW a \in Approvals, approval[a].run = r
    PROVE  approval[a].status \in {"pending", "timeout", "cancelled", "auto_denied"}
              => Waited(a) \/ Returned(r)
BY DEF PendingInv, UnansweredInv, PendingIsHeld, UnansweredEnds, At, Past

\* A step of a runner keeps the invariant.
LEMMA RunnerStepKeeps ==
    ASSUME CodexInv, NEW r \in Runs, RunnerStep(r)
    PROVE  Kept
<1>1. /\ WorkerInv /\ CodexTypeOK /\ RowsHaveRuns /\ RunnersServeWorkers
      /\ PendingInv /\ UnansweredInv /\ CodesAreOfEndedRuns
  BY DEF CodexInv
<1>2. /\ runner \in [Runs -> Runners] /\ approval \in [Approvals -> Rows]
      /\ worker \in [Runs -> Workers]
  BY <1>1 DEF CodexTypeOK, WorkerInv, WorkerTypeOK
<1>3. [WorkerNext]_allVars
  BY RunnerStepOfWorker
<1>4. PICK w \in Runners :
         /\ Becomes(r, w)
         /\ \/ Works(r, w) \/ IsDenied(r, w) \/ Waits(r, w)
            \/ IsAnswered(r, w) \/ Stops(r, w) \/ Returns(r, w)
  BY <1>1, RunnerSteps
<1>5. /\ At(r, "agent") /\ UNCHANGED daemonVars
      /\ grants' \in [Runs -> [Subjects -> 0..MaxGrants]]
  BY <1>1, RunnerSteps
<1>6. /\ runner' \in [Runs -> Runners] /\ runner'[r] = w
      /\ \A q \in Runs \ {r} : runner'[q] = runner[q]
  BY <1>2, <1>4 DEF Becomes
<1>7. \A q \in Runs : runStatus[q] # "none" =>
         runStatus'[q] # "none" /\ (worker[q].at \in Past => worker'[q].at \in Past)
  BY <1>1, <1>3, StageStep
<1>8. runStatus[r] # "none"
  BY <1>1, <1>5 DEF WorkerInv, NoWorkerBeforeClaim, Lives, At
<1>9. \A q \in Runs : \/ runCode'[q] = runCode[q]
                      \/ runCode'[q] # "daemon_restarted_run_interrupted"
  <2>1. \A q \in Runs : ~ReconcileStale(q)
    BY <1>5 DEF ReconcileStale, daemonVars
  <2> QED BY <1>1, <1>3, <2>1, CodeStep DEF WorkerInv, IndInv
<1>10. \A q \in Runs \ {r} : worker'[q] = worker[q]
  BY <1>4 DEF Works, IsDenied, Waits, IsAnswered, Stops, Returns
<1>11. w.at # "off" => worker'[r].at = "agent"
  BY <1>4, <1>5 DEF Works, IsDenied, Waits, IsAnswered, Stops, Returns, At
<1>12. Failed.at = "returned" /\ Failed.result = "failed" /\ Reading(r).at = "reading"
  BY <1>2 DEF Failed, NoRunner, Reading, Runners
<1> DEFINE Open == {"pending", "timeout", "cancelled", "auto_denied"}
           RowKept(a) == RowHasRun(a)' /\ PendingIsHeld(a)' /\ UnansweredEnds(a)'
<1>13. ASSUME NEW a \in Approvals, approval'[a] = approval[a], approval[a].run # r
       PROVE  RowKept(a)
  <2>1. CASE approval[a].status = "none"
    BY <1>13, <2>1 DEF RowHasRun, PendingIsHeld, UnansweredEnds
  <2>2. CASE approval[a].status # "none"
    <3> DEFINE q == approval[a].run
    <3>1. q \in Runs \ {r} /\ runStatus[q] # "none"
      BY <1>1, <1>13, <2>2 DEF RowsHaveRuns, RowHasRun
    <3>2. runner'[q] = runner[q] /\ worker'[q] = worker[q]
      BY <1>6, <1>10, <3>1
    <3>3. RowHasRun(a)'
      BY <1>7, <1>13, <3>1 DEF RowHasRun
    <3>4. Waited(a)' <=> Waited(a)
      BY <1>13, <3>2 DEF Waited
    <3>5. PendingIsHeld(a)'
      BY <1>1, <1>9, <1>13, <3>1, <3>2, <3>4 DEF PendingInv, PendingIsHeld, At, Returned
    <3>6. UnansweredEnds(a)'
      BY <1>1, <1>13, <3>2, <3>4 DEF UnansweredInv, UnansweredEnds, Returned
    <3> QED BY <3>3, <3>5, <3>6
  <2> QED BY <2>1, <2>2
<1>14. ASSUME NEW a \in Approvals, approval'[a] = approval[a], approval[a].status \notin Open
       PROVE  RowKept(a)
  BY <1>1, <1>7, <1>14
     DEF RowsHaveRuns, RowHasRun, PendingIsHeld, UnansweredEnds
<1>15. ASSUME NEW q \in Runs \ {r},
              runner[q].at = "waiting" => approval'[runner[q].waits] = approval[runner[q].waits]
       PROVE  ServesWorker(q)'
  BY <1>1, <1>6, <1>10, <1>15 DEF RunnersServeWorkers, ServesWorker, At
<1>16. ASSUME \A a \in Approvals : RowKept(a), \A q \in Runs : ServesWorker(q)',
              approval' \in [Approvals -> Rows]
       PROVE  Kept
  BY <1>5, <1>6, <1>16
     DEF Kept, RowsHaveRuns, RunnersServeWorkers, PendingInv, UnansweredInv
<1>17. ASSUME w = Failed, NEW a \in Approvals, approval'[a].run = r,
             \/ approval'[a].status # "pending"
             \/ approval'[a].lapsed /\ runCode'[r] # "daemon_restarted_run_interrupted"
      PROVE  RowKept(a)
  <2>1. Returned(r)'
    BY <1>6, <1>12, <1>17 DEF Returned
  <2> QED BY <1>7, <1>8, <1>17, <2>1 DEF RowHasRun, PendingIsHeld, UnansweredEnds
<1> HIDE DEF RowKept
<1>18. ASSUME NEW a \in Approvals, runner[r].at \notin {"waiting", "returned"},
              approval[a].run = r
       PROVE  approval[a].status \notin Open
  BY <1>1, <1>5, <1>18, OpenRequests DEF Waited, Returned
<1>19. w.at # "waiting" => ServesWorker(r)'
  BY <1>6, <1>11 DEF ServesWorker, At
<1>20. CASE Works(r, w)
  <2>1. \A a \in Approvals : RowKept(a)
    BY <1>13, <1>14, <1>18, <1>20 DEF Works
  <2>2. \A q \in Runs : ServesWorker(q)'
    BY <1>15, <1>19, <1>20 DEF Works
  <2> QED BY <1>2, <1>16, <1>20, <2>1, <2>2 DEF Works
<1>29. IsActive(r) => runCode'[r] # "daemon_restarted_run_interrupted"
  <2> SUFFICES ASSUME IsActive(r) PROVE runCode'[r] # "daemon_restarted_run_interrupted"
    OBVIOUS
  <2>1. runCode[r] = "none"
    BY <1>1 DEF CodesAreOfEndedRuns, Ended, IsActive, EndedRunStatus, ActiveRunStatus
  <2> QED BY <1>9, <2>1
<1>21. CASE IsDenied(r, w)
  <2>1. PICK a \in Approvals : \/ Inserted(a, r, "auto_denied")
                               \/ Inserted(a, r, "pending") /\ approval'[a].lapsed
    BY <1>21 DEF IsDenied
  <2>5. runCode'[r] # "daemon_restarted_run_interrupted"
    BY <1>21, <1>29 DEF IsDenied
  <2>2. RowKept(a)
    BY <1>21, <1>17, <2>1, <2>5 DEF IsDenied, Inserted
  <2>3. \A b \in Approvals : RowKept(b)
    BY <1>13, <1>14, <1>18, <1>21, <2>1, <2>2 DEF IsDenied, Inserted
  <2>4. \A q \in Runs \ {r} : ServesWorker(q)'
    BY <1>1, <1>15, <2>1 DEF RunnersServeWorkers, ServesWorker, Inserted
  <2> QED BY <1>12, <1>16, <1>19, <1>21, <2>1, <2>3, <2>4 DEF IsDenied, Inserted
<1>22. CASE Waits(r, w)
  <2> DEFINE a == w.waits
  <2>1. a \in Approvals /\ Inserted(a, r, "pending") /\ w.at = "waiting" /\ IsActive(r)
    BY <1>22 DEF Waits
  <2>2. runCode'[r] # "daemon_restarted_run_interrupted"
    BY <1>29, <2>1
  <2>3. RowKept(a)
    BY <1>6, <1>7, <1>8, <2>1, <2>2
       DEF RowKept, Inserted, Waited, RowHasRun, PendingIsHeld, UnansweredEnds
  <2>4. \A b \in Approvals : RowKept(b)
    BY <1>13, <1>14, <1>18, <1>22, <2>1, <2>3 DEF Waits, Inserted
  <2>5. \A q \in Runs \ {r} : ServesWorker(q)'
    BY <1>1, <1>15, <2>1 DEF RunnersServeWorkers, ServesWorker, Inserted
  <2>6. ServesWorker(r)'
    BY <1>6, <1>11, <2>1 DEF Inserted, ServesWorker, At
  <2> QED BY <1>16, <2>1, <2>4, <2>5, <2>6 DEF Inserted
<1>23. runner[r].at = "waiting" => /\ runner[r].waits \in Approvals
                                   /\ approval[runner[r].waits].run = r
  BY <1>1 DEF RunnersServeWorkers, ServesWorker
<1>24. ASSUME NEW a \in Approvals, runner[r].at = "waiting", approval[a].run = r,
              a # runner[r].waits
       PROVE  approval[a].status \notin Open
  BY <1>1, <1>5, <1>24, OpenRequests DEF Waited, Returned
<1>25. CASE IsAnswered(r, w)
  <2> DEFINE a == runner[r].waits
  <2>1. /\ a \in Approvals /\ approval[a].run = r /\ runner[r].at = "waiting"
        /\ approval[a].status # "pending"
        /\ approval' = approval
        /\ w = Failed \/ (w = Reading(r) /\ approval[a].status \in Decisions)
    BY <1>23, <1>25 DEF IsAnswered
  <2> HIDE DEF a
  <2>2. RowKept(a)
    <3>1. CASE w = Failed
      BY <1>17, <2>1, <3>1
    <3>2. CASE approval[a].status \in Decisions
      <4>1. approval[a].status \notin Open
        BY <3>2 DEF Decisions
      <4> QED BY <1>14, <2>1, <4>1
    <3> QED BY <2>1, <3>1, <3>2
  <2>3. ASSUME NEW b \in Approvals, b # a PROVE RowKept(b)
    <3>1. approval[b].run = r => approval[b].status \notin Open
      BY <1>24, <2>1, <2>3 DEF a
    <3> QED BY <1>13, <1>14, <2>1, <3>1
  <2>4. \A q \in Runs : ServesWorker(q)'
    BY <1>12, <1>15, <1>19, <2>1
  <2> QED BY <1>2, <1>16, <2>1, <2>2, <2>3, <2>4
<1>26. CASE Stops(r, w)
  <2> DEFINE a == runner[r].waits
  <2>1. a \in Approvals /\ approval[a].run = r /\ runner[r].at = "waiting" /\ w = Failed
    BY <1>23, <1>26 DEF Stops
  <2>2. PICK status \in {"timeout", "cancelled"} : Marked(a, status)
    BY <1>26 DEF Stops
  <2>3. \A b \in Approvals \ {a} : approval'[b] = approval[b]
    BY <2>2 DEF Marked
  <2>4. /\ approval'[a].run = r
        /\ approval'[a].status = "pending" => approval'[a].lapsed /\ approval[a].status = "pending"
    BY <2>1, <2>2 DEF Marked
  <2>8. approval[a].status = "pending" => runCode'[r] # "daemon_restarted_run_interrupted"
    BY <1>1, <1>9, <2>1 DEF PendingInv, PendingIsHeld
  <2>5. RowKept(a)
    BY <1>17, <2>1, <2>4, <2>8
  <2>6. \A q \in Runs \ {r} : ServesWorker(q)'
    BY <1>1, <1>15, <2>1, <2>3 DEF RunnersServeWorkers, ServesWorker
  <2> HIDE DEF a
  <2>7. ASSUME NEW b \in Approvals, b # a PROVE RowKept(b)
    <3>1. approval[b].run = r => approval[b].status \notin Open
      BY <1>24, <2>1, <2>7 DEF a
    <3> QED BY <1>13, <1>14, <2>3, <2>7, <3>1
  <2> QED BY <1>12, <1>16, <1>19, <2>1, <2>2, <2>5, <2>6, <2>7 DEF Marked
<1>27. CASE Returns(r, w)
  <2>1. \A a \in Approvals : approval[a].run = r => RowKept(a)
    <3> SUFFICES ASSUME NEW a \in Approvals, approval[a].run = r PROVE RowKept(a)
      OBVIOUS
    <3>1. approval[a].status \in Open => Returned(r)
      BY <1>1, <1>5, <1>27, OpenRequests DEF Returns, Waited
    <3>2. Returned(r) => worker'[r].at \in Past
      BY <1>27 DEF Returns, Past
    <3>3. approval[a].status = "pending" =>
             approval[a].lapsed /\ runCode'[r] # "daemon_restarted_run_interrupted"
      BY <1>1, <1>5, <1>9, <1>27 DEF PendingInv, PendingIsHeld, Returns, Waited, At
    <3> QED BY <1>7, <1>8, <1>27, <3>1, <3>2, <3>3
            DEF RowKept, Returns, RowHasRun, PendingIsHeld, UnansweredEnds
  <2>2. \A a \in Approvals : RowKept(a)
    BY <1>13, <1>27, <2>1 DEF Returns
  <2>3. \A q \in Runs : ServesWorker(q)'
    BY <1>15, <1>19, <1>27 DEF Returns
  <2> QED BY <1>2, <1>16, <1>27, <2>2, <2>3 DEF Returns
<1> QED BY <1>4, <1>20, <1>21, <1>22, <1>25, <1>26, <1>27

\* A step that is not a runner's: runners go on as they are or are lost with
\* their worker, and requests are decided or cancelled.
OtherStepOfRunners ==
    /\ [WorkerNext]_allVars
    /\ \A r \in Runs :
          /\ runner'[r] = runner[r] \/ runner'[r] = NoRunner
          /\ runner[r].at # "off" => \/ worker'[r].at = "agent" /\ runner'[r] = runner[r]
                                     \/ worker'[r].at = "dead" /\ runner'[r] = NoRunner
    /\ runner' \in [Runs -> Runners]
    /\ approval' \in [Approvals -> Rows]
    /\ \A a \in Approvals :
          /\ approval'[a].run = approval[a].run
          /\ approval'[a].subject = approval[a].subject
          /\ approval'[a].lapsed = approval[a].lapsed
          /\ \/ approval'[a].status = approval[a].status
             \/ /\ approval[a].status = "pending"
                /\ approval'[a].status \in Decisions \cup {"cancelled"}
          /\ approval'[a].status = "pending" => ~ReconcileStale(approval[a].run)
    /\ UNCHANGED grants

\* Such a step keeps the invariant.
LEMMA OtherStepKeeps ==
    ASSUME CodexInv, OtherStepOfRunners
    PROVE  Kept
<1>1. /\ WorkerInv /\ CodexTypeOK /\ RowsHaveRuns /\ RunnersServeWorkers
      /\ PendingInv /\ UnansweredInv /\ CodesAreOfEndedRuns
  BY DEF CodexInv
<1>2. NoRunner.at = "off"
  BY DEF NoRunner
<1>3. ASSUME NEW r \in Runs PROVE ServesWorker(r)'
  <2>1. CASE runner[r].at = "off"
    BY <1>2, <2>1 DEF OtherStepOfRunners, ServesWorker
  <2>2. CASE runner'[r] = NoRunner
    BY <1>2, <2>2 DEF ServesWorker
  <2>3. CASE runner[r].at # "off" /\ worker'[r].at = "agent" /\ runner'[r] = runner[r]
    <3>1. ASSUME runner[r].at = "waiting"
          PROVE  LET a == runner[r].waits
                 IN  a \in Approvals /\ approval'[a].run = r /\ approval'[a].status # "none"
      BY <1>1, <3>1 DEF OtherStepOfRunners, RunnersServeWorkers, ServesWorker, Decisions
    <3> QED BY <2>3, <3>1 DEF ServesWorker, At
  <2> QED BY <2>1, <2>2, <2>3 DEF OtherStepOfRunners
<1>4. ASSUME NEW a \in Approvals, approval'[a].status # "none"
      PROVE  RowHasRun(a)' /\ PendingIsHeld(a)' /\ UnansweredEnds(a)'
  <2> DEFINE r == approval[a].run
  <2>1. /\ approval[a].status # "none" /\ approval'[a].run = r
        /\ approval'[a].lapsed = approval[a].lapsed
        /\ \/ approval'[a].status = approval[a].status
           \/ /\ approval[a].status = "pending"
              /\ approval'[a].status \in Decisions \cup {"cancelled"}
        /\ approval'[a].status = "pending" => ~ReconcileStale(r)
    BY <1>4 DEF OtherStepOfRunners
  <2>2. r \in Runs /\ runStatus[r] # "none"
    BY <1>1, <2>1 DEF RowsHaveRuns, RowHasRun
  <2>3. /\ runStatus'[r] # "none"
        /\ worker[r].at \in Past => worker'[r].at \in Past
        /\ worker[r].at = "dead" => worker'[r].at = "dead"
    BY <1>1, <2>2, StageStep DEF OtherStepOfRunners
  <2>4. /\ runner[r].at # "off" => runner'[r] = runner[r] \/ worker'[r].at = "dead"
    BY <2>2 DEF OtherStepOfRunners
  <2>5. RowHasRun(a)'
    BY <2>1, <2>2, <2>3 DEF RowHasRun
  <2>6. /\ Waited(a) => Waited(a)' \/ worker'[r].at = "dead"
        /\ Returned(r) => Returned(r)' \/ worker'[r].at = "dead"
    BY <2>1, <2>4 DEF Waited, Returned
  <2>7. PendingIsHeld(a)'
    <3> SUFFICES ASSUME approval'[a].status = "pending"
                 PROVE  /\ \/ Waited(a)'
                           \/ worker'[r].at = "dead"
                           \/ approval[a].lapsed /\ (Returned(r)' \/ worker'[r].at \in Past)
                        /\ runCode'[r] # "daemon_restarted_run_interrupted"
      BY <2>1 DEF PendingIsHeld, At, Returned
    <3>1. approval[a].status = "pending"
      BY <2>1
    <3>2. \/ runCode'[r] = runCode[r]
          \/ runCode'[r] # "daemon_restarted_run_interrupted"
      BY <1>1, <2>1, <2>2, CodeStep DEF OtherStepOfRunners, WorkerInv, IndInv
    <3> QED BY <1>1, <2>3, <2>6, <3>1, <3>2 DEF PendingInv, PendingIsHeld, At
  <2>8. UnansweredEnds(a)'
    <3> SUFFICES ASSUME approval'[a].status \in {"timeout", "cancelled", "auto_denied"}
                 PROVE  Waited(a)' \/ Returned(r)' \/ worker'[r].at \in Past
      BY <2>1 DEF UnansweredEnds
    <3>1. Waited(a) \/ Returned(r) \/ worker[r].at \in Past
      BY <1>1, <2>1 DEF PendingInv, PendingIsHeld, UnansweredInv, UnansweredEnds, At, Past
    <3> QED BY <2>3, <2>6, <3>1 DEF Past
  <2> QED BY <2>5, <2>7, <2>8
<1>5. ASSUME NEW a \in Approvals, approval'[a].status = "none"
      PROVE  RowHasRun(a)' /\ PendingIsHeld(a)' /\ UnansweredEnds(a)'
  BY <1>5 DEF RowHasRun, PendingIsHeld, UnansweredEnds
<1> QED BY <1>1, <1>3, <1>4, <1>5
        DEF Kept, OtherStepOfRunners, RowsHaveRuns, RunnersServeWorkers, PendingInv,
            UnansweredInv, CodexTypeOK

\* Every step that is not a runner's is of that kind.
LEMMA OtherSteps ==
    ASSUME CodexInv, [CodexNext]_everything, \A r \in Runs : ~RunnerStep(r)
    PROVE  OtherStepOfRunners
<1>1. /\ WorkerInv /\ CodexTypeOK /\ RowsHaveRuns /\ RunnersServeWorkers
      /\ runner \in [Runs -> Runners] /\ approval \in [Approvals -> Rows]
      /\ worker \in [Runs -> Workers] /\ NoRunner \in Runners /\ NoRunner.at = "off"
      /\ \A r \in Runs : runner[r].at # "off" => worker[r].at = "agent"
  BY DEF CodexInv, CodexTypeOK, WorkerInv, WorkerTypeOK, RunnersServeWorkers, ServesWorker, At,
         NoRunner, Runners
<1>2. [WorkerNext]_allVars
  BY <1>1, StepOfWorkers
<1> DEFINE RunnersKept ==
               /\ runner' \in [Runs -> Runners]
               /\ \A r \in Runs :
                     /\ runner'[r] = runner[r] \/ runner'[r] = NoRunner
                     /\ runner[r].at # "off" =>
                           \/ worker'[r].at = "agent" /\ runner'[r] = runner[r]
                           \/ worker'[r].at = "dead" /\ runner'[r] = NoRunner
           RowKept(a) ==
               /\ approval'[a].run = approval[a].run
               /\ approval'[a].subject = approval[a].subject
               /\ approval'[a].lapsed = approval[a].lapsed
               /\ \/ approval'[a].status = approval[a].status
                  \/ /\ approval[a].status = "pending"
                     /\ approval'[a].status \in Decisions \cup {"cancelled"}
               /\ approval'[a].status = "pending" => ~ReconcileStale(approval[a].run)
           RowsKept == approval' \in [Approvals -> Rows] /\ \A a \in Approvals : RowKept(a)
<1>3. ASSUME RunnersKept, RowsKept, UNCHANGED grants PROVE OtherStepOfRunners
  BY <1>2, <1>3 DEF OtherStepOfRunners
<1>4. ASSUME UNCHANGED <<runner, worker>> PROVE RunnersKept
  BY <1>1, <1>4
<1>5. ASSUME UNCHANGED approval, \A r \in Runs : ~ReconcileStale(r) PROVE RowsKept
  <2>1. ASSUME NEW a \in Approvals, approval[a].status = "pending"
        PROVE  approval[a].run \in Runs
    BY <1>1, <2>1 DEF RowsHaveRuns, RowHasRun
  <2> QED BY <1>1, <1>5, <2>1
<1>6. ASSUME NEW r, ReconcileStale(r)
      PROVE  stale' # stale /\ daemon' = daemon /\ daemon = "starting" /\ r \in stale
  BY <1>6 DEF ReconcileStale
<1>7. CASE UNCHANGED everything
  BY <1>3, <1>4, <1>5, <1>6, <1>7 DEF everything, allVars, codexVars, daemonVars
<1>8. ASSUME NEW q \in Runs, WorkerStepBesides(q) PROVE OtherStepOfRunners
  <2>1. worker[q].at # "agent" /\ runner[q].at = "off"
    BY <1>1, <1>8 DEF WorkerStepBesides, At
  <2>2. UNCHANGED daemonVars /\ \A p \in Runs \ {q} : worker'[p] = worker[p]
    BY <1>1, <1>8, WorkerMoves DEF WorkerStepBesides, WorkerInv, IndInv, Moves
  <2>3. /\ runner' = [runner EXCEPT ![q] = IF Lives(q)' THEN runner[q] ELSE NoRunner]
        /\ UNCHANGED <<approval, grants>>
    BY <1>8 DEF WorkerStepBesides
  <2>4. RunnersKept
    BY <1>1, <2>1, <2>2, <2>3
  <2> QED BY <1>3, <1>5, <1>6, <2>2, <2>3, <2>4 DEF daemonVars
<1>9. ASSUME NEW q \in Runs, ToolCall(q) PROVE OtherStepOfRunners
  <2>1. UNCHANGED <<worker, daemonVars, codexVars>>
    BY <1>9 DEF ToolCall, ValidateCall, DispatchCall
  <2> QED BY <1>3, <1>4, <1>5, <1>6, <2>1 DEF codexVars, daemonVars
<1>10. ASSUME NEW q \in Runs, KillRunner(q) PROVE OtherStepOfRunners
  <2>1. /\ worker' = [worker EXCEPT ![q] = NoWorker("dead")]
        /\ runner' = [runner EXCEPT ![q] = NoRunner]
        /\ UNCHANGED <<approval, grants, daemonVars>>
    BY <1>10 DEF KillRunner, KillFormer
  <2>2. RunnersKept
    BY <1>1, <2>1 DEF NoWorker
  <2> QED BY <1>3, <1>5, <1>6, <2>1, <2>2 DEF daemonVars
<1>11. ASSUME NEW q \in Runs, ReconcileWithApprovals(q) PROVE OtherStepOfRunners
  <2>1. /\ q \in stale /\ stale' = stale \ {q}
        /\ UNCHANGED <<worker, runner, grants>>
    BY <1>11 DEF ReconcileWithApprovals, ReconcileStale
  <2>2. \A r \in Runs \ {q} : ~ReconcileStale(r)
    BY <2>1 DEF ReconcileStale
  <2>3. ASSUME NEW a \in Approvals
        PROVE  approval'[a] \in Rows /\ RowKept(a)
    <3>1. approval[a] \in Rows
      BY <1>1
    <3>2. CASE approval[a].run = q /\ approval[a].status = "pending"
      <4>1. approval'[a] = [approval[a] EXCEPT !.status = "cancelled"]
        BY <1>11, <3>2 DEF ReconcileWithApprovals, CancelPending
      <4> QED BY <3>1, <3>2, <4>1 DEF Rows
    <3>3. CASE ~(approval[a].run = q /\ approval[a].status = "pending")
      <4>1. approval'[a] = approval[a]
        BY <1>11, <3>3 DEF ReconcileWithApprovals, CancelPending
      <4>2. approval[a].status = "pending" => approval[a].run \in Runs \ {q}
        BY <1>1, <3>3 DEF RowsHaveRuns, RowHasRun
      <4> QED BY <2>2, <3>1, <4>1, <4>2
    <3> QED BY <3>2, <3>3
  <2>4. approval' \in [Approvals -> Rows]
    BY <1>11, <2>3 DEF ReconcileWithApprovals, CancelPending
  <2> QED BY <1>3, <1>4, <2>1, <2>3, <2>4
<1>12. ASSUME NEW a \in Approvals, NEW row \in Rows, approval' = [approval EXCEPT ![a] = row],
              row.run = approval[a].run, row.subject = approval[a].subject,
              row.lapsed = approval[a].lapsed,
              approval[a].status = "pending",
              row.status \in Decisions \cup {"cancelled", "pending"},
              UNCHANGED <<runner, worker, grants, daemonVars>>
       PROVE  OtherStepOfRunners
  <2>1. \A r \in Runs : ~ReconcileStale(r)
    BY <1>6, <1>12 DEF daemonVars
  <2>2. ASSUME NEW b \in Approvals PROVE RowKept(b)
    <3>1. approval[b].status = "pending" => approval[b].run \in Runs
      BY <1>1 DEF RowsHaveRuns, RowHasRun
    <3>2. b # a => approval'[b] = approval[b]
      BY <1>1, <1>12
    <3>3. approval'[a] = row
      BY <1>1, <1>12
    <3> QED BY <1>12, <2>1, <3>1, <3>2, <3>3
  <2> QED BY <1>1, <1>3, <1>4, <1>12, <2>2
<1>14. ASSUME NEW a \in Approvals, NEW d \in Decisions \cup {"cancel_run"}, DecideApproval(a, d)
       PROVE  OtherStepOfRunners
  <2> DEFINE row == [approval[a] EXCEPT !.status = StoredStatus(d)]
  <2>1. StoredStatus(d) \in Decisions \cup {"cancelled"}
    BY DEF StoredStatus
  <2>2. /\ row \in Rows /\ row.status = StoredStatus(d)
        /\ row.run = approval[a].run /\ row.subject = approval[a].subject
        /\ row.lapsed = approval[a].lapsed
    BY <1>1, <2>1 DEF Rows
  <2>3. approval' = [approval EXCEPT ![a] = row] /\ approval[a].status = "pending"
    BY <1>1, <1>14 DEF DecideApproval
  <2>4. UNCHANGED <<runner, worker, grants, daemonVars>>
    BY <1>14 DEF DecideApproval
  <2> HIDE DEF row
  <2>5. row.status \in Decisions \cup {"cancelled", "pending"}
    BY <2>1, <2>2
  <2> QED BY <1>12, <2>2, <2>3, <2>4, <2>5
<1>15. ASSUME NEW lost \in SUBSET Runs, NEW list \in SUBSET Issues, StopRunners(lost, list)
       PROVE  OtherStepOfRunners
  <2>1. /\ runner' = [r \in Runs |-> IF r \in lost THEN NoRunner ELSE runner[r]]
        /\ UNCHANGED <<approval, grants>>
        /\ daemon' # daemon
    BY <1>15 DEF StopRunners, StopDaemon
  <2>2. ASSUME NEW r \in Runs
        PROVE  runner[r].at # "off" =>
                  worker'[r].at = IF r \in lost THEN "dead" ELSE "agent"
    <3>1. worker[r] \in Workers /\ (runner[r].at # "off" => Lives(r) /\ worker[r].at = "agent")
      BY <1>1 DEF Lives
    <3>2. Lives(r) => worker'[r] = IF r \in lost THEN NoWorker("dead")
                                   ELSE [worker[r] EXCEPT !.former = TRUE]
      BY <1>15 DEF StopRunners, StopDaemon
    <3> QED BY <3>1, <3>2 DEF NoWorker, Workers
  <2>3. RunnersKept
    BY <1>1, <2>1, <2>2
  <2> QED BY <1>3, <1>5, <1>6, <2>1, <2>3
<1>16. ASSUME Surroundings PROVE OtherStepOfRunners
  <2>1. UNCHANGED codexVars
    BY <1>16 DEF Surroundings
  <2>2. ASSUME NEW i \in Issues, NEW q \in Runs, StartWorker(i, q) \/ StartLateWorker(i, q)
        PROVE  RunnersKept /\ \A r \in Runs : ~ReconcileStale(r)
    <3>1. runStatus[q] = "none" /\ stale' = stale
      BY <2>2 DEF StartWorker, StartLateWorker, ClaimRun, daemonVars
    <3>2. runner[q].at = "off"
      BY <1>1, <3>1 DEF WorkerInv, NoWorkerBeforeClaim, Lives
    <3>3. \A r \in Runs \ {q} : worker'[r] = worker[r]
      BY <1>1, <2>2 DEF StartWorker, StartLateWorker, Goto
    <3> QED BY <1>1, <1>6, <2>1, <3>1, <3>2, <3>3 DEF codexVars
  <2>3. CASE \/ OperatorStep
             \/ \E i \in Issues : EndDrain(i)
             \/ StartDaemon \/ AbortStartup \/ FinishStartup
    <3>1. worker' = worker /\ (stale' = stale \/ daemon' # daemon)
      BY <2>3 DEF OperatorStep, EndDrain, StartDaemon, AbortStartup, FinishStartup, daemonVars
    <3> QED BY <1>3, <1>4, <1>5, <1>6, <2>1, <3>1 DEF codexVars
  <2> QED BY <1>3, <1>5, <1>16, <2>1, <2>2, <2>3 DEF Surroundings, codexVars
<1> QED BY <1>7, <1>8, <1>9, <1>10, <1>11, <1>14, <1>15, <1>16 DEF CodexNext

\* Every step keeps the invariant.
LEMMA CodexPreservation == CodexInv /\ [CodexNext]_everything => CodexInv'
<1> SUFFICES ASSUME CodexInv, [CodexNext]_everything PROVE CodexInv'
  OBVIOUS
<1>1. /\ WorkerInv /\ CodexTypeOK /\ RowsHaveRuns /\ CodesAreOfEndedRuns
      /\ TypeOK /\ WorkerTypeOK /\ FailureIsDue
  BY DEF CodexInv, WorkerInv, IndInv
<1>2. [WorkerNext]_allVars
  BY <1>1, StepOfWorkers
<1>3. WorkerInv'
  BY <1>1, <1>2, WorkerPreservation
<1>4. Kept
  BY RunnerStepKeeps, OtherSteps, OtherStepKeeps
<1>5. CodexTypeOK'
  BY <1>3, <1>4 DEF CodexTypeOK, WorkerInv, Kept
<1>6. CodesAreOfEndedRuns'
  <2> SUFFICES ASSUME NEW r \in Runs, ~Ended(r)' PROVE runCode'[r] = "none"
    BY DEF CodesAreOfEndedRuns
  <2>1. ~Ended(r)
    <3>1. [Next]_vars
      BY <1>1, <1>2, StepOfStoreIsNext
    <3> QED BY <1>1, <3>1, EndedRunStep DEF Ended
  <2>2. runCode'[r] = runCode[r]
    BY <1>1, <1>2, CodeStep
  <2> QED BY <1>1, <2>1, <2>2 DEF CodesAreOfEndedRuns
<1> QED BY <1>3, <1>4, <1>5, <1>6 DEF CodexInv, Kept

\* The invariant holds at the start, where nothing was asked for.
LEMMA InitCodexInv == CodexInit => CodexInv
<1> SUFFICES ASSUME CodexInit PROVE CodexInv
  OBVIOUS
<1>1. WorkerInv
  BY InitWorkerInv DEF CodexInit
<1>2. NoRunner \in Runners /\ NoRow \in Rows /\ NoRunner.at = "off" /\ NoRow.status = "none"
  BY DEF NoRunner, NoRow, Runners, Rows
<1>3. CodexTypeOK
  BY <1>1, <1>2, MaxGrantsAssumption DEF CodexInit, CodexTypeOK, WorkerInv
<1>4. RowsHaveRuns /\ RunnersServeWorkers /\ PendingInv /\ UnansweredInv
  BY <1>2 DEF CodexInit, RowsHaveRuns, RowHasRun, RunnersServeWorkers, ServesWorker,
              PendingInv, PendingIsHeld, UnansweredInv, UnansweredEnds
<1>5. CodesAreOfEndedRuns
  BY DEF CodexInit, WorkerInit, Init, CodesAreOfEndedRuns
<1> QED BY <1>1, <1>3, <1>4, <1>5 DEF CodexInv

\* The runners' invariant holds for any number of runs, requests and subjects.
THEOREM CodexInvariance == CodexSpec => []CodexInv
<1>1. CodexInit => CodexInv
  BY InitCodexInv
<1>2. CodexInv /\ [CodexNext]_everything => CodexInv'
  BY CodexPreservation
<1> QED BY <1>1, <1>2, PTL DEF CodexSpec

\* Runners, requests and their decisions keep their types.
THEOREM CodexTypeCorrect == CodexSpec => []CodexTypeOK
<1>1. CodexInv => CodexTypeOK
  BY DEF CodexInv
<1> QED BY <1>1, CodexInvariance, PTL

\* Turns and approvals are nothing else to the workers than the agent of
\* RunWorker: everything proved of the workers holds with their runners.
THEOREM RunnersImplementAgents == CodexSpec => WorkerSpec
<1>1. CodexInit => WorkerInit
  BY DEF CodexInit
<1>2. CodexInv /\ [CodexNext]_everything => [WorkerNext]_allVars
  BY StepOfWorkers DEF CodexInv
<1> QED BY <1>1, <1>2, CodexInvariance, PTL DEF CodexSpec, WorkerSpec

\* A request that was resolved is not touched by any step of anyone.
LEMMA ResolvedStep ==
    ASSUME CodexInv, [CodexNext]_everything, NEW a \in Approvals,
           approval[a].status \notin {"none", "pending"}
    PROVE  approval'[a] = approval[a]
<1>1. WorkerInv /\ CodexTypeOK /\ RunnersServeWorkers /\ approval \in [Approvals -> Rows]
  BY DEF CodexInv, CodexTypeOK
<1>2. ASSUME NEW r \in Runs, RunnerStep(r) PROVE approval'[a] = approval[a]
  <2>1. PICK w : \/ Works(r, w) \/ IsDenied(r, w) \/ Waits(r, w)
                 \/ IsAnswered(r, w) \/ Stops(r, w) \/ Returns(r, w)
    BY <1>1, <1>2, RunnerSteps
  <2> QED BY <2>1 DEF Works, IsDenied, Waits, IsAnswered, Stops, Returns, Inserted, Marked
<1>3. ASSUME NEW r \in Runs, ReconcileWithApprovals(r) PROVE approval'[a] = approval[a]
  BY <1>3 DEF ReconcileWithApprovals, CancelPending
<1>4. ASSUME NEW b \in Approvals, NEW d, DecideApproval(b, d)
      PROVE  approval'[a] = approval[a]
  BY <1>1, <1>4 DEF DecideApproval
<1> QED BY <1>2, <1>3, <1>4
        DEF CodexNext, WorkerStepBesides, ToolCall, KillRunner, StopRunners, Surroundings,
            everything, codexVars

\* The first of a decision, a timeout, a cancellation and a startup stands.
THEOREM FirstResolutionStands == CodexSpec => ResolvedIsFinal
<1>1. /\ CodexInv /\ [CodexNext]_everything
      => [\A a \in Approvals : approval[a].status \notin {"none", "pending"}
             => approval'[a] = approval[a]]_everything
  BY ResolvedStep
<1> QED BY <1>1, CodexInvariance, PTL DEF CodexSpec, ResolvedIsFinal

\* A pending request is waited for, unless its agent is over: its process died, and a
\* run that nobody ended is on the way to the startup that ends both, or the store
\* failed the runner that waited.
THEOREM PendingRequestsAreWaited == CodexSpec => []PendingIsWaited
<1>1. ASSUME CodexInv, NEW a \in Approvals, approval[a].status = "pending"
      PROVE  LET r == approval[a].run IN
             \/ Waited(a)
             \/ /\ runCode[r] # "daemon_restarted_run_interrupted"
                /\ \/ approval[a].lapsed /\ AgentIsOver(r)
                   \/ At(r, "dead") /\ (IsActive(r) => daemon = "down" \/ r \in stale \cup late)
  <2> DEFINE r == approval[a].run
  <2>1. r \in Runs /\ runStatus[r] # "none"
    BY <1>1 DEF CodexInv, RowsHaveRuns, RowHasRun
  <2>2. /\ \/ Waited(a)
           \/ At(r, "dead")
           \/ approval[a].lapsed /\ (Returned(r) \/ worker[r].at \in Past)
        /\ runCode[r] # "daemon_restarted_run_interrupted"
    BY <1>1 DEF CodexInv, PendingInv, PendingIsHeld
  <2>3. Returned(r) \/ worker[r].at \in Past => AgentIsOver(r)
    BY DEF Returned, AgentIsOver, Past, At
  <2>4. At(r, "dead") => ~Lives(r) /\ ~At(r, "lost")
    BY DEF At, Lives
  <2>5. IsActive(r) => r \in late \/ Lives(r) \/ At(r, "lost") \/ daemon = "down" \/ r \in stale
    BY <1>1, <2>1 DEF CodexInv, WorkerInv, ActiveRunIsOwned, ActiveRuns
  <2> QED BY <2>2, <2>3, <2>4, <2>5
<1>2. CodexInv => PendingIsWaited
  BY <1>1 DEF PendingIsWaited, Waited
<1> QED BY <1>2, CodexInvariance, PTL

\* An agent whose request was denied by policy, timed out or was cancelled gets no
\* further turn.
THEOREM UnansweredAgentsStop == CodexSpec => []UnansweredStopsAgent
<1>1. \A r \in Runs : Returned(r) \/ worker[r].at \in Past => AgentIsOver(r)
  BY DEF Returned, Past, At, AgentIsOver
<1>2. CodexInv => UnansweredStopsAgent
  BY <1>1 DEF CodexInv, RowsHaveRuns, RowHasRun, UnansweredInv, UnansweredEnds, Waited,
              UnansweredStopsAgent
<1> QED BY <1>2, CodexInvariance, PTL

-----------------------------------------------------------------------------
(* How often an agent is told to go ahead.                                 *)

ApprovedOnce(r, s) ==
    {a \in Approvals : /\ approval[a].run = r
                       /\ approval[a].subject = s
                       /\ approval[a].status = "approved_once"}

\* The request that is still to be answered, which backs nothing before it is.
WaitedBy(r) == IF runner[r].at = "waiting" THEN {runner[r].waits} ELSE {}

\* Every time an agent was told to go ahead used up a request approved once,
\* unless an approval was for the whole run.
GrantsUseUp(r, s) ==
    \/ HasApprovedForRun(r, s)
    \/ grants[r][s] <= Cardinality(ApprovedOnce(r, s) \ WaitedBy(r))

\* The request a runner waits for asks for what the runner will let its agent do.
WaitsForSubject(r) ==
    runner[r].at = "waiting" => approval[runner[r].waits].subject = runner[r].subject

GrantsInv ==
    /\ CodexInv
    /\ \A r \in Runs : WaitsForSubject(r)
    /\ \A r \in Runs, s \in Subjects : GrantsUseUp(r, s)

\* A row that is in use keeps its run and its subject.
LEMMA RowStep ==
    ASSUME CodexInv, [CodexNext]_everything, NEW a \in Approvals, approval[a].status # "none"
    PROVE  approval'[a].run = approval[a].run /\ approval'[a].subject = approval[a].subject
<1>1. WorkerInv /\ CodexTypeOK /\ RunnersServeWorkers
  BY DEF CodexInv
<1>2. ASSUME NEW r \in Runs, RunnerStep(r)
      PROVE  approval'[a].run = approval[a].run /\ approval'[a].subject = approval[a].subject
  <2>1. PICK w : \/ Works(r, w) \/ IsDenied(r, w) \/ Waits(r, w)
                 \/ IsAnswered(r, w) \/ Stops(r, w) \/ Returns(r, w)
    BY <1>1, <1>2, RunnerSteps
  <2>2. ASSUME NEW b, NEW q, NEW status, Inserted(b, q, status) PROVE approval'[a] = approval[a]
    BY <2>2 DEF Inserted
  <2>3. ASSUME Stops(r, w)
        PROVE  approval'[a].run = approval[a].run /\ approval'[a].subject = approval[a].subject
    BY <2>3 DEF Stops, Marked
  <2> QED BY <2>1, <2>2, <2>3 DEF Works, IsDenied, Waits, IsAnswered, Returns
<1> QED BY <1>2, OtherSteps DEF OtherStepOfRunners

\* A runner that waits after a step waited before it, for the same request, or has
\* just asked.
LEMMA WaitingStep ==
    ASSUME CodexInv, [CodexNext]_everything, NEW r \in Runs, runner'[r].at = "waiting"
    PROVE  \/ runner'[r] = runner[r]
           \/ LET a == runner'[r].waits
              IN  /\ a \in Approvals
                  /\ approval'[a].status = "pending"
                  /\ approval'[a].subject = runner'[r].subject
<1>1. WorkerInv /\ CodexTypeOK /\ RunnersServeWorkers /\ runner \in [Runs -> Runners]
  BY DEF CodexInv, CodexTypeOK
<1>2. CASE \E q \in Runs : RunnerStep(q)
  <2>1. PICK q \in Runs : RunnerStep(q)
    BY <1>2
  <2>2. PICK w \in Runners :
           /\ Becomes(q, w)
           /\ \/ Works(q, w) \/ IsDenied(q, w) \/ Waits(q, w)
              \/ IsAnswered(q, w) \/ Stops(q, w) \/ Returns(q, w)
    BY <1>1, <2>1, RunnerSteps
  <2>3. CASE q # r
    BY <1>1, <2>2, <2>3 DEF Becomes
  <2>4. CASE q = r
    <3>1. runner'[r] = w
      BY <1>1, <2>2, <2>4 DEF Becomes
    <3>2. Failed.at # "waiting" /\ Reading(q).at # "waiting"
      BY <1>1 DEF Failed, NoRunner, Reading, Runners
    <3>3. Waits(r, w)
      BY <2>2, <2>4, <3>1, <3>2 DEF Works, IsDenied, IsAnswered, Stops, Returns
    <3> QED BY <3>1, <3>3 DEF Waits, Inserted
  <2> QED BY <2>3, <2>4
<1>3. CASE \A q \in Runs : ~RunnerStep(q)
  <2>1. NoRunner.at = "off"
    BY DEF NoRunner
  <2> QED BY <1>3, <2>1, OtherSteps DEF OtherStepOfRunners
<1> QED BY <1>2, <1>3

\* Requests that back what an agent was told go on to do so.
LEMMA BackingStep ==
    ASSUME CodexInv, [CodexNext]_everything, NEW r \in Runs, NEW s \in Subjects
    PROVE  /\ HasApprovedForRun(r, s) => HasApprovedForRun(r, s)'
           /\ ApprovedOnce(r, s) \subseteq ApprovedOnce(r, s)'
           /\ ApprovedOnce(r, s) \ WaitedBy(r) \subseteq (ApprovedOnce(r, s) \ WaitedBy(r))'
<1>1. HasApprovedForRun(r, s) => HasApprovedForRun(r, s)'
  BY ResolvedStep DEF HasApprovedForRun
<1>2. ApprovedOnce(r, s) \subseteq ApprovedOnce(r, s)'
  BY ResolvedStep DEF ApprovedOnce
<1>3. ASSUME NEW a \in ApprovedOnce(r, s), a \notin WaitedBy(r) PROVE a \notin WaitedBy(r)'
  <2>1. approval'[a].status = "approved_once"
    BY <1>2 DEF ApprovedOnce
  <2>2. ASSUME runner'[r].at = "waiting", runner'[r].waits = a PROVE FALSE
    <3>1. runner'[r] = runner[r]
      BY <2>1, <2>2, WaitingStep
    <3> QED BY <1>3, <2>2, <3>1 DEF WaitedBy
  <2> QED BY <2>2 DEF WaitedBy
<1> QED BY <1>1, <1>2, <1>3

\* A step that adds nothing to what an agent was told uses up no request.
LEMMA QuietStep ==
    ASSUME CodexInv, [CodexNext]_everything, NEW r \in Runs, NEW s \in Subjects,
           GrantsUseUp(r, s), grants'[r][s] = grants[r][s], grants[r][s] \in Nat
    PROVE  GrantsUseUp(r, s)'
<1> DEFINE S == ApprovedOnce(r, s) \ WaitedBy(r)
<1>1. S \subseteq Approvals /\ S' \subseteq Approvals /\ S \subseteq S'
  BY BackingStep DEF ApprovedOnce
<1>2. IsFiniteSet(S) /\ IsFiniteSet(S')
  BY <1>1, FS_Subset, ApprovalsAssumption
<1>3. Cardinality(S) \in Nat /\ Cardinality(S') \in Nat
  BY <1>2, FS_CardinalityType
<1>4. Cardinality(S) <= Cardinality(S')
  BY <1>1, <1>2, FS_Subset
<1> HIDE DEF S
<1>5. CASE HasApprovedForRun(r, s)
  BY <1>5, BackingStep DEF GrantsUseUp
<1>6. CASE grants[r][s] <= Cardinality(S)
  <2>1. grants'[r][s] <= Cardinality(S')
    BY <1>3, <1>4, <1>6
  <2> QED BY <2>1 DEF GrantsUseUp, S
<1> QED BY <1>5, <1>6 DEF GrantsUseUp, S

\* A step that adds to what an agent was told is of its runner, which found it
\* approved for the run, or the request it waits for approved.
LEMMA GrantStep ==
    ASSUME [CodexNext]_everything, grants' # grants
    PROVE  \E r \in Runs :
              /\ UNCHANGED approval
              /\ KeepReading(r)
              /\ LET s == runner[r].subject
                     a == runner[r].waits
                 IN  /\ grants' = [grants EXCEPT ![r][s] = IF @ < MaxGrants THEN @ + 1 ELSE @]
                     /\ \/ HasApprovedForRun(r, s)
                        \/ /\ runner[r].at = "waiting"
                           /\ approval[a].status \in {"approved_once", "approved_for_run"}
<1>1. PICK r \in Runs : Match(r) \/ Poll(r)
  BY DEF CodexNext, RunnerStep, Run, EndTurn, FailTurn, SubmitHandoff, FinishHandoff, ReturnResult,
         Ask, Create, TimeOut, StopWaiting, WorkerStepBesides, ToolCall, KillRunner,
         ReconcileWithApprovals, DecideApproval, StopRunners, Surroundings, codexVars, everything
<1>2. UNCHANGED approval
  BY <1>1 DEF Match, Poll
<1>3. Grant(r, runner[r].subject) /\ KeepReading(r)
  BY <1>1 DEF Match, Poll, Grant
<1> QED BY <1>1, <1>2, <1>3 DEF Match, Poll, Grant, Stage

\* Every step keeps what an agent was told within what was approved.
LEMMA GrantsPreservation == GrantsInv /\ [CodexNext]_everything => GrantsInv'
<1> SUFFICES ASSUME GrantsInv, [CodexNext]_everything PROVE GrantsInv'
  OBVIOUS
<1>1. /\ CodexInv /\ RunnersServeWorkers /\ approval \in [Approvals -> Rows]
      /\ runner \in [Runs -> Runners] /\ grants \in [Runs -> [Subjects -> 0..MaxGrants]]
  BY DEF GrantsInv, CodexInv, CodexTypeOK
<1>2. CodexInv'
  BY <1>1, CodexPreservation
<1>3. ASSUME NEW r \in Runs PROVE WaitsForSubject(r)'
  <2> SUFFICES ASSUME runner'[r].at = "waiting", runner'[r] = runner[r]
               PROVE  approval'[runner[r].waits].subject = runner[r].subject
    BY <1>1, WaitingStep DEF WaitsForSubject
  <2>1. /\ runner[r].waits \in Approvals
        /\ approval[runner[r].waits].status # "none"
        /\ approval[runner[r].waits].subject = runner[r].subject
    BY <1>1, <1>3 DEF GrantsInv, WaitsForSubject, RunnersServeWorkers, ServesWorker
  <2> QED BY <1>1, <2>1, RowStep
<1>4. ASSUME NEW r \in Runs, NEW s \in Subjects PROVE GrantsUseUp(r, s)'
  <2>1. GrantsUseUp(r, s) /\ grants[r] \in [Subjects -> 0..MaxGrants] /\ grants[r][s] \in Nat
    BY <1>1, <1>4, MaxGrantsAssumption DEF GrantsInv
  <2>2. CASE grants'[r][s] = grants[r][s]
    BY <1>1, <2>1, <2>2, QuietStep
  <2>3. CASE grants'[r][s] # grants[r][s]
    <3>1. PICK q \in Runs :
             /\ UNCHANGED approval
             /\ KeepReading(q)
             /\ LET t == runner[q].subject
                    a == runner[q].waits
                IN  /\ grants' = [grants EXCEPT ![q][t] = IF @ < MaxGrants THEN @ + 1 ELSE @]
                    /\ \/ HasApprovedForRun(q, t)
                       \/ /\ runner[q].at = "waiting"
                          /\ approval[a].status \in {"approved_once", "approved_for_run"}
      BY <2>3, GrantStep
    <3>2. q = r /\ runner[q].subject = s
      BY <1>1, <2>1, <2>3, <3>1
    <3>3. grants'[r][s] <= grants[r][s] + 1 /\ grants'[r][s] \in Nat
      BY <1>1, <2>1, <3>1, <3>2
    <3>4. CASE HasApprovedForRun(r, s)
      BY <1>1, <3>4, BackingStep DEF GrantsUseUp
    <3>5. CASE runner[r].at = "waiting" /\ ~HasApprovedForRun(r, s)
               /\ approval[runner[r].waits].status \in {"approved_once", "approved_for_run"}
      <4> DEFINE a == runner[r].waits
                 S == ApprovedOnce(r, s)
      <4>1. /\ a \in Approvals /\ approval[a].run = r /\ approval[a].subject = s
            /\ WaitedBy(r) = {a}
        BY <1>1, <3>2, <3>5
           DEF GrantsInv, WaitsForSubject, RunnersServeWorkers, ServesWorker, WaitedBy
      <4>2. a \in S
        BY <3>5, <4>1 DEF HasApprovedForRun, ApprovedOnce
      <4>3. runner'[r].at = "reading"
        BY <1>1, <3>1, <3>2 DEF KeepReading, Runners
      <4>4. S' = S /\ WaitedBy(r)' = {}
        BY <3>1, <4>3 DEF ApprovedOnce, WaitedBy
      <4>5. IsFiniteSet(S)
        BY FS_Subset, ApprovalsAssumption DEF ApprovedOnce
      <4>6. Cardinality(S) \in Nat /\ Cardinality(S \ {a}) = Cardinality(S) - 1
        BY <4>2, <4>5, FS_CardinalityType, FS_RemoveElement
      <4>7. grants[r][s] <= Cardinality(S \ {a})
        BY <2>1, <3>5, <4>1 DEF GrantsUseUp
      <4>8. (S \ WaitedBy(r))' = S
        BY <4>4
      <4> HIDE DEF S
      <4>9. grants'[r][s] <= Cardinality(S)
        BY <2>1, <3>3, <4>6, <4>7
      <4> QED BY <4>8, <4>9 DEF GrantsUseUp, S
    <3> QED BY <3>1, <3>2, <3>4, <3>5
  <2> QED BY <2>2, <2>3
<1> QED BY <1>2, <1>3, <1>4 DEF GrantsInv

\* Nothing was approved and nobody was told anything at the start.
LEMMA InitGrantsInv == CodexInit => GrantsInv
<1> SUFFICES ASSUME CodexInit PROVE GrantsInv
  OBVIOUS
<1>1. \A r \in Runs : runner[r].at # "waiting"
  BY DEF CodexInit, NoRunner
<1>2. ASSUME NEW r \in Runs, NEW s \in Subjects PROVE GrantsUseUp(r, s)
  <2>1. IsFiniteSet(ApprovedOnce(r, s) \ WaitedBy(r))
    BY FS_Subset, ApprovalsAssumption DEF ApprovedOnce
  <2>2. Cardinality(ApprovedOnce(r, s) \ WaitedBy(r)) \in Nat
    BY <2>1, FS_CardinalityType
  <2> QED BY <2>2 DEF CodexInit, GrantsUseUp
<1> QED BY <1>1, <1>2, InitCodexInv DEF GrantsInv, WaitsForSubject

\* An agent is told to go ahead no more often than the operator approved that very
\* request in that run, unless one approval was for the whole run.
THEOREM EveryGrantIsBacked == CodexSpec => []GrantsAreBacked
<1>1. CodexInit => GrantsInv
  BY InitGrantsInv
<1>2. GrantsInv /\ [CodexNext]_everything => GrantsInv'
  BY GrantsPreservation
<1>3. GrantsInv => GrantsAreBacked
  <2> SUFFICES ASSUME GrantsInv, NEW r \in Runs, NEW s \in Subjects, ~HasApprovedForRun(r, s)
               PROVE  grants[r][s] <= Cardinality(ApprovedOnce(r, s))
    BY DEF GrantsAreBacked, HasApprovedForRun, ApprovedOnce
  <2> DEFINE S == ApprovedOnce(r, s)
             T == S \ WaitedBy(r)
  <2>1. IsFiniteSet(S)
    BY FS_Subset, ApprovalsAssumption DEF ApprovedOnce
  <2>2. IsFiniteSet(T) /\ Cardinality(T) <= Cardinality(S)
    BY <2>1, FS_Subset
  <2>3. Cardinality(S) \in Nat /\ Cardinality(T) \in Nat
    BY <2>1, <2>2, FS_CardinalityType
  <2>4. grants[r][s] <= Cardinality(T) /\ grants[r][s] \in Nat
    BY MaxGrantsAssumption DEF GrantsInv, GrantsUseUp, CodexInv, CodexTypeOK
  <2> HIDE DEF S, T
  <2>5. grants[r][s] <= Cardinality(S)
    BY <2>2, <2>3, <2>4
  <2> QED BY <2>5 DEF S
<1> QED BY <1>1, <1>2, <1>3, PTL DEF CodexSpec
-----------------------------------------------------------------------------
(* The promise of a runner.                                                *)

\* Stages of a worker that is gone, and of one that goes on without its runner.
Gone == {"done", "lost", "dead"}
Beyond == Past \ Gone

\* The session lives during a turn, after one that missed its handoff, and before the one
\* that follows; a result is there only when it is returned.
HoldsSession(r) ==
    /\ runner[r].at \notin {"off", "returned"} => runner[r].session
    /\ runner[r].at = "returned" => (runner[r].session <=> runner[r].result = "missing")
    /\ runner[r].at = "returned" <=> runner[r].result # "none"
    /\ runner[r].at \in {"off", "returned"} => ~runner[r].received
    /\ runner[r].at = "off" /\ worker[r].continued /\ worker[r].at \notin Beyond
          => runner[r].session
    /\ worker[r].at \in Gone \cup {"idle"} => ~worker[r].continued /\ ~runner[r].session
    /\ runStatus[r] = "none" => worker[r].at = "idle"

\* The handoff that a runner has submitted is on its way or stored.
SubmitsHandoff(r) ==
    /\ runner[r].at = "handoff" => call[r] = "handoff.submit"
    /\ runner[r].received \/ runner[r].result = "success" => handoff[r] # None

TurnsInv == CodexInv /\ \A r \in Runs : HoldsSession(r) /\ SubmitsHandoff(r)

\* A handoff stays in the store.
LEMMA HandoffStays ==
    ASSUME TypeOK, [Next]_vars, NEW r \in Runs, handoff[r] # None
    PROVE  handoff'[r] = handoff[r]
<1>1. CASE UNCHANGED vars
  BY <1>1 DEF vars, workVars
<1>2. CASE OperatorNext
  <2>1. ASSUME NEW i, NEW target, NEW duplicateOf, TransitionIssue(i, target, duplicateOf)
        PROVE  handoff' = handoff
    BY <2>1 DEF TransitionIssue, workVars
  <2> QED BY <1>2, <2>1
          DEF OperatorNext, CreateIssue, UpdateIssue, AddBlocker, RemoveBlocker,
              RemoveDuplicate, DispatchPause, DispatchResume, MarkDone, SendToRework,
              ReviewAction, CancelRun, EndRun, workVars
<1>3. ASSUME NEW q \in Runs, NEW payload, InsertHandoff(q, payload)
      PROVE  handoff'[r] = handoff[r]
  BY <1>3 DEF InsertHandoff, TypeOK
<1>4. CASE RunNext
  BY <1>3, <1>4
     DEF RunNext, ClaimRun, UpdateRunStatus, FailRun, EndRun, BlockRunByAgent, ReconcileRun,
         CompleteRunWithReview, CreateToolToken, InsertReviewPacket, workVars
<1> QED BY <1>1, <1>2, <1>4 DEF Next

\* The stages of AgentTurns, in terms of the worker and its runner.
LEMMA StageIs ==
    ASSUME NEW r
    PROVE  /\ worker[r].at \in Gone => TurnStage(r) = "closed"
           /\ worker[r].at \in Beyond => TurnStage(r) = "over"
           /\ worker[r].at \notin Gone \cup Beyond =>
                 /\ runner[r].at = "off" => TurnStage(r) = "ready"
                 /\ runner[r].at = "returned" => TurnStage(r) = "returned"
                 /\ runner[r].at \notin {"off", "returned"} => TurnStage(r) = "turn"
           /\ worker'[r].at \in Gone => TurnStage(r)' = "closed"
           /\ worker'[r].at \in Beyond => TurnStage(r)' = "over"
           /\ worker'[r].at \notin Gone \cup Beyond =>
                 /\ runner'[r].at = "off" => TurnStage(r)' = "ready"
                 /\ runner'[r].at = "returned" => TurnStage(r)' = "returned"
                 /\ runner'[r].at \notin {"off", "returned"} => TurnStage(r)' = "turn"
  BY DEF TurnStage, Gone, Beyond, Past

\* A step of its runner that is not seen in its promise.
Alike(r) ==
    /\ runner'[r].at = runner[r].at
    /\ runner'[r].session <=> runner[r].session
    /\ runner'[r].received <=> runner[r].received
    /\ runner'[r].result = runner[r].result

\* What a step of another, or of the worker, is to the promise: nothing, a further stage
\* before the agent or beyond it, or the end of the worker and its runner.
Passes(r) ==
    \/ /\ Alike(r) /\ (worker'[r].continued <=> worker[r].continued)
       /\ \/ worker'[r].at = worker[r].at
          \/ /\ runner[r].at = "off"
             /\ worker[r].at \notin Gone \cup {"idle"} /\ worker'[r].at \notin Gone \cup {"idle"}
             /\ worker[r].at \in Beyond => worker'[r].at \in Beyond
          \/ /\ worker[r].at = "idle" /\ worker'[r].at = "load"
             /\ runner[r].at = "off" /\ runStatus'[r] # "none"
    \/ /\ runStatus[r] # "none"
       /\ worker'[r].at \in Gone /\ ~worker'[r].continued
       /\ runner'[r] = NoRunner

\* A worker's own steps away from its agent.
LEMMA StagesOfWorkers ==
    ASSUME WorkerTypeOK, NEW r \in Runs, WorkerStep(r), ~At(r, "agent")
    PROVE  \/ worker'[r].at \in Gone /\ ~worker'[r].continued
           \/ /\ worker'[r].at \notin Gone \cup {"idle"}
              /\ worker'[r].continued <=> worker[r].continued
<1> DEFINE Fact == \/ worker'[r].at \in Gone /\ ~worker'[r].continued
                   \/ /\ worker'[r].at \notin Gone \cup {"idle"}
                      /\ worker'[r].continued <=> worker[r].continued
<1>1. worker \in [Runs -> Workers] /\ worker[r] \in Workers
  BY DEF WorkerTypeOK
<1>2. ASSUME NEW stage, stage \notin Gone \cup {"idle"}, Goto(r, stage) PROVE Fact
  BY <1>1, <1>2 DEF Goto, Workers
<1>3. ASSUME NEW stage, NEW code, stage \notin Gone \cup {"idle"}, GiveUp(r, code, stage)
      PROVE  Fact
  BY <1>1, <1>3 DEF GiveUp, Workers
<1>4. Return(r) => Fact
  BY <1>1 DEF Return, NoWorker, Gone
<1>5. LoseRun(r) => Fact
  BY <1>1 DEF LoseRun, NoWorker, Gone
<1>6. Load(r) => Fact
  BY <1>1 DEF Load, Workers, Gone
<1>7. DecideAfterCreate(r) => Fact
  BY <1>1, <1>3 DEF DecideAfterCreate, Workers, Gone
<1>8. AdvanceRun(r) => Fact
  BY <1>2, <1>4 DEF AdvanceRun, Advances, Gone
<1>9. ASSUME CheckActive(r) PROVE Fact
  <2>1. Return(r) \/ \E stage \in {"decide", "want_after_create", "before_run", "agent",
                                   "after_run", "outcome", "generate"} : Goto(r, stage)
    BY <1>9 DEF CheckActive, AfterCheck
  <2> QED BY <1>2, <1>4, <2>1 DEF Gone
<1>10. \/ CheckDirectory(r) \/ AddWorktree(r) \/ RecordWorkspace(r) \/ InsertWorkspace(r)
       \/ StartAfterCreate(r) \/ FinishAfterCreate(r) \/ Render(r) \/ RunBeforeRun(r)
       \/ IssueToken(r) \/ RunAfterRun(r) \/ Decide(r) \/ Generate(r)
       => Fact
  BY <1>2, <1>3 DEF CheckDirectory, AddWorktree, RecordWorkspace, InsertWorkspace,
     StartAfterCreate, FinishAfterCreate, Render, RunBeforeRun, IssueToken, RunAfterRun,
     Decide, Generate, Gone
<1>11. Complete(r) \/ ReportFailure(r) => Fact
  BY <1>4 DEF Complete, ReportFailure
<1>12. ~AgentReturns(r)
  BY DEF AgentReturns
<1> QED BY <1>4, <1>5, <1>6, <1>7, <1>8, <1>9, <1>10, <1>11, <1>12 DEF WorkerStep

\* Every step that is not a runner's passes by the runners.
LEMMA OtherTurns ==
    ASSUME TurnsInv, [CodexNext]_everything, \A r \in Runs : ~RunnerStep(r), NEW q \in Runs
    PROVE  Passes(q) /\ (runner'[q].at = "handoff" => call'[q] = call[q])
<1> DEFINE Fact == Passes(q) /\ (runner'[q].at = "handoff" => call'[q] = call[q])
<1>1. /\ TypeOK /\ WorkerTypeOK /\ RunRows /\ FailureIsDue /\ NoWorkerBeforeClaim /\ WorkerInv
      /\ runner \in [Runs -> Runners] /\ worker \in [Runs -> Workers]
      /\ worker[q] \in Workers /\ runner[q] \in Runners
      /\ runner[q].at # "off" => worker[q].at = "agent"
      /\ HoldsSession(q) /\ SubmitsHandoff(q)
  BY DEF TurnsInv, CodexInv, CodexTypeOK, WorkerInv, IndInv, WorkerTypeOK, RunnersServeWorkers,
         ServesWorker, At
<1>2. /\ NoRunner.at = "off" /\ ~NoRunner.session /\ ~NoRunner.received
      /\ NoRunner.result = "none"
      /\ \A stage : NoWorker(stage).at = stage /\ ~NoWorker(stage).continued
  BY DEF NoRunner, NoWorker
<1>3. ASSUME runner'[q] = runner[q], worker'[q] = worker[q],
             call'[q] = call[q] \/ runner[q].at # "handoff"
      PROVE  Fact
  BY <1>3 DEF Passes, Alike
<1>4. CASE UNCHANGED everything
  BY <1>3, <1>4 DEF everything, allVars, codexVars
<1>5. ASSUME NEW r \in Runs, WorkerStepBesides(r) PROVE Fact
  <2>1. /\ WorkerStep(r) /\ ~At(r, "agent")
        /\ runner' = [runner EXCEPT ![r] = IF Lives(r)' THEN runner[r] ELSE NoRunner]
    BY <1>5 DEF WorkerStepBesides
  <2>2. /\ \A p \in Runs \ {r} : worker'[p] = worker[p]
        /\ call' = call /\ Lives(r)
    BY <1>1, <2>1, WorkerMoves DEF Moves
  <2>3. CASE q # r
    BY <1>1, <1>3, <2>1, <2>2, <2>3
  <2>4. CASE q = r
    <3>1. runner[q].at = "off" /\ runStatus[q] # "none"
      BY <1>1, <2>1, <2>2, <2>4 DEF At, NoWorkerBeforeClaim
    <3>2. worker[q].at \notin Gone \cup {"idle"}
      BY <2>2, <2>4 DEF Lives, Gone
    <3>3. CASE worker'[q].at \in Gone /\ ~worker'[q].continued
      <4>1. runner'[q] = NoRunner
        BY <1>1, <2>1, <2>4, <3>3 DEF Lives, Gone
      <4> QED BY <1>2, <2>2, <3>1, <3>3, <4>1 DEF Passes
    <3>4. CASE worker'[q].at \notin Gone \cup {"idle"}
               /\ (worker'[q].continued <=> worker[q].continued)
      <4>1. runner'[q] = runner[q]
        BY <1>1, <2>1, <2>4, <3>4 DEF Lives, Gone
      <4>2. [WorkerNext]_allVars
        BY <2>1 DEF WorkerNext
      <4>3. worker[q].at \in Past => worker'[q].at \in Past
        BY <1>1, <3>1, <4>2, StageStep
      <4> QED BY <2>2, <3>1, <3>2, <3>4, <4>1, <4>3 DEF Passes, Alike, Beyond
    <3> QED BY <1>1, <2>1, <2>4, <3>3, <3>4, StagesOfWorkers
  <2> QED BY <2>3, <2>4
<1>6. ASSUME NEW r \in Runs, ToolCall(r) PROVE Fact
  <2>1. runner' = runner /\ worker' = worker
    BY <1>6 DEF ToolCall, ValidateCall, DispatchCall, codexVars
  <2>2. CASE q # r
    <3>1. call'[q] = call[q]
      BY <1>1, <1>6, <2>2 DEF ToolCall, ValidateCall, DispatchCall, WorkerTypeOK
    <3> QED BY <1>3, <2>1, <3>1
  <2>3. CASE q = r
    <3>1. runner[q].at # "handoff"
      BY <1>1, <1>6, <2>3 DEF ToolCall, ValidateCall, SubmitsHandoff
    <3> QED BY <1>3, <2>1, <3>1
  <2> QED BY <2>2, <2>3
<1>7. ASSUME NEW r \in Runs, KillRunner(r) PROVE Fact
  <2>1. /\ worker[r].former
        /\ worker' = [worker EXCEPT ![r] = NoWorker("dead")]
        /\ call' = [call EXCEPT ![r] = "none"]
        /\ runner' = [runner EXCEPT ![r] = NoRunner]
    BY <1>7 DEF KillRunner, KillFormer
  <2>2. CASE q # r
    BY <1>1, <1>3, <2>1, <2>2 DEF WorkerTypeOK
  <2>3. CASE q = r
    <3>1. worker'[q] = NoWorker("dead") /\ runner'[q] = NoRunner /\ runStatus[q] # "none"
      BY <1>1, <2>1, <2>3 DEF NoWorkerBeforeClaim
    <3> QED BY <1>2, <3>1 DEF Passes, Gone
  <2> QED BY <2>2, <2>3
<1>8. ASSUME NEW r \in Runs, ReconcileWithApprovals(r) PROVE Fact
  <2>1. UNCHANGED <<runner, worker, call>>
    BY <1>8 DEF ReconcileWithApprovals, ReconcileStale
  <2> QED BY <1>3, <2>1
<1>9. ASSUME NEW a \in Approvals, NEW d, DecideApproval(a, d) PROVE Fact
  BY <1>3, <1>9 DEF DecideApproval
<1>10. ASSUME NEW lost \in SUBSET Runs, NEW list \in SUBSET Issues, StopRunners(lost, list)
       PROVE  Fact
  <2>1. /\ runner'[q] = IF q \in lost THEN NoRunner ELSE runner[q]
        /\ call'[q] = IF q \in lost THEN "none" ELSE call[q]
        /\ worker'[q] = IF ~Lives(q) THEN worker[q]
                        ELSE IF q \in lost THEN NoWorker("dead")
                        ELSE [worker[q] EXCEPT !.former = TRUE]
    BY <1>10 DEF StopRunners, StopDaemon
  <2>2. CASE Lives(q) /\ q \in lost
    <3>1. worker'[q] = NoWorker("dead") /\ runner'[q] = NoRunner /\ runStatus[q] # "none"
      BY <1>1, <2>1, <2>2 DEF NoWorkerBeforeClaim
    <3> QED BY <1>2, <3>1 DEF Passes, Gone
  <2>3. CASE Lives(q) /\ q \notin lost
    <3>1. worker'[q].at = worker[q].at /\ (worker'[q].continued <=> worker[q].continued)
      BY <1>1, <2>1, <2>3 DEF Workers
    <3>2. runner'[q] = runner[q] /\ call'[q] = call[q]
      BY <2>1, <2>3
    <3> QED BY <3>1, <3>2 DEF Passes, Alike
  <2>4. CASE ~Lives(q)
    <3>1. runner[q].at = "off" /\ ~runner[q].session /\ ~runner[q].received
          /\ runner[q].result = "none"
      BY <1>1, <2>4 DEF Lives, HoldsSession, Gone
    <3>2. runner'[q] = NoRunner \/ runner'[q] = runner[q]
      BY <2>1
    <3>3. Alike(q) /\ runner'[q].at = "off"
      BY <1>2, <3>1, <3>2 DEF Alike
    <3> QED BY <2>1, <2>4, <3>3 DEF Passes
  <2> QED BY <2>2, <2>3, <2>4
<1>11. ASSUME Surroundings PROVE Fact
  <2>1. UNCHANGED <<runner, call>>
    BY <1>11 DEF Surroundings, codexVars, OperatorStep, StartWorker, StartLateWorker, EndDrain,
                 StartDaemon, AbortStartup, FinishStartup
  <2>2. ASSUME NEW i \in Issues, NEW r \in Runs, StartWorker(i, r) \/ StartLateWorker(i, r)
        PROVE  Fact
    <3>1. CASE q # r
      <4>1. worker'[q] = worker[q]
        BY <1>1, <2>2, <3>1 DEF StartWorker, StartLateWorker, Goto
      <4> QED BY <1>3, <2>1, <4>1
    <3>2. CASE q = r
      <4>1. runStatus[q] = "none" /\ runStatus'[q] # "none"
        BY <1>1, <2>2, <3>2 DEF StartWorker, StartLateWorker, ClaimRun, TypeOK
      <4>2. worker[q].at = "idle" /\ runner[q].at = "off"
        BY <1>1, <4>1 DEF HoldsSession
      <4>3. worker'[q].at = "load" /\ (worker'[q].continued <=> worker[q].continued)
        <5>1. CASE StartWorker(i, r)
          BY <1>1, <3>2, <5>1 DEF StartWorker, Goto, Workers
        <5>2. CASE StartLateWorker(i, r)
          BY <1>1, <3>2, <5>2 DEF StartLateWorker, Workers
        <5> QED BY <2>2, <5>1, <5>2
      <4> QED BY <2>1, <4>1, <4>2, <4>3 DEF Passes, Alike
    <3> QED BY <3>1, <3>2
  <2>3. CASE \/ OperatorStep
             \/ \E i \in Issues : EndDrain(i)
             \/ StartDaemon \/ AbortStartup \/ FinishStartup
    <3>1. worker' = worker
      BY <2>3 DEF OperatorStep, EndDrain, StartDaemon, AbortStartup, FinishStartup
    <3> QED BY <1>3, <2>1, <3>1
  <2> QED BY <1>11, <2>2, <2>3 DEF Surroundings
<1> QED BY <1>4, <1>5, <1>6, <1>7, <1>8, <1>9, <1>10, <1>11 DEF CodexNext

\* What passes by a runner is a step of its promise, or none.
LEMMA PassingTurns ==
    ASSUME TurnsInv, CodexInv', [WorkerNext]_allVars, NEW q \in Runs, Passes(q),
           runner'[q].at = "handoff" => call'[q] = call[q]
    PROVE  /\ [Turns(q)!TurnNext]_(Turns(q)!turnVars)
           /\ HoldsSession(q)' /\ SubmitsHandoff(q)'
<1>1. /\ WorkerInv /\ WorkerTypeOK /\ TypeOK /\ FailureIsDue
      /\ HoldsSession(q) /\ SubmitsHandoff(q)
      /\ runner[q] \in Runners /\ runner'[q] \in Runners
      /\ worker[q] \in Workers /\ worker'[q] \in Workers
      /\ runner[q].at # "off" => worker[q].at = "agent"
      /\ runner'[q].at # "off" => worker'[q].at = "agent"
  BY DEF TurnsInv, CodexInv, CodexTypeOK, WorkerInv, IndInv, WorkerTypeOK, RunnersServeWorkers,
         ServesWorker, At
<1>2. /\ runner[q].session \in BOOLEAN /\ runner'[q].session \in BOOLEAN
      /\ runner[q].received \in BOOLEAN /\ runner'[q].received \in BOOLEAN
      /\ worker[q].continued \in BOOLEAN /\ worker'[q].continued \in BOOLEAN
  BY <1>1 DEF Runners, Workers
<1>3. runStatus[q] # "none" => runStatus'[q] # "none"
  BY <1>1, StageStep
<1>4. handoff[q] # None => handoff'[q] # None
  <2>1. [Next]_vars
    BY <1>1, StepOfStoreIsNext
  <2> QED BY <1>1, <2>1, HandoffStays
<1>5. SubmitsHandoff(q)'
  <2>1. CASE Alike(q)
    BY <1>1, <1>4, <2>1 DEF SubmitsHandoff, Alike
  <2>2. CASE runner'[q] = NoRunner
    BY <2>2 DEF SubmitsHandoff, NoRunner
  <2> QED BY <2>1, <2>2 DEF Passes
<1>6. ASSUME Alike(q), worker'[q].continued <=> worker[q].continued, TurnStage(q)' = TurnStage(q)
      PROVE  UNCHANGED Turns(q)!turnVars
  <2>1. runner'[q].session = runner[q].session /\ (runner'[q].received <=> runner[q].received)
    BY <1>2, <1>6 DEF Alike
  <2>2. (runner[q].received /\ handoff[q] # None)' = (runner[q].received /\ handoff[q] # None)
    BY <1>1, <1>5, <2>1 DEF SubmitsHandoff
  <2> QED BY <1>6, <2>1, <2>2 DEF Turns!turnVars, Alike
<1>7. CASE /\ Alike(q) /\ (worker'[q].continued <=> worker[q].continued)
           /\ worker'[q].at = worker[q].at
  <2>1. HoldsSession(q)'
    BY <1>1, <1>3, <1>7 DEF HoldsSession, Alike
  <2>2. TurnStage(q)' = TurnStage(q)
    BY <1>7 DEF TurnStage, Alike
  <2> QED BY <1>6, <1>5, <1>7, <2>1, <2>2
<1>8. CASE /\ Alike(q) /\ (worker'[q].continued <=> worker[q].continued)
           /\ runner[q].at = "off"
           /\ worker[q].at \notin Gone \cup {"idle"} /\ worker'[q].at \notin Gone \cup {"idle"}
           /\ worker[q].at \in Beyond => worker'[q].at \in Beyond
  <2>1. runStatus'[q] # "none"
    BY <1>1, <1>3, <1>8 DEF HoldsSession
  <2>2. HoldsSession(q)'
    BY <1>1, <1>8, <2>1 DEF HoldsSession, Alike
  <2>3. CASE worker[q].at \in Beyond <=> worker'[q].at \in Beyond
    <3>1. TurnStage(q)' = TurnStage(q)
      BY <1>8, <2>3, StageIs DEF Alike
    <3> QED BY <1>5, <1>6, <1>8, <2>2, <3>1
  <2>4. CASE worker[q].at \notin Beyond /\ worker'[q].at \in Beyond
    <3>1. TurnStage(q) = "ready" /\ TurnStage(q)' = "over"
      BY <1>8, <2>4, StageIs
    <3>2. runner'[q].result = "none"
      BY <1>1, <1>8 DEF HoldsSession, Alike
    <3>3. /\ runner'[q].session = runner[q].session
          /\ ~runner[q].received /\ ~runner'[q].received
      BY <1>1, <1>2, <1>8 DEF Alike, HoldsSession
    <3>4. Turns(q)!Leave
      BY <1>8, <3>1, <3>2, <3>3 DEF Turns!Leave
    <3> QED BY <1>5, <2>2, <3>4 DEF Turns!TurnNext
  <2> QED BY <1>8, <2>3, <2>4
<1>9. CASE /\ Alike(q) /\ (worker'[q].continued <=> worker[q].continued)
           /\ worker[q].at = "idle" /\ worker'[q].at = "load"
           /\ runner[q].at = "off" /\ runStatus'[q] # "none"
  <2>1. HoldsSession(q)'
    BY <1>1, <1>9 DEF HoldsSession, Alike, Gone
  <2>2. TurnStage(q)' = TurnStage(q)
    BY <1>9, StageIs DEF Alike, Gone, Beyond, Past
  <2> QED BY <1>5, <1>6, <1>9, <2>1, <2>2
<1>10. CASE /\ runStatus[q] # "none"
            /\ worker'[q].at \in Gone /\ ~worker'[q].continued
            /\ runner'[q] = NoRunner
  <2>1. /\ runner'[q].at = "off" /\ ~runner'[q].session /\ ~runner'[q].received
        /\ runner'[q].result = "none"
    BY <1>10 DEF NoRunner
  <2>2. TurnStage(q)' = "closed"
    BY <1>10, StageIs
  <2>3. HoldsSession(q)'
    BY <1>3, <1>10, <2>1 DEF HoldsSession
  <2>4. CASE worker[q].at \in Gone
    <3>1. TurnStage(q) = "closed" /\ ~worker[q].continued /\ runner[q].at = "off"
          /\ ~runner[q].session
      BY <1>1, <2>4, StageIs DEF HoldsSession, Gone
    <3>2. ~runner[q].received /\ runner[q].result = "none"
      BY <1>1, <3>1 DEF HoldsSession
    <3>3. Alike(q)
      BY <2>1, <3>1, <3>2 DEF Alike
    <3> QED BY <1>5, <1>6, <1>10, <2>2, <2>3, <3>1, <3>3
  <2>5. CASE worker[q].at \notin Gone
    <3>1. TurnStage(q) # "closed"
      BY <2>5, StageIs
    <3>2. runner'[q].received = FALSE
      BY <1>2, <2>1
    <3>3. Turns(q)!Close
      BY <1>10, <2>1, <2>2, <3>1, <3>2 DEF Turns!Close
    <3> QED BY <1>5, <2>3, <3>3 DEF Turns!TurnNext
  <2> QED BY <2>4, <2>5
<1> QED BY <1>7, <1>8, <1>9, <1>10 DEF Passes

\* The steps of a runner that becomes w, by what they are to its turn.
BeginsTurn(r, w) ==
    /\ runner[r].at = "off"
    /\ w.at = "reading" /\ w.session /\ ~w.received /\ w.result = runner[r].result
    /\ UNCHANGED worker

GivesUp(r, w) ==
    /\ runner[r].at # "returned"
    /\ runner[r].at = "off" => ~runner[r].session
    /\ w = Failed
    /\ UNCHANGED worker

GoesOn(r, w) ==
    /\ runner[r].at \notin {"off", "returned"} /\ w.at \notin {"off", "returned"}
    /\ w.session <=> runner[r].session
    /\ w.result = runner[r].result
    /\ \/ w.received <=> runner[r].received
       \/ w.received /\ handoff'[r] # None
    /\ w.at = "handoff" => call'[r] = "handoff.submit"
    /\ UNCHANGED worker

Completes(r, w) ==
    /\ runner[r].at = "reading" /\ w.at = "returned"
    /\ ~w.received
    /\ IF runner[r].received THEN w.result = "success" /\ ~w.session
       ELSE w.result = "missing" /\ (w.session <=> runner[r].session)
    /\ UNCHANGED worker

HandsBack(r, w) ==
    /\ runner[r].at = "returned" /\ w.at = "off" /\ w.result = "none"
    /\ (w.session <=> runner[r].session) /\ (w.received <=> runner[r].received)
    /\ \/ /\ worker'[r].at = "check_after_run"
          /\ worker'[r].continued <=> worker[r].continued
       \/ /\ runner[r].result = "missing" /\ ~worker[r].continued
          /\ worker'[r].at = "check_continue" /\ worker'[r].continued

\* Every step of a runner is one of these.
LEMMA TurnSteps ==
    ASSUME CodexInv, NEW r \in Runs, HoldsSession(r), SubmitsHandoff(r), RunnerStep(r)
    PROVE  /\ At(r, "agent")
           /\ \A q \in Runs \ {r} : worker'[q] = worker[q] /\ call'[q] = call[q]
           /\ \E w \in Runners :
                 /\ Becomes(r, w)
                 /\ \/ BeginsTurn(r, w) \/ GivesUp(r, w) \/ GoesOn(r, w)
                    \/ Completes(r, w) \/ HandsBack(r, w)
<1> DEFINE Goal == \E w \in Runners :
                      /\ Becomes(r, w)
                      /\ \/ BeginsTurn(r, w) \/ GivesUp(r, w) \/ GoesOn(r, w)
                         \/ Completes(r, w) \/ HandsBack(r, w)
<1>1. /\ CodexTypeOK /\ WorkerTypeOK /\ runner \in [Runs -> Runners] /\ runner[r] \in Runners
      /\ worker \in [Runs -> Workers] /\ worker[r] \in Workers
  BY DEF CodexInv, CodexTypeOK, WorkerInv, WorkerTypeOK
<1>2. At(r, "agent")
  BY DEF RunnerStep, Run, EndTurn, FailTurn, SubmitHandoff, FinishHandoff, ReturnResult, Ask,
         Match, Create, Poll, TimeOut, StopWaiting, Stage
<1>3. \A q \in Runs \ {r} : call'[q] = call[q]
  BY <1>1 DEF RunnerStep, Run, EndTurn, FailTurn, SubmitHandoff, FinishHandoff, ReturnResult,
         Ask, Match, Create, Poll, TimeOut, StopWaiting, ValidateCall, DispatchCall, allVars,
         WorkerTypeOK
<1>4. \A q \in Runs \ {r} : worker'[q] = worker[q]
  <2>1. ReturnResult(r) => \A q \in Runs \ {r} : worker'[q] = worker[q]
    BY <1>1 DEF ReturnResult, Goto, GiveUp
  <2> QED BY <2>1 DEF RunnerStep, Run, EndTurn, FailTurn, SubmitHandoff, FinishHandoff, Ask,
         Match, Create, Poll, TimeOut, StopWaiting, ValidateCall, DispatchCall, allVars
<1>5. ASSUME Fail(r), runner[r].at # "returned", runner[r].at = "off" => ~runner[r].session,
             UNCHANGED worker
      PROVE  Goal
  BY <1>1, <1>5, RunnerMoves DEF GivesUp, Becomes
<1>6. ASSUME NEW w \in Runners, runner' = [runner EXCEPT ![r] = w],
             runner[r].at \notin {"off", "returned"}, w.at \notin {"off", "returned", "handoff"},
             w.session <=> runner[r].session, w.result = runner[r].result,
             w.received <=> runner[r].received, UNCHANGED worker
      PROVE  Goal
  BY <1>6 DEF GoesOn, Becomes
<1>7. ASSUME KeepReading(r), runner[r].at \notin {"off", "returned"}, UNCHANGED worker
      PROVE  Goal
  <2>1. Becomes(r, Reading(r))
    BY <1>1, <1>7, RunnerMoves
  <2>2. /\ Reading(r).at = "reading" /\ Reading(r).result = runner[r].result
        /\ Reading(r).session <=> runner[r].session
        /\ Reading(r).received <=> runner[r].received
    BY <1>1 DEF Reading, Runners
  <2> QED BY <1>6, <1>7, <2>1, <2>2 DEF Becomes
<1>8. ASSUME NEW w \in Runners, runner' = [runner EXCEPT ![r] = w],
              \/ BeginsTurn(r, w) \/ GoesOn(r, w) \/ Completes(r, w) \/ HandsBack(r, w)
       PROVE  Goal
  BY <1>8 DEF Becomes
<1> HIDE DEF Goal
<1>9. ASSUME Run(r) PROVE Goal
  <2> DEFINE w == [runner[r] EXCEPT !.at = "reading", !.session = TRUE, !.received = FALSE]
  <2>1. w \in Runners /\ w.at = "reading" /\ w.result = runner[r].result
    BY <1>1 DEF Runners
  <2>2. w.session /\ ~w.received
    BY <1>1 DEF Runners
  <2>3. runner[r].at = "off" /\ UNCHANGED worker
    BY <1>9 DEF Run, Stage, allVars
  <2>4. CASE runner' = [runner EXCEPT ![r].at = "reading", ![r].session = TRUE,
                                      ![r].received = FALSE]
    <3>1. runner' = [runner EXCEPT ![r] = w]
      BY <1>1, <2>4
    <3> HIDE DEF w
    <3>2. BeginsTurn(r, w)
      BY <2>1, <2>2, <2>3 DEF BeginsTurn
    <3> QED BY <1>8, <2>1, <3>1, <3>2
  <2> QED BY <1>5, <1>9, <2>3, <2>4 DEF Run
<1>10. ASSUME EndTurn(r) PROVE Goal
  <2>1. runner[r].at = "reading" /\ UNCHANGED worker
    BY <1>10 DEF EndTurn, Stage, allVars
  <2>2. CASE runner[r].received
    <3> DEFINE w == [NoRunner EXCEPT !.at = "returned", !.result = "success"]
    <3>1. w \in Runners /\ w.at = "returned" /\ w.result = "success" /\ ~w.session /\ ~w.received
      BY DEF NoRunner, Runners
    <3>2. runner' = [runner EXCEPT ![r] = w]
      BY <1>10, <2>2 DEF EndTurn
    <3> HIDE DEF w
    <3>3. Completes(r, w)
      BY <2>1, <2>2, <3>1 DEF Completes
    <3> QED BY <1>8, <3>1, <3>2, <3>3
  <2>3. CASE ~runner[r].received
    <3> DEFINE w == [runner[r] EXCEPT !.at = "returned", !.result = "missing"]
    <3>1. w \in Runners /\ w.at = "returned" /\ w.result = "missing"
      BY <1>1 DEF Runners
    <3>2. (w.session <=> runner[r].session) /\ ~w.received
      BY <1>1, <2>3 DEF Runners
    <3>3. runner' = [runner EXCEPT ![r] = w]
      BY <1>10, <2>3 DEF EndTurn
    <3> HIDE DEF w
    <3>4. Completes(r, w)
      BY <2>1, <2>3, <3>1, <3>2 DEF Completes
    <3> QED BY <1>8, <3>1, <3>3, <3>4
  <2> QED BY <2>2, <2>3
<1>11. ASSUME FailTurn(r) PROVE Goal
  BY <1>5, <1>11 DEF FailTurn, Stage, allVars
<1>12. ASSUME SubmitHandoff(r) PROVE Goal
  <2>1. runner[r].at = "reading" /\ UNCHANGED worker
    BY <1>12 DEF SubmitHandoff, Stage, ValidateCall, allVars
  <2>2. CASE /\ ValidateCall(r, "handoff.submit")
             /\ runner' = [runner EXCEPT ![r].at = "handoff"]
    <3> DEFINE w == [runner[r] EXCEPT !.at = "handoff"]
    <3>1. w \in Runners /\ w.at = "handoff" /\ w.result = runner[r].result
      BY <1>1 DEF Runners
    <3>2. (w.session <=> runner[r].session) /\ (w.received <=> runner[r].received)
      BY <1>1 DEF Runners
    <3>3. runner' = [runner EXCEPT ![r] = w]
      BY <1>1, <2>2
    <3>4. call'[r] = "handoff.submit"
      BY <1>1, <2>2 DEF ValidateCall, WorkerTypeOK
    <3> HIDE DEF w
    <3>5. GoesOn(r, w)
      BY <2>1, <3>1, <3>2, <3>4 DEF GoesOn
    <3> QED BY <1>8, <3>1, <3>3, <3>5
  <2> QED BY <1>5, <1>12, <2>1, <2>2 DEF SubmitHandoff
<1>13. ASSUME FinishHandoff(r) PROVE Goal
  <2>1. runner[r].at = "handoff" /\ UNCHANGED worker
    BY <1>13 DEF FinishHandoff, Stage, DispatchCall
  <2>2. handoff'[r] # None
    <3>1. call[r] = "handoff.submit"
      BY <2>1 DEF SubmitsHandoff
    <3>2. CASE UNCHANGED vars /\ handoff[r] # None
      BY <3>2 DEF vars, workVars
    <3>3. ASSUME NEW payload \in Payloads, InsertHandoff(r, payload) PROVE handoff'[r] # None
      <4>1. handoff \in [Runs -> Payloads \cup {None}]
        BY <1>1 DEF WorkerTypeOK, TypeOK
      <4> QED BY <3>3, <4>1, NoneAssumption DEF InsertHandoff
    <3> QED BY <1>13, <3>1, <3>2, <3>3 DEF FinishHandoff, DispatchCall
  <2>3. CASE runner' = [runner EXCEPT ![r].at = "reading", ![r].received = TRUE]
    <3> DEFINE w == [runner[r] EXCEPT !.at = "reading", !.received = TRUE]
    <3>1. w \in Runners /\ w.at = "reading" /\ w.result = runner[r].result
      BY <1>1 DEF Runners
    <3>2. (w.session <=> runner[r].session) /\ w.received
      BY <1>1 DEF Runners
    <3>3. runner' = [runner EXCEPT ![r] = w]
      BY <1>1, <2>3
    <3> HIDE DEF w
    <3>4. GoesOn(r, w)
      BY <2>1, <2>2, <3>1, <3>2 DEF GoesOn
    <3> QED BY <1>8, <3>1, <3>3, <3>4
  <2> QED BY <1>5, <1>13, <2>1, <2>3 DEF FinishHandoff
<1>14. ASSUME ReturnResult(r) PROVE Goal
  <2> DEFINE w == [runner[r] EXCEPT !.at = "off", !.result = "none"]
  <2>1. w \in Runners /\ w.at = "off" /\ w.result = "none"
    BY <1>1 DEF Runners
  <2>2. (w.session <=> runner[r].session) /\ (w.received <=> runner[r].received)
    BY <1>1 DEF Runners
  <2>3. runner' = [runner EXCEPT ![r] = w] /\ runner[r].at = "returned"
    BY <1>1, <1>14 DEF ReturnResult, Stage
  <2>4. ASSUME NEW code, Goto(r, "check_after_run") \/ GiveUp(r, code, "check_after_run")
        PROVE  /\ worker'[r].at = "check_after_run"
               /\ worker'[r].continued <=> worker[r].continued
    BY <1>1, <2>4 DEF Goto, GiveUp, Workers
  <2>5. ASSUME worker' = [worker EXCEPT ![r].continued = TRUE, ![r].at = "check_continue"]
        PROVE  worker'[r].at = "check_continue" /\ worker'[r].continued
    BY <1>1, <2>5 DEF Workers
  <2>6. \/ /\ worker'[r].at = "check_after_run"
           /\ worker'[r].continued <=> worker[r].continued
        \/ /\ runner[r].result = "missing" /\ ~worker[r].continued
           /\ worker'[r].at = "check_continue" /\ worker'[r].continued
    BY <1>14, <2>4, <2>5 DEF ReturnResult
  <2> HIDE DEF w
  <2>7. HandsBack(r, w)
    BY <2>1, <2>2, <2>3, <2>6 DEF HandsBack
  <2> QED BY <1>8, <2>1, <2>3, <2>7
<1>15. ASSUME NEW stage \in {"match", "create", "waiting"}, runner[r].at \notin {"off", "returned"},
              NEW s \in Subjects \cup {None}, NEW a \in Approvals \cup {None},
              runner' = [runner EXCEPT ![r] = [runner[r] EXCEPT !.at = stage, !.subject = s,
                                                                !.waits = a]],
              UNCHANGED worker
       PROVE  Goal
  <2> DEFINE w == [runner[r] EXCEPT !.at = stage, !.subject = s, !.waits = a]
  <2>1. w \in Runners /\ w.at = stage /\ w.result = runner[r].result
    BY <1>1 DEF Runners
  <2>2. (w.session <=> runner[r].session) /\ (w.received <=> runner[r].received)
    BY <1>1 DEF Runners
  <2> QED BY <1>6, <1>15, <2>1, <2>2
<1>16. ASSUME NEW s \in Subjects, Ask(r, s) PROVE Goal
  <2>1. runner[r].at = "reading" /\ UNCHANGED worker
    BY <1>16 DEF Ask, Stage, allVars
  <2>2. ASSUME NEW stage \in {"match", "create"},
               runner' = [runner EXCEPT ![r].at = stage, ![r].subject = s]
        PROVE  Goal
    <3>1. runner' = [runner EXCEPT ![r] = [runner[r] EXCEPT !.at = stage, !.subject = s,
                                                            !.waits = runner[r].waits]]
      BY <1>1, <2>2 DEF Runners
    <3>2. runner[r].waits \in Approvals \cup {None}
      BY <1>1 DEF Runners
    <3> QED BY <1>15, <2>1, <3>1, <3>2
  <2> QED BY <1>5, <1>16, <2>1, <2>2 DEF Ask
<1>17. ASSUME Match(r) PROVE Goal
  <2>1. runner[r].at = "match" /\ UNCHANGED worker
    BY <1>17 DEF Match, Stage, allVars
  <2>2. CASE runner' = [runner EXCEPT ![r].at = "create"]
    <3>1. runner' = [runner EXCEPT ![r] = [runner[r] EXCEPT !.at = "create",
                         !.subject = runner[r].subject, !.waits = runner[r].waits]]
      BY <1>1, <2>2 DEF Runners
    <3>2. runner[r].waits \in Approvals \cup {None} /\ runner[r].subject \in Subjects \cup {None}
      BY <1>1 DEF Runners
    <3> QED BY <1>15, <2>1, <3>1, <3>2
  <2> QED BY <1>5, <1>7, <1>17, <2>1, <2>2 DEF Match, Grant
<1>18. ASSUME Create(r) PROVE Goal
  <2>1. runner[r].at = "create" /\ UNCHANGED worker
    BY <1>18 DEF Create, Stage, allVars
  <2>2. ASSUME NEW a \in Approvals,
               runner' = [runner EXCEPT ![r].at = "waiting", ![r].waits = a]
        PROVE  Goal
    <3>1. runner' = [runner EXCEPT ![r] = [runner[r] EXCEPT !.at = "waiting",
                         !.subject = runner[r].subject, !.waits = a]]
      BY <1>1, <2>2 DEF Runners
    <3>2. runner[r].subject \in Subjects \cup {None}
      BY <1>1 DEF Runners
    <3> QED BY <1>15, <2>1, <3>1, <3>2
  <2> QED BY <1>5, <1>18, <2>1, <2>2 DEF Create
<1>19. ASSUME Poll(r) PROVE Goal
  BY <1>5, <1>7, <1>19 DEF Poll, Grant, Stage, allVars
<1>20. ASSUME TimeOut(r) \/ StopWaiting(r) PROVE Goal
  BY <1>5, <1>20 DEF TimeOut, StopWaiting, Stage, allVars
<1>21. Goal
  BY <1>9, <1>10, <1>11, <1>12, <1>13, <1>14, <1>16, <1>17, <1>18, <1>19, <1>20 DEF RunnerStep
<1> QED BY <1>2, <1>3, <1>4, <1>21 DEF Goal

\* A runner's own step is a step of its promise.
LEMMA OwnTurns ==
    ASSUME TurnsInv, CodexInv', [WorkerNext]_allVars, NEW r \in Runs, RunnerStep(r)
    PROVE  /\ [Turns(r)!TurnNext]_(Turns(r)!turnVars)
           /\ HoldsSession(r)' /\ SubmitsHandoff(r)'
<1>1. /\ WorkerInv /\ WorkerTypeOK /\ TypeOK /\ FailureIsDue /\ NoWorkerBeforeClaim
      /\ HoldsSession(r) /\ SubmitsHandoff(r)
      /\ runner \in [Runs -> Runners] /\ runner[r] \in Runners
      /\ worker[r] \in Workers /\ worker'[r] \in Workers
  BY DEF TurnsInv, CodexInv, CodexTypeOK, WorkerInv, IndInv, WorkerTypeOK
<1>2. PICK w \in Runners : /\ Becomes(r, w)
                           /\ \/ BeginsTurn(r, w) \/ GivesUp(r, w) \/ GoesOn(r, w)
                              \/ Completes(r, w) \/ HandsBack(r, w)
  BY <1>1, TurnSteps DEF TurnsInv
<1>3. runner'[r] = w
  BY <1>1, <1>2 DEF Becomes
<1>4. /\ runner[r].session \in BOOLEAN /\ w.session \in BOOLEAN
      /\ runner[r].received \in BOOLEAN /\ w.received \in BOOLEAN
      /\ worker[r].continued \in BOOLEAN /\ worker'[r].continued \in BOOLEAN
  BY <1>1, <1>2 DEF Runners, Workers
<1>5. worker[r].at = "agent"
  BY <1>1, TurnSteps DEF At, TurnsInv
<1>6. runStatus[r] # "none" /\ runStatus'[r] # "none"
  <2>1. runStatus[r] # "none"
    BY <1>1, <1>5 DEF HoldsSession
  <2> QED BY <1>1, <2>1, StageStep
<1>7. handoff[r] # None => handoff'[r] # None
  <2>1. [Next]_vars
    BY <1>1, StepOfStoreIsNext
  <2> QED BY <1>1, <2>1, HandoffStays
<1>8. /\ "agent" \notin Gone \cup Beyond \cup {"idle"}
      /\ "check_continue" \notin Gone \cup Beyond \cup {"idle"}
      /\ "check_after_run" \in Beyond \ (Gone \cup {"idle"})
  BY DEF Gone, Beyond, Past
<1>9. CASE BeginsTurn(r, w)
  <2>1. TurnStage(r) = "ready" /\ TurnStage(r)' = "turn"
    BY <1>3, <1>5, <1>8, <1>9, StageIs DEF BeginsTurn
  <2>2. ~runner[r].received /\ runner[r].result = "none"
    BY <1>1, <1>9 DEF BeginsTurn, HoldsSession
  <2>3. (worker[r].continued => runner[r].session) /\ worker' = worker
    BY <1>1, <1>5, <1>8, <1>9 DEF BeginsTurn, HoldsSession
  <2>4. HoldsSession(r)' /\ SubmitsHandoff(r)'
    BY <1>3, <1>5, <1>6, <1>8, <1>9, <2>2, <2>3 DEF BeginsTurn, HoldsSession, SubmitsHandoff
  <2>5. w.received = runner[r].received /\ w.session = TRUE
    BY <1>4, <1>9, <2>2 DEF BeginsTurn
  <2>6. Turns(r)!Begin
    BY <1>3, <1>4, <1>9, <2>1, <2>2, <2>3, <2>5 DEF BeginsTurn, Turns!Begin
  <2> QED BY <2>4, <2>6 DEF Turns!TurnNext
<1>10. CASE GivesUp(r, w)
  <2>1. /\ w.at = "returned" /\ ~w.session /\ w.received = FALSE /\ w.result = "failed"
        /\ worker' = worker
    BY <1>10 DEF GivesUp, Failed, NoRunner
  <2>2. TurnStage(r)' = "returned" /\ TurnStage(r) \in {"ready", "turn"}
    BY <1>3, <1>5, <1>8, <1>10, <2>1, StageIs DEF GivesUp
  <2>3. HoldsSession(r)' /\ SubmitsHandoff(r)'
    BY <1>3, <1>5, <1>6, <1>8, <2>1 DEF HoldsSession, SubmitsHandoff
  <2>4. Turns(r)!Return("failed")
    BY <1>3, <2>1, <2>2 DEF Turns!Return
  <2> QED BY <2>3, <2>4 DEF Turns!TurnNext
<1>11. CASE GoesOn(r, w)
  <2>1. TurnStage(r) = "turn" /\ TurnStage(r)' = "turn" /\ worker' = worker
    BY <1>3, <1>5, <1>8, <1>11, StageIs DEF GoesOn
  <2>2. HoldsSession(r)'
    BY <1>1, <1>3, <1>5, <1>6, <1>8, <1>11 DEF GoesOn, HoldsSession
  <2>3. SubmitsHandoff(r)'
    BY <1>1, <1>3, <1>7, <1>11 DEF GoesOn, SubmitsHandoff
  <2>4. w.session = runner[r].session
    BY <1>4, <1>11 DEF GoesOn
  <2>5. CASE w.received = runner[r].received
    <3>1. (runner[r].received /\ handoff[r] # None)' = (runner[r].received /\ handoff[r] # None)
      BY <1>1, <1>3, <2>3, <2>5 DEF SubmitsHandoff
    <3> QED BY <1>3, <1>11, <2>1, <2>2, <2>3, <2>4, <3>1 DEF GoesOn, Turns!turnVars
  <2>6. CASE w.received = TRUE
    <3>1. runner'[r].received /\ handoff'[r] # None
      BY <1>3, <2>3, <2>6 DEF SubmitsHandoff
    <3>2. Turns(r)!Take
      BY <1>3, <1>11, <2>1, <2>4, <3>1 DEF GoesOn, Turns!Take
    <3> QED BY <2>2, <2>3, <3>2 DEF Turns!TurnNext
  <2> QED BY <1>4, <1>11, <2>5, <2>6 DEF GoesOn
<1>12. CASE Completes(r, w)
  <2>1. TurnStage(r) = "turn" /\ TurnStage(r)' = "returned" /\ worker' = worker
    BY <1>3, <1>5, <1>8, <1>12, StageIs DEF Completes
  <2>2. w.received = FALSE
    BY <1>4, <1>12 DEF Completes
  <2>3. CASE runner[r].received
    <3>1. w.result = "success" /\ ~w.session
      BY <1>12, <2>3 DEF Completes
    <3>2. HoldsSession(r)' /\ SubmitsHandoff(r)'
      BY <1>1, <1>3, <1>5, <1>6, <1>7, <1>8, <1>12, <2>1, <2>3, <3>1
         DEF Completes, HoldsSession, SubmitsHandoff
    <3>3. handoff[r] # None
      BY <1>1, <2>3 DEF SubmitsHandoff
    <3>4. Turns(r)!Return("success")
      BY <1>3, <1>12, <2>1, <2>2, <2>3, <3>1, <3>3 DEF Completes, Turns!Return
    <3> QED BY <3>2, <3>4 DEF Turns!TurnNext
  <2>4. CASE ~runner[r].received
    <3>1. w.result = "missing" /\ w.session = runner[r].session
      BY <1>4, <1>12, <2>4 DEF Completes
    <3>2. runner[r].session
      BY <1>1, <1>12 DEF Completes, HoldsSession
    <3>3. HoldsSession(r)' /\ SubmitsHandoff(r)'
      BY <1>1, <1>3, <1>5, <1>6, <1>8, <1>12, <2>1, <3>1, <3>2
         DEF Completes, HoldsSession, SubmitsHandoff
    <3>4. Turns(r)!Return("missing")
      BY <1>3, <1>12, <2>1, <2>2, <2>4, <3>1 DEF Completes, Turns!Return
    <3> QED BY <3>3, <3>4 DEF Turns!TurnNext
  <2> QED BY <2>3, <2>4
<1>13. CASE HandsBack(r, w)
  <2>1. /\ TurnStage(r) = "returned" /\ ~runner[r].received
        /\ runner[r].session <=> runner[r].result = "missing"
    BY <1>1, <1>5, <1>8, <1>13, StageIs DEF HandsBack, HoldsSession
  <2>2. w.session = runner[r].session /\ w.received = runner[r].received
    BY <1>4, <1>13 DEF HandsBack
  <2>3. SubmitsHandoff(r)'
    BY <1>3, <1>13, <2>1, <2>2 DEF HandsBack, SubmitsHandoff
  <2>4. CASE /\ worker'[r].at = "check_after_run"
             /\ worker'[r].continued <=> worker[r].continued
    <3>1. TurnStage(r)' = "over"
      BY <1>8, <2>4, StageIs
    <3>2. HoldsSession(r)'
      BY <1>3, <1>6, <1>8, <1>13, <2>1, <2>2, <2>4 DEF HandsBack, HoldsSession
    <3>3. Turns(r)!Leave
      BY <1>3, <1>4, <1>13, <2>1, <2>2, <2>4, <3>1 DEF HandsBack, Turns!Leave
    <3> QED BY <2>3, <3>2, <3>3 DEF Turns!TurnNext
  <2>5. CASE /\ runner[r].result = "missing" /\ ~worker[r].continued
             /\ worker'[r].at = "check_continue" /\ worker'[r].continued
    <3>1. TurnStage(r)' = "ready"
      BY <1>3, <1>8, <1>13, <2>5, StageIs DEF HandsBack
    <3>2. HoldsSession(r)'
      BY <1>3, <1>6, <1>8, <1>13, <2>1, <2>2, <2>5 DEF HandsBack, HoldsSession
    <3>3. Turns(r)!Continue
      BY <1>3, <1>4, <1>13, <2>1, <2>2, <2>5, <3>1 DEF HandsBack, Turns!Continue
    <3> QED BY <2>3, <3>2, <3>3 DEF Turns!TurnNext
  <2> QED BY <1>13, <2>4, <2>5 DEF HandsBack
<1> QED BY <1>2, <1>9, <1>10, <1>11, <1>12, <1>13

\* Every step is a step of every runner's promise, or none, and keeps what it rests on.
LEMMA TurnsStep ==
    ASSUME TurnsInv, [CodexNext]_everything
    PROVE  /\ TurnsInv'
           /\ \A q \in Runs : [Turns(q)!TurnNext]_(Turns(q)!turnVars)
<1>1. CodexInv' /\ [WorkerNext]_allVars
  BY CodexPreservation, StepOfWorkers DEF TurnsInv, CodexInv
<1>2. ASSUME NEW q \in Runs
      PROVE  /\ [Turns(q)!TurnNext]_(Turns(q)!turnVars)
             /\ HoldsSession(q)' /\ SubmitsHandoff(q)'
  <2>1. CASE RunnerStep(q)
    BY <1>1, <2>1, OwnTurns
  <2>2. ASSUME NEW r \in Runs \ {q}, RunnerStep(r)
        PROVE  /\ [Turns(q)!TurnNext]_(Turns(q)!turnVars)
               /\ HoldsSession(q)' /\ SubmitsHandoff(q)'
    <3>1. HoldsSession(r) /\ SubmitsHandoff(r) /\ CodexInv /\ runner \in [Runs -> Runners]
      BY DEF TurnsInv, CodexInv, CodexTypeOK
    <3>2. worker'[q] = worker[q] /\ call'[q] = call[q] /\ runner'[q] = runner[q]
      BY <2>2, <3>1, TurnSteps DEF Becomes
    <3>3. Passes(q)
      BY <3>2 DEF Passes, Alike
    <3> QED BY <1>1, <3>2, <3>3, PassingTurns
  <2>3. CASE \A r \in Runs : ~RunnerStep(r)
    BY <1>1, <2>3, OtherTurns, PassingTurns
  <2> QED BY <2>1, <2>2, <2>3
<1> QED BY <1>1, <1>2 DEF TurnsInv

\* At the start no worker has a runner.
LEMMA InitTurns ==
    ASSUME CodexInit
    PROVE  TurnsInv /\ \A r \in Runs : Turns(r)!TurnInit
<1>1. ASSUME NEW r \in Runs
      PROVE  /\ runner[r] = NoRunner /\ worker[r] = NoWorker("idle") /\ runStatus[r] = "none"
  BY DEF CodexInit, WorkerInit, Init
<1>2. ASSUME NEW r \in Runs
      PROVE  /\ runner[r].at = "off" /\ runner[r].session = FALSE /\ runner[r].received = FALSE
             /\ runner[r].result = "none"
             /\ worker[r].at = "idle" /\ ~worker[r].continued
  BY <1>1 DEF NoRunner, NoWorker
<1>3. ASSUME NEW r \in Runs PROVE TurnStage(r) = "ready"
  BY <1>2 DEF TurnStage
<1>4. TurnsInv
  BY <1>1, <1>2, InitCodexInv DEF TurnsInv, HoldsSession, SubmitsHandoff
<1> QED BY <1>2, <1>3, <1>4 DEF Turns!TurnInit

\* runTurn, closeSession, and runWorker around them: whatever happens to its run and its
\* daemon, the runner of every run keeps the promise of AgentTurns to its worker.
THEOREM TurnsAreKept == CodexSpec => RunnersTakeTurns
<1>1. CodexInit => TurnsInv /\ \A r \in Runs : Turns(r)!TurnInit
  BY InitTurns
<1>2. TurnsInv /\ [CodexNext]_everything => TurnsInv'
  BY TurnsStep
<1>3. TurnsInv /\ [CodexNext]_everything
         => [\A r \in Runs : [Turns(r)!TurnNext]_(Turns(r)!turnVars)]_everything
  BY TurnsStep
<1> QED BY <1>1, <1>2, <1>3, PTL DEF CodexSpec, RunnersTakeTurns
=============================================================================
