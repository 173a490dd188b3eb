-------------------------- MODULE RunWorker_proofs --------------------------
(***************************************************************************)
(* Proofs about RunWorker: that the workers, the tool calls and the daemon *)
(* drive the store only through its operations, and that no run is lost.   *)
(***************************************************************************)
EXTENDS RunWorker, IssueTracker_proofs

\* A worker that is about to report has a failure to report.
FailureIsDue == \A r \in Runs : At(r, "fail") => worker[r].due # "none"

\* A run that was not claimed has no worker.
NoWorkerBeforeClaim ==
    \A r \in Runs : runStatus[r] = "none" => ~Lives(r) /\ ~worker[r].former

\* A worker of a former daemon works on a run that the next startup will end.
FormerRunsAreListed ==
    \A r \in ActiveRuns \ late : worker[r].former => daemon = "down" \/ r \in stale

WorkerInv ==
    /\ IndInv
    /\ WorkerTypeOK
    /\ FailureIsDue
    /\ NoWorkerBeforeClaim
    /\ FormerRunsAreListed
    /\ ActiveRunIsOwned

-----------------------------------------------------------------------------
(* What a step of the system is to the store.                              *)

\* The operations of the store, the claim apart.
ProgressNext ==
    \/ OperatorNext
    \/ \E r \in Runs : \/ \E status \in ActiveRunStatus : UpdateRunStatus(r, status)
                       \/ \E code \in WorkerCodes :
                             \/ FailRun(r, "failed", code)
                             \/ FailRun(r, "completed_without_handoff", code)
                       \/ BlockRunByAgent(r)
                       \/ ReconcileRun(r)
                       \/ CompleteRunWithReview(r)
                       \/ CreateToolToken(r)
                       \/ \E payload \in Payloads : InsertHandoff(r, payload)
                       \/ InsertReviewPacket(r)

ClaimStep == \E i \in Issues, r \in Runs : StartWorker(i, r) \/ StartLateWorker(i, r)

\* A step of a worker is an operation of the store, or leaves the store alone.
LEMMA WorkerStepOfStore ==
    ASSUME WorkerTypeOK, FailureIsDue, NEW r \in Runs, WorkerStep(r)
    PROVE  [ProgressNext]_vars
<1>1. CASE AdvanceRun(r)
  <2>1. \A a \in Advances : a[2] \in ActiveRunStatus
    BY DEF Advances, ActiveRunStatus
  <2> QED BY <1>1, <2>1 DEF AdvanceRun, ProgressNext
<1>2. CASE IssueToken(r) \/ Generate(r) \/ Complete(r)
  BY <1>2 DEF IssueToken, Generate, Complete, ProgressNext
<1>3. CASE ReportFailure(r)
  <2>1. worker[r].due \in WorkerCodes
    BY <1>3, DueCodesAssumption DEF ReportFailure, WorkerTypeOK, Workers, FailureIsDue
  <2> QED BY <1>3, <2>1 DEF ReportFailure, FailureStatus, ProgressNext
<1> QED BY <1>1, <1>2, <1>3
        DEF WorkerStep, Load, CheckActive, DecideAfterCreate, CheckDirectory, AddWorktree,
            RecordWorkspace, InsertWorkspace, StartAfterCreate, FinishAfterCreate, Render,
            RunBeforeRun, AgentReturns, RunAfterRun, Decide, LoseRun

\* Whatever a worker, a tool call or the daemon does to the store is one
\* operation of the store, or nothing.
LEMMA StepOfStore ==
    ASSUME WorkerTypeOK, FailureIsDue, [WorkerNext]_allVars
    PROVE  ClaimStep \/ [ProgressNext]_vars
<1>1. CASE OperatorStep
  BY <1>1 DEF OperatorStep, ProgressNext
<1>2. ASSUME NEW r \in Runs, DispatchCall(r)
      PROVE  [ProgressNext]_vars
  BY <1>2 DEF DispatchCall, ProgressNext
<1>3. ASSUME NEW r \in Runs, ReconcileStale(r)
      PROVE  ProgressNext
  BY <1>3 DEF ReconcileStale, ProgressNext
<1>4. CASE WorkerNext
  BY <1>1, <1>2, <1>3, <1>4, WorkerStepOfStore
     DEF WorkerNext, ClaimStep, EndDrain, ValidateCall, KillFormer, StopDaemon, DaemonStep,
         StartDaemon, AbortStartup, FinishStartup
<1> QED BY <1>4 DEF allVars

\* Such a step is one the store's specification allows.
LEMMA StepOfStoreIsNext ==
    ASSUME WorkerTypeOK, FailureIsDue, [WorkerNext]_allVars
    PROVE  [Next]_vars
<1>1. ClaimStep => Next
  BY DEF ClaimStep, StartWorker, StartLateWorker, Next, RunNext
<1>2. ProgressNext => Next
  BY DEF ProgressNext, Next, RunNext
<1> QED BY <1>1, <1>2, StepOfStore

\* Only a claim makes a run active, and no operation changes a run's issue.
LEMMA ProgressStep ==
    ASSUME TypeOK, [ProgressNext]_vars, NEW r \in Runs
    PROVE  /\ runStatus'[r] = "none" <=> runStatus[r] = "none"
           /\ IsActive(r)' => IsActive(r)
           /\ runIssue'[r] = runIssue[r]
<1> DEFINE Fact == /\ runStatus'[r] = "none" <=> runStatus[r] = "none"
                   /\ IsActive(r)' => IsActive(r)
                   /\ runIssue'[r] = runIssue[r]
<1>1. CASE UNCHANGED runVars
  BY <1>1 DEF runVars, IsActive
<1>2. ASSUME NEW q \in Runs, NEW status \in EndedRunStatus, NEW code, EndRun(q, status, code)
      PROVE  Fact
  BY <1>2 DEF EndRun, IsActive, TypeOK, ActiveRunStatus, EndedRunStatus
<1>3. ASSUME NEW i \in Issues, NEW target, NEW duplicateOf,
             TransitionIssue(i, target, duplicateOf)
      PROVE  Fact
  BY <1>1, <1>2, <1>3 DEF TransitionIssue, ActiveRunsOf, ActiveRuns, EndedRunStatus
<1>4. ASSUME NEW q \in Runs, NEW status \in ActiveRunStatus, UpdateRunStatus(q, status)
      PROVE  Fact
  BY <1>4 DEF UpdateRunStatus, IsActive, TypeOK, ActiveRunStatus
<1>5. ASSUME NEW q \in Runs, CompleteRunWithReview(q)
      PROVE  Fact
  BY <1>5 DEF CompleteRunWithReview, IsActive, TypeOK, ActiveRunStatus
<1>6. CASE OperatorNext
  BY <1>1, <1>2, <1>3, <1>6
     DEF OperatorNext, CreateIssue, UpdateIssue, AddBlocker, RemoveBlocker, RemoveDuplicate,
         DispatchPause, DispatchResume, MarkDone, SendToRework, ReviewAction, CancelRun,
         EndedRunStatus
<1> QED BY <1>1, <1>2, <1>4, <1>5, <1>6
        DEF ProgressNext, FailRun, ReconcileRun, BlockRunByAgent, CreateToolToken,
            InsertHandoff, InsertReviewPacket, EndedRunStatus, vars

-----------------------------------------------------------------------------
(* What a step of a worker is to the worker.                               *)

\* Worker r goes to a stage of its work with what it has to report, or leaves
\* when its run is not active any more, or is lost.
Moves(r, w) ==
    /\ worker' = [worker EXCEPT ![r] = w]
    /\ w.at \notin {"idle", "dead"}
    /\ w.at = "lost" => ~w.former
    /\ w.at = "fail" => w.due # "none"
    /\ w.at = "done" => ~IsActive(r)'
    /\ w.former => worker[r].former

\* A worker moves only its own entry, between the stages its action names.
LEMMA WorkerMoves ==
    ASSUME TypeOK, RunRows, WorkerTypeOK, FailureIsDue, NoWorkerBeforeClaim,
           NEW r \in Runs, WorkerStep(r)
    PROVE  /\ Lives(r)
           /\ \E w \in Workers : Moves(r, w)
           /\ UNCHANGED <<call, daemonVars>>
<1>1. worker[r] \in Workers /\ worker \in [Runs -> Workers]
  BY DEF WorkerTypeOK
<1>2. ASSUME NEW stage \in Stages \ {"idle", "dead", "lost", "fail", "done"}, Goto(r, stage)
      PROVE  \E w \in Workers : Moves(r, w)
  <2> DEFINE w == [worker[r] EXCEPT !.at = stage]
  <2>1. w \in Workers /\ w.at = stage /\ w.former = worker[r].former
    BY <1>1 DEF Workers
  <2>2. worker' = [worker EXCEPT ![r] = w]
    BY <1>1, <1>2 DEF Goto
  <2> QED BY <2>1, <2>2 DEF Moves
<1>3. ASSUME NEW code \in {"worker_failed", "missing_handoff"},
             NEW stage \in {"fail", "after_run", "check_after_run"}, GiveUp(r, code, stage)
      PROVE  \E w \in Workers : Moves(r, w)
  <2> DEFINE w == [worker[r] EXCEPT !.due = code, !.at = stage]
  <2>1. w \in Workers /\ w.at = stage /\ w.due = code /\ w.former = worker[r].former
    BY <1>1 DEF Workers, Stages
  <2>2. worker' = [worker EXCEPT ![r] = w]
    BY <1>1, <1>3 DEF GiveUp
  <2> QED BY <2>1, <2>2 DEF Moves
<1>4. ASSUME Return(r), ~IsActive(r)' PROVE \E w \in Workers : Moves(r, w)
  <2>1. NoWorker("done") \in Workers
    BY DEF NoWorker, Workers, Stages
  <2> QED BY <1>4, <2>1 DEF Return, Moves, NoWorker
<1>5. UNCHANGED vars => (IsActive(r)' <=> IsActive(r))
  BY DEF vars, runVars, IsActive
<1>6. /\ worker[r].at \notin {"idle", "lost", "dead", "done"}
      /\ UNCHANGED <<call, daemonVars>>
  BY DEF WorkerStep, Load, AdvanceRun, CheckActive, DecideAfterCreate, CheckDirectory,
         AddWorktree, RecordWorkspace, InsertWorkspace, StartAfterCreate, FinishAfterCreate,
         Render, RunBeforeRun, IssueToken, AgentReturns, RunAfterRun, Decide, Generate,
         Complete, ReportFailure, LoseRun, At, Advances, AfterCheck
<1>7. runIssue[r] \in Issues
  BY <1>6 DEF NoWorkerBeforeClaim, Lives, RunRows
<1>8. CASE Load(r)
  <2> DEFINE w == [worker[r] EXCEPT !.seen = workspace[runIssue[r]], !.at = "advance_preparing"]
  <2>1. /\ w \in Workers
        /\ w.at = "advance_preparing" /\ w.former = worker[r].former
    BY <1>1, <1>7 DEF Workers, Stages, WorkerTypeOK
  <2>2. worker' = [worker EXCEPT ![r] = w]
    BY <1>1, <1>8 DEF Load
  <2>3. Moves(r, w)
    BY <2>1, <2>2 DEF Moves
  <2> QED BY <2>1, <2>3, <1>6 DEF Lives
<1>9. CASE AdvanceRun(r)
  <2>1. \A a \in Advances : a[3] \in Stages \ {"idle", "dead", "lost", "fail", "done"}
    BY DEF Advances, Stages
  <2> QED BY <1>2, <1>4, <1>5, <1>6, <1>9, <2>1 DEF AdvanceRun, Lives
<1>10. CASE CheckActive(r)
  <2>1. \A stage \in DOMAIN AfterCheck :
            AfterCheck[stage] \in Stages \ {"idle", "dead", "lost", "fail", "done"}
    BY DEF AfterCheck, Stages
  <2> QED BY <1>2, <1>4, <1>5, <1>6, <1>10, <2>1 DEF CheckActive, Lives
<1>11. CASE DecideAfterCreate(r)
  <2> DEFINE wants == ~worker[r].seen \/ hookLog[runIssue[r]] # "completed"
             stage == IF worker[r].seen THEN "check_workspace" ELSE "check_directory"
             w == [worker[r] EXCEPT !.wantsCreate = wants, !.at = stage]
  <2>1. wants \in BOOLEAN /\ stage \in {"check_workspace", "check_directory"}
    OBVIOUS
  <2> HIDE DEF wants, stage
  <2>2. w \in Workers /\ w.at = stage /\ w.former = worker[r].former
    BY <1>1, <2>1 DEF Workers, Stages
  <2>3. worker' = [worker EXCEPT ![r] = w] \/ GiveUp(r, "worker_failed", "fail")
    BY <1>1, <1>11 DEF DecideAfterCreate, wants, stage
  <2>4. worker' = [worker EXCEPT ![r] = w] => Moves(r, w)
    BY <2>1, <2>2 DEF Moves
  <2> QED BY <1>3, <1>6, <2>1, <2>2, <2>3, <2>4 DEF Stages, Lives
<1>12. CASE CheckDirectory(r) \/ AddWorktree(r) \/ RecordWorkspace(r) \/ InsertWorkspace(r)
            \/ StartAfterCreate(r) \/ FinishAfterCreate(r) \/ Render(r) \/ RunBeforeRun(r)
            \/ IssueToken(r)
  BY <1>2, <1>3, <1>6, <1>12
     DEF CheckDirectory, AddWorktree, RecordWorkspace, InsertWorkspace, StartAfterCreate,
         FinishAfterCreate, Render, RunBeforeRun, IssueToken, Stages, Lives
<1>13. CASE AgentReturns(r)
  <2> DEFINE w == [worker[r] EXCEPT !.continued = TRUE, !.at = "check_continue"]
  <2>1. w \in Workers /\ w.at = "check_continue" /\ w.former = worker[r].former
    BY <1>1 DEF Workers, Stages
  <2>2. ASSUME worker' = [worker EXCEPT ![r].continued = TRUE, ![r].at = "check_continue"]
        PROVE  worker' = [worker EXCEPT ![r] = w]
    BY <1>1, <2>2
  <2>3. worker' = [worker EXCEPT ![r] = w] => Moves(r, w)
    BY <2>1 DEF Moves
  <2> QED BY <1>2, <1>3, <1>6, <1>13, <2>1, <2>2, <2>3 DEF AgentReturns, Stages, Lives
<1>14. CASE RunAfterRun(r)
  BY <1>2, <1>6, <1>14 DEF RunAfterRun, Stages, Lives
<1>15. CASE Decide(r)
  <2> DEFINE w == [worker[r] EXCEPT !.at = "fail"]
  <2>1. ASSUME worker[r].due # "none", Goto(r, "fail") PROVE Moves(r, w) /\ w \in Workers
    <3>1. w \in Workers /\ w.at = "fail" /\ w.due # "none" /\ w.former = worker[r].former
      BY <1>1, <2>1 DEF Workers, Stages
    <3>2. worker' = [worker EXCEPT ![r] = w]
      BY <1>1, <2>1 DEF Goto
    <3> QED BY <3>1, <3>2 DEF Moves
  <2> QED BY <1>2, <1>3, <1>6, <1>15, <2>1 DEF Decide, Stages, Lives
<1>16. CASE Generate(r)
  BY <1>2, <1>3, <1>6, <1>16 DEF Generate, Stages, Lives
<1>17. CASE Complete(r)
  <2>1. CompleteRunWithReview(r) => ~IsActive(r)'
    BY DEF CompleteRunWithReview, IsActive, TypeOK, ActiveRunStatus
  <2> QED BY <1>4, <1>5, <1>6, <1>17, <2>1 DEF Complete, Lives
<1>18. CASE ReportFailure(r)
  <2>1. \A code : FailRun(r, FailureStatus(code), code) => ~IsActive(r)'
    BY DEF FailRun, EndRun, FailureStatus, IsActive, TypeOK, ActiveRunStatus
  <2> QED BY <1>4, <1>5, <1>6, <1>18, <2>1 DEF ReportFailure, Lives
<1>19. CASE LoseRun(r)
  <2>1. NoWorker("lost") \in Workers
    BY DEF NoWorker, Workers, Stages
  <2>2. Moves(r, NoWorker("lost"))
    BY <1>19 DEF LoseRun, Moves, NoWorker
  <2> QED BY <1>6, <2>1, <2>2 DEF Lives
<1> QED BY <1>8, <1>9, <1>10, <1>11, <1>12, <1>13, <1>14, <1>15, <1>16, <1>17, <1>18, <1>19
        DEF WorkerStep

\* A step of a worker keeps the types of the workspace and of the observations.
LEMMA WorkerStepTypes ==
    ASSUME RunRows, WorkerTypeOK, NoWorkerBeforeClaim, NEW r \in Runs, WorkerStep(r), Lives(r)
    PROVE  /\ directory' \in [Issues -> BOOLEAN]
           /\ workspace' \in [Issues -> BOOLEAN]
           /\ hookLog' \in [Issues -> {"none", "completed", "other"}]
           /\ created' \in [Issues -> BOOLEAN]
<1>1. CASE UNCHANGED diskVars
  BY <1>1 DEF WorkerTypeOK, diskVars
<1>2. CASE AddWorktree(r) \/ InsertWorkspace(r) \/ StartAfterCreate(r) \/ FinishAfterCreate(r)
  BY <1>2 DEF WorkerTypeOK, AddWorktree, InsertWorkspace, StartAfterCreate, FinishAfterCreate
<1> QED BY <1>1, <1>2
        DEF WorkerStep, Load, AdvanceRun, CheckActive, DecideAfterCreate, CheckDirectory,
            RecordWorkspace, Render, RunBeforeRun, IssueToken, AgentReturns, RunAfterRun, Decide,
            Generate, Complete, ReportFailure, LoseRun

\* Every step of the system keeps the workers' invariant.
LEMMA WorkerPreservation == WorkerInv /\ [WorkerNext]_allVars => WorkerInv'
<1> SUFFICES ASSUME IndInv, WorkerTypeOK, FailureIsDue, NoWorkerBeforeClaim,
                    FormerRunsAreListed, ActiveRunIsOwned, [WorkerNext]_allVars
             PROVE  WorkerInv'
  BY DEF WorkerInv
<1> DEFINE Types == /\ worker' \in [Runs -> Workers]
                    /\ directory' \in [Issues -> BOOLEAN]
                    /\ workspace' \in [Issues -> BOOLEAN]
                    /\ hookLog' \in [Issues -> {"none", "completed", "other"}]
                    /\ call' \in [Runs -> {"none", "handoff.submit", "issue.block"}]
                    /\ daemon' \in {"down", "starting", "up"}
                    /\ stale' \subseteq Runs
                    /\ stops' \in 0..MaxStops
                    /\ draining' \subseteq Issues
                    /\ late' \subseteq Runs
                    /\ created' \in [Issues -> BOOLEAN]
           Rest == /\ FailureIsDue'
                   /\ NoWorkerBeforeClaim'
                   /\ FormerRunsAreListed'
                   /\ ActiveRunIsOwned'
<1>1. TypeOK /\ RunRows
  BY DEF IndInv
<1>2. IndInv'
  BY StepOfStoreIsNext, Preservation DEF allVars
<1>3. ASSUME Types, Rest PROVE WorkerInv'
  BY <1>2, <1>3 DEF WorkerInv, WorkerTypeOK, IndInv
<1>4. ASSUME [ProgressNext]_vars, NEW r \in Runs
      PROVE  /\ runStatus'[r] = "none" <=> runStatus[r] = "none"
             /\ r \in ActiveRuns' => r \in ActiveRuns
  BY <1>1, <1>4, ProgressStep DEF ActiveRuns
<1>5. ASSUME [ProgressNext]_vars,
             UNCHANGED <<worker, daemon, stale, late>>
      PROVE  Rest
  BY <1>4, <1>5 DEF FailureIsDue, NoWorkerBeforeClaim, FormerRunsAreListed, ActiveRunIsOwned,
                    At, Lives, ActiveRuns
<1>6. CASE UNCHANGED allVars
  BY <1>3, <1>5, <1>6 DEF WorkerTypeOK, allVars, diskVars, daemonVars
<1>7. CASE OperatorStep
  BY <1>3, <1>5, <1>7 DEF WorkerTypeOK, OperatorStep, ProgressNext, diskVars, daemonVars
<1>8. ASSUME NEW i \in Issues, EndDrain(i) PROVE WorkerInv'
  BY <1>3, <1>5, <1>8 DEF WorkerTypeOK, EndDrain, diskVars, daemonVars
<1>9. ASSUME NEW r \in Runs, NEW tool \in {"handoff.submit", "issue.block"}, ValidateCall(r, tool)
      PROVE  WorkerInv'
  BY <1>3, <1>5, <1>9 DEF WorkerTypeOK, ValidateCall, diskVars, daemonVars
<1>10. ASSUME NEW r \in Runs, DispatchCall(r) PROVE WorkerInv'
  <2>1. [ProgressNext]_vars
    BY <1>10 DEF DispatchCall, ProgressNext
  <2> QED BY <1>3, <1>5, <1>10, <2>1 DEF WorkerTypeOK, DispatchCall, diskVars, daemonVars
<1>11. ASSUME NEW i \in Issues, NEW r \in Runs, StartWorker(i, r) PROVE WorkerInv'
  <2>1. /\ runStatus[r] = "none" /\ ~Lives(r) /\ ~worker[r].former
        /\ runStatus' = [runStatus EXCEPT ![r] = "pending"]
        /\ worker' = [worker EXCEPT ![r].at = "load"]
        /\ UNCHANGED <<diskVars, call, daemonVars>>
        /\ daemon = "up"
    BY <1>11 DEF StartWorker, ClaimRun, Goto, NoWorkerBeforeClaim
  <2>2. Types
    <3>1. [worker[r] EXCEPT !.at = "load"] \in Workers
      BY DEF WorkerTypeOK, Workers, Stages
    <3>2. worker' \in [Runs -> Workers]
      BY <2>1, <3>1 DEF WorkerTypeOK
    <3> QED BY <2>1, <3>2 DEF WorkerTypeOK, diskVars, daemonVars
  <2>3. worker'[r].at = "load" /\ ~worker'[r].former
        /\ \A q \in Runs \ {r} : worker'[q] = worker[q]
    BY <2>1 DEF WorkerTypeOK, Workers
  <2>4. \A q \in Runs \ {r} : runStatus'[q] = runStatus[q]
    BY <1>1, <2>1 DEF TypeOK
  <2>5. runStatus'[r] = "pending"
    BY <1>1, <2>1 DEF TypeOK
  <2>6. FailureIsDue' /\ NoWorkerBeforeClaim'
    BY <2>3, <2>4, <2>5 DEF FailureIsDue, NoWorkerBeforeClaim, At, Lives
  <2>7. \A q \in ActiveRuns' : q # r => q \in ActiveRuns
    BY <2>4 DEF ActiveRuns, IsActive
  <2>8. FormerRunsAreListed' /\ ActiveRunIsOwned'
    BY <2>1, <2>3, <2>7
       DEF FormerRunsAreListed, ActiveRunIsOwned, At, Lives, ActiveRuns, daemonVars
  <2> QED BY <1>3, <2>2, <2>6, <2>8
<1>12. ASSUME NEW i \in Issues, NEW r \in Runs, StartLateWorker(i, r) PROVE WorkerInv'
  <2>1. /\ runStatus[r] = "none"
        /\ runStatus' = [runStatus EXCEPT ![r] = "pending"]
        /\ worker' = [worker EXCEPT ![r].at = "load", ![r].former = TRUE]
        /\ draining' \subseteq draining
        /\ late' = late \cup {r}
        /\ UNCHANGED <<diskVars, call, daemon, stale, stops>>
    BY <1>12 DEF StartLateWorker, ClaimRun
  <2>2. Types
    <3> DEFINE w == [worker[r] EXCEPT !.at = "load", !.former = TRUE]
    <3>1. worker[r] \in Workers
      BY DEF WorkerTypeOK
    <3>2. w \in Workers
      BY <3>1 DEF Workers, Stages
    <3>3. worker' = [worker EXCEPT ![r] = w]
      BY <2>1, <3>1 DEF WorkerTypeOK
    <3>4. worker' \in [Runs -> Workers]
      BY <3>2, <3>3 DEF WorkerTypeOK
    <3> QED BY <2>1, <3>4 DEF WorkerTypeOK, diskVars
  <2>3. worker'[r].at = "load" /\ \A q \in Runs \ {r} : worker'[q] = worker[q]
    BY <2>1 DEF WorkerTypeOK, Workers
  <2>4. \A q \in Runs \ {r} : runStatus'[q] = runStatus[q]
    BY <1>1, <2>1 DEF TypeOK
  <2>5. runStatus'[r] = "pending"
    BY <1>1, <2>1 DEF TypeOK
  <2>6. FailureIsDue' /\ NoWorkerBeforeClaim'
    BY <2>3, <2>4, <2>5 DEF FailureIsDue, NoWorkerBeforeClaim, At, Lives
  <2>7. \A q \in ActiveRuns' \ late' : q # r /\ q \in ActiveRuns \ late
    BY <2>1, <2>4 DEF ActiveRuns, IsActive
  <2>8. FormerRunsAreListed' /\ ActiveRunIsOwned'
    BY <2>1, <2>3, <2>7 DEF FormerRunsAreListed, ActiveRunIsOwned, At, Lives, ActiveRuns
  <2> QED BY <1>3, <2>2, <2>6, <2>8
<1>13. ASSUME NEW r \in Runs, WorkerStep(r) PROVE WorkerInv'
  <2>1. PICK w \in Workers : Moves(r, w)
    BY <1>1, <1>13, WorkerMoves
  <2>2. Lives(r) /\ UNCHANGED <<call, daemonVars>>
    BY <1>1, <1>13, WorkerMoves
  <2>3. Types
    BY <1>1, <1>13, <2>1, <2>2, WorkerStepTypes DEF Moves, WorkerTypeOK, daemonVars
  <2>4. [ProgressNext]_vars
    BY <1>13, WorkerStepOfStore
  <2>5. worker'[r] = w /\ \A q \in Runs \ {r} : worker'[q] = worker[q]
    BY <2>1 DEF Moves, WorkerTypeOK
  <2>6. Rest
    BY <1>4, <2>1, <2>2, <2>4, <2>5
       DEF Moves, FailureIsDue, NoWorkerBeforeClaim, FormerRunsAreListed, ActiveRunIsOwned,
           At, Lives, ActiveRuns, daemonVars
  <2> QED BY <1>3, <2>3, <2>6
<1>14. ASSUME NEW r \in Runs, KillFormer(r) PROVE WorkerInv'
  <2>1. NoWorker("dead") \in Workers
    BY DEF NoWorker, Workers, Stages
  <2>2. Types
    BY <1>14, <2>1 DEF KillFormer, WorkerTypeOK, diskVars, daemonVars
  <2>3. worker'[r] = NoWorker("dead") /\ \A q \in Runs \ {r} : worker'[q] = worker[q]
    BY <1>14 DEF KillFormer, WorkerTypeOK
  <2>4. Rest
    BY <1>14, <2>3
       DEF KillFormer, NoWorker, FailureIsDue, NoWorkerBeforeClaim, FormerRunsAreListed,
           ActiveRunIsOwned, At, Lives, ActiveRuns, IsActive, vars, runVars, daemonVars
  <2> QED BY <1>3, <2>2, <2>4
<1>15. ASSUME NEW lost \in SUBSET Runs, NEW list \in SUBSET Issues, StopDaemon(lost, list)
       PROVE  WorkerInv'
  <2>1. \A r \in Runs : \/ ~Lives(r) /\ worker'[r] = worker[r]
                        \/ Lives(r) /\ worker'[r] = NoWorker("dead")
                        \/ Lives(r) /\ worker'[r] = [worker[r] EXCEPT !.former = TRUE]
    BY <1>15 DEF StopDaemon
  <2>2. NoWorker("dead") \in Workers /\ \A w \in Workers : [w EXCEPT !.former = TRUE] \in Workers
    BY DEF NoWorker, Workers, Stages
  <2>3. worker' \in [Runs -> Workers]
    BY <1>15, <2>1, <2>2 DEF StopDaemon, WorkerTypeOK
  <2>4. Types
    BY <1>15, <2>3, MaxStopsAssumption DEF StopDaemon, WorkerTypeOK, diskVars
  <2>5. FailureIsDue'
    <3> SUFFICES ASSUME NEW r \in Runs, worker'[r].at = "fail"
                 PROVE  worker'[r].due # "none"
      BY DEF FailureIsDue, At
    <3>1. worker'[r] # NoWorker("dead")
      BY DEF NoWorker
    <3>2. worker[r] \in Workers
      BY DEF WorkerTypeOK
    <3>3. CASE worker'[r] = worker[r]
      BY <3>3 DEF FailureIsDue, At
    <3>4. CASE worker'[r] = [worker[r] EXCEPT !.former = TRUE]
      <4>1. worker'[r].at = worker[r].at /\ worker'[r].due = worker[r].due
        BY <3>2, <3>4 DEF Workers
      <4> QED BY <4>1 DEF FailureIsDue, At
    <3> QED BY <2>1, <3>1, <3>3, <3>4
  <2>6. NoWorkerBeforeClaim'
    BY <1>15, <2>1 DEF StopDaemon, NoWorkerBeforeClaim, Lives, vars, runVars
  <2>7. FormerRunsAreListed' /\ ActiveRunIsOwned'
    BY <1>15 DEF StopDaemon, FormerRunsAreListed, ActiveRunIsOwned
  <2> QED BY <1>3, <2>4, <2>5, <2>6, <2>7
<1>16. ASSUME StartDaemon PROVE WorkerInv'
  <2>1. Types
    BY <1>16 DEF StartDaemon, WorkerTypeOK, ActiveRuns, diskVars
  <2>2. Rest
    BY <1>16 DEF StartDaemon, FailureIsDue, NoWorkerBeforeClaim, FormerRunsAreListed,
                 ActiveRunIsOwned, At, Lives, ActiveRuns, IsActive, vars, runVars
  <2> QED BY <1>3, <2>1, <2>2
<1>17. ASSUME NEW r \in Runs, ReconcileStale(r) PROVE WorkerInv'
  <2>1. Types
    BY <1>17 DEF ReconcileStale, WorkerTypeOK, diskVars
  <2>2. [ProgressNext]_vars /\ r \notin ActiveRuns'
    BY <1>1, <1>17 DEF ReconcileStale, ReconcileRun, FailRun, EndRun, ProgressNext, ActiveRuns,
                       IsActive, ActiveRunStatus, TypeOK
  <2>3. /\ UNCHANGED <<worker, daemon, late>>
        /\ stale' = stale \ {r}
        /\ \A q \in Runs : runStatus'[q] = "none" <=> runStatus[q] = "none"
        /\ ActiveRuns' \subseteq ActiveRuns \ {r}
    BY <1>4, <1>17, <2>2 DEF ReconcileStale, ActiveRuns
  <2>4. FailureIsDue' /\ NoWorkerBeforeClaim'
    BY <2>3 DEF FailureIsDue, NoWorkerBeforeClaim, At, Lives
  <2>5. FormerRunsAreListed' /\ ActiveRunIsOwned'
    BY <2>3 DEF FormerRunsAreListed, ActiveRunIsOwned, At, Lives
  <2> QED BY <1>3, <2>1, <2>4, <2>5
<1>18. ASSUME AbortStartup PROVE WorkerInv'
  <2>1. Types
    BY <1>18 DEF AbortStartup, WorkerTypeOK, diskVars
  <2>2. Rest
    BY <1>18 DEF AbortStartup, FailureIsDue, NoWorkerBeforeClaim, FormerRunsAreListed,
                 ActiveRunIsOwned, At, Lives, vars, runVars
  <2> QED BY <1>3, <2>1, <2>2
<1>19. ASSUME FinishStartup PROVE WorkerInv'
  <2>1. Types
    BY <1>19 DEF FinishStartup, WorkerTypeOK, diskVars
  <2>2. Rest
    BY <1>19 DEF FinishStartup, FailureIsDue, NoWorkerBeforeClaim, FormerRunsAreListed,
                 ActiveRunIsOwned, At, Lives, ActiveRuns, IsActive, vars, runVars
  <2> QED BY <1>3, <2>1, <2>2
<1> QED BY <1>6, <1>7, <1>8, <1>9, <1>10, <1>11, <1>12, <1>13, <1>14, <1>15, <1>16, <1>17,
           <1>18, <1>19
        DEF WorkerNext, DaemonStep

\* A fresh database satisfies the workers' invariant.
LEMMA InitWorkerInv == WorkerInit => WorkerInv
<1> SUFFICES ASSUME WorkerInit PROVE WorkerInv
  OBVIOUS
<1>1. IndInv
  BY InitIndInv DEF WorkerInit
<1>2. NoWorker("idle") \in Workers
  BY DEF NoWorker, Workers, Stages
<1>3. WorkerTypeOK
  BY <1>1, <1>2, MaxStopsAssumption DEF WorkerInit, WorkerTypeOK, IndInv
<1>4. ActiveRuns = {}
  BY DEF WorkerInit, Init, ActiveRuns, IsActive, ActiveRunStatus
<1>5. FailureIsDue /\ NoWorkerBeforeClaim
  BY DEF WorkerInit, FailureIsDue, NoWorkerBeforeClaim, NoWorker, At, Lives
<1> QED BY <1>1, <1>3, <1>4, <1>5 DEF WorkerInv, FormerRunsAreListed, ActiveRunIsOwned

\* The workers' invariant holds for any number of runs, stops and ticks.
THEOREM WorkerInvariance == WorkerSpec => []WorkerInv
<1>1. WorkerInit => WorkerInv
  BY InitWorkerInv
<1>2. WorkerInv /\ [WorkerNext]_allVars => WorkerInv'
  BY WorkerPreservation
<1> QED BY <1>1, <1>2, PTL DEF WorkerSpec

\* The workers, tool calls and daemon keep their types.
THEOREM WorkerTypeCorrect == WorkerSpec => []WorkerTypeOK
<1>1. WorkerInv => WorkerTypeOK
  BY DEF WorkerInv
<1> QED BY <1>1, WorkerInvariance, PTL

\* Workers, tool calls, stops and startups drive the store only through its
\* operations, so that everything proved of the store holds of the system.
THEOREM WorkersImplementStore == WorkerSpec => Spec
<1>1. WorkerInit => Init
  BY DEF WorkerInit
<1>2. WorkerInv /\ [WorkerNext]_allVars => [Next]_vars
  BY StepOfStoreIsNext DEF WorkerInv, allVars
<1> QED BY <1>1, <1>2, WorkerInvariance, PTL DEF WorkerSpec, Spec

\* No active run is orphaned: it has a worker, or the daemon is down, or the
\* startup has it on its list.
THEOREM NoOrphanedRun == WorkerSpec => []ActiveRunIsOwned
<1>1. WorkerInv => ActiveRunIsOwned
  BY DEF WorkerInv
<1> QED BY <1>1, WorkerInvariance, PTL

-----------------------------------------------------------------------------
(* Hooks.  What a worker read of its workspace long ago still holds when it *)
(* starts the agent, because a completed after_create hook stays completed. *)

\* Stages that a worker reaches only in a workspace made by after_create.
CreatedStages == {"advance_rendering", "render", "check_before_run", "before_run",
                  "advance_starting", "token", "advance_running", "check_agent", "agent",
                  "check_continue", "check_generate", "generate"}

\* Stages between the decision about after_create and the hook.
DecidedStages == {"check_directory", "add_worktree", "record_workspace", "insert_workspace",
                  "check_workspace", "want_after_create"}

\* Stages in which a worker that has nothing to report came from its agent.
AfterAgentStages == {"check_after_run", "after_run", "check_outcome", "outcome"}

\* Worker w stands where its issue's after_create hook must have completed.
NeedsCreated(w) ==
    \/ w.at \in CreatedStages
    \/ w.at \in DecidedStages /\ ~w.wantsCreate
    \/ w.at \in AfterAgentStages /\ w.due = "none"

CreateInv ==
    /\ \A i \in Issues : hookLog[i] = "completed" => created[i]
    /\ \A r \in Runs : NeedsCreated(worker[r]) => created[runIssue[r]]

HookInv == WorkerInv /\ CreateInv

\* While a run has a worker its issue does not change, and it is not revived.
LEMMA LivingRunStep ==
    ASSUME WorkerInv, [WorkerNext]_allVars, NEW r \in Runs, Lives(r)
    PROVE  /\ runIssue[r] \in Issues
           /\ runIssue'[r] = runIssue[r]
           /\ IsActive(r)' => IsActive(r)
<1>1. TypeOK /\ RunRows /\ NoWorkerBeforeClaim
  BY DEF WorkerInv, IndInv
<1>2. runStatus[r] # "none" /\ runIssue[r] \in Issues
  BY <1>1 DEF NoWorkerBeforeClaim, RunRows
<1>3. CASE [ProgressNext]_vars
  BY <1>1, <1>2, <1>3, ProgressStep
<1>4. CASE ClaimStep
  <2>1. PICK i \in Issues, q \in Runs : ClaimRun(i, q)
    BY <1>4 DEF ClaimStep, StartWorker, StartLateWorker
  <2>2. q # r
    BY <1>2, <2>1 DEF ClaimRun
  <2> QED BY <1>1, <1>2, <2>1, <2>2 DEF ClaimRun, TypeOK, IsActive
<1> QED BY <1>3, <1>4, StepOfStore DEF WorkerInv

\* Steps that are not a worker's leave hooks alone, and take no
\* worker further than it was.
LEMMA OtherStep ==
    ASSUME WorkerInv, [WorkerNext]_allVars, \A r \in Runs : ~WorkerStep(r)
    PROVE  /\ UNCHANGED <<hookLog, created>>
           /\ \A r \in Runs :
                 \/ /\ worker'[r].at = worker[r].at
                    /\ worker'[r].due = worker[r].due
                    /\ worker'[r].wantsCreate = worker[r].wantsCreate
                 \/ worker'[r].at \in {"load", "dead"}
<1> DEFINE Same(r) == \/ /\ worker'[r].at = worker[r].at
                         /\ worker'[r].due = worker[r].due
                         /\ worker'[r].wantsCreate = worker[r].wantsCreate
                      \/ worker'[r].at \in {"load", "dead"}
           Fact == /\ UNCHANGED <<hookLog, created>>
                   /\ \A r \in Runs : Same(r)
<1>1. worker \in [Runs -> Workers]
  BY DEF WorkerInv, WorkerTypeOK
<1>3. ASSUME UNCHANGED <<worker, diskVars>> PROVE Fact
  BY <1>3 DEF diskVars
<1>4. CASE UNCHANGED allVars \/ OperatorStep
  BY <1>3, <1>4 DEF OperatorStep, allVars
<1>5. ASSUME NEW i \in Issues, NEW r \in Runs, StartWorker(i, r) \/ StartLateWorker(i, r)
      PROVE  Fact
  <2>1. UNCHANGED <<hookLog, created>>
    BY <1>5 DEF StartWorker, StartLateWorker, ClaimRun, diskVars, workVars
  <2>2. \/ worker' = [worker EXCEPT ![r].at = "load"]
        \/ worker' = [worker EXCEPT ![r].at = "load", ![r].former = TRUE]
    BY <1>5 DEF StartWorker, StartLateWorker, Goto
  <2>3. \A q \in Runs : Same(q)
    BY <1>1, <2>2 DEF Workers
  <2> QED BY <2>1, <2>3
<1>6. ASSUME NEW r \in Runs, DispatchCall(r) PROVE Fact
  BY <1>3, <1>6 DEF DispatchCall, InsertHandoff, BlockRunByAgent, vars, workVars
<1>7. ASSUME NEW r \in Runs, KillFormer(r) PROVE Fact
  BY <1>1, <1>7 DEF KillFormer, NoWorker, diskVars, vars, workVars
<1>8. ASSUME NEW lost \in SUBSET Runs, NEW list \in SUBSET Issues, StopDaemon(lost, list)
      PROVE  Fact
  <2>1. UNCHANGED <<hookLog, created>>
    BY <1>8 DEF StopDaemon, diskVars, vars, workVars
  <2>2. ASSUME NEW r \in Runs PROVE Same(r)
    <3>1. \/ worker'[r] = worker[r]
          \/ worker'[r] = NoWorker("dead")
          \/ worker'[r] = [worker[r] EXCEPT !.former = TRUE]
      BY <1>8 DEF StopDaemon
    <3> QED BY <1>1, <3>1 DEF NoWorker, Workers
  <2> QED BY <2>1, <2>2
<1>9. ASSUME NEW r \in Runs, ReconcileStale(r) PROVE Fact
  BY <1>3, <1>9 DEF ReconcileStale, ReconcileRun, FailRun, workVars
<1>10. CASE \/ \E i \in Issues : EndDrain(i)
            \/ \E r \in Runs, tool \in {"handoff.submit", "issue.block"} : ValidateCall(r, tool)
            \/ StartDaemon \/ AbortStartup \/ FinishStartup
  BY <1>3, <1>10 DEF EndDrain, ValidateCall, StartDaemon, AbortStartup, FinishStartup, vars,
                     workVars
<1> QED BY <1>4, <1>5, <1>6, <1>7, <1>8, <1>9, <1>10 DEF WorkerNext, DaemonStep

\* A step of a worker keeps what was true of hooks, and the worker goes where it
\* may be.
LEMMA WorkerStepHooks ==
    ASSUME WorkerInv, CreateInv, NEW r \in Runs, WorkerStep(r)
    PROVE  /\ \A i \in Issues : created[i] \/ hookLog'[i] = "completed" => created'[i]
           /\ \A q \in Runs \ {r} : worker'[q] = worker[q]
           /\ NeedsCreated(worker'[r]) => created'[runIssue[r]]
<1> DEFINE Log == \A i \in Issues : created[i] \/ hookLog'[i] = "completed" => created'[i]
           Create == NeedsCreated(worker'[r]) => created'[runIssue[r]]
           Fact == /\ Log
                   /\ \A q \in Runs \ {r} : worker'[q] = worker[q]
                   /\ Create
<1>1. /\ worker[r] \in Workers /\ worker \in [Runs -> Workers]
      /\ WorkerTypeOK /\ TypeOK /\ RunRows /\ FailureIsDue /\ NoWorkerBeforeClaim
  BY DEF WorkerInv, WorkerTypeOK, IndInv
<1>2. /\ \A stage : Goto(r, stage) =>
              /\ worker'[r].at = stage
              /\ worker'[r].due = worker[r].due
              /\ worker'[r].wantsCreate = worker[r].wantsCreate
      /\ \A code, stage : GiveUp(r, code, stage) =>
              worker'[r].at = stage /\ worker'[r].due = code
      /\ Return(r) => worker'[r].at = "done"
  BY <1>1 DEF Goto, GiveUp, Return, NoWorker, Workers
<1>3. \A q \in Runs \ {r} : worker'[q] = worker[q]
  BY <1>1, WorkerMoves DEF Moves
<1>4. Lives(r) /\ runIssue[r] \in Issues
  BY <1>1, WorkerMoves DEF NoWorkerBeforeClaim, RunRows
<1> USE DEF NeedsCreated, CreatedStages, DecidedStages, AfterAgentStages, At
<1>5. ASSUME UNCHANGED <<hookLog, created>>, Create PROVE Fact
  BY <1>3, <1>5 DEF CreateInv
<1>6. CASE Load(r)
  <2>1. worker'[r].at = "advance_preparing"
    BY <1>1, <1>6 DEF Load
  <2> QED BY <1>5, <1>6, <2>1 DEF Load, diskVars
<1>7. CASE AdvanceRun(r)
  <2>1. PICK a \in Advances :
            /\ worker[r].at = a[1]
            /\ Goto(r, a[3]) \/ Return(r)
            /\ UNCHANGED diskVars
    BY <1>7 DEF AdvanceRun
  <2>2. worker'[r].at \in {"done", a[3]}
    BY <1>2, <2>1
  <2>3. Create
    BY <1>2, <1>4, <2>1, <2>2 DEF Advances, CreateInv, diskVars
  <2> QED BY <1>5, <2>1, <2>3 DEF diskVars
<1>8. CASE CheckActive(r)
  <2>1. \/ worker'[r].at = "done"
        \/ /\ worker'[r].at = AfterCheck[worker[r].at]
           /\ worker'[r].due = worker[r].due
           /\ worker'[r].wantsCreate = worker[r].wantsCreate
    BY <1>2, <1>8 DEF CheckActive
  <2>2. worker[r].at \in DOMAIN AfterCheck /\ UNCHANGED <<hookLog, created>>
    BY <1>8 DEF CheckActive, diskVars
  <2>3. Create
    BY <2>1, <2>2 DEF AfterCheck, CreateInv
  <2> QED BY <1>5, <2>2, <2>3
<1>9. CASE DecideAfterCreate(r)
  <2>1. \/ worker'[r].at = "fail"
        \/ /\ worker'[r].wantsCreate = (~worker[r].seen \/ hookLog[runIssue[r]] # "completed")
           /\ worker'[r].at \in {"check_workspace", "check_directory"}
    BY <1>1, <1>2, <1>9 DEF DecideAfterCreate, Workers
  <2>2. UNCHANGED <<hookLog, created>>
    BY <1>9 DEF DecideAfterCreate, diskVars
  <2>3. Create
    BY <1>4, <2>1, <2>2 DEF CreateInv
  <2> QED BY <1>5, <2>2, <2>3
<1>10. CASE AddWorktree(r) \/ InsertWorkspace(r) \/ CheckDirectory(r) \/ RecordWorkspace(r)
  BY <1>2, <1>5, <1>10
     DEF AddWorktree, InsertWorkspace, CheckDirectory, RecordWorkspace, CreateInv, diskVars
<1>11. CASE LoseRun(r)
  <2>1. worker'[r].at = "lost"
    BY <1>1, <1>11 DEF LoseRun, NoWorker
  <2> QED BY <1>5, <1>11, <2>1 DEF LoseRun, diskVars
<1>12. CASE StartAfterCreate(r)
  <2>1. UNCHANGED created
    BY <1>12 DEF StartAfterCreate
  <2>2. Log
    BY <1>1, <1>12, <2>1 DEF StartAfterCreate, CreateInv, WorkerTypeOK
  <2>3. Create
    BY <1>2, <1>12, <2>1 DEF StartAfterCreate, CreateInv
  <2> QED BY <1>3, <2>2, <2>3
<1>13. CASE FinishAfterCreate(r)
  <2>1. Log
    BY <1>1, <1>13 DEF FinishAfterCreate, CreateInv, WorkerTypeOK
  <2>2. Create
    BY <1>1, <1>2, <1>4, <1>13 DEF FinishAfterCreate, WorkerTypeOK
  <2> QED BY <1>3, <2>1, <2>2
<1>14. CASE Render(r) \/ RunBeforeRun(r) \/ IssueToken(r) \/ RunAfterRun(r) \/ Generate(r)
  BY <1>2, <1>5, <1>14
     DEF Render, RunBeforeRun, IssueToken, RunAfterRun, Generate, CreateInv, diskVars
<1>15. CASE AgentReturns(r)
  <2>1. ASSUME worker' = [worker EXCEPT ![r].continued = TRUE, ![r].at = "check_continue"]
        PROVE  worker'[r].at = "check_continue"
    BY <1>1, <2>1 DEF Workers
  <2>2. worker'[r].at \in {"check_continue", "fail", "check_after_run"}
    BY <1>2, <1>15, <2>1 DEF AgentReturns
  <2>3. UNCHANGED <<hookLog, created>> /\ created[runIssue[r]]
    BY <1>15 DEF AgentReturns, CreateInv, diskVars
  <2> QED BY <1>5, <2>2, <2>3
<1>16. CASE Decide(r)
  <2>1. UNCHANGED <<hookLog, created>>
    BY <1>16 DEF Decide, diskVars
  <2>2. Create
    BY <1>2, <1>16, <2>1 DEF Decide, CreateInv
  <2> QED BY <1>5, <2>1, <2>2
<1>17. CASE Complete(r) \/ ReportFailure(r)
  BY <1>2, <1>5, <1>17 DEF Complete, ReportFailure, diskVars
<1> QED BY <1>6, <1>7, <1>8, <1>9, <1>10, <1>11, <1>12, <1>13, <1>14, <1>15, <1>16, <1>17
        DEF WorkerStep

\* Every step keeps the facts about hooks.
LEMMA HookPreservation == HookInv /\ [WorkerNext]_allVars => HookInv'
<1> SUFFICES ASSUME WorkerInv, CreateInv, [WorkerNext]_allVars PROVE CreateInv'
  BY WorkerPreservation DEF HookInv
<1>1. CASE \A r \in Runs : ~WorkerStep(r)
  <2>1. UNCHANGED <<hookLog, created>>
    BY <1>1, OtherStep
  <2>2. ASSUME NEW r \in Runs, worker'[r].at \notin {"load", "dead"}
        PROVE  /\ worker'[r].at = worker[r].at
               /\ worker'[r].due = worker[r].due
               /\ worker'[r].wantsCreate = worker[r].wantsCreate
    BY <1>1, <2>2, OtherStep
  <2> SUFFICES ASSUME NEW r \in Runs, NeedsCreated(worker'[r])
               PROVE  created'[runIssue'[r]]
    BY <2>1 DEF CreateInv, NeedsCreated
  <2>3. worker'[r].at \notin {"load", "dead"}
    BY DEF NeedsCreated, CreatedStages, DecidedStages, AfterAgentStages
  <2>4. NeedsCreated(worker[r])
    BY <2>2, <2>3 DEF NeedsCreated
  <2>5. Lives(r)
    BY <2>4 DEF Lives, NeedsCreated, CreatedStages, DecidedStages, AfterAgentStages
  <2> QED BY <2>1, <2>4, <2>5, LivingRunStep DEF CreateInv
<1>2. ASSUME NEW r \in Runs, WorkerStep(r) PROVE CreateInv'
  <2> SUFFICES ASSUME NEW q \in Runs, NeedsCreated(worker'[q])
               PROVE  created'[runIssue'[q]]
    BY <1>2, WorkerStepHooks DEF CreateInv, NeedsCreated
  <2>1. Lives(r)
    BY <1>2, WorkerMoves DEF WorkerInv, IndInv
  <2>2. CASE q = r
    BY <1>2, <2>1, <2>2, WorkerStepHooks, LivingRunStep
  <2>3. CASE q # r
    <3>1. NeedsCreated(worker[q])
      BY <1>2, <2>3, WorkerStepHooks
    <3>2. Lives(q)
      BY <3>1 DEF Lives, NeedsCreated, CreatedStages, DecidedStages, AfterAgentStages
    <3> QED BY <1>2, <3>1, <3>2, WorkerStepHooks, LivingRunStep DEF CreateInv
  <2> QED BY <2>2, <2>3
<1> QED BY <1>1, <1>2

\* The facts about hooks hold for any number of runs and overlapping attempts:
\* a completed after_create is on record, and each worker's stage agrees with it.
THEOREM HookInvariance == WorkerSpec => []HookInv
<1>1. WorkerInit => HookInv
  <2> SUFFICES ASSUME WorkerInit PROVE CreateInv
    BY InitWorkerInv DEF HookInv
  <2> QED BY DEF WorkerInit, NoWorker, CreateInv, NeedsCreated, CreatedStages, DecidedStages,
                 AfterAgentStages
<1>2. HookInv /\ [WorkerNext]_allVars => HookInv'
  BY HookPreservation
<1> QED BY <1>1, <1>2, PTL DEF WorkerSpec

\* An agent, the hook before it and the packet after it see only workspaces in
\* which after_create completed, however attempts of the issue overlap.
THEOREM AgentNeedsCreatedWorkspace == WorkerSpec => []AgentAfterCreate
<1>1. HookInv => AgentAfterCreate
  BY DEF HookInv, CreateInv, AgentAfterCreate, NeedsCreated, CreatedStages
<1> QED BY <1>1, HookInvariance, PTL

=============================================================================
