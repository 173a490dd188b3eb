----------------------------- MODULE RunWorker -----------------------------
(***************************************************************************)
(* The run workers of the daemon (internal/orchestrator/orchestrator.go)   *)
(* over the store of IssueTracker, with the tool calls of their agents     *)
(* (internal/toolgateway) and the daemon's stop and startup                *)
(* (internal/app/app.go Serve).                                            *)
(*                                                                         *)
(* A worker is a goroutine that looks at its run, then acts: the operator, *)
(* a tool call or a restarted daemon may end the run between any two of    *)
(* its steps.  The stage of a worker names what it does next.  A check     *)
(* that precedes a guarded transaction is part of that transaction's step; *)
(* a check that precedes an unguarded act is a step of its own.            *)
(***************************************************************************)
EXTENDS IssueTracker

CONSTANT MaxStops       \* bound: how often the daemon stops

\* "worker_failed" stands for the codes of the failures a worker reports, and
\* "missing_handoff" for the one that ends a run completed_without_handoff.
ASSUME DueCodesAssumption == {"worker_failed", "missing_handoff"} \subseteq WorkerCodes
ASSUME MaxStopsAssumption == MaxStops \in Nat

Stages == {"idle", "load", "advance_preparing", "check_prepare", "decide", "check_directory",
           "add_worktree", "record_workspace", "insert_workspace", "check_workspace",
           "want_after_create", "after_create", "advance_rendering", "render",
           "check_before_run", "before_run",
           "advance_starting", "token", "advance_running", "check_agent", "agent",
           "check_continue", "check_after_run", "after_run", "check_outcome", "outcome",
           "check_generate", "generate", "complete", "fail", "done", "lost", "dead"}

VARIABLES
    worker,         \* the run's worker: where it is, and its local variables
    directory,      \* the issue's worktree directory exists
    workspace,      \* the issue's workspaces row is "prepared"
    hookLog,        \* the issue's latest after_create event
    call,           \* a tool call of the run that was validated and not yet done
    daemon,         \* the serving daemon
    stale,          \* active runs its startup has listed and not yet failed
    stops,          \* how often the daemon stopped
    draining,       \* issues on the lists of ticks that outlived their daemon
    created,        \* observation: an after_create hook of the issue completed
    late            \* observation: runs claimed by such a tick

diskVars == <<directory, workspace, hookLog, created>>
daemonVars == <<daemon, stale, stops, draining, late>>
allVars == <<vars, worker, diskVars, call, daemonVars>>

\* at: what the worker does next.  seen: issue.Workspace as it was loaded.
\* wantsCreate: the answer of shouldRunAfterCreate.  continued: the handoff
\* continuation is used up.  due: the failure to report when it is through.
\* former: the worker belongs to a daemon that no longer serves.
Workers == [at : Stages, seen : BOOLEAN, wantsCreate : BOOLEAN, continued : BOOLEAN,
            due : {"none", "worker_failed", "missing_handoff"}, former : BOOLEAN]

\* A worker that does not run has no locals.
NoWorker(at) == [at |-> at, seen |-> FALSE, wantsCreate |-> FALSE, continued |-> FALSE,
                 due |-> "none", former |-> FALSE]

WorkerTypeOK ==
    /\ TypeOK
    /\ worker \in [Runs -> Workers]
    /\ directory \in [Issues -> BOOLEAN]
    /\ workspace \in [Issues -> BOOLEAN]
    /\ hookLog \in [Issues -> {"none", "completed", "other"}]
    /\ call \in [Runs -> {"none", "handoff.submit", "issue.block"}]
    /\ daemon \in {"down", "starting", "up"}
    /\ stale \subseteq Runs
    /\ stops \in 0..MaxStops
    /\ draining \subseteq Issues
    /\ late \subseteq Runs
    /\ created \in [Issues -> BOOLEAN]

WorkerInit ==
    /\ Init
    /\ worker = [r \in Runs |-> NoWorker("idle")]
    /\ directory = [i \in Issues |-> FALSE]
    /\ workspace = [i \in Issues |-> FALSE]
    /\ hookLog = [i \in Issues |-> "none"]
    /\ call = [r \in Runs |-> "none"]
    /\ daemon = "down"
    /\ stale = {}
    /\ stops = 0
    /\ draining = {}
    /\ late = {}
    /\ created = [i \in Issues |-> FALSE]

At(r, stage) == worker[r].at = stage

\* The worker goroutine of run r exists.
Lives(r) == worker[r].at \notin {"idle", "done", "lost", "dead"}

Goto(r, stage) == worker' = [worker EXCEPT ![r].at = stage]

Return(r) == worker' = [worker EXCEPT ![r] = NoWorker("done")]

\* The worker gives up its work with a failure to report.
GiveUp(r, code, stage) == worker' = [worker EXCEPT ![r].due = code, ![r].at = stage]

-----------------------------------------------------------------------------
(* The stages of runWorker.                                                *)

\* DispatchIssue, from a scheduler tick or an HTTP request: claim, then work.
StartWorker(i, r) ==
    /\ daemon = "up"
    /\ ClaimRun(i, r)
    /\ Goto(r, "load")
    /\ UNCHANGED <<diskVars, call, daemonVars>>

\* A tick in flight when its daemon stops goes on through its list; it looked at
\* the owner nonce only before it began.  Its process may end at any time.
StartLateWorker(i, r) ==
    /\ i \in draining
    /\ ClaimRun(i, r)
    /\ worker' = [worker EXCEPT ![r].at = "load", ![r].former = TRUE]
    /\ draining' = draining \ {i}
    /\ late' = late \cup {r}
    /\ UNCHANGED <<diskVars, call, daemon, stale, stops>>

EndDrain(i) ==
    /\ i \in draining
    /\ draining' = draining \ {i}
    /\ UNCHANGED <<vars, worker, diskVars, call, daemon, stale, stops, late>>

Load(r) ==
    /\ At(r, "load")
    /\ worker' = [worker EXCEPT ![r].seen = workspace[runIssue[r]], ![r].at = "advance_preparing"]
    /\ UNCHANGED <<vars, diskVars, call, daemonVars>>

\* advanceRun: where it is called, the status it sets, and what follows.
Advances == {<<"advance_preparing", "preparing_workspace", "check_prepare">>,
             <<"advance_rendering", "rendering_prompt", "render">>,
             <<"advance_starting", "starting_agent", "token">>,
             <<"advance_running", "running", "check_agent">>}

AdvanceRun(r) ==
    \E a \in Advances :
        /\ At(r, a[1])
        /\ \/ UpdateRunStatus(r, a[2]) /\ Goto(r, a[3])
           \/ ~IsActive(r) /\ Return(r) /\ UNCHANGED vars
        /\ UNCHANGED <<diskVars, call, daemonVars>>

\* runIsActive before an act that does not look at the run itself, and the
\* stage that follows when the run is still active.
AfterCheck == [check_prepare |-> "decide", check_workspace |-> "want_after_create",
               check_before_run |-> "before_run", check_agent |-> "agent",
               check_continue |-> "agent", check_after_run |-> "after_run",
               check_outcome |-> "outcome", check_generate |-> "generate"]

CheckActive(r) ==
    /\ worker[r].at \in DOMAIN AfterCheck
    /\ IF IsActive(r) THEN Goto(r, AfterCheck[worker[r].at]) ELSE Return(r)
    /\ UNCHANGED <<vars, diskVars, call, daemonVars>>

\* Mutant: a prepared workspace is taken for one that after_create completed in.
DecideByWorkspace(r) ==
    /\ At(r, "decide")
    /\ worker' = [worker EXCEPT
           ![r].wantsCreate = ~worker[r].seen,
           ![r].at = IF worker[r].seen THEN "check_workspace" ELSE "check_directory"]
    /\ UNCHANGED <<vars, diskVars, call, daemonVars>>

\* shouldRunAfterCreate: on a workspace that was not prepared when the worker
\* loaded the issue, or whose latest after_create event is not a completion.  Only a
\* prepared workspace has it read the events, which can fail.
DecideAfterCreate(r) ==
    /\ At(r, "decide")
    /\ \/ worker' = [worker EXCEPT
              ![r].wantsCreate = ~worker[r].seen \/ hookLog[runIssue[r]] # "completed",
              ![r].at = IF worker[r].seen THEN "check_workspace" ELSE "check_directory"]
       \/ worker[r].seen /\ GiveUp(r, "worker_failed", "fail")
    /\ UNCHANGED <<vars, diskVars, call, daemonVars>>

\* workspace.Manager.Prepare on a new workspace: the worktree first, which must
\* not exist, and then the workspaces row.  Each can fail.
CheckDirectory(r) ==
    /\ At(r, "check_directory")
    /\ \/ ~directory[runIssue[r]] /\ Goto(r, "add_worktree")
       \/ GiveUp(r, "worker_failed", "fail")
    /\ UNCHANGED <<vars, diskVars, call, daemonVars>>

\* git refuses a directory that another worker has made since; without a repository
\* the files are copied into it.
AddWorktree(r) ==
    /\ At(r, "add_worktree")
    /\ \/ /\ directory' = [directory EXCEPT ![runIssue[r]] = TRUE]
          /\ Goto(r, "record_workspace")
       \/ GiveUp(r, "worker_failed", "fail") /\ UNCHANGED directory
    /\ UNCHANGED <<vars, workspace, hookLog, created, call, daemonVars>>

\* CreateOrUpdateWorkspace: a row that another worker inserted is updated, and still
\* says prepared.
RecordWorkspace(r) ==
    /\ At(r, "record_workspace")
    /\ \/ Goto(r, IF workspace[runIssue[r]] THEN "check_workspace" ELSE "insert_workspace")
       \/ GiveUp(r, "worker_failed", "fail")
    /\ UNCHANGED <<vars, diskVars, call, daemonVars>>

\* issue_id is unique: of two workers that found no row the second fails.
InsertWorkspace(r) ==
    /\ At(r, "insert_workspace")
    /\ \/ /\ ~workspace[runIssue[r]]
          /\ workspace' = [workspace EXCEPT ![runIssue[r]] = TRUE]
          /\ Goto(r, "check_workspace")
       \/ GiveUp(r, "worker_failed", "fail") /\ UNCHANGED workspace
    /\ UNCHANGED <<vars, directory, hookLog, created, call, daemonVars>>

\* The after_create hook, when it is wanted.  It logs that it started before it
\* runs; one that is not configured logs its completion at once.  It does not start
\* when the run has ended, or the run cannot be read or the start not logged.
StartAfterCreate(r) ==
    /\ At(r, "want_after_create")
    /\ \/ /\ ~worker[r].wantsCreate
          /\ Goto(r, "advance_rendering")
          /\ UNCHANGED hookLog
       \/ /\ worker[r].wantsCreate
          /\ Goto(r, "after_create")
          /\ hookLog' = [hookLog EXCEPT ![runIssue[r]] = "other"]
       \/ /\ worker[r].wantsCreate
          /\ GiveUp(r, "worker_failed", "after_run")
          /\ UNCHANGED hookLog
    /\ UNCHANGED <<vars, directory, workspace, created, call, daemonVars>>

\* It completes, fails, times out, or is killed because the run ended.
FinishAfterCreate(r) ==
    /\ At(r, "after_create")
    /\ \/ /\ hookLog' = [hookLog EXCEPT ![runIssue[r]] = "completed"]
          /\ created' = [created EXCEPT ![runIssue[r]] = TRUE]
          /\ Goto(r, "advance_rendering")
       \/ /\ hookLog' = [hookLog EXCEPT ![runIssue[r]] = "other"]
          /\ GiveUp(r, "worker_failed", "after_run")
          /\ UNCHANGED created
    /\ UNCHANGED <<vars, directory, workspace, call, daemonVars>>

\* Workflow and prompt snapshots and RenderPrompt, any of which can fail.
Render(r) ==
    /\ At(r, "render")
    /\ Goto(r, "check_before_run") \/ GiveUp(r, "worker_failed", "fail")
    /\ UNCHANGED <<vars, diskVars, call, daemonVars>>

\* A hook that fails or is cancelled leads to failRunAfterHook.
RunBeforeRun(r) ==
    /\ At(r, "before_run")
    /\ Goto(r, "advance_starting") \/ GiveUp(r, "worker_failed", "after_run")
    /\ UNCHANGED <<vars, diskVars, call, daemonVars>>

IssueToken(r) ==
    /\ At(r, "token")
    /\ \/ CreateToolToken(r) /\ Goto(r, "advance_running")
       \/ GiveUp(r, "worker_failed", "fail") /\ UNCHANGED vars
    /\ UNCHANGED <<diskVars, call, daemonVars>>

\* What Runner.Run returns: an error, a failure, a missing handoff (with or
\* without a continuation left), or success.
AgentReturns(r) ==
    /\ At(r, "agent")
    /\ \/ GiveUp(r, "worker_failed", "fail")
       \/ GiveUp(r, "worker_failed", "check_after_run")
       \/ GiveUp(r, "missing_handoff", "check_after_run")
       \/ /\ ~worker[r].continued
          /\ worker' = [worker EXCEPT ![r].continued = TRUE, ![r].at = "check_continue"]
       \/ Goto(r, "check_after_run")
    /\ UNCHANGED <<vars, diskVars, call, daemonVars>>

\* runAfterHook with a fresh run context.  Its error is ignored: the hook may fail, and
\* it is skipped when the run is not active or that cannot be read.
RunAfterRun(r) ==
    /\ At(r, "after_run")
    /\ Goto(r, "check_outcome")
    /\ UNCHANGED <<vars, diskVars, call, daemonVars>>

\* The failure that is due is reported; without one the handoff must be there.
Decide(r) ==
    /\ At(r, "outcome")
    /\ \/ worker[r].due # "none" /\ Goto(r, "fail")
       \/ worker[r].due = "none" /\ handoff[r] = None /\ GiveUp(r, "missing_handoff", "fail")
       \/ worker[r].due = "none" /\ handoff[r] # None /\ Goto(r, "check_generate")
    /\ UNCHANGED <<vars, diskVars, call, daemonVars>>

Generate(r) ==
    /\ At(r, "generate")
    /\ \/ InsertReviewPacket(r) /\ Goto(r, "complete")
       \/ GiveUp(r, "worker_failed", "fail") /\ UNCHANGED vars
    /\ UNCHANGED <<diskVars, call, daemonVars>>

Complete(r) ==
    /\ At(r, "complete")
    /\ CompleteRunWithReview(r) \/ (~IsActive(r) /\ UNCHANGED vars)
    /\ Return(r)
    /\ UNCHANGED <<diskVars, call, daemonVars>>

FailureStatus(code) ==
    IF code = "missing_handoff" THEN "completed_without_handoff" ELSE "failed"

\* Mutant: a failure before the agent runs is dropped.
ReportFailureOfRunning(r) ==
    /\ At(r, "fail")
    /\ \/ runStatus[r] = "running" /\ FailRun(r, FailureStatus(worker[r].due), worker[r].due)
       \/ runStatus[r] # "running" /\ UNCHANGED vars
    /\ Return(r)
    /\ UNCHANGED <<diskVars, call, daemonVars>>

\* FailRun refuses a run that is no longer active, and the worker ignores that.
ReportFailure(r) ==
    /\ At(r, "fail")
    /\ \/ FailRun(r, FailureStatus(worker[r].due), worker[r].due)
       \/ ~IsActive(r) /\ UNCHANGED vars
    /\ Return(r)
    /\ UNCHANGED <<diskVars, call, daemonVars>>

\* A read or a write of the store fails where runWorker only returns, or FailRun or
\* CompleteRunWithReview does, or the fake runner is told to hold its run: the run stays
\* active without a worker.
LoseRun(r) ==
    /\ IsActive(r)
    /\ worker[r].at \in {"load", "agent", "complete", "fail"} \cup DOMAIN AfterCheck
                       \cup {a[1] : a \in Advances}
    /\ worker' = [worker EXCEPT ![r] = NoWorker("lost")]
    /\ UNCHANGED <<vars, diskVars, call, daemonVars>>

WorkerStep(r) ==
    \/ Load(r) \/ AdvanceRun(r) \/ CheckActive(r) \/ DecideAfterCreate(r)
    \/ CheckDirectory(r) \/ AddWorktree(r) \/ RecordWorkspace(r) \/ InsertWorkspace(r)
    \/ StartAfterCreate(r) \/ FinishAfterCreate(r) \/ Render(r) \/ RunBeforeRun(r)
    \/ IssueToken(r) \/ AgentReturns(r) \/ RunAfterRun(r) \/ Decide(r) \/ Generate(r)
    \/ Complete(r) \/ ReportFailure(r) \/ LoseRun(r)

-----------------------------------------------------------------------------
(* Tool calls.  Gateway.Call validates the token in one statement and       *)
(* dispatches the tool in another transaction.                             *)

\* The agent's process lives while Runner.Run works and, after a turn that ended
\* without a handoff, until runWorker returns.
AgentLives(r) ==
    \/ worker[r].at \in {"agent", "check_continue"}
    \/ worker[r].due = "missing_handoff"

\* Tools are called over HTTP; the runner itself also submits a handoff, even
\* when its daemon does not serve any more.  Bound: one call of a run in flight
\* at a time.
ValidateCall(r, tool) ==
    /\ AgentLives(r)
    /\ daemon = "up" \/ tool = "handoff.submit"
    /\ call[r] = "none"
    /\ token[r] = "live"
    /\ runStatus[r] = "running"
    /\ call' = [call EXCEPT ![r] = tool]
    /\ UNCHANGED <<vars, worker, diskVars, daemonVars>>

DispatchCall(r) ==
    /\ \/ /\ call[r] = "handoff.submit"
          /\ \/ \E payload \in Payloads : InsertHandoff(r, payload)
             \/ handoff[r] # None /\ UNCHANGED vars
       \/ /\ call[r] = "issue.block"
          /\ BlockRunByAgent(r) \/ (~IsActive(r) /\ UNCHANGED vars)
    /\ call' = [call EXCEPT ![r] = "none"]
    /\ UNCHANGED <<worker, diskVars, daemonVars>>

-----------------------------------------------------------------------------
(* The daemon.                                                             *)

\* The daemon stops.  What was lost with its process is gone at once; after a
\* graceful shutdown the scheduler's worker goes on while the process drains, and
\* so does its tick with what is left of the list.
StopDaemon(lost, list) ==
    /\ daemon # "down"
    /\ daemon = "starting" => list = {}
    /\ stops < MaxStops
    /\ daemon' = "down"
    /\ stops' = stops + 1
    /\ stale' = {}
    /\ draining' = draining \cup list
    /\ worker' = [r \in Runs |-> IF ~Lives(r) THEN worker[r]
                                 ELSE IF r \in lost THEN NoWorker("dead")
                                 ELSE [worker[r] EXCEPT !.former = TRUE]]
    /\ call' = [r \in Runs |-> IF r \in lost THEN "none" ELSE call[r]]
    /\ UNCHANGED <<vars, diskVars, late>>

\* A draining worker is killed with its process.
KillFormer(r) ==
    /\ worker[r].former
    /\ worker' = [worker EXCEPT ![r] = NoWorker("dead")]
    /\ call' = [call EXCEPT ![r] = "none"]
    /\ UNCHANGED <<vars, diskVars, daemonVars>>

\* Mutants: the list misses runs that have not reached their agent; a listed run
\* is marked failed without giving its issue back.
StartDaemonRunning ==
    /\ daemon = "down"
    /\ daemon' = "starting"
    /\ stale' = {r \in Runs : runStatus[r] = "running"}
    /\ UNCHANGED <<vars, worker, diskVars, call, stops, draining, late>>

ReconcileStaleRunOnly(r) ==
    /\ daemon = "starting"
    /\ r \in stale
    /\ EndRun(r, "failed", "daemon_restarted_run_interrupted")
    /\ stale' = stale \ {r}
    /\ UNCHANGED <<issueVars, relations, workVars, worker, diskVars, call, daemon,
                   stops, draining, late>>

\* ReconcileStaleActiveRuns lists the active runs and then fails each in a
\* transaction of its own.  Nothing is dispatched before it is through.
StartDaemon ==
    /\ daemon = "down"
    /\ daemon' = "starting"
    /\ stale' = ActiveRuns
    /\ UNCHANGED <<vars, worker, diskVars, call, stops, draining, late>>

ReconcileStale(r) ==
    /\ daemon = "starting"
    /\ r \in stale
    /\ ReconcileRun(r)
    /\ stale' = stale \ {r}
    /\ UNCHANGED <<worker, diskVars, call, daemon, stops, draining, late>>

\* A listed run that ended meanwhile makes the startup fail.  The remaining
\* listed runs are failed first; those that still can be are, by ReconcileStale.
AbortStartup ==
    /\ daemon = "starting"
    /\ stale # {}
    /\ \A r \in stale : ~IsActive(r)
    /\ daemon' = "down"
    /\ stale' = {}
    /\ UNCHANGED <<vars, worker, diskVars, call, stops, draining, late>>

FinishStartup ==
    /\ daemon = "starting"
    /\ stale = {}
    /\ daemon' = "up"
    /\ UNCHANGED <<vars, worker, diskVars, call, stale, stops, draining, late>>

DaemonStep ==
    \/ StartDaemon
    \/ \E r \in Runs : ReconcileStale(r)
    \/ AbortStartup
    \/ FinishStartup

-----------------------------------------------------------------------------
\* The operator's calls reach the store whether the daemon serves or not.
OperatorStep == OperatorNext /\ UNCHANGED <<worker, diskVars, call, daemonVars>>

WorkerNext ==
    \/ OperatorStep
    \/ \E i \in Issues, r \in Runs : StartWorker(i, r) \/ StartLateWorker(i, r)
    \/ \E i \in Issues : EndDrain(i)
    \/ \E r \in Runs : \/ WorkerStep(r)
                       \/ \E tool \in {"handoff.submit", "issue.block"} : ValidateCall(r, tool)
                       \/ DispatchCall(r)
                       \/ KillFormer(r)
    \/ \E lost \in SUBSET Runs, list \in SUBSET Issues : StopDaemon(lost, list)
    \/ DaemonStep

WorkerSpec == WorkerInit /\ [][WorkerNext]_allVars

\* Every stage of a worker ends: hooks and agent turns have timeouts, the rest
\* is local work.  A daemon that stopped is started again, and starts up.
Fairness ==
    /\ \A r \in Runs : WF_allVars(WorkerStep(r))
    /\ WF_allVars(DaemonStep)

FairWorkerSpec == WorkerSpec /\ Fairness

-----------------------------------------------------------------------------
(* Correctness properties.                                                 *)

\* No orphan: an active run has a worker, or the daemon that will fail it at
\* startup is down or has it on its list.  Every exit of runWorker leaves the
\* run ended, and startup misses none.  The exceptions are a run that a failing
\* database lost, and one claimed by a tick that outlived its daemon: its process
\* may end when the next daemon is up.
ActiveRunIsOwned ==
    \A r \in ActiveRuns \ late :
        Lives(r) \/ At(r, "lost") \/ daemon = "down" \/ r \in stale

\* A worker runs its agent only in a workspace where an after_create hook has
\* completed, whatever crashes, cancelled hooks and former workers left behind.
AgentAfterCreate ==
    \A r \in Runs : worker[r].at \in {"before_run", "agent", "generate"} => created[runIssue[r]]

\* Every run that is claimed ends, in spite of cancellations and of the daemon's
\* stops: with its worker, or at the next startup, with the same exceptions.  A run
\* that the database lost holds its slot and its issue no longer than to that startup.
RunsEnd ==
    \A r \in Runs :
        /\ IsActive(r) /\ r \notin late ~> Ended(r) \/ At(r, "lost")
        /\ At(r, "lost") /\ daemon = "down" ~> Ended(r)

-----------------------------------------------------------------------------
(* What TECH_SPEC.md says and the code does not do.                        *)

\* Section 7.7, review finalizer: no packet is committed after a cancellation or
\* a failure of the run has won.  The late packet becomes the issue's latest,
\* and the review actions on the attempt that did complete are refused.
FinalizerIsGuarded ==
    [][\A r \in Runs : packetNo'[r] # packetNo[r] => IsActive(r)]_allVars

=============================================================================
