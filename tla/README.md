# Local Symphony: models and proofs

This directory holds TLA+ models of Local Symphony, a single-host daemon that
keeps an issue tracker in SQLite, claims issues, runs a coding agent on each in a
git worktree, and hands the result to a human for review. The models are
translated from the Go source under `src/internal`; `src/TECH_SPEC.md` and
`src/docs` are used only where a run shows that they and the code disagree.

- `IssueTracker` is the store: what every transaction does, in any order.
- `RunWorker` puts the daemon's run workers, the agents' tool calls, daemon stops
  and the startup reconciliation on top of it.
- `CodexRunner` puts the turns of the Codex runner and the approvals it asks for
  inside a worker.
- `RuntimeOwner` is the contest of daemons for a project: the runtime descriptor,
  its heartbeat and nonce, and the life of `Serve`.
- `CodexSession` is what `CodexRunner` takes as one: the app-server process of a run,
  its pipe, the goroutines around it, and the steps of `Run` and `Close`.
- `ToolGateway` is what `RunWorker` takes as one: the steps inside handoff.submit and
  artifact.attach, with an agent that gives up and calls again.
- `Sessions` and `OperatorCLI` are the daemon's bearers, links and sessions, and the
  commands that find a daemon, send it one request and report.
- `IssueLifecycle` is the abstract specification that `IssueTracker` implements: the
  life of an issue as a user of the tracker sees it.
- `AgentTurns` is the abstract contract between a runner and its worker, which both
  `CodexSession` and the runners of `CodexRunner` implement.
- The modules named `..._proofs` prove the safety properties of each for every number of
  issues, runs, requests, stops, daemons, clock ticks, calls, lines, callers and bearers
  and every limit; that each of the first three modules implements the one below it; that
  the store implements `IssueLifecycle`; and that the two Codex modules implement
  `AgentTurns`.

`PROJECT.json` lists the components, the runs, one mutant per property, the
source lines of every definition, the findings, the hazards and the theorems.

Run a check with `tlc -workers 2 -config IssueTracker_attempts.cfg MCIssueTracker`
and the proofs of a module with `tlapm IssueTracker_proofs.tla`.

## 1. Inventory

| Component | Source | State | Operations |
|---|---|---|---|
| Store | `internal/store/store.go` | issues, relations, run attempts, tool tokens, handoffs, review packets, approvals, runtime descriptors, sessions | one SQLite transaction or statement each |
| Run worker | `internal/orchestrator/orchestrator.go` | locals of `runWorker`: the issue it loaded, the after_create decision, the continuation budget | `DispatchIssue`, `runWorker`, hooks, `failRunAfterHook` |
| Scheduler tick | `orchestrator.Tick`, `app.schedulerTick` | a snapshot list of at most 50 eligible issues | dispatches the list one by one, synchronously |
| Workspace manager | `internal/workspace`, `internal/gitx` | worktree directory, `workspaces` row | `Prepare` |
| Tool gateway | `internal/toolgateway` | none of its own | `Call`: validate the token, then dispatch the tool |
| Agent runners | `internal/agent/codex`, `internal/agent/fake` | the agent process, its turns, pending approvals | `Run` |
| Review packet generator | `internal/review` | packet files | `Generate` |
| Daemon lifecycle | `internal/app/app.go` | runtime descriptor (row and file), owner nonce, heartbeat | `Serve`, shutdown, startup reconciliation |
| HTTP API | `internal/httpapi` | sessions, open tokens | commands to the store, projections |
| CLI, daemon client | `internal/cli`, `internal/daemonclient` | cached session | the same commands, over HTTP or on the store |
| Configuration | `internal/config` | snapshot of WORKFLOW.md | parse, validate |
| Security policy | `internal/security` | none | pure decisions |
| Observability, dashboard, scripts, contracts | `internal/observability`, `web`, `scripts`, `api` | none | read only |

**How they interact.** All components share the database. `DB.WithTx` takes
`BEGIN IMMEDIATE` under a mutex and rolls back on any error, so a store
operation is atomic, across processes too; everything between two operations is
not. A worker is a goroutine: the tick runs its workers one after the other, an
HTTP dispatch runs one in the request's goroutine. An agent calls tools through
the gateway with a token bound to its run. The operator's commands reach the
store from HTTP handlers, or from a CLI process when no daemon serves.

**What is hard here.** A worker learns that its run was cancelled only by looking,
and acts after it looked. Five callers can end a run: the worker, the operator's
cancel, the operator's transition, the agent's block, the next startup. A daemon
that stops leaves runs active, a draining worker working, and, on a graceful
shutdown, a tick that goes on claiming. Attempts of one issue share a workspace
and its hook events. Workers, tool calls and packets of an attempt that ended can
arrive after the next attempt began.

**What makes each component correct.**

| Component | Correctness |
|---|---|
| Store | The life of an issue; an issue is Working exactly while it has an active run; one active run per issue; the concurrency limit; an ended run is final; its issue gets its state back; no retry without the operator; review states only by a reviewed run |
| Run worker | every claimed run ends; an active run always has someone who will end it; the agent works only where after_create completed; only operations of the store |
| Daemon lifecycle | a daemon at work owns the project unless it missed a heartbeat; what it lost it never has again, and then it exits; clients find the owner |
| Tool gateway | a call acts only for the run its token names, and only while that run may act; what it answered stays true; an artifact's row describes its file |
| Codex runner | a result is earned in the turn that reports it; no process outlives its run; `Run` and `Close` return |
| Approvals | decided once; never left pending after its run ended; a timeout and a decision do not both win |
| Sessions | a rotated or revoked bearer opens nothing; an open token is used once; the session file is the serving daemon's |
| CLI, daemon client | a write happens at most once and its report is not false; logout is confirmed or called degraded, and the answer of another project's daemon confirms nothing; every command ends |
| Security policy | hard denials dominate every allowance |

## 2. Modules, and how they correspond to the code

### IssueTracker

One variable per column that a property tells apart; the comments of the
`VARIABLES` section name the column. Names, descriptions, comments, events,
history rows, artifacts and snapshots are data that no property distinguishes.
Three abstractions need a word:

- `valid` is the answer of `validRequired` for the issue's fields.
- `pause` is `dispatch_paused` and `dispatch_pause_reason` together. The code
  writes them together; the value is `"no"`, `"operator"` for any text the
  operator gives, or a failure code.
- `packetNo` is the number of the run's packet row; the insert and the update of
  `issues.latest_review_packet_id` are one transaction.

One action is one transaction, with all of its writes. A call the code refuses is
not enabled. `Next` puts no order on the calls: any caller may make any call at
any time, which covers the daemon, several workers, HTTP handlers and other
processes. `attention` is an observation: it is set when a run ends without
success and cleared by resume, reopening and review. No guard reads it.

`WorkerCodes` is the set of codes `FailRun`'s callers pass; the store writes four
codes of its own.

### IssueLifecycle

Stands alone and is an INSTANCE of `IssueTracker`, with a refinement mapping: the
phase of an issue is read from its state, `held` from its pause, `begun`, `spent` and
`delivered` from the status of the runs. It has nine actions for the store's two
dozen, and says what a user relies on: an attempt begins only on an issue that is not
held and while the limit allows, one at a time; it is delivered or given up, and one
that is given up holds the issue; only what was delivered is accepted.

### RunWorker

Extends `IssueTracker`. `worker[r].at` is the stage of the worker of run `r`; the
other fields are the locals of `runWorker` that later code reads. A stage is as
large as it can be without hiding an interleaving: a `runIsActive` check followed
by a guarded store call is one step, because the store looks again; a check
followed by a hook, an agent turn or the packet is two.

| Code | Actions |
|---|---|
| `DispatchIssue`, the tick's list | `StartWorker`, `StartLateWorker`, `EndDrain` |
| `advanceRun` | `AdvanceRun` |
| `runIsActive` before hook, agent, outcome, packet | `CheckActive` |
| `shouldRunAfterCreate`, `Prepare` | `DecideAfterCreate`, `CheckDirectory`, `AddWorktree`, `RecordWorkspace`, `InsertWorkspace` |
| the worker's returns that leave the run active | `LoseRun` |
| `runHook` | `StartAfterCreate`, `FinishAfterCreate`, `RunBeforeRun`, `RunAfterRun` |
| snapshots, prompt, token | `Render`, `IssueToken` |
| `Runner.Run` and the continuation loop | `AgentReturns` |
| handoff check, `Generate`, `CompleteRunWithReview` | `Decide`, `Generate`, `Complete` |
| `failRun`, `failRunAfterHook` | `ReportFailure` |
| `Gateway.Call` | `ValidateCall`, `DispatchCall` |
| `Serve`, `ReconcileStaleActiveRuns` | `StopDaemon`, `KillFormer`, `StartDaemon`, `ReconcileStale`, `AbortStartup`, `FinishStartup` |

Runners, git, hooks and the file system are modelled by their outcomes: each can fail
wherever the code handles a failure. after_run leaves nothing that a later step reads:
`RunAfterRun` only moves on, whether the hook ran, failed or was skipped.
`CreateOrUpdateWorkspace` reads and then inserts outside a transaction, so two workers of
one issue may both insert, and one of them fails. `LoseRun` is a read or write of the
store that fails where `runWorker` only returns, or inside `FailRun` or
`CompleteRunWithReview`; the fake runner's held result, which leaves a run active on
purpose, is the same to the state. Such a run is excepted from `ActiveRunIsOwned`, and
`RunsEnd` promises its end at the next startup.

`StopDaemon(lost, list)` covers a crash (`lost` is every live worker, `list` is
empty), a graceful shutdown that waits (`lost` empty) and everything between.
After a graceful shutdown `Serve` stops its loops, removes the descriptor and
then waits for the tick in flight, which looked at the owner nonce before it
began and does not look again: `draining` is what is left of its list, and `late`
marks the runs it claims. `ReconcileStaleActiveRuns` tries every run it listed and
returns an error when one ended in the meantime, which makes `Serve` fail:
`AbortStartup`.

`late` runs are excepted from `ActiveRunIsOwned` and `RunsEnd`. Such a run is
claimed after its successor listed the active runs, and when its process is
killed nobody ends it until the next startup. `docs/productization/
V1_PHASE_C_ACCEPTANCE.md` section 4.2 and the real productization plan list
long-running ticks at shutdown as a known limitation, so this is stated as an
exception and not as a finding.

### CodexRunner

Extends `RunWorker`. `runner[r]` is the Codex runner of the worker of run `r`: what
it does next, whether its app-server session is alive, `handoffReceived`, the
request it handles and the row it waits for, and what `Run` returns. `approval` is
the table `approval_requests`. `expires_at` is written and looked at by no operation; the
runner's timer is `TimeOut`.

| Code | Actions |
|---|---|
| `Runner.Run`, a turn and its ends | `Run`, `EndTurn`, `FailTurn`, `ReturnResult` |
| `handleProtocolLine`, the handoff line | `SubmitHandoff`, `FinishHandoff` |
| `handleApprovalRequest` | `Ask`, `Match`, `Create` |
| `waitForApprovalDecision` | `Poll`, `TimeOut`, `StopWaiting` |
| `DecideApproval` | `DecideApproval`, with `StoredStatus` and `CancelForApproval` |
| `closeRunner` | `WorkerStepBesides` |
| `cancelPendingApprovalsForRunInTx` | `ReconcileWithApprovals`, with `CancelPending` |
| tool calls over HTTP | `ToolCall` |

`Subjects` stands for what two requests are compared by: kind, working directory
and fingerprint. `Denied` are the subjects the policy denies. A request that the
policy allows is answered without any change of state and is no action. A request
for permissions, or without a fingerprint, skips the match: `Ask` may go on to
`create` at once. `approve_for_session` is stored and treated as `approved_once`.

Every read and write of the request can fail. The wait then returns an error, the turn
ends as a failure and the row stays as it is, for ever if it was pending: `Lapse` is that
exit of `Poll`, `TimeOut` and `StopWaiting`, and `Create` has it for a row that was
inserted and cannot be read back. `lapsed`, an observation, marks such a row.

What a request's resolution does to the agent is the point of this module, and
`grants` is an observation of it: how often the agent was told to go ahead with a
subject. The runner may be polled, timed out, cancelled and left by its agent at
the same moment; Go's `select` takes any that is ready, and so does the model.

`ReturnResult` is `AgentReturns` of `RunWorker`, and `SubmitHandoff` and
`FinishHandoff` are its tool calls. All other steps of a runner are none for the
worker, so the module implements `WorkerSpec` as it stands.

### CodexSession

Stands alone: one runner and its process group. `run` is where `Run` is and what it
returned, `session` and `received` are `processSession` and `handoffReceived`; `leader`
and `child` are the processes, `pipe`, `scanner` and `lines` the way of a line to `Run`,
`reaped` and `waitCh` the goroutine in `cmd.Wait`.

| Code | Actions |
|---|---|
| `startAppServer` | `StartFails`, `startAppServer` |
| `scanStdout`, `cmd.Wait` | `Scan`, `EndScan`, `Reap` |
| `runTurn` | `WriteTurn`, `Interrupt`, `LinesEnd` |
| `handleProtocolLine` and the JSON-RPC handlers | `HandleLine` |
| `handleApprovalRequest`, `waitForApprovalDecision` | `Decide`, `writeApprovalDecision`, `LosesProcess` |
| `closeSession`, `waitForProcess`, terminate and kill | `Close`, `Waited`, `KillGroup` |
| the continuation of `runWorker`, `closeRunner` | `Continue`, `CloseRunner` |
| the app-server (external) | `Write`, `StartChild`, `CloseStdout`, `StopReading`, `Exit`, `ExitChild` |

A line is one of six kinds, by what it does to the turn. The process writes any line at
any time, may ignore SIGTERM, leave a child that holds the pipe, close its stdout and
live, or stop reading its stdin. start_turn and the answers to requests go there, and
`Run` looks at no timer, line or cancellation while it writes: without `reads` the write
goes on only when the process has exited, and fails then. The answer is a stage of its
own. `cmd.Wait` runs from the start and closes the pipe when the leader exits: `Reap`
keeps any prefix of what was not scanned. `written`, `said`, `accepted` and `disturbed`
are bounds and observations; no guard of the code's steps reads the last three.

### AgentTurns

The promise of a runner, stated without any of its code: what `agent/runner.go` and
`runWorker` take for granted. A turn begins with the process of the first one or with
none, returns one result, and only a missing handoff leaves the process there and allows
another turn; a success needs a handoff that was taken in that turn; a worker that goes on
without its runner leaves no turn behind, and closing ends the process.

It is an INSTANCE of `CodexSession` and, for each run, of `CodexRunner`, with two different
refinement mappings, since the two look at the same turn from two sides. In `CodexSession`
(`TakesTurns`) a handoff is taken when the gateway accepted it in this turn, and the
process is the operating system's: a process may exit at any time, and `Run` returns a
success only after it has. In `CodexRunner` (`RunnersTakeTurns`) a handoff is taken when
the runner has counted it and the store has its row, the process is the session the runner
holds, and the runner is closed with its worker or gone with the daemon. That is how far
`CodexSession` stands for the runner of `CodexRunner`: a turn of both is a turn of
`AgentTurns`. Which lines arrive in a turn, and what they do to approvals, is in one of
them only.

### ToolGateway

Stands alone: the calls of one run, at most `Calls` of them at once, and the run and
the daemon only as far as they end. `source` is the file the agent attaches and may
write at any time, `copy` the file under `.symphony/artifacts`, `artifacts` its rows.

| Code | Actions |
|---|---|
| `cmdTool`, `HTTPClientCall` | `Send`, `GiveUp`, `Hear` |
| `Call`, token, scope and input checks | `Begin`, `Refuse` |
| `InsertHandoff` | `LookForHandoff`, `InsertHandoff` |
| artifact.attach | `StatSource`, `ReadSource`, `CreateCopy`, `WriteCopy`, `InsertArtifact`, with `RemoveCopy` |

`InsertHandoff` looks and then inserts; the unique index on the run decides between two
that both found nothing, and a handoff that was stored may still be answered with an error,
when it cannot be read back. The store writes are the only atomic steps of artifact.attach.

### Sessions and OperatorCLI

`Sessions` has the daemon's side: what listens at each address (this project's daemon
at a stage of `Serve`, another project's, nothing), the rows of `local_sessions`, the
project's session file and the legacy one of an older build, dashboard links and
browser sessions, and the requests on their way. A request is authorised and carried out
in two steps, and a write has its bearer looked at once more in between. A handler that
has committed reads what it answers with, and answers an error if it cannot: "refused"
leaves open whether the write was carried out. `peer` says whose daemon accepted the
connection; another project's knows no bearer of this one (`ForeignAnswers`).

`OperatorCLI` extends it with the invocations: `cli[p]` is where the command is and what
it has read.

| Code | Actions |
|---|---|
| `Serve`, `writeCLISession`, `removeCLISession` | `ServeBind`, `ServeMint`, `ServeTruncate`, `ServeFile`, `ServeUp`, `ServeFailsToMint`, `ServeAborts`, `ServeStops` |
| `authorizeAPI`, `authorizeCommand`, `handleAPI`, `openToken` | `authorizeAPI`, `authorizeCommand`, `HandleRequest`, `openToken`, `AuthSession` |
| `revokeCLISession`, `rotateBearerSession` | `revokeCLISession`, `rotateCLIToken` |
| `exchangeOpenToken`, `authLogout`, expiry | `exchangeOpenToken`, `authLogout`, `Expire` |
| `Discover`, `reachable` | `Begin`, `ProbeFinds`, `ProbeFails`, `NoDaemon` |
| `loadCLISessionToken`, `readCLISessionToken` | `LoadToken`, `ReadOpenToken` |
| `Client.Do`, timeouts, `withDaemonOrStore` | `Send`, `Receive`, `NoAnswer` |
| `logoutRevoke`, file removal | `RevokeProject`, `RevokeLegacy`, `DeleteSessionFile`, `deleteLegacySession` |

A command is one of five: one that reads, one that writes, login, open and logout. The
routes differ only in what the store does, which is `IssueTracker`'s. A write is not
repeated on the local store, and `applied` counts how often it was carried out; a
request whose answer nobody waits for may still be carried out.

Between the answer of `/health` and the request that follows it the code checks nothing
again, and neither does the model: when the port passes to another project's daemon in
between, that daemon gets the bearer and its answer counts. `astray`, an observation, marks
the invocations this happened to.

### RuntimeOwner

Stands alone; it shares no state with the modules above. `stage[d]` is where
`Serve` of daemon `d` is, in the order of the code; each daemon is started once, so
a daemon also stands for its pid and its nonce. `row` is the project's row of
`runtime_descriptors`, with the pid and the nonce as `owner` and `heartbeat_at` as
`beat`. `Others` are daemons of other projects on the same app database, which reap
this project's row too.

| Code | Actions |
|---|---|
| `ReapStaleRuntimeDescriptors` | `Scan`, `Reap`, `FailReap`, `NothingStale` |
| `runtimeOwnerIsLive` | `JudgedLive`, `JudgedStale` |
| `CreateRuntimeDescriptorWithNonce` | `Acquire`, with `Take`; `WriteFile` |
| `writeCLISession`, `removeCLISession` | `WriteSession`, `Reconcile` |
| `ReconcileStaleActiveRuns`, `config.Load` | `Reconcile` |
| `UpdateRuntimeHeartbeat` and its loop | `Beat`, `LoseHeartbeat` |
| tick and `verifyOwnerNonceForDispatch` | `StartTick`, `EndTick` |
| the `select` and the deferred calls of `Serve` | `Shutdown`, `StopLoops`, `Drain` |
| `RemoveRuntimeDescriptorForPID` | `LookAtRow`, `RemoveFile`, `RemoveRow` |

A daemon may stall between any two steps. The code reads the clock before the
statement that uses the time, so `Acquire` and `Beat` use any time since the read
became possible: `clock[d]` is when a starting daemon went on to what it does next,
and a heartbeat reads its time after the one it has written before. A scan with an
old time finds only rows that are stale now as well, so `Scan` uses the present.
The pid of a process that has ended may be free or another program's; `JudgedLive`
and `JudgedStale` are both possible then, while the row is fresh.

`missed` is an observation that no guard reads: the daemons whose heartbeat expired while
they ran and that have not renewed it since. `stripped` is another. A transaction that
reaps a row removes its descriptor file before it commits, in `FailReap` and in the
failing half of `Take`; when the reaper dies then, or the commit fails, `RollBack` keeps
the row and not the file, and `stripped` are the daemons this was done to while they were
late. `heartbeat_ttl_ms` is always the default. The row of a crashed daemon, and its file
and session, stay.

`ReconcileStaleActiveRuns` looks at no nonce and the first heartbeat comes after
it: the model lets a daemon that lost the project reconcile, and write and remove
the project's files, as the code does.

## 3. Runs

| Run | Instance | Shows |
|---|---|---|
| `attempts` | 2 issues, 2 runs, limit 1, one related pair | the store's invariants and action properties over two attempts of one issue, every order of every call, and while two issues compete for one slot, block and duplicate each other; the store implements the life of an issue |
| `restart` | 1 issue, 1 run, 2 daemon stops, fair | no active run is ever without someone who will end it, every claimed run ends, and every worker step is a store step or none |
| `overlap` | 1 issue, 2 runs, limit 2, no stops | a cancelled attempt's worker, hooks and tool calls overlap the next attempt's; one of the two is active at a time, though there is a slot for each |
| `approvals` | 1 issue, 1 run, 2 requests, 2 subjects of which 1 is denied, 1 stop | decisions race timers, the agent's exit, cancellation and startup, and the store fails in between; each runner step is a worker step or none, and a step of `AgentTurns` or none |
| `ownership` | 2 daemons, 1 daemon of another project, TTL 2, clock to 3, fair | only a missed heartbeat costs a daemon its project, for good; then it exits; without one the daemon that serves is found, unless a transaction that did not commit had taken its file |
| `session` | 4 lines, channel of 2, fair | what the app-server process writes, ignores, leaves unread and leaves behind: results are earned, no process outlives its run, `Run` and `Close` return unless a write to it blocks for ever, and the run is one of `AgentTurns` |
| `tools` | 2 calls, 2 handoffs, 1 path, 3 contents of which 1 is too large | concurrent, retried and abandoned calls: answers stay true, rows describe files, failed calls clean up |
| `sessions` | 2 addresses, 2 new bearers and an old one, 1 link, 1 command of any kind, fair | what a command does and reports while daemons come and go and other projects' take their ports, and what a dead session opens |
| `finalizer`, `handoff`, `lost_line`, `legacy_logout` | 1 issue, 1 run; `lost_line` as `session`, `legacy_logout` as `sessions` | the four violations of section 6 |

The largest are `sessions` with 1.2 million distinct states, `overlap` with 680 thousand,
`tools` with 650 thousand and `ownership` with 600 thousand; `attempts` has 360 thousand,
`session` 410 thousand, `approvals` 150 thousand and `restart` 130 thousand.

`CodexTypeOK` contains `TypeOK` and `WorkerTypeOK`, so `approvals` checks the types of
all three modules.

**Bounds.** Two runs of one issue is the least in which an attempt that ended and a later
one exist together, which the rules about latest runs and latest packets need; the proofs
cover any number. The concurrency property counts runs, so two runs and limit 1 exercise
it in `attempts`, while in `overlap` a second run of the issue could have a slot, and only
the issue's own active run forbids it; two issues are needed since one issue never has two
active runs. The limit as a configured value that is zero or negative is covered by the
proof. In `restart`, two stops let a second daemon die during reconciliation; one run is
enough because the properties speak of each run by itself and reconciliation treats runs
one by one. `MaxStops` bounds the stops, `Related` the pairs of issues the operator
relates, and one tool call of a run is in flight at a time. Two requests let an approval
of one be taken for the other, by subject or by run; one runner waits for at most one at a
time, so a third adds no interleaving. `grants` saturates at `MaxGrants`, which is above
the number of rows, so that one grant too many is seen.

In `ownership`, a TTL of two ticks tells a heartbeat in time from a late one, and a
clock to three lets a daemon miss one and its successor serve on; the other project's
daemon reaps while both are busy. `MaxTime` bounds the clock and `Daemons` how often the
project is served.

In `session`, four lines are a handshake, a handoff and the end of a turn with one to
spare, which reach both turns, and a channel of two is full while a line is in the
pipe. In `tools`, two calls race on the handoff and on the copy, and three contents tell
a file changed between two looks from one that grew too large. In `sessions`, two
addresses let the daemon move and leave its port to another project, two new bearers
let it be replaced or rotated once while the old one is about, and one command is
enough because commands meet only through files and rows, which daemons, rotation and
revocation change at any time as well.

Four runs use a state constraint, since the operator's calls alone give the store
many states that a worker cannot tell apart. `OneAttempt` (`restart`) stops when
the run has ended and its worker is through, and keeps the issue's fields
complete; nothing the excluded states contain can make the run active again.
`OneAttempt` of `MCCodexRunner` (`approvals`) follows the run to the last result of
its runner, or until it has ended without a worker; the runner is off in what is
cut away, and only the operator's decisions on leftover rows go on there.
`Queued` (`overlap`) keeps to an issue that is queued, worked on, cancelled and
queued again, so that the two attempts overlap. `OneOrCompeting` (`attempts`) explores the
life of one issue through two attempts without any bound, as long as the second issue is not
there; with it, both issues keep complete fields, and no attempt hands off or fails by
itself, so that what is explored is their competition for the slot and their relations.

**Symmetry.** Run ids are interchangeable and are a symmetry set in the runs
without liveness. `restart` has a liveness property and a single run, `ownership`
one and two daemons, and neither uses symmetry.

**Fairness.** `RunsEnd` assumes weak fairness of each worker's steps and of the
daemon's startup. Hooks and agent turns run under timeouts and everything else a
worker does is local, so a worker whose process lives always takes its next step;
a daemon that stopped is started again, and its startup is a loop over a list.
Nothing is assumed of the operator, of the agent's tool calls, of the draining
tick or of kills. Since a worker may be killed at any time when its daemon has
stopped, the property rests on the startup as much as on the worker.

`SupersededExits` assumes weak fairness of the heartbeat that finds the row gone, of
the main loop's answer to it, of a reap that has begun, of the tick in flight and of
the steps of `Serve`'s exit. The heartbeat is a ticker's, the main loop selects on
its error channel, and a tick ends because its workers do. Nothing is assumed of
heartbeats that succeed, of signals, of crashes or of the clock.

`RunReturns` assumes weak fairness of `Run`'s steps, of the two goroutines and of
`closeRunner`. Turn, stall, read and approval timers are set while `Run` waits for lines
or a decision, waiting for the process is bounded by SIGKILL, and a goroutine goes on when
it can. Nothing is assumed of the process, except that SIGKILL ends it; in particular not
that it reads its stdin, so the property excepts a write that is blocked for ever, which
no timer of the code ends. `RunsEnd` is a statement about workers whose `Runner.Run`
returns: such a process keeps its worker, and the run active, until the operator cancels
it or the daemon stops.
`CommandsEnd` assumes weak fairness of an invocation's steps: each probe and each request
has its timeout, and the rest is local. Nothing is assumed of daemons.

**Deadlock** is checked in every run but `ownership`, `session` and `lost_line`: the
operator can always edit an issue, an agent its file, and a daemon can always be
started; all daemons of a project may have exited, though, and a run is over when its
runner is closed.

Each property of a passing run has a mutant in `PROJECT.json`: a definition of the
model changed the way a plausible bug in that code would, under which TLC finds
the property violated.

## 4. Proofs

All theorems hold for all values of the constants under their assumptions.

`IssueTracker_proofs`:

| Theorem | States |
|---|---|
| `TypeCorrect` | `Spec => []TypeOK` |
| `WorkingMeansRunning` | `Spec => []WorkingIffActive` |
| `OneActiveRun` | `Spec => []ActiveRunIsLatest` |
| `NoRetryWithoutOperator` | `Spec => []NoAutoRetry` |
| `PauseNamesLatestFailure` | `Spec => []PauseExplained` |
| `OnlyReviewedWorkIsAccepted` | `Spec => []AcceptedWorkIsReviewed` |
| `ConcurrencyIsBounded` | `Spec => []ConcurrencyBound` |
| `OutcomeWrittenOnce` | `Spec => EndedRunsAreFinal` |
| `UnsuccessfulRunRestoresIssue` | `Spec => RunEndRestoresIssue` |

`RunWorker_proofs`:

| Theorem | States |
|---|---|
| `WorkerTypeCorrect` | `WorkerSpec => []WorkerTypeOK` |
| `WorkersImplementStore` | `WorkerSpec => Spec` |
| `NoOrphanedRun` | `WorkerSpec => []ActiveRunIsOwned` |
| `AgentNeedsCreatedWorkspace` | `WorkerSpec => []AgentAfterCreate` |

`CodexRunner_proofs`:

| Theorem | States |
|---|---|
| `CodexTypeCorrect` | `CodexSpec => []CodexTypeOK` |
| `RunnersImplementAgents` | `CodexSpec => WorkerSpec` |
| `FirstResolutionStands` | `CodexSpec => ResolvedIsFinal` |
| `PendingRequestsAreWaited` | `CodexSpec => []PendingIsWaited` |
| `UnansweredAgentsStop` | `CodexSpec => []UnansweredStopsAgent` |
| `EveryGrantIsBacked` | `CodexSpec => []GrantsAreBacked` |
| `TurnsAreKept` | `CodexSpec => RunnersTakeTurns` |

`RuntimeOwner_proofs`:

| Theorem | States |
|---|---|
| `OwnerTypeCorrect` | `OwnerSpec => []OwnerTypeOK` |
| `OwnershipNeedsMiss` | `OwnerSpec => []OwnerUnlessMissed` |
| `OwnerIsFound` | `OwnerSpec => []ServingIsDiscoverable` |
| `LostIsFinal` | `OwnerSpec => LostStaysLost` |

`IssueLifecycle_proofs`:

| Theorem | States |
|---|---|
| `StoreImplementsLifecycle` | `Spec => ImplementsLifecycle` |
| `SystemImplementsLifecycle` | `CodexSpec => ImplementsLifecycle` |

`CodexSession_proofs`:

| Theorem | States |
|---|---|
| `AppTypeCorrect` | `AppSpec => []AppTypeOK` |
| `ResultsAreTrue` | `AppSpec => []ResultsAreEarned` |
| `ProcessIsGone` | `AppSpec => []NoProcessIsLeft` |
| `RunTakesTurns` | `AppSpec => TakesTurns` |

`ToolGateway_proofs`:

| Theorem | States |
|---|---|
| `ToolTypeCorrect` | `ToolSpec => []ToolTypeOK` |
| `RowsDescribeFiles` | `ToolSpec => []ArtifactsAreWhole` |
| `FailedCallsCleanUp` | `ToolSpec => []NothingIsLeftBehind` |
| `AnswersStayTrue` | `ToolSpec => []AnswersAreTrue` |

`OperatorCLI_proofs`:

| Theorem | States |
|---|---|
| `OperatorTypesHold` | `OperatorSpec => []OperatorTypeOK` |
| `WritesDoHappenOnce` | `OperatorSpec => []WritesHappenOnce` |
| `LogoutDoesConfirm` | `OperatorSpec => []LogoutIsConfirmed` |
| `FileDoesBelong` | `OperatorSpec => []FileIsTheDaemons` |
| `TheDeadAreRefused` | `OperatorSpec => DeadSessionsAreRefused` |

`Invariance`, `WorkerInvariance`, `HookInvariance`, `CodexInvariance`, `OwnerInvariance`,
`AppInvariance`, `ToolInvariance` and `Invariant` state the inductive invariants behind
them. The two implementations of a lower module carry every theorem of it to the system
with its upper ones.

**Assumptions.** `NoneAssumption` (None is no id), `MaxConcurrentAssumption` (the
limit is an integer, of any sign), `RunsAssumption` (finitely many runs, needed to
count them), `WorkerCodesAssumption` (a worker's code is not one of the words that
stand for "not paused", "paused by the operator" and "no code"),
`RelatedAssumption` (related pairs are pairs of issues), `DueCodesAssumption` (the
two codes a worker reports are among those codes), `MaxStopsAssumption` and
`MaxGrantsAssumption` (the bounds are naturals), `ApprovalsAssumption` and
`SubjectsAssumption` (None is no request and no subject; the denied ones are
subjects), `ProcessesAssumption` and `NoRowAssumption` (daemons are not other
projects', and None is neither a daemon nor a row), `TTLAssumption` (the TTL is a
positive number, the bound of the clock a number), `BoundsAssumption` (the channel takes
at least one line), `ToolAssumption` and `CopyAssumption` (the attached path is no
handoff, sizes are numbers, None is no handoff, content or copy), `NamesAssumption` (what
is not there, cannot be read or is another project's is no bearer and no session file)
and `ConfiguredAssumption` (the configured addresses are a sequence of addresses).

**The store.** `WorkingIffActive` is not inductive. A cancel gives back the
state of the run's issue, and to know that this does not free an issue another
run holds, one must know that the active run is the issue's latest one. So the
invariant says both directions with the latest run as the witness:
`ActiveRunHoldsIssue` (an active run's issue is Working and names it) and
`WorkingIssueIsHeld` (a Working issue's latest run is active, belongs to it, and
the issue is not paused). "Not paused" is what `NoAutoRetry` and `PauseExplained`
need when a run completes. `RunRows` gives the type of the restored state.
`CompletedRunsHandedOff` carries the handoff and the packet from the run to the
review states. `IndInv` is their conjunction with the three invariants that are
inductive relative to them; `Preservation` goes through the actions one by one.
The concurrency limit needs the cardinality theorems and has its own lemma,
`ActiveRunsStep`: a step leaves no new run active, or claims one below the limit.
`EndedRunStep` and `RunEndStep` are the two action properties for one step.

**The workers.** `StepOfStore` shows that a step is a claim, one other operation of
the store, or nothing to it. Only a claim makes a run active (`ProgressStep`), so
`ActiveRunIsOwned` has to be re-established where a worker leaves: `WorkerMoves`
shows that it leaves only when its run is not active any more, for which
`FailureIsDue` is needed. The other way to lose a worker is the daemon's stop;
`FormerRunsAreListed` says that a worker of a former daemon works on a run that
the startup in progress still has on its list, so that killing it orphans nothing.
`HookInv` adds `CreateInv`, which ties each stage of a worker, with the
decision it made about after_create, to what the hook events of the issue say
happened, whoever of the overlapping attempts wrote them.

**The runner.** A runner is not off only while its worker is at its agent
(`RunnersServeWorkers`), which makes `ReturnResult` the worker's `AgentReturns`.
`PendingInv` says that a pending request is waited for by the runner of its run, or
its worker is dead, or it lapsed and its agent is over, and that startup did not end its
run without it; the public property follows with `ActiveRunIsOwned`. A lapsed request is
in the same place as one that was denied: its runner has returned a failure, or its
worker is past all turns. `UnansweredInv` says that the runner of
a request that was denied, timed out or cancelled still waits, returned a failure,
or its worker is past all turns; `StageStep` shows that no worker comes back from
there. `RunnerSteps` sorts the twelve steps of a runner into six kinds by what they
do to requests, and `OtherStepOfRunners` is all that any other step can do to them;
the invariant is proved for these kinds.

**The grants.** `GrantsAreBacked` compares a counter with a number of rows, and is not
inductive: a grant and the row that backs it do not come in the same step. The operator
approves a request first, then the runner polls it and tells the agent. So `GrantsUseUp`
counts only the approved rows that no runner waits for any more: a poll moves one row into
that set and adds one to the counter, whatever else the operator approves adds nothing to
the counter, and a row that was approved for the whole run settles the matter. The row the
runner waits for asks for the very subject it will be told about (`WaitsForSubject`), and no
row changes its run or its subject (`RowStep`). An approval is thus used up by one grant,
for any number of requests.

**The turns.** For `TurnsAreKept`, `HoldsSession` says where a runner holds a session: in
its turn, after one that missed its handoff, and before the one that follows, as long as
the worker may still come to it; a result is there only when one is returned, and a worker
that is through has nothing left of its runner. It also needs that an unclaimed run has an
idle worker, which no property says. `SubmitsHandoff` says that what the runner has counted
is stored, which needs that a handoff stays in the store (`HandoffStays`). Each step of a
runner or of its worker begins the turn, goes on, gives up, completes or hands back, and
`TurnSteps` maps each kind to one action of `AgentTurns`; `OtherTurns` shows that no step of
another run disturbs it. For `RunTakesTurns`, `OutcomeInv` adds to `AppInv` what `Run` has
decided when it begins to wait for its process: a success in a turn that has its handoff,
or a failure. `GoneInv` is then why the process is gone when `Run` returns.

**The owner.** `Held` is the public property, extended to a daemon that is about to remove
its file. What could break it is a row that goes while its owner runs, and there are three
ways: a reap, an acquisition over it, and the owner's own exit. `RowIsHeld` says that a
stale row's running owner has missed a heartbeat, and `ScansAreStale` that what a reaper
read was stale and is for ever, if its owner still runs; since a reap removes only the row
that was read, both ways need a miss (`StaleOwnerMissed`). For the files, `stripped` marks
what a rollback did to a late owner, and that is the only way a file goes while its owner
has not lost the project. `FilesAreKept` assumes less than the property: not that nobody
missed a heartbeat, but that nobody lost the project by it (`NoneLost`), which, unlike the
other, no heartbeat makes true again. Under it a daemon at work is the only one
(`OneAtWork`), so each finds the files it wrote. `MoveKeeps` covers every step that moves
one daemon and leaves the row alone.

**The life of an issue.** Each operation of the store is mapped to one abstract action or
to none, case by case, under `IndInv`: `WorkingIssueIsHeld` identifies the run that ends
with `last[i]`, `CompletedRunsHandedOff` gives `Accept` its delivered attempt, and the
count of active runs bounds that of Working issues, since each of those holds one of the
runs. The theorem about the whole system is that one and the two implementations.

**The process.** `TurnInv` ties `handoffReceived` to the turns in which the gateway took
a handoff: they agree while a turn's lines are read, which is what a missing handoff
needs, and a result stays what it was when no line is read any more. `GoneInv` says why
the process is gone: `waitCh` has a value only after `cmd.Wait` returned, and that only
after the process exited; where it may be alive, the session is open or `Run` is on its
way through `waitForProcess`.

**The calls.** `CopyInv` says that at most one call writes the copy, that its bytes are
the ones it read, and that the row, once there, leaves no writer. `AnswerInv` says the
same of answers that are on their way as `AnswersAreTrue` of those that were heard.

**The sessions.** Only one daemon of the project is at work (`OneDaemon`), and from the
step that replaces its row on, the bearer and the file it wrote are its own
(`BearerOfDaemon`); every bearer that is written down anywhere was minted, so that a new
one is never an old one (`FilesAreUsed`). `Sound` and `HoldsItsBearer` say of an
invocation what it may hold at each place; a logout that is not degraded has read only the
bearer it now holds, so a confirmed revocation leaves none of what it has read alive. What
makes the requests hard is that they outlive the wait for their answer: a logout may have
two on the way, so `OneEach` tells them apart by source, `SentFits` says at which places
of the command either may still be there, and `DeadOnes` that one sent with a dead bearer
is neither authorised nor answered "ok". `WriteOf` and `WriteFits` tie the counter of
`WritesHappenOnce` to the place of the request: nothing is done before it is sent, an "ok"
says that it was done and a missing authorisation that it was not, while a handler's error
says neither; and once any answer was received, no request of the write is left that could
still be carried out. A request another project's daemon accepted stays `peer` "foreign"
and touches no row; a logout that takes its answer for a confirmation is `astray`. The
proof has one lemma for each kind of step: a quiet step of an invocation, a request sent,
received or given up, and the daemon's.

The attempt to prove it found the guards of four `CASE` expressions of `OperatorCLI`
overlapping, where TLA+ leaves the choice open and TLC takes the first; they are
disjunctions of exclusive guards now.

**Only model-checked.** Liveness (`RunsEnd`, `SupersededExits`, `RunReturns`,
`CommandsEnd`), which needs ENABLED, and the violations of section 6. Every other property
of every run is proved. `ToolTypeCorrect` is only proved, and so is `AgentAfterCreate` where a
process dies between two steps, since `overlap` has no stops.

## 5. Not modelled

- The scheduler's list (order, limit of 50, which errors end a tick): claims are
  enabled whenever the store would accept them, which includes every list.
- In `IssueTracker`, database errors of operator commands: a transaction that fails changes
  nothing. What a handler answers after one that committed is in `Sessions`. Those of a
  worker are `LoseRun`, those of an approval's wait `Lapse`, those of a tool call the failure
  of its step.
- issue.get, issue.comment and followup.create: they read, or add a row nobody waits
  for. Input and scope checks of the tools: refusals.
- A CLI process that works on a run itself while no daemon serves; `serve`'s flags;
  `login --list`; expiry of command line bearers; CSRF and origin checks.
- Fixtures, version detection and the parsing of protocol lines beyond their kinds; the
  redaction of what an agent says.
- Descriptor rows of an older schema version, without nonce and heartbeat; a
  daemon that is given the pid of an ended one.
- The security policy: a classification of command lines and paths by their
  characters, without state. What it decides is the constant `Denied`.
- Configuration parsing, redaction, projections, event streams, the dashboard, scripts
  and contract files: pure I/O, wording or layout.

## 6. Where the code and its documents disagree

Each of these has a run that reaches the state or the step.

1. `finalizer`: a packet can be inserted for a run that was cancelled after the
   worker's last look; TECH_SPEC.md section 7.7 says the transaction guards against it.
   The late packet then becomes the issue's latest, and the review actions on the
   attempt that completed are refused.
2. `handoff`: a turn is reported as a missing handoff although the agent submitted
   one through the tool, as its prompt tells it to; the runner counts only the
   handoff line of its own protocol, and the worker does not ask the store.
3. `lost_line`: `cmd.Wait` is called while `scanStdout` still reads. It closes the pipe
   as soon as the process exits, so an app-server that writes `turn_completed` and exits
   can lose that line, and its run is failed as if the process had died. The test at
   `codex_test.go:137-187` expects a success.
4. `legacy_logout`: `login --logout` whose project session the daemon has revoked returns
   without reading the session file of an older build (`cli.go:852-861`), removes it
   (`cli.go:683`) and reports `logged_out`. The bearer in it is accepted as before, which is
   what the comment at `cli.go:620-623` says the removal is there to prevent.

Seen while modelling, without a run of their own.

In the store:

- The operator can move an open issue along edges that the table of TECH_SPEC.md:1331-1345
  does not have, such as Ready to Inbox (`store.go:988`); Blocked to Ready is allowed
  while blockers remain.
- A blocker that is Done or Cancelled keeps blocking (`store.go:1247`);
  TECH_SPEC.md:856 and 1267-1278 say that only one that is not terminal does.
- An approval whose `expires_at` has passed can still be decided (`store.go:2555`);
  TECH_SPEC.md:2940 says it cannot. Only the runner's timer enforces it.
- The handoff is inserted without looking at the run's status (TECH_SPEC.md:1147-1153),
  and a second, identical one that arrives together with the first gets the database's
  constraint error where TECH_SPEC.md:2614 promises the same answer.
- A failed or completed run's tool token is not revoked (TECH_SPEC.md:3274-3277), though
  it opens nothing, since validation also demands a running run.

In the worker and the runner:

- Several exits of the worker skip after_run although a workspace was prepared
  (`orchestrator.go:211`); TECH_SPEC.md:1682 asks for it on every outcome. A read that fails
  when the hook's context is made (`orchestrator.go:344`) skips it too, and the run may still
  be completed with its packet.
- Cancelling or failing a run from outside leaves its pending approval to the runner,
  so that the row stays pending for ever when the daemon dies before the runner looked
  (an exception in `PendingIsWaited`). A read or write of the store that fails during the
  wait (`codex.go:1038-1068`) leaves it pending as well, with the daemon up and the run
  failed, for good: the store refuses a decision on the request of a run that has ended.
- TECH_SPEC.md:176 speaks of the process group; `waitForProcess` waits for its leader
  only, and a child that ignores SIGTERM outlives a leader that does not
  (`codex.go:1618-1648`), which is why `NoProcessIsLeft` speaks of the leader.
- The writes to the app-server's stdin (`codex.go:287` and `writeApprovalDecision`) are made
  before any timer is set, or outside the select that looks at it. A process that does not
  read holds `Run` and its worker, and in a tick everything behind it; cancelling the run
  ends the run but neither of them.
- Lines of a first turn that were not read when it ended are read in the second. The
  scanning goroutine stays blocked when `Run` returns with the channel full.
- A call of artifact.attach that was carried out after its client gave up makes the retry
  fail because the file exists.

In the daemon and the commands:

- A daemon that stalls in its exit removes its successor's descriptor file, though not
  its row (the test at `store_test.go:667` covers the order without the stall), which is
  why `ServingIsDiscoverable` speaks of the time before a missed heartbeat.
- `reapStaleRuntimeDescriptorInTx` removes the descriptor file before its transaction commits
  (`store.go:2835`, also on the way to the INSERT at `store.go:2715`). When that fails or the
  process dies, the row stays without the file. An owner that was only late beats on and
  serves, and a client without a session file or configured URL does not find it. This is
  the exception in `ServingIsDiscoverable`.
- Many handlers commit and then answer the error of a read (`httpapi.go:480-489`, `628-636`,
  `733-741`; `orchestrator.go:51-69`), so an error does not say that nothing was done; nor
  does `WritesHappenOnce`.
- The bearer goes to whoever listens when the request is sent (`client.go:280`), which need
  not be who answered `/health`; a logout takes the answer of another project's daemon,
  which knows no such bearer, for a confirmation. This is the exception in `LogoutIsConfirmed`.
- Rotation gives the new bearer a row of its own, so the next `Serve`, which replaces the
  row of the project's command line, does not end a rotated one.
- `login --logout` without any session file speaks of ending "no_bearer"
  (`cli.go:661-664`), but the client then loads a bearer from disk, finds none, and the
  command ends as degraded.

## 7. Plan

What is left, in the order of its worth:

1. A composition of `RuntimeOwner` with `RunWorker`: what ownership allows replaces
   the free `StopDaemon` and `StartDaemon`.
2. An abstract specification of the sessions that `OperatorCLI` implements: a bearer is
   minted, used and dead, a command done once or not.
3. An abstract specification of ownership that `RuntimeOwner` implements: a project and
   its owner, who changes only by exit, death or a missed heartbeat.
4. The scheduler's tick: order, limit and error handling of its list.
