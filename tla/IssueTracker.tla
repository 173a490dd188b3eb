---------------------------- MODULE IssueTracker ----------------------------
(***************************************************************************)
(* The project store of Local Symphony (internal/store/store.go): issues,  *)
(* run attempts, run-scoped tool tokens, handoffs and review packets.      *)
(*                                                                         *)
(* Every action is one SQLite transaction or one statement.  DB.WithTx     *)
(* runs BEGIN IMMEDIATE and rolls back on any error, so an action happens  *)
(* whole or not at all, and a call the code refuses is simply not enabled. *)
(* Nothing here says who calls an operation or when: the daemon, its run   *)
(* workers, HTTP handlers, agents and other processes on the same database *)
(* may interleave their calls in any order.                                *)
(***************************************************************************)
EXTENDS Integers, FiniteSets

CONSTANTS
    Issues,         \* issue ids that can be created
    Runs,           \* run ids that can be claimed
    Payloads,       \* canonical handoff payload hashes
    WorkerCodes,    \* failure codes a run worker reports through FailRun
    MaxConcurrent,  \* agent.max_concurrent_agents of WORKFLOW.md
    Related,        \* bound: the pairs of issues the operator relates
    None

ASSUME NoneAssumption == None \notin Runs /\ None \notin Payloads /\ None \notin Issues
ASSUME MaxConcurrentAssumption == MaxConcurrent \in Int
ASSUME RunsAssumption == IsFiniteSet(Runs)
ASSUME WorkerCodesAssumption == WorkerCodes \cap {"no", "operator", "none"} = {}
ASSUME RelatedAssumption == Related \subseteq Issues \X Issues

-----------------------------------------------------------------------------
(* The enumerations of internal/core.  "Absent" and "none" stand for a row  *)
(* that has not been inserted.                                             *)

IssueState == {"Inbox", "Ready", "Working", "Rework", "Blocked",
               "HumanReview", "Done", "Cancelled", "Duplicate"}

\* "HumanReview" is the state the code spells "Human Review".
TerminalIssueState == {"Done", "Cancelled", "Duplicate"}

DispatchState == {"Ready", "Rework"}

ActiveRunStatus == {"pending", "preparing_workspace", "rendering_prompt",
                    "starting_agent", "running"}

EndedRunStatus == {"completed", "completed_without_handoff", "failed", "cancelled"}

\* Codes written by the store itself, whatever the caller.
StoreCodes == {"operator_cancelled", "issue_state_changed", "agent_blocked",
               "daemon_restarted_run_interrupted"}

FailureCode == WorkerCodes \cup StoreCodes

\* dispatch_paused and dispatch_pause_reason are always written together: an
\* issue is not paused, paused by the operator's text, or paused by a code.
PauseReason == {"no", "operator"} \cup FailureCode

RelationType == {"blocks", "duplicates"}

VARIABLES
    state,          \* issues.state
    valid,          \* what validRequired says of the issue's fields
    pause,          \* issues.dispatch_paused with its reason
    latestRun,      \* issues.latest_run_id
    latestPacket,   \* issues.latest_review_packet_id, as the packet's run
    relations,      \* active rows of issue_relations: <<type, source, target>>
    runIssue,       \* run_attempts.issue_id
    runStatus,      \* run_attempts.status
    runSource,      \* run_attempts.source_issue_state
    runCode,        \* run_attempts.failure_code
    token,          \* run_tool_tokens of the run
    handoff,        \* handoffs.payload_hash (UNIQUE run_id)
    packetNo,       \* review_packets.packet_no (UNIQUE run_id), 0 for none
    attention       \* observation: a run of the issue ended without success
                    \* and the operator has not acted on the issue since

issueVars == <<state, valid, pause, latestRun, latestPacket>>
runVars == <<runIssue, runStatus, runSource, runCode>>
workVars == <<token, handoff, packetNo>>
vars == <<issueVars, relations, runVars, workVars, attention>>

TypeOK ==
    /\ state \in [Issues -> IssueState \cup {"Absent"}]
    /\ valid \in [Issues -> BOOLEAN]
    /\ pause \in [Issues -> PauseReason]
    /\ latestRun \in [Issues -> Runs \cup {None}]
    /\ latestPacket \in [Issues -> Runs \cup {None}]
    /\ relations \subseteq (RelationType \X Issues \X Issues)
    /\ runIssue \in [Runs -> Issues \cup {None}]
    /\ runStatus \in [Runs -> ActiveRunStatus \cup EndedRunStatus \cup {"none"}]
    /\ runSource \in [Runs -> DispatchState \cup {"none"}]
    /\ runCode \in [Runs -> FailureCode \cup {"none"}]
    /\ token \in [Runs -> {"none", "live", "revoked"}]
    /\ handoff \in [Runs -> Payloads \cup {None}]
    /\ packetNo \in [Runs -> Nat]
    /\ attention \in [Issues -> BOOLEAN]

Init ==
    /\ state = [i \in Issues |-> "Absent"]
    /\ valid = [i \in Issues |-> FALSE]
    /\ pause = [i \in Issues |-> "no"]
    /\ latestRun = [i \in Issues |-> None]
    /\ latestPacket = [i \in Issues |-> None]
    /\ relations = {}
    /\ runIssue = [r \in Runs |-> None]
    /\ runStatus = [r \in Runs |-> "none"]
    /\ runSource = [r \in Runs |-> "none"]
    /\ runCode = [r \in Runs |-> "none"]
    /\ token = [r \in Runs |-> "none"]
    /\ handoff = [r \in Runs |-> None]
    /\ packetNo = [r \in Runs |-> 0]
    /\ attention = [i \in Issues |-> FALSE]

-----------------------------------------------------------------------------
(* Queries.                                                                *)

Exists(i) == state[i] # "Absent"

IsActive(r) == runStatus[r] \in ActiveRunStatus

Ended(r) == runStatus[r] \in EndedRunStatus

ActiveRuns == {r \in Runs : IsActive(r)}

\* Mutant: the query knows only the last of the active statuses.
ActiveRunsOfRunning(i) == {r \in Runs : runStatus[r] = "running" /\ runIssue[r] = i}

\* activeRunIDTx: the issue's runs in an active status.
ActiveRunsOf(i) == {r \in ActiveRuns : runIssue[r] = i}

\* ClaimRun's default for a configured limit that is not positive.
Limit == IF MaxConcurrent <= 0 THEN 3 ELSE MaxConcurrent

\* Mutant: one run too many.
HasSlotOffByOne == Cardinality(ActiveRuns) <= Limit

HasSlot == Cardinality(ActiveRuns) < Limit

\* Runs of issue i that have a review packet row, and the newest such row.
PacketRuns(i) == {r \in Runs : runIssue[r] = i /\ packetNo[r] # 0}

IsNewestPacket(i, r) ==
    /\ r \in PacketRuns(i)
    /\ \A q \in PacketRuns(i) : packetNo[q] <= packetNo[r]

-----------------------------------------------------------------------------
(* Issues: creation, editing, relations and dispatch control.              *)

\* createIssueInTx, reached from CreateIssue and CreateFollowupIssue.  A
\* description makes the required fields valid (default criteria and priority
\* are filled in); without one they are incomplete.
CreateIssue(i, hasDescription) ==
    /\ ~Exists(i)
    /\ state' = [state EXCEPT ![i] = "Inbox"]
    /\ valid' = [valid EXCEPT ![i] = hasDescription]
    /\ UNCHANGED <<pause, latestRun, latestPacket, relations, runVars, workVars, attention>>

\* UpdateIssue does not look at the issue's state: fields can be blanked or
\* filled in while the issue is Ready or Working.
UpdateIssue(i, nowValid) ==
    /\ Exists(i)
    /\ valid' = [valid EXCEPT ![i] = nowValid]
    /\ UNCHANGED <<state, pause, latestRun, latestPacket, relations, runVars, workVars, attention>>

AddBlocker(i, b) ==
    /\ Exists(i) /\ Exists(b) /\ i # b
    /\ relations' = relations \cup {<<"blocks", i, b>>}
    /\ UNCHANGED <<issueVars, runVars, workVars, attention>>

RemoveBlocker(i, b) ==
    /\ relations' = relations \ {<<"blocks", i, b>>}
    /\ UNCHANGED <<issueVars, runVars, workVars, attention>>

RemoveDuplicate(i, c) ==
    /\ relations' = relations \ {<<"duplicates", i, c>>}
    /\ UNCHANGED <<issueVars, runVars, workVars, attention>>

\* Mutant: an issue whose run is active can be paused and resumed.
CanControlWorking(i) ==
    /\ Exists(i)
    /\ state[i] \notin TerminalIssueState

\* DispatchPause and DispatchResume refuse a terminal issue and an active run.
CanControlDispatch(i) ==
    /\ Exists(i)
    /\ state[i] \notin TerminalIssueState
    /\ ActiveRunsOf(i) = {}

DispatchPause(i) ==
    /\ CanControlDispatch(i)
    /\ pause' = [pause EXCEPT ![i] = "operator"]
    /\ UNCHANGED <<state, valid, latestRun, latestPacket, relations, runVars, workVars, attention>>

DispatchResume(i) ==
    /\ CanControlDispatch(i)
    /\ pause' = [pause EXCEPT ![i] = "no"]
    /\ attention' = [attention EXCEPT ![i] = FALSE]
    /\ UNCHANGED <<state, valid, latestRun, latestPacket, relations, runVars, workVars>>

-----------------------------------------------------------------------------
(* Runs: claim, progress and the five ways a run ends.                     *)

ClaimRun(i, r) ==
    /\ runStatus[r] = "none"
    /\ state[i] \in DispatchState
    /\ valid[i]
    /\ pause[i] = "no"
    /\ ~ \E b \in Issues : <<"blocks", i, b>> \in relations
    /\ ActiveRunsOf(i) = {}
    /\ HasSlot
    /\ runStatus' = [runStatus EXCEPT ![r] = "pending"]
    /\ runIssue' = [runIssue EXCEPT ![r] = i]
    /\ runSource' = [runSource EXCEPT ![r] = state[i]]
    /\ state' = [state EXCEPT ![i] = "Working"]
    /\ latestRun' = [latestRun EXCEPT ![i] = r]
    /\ UNCHANGED <<valid, pause, latestPacket, relations, runCode, workVars, attention>>

\* UpdateRunStatus moves an active run to any other active status.
UpdateRunStatus(r, status) ==
    /\ IsActive(r)
    /\ status \in ActiveRunStatus
    /\ runStatus' = [runStatus EXCEPT ![r] = status]
    /\ UNCHANGED <<issueVars, relations, runIssue, runSource, runCode, workVars, attention>>

\* Mutants: the issue stays as it is; a run claimed from Rework is forgotten.
RestoredStateKept(r) == state[runIssue[r]]
RestoredStateReady(r) == "Ready"

\* The state an issue goes back to when its run ends without success.
RestoredState(r) ==
    LET cur == state[runIssue[r]]
    IN  IF cur \in TerminalIssueState \cup {"Blocked"} THEN cur ELSE runSource[r]

\* Mutants: an ended run ends again; the failure code is not recorded.
EndRunAgain(r, status, code) ==
    /\ runStatus[r] # "none"
    /\ runStatus' = [runStatus EXCEPT ![r] = status]
    /\ runCode' = [runCode EXCEPT ![r] = code]
    /\ attention' = [attention EXCEPT ![runIssue[r]] = TRUE]
    /\ UNCHANGED <<runIssue, runSource>>

EndRunWithoutCode(r, status, code) ==
    /\ IsActive(r)
    /\ runStatus' = [runStatus EXCEPT ![r] = status]
    /\ attention' = [attention EXCEPT ![runIssue[r]] = TRUE]
    /\ UNCHANGED <<runIssue, runSource, runCode>>

\* What failRunInTx, cancelRunInTx and BlockRunByAgent have in common.
EndRun(r, status, code) ==
    /\ IsActive(r)
    /\ runStatus' = [runStatus EXCEPT ![r] = status]
    /\ runCode' = [runCode EXCEPT ![r] = code]
    /\ attention' = [attention EXCEPT ![runIssue[r]] = TRUE]
    /\ UNCHANGED <<runIssue, runSource>>

RevokeTokens(r) ==
    token' = [token EXCEPT ![r] = IF @ = "live" THEN "revoked" ELSE @]

\* Mutant: the issue is not paused.
FailRunUnpaused(r, status, code) ==
    /\ EndRun(r, status, code)
    /\ state' = [state EXCEPT ![runIssue[r]] = RestoredState(r)]
    /\ UNCHANGED <<valid, pause, latestRun, latestPacket, relations, workVars>>

\* failRunInTx leaves the run's tool tokens as they are.
FailRun(r, status, code) ==
    /\ EndRun(r, status, code)
    /\ state' = [state EXCEPT ![runIssue[r]] = RestoredState(r)]
    /\ pause' = [pause EXCEPT ![runIssue[r]] = code]
    /\ UNCHANGED <<valid, latestRun, latestPacket, relations, workVars>>

\* CancelRun, and DecideApproval with cancel_run.
CancelRun(r) ==
    /\ EndRun(r, "cancelled", "operator_cancelled")
    /\ state' = [state EXCEPT ![runIssue[r]] = RestoredState(r)]
    /\ pause' = [pause EXCEPT ![runIssue[r]] = "operator_cancelled"]
    /\ RevokeTokens(r)
    /\ UNCHANGED <<valid, latestRun, latestPacket, relations, handoff, packetNo>>

BlockRunByAgent(r) ==
    /\ EndRun(r, "cancelled", "agent_blocked")
    /\ state' = [state EXCEPT ![runIssue[r]] = "Blocked"]
    /\ pause' = [pause EXCEPT ![runIssue[r]] = "agent_blocked"]
    /\ RevokeTokens(r)
    /\ UNCHANGED <<valid, latestRun, latestPacket, relations, handoff, packetNo>>

\* One iteration of ReconcileStaleActiveRuns.
ReconcileRun(r) == FailRun(r, "failed", "daemon_restarted_run_interrupted")

CompleteRunWithReview(r) ==
    /\ IsActive(r)
    /\ packetNo[r] # 0
    /\ runStatus' = [runStatus EXCEPT ![r] = "completed"]
    /\ state' = [state EXCEPT ![runIssue[r]] = "HumanReview"]
    /\ pause' = [pause EXCEPT ![runIssue[r]] = "no"]
    /\ latestPacket' = [latestPacket EXCEPT ![runIssue[r]] = r]
    /\ UNCHANGED <<valid, latestRun, relations, runIssue, runSource, runCode, workVars, attention>>

-----------------------------------------------------------------------------
(* What a run leaves behind: token, handoff, review packet.                *)

CreateToolToken(r) ==
    /\ runStatus[r] \in {"starting_agent", "running"}
    /\ token' = [token EXCEPT ![r] = "live"]
    /\ UNCHANGED <<issueVars, relations, runVars, handoff, packetNo, attention>>

\* The first handoff of a run wins; a later one is idempotent or a conflict and
\* writes nothing.  The insert does not look at the run's status.
InsertHandoff(r, payload) ==
    /\ runStatus[r] # "none"
    /\ handoff[r] = None
    /\ handoff' = [handoff EXCEPT ![r] = payload]
    /\ UNCHANGED <<issueVars, relations, runVars, token, packetNo, attention>>

\* The transaction of review.Generate, with insertReviewPacketInTx.  It needs
\* the run's handoff, and does not look at the run's status.
InsertReviewPacket(r) ==
    LET i == runIssue[r] IN
    /\ runStatus[r] # "none"
    /\ handoff[r] # None
    /\ packetNo[r] = 0
    /\ \/ PacketRuns(i) = {} /\ packetNo' = [packetNo EXCEPT ![r] = 1]
       \/ \E q \in PacketRuns(i) : /\ IsNewestPacket(i, q)
                                   /\ packetNo' = [packetNo EXCEPT ![r] = packetNo[q] + 1]
    /\ latestPacket' = [latestPacket EXCEPT ![i] = r]
    /\ UNCHANGED <<state, valid, pause, latestRun, relations, runVars, token, handoff, attention>>

-----------------------------------------------------------------------------
(* Operator transitions and review.                                        *)

\* Mutant: the targets of the dispatch and review calls are not excluded.
OperatorTargetAny == IssueState \ {"Working"}

OperatorTarget == {"Inbox", "Ready", "Blocked", "Cancelled", "Duplicate"}

MayTransition(i, target) ==
    /\ Exists(i)
    /\ target \in OperatorTarget
    /\ state[i] # target
    /\ target = "Ready" => valid[i]
    /\ state[i] = "Blocked" => target = "Ready"
    /\ state[i] \in TerminalIssueState => target \in {"Inbox", "Ready"}

\* The duplicates relation a transition to Duplicate adds for duplicate_of.
RelateDuplicate(i, target, duplicateOf) ==
    IF target # "Duplicate" \/ duplicateOf = None
    THEN UNCHANGED relations
    ELSE /\ Exists(duplicateOf) /\ duplicateOf # i
         /\ \A c \in Issues : <<"duplicates", i, c>> \in relations => c = duplicateOf
         /\ relations' = relations \cup {<<"duplicates", i, duplicateOf>>}

\* A transition ends the issue's active run in the same transaction, and the
\* pause that ending the run set stays.  Leaving a terminal state clears it.
TransitionIssue(i, target, duplicateOf) ==
    /\ MayTransition(i, target)
    /\ RelateDuplicate(i, target, duplicateOf)
    /\ state' = [state EXCEPT ![i] = target]
    /\ \/ /\ ActiveRunsOf(i) = {}
          /\ IF state[i] \in TerminalIssueState
             THEN /\ pause' = [pause EXCEPT ![i] = "no"]
                  /\ attention' = [attention EXCEPT ![i] = FALSE]
             ELSE UNCHANGED <<pause, attention>>
          /\ UNCHANGED <<runVars, token>>
       \/ \E r \in ActiveRunsOf(i) :
             /\ EndRun(r, "cancelled", "issue_state_changed")
             /\ RevokeTokens(r)
             /\ pause' = [pause EXCEPT ![i] = "issue_state_changed"]
    /\ UNCHANGED <<valid, latestRun, latestPacket, handoff, packetNo>>

\* The guards MarkDone and SendToRework share.
Reviewable(i) ==
    /\ state[i] = "HumanReview"
    /\ ActiveRunsOf(i) = {}
    /\ latestPacket[i] # None
    /\ IsNewestPacket(i, latestPacket[i])
    /\ runStatus[latestPacket[i]] = "completed"

ReviewAction(i, target) ==
    /\ Reviewable(i)
    /\ state' = [state EXCEPT ![i] = target]
    /\ pause' = [pause EXCEPT ![i] = "no"]
    /\ attention' = [attention EXCEPT ![i] = FALSE]
    /\ UNCHANGED <<valid, latestRun, latestPacket, relations, runVars, workVars>>

MarkDone(i) == ReviewAction(i, "Done")

SendToRework(i) == ReviewAction(i, "Rework")

-----------------------------------------------------------------------------
OperatorNext ==
    \/ \E i \in Issues, ok \in BOOLEAN : CreateIssue(i, ok) \/ UpdateIssue(i, ok)
    \/ \E p \in Related : \/ AddBlocker(p[1], p[2])
                          \/ RemoveBlocker(p[1], p[2])
                          \/ RemoveDuplicate(p[1], p[2])
    \/ \E i \in Issues : \/ DispatchPause(i)
                         \/ DispatchResume(i)
                         \/ MarkDone(i)
                         \/ SendToRework(i)
    \/ \E i \in Issues, target \in OperatorTarget :
          \/ TransitionIssue(i, target, None)
          \/ \E p \in Related : p[1] = i /\ TransitionIssue(i, target, p[2])
    \/ \E r \in Runs : CancelRun(r)

RunNext ==
    \/ \E i \in Issues, r \in Runs : ClaimRun(i, r)
    \/ \E r \in Runs : \/ \E status \in ActiveRunStatus : UpdateRunStatus(r, status)
                       \/ \E code \in WorkerCodes :
                             \/ FailRun(r, "failed", code)
                             \/ FailRun(r, "completed_without_handoff", code)
                       \/ BlockRunByAgent(r)
                       \/ ReconcileRun(r)
                       \/ CompleteRunWithReview(r)
                       \/ CreateToolToken(r)
                       \/ \E payload \in Payloads : InsertHandoff(r, payload)
                       \/ InsertReviewPacket(r)

Next == OperatorNext \/ RunNext

Spec == Init /\ [][Next]_vars

-----------------------------------------------------------------------------
(* Correctness properties.                                                 *)

\* An issue is Working exactly while one of its runs is active, whatever order
\* claims, failures, cancellations, transitions and reconciliation take.  A
\* Working issue without a run can neither be dispatched nor resumed.
WorkingIffActive ==
    \A i \in Issues : state[i] = "Working" <=> ActiveRunsOf(i) # {}

\* Two claims never leave one issue with two active runs, and an active run is
\* the one issues.latest_run_id names.
ActiveRunIsLatest ==
    \A r \in ActiveRuns : latestRun[runIssue[r]] = r

\* Dispatch from the scheduler, the HTTP API and a second process together
\* never exceed the configured number of concurrent runs.
ConcurrencyBound == Cardinality(ActiveRuns) <= Limit

\* No automatic retry: from the moment a run ends without success until the
\* operator resumes, reopens or reviews the issue, its dispatch is paused, so
\* no tick can claim it again.  Unblocking and editing do not lift the pause.
NoAutoRetry == \A i \in Issues : attention[i] => pause[i] # "no"

\* A pause that carries a failure code names the code the issue's latest run
\* ended with.
PauseExplained ==
    \A i \in Issues : pause[i] \in FailureCode =>
        latestRun[i] \in Runs /\ Ended(latestRun[i]) /\ runCode[latestRun[i]] = pause[i]

\* An issue in Human Review or Done got there by a completed run that handed
\* off and has a review packet; stale runs and manual transitions never
\* produce either state.
AcceptedWorkIsReviewed ==
    \A i \in Issues : state[i] \in {"HumanReview", "Done"} =>
        LET r == latestRun[i]
        IN  /\ r \in Runs
            /\ runIssue[r] = i /\ runStatus[r] = "completed"
            /\ handoff[r] # None /\ packetNo[r] # 0

\* A run that ended stays as it ended: a late worker, a repeated cancel or the
\* startup reconciliation never rewrites the outcome that won.
EndedRunsAreFinal ==
    [][\A r \in Runs : Ended(r) =>
          UNCHANGED <<runStatus[r], runCode[r], runIssue[r], runSource[r]>>]_vars

\* The state an issue was claimed from is not lost: when its run ends without
\* success the issue is back in that state, or where the agent's block or the
\* operator's transition in the same transaction put it.
RunEndRestoresIssue ==
    [][\A r \in Runs : IsActive(r) /\ Ended(r)' /\ runStatus'[r] # "completed" =>
          LET i == runIssue[r] IN
          \/ state'[i] = runSource[r] /\ pause'[i] = runCode'[r]
          \/ state'[i] = "Blocked" /\ pause'[i] = "agent_blocked"
          \/ state'[i] \in OperatorTarget /\ pause'[i] = "issue_state_changed"]_vars

-----------------------------------------------------------------------------
(* What the store promises, as IssueLifecycle: the states an operator moves   *)
(* an issue through are Open, and an attempt is a run.                     *)

PhaseOf(s) ==
    CASE s \in {"Absent", "Working"} -> s
      [] s = "HumanReview" -> "Review"
      [] s = "Done" -> "Accepted"
      [] OTHER -> "Open"

Lifecycle == INSTANCE IssueLifecycle WITH
    Attempts <- Runs,
    phase <- [i \in Issues |-> PhaseOf(state[i])],
    held <- {i \in Issues : pause[i] # "no"},
    last <- latestRun,
    begun <- {r \in Runs : runStatus[r] # "none"},
    spent <- {r \in Runs : Ended(r) /\ runStatus[r] # "completed"},
    delivered <- {r \in Runs : runStatus[r] = "completed"}

\* Every step of the store is one step of an issue's life or none: an attempt
\* is begun only on an issue that is not held, one at a time and below the
\* limit, holds the issue unless it is delivered, and only what was delivered
\* is accepted.
ImplementsLifecycle == Lifecycle!Spec

=============================================================================
