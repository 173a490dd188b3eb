----------------------- MODULE IssueLifecycle_proofs -----------------------
(***************************************************************************)
(* The store implements IssueLifecycle, for every set of issues and runs,  *)
(* every concurrency limit and every order of calls.                       *)
(***************************************************************************)
EXTENDS CodexRunner_proofs

Spent == {r \in Runs : Ended(r) /\ runStatus[r] # "completed"}

Delivered == {r \in Runs : runStatus[r] = "completed"}

Begun == {r \in Runs : runStatus[r] # "none"}

Held == {i \in Issues : pause[i] # "no"}

\* A step that changes one issue's state moves its phase.
LEMMA PhaseMoves ==
    ASSUME TypeOK, NEW i \in Issues, NEW s, NEW from, NEW to,
           state' = [state EXCEPT ![i] = s], PhaseOf(state[i]) = from, PhaseOf(s) = to
    PROVE  Lifecycle!Move(i, from, to)
<1> DEFINE phase == [j \in Issues |-> PhaseOf(state[j])]
<1>1. phase' = [phase EXCEPT ![i] = to] /\ phase[i] = from
  BY DEF TypeOK
<1> QED BY <1>1 DEF Lifecycle!Move

\* A step that writes one issue's pause holds or releases that issue.
LEMMA PauseHolds ==
    ASSUME TypeOK, NEW i \in Issues, NEW p, pause' = [pause EXCEPT ![i] = p]
    PROVE  Held' = IF p = "no" THEN Held \ {i} ELSE Held \cup {i}
BY DEF TypeOK, Held

\* A step that keeps every issue's state and pause, and whether and how each
\* run ended, changes nothing of the issue's life.
LEMMA Stutters ==
    ASSUME TypeOK, UNCHANGED <<state, pause, latestRun>>,
           \A r \in Runs : \/ UNCHANGED runStatus[r]
                           \/ IsActive(r) /\ IsActive(r)'
    PROVE  UNCHANGED Lifecycle!vars
<1>1. UNCHANGED <<Begun, Spent, Delivered>>
  BY DEF Begun, Spent, Delivered, Ended, EndedRunStatus, IsActive, ActiveRunStatus
<1> QED BY <1>1 DEF Lifecycle!vars, Begun, Spent, Delivered

\* A claim is the beginning of an attempt, below the limit.
LEMMA ClaimBegins ==
    ASSUME IndInv, NEW i \in Issues, NEW r \in Runs, ClaimRun(i, r)
    PROVE  Lifecycle!Begin(i, r)
<1> DEFINE phase == [j \in Issues |-> PhaseOf(state[j])]
           Working == {j \in Issues : phase[j] = "Working"}
<1>1. Cardinality(Working) < Limit
  <2> DEFINE issueOf == [q \in ActiveRuns |-> runIssue[q]]
  <2>1. issueOf \in Surjection(ActiveRuns, Working)
    <3>1. \A q \in ActiveRuns : runIssue[q] \in Working
      BY DEF IndInv, RunRows, ActiveRunHoldsIssue, ActiveRuns, IsActive, ActiveRunStatus,
             PhaseOf
    <3>2. \A j \in Working : \E q \in ActiveRuns : issueOf[q] = j
      <4> SUFFICES ASSUME NEW j \in Working PROVE \E q \in ActiveRuns : issueOf[q] = j
        OBVIOUS
      <4>1. state[j] = "Working"
        BY DEF IndInv, TypeOK, PhaseOf, IssueState
      <4>2. latestRun[j] \in ActiveRuns /\ runIssue[latestRun[j]] = j
        BY <4>1 DEF IndInv, WorkingIssueIsHeld, ActiveRuns
      <4> QED BY <4>2
    <3> QED BY <3>1, <3>2 DEF Surjection
  <2>2. IsFiniteSet(ActiveRuns)
    BY RunsAssumption, FS_Subset DEF ActiveRuns
  <2>3. IsFiniteSet(Working) /\ Cardinality(Working) <= Cardinality(ActiveRuns)
    BY <2>1, <2>2, FS_Surjection
  <2>4. Cardinality(Working) \in Nat /\ Cardinality(ActiveRuns) \in Nat
    BY <2>2, <2>3, FS_CardinalityType
  <2>5. Cardinality(ActiveRuns) < Limit /\ Limit \in Int
    BY MaxConcurrentAssumption DEF ClaimRun, HasSlot, Limit
  <2> HIDE DEF Working
  <2> QED BY <2>3, <2>4, <2>5
<1>2. Lifecycle!Move(i, "Open", "Working")
  <2>1. PhaseOf(state[i]) = "Open" /\ PhaseOf("Working") = "Working"
    BY DEF ClaimRun, DispatchState, PhaseOf
  <2> QED BY <2>1, PhaseMoves DEF ClaimRun, IndInv
<1>3. Begun' = Begun \cup {r} /\ r \notin Begun /\ UNCHANGED <<Spent, Delivered>>
  BY DEF ClaimRun, IndInv, TypeOK, Begun, Spent, Delivered, Ended, EndedRunStatus
<1>4. i \notin Held /\ UNCHANGED Held
  BY DEF ClaimRun, Held
<1>5. latestRun' = [latestRun EXCEPT ![i] = r]
  BY DEF ClaimRun
<1>6. Lifecycle!Cardinality(Working) = Cardinality(Working)
  BY DEF Lifecycle!Cardinality, Cardinality
<1> QED BY <1>1, <1>2, <1>3, <1>4, <1>5, <1>6 DEF Lifecycle!Begin, Begun, Spent, Delivered, Held

\* A run that ends without success, and puts its issue into any open state,
\* gives the attempt up and holds the issue.
LEMMA EndGivesUp ==
    ASSUME IndInv, NEW r \in Runs, NEW i \in Issues, runIssue[r] = i,
           NEW status, NEW code, NEW s, NEW p,
           EndRun(r, status, code), status \in EndedRunStatus \ {"completed"},
           state' = [state EXCEPT ![i] = s], PhaseOf(s) = "Open",
           pause' = [pause EXCEPT ![i] = p], p # "no",
           UNCHANGED latestRun
    PROVE  Lifecycle!GiveUp(i)
<1>1. state[i] = "Working" /\ latestRun[i] = r
  BY DEF EndRun, IndInv, RunRows, ActiveRunHoldsIssue, IsActive, ActiveRunStatus
<1>2. Lifecycle!Move(i, "Working", "Open") /\ Held' = Held \cup {i}
  <2>1. PhaseOf(state[i]) = "Working"
    BY <1>1 DEF PhaseOf
  <2> QED BY <1>1, <2>1, PhaseMoves, PauseHolds DEF IndInv
<1>3. Begun' = Begun /\ Spent' = Spent \cup {r} /\ Delivered' = Delivered
  BY DEF EndRun, IndInv, TypeOK, Begun, Spent, Delivered, Ended, EndedRunStatus,
         IsActive, ActiveRunStatus
<1> QED BY <1>1, <1>2, <1>3 DEF Lifecycle!GiveUp, Begun, Spent, Delivered, Held

\* The state an ended run gives its issue back is open.
LEMMA RestoredIsOpen ==
    ASSUME IndInv, NEW r \in Runs, IsActive(r)
    PROVE  PhaseOf(RestoredState(r)) = "Open"
<1>1. state[runIssue[r]] = "Working" /\ runSource[r] \in DispatchState
  BY DEF IndInv, RunRows, ActiveRunHoldsIssue, IsActive, ActiveRunStatus
<1> QED BY <1>1 DEF RestoredState, TerminalIssueState, DispatchState, PhaseOf

\* Worker failures and the startup reconciliation give the attempt up.
LEMMA FailureGivesUp ==
    ASSUME IndInv, NEW r \in Runs, NEW i \in Issues, runIssue[r] = i,
           NEW status \in EndedRunStatus \ {"completed"}, NEW code \in FailureCode,
           FailRun(r, status, code)
    PROVE  Lifecycle!GiveUp(i)
<1>1. code # "no"
  BY WorkerCodesAssumption DEF FailureCode, StoreCodes
<1>2. PhaseOf(RestoredState(r)) = "Open"
  BY RestoredIsOpen DEF FailRun, EndRun
<1> QED BY <1>1, <1>2, EndGivesUp DEF FailRun

\* A transition is a step of the issue's life or none: it gives up the attempt
\* under way, returns or reopens the issue, or moves it among the open states.
LEMMA TransitionSteps ==
    ASSUME IndInv, NEW i \in Issues, NEW target \in OperatorTarget, NEW duplicateOf,
           TransitionIssue(i, target, duplicateOf)
    PROVE  \/ \E j \in Issues : Lifecycle!GiveUp(j) \/ Lifecycle!Release(j)
                                \/ Lifecycle!Return(j) \/ Lifecycle!Reopen(j)
           \/ UNCHANGED Lifecycle!vars
<1>1. PhaseOf(target) = "Open"
  BY DEF OperatorTarget, PhaseOf
<1>2. ASSUME NEW r \in ActiveRunsOf(i), EndRun(r, "cancelled", "issue_state_changed"),
             pause' = [pause EXCEPT ![i] = "issue_state_changed"]
      PROVE  Lifecycle!GiveUp(i)
  <2>1. r \in Runs /\ runIssue[r] = i
    BY DEF ActiveRunsOf, ActiveRuns
  <2>2. "cancelled" \in EndedRunStatus \ {"completed"}
    BY DEF EndedRunStatus
  <2>3. UNCHANGED latestRun /\ state' = [state EXCEPT ![i] = target]
    BY DEF TransitionIssue
  <2> QED BY <1>1, <1>2, <2>1, <2>2, <2>3, EndGivesUp
<1>3. ASSUME ActiveRunsOf(i) = {}, UNCHANGED runVars,
             IF state[i] \in TerminalIssueState
             THEN pause' = [pause EXCEPT ![i] = "no"]
             ELSE UNCHANGED pause
      PROVE  \/ Lifecycle!Release(i) \/ Lifecycle!Return(i) \/ Lifecycle!Reopen(i)
             \/ UNCHANGED Lifecycle!vars
  <2>1. state' = [state EXCEPT ![i] = target] /\ TypeOK
    BY DEF TransitionIssue, IndInv
  <2>2. UNCHANGED <<Begun, Spent, Delivered, latestRun>>
    BY <1>3 DEF TransitionIssue, runVars, Begun, Spent, Delivered, Ended
  <2>3. CASE state[i] = "Done"
    <3>1. PhaseOf(state[i]) = "Accepted" /\ pause' = [pause EXCEPT ![i] = "no"]
      BY <1>3, <2>3 DEF PhaseOf, TerminalIssueState
    <3>2. Lifecycle!Move(i, "Accepted", "Open") /\ Held' = Held \ {i}
      BY <1>1, <2>1, <3>1, PhaseMoves, PauseHolds
    <3> QED BY <2>2, <3>2 DEF Lifecycle!Reopen, Begun, Spent, Delivered, Held
  <2>4. CASE state[i] \in {"Cancelled", "Duplicate"}
    <3>1. PhaseOf(state[i]) = "Open" /\ pause' = [pause EXCEPT ![i] = "no"]
      BY <1>3, <2>4 DEF PhaseOf, TerminalIssueState
    <3>2. \A j \in Issues : PhaseOf(state'[j]) = PhaseOf(state[j])
      BY <1>1, <2>1, <3>1 DEF TypeOK
    <3>3. Held' = Held \ {i}
      BY <2>1, <3>1, PauseHolds
    <3> QED BY <2>2, <3>1, <3>2, <3>3 DEF Lifecycle!Release, Begun, Spent, Delivered, Held
  <2>5. CASE state[i] = "HumanReview"
    <3>1. PhaseOf(state[i]) = "Review" /\ UNCHANGED pause
      BY <1>3, <2>5 DEF PhaseOf, TerminalIssueState
    <3>2. Lifecycle!Move(i, "Review", "Open") /\ UNCHANGED Held
      BY <1>1, <2>1, <3>1, PhaseMoves DEF Held
    <3> QED BY <2>2, <3>2 DEF Lifecycle!Return, Begun, Spent, Delivered, Held
  <2>6. CASE state[i] \in {"Inbox", "Ready", "Rework", "Blocked"}
    <3>1. PhaseOf(state[i]) = "Open" /\ UNCHANGED pause
      BY <1>3, <2>6 DEF PhaseOf, TerminalIssueState
    <3>2. \A j \in Issues : PhaseOf(state'[j]) = PhaseOf(state[j])
      BY <1>1, <2>1, <3>1 DEF TypeOK
    <3> QED BY <2>2, <3>1, <3>2 DEF Lifecycle!vars, Begun, Spent, Delivered
  <2>7. state[i] # "Working" /\ state[i] # "Absent"
    BY <1>3 DEF TransitionIssue, MayTransition, Exists, IndInv, WorkingIssueIsHeld,
                ActiveRunsOf, ActiveRuns
  <2> QED BY <2>3, <2>4, <2>5, <2>6, <2>7 DEF IndInv, TypeOK, IssueState
<1> QED BY <1>2, <1>3 DEF TransitionIssue

\* Every operation of the store is a step of IssueLifecycle or a stutter.
LEMMA LifecycleStep == IndInv /\ [Next]_vars => [Lifecycle!Next]_(Lifecycle!vars)
<1> SUFFICES ASSUME IndInv, [Next]_vars
             PROVE  Lifecycle!Next \/ UNCHANGED Lifecycle!vars
  OBVIOUS
<1> USE DEF Lifecycle!Next
<1>1. ASSUME NEW i \in Issues, NEW ok \in BOOLEAN, CreateIssue(i, ok)
      PROVE  Lifecycle!Open(i)
  <2>1. PhaseOf(state[i]) = "Absent" /\ PhaseOf("Inbox") = "Open"
    BY <1>1 DEF CreateIssue, Exists, PhaseOf
  <2>2. Lifecycle!Move(i, "Absent", "Open")
    BY <1>1, <2>1, PhaseMoves DEF CreateIssue, IndInv
  <2>3. UNCHANGED <<Begun, Spent, Delivered>>
    BY <1>1 DEF CreateIssue, runVars, Begun, Spent, Delivered, Ended
  <2> QED BY <1>1, <2>2, <2>3 DEF CreateIssue, Lifecycle!Open, Begun, Spent, Delivered, Held
<1>2. ASSUME NEW i \in Issues, DispatchPause(i) \/ DispatchResume(i)
      PROVE  Lifecycle!Hold(i) \/ Lifecycle!Release(i)
  <2>1. UNCHANGED <<state, latestRun, runStatus>>
    BY <1>2 DEF DispatchPause, DispatchResume, runVars
  <2>2. PhaseOf(state[i]) \in {"Open", "Review"}
    BY <1>2 DEF DispatchPause, DispatchResume, CanControlDispatch, Exists, IndInv,
                TypeOK, WorkingIssueIsHeld, ActiveRunsOf, ActiveRuns, PhaseOf, IssueState,
                TerminalIssueState
  <2>3. UNCHANGED <<Begun, Spent, Delivered>>
    BY <2>1 DEF Begun, Spent, Delivered, Ended
  <2>4. CASE DispatchPause(i)
    <3>1. Held' = Held \cup {i}
      BY <2>4 DEF DispatchPause, IndInv, TypeOK, Held
    <3> QED BY <2>1, <2>2, <2>3, <3>1 DEF Lifecycle!Hold, Begun, Spent, Delivered, Held
  <2>5. CASE DispatchResume(i)
    <3>1. Held' = Held \ {i}
      BY <2>5, PauseHolds DEF DispatchResume, IndInv
    <3> QED BY <2>1, <2>2, <2>3, <3>1 DEF Lifecycle!Release, Begun, Spent, Delivered, Held
  <2> QED BY <1>2, <2>4, <2>5
<1>3. ASSUME NEW i \in Issues, MarkDone(i) \/ SendToRework(i)
      PROVE  Lifecycle!Accept(i) \/ Lifecycle!Return(i)
  <2>1. /\ Reviewable(i) /\ Held' = Held \ {i}
        /\ UNCHANGED <<latestRun, runStatus>>
    BY <1>3, PauseHolds DEF IndInv, MarkDone, SendToRework, ReviewAction, runVars
  <2>2. PhaseOf(state[i]) = "Review" /\ latestRun[i] \in Delivered
    BY <2>1 DEF Reviewable, PhaseOf, IndInv, AcceptedWorkIsReviewed, Delivered
  <2>3. UNCHANGED <<Begun, Spent, Delivered>>
    BY <2>1 DEF Begun, Spent, Delivered, Ended
  <2>4. CASE MarkDone(i)
    <3>1. PhaseOf("Done") = "Accepted"
      BY DEF PhaseOf
    <3>2. Lifecycle!Move(i, "Review", "Accepted")
      BY <2>2, <2>4, <3>1, PhaseMoves DEF MarkDone, ReviewAction, IndInv
    <3> QED BY <2>1, <2>2, <2>3, <3>2 DEF Lifecycle!Accept, Begun, Spent, Delivered, Held
  <2>5. CASE SendToRework(i)
    <3>1. PhaseOf("Rework") = "Open"
      BY DEF PhaseOf
    <3>2. Lifecycle!Move(i, "Review", "Open")
      BY <2>2, <2>5, <3>1, PhaseMoves DEF SendToRework, ReviewAction, IndInv
    <3> QED BY <2>1, <2>3, <3>2 DEF Lifecycle!Return, Begun, Spent, Delivered, Held
  <2> QED BY <1>3, <2>4, <2>5
<1>4. ASSUME NEW r \in Runs, NEW i \in Issues, runIssue[r] = i,
             CancelRun(r) \/ BlockRunByAgent(r)
      PROVE  Lifecycle!GiveUp(i)
  <2>1. "cancelled" \in EndedRunStatus \ {"completed"} /\ PhaseOf("Blocked") = "Open"
    BY DEF EndedRunStatus, PhaseOf
  <2>2. CASE CancelRun(r)
    <3>1. PhaseOf(RestoredState(r)) = "Open"
      BY <2>2, RestoredIsOpen DEF CancelRun, EndRun
    <3> QED BY <1>4, <2>1, <2>2, <3>1, EndGivesUp DEF CancelRun
  <2>3. CASE BlockRunByAgent(r)
    BY <1>4, <2>1, <2>3, EndGivesUp DEF BlockRunByAgent
  <2> QED BY <1>4, <2>2, <2>3
<1>5. ASSUME NEW r \in Runs, NEW i \in Issues, runIssue[r] = i, CompleteRunWithReview(r)
      PROVE  Lifecycle!Deliver(i)
  <2>1. state[i] = "Working" /\ latestRun[i] = r
    BY <1>5 DEF CompleteRunWithReview, IndInv, RunRows, ActiveRunHoldsIssue, IsActive,
                ActiveRunStatus
  <2>2. Lifecycle!Move(i, "Working", "Review")
    <3>1. PhaseOf(state[i]) = "Working" /\ PhaseOf("HumanReview") = "Review"
      BY <2>1 DEF PhaseOf
    <3> QED BY <1>5, <2>1, <3>1, PhaseMoves DEF CompleteRunWithReview, IndInv
  <2>3. Begun' = Begun /\ Spent' = Spent /\ Delivered' = Delivered \cup {r}
    BY <1>5 DEF CompleteRunWithReview, IndInv, TypeOK, Begun, Spent, Delivered, Ended,
                EndedRunStatus, IsActive, ActiveRunStatus
  <2>4. UNCHANGED Held
    BY <1>5, <2>1 DEF CompleteRunWithReview, IndInv, TypeOK, WorkingIssueIsHeld, Held
  <2> QED BY <1>5, <2>1, <2>2, <2>3, <2>4
          DEF Lifecycle!Deliver, CompleteRunWithReview, Begun, Spent, Delivered, Held
<1>6. ASSUME NEW r \in Runs, NEW status \in ActiveRunStatus, UpdateRunStatus(r, status)
      PROVE  UNCHANGED Lifecycle!vars
  BY <1>6, Stutters DEF UpdateRunStatus, IsActive, IndInv, TypeOK, issueVars
<1>7. CASE UNCHANGED <<state, pause, latestRun, runStatus>>
  BY <1>7, Stutters DEF IndInv
<1>8. CASE OperatorNext
  <2>1. ASSUME NEW i \in Issues, NEW target \in OperatorTarget, NEW duplicateOf,
               TransitionIssue(i, target, duplicateOf)
        PROVE  Lifecycle!Next \/ UNCHANGED Lifecycle!vars
    BY <2>1, TransitionSteps
  <2>2. ASSUME NEW r \in Runs, CancelRun(r)
        PROVE  Lifecycle!Next
    <3>1. PICK i \in Issues : runIssue[r] = i
      BY <2>2 DEF CancelRun, EndRun, IndInv, RunRows, IsActive, ActiveRunStatus
    <3> QED BY <1>4, <2>2, <3>1
  <2>3. ASSUME NEW i \in Issues, DispatchPause(i) \/ DispatchResume(i) \/ MarkDone(i)
                                 \/ SendToRework(i)
        PROVE  Lifecycle!Next
    BY <1>2, <1>3, <2>3
  <2>4. ASSUME NEW i \in Issues, NEW ok \in BOOLEAN, CreateIssue(i, ok) \/ UpdateIssue(i, ok)
        PROVE  Lifecycle!Next \/ UNCHANGED Lifecycle!vars
    <3>1. CASE CreateIssue(i, ok)
      BY <1>1, <3>1
    <3>2. CASE UpdateIssue(i, ok)
      BY <1>7, <3>2 DEF UpdateIssue, runVars
    <3> QED BY <2>4, <3>1, <3>2
  <2>5. ASSUME NEW i, NEW b, AddBlocker(i, b) \/ RemoveBlocker(i, b) \/ RemoveDuplicate(i, b)
        PROVE  Lifecycle!Next \/ UNCHANGED Lifecycle!vars
    BY <1>7, <2>5 DEF AddBlocker, RemoveBlocker, RemoveDuplicate, issueVars, runVars
  <2> QED BY <1>8, <2>1, <2>2, <2>3, <2>4, <2>5 DEF OperatorNext
<1>9. CASE RunNext
  <2>1. ASSUME NEW i \in Issues, NEW r \in Runs, ClaimRun(i, r)
        PROVE  Lifecycle!Next
    BY <2>1, ClaimBegins
  <2>2. ASSUME NEW r \in Runs, NEW code \in WorkerCodes,
               \/ FailRun(r, "failed", code)
               \/ FailRun(r, "completed_without_handoff", code)
        PROVE  Lifecycle!Next
    <3>1. PICK i \in Issues : runIssue[r] = i
      BY <2>2 DEF FailRun, EndRun, IndInv, RunRows, IsActive, ActiveRunStatus
    <3>2. {"failed", "completed_without_handoff"} \subseteq EndedRunStatus \ {"completed"}
          /\ code \in FailureCode
      BY DEF EndedRunStatus, FailureCode
    <3> QED BY <2>2, <3>1, <3>2, FailureGivesUp
  <2>3. ASSUME NEW r \in Runs, ReconcileRun(r)
        PROVE  Lifecycle!Next
    <3>1. PICK i \in Issues : runIssue[r] = i
      BY <2>3 DEF ReconcileRun, FailRun, EndRun, IndInv, RunRows, IsActive, ActiveRunStatus
    <3>2. "failed" \in EndedRunStatus \ {"completed"}
          /\ "daemon_restarted_run_interrupted" \in FailureCode
      BY DEF EndedRunStatus, FailureCode, StoreCodes
    <3> QED BY <2>3, <3>1, <3>2, FailureGivesUp DEF ReconcileRun
  <2>4. ASSUME NEW r \in Runs, BlockRunByAgent(r)
        PROVE  Lifecycle!Next
    <3>1. PICK i \in Issues : runIssue[r] = i
      BY <2>4 DEF BlockRunByAgent, EndRun, IndInv, RunRows, IsActive, ActiveRunStatus
    <3> QED BY <1>4, <2>4, <3>1
  <2>5. ASSUME NEW r \in Runs, CompleteRunWithReview(r)
        PROVE  Lifecycle!Next
    <3>1. PICK i \in Issues : runIssue[r] = i
      BY <2>5 DEF CompleteRunWithReview, IndInv, RunRows, IsActive, ActiveRunStatus
    <3> QED BY <1>5, <2>5, <3>1
  <2>6. ASSUME NEW r \in Runs, NEW payload \in Payloads,
               CreateToolToken(r) \/ InsertHandoff(r, payload) \/ InsertReviewPacket(r)
        PROVE  Lifecycle!Next \/ UNCHANGED Lifecycle!vars
    BY <1>7, <2>6 DEF CreateToolToken, InsertHandoff, InsertReviewPacket, issueVars, runVars
  <2>7. ASSUME NEW r \in Runs, CreateToolToken(r) \/ InsertReviewPacket(r)
        PROVE  Lifecycle!Next \/ UNCHANGED Lifecycle!vars
    BY <1>7, <2>7 DEF CreateToolToken, InsertReviewPacket, issueVars, runVars
  <2> QED BY <1>6, <1>9, <2>1, <2>2, <2>3, <2>4, <2>5, <2>6, <2>7 DEF RunNext
<1>10. CASE UNCHANGED vars
  BY <1>7, <1>10 DEF vars, issueVars, runVars
<1> QED BY <1>8, <1>9, <1>10 DEF Next

\* The store implements the life of an issue: whatever order claims, failures,
\* cancellations, reviews and operator calls take, an issue has one attempt at
\* a time, is held after one that failed, and is accepted only when delivered.
THEOREM StoreImplementsLifecycle == Spec => ImplementsLifecycle
<1>1. ASSUME Init PROVE Lifecycle!Init
  <2>1. Begun = {} /\ Spent = {} /\ Delivered = {}
    BY <1>1 DEF Init, Begun, Spent, Delivered, Ended, EndedRunStatus
  <2>2. \A i \in Issues : PhaseOf(state[i]) = "Absent" /\ pause[i] = "no"
    BY <1>1 DEF Init, PhaseOf
  <2>3. [i \in Issues |-> PhaseOf(state[i])] = [i \in Issues |-> "Absent"]
    BY <2>2
  <2> QED BY <1>1, <2>1, <2>2, <2>3
          DEF Init, Lifecycle!Init, Begun, Spent, Delivered
<1>2. IndInv /\ [Next]_vars => [Lifecycle!Next]_(Lifecycle!vars)
  BY LifecycleStep
<1> QED BY <1>1, <1>2, Invariance, PTL DEF Spec, ImplementsLifecycle, Lifecycle!Spec

\* So does the whole system above it: run workers, tool calls, daemon restarts,
\* Codex turns and approvals only ever move an issue along its life.
THEOREM SystemImplementsLifecycle == CodexSpec => ImplementsLifecycle
BY StoreImplementsLifecycle, WorkersImplementStore, RunnersImplementAgents, PTL

=============================================================================
