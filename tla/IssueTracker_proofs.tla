------------------------ MODULE IssueTracker_proofs ------------------------
(***************************************************************************)
(* Proofs about IssueTracker, for every set of issues and runs, every      *)
(* concurrency limit and every order of calls.                             *)
(***************************************************************************)
EXTENDS IssueTracker, FiniteSetTheorems, TLAPS

\* A run row carries its issue and the dispatchable state it was claimed from.
RunRows ==
    \A r \in Runs : runStatus[r] # "none" =>
        runIssue[r] \in Issues /\ runSource[r] \in DispatchState

\* An active run holds its issue: the issue is Working and names the run as its
\* latest.
ActiveRunHoldsIssue ==
    \A r \in Runs : IsActive(r) =>
        /\ state[runIssue[r]] = "Working"
        /\ latestRun[runIssue[r]] = r

\* A Working issue is held by its latest run, and is not paused.
WorkingIssueIsHeld ==
    \A i \in Issues : state[i] = "Working" =>
        /\ latestRun[i] \in Runs
        /\ runIssue[latestRun[i]] = i
        /\ IsActive(latestRun[i])
        /\ pause[i] = "no"

\* A run completes only with a handoff and a review packet; both stay.
CompletedRunsHandedOff ==
    \A r \in Runs : /\ packetNo[r] # 0 => handoff[r] # None
                    /\ runStatus[r] = "completed" => packetNo[r] # 0

IndInv ==
    /\ TypeOK
    /\ RunRows
    /\ ActiveRunHoldsIssue
    /\ WorkingIssueIsHeld
    /\ CompletedRunsHandedOff
    /\ NoAutoRetry
    /\ PauseExplained
    /\ AcceptedWorkIsReviewed

-----------------------------------------------------------------------------
\* Every operation of the store keeps the inductive invariant.
LEMMA Preservation == IndInv /\ [Next]_vars => IndInv'
<1> SUFFICES ASSUME TypeOK, RunRows, ActiveRunHoldsIssue, WorkingIssueIsHeld,
                    CompletedRunsHandedOff, NoAutoRetry, PauseExplained,
                    AcceptedWorkIsReviewed, [Next]_vars
             PROVE  IndInv'
  BY DEF IndInv
<1>1. ASSUME NEW i \in Issues, NEW ok \in BOOLEAN, CreateIssue(i, ok)
     PROVE  IndInv'
  <2>1. TypeOK'
    BY <1>1 DEF CreateIssue, TypeOK, IssueState, runVars, workVars
  <2>2. ActiveRunHoldsIssue'
    <3> SUFFICES ASSUME NEW r \in Runs, IsActive(r)
                 PROVE  /\ state'[runIssue[r]] = "Working"
                        /\ latestRun[runIssue[r]] = r
      BY <1>1 DEF ActiveRunHoldsIssue, CreateIssue, IsActive, runVars
    <3>1. runIssue[r] \in Issues
      BY DEF RunRows, IsActive, ActiveRunStatus
    <3>2. state[runIssue[r]] = "Working" /\ latestRun[runIssue[r]] = r
      BY DEF ActiveRunHoldsIssue
    <3>3. runIssue[r] # i
      BY <1>1, <3>2 DEF CreateIssue, Exists
    <3> QED BY <1>1, <3>2, <3>3 DEF CreateIssue
  <2>3. WorkingIssueIsHeld'
    BY <1>1 DEF CreateIssue, WorkingIssueIsHeld, IsActive, runVars
  <2>4. RunRows' /\ CompletedRunsHandedOff' /\ NoAutoRetry' /\ PauseExplained'
      /\ AcceptedWorkIsReviewed'
    BY <1>1
       DEF CreateIssue, RunRows, CompletedRunsHandedOff, NoAutoRetry, PauseExplained, Ended,
           AcceptedWorkIsReviewed, runVars, workVars
  <2> QED BY <2>1, <2>2, <2>3, <2>4 DEF IndInv
<1>2. ASSUME NEW i \in Issues, NEW ok \in BOOLEAN, UpdateIssue(i, ok)
     PROVE  IndInv'
  <2>1. TypeOK'
    BY <1>2 DEF UpdateIssue, TypeOK, runVars, workVars
  <2>2. RunRows' /\ ActiveRunHoldsIssue' /\ WorkingIssueIsHeld' /\ CompletedRunsHandedOff'
      /\ NoAutoRetry' /\ PauseExplained' /\ AcceptedWorkIsReviewed'
    BY <1>2
       DEF UpdateIssue, RunRows, IsActive, ActiveRunHoldsIssue, WorkingIssueIsHeld,
           CompletedRunsHandedOff, NoAutoRetry, PauseExplained, Ended,
           AcceptedWorkIsReviewed, runVars, workVars
  <2> QED BY <2>1, <2>2 DEF IndInv
<1>3. ASSUME NEW i \in Issues, NEW b \in Issues, AddBlocker(i, b)
     PROVE  IndInv'
  <2>1. TypeOK'
    BY <1>3 DEF AddBlocker, TypeOK, RelationType, issueVars, runVars, workVars
  <2>2. RunRows' /\ ActiveRunHoldsIssue' /\ WorkingIssueIsHeld' /\ CompletedRunsHandedOff'
      /\ NoAutoRetry' /\ PauseExplained' /\ AcceptedWorkIsReviewed'
    BY <1>3
       DEF AddBlocker, RunRows, IsActive, ActiveRunHoldsIssue, WorkingIssueIsHeld,
           CompletedRunsHandedOff, NoAutoRetry, PauseExplained, Ended,
           AcceptedWorkIsReviewed, issueVars, runVars, workVars
  <2> QED BY <2>1, <2>2 DEF IndInv
<1>4. ASSUME NEW i \in Issues, NEW b \in Issues, RemoveBlocker(i, b)
     PROVE  IndInv'
  <2>1. TypeOK'
    BY <1>4 DEF RemoveBlocker, TypeOK, issueVars, runVars, workVars
  <2>2. RunRows' /\ ActiveRunHoldsIssue' /\ WorkingIssueIsHeld' /\ CompletedRunsHandedOff'
      /\ NoAutoRetry' /\ PauseExplained' /\ AcceptedWorkIsReviewed'
    BY <1>4
       DEF RemoveBlocker, RunRows, IsActive, ActiveRunHoldsIssue, WorkingIssueIsHeld,
           CompletedRunsHandedOff, NoAutoRetry, PauseExplained, Ended,
           AcceptedWorkIsReviewed, issueVars, runVars, workVars
  <2> QED BY <2>1, <2>2 DEF IndInv
<1>5. ASSUME NEW i \in Issues, NEW c \in Issues, RemoveDuplicate(i, c)
     PROVE  IndInv'
  <2>1. TypeOK'
    BY <1>5 DEF RemoveDuplicate, TypeOK, issueVars, runVars, workVars
  <2>2. RunRows' /\ ActiveRunHoldsIssue' /\ WorkingIssueIsHeld' /\ CompletedRunsHandedOff'
      /\ NoAutoRetry' /\ PauseExplained' /\ AcceptedWorkIsReviewed'
    BY <1>5
       DEF RemoveDuplicate, RunRows, IsActive, ActiveRunHoldsIssue, WorkingIssueIsHeld,
           CompletedRunsHandedOff, NoAutoRetry, PauseExplained, Ended,
           AcceptedWorkIsReviewed, issueVars, runVars, workVars
  <2> QED BY <2>1, <2>2 DEF IndInv
<1>6. ASSUME NEW i \in Issues, DispatchPause(i)
     PROVE  IndInv'
  <2>1. TypeOK'
    BY <1>6 DEF DispatchPause, TypeOK, PauseReason, runVars, workVars
  <2>2. WorkingIssueIsHeld'
    BY <1>6
       DEF DispatchPause, CanControlDispatch, WorkingIssueIsHeld, IsActive, ActiveRunsOf,
           ActiveRuns, runVars
  <2>3. NoAutoRetry'
    BY <1>6 DEF DispatchPause, NoAutoRetry
  <2>4. PauseExplained'
    BY <1>6, WorkerCodesAssumption
       DEF DispatchPause, PauseExplained, Ended, FailureCode, StoreCodes, runVars
  <2>5. RunRows' /\ ActiveRunHoldsIssue' /\ CompletedRunsHandedOff'
      /\ AcceptedWorkIsReviewed'
    BY <1>6
       DEF DispatchPause, RunRows, IsActive, ActiveRunHoldsIssue, CompletedRunsHandedOff,
           AcceptedWorkIsReviewed, runVars, workVars
  <2> QED BY <2>1, <2>2, <2>3, <2>4, <2>5 DEF IndInv
<1>7. ASSUME NEW i \in Issues, DispatchResume(i)
     PROVE  IndInv'
  <2>1. TypeOK'
    BY <1>7 DEF DispatchResume, TypeOK, PauseReason, runVars, workVars
  <2>2. WorkingIssueIsHeld'
    BY <1>7 DEF DispatchResume, WorkingIssueIsHeld, IsActive, runVars
  <2>3. NoAutoRetry'
    BY <1>7 DEF DispatchResume, TypeOK, NoAutoRetry
  <2>4. PauseExplained'
    BY <1>7, WorkerCodesAssumption
       DEF DispatchResume, PauseExplained, Ended, FailureCode, StoreCodes, runVars
  <2>5. RunRows' /\ ActiveRunHoldsIssue' /\ CompletedRunsHandedOff'
      /\ AcceptedWorkIsReviewed'
    BY <1>7
       DEF DispatchResume, RunRows, IsActive, ActiveRunHoldsIssue, CompletedRunsHandedOff,
           AcceptedWorkIsReviewed, runVars, workVars
  <2> QED BY <2>1, <2>2, <2>3, <2>4, <2>5 DEF IndInv
<1>8. ASSUME NEW i \in Issues, NEW target \in {"Done", "Rework"}, ReviewAction(i, target)
     PROVE  IndInv'
  <2>1. TypeOK'
    BY <1>8 DEF ReviewAction, TypeOK, IssueState, PauseReason, runVars, workVars
  <2>2. RunRows'
    BY <1>8 DEF ReviewAction, RunRows, runVars
  <2>3. ActiveRunHoldsIssue'
    BY <1>8 DEF ReviewAction, Reviewable, ActiveRunHoldsIssue, IsActive, runVars
  <2>4. WorkingIssueIsHeld'
    BY <1>8 DEF ReviewAction, WorkingIssueIsHeld, IsActive, runVars
  <2>5. CompletedRunsHandedOff'
    BY <1>8 DEF ReviewAction, CompletedRunsHandedOff, runVars, workVars
  <2>6. NoAutoRetry'
    BY <1>8 DEF ReviewAction, TypeOK, NoAutoRetry
  <2>7. PauseExplained'
    BY <1>8, WorkerCodesAssumption
       DEF ReviewAction, PauseExplained, Ended, FailureCode, StoreCodes, runVars
  <2>8. AcceptedWorkIsReviewed'
    BY <1>8 DEF ReviewAction, Reviewable, AcceptedWorkIsReviewed, runVars, workVars
  <2> QED BY <2>1, <2>2, <2>3, <2>4, <2>5, <2>6, <2>7, <2>8 DEF IndInv
<1>9. ASSUME NEW i \in Issues, NEW target \in OperatorTarget,
             NEW duplicateOf \in Issues \cup {None}, TransitionIssue(i, target, duplicateOf)
     PROVE  IndInv'
  <2>1. TypeOK'
    <3>1. relations' \subseteq (RelationType \X Issues \X Issues)
      <4>1. CASE target # "Duplicate" \/ duplicateOf = None
        BY <1>9, <4>1 DEF TransitionIssue, RelateDuplicate, TypeOK
      <4>2. CASE ~ (target # "Duplicate" \/ duplicateOf = None)
        <5>1. /\ duplicateOf \in Issues
              /\ relations' = relations \cup {<<"duplicates", i, duplicateOf>>}
          BY <1>9, <4>2 DEF TransitionIssue, RelateDuplicate
        <5> QED BY <5>1 DEF TypeOK, RelationType
      <4> QED BY <4>1, <4>2
    <3>2. state' \in [Issues -> IssueState \cup {"Absent"}]
      BY <1>9 DEF TransitionIssue, TypeOK, IssueState, OperatorTarget
    <3>3. /\ valid' = valid /\ latestRun' = latestRun /\ latestPacket' = latestPacket
          /\ handoff' = handoff /\ packetNo' = packetNo
      BY <1>9 DEF TransitionIssue
    <3>4. /\ pause' \in [Issues -> PauseReason]
          /\ attention' \in [Issues -> BOOLEAN]
          /\ runIssue' \in [Runs -> Issues \cup {None}]
          /\ runStatus' \in [Runs -> ActiveRunStatus \cup EndedRunStatus \cup {"none"}]
          /\ runSource' \in [Runs -> DispatchState \cup {"none"}]
          /\ runCode' \in [Runs -> FailureCode \cup {"none"}]
          /\ token' \in [Runs -> {"none", "live", "revoked"}]
      <4>1. CASE ActiveRunsOf(i) = {} /\ UNCHANGED <<runVars, token>>
        BY <1>9, <4>1 DEF TransitionIssue, TypeOK, PauseReason, runVars
      <4>2. ASSUME NEW r \in ActiveRunsOf(i),
                   EndRun(r, "cancelled", "issue_state_changed"), RevokeTokens(r),
                   pause' = [pause EXCEPT ![i] = "issue_state_changed"]
            PROVE  <3>4!:
        BY <4>2
           DEF TypeOK, EndRun, RevokeTokens, PauseReason, FailureCode, StoreCodes,
               EndedRunStatus
      <4> QED BY <1>9, <4>1, <4>2 DEF TransitionIssue
    <3> QED BY <3>1, <3>2, <3>3, <3>4 DEF TypeOK
  <2>2. RunRows'
    BY <1>9 DEF TransitionIssue, EndRun, TypeOK, RunRows, IsActive, ActiveRunStatus, runVars
  <2>3. ActiveRunHoldsIssue'
    BY <1>9
       DEF TransitionIssue, EndRun, TypeOK, ActiveRunHoldsIssue, IsActive, ActiveRunStatus,
           ActiveRunsOf, ActiveRuns, runVars
  <2>4. WorkingIssueIsHeld'
    BY <1>9
       DEF TransitionIssue, OperatorTarget, EndRun, TypeOK, WorkingIssueIsHeld, IsActive,
           ActiveRunsOf, runVars
  <2>5. CompletedRunsHandedOff'
    BY <1>9 DEF TransitionIssue, EndRun, TypeOK, CompletedRunsHandedOff, runVars
  <2>6. NoAutoRetry'
    BY <1>9 DEF TransitionIssue, EndRun, TypeOK, NoAutoRetry, ActiveRunsOf
  <2>7. PauseExplained'
    BY <1>9, WorkerCodesAssumption
       DEF TransitionIssue, EndRun, TypeOK, ActiveRunHoldsIssue, PauseExplained, IsActive,
           Ended, EndedRunStatus, ActiveRunStatus, ActiveRunsOf, ActiveRuns, FailureCode,
           StoreCodes, runVars
  <2>8. AcceptedWorkIsReviewed'
    BY <1>9
       DEF TransitionIssue, OperatorTarget, EndRun, TypeOK, ActiveRunHoldsIssue,
           AcceptedWorkIsReviewed, runVars
  <2> QED BY <2>1, <2>2, <2>3, <2>4, <2>5, <2>6, <2>7, <2>8 DEF IndInv
<1>10. ASSUME NEW i \in Issues, NEW r \in Runs, ClaimRun(i, r)
     PROVE  IndInv'
  <2>1. TypeOK'
    BY <1>10 DEF ClaimRun, TypeOK, IssueState, ActiveRunStatus, workVars
  <2>2. RunRows'
    BY <1>10 DEF ClaimRun, TypeOK, RunRows
  <2>3. ActiveRunHoldsIssue'
    BY <1>10 DEF ClaimRun, TypeOK, ActiveRunHoldsIssue, IsActive, ActiveRunsOf, ActiveRuns
  <2>4. WorkingIssueIsHeld'
    BY <1>10 DEF ClaimRun, TypeOK, WorkingIssueIsHeld, IsActive, ActiveRunStatus
  <2>5. CompletedRunsHandedOff'
    BY <1>10 DEF ClaimRun, CompletedRunsHandedOff, workVars
  <2>6. NoAutoRetry'
    BY <1>10 DEF ClaimRun, NoAutoRetry
  <2>7. PauseExplained'
    BY <1>10, WorkerCodesAssumption
       DEF ClaimRun, PauseExplained, Ended, EndedRunStatus, FailureCode, StoreCodes
  <2>8. AcceptedWorkIsReviewed'
    BY <1>10 DEF ClaimRun, TypeOK, AcceptedWorkIsReviewed, workVars
  <2> QED BY <2>1, <2>2, <2>3, <2>4, <2>5, <2>6, <2>7, <2>8 DEF IndInv
<1>11. ASSUME NEW r \in Runs, NEW status \in ActiveRunStatus, UpdateRunStatus(r, status)
     PROVE  IndInv'
  <2>1. TypeOK'
    BY <1>11 DEF UpdateRunStatus, TypeOK, issueVars, workVars
  <2>2. RunRows'
    BY <1>11 DEF UpdateRunStatus, RunRows, IsActive, ActiveRunStatus
  <2>3. ActiveRunHoldsIssue'
    BY <1>11 DEF UpdateRunStatus, ActiveRunHoldsIssue, IsActive, issueVars
  <2>4. WorkingIssueIsHeld'
    BY <1>11 DEF UpdateRunStatus, WorkingIssueIsHeld, IsActive, issueVars
  <2>5. CompletedRunsHandedOff'
    BY <1>11 DEF UpdateRunStatus, CompletedRunsHandedOff, ActiveRunStatus, workVars
  <2>6. PauseExplained'
    BY <1>11
       DEF UpdateRunStatus, PauseExplained, IsActive, Ended, EndedRunStatus,
           ActiveRunStatus, issueVars
  <2>7. AcceptedWorkIsReviewed'
    BY <1>11
       DEF UpdateRunStatus, ActiveRunHoldsIssue, AcceptedWorkIsReviewed, issueVars, workVars
  <2>8. NoAutoRetry'
    BY <1>11 DEF UpdateRunStatus, NoAutoRetry, issueVars
  <2> QED BY <2>1, <2>2, <2>3, <2>4, <2>5, <2>6, <2>7, <2>8 DEF IndInv
<1>12. ASSUME NEW r \in Runs, NEW status \in {"failed", "completed_without_handoff"},
              NEW code \in FailureCode, FailRun(r, status, code)
     PROVE  IndInv'
  <2>0. state'[runIssue[r]] # "Working"
    BY <1>12
       DEF FailRun, EndRun, RestoredState, TypeOK, RunRows, IsActive, ActiveRunStatus,
           DispatchState, TerminalIssueState
  <2>1. TypeOK'
    BY <1>12
       DEF FailRun, EndRun, RestoredState, TypeOK, RunRows, IssueState, DispatchState,
           ActiveRunStatus, EndedRunStatus, PauseReason, IsActive, workVars
  <2>2. RunRows'
    BY <1>12 DEF FailRun, EndRun, RunRows, IsActive, ActiveRunStatus
  <2>3. ActiveRunHoldsIssue'
    BY <1>12 DEF FailRun, EndRun, TypeOK, ActiveRunHoldsIssue, IsActive, ActiveRunStatus
  <2>4. WorkingIssueIsHeld'
    BY <1>12, <2>0 DEF FailRun, EndRun, WorkingIssueIsHeld, IsActive
  <2>5. CompletedRunsHandedOff'
    BY <1>12 DEF FailRun, EndRun, CompletedRunsHandedOff, workVars
  <2>6. NoAutoRetry'
    BY <1>12, WorkerCodesAssumption
       DEF FailRun, EndRun, TypeOK, NoAutoRetry, FailureCode, StoreCodes
  <2>7. PauseExplained'
    BY <1>12
       DEF FailRun, EndRun, TypeOK, ActiveRunHoldsIssue, PauseExplained, IsActive, Ended,
           EndedRunStatus, ActiveRunStatus
  <2>8. AcceptedWorkIsReviewed'
    BY <1>12
       DEF FailRun, EndRun, RestoredState, TypeOK, ActiveRunHoldsIssue,
           AcceptedWorkIsReviewed, DispatchState, workVars
  <2> QED BY <2>1, <2>2, <2>3, <2>4, <2>5, <2>6, <2>7, <2>8 DEF IndInv
<1>13. ASSUME NEW r \in Runs, CancelRun(r)
     PROVE  IndInv'
  <2>0. state'[runIssue[r]] # "Working"
    BY <1>13
       DEF CancelRun, EndRun, RestoredState, TypeOK, RunRows, IsActive, ActiveRunStatus,
           DispatchState, TerminalIssueState
  <2>1. TypeOK'
    BY <1>13
       DEF CancelRun, EndRun, RevokeTokens, RestoredState, TypeOK, RunRows, IssueState,
           DispatchState, ActiveRunStatus, EndedRunStatus, FailureCode, StoreCodes,
           PauseReason, IsActive
  <2>2. RunRows'
    BY <1>13 DEF CancelRun, EndRun, RunRows, IsActive, ActiveRunStatus
  <2>3. ActiveRunHoldsIssue'
    BY <1>13 DEF CancelRun, EndRun, TypeOK, ActiveRunHoldsIssue, IsActive, ActiveRunStatus
  <2>4. WorkingIssueIsHeld'
    BY <1>13, <2>0 DEF CancelRun, EndRun, WorkingIssueIsHeld, IsActive
  <2>5. CompletedRunsHandedOff'
    BY <1>13 DEF CancelRun, EndRun, CompletedRunsHandedOff
  <2>6. NoAutoRetry'
    BY <1>13 DEF CancelRun, EndRun, TypeOK, NoAutoRetry
  <2>7. PauseExplained'
    BY <1>13
       DEF CancelRun, EndRun, TypeOK, ActiveRunHoldsIssue, PauseExplained, IsActive, Ended,
           EndedRunStatus, ActiveRunStatus
  <2>8. AcceptedWorkIsReviewed'
    BY <1>13
       DEF CancelRun, EndRun, RestoredState, TypeOK, ActiveRunHoldsIssue,
           AcceptedWorkIsReviewed, DispatchState
  <2> QED BY <2>1, <2>2, <2>3, <2>4, <2>5, <2>6, <2>7, <2>8 DEF IndInv
<1>14. ASSUME NEW r \in Runs, BlockRunByAgent(r)
     PROVE  IndInv'
  <2>1. TypeOK'
    BY <1>14
       DEF BlockRunByAgent, EndRun, RevokeTokens, TypeOK, IssueState, EndedRunStatus,
           FailureCode, StoreCodes, PauseReason
  <2>2. RunRows'
    BY <1>14 DEF BlockRunByAgent, EndRun, RunRows, IsActive, ActiveRunStatus
  <2>3. ActiveRunHoldsIssue'
    BY <1>14
       DEF BlockRunByAgent, EndRun, TypeOK, ActiveRunHoldsIssue, IsActive, ActiveRunStatus
  <2>4. WorkingIssueIsHeld'
    BY <1>14 DEF BlockRunByAgent, EndRun, TypeOK, WorkingIssueIsHeld, IsActive
  <2>5. CompletedRunsHandedOff'
    BY <1>14 DEF BlockRunByAgent, EndRun, CompletedRunsHandedOff
  <2>6. NoAutoRetry'
    BY <1>14 DEF BlockRunByAgent, EndRun, TypeOK, NoAutoRetry
  <2>7. PauseExplained'
    BY <1>14
       DEF BlockRunByAgent, EndRun, TypeOK, ActiveRunHoldsIssue, PauseExplained, IsActive,
           Ended, EndedRunStatus, ActiveRunStatus
  <2>8. AcceptedWorkIsReviewed'
    BY <1>14 DEF BlockRunByAgent, EndRun, TypeOK, AcceptedWorkIsReviewed
  <2> QED BY <2>1, <2>2, <2>3, <2>4, <2>5, <2>6, <2>7, <2>8 DEF IndInv
<1>15. ASSUME NEW r \in Runs, CompleteRunWithReview(r)
     PROVE  IndInv'
  <2>1. TypeOK'
    BY <1>15
       DEF CompleteRunWithReview, TypeOK, IssueState, EndedRunStatus, PauseReason, workVars
  <2>2. RunRows'
    BY <1>15 DEF CompleteRunWithReview, RunRows, IsActive, ActiveRunStatus
  <2>3. ActiveRunHoldsIssue'
    BY <1>15
       DEF CompleteRunWithReview, TypeOK, ActiveRunHoldsIssue, IsActive, ActiveRunStatus
  <2>4. WorkingIssueIsHeld'
    BY <1>15 DEF CompleteRunWithReview, TypeOK, WorkingIssueIsHeld, IsActive
  <2>5. CompletedRunsHandedOff'
    BY <1>15 DEF CompleteRunWithReview, CompletedRunsHandedOff, workVars
  <2>6. NoAutoRetry'
    BY <1>15 DEF CompleteRunWithReview, ActiveRunHoldsIssue, WorkingIssueIsHeld, NoAutoRetry
  <2>7. PauseExplained'
    BY <1>15
       DEF CompleteRunWithReview, ActiveRunHoldsIssue, WorkingIssueIsHeld, PauseExplained,
           Ended, EndedRunStatus
  <2>8. AcceptedWorkIsReviewed'
    BY <1>15
       DEF CompleteRunWithReview, TypeOK, ActiveRunHoldsIssue, CompletedRunsHandedOff,
           AcceptedWorkIsReviewed, workVars
  <2> QED BY <2>1, <2>2, <2>3, <2>4, <2>5, <2>6, <2>7, <2>8 DEF IndInv
<1>16. ASSUME NEW r \in Runs, CreateToolToken(r)
     PROVE  IndInv'
  <2>1. TypeOK'
    BY <1>16 DEF CreateToolToken, TypeOK, issueVars, runVars
  <2>2. RunRows' /\ ActiveRunHoldsIssue' /\ WorkingIssueIsHeld' /\ CompletedRunsHandedOff'
      /\ NoAutoRetry' /\ PauseExplained' /\ AcceptedWorkIsReviewed'
    BY <1>16
       DEF CreateToolToken, RunRows, IsActive, ActiveRunHoldsIssue, WorkingIssueIsHeld,
           CompletedRunsHandedOff, NoAutoRetry, PauseExplained, Ended,
           AcceptedWorkIsReviewed, issueVars, runVars
  <2> QED BY <2>1, <2>2 DEF IndInv
<1>17. ASSUME NEW r \in Runs, NEW payload \in Payloads, InsertHandoff(r, payload)
     PROVE  IndInv'
  <2>1. TypeOK'
    BY <1>17 DEF InsertHandoff, TypeOK, issueVars, runVars
  <2>2. CompletedRunsHandedOff'
    BY <1>17 DEF InsertHandoff, CompletedRunsHandedOff, runVars
  <2>3. AcceptedWorkIsReviewed'
    BY <1>17 DEF InsertHandoff, AcceptedWorkIsReviewed, issueVars, runVars
  <2>4. RunRows' /\ ActiveRunHoldsIssue' /\ WorkingIssueIsHeld' /\ NoAutoRetry'
      /\ PauseExplained'
    BY <1>17
       DEF InsertHandoff, RunRows, IsActive, ActiveRunHoldsIssue, WorkingIssueIsHeld,
           NoAutoRetry, PauseExplained, Ended, issueVars, runVars
  <2> QED BY <2>1, <2>2, <2>3, <2>4 DEF IndInv
<1>18. ASSUME NEW r \in Runs, InsertReviewPacket(r)
     PROVE  IndInv'
  <2>1. TypeOK'
    BY <1>18 DEF InsertReviewPacket, PacketRuns, TypeOK, RunRows, runVars
  <2>2. CompletedRunsHandedOff'
    BY <1>18 DEF InsertReviewPacket, TypeOK, CompletedRunsHandedOff, runVars
  <2>3. AcceptedWorkIsReviewed'
    BY <1>18 DEF InsertReviewPacket, TypeOK, AcceptedWorkIsReviewed, runVars
  <2>4. RunRows' /\ ActiveRunHoldsIssue' /\ WorkingIssueIsHeld' /\ NoAutoRetry'
      /\ PauseExplained'
    BY <1>18
       DEF InsertReviewPacket, RunRows, IsActive, ActiveRunHoldsIssue, WorkingIssueIsHeld,
           NoAutoRetry, PauseExplained, Ended, runVars
  <2> QED BY <2>1, <2>2, <2>3, <2>4 DEF IndInv
<1>19. CASE UNCHANGED vars
  BY <1>19
     DEF IndInv, TypeOK, RunRows, ActiveRunHoldsIssue, WorkingIssueIsHeld,
         CompletedRunsHandedOff, NoAutoRetry, PauseExplained, AcceptedWorkIsReviewed,
         IsActive, Ended, vars, issueVars, runVars, workVars
<1>20. CASE OperatorNext
  BY <1>20, <1>1, <1>2, <1>3, <1>4, <1>5, <1>6, <1>7, <1>8, <1>9, <1>13, RelatedAssumption
     DEF OperatorNext, MarkDone, SendToRework
<1>21. CASE RunNext
  BY <1>21, <1>10, <1>11, <1>12, <1>14, <1>15, <1>16, <1>17, <1>18
     DEF RunNext, ReconcileRun, FailureCode, StoreCodes
<1> QED BY <1>19, <1>20, <1>21 DEF Next

-----------------------------------------------------------------------------
\* The empty store satisfies it.
LEMMA InitIndInv == Init => IndInv
<1> SUFFICES ASSUME Init PROVE IndInv
  OBVIOUS
<1>1. TypeOK
  BY DEF Init, TypeOK, PauseReason
<1>2. RunRows /\ ActiveRunHoldsIssue /\ CompletedRunsHandedOff
  BY DEF Init, RunRows, ActiveRunHoldsIssue, CompletedRunsHandedOff, IsActive,
         ActiveRunStatus
<1>3. WorkingIssueIsHeld /\ NoAutoRetry /\ AcceptedWorkIsReviewed
  BY DEF Init, WorkingIssueIsHeld, NoAutoRetry, AcceptedWorkIsReviewed
<1>4. PauseExplained
  BY WorkerCodesAssumption DEF Init, PauseExplained, FailureCode, StoreCodes
<1> QED BY <1>1, <1>2, <1>3, <1>4 DEF IndInv

\* The store keeps its inductive invariant under every operation, in any order.
THEOREM Invariance == Spec => []IndInv
<1>1. Init => IndInv
  BY InitIndInv
<1>2. IndInv /\ [Next]_vars => IndInv'
  BY Preservation
<1> QED BY <1>1, <1>2, PTL DEF Spec

\* Every column keeps to the values its CHECK constraint and foreign keys allow.
THEOREM TypeCorrect == Spec => []TypeOK
<1>1. IndInv => TypeOK
  BY DEF IndInv
<1> QED BY <1>1, Invariance, PTL

\* An issue is Working exactly while a run of it is active: no order of claims,
\* failures, cancellations, transitions and reconciliation strands an issue.
THEOREM WorkingMeansRunning == Spec => []WorkingIffActive
<1>1. IndInv => WorkingIffActive
  BY DEF IndInv, ActiveRunHoldsIssue, WorkingIssueIsHeld, WorkingIffActive, ActiveRunsOf,
         ActiveRuns
<1> QED BY <1>1, Invariance, PTL

\* An active run is its issue's latest run, so an issue has at most one.
THEOREM OneActiveRun == Spec => []ActiveRunIsLatest
<1>1. IndInv => ActiveRunIsLatest
  BY DEF IndInv, ActiveRunHoldsIssue, ActiveRunIsLatest, ActiveRuns
<1> QED BY <1>1, Invariance, PTL

\* After a run ended without success nothing dispatches the issue again until
\* the operator acts on it.
THEOREM NoRetryWithoutOperator == Spec => []NoAutoRetry
<1>1. IndInv => NoAutoRetry
  BY DEF IndInv
<1> QED BY <1>1, Invariance, PTL

\* A pause that names a failure names the failure of the issue's latest run.
THEOREM PauseNamesLatestFailure == Spec => []PauseExplained
<1>1. IndInv => PauseExplained
  BY DEF IndInv
<1> QED BY <1>1, Invariance, PTL

\* Human Review and Done are reached only through a completed run that handed
\* off and has a review packet.
THEOREM OnlyReviewedWorkIsAccepted == Spec => []AcceptedWorkIsReviewed
<1>1. IndInv => AcceptedWorkIsReviewed
  BY DEF IndInv
<1> QED BY <1>1, Invariance, PTL

-----------------------------------------------------------------------------
(* The concurrency limit.  The only step that makes a run active is a claim, *)
(* and the claim counts the active runs in its own transaction.             *)

\* A step leaves no new run active, or claims one run below the limit.
LEMMA ActiveRunsStep ==
    ASSUME TypeOK, [Next]_vars
    PROVE  \/ ActiveRuns' \subseteq ActiveRuns
           \/ \E r \in Runs : /\ ActiveRuns' = ActiveRuns \cup {r}
                              /\ Cardinality(ActiveRuns) < Limit
<1>1. CASE UNCHANGED vars
  BY <1>1 DEF vars, runVars, ActiveRuns, IsActive
<1>2. CASE OperatorNext
  <2>1. ASSUME NEW i \in Issues, NEW target \in OperatorTarget, NEW duplicateOf,
               TransitionIssue(i, target, duplicateOf)
        PROVE  ActiveRuns' \subseteq ActiveRuns
    <3>1. CASE UNCHANGED runVars
      BY <3>1 DEF runVars, ActiveRuns, IsActive
    <3>2. ASSUME NEW r \in ActiveRunsOf(i), EndRun(r, "cancelled", "issue_state_changed")
          PROVE  ActiveRuns' \subseteq ActiveRuns
      BY <3>2 DEF EndRun, ActiveRuns, IsActive
    <3> QED BY <2>1, <3>1, <3>2 DEF TransitionIssue
  <2>2. ASSUME NEW r \in Runs, CancelRun(r)
        PROVE  ActiveRuns' \subseteq ActiveRuns
    BY <2>2 DEF CancelRun, EndRun, ActiveRuns, IsActive
  <2>3. CASE UNCHANGED runVars
    BY <2>3 DEF runVars, ActiveRuns, IsActive
  <2> QED BY <1>2, <2>1, <2>2, <2>3
          DEF OperatorNext, CreateIssue, UpdateIssue, AddBlocker, RemoveBlocker,
              RemoveDuplicate, DispatchPause, DispatchResume, MarkDone, SendToRework,
              ReviewAction
<1>3. CASE RunNext
  <2>1. ASSUME NEW i \in Issues, NEW r \in Runs, ClaimRun(i, r)
        PROVE  /\ ActiveRuns' = ActiveRuns \cup {r}
               /\ Cardinality(ActiveRuns) < Limit
    BY <2>1 DEF TypeOK, ClaimRun, HasSlot, ActiveRuns, IsActive, ActiveRunStatus
  <2>2. ASSUME NEW r \in Runs, NEW status \in ActiveRunStatus, UpdateRunStatus(r, status)
        PROVE  ActiveRuns' \subseteq ActiveRuns
    BY <2>2 DEF UpdateRunStatus, ActiveRuns, IsActive
  <2>3. ASSUME NEW r \in Runs, NEW code, NEW status \in EndedRunStatus, EndRun(r, status, code)
        PROVE  ActiveRuns' \subseteq ActiveRuns
    BY <2>3 DEF EndRun, ActiveRuns, IsActive
  <2>4. ASSUME NEW r \in Runs, CompleteRunWithReview(r)
        PROVE  ActiveRuns' \subseteq ActiveRuns
    BY <2>4 DEF CompleteRunWithReview, ActiveRuns, IsActive
  <2>5. CASE UNCHANGED runVars
    BY <2>5 DEF runVars, ActiveRuns, IsActive
  <2> QED BY <1>3, <2>1, <2>2, <2>3, <2>4, <2>5
          DEF RunNext, FailRun, ReconcileRun, BlockRunByAgent, CreateToolToken,
              InsertHandoff, InsertReviewPacket, EndedRunStatus
<1> QED BY <1>1, <1>2, <1>3 DEF Next

\* Claims from several schedulers, the HTTP API and other processes together
\* never exceed the configured concurrency.
THEOREM ConcurrencyIsBounded == Spec => []ConcurrencyBound
<1> DEFINE Bounded == TypeOK /\ ConcurrencyBound
<1>1. Init => Bounded
  <2>1. ASSUME Init PROVE ActiveRuns = {}
    BY <2>1 DEF Init, ActiveRuns, IsActive, ActiveRunStatus
  <2>2. 0 <= Limit
    BY MaxConcurrentAssumption DEF Limit
  <2> QED BY <2>1, <2>2, FS_EmptySet, InitIndInv DEF IndInv, ConcurrencyBound
<1>2. ASSUME Bounded, IndInv, IndInv', [Next]_vars PROVE Bounded'
  <2>1. IsFiniteSet(ActiveRuns) /\ Cardinality(ActiveRuns) \in Nat
    BY RunsAssumption, FS_Subset, FS_CardinalityType DEF ActiveRuns
  <2>2. Limit \in Int /\ Limit' = Limit
    BY MaxConcurrentAssumption DEF Limit
  <2>3. CASE ActiveRuns' \subseteq ActiveRuns
    BY <1>2, <2>1, <2>2, <2>3, FS_Subset, FS_CardinalityType DEF IndInv, ConcurrencyBound
  <2>4. ASSUME NEW r \in Runs, ActiveRuns' = ActiveRuns \cup {r},
               Cardinality(ActiveRuns) < Limit
        PROVE  Bounded'
    <3>1. \/ Cardinality(ActiveRuns \cup {r}) = Cardinality(ActiveRuns)
          \/ Cardinality(ActiveRuns \cup {r}) = Cardinality(ActiveRuns) + 1
      BY <2>1, FS_AddElement
    <3>2. Cardinality(ActiveRuns') <= Limit
      BY <2>1, <2>2, <2>4, <3>1
    <3> QED BY <1>2, <3>2 DEF IndInv, ConcurrencyBound
  <2> QED BY <1>2, <2>3, <2>4, ActiveRunsStep
<1> QED BY <1>1, <1>2, Invariance, PTL DEF Spec

-----------------------------------------------------------------------------
(* Action properties.                                                      *)

\* A run's row once it ended: no step rewrites it.
LEMMA EndedRunStep ==
    ASSUME TypeOK, [Next]_vars, NEW r \in Runs, Ended(r)
    PROVE  UNCHANGED <<runStatus[r], runCode[r], runIssue[r], runSource[r]>>
<1> USE DEF Ended, EndedRunStatus, ActiveRunStatus
<1>1. CASE UNCHANGED runVars
  BY <1>1 DEF runVars
<1>2. ASSUME NEW q \in Runs, NEW status, NEW code, EndRun(q, status, code)
      PROVE  UNCHANGED <<runStatus[r], runCode[r], runIssue[r], runSource[r]>>
  BY <1>2 DEF EndRun, IsActive
<1>3. ASSUME NEW i \in Issues, NEW target, NEW duplicateOf,
             TransitionIssue(i, target, duplicateOf)
      PROVE  UNCHANGED <<runStatus[r], runCode[r], runIssue[r], runSource[r]>>
  BY <1>1, <1>2, <1>3 DEF TransitionIssue, ActiveRunsOf, ActiveRuns
<1>4. ASSUME NEW i \in Issues, NEW q \in Runs, ClaimRun(i, q)
      PROVE  UNCHANGED <<runStatus[r], runCode[r], runIssue[r], runSource[r]>>
  BY <1>4 DEF ClaimRun
<1>5. ASSUME NEW q \in Runs, NEW status, UpdateRunStatus(q, status)
      PROVE  UNCHANGED <<runStatus[r], runCode[r], runIssue[r], runSource[r]>>
  BY <1>5 DEF UpdateRunStatus, IsActive
<1>6. ASSUME NEW q \in Runs, CompleteRunWithReview(q)
      PROVE  UNCHANGED <<runStatus[r], runCode[r], runIssue[r], runSource[r]>>
  BY <1>6 DEF CompleteRunWithReview, IsActive
<1>7. CASE OperatorNext
  BY <1>1, <1>2, <1>3, <1>7
     DEF OperatorNext, CreateIssue, UpdateIssue, AddBlocker, RemoveBlocker, RemoveDuplicate,
         DispatchPause, DispatchResume, MarkDone, SendToRework, ReviewAction, CancelRun
<1>8. CASE RunNext
  BY <1>1, <1>2, <1>4, <1>5, <1>6, <1>8
     DEF RunNext, FailRun, ReconcileRun, BlockRunByAgent, CreateToolToken, InsertHandoff,
         InsertReviewPacket
<1> QED BY <1>1, <1>7, <1>8 DEF Next, vars

\* The outcome of a run is written once: late workers, repeated cancellations
\* and startup reconciliation leave an ended run as it is.
THEOREM OutcomeWrittenOnce == Spec => EndedRunsAreFinal
<1>1. TypeOK /\ [Next]_vars =>
        [\A r \in Runs : Ended(r) =>
            UNCHANGED <<runStatus[r], runCode[r], runIssue[r], runSource[r]>>]_vars
  BY EndedRunStep
<1> QED BY <1>1, TypeCorrect, PTL DEF Spec, EndedRunsAreFinal

\* How the issue is left by a step that ends its run without success.
LEMMA RunEndStep ==
    ASSUME TypeOK, RunRows, ActiveRunHoldsIssue, [Next]_vars,
           NEW r \in Runs, IsActive(r), Ended(r)', runStatus'[r] # "completed"
    PROVE  LET i == runIssue[r] IN
           \/ state'[i] = runSource[r] /\ pause'[i] = runCode'[r]
           \/ state'[i] = "Blocked" /\ pause'[i] = "agent_blocked"
           \/ state'[i] \in OperatorTarget /\ pause'[i] = "issue_state_changed"
<1> DEFINE Explained == LET i == runIssue[r] IN
        \/ state'[i] = runSource[r] /\ pause'[i] = runCode'[r]
        \/ state'[i] = "Blocked" /\ pause'[i] = "agent_blocked"
        \/ state'[i] \in OperatorTarget /\ pause'[i] = "issue_state_changed"
<1>1. /\ runIssue[r] \in Issues
      /\ state[runIssue[r]] = "Working"
      /\ latestRun[runIssue[r]] = r
      /\ ~ Ended(r)
  BY DEF RunRows, ActiveRunHoldsIssue, IsActive, ActiveRunStatus, Ended, EndedRunStatus
<1>2. RestoredState(r) = runSource[r]
  BY <1>1 DEF RestoredState, TerminalIssueState
<1>3. ~ UNCHANGED runVars
  BY <1>1 DEF runVars, Ended
<1>4. ASSUME NEW q \in Runs, NEW status, NEW code, EndRun(q, status, code)
      PROVE  q = r /\ runCode'[r] = code
  BY <1>1, <1>4 DEF TypeOK, EndRun, Ended
<1>5. ASSUME NEW q \in Runs, NEW status, NEW code, FailRun(q, status, code)
      PROVE  Explained
  BY <1>1, <1>2, <1>4, <1>5 DEF TypeOK, FailRun
<1>6. ASSUME NEW q \in Runs, CancelRun(q) PROVE Explained
  BY <1>1, <1>2, <1>4, <1>6 DEF TypeOK, CancelRun
<1>7. ASSUME NEW q \in Runs, BlockRunByAgent(q) PROVE Explained
  BY <1>1, <1>4, <1>7 DEF TypeOK, BlockRunByAgent
<1>8. ASSUME NEW i \in Issues, NEW target \in OperatorTarget, NEW duplicateOf,
             TransitionIssue(i, target, duplicateOf)
      PROVE  Explained
  <2>1. PICK q \in ActiveRunsOf(i) : /\ EndRun(q, "cancelled", "issue_state_changed")
                                     /\ pause' = [pause EXCEPT ![i] = "issue_state_changed"]
    BY <1>3, <1>8 DEF TransitionIssue
  <2>2. q \in Runs /\ runIssue[q] = i
    BY DEF ActiveRunsOf, ActiveRuns
  <2>3. q = r
    BY <1>4, <2>1, <2>2
  <2> QED BY <1>8, <2>2, <2>3 DEF TypeOK, TransitionIssue
<1>9. ASSUME NEW i \in Issues, NEW q \in Runs, ClaimRun(i, q) PROVE FALSE
  BY <1>1, <1>9 DEF ClaimRun, Ended, EndedRunStatus
<1>10. ASSUME NEW q \in Runs, NEW status \in ActiveRunStatus, UpdateRunStatus(q, status)
       PROVE  FALSE
  BY <1>1, <1>10 DEF UpdateRunStatus, Ended, EndedRunStatus, ActiveRunStatus
<1>11. ASSUME NEW q \in Runs, CompleteRunWithReview(q) PROVE FALSE
  BY <1>1, <1>11 DEF CompleteRunWithReview, Ended
<1>12. CASE OperatorNext
  BY <1>3, <1>6, <1>8, <1>12
     DEF OperatorNext, CreateIssue, UpdateIssue, AddBlocker, RemoveBlocker, RemoveDuplicate,
         DispatchPause, DispatchResume, MarkDone, SendToRework, ReviewAction
<1>13. CASE RunNext
  BY <1>3, <1>5, <1>7, <1>9, <1>10, <1>11, <1>13
     DEF RunNext, ReconcileRun, CreateToolToken, InsertHandoff, InsertReviewPacket
<1> QED BY <1>3, <1>12, <1>13 DEF Next, vars

\* A run that ends without success gives its issue back to the state it was
\* claimed from, or leaves it where the block or the transition put it.
THEOREM UnsuccessfulRunRestoresIssue == Spec => RunEndRestoresIssue
<1>1. IndInv /\ [Next]_vars =>
        [\A r \in Runs : IsActive(r) /\ Ended(r)' /\ runStatus'[r] # "completed" =>
            LET i == runIssue[r] IN
            \/ state'[i] = runSource[r] /\ pause'[i] = runCode'[r]
            \/ state'[i] = "Blocked" /\ pause'[i] = "agent_blocked"
            \/ state'[i] \in OperatorTarget /\ pause'[i] = "issue_state_changed"]_vars
  BY RunEndStep DEF IndInv
<1> QED BY <1>1, Invariance, PTL DEF Spec, RunEndRestoresIssue

=============================================================================
