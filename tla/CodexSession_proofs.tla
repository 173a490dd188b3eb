------------------------ MODULE CodexSession_proofs ------------------------
(***************************************************************************)
(* The app-server process and Run, proved for every bound and capacity:    *)
(* what a result says happened, and no process outlives its run.           *)
(***************************************************************************)
EXTENDS CodexSession, TLAPS

Runs == [at : {"idle", "write", "loop", "approval", "answer", "stop", "exit", "kill", "returned",
               "closed"},
         turn : 1..2, closing : BOOLEAN,
         result : {"none", "success", "missing", "failed"}]

ProcessSessions == [is : {"none", "open", "closed"}, handshake : BOOLEAN]

RunTyped == run \in Runs /\ session \in ProcessSessions

FlagsTyped == received \in BOOLEAN /\ reads \in BOOLEAN /\ reaped \in BOOLEAN
                 /\ waitCh \in BOOLEAN /\ disturbed \in BOOLEAN

ProcessTyped ==
    /\ leader \in {"none", "running", "silent", "exited"}
    /\ child \in {"none", "running"}
    /\ accepted \subseteq 1..2

StreamTyped ==
    /\ pipe \in Seq(Kinds)
    /\ scanner \in {"off", "reading", "done"}
    /\ lines \in Seq(Kinds) /\ Len(lines) <= Capacity
    /\ written \in 0..MaxLines
    /\ said \in {"nothing", "handshake", "handoff", "completed", "other"}

LEMMA TypeParts == AppTypeOK <=> RunTyped /\ FlagsTyped /\ ProcessTyped /\ StreamTyped
  BY DEF AppTypeOK, RunTyped, Runs, ProcessSessions, FlagsTyped, ProcessTyped, StreamTyped

-----------------------------------------------------------------------------
(* Types.                                                                  *)

LEMMA Moves ==
  ASSUME NEW r \in Runs,
         NEW to \in {"write", "loop", "approval", "answer", "stop", "exit", "kill", "returned",
                     "closed"},
         NEW result \in {"none", "success", "missing", "failed"}
  PROVE  /\ [r EXCEPT !.at = to] \in Runs
         /\ [r EXCEPT !.at = to, !.result = result] \in Runs
         /\ [r EXCEPT !.at = "stop", !.closing = TRUE] \in Runs
  BY DEF Runs

LEMMA MoveOn ==
  ASSUME NEW r \in Runs, r.turn = 1
  PROVE  [r EXCEPT !.at = "write", !.turn = @ + 1, !.result = "none"] \in Runs
<1>1. r.turn + 1 \in 1..2
  OBVIOUS
<1> QED BY <1>1 DEF Runs

LEMMA SessionMoves ==
  ASSUME NEW s \in ProcessSessions
  PROVE  /\ [s EXCEPT !.is = "open"] \in ProcessSessions
         /\ [s EXCEPT !.is = "closed"] \in ProcessSessions
         /\ [s EXCEPT !.handshake = TRUE] \in ProcessSessions
  BY DEF ProcessSessions

LEMMA RunTypeStep ==
  ASSUME RunTyped, [AppNext]_appVars
  PROVE  RunTyped'
<1> USE DEF sessionState, processState, streamState, Unchanged
<1>1. CASE ProcessStep \/ Reap \/ Scan \/ EndScan \/ UNCHANGED appVars
  BY <1>1 DEF ProcessStep, Write, StartChild, ExitChild, CloseStdout, StopReading, Exit,
              Reap, Scan, EndScan, appVars, RunTyped
<1>2. CASE StartFails \/ startAppServer
  BY <1>2, Moves, SessionMoves DEF StartFails, startAppServer, Goto, RunTyped
<1>3. ASSUME NEW result \in {"success", "failed"}, Close(result)
      PROVE  RunTyped'
  BY <1>3, Moves, SessionMoves DEF Close, RunTyped
<1>4. CASE WriteTurn \/ Interrupt \/ LinesEnd
  BY <1>3, <1>4, Moves DEF WriteTurn, Interrupt, LinesEnd, Goto, RunTyped
<1>5. CASE HandleLine
  <2>1. \/ EndTurn("failed") \/ EndTurn("success")
        \/ session' = [session EXCEPT !.handshake = TRUE] /\ UNCHANGED run
        \/ UNCHANGED <<run, session>>
        \/ Goto("approval") /\ UNCHANGED session
        \/ run' = [run EXCEPT !.at = "returned", !.result = "missing"] /\ UNCHANGED session
    BY <1>5 DEF HandleLine
  <2> QED BY <1>3, <2>1, Moves, SessionMoves DEF EndTurn, Goto, RunTyped
<1>6. CASE Decide \/ writeApprovalDecision \/ LosesProcess
  BY <1>3, <1>6, Moves, SessionMoves
     DEF Decide, writeApprovalDecision, LosesProcess, EndTurn, Goto, RunTyped
<1>7. CASE Waited \/ KillGroup
  BY <1>7, Moves, SessionMoves DEF Waited, Returns, KillGroup, Goto, RunTyped
<1>8. CASE Continue \/ CloseRunner
  BY <1>8, Moves, MoveOn, SessionMoves DEF Continue, CloseRunner, Goto, RunTyped
<1> QED BY <1>1, <1>2, <1>4, <1>5, <1>6, <1>7, <1>8 DEF AppNext, RunStep

LEMMA FlagsTypeStep ==
  ASSUME FlagsTyped, [AppNext]_appVars
  PROVE  FlagsTyped'
<1> USE DEF sessionState, processState, streamState, Unchanged, FlagsTyped
<1>1. CASE ProcessStep \/ Reap \/ Scan \/ EndScan \/ UNCHANGED appVars
  BY <1>1 DEF ProcessStep, Write, StartChild, ExitChild, CloseStdout, StopReading, Exit,
              Reap, Scan, EndScan, appVars
<1>2. CASE StartFails \/ startAppServer \/ WriteTurn \/ Interrupt \/ LinesEnd
  BY <1>2 DEF StartFails, startAppServer, WriteTurn, Interrupt, LinesEnd
<1>3. CASE HandleLine
  BY <1>3 DEF HandleLine
<1>4. CASE \/ Decide \/ writeApprovalDecision \/ LosesProcess \/ Waited \/ KillGroup
           \/ Continue \/ CloseRunner
  BY <1>4 DEF Decide, writeApprovalDecision, LosesProcess, Waited, KillGroup, Continue, CloseRunner
<1> QED BY <1>1, <1>2, <1>3, <1>4 DEF AppNext, RunStep

LEMMA ProcessTypeStep ==
  ASSUME RunTyped, ProcessTyped, [AppNext]_appVars
  PROVE  ProcessTyped'
<1> USE DEF sessionState, processState, streamState, Unchanged, ProcessTyped
<1>1. CASE ProcessStep \/ Reap \/ Scan \/ EndScan \/ UNCHANGED appVars
  BY <1>1 DEF ProcessStep, Write, StartChild, ExitChild, CloseStdout, StopReading, Exit,
              Reap, Scan, EndScan, appVars
<1>2. CASE StartFails \/ startAppServer \/ WriteTurn \/ Interrupt \/ LinesEnd
  BY <1>2 DEF StartFails, startAppServer, WriteTurn, Interrupt, LinesEnd
<1>3. CASE HandleLine
  <2>1. run.turn \in 1..2
    BY DEF RunTyped, Runs
  <2>2. accepted' \in {accepted, accepted \cup {run.turn}} /\ UNCHANGED <<leader, child>>
    BY <1>3 DEF HandleLine
  <2> QED BY <2>1, <2>2
<1>4. CASE \/ Decide \/ writeApprovalDecision \/ LosesProcess \/ Waited \/ KillGroup
           \/ Continue \/ CloseRunner
  BY <1>4 DEF Decide, writeApprovalDecision, LosesProcess, Waited, KillGroup, Continue, CloseRunner
<1> QED BY <1>1, <1>2, <1>3, <1>4 DEF AppNext, RunStep

LEMMA StreamTypeStep ==
  ASSUME StreamTyped, [AppNext]_appVars
  PROVE  StreamTyped'
<1> USE DEF sessionState, processState, streamState, StreamTyped
<1> USE BoundsAssumption
<1>1. ASSUME NEW k \in Kinds, Write(k)
      PROVE  StreamTyped'
  <2>1. pipe' \in Seq(Kinds) /\ written' \in 0..MaxLines
    BY <1>1 DEF Write
  <2>2. said' \in {"nothing", "handshake", "handoff", "completed", "other"}
    BY <1>1 DEF Write, Says
  <2> QED BY <1>1, <2>1, <2>2 DEF Write
<1>2. CASE StartChild \/ ExitChild \/ CloseStdout \/ StopReading \/ Exit \/ UNCHANGED appVars
  BY <1>2 DEF StartChild, ExitChild, CloseStdout, StopReading, Exit, appVars
<1>3. CASE Reap
  <2>1. PICK n \in 0..Len(pipe) : pipe' = SubSeq(pipe, 1, n)
    BY <1>3 DEF Reap
  <2>2. pipe' \in Seq(Kinds)
    BY <2>1
  <2> QED BY <1>3, <2>2 DEF Reap
<1>4. CASE Scan
  <2>1. Head(pipe) \in Kinds /\ Tail(pipe) \in Seq(Kinds)
    BY <1>4 DEF Scan
  <2>2. lines' \in Seq(Kinds) /\ Len(lines') <= Capacity
    BY <1>4, <2>1 DEF Scan
  <2> QED BY <1>4, <2>1, <2>2 DEF Scan
<1>5. CASE EndScan
  BY <1>5 DEF EndScan
<1>6. CASE StartFails \/ startAppServer \/ WriteTurn \/ Interrupt \/ LinesEnd
  BY <1>6 DEF StartFails, startAppServer, WriteTurn, Interrupt, LinesEnd
<1>7. CASE HandleLine
  <2>1. lines # <<>> /\ lines' = Tail(lines) /\ UNCHANGED <<pipe, scanner, written, said>>
    BY <1>7 DEF HandleLine
  <2>2. lines' \in Seq(Kinds) /\ Len(lines') <= Capacity
    BY <2>1
  <2> QED BY <2>1, <2>2
<1>8. CASE \/ Decide \/ writeApprovalDecision \/ LosesProcess \/ Waited \/ KillGroup
           \/ Continue \/ CloseRunner
  BY <1>8 DEF Decide, writeApprovalDecision, LosesProcess, Waited, KillGroup, Continue, CloseRunner
<1> QED BY <1>1, <1>2, <1>3, <1>4, <1>5, <1>6, <1>7, <1>8 DEF AppNext, RunStep, ProcessStep

-----------------------------------------------------------------------------
(* Results.                                                                *)

\* What a turn has received is what the gateway accepted in it.
TurnInv ==
    /\ accepted \subseteq 1..run.turn
    /\ run.at \in {"idle", "write"} => run.turn \notin accepted
    /\ run.at \in {"loop", "approval", "answer"} => (received <=> run.turn \in accepted)
    /\ run.at \in {"idle", "write", "loop", "approval", "answer"} => run.result = "none"

\* A step that keeps the turn's flags while Run stays where it is, or takes it to a stage
\* in which no line is handled.
LEMMA SameTurn ==
  ASSUME TurnInv, UNCHANGED <<accepted, received>>, run'.turn = run.turn,
         \/ run'.at = run.at /\ run'.result = run.result
         \/ run'.at \in {"stop", "exit", "kill", "returned", "closed"}
         \/ run.at = "idle" /\ run'.at = "write" /\ run'.result = run.result
         \/ {run.at, run'.at} \subseteq {"loop", "approval", "answer"} /\ run'.result = run.result
  PROVE  TurnInv'
  BY DEF TurnInv

LEMMA TurnStep ==
  ASSUME RunTyped, TurnInv, [AppNext]_appVars
  PROVE  TurnInv'
<1> USE DEF sessionState, processState, streamState, Unchanged
<1>1. CASE ProcessStep \/ Reap \/ Scan \/ EndScan \/ UNCHANGED appVars
  <2>1. UNCHANGED <<run, received, accepted>>
    BY <1>1 DEF ProcessStep, Write, StartChild, ExitChild, CloseStdout, StopReading, Exit,
                Reap, Scan, EndScan, appVars
  <2> QED BY <2>1, SameTurn
<1>2. ASSUME NEW stage, run' = [run EXCEPT !.at = stage]
      PROVE  run'.at = stage /\ run'.turn = run.turn /\ run'.result = run.result
  BY <1>2 DEF RunTyped, Runs
<1>3. ASSUME NEW stage, NEW result, run' = [run EXCEPT !.at = stage, !.result = result]
      PROVE  run'.at = stage /\ run'.turn = run.turn /\ run'.result = result
  BY <1>3 DEF RunTyped, Runs
<1>4. ASSUME NEW result, Close(result), UNCHANGED <<accepted, received>>
      PROVE  TurnInv'
  BY <1>3, <1>4, SameTurn DEF Close
<1>5. CASE StartFails \/ startAppServer
  BY <1>2, <1>3, <1>5, SameTurn DEF StartFails, startAppServer, At, Goto
<1>6. CASE WriteTurn
  <2>1. CASE Goto("loop") /\ received' = FALSE /\ UNCHANGED accepted /\ run.at = "write"
    BY <1>2, <2>1 DEF Goto, TurnInv
  <2> QED BY <1>4, <1>6, <2>1 DEF WriteTurn, At
<1>7. CASE Interrupt \/ LinesEnd
  BY <1>3, <1>4, <1>7, SameTurn DEF Interrupt, LinesEnd
<1>8. CASE HandleLine
  <2>1. CASE received' = TRUE /\ accepted' = accepted \cup {run.turn} /\ UNCHANGED run
               /\ run.at = "loop"
    <3>1. run.turn \in 1..run.turn
      BY DEF RunTyped, Runs
    <3> QED BY <2>1, <3>1 DEF TurnInv
  <2>2. CASE UNCHANGED <<run, received, accepted>>
    BY <2>2, SameTurn
  <2>3. CASE Goto("approval") /\ run.at = "loop" /\ UNCHANGED <<received, accepted>>
    BY <1>2, <2>3, SameTurn DEF Goto
  <2>4. CASE run' = [run EXCEPT !.at = "returned", !.result = "missing"]
               /\ UNCHANGED <<received, accepted>>
    BY <1>3, <2>4, SameTurn
  <2> QED BY <1>4, <1>8, <2>1, <2>2, <2>3, <2>4 DEF HandleLine, EndTurn, At
<1>9. CASE Decide \/ writeApprovalDecision \/ LosesProcess
  BY <1>2, <1>3, <1>4, <1>9, SameTurn
     DEF Decide, writeApprovalDecision, LosesProcess, EndTurn, Goto, At
<1>10. CASE Waited \/ KillGroup
  BY <1>2, <1>10, SameTurn DEF Waited, Returns, KillGroup, Goto
<1>11. CASE Continue
  <2>1. run'.at = "write" /\ run'.turn = run.turn + 1 /\ run'.result = "none"
    BY <1>11 DEF Continue, RunTyped, Runs
  <2>2. run.turn \in Nat /\ UNCHANGED accepted
    BY <1>11 DEF Continue, RunTyped, Runs
  <2> QED BY <2>1, <2>2 DEF TurnInv
<1>12. CASE CloseRunner
  <2>1. run'.at \in {"stop", "closed"} /\ run'.turn = run.turn
    BY <1>12 DEF CloseRunner, Goto, RunTyped, Runs
  <2> QED BY <1>12, <2>1, SameTurn DEF CloseRunner
<1> QED BY <1>1, <1>5, <1>6, <1>7, <1>8, <1>9, <1>10, <1>11, <1>12 DEF AppNext, RunStep

\* A step that gives Run no result but a failure takes nothing from what it has.
LEMMA NoNewResult ==
  ASSUME ResultsAreEarned, session.handshake => session'.handshake,
         accepted' = accepted,
         \/ run'.result \in {"none", "failed"}
         \/ run'.result = run.result /\ run'.turn = run.turn
  PROVE  ResultsAreEarned'
  BY DEF ResultsAreEarned

LEMMA ResultStep ==
  ASSUME RunTyped, TurnInv, ResultsAreEarned, [AppNext]_appVars
  PROVE  ResultsAreEarned'
<1> USE DEF sessionState, processState, streamState, Unchanged
<1>1. ASSUME NEW stage, run' = [run EXCEPT !.at = stage]
      PROVE  run'.turn = run.turn /\ run'.result = run.result
  BY <1>1 DEF RunTyped, Runs
<1>2. ASSUME NEW stage, NEW result, run' = [run EXCEPT !.at = stage, !.result = result]
      PROVE  run'.turn = run.turn /\ run'.result = result
  BY <1>2 DEF RunTyped, Runs
<1>3. ASSUME NEW is, session' = [session EXCEPT !.is = is]
      PROVE  session'.handshake = session.handshake
  BY <1>3 DEF RunTyped, ProcessSessions
<1>4. CASE ProcessStep \/ Reap \/ Scan \/ EndScan \/ UNCHANGED appVars
  <2>1. UNCHANGED <<run, session, accepted>>
    BY <1>4 DEF ProcessStep, Write, StartChild, ExitChild, CloseStdout, StopReading, Exit,
                Reap, Scan, EndScan, appVars
  <2> QED BY <2>1, NoNewResult
<1>5. CASE StartFails \/ startAppServer
  BY <1>1, <1>2, <1>3, <1>5, NoNewResult DEF StartFails, startAppServer, Goto
<1>6. CASE WriteTurn \/ Interrupt \/ LinesEnd
  BY <1>1, <1>2, <1>3, <1>6, NoNewResult DEF WriteTurn, Interrupt, LinesEnd, Close, Goto
<1>7. CASE HandleLine
  <2>1. CASE EndTurn("failed") /\ UNCHANGED accepted
    BY <1>2, <1>3, <2>1, NoNewResult DEF EndTurn, Close
  <2>2. CASE session' = [session EXCEPT !.handshake = TRUE] /\ UNCHANGED <<run, accepted>>
    <3>1. session'.handshake
      BY <2>2 DEF RunTyped, ProcessSessions
    <3> QED BY <2>2, <3>1, NoNewResult
  <2>3. CASE UNCHANGED <<run, session>> /\ run.at = "loop"
    BY <2>3 DEF TurnInv, ResultsAreEarned
  <2>4. CASE Goto("approval") /\ UNCHANGED <<session, accepted>>
    BY <1>1, <2>4, NoNewResult DEF Goto
  <2>5. CASE EndTurn("success") /\ session.handshake /\ received /\ run.at = "loop"
               /\ UNCHANGED accepted
    BY <1>2, <1>3, <2>5 DEF EndTurn, Close, TurnInv, ResultsAreEarned
  <2>6. CASE /\ run' = [run EXCEPT !.at = "returned", !.result = "missing"]
             /\ session.handshake /\ ~received /\ run.at = "loop"
             /\ UNCHANGED <<session, accepted>>
    <3>1. run'.turn = run.turn /\ run'.result = "missing"
      BY <1>2, <2>6
    <3>2. run.turn \notin accepted
      BY <2>6 DEF TurnInv
    <3> QED BY <2>6, <3>1, <3>2 DEF ResultsAreEarned
  <2> QED BY <1>7, <2>1, <2>2, <2>3, <2>4, <2>5, <2>6 DEF HandleLine, Allowed, At
<1>8. CASE Decide \/ writeApprovalDecision \/ LosesProcess
  BY <1>1, <1>2, <1>3, <1>8, NoNewResult
     DEF Decide, writeApprovalDecision, LosesProcess, EndTurn, Close, Goto
<1>9. CASE Waited \/ KillGroup
  BY <1>1, <1>3, <1>9, NoNewResult DEF Waited, Returns, KillGroup, Goto
<1>10. CASE Continue
  <2>1. run'.result = "none"
    BY <1>10 DEF Continue, RunTyped, Runs
  <2>2. run'.result # "success" /\ run'.result # "missing"
    BY <2>1
  <2> QED BY <2>2 DEF ResultsAreEarned
<1>11. CASE CloseRunner
  <2>1. run'.turn = run.turn /\ run'.result = run.result
    BY <1>11 DEF CloseRunner, Goto, RunTyped, Runs
  <2> QED BY <1>3, <1>11, <2>1, NoNewResult DEF CloseRunner
<1> QED BY <1>4, <1>5, <1>6, <1>7, <1>8, <1>9, <1>10, <1>11 DEF AppNext, RunStep

-----------------------------------------------------------------------------
(* The process.                                                            *)

\* A session that may go on is open, and where Run is over the process is not alive.
GoneInv ==
    /\ waitCh => reaped
    /\ reaped => leader = "exited"
    /\ run.at = "idle" => leader = "none"
    /\ run.at \in {"write", "loop", "approval", "answer"} => session.is = "open"
    /\ run.at = "returned" /\ run.result = "missing" => session.is = "open"
    /\ run.at \in {"stop", "exit", "kill"} /\ run.result = "missing" => run.closing
    /\ NoProcessIsLeft

LEMMA SameRun ==
  ASSUME GoneInv, UNCHANGED <<run, session>>, waitCh' => reaped', reaped' => leader' = "exited",
         Alive' => Alive, leader = "none" => leader' = "none"
  PROVE  GoneInv'
  BY DEF GoneInv, NoProcessIsLeft, At

LEMMA GoneStep ==
  ASSUME RunTyped, GoneInv, [AppNext]_appVars
  PROVE  GoneInv'
<1> USE DEF sessionState, processState, streamState, Unchanged
<1>1. CASE ProcessStep \/ Reap \/ Scan \/ EndScan \/ UNCHANGED appVars
  <2>1. UNCHANGED <<run, session>>
    BY <1>1 DEF ProcessStep, Write, StartChild, ExitChild, CloseStdout, StopReading, Exit,
                Reap, Scan, EndScan, appVars
  <2>2. CASE Reap
    BY <2>1, <2>2, SameRun DEF Reap, GoneInv, Alive
  <2>3. CASE CloseStdout \/ StopReading \/ Exit
    BY <2>1, <2>3, SameRun DEF CloseStdout, StopReading, Exit, GoneInv, Alive
  <2>4. CASE UNCHANGED <<leader, reaped, waitCh>>
    BY <2>1, <2>4, SameRun DEF GoneInv, Alive
  <2> QED BY <1>1, <2>2, <2>3, <2>4
          DEF ProcessStep, Write, StartChild, ExitChild, Scan, EndScan, appVars
<1>2. ASSUME NEW stage, run' = [run EXCEPT !.at = stage]
      PROVE  run'.at = stage /\ run'.result = run.result /\ run'.closing = run.closing
  BY <1>2 DEF RunTyped, Runs
<1>3. ASSUME NEW stage, NEW result, run' = [run EXCEPT !.at = stage, !.result = result]
      PROVE  run'.at = stage /\ run'.result = result
  BY <1>3 DEF RunTyped, Runs
<1>4. ASSUME NEW is, session' = [session EXCEPT !.is = is]
      PROVE  session'.is = is
  BY <1>4 DEF RunTyped, ProcessSessions
<1>5. ASSUME NEW result \in {"success", "failed"}, Close(result), UNCHANGED processState
      PROVE  GoneInv'
  BY <1>3, <1>5 DEF Close, GoneInv, NoProcessIsLeft, At
<1>6. CASE StartFails
  BY <1>3, <1>6 DEF StartFails, GoneInv, NoProcessIsLeft, At, Alive
<1>7. CASE startAppServer
  BY <1>2, <1>4, <1>7 DEF startAppServer, Goto, GoneInv, NoProcessIsLeft, At
<1>8. ASSUME run.at \in {"write", "loop", "approval", "answer"},
             NEW stage \in {"loop", "approval", "answer"}, Goto(stage),
             UNCHANGED <<session, processState>>
      PROVE  GoneInv'
  BY <1>2, <1>8 DEF Goto, GoneInv, NoProcessIsLeft, At
<1>9. CASE WriteTurn \/ Interrupt \/ Decide \/ writeApprovalDecision
  BY <1>5, <1>8, <1>9 DEF WriteTurn, Interrupt, Decide, writeApprovalDecision, EndTurn, At
<1>10. CASE LinesEnd
  BY <1>3, <1>10 DEF LinesEnd, GoneInv, NoProcessIsLeft, At
<1>11. CASE HandleLine
  <2>1. CASE session' = [session EXCEPT !.handshake = TRUE] /\ UNCHANGED <<run, processState>>
    <3>1. session'.is = session.is
      BY <2>1 DEF RunTyped, ProcessSessions
    <3> QED BY <2>1, <3>1 DEF GoneInv, NoProcessIsLeft, At, Alive
  <2>2. CASE UNCHANGED <<run, session, processState>>
    BY <2>2, SameRun DEF GoneInv, Alive
  <2>3. CASE /\ run' = [run EXCEPT !.at = "returned", !.result = "missing"]
             /\ run.at = "loop" /\ UNCHANGED <<session, processState>>
    <3>1. run'.at = "returned" /\ run'.result = "missing"
      BY <1>3, <2>3
    <3>2. session'.is = "open" /\ leader' = leader /\ reaped' = reaped /\ waitCh' = waitCh
      BY <2>3 DEF GoneInv
    <3>3. (waitCh => reaped) /\ (reaped => leader = "exited")
      BY DEF GoneInv
    <3> QED BY <3>1, <3>2, <3>3 DEF GoneInv, NoProcessIsLeft, At
  <2>4. CASE run.at = "loop" /\ Goto("approval") /\ UNCHANGED <<session, processState>>
    BY <1>8, <2>4
  <2>5. CASE (EndTurn("failed") \/ EndTurn("success")) /\ UNCHANGED processState
    BY <1>5, <2>5 DEF EndTurn
  <2>6. run.at = "loop" /\ UNCHANGED processState
    BY <1>11 DEF HandleLine, At
  <2>7. \/ EndTurn("failed") \/ EndTurn("success")
        \/ session' = [session EXCEPT !.handshake = TRUE] /\ UNCHANGED run
        \/ UNCHANGED <<run, session>>
        \/ Goto("approval") /\ UNCHANGED session
        \/ run' = [run EXCEPT !.at = "returned", !.result = "missing"] /\ UNCHANGED session
    BY <1>11 DEF HandleLine
  <2>8. CASE session' = [session EXCEPT !.handshake = TRUE] /\ UNCHANGED run
    BY <2>1, <2>6, <2>8
  <2>9. CASE UNCHANGED <<run, session>>
    BY <2>2, <2>6, <2>9
  <2>10. CASE Goto("approval") /\ UNCHANGED session
    BY <2>4, <2>6, <2>10
  <2>11. CASE run' = [run EXCEPT !.at = "returned", !.result = "missing"] /\ UNCHANGED session
    BY <2>3, <2>6, <2>11
  <2> QED BY <2>5, <2>6, <2>7, <2>8, <2>9, <2>10, <2>11
<1>12. CASE LosesProcess
  <2>1. run'.at = "returned" /\ run'.result = "failed"
    BY <1>3, <1>12 DEF LosesProcess
  <2>2. waitCh /\ ~waitCh' /\ leader' = leader /\ reaped' = reaped
    BY <1>12 DEF LosesProcess
  <2>3. leader = "exited"
    BY <2>2 DEF GoneInv
  <2> QED BY <2>1, <2>2, <2>3 DEF GoneInv, NoProcessIsLeft, At, Alive
<1>13. CASE Waited
  <2>1. leader = "exited" /\ UNCHANGED <<leader, reaped>> /\ ~waitCh'
    BY <1>13 DEF Waited, GoneInv
  <2>2. run'.result = run.result
        /\ run'.at = (IF run.closing THEN "closed" ELSE "returned")
    BY <1>2, <1>13 DEF Waited, Returns
  <2>3. run.result = "missing" => run.closing
    BY <1>13 DEF Waited, GoneInv, At
  <2> QED BY <2>1, <2>2, <2>3 DEF GoneInv, NoProcessIsLeft, At, Alive
<1>14. CASE KillGroup
  <2>1. run'.at = "kill" /\ run'.result = run.result /\ run'.closing = run.closing
    BY <1>2, <1>14 DEF KillGroup, Goto
  <2>2. UNCHANGED <<waitCh, reaped>> /\ (reaped => leader' = leader)
    BY <1>14 DEF KillGroup
  <2>3. run.at \in {"stop", "exit"}
    BY <1>14 DEF KillGroup, At
  <2> QED BY <2>1, <2>2, <2>3 DEF GoneInv, NoProcessIsLeft, At
<1>15. CASE Continue
  <2>1. run'.at = "write"
    BY <1>15 DEF Continue, RunTyped, Runs
  <2> QED BY <1>15, <2>1 DEF Continue, GoneInv, NoProcessIsLeft, At
<1>16. CASE CloseRunner
  <2>1. CASE session.is = "open"
    <3>1. run'.at = "stop" /\ run'.closing
      BY <1>16, <2>1 DEF CloseRunner, RunTyped, Runs
    <3> QED BY <1>16, <3>1 DEF CloseRunner, GoneInv, NoProcessIsLeft, At
  <2>2. CASE session.is # "open"
    <3>1. run'.at = "closed" /\ UNCHANGED processState
      BY <1>2, <1>16, <2>2 DEF CloseRunner, Goto
    <3>2. ~Alive
      BY <1>16, <2>2 DEF CloseRunner, GoneInv, NoProcessIsLeft, At
    <3> QED BY <3>1, <3>2 DEF GoneInv, NoProcessIsLeft, At, Alive
  <2> QED BY <2>1, <2>2
<1> QED BY <1>1, <1>6, <1>7, <1>9, <1>10, <1>11, <1>12, <1>13, <1>14, <1>15, <1>16
        DEF AppNext, RunStep

-----------------------------------------------------------------------------
(* The promise of a runner.                                                *)

\* What Run has decided when it begins to wait for the process, and when it returns.
OutcomeInv ==
    /\ run.at = "idle" => run.turn = 1
    /\ run.closing => run.at \in {"stop", "exit", "kill", "closed"}
    /\ run.at \in {"stop", "exit", "kill"} /\ ~run.closing =>
          /\ run.result \in {"success", "failed"}
          /\ run.result = "success" => run.turn \in accepted
    /\ run.at = "returned" => run.result # "none"

\* The stages of a run, in terms of its promise.
LEMMA StageOfRun ==
  ASSUME RunTyped, OutcomeInv
  PROVE  /\ TurnStage = "ready" <=> run.at \in {"idle", "write"}
         /\ TurnStage = "turn" <=> \/ run.at \in {"loop", "approval", "answer"}
                                   \/ run.at \in {"stop", "exit", "kill"} /\ ~run.closing
         /\ TurnStage = "returned" <=> run.at = "returned"
         /\ TurnStage = "over" <=> run.at \in {"stop", "exit", "kill"} /\ run.closing
         /\ TurnStage = "closed" <=> run.at = "closed"
         /\ TurnStage \in {"ready", "turn", "returned", "over", "closed"}
  BY DEF TurnStage, RunTyped, Runs, OutcomeInv

\* A step of Run that keeps the turn, by the stage it goes to.
LEMMA OutcomeOfMove ==
  ASSUME RunTyped, OutcomeInv, accepted \subseteq accepted', run'.turn = run.turn,
         run'.closing = run.closing,
         \/ run'.at = run.at /\ run'.result = run.result
         \/ run'.at \in {"write", "loop", "approval", "answer"} /\ ~run.closing
         \/ /\ run'.at \in {"stop", "exit"} /\ ~run.closing
            /\ \/ run'.result = "failed"
               \/ run'.result = "success" /\ run.turn \in accepted
         \/ run'.at = "kill" /\ run.at \in {"stop", "exit"} /\ run'.result = run.result
         \/ run'.at = "returned" /\ ~run.closing /\ run'.result # "none"
         \/ run'.at = "closed"
  PROVE  OutcomeInv'
  BY DEF RunTyped, Runs, OutcomeInv

LEMMA OutcomeStep ==
  ASSUME RunTyped, TurnInv, OutcomeInv, [AppNext]_appVars
  PROVE  OutcomeInv'
<1> USE DEF sessionState, processState, streamState, Unchanged
<1>1. CASE ProcessStep \/ Reap \/ Scan \/ EndScan \/ UNCHANGED appVars
  <2>1. UNCHANGED <<run, accepted>>
    BY <1>1 DEF ProcessStep, Write, StartChild, ExitChild, CloseStdout, StopReading, Exit,
                Reap, Scan, EndScan, appVars
  <2> QED BY <2>1, OutcomeOfMove
<1>2. ASSUME NEW stage, run' = [run EXCEPT !.at = stage]
      PROVE  /\ run'.at = stage /\ run'.turn = run.turn
             /\ run'.result = run.result /\ run'.closing = run.closing
  BY <1>2 DEF RunTyped, Runs
<1>3. ASSUME NEW stage, NEW result, run' = [run EXCEPT !.at = stage, !.result = result]
      PROVE  /\ run'.at = stage /\ run'.turn = run.turn
             /\ run'.result = result /\ run'.closing = run.closing
  BY <1>3 DEF RunTyped, Runs
<1>4. ASSUME NEW result, Close(result), accepted' = accepted,
             run.at \in {"idle", "write", "loop", "approval", "answer"},
             result = "failed" \/ (result = "success" /\ run.turn \in accepted)
      PROVE  OutcomeInv'
  <2>1. ~run.closing
    BY <1>4 DEF OutcomeInv
  <2> QED BY <1>3, <1>4, <2>1, OutcomeOfMove DEF Close
<1>5. CASE StartFails \/ startAppServer
  <2>1. run.at = "idle" /\ ~run.closing /\ accepted' = accepted
    BY <1>5 DEF StartFails, startAppServer, At, OutcomeInv
  <2>2. CASE run' = [run EXCEPT !.at = "returned", !.result = "failed"]
    <3>1. run'.at = "returned" /\ run'.turn = run.turn /\ run'.closing = run.closing
          /\ run'.result # "none"
      BY <2>2 DEF RunTyped, Runs
    <3> QED BY <2>1, <3>1, OutcomeOfMove
  <2>3. CASE Goto("write")
    BY <1>2, <2>1, <2>3, OutcomeOfMove DEF Goto
  <2> QED BY <1>5, <2>2, <2>3 DEF StartFails, startAppServer
<1>6. CASE WriteTurn
  <2>1. run.at = "write" /\ ~run.closing /\ accepted' = accepted
    BY <1>6 DEF WriteTurn, At, OutcomeInv
  <2> QED BY <1>2, <1>4, <1>6, <2>1, OutcomeOfMove DEF WriteTurn, Goto
<1>7. CASE Interrupt
  BY <1>4, <1>7 DEF Interrupt, At
<1>8. CASE HandleLine
  <2>1. run.at = "loop" /\ ~run.closing
    BY <1>8 DEF HandleLine, At, OutcomeInv
  <2>2. CASE UNCHANGED run /\ accepted \subseteq accepted'
    BY <2>2, OutcomeOfMove
  <2>3. CASE Goto("approval") /\ accepted' = accepted
    BY <1>2, <2>1, <2>3, OutcomeOfMove DEF Goto
  <2>4. CASE run' = [run EXCEPT !.at = "returned", !.result = "missing"] /\ accepted' = accepted
    <3>1. run'.at = "returned" /\ run'.turn = run.turn /\ run'.closing = run.closing
          /\ run'.result # "none"
      BY <2>4 DEF RunTyped, Runs
    <3> QED BY <2>1, <2>4, <3>1, OutcomeOfMove
  <2>5. CASE EndTurn("failed") /\ accepted' = accepted
    BY <1>4, <2>1, <2>5 DEF EndTurn
  <2>6. CASE EndTurn("success") /\ received /\ accepted' = accepted
    BY <1>4, <2>1, <2>6 DEF EndTurn, TurnInv
  <2> QED BY <1>8, <2>2, <2>3, <2>4, <2>5, <2>6 DEF HandleLine
<1>9. CASE LinesEnd
  <2>1. run.at = "loop" /\ ~run.closing
    BY <1>9 DEF LinesEnd, At, OutcomeInv
  <2> QED BY <1>3, <1>9, <2>1, OutcomeOfMove DEF LinesEnd
<1>10. CASE Decide \/ writeApprovalDecision \/ LosesProcess
  <2>1. run.at \in {"approval", "answer"} /\ ~run.closing /\ accepted' = accepted
    BY <1>10 DEF Decide, writeApprovalDecision, LosesProcess, At, OutcomeInv
  <2>2. CASE Goto("loop") \/ Goto("answer")
    BY <1>2, <2>1, <2>2, OutcomeOfMove DEF Goto
  <2>3. CASE Close("failed")
    BY <1>4, <2>1, <2>3
  <2>4. CASE run' = [run EXCEPT !.at = "returned", !.result = "failed"]
    <3>1. run'.at = "returned" /\ run'.turn = run.turn /\ run'.closing = run.closing
          /\ run'.result # "none"
      BY <2>4 DEF RunTyped, Runs
    <3> QED BY <2>1, <3>1, OutcomeOfMove
  <2> QED BY <1>10, <2>2, <2>3, <2>4 DEF Decide, writeApprovalDecision, LosesProcess, EndTurn
<1>11. CASE Waited
  <2>1. run.at \in {"stop", "exit", "kill"} /\ accepted' = accepted
    BY <1>11 DEF Waited, At
  <2>2. CASE run.closing
    BY <1>2, <1>11, <2>1, <2>2, OutcomeOfMove DEF Waited, Returns
  <2>3. CASE ~run.closing
    <3>1. run.result # "none"
      BY <2>1, <2>3 DEF OutcomeInv
    <3> QED BY <1>2, <1>11, <2>1, <2>3, <3>1, OutcomeOfMove DEF Waited, Returns
  <2> QED BY <2>2, <2>3
<1>12. CASE KillGroup
  <2>1. run.at \in {"stop", "exit"} /\ accepted' = accepted
    BY <1>12 DEF KillGroup, At
  <2> QED BY <1>2, <1>12, <2>1, OutcomeOfMove DEF KillGroup, Goto
<1>13. CASE Continue
  <2>1. run'.at = "write" /\ run'.closing = run.closing
    BY <1>13 DEF Continue, RunTyped, Runs
  <2> QED BY <1>13, <2>1 DEF Continue, At, OutcomeInv
<1>14. CASE CloseRunner
  <2>1. CASE run' = [run EXCEPT !.at = "stop", !.closing = TRUE]
    <3>1. run'.at = "stop" /\ run'.closing
      BY <2>1 DEF RunTyped, Runs
    <3> QED BY <3>1 DEF OutcomeInv
  <2>2. CASE Goto("closed") /\ accepted' = accepted
    BY <1>2, <2>2, OutcomeOfMove DEF Goto
  <2> QED BY <1>14, <2>1, <2>2 DEF CloseRunner
<1> QED BY <1>1, <1>5, <1>6, <1>7, <1>8, <1>9, <1>10, <1>11, <1>12, <1>13, <1>14
        DEF AppNext, RunStep

\* Whatever else happens within a stage, the process is as it was or has exited.
LEMMA SameStage ==
  ASSUME TurnStage' = TurnStage, run'.turn = run.turn,
         TurnStage = "turn" => (run.turn \in accepted' <=> run.turn \in accepted),
         TurnStage = "returned" => run'.result = run.result,
         At("returned") <=> TurnStage = "returned", At("closed") <=> TurnStage = "closed",
         At("returned")' <=> TurnStage' = "returned", At("closed")' <=> TurnStage' = "closed",
         (Alive' <=> Alive) \/ ~Alive'
  PROVE  [Turns!TurnNext]_(Turns!turnVars)
<1>1. (IF At("closed") THEN 1 ELSE run.turn)' = IF At("closed") THEN 1 ELSE run.turn
  OBVIOUS
<1>2. (TurnStage = "turn" /\ run.turn \in accepted)' <=> TurnStage = "turn" /\ run.turn \in accepted
  OBVIOUS
<1>3. (IF At("returned") THEN run.result ELSE "none")'
         = IF At("returned") THEN run.result ELSE "none"
  OBVIOUS
<1>4. CASE Alive' <=> Alive
  BY <1>1, <1>2, <1>3, <1>4 DEF Turns!turnVars, Alive
<1>5. CASE ~Alive'
  BY <1>1, <1>2, <1>3, <1>5 DEF Turns!TurnNext, Turns!Exit
<1> QED BY <1>4, <1>5

LEMMA PromiseStep ==
  ASSUME RunTyped, TurnInv, GoneInv, OutcomeInv, [AppNext]_appVars,
         RunTyped', TurnInv', GoneInv', OutcomeInv'
  PROVE  [Turns!TurnNext]_(Turns!turnVars)
<1> USE DEF sessionState, processState, streamState, Unchanged
<1>1. /\ TurnStage = "ready" <=> run.at \in {"idle", "write"}
      /\ TurnStage = "turn" <=> \/ run.at \in {"loop", "approval", "answer"}
                                \/ run.at \in {"stop", "exit", "kill"} /\ ~run.closing
      /\ TurnStage = "returned" <=> At("returned")
      /\ TurnStage = "over" <=> run.at \in {"stop", "exit", "kill"} /\ run.closing
      /\ TurnStage = "closed" <=> At("closed")
      /\ TurnStage \in {"ready", "turn", "returned", "over", "closed"}
  BY StageOfRun DEF At
<1>2. /\ TurnStage' = "ready" <=> run'.at \in {"idle", "write"}
      /\ TurnStage' = "turn" <=> \/ run'.at \in {"loop", "approval", "answer"}
                                 \/ run'.at \in {"stop", "exit", "kill"} /\ ~run'.closing
      /\ TurnStage' = "returned" <=> At("returned")'
      /\ TurnStage' = "over" <=> run'.at \in {"stop", "exit", "kill"} /\ run'.closing
      /\ TurnStage' = "closed" <=> At("closed")'
      /\ TurnStage' \in {"ready", "turn", "returned", "over", "closed"}
  BY DEF TurnStage, RunTyped, Runs, OutcomeInv, At
<1>3. ASSUME NEW stage, run' = [run EXCEPT !.at = stage]
      PROVE  /\ run'.at = stage /\ run'.turn = run.turn
             /\ run'.result = run.result /\ run'.closing = run.closing
  BY <1>3 DEF RunTyped, Runs
<1>4. ASSUME NEW stage, NEW result, run' = [run EXCEPT !.at = stage, !.result = result]
      PROVE  /\ run'.at = stage /\ run'.turn = run.turn
             /\ run'.result = result /\ run'.closing = run.closing
  BY <1>4 DEF RunTyped, Runs
\* The turn that Run begins.
<1>5. ASSUME TurnStage = "ready", TurnStage' = "turn", run'.turn = run.turn, accepted' = accepted,
             leader' = leader
      PROVE  Turns!Begin
  <2>1. ~At("closed") /\ ~At("closed")' /\ ~At("returned") /\ ~At("returned")'
    BY <1>1, <1>2, <1>5
  <2>2. run.turn \notin accepted
    BY <1>1, <1>5 DEF TurnInv
  <2>3. Alive' <=> Alive
    BY <1>5 DEF Alive
  <2> QED BY <1>5, <2>1, <2>2, <2>3 DEF Turns!Begin, Alive
\* The turn that returns.
<1>6. ASSUME NEW res, TurnStage = "turn" \/ (TurnStage = "ready" /\ res = "failed"),
             At("returned")', run'.turn = run.turn, run'.result = res,
             res = "success" => TurnStage = "turn" /\ run.turn \in accepted,
             res = "missing" => run.turn \notin accepted /\ leader' = leader,
             res # "missing" => ~Alive'
      PROVE  Turns!Return(res)
  <2>1. ~At("closed") /\ ~At("closed")' /\ TurnStage' = "returned"
    BY <1>1, <1>2, <1>6
  <2>2. res = "missing" => (Alive' <=> Alive)
    BY <1>6 DEF Alive
  <2> QED BY <1>6, <2>1, <2>2 DEF Turns!Return, Alive
<1>7. CASE ProcessStep \/ Reap \/ Scan \/ EndScan \/ UNCHANGED appVars
  <2>1. UNCHANGED <<run, accepted>>
    BY <1>7 DEF ProcessStep, Write, StartChild, ExitChild, CloseStdout, StopReading, Exit,
                Reap, Scan, EndScan, appVars
  <2>2. (Alive' <=> Alive) \/ ~Alive'
    BY <1>7 DEF ProcessStep, Write, StartChild, ExitChild, CloseStdout, StopReading, Exit,
                Reap, Scan, EndScan, appVars, Alive
  <2>3. TurnStage' = TurnStage
    BY <2>1 DEF TurnStage
  <2> QED BY <1>1, <1>2, <2>1, <2>2, <2>3, SameStage
<1>8. CASE StartFails
  <2>1. At("idle") /\ UNCHANGED <<leader, accepted>> /\ leader = "none"
    BY <1>8 DEF StartFails, GoneInv, At
  <2>2. At("returned")' /\ run'.turn = run.turn /\ run'.result = "failed"
    BY <1>4, <1>8 DEF StartFails, At
  <2>3. TurnStage = "ready" /\ ~Alive'
    BY <1>1, <2>1 DEF At, Alive
  <2>4. Turns!Return("failed")
    BY <1>6, <2>2, <2>3
  <2> QED BY <2>4 DEF Turns!TurnNext
<1>9. CASE startAppServer
  <2>1. run.at = "idle" /\ run.turn = 1 /\ Alive' /\ accepted' = accepted
    BY <1>9 DEF startAppServer, At, OutcomeInv, Alive
  <2>2. run'.at = "write" /\ run'.turn = run.turn
    BY <1>3, <1>9 DEF startAppServer, Goto
  <2>3. TurnStage = "ready" /\ TurnStage' = "ready"
    BY <1>1, <1>2, <2>1, <2>2
  <2> QED BY <1>1, <1>2, <2>1, <2>2, <2>3 DEF Turns!TurnNext, Turns!Start
<1>10. CASE WriteTurn
  <2>1. run.at = "write" /\ ~run.closing /\ UNCHANGED <<leader, accepted>>
    BY <1>10 DEF WriteTurn, At, OutcomeInv
  <2>2. /\ run'.at \in {"loop", "stop"} /\ run'.turn = run.turn
        /\ run'.closing = run.closing
    BY <1>3, <1>4, <1>10 DEF WriteTurn, Goto, Close
  <2>3. TurnStage = "ready" /\ TurnStage' = "turn"
    BY <1>1, <1>2, <2>1, <2>2
  <2> QED BY <1>5, <2>1, <2>2, <2>3 DEF Turns!TurnNext
<1>11. ASSUME run.at \in {"loop", "approval", "answer"},
              run'.at \in {"loop", "approval", "answer", "stop", "exit"},
              run'.turn = run.turn, run'.closing = run.closing, UNCHANGED <<leader, accepted>>
       PROVE  [Turns!TurnNext]_(Turns!turnVars)
  <2>1. ~run.closing
    BY <1>11 DEF OutcomeInv
  <2>2. TurnStage = "turn" /\ TurnStage' = "turn"
    BY <1>1, <1>2, <1>11, <2>1
  <2>3. Alive' <=> Alive
    BY <1>11 DEF Alive
  <2> QED BY <1>1, <1>2, <1>11, <2>2, <2>3, SameStage
<1>12. CASE Interrupt
  <2>1. run.at \in {"loop", "approval", "answer"} /\ UNCHANGED <<leader, accepted>>
    BY <1>12 DEF Interrupt, At
  <2> QED BY <1>4, <1>11, <1>12, <2>1 DEF Interrupt, Close
<1>13. CASE HandleLine
  <2>1. run.at = "loop" /\ leader' = leader /\ TurnStage = "turn"
    BY <1>1, <1>13 DEF HandleLine, At
  <2>2. CASE UNCHANGED <<run, accepted>>
    BY <1>11, <2>1, <2>2
  <2>3. CASE UNCHANGED run /\ accepted' = accepted \cup {run.turn}
    <3>1. TurnStage' = "turn"
      BY <2>1, <2>3 DEF TurnStage
    <3>2. Alive' <=> Alive
      BY <2>1 DEF Alive
    <3> QED BY <1>1, <1>2, <2>1, <2>3, <3>1, <3>2 DEF Turns!TurnNext, Turns!Take, Alive
  <2>4. CASE (Goto("approval") \/ EndTurn("failed") \/ EndTurn("success")) /\ accepted' = accepted
    BY <1>3, <1>4, <1>11, <2>1, <2>4 DEF Goto, EndTurn, Close
  <2>5. CASE /\ run' = [run EXCEPT !.at = "returned", !.result = "missing"] /\ ~received
    <3>1. At("returned")' /\ run'.turn = run.turn /\ run'.result = "missing"
      BY <1>4, <2>5 DEF At
    <3>2. run.turn \notin accepted
      BY <2>1, <2>5 DEF TurnInv
    <3>3. Turns!Return("missing")
      BY <1>6, <2>1, <3>1, <3>2
    <3> QED BY <3>3 DEF Turns!TurnNext
  <2> QED BY <1>13, <2>2, <2>3, <2>4, <2>5 DEF HandleLine
<1>14. CASE LinesEnd
  <2>1. run.at = "loop" /\ UNCHANGED <<leader, accepted>>
    BY <1>14 DEF LinesEnd, At
  <2> QED BY <1>4, <1>11, <1>14, <2>1 DEF LinesEnd
<1>15. CASE Decide \/ writeApprovalDecision
  <2>1. run.at \in {"approval", "answer"} /\ UNCHANGED <<leader, accepted>>
    BY <1>15 DEF Decide, writeApprovalDecision, At
  <2>2. CASE \/ Goto("loop") \/ Goto("answer") \/ EndTurn("failed")
    <3>1. \/ run' = [run EXCEPT !.at = "loop"]
          \/ run' = [run EXCEPT !.at = "answer"]
          \/ run' = [run EXCEPT !.at = "stop", !.result = "failed"]
      BY <2>2 DEF Goto, EndTurn, Close
    <3>2. /\ run'.at \in {"loop", "answer", "stop"}
          /\ run'.turn = run.turn /\ run'.closing = run.closing
      BY <3>1 DEF RunTyped, Runs
    <3> QED BY <1>11, <2>1, <3>2
  <2> QED BY <1>15, <2>2 DEF Decide, writeApprovalDecision
<1>16. CASE LosesProcess
  <2>1. run.at = "approval" /\ leader' = leader /\ leader = "exited"
    BY <1>16 DEF LosesProcess, At, GoneInv
  <2>2. At("returned")' /\ run'.turn = run.turn /\ run'.result = "failed"
    BY <1>4, <1>16 DEF LosesProcess, At
  <2>3. TurnStage = "turn" /\ ~Alive'
    BY <1>1, <2>1 DEF Alive
  <2>4. Turns!Return("failed")
    BY <1>6, <2>2, <2>3
  <2> QED BY <2>4 DEF Turns!TurnNext
<1>17. CASE Waited
  <2>1. /\ run.at \in {"stop", "exit", "kill"} /\ leader' = leader /\ leader = "exited"
        /\ accepted' = accepted
    BY <1>17 DEF Waited, At, GoneInv
  <2>2. ~Alive'
    BY <2>1 DEF Alive
  <2>3. CASE run.closing
    <3>1. run'.at = "closed"
      BY <1>3, <1>17, <2>3 DEF Waited, Returns
    <3> QED BY <1>1, <1>2, <2>1, <2>2, <2>3, <3>1 DEF Turns!TurnNext, Turns!Close, At
  <2>4. CASE ~run.closing
    <3>1. At("returned")' /\ run'.turn = run.turn /\ run'.result = run.result
      BY <1>3, <1>17, <2>4 DEF Waited, Returns, At
    <3>2. TurnStage = "turn"
      BY <1>1, <2>1, <2>4
    <3>3. /\ run.result \in {"success", "failed"}
          /\ run.result = "success" => run.turn \in accepted
      BY <2>1, <2>4 DEF OutcomeInv
    <3>4. Turns!Return(run.result)
      BY <1>6, <2>2, <3>1, <3>2, <3>3
    <3> QED BY <3>3, <3>4 DEF Turns!TurnNext
  <2> QED BY <2>3, <2>4
<1>18. CASE KillGroup
  <2>1. run.at \in {"stop", "exit"} /\ accepted' = accepted
    BY <1>18 DEF KillGroup, At
  <2>2. run'.at = "kill" /\ run'.turn = run.turn /\ run'.closing = run.closing
    BY <1>3, <1>18 DEF KillGroup, Goto
  <2>3. TurnStage' = TurnStage /\ TurnStage \in {"turn", "over"}
    BY <1>1, <1>2, <2>1, <2>2
  <2>4. (Alive' <=> Alive) \/ ~Alive'
    BY <1>18 DEF KillGroup, Alive
  <2> QED BY <1>1, <1>2, <2>1, <2>2, <2>3, <2>4, SameStage
<1>19. CASE Continue
  <2>1. run'.at = "write" /\ run'.turn = run.turn + 1 /\ run'.result = "none"
    BY <1>19 DEF Continue, RunTyped, Runs
  <2>2. At("returned") /\ run.result = "missing" /\ run.turn = 1
    BY <1>19 DEF Continue
  <2>3. UNCHANGED <<leader, accepted>>
    BY <1>19 DEF Continue
  <2>4. TurnStage = "returned" /\ TurnStage' = "ready"
    BY <1>1, <1>2, <2>1, <2>2
  <2>5. ~At("closed") /\ ~At("closed")' /\ ~At("returned")'
    BY <1>1, <1>2, <2>4
  <2>6. Alive' <=> Alive
    BY <2>3 DEF Alive
  <2> QED BY <2>1, <2>2, <2>4, <2>5, <2>6 DEF Turns!TurnNext, Turns!Continue, Alive
<1>20. CASE CloseRunner
  <2>1. At("returned") /\ TurnStage = "returned" /\ UNCHANGED <<leader, accepted>>
    BY <1>1, <1>20 DEF CloseRunner
  <2>2. Alive' <=> Alive
    BY <2>1 DEF Alive
  <2>3. CASE run' = [run EXCEPT !.at = "stop", !.closing = TRUE]
    <3>1. run'.at = "stop" /\ run'.closing /\ run'.turn = run.turn
      BY <2>3 DEF RunTyped, Runs
    <3>2. TurnStage' = "over"
      BY <1>2, <3>1
    <3>3. ~At("closed") /\ ~At("closed")' /\ ~At("returned")'
      BY <1>1, <1>2, <2>1, <3>2
    <3> QED BY <2>1, <2>2, <3>1, <3>2, <3>3 DEF Turns!TurnNext, Turns!Leave, Alive
  <2>4. CASE Goto("closed") /\ session.is # "open"
    <3>1. run'.at = "closed"
      BY <1>3, <2>4 DEF Goto
    <3>2. ~Alive'
      BY <2>1, <2>2, <2>4 DEF GoneInv, NoProcessIsLeft, At
    <3>3. TurnStage' = "closed" /\ At("closed")' /\ ~At("returned")'
      BY <1>2, <3>1 DEF At
    <3> QED BY <2>1, <3>2, <3>3 DEF Turns!TurnNext, Turns!Close
  <2> QED BY <1>20, <2>3, <2>4 DEF CloseRunner
<1> QED BY <1>7, <1>8, <1>9, <1>10, <1>12, <1>13, <1>14, <1>15, <1>16, <1>17, <1>18, <1>19, <1>20
        DEF AppNext, RunStep

LEMMA InitPromises ==
  ASSUME AppInit
  PROVE  OutcomeInv /\ Turns!TurnInit
<1>1. OutcomeInv
  BY DEF AppInit, OutcomeInv
<1>2. TurnStage = "ready" /\ ~At("closed") /\ ~At("returned") /\ ~Alive /\ run.turn = 1
  BY DEF AppInit, TurnStage, At, Alive
<1> QED BY <1>1, <1>2 DEF Turns!TurnInit, AppInit

-----------------------------------------------------------------------------
(* The theorems.                                                           *)

AppInv == AppTypeOK /\ TurnInv /\ ResultsAreEarned /\ GoneInv

LEMMA InitHolds == AppInit => AppInv
<1> SUFFICES ASSUME AppInit
             PROVE  AppInv
  OBVIOUS
<1>1. RunTyped
  BY DEF AppInit, RunTyped, Runs, ProcessSessions
<1>2. FlagsTyped
  BY DEF AppInit, FlagsTyped
<1>3. ProcessTyped /\ StreamTyped
  BY BoundsAssumption DEF AppInit, ProcessTyped, StreamTyped
<1>4. TurnInv /\ ResultsAreEarned /\ GoneInv
  BY DEF AppInit, TurnInv, ResultsAreEarned, GoneInv, NoProcessIsLeft, At, Alive
<1> QED BY <1>1, <1>2, <1>3, <1>4, TypeParts DEF AppInv

LEMMA NextKeeps == AppInv /\ [AppNext]_appVars => AppInv'
<1> SUFFICES ASSUME AppInv, [AppNext]_appVars
             PROVE  AppInv'
  OBVIOUS
<1>1. RunTyped /\ FlagsTyped /\ ProcessTyped /\ StreamTyped
  BY TypeParts DEF AppInv
<1>2. RunTyped' /\ FlagsTyped' /\ ProcessTyped' /\ StreamTyped'
  BY <1>1, RunTypeStep, FlagsTypeStep, ProcessTypeStep, StreamTypeStep
<1>3. AppTypeOK'
  BY <1>2, TypeParts, PTL
<1>4. TurnInv' /\ ResultsAreEarned' /\ GoneInv'
  BY <1>1, TurnStep, ResultStep, GoneStep DEF AppInv
<1> QED BY <1>3, <1>4 DEF AppInv

\* Run knows what its turn has received, and has a living process only before it is over.
THEOREM AppInvariance == AppSpec => []AppInv
  BY InitHolds, NextKeeps, PTL DEF AppSpec

\* The variables of Run, the process and its two goroutines keep their types, the channel
\* its capacity.
THEOREM AppTypeCorrect == AppSpec => []AppTypeOK
<1>1. AppInv => AppTypeOK
  BY DEF AppInv
<1> QED BY <1>1, AppInvariance, PTL

\* runTurn: a success follows a handshake and an accepted handoff, and a handoff is only
\* reported missing where none was accepted in the turn.
THEOREM ResultsAreTrue == AppSpec => []ResultsAreEarned
<1>1. AppInv => ResultsAreEarned
  BY DEF AppInv
<1> QED BY <1>1, AppInvariance, PTL

\* closeSession, waitForProcess and their callers: the app-server process does not outlive
\* its run.
THEOREM ProcessIsGone == AppSpec => []NoProcessIsLeft
<1>1. AppInv => NoProcessIsLeft
  BY DEF AppInv, GoneInv
<1> QED BY <1>1, AppInvariance, PTL

\* runTurn, closeSession and Close, as the Runner interface has them: the runner keeps the
\* promise of AgentTurns to its worker, whatever its process does.
THEOREM RunTakesTurns == AppSpec => TakesTurns
<1>1. AppInit => OutcomeInv /\ Turns!TurnInit
  BY InitPromises
<1>2. AppInv /\ OutcomeInv /\ [AppNext]_appVars => OutcomeInv'
  BY TypeParts, OutcomeStep DEF AppInv
<1>3. AppInv /\ AppInv' /\ OutcomeInv /\ OutcomeInv' /\ [AppNext]_appVars
         => [Turns!TurnNext]_(Turns!turnVars)
  <2> SUFFICES ASSUME AppInv, AppInv', OutcomeInv, OutcomeInv', [AppNext]_appVars
               PROVE  [Turns!TurnNext]_(Turns!turnVars)
    OBVIOUS
  <2>1. RunTyped
    BY TypeParts DEF AppInv
  <2>2. AppTypeOK' /\ TurnInv' /\ GoneInv'
    BY DEF AppInv
  <2>3. RunTyped'
    BY <2>2, TypeParts, PTL
  <2> QED BY <2>1, <2>2, <2>3, PromiseStep DEF AppInv
<1> QED BY <1>1, <1>2, <1>3, AppInvariance, PTL DEF AppSpec, TakesTurns, Turns!TurnSpec

=============================================================================
