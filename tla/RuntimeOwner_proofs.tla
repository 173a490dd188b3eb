-------------------------- MODULE RuntimeOwner_proofs --------------------------
(***************************************************************************)
(* Proofs about RuntimeOwner: that only a missed heartbeat costs a daemon  *)
(* its project, for any number of daemons, reapers and clock ticks.        *)
(***************************************************************************)
EXTENDS RuntimeOwner, TLAPS

\* Stages before a daemon can have the project.
Before == {"off", "reap", "acquire"}

\* A daemon at work, or about to remove its descriptor file, is the owner or late.
Held == \A d \in Daemons : Active(d) \/ stage[d] = "remove_file" => Owns(d) \/ d \in missed

\* A row is that of a daemon that acquired it; when it is stale its owner has missed
\* a heartbeat, or runs no more.
RowIsHeld ==
    row # None => /\ stage[row.owner] \notin Before
                  /\ Running(row.owner) /\ ~Fresh(row, now) => row.owner \in missed

\* What a reaper has read is stale for ever, if the owner still runs.
ScansAreStale ==
    \A p \in Daemons \cup Others : scan[p] # None =>
        /\ stage[scan[p].owner] \notin Before
        /\ Running(scan[p].owner) => scan[p].beat + TTL <= now

MissedHadIt == \A d \in missed : stage[d] \notin Before

\* Nobody has lost the project for a missed heartbeat.
NoneLost == \A d \in missed : Owns(d)

\* Then a daemon finds the files it has written, except the one that a transaction
\* took without being committed.
FilesAreKept ==
    NoneLost => \A d \in Daemons :
        /\ stage[d] \in {"write_session", "reconcile", "serving"} => file = d \/ d \in stripped
        /\ stage[d] \in {"reconcile", "serving"} => session = d

OwnerInv ==
    /\ OwnerTypeOK
    /\ Held
    /\ RowIsHeld
    /\ ScansAreStale
    /\ MissedHadIt
    /\ FilesAreKept

-----------------------------------------------------------------------------
LEMMA InitOwnerInv == OwnerInit => OwnerInv
<1> SUFFICES ASSUME OwnerInit PROVE OwnerInv
  OBVIOUS
<1> USE DEF OwnerInit
<1>1. OwnerTypeOK
  BY TTLAssumption DEF OwnerTypeOK, ServeStages
<1>2. Held /\ MissedHadIt /\ FilesAreKept
  BY DEF Held, MissedHadIt, FilesAreKept, Active
<1>3. RowIsHeld /\ ScansAreStale
  BY DEF RowIsHeld, ScansAreStale
<1> QED BY <1>1, <1>2, <1>3 DEF OwnerInv

\* While nobody has lost the project, whoever is at work is its owner: there is one.
LEMMA OneAtWork ==
  ASSUME OwnerInv, NoneLost, NEW d \in Daemons, NEW e \in Daemons,
         Active(d) \/ stage[d] = "remove_file", Active(e)
  PROVE  e = d
BY DEF OwnerInv, Held, NoneLost, Owns

\* A running owner whose row is removed or replaced as stale has missed a heartbeat.
LEMMA StaleOwnerMissed ==
  ASSUME OwnerInv, NEW t \in Nat, t <= now, JudgedStale(row, t), Running(row.owner)
  PROVE  row.owner \in missed
<1>1. ~Fresh(row, now)
  BY TTLAssumption DEF JudgedStale, Fresh, OwnerInv, OwnerTypeOK, Descriptors
<1> QED BY <1>1 DEF OwnerInv, RowIsHeld, JudgedStale

\* What holds between d's stages before and after a step that moves d alone and
\* touches neither the row nor the clock.
MayGo(d, next) ==
    /\ stage[d] \notin Before => next \notin Before
    /\ ~Running(d) => stage[d] \in Before
    /\ next \in {"write_file", "write_session", "reconcile", "serving", "remove_file"}
          => Owns(d) \/ d \in missed

LEMMA MoveKeeps ==
  ASSUME OwnerInv, NEW d \in Daemons, NEW next \in ServeStages, GoOn(d, next), MayGo(d, next),
         UNCHANGED <<row, now, missed>>,
         \A p \in Daemons \cup Others : scan'[p] = scan[p] \/ scan'[p] = None
  PROVE  (Held /\ RowIsHeld /\ ScansAreStale /\ MissedHadIt)'
<1> USE DEF OwnerInv, GoOn
<1>1. \A e \in Daemons : stage'[e] = IF e = d THEN next ELSE stage[e]
  BY DEF OwnerTypeOK
<1>2. Held'
  BY <1>1 DEF Held, MayGo, Active, Owns
<1>3. \A e \in Daemons : /\ stage[e] \notin Before => stage'[e] \notin Before
                         /\ Running(e)' /\ stage[e] \notin Before => Running(e)
  BY <1>1 DEF MayGo, Running, Before
<1>4. RowIsHeld'
  BY <1>3 DEF RowIsHeld, Fresh, OwnerTypeOK, Descriptors
<1>5. ScansAreStale'
  BY <1>3 DEF ScansAreStale, OwnerTypeOK, Descriptors
<1>6. MissedHadIt'
  BY <1>3 DEF MissedHadIt, OwnerTypeOK
<1> QED BY <1>2, <1>4, <1>5, <1>6

\* Steps that leave the stages, the row, the clock and the files alone.
LEMMA StayKeeps ==
  ASSUME OwnerInv, UNCHANGED <<stage, row, now, missed, stripped, file, session>>,
         \A p \in Daemons \cup Others : scan'[p] = scan[p] \/ scan'[p] = None
  PROVE  (Held /\ RowIsHeld /\ ScansAreStale /\ MissedHadIt /\ FilesAreKept)'
<1> USE DEF OwnerInv
<1>1. (Held /\ MissedHadIt /\ FilesAreKept)'
  BY DEF Held, MissedHadIt, FilesAreKept, NoneLost, Owns, Active
<1>2. (RowIsHeld /\ ScansAreStale)'
  BY DEF RowIsHeld, ScansAreStale, Running, Fresh
<1> QED BY <1>1, <1>2

\* A transaction that is rolled back over a stale row takes the file of nobody at work
\* but its late owner.
LEMMA RollBackKeeps ==
  ASSUME OwnerInv, row # None, Running(row.owner) => row.owner \in missed, RollBack,
         UNCHANGED <<session, missed>>,
         \A e \in Daemons : stage'[e] \in {"write_session", "reconcile", "serving"}
                             => stage'[e] = stage[e]
  PROVE  FilesAreKept'
<1> SUFFICES ASSUME NoneLost', NEW e \in Daemons,
                    stage'[e] \in {"write_session", "reconcile", "serving"}
             PROVE  /\ file' = e \/ e \in stripped'
                    /\ stage'[e] \in {"reconcile", "serving"} => session' = e
  BY DEF FilesAreKept
<1>1. NoneLost /\ stage'[e] = stage[e]
  BY DEF RollBack, NoneLost, Owns
<1>2. /\ file = e \/ e \in stripped
      /\ stage[e] \in {"reconcile", "serving"} => session = e
  BY <1>1 DEF OwnerInv, FilesAreKept
<1>3. Owns(e) /\ Running(e)
  BY <1>1 DEF OwnerInv, Held, NoneLost, Active, Running
<1>4. e \in missed
  BY <1>3 DEF Owns
<1> QED BY <1>1, <1>2, <1>3, <1>4 DEF RollBack

-----------------------------------------------------------------------------
(* Type correctness.                                                       *)

LEMMA TypePreserved == OwnerTypeOK /\ [OwnerNext]_ownerVars => OwnerTypeOK'
<1> SUFFICES ASSUME OwnerTypeOK, [OwnerNext]_ownerVars PROVE OwnerTypeOK'
  OBVIOUS
<1> USE DEF OwnerTypeOK
<1>1. ASSUME NEW p \in Daemons \cup Others, Scan(p) PROVE OwnerTypeOK'
  BY <1>1 DEF Scan
<1>2. ASSUME NEW p \in Daemons \cup Others, Reap(p) PROVE OwnerTypeOK'
  BY <1>2 DEF Reap, GoOn, ReadFrom, ServeStages
<1>3. ASSUME NEW d \in Daemons, StartServe(d) \/ NothingStale(d) PROVE OwnerTypeOK'
  BY <1>3 DEF StartServe, NothingStale, GoOn, ReadFrom, ServeStages
<1>12. ASSUME NEW p \in Daemons \cup Others, FailReap(p) PROVE OwnerTypeOK'
  BY <1>12 DEF FailReap, RollBack, End, GoOn, ServeStages
<1>4. ASSUME NEW d \in Daemons, Acquire(d) PROVE OwnerTypeOK'
  <2>1. PICK t \in Since(clock[d]) :
            \/ JudgedLive(row, t) /\ End(d) /\ UNCHANGED <<row, file, missed, stripped>>
            \/ Take(d, t)
    BY <1>4 DEF Acquire
  <2>2. t \in 0..MaxTime
    BY TTLAssumption DEF Since
  <2>3. clock' = [clock EXCEPT ![d] = 0] /\ UNCHANGED <<session, now>>
    BY <1>4 DEF Acquire
  <2>4. clock' \in [Daemons -> 0..MaxTime]
    BY <2>3, TTLAssumption
  <2>5. CASE End(d) /\ UNCHANGED <<row, file, missed, stripped>>
    BY <2>3, <2>4, <2>5 DEF End, GoOn, ServeStages
  <2>6. CASE /\ row' = [owner |-> d, beat |-> t]
             /\ file' = IF row = None THEN file ELSE None
             /\ missed' = MissedBy(d, t)
             /\ GoOn(d, "write_file")
             /\ UNCHANGED <<scan, ticking, stripped>>
    BY <2>2, <2>3, <2>4, <2>6 DEF GoOn, MissedBy, Descriptors, ServeStages
  <2>7. CASE /\ IF row = None THEN UNCHANGED <<row, file, stripped>> ELSE RollBack
             /\ End(d)
             /\ UNCHANGED missed
    BY <2>3, <2>4, <2>7 DEF RollBack, End, GoOn, ServeStages
  <2> QED BY <2>1, <2>5, <2>6, <2>7 DEF Take
<1>5. ASSUME NEW d \in Daemons, WriteFile(d) \/ WriteSession(d) \/ Reconcile(d) PROVE OwnerTypeOK'
  BY <1>5 DEF WriteFile, WriteSession, Reconcile, GoOn, ServeStages
<1>6. ASSUME NEW d \in Daemons, Beat(d) PROVE OwnerTypeOK'
  <2>1. PICK t \in Since(row.beat) : row' = [row EXCEPT !.beat = t] /\ missed' = MissedBy(d, t)
    BY <1>6 DEF Beat
  <2>2. row \in Descriptors
    BY <1>6 DEF Beat, Owns
  <2>3. t \in 0..MaxTime
    BY <2>2, TTLAssumption DEF Since, Descriptors
  <2> QED BY <1>6, <2>1, <2>2, <2>3 DEF Beat, MissedBy, Descriptors
<1>7. ASSUME NEW d \in Daemons, LoseHeartbeat(d) \/ StartTick(d) \/ EndTick(d) \/ Shutdown(d)
      PROVE OwnerTypeOK'
  BY <1>7 DEF LoseHeartbeat, StartTick, EndTick, Shutdown, GoOn, ServeStages
<1>8. ASSUME NEW d \in Daemons, LeaveStep(d) PROVE OwnerTypeOK'
  <2>1. CASE StopLoops(d) \/ LookAtRow(d)
    BY <2>1 DEF StopLoops, LookAtRow, GoOn, ServeStages
  <2>2. CASE RemoveFile(d) \/ RemoveRow(d)
    BY <2>2 DEF RemoveFile, RemoveRow, GoOn, ServeStages
  <2>3. CASE Drain(d)
    BY <2>3 DEF Drain, End, GoOn, ServeStages
  <2> QED BY <1>8, <2>1, <2>2, <2>3 DEF LeaveStep
<1>9. ASSUME NEW d \in Daemons, Crash(d) PROVE OwnerTypeOK'
  BY <1>9 DEF Crash, End, GoOn, ServeStages
<1>10. ASSUME PassTime PROVE OwnerTypeOK'
  BY <1>10, TTLAssumption DEF PassTime
<1>11. CASE UNCHANGED ownerVars
  BY <1>11 DEF ownerVars
<1> QED BY <1>1, <1>2, <1>3, <1>4, <1>5, <1>6, <1>7, <1>8, <1>9, <1>10, <1>11, <1>12 DEF OwnerNext

-----------------------------------------------------------------------------
(* The steps that take a row away, replace it or refresh it.                *)

LEMMA ReapKeeps ==
  ASSUME OwnerInv, OwnerTypeOK', NEW p \in Daemons \cup Others, Reap(p)
  PROVE  OwnerInv'
<1> DEFINE next == IF p \in Daemons /\ stage[p] = "reap" THEN "acquire" ELSE stage[p]
<1>1. \A e \in Daemons : /\ stage'[e] = stage[e] \/ (stage[e] = "reap" /\ stage'[e] = "acquire")
  BY DEF Reap, GoOn, OwnerInv, OwnerTypeOK
<1>2. \A q \in Daemons \cup Others : scan'[q] = scan[q] \/ scan'[q] = None
  BY DEF Reap, OwnerInv, OwnerTypeOK
<1>3. now' = now /\ missed' = missed /\ session' = session /\ stripped' = stripped
  BY DEF Reap
<1>4. ScansAreStale' /\ MissedHadIt'
  BY <1>1, <1>2, <1>3 DEF OwnerInv, OwnerTypeOK, ScansAreStale, MissedHadIt, Before, Running, Descriptors
<1>5. CASE row' = row /\ file' = file
  <2>1. Held' /\ RowIsHeld'
    BY <1>1, <1>3, <1>5 DEF OwnerInv, OwnerTypeOK, Held, RowIsHeld, Active, Owns, Before, Running, Fresh, Descriptors
  <2>2. FilesAreKept'
    BY <1>1, <1>3, <1>5 DEF OwnerInv, FilesAreKept, NoneLost, Owns
  <2> QED BY <1>4, <2>1, <2>2 DEF OwnerInv
<1>6. CASE Unchanged(scan[p]) /\ row' = None /\ file' = None
  <2>1. row # None
    BY <1>6 DEF Reap, Unchanged
  <2>2. Running(row.owner) => row.owner \in missed
    <3>1. Running(row.owner) => ~Fresh(row, now)
      BY <1>6, <2>1, TTLAssumption
         DEF OwnerInv, OwnerTypeOK, ScansAreStale, Unchanged, Fresh, Descriptors
    <3> QED BY <2>1, <3>1 DEF OwnerInv, RowIsHeld
  <2>3. ~Owns(row.owner)' /\ RowIsHeld'
    BY <1>6 DEF Owns, RowIsHeld
  <2>4. Held'
    BY <1>1, <1>3, <2>1, <2>2 DEF OwnerInv, Held, Owns, Active, Running
  <2>5. FilesAreKept'
    \* Then nobody is at work: an owner at work would have lost the project.
    <3> SUFFICES ASSUME NoneLost', NEW e \in Daemons,
                        stage'[e] \in {"write_session", "reconcile", "serving"}
                 PROVE  FALSE
      BY DEF FilesAreKept
    <3>1. missed = {}
      BY <1>3, <1>6 DEF NoneLost, Owns
    <3>2. Owns(e) /\ Running(e)
      BY <1>1, <3>1 DEF OwnerInv, Held, Active, Running
    <3> QED BY <2>2, <3>1, <3>2 DEF Owns
  <2> QED BY <1>4, <2>3, <2>4, <2>5 DEF OwnerInv
<1> QED BY <1>5, <1>6 DEF Reap

\* A reaper that fails leaves the row, and goes on or ends.
LEMMA FailReapKeeps ==
  ASSUME OwnerInv, OwnerTypeOK', NEW p \in Daemons \cup Others, FailReap(p)
  PROVE  OwnerInv'
<1>1. UNCHANGED <<row, session, now, missed>>
  BY DEF FailReap, RollBack
<1>2. \A q \in Daemons \cup Others : scan'[q] = scan[q] \/ scan'[q] = None
  BY DEF FailReap, End, OwnerInv, OwnerTypeOK
<1>3. stage' = stage \/ (p \in Daemons /\ stage[p] = "reap" /\ GoOn(p, "exited"))
  BY DEF FailReap, End
<1>4. (Held /\ RowIsHeld /\ ScansAreStale /\ MissedHadIt)'
  <2>1. CASE stage' = stage
    BY <1>1, <1>2, <2>1
       DEF OwnerInv, OwnerTypeOK, Held, RowIsHeld, ScansAreStale, MissedHadIt, Active, Owns,
           Running, Fresh
  <2>2. CASE p \in Daemons /\ stage[p] = "reap" /\ GoOn(p, "exited")
    <3>1. MayGo(p, "exited")
      BY <2>2 DEF MayGo, Before, Running
    <3> QED BY <1>1, <1>2, <2>2, <3>1, MoveKeeps DEF ServeStages
  <2> QED BY <1>3, <2>1, <2>2
<1>5. \A e \in Daemons : stage'[e] \in {"write_session", "reconcile", "serving"}
                          => stage'[e] = stage[e]
  BY <1>3 DEF GoOn, OwnerInv, OwnerTypeOK
<1>6. FilesAreKept'
  <2>1. CASE UNCHANGED <<file, stripped>>
    BY <1>1, <1>5, <2>1 DEF OwnerInv, FilesAreKept, NoneLost, Owns
  <2>2. CASE Unchanged(scan[p]) /\ RollBack
    <3>1. row # None
      BY <2>2 DEF FailReap, Unchanged
    <3>2. Running(row.owner) => ~Fresh(row, now)
      BY <2>2, <3>1, TTLAssumption
         DEF FailReap, OwnerInv, OwnerTypeOK, ScansAreStale, Unchanged, Fresh, Descriptors
    <3>3. Running(row.owner) => row.owner \in missed
      BY <3>1, <3>2 DEF OwnerInv, RowIsHeld
    <3> QED BY <1>1, <1>5, <2>2, <3>1, <3>3, RollBackKeeps
  <2> QED BY <2>1, <2>2 DEF FailReap
<1> QED BY <1>4, <1>6 DEF OwnerInv

LEMMA TakeKeeps ==
  ASSUME OwnerInv, OwnerTypeOK', NEW d \in Daemons, stage[d] = "acquire",
         NEW t \in 0..now, row = None \/ JudgedStale(row, t),
         row' = [owner |-> d, beat |-> t], missed' = MissedBy(d, t), GoOn(d, "write_file"),
         UNCHANGED <<scan, session, now>>
  PROVE  OwnerInv'
<1>1. \A e \in Daemons : stage'[e] = IF e = d THEN "write_file" ELSE stage[e]
  BY DEF GoOn, OwnerInv, OwnerTypeOK
<1>2. /\ Owns(d)' /\ \A e \in Daemons : Owns(e)' => e = d
  <2>1. row' \in Descriptors
    BY TTLAssumption DEF Descriptors, OwnerInv, OwnerTypeOK
  <2>2. row' # None
    BY <2>1, NoRowAssumption
  <2> QED BY <2>2 DEF Owns
<1>3. /\ \A e \in Daemons : e # d => (e \in missed' <=> e \in missed)
      /\ ~Fresh(row, now)' => d \in missed'
      /\ missed' \subseteq missed \cup {d}
  BY DEF MissedBy, Fresh
<1>4. \A e \in Daemons : e # d /\ Running(e) /\ Owns(e) => e \in missed
  BY StaleOwnerMissed DEF Owns, OwnerInv, OwnerTypeOK
<1>5. Held'
  BY <1>1, <1>2, <1>3, <1>4 DEF OwnerInv, Held, Active, Running
<1>6. RowIsHeld'
  BY <1>1, <1>3 DEF RowIsHeld, Before
<1>7. ScansAreStale' /\ MissedHadIt'
  BY <1>1, <1>3 DEF OwnerInv, OwnerTypeOK, ScansAreStale, MissedHadIt, Before, Running, Descriptors
<1>8. FilesAreKept'
  <2> SUFFICES ASSUME NoneLost', NEW e \in Daemons,
                      stage'[e] \in {"write_session", "reconcile", "serving"}
               PROVE  FALSE
    BY DEF FilesAreKept
  <2>1. e # d /\ Active(e) /\ Running(e)
    BY <1>1 DEF Active, Running
  <2>2. e \in missed
    BY <1>4, <2>1 DEF OwnerInv, Held
  <2> QED BY <1>2, <1>3, <2>1, <2>2 DEF NoneLost
<1> QED BY <1>5, <1>6, <1>7, <1>8 DEF OwnerInv

LEMMA BeatKeeps ==
  ASSUME OwnerInv, OwnerTypeOK', NEW d \in Daemons, Beat(d)
  PROVE  OwnerInv'
<1>1. PICK t \in Since(row.beat) : row' = [row EXCEPT !.beat = t] /\ missed' = MissedBy(d, t)
  BY DEF Beat
<1>2. row \in Descriptors /\ row.owner = d /\ row'.owner = d /\ row'.beat = t
  BY <1>1 DEF Beat, Owns, OwnerInv, OwnerTypeOK, Descriptors
<1>3. row' # None
  <2>1. row' \in Descriptors
    BY <1>1, <1>2, TTLAssumption DEF Descriptors, OwnerInv, OwnerTypeOK, Since
  <2> QED BY <2>1, NoRowAssumption
<1>4. /\ \A e \in Daemons : Owns(e)' <=> Owns(e)
      /\ \A e \in Daemons : e # d => (e \in missed' <=> e \in missed)
      /\ ~Fresh(row, now)' => d \in missed'
      /\ missed' \subseteq missed \cup {d}
  BY <1>1, <1>2, <1>3 DEF Owns, MissedBy, Fresh, Beat
<1>5. UNCHANGED <<stage, file, session, scan, now, stripped>> /\ Owns(d) /\ stage[d] \notin Before
  BY DEF Beat, Before
<1>6. Held' /\ RowIsHeld' /\ MissedHadIt'
  BY <1>2, <1>4, <1>5 DEF OwnerInv, Held, RowIsHeld, MissedHadIt, Active, Running
<1>7. ScansAreStale'
  BY <1>5 DEF OwnerInv, ScansAreStale, Running
<1>8. FilesAreKept'
  <2>1. NoneLost' => NoneLost
    BY <1>4, <1>5 DEF NoneLost, OwnerInv, OwnerTypeOK
  <2> QED BY <1>5, <2>1 DEF OwnerInv, FilesAreKept
<1> QED BY <1>6, <1>7, <1>8 DEF OwnerInv

-----------------------------------------------------------------------------
(* The other steps move one daemon.                                        *)

LEMMA StartupKeeps ==
  ASSUME OwnerInv, OwnerTypeOK', NEW d \in Daemons,
         StartServe(d) \/ NothingStale(d) \/ WriteFile(d) \/ WriteSession(d) \/ Reconcile(d)
  PROVE  OwnerInv'
<1>1. CASE StartServe(d) \/ NothingStale(d)
  <2>1. PICK next \in {"reap", "acquire"} : GoOn(d, next) /\ MayGo(d, next)
    BY <1>1 DEF StartServe, NothingStale, MayGo, Before, Running
  <2>2. UNCHANGED <<row, file, session, scan, now, missed, stripped>>
    BY <1>1 DEF StartServe, NothingStale
  <2>3. (Held /\ RowIsHeld /\ ScansAreStale /\ MissedHadIt)'
    BY <2>1, <2>2, MoveKeeps DEF ServeStages
  <2>4. FilesAreKept'
    BY <2>1, <2>2 DEF GoOn, OwnerInv, OwnerTypeOK, FilesAreKept, NoneLost, Owns
  <2> QED BY <2>3, <2>4 DEF OwnerInv
<1>2. CASE WriteFile(d) \/ WriteSession(d) \/ Reconcile(d)
  <2>1. PICK next \in {"write_session", "reconcile", "serving", "remove"} :
            GoOn(d, next) /\ MayGo(d, next)
    BY <1>2 DEF WriteFile, WriteSession, Reconcile, MayGo, Before, Running, Active, OwnerInv, Held
  <2>2. UNCHANGED <<row, scan, now, missed, stripped>> /\ Active(d)
    BY <1>2 DEF WriteFile, WriteSession, Reconcile, Active
  <2>3. (Held /\ RowIsHeld /\ ScansAreStale /\ MissedHadIt)'
    BY <2>1, <2>2, MoveKeeps DEF ServeStages
  <2>4. FilesAreKept'
    \* d is the only one at work: the files it writes or removes are nobody else's.
    <3> SUFFICES ASSUME NoneLost', NEW e \in Daemons
                 PROVE  /\ stage'[e] \in {"write_session", "reconcile", "serving"}
                              => file' = e \/ e \in stripped'
                        /\ stage'[e] \in {"reconcile", "serving"} => session' = e
      BY DEF FilesAreKept
    <3>1. NoneLost
      BY <2>2 DEF NoneLost, Owns
    <3>2. CASE e # d
      <4>1. stage'[e] = stage[e] /\ ~Active(e)
        BY <2>1, <2>2, <3>1, <3>2, OneAtWork DEF GoOn, OwnerInv, OwnerTypeOK
      <4> QED BY <4>1 DEF Active
    <3>3. CASE e = d
      BY <1>2, <3>1, <3>3
         DEF WriteFile, WriteSession, Reconcile, GoOn, OwnerInv, OwnerTypeOK, FilesAreKept
    <3> QED BY <3>2, <3>3
  <2> QED BY <2>3, <2>4 DEF OwnerInv
<1> QED BY <1>1, <1>2

\* A daemon that goes out of the way without touching the files or the row.
LEMMA AsideKeeps ==
  ASSUME OwnerInv, OwnerTypeOK', NEW d \in Daemons, NEW next \in ServeStages,
         GoOn(d, next), MayGo(d, next), next \notin {"write_session", "reconcile", "serving"},
         UNCHANGED <<row, file, session, now, missed, stripped>>,
         \A p \in Daemons \cup Others : scan'[p] = scan[p] \/ scan'[p] = None
  PROVE  OwnerInv'
<1>1. (Held /\ RowIsHeld /\ ScansAreStale /\ MissedHadIt)'
  BY MoveKeeps
<1>2. FilesAreKept'
  BY DEF GoOn, OwnerInv, OwnerTypeOK, FilesAreKept, NoneLost, Owns
<1> QED BY <1>1, <1>2 DEF OwnerInv

LEMMA RemoveKeeps ==
  ASSUME OwnerInv, OwnerTypeOK', NEW d \in Daemons, RemoveFile(d) \/ RemoveRow(d)
  PROVE  OwnerInv'
<1>1. CASE RemoveFile(d)
  <2>1. GoOn(d, "remove_row") /\ MayGo(d, "remove_row")
    BY <1>1 DEF RemoveFile, MayGo, Before, Running
  <2>2. UNCHANGED <<row, session, scan, now, missed>> /\ stage[d] = "remove_file"
    BY <1>1 DEF RemoveFile
  <2>3. (Held /\ RowIsHeld /\ ScansAreStale /\ MissedHadIt)'
    BY <2>1, <2>2, MoveKeeps DEF ServeStages
  <2>4. FilesAreKept'
    <3> SUFFICES ASSUME NoneLost', NEW e \in Daemons,
                        stage'[e] \in {"write_session", "reconcile", "serving"}
                 PROVE  FALSE
      BY DEF FilesAreKept
    <3>1. NoneLost
      BY <2>2 DEF NoneLost, Owns
    <3>2. e # d /\ Active(e)
      BY <2>1 DEF GoOn, OwnerInv, OwnerTypeOK, Active
    <3> QED BY <2>2, <3>1, <3>2, OneAtWork
  <2> QED BY <2>3, <2>4 DEF OwnerInv
<1>2. CASE RemoveRow(d) /\ row' = row
  <2>1. GoOn(d, "drain") /\ MayGo(d, "drain") /\ UNCHANGED <<row, file, session, scan, now, missed, stripped>>
    BY <1>2 DEF RemoveRow, MayGo, Before, Running
  <2> QED BY <2>1, AsideKeeps DEF ServeStages
<1>3. CASE RemoveRow(d) /\ Owns(d) /\ row' = None
  <2>1. \A e \in Daemons : stage'[e] = IF e = d THEN "drain" ELSE stage[e]
    BY <1>3 DEF RemoveRow, GoOn, OwnerInv, OwnerTypeOK
  <2>2. /\ row' = None /\ stage[d] = "remove_row"
        /\ UNCHANGED <<file, session, scan, now, missed, stripped>>
    BY <1>3 DEF RemoveRow
  <2>3. Held' /\ RowIsHeld'
    BY <1>3, <2>1, <2>2 DEF OwnerInv, Held, RowIsHeld, Active, Owns
  <2>4. ScansAreStale' /\ MissedHadIt'
    BY <2>1, <2>2 DEF OwnerInv, OwnerTypeOK, ScansAreStale, MissedHadIt, Before, Running, Descriptors
  <2>5. FilesAreKept'
    <3>1. NoneLost' => NoneLost
      BY <2>2 DEF NoneLost, Owns
    <3> QED BY <2>1, <2>2, <3>1 DEF OwnerInv, FilesAreKept
  <2> QED BY <2>3, <2>4, <2>5 DEF OwnerInv
<1> QED BY <1>1, <1>2, <1>3 DEF RemoveRow

LEMMA PassTimeKeeps ==
  ASSUME OwnerInv, OwnerTypeOK', PassTime
  PROVE  OwnerInv'
<1>1. /\ now' = now + 1 /\ now \in Nat
      /\ \A d \in Daemons : Owns(d) /\ Running(d) /\ row.beat + TTL <= now' => d \in missed'
      /\ \A d \in missed' : d \in missed \/ Owns(d)
      /\ missed \subseteq missed'
      /\ UNCHANGED <<stage, row, file, session, scan, stripped>>
  BY DEF PassTime, OwnerInv, OwnerTypeOK
<1>2. Held' /\ MissedHadIt'
  BY <1>1 DEF OwnerInv, OwnerTypeOK, Held, MissedHadIt, RowIsHeld, Active, Owns
<1>3. RowIsHeld'
  BY <1>1, TTLAssumption
     DEF OwnerInv, OwnerTypeOK, RowIsHeld, Owns, Running, Fresh, Descriptors
<1>4. ScansAreStale'
  BY <1>1, TTLAssumption DEF OwnerInv, OwnerTypeOK, ScansAreStale, Running, Descriptors
<1>5. FilesAreKept'
  BY <1>1 DEF OwnerInv, FilesAreKept, NoneLost, Owns
<1> QED BY <1>2, <1>3, <1>4, <1>5 DEF OwnerInv

LEMMA OwnerPreservation == OwnerInv /\ [OwnerNext]_ownerVars => OwnerInv'
<1> SUFFICES ASSUME OwnerInv, [OwnerNext]_ownerVars PROVE OwnerInv'
  OBVIOUS
<1>t. OwnerTypeOK'
  BY TypePreserved DEF OwnerInv
<1>1. ASSUME NEW p \in Daemons \cup Others, Scan(p) PROVE OwnerInv'
  <2>1. \A q \in Daemons \cup Others : scan'[q] = IF q = p THEN row ELSE scan[q]
    BY <1>1 DEF Scan, OwnerInv, OwnerTypeOK
  <2>2. UNCHANGED <<stage, row, file, session, now, missed, stripped>>
    BY <1>1 DEF Scan
  <2>3. (Held /\ MissedHadIt /\ FilesAreKept /\ RowIsHeld)'
    BY <2>2 DEF OwnerInv, Held, MissedHadIt, FilesAreKept, RowIsHeld, NoneLost, Owns, Active,
                Running, Fresh
  <2>4. row # None /\ stage[row.owner] \notin Before /\ (Running(row.owner) => row.beat + TTL <= now)
    BY <1>1, TTLAssumption
       DEF Scan, JudgedStale, Fresh, OwnerInv, OwnerTypeOK, RowIsHeld, Descriptors
  <2>5. ScansAreStale'
    BY <2>1, <2>2, <2>4 DEF OwnerInv, ScansAreStale, Running
  <2> QED BY <1>t, <2>3, <2>5 DEF OwnerInv
<1>2. ASSUME NEW p \in Daemons \cup Others, Reap(p) PROVE OwnerInv'
  BY <1>2, <1>t, ReapKeeps
<1>13. ASSUME NEW p \in Daemons \cup Others, FailReap(p) PROVE OwnerInv'
  BY <1>13, <1>t, FailReapKeeps
<1>3. ASSUME NEW d \in Daemons, StartServe(d) \/ NothingStale(d) PROVE OwnerInv'
  BY <1>3, <1>t, StartupKeeps
<1>4. ASSUME NEW d \in Daemons, Acquire(d) PROVE OwnerInv'
  <2>1. PICK t \in Since(clock[d]) :
            \/ End(d) /\ UNCHANGED <<row, file, missed, stripped>>
            \/ Take(d, t)
    BY <1>4 DEF Acquire
  <2>2. stage[d] = "acquire" /\ UNCHANGED <<session, now>>
    BY <1>4 DEF Acquire
  <2>3. t \in 0..now
    BY DEF Since, OwnerInv, OwnerTypeOK
  <2>4. ASSUME End(d)
        PROVE  /\ GoOn(d, "exited") /\ MayGo(d, "exited")
               /\ \A p \in Daemons \cup Others : scan'[p] = scan[p] \/ scan'[p] = None
    BY <2>2, <2>4 DEF End, MayGo, Before, Running, OwnerInv, OwnerTypeOK
  <2>5. CASE End(d) /\ UNCHANGED <<row, file, missed, stripped>>
    BY <1>t, <2>2, <2>4, <2>5, AsideKeeps DEF ServeStages
  <2>6. CASE /\ row = None \/ JudgedStale(row, t)
             /\ row' = [owner |-> d, beat |-> t]
             /\ missed' = MissedBy(d, t)
             /\ GoOn(d, "write_file")
             /\ UNCHANGED <<scan, ticking, stripped>>
    BY <1>t, <2>2, <2>3, <2>6, TakeKeeps
  <2>7. CASE JudgedStale(row, t) /\ RollBack /\ End(d) /\ UNCHANGED missed
    <3>1. row # None /\ (Running(row.owner) => row.owner \in missed)
      BY <2>3, <2>7, StaleOwnerMissed DEF JudgedStale, OwnerInv, OwnerTypeOK
    <3>2. row' = row
      BY <2>7 DEF RollBack
    <3>3. (Held /\ RowIsHeld /\ ScansAreStale /\ MissedHadIt)'
      BY <2>2, <2>4, <2>7, <3>2, MoveKeeps DEF ServeStages
    <3>4. \A e \in Daemons : stage'[e] \in {"write_session", "reconcile", "serving"}
                              => stage'[e] = stage[e]
      BY <2>4, <2>7 DEF GoOn, OwnerInv, OwnerTypeOK
    <3>5. FilesAreKept'
      BY <2>2, <2>7, <3>1, <3>4, RollBackKeeps
    <3> QED BY <1>t, <3>3, <3>5 DEF OwnerInv
  <2> QED BY <2>1, <2>5, <2>6, <2>7 DEF Take
<1>5. ASSUME NEW d \in Daemons, WriteFile(d) \/ WriteSession(d) \/ Reconcile(d) PROVE OwnerInv'
  BY <1>5, <1>t, StartupKeeps
<1>6. ASSUME NEW d \in Daemons, Beat(d) PROVE OwnerInv'
  BY <1>6, <1>t, BeatKeeps
<1>7. ASSUME NEW d \in Daemons, StartTick(d) \/ EndTick(d) PROVE OwnerInv'
  BY <1>7, <1>t, StayKeeps DEF StartTick, EndTick, OwnerInv
<1>8. ASSUME NEW d \in Daemons,
             LoseHeartbeat(d) \/ Shutdown(d) \/ StopLoops(d) \/ LookAtRow(d)
      PROVE  OwnerInv'
  <2>1. PICK next \in {"lost", "stopping", "remove", "remove_file", "drain"} :
            GoOn(d, next) /\ MayGo(d, next)
    BY <1>8 DEF LoseHeartbeat, Shutdown, StopLoops, LookAtRow, MayGo, Before, Running
  <2>2. UNCHANGED <<row, file, session, scan, now, missed, stripped>>
    BY <1>8 DEF LoseHeartbeat, Shutdown, StopLoops, LookAtRow
  <2> QED BY <1>t, <2>1, <2>2, AsideKeeps DEF ServeStages
<1>9. ASSUME NEW d \in Daemons, RemoveFile(d) \/ RemoveRow(d) PROVE OwnerInv'
  BY <1>9, <1>t, RemoveKeeps
<1>10. ASSUME NEW d \in Daemons, Drain(d) \/ Crash(d) PROVE OwnerInv'
  <2>1. GoOn(d, "exited") /\ MayGo(d, "exited") /\ UNCHANGED <<row, file, session, now, missed, stripped>>
    BY <1>10 DEF Drain, Crash, End, MayGo, Before, Running
  <2>2. \A p \in Daemons \cup Others : scan'[p] = scan[p] \/ scan'[p] = None
    BY <1>10 DEF Drain, Crash, End, OwnerInv, OwnerTypeOK
  <2> QED BY <1>t, <2>1, <2>2, AsideKeeps DEF ServeStages
<1>11. ASSUME PassTime PROVE OwnerInv'
  BY <1>11, <1>t, PassTimeKeeps
<1>12. CASE UNCHANGED ownerVars
  BY <1>12, <1>t, StayKeeps DEF ownerVars, OwnerInv
<1> QED BY <1>1, <1>2, <1>3, <1>4, <1>5, <1>6, <1>7, <1>8, <1>9, <1>10, <1>11, <1>12, <1>13
        DEF OwnerNext, LeaveStep

-----------------------------------------------------------------------------
(* The theorems.                                                           *)

\* The invariant is one of every run of the daemons.
THEOREM OwnerInvariance == OwnerSpec => []OwnerInv
<1> QED BY InitOwnerInv, OwnerPreservation, PTL DEF OwnerSpec

\* Stages, rows and what a reaper has read are always well formed.
THEOREM OwnerTypeCorrect == OwnerSpec => []OwnerTypeOK
<1>1. OwnerInv => OwnerTypeOK
  BY DEF OwnerInv
<1> QED BY <1>1, OwnerInvariance, PTL

\* A daemon at work on the project is its recorded owner unless its own heartbeat
\* expired: reaping, acquiring and releasing take the project from nobody else.
THEOREM OwnershipNeedsMiss == OwnerSpec => []OwnerUnlessMissed
<1>1. OwnerInv => OwnerUnlessMissed
  BY DEF OwnerInv, Held, OwnerUnlessMissed
<1> QED BY <1>1, OwnerInvariance, PTL

\* While every heartbeat is in time, the CLI session is that of the daemon that serves,
\* and so is the descriptor file, unless it went, while that daemon was late, with a
\* transaction that was not committed.
THEOREM OwnerIsFound == OwnerSpec => []ServingIsDiscoverable
<1>1. OwnerInv => ServingIsDiscoverable
  BY DEF OwnerInv, FilesAreKept, NoneLost, ServingIsDiscoverable
<1> QED BY <1>1, OwnerInvariance, PTL

\* A daemon that has lost the project never has it again.
THEOREM LostIsFinal == OwnerSpec => LostStaysLost
<1> DEFINE Stays == \A d \in Daemons : stage[d] \notin Before /\ ~Owns(d) => ~Owns(d)'
<1>1. OwnerInv /\ [OwnerNext]_ownerVars => [Stays]_ownerVars
  <2> SUFFICES ASSUME OwnerInv, OwnerNext, NEW d \in Daemons, stage[d] \notin Before, ~Owns(d)
               PROVE  ~Owns(d)'
    BY DEF Stays
  <2>1. row' = row \/ row' = None \/ \E e \in Daemons : Beat(e) \/ Acquire(e)
    BY DEF OwnerNext, Scan, Reap, FailReap, RollBack, StartServe, NothingStale, WriteFile, WriteSession, Reconcile,
           LoseHeartbeat, StartTick, EndTick, Shutdown, LeaveStep, StopLoops, LookAtRow, RemoveFile,
           RemoveRow, Drain, Crash, PassTime
  <2>2. CASE row' = row \/ row' = None
    BY <2>2 DEF Owns
  <2>3. ASSUME NEW e \in Daemons, Beat(e) PROVE ~Owns(d)'
    BY <2>3 DEF Beat, Owns, OwnerInv, OwnerTypeOK, Descriptors
  <2>4. ASSUME NEW e \in Daemons, Acquire(e) PROVE ~Owns(d)'
    BY <2>4 DEF Acquire, Take, RollBack, Owns, Before
  <2> QED BY <2>1, <2>2, <2>3, <2>4
<1>2. [Stays]_ownerVars =>
        [\A d \in Daemons : stage[d] \notin {"off", "reap", "acquire"} /\ ~Owns(d) => ~Owns(d)']_ownerVars
  BY DEF Before
<1> QED BY <1>1, <1>2, OwnerInvariance, PTL DEF OwnerSpec, LostStaysLost

=============================================================================
