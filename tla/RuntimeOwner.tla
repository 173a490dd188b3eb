---------------------------- MODULE RuntimeOwner ----------------------------
(***************************************************************************)
(* Which daemon owns a project: the runtime_descriptors row with its owner *)
(* nonce and heartbeat (internal/store/store.go), and the life of Serve    *)
(* around it (internal/app/app.go).                                        *)
(*                                                                         *)
(* Several daemons are started for one project.  Each may stall for any    *)
(* time between two of its statements, crash, or be stopped; the clock     *)
(* goes on.  The database is shared with the daemons of other projects,    *)
(* which reap this project's row too.                                      *)
(***************************************************************************)
EXTENDS Naturals

CONSTANTS
    Daemons,        \* processes of Serve for the project, each started once
    Others,         \* daemons of other projects that share the app database
    None,           \* no daemon, no row
    TTL,            \* heartbeat_ttl_ms, in ticks of the clock
    MaxTime         \* bound: how long the clock goes on

ASSUME ProcessesAssumption == Daemons \cap Others = {} /\ None \notin Daemons
ASSUME TTLAssumption == TTL \in Nat \ {0} /\ MaxTime \in Nat

VARIABLES
    stage,          \* what a daemon's Serve does next
    row,            \* the project's runtime_descriptors row
    file,           \* whose descriptor file is on disk
    session,        \* whose CLI session is in local_sessions and on disk
    scan,           \* the stale row a reaper has read and not yet removed
    ticking,        \* daemons with a scheduler tick in flight
    clock,          \* when a daemon that starts up went on to what it does next
    now,            \* the clock
    missed,         \* observation: daemons whose heartbeat expired while they ran
                    \* and was not renewed
    stripped        \* observation: daemons whose descriptor file went, while they had
                    \* missed a heartbeat, in a transaction that kept their row

ownerVars == <<stage, row, file, session, scan, ticking, clock, now, missed, stripped>>

ServeStages == {"off", "reap", "acquire", "write_file", "write_session", "reconcile",
                "serving", "lost", "stopping", "remove", "remove_file", "remove_row",
                "drain", "exited"}

\* owner stands for daemon_pid and for owner_nonce: a process takes one nonce.
Descriptors == [owner : Daemons, beat : 0..MaxTime]

ASSUME NoRowAssumption == None \notin Descriptors

OwnerTypeOK ==
    /\ stage \in [Daemons -> ServeStages]
    /\ row \in Descriptors \cup {None}
    /\ file \in Daemons \cup {None}
    /\ session \in Daemons \cup {None}
    /\ scan \in [Daemons \cup Others -> Descriptors \cup {None}]
    /\ ticking \subseteq Daemons
    /\ clock \in [Daemons -> 0..MaxTime]
    /\ now \in 0..MaxTime
    /\ missed \subseteq Daemons
    /\ stripped \subseteq Daemons

OwnerInit ==
    /\ stage = [d \in Daemons |-> "off"]
    /\ row = None
    /\ file = None
    /\ session = None
    /\ scan = [p \in Daemons \cup Others |-> None]
    /\ ticking = {}
    /\ clock = [d \in Daemons |-> 0]
    /\ now = 0
    /\ missed = {}
    /\ stripped = {}

Owns(d) == row # None /\ row.owner = d

Running(d) == stage[d] \notin {"off", "exited"}

GoOn(d, next) == stage' = [stage EXCEPT ![d] = next]

\* d will read the clock no sooner than now.
ReadFrom(d) == clock' = [clock EXCEPT ![d] = now]

\* The clock is read before the statement that uses it: a daemon that stalls in
\* between, or waits for the database, uses an old time.
Since(t) == t..now

\* runtimeOwnerIsLive at time t.  The pid of a process that has ended is free, or some
\* other program's: then the row is judged by its heartbeat alone.
Fresh(r, t) == r.beat + TTL > t
JudgedLive(r, t) == r # None /\ Fresh(r, t)
JudgedStale(r, t) == r # None /\ (~Fresh(r, t) \/ ~Running(r.owner))

-----------------------------------------------------------------------------
(* Reaping: ReapStaleRuntimeDescriptors reads the rows and removes each     *)
(* stale one in a transaction of its own.                                  *)

\* At startup, in the reap loop of a daemon that serves, or of another project's.
\* What is stale at an old time is stale now.
Scan(p) ==
    /\ scan[p] = None
    /\ p \in Daemons => stage[p] \in {"reap", "serving", "lost"}
    /\ JudgedStale(row, now)
    /\ scan' = [scan EXCEPT ![p] = row]
    /\ UNCHANGED <<stage, row, file, session, ticking, clock, now, missed, stripped>>

\* Mutant: a row that was refreshed or replaced meanwhile is removed as well.
SameOwner(r) == row # None /\ row.owner = r.owner

\* The row is still the one that was read: same pid, heartbeat and ttl.
Unchanged(r) == row = r

Reap(p) ==
    /\ scan[p] # None
    /\ \/ Unchanged(scan[p]) /\ row' = None /\ file' = None
       \/ ~Unchanged(scan[p]) /\ UNCHANGED <<row, file>>
    /\ scan' = [scan EXCEPT ![p] = None]
    /\ IF p \in Daemons /\ stage[p] = "reap" THEN GoOn(p, "acquire") /\ ReadFrom(p)
                                             ELSE UNCHANGED <<stage, clock>>
    /\ UNCHANGED <<session, ticking, now, missed, stripped>>

\* The process ends: with it go its tick and whatever it had read.
End(d) ==
    /\ GoOn(d, "exited")
    /\ ticking' = ticking \ {d}
    /\ scan' = [scan EXCEPT ![d] = None]

\* A transaction that removes a stale row removes its file before it is committed.
\* When it does not commit, the row stays, and the file may be gone.
RollBack ==
    /\ row' = row
    /\ \/ UNCHANGED <<file, stripped>>
       \/ file' = None /\ stripped' = stripped \cup {d \in missed : Owns(d)}

\* The reaper crashes, or its transaction fails: at startup that ends Serve.
FailReap(p) ==
    /\ scan[p] # None
    /\ \/ Unchanged(scan[p]) /\ RollBack
       \/ ~Unchanged(scan[p]) /\ UNCHANGED <<row, file, stripped>>
    /\ IF p \in Daemons /\ stage[p] = "reap"
       THEN End(p)
       ELSE scan' = [scan EXCEPT ![p] = None] /\ UNCHANGED <<stage, ticking>>
    /\ UNCHANGED <<session, clock, now, missed>>

-----------------------------------------------------------------------------
(* Startup.                                                                *)

StartServe(d) ==
    /\ stage[d] = "off"
    /\ GoOn(d, "reap")
    /\ ReadFrom(d)
    /\ UNCHANGED <<row, file, session, scan, ticking, now, missed, stripped>>

\* Nothing to reap.
NothingStale(d) ==
    /\ stage[d] = "reap"
    /\ scan[d] = None
    /\ \/ row = None
       \/ \E t \in Since(clock[d]) : JudgedLive(row, t)
    /\ GoOn(d, "acquire")
    /\ ReadFrom(d)
    /\ UNCHANGED <<row, file, session, scan, ticking, now, missed, stripped>>

\* Once d has a row with beat t: a row written with an old time is late already.
MissedBy(d, t) == IF t + TTL > now THEN missed \ {d} ELSE missed \cup {d}

\* The row is free or stale: it is reaped, with its file, and replaced.
Take(d, t) ==
    /\ row = None \/ JudgedStale(row, t)
    /\ \/ /\ row' = [owner |-> d, beat |-> t]
          /\ file' = IF row = None THEN file ELSE None
          /\ missed' = MissedBy(d, t)
          /\ GoOn(d, "write_file")
          /\ UNCHANGED <<scan, ticking, stripped>>
       \/ /\ IF row = None THEN UNCHANGED <<row, file, stripped>> ELSE RollBack
          /\ End(d)
          /\ UNCHANGED missed

\* Mutant: the conflict cleans up the CLI session, as the later errors do.
AcquireOrCleanUp(d) ==
    /\ stage[d] = "acquire"
    /\ \E t \in Since(clock[d]) :
          \/ /\ JudgedLive(row, t)
             /\ session' = None
             /\ End(d)
             /\ UNCHANGED <<row, file, missed, stripped>>
          \/ Take(d, t) /\ UNCHANGED session
    /\ clock' = [clock EXCEPT ![d] = 0]
    /\ UNCHANGED now

\* CreateRuntimeDescriptorWithNonce: a conflict with a live owner ends Serve, and so
\* does a transaction that fails; a stale row is reaped, with its file, in the
\* transaction that takes its place.
Acquire(d) ==
    /\ stage[d] = "acquire"
    /\ \E t \in Since(clock[d]) :
          \/ JudgedLive(row, t) /\ End(d) /\ UNCHANGED <<row, file, missed, stripped>>
          \/ Take(d, t)
    /\ clock' = [clock EXCEPT ![d] = 0]
    /\ UNCHANGED <<session, now>>

\* A write that fails, and may have spoilt the file, gives the project up again.
WriteFile(d) ==
    /\ stage[d] = "write_file"
    /\ \/ file' = d /\ GoOn(d, "write_session")
       \/ file' \in {file, None} /\ GoOn(d, "remove")
    /\ UNCHANGED <<row, session, scan, ticking, clock, now, missed, stripped>>

\* removeCLISession, if the session row was written, removes whatever is there.
WriteSession(d) ==
    /\ stage[d] = "write_session"
    /\ \/ session' = d /\ GoOn(d, "reconcile")
       \/ session' \in {session, None} /\ GoOn(d, "remove")
    /\ UNCHANGED <<row, file, scan, ticking, clock, now, missed, stripped>>

\* ReconcileStaleActiveRuns and the workflow, each of which can fail.
Reconcile(d) ==
    /\ stage[d] = "reconcile"
    /\ \/ GoOn(d, "serving") /\ UNCHANGED session
       \/ GoOn(d, "remove") /\ session' = None
    /\ UNCHANGED <<row, file, scan, ticking, clock, now, missed, stripped>>

-----------------------------------------------------------------------------
(* Serving.                                                                *)

\* Mutants: a heartbeat takes the row back; it records when it expires; a lost one
\* is only logged.
BeatOrTakeBack(d) ==
    /\ stage[d] \in {"serving", "stopping"}
    /\ row' = [owner |-> d, beat |-> now]
    /\ missed' = missed \ {d}
    /\ UNCHANGED <<stage, file, session, scan, ticking, clock, now, stripped>>

BeatExpiry(d) ==
    /\ stage[d] \in {"serving", "stopping"}
    /\ Owns(d)
    /\ row' = [row EXCEPT !.beat = now + TTL] /\ missed' = missed \ {d}
    /\ UNCHANGED <<stage, file, session, scan, ticking, clock, now, stripped>>

LogLostHeartbeat(d) == FALSE /\ UNCHANGED ownerVars

\* UpdateRuntimeHeartbeat by nonce: it refreshes the daemon's own row, late or not,
\* with a time read after the one that is there.
Beat(d) ==
    /\ stage[d] \in {"serving", "stopping"}
    /\ Owns(d)
    /\ \E t \in Since(row.beat) : row' = [row EXCEPT !.beat = t] /\ missed' = MissedBy(d, t)
    /\ UNCHANGED <<stage, file, session, scan, ticking, clock, now, stripped>>

\* It finds the row gone, or another's, and tells the main loop.
LoseHeartbeat(d) ==
    /\ stage[d] = "serving"
    /\ ~Owns(d)
    /\ GoOn(d, "lost")
    /\ UNCHANGED <<row, file, session, scan, ticking, clock, now, missed, stripped>>

\* The scheduler starts a tick when the recorded nonce is the daemon's own.
StartTick(d) ==
    /\ stage[d] \in {"serving", "lost", "stopping"}
    /\ d \notin ticking
    /\ Owns(d)
    /\ ticking' = ticking \cup {d}
    /\ UNCHANGED <<stage, row, file, session, scan, clock, now, missed, stripped>>

EndTick(d) ==
    /\ d \in ticking
    /\ ticking' = ticking \ {d}
    /\ UNCHANGED <<stage, row, file, session, scan, clock, now, missed, stripped>>

-----------------------------------------------------------------------------
(* Shutdown.                                                               *)

\* A signal, an error of the HTTP server, or the lost heartbeat.
Shutdown(d) ==
    /\ stage[d] \in {"serving", "lost"}
    /\ GoOn(d, "stopping")
    /\ UNCHANGED <<row, file, session, scan, ticking, clock, now, missed, stripped>>

\* The loops have stopped; a reap that had begun is finished first.
StopLoops(d) ==
    /\ stage[d] = "stopping"
    /\ scan[d] = None
    /\ GoOn(d, "remove")
    /\ UNCHANGED <<row, file, session, scan, ticking, clock, now, missed, stripped>>

\* RemoveRuntimeDescriptorForPID: it looks at the row, removes the file, and then
\* removes the row if it is still its own.  A statement that fails goes unnoticed.
LookAtRow(d) ==
    /\ stage[d] = "remove"
    /\ GoOn(d, "drain") \/ (Owns(d) /\ GoOn(d, "remove_file"))
    /\ UNCHANGED <<row, file, session, scan, ticking, clock, now, missed, stripped>>

RemoveFile(d) ==
    /\ stage[d] = "remove_file"
    /\ file' = None
    /\ GoOn(d, "remove_row")
    /\ UNCHANGED <<row, session, scan, ticking, clock, now, missed, stripped>>

RemoveRow(d) ==
    /\ stage[d] = "remove_row"
    /\ row' = row \/ (Owns(d) /\ row' = None)
    /\ GoOn(d, "drain")
    /\ UNCHANGED <<file, session, scan, ticking, clock, now, missed, stripped>>

\* The store is closed, and the process ends, when the tick in flight has ended.
Drain(d) ==
    /\ stage[d] = "drain"
    /\ d \notin ticking
    /\ End(d)
    /\ UNCHANGED <<row, file, session, clock, now, missed, stripped>>

\* A crash, a kill, or a second signal.
Crash(d) ==
    /\ Running(d)
    /\ End(d)
    /\ UNCHANGED <<row, file, session, clock, now, missed, stripped>>

\* The clock: a running owner whose heartbeat expires has missed it.
PassTime ==
    /\ now < MaxTime
    /\ now' = now + 1
    /\ missed' = missed \cup {d \in Daemons : Owns(d) /\ Running(d) /\ row.beat + TTL <= now + 1}
    /\ UNCHANGED <<stage, row, file, session, scan, ticking, clock, stripped>>

LeaveStep(d) == StopLoops(d) \/ LookAtRow(d) \/ RemoveFile(d) \/ RemoveRow(d) \/ Drain(d)

OwnerNext ==
    \/ \E p \in Daemons \cup Others : Scan(p) \/ Reap(p) \/ FailReap(p)
    \/ \E d \in Daemons : \/ StartServe(d) \/ NothingStale(d) \/ Acquire(d) \/ WriteFile(d)
                          \/ WriteSession(d) \/ Reconcile(d)
                          \/ Beat(d) \/ LoseHeartbeat(d) \/ StartTick(d) \/ EndTick(d)
                          \/ Shutdown(d) \/ LeaveStep(d) \/ Crash(d)
    \/ PassTime

OwnerSpec == OwnerInit /\ [][OwnerNext]_ownerVars

\* The way out of Serve once its heartbeat is lost.
WayOut(d) == LoseHeartbeat(d) \/ (stage[d] = "lost" /\ Shutdown(d)) \/ LeaveStep(d)

\* The heartbeat loop, the exit of Serve, a reap that has begun and a tick go on.
\* Nothing is assumed of signals, crashes and the clock.
OwnerFairness ==
    \A d \in Daemons : /\ WF_ownerVars(WayOut(d))
                       /\ WF_ownerVars(Reap(d) \/ FailReap(d))
                       /\ WF_ownerVars(EndTick(d))

FairOwnerSpec == OwnerSpec /\ OwnerFairness

-----------------------------------------------------------------------------
(* Correctness properties.                                                 *)

\* A daemon that starts up on the project, or serves it.
Active(d) == stage[d] \in {"write_file", "write_session", "reconcile", "serving"}

\* A daemon at work is the recorded owner, unless its own heartbeat has expired and
\* was not renewed: no reaper, no second daemon and no successor's exit takes the
\* project from a daemon that beats in time.  So two are at work only when one of
\* them has stalled.
OwnerUnlessMissed == \A d \in Daemons : Active(d) => Owns(d) \/ d \in missed

\* While every heartbeat is in time, the daemon that serves can be found: its CLI
\* session is the one on disk, and so is its descriptor, unless it was late once and
\* a transaction that did not commit took the file then.  Nothing else that reapers,
\* other daemons' startups and exits do to the files hides a daemon.
ServingIsDiscoverable ==
    missed = {} => \A d \in Daemons : stage[d] = "serving" =>
                      session = d /\ (file = d \/ d \in stripped)

\* A daemon that lost the project does not get it back.
LostStaysLost ==
    [][\A d \in Daemons :
          stage[d] \notin {"off", "reap", "acquire"} /\ ~Owns(d) => ~Owns(d)']_ownerVars

\* A daemon that lost the project while it served does not go on: it stops
\* dispatching, finishes its tick and exits.
SupersededExits ==
    \A d \in Daemons : stage[d] = "serving" /\ ~Owns(d) ~> stage[d] = "exited"

=============================================================================
