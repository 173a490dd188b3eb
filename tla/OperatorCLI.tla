---------------------------- MODULE OperatorCLI ----------------------------
(***************************************************************************)
(* One invocation each of the operator's commands (internal/cli), with the *)
(* client that finds the daemon (internal/daemonclient), against the       *)
(* daemons and files of Sessions: a command that reads, one that writes,   *)
(* `symphony login`, `symphony open` and `symphony login --logout`.        *)
(*                                                                         *)
(* A command finds a daemon by its /health answer, loads a bearer, sends   *)
(* one request and reports what came of it.  Between any two of these      *)
(* steps daemons stop and start, tokens die and other commands run.        *)
(***************************************************************************)
EXTENDS Sessions

CONSTANT Configured     \* addresses from SYMPHONY_DAEMON_URL and daemon.json, in order

ASSUME ConfiguredAssumption == Configured \in Seq(Addrs)

VARIABLE cli            \* an invocation: its command, where it stands, what it has read

operatorVars == <<sessionVars, cli>>

Commands == {"read", "write", "login", "open", "logout"}

(* cands   addresses that are still to be probed
   base    the daemon that was found
   token   the bearer that was read, and src where from
   known   observation: addresses that answered /health with this project
   seen    observation: the bearers that were read
   astray  observation: a bearer went to another project's daemon, which took the port
           after this project's had answered /health
   tried, degraded   as in logoutRevoke
   end     what was reported                                               *)
Invocations == [at : {"idle", "open_token", "probe", "load", "send", "wait", "project",
                      "legacy", "unlink", "unlink_legacy", "done"},
                cmd : Commands, cands : Seq(Addrs), base : Addrs \cup {None},
                token : Bearers \cup {None}, src : {"disk", "project", "legacy"},
                known : SUBSET Addrs, seen : SUBSET Bearers, astray : BOOLEAN,
                tried : BOOLEAN, degraded : BOOLEAN,
                end : {"none", "ok", "refused", "unauthorized", "unavailable", "no_session",
                       "unknown", "local", "logged_out", "degraded"}]

OperatorTypeOK == SessionTypeOK /\ cli \in [Callers -> Invocations]

OperatorInit ==
    /\ SessionInit
    /\ cli \in [Callers -> {[at |-> "idle", cmd |-> c, cands |-> <<>>, base |-> None,
                             token |-> None, src |-> "disk", known |-> {}, seen |-> {},
                             astray |-> FALSE, tried |-> FALSE, degraded |-> FALSE,
                             end |-> "none"] : c \in Commands}]

Step(p, c) == cli' = [cli EXCEPT ![p] = c]

At(p, stage) == cli[p].at = stage

Done(c, end) == [c EXCEPT !.at = "done", !.end = end]

-----------------------------------------------------------------------------
(* Finding a daemon: Discover and newDaemonContext.                        *)

\* The files are read when the list is made.
discoverCandidates ==
    Configured \o (IF descriptor = None THEN <<>> ELSE <<descriptor>>)
               \o (IF projFile \in SessionFiles /\ projFile.url # None THEN <<projFile.url>>
                                                                       ELSE <<>>)

Discover(c, cands) == [c EXCEPT !.at = "probe", !.cands = cands]

Begin(p) ==
    /\ At(p, "idle")
    /\ \/ /\ cli[p].cmd = "logout"
          /\ Step(p, [cli[p] EXCEPT !.at = "project"])
       \/ /\ cli[p].cmd \notin {"logout", "open"}
          /\ Step(p, Discover(cli[p], discoverCandidates))
       \/ /\ cli[p].cmd = "open" /\ descriptor = None
          /\ Step(p, Done(cli[p], "unavailable"))
       \/ /\ cli[p].cmd = "open" /\ descriptor # None
          /\ Step(p, [cli[p] EXCEPT !.at = "open_token", !.cands = <<descriptor>>])
    /\ UNCHANGED sessionVars

\* loadCLISessionToken, readCLISessionToken: the project's file, or the legacy one if
\* that is absent.
LoadedToken ==
    CASE projFile \in SessionFiles -> projFile.token
      [] projFile = None /\ legacyFile \in SessionFiles -> legacyFile.token
      [] OTHER -> None

WithToken(c, t) == [c EXCEPT !.token = t, !.seen = @ \cup {t}]

ReadOpenToken(p) ==
    /\ At(p, "open_token")
    /\ IF LoadedToken = None
       THEN Step(p, Done(cli[p], "unauthorized"))
       ELSE Step(p, [WithToken(cli[p], LoadedToken) EXCEPT !.at = "probe"])
    /\ UNCHANGED sessionVars

\* Mutant: the project_id of the answer is not compared.
AnyProject(a) == Serving(a) \/ host[a] = "foreign"

\* /health names this project.
reachable(a) == Serving(a)

ProbeFinds(p) ==
    /\ At(p, "probe") /\ cli[p].cands # <<>>
    /\ LET a == Head(cli[p].cands)
       IN  /\ reachable(a)
           /\ Step(p, [cli[p] EXCEPT !.at = IF cli[p].token = None THEN "load" ELSE "send",
                                     !.base = a,
                                     !.known = IF Serving(a) THEN @ \cup {a} ELSE @])
    /\ UNCHANGED sessionVars

\* No answer in two seconds, another project's, or not a daemon's.
ProbeFails(p) ==
    /\ At(p, "probe") /\ cli[p].cands # <<>>
    /\ Step(p, [cli[p] EXCEPT !.cands = Tail(@)])
    /\ UNCHANGED sessionVars

\* Mutant: a command that writes falls back to the local store as well.
FallsBackAlways(c) == c.cmd \in {"read", "write"}

FallsBack(c) == c.cmd = "read"

\* A revoke that is not confirmed: logoutRevoke goes on to the next source.
Degrade(c) ==
    CASE c.src = "project" -> [c EXCEPT !.at = "legacy", !.degraded = TRUE, !.token = None]
      [] OTHER -> Done(c, "degraded")

\* What a command does without a daemon, or without an answer.
Without(p, end) ==
    CASE cli[p].cmd = "logout" -> Step(p, Degrade(cli[p])) /\ UNCHANGED applied
      [] FallsBack(cli[p]) ->
            /\ Step(p, Done(cli[p], "local"))
            /\ applied' = IF cli[p].cmd = "write" THEN [applied EXCEPT ![p] = @ + 1] ELSE applied
      [] OTHER -> Step(p, Done(cli[p], end)) /\ UNCHANGED applied

NoDaemon(p) ==
    /\ At(p, "probe") /\ cli[p].cands = <<>>
    /\ Without(p, "unavailable")
    /\ UNCHANGED <<host, descriptor, row, serveRow, projFile, legacyFile, link,
                   browser, requests>>

\* New loads the bearer.  Without one the local store is never used.
LoadToken(p) ==
    /\ At(p, "load")
    /\ LET noFile == projFile = None /\ legacyFile = None
       IN  \/ /\ LoadedToken # None
              /\ Step(p, [WithToken(cli[p], LoadedToken) EXCEPT !.at = "send"])
           \/ /\ LoadedToken = None /\ cli[p].cmd = "logout"
              /\ Step(p, Degrade(cli[p]))
           \/ /\ LoadedToken = None /\ cli[p].cmd # "logout"
              /\ Step(p, Done(cli[p], IF noFile /\ cli[p].cmd = "read" THEN "no_session"
                                                                     ELSE "unauthorized"))
    /\ UNCHANGED sessionVars

-----------------------------------------------------------------------------
(* The request.                                                            *)

Op(cmd) ==
    CASE cmd = "login" -> "session" [] cmd = "logout" -> "revoke" [] OTHER -> cmd

\* Whoever listens gets the bearer.  A connection is accepted as soon as Serve listens,
\* and answered once it serves.
Send(p) ==
    /\ At(p, "send")
    /\ LET c == cli[p]
           peer == IF host[c.base] = "foreign" THEN "foreign" ELSE "ours"
       IN  /\ requests' = requests \cup
                IF host[c.base] = "none" THEN {}
                ELSE {[caller |-> p, src |-> c.src, addr |-> c.base, peer |-> peer,
                       token |-> c.token, op |-> Op(c.cmd), at |-> "sent", reply |-> "none",
                       waited |-> TRUE, dead |-> ~Live(c.token)]}
           /\ Step(p, [c EXCEPT !.at = "wait",
                                !.astray = @ \/ (peer = "foreign" /\ c.base \in c.known)])
    /\ UNCHANGED <<host, descriptor, row, serveRow, projFile, legacyFile, link,
                   browser, applied>>

Awaited(p) == {q \in requests : q.caller = p /\ q.src = cli[p].src /\ q.waited}

\* Mutant: a terminal answer for the legacy bearer clears a degraded revoke.
ConfirmedAnyway(c) == [c EXCEPT !.at = "unlink"]

\* The daemon has said what became of the bearer.
Confirmed(c) ==
    IF c.degraded THEN Done(c, "degraded") ELSE [c EXCEPT !.at = "unlink"]

Outcome(c, reply) ==
    CASE c.cmd = "logout" /\ reply # "refused" -> Confirmed(c)
      [] c.cmd = "logout" /\ reply = "refused" -> Degrade(c)
      [] OTHER -> Done(c, reply)

Receive(p) ==
    /\ At(p, "wait")
    /\ \E q \in Awaited(p) :
          /\ q.at = "answered"
          /\ Step(p, Outcome(cli[p], q.reply))
          /\ requests' = requests \ {q}
    /\ UNCHANGED <<host, descriptor, row, serveRow, projFile, legacyFile, link,
                   browser, applied>>

\* Mutant: the request has no timeout.
NoAnswerFromTheDead(p) ==
    /\ At(p, "wait")
    /\ ~Ours(cli[p].base)
    /\ Without(p, "unknown")
    /\ requests' = requests \ Awaited(p)
    /\ UNCHANGED <<host, descriptor, row, serveRow, projFile, legacyFile, link, browser>>

\* A timeout or a transport error; the daemon may still carry the request out.
NoAnswer(p) ==
    /\ At(p, "wait")
    /\ Without(p, "unknown")
    /\ requests' = {q \in requests : q \notin Awaited(p)} \cup
                   {[q EXCEPT !.waited = FALSE] : q \in {r \in Awaited(p) : r.at # "answered"}}
    /\ UNCHANGED <<host, descriptor, row, serveRow, projFile, legacyFile, link, browser>>

-----------------------------------------------------------------------------
(* symphony login --logout.                                                *)

\* A session file that is there: a usable one has its daemon probed, at its own URL.
RevokeFrom(c, src, file) ==
    [WithToken(c, file.token) EXCEPT !.at = "probe", !.src = src, !.cands = <<file.url>>,
                                     !.tried = TRUE]

\* The authoritative source.  One that cannot be used is degraded for good.
RevokeProject(p) ==
    /\ At(p, "project")
    /\ \/ /\ projFile = None
          /\ Step(p, [cli[p] EXCEPT !.at = "legacy"])
       \/ /\ projFile = Unusable
          /\ Step(p, [cli[p] EXCEPT !.at = "legacy", !.tried = TRUE, !.degraded = TRUE])
       \/ /\ projFile \in SessionFiles
          /\ Step(p, RevokeFrom(cli[p], "project", projFile))
    /\ UNCHANGED sessionVars

\* With no file at all a daemon is looked for without a bearer.
RevokeLegacy(p) ==
    /\ At(p, "legacy")
    /\ LET usable == legacyFile \in SessionFiles /\ legacyFile.url # None
       IN  \/ /\ usable
              /\ Step(p, RevokeFrom(cli[p], "legacy", legacyFile))
           \/ /\ ~usable /\ (legacyFile # None \/ cli[p].tried)
              /\ Step(p, Done(cli[p], "degraded"))
           \/ /\ legacyFile = None /\ ~cli[p].tried
              /\ Step(p, [Discover(cli[p], discoverCandidates) EXCEPT !.src = "disk"])
    /\ UNCHANGED sessionVars

DeleteSessionFile(p) ==
    /\ At(p, "unlink")
    /\ projFile' = None
    /\ Step(p, [cli[p] EXCEPT !.at = "unlink_legacy"])
    /\ UNCHANGED <<host, descriptor, row, serveRow, legacyFile, link, browser,
                   requests, applied>>

\* Another project's file is kept; one that is not JSON too, one without an owner not.
deleteLegacySession(p) ==
    /\ At(p, "unlink_legacy")
    /\ legacyFile' \in CASE legacyFile \in SessionFiles -> {None}
                         [] legacyFile = Unusable -> {Unusable, None}
                         [] OTHER -> {legacyFile}
    /\ Step(p, Done(cli[p], "logged_out"))
    /\ UNCHANGED <<host, descriptor, row, serveRow, projFile, link, browser,
                   requests, applied>>

-----------------------------------------------------------------------------

InvocationStep(p) ==
    \/ Begin(p) \/ ReadOpenToken(p) \/ ProbeFinds(p) \/ ProbeFails(p) \/ NoDaemon(p)
    \/ LoadToken(p) \/ Send(p) \/ Receive(p) \/ NoAnswer(p)
    \/ RevokeProject(p) \/ RevokeLegacy(p) \/ DeleteSessionFile(p) \/ deleteLegacySession(p)

OperatorNext ==
    \/ DaemonStep /\ UNCHANGED cli
    \/ \E p \in Callers : InvocationStep(p)

OperatorSpec == OperatorInit /\ [][OperatorNext]_operatorVars

\* The timeouts of the commands fire; nothing is assumed of the daemons.
FairOperatorSpec == OperatorSpec /\ \A p \in Callers : WF_operatorVars(InvocationStep(p))

-----------------------------------------------------------------------------
(* Properties.                                                             *)

\* A command that writes is carried out at most once, by a daemon, and what is reported
\* fits: "ok" when it was, and not at all when it could not be sent or was not
\* authorised.  An error of its handler leaves open whether it was, but not that it will
\* be: after any answer nothing of the request is left.  Only "unknown" leaves that open
\* as well.  The daemon of the answer may be gone by then.
WritesHappenOnce ==
    \A p \in Callers :
       cli[p].cmd = "write" =>
          /\ applied[p] <= 1
          /\ cli[p].end = "ok" => applied[p] = 1
          /\ cli[p].end \in {"unauthorized", "unavailable"} => applied[p] = 0
          /\ cli[p].end \in {"ok", "refused", "unauthorized", "unavailable"} =>
                \A q \in requests : q.caller # p

\* What is dead stays dead.  A request sent with a bearer that was revoked, replaced or
\* deleted is not carried out; only one that was on its way may be.  A browser session
\* that was revoked or has expired is not opened again by its link.
DeadSessionsAreRefused ==
    [][/\ \A q \in requests, r \in requests' :
             (q.caller = r.caller /\ q.src = r.src /\ q.dead) =>
                ~(r.reply = "ok" \/ r.at = "authorized")
       /\ \A o \in Links :
             browser[o] \in {"revoked", "expired"} => browser'[o] # "live"]_operatorVars

\* `logged_out` is reported only when no bearer the command has read is accepted any
\* more: a source that degraded is not made good by the other one, and the answer of
\* another project's daemon, wherever files and configuration point, is no confirmation.
\* Excepted is a daemon that took the port between the /health answer and the request.
\* A bearer the command did not read is LegacyLogsOutToo's.
LogoutIsConfirmed ==
    \A p \in Callers :
       cli[p].end = "logged_out" => cli[p].astray \/ \A t \in cli[p].seen : ~Live(t)

\* What the comment of cmdLogin promises of the session of an older build: after
\* `logged_out` its bearer does not authenticate either.
LegacyLogsOutToo ==
    \A p \in Callers : cli[p].end = "logged_out" => cli[p].astray \/ ~Live(OldToken)

\* While a daemon serves, the project's session file, if there is one, holds that
\* daemon's bearer and address: an earlier Serve, or a logout, never brings back or
\* leaves behind another one.
FileIsTheDaemons ==
    \A a \in Addrs : Serving(a) => projFile \in {None, [token |-> serveRow, url |-> a]}

\* Every command ends, whether or not a daemon ever answers.
CommandsEnd == \A p \in Callers : <>(At(p, "done"))

=============================================================================
