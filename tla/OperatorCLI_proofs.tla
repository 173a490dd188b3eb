------------------------- MODULE OperatorCLI_proofs -------------------------
(***************************************************************************)
(* What the operator's commands may rely on, proved for any number of      *)
(* callers, addresses, bearers and links.                                  *)
(***************************************************************************)
EXTENDS OperatorCLI, TLAPS

-----------------------------------------------------------------------------
(* The daemon's side.                                                      *)

Used(t) == row[t] # "none"

OneDaemon == \A a, b \in Addrs : Ours(a) /\ Ours(b) => a = b

\* From the replaced row on there is a bearer, and a file that was written holds it.
BearerOfDaemon ==
    \A a \in Addrs :
       /\ host[a] \in {"minted", "torn", "filed", "ours"} => serveRow \in Bearers
       /\ host[a] \in {"filed", "ours"} => projFile \in {None, [token |-> serveRow, url |-> a]}

\* A bearer that is written down was minted once.
FilesAreUsed ==
    /\ serveRow \in Bearers => Used(serveRow)
    /\ projFile \in SessionFiles => projFile.url \in Addrs /\ Used(projFile.token)
    /\ legacyFile \in SessionFiles => Used(legacyFile.token)

LinksAreConsumed == \A o \in Links : browser[o] # "none" => link[o] = "consumed"

-----------------------------------------------------------------------------
(* An invocation on its own.                                               *)

Sound(c) ==
    /\ c.at = "done" <=> c.end # "none"
    /\ c.at = "open_token" => c.cmd = "open"
    /\ c.at \in {"project", "legacy", "unlink", "unlink_legacy"} => c.cmd = "logout"
    /\ c.cmd # "logout" => c.src = "disk"
    /\ c.src # "disk" => c.tried
    /\ c.at \in {"load", "send", "wait"} => c.base \in c.known
    /\ c.at \in {"send", "wait"} => c.token # None
    /\ c.at \in {"idle", "project", "legacy", "load"} => c.token = None
    /\ c.token # None => c.token \in c.seen

\* A logout that is not degraded holds the only bearer it has read.
HoldsItsBearer(c) ==
    c.cmd = "logout" /\ ~c.degraded =>
       /\ c.at \in {"idle", "project", "legacy"} => c.seen = {}
       /\ c.at \in {"probe", "load", "send", "wait"} => c.seen \subseteq {c.token}

\* A bearer that was read was minted once, and is dead once a logout is confirmed, unless
\* one went to another project's daemon.
Confirms(c) == c.astray \/ \A t \in c.seen : ~Live(t)

ReadBearers(c) ==
    /\ \A t \in c.seen : Used(t)
    /\ c.at \in {"unlink", "unlink_legacy"} \/ c.end = "logged_out" => Confirms(c)

InvocationsSound ==
    \A p \in Callers : Sound(cli[p]) /\ HoldsItsBearer(cli[p])

BearersRead == \A p \in Callers : ReadBearers(cli[p])

-----------------------------------------------------------------------------
(* The requests.                                                           *)

\* One request of a caller for each source it reads a bearer from.
OneEach ==
    \A q, r \in requests : q.caller = r.caller /\ q.src = r.src => q = r

\* A request is what its invocation asked, and one that went astray is known to have.
Asked(q) ==
    /\ q.op = Op(cli[q.caller].cmd)
    /\ q.peer = "foreign" => cli[q.caller].astray
    /\ Used(q.token)
    /\ q.waited => /\ cli[q.caller].at = "wait"
                   /\ q.src = cli[q.caller].src
                   /\ q.token = cli[q.caller].token

\* An answer is kept for one who waits for it, and tells what became of the bearer.
AnswerFits(q) ==
    /\ q.at = "answered" <=> q.reply # "none"
    /\ q.at = "answered" => q.waited
    /\ q.at = "answered" /\ q.op # "revoke" => q.reply \in {"ok", "refused", "unauthorized"}
    /\ q.at = "answered" /\ q.op = "revoke" =>
          /\ q.reply \in {"matched", "not_matched", "refused"}
          /\ q.reply # "refused" => q.peer = "foreign" \/ ~Live(q.token)

DeadOnes(q) ==
    q.dead => ~Live(q.token) /\ q.at # "authorized" /\ q.reply # "ok"

RequestsSound == \A q \in requests : Asked(q) /\ AnswerFits(q) /\ DeadOnes(q)

\* What an invocation has sent so far: nothing before its first "send", and in a logout
\* nothing of the source it is about to ask.
SentFits(c, q) ==
    /\ c.cmd # "logout" => c.at \in {"wait", "done"} /\ q.src = "disk"
    /\ c.at \notin {"idle", "open_token", "project"}
    /\ c.at \in {"probe", "load", "send"} => c.src = "legacy" /\ q.src = "project"
    /\ c.at = "legacy" => c.tried /\ q.src = "project"
    /\ c.at = "wait" /\ c.src = "project" => q.src = "project"

SentSoFar == \A q \in requests : SentFits(cli[q.caller], q)

\* A write that was not sent has not been carried out; its end tells what is known of it.
WriteOf(p) ==
    /\ cli[p].at \notin {"wait", "done"} => applied[p] = 0
    /\ applied[p] <= 1
    /\ cli[p].end = "ok" => applied[p] = 1
    /\ cli[p].end \in {"unauthorized", "unavailable"} => applied[p] = 0

\* What ends a command that writes, once nothing is left of its request.
Settled == {"ok", "refused", "unauthorized", "unavailable"}

WritesSound == \A p \in Callers : cli[p].cmd = "write" => WriteOf(p)

\* So does its answer; before it nothing was done.
WriteFits(q) ==
    q.op = "write" =>
       /\ q.at # "answered" \/ q.reply = "unauthorized" => applied[q.caller] = 0
       /\ q.reply = "ok" => applied[q.caller] = 1
       /\ cli[q.caller].end \notin Settled

WriteRequests == \A q \in requests : WriteFits(q)

DaemonInv == OneDaemon /\ BearerOfDaemon /\ FilesAreUsed /\ LinksAreConsumed

RequestInv == OneEach /\ RequestsSound /\ SentSoFar

WriteInv == WritesSound /\ WriteRequests

IInv ==
    /\ OperatorTypeOK
    /\ DaemonInv
    /\ InvocationsSound /\ BearersRead
    /\ RequestInv /\ WriteInv

-----------------------------------------------------------------------------
(* What a step makes of an invocation.                                     *)

Ready(c) == c \in Invocations /\ Sound(c) /\ HoldsItsBearer(c) /\ ReadBearers(c)

NextOf(c, d) == Ready(d) /\ d.cmd = c.cmd /\ (c.astray => d.astray)

\* A step of an invocation that has no request under way and leaves all requests alone.
QuietOf(c, d) ==
    /\ NextOf(c, d)
    /\ c.at \notin {"wait", "done"}
    /\ d.end # "ok"
    /\ \A q \in Requests : SentFits(c, q) => SentFits(d, q)

Ends == {"ok", "refused", "unauthorized", "unavailable", "no_session", "unknown", "local",
         "logged_out", "degraded"}

LEMMA DoneNext ==
    ASSUME NEW c, Ready(c), NEW e \in Ends,
           e = "logged_out" => Confirms(c)
    PROVE  NextOf(c, Done(c, e))
<1> DEFINE d == Done(c, e)
<1>1. d \in Invocations
  BY DEF Ready, Done, Invocations, Ends
<1>2. d.cmd = c.cmd /\ d.astray = c.astray
  BY DEF Ready, Done, Invocations
<1>3. Sound(d)
  BY DEF Ready, Done, Invocations, Sound, Ends
<1>4. HoldsItsBearer(d)
  BY DEF Ready, Done, Invocations, HoldsItsBearer
<1>5. ReadBearers(d)
  <2>1. d.seen = c.seen /\ d.at = "done" /\ d.end = e
    BY DEF Ready, Done, Invocations
  <2> QED BY <1>2, <2>1 DEF ReadBearers, Confirms, Ready
<1> QED BY <1>1, <1>2, <1>3, <1>4, <1>5 DEF NextOf, Ready

LEMMA DoneQuiet ==
    ASSUME NEW c, Ready(c), NEW e \in Ends \ {"ok"}, c.at \notin {"wait", "done"},
           e = "logged_out" => Confirms(c)
    PROVE  QuietOf(c, Done(c, e))
<1> DEFINE d == Done(c, e)
<1>1. NextOf(c, d)
  BY DoneNext
<1>2. d.at = "done" /\ d.end = e /\ d.cmd = c.cmd
  BY DEF Ready, Done, Invocations
<1>3. \A q \in Requests : SentFits(c, q) => SentFits(d, q)
  BY <1>2 DEF SentFits
<1> QED BY <1>1, <1>2, <1>3 DEF QuietOf

LEMMA DegradeNext ==
    ASSUME NEW c, Ready(c), c.cmd = "logout", c.at \in {"probe", "load", "wait"}
    PROVE  /\ NextOf(c, Degrade(c))
           /\ Degrade(c).end \in {"none", "degraded"}
           /\ Degrade(c).at \in {"legacy", "done"}
           /\ \A q \in Requests : SentFits(c, q) => SentFits(Degrade(c), q)
<1>1. CASE c.src = "project"
  <2> DEFINE d == [c EXCEPT !.at = "legacy", !.degraded = TRUE, !.token = None]
  <2>0. Degrade(c) = d
    BY <1>1 DEF Degrade
  <2>1. d \in Invocations
    BY DEF Ready, Invocations
  <2>2. d.cmd = c.cmd /\ d.astray = c.astray /\ d.at = "legacy" /\ d.end = c.end /\ d.seen = c.seen
    BY DEF Ready, Invocations
  <2>3. Sound(d)
    BY <1>1, NamesAssumption DEF Ready, Invocations, Sound
  <2>4. HoldsItsBearer(d)
    BY DEF Ready, Invocations, HoldsItsBearer
  <2>5. ReadBearers(d)
    BY <2>2 DEF ReadBearers, Confirms, Ready
  <2>6. c.end = "none"
    BY DEF Ready, Sound
  <2>7. ASSUME NEW q \in Requests, SentFits(c, q)
        PROVE  SentFits(d, q)
    <3>1. c.tried
      BY <1>1 DEF Ready, Sound
    <3>2. d.tried
      BY <3>1 DEF Ready, Invocations
    <3>3. q.src = "project"
      BY <2>7, <1>1 DEF SentFits
    <3> QED BY <2>2, <3>2, <3>3 DEF SentFits
  <2> QED BY <2>0, <2>1, <2>2, <2>3, <2>4, <2>5, <2>6, <2>7 DEF NextOf, Ready
<1>2. CASE c.src # "project"
  <2>1. Degrade(c) = Done(c, "degraded")
    BY <1>2 DEF Degrade
  <2>2. NextOf(c, Done(c, "degraded"))
    BY DoneNext DEF Ends
  <2>3. Done(c, "degraded").at = "done" /\ Done(c, "degraded").end = "degraded"
    BY DEF Ready, Done, Invocations
  <2>4. \A q \in Requests : SentFits(c, q) => SentFits(Done(c, "degraded"), q)
    BY <2>2, <2>3 DEF SentFits, NextOf
  <2> QED BY <2>1, <2>2, <2>3, <2>4
<1> QED BY <1>1, <1>2

\* A bearer is read, and used or sent next.
LEMMA TokenNext ==
    ASSUME NEW c, Ready(c), NEW t \in Bearers, Used(t), NEW stage \in {"probe", "send"},
           \/ c.at = "load" /\ stage = "send"
           \/ c.at = "open_token" /\ stage = "probe"
    PROVE  QuietOf(c, [WithToken(c, t) EXCEPT !.at = stage])
<1> DEFINE d == [WithToken(c, t) EXCEPT !.at = stage]
<1>1. d \in Invocations
  BY DEF Ready, WithToken, Invocations
<1>2. /\ d.cmd = c.cmd /\ d.astray = c.astray /\ d.at = stage /\ d.end = c.end
      /\ d.seen = c.seen \cup {t} /\ d.token = t /\ d.src = c.src /\ d.base = c.base
  BY DEF Ready, WithToken, Invocations
<1>3. Sound(d)
  BY NamesAssumption DEF Ready, WithToken, Invocations, Sound
<1>4. HoldsItsBearer(d)
  <2>1. SUFFICES ASSUME d.cmd = "logout", ~d.degraded PROVE d.seen \subseteq {t}
    BY <1>2 DEF HoldsItsBearer
  <2>2. c.cmd = "logout" /\ ~c.degraded
    BY <2>1, <1>2 DEF Ready, WithToken, Invocations
  <2>3. c.at = "load" /\ c.token = None
    BY <2>2 DEF Ready, Sound
  <2>4. c.seen \subseteq {None}
    BY <2>2, <2>3 DEF Ready, HoldsItsBearer
  <2>5. c.seen \subseteq Bearers
    BY DEF Ready, Invocations
  <2> QED BY <2>4, <2>5, <1>2, NamesAssumption
<1>5. c.end = "none"
  BY DEF Ready, Sound
<1>6. ReadBearers(d)
  BY <1>2, <1>5 DEF ReadBearers, Confirms, Ready
<1>7. \A q \in Requests : SentFits(c, q) => SentFits(d, q)
  BY <1>2 DEF SentFits, Ready, Sound
<1> QED BY <1>1, <1>2, <1>3, <1>4, <1>5, <1>6, <1>7 DEF QuietOf, NextOf, Ready

\* A list of candidates is made, by a command that has sent nothing.
LEMMA DiscoverNext ==
    ASSUME NEW c, Ready(c), NEW cands \in Seq(Addrs),
           c.at = "idle" \/ (c.at = "legacy" /\ ~c.tried)
    PROVE  QuietOf(c, [Discover(c, cands) EXCEPT !.src = "disk"])
<1> DEFINE d == [Discover(c, cands) EXCEPT !.src = "disk"]
<1>1. d \in Invocations
  BY DEF Ready, Discover, Invocations
<1>2. /\ d.cmd = c.cmd /\ d.astray = c.astray /\ d.at = "probe" /\ d.end = c.end
      /\ d.seen = c.seen /\ d.src = "disk"
  BY DEF Ready, Discover, Invocations
<1>3. Sound(d)
  BY DEF Ready, Discover, Invocations, Sound
<1>4. HoldsItsBearer(d)
  BY DEF Ready, Discover, Invocations, HoldsItsBearer
<1>5. c.end = "none"
  BY DEF Ready, Sound
<1>6. ReadBearers(d)
  BY <1>2, <1>5 DEF ReadBearers, Confirms, Ready
<1>7. ASSUME NEW q \in Requests, SentFits(c, q) PROVE SentFits(d, q)
  <2>1. c.at = "legacy" /\ ~c.tried
    BY <1>7 DEF SentFits
  <2> QED BY <2>1, <1>7 DEF SentFits
<1> QED BY <1>1, <1>2, <1>3, <1>4, <1>5, <1>6, <1>7 DEF QuietOf, NextOf, Ready

\* A logout takes up a session file.
LEMMA RevokeFromNext ==
    ASSUME NEW c, Ready(c), NEW file \in SessionFiles, Used(file.token), file.url \in Addrs,
           NEW src \in {"project", "legacy"}, c.at = src
    PROVE  QuietOf(c, RevokeFrom(c, src, file))
<1> DEFINE d == RevokeFrom(c, src, file)
<1>0. file.token \in Bearers /\ <<file.url>> \in Seq(Addrs)
  BY DEF SessionFiles
<1>1. d \in Invocations
  BY <1>0 DEF Ready, RevokeFrom, WithToken, Invocations
<1>2. /\ d.cmd = c.cmd /\ d.astray = c.astray /\ d.at = "probe" /\ d.end = c.end
      /\ d.seen = c.seen \cup {file.token} /\ d.token = file.token /\ d.src = src
  BY DEF Ready, RevokeFrom, WithToken, Invocations
<1>3. Sound(d)
  BY <1>0, NamesAssumption DEF Ready, RevokeFrom, WithToken, Invocations, Sound
<1>4. HoldsItsBearer(d)
  <2>1. SUFFICES ASSUME ~d.degraded PROVE d.seen \subseteq {file.token}
    BY <1>2 DEF HoldsItsBearer
  <2>2. c.cmd = "logout" /\ ~c.degraded
    BY <2>1 DEF Ready, Sound, RevokeFrom, WithToken, Invocations
  <2> QED BY <2>2, <1>2 DEF Ready, HoldsItsBearer
<1>5. c.end = "none"
  BY DEF Ready, Sound
<1>6. ReadBearers(d)
  BY <1>2, <1>5 DEF ReadBearers, Confirms, Ready
<1>7. \A q \in Requests : SentFits(c, q) => SentFits(d, q)
  BY <1>2 DEF SentFits, Ready, Sound
<1> QED BY <1>1, <1>2, <1>3, <1>4, <1>5, <1>6, <1>7 DEF QuietOf, NextOf, Ready

\* The rest of the quiet steps change one or two fields.
LEMMA StageNext ==
    ASSUME NEW c, Ready(c), NEW stage,
           \/ c.at = "idle" /\ c.cmd = "logout" /\ stage = "project"
           \/ c.at = "project" /\ stage = "legacy"
           \/ c.at = "unlink" /\ stage = "unlink_legacy"
    PROVE  QuietOf(c, [c EXCEPT !.at = stage])
<1> DEFINE d == [c EXCEPT !.at = stage]
<1>1. d \in Invocations
  BY DEF Ready, Invocations
<1>2. d.cmd = c.cmd /\ d.astray = c.astray /\ d.at = stage /\ d.end = c.end /\ d.seen = c.seen
  BY DEF Ready, Invocations
<1>3. Sound(d)
  BY DEF Ready, Invocations, Sound
<1>4. HoldsItsBearer(d)
  BY DEF Ready, Invocations, HoldsItsBearer
<1>5. c.end = "none"
  BY DEF Ready, Sound
<1>6. ReadBearers(d)
  BY <1>2, <1>5 DEF ReadBearers, Confirms, Ready
<1>7. \A q \in Requests : SentFits(c, q) => SentFits(d, q)
  BY <1>2 DEF SentFits, Ready, Sound
<1> QED BY <1>1, <1>2, <1>3, <1>4, <1>5, <1>6, <1>7 DEF QuietOf, NextOf, Ready

LEMMA UnusableNext ==
    ASSUME NEW c, Ready(c), c.at = "project"
    PROVE  QuietOf(c, [c EXCEPT !.at = "legacy", !.tried = TRUE, !.degraded = TRUE])
<1> DEFINE d == [c EXCEPT !.at = "legacy", !.tried = TRUE, !.degraded = TRUE]
<1>1. d \in Invocations
  BY DEF Ready, Invocations
<1>2. d.cmd = c.cmd /\ d.astray = c.astray /\ d.at = "legacy" /\ d.end = c.end /\ d.seen = c.seen
  BY DEF Ready, Invocations
<1>3. Sound(d)
  BY DEF Ready, Invocations, Sound
<1>4. HoldsItsBearer(d)
  BY DEF Ready, Invocations, HoldsItsBearer
<1>5. c.end = "none"
  BY DEF Ready, Sound
<1>6. ReadBearers(d)
  BY <1>2, <1>5 DEF ReadBearers, Confirms, Ready
<1>7. \A q \in Requests : SentFits(c, q) => SentFits(d, q)
  BY <1>2 DEF SentFits, Ready, Sound
<1> QED BY <1>1, <1>2, <1>3, <1>4, <1>5, <1>6, <1>7 DEF QuietOf, NextOf, Ready

LEMMA ProbeFailsNext ==
    ASSUME NEW c, Ready(c), c.at = "probe", c.cands # <<>>
    PROVE  QuietOf(c, [c EXCEPT !.cands = Tail(@)])
<1> DEFINE d == [c EXCEPT !.cands = Tail(@)]
<1>0. c.cands \in Seq(Addrs)
  BY DEF Ready, Invocations
<1>1. Tail(c.cands) \in Seq(Addrs)
  BY <1>0
<1>2. d \in Invocations
  BY <1>1 DEF Ready, Invocations
<1>3. /\ d.cmd = c.cmd /\ d.astray = c.astray /\ d.at = c.at /\ d.end = c.end /\ d.seen = c.seen
      /\ d.src = c.src
  BY DEF Ready, Invocations
<1>4. Sound(d)
  BY DEF Ready, Invocations, Sound
<1>5. HoldsItsBearer(d)
  BY DEF Ready, Invocations, HoldsItsBearer
<1>6. ReadBearers(d) /\ c.end = "none"
  BY <1>3 DEF ReadBearers, Confirms, Ready, Sound
<1>7. \A q \in Requests : SentFits(c, q) => SentFits(d, q)
  BY <1>3 DEF SentFits
<1> QED BY <1>2, <1>3, <1>4, <1>5, <1>6, <1>7 DEF QuietOf, NextOf, Ready

LEMMA ProbeFindsNext ==
    ASSUME NEW c, Ready(c), c.at = "probe", NEW a \in Addrs, NEW known \in SUBSET Addrs,
           c.known \subseteq known, a \in known,
           NEW stage, stage = IF c.token = None THEN "load" ELSE "send"
    PROVE  QuietOf(c, [c EXCEPT !.at = stage, !.base = a, !.known = known])
<1> DEFINE d == [c EXCEPT !.at = stage, !.base = a, !.known = known]
<1>2. d \in Invocations
  BY DEF Ready, Invocations
<1>3. /\ d.cmd = c.cmd /\ d.astray = c.astray /\ d.at = stage /\ d.end = c.end /\ d.seen = c.seen
      /\ d.src = c.src
  BY DEF Ready, Invocations
<1>4. Sound(d)
  BY DEF Ready, Invocations, Sound
<1>5. HoldsItsBearer(d)
  BY DEF Ready, Invocations, HoldsItsBearer
<1>6. ReadBearers(d) /\ c.end = "none"
  BY <1>3 DEF ReadBearers, Confirms, Ready, Sound
<1>7. \A q \in Requests : SentFits(c, q) => SentFits(d, q)
  BY <1>3 DEF SentFits
<1> QED BY <1>2, <1>3, <1>4, <1>5, <1>6, <1>7 DEF QuietOf, NextOf, Ready

-----------------------------------------------------------------------------
(* The quiet steps: everything but the request and what became of it.      *)

\* A step of an invocation deletes files, and touches nothing else of the daemons'.
Keeps ==
    /\ UNCHANGED <<host, descriptor, row, serveRow, link, browser>>
    /\ projFile' \in {projFile, None}
    /\ legacyFile' \in {legacyFile, None, Unusable}

QuietStep(p) ==
    /\ Keeps
    /\ UNCHANGED <<requests, applied>>
    /\ \E d \in Invocations : Step(p, d) /\ QuietOf(cli[p], d)

LEMMA ReadyInvocation ==
    ASSUME IInv, NEW p \in Callers
    PROVE  Ready(cli[p])
BY DEF IInv, OperatorTypeOK, InvocationsSound, BearersRead, Ready

LEMMA Loaded ==
    ASSUME IInv
    PROVE  /\ LoadedToken \in Bearers \cup {None}
           /\ LoadedToken # None => Used(LoadedToken)
<1>1. \A f \in SessionFiles : f.token \in Bearers
  BY DEF SessionFiles
<1> QED BY <1>1 DEF LoadedToken, IInv, DaemonInv, FilesAreUsed

LEMMA CandidatesTyped ==
    ASSUME IInv
    PROVE  discoverCandidates \in Seq(Addrs)
<1> DEFINE d == IF descriptor = None THEN <<>> ELSE <<descriptor>>
           f == IF projFile \in SessionFiles /\ projFile.url # None THEN <<projFile.url>>
                                                                    ELSE <<>>
<1>1. descriptor \in Addrs \cup {None}
  BY DEF IInv, OperatorTypeOK, SessionTypeOK
<1>2. projFile \in SessionFiles => projFile.url \in Addrs
  BY DEF IInv, DaemonInv, FilesAreUsed
<1>3. d \in Seq(Addrs)
  BY <1>1
<1>4. f \in Seq(Addrs)
  BY <1>2
<1>5. discoverCandidates = Configured \o d \o f
  BY DEF discoverCandidates
<1> HIDE DEF d, f
<1>6. Configured \o d \in Seq(Addrs)
  BY <1>3, ConfiguredAssumption
<1> QED BY <1>4, <1>5, <1>6

LEMMA UnchangedKeeps ==
    ASSUME UNCHANGED sessionVars
    PROVE  Keeps /\ UNCHANGED <<requests, applied>>
BY DEF sessionVars, Keeps

LEMMA QuietBy ==
    ASSUME NEW p \in Callers, NEW d, Step(p, d), QuietOf(cli[p], d),
           UNCHANGED sessionVars
    PROVE  QuietStep(p)
BY UnchangedKeeps DEF QuietStep, QuietOf, NextOf, Ready

LEMMA BeginQuiet ==
    ASSUME IInv, NEW p \in Callers, Begin(p)
    PROVE  QuietStep(p)
<1> DEFINE c == cli[p]
<1>0. c.at = "idle" /\ UNCHANGED sessionVars
  BY DEF Begin, At
<1>r. Ready(c)
  BY ReadyInvocation
<1>1. CASE c.cmd = "logout"
  <2>1. Step(p, [c EXCEPT !.at = "project"])
    BY <1>1 DEF Begin
  <2> QED BY <1>0, <1>1, <1>r, <2>1, StageNext, QuietBy
<1>2. CASE c.cmd \notin {"logout", "open"}
  <2>1. Step(p, Discover(c, discoverCandidates))
    BY <1>2 DEF Begin
  <2>2. c.src = "disk"
    BY <1>2, <1>r DEF Ready, Sound
  <2>3. [Discover(c, discoverCandidates) EXCEPT !.src = "disk"] = Discover(c, discoverCandidates)
    BY <2>2, <1>r DEF Ready, Discover, Invocations
  <2>4. QuietOf(c, [Discover(c, discoverCandidates) EXCEPT !.src = "disk"])
    BY <1>0, <1>r, DiscoverNext, CandidatesTyped
  <2>5. QuietOf(c, Discover(c, discoverCandidates))
    BY <2>3, <2>4
  <2> QED BY <1>0, <2>1, <2>5, QuietBy
<1>3. CASE c.cmd = "open" /\ descriptor = None
  <2>1. Step(p, Done(c, "unavailable"))
    BY <1>3 DEF Begin
  <2>2. QuietOf(c, Done(c, "unavailable"))
    BY <1>0, <1>r, DoneQuiet DEF Ends
  <2> QED BY <1>0, <2>1, <2>2, QuietBy
<1>4. CASE c.cmd = "open" /\ descriptor # None
  <2> DEFINE d == [c EXCEPT !.at = "open_token", !.cands = <<descriptor>>]
  <2>1. Step(p, d)
    BY <1>4 DEF Begin
  <2>2. <<descriptor>> \in Seq(Addrs)
    BY <1>4 DEF IInv, OperatorTypeOK, SessionTypeOK
  <2>3. d \in Invocations
    BY <2>2, <1>r DEF Ready, Invocations
  <2>4. /\ d.cmd = c.cmd /\ d.astray = c.astray /\ d.at = "open_token" /\ d.end = c.end
        /\ d.seen = c.seen
    BY <1>r DEF Ready, Invocations
  <2>5. Sound(d)
    BY <1>0, <1>4, <1>r DEF Ready, Invocations, Sound
  <2>6. HoldsItsBearer(d)
    BY <1>4, <2>4 DEF HoldsItsBearer
  <2>7. ReadBearers(d) /\ d.end # "ok"
    BY <1>0, <1>r, <2>4 DEF ReadBearers, Confirms, Ready, Sound
  <2>8. \A q \in Requests : SentFits(c, q) => SentFits(d, q)
    BY <1>0 DEF SentFits
  <2>9. QuietOf(c, d)
    BY <1>0, <2>3, <2>4, <2>5, <2>6, <2>7, <2>8 DEF QuietOf, NextOf, Ready
  <2> QED BY <1>0, <2>1, <2>9, QuietBy
<1> QED BY <1>1, <1>2, <1>3, <1>4

LEMMA ReadOpenTokenQuiet ==
    ASSUME IInv, NEW p \in Callers, ReadOpenToken(p)
    PROVE  QuietStep(p)
<1> DEFINE c == cli[p]
<1>0. c.at = "open_token" /\ UNCHANGED sessionVars
  BY DEF ReadOpenToken, At
<1>r. Ready(c)
  BY ReadyInvocation
<1>1. CASE LoadedToken = None
  <2>1. Step(p, Done(c, "unauthorized"))
    BY <1>1 DEF ReadOpenToken
  <2>2. QuietOf(c, Done(c, "unauthorized"))
    BY <1>0, <1>r, DoneQuiet DEF Ends
  <2> QED BY <1>0, <2>1, <2>2, QuietBy
<1>2. CASE LoadedToken # None
  <2>1. Step(p, [WithToken(c, LoadedToken) EXCEPT !.at = "probe"])
    BY <1>2 DEF ReadOpenToken
  <2>2. QuietOf(c, [WithToken(c, LoadedToken) EXCEPT !.at = "probe"])
    BY <1>0, <1>2, <1>r, Loaded, TokenNext
  <2> QED BY <1>0, <2>1, <2>2, QuietBy
<1> QED BY <1>1, <1>2

LEMMA ProbeFindsQuiet ==
    ASSUME IInv, NEW p \in Callers, ProbeFinds(p)
    PROVE  QuietStep(p)
<1> DEFINE c == cli[p]
           a == Head(c.cands)
           known == IF Serving(a) THEN c.known \cup {a} ELSE c.known
           stage == IF c.token = None THEN "load" ELSE "send"
           d == [c EXCEPT !.at = stage, !.base = a, !.known = known]
<1>0. c.at = "probe" /\ c.cands # <<>> /\ UNCHANGED sessionVars /\ Serving(a)
  BY DEF ProbeFinds, At, reachable
<1>r. Ready(c)
  BY ReadyInvocation
<1>1. Step(p, d)
  BY DEF ProbeFinds
<1>2. c.cands \in Seq(Addrs) /\ c.known \in SUBSET Addrs
  BY <1>r DEF Ready, Invocations
<1>3. a \in Addrs
  BY <1>0, <1>2
<1>4. known \in SUBSET Addrs /\ c.known \subseteq known /\ a \in known
  BY <1>0, <1>2, <1>3
<1>5. QuietOf(c, d)
  <2> HIDE DEF known, a
  <2> QED BY <1>0, <1>r, <1>3, <1>4, ProbeFindsNext
<1> QED BY <1>0, <1>1, <1>5, QuietBy

LEMMA ProbeFailsQuiet ==
    ASSUME IInv, NEW p \in Callers, ProbeFails(p)
    PROVE  QuietStep(p)
<1> DEFINE c == cli[p]
<1>0. c.at = "probe" /\ c.cands # <<>> /\ UNCHANGED sessionVars
  BY DEF ProbeFails, At
<1>r. Ready(c)
  BY ReadyInvocation
<1>1. Step(p, [c EXCEPT !.cands = Tail(@)])
  BY DEF ProbeFails
<1>2. QuietOf(c, [c EXCEPT !.cands = Tail(@)])
  BY <1>0, <1>r, ProbeFailsNext
<1> QED BY <1>0, <1>1, <1>2, QuietBy

\* A degraded revoke that had no request under way.
LEMMA DegradeQuiet ==
    ASSUME IInv, NEW p \in Callers, cli[p].at \in {"probe", "load"}, cli[p].cmd = "logout"
    PROVE  QuietOf(cli[p], Degrade(cli[p]))
BY ReadyInvocation, DegradeNext DEF QuietOf

\* Without a daemon: nothing is written, to the local store neither.
LEMMA WithoutNext ==
    ASSUME IInv, NEW p \in Callers, NEW end \in {"unavailable", "unknown"},
           cli[p].at \in {"probe", "wait"}, Without(p, end)
    PROVE  /\ applied' = applied
           /\ \/ cli[p].cmd = "logout" /\ Step(p, Degrade(cli[p]))
              \/ cli[p].cmd = "read" /\ Step(p, Done(cli[p], "local"))
              \/ cli[p].cmd \notin {"logout", "read"} /\ Step(p, Done(cli[p], end))
BY DEF Without, FallsBack

LEMMA NoDaemonQuiet ==
    ASSUME IInv, NEW p \in Callers, NoDaemon(p)
    PROVE  QuietStep(p)
<1> DEFINE c == cli[p]
<1>0. c.at = "probe" /\ Without(p, "unavailable")
  BY DEF NoDaemon, At
<1>1. Keeps /\ requests' = requests
  BY DEF NoDaemon, Keeps
<1>r. Ready(c)
  BY ReadyInvocation
<1>2. /\ applied' = applied
      /\ \/ c.cmd = "logout" /\ Step(p, Degrade(c))
         \/ c.cmd = "read" /\ Step(p, Done(c, "local"))
         \/ c.cmd \notin {"logout", "read"} /\ Step(p, Done(c, "unavailable"))
  BY <1>0, WithoutNext
<1>3. \E d : Step(p, d) /\ QuietOf(c, d)
  <2>1. CASE c.cmd = "logout" /\ Step(p, Degrade(c))
    BY <1>0, <2>1, DegradeQuiet
  <2>2. CASE Step(p, Done(c, "local"))
    BY <1>0, <1>r, <2>2, DoneQuiet DEF Ends
  <2>3. CASE Step(p, Done(c, "unavailable"))
    BY <1>0, <1>r, <2>3, DoneQuiet DEF Ends
  <2> QED BY <1>2, <2>1, <2>2, <2>3
<1> QED BY <1>1, <1>2, <1>3 DEF QuietStep, QuietOf, NextOf, Ready

LEMMA LoadTokenQuiet ==
    ASSUME IInv, NEW p \in Callers, LoadToken(p)
    PROVE  QuietStep(p)
<1> DEFINE c == cli[p]
<1>0. c.at = "load" /\ UNCHANGED sessionVars
  BY DEF LoadToken, At
<1>r. Ready(c)
  BY ReadyInvocation
<1>1. CASE LoadedToken # None
  <2>1. Step(p, [WithToken(c, LoadedToken) EXCEPT !.at = "send"])
    BY <1>1 DEF LoadToken
  <2>2. LoadedToken \in Bearers /\ Used(LoadedToken)
    BY <1>1, Loaded
  <2>3. QuietOf(c, [WithToken(c, LoadedToken) EXCEPT !.at = "send"])
    BY <1>0, <2>2, <1>r, TokenNext
  <2> QED BY <1>0, <2>1, <2>3, QuietBy
<1>2. CASE LoadedToken = None /\ c.cmd = "logout"
  <2>1. Step(p, Degrade(c))
    BY <1>2 DEF LoadToken
  <2> QED BY <1>0, <1>2, <2>1, DegradeQuiet, QuietBy
<1>3. CASE LoadedToken = None /\ c.cmd # "logout"
  <2>1. Step(p, Done(c, "no_session")) \/ Step(p, Done(c, "unauthorized"))
    BY <1>3 DEF LoadToken
  <2>2. \A e \in {"no_session", "unauthorized"} : QuietOf(c, Done(c, e))
    BY <1>0, <1>r, DoneQuiet DEF Ends
  <2> QED BY <1>0, <2>1, <2>2, QuietBy
<1> QED BY <1>1, <1>2, <1>3

LEMMA RevokeProjectQuiet ==
    ASSUME IInv, NEW p \in Callers, RevokeProject(p)
    PROVE  QuietStep(p)
<1> DEFINE c == cli[p]
<1>0. c.at = "project" /\ UNCHANGED sessionVars
  BY DEF RevokeProject, At
<1>r. Ready(c)
  BY ReadyInvocation
<1>1. CASE Step(p, [c EXCEPT !.at = "legacy"])
  <2>1. QuietOf(c, [c EXCEPT !.at = "legacy"])
    BY <1>0, <1>r, StageNext
  <2> QED BY <1>0, <1>1, <2>1, QuietBy
<1>2. CASE Step(p, [c EXCEPT !.at = "legacy", !.tried = TRUE, !.degraded = TRUE])
  BY <1>0, <1>r, <1>2, UnusableNext, QuietBy
<1>3. CASE projFile \in SessionFiles /\ Step(p, RevokeFrom(c, "project", projFile))
  <2>1. Used(projFile.token) /\ projFile.url \in Addrs
    BY <1>3 DEF IInv, DaemonInv, FilesAreUsed
  <2>2. QuietOf(c, RevokeFrom(c, "project", projFile))
    BY <1>0, <1>r, <1>3, <2>1, RevokeFromNext
  <2> QED BY <1>0, <1>3, <2>2, QuietBy
<1> QED BY <1>1, <1>2, <1>3 DEF RevokeProject

LEMMA RevokeLegacyQuiet ==
    ASSUME IInv, NEW p \in Callers, RevokeLegacy(p)
    PROVE  QuietStep(p)
<1> DEFINE c == cli[p]
<1>0. c.at = "legacy" /\ UNCHANGED sessionVars
  BY DEF RevokeLegacy, At
<1>r. Ready(c)
  BY ReadyInvocation
<1>1. CASE legacyFile \in SessionFiles /\ legacyFile.url # None
  <2>1. Step(p, RevokeFrom(c, "legacy", legacyFile))
    BY <1>1, NamesAssumption DEF RevokeLegacy
  <2>2. Used(legacyFile.token) /\ legacyFile.url \in Addrs
    BY <1>1 DEF IInv, DaemonInv, FilesAreUsed, SessionFiles
  <2>3. QuietOf(c, RevokeFrom(c, "legacy", legacyFile))
    BY <1>0, <1>1, <1>r, <2>2, RevokeFromNext
  <2> QED BY <1>0, <2>1, <2>3, QuietBy
<1>2. CASE /\ ~(legacyFile \in SessionFiles /\ legacyFile.url # None)
           /\ legacyFile # None \/ c.tried
  <2>1. Step(p, Done(c, "degraded"))
    BY <1>2 DEF RevokeLegacy
  <2>2. QuietOf(c, Done(c, "degraded"))
    BY <1>0, <1>r, DoneQuiet DEF Ends
  <2> QED BY <1>0, <2>1, <2>2, QuietBy
<1>3. CASE /\ ~(legacyFile \in SessionFiles /\ legacyFile.url # None)
           /\ ~(legacyFile # None \/ c.tried)
  <2>1. Step(p, [Discover(c, discoverCandidates) EXCEPT !.src = "disk"])
    BY <1>3 DEF RevokeLegacy
  <2>2. QuietOf(c, [Discover(c, discoverCandidates) EXCEPT !.src = "disk"])
    BY <1>0, <1>3, <1>r, DiscoverNext, CandidatesTyped
  <2> QED BY <1>0, <2>1, <2>2, QuietBy
<1> QED BY <1>1, <1>2, <1>3

LEMMA DeletesQuiet ==
    ASSUME IInv, NEW p \in Callers, DeleteSessionFile(p) \/ deleteLegacySession(p)
    PROVE  QuietStep(p)
<1> DEFINE c == cli[p]
<1>r. Ready(c)
  BY ReadyInvocation
<1>1. CASE DeleteSessionFile(p)
  <2>1. c.at = "unlink" /\ Step(p, [c EXCEPT !.at = "unlink_legacy"])
    BY <1>1 DEF DeleteSessionFile, At
  <2>2. Keeps /\ UNCHANGED <<requests, applied>>
    BY <1>1 DEF DeleteSessionFile, Keeps
  <2>3. QuietOf(c, [c EXCEPT !.at = "unlink_legacy"])
    BY <1>r, <2>1, StageNext
  <2> QED BY <2>1, <2>2, <2>3 DEF QuietStep, QuietOf, NextOf, Ready
<1>2. CASE deleteLegacySession(p)
  <2>1. c.at = "unlink_legacy" /\ Step(p, Done(c, "logged_out"))
    BY <1>2 DEF deleteLegacySession, At
  <2>2. Keeps /\ UNCHANGED <<requests, applied>>
    BY <1>2 DEF deleteLegacySession, Keeps
  <2>3. Confirms(c)
    BY <1>r, <2>1 DEF Ready, ReadBearers
  <2>4. QuietOf(c, Done(c, "logged_out"))
    BY <1>r, <2>1, <2>3, DoneQuiet DEF Ends
  <2> QED BY <2>1, <2>2, <2>4 DEF QuietStep, QuietOf, NextOf, Ready
<1> QED BY <1>1, <1>2

-----------------------------------------------------------------------------
(* What is kept by the steps of an invocation.                             *)

LEMMA StepEffect ==
    ASSUME IInv, NEW p \in Callers, NEW d, Step(p, d), d \in Invocations
    PROVE  /\ cli' \in [Callers -> Invocations]
           /\ cli'[p] = d
           /\ \A x \in Callers : x # p => cli'[x] = cli[x]
BY DEF IInv, OperatorTypeOK, Step

LEMMA InvocationsNext ==
    ASSUME IInv, NEW p \in Callers, NEW d, Step(p, d), NextOf(cli[p], d), row' = row
    PROVE  InvocationsSound' /\ BearersRead'
<1>0. d \in Invocations
  BY DEF NextOf, Ready
<1>1. /\ cli'[p] = d
      /\ \A x \in Callers : x # p => cli'[x] = cli[x]
  BY <1>0, StepEffect
<1>2. Sound(d) /\ HoldsItsBearer(d) /\ ReadBearers(d)
  BY DEF NextOf, Ready
<1>3. \A x \in Callers : Sound(cli[x]) /\ HoldsItsBearer(cli[x]) /\ ReadBearers(cli[x])
  BY DEF IInv, InvocationsSound, BearersRead
<1>4. ASSUME NEW x \in Callers
      PROVE  Sound(cli'[x]) /\ HoldsItsBearer(cli'[x]) /\ ReadBearers(cli'[x])
  BY <1>1, <1>2, <1>3
<1>5. InvocationsSound'
  BY <1>4 DEF InvocationsSound
<1>6. BearersRead'
  <2>1. ASSUME NEW x \in Callers PROVE ReadBearers(cli[x])'
    BY <1>4 DEF ReadBearers, Confirms, Used, Live
  <2> QED BY <2>1 DEF BearersRead
<1> QED BY <1>5, <1>6

DaemonTyped ==
    /\ host \in [Addrs -> {"none", "bound", "minted", "torn", "filed", "ours", "foreign"}]
    /\ descriptor \in Addrs \cup {None}
    /\ row \in [Bearers -> {"none", "live", "revoked", "gone"}]
    /\ serveRow \in Bearers \cup {None}
    /\ projFile \in SessionFiles \cup {None, Unusable}
    /\ legacyFile \in SessionFiles \cup {None, Unusable, Foreign}
    /\ link \in [Links -> {"none", "fresh", "consumed", "expired"}]
    /\ browser \in [Links -> {"none", "live", "revoked", "expired"}]

RequestsTyped == requests \subseteq Requests /\ applied \in [Callers -> Nat]

LEMMA TypesInParts == SessionTypeOK <=> DaemonTyped /\ RequestsTyped
BY DEF SessionTypeOK, DaemonTyped, RequestsTyped

LEMMA KeepsDaemon ==
    ASSUME IInv, Keeps
    PROVE  DaemonTyped' /\ DaemonInv'
<1>1. DaemonTyped'
  <2>1. DaemonTyped
    BY TypesInParts DEF IInv, OperatorTypeOK
  <2> QED BY <2>1 DEF DaemonTyped, Keeps
<1>2. OneDaemon'
  BY DEF IInv, DaemonInv, OneDaemon, Ours, Serving, InStartUp, Keeps
<1>3. BearerOfDaemon'
  BY DEF IInv, DaemonInv, BearerOfDaemon, Keeps
<1>4. FilesAreUsed'
  BY NamesAssumption DEF IInv, DaemonInv, FilesAreUsed, Used, Keeps
<1>5. LinksAreConsumed'
  BY DEF IInv, DaemonInv, LinksAreConsumed, Keeps
<1> QED BY <1>1, <1>2, <1>3, <1>4, <1>5 DEF DaemonInv

LEMMA OpOf ==
    ASSUME NEW c \in Commands
    PROVE  /\ Op(c) \in {"read", "write", "session", "open", "revoke"}
           /\ Op(c) = "write" <=> c = "write"
           /\ Op(c) = "revoke" <=> c = "logout"
BY DEF Op, Commands

LEMMA CallerKnown ==
    ASSUME IInv, NEW q \in requests
    PROVE  /\ q \in Requests /\ q.caller \in Callers /\ q.token \in Bearers
           /\ cli[q.caller] \in Invocations /\ cli[q.caller].cmd \in Commands
BY DEF IInv, OperatorTypeOK, SessionTypeOK, Requests, Invocations

\* The dead requests stay the ones they are.
DeadStay ==
    \A q \in requests, r \in requests' :
       q.caller = r.caller /\ q.src = r.src /\ q.dead => r.dead

LEMMA QuietPreserves ==
    ASSUME IInv, NEW p \in Callers, QuietStep(p)
    PROVE  IInv' /\ DeadStay
<1>1. PICK d \in Invocations : Step(p, d) /\ QuietOf(cli[p], d)
  BY DEF QuietStep
<1>k. Keeps /\ requests' = requests /\ applied' = applied /\ row' = row
  BY DEF QuietStep, Keeps
<1>2. /\ cli' \in [Callers -> Invocations]
      /\ cli'[p] = d
      /\ \A x \in Callers : x # p => cli'[x] = cli[x]
  BY <1>1, StepEffect
<1>3. /\ NextOf(cli[p], d) /\ d.cmd = cli[p].cmd /\ (cli[p].astray => d.astray)
      /\ cli[p].at \notin {"wait", "done"} /\ d.end # "ok"
      /\ \A q \in Requests : SentFits(cli[p], q) => SentFits(d, q)
  BY <1>1 DEF QuietOf, NextOf
<1>4. OperatorTypeOK'
  <2>1. RequestsTyped'
    BY <1>k, TypesInParts DEF IInv, OperatorTypeOK, RequestsTyped
  <2>2. SessionTypeOK' <=> DaemonTyped' /\ RequestsTyped'
    BY TypesInParts DEF SessionTypeOK, DaemonTyped, RequestsTyped
  <2> QED BY <1>2, <1>k, <2>1, <2>2, KeepsDaemon DEF OperatorTypeOK
<1>5. InvocationsSound' /\ BearersRead'
  BY <1>1, <1>3, <1>k, InvocationsNext
<1>6. OneEach' /\ DeadStay
  BY <1>k DEF IInv, RequestInv, OneEach, DeadStay
<1>7. ASSUME NEW q \in requests
      PROVE  Asked(q)' /\ AnswerFits(q)' /\ DeadOnes(q)' /\ SentFits(cli[q.caller], q)'
  <2>1. Asked(q) /\ AnswerFits(q) /\ DeadOnes(q) /\ SentFits(cli[q.caller], q)
    BY DEF IInv, RequestInv, RequestsSound, SentSoFar
  <2>2. AnswerFits(q)' /\ DeadOnes(q)'
    BY <1>k, <2>1 DEF AnswerFits, DeadOnes, Live
  <2>3. CASE q.caller # p
    <3>1. cli'[q.caller] = cli[q.caller]
      BY <1>2, <2>3, CallerKnown
    <3> QED BY <1>k, <2>1, <2>2, <3>1 DEF Asked, Used
  <2>4. CASE q.caller = p
    <3>1. ~q.waited
      BY <1>3, <2>1, <2>4 DEF Asked
    <3>2. Asked(q)'
      BY <1>2, <1>3, <1>k, <2>1, <2>4, <3>1 DEF Asked, Used
    <3>3. SentFits(d, q)
      BY <1>3, <2>1, <2>4, CallerKnown
    <3> QED BY <1>2, <2>2, <2>4, <3>2, <3>3
  <2> QED BY <2>3, <2>4
<1>8. RequestInv'
  BY <1>6, <1>7, <1>k DEF RequestInv, RequestsSound, SentSoFar
<1>9. WritesSound'
  <2>1. ASSUME NEW x \in Callers, cli'[x].cmd = "write" PROVE WriteOf(x)'
    <3>1. cli[x].cmd = "write" => WriteOf(x)
      BY DEF IInv, WriteInv, WritesSound
    <3>2. CASE x # p
      BY <1>2, <1>k, <2>1, <3>1, <3>2 DEF WriteOf
    <3>3. CASE x = p
      BY <1>2, <1>3, <1>k, <2>1, <3>1, <3>3 DEF WriteOf
    <3> QED BY <3>2, <3>3
  <2> QED BY <2>1 DEF WritesSound
<1>10. WriteRequests'
  <2>1. ASSUME NEW q \in requests, q.op = "write" PROVE WriteFits(q)'
    <3>1. WriteFits(q) /\ SentFits(cli[q.caller], q) /\ q.op = Op(cli[q.caller].cmd)
      BY DEF IInv, WriteInv, WriteRequests, RequestInv, SentSoFar, RequestsSound, Asked
    <3>2. cli[q.caller].cmd = "write"
      BY <2>1, <3>1, OpOf, CallerKnown
    <3>3. q.caller # p
      BY <1>3, <3>1, <3>2 DEF SentFits
    <3> QED BY <1>2, <1>k, <3>1, <3>3, CallerKnown DEF WriteFits
  <2> QED BY <1>k, <2>1 DEF WriteRequests, WriteFits
<1> QED BY <1>k, <1>4, <1>5, <1>6, <1>8, <1>9, <1>10, KeepsDaemon DEF IInv, WriteInv

-----------------------------------------------------------------------------
(* The request: sent, received or given up.                                *)

LEMMA SendPreserves ==
    ASSUME IInv, NEW p \in Callers, Send(p)
    PROVE  IInv' /\ DeadStay
<1> DEFINE c == cli[p]
           peer == IF host[c.base] = "foreign" THEN "foreign" ELSE "ours"
           d == [c EXCEPT !.at = "wait",
                          !.astray = @ \/ (peer = "foreign" /\ c.base \in c.known)]
           sent == [caller |-> p, src |-> c.src, addr |-> c.base, peer |-> peer,
                    token |-> c.token, op |-> Op(c.cmd), at |-> "sent", reply |-> "none",
                    waited |-> TRUE, dead |-> ~Live(c.token)]
<1>r. Ready(c)
  BY ReadyInvocation
<1>0. /\ c.at = "send" /\ Step(p, d)
      /\ requests' = requests \cup (IF host[c.base] = "none" THEN {} ELSE {sent})
  BY DEF Send, At
<1>k. Keeps /\ applied' = applied /\ row' = row
  BY DEF Send, Keeps
<1>1. d \in Invocations
  BY <1>r DEF Ready, Invocations
<1>2. /\ d.cmd = c.cmd /\ d.known = c.known /\ d.at = "wait" /\ d.end = c.end
      /\ d.seen = c.seen /\ d.src = c.src /\ d.token = c.token /\ d.base = c.base
      /\ d.astray <=> c.astray \/ (peer = "foreign" /\ c.base \in c.known)
  BY <1>r DEF Ready, Invocations
<1>3. Sound(d)
  BY <1>0, <1>r DEF Ready, Invocations, Sound
<1>4. HoldsItsBearer(d)
  BY <1>0, <1>r DEF Ready, Invocations, HoldsItsBearer
<1>5. ReadBearers(d) /\ c.end = "none"
  BY <1>0, <1>2, <1>r DEF ReadBearers, Confirms, Ready, Sound
<1>6. NextOf(c, d)
  BY <1>1, <1>2, <1>3, <1>4, <1>5 DEF NextOf, Ready
<1>7. /\ cli' \in [Callers -> Invocations]
      /\ cli'[p] = d
      /\ \A x \in Callers : x # p => cli'[x] = cli[x]
  BY <1>0, <1>1, StepEffect
<1>8. InvocationsSound' /\ BearersRead'
  BY <1>0, <1>6, <1>k, InvocationsNext
<1>c. /\ c.src \in {"disk", "project", "legacy"} /\ c.base \in c.known /\ c.base \in Addrs
      /\ c.token \in Bearers /\ c.token \in c.seen /\ Used(c.token) /\ c.cmd \in Commands
  BY <1>0, <1>r DEF Ready, Sound, Invocations, ReadBearers
<1>m. sent \in Requests
  <2>1. Op(c.cmd) \in {"read", "write", "session", "open", "revoke"}
    BY <1>c, OpOf
  <2>2. (~Live(c.token)) \in BOOLEAN
    OBVIOUS
  <2> QED BY <1>c, <2>1, <2>2 DEF Requests
<1>p. PICK new \in Requests : new = sent
  BY <1>m
<1>n. /\ new.caller = p /\ new.src = c.src /\ new.peer = peer /\ new.token = c.token
      /\ new.op = Op(c.cmd) /\ new.at = "sent" /\ new.reply = "none"
      /\ new.waited /\ (new.dead <=> ~Live(c.token))
  BY <1>p
<1>s. \A q \in requests' : q \in requests \/ q = new
  BY <1>0, <1>p
<1>9. OperatorTypeOK'
  <2>1. requests' \subseteq Requests
    BY <1>s, CallerKnown
  <2>2. RequestsTyped'
    BY <1>k, <2>1, TypesInParts DEF IInv, OperatorTypeOK, RequestsTyped
  <2>3. SessionTypeOK' <=> DaemonTyped' /\ RequestsTyped'
    BY DEF SessionTypeOK, DaemonTyped, RequestsTyped
  <2> QED BY <1>7, <1>k, <2>2, <2>3, KeepsDaemon DEF OperatorTypeOK
\* Of this caller there is at most the request of a logout for the project's bearer.
<1>10. ASSUME NEW q \in requests, q.caller = p
       PROVE  /\ c.src = "legacy" /\ q.src = "project" /\ c.cmd = "logout"
              /\ ~q.waited
  <2>1. SentFits(c, q) /\ Asked(q)
    BY <1>10 DEF IInv, RequestInv, SentSoFar, RequestsSound
  <2> QED BY <1>0, <1>10, <2>1 DEF SentFits, Asked
<1>11. OneEach'
  <2>1. \A q, r \in requests : q.caller = r.caller /\ q.src = r.src => q = r
    BY DEF IInv, RequestInv, OneEach
  <2>2. \A q \in requests : ~(q.caller = new.caller /\ q.src = new.src)
    BY <1>10, <1>n
  <2> QED BY <1>s, <2>1, <2>2 DEF OneEach
<1>12. DeadStay
  <2>1. \A q, r \in requests : q.caller = r.caller /\ q.src = r.src => q = r
    BY DEF IInv, RequestInv, OneEach
  <2>2. \A q \in requests : ~(q.caller = new.caller /\ q.src = new.src)
    BY <1>10, <1>n
  <2> QED BY <1>s, <2>1, <2>2 DEF DeadStay
<1>13. ASSUME NEW q \in requests
       PROVE  Asked(q)' /\ AnswerFits(q)' /\ DeadOnes(q)' /\ SentFits(cli[q.caller], q)'
  <2>1. Asked(q) /\ AnswerFits(q) /\ DeadOnes(q) /\ SentFits(cli[q.caller], q)
    BY DEF IInv, RequestInv, RequestsSound, SentSoFar
  <2>2. AnswerFits(q)' /\ DeadOnes(q)'
    BY <1>k, <2>1 DEF AnswerFits, DeadOnes, Live
  <2>3. CASE q.caller # p
    <3>1. cli'[q.caller] = cli[q.caller]
      BY <1>7, <2>3, CallerKnown
    <3> QED BY <1>k, <2>1, <2>2, <3>1 DEF Asked, Used
  <2>4. CASE q.caller = p
    <3>1. Asked(q)'
      <4>1. ~q.waited /\ cli'[q.caller] = d
        BY <1>7, <1>10, <2>4
      <4>2. d.cmd = cli[q.caller].cmd /\ (cli[q.caller].astray => d.astray)
        BY <1>2, <2>4
      <4>3. Used(q.token)'
        BY <1>k, <2>1 DEF Asked, Used
      <4> QED BY <2>1, <4>1, <4>2, <4>3 DEF Asked
    <3>2. SentFits(d, q)
      BY <1>2, <1>10, <2>4 DEF SentFits
    <3> QED BY <1>7, <2>2, <2>4, <3>1, <3>2
  <2> QED BY <2>3, <2>4
<1>14. Asked(new)' /\ AnswerFits(new)' /\ DeadOnes(new)' /\ SentFits(cli[new.caller], new)'
  <2>1. Asked(new)'
    <3>1. cli'[new.caller] = d
      BY <1>7, <1>n
    <3>2. /\ new.op = Op(cli'[new.caller].cmd)
          /\ new.peer = "foreign" => cli'[new.caller].astray
          /\ cli'[new.caller].at = "wait" /\ new.src = cli'[new.caller].src
          /\ new.token = cli'[new.caller].token
      BY <1>2, <1>c, <1>n, <3>1
    <3>3. row'[new.token] # "none"
      BY <1>c, <1>k, <1>n DEF Used
    <3> QED BY <3>2, <3>3 DEF Asked, Used
  <2>2. AnswerFits(new)' /\ DeadOnes(new)'
    BY <1>k, <1>n DEF AnswerFits, DeadOnes, Live
  <2>3. SentFits(d, new)
    BY <1>2, <1>3, <1>n DEF SentFits, Sound
  <2> QED BY <1>7, <1>n, <2>1, <2>2, <2>3
<1>15. RequestInv'
  BY <1>11, <1>13, <1>14, <1>s DEF RequestInv, RequestsSound, SentSoFar
<1>16. WritesSound'
  <2>1. ASSUME NEW x \in Callers, cli'[x].cmd = "write" PROVE WriteOf(x)'
    <3>1. cli[x].cmd = "write" => WriteOf(x)
      BY DEF IInv, WriteInv, WritesSound
    <3>2. CASE x # p
      BY <1>7, <1>k, <2>1, <3>1, <3>2 DEF WriteOf
    <3>3. CASE x = p
      BY <1>0, <1>2, <1>5, <1>7, <1>k, <2>1, <3>1, <3>3 DEF WriteOf
    <3> QED BY <3>2, <3>3
  <2> QED BY <2>1 DEF WritesSound
<1>17. WriteRequests'
  <2>1. ASSUME NEW q \in requests, q.op = "write" PROVE WriteFits(q)'
    <3>1. WriteFits(q) /\ q.op = Op(cli[q.caller].cmd)
      BY DEF IInv, WriteInv, WriteRequests, RequestInv, RequestsSound, Asked
    <3>2. cli[q.caller].cmd = "write"
      BY <2>1, <3>1, OpOf, CallerKnown
    <3>3. q.caller # p
      BY <1>10, <3>2
    <3> QED BY <1>7, <1>k, <3>1, <3>3, CallerKnown DEF WriteFits
  <2>2. ASSUME new.op = "write" PROVE WriteFits(new)'
    <3>1. c.cmd = "write"
      BY <1>c, <1>n, <2>2, OpOf
    <3>2. applied[p] = 0
      BY <1>0, <3>1 DEF IInv, WriteInv, WritesSound, WriteOf
    <3> QED BY <1>2, <1>5, <1>7, <1>k, <1>n, <3>2 DEF WriteFits, Settled
  <2> QED BY <1>s, <2>1, <2>2 DEF WriteRequests, WriteFits
<1> QED BY <1>k, <1>8, <1>9, <1>12, <1>15, <1>16, <1>17, KeepsDaemon DEF IInv, WriteInv

\* What is left when one request of an invocation is answered or given up, the others
\* staying: the parts of the invariant that look at one request each.
LEMMA OthersKept ==
    ASSUME IInv, NEW p \in Callers, NEW d, Step(p, d), NextOf(cli[p], d),
           row' = row, applied' = applied, cli[p].at = "wait",
           \A q \in Requests : SentFits(cli[p], q) => SentFits(d, q),
           NEW q \in requests, q \notin Awaited(p)
    PROVE  Asked(q)' /\ AnswerFits(q)' /\ DeadOnes(q)' /\ SentFits(cli[q.caller], q)'
<1>1. /\ cli'[p] = d
      /\ \A x \in Callers : x # p => cli'[x] = cli[x]
  BY StepEffect DEF NextOf, Ready
<1>2. Asked(q) /\ AnswerFits(q) /\ DeadOnes(q) /\ SentFits(cli[q.caller], q)
  BY DEF IInv, RequestInv, RequestsSound, SentSoFar
<1>3. AnswerFits(q)' /\ DeadOnes(q)'
  BY <1>2 DEF AnswerFits, DeadOnes, Live
<1>4. CASE q.caller # p
  <2>1. cli'[q.caller] = cli[q.caller]
    BY <1>1, <1>4, CallerKnown
  <2> QED BY <1>2, <1>3, <2>1 DEF Asked, Used
<1>5. CASE q.caller = p
  <2>1. ~q.waited
    BY <1>2, <1>5 DEF Asked, Awaited
  <2>2. d.cmd = cli[p].cmd /\ (cli[p].astray => d.astray)
    BY DEF NextOf
  <2>3. Asked(q)'
    BY <1>1, <1>2, <1>5, <2>1, <2>2 DEF Asked, Used
  <2>4. SentFits(d, q)
    BY <1>2, <1>5, CallerKnown
  <2> QED BY <1>1, <1>3, <1>5, <2>3, <2>4
<1> QED BY <1>4, <1>5

\* A write has one source, and so one request at a time.
LEMMA OneWrite ==
    ASSUME IInv, NEW p \in Callers, NEW q \in Awaited(p), NEW r \in requests,
           cli[p].cmd = "write", r.caller = p
    PROVE  r = q
<1>1. q \in requests /\ q.caller = p
  BY DEF Awaited
<1>2. q.src = "disk" /\ r.src = "disk"
  BY <1>1 DEF IInv, RequestInv, SentSoFar, SentFits
<1> QED BY <1>1, <1>2 DEF IInv, RequestInv, OneEach

LEMMA ReceivePreserves ==
    ASSUME IInv, NEW p \in Callers, Receive(p)
    PROVE  IInv' /\ DeadStay
<1> DEFINE c == cli[p]
<1>r. Ready(c)
  BY ReadyInvocation
<1>1. PICK q \in Awaited(p) : /\ q.at = "answered" /\ Step(p, Outcome(c, q.reply))
                              /\ requests' = requests \ {q}
  BY DEF Receive
<1>0. c.at = "wait" /\ q \in requests /\ q.caller = p /\ q.src = c.src /\ q.waited
  BY <1>1 DEF Receive, At, Awaited
<1>k. Keeps /\ applied' = applied /\ row' = row
  BY DEF Receive, Keeps
<1>q. /\ q.op = Op(c.cmd) /\ q.token = c.token
      /\ q.op # "revoke" => q.reply \in {"ok", "refused", "unauthorized"}
      /\ q.op = "revoke" /\ q.reply # "refused" => c.astray \/ ~Live(q.token)
  BY <1>0, <1>1 DEF IInv, RequestInv, RequestsSound, Asked, AnswerFits
<1>e. c.cmd \in Commands /\ c.end = "none"
  BY <1>0, <1>r DEF Ready, Sound, Invocations
<1>2. PICK d \in Invocations :
         /\ Step(p, d) /\ NextOf(c, d)
         /\ \A r \in Requests : SentFits(c, r) => SentFits(d, r)
         /\ d.at \notin {"idle", "open_token", "probe", "load", "send", "wait"}
         /\ c.cmd = "write" => d.end = q.reply
  <2>1. CASE c.cmd = "logout" /\ q.reply # "refused" /\ ~c.degraded
    <3> DEFINE d == [c EXCEPT !.at = "unlink"]
    <3>1. Step(p, d)
      BY <1>1, <2>1 DEF Outcome, Confirmed
    <3>2. d \in Invocations
      BY <1>r DEF Ready, Invocations
    <3>3. /\ d.cmd = c.cmd /\ d.astray = c.astray /\ d.at = "unlink" /\ d.end = c.end
          /\ d.seen = c.seen
      BY <1>r DEF Ready, Invocations
    <3>4. Sound(d)
      BY <1>0, <1>r, <2>1 DEF Ready, Invocations, Sound
    <3>5. HoldsItsBearer(d)
      BY <3>3 DEF HoldsItsBearer
    <3>6. ReadBearers(d)
      <4>1. c.seen \subseteq {c.token}
        BY <1>0, <1>r, <2>1 DEF Ready, HoldsItsBearer
      <4>2. c.astray \/ ~Live(c.token)
        BY <1>q, <2>1, OpOf, <1>e
      <4> QED BY <1>r, <3>3, <4>1, <4>2 DEF Ready, ReadBearers, Confirms
    <3>7. \A r \in Requests : SentFits(c, r) => SentFits(d, r)
      BY <2>1, <3>3 DEF SentFits
    <3>8. NextOf(c, d)
      BY <3>2, <3>3, <3>4, <3>5, <3>6 DEF NextOf, Ready
    <3> QED BY <2>1, <3>1, <3>2, <3>3, <3>7, <3>8
  <2>2. ASSUME NEW e \in Ends, Step(p, Done(c, e)), e # "logged_out",
               c.cmd = "write" => e = q.reply
        PROVE  \E d \in Invocations :
                  /\ Step(p, d) /\ NextOf(c, d)
                  /\ \A r \in Requests : SentFits(c, r) => SentFits(d, r)
                  /\ d.at \notin {"idle", "open_token", "probe", "load", "send", "wait"}
                  /\ c.cmd = "write" => d.end = q.reply
    <3> DEFINE d == Done(c, e)
    <3>1. NextOf(c, d)
      BY <1>r, <2>2, DoneNext
    <3>2. d.at = "done" /\ d.end = e /\ d.cmd = c.cmd
      BY <1>r DEF Ready, Done, Invocations
    <3>3. \A r \in Requests : SentFits(c, r) => SentFits(d, r)
      BY <3>2 DEF SentFits
    <3>4. d \in Invocations
      BY <3>1 DEF NextOf, Ready
    <3> HIDE DEF d
    <3>5. Step(p, d)
      BY <2>2 DEF d
    <3> QED BY <2>2, <3>1, <3>2, <3>3, <3>4, <3>5
  <2>3. CASE c.cmd = "logout" /\ q.reply # "refused" /\ c.degraded
    <3>1. Step(p, Done(c, "degraded"))
      BY <1>1, <2>3 DEF Outcome, Confirmed
    <3> QED BY <2>2, <2>3, <3>1 DEF Ends
  <2>4. CASE c.cmd = "logout" /\ q.reply = "refused"
    <3>1. Step(p, Degrade(c))
      BY <1>1, <2>4 DEF Outcome
    <3>2. /\ NextOf(c, Degrade(c)) /\ Degrade(c).at \in {"legacy", "done"}
          /\ \A r \in Requests : SentFits(c, r) => SentFits(Degrade(c), r)
      BY <1>0, <1>r, <2>4, DegradeNext
    <3> QED BY <2>4, <3>1, <3>2 DEF NextOf, Ready
  <2>5. CASE c.cmd # "logout"
    <3>1. Step(p, Done(c, q.reply))
      BY <1>1, <2>5 DEF Outcome
    <3>2. q.reply \in {"ok", "refused", "unauthorized"}
      BY <1>e, <1>q, <2>5, OpOf
    <3> QED BY <2>2, <3>1, <3>2 DEF Ends
  <2> QED BY <2>1, <2>3, <2>4, <2>5
<1>3. /\ cli' \in [Callers -> Invocations]
      /\ cli'[p] = d
      /\ \A x \in Callers : x # p => cli'[x] = cli[x]
  BY <1>2, StepEffect
<1>4. InvocationsSound' /\ BearersRead'
  BY <1>2, <1>k, InvocationsNext
<1>5. OperatorTypeOK'
  <2>1. RequestsTyped'
    BY <1>1, <1>k, TypesInParts DEF IInv, OperatorTypeOK, RequestsTyped
  <2>2. SessionTypeOK' <=> DaemonTyped' /\ RequestsTyped'
    BY DEF SessionTypeOK, DaemonTyped, RequestsTyped
  <2> QED BY <1>3, <1>k, <2>1, <2>2, KeepsDaemon DEF OperatorTypeOK
<1>6. OneEach' /\ DeadStay
  BY <1>1 DEF IInv, RequestInv, OneEach, DeadStay
<1>7. ASSUME NEW r \in requests'
      PROVE  r \in requests /\ r \notin Awaited(p)
  <2>1. r \in requests /\ r # q
    BY <1>1, <1>7
  <2> QED BY <1>0, <2>1 DEF Awaited, IInv, RequestInv, OneEach
<1>8. RequestInv'
  <2>1. ASSUME NEW r \in requests, r \notin Awaited(p)
        PROVE  Asked(r)' /\ AnswerFits(r)' /\ DeadOnes(r)' /\ SentFits(cli[r.caller], r)'
    BY <1>0, <1>2, <1>k, <2>1, OthersKept
  <2> QED BY <1>6, <1>7, <2>1 DEF RequestInv, RequestsSound, SentSoFar
<1>9. d.cmd = c.cmd
  BY <1>2 DEF NextOf
<1>10. WritesSound'
  <2>1. ASSUME NEW x \in Callers, cli'[x].cmd = "write" PROVE WriteOf(x)'
    <3>1. cli[x].cmd = "write" => WriteOf(x)
      BY DEF IInv, WriteInv, WritesSound
    <3>2. CASE x # p
      BY <1>3, <1>k, <2>1, <3>1, <3>2 DEF WriteOf
    <3>3. CASE x = p
      <4>1. c.cmd = "write" /\ q.op = "write"
        BY <1>3, <1>9, <1>e, <1>q, <2>1, <3>3, OpOf
      <4>2. WriteFits(q)
        BY <1>0 DEF IInv, WriteInv, WriteRequests
      <4>3. /\ d.end = q.reply /\ q.reply \in {"ok", "refused", "unauthorized"}
            /\ d.at \notin {"idle", "open_token", "probe", "load", "send", "wait"}
        BY <1>2, <1>q, <4>1
      <4>4. /\ q.reply = "ok" => applied[p] = 1
            /\ q.reply = "unauthorized" => applied[p] = 0
            /\ applied[p] <= 1
        BY <1>0, <3>1, <3>3, <4>1, <4>2 DEF WriteFits, WriteOf
      <4>5. d.at \in {"done"}
        BY <1>3, <1>4, <4>3 DEF InvocationsSound, Sound
      <4> QED BY <1>3, <1>k, <3>3, <4>3, <4>4, <4>5 DEF WriteOf
    <3> QED BY <3>2, <3>3
  <2> QED BY <2>1 DEF WritesSound
<1>11. WriteRequests'
  <2>1. ASSUME NEW r \in requests', r.op = "write" PROVE WriteFits(r)'
    <3>0. r \in requests /\ r # q
      BY <1>1, <2>1
    <3>1. WriteFits(r) /\ r.op = Op(cli[r.caller].cmd)
      BY <3>0 DEF IInv, WriteInv, WriteRequests, RequestInv, RequestsSound, Asked
    <3>2. cli[r.caller].cmd = "write"
      BY <2>1, <3>0, <3>1, OpOf, CallerKnown
    <3>3. r.caller # p
      BY <3>0, <3>2, OneWrite
    <3> QED BY <1>3, <1>k, <3>0, <3>1, <3>3, CallerKnown DEF WriteFits
  <2> QED BY <2>1 DEF WriteRequests, WriteFits
<1> QED BY <1>k, <1>4, <1>5, <1>6, <1>8, <1>10, <1>11, KeepsDaemon DEF IInv, WriteInv

\* A request nobody waits for any more, but a daemon may still carry out.
Abandoned(q, r) ==
    /\ r \in Requests
    /\ r.caller = q.caller /\ r.src = q.src /\ r.peer = q.peer /\ r.token = q.token
    /\ r.op = q.op /\ r.at = q.at /\ r.reply = q.reply /\ (r.dead <=> q.dead)
    /\ ~r.waited

LEMMA AbandonEffect ==
    ASSUME NEW q \in Requests
    PROVE  Abandoned(q, [q EXCEPT !.waited = FALSE])
<1> DEFINE r == [q EXCEPT !.waited = FALSE]
<1>1. r \in Requests
  BY DEF Requests
<1>2. /\ r.caller = q.caller /\ r.src = q.src /\ r.peer = q.peer /\ r.token = q.token
      /\ r.op = q.op /\ r.at = q.at /\ r.reply = q.reply
  BY DEF Requests
<1>3. ~r.waited /\ (r.dead <=> q.dead)
  BY DEF Requests
<1> QED BY <1>1, <1>2, <1>3 DEF Abandoned

LEMMA NoAnswerPreserves ==
    ASSUME IInv, NEW p \in Callers, NoAnswer(p)
    PROVE  IInv' /\ DeadStay
<1> DEFINE c == cli[p]
<1>r. Ready(c)
  BY ReadyInvocation
<1>0. c.at = "wait" /\ Without(p, "unknown")
  BY DEF NoAnswer, At
<1>k. Keeps /\ row' = row
  BY DEF NoAnswer, Keeps
<1>1. /\ applied' = applied
      /\ \/ c.cmd = "logout" /\ Step(p, Degrade(c))
         \/ c.cmd = "read" /\ Step(p, Done(c, "local"))
         \/ c.cmd \notin {"logout", "read"} /\ Step(p, Done(c, "unknown"))
  BY <1>0, WithoutNext
<1>2. PICK d \in Invocations :
         /\ Step(p, d) /\ NextOf(c, d)
         /\ \A r \in Requests : SentFits(c, r) => SentFits(d, r)
         /\ c.cmd = "write" => d.end = "unknown" /\ d.at = "done"
  <2>1. CASE c.cmd = "logout" /\ Step(p, Degrade(c))
    BY <1>0, <1>r, <2>1, DegradeNext DEF NextOf, Ready
  <2>2. ASSUME NEW e \in {"local", "unknown"}, Step(p, Done(c, e)), c.cmd = "write" => e = "unknown"
        PROVE  \E d \in Invocations :
                  /\ Step(p, d) /\ NextOf(c, d)
                  /\ \A r \in Requests : SentFits(c, r) => SentFits(d, r)
                  /\ c.cmd = "write" => d.end = "unknown" /\ d.at = "done"
    <3> DEFINE d == Done(c, e)
    <3>1. NextOf(c, d)
      BY <1>r, DoneNext DEF Ends
    <3>2. d.at = "done" /\ d.end = e /\ d.cmd = c.cmd
      BY <1>r DEF Ready, Done, Invocations
    <3>3. \A r \in Requests : SentFits(c, r) => SentFits(d, r)
      BY <1>0, <3>2 DEF SentFits
    <3>4. d \in Invocations
      BY <3>1 DEF NextOf, Ready
    <3> HIDE DEF d
    <3>5. Step(p, d)
      BY <2>2 DEF d
    <3> QED BY <2>2, <3>1, <3>2, <3>3, <3>4, <3>5
  <2> QED BY <1>1, <2>1, <2>2
<1>3. /\ cli' \in [Callers -> Invocations]
      /\ cli'[p] = d
      /\ \A x \in Callers : x # p => cli'[x] = cli[x]
  BY <1>2, StepEffect
<1>4. InvocationsSound' /\ BearersRead'
  BY <1>2, <1>k, InvocationsNext
<1>5. Awaited(p) \subseteq requests /\ requests \subseteq Requests
  BY CallerKnown DEF Awaited
<1>6. ASSUME NEW r \in requests'
      PROVE  \/ r \in requests /\ r \notin Awaited(p)
             \/ \E q \in Awaited(p) : q.at # "answered" /\ Abandoned(q, r)
  <2>1. CASE r \in requests /\ r \notin Awaited(p)
    BY <2>1
  <2>2. CASE r \in {[q EXCEPT !.waited = FALSE] : q \in {x \in Awaited(p) : x.at # "answered"}}
    <3>1. PICK q \in Awaited(p) : q.at # "answered" /\ r = [q EXCEPT !.waited = FALSE]
      BY <2>2
    <3>2. Abandoned(q, r)
      BY <1>5, <3>1, AbandonEffect
    <3> QED BY <3>1, <3>2
  <2> QED BY <2>1, <2>2 DEF NoAnswer
\* Each request that is left comes from one that was there.
<1>7. ASSUME NEW r \in requests'
      PROVE  /\ r \in Requests
             /\ \E q \in requests :
                   /\ q.caller = r.caller /\ q.src = r.src /\ (q.dead <=> r.dead)
                   /\ r = q \/ (q \in Awaited(p) /\ Abandoned(q, r))
                   /\ r = q => q \notin Awaited(p)
  <2>1. CASE r \in requests /\ r \notin Awaited(p)
    BY <1>5, <2>1
  <2>2. CASE \E q \in Awaited(p) : q.at # "answered" /\ Abandoned(q, r)
    <3>1. PICK q \in Awaited(p) : q.at # "answered" /\ Abandoned(q, r)
      BY <2>2
    <3>2. q \in requests /\ q.waited
      BY <1>5 DEF Awaited
    <3>3. r # q
      BY <3>1, <3>2 DEF Abandoned
    <3> QED BY <3>1, <3>2, <3>3 DEF Abandoned
  <2> QED BY <1>6, <2>1, <2>2
<1>8. \A q, r \in requests : q.caller = r.caller /\ q.src = r.src => q = r
  BY DEF IInv, RequestInv, OneEach
<1>9. DeadStay
  BY <1>7, <1>8 DEF DeadStay
\* The awaited request is one, and the one that is left of it is the same for all.
<1>10. OneEach'
  <2>1. SUFFICES ASSUME NEW r \in requests', NEW s \in requests', r.caller = s.caller, r.src = s.src
                 PROVE  r = s
    BY DEF OneEach
  <2>2. CASE r \in requests /\ r \notin Awaited(p) /\ s \in requests /\ s \notin Awaited(p)
    BY <1>8, <2>1, <2>2
  <2>3. ASSUME NEW q \in Awaited(p), NEW x \in requests, x.caller = q.caller, x.src = q.src
        PROVE  x \in Awaited(p) /\ x = q
    BY <1>5, <1>8, <2>3
  <2>4. \A x \in requests' : \/ x \in requests /\ x \notin Awaited(p)
                             \/ \E q \in Awaited(p) : x = [q EXCEPT !.waited = FALSE]
    BY DEF NoAnswer
  <2>5. \A q \in Awaited(p) : LET x == [q EXCEPT !.waited = FALSE]
                              IN  x.caller = q.caller /\ x.src = q.src
    BY <1>5, AbandonEffect DEF Abandoned
  <2>6. CASE \E q \in Awaited(p) : r = [q EXCEPT !.waited = FALSE]
    <3>1. PICK q \in Awaited(p) : r = [q EXCEPT !.waited = FALSE]
      BY <2>6
    <3>2. q \in requests /\ q.caller = r.caller /\ q.src = r.src
      BY <1>5, <2>5, <3>1
    <3>3. ~(s \in requests /\ s \notin Awaited(p))
      BY <2>1, <2>3, <3>2
    <3>4. PICK t \in Awaited(p) : s = [t EXCEPT !.waited = FALSE]
      BY <2>4, <3>3
    <3>5. t \in requests /\ t.caller = s.caller /\ t.src = s.src
      BY <1>5, <2>5, <3>4
    <3>6. q = t
      BY <1>8, <2>1, <3>2, <3>5
    <3> QED BY <3>1, <3>4, <3>6
  <2>7. CASE r \in requests /\ r \notin Awaited(p)
    <3>1. ASSUME NEW t \in Awaited(p), s = [t EXCEPT !.waited = FALSE]
          PROVE  FALSE
      <4>1. t.caller = s.caller /\ t.src = s.src
        BY <2>5, <3>1
      <4> QED BY <2>1, <2>3, <2>7, <4>1
    <3> QED BY <2>2, <2>4, <2>7, <3>1
  <2> QED BY <2>4, <2>6, <2>7
<1>11. ASSUME NEW q \in requests, q \notin Awaited(p)
       PROVE  Asked(q)' /\ AnswerFits(q)' /\ DeadOnes(q)' /\ SentFits(cli[q.caller], q)'
  BY <1>0, <1>1, <1>2, <1>k, <1>11, OthersKept
<1>12. ASSUME NEW q \in Awaited(p), NEW r, q.at # "answered", Abandoned(q, r)
       PROVE  Asked(r)' /\ AnswerFits(r)' /\ DeadOnes(r)' /\ SentFits(cli[r.caller], r)'
  <2>1. q \in requests /\ q.caller = p
    BY DEF Awaited
  <2>2. Asked(q) /\ AnswerFits(q) /\ DeadOnes(q) /\ SentFits(c, q)
    BY <2>1 DEF IInv, RequestInv, RequestsSound, SentSoFar
  <2>3. d.cmd = c.cmd /\ (c.astray => d.astray)
    BY <1>2 DEF NextOf
  <2>4. Asked(r)'
    <3>1. cli'[r.caller] = d
      BY <1>3, <1>12, <2>1 DEF Abandoned
    <3>2. r.op = Op(d.cmd) /\ (r.peer = "foreign" => d.astray) /\ Used(r.token)
      BY <1>12, <2>1, <2>2, <2>3 DEF Abandoned, Asked
    <3>3. ~r.waited
      BY <1>12 DEF Abandoned
    <3> QED BY <1>k, <3>1, <3>2, <3>3 DEF Asked, Used
  <2>5. AnswerFits(r)'
    BY <1>12, <1>k, <2>2 DEF Abandoned, AnswerFits, Live
  <2>6. DeadOnes(r)'
    BY <1>12, <1>k, <2>2 DEF Abandoned, DeadOnes, Live
  <2>7. SentFits(d, r)
    <3>1. SentFits(d, q)
      BY <1>2, <1>5, <2>1, <2>2
    <3> QED BY <1>12, <3>1 DEF SentFits, Abandoned
  <2>8. r.caller = p
    BY <1>12, <2>1 DEF Abandoned
  <2> QED BY <1>3, <2>4, <2>5, <2>6, <2>7, <2>8
<1>13. RequestInv'
  <2>1. ASSUME NEW r \in requests'
        PROVE  Asked(r)' /\ AnswerFits(r)' /\ DeadOnes(r)' /\ SentFits(cli[r.caller], r)'
    BY <1>6, <1>11, <1>12
  <2> QED BY <1>10, <2>1 DEF RequestInv, RequestsSound, SentSoFar
<1>14. OperatorTypeOK'
  <2>1. RequestsTyped'
    BY <1>1, <1>7, TypesInParts DEF IInv, OperatorTypeOK, RequestsTyped
  <2>2. SessionTypeOK' <=> DaemonTyped' /\ RequestsTyped'
    BY DEF SessionTypeOK, DaemonTyped, RequestsTyped
  <2> QED BY <1>3, <1>k, <2>1, <2>2, KeepsDaemon DEF OperatorTypeOK
<1>15. WritesSound'
  <2>1. ASSUME NEW x \in Callers, cli'[x].cmd = "write" PROVE WriteOf(x)'
    <3>1. cli[x].cmd = "write" => WriteOf(x)
      BY DEF IInv, WriteInv, WritesSound
    <3>2. CASE x # p
      BY <1>1, <1>3, <2>1, <3>1, <3>2 DEF WriteOf
    <3>3. CASE x = p
      <4>1. c.cmd = "write" /\ d.end = "unknown" /\ d.at = "done"
        BY <1>2, <1>3, <2>1, <3>3 DEF NextOf
      <4> QED BY <1>1, <1>3, <3>1, <3>3, <4>1 DEF WriteOf
    <3> QED BY <3>2, <3>3
  <2> QED BY <2>1 DEF WritesSound
<1>16. WriteRequests'
  <2>1. ASSUME NEW q \in requests, NEW r, r.caller = q.caller, r.op = q.op, r.at = q.at,
               r.reply = q.reply, r.op = "write"
        PROVE  WriteFits(r)'
    <3>0. WriteFits(q) /\ Asked(q)
      BY DEF IInv, WriteInv, WriteRequests, RequestInv, RequestsSound
    <3>1. WriteFits(q) /\ q.op = Op(cli[q.caller].cmd)
      BY <3>0 DEF Asked
    <3>2. cli[q.caller].cmd = "write"
      <4>1. cli[q.caller].cmd \in Commands
        BY CallerKnown
      <4>2. Op(cli[q.caller].cmd) = "write"
        BY <2>1, <3>1
      <4> QED BY <4>1, <4>2, OpOf
    <3>3. CASE q.caller # p
      BY <1>1, <1>3, <2>1, <3>1, <3>3, CallerKnown DEF WriteFits
    <3>4. CASE q.caller = p
      BY <1>1, <1>2, <1>3, <2>1, <3>1, <3>2, <3>4 DEF WriteFits, Settled
    <3> QED BY <3>3, <3>4
  <2>2. ASSUME NEW r \in requests', r.op = "write" PROVE WriteFits(r)'
    <3>1. PICK q \in requests : r = q \/ (q \in Awaited(p) /\ Abandoned(q, r))
      BY <1>7
    <3>2. r.caller = q.caller /\ r.op = q.op /\ r.at = q.at /\ r.reply = q.reply
      BY <3>1 DEF Abandoned
    <3> QED BY <2>1, <2>2, <3>2
  <2> QED BY <2>2 DEF WriteRequests, WriteFits
<1> QED BY <1>4, <1>9, <1>13, <1>14, <1>15, <1>16, <1>k, KeepsDaemon DEF IInv, WriteInv

-----------------------------------------------------------------------------
(* The steps of the daemons: the rows, the files and the links.            *)

\* A bearer that was minted keeps its row's history, and what is dead stays dead.
Fades == \A t \in Bearers : Used(t) => Used(t)' /\ (~Live(t) => ~Live(t)')

LEMMA SameRowFades ==
    ASSUME row' = row
    PROVE  Fades
BY DEF Fades, Used, Live

LEMMA FilesStayUsed ==
    ASSUME IInv, Fades, UNCHANGED <<projFile, legacyFile, serveRow>>
    PROVE  FilesAreUsed'
<1>1. FilesAreUsed
  BY DEF IInv, DaemonInv
<1>2. projFile \in SessionFiles => projFile.token \in Bearers
  BY DEF SessionFiles
<1>3. legacyFile \in SessionFiles => legacyFile.token \in Bearers
  BY DEF SessionFiles
<1>4. \A t \in Bearers : row[t] # "none" => row'[t] # "none"
  BY DEF Fades, Used
<1> QED BY <1>1, <1>2, <1>3, <1>4 DEF FilesAreUsed, Used

\* What a daemon does to its address while the rest of the project stays.
LEMMA HostSteps ==
    ASSUME IInv, NEW a \in Addrs, NEW h \in {"none", "bound", "ours", "foreign", "torn"},
           Listen(a, h),
           \/ h = "bound" /\ \A b \in Addrs : ~Ours(b)
           \/ h \in {"none", "foreign"}
           \/ h = "ours" /\ host[a] = "filed"
           \/ h = "torn" /\ host[a] = "minted",
           h # "torn" => projFile' = projFile,
           h = "torn" => projFile' = Unusable,
           descriptor' \in {descriptor, a, None},
           UNCHANGED <<row, serveRow, legacyFile, link, browser>>
    PROVE  DaemonTyped' /\ DaemonInv' /\ Fades
<1>1. DaemonTyped /\ OneDaemon /\ BearerOfDaemon /\ FilesAreUsed /\ LinksAreConsumed
  BY TypesInParts DEF IInv, OperatorTypeOK, DaemonInv
<1>2. /\ host' \in [Addrs -> {"none", "bound", "minted", "torn", "filed", "ours", "foreign"}]
      /\ host'[a] = h
      /\ \A b \in Addrs : b # a => host'[b] = host[b]
  BY <1>1 DEF Listen, DaemonTyped
<1>3. DaemonTyped'
  BY <1>1, <1>2 DEF DaemonTyped
<1>4. OneDaemon'
  BY <1>1, <1>2 DEF OneDaemon, Ours, Serving, InStartUp
<1>5. BearerOfDaemon'
  BY <1>1, <1>2 DEF BearerOfDaemon, OneDaemon, Ours, Serving, InStartUp
<1>6. FilesAreUsed'
  <2>1. CASE h # "torn"
    BY <2>1, SameRowFades, FilesStayUsed
  <2>2. CASE h = "torn"
    BY <1>1, <2>2, NamesAssumption DEF FilesAreUsed, Used
  <2> QED BY <2>1, <2>2
<1>7. LinksAreConsumed'
  BY <1>1 DEF LinksAreConsumed
<1> QED BY <1>3, <1>4, <1>5, <1>6, <1>7, SameRowFades DEF DaemonInv

LEMMA MintSteps ==
    ASSUME IInv, NEW a \in Addrs, NEW t \in Tokens, ServeMint(a, t)
    PROVE  DaemonTyped' /\ DaemonInv' /\ Fades
<1>1. DaemonTyped /\ OneDaemon /\ BearerOfDaemon /\ FilesAreUsed /\ LinksAreConsumed
  BY TypesInParts DEF IInv, OperatorTypeOK, DaemonInv
<1>2. /\ host' \in [Addrs -> {"none", "bound", "minted", "torn", "filed", "ours", "foreign"}]
      /\ host'[a] = "minted" /\ host[a] = "bound"
      /\ \A b \in Addrs : b # a => host'[b] = host[b]
  BY <1>1 DEF ServeMint, Listen, DaemonTyped
<1>3. t \in Bearers /\ row[t] = "none" /\ serveRow' = t
  BY DEF ServeMint, Unused, Bearers
<1>4. /\ row' \in [Bearers -> {"none", "live", "revoked", "gone"}]
      /\ row'[t] = "live"
      /\ \A s \in Bearers : s # t => row'[s] = (IF s = serveRow THEN "gone" ELSE row[s])
  BY <1>1, <1>3 DEF ServeMint, MintRow, DaemonTyped
<1>5. Fades
  BY <1>3, <1>4 DEF Fades, Used, Live
<1>6. DaemonTyped'
  BY <1>1, <1>2, <1>3, <1>4 DEF DaemonTyped, ServeMint
<1>7. OneDaemon'
  BY <1>1, <1>2 DEF OneDaemon, Ours, Serving, InStartUp
<1>8. BearerOfDaemon'
  BY <1>1, <1>2, <1>3 DEF BearerOfDaemon, OneDaemon, Ours, Serving, InStartUp
<1>9. FilesAreUsed'
  <2>1. /\ projFile \in SessionFiles => projFile.token \in Bearers
        /\ legacyFile \in SessionFiles => legacyFile.token \in Bearers
    BY DEF SessionFiles
  <2>2. projFile' = projFile /\ legacyFile' = legacyFile
    BY DEF ServeMint
  <2> QED BY <1>1, <1>3, <1>4, <1>5, <2>1, <2>2 DEF FilesAreUsed, Fades, Used
<1>10. LinksAreConsumed'
  BY <1>1 DEF LinksAreConsumed, ServeMint
<1> QED BY <1>5, <1>6, <1>7, <1>8, <1>9, <1>10 DEF DaemonInv

LEMMA FileSteps ==
    ASSUME IInv, NEW a \in Addrs, ServeFile(a)
    PROVE  DaemonTyped' /\ DaemonInv' /\ Fades
<1>1. DaemonTyped /\ OneDaemon /\ BearerOfDaemon /\ FilesAreUsed /\ LinksAreConsumed
  BY TypesInParts DEF IInv, OperatorTypeOK, DaemonInv
<1>2. /\ host' \in [Addrs -> {"none", "bound", "minted", "torn", "filed", "ours", "foreign"}]
      /\ host'[a] = "filed" /\ host[a] = "torn"
      /\ \A b \in Addrs : b # a => host'[b] = host[b]
  BY <1>1 DEF ServeFile, Listen, DaemonTyped
<1>3. /\ UNCHANGED <<descriptor, row, serveRow, legacyFile, link, browser>>
      /\ projFile' = [token |-> serveRow, url |-> a]
  BY DEF ServeFile
<1>4. serveRow \in Bearers /\ Used(serveRow)
  BY <1>1, <1>2 DEF BearerOfDaemon, FilesAreUsed
<1>5. /\ projFile' \in SessionFiles
      /\ projFile'.token = serveRow /\ projFile'.url = a
  BY <1>3, <1>4 DEF SessionFiles
<1>6. DaemonTyped'
  BY <1>1, <1>2, <1>3, <1>5 DEF DaemonTyped
<1>7. OneDaemon'
  BY <1>1, <1>2 DEF OneDaemon, Ours, Serving, InStartUp
<1>8. BearerOfDaemon'
  BY <1>1, <1>2, <1>3 DEF BearerOfDaemon, OneDaemon, Ours, Serving, InStartUp
<1>9. FilesAreUsed'
  BY <1>1, <1>3, <1>4, <1>5 DEF FilesAreUsed, Used
<1>10. LinksAreConsumed'
  BY <1>1, <1>3 DEF LinksAreConsumed
<1> QED BY <1>3, <1>6, <1>7, <1>8, <1>9, <1>10, SameRowFades DEF DaemonInv

LEMMA AbortSteps ==
    ASSUME IInv, NEW a \in Addrs, ServeAborts(a)
    PROVE  DaemonTyped' /\ DaemonInv' /\ Fades
<1>1. DaemonTyped /\ OneDaemon /\ BearerOfDaemon /\ FilesAreUsed /\ LinksAreConsumed
  BY TypesInParts DEF IInv, OperatorTypeOK, DaemonInv
<1>2. /\ host' \in [Addrs -> {"none", "bound", "minted", "torn", "filed", "ours", "foreign"}]
      /\ host'[a] = "none" /\ host[a] \in {"minted", "torn", "filed"}
      /\ \A b \in Addrs : b # a => host'[b] = host[b]
  BY <1>1 DEF ServeAborts, Listen, DaemonTyped
<1>3. serveRow \in Bearers
  BY <1>1, <1>2 DEF BearerOfDaemon
<1>4. /\ row' \in [Bearers -> {"none", "live", "revoked", "gone"}]
      /\ row'[serveRow] = "gone"
      /\ \A s \in Bearers : s # serveRow => row'[s] = row[s]
  BY <1>1, <1>3 DEF ServeAborts, DaemonTyped
<1>5. Fades
  BY <1>4 DEF Fades, Used, Live
<1>6. serveRow' = None /\ projFile' = None /\ UNCHANGED <<legacyFile, link, browser>>
  BY DEF ServeAborts
<1>7. DaemonTyped'
  BY <1>1, <1>2, <1>4, <1>6 DEF DaemonTyped, ServeAborts
<1>8. OneDaemon'
  BY <1>1, <1>2 DEF OneDaemon, Ours, Serving, InStartUp
<1>9. BearerOfDaemon'
  BY <1>1, <1>2 DEF BearerOfDaemon, OneDaemon, Ours, Serving, InStartUp
<1>10. FilesAreUsed'
  <2>1. legacyFile \in SessionFiles => legacyFile.token \in Bearers
    BY DEF SessionFiles
  <2> QED BY <1>1, <1>5, <1>6, <2>1, NamesAssumption DEF FilesAreUsed, Fades, Used
<1>11. LinksAreConsumed'
  BY <1>1, <1>6 DEF LinksAreConsumed
<1> QED BY <1>5, <1>7, <1>8, <1>9, <1>10, <1>11 DEF DaemonInv

\* The rows fade; the rest of the daemon's side stays, but for links and browsers.
LEMMA RowSteps ==
    ASSUME IInv, Fades, row' \in [Bearers -> {"none", "live", "revoked", "gone"}],
           UNCHANGED <<host, descriptor, serveRow, projFile, legacyFile>>,
           link' \in [Links -> {"none", "fresh", "consumed", "expired"}],
           browser' \in [Links -> {"none", "live", "revoked", "expired"}],
           \A o \in Links : browser'[o] # "none" => link'[o] = "consumed"
    PROVE  DaemonTyped' /\ DaemonInv'
<1>1. DaemonTyped /\ OneDaemon /\ BearerOfDaemon /\ FilesAreUsed /\ LinksAreConsumed
  BY TypesInParts DEF IInv, OperatorTypeOK, DaemonInv
<1>2. DaemonTyped'
  BY <1>1 DEF DaemonTyped
<1>3. OneDaemon'
  BY <1>1 DEF OneDaemon, Ours, Serving, InStartUp
<1>4. BearerOfDaemon'
  BY <1>1 DEF BearerOfDaemon
<1>5. FilesAreUsed'
  BY FilesStayUsed
<1>6. LinksAreConsumed'
  BY DEF LinksAreConsumed
<1> QED BY <1>2, <1>3, <1>4, <1>5, <1>6 DEF DaemonInv

LEMMA RotateSteps ==
    ASSUME IInv, NEW t \in Bearers, NEW new \in Tokens, rotateCLIToken(t, new)
    PROVE  DaemonTyped' /\ DaemonInv' /\ Fades
<1>1. DaemonTyped /\ LinksAreConsumed
  BY TypesInParts DEF IInv, OperatorTypeOK, DaemonInv
<1>2. new \in Bearers /\ row[new] = "none" /\ row[t] = "live" /\ t # new
  BY DEF rotateCLIToken, Unused, Live, Bearers
<1>3. /\ row' \in [Bearers -> {"none", "live", "revoked", "gone"}]
      /\ row'[t] = "revoked" /\ row'[new] = "live"
      /\ \A s \in Bearers \ {t, new} : row'[s] = row[s]
  BY <1>1, <1>2 DEF rotateCLIToken, DaemonTyped
<1>4. Fades
  BY <1>2, <1>3 DEF Fades, Used, Live
<1> QED BY <1>1, <1>3, <1>4, RowSteps DEF rotateCLIToken, DaemonTyped, LinksAreConsumed

LEMMA LinkSteps ==
    ASSUME IInv, NEW o \in Links, exchangeOpenToken(o) \/ authLogout(o) \/ Expire(o)
    PROVE  DaemonTyped' /\ DaemonInv' /\ Fades
<1>1. DaemonTyped /\ LinksAreConsumed
  BY TypesInParts DEF IInv, OperatorTypeOK, DaemonInv
<1>2. row' = row /\ UNCHANGED <<host, descriptor, serveRow, projFile, legacyFile>>
  BY DEF exchangeOpenToken, authLogout, Expire
<1>3. /\ link' \in [Links -> {"none", "fresh", "consumed", "expired"}]
      /\ browser' \in [Links -> {"none", "live", "revoked", "expired"}]
  BY <1>1 DEF DaemonTyped, exchangeOpenToken, authLogout, Expire
<1>4. \A x \in Links : browser'[x] # "none" => link'[x] = "consumed"
  BY <1>1 DEF DaemonTyped, LinksAreConsumed, exchangeOpenToken, authLogout, Expire
<1> QED BY <1>1, <1>2, <1>3, <1>4, SameRowFades, RowSteps DEF DaemonTyped

-----------------------------------------------------------------------------
(* The requests at a daemon.                                               *)

LEMMA DaemonFrame ==
    ASSUME IInv, cli' = cli, Fades
    PROVE  /\ InvocationsSound' /\ BearersRead'
           /\ \A q \in requests : Asked(q)' /\ SentFits(cli[q.caller], q)'
           /\ \A q \in requests : AnswerFits(q)' /\ DeadOnes(q)'
<1>1. InvocationsSound'
  BY DEF IInv, InvocationsSound
<1>2. BearersRead'
  <2>1. ASSUME NEW p \in Callers PROVE ReadBearers(cli[p])'
    <3>1. ReadBearers(cli[p]) /\ cli[p].seen \subseteq Bearers
      BY ReadyInvocation DEF Ready, Invocations
    <3> QED BY <3>1 DEF ReadBearers, Confirms, Fades
  <2> QED BY <2>1 DEF BearersRead
<1>3. ASSUME NEW q \in requests
      PROVE  Asked(q)' /\ SentFits(cli[q.caller], q)' /\ AnswerFits(q)' /\ DeadOnes(q)'
  <2>1. Asked(q) /\ SentFits(cli[q.caller], q) /\ AnswerFits(q) /\ DeadOnes(q)
    BY DEF IInv, RequestInv, RequestsSound, SentSoFar
  <2>2. Used(q.token) => Used(q.token)' /\ (~Live(q.token) => ~Live(q.token)')
    BY CallerKnown DEF Fades
  <2>3. Asked(q)'
    BY <2>1, <2>2 DEF Asked
  <2>4. AnswerFits(q)' /\ DeadOnes(q)'
    BY <2>1, <2>2 DEF AnswerFits, DeadOnes, Asked
  <2> QED BY <2>1, <2>3, <2>4
<1> QED BY <1>1, <1>2, <1>3

\* A daemon goes, or does something else: no request is changed.
LEMMA SubsetPreserves ==
    ASSUME IInv, cli' = cli, Fades, DaemonTyped', DaemonInv',
           requests' \subseteq requests, applied' = applied
    PROVE  IInv' /\ DeadStay
<1>1. OperatorTypeOK'
  <2>1. RequestsTyped'
    BY TypesInParts DEF IInv, OperatorTypeOK, RequestsTyped
  <2>2. SessionTypeOK' <=> DaemonTyped' /\ RequestsTyped'
    BY DEF SessionTypeOK, DaemonTyped, RequestsTyped
  <2> QED BY <2>1, <2>2 DEF IInv, OperatorTypeOK
<1>2. OneEach' /\ DeadStay
  BY DEF IInv, RequestInv, OneEach, DeadStay
<1>3. RequestInv'
  BY <1>2, DaemonFrame DEF RequestInv, RequestsSound, SentSoFar
<1>4. WritesSound'
  BY DEF IInv, WriteInv, WritesSound, WriteOf
<1>5. WriteRequests'
  BY DEF IInv, WriteInv, WriteRequests, WriteFits
<1> QED BY <1>1, <1>2, <1>3, <1>4, <1>5, DaemonFrame DEF IInv, WriteInv

\* The request itself, however far it has come.
Same(q, r) ==
    /\ r \in Requests
    /\ r.caller = q.caller /\ r.src = q.src /\ r.peer = q.peer /\ r.token = q.token
    /\ r.op = q.op
    /\ r.waited <=> q.waited
    /\ r.dead <=> q.dead

\* One request is moved on, answered or forgotten.
LEMMA HandlePreserves ==
    ASSUME IInv, cli' = cli, Fades, DaemonTyped', DaemonInv', NEW q \in requests, NEW r,
           requests' \subseteq (requests \ {q}) \cup {r},
           r \in requests' =>
              Same(q, r) /\ AnswerFits(r)' /\ DeadOnes(r)' /\ WriteFits(r)',
           \/ applied' = applied
           \/ /\ q.op = "write" /\ q.at # "answered"
              /\ applied' = [applied EXCEPT ![q.caller] = @ + 1]
    PROVE  IInv' /\ DeadStay
<1>0. q \in Requests /\ q.caller \in Callers /\ applied \in [Callers -> Nat]
  BY CallerKnown DEF IInv, OperatorTypeOK, SessionTypeOK
<1>q. Asked(q) /\ SentFits(cli[q.caller], q) /\ WriteFits(q)
  BY DEF IInv, RequestInv, RequestsSound, SentSoFar, WriteInv, WriteRequests
<1>1. OperatorTypeOK'
  <2>1. requests' \subseteq Requests
    BY CallerKnown DEF Same
  <2>2. applied' \in [Callers -> Nat]
    BY <1>0
  <2>3. SessionTypeOK' <=> DaemonTyped' /\ RequestsTyped'
    BY DEF SessionTypeOK, DaemonTyped, RequestsTyped
  <2> QED BY <2>1, <2>2, <2>3 DEF IInv, OperatorTypeOK, RequestsTyped
<1>2. OneEach' /\ DeadStay
  <2>1. \A x, y \in requests : x.caller = y.caller /\ x.src = y.src => x = y
    BY DEF IInv, RequestInv, OneEach
  <2>2. OneEach'
    BY <2>1 DEF OneEach, Same
  <2>3. DeadStay
    BY <2>1 DEF DeadStay, Same
  <2> QED BY <2>2, <2>3
<1>3. ASSUME NEW x \in requests'
      PROVE  Asked(x)' /\ AnswerFits(x)' /\ DeadOnes(x)' /\ SentFits(cli[x.caller], x)'
  <2>1. CASE x \in requests
    BY <2>1, DaemonFrame
  <2>2. CASE x \notin requests
    <3>1. x = r /\ Same(q, r)
      BY <2>2
    <3>2. Asked(q)' /\ SentFits(cli[q.caller], q)'
      BY DaemonFrame
    <3>3. Asked(r)'
      BY <3>1, <3>2 DEF Asked, Same
    <3>4. SentFits(cli[r.caller], r)'
      BY <3>1, <3>2 DEF SentFits, Same
    <3> QED BY <3>1, <3>3, <3>4
  <2> QED BY <2>1, <2>2
<1>4. RequestInv'
  BY <1>2, <1>3 DEF RequestInv, RequestsSound, SentSoFar
<1>5. q.op = "write" => cli[q.caller].cmd = "write"
  <2>1. q.op = Op(cli[q.caller].cmd) /\ cli[q.caller].cmd \in Commands
    BY <1>q, CallerKnown DEF Asked
  <2> QED BY <2>1, OpOf
<1>6. WritesSound'
  <2>1. WritesSound
    BY DEF IInv, WriteInv
  <2>2. CASE applied' = applied
    BY <2>1, <2>2 DEF WritesSound, WriteOf
  <2>3. CASE /\ q.op = "write" /\ q.at # "answered"
             /\ applied' = [applied EXCEPT ![q.caller] = @ + 1]
    <3>1. applied[q.caller] = 0
      BY <1>q, <2>3 DEF WriteFits
    <3>2. applied'[q.caller] = 1 /\ \A p \in Callers : p # q.caller => applied'[p] = applied[p]
      BY <1>0, <2>3, <3>1
    <3>3. cli[q.caller].at \in {"wait", "done"}
      BY <1>5, <1>q, <2>3 DEF SentFits
    <3>4. cli[q.caller].end \notin {"unauthorized", "unavailable"}
      BY <1>q, <2>3 DEF WriteFits, Settled
    <3> QED BY <2>1, <3>2, <3>3, <3>4 DEF WritesSound, WriteOf
  <2> QED BY <2>2, <2>3
<1>7. WriteRequests'
  <2>1. ASSUME NEW x \in requests', x.op = "write" PROVE WriteFits(x)'
    <3>1. CASE x = r
      BY <3>1
    <3>2. CASE x # r
      <4>1. x \in requests /\ x # q /\ WriteFits(x)
        BY <3>2 DEF IInv, WriteInv, WriteRequests
      <4>2. CASE applied' = applied
        BY <4>1, <4>2 DEF WriteFits
      <4>3. CASE /\ q.op = "write" /\ q.at # "answered"
                 /\ applied' = [applied EXCEPT ![q.caller] = @ + 1]
        <5>1. q.src = "disk" /\ q.op = "write"
          BY <1>5, <1>q, <4>3 DEF SentFits
        <5>2. Asked(x) /\ SentFits(cli[x.caller], x)
          BY <4>1 DEF IInv, RequestInv, RequestsSound, SentSoFar
        <5>3. Op(cli[x.caller].cmd) = "write" /\ cli[x.caller].cmd \in Commands
          BY <2>1, <4>1, <5>2, CallerKnown DEF Asked
        <5>4. x.src = "disk"
          BY <5>2, <5>3, OpOf DEF SentFits
        <5>5. x.caller # q.caller
          BY <4>1, <5>1, <5>4 DEF IInv, RequestInv, OneEach
        <5>6. applied'[x.caller] = applied[x.caller]
          BY <1>0, <4>1, <4>3, <5>5, CallerKnown
        <5> QED BY <4>1, <5>6 DEF WriteFits
      <4> QED BY <4>2, <4>3
    <3> QED BY <3>1, <3>2
  <2> QED BY <2>1 DEF WriteRequests, WriteFits
<1> QED BY <1>1, <1>2, <1>4, <1>6, <1>7, DaemonFrame DEF IInv, WriteInv

Answered(q, reply) == [q EXCEPT !.at = "answered", !.reply = reply]

Replies == {"ok", "refused", "unauthorized", "matched", "not_matched"}

LEMMA AnsweredIsSame ==
    ASSUME NEW q \in Requests, NEW reply \in Replies
    PROVE  /\ Same(q, Answered(q, reply))
           /\ Answered(q, reply).at = "answered" /\ Answered(q, reply).reply = reply
<1> DEFINE r == Answered(q, reply)
<1>1. r \in Requests
  BY DEF Requests, Answered, Replies
<1>2. /\ r.caller = q.caller /\ r.src = q.src /\ r.peer = q.peer /\ r.token = q.token
      /\ r.op = q.op /\ r.at = "answered" /\ r.reply = reply
  BY DEF Requests, Answered
<1>3. (r.waited <=> q.waited) /\ (r.dead <=> q.dead)
  BY DEF Requests, Answered
<1> QED BY <1>1, <1>2, <1>3 DEF Same

LEMMA AnswerEffect ==
    ASSUME NEW q \in Requests, NEW reply \in Replies,
           Answer(q, reply)
    PROVE  \E r : /\ requests' \subseteq (requests \ {q}) \cup {r}
                  /\ r \in requests' => /\ Same(q, r) /\ q.waited
                                        /\ r.at = "answered" /\ r.reply = reply
<1>1. CASE q.waited
  <2>1. Move(q, Answered(q, reply))
    BY <1>1 DEF Answer, Answered
  <2>2. requests' = (requests \ {q}) \cup {Answered(q, reply)}
    BY <2>1 DEF Move
  <2> QED BY <1>1, <2>2, AnsweredIsSame
<1>2. CASE ~q.waited
  <2>1. requests' = requests \ {q}
    BY <1>2 DEF Answer
  <2> QED BY <2>1
<1> QED BY <1>1, <1>2

LEMMA RequestFacts ==
    ASSUME IInv, NEW q \in requests
    PROVE  /\ q \in Requests /\ q.caller \in Callers /\ q.token \in Bearers
           /\ AnswerFits(q) /\ DeadOnes(q) /\ WriteFits(q) /\ Used(q.token)
           /\ row \in [Bearers -> {"none", "live", "revoked", "gone"}]
           /\ applied \in [Callers -> Nat]
BY CallerKnown
   DEF IInv, RequestInv, RequestsSound, Asked, WriteInv, WriteRequests, OperatorTypeOK,
       SessionTypeOK

\* A handler that leaves the bearers' rows and the links alone.
LEMMA NothingElse ==
    ASSUME IInv, UNCHANGED <<host, descriptor, row, serveRow, projFile, legacyFile, link, browser>>
    PROVE  DaemonTyped' /\ DaemonInv' /\ Fades
BY KeepsDaemon, SameRowFades DEF Keeps

\* A request is answered; a write was carried out before "ok", and may have been before
\* an error.
LEMMA AnsweredStep ==
    ASSUME IInv, NEW q \in requests, q.at \in {"sent", "authorized"}, cli' = cli,
           DaemonTyped', DaemonInv', Fades,
           NEW reply \in Replies, Answer(q, reply),
           q.op = "revoke" =>
              /\ reply \in {"matched", "not_matched", "refused"}
              /\ reply # "refused" => q.peer = "foreign" \/ ~Live(q.token)',
           q.op # "revoke" => reply \in {"ok", "refused", "unauthorized"},
           q.dead => reply # "ok",
           \/ applied' = applied /\ ~(q.op = "write" /\ reply = "ok")
           \/ /\ q.op = "write" /\ reply \in {"ok", "refused"}
              /\ applied' = [applied EXCEPT ![q.caller] = @ + 1]
    PROVE  IInv' /\ DeadStay
<1>1. /\ q \in Requests /\ AnswerFits(q) /\ DeadOnes(q) /\ WriteFits(q)
      /\ q.caller \in Callers /\ q.token \in Bearers /\ Used(q.token)
      /\ applied \in [Callers -> Nat]
  BY RequestFacts
<1>2. PICK r : /\ requests' \subseteq (requests \ {q}) \cup {r}
               /\ r \in requests' => /\ Same(q, r) /\ q.waited
                                     /\ r.at = "answered" /\ r.reply = reply
  BY <1>1, AnswerEffect
<1>3. q.op = "write" => applied[q.caller] = 0
  BY <1>1 DEF WriteFits
<1>4. ASSUME r \in requests'
      PROVE  Same(q, r) /\ AnswerFits(r)' /\ DeadOnes(r)' /\ WriteFits(r)'
  <2>1. Same(q, r) /\ q.waited /\ r.at = "answered" /\ r.reply = reply
    BY <1>2, <1>4
  <2>2. AnswerFits(r)'
    BY <2>1 DEF AnswerFits, Same
  <2>3. DeadOnes(r)'
    <3>1. ~Live(q.token) => ~Live(q.token)'
      BY <1>1 DEF Fades
    <3> QED BY <1>1, <2>1, <3>1 DEF DeadOnes, Same
  <2>4. WriteFits(r)'
    BY <1>1, <1>3, <2>1 DEF WriteFits, Same
  <2> QED BY <2>1, <2>2, <2>3, <2>4
<1>5. \/ applied' = applied
      \/ /\ q.op = "write" /\ q.at # "answered"
         /\ applied' = [applied EXCEPT ![q.caller] = @ + 1]
  OBVIOUS
<1> QED BY <1>2, <1>4, <1>5, HandlePreserves

LEMMA AuthorizeStep ==
    ASSUME IInv, NEW q \in requests, authorizeAPI(q), cli' = cli
    PROVE  IInv' /\ DeadStay
<1>1. DaemonTyped' /\ DaemonInv' /\ Fades
  BY NothingElse DEF authorizeAPI
<1>2. /\ q.at = "sent" /\ q.op \in {"read", "write", "open"}
      /\ row' = row /\ applied' = applied
  BY DEF authorizeAPI
<1>3. q \in Requests /\ AnswerFits(q) /\ DeadOnes(q) /\ WriteFits(q)
  BY RequestFacts
<1>4. CASE Live(q.token) /\ Move(q, [q EXCEPT !.at = "authorized"])
  <2>1. Move(q, [q EXCEPT !.at = "authorized"])
    BY <1>4
  <2>2. PICK r : r = [q EXCEPT !.at = "authorized"]
    OBVIOUS
  <2>3. r \in Requests
    BY <1>3, <2>2 DEF Requests
  <2>4. /\ r.caller = q.caller /\ r.src = q.src /\ r.peer = q.peer /\ r.token = q.token
        /\ r.op = q.op /\ r.at = "authorized" /\ r.reply = q.reply
    BY <1>3, <2>2 DEF Requests
  <2>5. (r.waited <=> q.waited) /\ (r.dead <=> q.dead)
    BY <1>3, <2>2 DEF Requests
  <2>6. requests' \subseteq (requests \ {q}) \cup {r}
    BY <2>1, <2>2 DEF Move
  <2>7. Same(q, r)
    BY <2>3, <2>4, <2>5 DEF Same
  <2>8. AnswerFits(r)' /\ DeadOnes(r)' /\ WriteFits(r)'
    <3>1. ~q.dead /\ q.reply = "none"
      BY <1>2, <1>3, <1>4 DEF DeadOnes, AnswerFits
    <3>2. AnswerFits(r)' /\ DeadOnes(r)'
      BY <2>4, <2>5, <3>1 DEF AnswerFits, DeadOnes
    <3>3. WriteFits(r)'
      BY <1>2, <1>3, <2>4, <3>1 DEF WriteFits
    <3> QED BY <3>2, <3>3
  <2> QED BY <1>1, <1>2, <2>6, <2>7, <2>8, HandlePreserves
<1>5. CASE Answer(q, "unauthorized")
  BY <1>1, <1>2, <1>5, AnsweredStep DEF Replies
<1> QED BY <1>4, <1>5 DEF authorizeAPI, ValidBearer

LEMMA CommandStep ==
    ASSUME IInv, NEW q \in requests, authorizeCommand(q), cli' = cli
    PROVE  IInv' /\ DeadStay
<1>1. DaemonTyped' /\ DaemonInv' /\ Fades
  BY NothingElse DEF authorizeCommand
<1>2. q.at = "authorized" /\ q.op = "write" /\ Answer(q, "unauthorized") /\ applied' = applied
  BY DEF authorizeCommand
<1> QED BY <1>1, <1>2, AnsweredStep DEF Replies

LEMMA ForeignStep ==
    ASSUME IInv, NEW q \in requests, ForeignAnswers(q), cli' = cli
    PROVE  IInv' /\ DeadStay
<1>1. DaemonTyped' /\ DaemonInv' /\ Fades
  BY NothingElse DEF ForeignAnswers
<1>2. q.at = "sent" /\ q.peer = "foreign" /\ applied' = applied
  BY DEF ForeignAnswers
<1>3. CASE q.op = "revoke"
  <2>1. Answer(q, "not_matched")
    BY <1>3 DEF ForeignAnswers
  <2> QED BY <1>1, <1>2, <1>3, <2>1, AnsweredStep DEF Replies
<1>4. CASE q.op # "revoke"
  <2>1. Answer(q, "unauthorized")
    BY <1>4 DEF ForeignAnswers
  <2> QED BY <1>1, <1>2, <1>4, <2>1, AnsweredStep DEF Replies
<1> QED BY <1>3, <1>4

LEMMA HandleStep ==
    ASSUME IInv, NEW q \in requests, HandleRequest(q), cli' = cli
    PROVE  IInv' /\ DeadStay
<1>1. DaemonTyped' /\ DaemonInv' /\ Fades
  BY NothingElse DEF HandleRequest
<1>2. q.at = "authorized" /\ q.op \in {"read", "write"}
  BY DEF HandleRequest
<1>3. ~q.dead
  BY <1>2, RequestFacts DEF DeadOnes
<1>4. PICK reply \in {"ok", "refused"}, done \in BOOLEAN :
         /\ reply = "ok" => done
         /\ Answer(q, reply)
         /\ applied' = IF q.op = "write" /\ done THEN [applied EXCEPT ![q.caller] = @ + 1]
                                                ELSE applied
  BY DEF HandleRequest
<1>5. CASE q.op = "write" /\ done
  BY <1>1, <1>2, <1>3, <1>4, <1>5, AnsweredStep DEF Replies
<1>6. CASE ~(q.op = "write" /\ done)
  BY <1>1, <1>2, <1>3, <1>4, <1>6, AnsweredStep DEF Replies
<1> QED BY <1>5, <1>6

LEMMA SessionStep ==
    ASSUME IInv, NEW q \in requests, AuthSession(q), cli' = cli
    PROVE  IInv' /\ DeadStay
<1>1. DaemonTyped' /\ DaemonInv' /\ Fades
  BY NothingElse DEF AuthSession
<1>2. q.at = "sent" /\ q.op = "session" /\ applied' = applied
  BY DEF AuthSession
<1>3. CASE Live(q.token) /\ Answer(q, "ok")
  <2>1. ~q.dead
    BY <1>3, RequestFacts DEF DeadOnes
  <2> QED BY <1>1, <1>2, <1>3, <2>1, AnsweredStep DEF Replies
<1>4. CASE Answer(q, "unauthorized")
  BY <1>1, <1>2, <1>4, AnsweredStep DEF Replies
<1> QED BY <1>3, <1>4 DEF AuthSession, ValidBearer

LEMMA RevokeStep ==
    ASSUME IInv, NEW q \in requests, revokeCLISession(q), cli' = cli
    PROVE  IInv' /\ DeadStay
<1>1. DaemonTyped /\ LinksAreConsumed
  BY TypesInParts DEF IInv, OperatorTypeOK, DaemonInv
<1>2. /\ q.at = "sent" /\ q.op = "revoke" /\ applied' = applied
      /\ UNCHANGED <<host, descriptor, serveRow, projFile, legacyFile, link, browser>>
  BY DEF revokeCLISession
<1>3. q.token \in Bearers /\ DeadOnes(q) /\ row \in [Bearers -> {"none", "live", "revoked", "gone"}]
  BY RequestFacts
<1>4. \/ Answer(q, "matched") /\ row' = [row EXCEPT ![q.token] = "revoked"]
         /\ row[q.token] \in {"live", "revoked"}
      \/ Answer(q, "not_matched") /\ row' = row /\ row[q.token] \notin {"live", "revoked"}
      \/ Answer(q, "refused") /\ row' = row
  BY DEF revokeCLISession
<1>5. row' \in [Bearers -> {"none", "live", "revoked", "gone"}] /\ Fades
  BY <1>3, <1>4 DEF Fades, Used, Live
<1>6. DaemonTyped' /\ DaemonInv'
  BY <1>1, <1>2, <1>5, RowSteps DEF DaemonTyped, LinksAreConsumed
<1>7. PICK reply \in {"matched", "not_matched", "refused"} :
         Answer(q, reply) /\ (reply # "refused" => ~Live(q.token)')
  BY <1>3, <1>4 DEF Live
<1> QED BY <1>2, <1>5, <1>6, <1>7, AnsweredStep DEF Replies

LEMMA OpenStep ==
    ASSUME IInv, NEW q \in requests, NEW o \in Links, openToken(q, o), cli' = cli
    PROVE  IInv' /\ DeadStay
<1>1. DaemonTyped /\ LinksAreConsumed
  BY TypesInParts DEF IInv, OperatorTypeOK, DaemonInv
<1>2. /\ q.at = "authorized" /\ q.op = "open" /\ applied' = applied
      /\ row' = row /\ UNCHANGED <<host, descriptor, serveRow, projFile, legacyFile, browser>>
      /\ \/ link[o] = "none" /\ link' = [link EXCEPT ![o] = "fresh"]
         \/ link' = link
  BY DEF openToken
<1>3. ~q.dead
  BY <1>2, RequestFacts DEF DeadOnes
<1>4. link' \in [Links -> {"none", "fresh", "consumed", "expired"}]
  BY <1>1, <1>2 DEF DaemonTyped
<1>5. \A x \in Links : browser'[x] # "none" => link'[x] = "consumed"
  BY <1>1, <1>2 DEF DaemonTyped, LinksAreConsumed
<1>6. DaemonTyped' /\ DaemonInv' /\ Fades
  BY <1>1, <1>2, <1>4, <1>5, SameRowFades, RowSteps DEF DaemonTyped
<1>7. PICK reply \in {"ok", "unauthorized", "refused"} : Answer(q, reply)
  BY DEF openToken
<1> QED BY <1>2, <1>3, <1>6, <1>7, AnsweredStep DEF Replies

-----------------------------------------------------------------------------
(* The invariant.                                                          *)

LEMMA InitHolds ==
    ASSUME OperatorInit
    PROVE  IInv
<1>1. /\ host = [a \in Addrs |-> "none"] /\ descriptor = None /\ projFile \in {None, Unusable}
      /\ legacyFile \in {None, Unusable, Foreign} \cup [token : {OldToken}, url : Addrs \cup {None}]
      /\ row = [t \in Bearers |-> IF t = OldToken /\ legacyFile \in SessionFiles
                                  THEN "live" ELSE "none"]
      /\ serveRow = None /\ requests = {}
      /\ link = [o \in Links |-> "none"] /\ browser = [o \in Links |-> "none"]
      /\ applied = [p \in Callers |-> 0]
  BY DEF OperatorInit, SessionInit
<1>2. OldToken \in Bearers
  BY DEF Bearers
<1>3. legacyFile \in SessionFiles \cup {None, Unusable, Foreign}
  BY <1>1, <1>2 DEF SessionFiles
<1>4. legacyFile \in SessionFiles => legacyFile.token = OldToken
  BY <1>1, NamesAssumption
<1>5. DaemonTyped /\ RequestsTyped
  BY <1>1, <1>3 DEF DaemonTyped, RequestsTyped
<1>6. OneDaemon /\ BearerOfDaemon /\ LinksAreConsumed
  BY <1>1 DEF OneDaemon, Ours, Serving, InStartUp, BearerOfDaemon, LinksAreConsumed
<1>7. FilesAreUsed
  BY <1>1, <1>2, <1>4, NamesAssumption DEF FilesAreUsed, Used
<1>8. ASSUME NEW p \in Callers
      PROVE  Ready(cli[p]) /\ cli[p].at = "idle" /\ cli[p].end = "none"
  <2> DEFINE start(c) == [at |-> "idle", cmd |-> c, cands |-> <<>>, base |-> None,
                          token |-> None, src |-> "disk", known |-> {}, seen |-> {},
                          astray |-> FALSE, tried |-> FALSE, degraded |-> FALSE,
                          end |-> "none"]
  <2>1. PICK c \in Commands : cli[p] = start(c)
    BY DEF OperatorInit
  <2>2. <<>> \in Seq(Addrs)
    OBVIOUS
  <2>3. start(c) \in Invocations
    BY <2>2 DEF Invocations
  <2>4. Sound(start(c))
    BY DEF Sound
  <2>5. HoldsItsBearer(start(c))
    BY DEF HoldsItsBearer
  <2>6. ReadBearers(start(c))
    BY DEF ReadBearers
  <2>7. start(c).at = "idle" /\ start(c).end = "none"
    OBVIOUS
  <2> HIDE DEF start
  <2> QED BY <2>1, <2>3, <2>4, <2>5, <2>6, <2>7 DEF Ready
<1>9. cli \in [Callers -> Invocations]
  <2>1. cli = [p \in Callers |-> cli[p]]
    BY DEF OperatorInit
  <2>2. \A p \in Callers : cli[p] \in Invocations
    BY <1>8 DEF Ready
  <2> QED BY <2>1, <2>2
<1>10. InvocationsSound /\ BearersRead
  BY <1>8 DEF InvocationsSound, BearersRead, Ready
<1>11. RequestInv
  BY <1>1 DEF RequestInv, OneEach, RequestsSound, SentSoFar
<1>12. WriteInv
  BY <1>1, <1>8 DEF WriteInv, WritesSound, WriteOf, WriteRequests
<1> QED BY <1>5, <1>6, <1>7, <1>9, <1>10, <1>11, <1>12, TypesInParts
        DEF IInv, OperatorTypeOK, DaemonInv

LEMMA InvocationPreserves ==
    ASSUME IInv, NEW p \in Callers, InvocationStep(p)
    PROVE  IInv' /\ DeadStay
<1>1. CASE \/ Begin(p) \/ ReadOpenToken(p) \/ ProbeFinds(p) \/ ProbeFails(p) \/ NoDaemon(p)
           \/ LoadToken(p) \/ RevokeProject(p) \/ RevokeLegacy(p) \/ DeleteSessionFile(p)
           \/ deleteLegacySession(p)
  <2>1. QuietStep(p)
    BY <1>1, BeginQuiet, ReadOpenTokenQuiet, ProbeFindsQuiet, ProbeFailsQuiet, NoDaemonQuiet,
       LoadTokenQuiet, RevokeProjectQuiet, RevokeLegacyQuiet, DeletesQuiet
  <2> QED BY <2>1, QuietPreserves
<1>2. CASE Send(p)
  BY <1>2, SendPreserves
<1>3. CASE Receive(p)
  BY <1>3, ReceivePreserves
<1>4. CASE NoAnswer(p)
  BY <1>4, NoAnswerPreserves
<1> QED BY <1>1, <1>2, <1>3, <1>4 DEF InvocationStep

\* The steps of one daemon, or of another project's.
LEMMA HostPreserves ==
    ASSUME IInv, cli' = cli, NEW a \in Addrs,
           \/ ServeBind(a) \/ ServeTruncate(a) \/ ServeFile(a) \/ ServeUp(a)
           \/ ServeFailsToMint(a) \/ ServeAborts(a) \/ ServeStops(a) \/ Crash(a)
           \/ ForeignStops(a) \/ ForeignStarts(a)
    PROVE  IInv' /\ DeadStay
<1>1. CASE ServeBind(a)
  <2>1. DaemonTyped' /\ DaemonInv' /\ Fades
    BY <1>1, HostSteps DEF ServeBind
  <2> QED BY <1>1, <2>1, SubsetPreserves DEF ServeBind
<1>2. CASE ServeTruncate(a)
  <2>1. DaemonTyped' /\ DaemonInv' /\ Fades
    BY <1>2, HostSteps DEF ServeTruncate
  <2> QED BY <1>2, <2>1, SubsetPreserves DEF ServeTruncate
<1>3. CASE ServeFile(a)
  <2>1. DaemonTyped' /\ DaemonInv' /\ Fades
    BY <1>3, FileSteps
  <2> QED BY <1>3, <2>1, SubsetPreserves DEF ServeFile
<1>4. CASE ServeUp(a)
  <2>1. DaemonTyped' /\ DaemonInv' /\ Fades
    BY <1>4, HostSteps DEF ServeUp
  <2> QED BY <1>4, <2>1, SubsetPreserves DEF ServeUp
<1>5. CASE ServeFailsToMint(a)
  <2>1. DaemonTyped' /\ DaemonInv' /\ Fades
    BY <1>5, HostSteps DEF ServeFailsToMint
  <2> QED BY <1>5, <2>1, SubsetPreserves DEF ServeFailsToMint, Drop
<1>6. CASE ServeAborts(a)
  <2>1. DaemonTyped' /\ DaemonInv' /\ Fades
    BY <1>6, AbortSteps
  <2> QED BY <1>6, <2>1, SubsetPreserves DEF ServeAborts, Drop
<1>7. CASE ServeStops(a)
  <2>1. DaemonTyped' /\ DaemonInv' /\ Fades
    BY <1>7, HostSteps DEF ServeStops
  <2> QED BY <1>7, <2>1, SubsetPreserves DEF ServeStops, Drop
<1>8. CASE Crash(a)
  <2>1. DaemonTyped' /\ DaemonInv' /\ Fades
    BY <1>8, HostSteps DEF Crash
  <2> QED BY <1>8, <2>1, SubsetPreserves DEF Crash, Drop
<1>9. CASE ForeignStops(a)
  <2>1. DaemonTyped' /\ DaemonInv' /\ Fades
    BY <1>9, HostSteps DEF ForeignStops
  <2> QED BY <1>9, <2>1, SubsetPreserves DEF ForeignStops, Drop
<1>10. CASE ForeignStarts(a)
  <2>1. DaemonTyped' /\ DaemonInv' /\ Fades
    BY <1>10, HostSteps DEF ForeignStarts
  <2> QED BY <1>10, <2>1, SubsetPreserves DEF ForeignStarts
<1> QED BY <1>1, <1>2, <1>3, <1>4, <1>5, <1>6, <1>7, <1>8, <1>9, <1>10

LEMMA DaemonPreserves ==
    ASSUME IInv, cli' = cli, DaemonStep
    PROVE  IInv' /\ DeadStay
<1>1. CASE \E a \in Addrs : \/ ServeBind(a) \/ ServeTruncate(a) \/ ServeFile(a) \/ ServeUp(a)
                            \/ ServeFailsToMint(a) \/ ServeAborts(a) \/ ServeStops(a) \/ Crash(a)
                            \/ ForeignStarts(a) \/ ForeignStops(a)
  BY <1>1, HostPreserves
<1>2. ASSUME NEW a \in Addrs, NEW t \in Tokens, ServeMint(a, t)
      PROVE  IInv' /\ DeadStay
  <2>1. DaemonTyped' /\ DaemonInv' /\ Fades
    BY <1>2, MintSteps
  <2> QED BY <1>2, <2>1, SubsetPreserves DEF ServeMint
<1>3. ASSUME NEW q \in requests,
             \/ authorizeAPI(q) \/ authorizeCommand(q) \/ HandleRequest(q)
             \/ AuthSession(q) \/ revokeCLISession(q) \/ ForeignAnswers(q)
             \/ \E o \in Links : openToken(q, o)
      PROVE  IInv' /\ DeadStay
  BY <1>3, AuthorizeStep, CommandStep, HandleStep, SessionStep, RevokeStep, ForeignStep, OpenStep
<1>4. ASSUME NEW t \in Bearers, NEW new \in Tokens, rotateCLIToken(t, new)
      PROVE  IInv' /\ DeadStay
  <2>1. DaemonTyped' /\ DaemonInv' /\ Fades
    BY <1>4, RotateSteps
  <2> QED BY <1>4, <2>1, SubsetPreserves DEF rotateCLIToken
<1>5. ASSUME NEW o \in Links, exchangeOpenToken(o) \/ authLogout(o) \/ Expire(o)
      PROVE  IInv' /\ DeadStay
  <2>1. DaemonTyped' /\ DaemonInv' /\ Fades
    BY <1>5, LinkSteps
  <2>2. requests' = requests /\ applied' = applied
    BY <1>5 DEF exchangeOpenToken, authLogout, Expire
  <2> QED BY <2>1, <2>2, SubsetPreserves
<1> QED BY <1>1, <1>2, <1>3, <1>4, <1>5 DEF DaemonStep

LEMMA NextHolds ==
    ASSUME IInv, [OperatorNext]_operatorVars
    PROVE  IInv' /\ DeadStay
<1>1. CASE DaemonStep /\ UNCHANGED cli
  BY <1>1, DaemonPreserves
<1>2. CASE \E p \in Callers : InvocationStep(p)
  BY <1>2, InvocationPreserves
<1>3. CASE UNCHANGED operatorVars
  <2>1. /\ UNCHANGED <<host, descriptor, row, serveRow, projFile, legacyFile, link, browser>>
        /\ requests' = requests /\ applied' = applied /\ cli' = cli
    BY <1>3 DEF operatorVars, sessionVars
  <2> QED BY <2>1, NothingElse, SubsetPreserves
<1> QED BY <1>1, <1>2, <1>3 DEF OperatorNext

\* IInv holds in every state of a specification whose steps are OperatorNext's.
THEOREM Invariant == OperatorSpec => []IInv
<1>1. OperatorInit => IInv
  BY InitHolds
<1>2. IInv /\ [OperatorNext]_operatorVars => IInv'
  BY NextHolds
<1> QED BY <1>1, <1>2, PTL DEF OperatorSpec

-----------------------------------------------------------------------------
(* What follows.                                                           *)

\* The types, for any number of callers, addresses, bearers and links.
THEOREM OperatorTypesHold == OperatorSpec => []OperatorTypeOK
<1>1. IInv => OperatorTypeOK
  BY DEF IInv
<1> QED BY <1>1, Invariant, PTL

\* A write is carried out at most once, however its request, the daemons and the other
\* commands interleave: it was when `symphony` reports "ok" and was not when it reports
\* that it could not be sent or was not authorised, and once the command has an answer
\* no request of it is left that could still be carried out.
THEOREM WritesDoHappenOnce == OperatorSpec => []WritesHappenOnce
<1>1. IInv => WritesHappenOnce
  <2>1. SUFFICES ASSUME IInv, NEW p \in Callers, cli[p].cmd = "write"
                 PROVE  /\ applied[p] <= 1
                        /\ cli[p].end = "ok" => applied[p] = 1
                        /\ cli[p].end \in {"unauthorized", "unavailable"} => applied[p] = 0
                        /\ cli[p].end \in Settled => \A q \in requests : q.caller # p
    BY DEF WritesHappenOnce, Settled
  <2>2. WriteOf(p)
    BY <2>1 DEF IInv, WriteInv, WritesSound
  <2>3. ASSUME NEW q \in requests, q.caller = p
        PROVE  cli[p].end \notin Settled
    <3>1. q.op = Op(cli[p].cmd) /\ WriteFits(q)
      BY <2>1, <2>3 DEF IInv, RequestInv, RequestsSound, Asked, WriteInv, WriteRequests
    <3>2. q.op = "write"
      BY <2>1, <3>1 DEF Op
    <3> QED BY <2>3, <3>1, <3>2 DEF WriteFits
  <2> QED BY <2>2, <2>3 DEF WriteOf
<1> QED BY <1>1, Invariant, PTL

\* `logged_out` means that every bearer the command has read is dead, whoever listens at
\* the addresses it finds in files; but for a bearer that went to a daemon of another
\* project between the /health answer and the request.
THEOREM LogoutDoesConfirm == OperatorSpec => []LogoutIsConfirmed
<1>1. IInv => LogoutIsConfirmed
  BY DEF IInv, BearersRead, ReadBearers, Confirms, LogoutIsConfirmed
<1> QED BY <1>1, Invariant, PTL

\* A serving daemon's session file holds its own bearer and address, or is gone.
THEOREM FileDoesBelong == OperatorSpec => []FileIsTheDaemons
<1>1. IInv => FileIsTheDaemons
  BY DEF IInv, DaemonInv, BearerOfDaemon, FileIsTheDaemons, Serving
<1> QED BY <1>1, Invariant, PTL

LEMMA BrowsersStay ==
    ASSUME IInv, [OperatorNext]_operatorVars, NEW o \in Links, browser[o] \in {"revoked", "expired"}
    PROVE  browser'[o] # "live"
<1>1. LinksAreConsumed /\ browser \in [Links -> {"none", "live", "revoked", "expired"}]
  BY DEF IInv, DaemonInv, OperatorTypeOK, SessionTypeOK
<1>2. ASSUME NEW x \in Links, exchangeOpenToken(x) \/ authLogout(x) \/ Expire(x)
      PROVE  browser'[o] # "live"
  <2>1. CASE exchangeOpenToken(x)
    BY <1>1, <2>1 DEF exchangeOpenToken, LinksAreConsumed
  <2>2. CASE authLogout(x)
    BY <1>1, <2>2 DEF authLogout
  <2>3. CASE Expire(x)
    BY <1>1, <2>3 DEF Expire
  <2> QED BY <1>2, <2>1, <2>2, <2>3
<1>3. CASE browser' = browser
  BY <1>3
<1>4. ASSUME NEW p \in Callers, InvocationStep(p)
      PROVE  browser' = browser
  BY <1>4 DEF InvocationStep, sessionVars, Begin, ReadOpenToken, ProbeFinds, ProbeFails, NoDaemon,
     LoadToken, Send, Receive, NoAnswer, RevokeProject, RevokeLegacy, DeleteSessionFile,
     deleteLegacySession
<1>5. ASSUME NEW a \in Addrs,
             \/ ServeBind(a) \/ ServeTruncate(a) \/ ServeFile(a) \/ ServeUp(a)
             \/ ServeFailsToMint(a) \/ ServeAborts(a) \/ ServeStops(a) \/ Crash(a)
             \/ ForeignStops(a) \/ ForeignStarts(a) \/ \E t \in Tokens : ServeMint(a, t)
      PROVE  browser' = browser
  BY <1>5 DEF ServeBind, ServeTruncate, ServeFile, ServeUp, ServeFailsToMint, ServeAborts,
     ServeStops, Crash, ForeignStops, ForeignStarts, ServeMint
<1>6. ASSUME NEW q \in requests,
             \/ authorizeAPI(q) \/ authorizeCommand(q) \/ HandleRequest(q)
             \/ AuthSession(q) \/ revokeCLISession(q) \/ ForeignAnswers(q)
             \/ \E x \in Links : openToken(q, x)
      PROVE  browser' = browser
  BY <1>6 DEF authorizeAPI, authorizeCommand, HandleRequest, AuthSession, revokeCLISession,
     ForeignAnswers, openToken
<1>7. ASSUME NEW t \in Bearers, NEW new \in Tokens, rotateCLIToken(t, new)
      PROVE  browser' = browser
  BY <1>7 DEF rotateCLIToken
<1>8. CASE DaemonStep
  BY <1>2, <1>3, <1>5, <1>6, <1>7, <1>8 DEF DaemonStep
<1>9. CASE UNCHANGED operatorVars
  BY <1>3, <1>9 DEF operatorVars, sessionVars
<1> QED BY <1>3, <1>4, <1>8, <1>9 DEF OperatorNext

\* A request sent with a dead bearer is never authorised or answered with "ok", and a
\* browser session that ended is not opened again.
THEOREM TheDeadAreRefused == OperatorSpec => DeadSessionsAreRefused
<1> DEFINE A == /\ \A q \in requests, r \in requests' :
                     (q.caller = r.caller /\ q.src = r.src /\ q.dead) =>
                        ~(r.reply = "ok" \/ r.at = "authorized")
                /\ \A o \in Links :
                     browser[o] \in {"revoked", "expired"} => browser'[o] # "live"
<1>1. IInv /\ IInv' /\ [OperatorNext]_operatorVars => [A]_operatorVars
  <2> SUFFICES ASSUME IInv, IInv', [OperatorNext]_operatorVars PROVE A
    OBVIOUS
  <2>1. ASSUME NEW q \in requests, NEW r \in requests',
               q.caller = r.caller, q.src = r.src, q.dead
        PROVE  ~(r.reply = "ok" \/ r.at = "authorized")
    <3>1. DeadStay
      BY NextHolds
    <3>2. r.dead
      BY <2>1, <3>1 DEF DeadStay
    <3>3. DeadOnes(r)'
      BY DEF IInv, RequestInv, RequestsSound
    <3> QED BY <3>2, <3>3 DEF DeadOnes
  <2>2. ASSUME NEW o \in Links, browser[o] \in {"revoked", "expired"}
        PROVE  browser'[o] # "live"
    BY <2>2, BrowsersStay
  <2> QED BY <2>1, <2>2
<1> QED BY <1>1, Invariant, PTL DEF OperatorSpec, DeadSessionsAreRefused

=============================================================================
