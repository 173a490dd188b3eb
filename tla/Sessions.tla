------------------------------ MODULE Sessions ------------------------------
(***************************************************************************)
(* The sessions of a project on the daemon's side: the bearer that Serve   *)
(* mints and leaves in the session file (internal/app/app.go), the open    *)
(* tokens and browser sessions made from it, and how a request is          *)
(* authorised and carried out (internal/httpapi/httpapi.go).               *)
(*                                                                         *)
(* The daemon may stop, crash and start again at another address at any    *)
(* time, and a port it leaves may be taken by the daemon of another        *)
(* project, which then gets what is sent there.  Authorising a request and *)
(* carrying it out are two statements: a token may die in between.         *)
(***************************************************************************)
EXTENDS Naturals, Sequences

CONSTANTS
    Addrs,          \* where a daemon may listen
    Tokens,         \* bearer tokens that security.NewToken may return
    OldToken,       \* the bearer an older build left in the legacy file
    Links,          \* open tokens, one for each dashboard link
    Callers,        \* those who send requests
    Unusable,       \* a session file that does not parse, or is not this checkout's
    Foreign,        \* a legacy file that is another project's session
    None

VARIABLES
    host,           \* what listens at an address
    descriptor,     \* the address in the runtime descriptor file
    row,            \* a bearer's local_sessions row
    serveRow,       \* the bearer in the row cli_<project>, which Serve replaces
    projFile,       \* ~/.symphony/cli-sessions/<project>.json
    legacyFile,     \* ~/.symphony/cli-session.json
    link,           \* an open token's row
    browser,        \* the browser session made from an open token
    requests,       \* requests on their way, at a daemon or answered
    applied         \* observation: how often a caller's write was carried out

sessionVars == <<host, descriptor, row, serveRow, projFile, legacyFile, link,
                 browser, requests, applied>>

Bearers == Tokens \cup {OldToken}

SessionFiles == [token : Bearers, url : Addrs \cup {None}]

\* What is not there, cannot be read or is another project's is no bearer and no session.
ASSUME NamesAssumption ==
    /\ None \notin Bearers
    /\ \A x \in {None, Unusable, Foreign} : x \notin SessionFiles

\* src tells a caller's requests apart, peer whose daemon accepted the connection, waited
\* whether the caller still waits for the answer; dead is an observation: whether the
\* token was not live when the request was sent.
Requests == [caller : Callers, src : {"disk", "project", "legacy"}, addr : Addrs,
             peer : {"ours", "foreign"}, token : Bearers,
             op : {"read", "write", "session", "open", "revoke"},
             at : {"sent", "authorized", "answered"},
             reply : {"none", "ok", "refused", "unauthorized", "matched", "not_matched"},
             waited : BOOLEAN, dead : BOOLEAN]

SessionTypeOK ==
    /\ host \in [Addrs -> {"none", "bound", "minted", "torn", "filed", "ours", "foreign"}]
    /\ descriptor \in Addrs \cup {None}
    /\ row \in [Bearers -> {"none", "live", "revoked", "gone"}]
    /\ serveRow \in Bearers \cup {None}
    /\ projFile \in SessionFiles \cup {None, Unusable}
    /\ legacyFile \in SessionFiles \cup {None, Unusable, Foreign}
    /\ link \in [Links -> {"none", "fresh", "consumed", "expired"}]
    /\ browser \in [Links -> {"none", "live", "revoked", "expired"}]
    /\ requests \subseteq Requests
    /\ applied \in [Callers -> Nat]

\* The session file may be another checkout's; an older build may have left a
\* session of this project, of another one, or one that cannot be used.
SessionInit ==
    /\ host = [a \in Addrs |-> "none"]
    /\ descriptor = None
    /\ projFile \in {None, Unusable}
    /\ legacyFile \in {None, Unusable, Foreign} \cup [token : {OldToken}, url : Addrs \cup {None}]
    /\ row = [t \in Bearers |-> IF t = OldToken /\ legacyFile \in SessionFiles
                                THEN "live" ELSE "none"]
    /\ serveRow = None
    /\ link = [o \in Links |-> "none"]
    /\ browser = [o \in Links |-> "none"]
    /\ requests = {}
    /\ applied = [p \in Callers |-> 0]

Live(t) == row[t] = "live"
Unused(t) == t \in Tokens /\ row[t] = "none"

Serving(a) == host[a] = "ours"
InStartUp(a) == host[a] \in {"bound", "minted", "torn", "filed"}
Ours(a) == Serving(a) \/ InStartUp(a)

-----------------------------------------------------------------------------
(* Serve.  That no two daemons serve the project is RuntimeOwner's matter. *)

Listen(a, h) == host' = [host EXCEPT ![a] = h]

\* Requests at a daemon that goes are not answered.
Drop(a) == requests' = {q \in requests : q.addr # a \/ q.at = "answered"}

ServeBind(a) ==
    /\ host[a] = "none"
    /\ \A b \in Addrs : ~Ours(b)
    /\ Listen(a, "bound")
    /\ descriptor' = a
    /\ UNCHANGED <<row, serveRow, projFile, legacyFile, link, browser, requests, applied>>

\* INSERT OR REPLACE of the row cli_<project>.
MintRow(t) ==
    [s \in Bearers |-> IF s = t THEN "live" ELSE IF s = serveRow THEN "gone" ELSE row[s]]

ServeMint(a, t) ==
    /\ host[a] = "bound"
    /\ Unused(t)
    /\ row' = MintRow(t)
    /\ serveRow' = t
    /\ Listen(a, "minted")
    /\ UNCHANGED <<descriptor, projFile, legacyFile, link, browser, requests, applied>>

\* Mutant: an error of the INSERT is ignored.
ServeTruncateUnminted(a) ==
    /\ host[a] \in {"bound", "minted"}
    /\ projFile' = Unusable
    /\ Listen(a, "torn")
    /\ UNCHANGED <<descriptor, row, serveRow, legacyFile, link, browser, requests, applied>>

\* os.WriteFile: a reader may find the file empty.
ServeTruncate(a) ==
    /\ host[a] = "minted"
    /\ projFile' = Unusable
    /\ Listen(a, "torn")
    /\ UNCHANGED <<descriptor, row, serveRow, legacyFile, link, browser, requests, applied>>

ServeFile(a) ==
    /\ host[a] = "torn"
    /\ projFile' = [token |-> serveRow, url |-> a]
    /\ Listen(a, "filed")
    /\ UNCHANGED <<descriptor, row, serveRow, legacyFile, link, browser, requests, applied>>

\* Mutant: requests are served before the session file is written.
ServeUpBeforeFile(a) ==
    /\ host[a] \in {"minted", "filed"}
    /\ Listen(a, "ours")
    /\ UNCHANGED <<descriptor, row, serveRow, projFile, legacyFile, link, browser,
                   requests, applied>>

ServeUp(a) ==
    /\ host[a] = "filed"
    /\ Listen(a, "ours")
    /\ UNCHANGED <<descriptor, row, serveRow, projFile, legacyFile, link, browser,
                   requests, applied>>

\* writeCLISession fails before the row is replaced, and nothing was written.
ServeFailsToMint(a) ==
    /\ host[a] = "bound"
    /\ Listen(a, "none")
    /\ descriptor' = None
    /\ Drop(a)
    /\ UNCHANGED <<row, serveRow, projFile, legacyFile, link, browser, applied>>

\* removeCLISession: the file cannot be written, or runs or workflow do not load.
ServeAborts(a) ==
    /\ host[a] \in {"minted", "torn", "filed"}
    /\ Listen(a, "none")
    /\ descriptor' = None
    /\ projFile' = None
    /\ row' = [row EXCEPT ![serveRow] = "gone"]
    /\ serveRow' = None
    /\ Drop(a)
    /\ UNCHANGED <<legacyFile, link, browser, applied>>

\* Serve returns: the descriptor goes, the session stays.
ServeStops(a) ==
    /\ Serving(a)
    /\ Listen(a, "none")
    /\ descriptor' = None
    /\ Drop(a)
    /\ UNCHANGED <<row, serveRow, projFile, legacyFile, link, browser, applied>>

Crash(a) ==
    /\ Ours(a)
    /\ Listen(a, "none")
    /\ Drop(a)
    /\ UNCHANGED <<descriptor, row, serveRow, projFile, legacyFile, link, browser, applied>>

\* Another project's daemon takes and leaves a port.
ForeignStarts(a) ==
    /\ host[a] = "none"
    /\ Listen(a, "foreign")
    /\ UNCHANGED <<descriptor, row, serveRow, projFile, legacyFile, link, browser,
                   requests, applied>>

ForeignStops(a) ==
    /\ host[a] = "foreign"
    /\ Listen(a, "none")
    /\ Drop(a)
    /\ UNCHANGED <<descriptor, row, serveRow, projFile, legacyFile, link, browser, applied>>

-----------------------------------------------------------------------------
(* Requests with a bearer.                                                 *)

Move(q, r) == requests' = (requests \ {q}) \cup {r}

\* An answer nobody waits for is lost.
Answer(q, reply) ==
    IF q.waited THEN Move(q, [q EXCEPT !.at = "answered", !.reply = reply])
                ELSE requests' = requests \ {q}

\* Mutant: revoked_at is not looked at.
ValidUnlessGone(t) == row[t] \in {"live", "revoked"}

\* validStoredSession of a bearer: a row that is not revoked.
ValidBearer(t) == Live(t)

\* A row that cannot be read does not authorise either.
authorizeAPI(q) ==
    /\ Serving(q.addr) /\ q.peer = "ours"
    /\ q.at = "sent"
    /\ q.op \in {"read", "write", "open"}
    /\ \/ ValidBearer(q.token) /\ Move(q, [q EXCEPT !.at = "authorized"])
       \/ Answer(q, "unauthorized")
    /\ UNCHANGED <<host, descriptor, row, serveRow, projFile, legacyFile, link,
                   browser, applied>>

\* A write has its bearer looked at once more: it may have died, or be unreadable.
authorizeCommand(q) ==
    /\ Serving(q.addr) /\ q.peer = "ours"
    /\ q.at = "authorized"
    /\ q.op = "write"
    /\ Answer(q, "unauthorized")
    /\ UNCHANGED <<host, descriptor, row, serveRow, projFile, legacyFile, link,
                   browser, applied>>

\* A read or a write is carried out, or refused for what it asks.  A handler that has
\* committed its write then reads what it answers with, and answers an error if it cannot.
HandleRequest(q) ==
    /\ Serving(q.addr) /\ q.peer = "ours"
    /\ q.at = "authorized"
    /\ q.op \in {"read", "write"}
    /\ \E reply \in {"ok", "refused"}, done \in BOOLEAN :
          /\ reply = "ok" => done
          /\ Answer(q, reply)
          /\ applied' = IF q.op = "write" /\ done THEN [applied EXCEPT ![q.caller] = @ + 1]
                                                 ELSE applied
    /\ UNCHANGED <<host, descriptor, row, serveRow, projFile, legacyFile, link, browser>>

\* The bearer is looked at once more here too; the insert may fail.
openToken(q, o) ==
    /\ Serving(q.addr) /\ q.peer = "ours"
    /\ q.at = "authorized"
    /\ q.op = "open"
    /\ \/ /\ ValidBearer(q.token) /\ link[o] = "none"
          /\ link' = [link EXCEPT ![o] = "fresh"]
          /\ Answer(q, "ok")
       \/ /\ \E reply \in {"unauthorized", "refused"} : Answer(q, reply)
          /\ UNCHANGED link
    /\ UNCHANGED <<host, descriptor, row, serveRow, projFile, legacyFile, browser, applied>>

\* GET /auth/session is public and says whether the bearer is valid.
AuthSession(q) ==
    /\ Serving(q.addr) /\ q.peer = "ours"
    /\ q.at = "sent"
    /\ q.op = "session"
    /\ \/ ValidBearer(q.token) /\ Answer(q, "ok")
       \/ Answer(q, "unauthorized")
    /\ UNCHANGED <<host, descriptor, row, serveRow, projFile, legacyFile, link,
                   browser, applied>>

\* One transaction, public and idempotent; one that fails changes nothing.
revokeCLISession(q) ==
    /\ Serving(q.addr) /\ q.peer = "ours"
    /\ q.at = "sent"
    /\ q.op = "revoke"
    /\ \/ /\ row[q.token] \in {"live", "revoked"}
          /\ row' = [row EXCEPT ![q.token] = "revoked"]
          /\ Answer(q, "matched")
       \/ /\ row[q.token] \notin {"live", "revoked"}
          /\ Answer(q, "not_matched")
          /\ UNCHANGED row
       \/ /\ Answer(q, "refused")
          /\ UNCHANGED row
    /\ UNCHANGED <<host, descriptor, serveRow, projFile, legacyFile, link, browser, applied>>

\* Another project's daemon has no row of the bearer: it authorises nothing and finds
\* nothing to revoke.
ForeignAnswers(q) ==
    /\ host[q.addr] = "foreign" /\ q.peer = "foreign"
    /\ q.at = "sent"
    /\ Answer(q, IF q.op = "revoke" THEN "not_matched" ELSE "unauthorized")
    /\ UNCHANGED <<host, descriptor, row, serveRow, projFile, legacyFile, link,
                   browser, applied>>

\* Any REST client that holds a live bearer may have it replaced, in one transaction;
\* the session file is left as it is.
rotateCLIToken(t, new) ==
    /\ \E a \in Addrs : Serving(a)
    /\ Live(t)
    /\ Unused(new)
    /\ row' = [row EXCEPT ![t] = "revoked", ![new] = "live"]
    /\ UNCHANGED <<host, descriptor, serveRow, projFile, legacyFile, link, browser,
                   requests, applied>>

-----------------------------------------------------------------------------
(* Dashboard links and browser sessions.                                   *)

exchangeOpenToken(o) ==
    /\ \E a \in Addrs : Serving(a)
    /\ link[o] = "fresh"
    /\ link' = [link EXCEPT ![o] = "consumed"]
    /\ browser' = [browser EXCEPT ![o] = "live"]
    /\ UNCHANGED <<host, descriptor, row, serveRow, projFile, legacyFile, requests, applied>>

authLogout(o) ==
    /\ \E a \in Addrs : Serving(a)
    /\ browser[o] \in {"live", "expired"}
    /\ browser' = [browser EXCEPT ![o] = "revoked"]
    /\ UNCHANGED <<host, descriptor, row, serveRow, projFile, legacyFile, link,
                   requests, applied>>

\* Five minutes for a link, a day for a browser session.
Expire(o) ==
    /\ \/ /\ link[o] = "fresh"
          /\ link' = [link EXCEPT ![o] = "expired"]
          /\ UNCHANGED browser
       \/ /\ browser[o] = "live"
          /\ browser' = [browser EXCEPT ![o] = "expired"]
          /\ UNCHANGED link
    /\ UNCHANGED <<host, descriptor, row, serveRow, projFile, legacyFile, requests, applied>>

DaemonStep ==
    \/ \E a \in Addrs : \/ ServeBind(a) \/ ServeTruncate(a) \/ ServeFile(a) \/ ServeUp(a)
                        \/ ServeFailsToMint(a) \/ ServeAborts(a) \/ ServeStops(a) \/ Crash(a)
                        \/ ForeignStarts(a) \/ ForeignStops(a)
    \/ \E a \in Addrs, t \in Tokens : ServeMint(a, t)
    \/ \E q \in requests : \/ authorizeAPI(q) \/ authorizeCommand(q) \/ HandleRequest(q)
                           \/ AuthSession(q) \/ revokeCLISession(q) \/ ForeignAnswers(q)
                           \/ \E o \in Links : openToken(q, o)
    \/ \E t \in Bearers, new \in Tokens : rotateCLIToken(t, new)
    \/ \E o \in Links : exchangeOpenToken(o) \/ authLogout(o) \/ Expire(o)

=============================================================================
