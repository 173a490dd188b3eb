---------------------------- MODULE ToolGateway ----------------------------
(***************************************************************************)
(* The tool calls of one run as they interleave in the daemon              *)
(* (internal/toolgateway/toolgateway.go): handoff.submit, which reads and  *)
(* then inserts, and artifact.attach, which copies a file of the workspace *)
(* in several steps before its row is inserted.                            *)
(*                                                                         *)
(* RunWorker takes a call as validation and one transaction and asks what  *)
(* it does to the run.  Here the run only ends, and the steps inside a     *)
(* call are what matters: the agent edits its files meanwhile, gives up    *)
(* after 30 seconds and calls again, the database and the disk fail, and   *)
(* the daemon dies.                                                        *)
(***************************************************************************)
EXTENDS Naturals, Sequences, SequencesExt

CONSTANTS
    Calls,          \* bound: calls in flight, those the agent gave up on included
    Payloads,       \* handoffs the agent may submit, by their hash
    File,           \* the path it attaches
    Contents,       \* what the agent may write to it
    SizeOf,         \* their size
    MaxBytes,       \* artifact_max_bytes of the token's scope
    None

ASSUME ToolAssumption ==
    /\ File \notin Payloads
    /\ None \notin Payloads \cup Contents
    /\ SizeOf \in [Contents -> Nat] /\ MaxBytes \in Nat

ASSUME CopyAssumption == None \notin [bytes : Contents, whole : BOOLEAN]

VARIABLES
    serving,        \* the daemon is up
    running,        \* the run is running, so that its token is valid
    source,         \* the file in the workspace, or None
    calls,          \* the calls and their handlers
    copy,           \* the file under .symphony/artifacts, or None
    artifacts,      \* its rows
    handoff,        \* the run's handoff, or None
    heard,          \* observation: the answers that reached the agent
    crashed         \* observation: the daemon died

toolVars == <<serving, running, source, calls, copy, artifacts, handoff, heard, crashed>>

agentState == <<source, heard>>
storeState == <<copy, artifacts, handoff>>
lifeState  == <<serving, running, crashed>>

Requests == Payloads \cup {File}
Answers == {"ok", "conflict", "failed"}

Idle == [at |-> "idle", asks |-> None, bytes |-> None, answer |-> "failed", waited |-> FALSE]

ToolTypeOK ==
    /\ serving \in BOOLEAN /\ running \in BOOLEAN /\ crashed \in BOOLEAN
    /\ source \in Contents \cup {None}
    /\ calls \in [Calls ->
          [at : {"idle", "sent", "begun", "stated", "read", "created", "written", "looked", "done"},
           asks : Requests \cup {None}, bytes : Contents \cup {None},
           answer : Answers, waited : BOOLEAN]]
    /\ copy = None \/ copy \in [bytes : Contents, whole : BOOLEAN]
    /\ artifacts \in Seq([bytes : Contents, size : Nat])
    /\ handoff \in Payloads \cup {None}
    /\ heard \subseteq Requests \X Answers

ToolInit ==
    /\ serving = TRUE /\ running = TRUE /\ crashed = FALSE
    /\ source = None
    /\ calls = [c \in Calls |-> Idle]
    /\ copy = None
    /\ artifacts = <<>>
    /\ handoff = None
    /\ heard = {}

-----------------------------------------------------------------------------
(* The agent.                                                              *)

Edit ==
    /\ source' \in Contents \cup {None}
    /\ UNCHANGED <<calls, heard, storeState, lifeState>>

\* cmdTool and HTTPClientCall.  The agent makes the same call again whenever it likes.
Send(c) ==
    /\ serving /\ calls[c].at = "idle"
    /\ \E q \in Requests :
          calls' = [calls EXCEPT ![c] = [Idle EXCEPT !.at = "sent", !.asks = q, !.waited = TRUE]]
    /\ UNCHANGED <<agentState, storeState, lifeState>>

\* The client's 30 seconds are over; the handler goes on.
GiveUp(c) ==
    /\ calls[c].waited
    /\ calls' = [calls EXCEPT ![c].waited = FALSE]
    /\ UNCHANGED <<agentState, storeState, lifeState>>

Hear(c) ==
    /\ calls[c].at = "done"
    /\ heard' = IF calls[c].waited THEN heard \cup {<<calls[c].asks, calls[c].answer>>} ELSE heard
    /\ calls' = [calls EXCEPT ![c] = Idle]
    /\ UNCHANGED <<source, storeState, lifeState>>

-----------------------------------------------------------------------------
(* Call.                                                                   *)

Step(c, from, to) ==
    /\ calls[c].at = from
    /\ calls' = [calls EXCEPT ![c].at = to]
    /\ UNCHANGED <<agentState, lifeState>>

Answer(c, from, answer) ==
    /\ calls[c].at = from
    /\ calls' = [calls EXCEPT ![c].at = "done", ![c].answer = answer]
    /\ UNCHANGED <<agentState, lifeState>>

\* ValidateToolTokenWithScope, the issue, scope, input and working directory; then the
\* "started" record.
Begin(c) == running /\ Step(c, "sent", "begun") /\ UNCHANGED storeState

\* The token has expired or been revoked, the run is over, or a check fails.
Refuse(c) == Answer(c, "sent", "failed") /\ UNCHANGED storeState

Asks(c, q) == calls[c].asks = q

(* handoff.submit: InsertHandoff.                                          *)

Submits(c) == calls[c].asks \in Payloads

LookForHandoff(c) ==
    /\ Submits(c)
    /\ \/ handoff = None /\ Step(c, "begun", "looked")
       \/ handoff = calls[c].asks /\ Answer(c, "begun", "ok")
       \/ handoff \notin {None, calls[c].asks} /\ Answer(c, "begun", "conflict")
       \/ Answer(c, "begun", "failed")
    /\ UNCHANGED storeState

\* Mutant: INSERT OR REPLACE.
InsertOrReplaceHandoff(c) ==
    \/ /\ Answer(c, "looked", "ok")
       /\ handoff' = calls[c].asks
       /\ UNCHANGED <<copy, artifacts>>
    \/ Answer(c, "looked", "failed") /\ UNCHANGED storeState

\* run_id is unique: of two calls that both found no handoff the second fails, even if
\* it submits the same payload.  A handoff that is in fails too if it cannot be read back.
InsertHandoff(c) ==
    \/ /\ handoff = None
       /\ Answer(c, "looked", "ok") \/ Answer(c, "looked", "failed")
       /\ handoff' = calls[c].asks
       /\ UNCHANGED <<copy, artifacts>>
    \/ Answer(c, "looked", "failed") /\ UNCHANGED storeState

(* artifact.attach.                                                        *)

Fits(bytes) == bytes # None /\ SizeOf[bytes] <= MaxBytes

StatSource(c) ==
    /\ Asks(c, File)
    /\ \/ Fits(source) /\ Step(c, "begun", "stated")
       \/ Answer(c, "begun", "failed")
    /\ UNCHANGED storeState

\* Mutant: the size is not checked again.
ReadUnchecked(c) ==
    /\ \/ /\ source # None
          /\ calls[c].at = "stated"
          /\ calls' = [calls EXCEPT ![c].at = "read", ![c].bytes = source]
          /\ UNCHANGED <<agentState, lifeState>>
       \/ Answer(c, "stated", "failed")
    /\ UNCHANGED storeState

\* The agent may have written the file since.
ReadSource(c) ==
    /\ \/ /\ Fits(source)
          /\ calls[c].at = "stated"
          /\ calls' = [calls EXCEPT ![c].at = "read", ![c].bytes = source]
          /\ UNCHANGED <<agentState, lifeState>>
       \/ Answer(c, "stated", "failed")
    /\ UNCHANGED storeState

Copied(c, complete) == copy' = [bytes |-> calls[c].bytes, whole |-> complete]

\* O_EXCL: a path of the run is attached once.
CreateCopy(c) ==
    \/ /\ copy = None
       /\ Step(c, "read", "created") /\ Copied(c, FALSE)
       /\ UNCHANGED <<artifacts, handoff>>
    \/ Answer(c, "read", "failed") /\ UNCHANGED storeState

\* Mutant: os.Remove is forgotten.
KeepCopy(c, from) == Answer(c, from, "failed") /\ UNCHANGED storeState

\* A failed call removes the file it created; os.Remove is assumed to succeed.
RemoveCopy(c, from) ==
    /\ Answer(c, from, "failed")
    /\ copy' = None
    /\ UNCHANGED <<artifacts, handoff>>

WriteCopy(c) ==
    \/ Step(c, "created", "written") /\ Copied(c, TRUE) /\ UNCHANGED <<artifacts, handoff>>
    \/ RemoveCopy(c, "created")

\* The description is checked here and the row inserted.
InsertArtifact(c) ==
    \/ /\ Answer(c, "written", "ok")
       /\ artifacts' = Append(artifacts, [bytes |-> calls[c].bytes,
                                          size |-> SizeOf[calls[c].bytes]])
       /\ UNCHANGED <<copy, handoff>>
    \/ RemoveCopy(c, "written")

-----------------------------------------------------------------------------
(* The run and the daemon.                                                 *)

EndRun ==
    /\ running
    /\ running' = FALSE
    /\ UNCHANGED <<serving, crashed, calls, agentState, storeState>>

Crash ==
    /\ serving
    /\ serving' = FALSE /\ crashed' = TRUE
    /\ calls' = [c \in Calls |-> Idle]
    /\ UNCHANGED <<running, agentState, storeState>>

\* Startup ends the runs it finds.
Restart ==
    /\ ~serving
    /\ serving' = TRUE /\ running' = FALSE
    /\ UNCHANGED <<crashed, calls, agentState, storeState>>

AgentStep(c) == Send(c) \/ GiveUp(c) \/ Hear(c)

CallStep(c) ==
    \/ Begin(c) \/ Refuse(c)
    \/ LookForHandoff(c) \/ InsertHandoff(c)
    \/ StatSource(c) \/ ReadSource(c) \/ CreateCopy(c) \/ WriteCopy(c) \/ InsertArtifact(c)

ToolNext ==
    \/ Edit \/ EndRun \/ Crash \/ Restart
    \/ \E c \in Calls : AgentStep(c) \/ CallStep(c)

ToolSpec == ToolInit /\ [][ToolNext]_toolVars

-----------------------------------------------------------------------------
(* Properties.                                                             *)

\* An artifact's row describes the file that is there: written to the end, with the
\* content and size the row has and within the limit, whatever the agent did to its own
\* file meanwhile and however many calls attach it at once.  A path has one row.
ArtifactsAreWhole ==
    /\ Len(artifacts) <= 1
    /\ \A i \in DOMAIN artifacts :
          /\ copy = [bytes |-> artifacts[i].bytes, whole |-> TRUE]
          /\ artifacts[i].size = SizeOf[copy.bytes] /\ artifacts[i].size <= MaxBytes

\* A file without a row belongs to a call that is still at work, or was left by a
\* daemon that died: a call that fails takes back what it has written.
NothingIsLeftBehind ==
    (copy # None /\ artifacts = <<>> /\ ~crashed)
        => \E c \in Calls : calls[c].at \in {"created", "written"}

\* What the agent was told stays true: the handoff it heard accepted is the run's, the
\* one it heard refused for another is not, and an artifact it heard attached is.
AnswersAreTrue ==
    /\ \A p \in Payloads :
          /\ <<p, "ok">> \in heard => handoff = p
          /\ <<p, "conflict">> \in heard => handoff \notin {None, p}
    /\ <<File, "ok">> \in heard => artifacts # <<>>

=============================================================================
