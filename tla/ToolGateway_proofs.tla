------------------------- MODULE ToolGateway_proofs -------------------------
(***************************************************************************)
(* What the tool calls of a run do to its artifact and its handoff, proved *)
(* for any number of calls, payloads and contents.                         *)
(***************************************************************************)
EXTENDS ToolGateway, TLAPS

Writing(c) == calls[c].at \in {"created", "written"}

\* A call keeps to its tool, and holds bytes that fit the limit.
CallsKeepTheirTool ==
    \A c \in Calls :
       /\ calls[c].at # "idle" => calls[c].asks \in Requests
       /\ calls[c].at \in {"stated", "read", "created", "written"} => calls[c].asks = File
       /\ calls[c].at \in {"read", "created", "written"} => Fits(calls[c].bytes)
       /\ calls[c].at = "looked" => calls[c].asks \in Payloads

Whole(b)   == [bytes |-> b, whole |-> TRUE]
Partial(b) == [bytes |-> b, whole |-> FALSE]

\* The copy belongs to the one call that writes it, until there is a row.
CopyIsTheWriters ==
    \A c \in Calls :
       /\ Writing(c) => artifacts = <<>>
       /\ calls[c].at = "created" => copy = Partial(calls[c].bytes)
       /\ calls[c].at = "written" => copy = Whole(calls[c].bytes)

OneWriter == \A c, d \in Calls : Writing(c) /\ Writing(d) => c = d

\* There is no row, or one, of the copy.
RowIsTheCopys ==
    \/ artifacts = <<>>
    \/ \E b \in Contents : /\ Fits(b)
                           /\ artifacts = <<[bytes |-> b, size |-> SizeOf[b]]>>
                           /\ copy = Whole(b)

IsTrue(q, answer) ==
    /\ q \in Payloads /\ answer = "ok" => handoff = q
    /\ q \in Payloads /\ answer = "conflict" => handoff \notin {None, q}
    /\ q = File /\ answer = "ok" => artifacts # <<>>

\* An answer that has not reached the agent yet is true as well.
PendingAnswersAreTrue ==
    \A c \in Calls : calls[c].at = "done" => IsTrue(calls[c].asks, calls[c].answer)

IInv ==
    /\ ToolTypeOK
    /\ CallsKeepTheirTool
    /\ CopyIsTheWriters /\ OneWriter /\ RowIsTheCopys /\ NothingIsLeftBehind
    /\ PendingAnswersAreTrue /\ AnswersAreTrue

-----------------------------------------------------------------------------
(* Types.                                                                  *)

CallRecords ==
    [at : {"idle", "sent", "begun", "stated", "read", "created", "written", "looked", "done"},
     asks : Requests \cup {None}, bytes : Contents \cup {None},
     answer : Answers, waited : BOOLEAN]

CallsTyped == calls \in [Calls -> CallRecords]

Copies == [bytes : Contents, whole : BOOLEAN]

StoreTyped ==
    /\ copy = None \/ copy \in Copies
    /\ artifacts \in Seq([bytes : Contents, size : Nat])
    /\ handoff \in Payloads \cup {None}

RestTyped ==
    /\ serving \in BOOLEAN /\ running \in BOOLEAN /\ crashed \in BOOLEAN
    /\ source \in Contents \cup {None}
    /\ heard \subseteq Requests \X Answers

LEMMA TypeParts == ToolTypeOK <=> CallsTyped /\ StoreTyped /\ RestTyped
  BY DEF ToolTypeOK, CallsTyped, CallRecords, StoreTyped, Copies, RestTyped

LEMMA IdleRecord == Idle \in CallRecords
  BY DEF Idle, CallRecords, Answers

LEMMA SentRecord ==
  ASSUME NEW q \in Requests
  PROVE  [Idle EXCEPT !.at = "sent", !.asks = q, !.waited = TRUE] \in CallRecords
  BY DEF Idle, CallRecords, Answers

LEMMA CallsStep ==
  ASSUME CallsTyped, RestTyped, [ToolNext]_toolVars
  PROVE  CallsTyped'
<1>1. CASE Edit \/ EndRun \/ UNCHANGED toolVars
  BY <1>1 DEF Edit, EndRun, CallsTyped, toolVars
<1>2. CASE Crash \/ Restart
  BY <1>2, IdleRecord DEF Crash, Restart, CallsTyped
<1>3. ASSUME NEW c \in Calls, AgentStep(c)
      PROVE  CallsTyped'
  <2>1. CASE Send(c)
    BY <2>1, SentRecord DEF Send, CallsTyped
  <2>2. CASE GiveUp(c)
    <3>1. calls[c] \in CallRecords
      BY DEF CallsTyped
    <3>2. [calls[c] EXCEPT !.waited = FALSE] \in CallRecords
      BY <3>1 DEF CallRecords
    <3>3. calls' = [calls EXCEPT ![c] = [calls[c] EXCEPT !.waited = FALSE]]
      BY <2>2 DEF GiveUp
    <3> QED BY <3>2, <3>3 DEF CallsTyped
  <2>3. CASE Hear(c)
    BY <2>3, IdleRecord DEF Hear, CallsTyped
  <2> QED BY <1>3, <2>1, <2>2, <2>3 DEF AgentStep
<1>4. ASSUME NEW c \in Calls, CallStep(c)
      PROVE  CallsTyped'
  <2>1. ASSUME NEW from, NEW to \in {"begun", "looked", "stated", "created", "written"},
               Step(c, from, to)
        PROVE  CallsTyped'
    BY <2>1 DEF Step, CallsTyped, CallRecords
  <2>2. ASSUME NEW from, NEW answer \in Answers, Answer(c, from, answer)
        PROVE  CallsTyped'
    <3>1. calls[c] \in CallRecords
      BY DEF CallsTyped
    <3>2. [calls[c] EXCEPT !.at = "done", !.answer = answer] \in CallRecords
      BY <2>2, <3>1 DEF CallRecords
    <3>3. calls' = [calls EXCEPT ![c] = [calls[c] EXCEPT !.at = "done", !.answer = answer]]
      BY <2>2 DEF Answer
    <3> QED BY <3>2, <3>3 DEF CallsTyped
  <2>3. CASE ReadSource(c)
    <3>1. CASE Answer(c, "stated", "failed")
      BY <3>1, <2>2 DEF Answers
    <3>2. CASE calls' = [calls EXCEPT ![c].at = "read", ![c].bytes = source]
      <4>1. calls[c] \in CallRecords
        BY DEF CallsTyped
      <4>2. [calls[c] EXCEPT !.at = "read", !.bytes = source] \in CallRecords
        BY <4>1 DEF CallRecords, RestTyped
      <4> QED BY <3>2, <4>2 DEF CallsTyped
    <3> QED BY <2>3, <3>1, <3>2 DEF ReadSource
  <2>4. "ok" \in Answers /\ "failed" \in Answers /\ "conflict" \in Answers
    BY DEF Answers
  <2>5. CASE Begin(c) \/ Refuse(c) \/ LookForHandoff(c) \/ InsertHandoff(c)
    BY <2>1, <2>2, <2>4, <2>5 DEF Begin, Refuse, LookForHandoff, InsertHandoff
  <2>6. CASE StatSource(c) \/ CreateCopy(c) \/ WriteCopy(c) \/ InsertArtifact(c)
    BY <2>1, <2>2, <2>4, <2>6 DEF StatSource, CreateCopy, WriteCopy, InsertArtifact, RemoveCopy
  <2> QED BY <1>4, <2>3, <2>5, <2>6 DEF CallStep
<1> QED BY <1>1, <1>2, <1>3, <1>4 DEF ToolNext

LEMMA CopyRecords ==
  ASSUME NEW b \in Contents
  PROVE  /\ [bytes |-> b, whole |-> TRUE] \in Copies
         /\ [bytes |-> b, whole |-> FALSE] \in Copies
  BY DEF Copies

LEMMA StoreStep ==
  ASSUME CallsTyped, StoreTyped, CallsKeepTheirTool, [ToolNext]_toolVars
  PROVE  StoreTyped'
<1> USE DEF storeState
<1>1. CASE Edit \/ EndRun \/ Crash \/ Restart \/ UNCHANGED toolVars
  BY <1>1 DEF Edit, EndRun, Crash, Restart, StoreTyped, toolVars
<1>2. ASSUME NEW c \in Calls, AgentStep(c)
      PROVE  StoreTyped'
  BY <1>2 DEF AgentStep, Send, GiveUp, Hear, StoreTyped
<1>3. ASSUME NEW c \in Calls, CallStep(c)
      PROVE  StoreTyped'
  <2>1. CASE Begin(c) \/ Refuse(c) \/ LookForHandoff(c) \/ StatSource(c) \/ ReadSource(c)
    BY <2>1 DEF Begin, Refuse, LookForHandoff, StatSource, ReadSource, StoreTyped
  <2>2. CASE InsertHandoff(c)
    BY <2>2 DEF InsertHandoff, Answer, CallsKeepTheirTool, StoreTyped
  <2>3. ASSUME calls[c].at \in {"read", "created", "written"}
        PROVE  calls[c].bytes \in Contents
    BY <2>3 DEF CallsKeepTheirTool, CallsTyped, CallRecords, Fits
  <2>4. ASSUME UNCHANGED <<artifacts, handoff>>,
               copy' = None \/ (calls[c].bytes \in Contents
                                   /\ \/ copy' = [bytes |-> calls[c].bytes, whole |-> TRUE]
                                      \/ copy' = [bytes |-> calls[c].bytes, whole |-> FALSE])
        PROVE  StoreTyped'
    <3>1. copy' = None \/ copy' \in Copies
      BY <2>4, CopyRecords
    <3> QED BY <2>4, <3>1 DEF StoreTyped
  <2>5. CASE CreateCopy(c)
    BY <2>3, <2>4, <2>5 DEF CreateCopy, Copied, Step, StoreTyped
  <2>6. CASE WriteCopy(c)
    BY <2>3, <2>4, <2>6 DEF WriteCopy, RemoveCopy, Copied, Step
  <2>7. CASE InsertArtifact(c)
    <3>1. CASE RemoveCopy(c, "written")
      BY <3>1, <2>4 DEF RemoveCopy
    <3>2. CASE Answer(c, "written", "ok")
               /\ artifacts' = Append(artifacts, [bytes |-> calls[c].bytes,
                                                  size |-> SizeOf[calls[c].bytes]])
               /\ UNCHANGED <<copy, handoff>>
      BY <2>3, <3>2, ToolAssumption DEF Answer, StoreTyped
    <3> QED BY <2>7, <3>1, <3>2 DEF InsertArtifact
  <2> QED BY <1>3, <2>1, <2>2, <2>5, <2>6, <2>7 DEF CallStep
<1> QED BY <1>1, <1>2, <1>3 DEF ToolNext

LEMMA RestStep ==
  ASSUME CallsTyped, RestTyped, CallsKeepTheirTool, [ToolNext]_toolVars
  PROVE  RestTyped'
<1> USE DEF agentState, lifeState
<1>1. CASE Edit \/ EndRun \/ Crash \/ Restart \/ UNCHANGED toolVars
  BY <1>1 DEF Edit, EndRun, Crash, Restart, RestTyped, toolVars
<1>2. ASSUME NEW c \in Calls, AgentStep(c)
      PROVE  RestTyped'
  <2>1. CASE Send(c) \/ GiveUp(c)
    BY <2>1 DEF Send, GiveUp, RestTyped
  <2>2. CASE Hear(c)
    <3>1. calls[c].asks \in Requests /\ calls[c].answer \in Answers
      BY <2>2 DEF Hear, CallsTyped, CallRecords, CallsKeepTheirTool
    <3>2. heard' \subseteq Requests \X Answers
      BY <2>2, <3>1 DEF Hear, RestTyped
    <3> QED BY <2>2, <3>2 DEF Hear, RestTyped
  <2> QED BY <1>2, <2>1, <2>2 DEF AgentStep
<1>3. ASSUME NEW c \in Calls, CallStep(c)
      PROVE  RestTyped'
  <2>1. UNCHANGED <<agentState, lifeState>>
    BY <1>3 DEF CallStep, Begin, Refuse, LookForHandoff, InsertHandoff, StatSource, ReadSource,
                CreateCopy, WriteCopy, InsertArtifact, RemoveCopy, Step, Answer
  <2> QED BY <2>1 DEF RestTyped
<1> QED BY <1>1, <1>2, <1>3 DEF ToolNext

-----------------------------------------------------------------------------
(* The tool, the copy and its row.                                         *)

LEMMA StepEffect ==
  ASSUME CallsTyped, NEW c \in Calls, NEW from, NEW to, Step(c, from, to)
  PROVE  /\ calls[c].at = from /\ calls'[c].at = to
         /\ calls'[c].asks = calls[c].asks /\ calls'[c].bytes = calls[c].bytes
         /\ \A d \in Calls \ {c} : calls'[d] = calls[d]
  BY DEF Step, CallsTyped, CallRecords

LEMMA AnswerEffect ==
  ASSUME CallsTyped, NEW c \in Calls, NEW from, NEW answer, Answer(c, from, answer)
  PROVE  /\ calls[c].at = from /\ calls'[c].at = "done"
         /\ calls'[c].asks = calls[c].asks /\ calls'[c].bytes = calls[c].bytes
         /\ calls'[c].answer = answer
         /\ \A d \in Calls \ {c} : calls'[d] = calls[d]
  BY DEF Answer, CallsTyped, CallRecords

LEMMA ReadEffect ==
  ASSUME CallsTyped, NEW c \in Calls, ReadSource(c), ~Answer(c, "stated", "failed")
  PROVE  /\ calls[c].at = "stated" /\ calls'[c].at = "read"
         /\ calls'[c].asks = calls[c].asks /\ Fits(calls'[c].bytes)
         /\ \A d \in Calls \ {c} : calls'[d] = calls[d]
  BY DEF ReadSource, CallsTyped, CallRecords, Fits

LEMMA AgentEffect ==
  ASSUME CallsTyped, NEW c \in Calls, AgentStep(c)
  PROVE  /\ \/ calls[c].at = "done" /\ calls'[c].at = "idle"
            \/ calls[c].at = "idle" /\ calls'[c].at = "sent" /\ calls'[c].asks \in Requests
            \/ /\ calls'[c].at = calls[c].at /\ calls'[c].asks = calls[c].asks
               /\ calls'[c].bytes = calls[c].bytes /\ calls'[c].answer = calls[c].answer
         /\ \A d \in Calls \ {c} : calls'[d] = calls[d]
<1>1. CASE Send(c)
  BY <1>1 DEF Send, Idle, CallsTyped
<1>2. CASE GiveUp(c)
  BY <1>2 DEF GiveUp, CallsTyped, CallRecords
<1>3. CASE Hear(c)
  BY <1>3 DEF Hear, Idle, CallsTyped
<1> QED BY <1>1, <1>2, <1>3 DEF AgentStep

LEMMA KeepToolStep ==
  ASSUME CallsTyped, CallsKeepTheirTool, [ToolNext]_toolVars
  PROVE  CallsKeepTheirTool'
<1>1. CASE Edit \/ EndRun \/ UNCHANGED toolVars
  BY <1>1 DEF Edit, EndRun, toolVars, CallsKeepTheirTool, Fits
<1>2. CASE Crash \/ Restart
  BY <1>2 DEF Crash, Restart, CallsKeepTheirTool, Idle, Fits
<1>3. ASSUME NEW c \in Calls, AgentStep(c)
      PROVE  CallsKeepTheirTool'
  BY <1>3, AgentEffect DEF CallsKeepTheirTool, Fits
<1>4. ASSUME NEW c \in Calls, CallStep(c)
      PROVE  CallsKeepTheirTool'
  <2>1. CASE Begin(c) \/ Refuse(c)
    BY <2>1, StepEffect, AnswerEffect DEF Begin, Refuse, CallsKeepTheirTool, Fits
  <2>2. CASE LookForHandoff(c) \/ InsertHandoff(c)
    BY <2>2, StepEffect, AnswerEffect
       DEF LookForHandoff, InsertHandoff, Submits, CallsKeepTheirTool, Fits
  <2>3. CASE StatSource(c)
    BY <2>3, StepEffect, AnswerEffect DEF StatSource, Asks, CallsKeepTheirTool, Fits
  <2>4. CASE ReadSource(c)
    BY <2>4, ReadEffect, AnswerEffect DEF CallsKeepTheirTool, Fits
  <2>5. CASE Step(c, "read", "created") \/ Step(c, "created", "written")
    BY <2>5, StepEffect DEF CallsKeepTheirTool, Fits
  <2>6. CASE Answer(c, "read", "failed") \/ Answer(c, "created", "failed")
    BY <2>6, AnswerEffect DEF CallsKeepTheirTool, Fits
  <2>7. CASE InsertArtifact(c)
    BY <2>7, AnswerEffect DEF InsertArtifact, RemoveCopy, CallsKeepTheirTool, Fits
  <2> QED BY <1>4, <2>1, <2>2, <2>3, <2>4, <2>5, <2>6, <2>7
          DEF CallStep, CreateCopy, WriteCopy, RemoveCopy
<1> QED BY <1>1, <1>2, <1>3, <1>4 DEF ToolNext

CopyInv == CopyIsTheWriters /\ OneWriter /\ RowIsTheCopys /\ NothingIsLeftBehind

LEMMA CopyIsSomething ==
  ASSUME NEW b \in Contents
  PROVE  Whole(b) # None /\ Partial(b) # None
  BY CopyAssumption, CopyRecords DEF Whole, Partial, Copies

LEMMA WritersHaveBytes ==
  ASSUME CallsTyped, CallsKeepTheirTool, NEW c \in Calls,
         calls[c].at \in {"read", "created", "written"}
  PROVE  calls[c].bytes \in Contents /\ Fits(calls[c].bytes)
  BY DEF CallsTyped, CallRecords, CallsKeepTheirTool, Fits

\* A step that neither starts nor ends the writing of a copy.
LEMMA QuietStep ==
  ASSUME CopyInv, copy' = copy, artifacts' = artifacts, crashed' = crashed,
         \A d \in Calls : \/ calls'[d].at = calls[d].at /\ calls'[d].bytes = calls[d].bytes
                         \/ /\ calls[d].at \notin {"created", "written"}
                            /\ calls'[d].at \notin {"created", "written"}
  PROVE  CopyInv'
<1>1. \A d \in Calls : Writing(d)' <=> Writing(d)
  BY DEF Writing
<1>2. CopyIsTheWriters'
  BY <1>1 DEF CopyInv, CopyIsTheWriters, Writing
<1>3. OneWriter'
  BY <1>1 DEF CopyInv, OneWriter
<1>4. RowIsTheCopys'
  BY DEF CopyInv, RowIsTheCopys, Fits
<1>5. NothingIsLeftBehind'
  BY <1>1 DEF CopyInv, NothingIsLeftBehind, Writing
<1> QED BY <1>2, <1>3, <1>4, <1>5 DEF CopyInv

LEMMA CopyStep ==
  ASSUME CallsTyped, CallsKeepTheirTool, CopyInv, [ToolNext]_toolVars
  PROVE  CopyInv'
<1> USE DEF storeState, lifeState
<1>1. CASE Edit \/ EndRun \/ Restart \/ UNCHANGED toolVars
  BY <1>1, QuietStep DEF Edit, EndRun, Restart, toolVars
<1>2. CASE Crash
  <2>1. \A d \in Calls : calls'[d].at = "idle"
    BY <1>2 DEF Crash, Idle
  <2>2. CopyIsTheWriters' /\ OneWriter'
    BY <2>1 DEF CopyIsTheWriters, OneWriter, Writing
  <2>3. RowIsTheCopys' /\ NothingIsLeftBehind'
    BY <1>2 DEF Crash, CopyInv, RowIsTheCopys, NothingIsLeftBehind, Fits
  <2> QED BY <2>2, <2>3 DEF CopyInv
<1>3. ASSUME NEW c \in Calls, AgentStep(c)
      PROVE  CopyInv'
  <2>1. copy' = copy /\ artifacts' = artifacts /\ crashed' = crashed
    BY <1>3 DEF AgentStep, Send, GiveUp, Hear
  <2> QED BY <1>3, <2>1, AgentEffect, QuietStep DEF Writing
<1>4. ASSUME NEW c \in Calls, CallStep(c)
      PROVE  CopyInv'
  <2>1. CASE Begin(c) \/ Refuse(c) \/ LookForHandoff(c) \/ InsertHandoff(c) \/ StatSource(c)
    <3>1. copy' = copy /\ artifacts' = artifacts /\ crashed' = crashed
      BY <2>1 DEF Begin, Refuse, LookForHandoff, InsertHandoff, StatSource, Step, Answer
    <3>2. \A d \in Calls : \/ calls'[d] = calls[d]
                           \/ ~Writing(d) /\ ~(Writing(d)')
      BY <2>1, StepEffect, AnswerEffect
         DEF Begin, Refuse, LookForHandoff, InsertHandoff, StatSource, Writing
    <3> QED BY <3>1, <3>2, QuietStep DEF Writing
  <2>2. CASE ReadSource(c)
    <3>1. copy' = copy /\ artifacts' = artifacts /\ crashed' = crashed
      BY <2>2 DEF ReadSource, Answer
    <3>2. \A d \in Calls : \/ calls'[d] = calls[d]
                           \/ ~Writing(d) /\ ~(Writing(d)')
      BY <2>2, ReadEffect, AnswerEffect DEF Writing
    <3> QED BY <3>1, <3>2, QuietStep DEF Writing
  <2>3. CASE CreateCopy(c)
    <3>1. CASE Answer(c, "read", "failed") /\ UNCHANGED storeState
      <4>1. \A d \in Calls : \/ calls'[d] = calls[d]
                             \/ ~Writing(d) /\ ~(Writing(d)')
        BY <3>1, AnswerEffect DEF Writing
      <4> QED BY <3>1, <4>1, QuietStep DEF Answer, Writing
    <3>2. CASE /\ copy = None /\ Step(c, "read", "created") /\ copy' = Partial(calls[c].bytes)
               /\ UNCHANGED <<artifacts, handoff>>
      <4>1. \A d \in Calls : ~Writing(d)
        BY <3>2, WritersHaveBytes, CopyIsSomething DEF CopyInv, CopyIsTheWriters, Writing
      <4>2. artifacts = <<>>
        BY <3>2, CopyIsSomething DEF CopyInv, RowIsTheCopys
      <4>3. /\ calls'[c].at = "created" /\ calls'[c].bytes = calls[c].bytes
            /\ \A d \in Calls \ {c} : ~Writing(d)'
        BY <3>2, <4>1, StepEffect DEF Writing
      <4>4. CopyIsTheWriters' /\ OneWriter'
        BY <3>2, <4>2, <4>3 DEF CopyIsTheWriters, OneWriter, Writing
      <4>5. RowIsTheCopys' /\ NothingIsLeftBehind'
        BY <3>2, <4>2, <4>3 DEF RowIsTheCopys, NothingIsLeftBehind
      <4> QED BY <4>4, <4>5 DEF CopyInv
    <3> QED BY <2>3, <3>1, <3>2 DEF CreateCopy, Copied, Partial
  <2>4. ASSUME NEW from \in {"created", "written"}, RemoveCopy(c, from)
        PROVE  CopyInv'
    <3>1. artifacts = <<>> /\ \A d \in Calls \ {c} : ~Writing(d)
      BY <2>4, AnswerEffect DEF RemoveCopy, CopyInv, CopyIsTheWriters, OneWriter, Writing
    <3>2. \A d \in Calls : ~Writing(d)'
      BY <2>4, <3>1, AnswerEffect DEF RemoveCopy, Writing
    <3>3. CopyIsTheWriters' /\ OneWriter'
      BY <3>2 DEF CopyIsTheWriters, OneWriter, Writing
    <3>4. RowIsTheCopys' /\ NothingIsLeftBehind'
      BY <2>4, <3>1 DEF RemoveCopy, RowIsTheCopys, NothingIsLeftBehind
    <3> QED BY <3>3, <3>4 DEF CopyInv
  <2>5. CASE WriteCopy(c)
    <3>1. CASE /\ Step(c, "created", "written") /\ copy' = Whole(calls[c].bytes)
               /\ UNCHANGED <<artifacts, handoff>>
      <4>1. artifacts = <<>> /\ \A d \in Calls \ {c} : ~Writing(d)
        BY <3>1, StepEffect DEF CopyInv, CopyIsTheWriters, OneWriter, Writing
      <4>2. /\ calls'[c].at = "written" /\ calls'[c].bytes = calls[c].bytes
            /\ \A d \in Calls \ {c} : ~Writing(d)'
        BY <3>1, <4>1, StepEffect DEF Writing
      <4>3. CopyIsTheWriters' /\ OneWriter'
        BY <3>1, <4>1, <4>2 DEF CopyIsTheWriters, OneWriter, Writing
      <4>4. RowIsTheCopys' /\ NothingIsLeftBehind'
        BY <3>1, <4>1, <4>2 DEF RowIsTheCopys, NothingIsLeftBehind
      <4> QED BY <4>3, <4>4 DEF CopyInv
    <3> QED BY <2>4, <2>5, <3>1 DEF WriteCopy, Copied, Whole
  <2>6. CASE InsertArtifact(c)
    <3>1. CASE /\ Answer(c, "written", "ok") /\ UNCHANGED <<copy, handoff>>
               /\ artifacts' = Append(artifacts, [bytes |-> calls[c].bytes,
                                                  size |-> SizeOf[calls[c].bytes]])
      <4>1. artifacts = <<>> /\ copy = Whole(calls[c].bytes)
              /\ \A d \in Calls \ {c} : ~Writing(d)
        BY <3>1, AnswerEffect DEF CopyInv, CopyIsTheWriters, OneWriter, Writing
      <4>2. \A d \in Calls : ~Writing(d)'
        BY <3>1, <4>1, AnswerEffect DEF Writing
      <4>3. artifacts' = <<[bytes |-> calls[c].bytes, size |-> SizeOf[calls[c].bytes]]>>
        BY <3>1, <4>1
      <4>4. calls[c].bytes \in Contents /\ Fits(calls[c].bytes)
        BY <3>1, AnswerEffect, WritersHaveBytes
      <4>5. RowIsTheCopys'
        BY <3>1, <4>1, <4>3, <4>4 DEF RowIsTheCopys, Fits
      <4>6. CopyIsTheWriters' /\ OneWriter' /\ NothingIsLeftBehind'
        BY <4>2, <4>3 DEF CopyIsTheWriters, OneWriter, NothingIsLeftBehind, Writing
      <4> QED BY <4>5, <4>6 DEF CopyInv
    <3> QED BY <2>4, <2>6, <3>1 DEF InsertArtifact
  <2> QED BY <1>4, <2>1, <2>2, <2>3, <2>5, <2>6 DEF CallStep
<1> QED BY <1>1, <1>2, <1>3, <1>4 DEF ToolNext

-----------------------------------------------------------------------------
(* The answers.                                                            *)

AnswerInv == PendingAnswersAreTrue /\ AnswersAreTrue

\* The handoff is only ever set, and rows only added.
LEMMA AnswersKept ==
  ASSUME AnswerInv, handoff' = handoff \/ handoff = None,
         artifacts # <<>> => artifacts' # <<>>, heard' = heard,
         \A d \in Calls : calls'[d].at = "done" =>
            \/ /\ calls[d].at = "done"
               /\ calls'[d].asks = calls[d].asks /\ calls'[d].answer = calls[d].answer
            \/ IsTrue(calls[d].asks, calls[d].answer)'
  PROVE  AnswerInv'
<1>1. ASSUME NEW q, NEW answer, IsTrue(q, answer)
      PROVE  IsTrue(q, answer)'
  BY <1>1, ToolAssumption DEF IsTrue
<1>2. PendingAnswersAreTrue'
  <2> SUFFICES ASSUME NEW d \in Calls, calls'[d].at = "done"
               PROVE  IsTrue(calls[d].asks, calls[d].answer)'
    BY DEF PendingAnswersAreTrue
  <2>1. CASE /\ calls[d].at = "done"
             /\ calls'[d].asks = calls[d].asks /\ calls'[d].answer = calls[d].answer
    BY <1>1, <2>1 DEF AnswerInv, PendingAnswersAreTrue, IsTrue
  <2> QED BY <2>1
<1>3. AnswersAreTrue'
  BY ToolAssumption DEF AnswerInv, AnswersAreTrue
<1> QED BY <1>2, <1>3 DEF AnswerInv

LEMMA AnswersStep ==
  ASSUME CallsTyped, StoreTyped, CallsKeepTheirTool, AnswerInv, [ToolNext]_toolVars
  PROVE  AnswerInv'
<1> USE DEF storeState, agentState
<1>1. CASE Edit \/ EndRun \/ Restart \/ UNCHANGED toolVars
  BY <1>1, AnswersKept DEF Edit, EndRun, Restart, toolVars
<1>2. CASE Crash
  <2>1. \A d \in Calls : calls'[d].at = "idle"
    BY <1>2 DEF Crash, Idle
  <2> QED BY <1>2, <2>1, AnswersKept DEF Crash
<1>3. ASSUME NEW c \in Calls, Send(c) \/ GiveUp(c)
      PROVE  AnswerInv'
  <2>1. \A d \in Calls : calls'[d].at = "done" =>
           /\ calls[d].at = "done"
           /\ calls'[d].asks = calls[d].asks /\ calls'[d].answer = calls[d].answer
    BY <1>3, AgentEffect DEF AgentStep, Send, GiveUp
  <2> QED BY <1>3, <2>1, AnswersKept DEF Send, GiveUp
<1>4. ASSUME NEW c \in Calls, Hear(c)
      PROVE  AnswerInv'
  <2>1. IsTrue(calls[c].asks, calls[c].answer)
    BY <1>4 DEF Hear, AnswerInv, PendingAnswersAreTrue
  <2>2. AnswersAreTrue'
    BY <1>4, <2>1 DEF Hear, AnswerInv, AnswersAreTrue, IsTrue
  <2>3. \A d \in Calls : calls'[d].at = "done" => calls'[d] = calls[d]
    BY <1>4 DEF Hear, Idle, CallsTyped
  <2>4. PendingAnswersAreTrue'
    BY <1>4, <2>3 DEF Hear, AnswerInv, PendingAnswersAreTrue, IsTrue
  <2> QED BY <2>2, <2>4 DEF AnswerInv
<1>5. ASSUME NEW c \in Calls, CallStep(c)
      PROVE  AnswerInv'
  <2>1. ASSUME handoff' = handoff, artifacts # <<>> => artifacts' # <<>>, heard' = heard,
               NEW from, NEW to \in {"begun", "looked", "stated", "created", "written"},
               Step(c, from, to)
        PROVE  AnswerInv'
    <3>1. \A d \in Calls : calls'[d].at = "done" => calls'[d] = calls[d]
      BY <2>1, StepEffect
    <3> QED BY <2>1, <3>1, AnswersKept
  <2>2. ASSUME handoff' = handoff \/ handoff = None, artifacts # <<>> => artifacts' # <<>>,
               heard' = heard, NEW from, NEW answer, Answer(c, from, answer),
               IsTrue(calls[c].asks, calls[c].answer)'
        PROVE  AnswerInv'
    <3>1. \A d \in Calls \ {c} : calls'[d] = calls[d]
      BY <2>2, AnswerEffect
    <3> QED BY <2>2, <3>1, AnswersKept
  <2>3. ASSUME handoff' = handoff, artifacts' = artifacts, heard' = heard,
               NEW from, Answer(c, from, "failed")
        PROVE  AnswerInv'
    <3>1. IsTrue(calls[c].asks, calls[c].answer)'
      BY <2>3, AnswerEffect DEF IsTrue
    <3> QED BY <2>2, <2>3, <3>1
  <2>4. CASE Begin(c) \/ Refuse(c) \/ StatSource(c)
    BY <2>1, <2>3, <2>4 DEF Begin, Refuse, StatSource, Step, Answer
  <2>5. CASE LookForHandoff(c)
    <3>1. CASE \/ Answer(c, "begun", "ok") /\ handoff = calls[c].asks
               \/ Answer(c, "begun", "conflict") /\ handoff \notin {None, calls[c].asks}
      <4>1. IsTrue(calls[c].asks, calls[c].answer)'
        BY <2>5, <3>1, AnswerEffect, ToolAssumption DEF LookForHandoff, Submits, IsTrue
      <4> QED BY <2>2, <2>5, <3>1, <4>1 DEF LookForHandoff, Answer
    <3> QED BY <2>1, <2>3, <2>5, <3>1 DEF LookForHandoff, Step, Answer
  <2>6. CASE InsertHandoff(c)
    <3>1. ASSUME NEW answer \in {"ok", "failed"}, handoff = None, Answer(c, "looked", answer),
                 handoff' = calls[c].asks, UNCHANGED <<copy, artifacts>>
          PROVE  AnswerInv'
      <4>1. IsTrue(calls[c].asks, calls[c].answer)'
        BY <3>1, AnswerEffect, ToolAssumption DEF CallsKeepTheirTool, IsTrue
      <4> QED BY <2>2, <3>1, <4>1 DEF Answer
    <3> QED BY <2>3, <2>6, <3>1 DEF InsertHandoff, Answer
  <2>7. CASE ReadSource(c)
    <3>1. CASE ~Answer(c, "stated", "failed")
      <4>1. \A d \in Calls : calls'[d].at = "done" => calls'[d] = calls[d]
        BY <2>7, <3>1, ReadEffect
      <4> QED BY <2>7, <3>1, <4>1, AnswersKept DEF ReadSource
    <3> QED BY <2>3, <2>7, <3>1 DEF ReadSource, Answer
  <2>8. CASE CreateCopy(c) \/ WriteCopy(c)
    BY <2>1, <2>3, <2>8 DEF CreateCopy, WriteCopy, RemoveCopy, Step, Answer
  <2>9. CASE InsertArtifact(c)
    <3>1. CASE /\ Answer(c, "written", "ok") /\ UNCHANGED <<copy, handoff>>
               /\ artifacts' = Append(artifacts, [bytes |-> calls[c].bytes,
                                                  size |-> SizeOf[calls[c].bytes]])
      <4>1. artifacts' # <<>>
        BY <3>1 DEF StoreTyped
      <4>2. calls[c].asks = File
        BY <3>1 DEF Answer, CallsKeepTheirTool
      <4>3. IsTrue(calls[c].asks, calls[c].answer)'
        BY <3>1, <4>1, <4>2, AnswerEffect, ToolAssumption DEF IsTrue
      <4> QED BY <2>2, <3>1, <4>1, <4>3 DEF Answer
    <3> QED BY <2>3, <2>9, <3>1 DEF InsertArtifact, RemoveCopy, Answer
  <2> QED BY <1>5, <2>4, <2>5, <2>6, <2>7, <2>8, <2>9 DEF CallStep
<1> QED BY <1>1, <1>2, <1>3, <1>4, <1>5 DEF ToolNext, AgentStep

-----------------------------------------------------------------------------
(* The theorems.                                                           *)

LEMMA InitHolds == ToolInit => IInv
<1> SUFFICES ASSUME ToolInit
             PROVE  IInv
  OBVIOUS
<1>1. \A c \in Calls : calls[c].at = "idle"
  BY DEF ToolInit, Idle
<1>2. CallsTyped
  BY IdleRecord DEF ToolInit, CallsTyped
<1>3. StoreTyped /\ RestTyped
  <2>1. StoreTyped
    BY DEF ToolInit, StoreTyped
  <2>2. heard \subseteq Requests \X Answers
    BY DEF ToolInit
  <2> QED BY <2>1, <2>2 DEF ToolInit, RestTyped
<1>4. CallsKeepTheirTool /\ CopyIsTheWriters /\ OneWriter /\ PendingAnswersAreTrue
  BY <1>1 DEF CallsKeepTheirTool, CopyIsTheWriters, OneWriter, PendingAnswersAreTrue, Writing
<1>5. RowIsTheCopys /\ NothingIsLeftBehind /\ AnswersAreTrue
  BY DEF ToolInit, RowIsTheCopys, NothingIsLeftBehind, AnswersAreTrue
<1> QED BY <1>2, <1>3, <1>4, <1>5, TypeParts DEF IInv

LEMMA NextKeeps == IInv /\ [ToolNext]_toolVars => IInv'
<1> SUFFICES ASSUME IInv, [ToolNext]_toolVars
             PROVE  IInv'
  OBVIOUS
<1>1. CallsTyped /\ StoreTyped /\ RestTyped /\ CallsKeepTheirTool /\ CopyInv /\ AnswerInv
  BY TypeParts DEF IInv, CopyInv, AnswerInv
<1>2. CallsTyped'
  BY <1>1, CallsStep
<1>3. StoreTyped'
  BY <1>1, StoreStep
<1>4. RestTyped'
  BY <1>1, RestStep
<1>5. CallsKeepTheirTool'
  BY <1>1, KeepToolStep
<1>6. CopyInv'
  BY <1>1, CopyStep
<1>7. AnswerInv'
  BY <1>1, AnswersStep
<1>8. ToolTypeOK'
  BY <1>2, <1>3, <1>4, TypeParts, PTL
<1> QED BY <1>5, <1>6, <1>7, <1>8 DEF IInv, CopyInv, AnswerInv

\* The calls keep their types and their tools; the copy is the one writer's or its
\* row's; no answer given is false.
THEOREM ToolInvariance == ToolSpec => []IInv
  BY InitHolds, NextKeeps, PTL DEF ToolSpec

\* The variables of calls, copy, rows and handoff keep their types.
THEOREM ToolTypeCorrect == ToolSpec => []ToolTypeOK
<1>1. IInv => ToolTypeOK
  BY DEF IInv
<1> QED BY <1>1, ToolInvariance, PTL

\* artifact.attach: an artifact's row describes the whole file that is there, however
\* many calls attach it and whatever the agent writes meanwhile.
THEOREM RowsDescribeFiles == ToolSpec => []ArtifactsAreWhole
<1>1. RowIsTheCopys => ArtifactsAreWhole
  <2> SUFFICES ASSUME RowIsTheCopys, artifacts # <<>>
               PROVE  ArtifactsAreWhole
    BY DEF ArtifactsAreWhole
  <2>1. PICK b \in Contents : /\ Fits(b)
                             /\ artifacts = <<[bytes |-> b, size |-> SizeOf[b]]>>
                             /\ copy = Whole(b)
    BY DEF RowIsTheCopys
  <2>2. Len(artifacts) = 1 /\ DOMAIN artifacts = 1..1
    BY <2>1
  <2>3. artifacts[1].bytes = b /\ artifacts[1].size = SizeOf[b] /\ copy.bytes = b
    BY <2>1 DEF Whole
  <2>4. ASSUME NEW i \in DOMAIN artifacts
        PROVE  i = 1
    BY <2>2, <2>4
  <2>5. copy = Whole(artifacts[1].bytes)
    BY <2>1, <2>3
  <2>6. artifacts[1].size = SizeOf[copy.bytes] /\ artifacts[1].size <= MaxBytes
    BY <2>1, <2>3 DEF Fits
  <2> QED BY <2>2, <2>4, <2>5, <2>6 DEF ArtifactsAreWhole, Whole
<1>2. IInv => ArtifactsAreWhole
  BY <1>1 DEF IInv
<1> QED BY <1>2, ToolInvariance, PTL

\* artifact.attach: unless the daemon dies, a call that fails leaves no file.
THEOREM FailedCallsCleanUp == ToolSpec => []NothingIsLeftBehind
<1>1. IInv => NothingIsLeftBehind
  BY DEF IInv
<1> QED BY <1>1, ToolInvariance, PTL

\* handoff.submit and artifact.attach: what the agent was told stays true.
THEOREM AnswersStayTrue == ToolSpec => []AnswersAreTrue
<1>1. IInv => AnswersAreTrue
  BY DEF IInv
<1> QED BY <1>1, ToolInvariance, PTL

=============================================================================
