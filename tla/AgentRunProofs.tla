---------------------------- MODULE AgentRunProofs ----------------------------
(***************************************************************************)
(* Proofs about AgentRun, for every set of runs and sessions, turns of any *)
(* length and any number of crashes and sign-outs, on the server and in    *)
(* the page; and about Chat, which drives AgentRun from the page, for any  *)
(* number of sign-ins, sign-outs and unloaded pages.                       *)
(***************************************************************************)
EXTENDS Chat, FiniteSetTheorems, SequenceTheorems, TLAPS

Stage == {"off", "return", "resolve", "presolve", "psleep", "pcomplete", "get", "shared",
          "create", "user", "model", "answered", "append", "close", "fail"}

Execution == [pc : Stage, pos : Nat, turn : Nat, said : {""} \cup Answers,
              yielded : BOOLEAN, res : {""} \cup Outputs \cup Errors]

Name == {"resolveAgent", "session.Get", "session.SharedState", "session.Create",
         "session.AppendEvent", "model", "DBOS.closeStream", "DBOS.sleep", "completeRun"}

Out == {"ok", "err", "digest", "closure", "absent", "found", "created", "exists"} \cup Answers

Entry == [step : Name, out : Out]

Kind == {"user", "model", "coded", "error"}

Event == [s : Sessions, kind : Kind, id : {"user", "model", "error"} \X (Workflows \cup Sessions) \X Nat \X Nat,
          w : Workflows]

\* The types of what a run's steps change.
TypeInv ==
    /\ RunTypeOK
    /\ log \in [Workflows -> Seq(Entry)]
    /\ run \in [Workflows -> Execution]
    /\ events \in Seq(Event)
    /\ billed \in [Workflows -> Nat] /\ lost \in [Workflows -> Nat]
    /\ crashes \in Nat /\ signouts \in Nat

Closing(e) == e.step = "DBOS.closeStream"

\* Where an execution of w can stand in the log: an answer in hand is at its end,
\* nothing but the end follows the close of the stream, and a closed stream has a
\* checkpoint that says so.
PlaceInv(w) ==
    /\ run[w].pc = "answered" => ~Replaying(w) /\ run[w].said \in Answers
    /\ run[w].pc \notin {"off", "return"} /\ run[w].pos > 0 => ~Closing(log[w][run[w].pos])
    /\ run[w].pc = "off" => run[w] = Off
    /\ \A i \in DOMAIN log[w] : Closing(log[w][i]) => i = Len(log[w])
    /\ stream[w] = "closed" => \E i \in DOMAIN log[w] : Closing(log[w][i])

RunInv ==
    /\ TypeInv
    /\ \A w \in Workflows : PlaceInv(w)
    /\ NoRebilledGeneration

Active(w) == up /\ run[w].pc \notin {"off", "return"}

\* What all checkpointed steps of a run have in common.
Checkpoint(w, name, out, r) ==
    /\ RunAsStep(w, name, out)
    /\ run' = [run EXCEPT ![w] = r]
    /\ r.pc \notin {"off", "answered"}
    /\ r.pos = run[w].pos + 1 \/ (r.pc = "return" /\ r.pos = run[w].pos)
    /\ name = "DBOS.closeStream" => r.pc = "return"
    /\ run[w].pc = "answered" => name = "model" /\ out = run[w].said
    /\ name = "model" => run[w].pc = "answered" \/ Replaying(w)
    /\ \/ UNCHANGED stream
       \/ name = "DBOS.closeStream" /\ stream' = [stream EXCEPT ![w] = "closed"]

StepTaken(w) ==
    /\ Active(w)
    /\ \E name \in Name, out \in Out, r \in Execution : Checkpoint(w, name, out, r)
    /\ rows' \in SUBSET Sessions /\ rows \subseteq rows'
    /\ \/ UNCHANGED events
       \/ \E e \in Event : e.s \in rows /\ events' = Append(events, e)
    /\ UNCHANGED <<outside, billed, lost>>

-----------------------------------------------------------------------------
(* Every checkpointed step is one of these.                                *)

LEMMA ExecutionOf ==
    ASSUME RunInv, NEW w \in Workflows
    PROVE  /\ run[w] \in Execution /\ run \in [Workflows -> Execution]
           /\ run[w].pos \in Nat /\ run[w].pos + 1 \in Nat
<1>1. run[w] \in Execution /\ run \in [Workflows -> Execution]
  BY DEF RunInv, TypeInv
<1>2. run[w].pos \in Nat
  BY <1>1 DEF Execution
<1> QED
  BY <1>1, <1>2

LEMMA ZeroIsLeast == \A m, n \in Nat : n = 0 => n <= m /\ ~(n > 0)
OBVIOUS

LEMMA OffType == Off \in Execution /\ Off.pc = "off" /\ Off.pos = 0
<1>1. Off \in Execution
  BY DEF Off, Execution, Stage
<1>2. Off.pc = "off"
  BY DEF Off
<1>3. Off.pos = 0
  BY DEF Off
<1> QED
  BY <1>1, <1>2, <1>3

LEMMA LogType ==
    ASSUME RunInv, NEW w \in Workflows
    PROVE  log[w] \in Seq(Entry) /\ Len(log[w]) \in Nat
<1>1. log[w] \in Seq(Entry)
  BY DEF RunInv, TypeInv
<1> QED
  BY <1>1

\* A step that goes on to another, or returns.
LEMMA GoesOn ==
    ASSUME RunInv, NEW w \in Workflows, NEW name \in Name, NEW out \in Out,
           RunAsStep(w, name, out),
           NEW pc \in Stage \ {"off", "answered"}, Goto(w, pc),
           name \notin {"DBOS.closeStream", "model"}, run[w].pc # "answered",
           UNCHANGED stream
    PROVE  \E r \in Execution : Checkpoint(w, name, out, r)
<1> DEFINE r == [run[w] EXCEPT !.pc = pc, !.pos = @ + 1]
<1>0. run[w] \in Execution
  BY ExecutionOf
<1>1. r \in Execution /\ r.pc = pc /\ r.pos = run[w].pos + 1
  BY <1>0, ExecutionOf DEF Execution
<1>2. run' = [run EXCEPT ![w] = r]
  BY ExecutionOf DEF Goto, Execution
<1> HIDE DEF r
<1> QED
  BY <1>1, <1>2 DEF Checkpoint

LEMMA Returns ==
    ASSUME RunInv, NEW w \in Workflows, NEW name \in Name, NEW out \in Out,
           RunAsStep(w, name, out),
           NEW res \in Outputs \cup Errors, Return(w, res),
           name # "model", run[w].pc # "answered",
           \/ UNCHANGED stream
           \/ name = "DBOS.closeStream" /\ stream' = [stream EXCEPT ![w] = "closed"]
    PROVE  \E r \in Execution : Checkpoint(w, name, out, r)
<1> DEFINE r == [run[w] EXCEPT !.pc = "return", !.res = res]
<1>1. r \in Execution /\ r.pc = "return" /\ r.pos = run[w].pos
  BY ExecutionOf DEF Execution, Stage
<1>2. run' = [run EXCEPT ![w] = r]
  BY ExecutionOf DEF Return, Execution
<1> HIDE DEF r
<1> QED
  BY <1>1, <1>2 DEF Checkpoint

LEMMA ProbeTakesStep ==
    ASSUME RunInv, NEW w \in Workflows, durabilityOnlyRun(w)
    PROVE  StepTaken(w)
<1>1. /\ Active(w) /\ UNCHANGED <<outside, rows, events, stream, billed, lost>>
      /\ run[w].pc # "answered"
  BY DEF durabilityOnlyRun, Active, At
<1>2. rows' \in SUBSET Sessions
  BY <1>1 DEF RunInv, TypeInv, RunTypeOK
<1>3. \E name \in Name, out \in Out, r \in Execution : Checkpoint(w, name, out, r)
  <2>1. CASE RunAsStep(w, "resolveAgent", "digest") /\ Goto(w, "psleep")
    BY <1>1, <2>1, GoesOn DEF Stage, Name, Out
  <2>2. CASE RunAsStep(w, "resolveAgent", "absent") /\ Return(w, "resolve")
    BY <1>1, <2>2, Returns DEF Errors, Name, Out
  <2>3. CASE RunAsStep(w, "DBOS.sleep", "ok") /\ Goto(w, "pcomplete")
    BY <1>1, <2>3, GoesOn DEF Stage, Name, Out
  <2>4. CASE RunAsStep(w, "completeRun", "ok") /\ Return(w, "SUCCESS")
    BY <1>1, <2>4, Returns DEF Outputs, Name, Out
  <2> QED
    BY <2>1, <2>2, <2>3, <2>4 DEF durabilityOnlyRun
<1> QED
  BY <1>1, <1>2, <1>3 DEF StepTaken

LEMMA ResolveTakesStep ==
    ASSUME RunInv, NEW w \in Workflows, resolveAgent(w)
    PROVE  StepTaken(w)
<1>1. /\ Active(w) /\ UNCHANGED <<outside, rows, events, stream, billed, lost>>
      /\ run[w].pc # "answered"
  BY DEF resolveAgent, Active, At
<1>2. rows' \in SUBSET Sessions
  BY <1>1 DEF RunInv, TypeInv, RunTypeOK
<1>3. PICK out \in {"closure", "absent"} :
        RunAsStep(w, "resolveAgent", out) /\ (Goto(w, "get") \/ Return(w, "resolve"))
  BY DEF resolveAgent, resolveAgentClosure, buildRunner
<1>4. \E r \in Execution : Checkpoint(w, "resolveAgent", out, r)
  <2>1. CASE Goto(w, "get")
    BY <1>1, <1>3, <2>1, GoesOn DEF Stage, Name, Out
  <2>2. CASE Return(w, "resolve")
    BY <1>1, <1>3, <2>2, Returns DEF Errors, Name, Out
  <2> QED
    BY <1>3, <2>1, <2>2
<1>5. "resolveAgent" \in Name /\ out \in Out
  BY DEF Name, Out
<1> QED
  BY <1>1, <1>2, <1>4, <1>5 DEF StepTaken

LEMMA GetTakesStep ==
    ASSUME RunInv, NEW w \in Workflows, GetSession(w) \/ GetSharedState(w)
    PROVE  StepTaken(w)
<1>1. /\ Active(w) /\ UNCHANGED <<outside, rows, events, stream, billed, lost>>
      /\ run[w].pc # "answered"
  BY DEF GetSession, GetSharedState, Active, At
<1>2. rows' \in SUBSET Sessions
  BY <1>1 DEF RunInv, TypeInv, RunTypeOK
<1>3. PICK name \in {"session.Get", "session.SharedState"}, out \in Out,
           pc \in {"shared", "create", "user", "fail"} : RunAsStep(w, name, out) /\ Goto(w, pc)
  BY DEF GetSession, GetSharedState, Out
<1>4. \E r \in Execution : Checkpoint(w, name, out, r)
  BY <1>1, <1>3, GoesOn DEF Stage, Name
<1>5. name \in Name
  BY DEF Name
<1> QED
  BY <1>1, <1>2, <1>4, <1>5 DEF StepTaken

LEMMA CreateTakesStep ==
    ASSUME RunInv, NEW w \in Workflows, CreateSession(w)
    PROVE  StepTaken(w)
<1>1. /\ Active(w) /\ UNCHANGED <<outside, events, stream, billed, lost>>
      /\ run[w].pc # "answered"
  BY DEF CreateSession, Active, At
<1>2. rows' \in SUBSET Sessions /\ rows \subseteq rows'
  BY RunAssumption DEF CreateSession, RunInv, TypeInv, RunTypeOK
<1>3. PICK out \in {"created", "exists"}, pc \in {"get", "fail"} :
        RunAsStep(w, "session.Create", out) /\ Goto(w, pc)
  BY DEF CreateSession
<1>4. "session.Create" \in Name /\ out \in Out
  BY DEF Name, Out
<1>5. \E r \in Execution : Checkpoint(w, "session.Create", out, r)
  BY <1>1, <1>3, <1>4, GoesOn DEF Stage
<1> QED
  BY <1>1, <1>2, <1>4, <1>5 DEF StepTaken

\* An append adds its event, of a session that exists, or nothing.
LEMMA AppendStores ==
    ASSUME RunInv, NEW w \in Workflows, NEW e \in Event, e.s = SessionOf[w],
           NEW out \in {"ok", "err"}, AppendEvent(w, e, out)
    PROVE  /\ RunAsStep(w, "session.AppendEvent", out)
           /\ \/ UNCHANGED events
              \/ e.s \in rows /\ events' = Append(events, e)
<1>1. RunAsStep(w, "session.AppendEvent", out)
  BY DEF AppendEvent
<1>2. CASE Replaying(w) \/ out # "ok"
  BY <1>1, <1>2 DEF AppendEvent
<1>3. CASE ~Replaying(w) /\ out = "ok"
  <2>1. e.s \in rows
    BY <1>3 DEF AppendEvent, Stored
  <2>2. events' = events \/ events' = Append(events, e)
    BY <1>3 DEF AppendEvent, Appended
  <2> QED
    BY <1>1, <2>1, <2>2
<1> QED
  BY <1>2, <1>3

LEMMA NewEventType ==
    ASSUME RunInv, NEW w \in Workflows, NEW kind \in Kind,
           NEW id \in {"user", "model", "error"} \X (Workflows \cup Sessions) \X Nat \X Nat
    PROVE  NewEvent(w, kind, id) \in Event /\ NewEvent(w, kind, id).s = SessionOf[w]
BY RunAssumption DEF NewEvent, Event

LEMMA DrawnType ==
    ASSUME RunInv, NEW w \in Workflows, NEW kind \in {"user", "model", "error"}
    PROVE  Drawn(w, kind) \in {"user", "model", "error"} \X (Workflows \cup Sessions) \X Nat \X Nat
<1>1. run[w].turn \in Nat /\ crashes \in Nat
  BY ExecutionOf DEF Execution, RunInv, TypeInv
<1> QED
  BY <1>1 DEF Drawn

LEMMA UserTakesStep ==
    ASSUME RunInv, NEW w \in Workflows, AppendUserMessage(w)
    PROVE  StepTaken(w)
<1> DEFINE e == NewEvent(w, "user", Drawn(w, "user"))
<1>1. /\ Active(w) /\ UNCHANGED <<outside, rows, stream, billed, lost>>
      /\ run[w].pc # "answered"
  BY DEF AppendUserMessage, Active, At
<1>2. rows' \in SUBSET Sessions
  BY <1>1 DEF RunInv, TypeInv, RunTypeOK
<1>3. e \in Event /\ e.s = SessionOf[w]
  BY DrawnType, NewEventType DEF Kind
<1>4. PICK out \in {"ok", "err"}, pc \in {"model", "fail"} : AppendEvent(w, e, out) /\ Goto(w, pc)
  BY DEF AppendUserMessage
<1> HIDE DEF e
<1>5. /\ RunAsStep(w, "session.AppendEvent", out)
      /\ events' = events \/ (e.s \in rows /\ events' = Append(events, e))
  BY <1>3, <1>4, AppendStores
<1>6. "session.AppendEvent" \in Name /\ out \in Out
  BY DEF Name, Out
<1>7. \E r \in Execution : Checkpoint(w, "session.AppendEvent", out, r)
  BY <1>1, <1>4, <1>5, <1>6, GoesOn DEF Stage
<1> QED
  BY <1>1, <1>2, <1>3, <1>5, <1>6, <1>7 DEF StepTaken

LEMMA FailureTakesStep ==
    ASSUME RunInv, NEW w \in Workflows, recordTurnFailure(w)
    PROVE  StepTaken(w)
<1> DEFINE e == NewEvent(w, "error", FailureId(w))
<1>1. /\ Active(w) /\ UNCHANGED <<outside, rows, stream, billed, lost>>
      /\ run[w].pc # "answered"
  BY DEF recordTurnFailure, Active, At
<1>2. rows' \in SUBSET Sessions
  BY <1>1 DEF RunInv, TypeInv, RunTypeOK
<1>3. e \in Event /\ e.s = SessionOf[w]
  <2>1. FailureId(w) \in {"user", "model", "error"} \X (Workflows \cup Sessions) \X Nat \X Nat
    BY DrawnType, RunAssumption DEF FailureId
  <2> QED
    BY <2>1, NewEventType DEF Kind
<1>4. PICK out \in {"ok", "err"}, res \in {"ERROR", "append"} : AppendEvent(w, e, out) /\ Return(w, res)
  BY DEF recordTurnFailure
<1> HIDE DEF e
<1>5. /\ RunAsStep(w, "session.AppendEvent", out)
      /\ events' = events \/ (e.s \in rows /\ events' = Append(events, e))
  BY <1>3, <1>4, AppendStores
<1>6. "session.AppendEvent" \in Name /\ out \in Out
  BY DEF Name, Out
<1>7. \E r \in Execution : Checkpoint(w, "session.AppendEvent", out, r)
  BY <1>1, <1>4, <1>5, <1>6, Returns DEF Outputs, Errors
<1> QED
  BY <1>1, <1>2, <1>3, <1>5, <1>6, <1>7 DEF StepTaken

LEMMA CloseTakesStep ==
    ASSUME RunInv, NEW w \in Workflows, CloseStream(w)
    PROVE  StepTaken(w)
<1>1. /\ Active(w) /\ UNCHANGED <<outside, rows, events, billed, lost>>
      /\ run[w].pc # "answered"
  BY DEF CloseStream, Active, At
<1>2. rows' \in SUBSET Sessions
  BY <1>1 DEF RunInv, TypeInv, RunTypeOK
<1>3. PICK out \in {"ok", "err"}, res \in {"ERROR", "SUCCESS", "close"} :
        /\ RunAsStep(w, "DBOS.closeStream", out) /\ Return(w, res)
        /\ stream' = stream \/ stream' = [stream EXCEPT ![w] = "closed"]
  BY DEF CloseStream
<1>4. "DBOS.closeStream" \in Name /\ out \in Out
  BY DEF Name, Out
<1>5. \E r \in Execution : Checkpoint(w, "DBOS.closeStream", out, r)
  BY <1>1, <1>3, <1>4, Returns DEF Outputs, Errors
<1> QED
  BY <1>1, <1>2, <1>4, <1>5 DEF StepTaken

LEMMA ModelEventTakesStep ==
    ASSUME RunInv, NEW w \in Workflows, AppendModelEvent(w)
    PROVE  StepTaken(w)
<1> DEFINE e == NewEvent(w, EventKind(w), Drawn(w, "model"))
           r == [run[w] EXCEPT !.pos = @ + 1]
<1>1. /\ Active(w) /\ UNCHANGED <<outside, rows, stream, billed, lost>>
      /\ run[w].pc = "append"
  BY DEF AppendModelEvent, Active, At
<1>2. rows' \in SUBSET Sessions
  BY <1>1 DEF RunInv, TypeInv, RunTypeOK
<1>3. e \in Event /\ e.s = SessionOf[w]
  <2>1. EventKind(w) \in Kind
    BY DEF EventKind, Kind
  <2> QED
    BY <2>1, DrawnType, NewEventType
<1>4. r \in Execution /\ r.pos = run[w].pos + 1 /\ run[w] \in Execution
  BY ExecutionOf DEF Execution
<1>5. PICK out \in {"ok", "err"} :
        /\ AppendEvent(w, e, out)
        /\ \/ run' = [run EXCEPT ![w] = [r EXCEPT !.pc = "fail"]]
           \/ run' = [run EXCEPT ![w] = [r EXCEPT !.pc = "model", !.yielded = TRUE]]
           \/ Return(w, "steps")
           \/ run' = [run EXCEPT ![w] = [r EXCEPT !.pc = "close", !.yielded = TRUE]]
  BY DEF AppendModelEvent
<1> HIDE DEF e, r
<1>6. /\ RunAsStep(w, "session.AppendEvent", out)
      /\ events' = events \/ (e.s \in rows /\ events' = Append(events, e))
  BY <1>3, <1>5, AppendStores
<1>7. "session.AppendEvent" \in Name /\ out \in Out
  BY DEF Name, Out
<1>8. \E q \in Execution : Checkpoint(w, "session.AppendEvent", out, q)
  <2>1. ASSUME NEW pc \in {"fail", "model", "close"}, NEW q,
               q = [r EXCEPT !.pc = pc] \/ q = [r EXCEPT !.pc = pc, !.yielded = TRUE],
               run' = [run EXCEPT ![w] = q]
        PROVE  \E x \in Execution : Checkpoint(w, "session.AppendEvent", out, x)
    <3>1. q \in Execution /\ q.pc = pc /\ q.pos = run[w].pos + 1
      BY <1>4, <2>1 DEF Execution, Stage
    <3> QED
      BY <1>1, <1>6, <2>1, <3>1 DEF Checkpoint
  <2>2. CASE Return(w, "steps")
    BY <1>1, <1>6, <1>7, <2>2, Returns DEF Errors
  <2> QED
    BY <1>5, <2>1, <2>2
<1> QED
  BY <1>1, <1>2, <1>3, <1>6, <1>7, <1>8 DEF StepTaken

\* The answer crosses the checkpoint: the one in hand, or the recorded one.
LEMMA GenerateTakesStep ==
    ASSUME RunInv, NEW w \in Workflows, GenerateContent(w)
    PROVE  StepTaken(w)
<1>1. /\ Active(w) /\ UNCHANGED <<outside, rows, events, stream, billed, lost>>
  BY DEF GenerateContent, Active, At
<1>2. rows' \in SUBSET Sessions
  BY <1>1 DEF RunInv, TypeInv, RunTypeOK
<1>3. PICK a \in Answers :
        /\ RunAsStep(w, "model", a) /\ Heard(w, a)
        /\ run[w].pc = "answered" => a = run[w].said
        /\ run[w].pc = "answered" \/ Replaying(w)
  BY DEF GenerateContent, At, RunInv, PlaceInv
<1> DEFINE r == [run[w] EXCEPT !.pc = IF a = "err" THEN "fail" ELSE "append",
                               !.pos = @ + 1, !.turn = @ + 1, !.said = a]
<1>4. r \in Execution /\ r.pc \in {"fail", "append"} /\ r.pos = run[w].pos + 1
  <2>1. run[w].turn + 1 \in Nat
    <3>1. run[w].turn \in Nat
      BY ExecutionOf DEF Execution
    <3> QED
      BY <3>1
  <2> QED
    BY ExecutionOf, <2>1 DEF Execution, Stage
<1>5. run' = [run EXCEPT ![w] = r]
  BY <1>3, ExecutionOf DEF Heard, Execution
<1> HIDE DEF r
<1>6. Checkpoint(w, "model", a, r)
  BY <1>1, <1>3, <1>4, <1>5 DEF Checkpoint
<1> QED
  <2>1. "model" \in Name /\ a \in Out
    BY DEF Name, Out
  <2> QED
    BY <1>1, <1>2, <1>4, <1>6, <2>1 DEF StepTaken

-----------------------------------------------------------------------------
(* A checkpointed step keeps the invariant.                                *)

\* The log holds the step at the next position, and what it held.
LEMMA LogAfter ==
    ASSUME RunInv, NEW w \in Workflows, NEW name \in Name, NEW out \in Out,
           RunAsStep(w, name, out)
    PROVE  LET e == [step |-> name, out |-> out] IN
           /\ log' \in [Workflows -> Seq(Entry)] /\ e \in Entry
           /\ \A v \in Workflows \ {w} : log'[v] = log[v]
           /\ run[w].pos + 1 \in 1 .. Len(log'[w]) /\ log'[w][run[w].pos + 1] = e
           /\ \/ log'[w] = log[w] /\ Replaying(w)
              \/ ~Replaying(w) /\ Len(log[w]) = run[w].pos /\ log'[w] = Append(log[w], e)
<1> DEFINE e == [step |-> name, out |-> out]
<1>1. /\ log \in [Workflows -> Seq(Entry)] /\ log[w] \in Seq(Entry) /\ e \in Entry
      /\ run[w].pos \in Nat /\ run[w].pos <= Len(log[w])
  BY ExecutionOf DEF RunInv, TypeInv, RunTypeOK, Entry
<1>2. CASE Replaying(w)
  <2>1. log' = log /\ log[w][run[w].pos + 1] = e
    BY <1>2 DEF RunAsStep, Recorded
  <2>2. run[w].pos + 1 \in 1 .. Len(log[w])
    BY <1>1, <1>2 DEF Replaying
  <2> QED
    BY <1>1, <1>2, <2>1, <2>2
<1>3. CASE ~Replaying(w)
  <2>1. log' = [log EXCEPT ![w] = Append(@, e)]
    BY <1>3 DEF RunAsStep
  <2>2. Len(log[w]) = run[w].pos
    BY <1>1, <1>3 DEF Replaying
  <2>3. log'[w] = Append(log[w], e) /\ \A v \in Workflows \ {w} : log'[v] = log[v]
    BY <1>1, <2>1
  <2> HIDE DEF e
  <2>4. /\ Append(log[w], e) \in Seq(Entry) /\ Len(Append(log[w], e)) = Len(log[w]) + 1
        /\ Append(log[w], e)[Len(log[w]) + 1] = e
    BY <1>1
  <2>5. log' \in [Workflows -> Seq(Entry)]
    BY <1>1, <2>1, <2>4
  <2>6. run[w].pos + 1 \in 1 .. Len(log'[w]) /\ log'[w][run[w].pos + 1] = e
    BY <1>1, <2>2, <2>3, <2>4
  <2> QED
    BY <1>1, <1>3, <2>2, <2>3, <2>5, <2>6 DEF e
<1> QED
  BY <1>2, <1>3

LEMMA GenerationsCount ==
    ASSUME NEW s \in Seq(Entry)
    PROVE  IsFiniteSet(Generations(s)) /\ Cardinality(Generations(s)) \in Nat
<1>1. Len(s) \in Nat /\ DOMAIN s = 1 .. Len(s)
  OBVIOUS
<1>2. IsFiniteSet(1 .. Len(s))
  BY <1>1, FS_Interval
<1>3. Generations(s) \subseteq 1 .. Len(s)
  BY <1>1 DEF Generations
<1> QED
  BY <1>2, <1>3, FS_Subset, FS_CardinalityType

\* One more checkpoint is at most one more generation.
LEMMA GenerationsOf ==
    ASSUME NEW s \in Seq(Entry), NEW e \in Entry
    PROVE  /\ Cardinality(Generations(s)) \in Nat
           /\ Cardinality(Generations(Append(s, e))) =
                Cardinality(Generations(s)) + IF e.step = "model" /\ e.out # "err" THEN 1 ELSE 0
<1> DEFINE G == Generations(s)
           n == Len(s) + 1
<1>1. Len(s) \in Nat /\ DOMAIN s = 1 .. Len(s)
  OBVIOUS
<1>2. IsFiniteSet(G) /\ Cardinality(G) \in Nat
  BY GenerationsCount
<1>3. /\ DOMAIN Append(s, e) = 1 .. n /\ Append(s, e)[n] = e
      /\ \A i \in 1 .. Len(s) : Append(s, e)[i] = s[i]
  BY <1>1
<1>4. n \notin G
  BY <1>1 DEF Generations
<1>5. CASE e.step = "model" /\ e.out # "err"
  <2>1. Generations(Append(s, e)) = G \cup {n}
    BY <1>1, <1>3, <1>5 DEF Generations
  <2>2. Cardinality(G \cup {n}) = Cardinality(G) + 1
    BY <1>2, <1>4, FS_AddElement
  <2> QED
    BY <1>2, <1>5, <2>1, <2>2
<1>6. CASE ~(e.step = "model" /\ e.out # "err")
  <2>1. Generations(Append(s, e)) = G
    BY <1>1, <1>3, <1>6 DEF Generations
  <2> QED
    BY <1>2, <1>6, <2>1
<1> QED
  BY <1>5, <1>6

\* The execution a checkpointed step leaves.
LEMMA RunAfter ==
    ASSUME RunInv, NEW w \in Workflows, NEW name \in Name, NEW out \in Out,
           NEW r \in Execution, Checkpoint(w, name, out, r)
    PROVE  /\ run' \in [Workflows -> Execution] /\ run'[w] = r
           /\ \A v \in Workflows \ {w} : run'[v] = run[v]
           /\ stream' \in [Workflows -> {"none", "open", "closed"}]
           /\ \A v \in Workflows \ {w} : stream'[v] = stream[v]
           /\ stream'[w] = "closed" => stream[w] = "closed" \/ name = "DBOS.closeStream"
           /\ r.pos <= run[w].pos + 1
<1>1. /\ run \in [Workflows -> Execution] /\ stream \in [Workflows -> {"none", "open", "closed"}]
  BY DEF RunInv, TypeInv, RunTypeOK
<1>2. /\ run' = [run EXCEPT ![w] = r]
      /\ \/ UNCHANGED stream
         \/ name = "DBOS.closeStream" /\ stream' = [stream EXCEPT ![w] = "closed"]
      /\ r.pos = run[w].pos + 1 \/ r.pos = run[w].pos
  BY DEF Checkpoint
<1>3. run[w].pos \in Nat
  BY ExecutionOf
<1>4. r.pos <= run[w].pos + 1
  BY <1>2, <1>3
<1>5. run' \in [Workflows -> Execution] /\ run'[w] = r /\ \A v \in Workflows \ {w} : run'[v] = run[v]
  BY <1>1, <1>2
<1>6. /\ stream' \in [Workflows -> {"none", "open", "closed"}]
      /\ \A v \in Workflows \ {w} : stream'[v] = stream[v]
      /\ stream'[w] = "closed" => stream[w] = "closed" \/ name = "DBOS.closeStream"
  BY <1>1, <1>2
<1> QED
  BY <1>4, <1>5, <1>6

LEMMA StepKeepsType ==
    ASSUME RunInv, NEW w \in Workflows, StepTaken(w)
    PROVE  TypeInv'
<1>1. PICK name \in Name, out \in Out, r \in Execution : Checkpoint(w, name, out, r)
  BY DEF StepTaken
<1>2. RunAsStep(w, name, out)
  BY <1>1 DEF Checkpoint
<1>3. /\ log' \in [Workflows -> Seq(Entry)]
      /\ \A v \in Workflows \ {w} : log'[v] = log[v]
      /\ run[w].pos + 1 \in 1 .. Len(log'[w])
  BY <1>2, LogAfter
<1>4. /\ run' \in [Workflows -> Execution] /\ run'[w] = r
      /\ \A v \in Workflows \ {w} : run'[v] = run[v]
      /\ stream' \in [Workflows -> {"none", "open", "closed"}]
      /\ r.pos <= run[w].pos + 1
  BY <1>1, RunAfter
<1>5. UNCHANGED <<status, result, up, deps, crashes, signouts, billed, lost>>
  BY DEF StepTaken, outside
<1>6. \A v \in Workflows : /\ run'[v].pos <= Len(log'[v])
                           /\ run'[v].pc # "off" => up' /\ status'[v] = "PENDING"
  <2>1. run'[w].pos <= Len(log'[w])
    <3>1. r.pos \in Nat
      BY DEF Execution
    <3>2. run[w].pos \in Nat /\ log'[w] \in Seq(Entry)
      BY <1>3, ExecutionOf
    <3>3. Len(log'[w]) \in Nat
      BY <3>2
    <3> QED
      BY <1>3, <1>4, <3>1, <3>2, <3>3
  <2>2. up /\ status[w] = "PENDING"
    BY DEF StepTaken, Active, RunInv, TypeInv, RunTypeOK
  <2> QED
    BY <1>3, <1>4, <1>5, <2>1, <2>2 DEF RunInv, TypeInv, RunTypeOK
<1>7. events' \in Seq(Event) /\ \A i \in DOMAIN events' : events'[i].s \in rows'
  <2>1. /\ events \in Seq(Event) /\ \A i \in DOMAIN events : events[i].s \in rows
        /\ rows \subseteq rows'
    BY DEF RunInv, TypeInv, RunTypeOK, StepTaken
  <2>2. CASE UNCHANGED events
    BY <2>1, <2>2
  <2>3. CASE \E e \in Event : e.s \in rows /\ events' = Append(events, e)
    <3>1. PICK e \in Event : e.s \in rows /\ events' = Append(events, e)
      BY <2>3
    <3>2. /\ events' \in Seq(Event) /\ DOMAIN events' = 1 .. Len(events) + 1
          /\ events'[Len(events) + 1] = e
          /\ \A i \in DOMAIN events : events'[i] = events[i]
          /\ DOMAIN events = 1 .. Len(events) /\ Len(events) \in Nat
      BY <2>1, <3>1
    <3> QED
      BY <2>1, <3>1, <3>2
  <2> QED
    BY <2>2, <2>3 DEF StepTaken
<1>8. rows' \subseteq Sessions
  BY DEF StepTaken
<1> QED
  BY <1>3, <1>4, <1>5, <1>6, <1>7, <1>8 DEF RunInv, TypeInv, RunTypeOK

LEMMA StepKeepsPlace ==
    ASSUME RunInv, NEW w \in Workflows, StepTaken(w), NEW v \in Workflows
    PROVE  PlaceInv(v)'
<1>1. PICK name \in Name, out \in Out, r \in Execution : Checkpoint(w, name, out, r)
  BY DEF StepTaken
<1> DEFINE e == [step |-> name, out |-> out]
           n == run[w].pos + 1
<1>2. /\ \A u \in Workflows \ {w} : log'[u] = log[u]
      /\ n \in 1 .. Len(log'[w]) /\ log'[w][n] = e
      /\ \/ log'[w] = log[w] /\ Replaying(w)
         \/ ~Replaying(w) /\ Len(log[w]) = run[w].pos /\ log'[w] = Append(log[w], e)
      /\ log[w] \in Seq(Entry) /\ log'[w] \in Seq(Entry) /\ e \in Entry
  BY <1>1, LogAfter DEF Checkpoint, RunInv, TypeInv
<1>3. /\ run'[w] = r
      /\ \A u \in Workflows \ {w} : run'[u] = run[u]
      /\ \A u \in Workflows \ {w} : stream'[u] = stream[u]
      /\ stream'[w] = "closed" => stream[w] = "closed" \/ name = "DBOS.closeStream"
  BY <1>1, RunAfter
<1>4. CASE v # w
  BY <1>2, <1>3, <1>4 DEF RunInv, PlaceInv, Replaying
<1>5. CASE v = w
  <2>1. /\ r.pc \notin {"off", "answered"} /\ (name = "DBOS.closeStream" => r.pc = "return")
        /\ r.pos = n \/ (r.pc = "return" /\ r.pos = run[w].pos)
    BY <1>1 DEF Checkpoint
  <2>2. r.pc \notin {"off", "return"} /\ r.pos > 0 => ~Closing(log'[w][r.pos])
    BY <1>2, <2>1 DEF Closing
  <2>3. \A i \in DOMAIN log'[w] : Closing(log'[w][i]) => i = Len(log'[w])
    <3>1. CASE log'[w] = log[w]
      BY <3>1 DEF RunInv, PlaceInv
    <3>2. CASE ~Replaying(w) /\ Len(log[w]) = run[w].pos /\ log'[w] = Append(log[w], e)
      <4>1. \A i \in DOMAIN log[w] : ~Closing(log[w][i])
        <5>1. /\ \A i \in DOMAIN log[w] : Closing(log[w][i]) => i = Len(log[w])
              /\ run[w].pos > 0 => ~Closing(log[w][run[w].pos])
          BY DEF RunInv, PlaceInv, StepTaken, Active
        <5>2. \A i \in DOMAIN log[w] : i \in Nat /\ i > 0
          BY <1>2
        <5> QED
          BY <3>2, <5>1, <5>2
      <4>2. /\ DOMAIN log'[w] = 1 .. Len(log[w]) + 1 /\ Len(log'[w]) = Len(log[w]) + 1
            /\ \A i \in 1 .. Len(log[w]) : log'[w][i] = log[w][i] /\ i \in DOMAIN log[w]
            /\ Len(log[w]) \in Nat
        BY <1>2, <3>2
      <4> QED
        BY <4>1, <4>2
    <3> QED
      BY <1>2, <3>1, <3>2
  <2>4. stream'[w] = "closed" => \E i \in DOMAIN log'[w] : Closing(log'[w][i])
    <3>1. CASE name = "DBOS.closeStream"
      <4>1. n \in DOMAIN log'[w] /\ Closing(log'[w][n])
        BY <1>2, <3>1 DEF Closing
      <4> QED
        BY <4>1
    <3>2. CASE stream[w] = "closed"
      <4>1. PICK i \in DOMAIN log[w] : Closing(log[w][i])
        BY <3>2 DEF RunInv, PlaceInv
      <4>2. log'[w] = log[w] => i \in DOMAIN log'[w] /\ log'[w][i] = log[w][i]
        OBVIOUS
      <4>3. log'[w] = Append(log[w], e) => i \in DOMAIN log'[w] /\ log'[w][i] = log[w][i]
        BY <1>2
      <4> QED
        BY <1>2, <4>1, <4>2, <4>3
    <3> QED
      BY <1>3, <3>1, <3>2
  <2> QED
    BY <1>3, <1>5, <2>1, <2>2, <2>3, <2>4 DEF PlaceInv
<1> QED
  BY <1>4, <1>5

\* The bill.
Billed(w) == billed[w] = Cardinality(Generations(log[w])) + lost[w] + InHand(w)

LEMMA StepKeepsBill ==
    ASSUME RunInv, NEW w \in Workflows, StepTaken(w)
    PROVE  NoRebilledGeneration'
<1>1. PICK name \in Name, out \in Out, r \in Execution : Checkpoint(w, name, out, r)
  BY DEF StepTaken
<1> DEFINE e == [step |-> name, out |-> out]
<1>2. /\ \A u \in Workflows \ {w} : log'[u] = log[u]
      /\ \/ log'[w] = log[w] /\ Replaying(w)
         \/ ~Replaying(w) /\ log'[w] = Append(log[w], e)
      /\ log[w] \in Seq(Entry) /\ e \in Entry
  BY <1>1, LogAfter DEF Checkpoint, RunInv, TypeInv
<1>3. run'[w] = r /\ \A u \in Workflows \ {w} : run'[u] = run[u]
  BY <1>1, RunAfter
<1>4. /\ r.pc # "answered"
      /\ run[w].pc = "answered" => name = "model" /\ out = run[w].said
      /\ name = "model" => run[w].pc = "answered" \/ Replaying(w)
  BY <1>1 DEF Checkpoint
<1>5. UNCHANGED <<billed, lost>>
  BY DEF StepTaken
<1>6. ASSUME NEW u \in Workflows \ {w} PROVE Billed(u)'
  BY <1>2, <1>3, <1>5 DEF Billed, RunInv, NoRebilledGeneration, InHand
<1>7. Billed(w)'
  <2>1. /\ Cardinality(Generations(log[w])) \in Nat /\ lost[w] \in Nat
        /\ Billed(w)
    BY <1>2, GenerationsOf DEF RunInv, TypeInv, NoRebilledGeneration, Billed
  <2>2. InHand(w)' = 0
    BY <1>3, <1>4 DEF InHand
  <2>3. CASE Replaying(w)
    <3>1. run[w].pc # "answered"
      BY <2>3 DEF RunInv, PlaceInv
    <3>2. InHand(w) = 0 /\ log'[w] = log[w]
      BY <1>2, <2>3, <3>1 DEF InHand
    <3> QED
      BY <1>5, <2>1, <2>2, <3>2 DEF Billed
  <2>4. CASE ~Replaying(w)
    <3>1. Cardinality(Generations(log'[w])) = Cardinality(Generations(log[w])) + InHand(w)
      <4>1. InHand(w) = IF e.step = "model" /\ e.out # "err" THEN 1 ELSE 0
        BY <1>4, <2>4 DEF InHand
      <4>2. log'[w] = Append(log[w], e)
        BY <1>2, <2>4
      <4> HIDE DEF e
      <4> QED
        BY <1>2, <4>1, <4>2, GenerationsOf
    <3>2. InHand(w) \in Nat
      BY DEF InHand
    <3> QED
      BY <1>5, <2>1, <2>2, <3>1, <3>2 DEF Billed
  <2> QED
    BY <2>3, <2>4
<1> QED
  BY <1>6, <1>7 DEF NoRebilledGeneration, Billed

-----------------------------------------------------------------------------
(* So does every other step.                                               *)

\* The start, the end and the refusal of an execution.
LEMMA ControlKeepsInv ==
    ASSUME RunInv, NEW w \in Workflows, NEW r \in Execution,
           run' = [run EXCEPT ![w] = r],
           run[w].pc # "answered", r.pc # "answered",
           \/ r = Off
           \/ r.pc = "return" /\ r.pos = run[w].pos
           \/ r.pc # "off" /\ r.pos = 0,
           status' \in [Workflows -> {"NONE", "ENQUEUED", "PENDING", "SUCCESS", "ERROR"}],
           \A v \in Workflows \ {w} : status'[v] = status[v],
           r.pc # "off" => up /\ status'[w] = "PENDING",
           result' \in [Workflows -> {""} \cup Outputs \cup Errors],
           UNCHANGED <<log, rows, events, stream, up, crashes, signouts, billed, lost>>
    PROVE  RunInv'
<1>1. run' \in [Workflows -> Execution] /\ run'[w] = r /\ \A v \in Workflows \ {w} : run'[v] = run[v]
  BY ExecutionOf
<1>2. \A v \in Workflows : /\ run[v].pos <= Len(log[v])
                           /\ run[v].pc # "off" => up /\ status[v] = "PENDING"
  BY DEF RunInv, TypeInv, RunTypeOK
<1>3. r.pos <= Len(log[w])
  <2>0. r.pos \in Nat
    BY DEF Execution
  <2>1. Len(log[w]) \in Nat
    BY LogType
  <2>2. CASE r = Off
    <3>1. r.pos = 0
      BY <2>2, OffType
    <3> QED
      BY <2>0, <2>1, <3>1, ZeroIsLeast
  <2>3. CASE r.pc = "return" /\ r.pos = run[w].pos
    BY <1>2, <2>3
  <2>4. CASE r.pos = 0
    BY <2>0, <2>1, <2>4, ZeroIsLeast
  <2> QED
    BY <2>2, <2>3, <2>4
<1>4. TypeInv'
  BY <1>1, <1>2, <1>3 DEF RunInv, TypeInv, RunTypeOK
<1>5. ASSUME NEW v \in Workflows PROVE PlaceInv(v)'
  <2>1. CASE v # w
    BY <1>1, <2>1 DEF RunInv, PlaceInv, Replaying
  <2>2. CASE v = w
    <3>1. r.pc = "off" => r = Off
      OBVIOUS
    <3>2. r.pc \in {"off", "return"} \/ ~(r.pos > 0)
      <4>1. r.pos \in Nat
        BY DEF Execution
      <4> QED
        BY <4>1, OffType, ZeroIsLeast
    <3> QED
      BY <1>1, <2>2, <3>1, <3>2 DEF RunInv, PlaceInv
  <2> QED
    BY <2>1, <2>2
<1>6. NoRebilledGeneration'
  <2>1. \A v \in Workflows : InHand(v)' = InHand(v)
    BY <1>1 DEF InHand
  <2> QED
    BY <2>1 DEF RunInv, NoRebilledGeneration
<1> QED
  BY <1>4, <1>5, <1>6 DEF RunInv

LEMMA StartKeepsInv ==
    ASSUME RunInv, NEW w \in Workflows, Start(w)
    PROVE  RunInv'
<1> DEFINE r == [run[w] EXCEPT !.pc = IF deps = "none" THEN "presolve" ELSE "resolve"]
<1>1. run[w] = Off /\ run[w].pc = "off" /\ up
  BY DEF Start, RunInv, PlaceInv
<1>2. r \in Execution /\ r.pos = run[w].pos /\ r.pc \in {"presolve", "resolve"}
  BY ExecutionOf DEF Execution, Stage
<1>6. r.pos = 0
  BY <1>1, <1>2, OffType
<1>3. run' = [run EXCEPT ![w] = r]
  BY ExecutionOf DEF Start, Execution
<1>4. /\ status' = [status EXCEPT ![w] = "PENDING"]
      /\ UNCHANGED <<result, log, rows, events, stream, up, crashes, signouts, billed, lost>>
  BY DEF Start
<1>5. /\ status' \in [Workflows -> {"NONE", "ENQUEUED", "PENDING", "SUCCESS", "ERROR"}]
      /\ status'[w] = "PENDING" /\ \A v \in Workflows \ {w} : status'[v] = status[v]
      /\ result' \in [Workflows -> {""} \cup Outputs \cup Errors]
  BY <1>4 DEF RunInv, TypeInv, RunTypeOK
<1> HIDE DEF r
<1> QED
  BY <1>1, <1>2, <1>3, <1>4, <1>5, <1>6, ControlKeepsInv

LEMMA DivergeKeepsInv ==
    ASSUME RunInv, NEW w \in Workflows, Diverge(w)
    PROVE  RunInv'
<1> DEFINE r == [run[w] EXCEPT !.pc = "return", !.res = "diverged"]
<1>1. up /\ run[w].pc \notin {"off", "return", "answered"}
  BY DEF Diverge, RunInv, PlaceInv
<1>2. r \in Execution /\ r.pos = run[w].pos /\ r.pc = "return"
  BY ExecutionOf DEF Execution, Stage, Errors
<1>3. run' = [run EXCEPT ![w] = r]
  BY ExecutionOf DEF Diverge, Return, Execution
<1>4. UNCHANGED <<status, result, log, rows, events, stream, up, crashes, signouts, billed, lost>>
  BY DEF Diverge
<1>5. /\ status' \in [Workflows -> {"NONE", "ENQUEUED", "PENDING", "SUCCESS", "ERROR"}]
      /\ status'[w] = "PENDING" /\ \A v \in Workflows \ {w} : status'[v] = status[v]
      /\ result' \in [Workflows -> {""} \cup Outputs \cup Errors]
  BY <1>1, <1>4 DEF RunInv, TypeInv, RunTypeOK
<1> HIDE DEF r
<1> QED
  BY <1>1, <1>2, <1>3, <1>4, <1>5, ControlKeepsInv

LEMMA RecordKeepsInv ==
    ASSUME RunInv, NEW w \in Workflows, RecordResult(w)
    PROVE  RunInv'
<1>1. /\ run[w].pc = "return" /\ run' = [run EXCEPT ![w] = Off]
      /\ status' = [status EXCEPT ![w] = IF run[w].res \in Outputs THEN "SUCCESS" ELSE "ERROR"]
      /\ result' = [result EXCEPT ![w] = run[w].res]
      /\ UNCHANGED <<log, rows, events, stream, up, crashes, signouts, billed, lost>>
  BY DEF RecordResult, At
<1>2. /\ status' \in [Workflows -> {"NONE", "ENQUEUED", "PENDING", "SUCCESS", "ERROR"}]
      /\ \A v \in Workflows \ {w} : status'[v] = status[v]
  BY <1>1 DEF RunInv, TypeInv, RunTypeOK
<1>3. result' \in [Workflows -> {""} \cup Outputs \cup Errors]
  <2>1. run[w].res \in {""} \cup Outputs \cup Errors
    BY ExecutionOf DEF Execution
  <2> QED
    BY <1>1, <2>1 DEF RunInv, TypeInv, RunTypeOK
<1> QED
  BY <1>1, <1>2, <1>3, OffType, ControlKeepsInv

LEMMA SendKeepsInv ==
    ASSUME RunInv, NEW w \in Workflows, Send(w)
    PROVE  RunInv'
<1>1. /\ status[w] = "NONE" /\ status' = [status EXCEPT ![w] = "ENQUEUED"]
      /\ UNCHANGED <<result, log, run, rows, events, stream, up, crashes, signouts, billed, lost>>
  BY DEF Send, Enqueue
<1>2. TypeInv'
  BY <1>1 DEF RunInv, TypeInv, RunTypeOK
<1>3. \A v \in Workflows : PlaceInv(v)'
  BY <1>1 DEF RunInv, PlaceInv, Replaying
<1>4. NoRebilledGeneration'
  BY <1>1 DEF RunInv, NoRebilledGeneration, InHand
<1> QED
  BY <1>2, <1>3, <1>4 DEF RunInv

\* Sign-in, sign-out, a boot, or nothing.
LEMMA PageKeepsInv ==
    ASSUME RunInv, Boot \/ SignIn \/ SignOut \/ UNCHANGED vars
    PROVE  RunInv'
<1>1. /\ UNCHANGED <<status, result, log, rows, events, stream, run, crashes, billed, lost>>
      /\ up => up'
  BY DEF Boot, SignIn, SignOut, vars, durable
<1>2. signouts' \in Nat
  <2>1. signouts' = signouts \/ signouts' = signouts + 1
    BY DEF Boot, SignIn, SignOut, vars
  <2> QED
    BY <2>1 DEF RunInv, TypeInv
<1>3. TypeInv'
  BY <1>1, <1>2 DEF RunInv, TypeInv, RunTypeOK
<1>4. \A v \in Workflows : PlaceInv(v)'
  BY <1>1 DEF RunInv, PlaceInv, Replaying
<1>5. NoRebilledGeneration'
  BY <1>1 DEF RunInv, NoRebilledGeneration, InHand
<1> QED
  BY <1>3, <1>4, <1>5 DEF RunInv

LEMMA CrashKeepsInv ==
    ASSUME RunInv, Crash
    PROVE  RunInv'
<1>1. /\ UNCHANGED <<status, result, log, rows, events, stream, signouts, billed>>
      /\ crashes' = crashes + 1
      /\ lost' = [v \in Workflows |-> lost[v] + InHand(v)]
      /\ run' = [v \in Workflows |-> Off]
  BY DEF Crash, durable
<1>2. \A v \in Workflows : /\ run'[v] = Off /\ run'[v].pc = "off" /\ run'[v].pos = 0
                           /\ lost[v] \in Nat /\ InHand(v) \in Nat
                           /\ lost'[v] = lost[v] + InHand(v) /\ Len(log[v]) \in Nat
                           /\ InHand(v)' = 0
  <2>1. ASSUME NEW v \in Workflows
        PROVE  run'[v] = Off /\ lost'[v] = lost[v] + InHand(v)
    BY <1>1
  <2>2. ASSUME NEW v \in Workflows
        PROVE  lost[v] \in Nat /\ InHand(v) \in Nat
    BY DEF InHand, RunInv, TypeInv
  <2>3. ASSUME NEW v \in Workflows
        PROVE  InHand(v)' = 0
    BY <2>1, OffType DEF InHand
  <2> QED
    BY <2>1, <2>2, <2>3, OffType, LogType
<1>3. TypeInv'
  <2>1. run' \in [Workflows -> Execution]
    BY <1>1, OffType
  <2>2. lost' \in [Workflows -> Nat]
    BY <1>1, <1>2
  <2>3. \A v \in Workflows : /\ run'[v].pos <= Len(log'[v])
                             /\ run'[v].pc # "off" => up' /\ status'[v] = "PENDING"
    BY <1>1, <1>2
  <2> QED
    <3>1. crashes' \in Nat
      BY <1>1 DEF RunInv, TypeInv
    <3> QED
      BY <1>1, <2>1, <2>2, <2>3, <3>1 DEF RunInv, TypeInv, RunTypeOK
<1>4. \A v \in Workflows : PlaceInv(v)'
  BY <1>1, <1>2 DEF RunInv, PlaceInv
<1>5. NoRebilledGeneration'
  <2>1. ASSUME NEW v \in Workflows
        PROVE  billed[v] = Cardinality(Generations(log[v])) + (lost[v] + InHand(v)) + 0
    <3>1. Cardinality(Generations(log[v])) \in Nat
      BY LogType, GenerationsCount
    <3> QED
      BY <1>2, <3>1 DEF RunInv, NoRebilledGeneration
  <2> QED
    BY <1>1, <1>2, <2>1 DEF NoRebilledGeneration
<1> QED
  BY <1>3, <1>4, <1>5 DEF RunInv

\* The provider has answered.
LEMMA AnswerKeepsInv ==
    ASSUME RunInv, NEW w \in Workflows, Generate(w)
    PROVE  RunInv' /\ ~\E i \in DOMAIN log[w] : Closing(log[w][i])
<1>1. PICK a \in Answers :
        /\ run' = [run EXCEPT ![w].pc = "answered", ![w].said = a]
        /\ billed' = [billed EXCEPT ![w] = @ + (IF a = "err" THEN 0 ELSE 1)]
  BY DEF Generate
<1>2. /\ run[w].pc = "model" /\ up /\ ~Replaying(w)
      /\ stream' = stream \/ stream' = [stream EXCEPT ![w] = "open"]
      /\ UNCHANGED <<status, result, log, rows, events, up, crashes, signouts, lost>>
  BY DEF Generate, At, outside
<1> DEFINE r == [run[w] EXCEPT !.pc = "answered", !.said = a]
<1>3. /\ r \in Execution /\ r.pc = "answered" /\ r.said = a /\ r.pos = run[w].pos
      /\ run' = [run EXCEPT ![w] = r]
  BY <1>1, ExecutionOf DEF Execution, Stage
<1>4. /\ run' \in [Workflows -> Execution] /\ run'[w] = r
      /\ \A v \in Workflows \ {w} : run'[v] = run[v]
      /\ billed' \in [Workflows -> Nat]
      /\ billed'[w] = billed[w] + (IF a = "err" THEN 0 ELSE 1)
      /\ \A v \in Workflows \ {w} : billed'[v] = billed[v]
  <2> DEFINE c == IF a = "err" THEN 0 ELSE 1
  <2>1. billed \in [Workflows -> Nat] /\ billed[w] \in Nat
    BY DEF RunInv, TypeInv
  <2>2. billed' = [billed EXCEPT ![w] = billed[w] + c] /\ c \in Nat
    BY <1>1
  <2>3. billed[w] + c \in Nat
    BY <2>1, <2>2
  <2> HIDE DEF r, c
  <2>4. /\ billed' \in [Workflows -> Nat] /\ billed'[w] = billed[w] + c
        /\ \A v \in Workflows \ {w} : billed'[v] = billed[v]
    BY <2>1, <2>2, <2>3
  <2>5. /\ run' \in [Workflows -> Execution] /\ run'[w] = r
        /\ \A v \in Workflows \ {w} : run'[v] = run[v]
    BY <1>3, ExecutionOf
  <2> QED
    BY <2>4, <2>5 DEF c
<1> HIDE DEF r
<1>5. /\ stream' \in [Workflows -> {"none", "open", "closed"}]
      /\ \A v \in Workflows : stream'[v] = "closed" => stream[v] = "closed"
  BY <1>2 DEF RunInv, TypeInv, RunTypeOK
<1>6. TypeInv'
  <2>1. \A v \in Workflows : /\ run'[v].pos = run[v].pos
                             /\ run'[v].pc # "off" => run[v].pc # "off"
    BY <1>2, <1>3, <1>4
  <2> QED
    BY <1>2, <1>4, <1>5, <2>1 DEF RunInv, TypeInv, RunTypeOK
<1>7. /\ run[w].pos = Len(log[w]) /\ Len(log[w]) \in Nat
      /\ DOMAIN log[w] = 1 .. Len(log[w])
  <2>1. log[w] \in Seq(Entry) /\ run[w].pos \in Nat /\ run[w].pos <= Len(log[w])
    BY ExecutionOf DEF RunInv, TypeInv, RunTypeOK
  <2> QED
    BY <1>2, <2>1 DEF Replaying
<1>8. ~\E i \in DOMAIN log[w] : Closing(log[w][i])
  <2>1. ASSUME NEW i \in DOMAIN log[w], Closing(log[w][i])
        PROVE  FALSE
    <3>1. i = Len(log[w]) /\ i > 0
      BY <1>7, <2>1 DEF RunInv, PlaceInv
    <3>2. run[w].pos > 0 => ~Closing(log[w][run[w].pos])
      BY <1>2 DEF RunInv, PlaceInv
    <3> QED
      BY <1>7, <2>1, <3>1, <3>2
  <2> QED
    BY <2>1
<1>9. ASSUME NEW v \in Workflows PROVE PlaceInv(v)'
  <2>1. CASE v # w
    BY <1>2, <1>4, <1>5, <2>1 DEF RunInv, PlaceInv, Replaying
  <2>2. CASE v = w
    <3>1. run'[w].pos = run[w].pos /\ run'[w].pc = "answered" /\ run'[w].said \in Answers
      BY <1>3, <1>4
    <3>2. Replaying(w)' = Replaying(w)
      BY <1>2, <3>1 DEF Replaying
    <3> QED
      BY <1>2, <1>5, <1>8, <2>2, <3>1, <3>2, <1>7 DEF RunInv, PlaceInv
  <2> QED
    BY <2>1, <2>2
<1>10. NoRebilledGeneration'
  <2>1. \A v \in Workflows \ {w} : InHand(v)' = InHand(v)
    BY <1>4 DEF InHand
  <2>2. InHand(w) = 0 /\ InHand(w)' = IF a = "err" THEN 0 ELSE 1
    BY <1>2, <1>3, <1>4 DEF InHand
  <2>3. Cardinality(Generations(log[w])) \in Nat /\ lost[w] \in Nat
    BY LogType, GenerationsCount DEF RunInv, TypeInv
  <2>4. billed'[w] = Cardinality(Generations(log[w])) + lost[w] + InHand(w)'
    BY <1>4, <2>2, <2>3 DEF RunInv, NoRebilledGeneration
  <2> QED
    BY <1>2, <1>4, <2>1, <2>4 DEF RunInv, NoRebilledGeneration
<1> QED
  BY <1>6, <1>8, <1>9, <1>10 DEF RunInv

LEMMA StepCases ==
    ASSUME RunInv, NEW w \in Workflows, Step(w)
    PROVE  Start(w) \/ Diverge(w) \/ RecordResult(w) \/ Generate(w) \/ StepTaken(w)
BY ProbeTakesStep, ResolveTakesStep, GetTakesStep, CreateTakesStep, UserTakesStep,
   GenerateTakesStep, ModelEventTakesStep, CloseTakesStep, FailureTakesStep DEF Step

LEMMA RunNext == RunInv /\ [Next]_vars => RunInv'
<1> SUFFICES ASSUME RunInv, [Next]_vars PROVE RunInv'
  OBVIOUS
<1>1. ASSUME NEW w \in Workflows, Send(w) PROVE RunInv'
  BY <1>1, SendKeepsInv
<1>2. ASSUME NEW w \in Workflows, Step(w) PROVE RunInv'
  <2>1. CASE StepTaken(w)
    BY <2>1, StepKeepsType, StepKeepsPlace, StepKeepsBill DEF RunInv
  <2> QED
    BY <1>2, <2>1, StepCases, StartKeepsInv, DivergeKeepsInv, RecordKeepsInv, AnswerKeepsInv
<1> QED
  BY <1>1, <1>2, CrashKeepsInv, PageKeepsInv DEF Next

LEMMA RunInit == Init => RunInv
<1> SUFFICES ASSUME Init PROVE RunInv
  OBVIOUS
<1>1. /\ status = [w \in Workflows |-> "NONE"] /\ result = [w \in Workflows |-> ""]
      /\ log = [w \in Workflows |-> <<>>] /\ run = [w \in Workflows |-> Off]
      /\ rows = {} /\ events = <<>> /\ stream = [w \in Workflows |-> "none"]
      /\ crashes = 0 /\ signouts = 0
      /\ billed = [w \in Workflows |-> 0] /\ lost = [w \in Workflows |-> 0]
  BY DEF Init
<1>2. /\ log \in [Workflows -> Seq(Entry)] /\ events \in Seq(Event) /\ DOMAIN events = {}
      /\ \A w \in Workflows : log[w] = <<>> /\ Len(log[w]) = 0 /\ DOMAIN log[w] = {}
  <2>1. <<>> \in Seq(Entry) /\ <<>> \in Seq(Event) /\ Len(<<>>) = 0 /\ DOMAIN <<>> = {}
    OBVIOUS
  <2> QED
    BY <1>1, <2>1, Zenon
<1>3. /\ run \in [Workflows -> Execution]
      /\ \A w \in Workflows : run[w] = Off /\ run[w].pc = "off" /\ run[w].pos = 0
  BY <1>1, OffType
<1>4. TypeInv
  <2>1. \A w \in Workflows : run[w].pos <= Len(log[w])
    BY <1>2, <1>3
  <2> QED
    BY <1>1, <1>2, <1>3, <2>1 DEF TypeInv, RunTypeOK
<1>5. ASSUME NEW w \in Workflows PROVE PlaceInv(w)
  BY <1>1, <1>2, <1>3 DEF PlaceInv
<1>6. NoRebilledGeneration
  <2>1. ASSUME NEW w \in Workflows
        PROVE  Cardinality(Generations(log[w])) = 0 /\ InHand(w) = 0
    <3>1. Generations(log[w]) = {}
      BY <1>2 DEF Generations
    <3>2. InHand(w) = 0
      BY <1>3 DEF InHand
    <3> QED
      BY <3>1, <3>2, FS_EmptySet
  <2>2. \A w \in Workflows : billed[w] = 0 /\ lost[w] = 0
    BY <1>1
  <2> QED
    BY <2>1, <2>2 DEF NoRebilledGeneration
<1> QED
  BY <1>4, <1>5, <1>6 DEF RunInv

LEMMA RunInvariant == Spec => []RunInv
  BY RunInit, RunNext, PTL DEF Spec

\* The rows and the executions have their types; an execution belongs to a live
\* process and a run that is PENDING, and an event to a session that exists.
THEOREM RunTypes == Spec => []RunTypeOK
<1>1. RunInv => RunTypeOK
  BY DEF RunInv, TypeInv
<1> QED
  BY <1>1, RunInvariant, PTL

\* However often a run of any length is killed and recovered, its provider has
\* answered once for each generation in the log, and once more for an answer in
\* hand or for each one a crash destroyed.
THEOREM GenerationsPaidOnce == Spec => []NoRebilledGeneration
<1>1. RunInv => NoRebilledGeneration
  BY DEF RunInv
<1> QED
  BY <1>1, RunInvariant, PTL

-----------------------------------------------------------------------------
(* What is committed stays.                                                *)

LEMMA AppendPrefix ==
    ASSUME NEW T, NEW s \in Seq(T), NEW e \in T
    PROVE  IsPrefix(s, Append(s, e))
<1> DEFINE n == Len(s)
           t == Append(s, e)
           u == SubSeq(t, 1, n)
<1>1. n \in Nat /\ Len(t) = n + 1 /\ \A i \in 1..n : t[i] = s[i]
  <2>1. n \in Nat
    OBVIOUS
  <2>2. Len(t) = n + 1 /\ \A i \in 1..n : t[i] = s[i]
    OBVIOUS
  <2> QED
    BY <2>1, <2>2
<1>2. \A i \in 1..n : s[i] \in T
  OBVIOUS
<1> HIDE DEF n, t
<1>3. /\ u \in Seq(T) /\ Len(u) = IF 1 <= n THEN n - 1 + 1 ELSE 0
      /\ \A i \in 1 .. n - 1 + 1 : u[i] = t[1 + i - 1]
  <2>1. 1 \in Int /\ n \in Int /\ \A i \in 1..n : t[i] \in T
    BY <1>1, <1>2
  <2> QED
    BY <2>1, SubSeqProperties
<1> HIDE DEF u
<1>4. Len(u) = n /\ \A i \in 1..n : u[i] = s[i]
  BY <1>1, <1>3
<1>5. u = s
  BY <1>3, <1>4, SeqEqual DEF n
<1>6. Len(s) <= Len(t)
  BY <1>1 DEF n
<1>7. SubSeq(s, 1, Len(s)) = s
  BY SubSeqFull
<1> QED
  BY <1>5, <1>6, <1>7 DEF IsPrefix, u, n, t

\* A log, or the list of events, as it was or with one more at its end.
LEMMA PrefixKept ==
    ASSUME NEW T, NEW s \in Seq(T), NEW t, t = s \/ \E e \in T : t = Append(s, e)
    PROVE  IsPrefix(s, t)
<1>1. SubSeq(s, 1, Len(s)) = s /\ Len(s) \in Nat
  BY SubSeqFull
<1>2. CASE t = s
  BY <1>1, <1>2 DEF IsPrefix
<1> QED
  BY <1>2, AppendPrefix

KeptOf(w) ==
    /\ IsPrefix(log[w], log'[w])
    /\ stream[w] = "closed" => stream'[w] = "closed"
    /\ Ended(w) => status'[w] = status[w] /\ result'[w] = result[w]

Kept == IsPrefix(events, events') /\ \A w \in Workflows : KeptOf(w)

\* Nothing that is committed changes.
LEMMA UnchangedIsKept ==
    ASSUME RunInv, UNCHANGED durable
    PROVE  Kept
<1>1. \A w \in Workflows : IsPrefix(log[w], log[w])
  BY LogType, PrefixKept
<1>2. IsPrefix(events, events)
  BY PrefixKept DEF RunInv, TypeInv
<1> QED
  BY <1>1, <1>2 DEF durable, Kept, KeptOf

\* A run that has not ended gets a status or a result.
LEMMA StatusIsKept ==
    ASSUME RunInv, NEW w \in Workflows, ~Ended(w),
           \A v \in Workflows \ {w} : status'[v] = status[v] /\ result'[v] = result[v],
           UNCHANGED <<log, events, stream>>
    PROVE  Kept
<1>1. \A v \in Workflows : IsPrefix(log[v], log[v])
  BY LogType, PrefixKept
<1>2. IsPrefix(events, events)
  BY PrefixKept DEF RunInv, TypeInv
<1> QED
  BY <1>1, <1>2 DEF Kept, KeptOf

LEMMA StepIsKept ==
    ASSUME RunInv, NEW w \in Workflows, StepTaken(w)
    PROVE  Kept
<1>1. PICK name \in Name, out \in Out, r \in Execution : Checkpoint(w, name, out, r)
  BY DEF StepTaken
<1>2. /\ \A v \in Workflows \ {w} : log'[v] = log[v]
      /\ log'[w] = log[w] \/ \E e \in Entry : log'[w] = Append(log[w], e)
  BY <1>1, LogAfter DEF Checkpoint
<1>3. \A v \in Workflows : IsPrefix(log[v], log'[v])
  <2>1. \A v \in Workflows : log[v] \in Seq(Entry)
    BY LogType
  <2>2. \A v \in Workflows : log'[v] = log[v] \/ \E e \in Entry : log'[v] = Append(log[v], e)
    BY <1>2
  <2> QED
    BY <2>1, <2>2, PrefixKept
<1>4. IsPrefix(events, events')
  <2>1. events' = events \/ \E e \in Event : events' = Append(events, e)
    BY DEF StepTaken
  <2> QED
    BY <2>1, PrefixKept DEF RunInv, TypeInv
<1>5. \A v \in Workflows : stream[v] = "closed" => stream'[v] = "closed"
  <2>1. stream' = stream \/ stream' = [stream EXCEPT ![w] = "closed"]
    BY <1>1 DEF Checkpoint
  <2> QED
    BY <2>1 DEF RunInv, TypeInv, RunTypeOK
<1>6. UNCHANGED <<status, result>>
  BY DEF StepTaken, outside
<1> QED
  BY <1>3, <1>4, <1>5, <1>6 DEF Kept, KeptOf

LEMMA AnswerIsKept ==
    ASSUME RunInv, NEW w \in Workflows, Generate(w)
    PROVE  Kept
<1>1. stream[w] # "closed"
  BY AnswerKeepsInv DEF RunInv, PlaceInv
<1>2. /\ UNCHANGED <<status, result, log, events>>
      /\ stream' = stream \/ stream' = [stream EXCEPT ![w] = "open"]
  BY DEF Generate, outside
<1>3. \A v \in Workflows : stream[v] = "closed" => stream'[v] = "closed"
  BY <1>1, <1>2 DEF RunInv, TypeInv, RunTypeOK
<1>4. \A v \in Workflows : IsPrefix(log[v], log[v])
  BY LogType, PrefixKept
<1>5. IsPrefix(events, events)
  BY PrefixKept DEF RunInv, TypeInv
<1> QED
  BY <1>2, <1>3, <1>4, <1>5 DEF Kept, KeptOf

LEMMA NextKeeps == RunInv /\ [Next]_vars => [Kept]_vars
<1> SUFFICES ASSUME RunInv, Next PROVE Kept
  OBVIOUS
<1>1. ASSUME NEW w \in Workflows, Send(w) PROVE Kept
  <2>1. /\ status[w] = "NONE" /\ status' = [status EXCEPT ![w] = "ENQUEUED"]
        /\ UNCHANGED <<result, log, events, stream>>
    BY <1>1 DEF Send, Enqueue
  <2> QED
    BY <2>1, StatusIsKept DEF Ended, RunInv, TypeInv, RunTypeOK
<1>2. ASSUME NEW w \in Workflows, Start(w) PROVE Kept
  <2>1. /\ status[w] \in {"ENQUEUED", "PENDING"} /\ status' = [status EXCEPT ![w] = "PENDING"]
        /\ UNCHANGED <<result, log, events, stream>>
    BY <1>2 DEF Start
  <2> QED
    BY <2>1, StatusIsKept DEF Ended, RunInv, TypeInv, RunTypeOK
<1>3. ASSUME NEW w \in Workflows, RecordResult(w) PROVE Kept
  <2>1. /\ run[w].pc = "return" /\ UNCHANGED <<log, events, stream>>
        /\ \E s : status' = [status EXCEPT ![w] = s]
        /\ \E x : result' = [result EXCEPT ![w] = x]
    BY <1>3 DEF RecordResult, At
  <2>2. status[w] = "PENDING"
    BY <2>1 DEF RunInv, TypeInv, RunTypeOK
  <2>3. \A v \in Workflows \ {w} : status'[v] = status[v] /\ result'[v] = result[v]
    BY <2>1 DEF RunInv, TypeInv, RunTypeOK
  <2> QED
    BY <2>1, <2>2, <2>3, StatusIsKept DEF Ended
<1>4. ASSUME NEW w \in Workflows, Diverge(w) PROVE Kept
  BY <1>4, UnchangedIsKept DEF Diverge, durable
<1>5. CASE Crash \/ Boot \/ SignIn \/ SignOut
  BY <1>5, UnchangedIsKept DEF Crash, Boot, SignIn, SignOut
<1> QED
  BY <1>1, <1>2, <1>3, <1>4, <1>5, StepCases, StepIsKept, AnswerIsKept DEF Next

\* An ended run keeps its status and result, no event and no checkpoint is taken
\* back, and a closed stream is not written to again, whatever dies, replays or
\* signs out.
THEOREM CommittedStays == Spec => DurableForGood
<1>1. RunInv /\ [Next]_vars =>
        [/\ IsPrefix(events, events')
         /\ \A w \in Workflows :
              /\ IsPrefix(log[w], log'[w])
              /\ stream[w] = "closed" => stream'[w] = "closed"
              /\ Ended(w) => status'[w] = status[w] /\ result'[w] = result[w]]_vars
  BY NextKeeps DEF Kept, KeptOf
<1> QED
  BY <1>1, RunInvariant, PTL DEF Spec, DurableForGood

-----------------------------------------------------------------------------
(* The path of a run: its checkpoints tell where an execution stands, and  *)
(* what it has stored.                                                     *)

\* An append of the user's message, of a model's event, and of a failure.
IsAppend(e) == e.step = "session.AppendEvent"
UserAppend(l, n) == n > 1 /\ IsAppend(l[n]) /\ l[n-1].step = "session.SharedState" /\ l[n-1].out = "ok"
ModelAppend(l, n) == n > 1 /\ IsAppend(l[n]) /\ l[n-1].step = "model" /\ l[n-1].out # "err"
FailAppend(l, n) == IsAppend(l[n]) /\ ~UserAppend(l, n) /\ ~ModelAppend(l, n)

\* The turns of the model among the first n checkpoints.
Turns(l, n) == Cardinality({i \in 1 .. n : l[i].step = "model"})

AfterAppend(l, n) ==
    IF UserAppend(l, n)
      THEN IF l[n].out = "ok" THEN "model" ELSE "fail"
      ELSE IF ModelAppend(l, n)
        THEN IF l[n].out # "ok" THEN "fail"
             ELSE IF l[n-1].out # "more" THEN "close"
             ELSE IF Turns(l, n) < MaxTurn THEN "model" ELSE "return"
        ELSE "return"

\* Where an execution that has taken the first n checkpoints stands.
StageAfter(l, n) ==
    LET e == l[n] IN
    CASE e.step = "resolveAgent"        -> IF e.out = "closure" THEN "get"
                                           ELSE IF e.out = "digest" THEN "psleep" ELSE "return"
      [] e.step = "session.Get"         -> IF e.out = "found" THEN "shared"
                                           ELSE IF e.out = "absent" THEN "create" ELSE "fail"
      [] e.step = "session.SharedState" -> IF e.out = "ok" THEN "user" ELSE "fail"
      [] e.step = "session.Create"      -> IF e.out = "created" THEN "get" ELSE "fail"
      [] e.step = "session.AppendEvent" -> AfterAppend(l, n)
      [] e.step = "model"               -> IF e.out = "err" THEN "fail" ELSE "append"
      [] e.step = "DBOS.sleep"          -> "pcomplete"
      [] e.step = "DBOS.closeStream"    -> "return"
      [] e.step = "completeRun"         -> "return"

\* The step an execution at pc takes.
StepAt(pc) ==
    CASE pc \in {"resolve", "presolve"}    -> "resolveAgent"
      [] pc = "get"                        -> "session.Get"
      [] pc = "shared"                     -> "session.SharedState"
      [] pc = "create"                     -> "session.Create"
      [] pc \in {"user", "append", "fail"} -> "session.AppendEvent"
      [] pc \in {"model", "answered"}      -> "model"
      [] pc = "close"                      -> "DBOS.closeStream"
      [] pc = "psleep"                     -> "DBOS.sleep"
      [] pc = "pcomplete"                  -> "completeRun"

Opening == {"resolveAgent", "session.Get", "session.SharedState", "session.Create"}

\* Every checkpoint is the step that follows the checkpoint before it.
OnPath(l, n) ==
    /\ n = 1 => l[n].step = "resolveAgent"
    /\ n > 1 => /\ StageAfter(l, n - 1) # "return"
                /\ l[n].step = StepAt(StageAfter(l, n - 1))
    /\ l[n].step \in Opening => \A m \in 1 .. n - 1 : l[m].step \in Opening
    /\ l[n].step = "model" => \E m \in 1 .. n - 1 : UserAppend(l, m) /\ l[m].out = "ok"

\* An execution stands where its checkpoints have brought it.
Follows(w) ==
    LET l == log[w]  r == run[w] IN
    r.pc \notin {"off", "return"} =>
      /\ r.turn = Turns(l, r.pos)
      /\ r.pos = 0 => r.pc \in {"resolve", "presolve"}
      /\ r.pos > 0 => \/ r.pc = StageAfter(l, r.pos)
                      \/ r.pc = "answered" /\ StageAfter(l, r.pos) = "model"
      /\ r.pc = "append" => r.said = l[r.pos].out
      /\ r.pc = "close" => r.said = l[r.pos - 1].out

\* The server runs the whole workflow only.
Calm(w) ==
    deps = "env" => /\ run[w].pc \notin {"presolve", "psleep", "pcomplete"}
                    /\ \A n \in DOMAIN log[w] : log[w][n].out # "digest"

PathInv(w) ==
    /\ \A n \in DOMAIN log[w] : OnPath(log[w], n)
    /\ Follows(w)
    /\ Calm(w)

EarlyId(s) == <<"error", s, 0, 0>>

\* The checkpoint of a stored event, in the log l of its run.
Evidence(e, l) ==
    /\ e.s = SessionOf[e.w]
    /\ e.kind = "user" =>
         /\ e.id[1] = "user" /\ e.id[2] = e.w
         /\ \E n \in DOMAIN l : UserAppend(l, n) /\ l[n].out = "ok"
    /\ e.kind \in {"model", "coded"} =>
         /\ e.id[1] = "model" /\ e.id[2] = e.w
         /\ \E n \in DOMAIN l : /\ ModelAppend(l, n) /\ l[n].out = "ok" /\ Turns(l, n) = e.id[3]
                                /\ e.kind = "coded" <=> l[n-1].out = "coded"
    /\ e.kind = "error" =>
         /\ e.id[1] = "error" /\ (e.id[2] = e.w \/ e.id = EarlyId(e.s))
         /\ \E n \in DOMAIN l : FailAppend(l, n) /\ l[n].out = "ok"

Has(es, w, kind) == \E i \in DOMAIN es : es[i].w = w /\ es[i].kind = kind

Told(es, w) ==
    \E i \in DOMAIN es :
        /\ es[i].kind \in {"error", "coded"}
        /\ es[i].w = w \/ es[i].id = EarlyId(SessionOf[w])

\* The event of a checkpointed append, among the events es.
Leaves(l, n, w, es) ==
    IsAppend(l[n]) /\ l[n].out = "ok" =>
      /\ UserAppend(l, n) => Has(es, w, "user")
      /\ ModelAppend(l, n) => Has(es, w, IF l[n-1].out = "coded" THEN "coded" ELSE "model")
      /\ FailAppend(l, n) => Told(es, w)

\* The order of the events of one run.
Before(f, e) ==
    \/ f.kind = "user" /\ e.kind # "user"
    \/ f.kind = "model" /\ e.kind = "error"
    \/ f.kind = "model" /\ e.kind \in {"model", "coded"} /\ f.id[3] < e.id[3]

Paths == \A w \in Workflows : PathInv(w)

\* The events and the checkpoints agree.
Stores ==
    /\ \A i \in DOMAIN events : Evidence(events[i], log[events[i].w])
    /\ \A w \in Workflows : \A n \in DOMAIN log[w] : Leaves(log[w], n, w, events)
    /\ EventsOnce

TurnIn(es, w) ==
    \E i, j \in DOMAIN es :
        /\ i < j /\ es[i].w = w /\ es[j].w = w
        /\ es[i].kind = "user" /\ es[j].kind = "model"

\* What a run has reported, or is about to.
Says(w, res) == result[w] = res \/ (run[w].pc = "return" /\ run[w].res = res)

\* A report says what has been stored.
ReportInv(w) ==
    /\ Says(w, "ERROR") => Told(events, w)
    /\ deps = "env" => ~Says(w, "diverged") /\ (Says(w, "SUCCESS") => TurnIn(events, w))

Reports == \A w \in Workflows : ReportInv(w)

TurnInv == Paths /\ Stores /\ Reports

\* Counting turns, one checkpoint at a time.
LEMMA TurnsCount ==
    ASSUME NEW l \in Seq(Entry), NEW n \in Nat
    PROVE  /\ Turns(l, n) \in Nat
           /\ Turns(l, 0) = 0
           /\ Turns(l, n + 1) = Turns(l, n) + (IF l[n + 1].step = "model" THEN 1 ELSE 0)
           /\ \A m \in 1 .. n : Turns(l, m) <= Turns(l, n)
<1> DEFINE T(k) == {i \in 1 .. k : l[i].step = "model"}
<1>1. ASSUME NEW k \in Nat
      PROVE  IsFiniteSet(T(k)) /\ Cardinality(T(k)) \in Nat
  <2>1. IsFiniteSet(1 .. k) /\ T(k) \subseteq 1 .. k
    BY FS_Interval
  <2> QED
    BY <2>1, FS_Subset, FS_CardinalityType
<1>2. Turns(l, 0) = 0
  <2>1. T(0) = {}
    OBVIOUS
  <2> QED
    BY <2>1, FS_EmptySet DEF Turns
<1>3. Turns(l, n + 1) = Turns(l, n) + (IF l[n + 1].step = "model" THEN 1 ELSE 0)
  <2>1. n + 1 \notin T(n)
    OBVIOUS
  <2>2. T(n + 1) = IF l[n + 1].step = "model" THEN T(n) \cup {n + 1} ELSE T(n)
    OBVIOUS
  <2>3. Cardinality(T(n) \cup {n + 1}) = Cardinality(T(n)) + 1
    BY <1>1, <2>1, FS_AddElement
  <2>4. Cardinality(T(n)) \in Nat
    BY <1>1
  <2>5. /\ Turns(l, n) = Cardinality(T(n))
        /\ Turns(l, n + 1) = Cardinality(T(n + 1))
    BY DEF Turns
  <2> HIDE DEF T
  <2>6. CASE l[n + 1].step = "model"
    BY <2>2, <2>3, <2>5, <2>6
  <2>7. CASE l[n + 1].step # "model"
    BY <2>2, <2>4, <2>5, <2>7
  <2> QED
    BY <2>6, <2>7
<1>4. ASSUME NEW m \in 1 .. n
      PROVE  Turns(l, m) <= Turns(l, n)
  <2>1. T(m) \subseteq T(n)
    OBVIOUS
  <2> QED
    BY <1>1, <2>1, FS_Subset DEF Turns
<1> QED
  BY <1>1, <1>2, <1>3, <1>4 DEF Turns

\* A longer log says the same of the checkpoints it shares.
LEMMA PathShared ==
    ASSUME NEW l \in Seq(Entry), NEW e \in Entry, NEW n \in DOMAIN l
    PROVE  LET k == Append(l, e) IN
           /\ k[n] = l[n] /\ n \in DOMAIN k
           /\ n > 1 => k[n - 1] = l[n - 1]
           /\ UserAppend(k, n) <=> UserAppend(l, n)
           /\ ModelAppend(k, n) <=> ModelAppend(l, n)
           /\ FailAppend(k, n) <=> FailAppend(l, n)
           /\ Turns(k, n) = Turns(l, n)
           /\ StageAfter(k, n) = StageAfter(l, n)
<1> DEFINE k == Append(l, e)
<1>1. /\ DOMAIN l = 1 .. Len(l) /\ Len(l) \in Nat /\ DOMAIN k = 1 .. Len(l) + 1
      /\ \A i \in 1 .. Len(l) : k[i] = l[i]
  OBVIOUS
<1> HIDE DEF k
<1>2. k[n] = l[n] /\ n \in DOMAIN k /\ (n > 1 => k[n - 1] = l[n - 1])
  BY <1>1
<1>3. Turns(k, n) = Turns(l, n)
  <2>1. {i \in 1 .. n : k[i].step = "model"} = {i \in 1 .. n : l[i].step = "model"}
    BY <1>1
  <2> QED
    BY <2>1 DEF Turns
<1>4. /\ UserAppend(k, n) <=> UserAppend(l, n)
      /\ ModelAppend(k, n) <=> ModelAppend(l, n)
  BY <1>2 DEF UserAppend, ModelAppend
<1>5. FailAppend(k, n) <=> FailAppend(l, n)
  BY <1>2, <1>4 DEF FailAppend
<1>6. AfterAppend(k, n) = AfterAppend(l, n)
  <2>1. ModelAppend(l, n) => n > 1
    BY DEF ModelAppend
  <2> QED
    BY <1>2, <1>3, <1>4, <2>1 DEF AfterAppend
<1>7. StageAfter(k, n) = StageAfter(l, n)
  BY <1>2, <1>6 DEF StageAfter
<1> QED
  BY <1>2, <1>3, <1>4, <1>5, <1>7 DEF k

\* What a stage says of the checkpoint before it.
LEMMA StageOf ==
    ASSUME NEW l \in Seq(Entry), NEW n \in DOMAIN l
    PROVE  LET pc == StageAfter(l, n) IN
           /\ pc \in Stage \ {"off", "resolve", "presolve", "answered"}
           /\ pc \in {"get", "shared", "create", "user"} => l[n].step \in Opening
           /\ pc = "user" => l[n].step = "session.SharedState" /\ l[n].out = "ok"
           /\ pc = "append" => l[n].step = "model" /\ l[n].out # "err"
           /\ pc = "fail" => ~(l[n].step = "session.SharedState" /\ l[n].out = "ok")
           /\ pc = "fail" => ~(l[n].step = "model" /\ l[n].out # "err")
           /\ pc = "close" => ModelAppend(l, n) /\ l[n].out = "ok" /\ l[n-1].out # "more"
           /\ pc = "model" => l[n].out = "ok" /\ (UserAppend(l, n) \/ ModelAppend(l, n))
           /\ pc = "psleep" => l[n].out = "digest"
           /\ pc = "pcomplete" => l[n].step = "DBOS.sleep"
<1>1. l[n] \in Entry
  OBVIOUS
<1>2. l[n].step \in Name /\ l[n].out \in Out
  BY <1>1 DEF Entry
<1>3. ASSUME l[n].step = "session.AppendEvent"
      PROVE  /\ AfterAppend(l, n) \in {"model", "fail", "close", "return"}
             /\ AfterAppend(l, n) = "close" =>
                  ModelAppend(l, n) /\ l[n].out = "ok" /\ l[n-1].out # "more"
             /\ AfterAppend(l, n) = "model" =>
                  l[n].out = "ok" /\ (UserAppend(l, n) \/ ModelAppend(l, n))
  BY DEF AfterAppend
<1>4. CASE l[n].step = "session.AppendEvent"
  <2>1. StageAfter(l, n) = AfterAppend(l, n)
    BY <1>4 DEF StageAfter
  <2> QED
    BY <1>3, <1>4, <2>1 DEF Stage
<1>5. CASE l[n].step # "session.AppendEvent"
  BY <1>2, <1>5 DEF StageAfter, Stage, Name, Opening
<1> QED
  BY <1>4, <1>5

\* The checkpoint of the step a run takes stays on its path.
LEMMA PathGrows ==
    ASSUME NEW l \in Seq(Entry), NEW e \in Entry,
           \A n \in DOMAIN l : OnPath(l, n),
           Len(l) = 0 => e.step = "resolveAgent",
           Len(l) > 0 => /\ StageAfter(l, Len(l)) # "return"
                         /\ e.step = StepAt(StageAfter(l, Len(l)))
    PROVE  \A n \in DOMAIN Append(l, e) : OnPath(Append(l, e), n)
<1> DEFINE k == Append(l, e)
           L == Len(l)
<1>1. /\ DOMAIN l = 1 .. L /\ L \in Nat /\ DOMAIN k = 1 .. L + 1
      /\ k \in Seq(Entry) /\ k[L + 1] = e
  OBVIOUS
<1>2. \A n \in DOMAIN l : /\ k[n] = l[n]
                          /\ UserAppend(k, n) <=> UserAppend(l, n)
                          /\ StageAfter(k, n) = StageAfter(l, n)
  BY PathShared
<1>3. ASSUME NEW n \in DOMAIN l
      PROVE  OnPath(k, n)
  <2>1. \A m \in 1 .. n - 1 : m \in DOMAIN l
    BY <1>1
  <2>2. n > 1 => n - 1 \in DOMAIN l
    BY <1>1
  <2> HIDE DEF k, L
  <2> QED
    BY <1>2, <2>1, <2>2 DEF OnPath
<1>4. OnPath(k, L + 1)
  <2>1. CASE L = 0
    BY <1>1, <2>1 DEF OnPath
  <2>2. CASE L > 0
    <3> DEFINE pc == StageAfter(l, L)
    <3>0. /\ L \in Nat /\ L > 0 /\ DOMAIN l = 1 .. L
          /\ pc # "return" /\ e.step = StepAt(pc)
      BY <1>1, <2>2
    <3> HIDE DEF L
    <3>1. /\ L \in DOMAIN l /\ L + 1 > 1 /\ L + 1 # 1 /\ L + 1 - 1 = L
          /\ \A m \in 1 .. L : m \in DOMAIN l /\ (m = L \/ m \in 1 .. L - 1)
          /\ \A m \in 1 .. L - 1 : m \in DOMAIN l
      BY <3>0
    <3>2. /\ pc \in Stage \ {"off", "resolve", "presolve", "answered", "return"}
          /\ pc \in {"get", "shared", "create"} => l[L].step \in Opening
          /\ pc = "model" => l[L].out = "ok" /\ (UserAppend(l, L) \/ ModelAppend(l, L))
          /\ e.step = StepAt(pc)
      BY <3>0, <3>1, StageOf
    <3>3. OnPath(l, L) /\ \A m \in 1 .. L - 1 : OnPath(l, m)
      BY <3>1
    <3> HIDE DEF pc, k
    <3>4. e.step \in Opening => \A m \in 1 .. L : k[m].step \in Opening
      <4>1. e.step \in Opening => pc \in {"get", "shared", "create"}
        BY <3>2 DEF StepAt, Opening, Stage
      <4>2. l[L].step \in Opening => \A m \in 1 .. L - 1 : l[m].step \in Opening
        BY <3>3 DEF OnPath
      <4> QED
        BY <1>2, <3>1, <3>2, <4>1, <4>2
    <3>5. e.step = "model" => \E m \in 1 .. L : UserAppend(k, m) /\ k[m].out = "ok"
      <4>1. e.step = "model" => pc = "model"
        BY <3>2 DEF StepAt, Stage
      <4>2. CASE UserAppend(l, L) /\ l[L].out = "ok"
        BY <1>1, <1>2, <2>2, <3>1, <4>2
      <4>3. CASE ModelAppend(l, L)
        <5>1. L - 1 \in 1 .. L - 1 /\ l[L - 1].step = "model"
          BY <1>1, <4>3 DEF ModelAppend
        <5>2. PICK m \in 1 .. (L - 1) - 1 : UserAppend(l, m) /\ l[m].out = "ok"
          BY <3>3, <5>1 DEF OnPath
        <5>3. m \in 1 .. L
          BY <1>1
        <5> QED
          BY <1>2, <3>1, <5>2, <5>3
      <4> QED
        BY <3>2, <4>1, <4>2, <4>3
    <3>6. StageAfter(k, L) = pc /\ k[L + 1] = e
      BY <1>1, <1>2, <3>1 DEF pc
    <3> QED
      BY <3>1, <3>2, <3>4, <3>5, <3>6 DEF OnPath
  <2> QED
    BY <1>1, <2>1, <2>2
<1> QED
  BY <1>1, <1>3, <1>4

\* A step of w, from the checkpoint it found or the one it made, as its path has it.
Took(w, name, out) ==
    LET l == log'[w]  n == run[w].pos + 1 IN
    /\ Active(w)
    /\ RunAsStep(w, name, out)
    /\ name = StepAt(run[w].pc)
    /\ deps = "env" => out # "digest"
    /\ \A v \in Workflows \ {w} : run'[v] = run[v]
    /\ run'[w].pc # "return" =>
         /\ run'[w].pos = n /\ run'[w].turn = Turns(l, n)
         /\ run'[w].pc = StageAfter(l, n)
         /\ run'[w].pc = "append" => run'[w].said = l[n].out
         /\ run'[w].pc = "close" => run'[w].said = l[n - 1].out

LEMMA TookKeepsPath ==
    ASSUME RunInv, RunInv', Paths, NEW w \in Workflows, NEW name \in Name, NEW out \in Out,
           Took(w, name, out), UNCHANGED deps
    PROVE  Paths'
<1> DEFINE e == [step |-> name, out |-> out]
           n == run[w].pos + 1
           l == log[w]
           k == log'[w]
<1>1. /\ \A v \in Workflows \ {w} : log'[v] = log[v]
      /\ n \in 1 .. Len(k) /\ k[n] = e
      /\ \/ k = l /\ Replaying(w)
         \/ ~Replaying(w) /\ Len(l) = run[w].pos /\ k = Append(l, e)
      /\ l \in Seq(Entry) /\ k \in Seq(Entry) /\ e \in Entry
  BY LogAfter DEF Took, RunInv, TypeInv
<1>2. /\ run[w].pc \notin {"off", "return"} /\ name = StepAt(run[w].pc)
      /\ deps = "env" => out # "digest"
      /\ \A v \in Workflows \ {w} : run'[v] = run[v]
      /\ run[w].pos \in Nat
  BY ExecutionOf DEF Took, Active
<1>3. ASSUME NEW v \in Workflows \ {w} PROVE PathInv(v)'
  BY <1>1, <1>2 DEF Paths, PathInv, Follows, Calm
<1>4. /\ \A m \in DOMAIN l : OnPath(l, m)
      /\ Follows(w) /\ Calm(w)
  BY DEF Paths, PathInv
<1>5. \A m \in DOMAIN k : OnPath(k, m)
  <2>1. CASE k = l
    BY <1>4, <2>1
  <2>2. CASE Len(l) = run[w].pos /\ k = Append(l, e)
    <3>1. Len(l) = 0 => e.step = "resolveAgent"
      BY <1>2, <1>4, <2>2 DEF Follows, StepAt
    <3>2. Len(l) > 0 => /\ StageAfter(l, Len(l)) # "return"
                        /\ e.step = StepAt(StageAfter(l, Len(l)))
      BY <1>2, <1>4, <2>2 DEF Follows, StepAt
    <3> HIDE DEF e, l, k
    <3> QED
      BY <1>1, <1>4, <2>2, <3>1, <3>2, PathGrows
  <2> QED
    BY <1>1, <2>1, <2>2
<1>6. n \in DOMAIN k
  BY <1>1
<1>7. Follows(w)'
  <2>1. n > 0
    BY <1>2
  <2> QED
    BY <2>1 DEF Follows, Took
<1>8. Calm(w)'
  <2> SUFFICES ASSUME deps = "env"
               PROVE  /\ run'[w].pc \notin {"presolve", "psleep", "pcomplete"}
                      /\ \A m \in DOMAIN k : k[m].out # "digest"
    BY DEF Calm
  <2>1. name # "DBOS.sleep"
    BY <1>2, <1>4, ExecutionOf DEF Calm, StepAt, Execution, Stage
  <2>2. run'[w].pc \notin {"presolve", "psleep", "pcomplete"}
    <3>1. CASE run'[w].pc = "return"
      BY <3>1
    <3>2. CASE run'[w].pc = StageAfter(k, n)
      BY <1>1, <1>2, <1>6, <2>1, <3>2, StageOf
    <3> QED
      BY <3>1, <3>2 DEF Took
  <2>3. \A m \in DOMAIN k : k[m].out # "digest"
    <3>1. \A m \in DOMAIN l : l[m].out # "digest"
      BY <1>4 DEF Calm
    <3>2. \A m \in DOMAIN k : m = n \/ (m \in DOMAIN l /\ k[m] = l[m])
      <4>1. CASE k = l
        BY <4>1
      <4>2. CASE Len(l) = run[w].pos /\ k = Append(l, e)
        <5>1. /\ DOMAIN Append(l, e) = 1 .. Len(l) + 1 /\ DOMAIN l = 1 .. Len(l) /\ Len(l) \in Nat
              /\ \A m \in 1 .. Len(l) : Append(l, e)[m] = l[m]
          BY <1>1
        <5> HIDE DEF e, l, k
        <5> QED
          BY <4>2, <5>1
      <4> QED
        BY <1>1, <4>1, <4>2
    <3> QED
      BY <1>1, <1>2, <3>1, <3>2
  <2> QED
    BY <2>2, <2>3
<1> QED
  BY <1>3, <1>5, <1>7, <1>8 DEF Paths, PathInv

-----------------------------------------------------------------------------
(* Events and checkpoints.                                                 *)

LEMMA EventsGrow ==
    ASSUME NEW es \in Seq(Event), NEW e \in Event, NEW w
    PROVE  LET fs == Append(es, e) IN
           /\ DOMAIN fs = DOMAIN es \cup {Len(es) + 1} /\ fs[Len(es) + 1] = e
           /\ \A i \in DOMAIN es : fs[i] = es[i] /\ i < Len(es) + 1 /\ i \in Nat
           /\ \A kind : Has(es, w, kind) => Has(fs, w, kind)
           /\ Told(es, w) => Told(fs, w)
           /\ TurnIn(es, w) => TurnIn(fs, w)
           /\ e.w = w => Has(fs, w, e.kind)
<1> DEFINE fs == Append(es, e)
<1>1. /\ DOMAIN fs = DOMAIN es \cup {Len(es) + 1} /\ fs[Len(es) + 1] = e
      /\ \A i \in DOMAIN es : fs[i] = es[i] /\ i < Len(es) + 1 /\ i \in Nat
  OBVIOUS
<1> HIDE DEF fs
<1>2. \A kind : Has(es, w, kind) => Has(fs, w, kind)
  BY <1>1 DEF Has
<1>3. Told(es, w) => Told(fs, w)
  BY <1>1 DEF Told
<1>4. TurnIn(es, w) => TurnIn(fs, w)
  BY <1>1 DEF TurnIn
<1>5. e.w = w => Has(fs, w, e.kind)
  BY <1>1 DEF Has
<1> QED
  BY <1>1, <1>2, <1>3, <1>4, <1>5 DEF fs

LEMMA EvidenceKept ==
    ASSUME NEW l \in Seq(Entry), NEW x \in Entry, NEW e \in Event, Evidence(e, l)
    PROVE  Evidence(e, Append(l, x))
<1> DEFINE k == Append(l, x)
<1>1. \A n \in DOMAIN l :
        /\ k[n] = l[n] /\ n \in DOMAIN k
        /\ n > 1 => k[n - 1] = l[n - 1]
        /\ UserAppend(k, n) <=> UserAppend(l, n)
        /\ ModelAppend(k, n) <=> ModelAppend(l, n)
        /\ FailAppend(k, n) <=> FailAppend(l, n)
        /\ Turns(k, n) = Turns(l, n)
  BY PathShared
<1> HIDE DEF k
<1>2. \A n \in DOMAIN l : ModelAppend(l, n) => n > 1
  BY DEF ModelAppend
<1> QED
  BY <1>1, <1>2 DEF Evidence, k

LEMMA LeavesKept ==
    ASSUME NEW l \in Seq(Entry), NEW x \in Entry, NEW n \in DOMAIN l,
           NEW w, NEW es \in Seq(Event), NEW fs, fs = es \/ \E e \in Event : fs = Append(es, e),
           NEW k, k = l \/ k = Append(l, x),
           Leaves(l, n, w, es)
    PROVE  Leaves(k, n, w, fs)
<1>1. /\ k[n] = l[n]
      /\ n > 1 => k[n - 1] = l[n - 1]
      /\ UserAppend(k, n) <=> UserAppend(l, n)
      /\ ModelAppend(k, n) <=> ModelAppend(l, n)
      /\ FailAppend(k, n) <=> FailAppend(l, n)
  <2>1. CASE k = l
    BY <2>1
  <2>2. CASE k = Append(l, x)
    BY <2>2, PathShared
  <2> QED
    BY <2>1, <2>2
<1>2. /\ \A kind : Has(es, w, kind) => Has(fs, w, kind)
      /\ Told(es, w) => Told(fs, w)
  <2>1. CASE fs = es
    BY <2>1
  <2>2. ASSUME NEW e \in Event, fs = Append(es, e)
        PROVE  /\ \A kind : Has(es, w, kind) => Has(fs, w, kind)
               /\ Told(es, w) => Told(fs, w)
    BY <2>2, EventsGrow
  <2> QED
    BY <2>1, <2>2
<1>3. ModelAppend(l, n) => n > 1
  BY DEF ModelAppend
<1> QED
  BY <1>1, <1>2, <1>3 DEF Leaves

\* One more checkpoint of w, and at most one more event.
LEMMA StoresGrow ==
    ASSUME RunInv, Stores, NEW w \in Workflows,
           \A v \in Workflows \ {w} : log'[v] = log[v],
           \/ log'[w] = log[w]
           \/ /\ \E x \in Entry : log'[w] = Append(log[w], x)
              /\ Leaves(log'[w], Len(log[w]) + 1, w, events'),
           \/ events' = events
           \/ \E e \in Event :
                /\ events' = Append(events, e)
                /\ e.w = w /\ Evidence(e, log'[w])
                /\ \A i \in DOMAIN events : events[i].w = w => Before(events[i], e)
    PROVE  Stores'
<1>1. /\ events \in Seq(Event)
      /\ \A v \in Workflows : log[v] \in Seq(Entry)
      /\ \A i \in DOMAIN events : events[i] \in Event /\ events[i].w \in Workflows
  <2>1. events \in Seq(Event) /\ \A v \in Workflows : log[v] \in Seq(Entry)
    BY DEF RunInv, TypeInv
  <2>2. \A i \in DOMAIN events : events[i] \in Event
    BY <2>1
  <2> QED
    BY <2>1, <2>2 DEF Event
<1>2. \A v \in Workflows : log'[v] = log[v] \/ \E x \in Entry : log'[v] = Append(log[v], x)
  OBVIOUS
<1>3. ASSUME NEW i \in DOMAIN events
      PROVE  Evidence(events[i], log'[events[i].w])
  <2>1. Evidence(events[i], log[events[i].w])
    BY DEF Stores
  <2> QED
    BY <1>1, <1>2, <2>1, EvidenceKept
<1>4. ASSUME NEW v \in Workflows, NEW n \in DOMAIN log[v]
      PROVE  Leaves(log'[v], n, v, events')
  <2>1. Leaves(log[v], n, v, events)
    BY DEF Stores
  <2>2. events' = events \/ \E e \in Event : events' = Append(events, e)
    OBVIOUS
  <2>3. CASE log'[v] = log[v]
    <3>1. PICK x \in Entry : TRUE
      <4>1. [step |-> "model", out |-> "ok"] \in Entry
        BY DEF Entry, Name, Out
      <4> QED
        BY <4>1
    <3> QED
      BY <1>1, <2>1, <2>2, <2>3, <3>1, LeavesKept
  <2>4. CASE \E x \in Entry : log'[v] = Append(log[v], x)
    BY <1>1, <2>1, <2>2, <2>4, LeavesKept
  <2> QED
    BY <1>2, <2>3, <2>4
<1>5. ASSUME NEW v \in Workflows, NEW n \in DOMAIN log'[v]
      PROVE  Leaves(log'[v], n, v, events')
  <2>1. CASE log'[v] = log[v]
    BY <1>4, <2>1
  <2>2. CASE v = w /\ (\E x \in Entry : log'[w] = Append(log[w], x))
                   /\ Leaves(log'[w], Len(log[w]) + 1, w, events')
    <3>1. DOMAIN log'[w] = DOMAIN log[w] \cup {Len(log[w]) + 1}
      BY <1>1, <2>2
    <3> QED
      BY <1>4, <2>2, <3>1
  <2> QED
    BY <2>1, <2>2
<1>6. CASE events' = events
  BY <1>3, <1>5, <1>6 DEF Stores, EventsOnce
<1>7. ASSUME NEW e \in Event,
             events' = Append(events, e), e.w = w, Evidence(e, log'[w]),
             \A i \in DOMAIN events : events[i].w = w => Before(events[i], e)
      PROVE  Stores'
  <2> DEFINE N == Len(events) + 1
  <2>1. /\ DOMAIN events' = DOMAIN events \cup {N} /\ events'[N] = e
        /\ \A i \in DOMAIN events : events'[i] = events[i] /\ i < N /\ i \in Nat
        /\ N \in Nat
    BY <1>1, <1>7, EventsGrow
  <2> HIDE DEF N
  <2>2. \A i \in DOMAIN events' : Evidence(events'[i], log'[events'[i].w])
    BY <1>3, <1>7, <2>1
  <2>3. ASSUME NEW i \in DOMAIN events', NEW j \in DOMAIN events',
               events'[i].w = events'[j].w, i < j
        PROVE  Before(events'[i], events'[j])
    <3>1. i \in DOMAIN events
      BY <2>1, <2>3
    <3>2. CASE j \in DOMAIN events
      BY <2>1, <2>3, <3>1, <3>2 DEF Stores, EventsOnce, Before
    <3>3. CASE j = N
      BY <1>7, <2>1, <2>3, <3>1, <3>3
    <3> QED
      BY <2>1, <3>2, <3>3
  <2>4. EventsOnce'
    BY <2>3 DEF EventsOnce, Before
  <2> QED
    BY <1>5, <2>2, <2>4 DEF Stores
<1> QED
  BY <1>6, <1>7

-----------------------------------------------------------------------------
(* Every step takes the path.                                              *)

\* What a step finds before its checkpoint is what the step before it left.
LEMMA LogShared ==
    ASSUME RunInv, NEW w \in Workflows, NEW name \in Name, NEW out \in Out,
           RunAsStep(w, name, out)
    PROVE  LET l == log[w]  k == log'[w]  p == run[w].pos IN
           /\ p \in Nat /\ l \in Seq(Entry) /\ k \in Seq(Entry)
           /\ p + 1 \in DOMAIN k /\ k[p + 1] = [step |-> name, out |-> out]
           /\ p > 0 => /\ p \in DOMAIN l /\ k[p] = l[p]
                       /\ Turns(k, p) = Turns(l, p)
           /\ p > 1 => k[p - 1] = l[p - 1]
<1> DEFINE l == log[w]
           k == log'[w]
           p == run[w].pos
           e == [step |-> name, out |-> out]
<1>1. /\ p + 1 \in 1 .. Len(k) /\ k[p + 1] = e
      /\ \/ k = l /\ Replaying(w)
         \/ ~Replaying(w) /\ Len(l) = p /\ k = Append(l, e)
      /\ l \in Seq(Entry) /\ k \in Seq(Entry) /\ e \in Entry /\ p \in Nat
  BY LogAfter, ExecutionOf DEF RunInv, TypeInv
<1>2. p <= Len(l) /\ Len(l) \in Nat /\ DOMAIN l = 1 .. Len(l) /\ DOMAIN k = 1 .. Len(k)
  <2>1. p <= Len(l)
    BY DEF RunInv, TypeInv, RunTypeOK
  <2> HIDE DEF l, k, p, e
  <2> QED
    BY <1>1, <2>1
<1> HIDE DEF l, k, p, e
<1>3. p > 0 => p \in DOMAIN l
  <2>1. p \in Nat
    BY <1>1
  <2> QED
    BY <1>2, <2>1
<1>4. p > 0 => k[p] = l[p] /\ Turns(k, p) = Turns(l, p) /\ (p > 1 => k[p - 1] = l[p - 1])
  <2>1. CASE k = l
    BY <2>1
  <2>2. CASE k = Append(l, e)
    BY <1>1, <1>3, <2>2, PathShared
  <2> QED
    BY <1>1, <2>1, <2>2
<1>5. p > 1 => p > 0
  BY <1>1
<1> QED
  BY <1>1, <1>2, <1>3, <1>4, <1>5 DEF l, k, p, e

LEMMA EntryAfter ==
    ASSUME RunInv, NEW w \in Workflows, NEW name \in Name, NEW out \in Out,
           RunAsStep(w, name, out)
    PROVE  log'[w][run[w].pos + 1] = [step |-> name, out |-> out]
BY LogShared

LEMMA TurnAfter ==
    ASSUME RunInv, NEW w \in Workflows, NEW name \in Name, NEW out \in Out,
           RunAsStep(w, name, out), Active(w), Follows(w)
    PROVE  /\ Turns(log'[w], run[w].pos + 1) = run[w].turn + (IF name = "model" THEN 1 ELSE 0)
           /\ run[w].turn \in Nat
<1> DEFINE l == log[w]
           k == log'[w]
           p == run[w].pos
<1>1. /\ p \in Nat /\ k \in Seq(Entry) /\ l \in Seq(Entry)
      /\ k[p + 1].step = name
      /\ p > 0 => Turns(k, p) = Turns(l, p)
      /\ run[w].turn = Turns(l, p)
  <2>1. run[w].turn = Turns(l, p)
    BY DEF Follows, Active
  <2>2. k[p + 1] = [step |-> name, out |-> out]
    BY LogShared
  <2>3. /\ p \in Nat /\ k \in Seq(Entry) /\ l \in Seq(Entry)
        /\ p > 0 => Turns(k, p) = Turns(l, p)
    BY LogShared
  <2> QED
    BY <2>1, <2>2, <2>3
<1> HIDE DEF l, k, p
<1>2. /\ Turns(k, p + 1) = Turns(k, p) + (IF k[p + 1].step = "model" THEN 1 ELSE 0)
      /\ Turns(k, 0) = 0 /\ Turns(l, 0) = 0 /\ Turns(l, p) \in Nat
  BY <1>1, TurnsCount
<1>3. Turns(k, p) = Turns(l, p)
  <2>1. CASE p = 0
    BY <1>2, <2>1
  <2>2. CASE p > 0
    BY <1>1, <2>2
  <2> QED
    BY <1>1, <2>1, <2>2
<1> QED
  BY <1>1, <1>2, <1>3 DEF k, p

LEMMA GotoTook ==
    ASSUME RunInv, Paths, NEW w \in Workflows, NEW name \in Name, NEW out \in Out,
           Active(w), RunAsStep(w, name, out), name = StepAt(run[w].pc), name # "model",
           deps = "env" => out # "digest",
           NEW pc, Goto(w, pc), pc \notin {"append", "close"},
           StageAfter(log'[w], run[w].pos + 1) = pc
    PROVE  Took(w, name, out) /\ run'[w].pc = pc
<1>1. run[w] \in Execution /\ run \in [Workflows -> Execution]
  BY ExecutionOf
<1>2. /\ run'[w].pc = pc /\ run'[w].pos = run[w].pos + 1 /\ run'[w].turn = run[w].turn
      /\ \A v \in Workflows \ {w} : run'[v] = run[v]
  BY <1>1 DEF Goto, Execution
<1>3. Turns(log'[w], run[w].pos + 1) = run[w].turn
  BY TurnAfter DEF Paths, PathInv
<1> QED
  BY <1>2, <1>3 DEF Took

LEMMA ReturnTook ==
    ASSUME RunInv, NEW w \in Workflows, NEW name, NEW out,
           Active(w), RunAsStep(w, name, out), name = StepAt(run[w].pc),
           deps = "env" => out # "digest",
           NEW res, Return(w, res)
    PROVE  Took(w, name, out) /\ run'[w].pc = "return" /\ run'[w].res = res
<1>1. run[w] \in Execution /\ run \in [Workflows -> Execution]
  BY ExecutionOf
<1>2. /\ run'[w].pc = "return" /\ run'[w].res = res
      /\ \A v \in Workflows \ {w} : run'[v] = run[v]
  BY <1>1 DEF Return, Execution
<1> QED
  BY <1>2 DEF Took

\* What an execution that returns may report, among the events es.
MayReport(w, r, es) ==
    r.pc = "return" =>
      /\ r.res = "ERROR" => Told(es, w)
      /\ deps = "env" => r.res # "diverged" /\ (r.res = "SUCCESS" => TurnIn(es, w))

\* A step that stores no event.
QuietStep(w) ==
    /\ \E name \in Name \ {"session.AppendEvent"}, out \in Out : Took(w, name, out)
    /\ MayReport(w, run'[w], events)
    /\ UNCHANGED events

\* After such a step the events and the checkpoints still agree.
LEMMA QuietKeepsStores ==
    ASSUME RunInv, Stores, NEW w \in Workflows, QuietStep(w)
    PROVE  Stores'
<1>1. PICK name \in Name \ {"session.AppendEvent"}, out \in Out : Took(w, name, out)
  BY DEF QuietStep
<1> DEFINE e == [step |-> name, out |-> out]
<1>2. /\ \A v \in Workflows \ {w} : log'[v] = log[v]
      /\ \/ log'[w] = log[w]
         \/ Len(log[w]) = run[w].pos /\ log'[w] = Append(log[w], e)
      /\ log'[w][run[w].pos + 1] = e
      /\ e \in Entry
  BY <1>1, LogAfter DEF Took
<1>3. ~IsAppend(e)
  BY DEF IsAppend
<1>4. \/ log'[w] = log[w]
      \/ /\ \E x \in Entry : log'[w] = Append(log[w], x)
         /\ Leaves(log'[w], Len(log[w]) + 1, w, events')
  <2>1. CASE log'[w] = log[w]
    BY <2>1
  <2>2. CASE Len(log[w]) = run[w].pos /\ log'[w] = Append(log[w], e)
    <3>1. ~IsAppend(log'[w][Len(log[w]) + 1])
      <4> HIDE DEF e
      <4>1. log'[w][Len(log[w]) + 1] = e
        BY <1>2, <2>2
      <4> QED
        BY <1>3, <4>1
    <3>2. Leaves(log'[w], Len(log[w]) + 1, w, events')
      BY <3>1 DEF Leaves
    <3> QED
      BY <1>2, <2>2, <3>2
  <2> QED
    BY <1>2, <2>1, <2>2
<1>5. events' = events
  BY DEF QuietStep
<1> QED
  BY <1>2, <1>4, <1>5, StoresGrow

\* What a step, or the end of one, lets a run report.
LEMMA ReportsKept ==
    ASSUME RunInv, Reports, NEW w \in Workflows,
           \A v \in Workflows : result'[v] = result[v],
           \A v \in Workflows \ {w} : run'[v] = run[v],
           events' = events \/ \E e \in Event : events' = Append(events, e),
           UNCHANGED deps, MayReport(w, run'[w], events')
    PROVE  Reports'
<1>1. \A v \in Workflows : /\ Told(events, v) => Told(events', v)
                           /\ TurnIn(events, v) => TurnIn(events', v)
  BY EventsGrow DEF RunInv, TypeInv
<1>2. ASSUME NEW v \in Workflows PROVE ReportInv(v)'
  <2>1. ReportInv(v)
    BY DEF Reports
  <2>2. CASE v # w
    BY <1>1, <2>1, <2>2 DEF ReportInv, Says
  <2>3. CASE v = w
    BY <1>1, <2>1, <2>3 DEF ReportInv, Says, MayReport
  <2> QED
    BY <2>2, <2>3
<1> QED
  BY <1>2 DEF Reports

LEMMA ProbeIsQuiet ==
    ASSUME RunInv, Paths, NEW w \in Workflows, durabilityOnlyRun(w)
    PROVE  QuietStep(w)
<1>1. Active(w) /\ UNCHANGED events
  BY DEF durabilityOnlyRun, Active, At
<1>2. deps # "env"
  BY DEF durabilityOnlyRun, At, Paths, PathInv, Calm
<1>3. CASE run[w].pc = "presolve" /\ RunAsStep(w, "resolveAgent", "digest") /\ Goto(w, "psleep")
  <2>1. /\ "resolveAgent" \in Name /\ "digest" \in Out
        /\ StepAt(run[w].pc) = "resolveAgent"
    BY <1>3 DEF Name, Out, StepAt
  <2>2. StageAfter(log'[w], run[w].pos + 1) = "psleep"
    <3>1. \A l, n : l[n] = [step |-> "resolveAgent", out |-> "digest"] => StageAfter(l, n) = "psleep"
      BY DEF StageAfter
    <3> QED
      BY <1>3, <2>1, <3>1, EntryAfter
  <2>3. Took(w, "resolveAgent", "digest") /\ run'[w].pc = "psleep"
    BY <1>1, <1>2, <1>3, <2>1, <2>2, GotoTook
  <2> QED
    BY <1>1, <2>1, <2>3 DEF QuietStep, MayReport
<1>4. CASE run[w].pc = "presolve" /\ RunAsStep(w, "resolveAgent", "absent") /\ Return(w, "resolve")
  <2>1. /\ "resolveAgent" \in Name /\ "absent" \in Out
        /\ StepAt(run[w].pc) = "resolveAgent"
    BY <1>4 DEF Name, Out, StepAt
  <2>2. Took(w, "resolveAgent", "absent") /\ run'[w].res = "resolve"
    BY <1>1, <1>4, <2>1, ReturnTook
  <2> QED
    BY <1>1, <2>1, <2>2 DEF QuietStep, MayReport
<1>5. CASE run[w].pc = "psleep" /\ RunAsStep(w, "DBOS.sleep", "ok") /\ Goto(w, "pcomplete")
  <2>1. /\ "DBOS.sleep" \in Name /\ "ok" \in Out
        /\ StepAt(run[w].pc) = "DBOS.sleep"
    BY <1>5 DEF Name, Out, StepAt
  <2>2. StageAfter(log'[w], run[w].pos + 1) = "pcomplete"
    <3>1. \A l, n : l[n] = [step |-> "DBOS.sleep", out |-> "ok"] => StageAfter(l, n) = "pcomplete"
      BY DEF StageAfter
    <3> QED
      BY <1>5, <2>1, <3>1, EntryAfter
  <2>3. Took(w, "DBOS.sleep", "ok") /\ run'[w].pc = "pcomplete"
    BY <1>1, <1>5, <2>1, <2>2, GotoTook
  <2> QED
    BY <1>1, <2>1, <2>3 DEF QuietStep, MayReport
<1>6. CASE run[w].pc = "pcomplete" /\ RunAsStep(w, "completeRun", "ok") /\ Return(w, "SUCCESS")
  <2>1. /\ "completeRun" \in Name /\ "ok" \in Out
        /\ StepAt(run[w].pc) = "completeRun"
    BY <1>6 DEF Name, Out, StepAt
  <2>2. Took(w, "completeRun", "ok") /\ run'[w].res = "SUCCESS"
    BY <1>1, <1>6, <2>1, ReturnTook
  <2> QED
    BY <1>1, <1>2, <2>1, <2>2 DEF QuietStep, MayReport
<1> QED
  BY <1>3, <1>4, <1>5, <1>6 DEF durabilityOnlyRun, At

LEMMA ResolveIsQuiet ==
    ASSUME RunInv, Paths, NEW w \in Workflows, resolveAgent(w)
    PROVE  QuietStep(w)
<1>1. Active(w) /\ UNCHANGED events /\ run[w].pc = "resolve"
  BY DEF resolveAgent, Active, At
<1>2. PICK out \in {"closure", "absent"} :
        /\ RunAsStep(w, "resolveAgent", out)
        /\ (out = "closure" /\ Goto(w, "get")) \/ Return(w, "resolve")
  BY DEF resolveAgent, resolveAgentClosure, buildRunner
<1>3. "resolveAgent" \in Name /\ out \in Out /\ StepAt(run[w].pc) = "resolveAgent"
  BY <1>1 DEF Name, Out, StepAt
<1>4. CASE out = "closure" /\ Goto(w, "get")
  <2>1. StageAfter(log'[w], run[w].pos + 1) = "get"
    <3>1. \A l, n : l[n] = [step |-> "resolveAgent", out |-> out] => StageAfter(l, n) = "get"
      BY <1>4 DEF StageAfter
    <3> QED
      BY <1>2, <1>3, <1>4, <3>1, EntryAfter
  <2>2. Took(w, "resolveAgent", out) /\ run'[w].pc = "get"
    BY <1>1, <1>2, <1>3, <1>4, <2>1, GotoTook
  <2> QED
    BY <1>1, <1>3, <2>2 DEF QuietStep, MayReport
<1>5. CASE Return(w, "resolve")
  <2>1. Took(w, "resolveAgent", out) /\ run'[w].res = "resolve"
    BY <1>1, <1>2, <1>3, <1>5, ReturnTook
  <2> QED
    BY <1>1, <1>3, <2>1 DEF QuietStep, MayReport
<1> QED
  BY <1>2, <1>4, <1>5

\* The reads of the session and its creation.
LEMMA SessionIsQuiet ==
    ASSUME RunInv, Paths, NEW w \in Workflows,
           GetSession(w) \/ GetSharedState(w) \/ CreateSession(w)
    PROVE  QuietStep(w)
<1>1. Active(w) /\ UNCHANGED events
  BY DEF GetSession, GetSharedState, CreateSession, Active, At
<1>2. ASSUME NEW name \in {"session.Get", "session.SharedState", "session.Create"},
             NEW out \in {"found", "absent", "err", "ok", "created", "exists"},
             NEW pc \in {"shared", "create", "fail", "user", "get"},
             RunAsStep(w, name, out), Goto(w, pc), name = StepAt(run[w].pc),
             \A l, n : l[n] = [step |-> name, out |-> out] => StageAfter(l, n) = pc
      PROVE  QuietStep(w)
  <2>1. name \in Name \ {"session.AppendEvent", "model"} /\ out \in Out
    BY DEF Name, Out
  <2>2. StageAfter(log'[w], run[w].pos + 1) = pc
    BY <1>2, <2>1, LogShared
  <2>3. Took(w, name, out) /\ run'[w].pc = pc
    BY <1>1, <1>2, <2>1, <2>2, GotoTook
  <2> QED
    BY <1>1, <2>1, <2>3 DEF QuietStep, MayReport
<1>3. CASE GetSession(w)
  <2>1. PICK out \in {"found", "absent", "err"} :
          /\ RunAsStep(w, "session.Get", out)
          /\ Goto(w, CASE out = "found" -> "shared" [] out = "absent" -> "create"
                       [] out = "err" -> "fail")
    BY <1>3 DEF GetSession
  <2> DEFINE pc == CASE out = "found" -> "shared" [] out = "absent" -> "create"
                     [] out = "err" -> "fail"
  <2>2. pc \in {"shared", "create", "fail"}
    OBVIOUS
  <2>3. \A l, n : l[n] = [step |-> "session.Get", out |-> out] => StageAfter(l, n) = pc
    BY DEF StageAfter
  <2>4. StepAt(run[w].pc) = "session.Get"
    BY <1>3 DEF GetSession, At, StepAt
  <2> HIDE DEF pc
  <2> QED
    BY <1>2, <2>1, <2>2, <2>3, <2>4 DEF pc
<1>4. CASE GetSharedState(w)
  <2>1. PICK out \in {"ok", "err"} :
          /\ RunAsStep(w, "session.SharedState", out)
          /\ Goto(w, IF out = "ok" THEN "user" ELSE "fail")
    BY <1>4 DEF GetSharedState
  <2> DEFINE pc == IF out = "ok" THEN "user" ELSE "fail"
  <2>2. \A l, n : l[n] = [step |-> "session.SharedState", out |-> out] => StageAfter(l, n) = pc
    BY DEF StageAfter
  <2>3. StepAt(run[w].pc) = "session.SharedState" /\ pc \in {"user", "fail"}
    BY <1>4 DEF GetSharedState, At, StepAt
  <2>4. Goto(w, pc)
    BY <2>1
  <2> HIDE DEF pc
  <2> QED
    BY <1>2, <2>1, <2>2, <2>3, <2>4
<1>5. CASE CreateSession(w)
  <2>1. PICK out \in {"created", "exists"} :
          /\ RunAsStep(w, "session.Create", out)
          /\ Goto(w, IF out = "created" THEN "get" ELSE "fail")
    BY <1>5 DEF CreateSession
  <2> DEFINE pc == IF out = "created" THEN "get" ELSE "fail"
  <2>2. \A l, n : l[n] = [step |-> "session.Create", out |-> out] => StageAfter(l, n) = pc
    BY DEF StageAfter
  <2>3. StepAt(run[w].pc) = "session.Create" /\ pc \in {"get", "fail"}
    BY <1>5 DEF CreateSession, At, StepAt
  <2>4. Goto(w, pc)
    BY <2>1
  <2> HIDE DEF pc
  <2> QED
    BY <1>2, <2>1, <2>2, <2>3, <2>4
<1> QED
  BY <1>3, <1>4, <1>5

\* The answer the run hears: the one in hand, or the recorded one.
LEMMA AnswerIsQuiet ==
    ASSUME RunInv, Paths, NEW w \in Workflows, GenerateContent(w)
    PROVE  QuietStep(w)
<1>1. /\ Active(w) /\ UNCHANGED events
      /\ run[w].pc \in {"model", "answered"}
  BY DEF GenerateContent, Active, At
<1>2. PICK a \in Answers : RunAsStep(w, "model", a) /\ Heard(w, a)
  BY DEF GenerateContent, At, RunInv, PlaceInv
<1>3. "model" \in Name /\ a \in Out /\ StepAt(run[w].pc) = "model" /\ a # "digest"
  BY <1>1 DEF Name, Out, StepAt, Answers
<1> DEFINE pc == IF a = "err" THEN "fail" ELSE "append"
           n == run[w].pos + 1
<1>4. log'[w][n] = [step |-> "model", out |-> a]
  BY <1>2, <1>3, EntryAfter
<1>5. StageAfter(log'[w], n) = pc
  <2>1. \A l, m : l[m] = [step |-> "model", out |-> a] => StageAfter(l, m) = pc
    BY DEF StageAfter
  <2> QED
    BY <1>4, <2>1
<1>6. Turns(log'[w], n) = run[w].turn + 1
  BY <1>1, <1>2, <1>3, TurnAfter DEF Paths, PathInv
<1>7. /\ run'[w].pc = pc /\ run'[w].pos = n /\ run'[w].turn = run[w].turn + 1
      /\ run'[w].said = a
      /\ \A v \in Workflows \ {w} : run'[v] = run[v]
  BY <1>2, ExecutionOf DEF Heard, Execution
<1>8. pc \in {"fail", "append"} /\ log'[w][n].out = a
  BY <1>4
<1> HIDE DEF pc, n
<1>9. run'[w].pc # "close" /\ run'[w].pc # "return"
  BY <1>7, <1>8
<1>10. Took(w, "model", a)
  BY <1>1, <1>2, <1>3, <1>5, <1>6, <1>7, <1>8, <1>9 DEF Took, n
<1> QED
  BY <1>1, <1>3, <1>9, <1>10 DEF QuietStep, MayReport

\* An execution that has passed a checkpoint stands at what follows it.
LEMMA StandsAt ==
    ASSUME RunInv, Paths, NEW w \in Workflows, Active(w),
           run[w].pc \notin {"resolve", "presolve", "answered"}
    PROVE  /\ run[w].pos \in DOMAIN log[w] /\ log[w] \in Seq(Entry)
           /\ run[w].pos \in Nat /\ run[w].pos > 0
           /\ StageAfter(log[w], run[w].pos) = run[w].pc
<1> DEFINE l == log[w]
           n == run[w].pos
<1>1. n \in Nat /\ l \in Seq(Entry) /\ n <= Len(l)
  BY ExecutionOf, LogType DEF RunInv, TypeInv, RunTypeOK
<1>2. n > 0 /\ StageAfter(l, n) = run[w].pc
  <2>1. Follows(w)
    BY DEF Paths, PathInv
  <2>2. n # 0
    BY <2>1 DEF Follows, Active
  <2>3. n > 0
    BY <1>1, <2>2
  <2> QED
    BY <2>1, <2>3 DEF Follows, Active
<1> HIDE DEF l, n
<1>3. n \in DOMAIN l
  BY <1>1, <1>2
<1> QED
  BY <1>1, <1>2, <1>3 DEF l, n

\* The append of the answer a run closes its stream after.
LEMMA ClosesAfter ==
    ASSUME RunInv, Paths, NEW w \in Workflows, Active(w), run[w].pc = "close"
    PROVE  LET l == log[w]  n == run[w].pos IN
           /\ n \in DOMAIN l /\ l[n].out = "ok" /\ ModelAppend(l, n)
           /\ run[w].said = l[n - 1].out
<1>1. run[w].said = log[w][run[w].pos - 1].out
  BY DEF Paths, PathInv, Follows, Active
<1> QED
  BY <1>1, StandsAt, StageOf

\* The answer is stored, and the message it answers before it.
LEMMA TurnIsStored ==
    ASSUME RunInv, Paths, Stores, NEW w \in Workflows, Active(w), run[w].pc = "close"
    PROVE  IF run[w].said = "coded" THEN Told(events, w) ELSE TurnIn(events, w)
<1> DEFINE l == log[w]
           n == run[w].pos
<1>1. /\ n \in DOMAIN l /\ l[n].out = "ok" /\ ModelAppend(l, n)
      /\ run[w].said = l[n - 1].out
  BY ClosesAfter
<1>2. /\ l \in Seq(Entry) /\ events \in Seq(Event)
      /\ \A m \in DOMAIN l : OnPath(l, m) /\ Leaves(l, m, w, events)
  BY LogType DEF RunInv, TypeInv, Paths, PathInv, Stores
<1>3. Has(events, w, IF run[w].said = "coded" THEN "coded" ELSE "model")
  BY <1>1, <1>2 DEF Leaves, ModelAppend
<1>4. CASE run[w].said = "coded"
  BY <1>3, <1>4 DEF Has, Told
<1>5. CASE run[w].said # "coded"
  <2> HIDE DEF l, n
  <2>1. PICK j \in DOMAIN events : events[j].w = w /\ events[j].kind = "model"
    BY <1>3, <1>5 DEF Has
  <2>2. n - 1 \in DOMAIN l /\ l[n - 1].step = "model"
    <3>1. n \in 1 .. Len(l) /\ n > 1 /\ l[n - 1].step = "model"
      BY <1>1, <1>2 DEF ModelAppend
    <3> QED
      BY <1>2, <3>1
  <2>3. PICK m \in 1 .. n - 1 - 1 : UserAppend(l, m) /\ l[m].out = "ok"
    BY <1>2, <2>2 DEF OnPath
  <2>4. m \in DOMAIN l
    BY <1>1, <1>2
  <2>5. PICK i \in DOMAIN events : events[i].w = w /\ events[i].kind = "user"
    BY <1>2, <2>3, <2>4 DEF Leaves, UserAppend, Has
  <2>6. i < j
    <3>1. ~(j < i)
      BY <2>1, <2>5 DEF Stores, EventsOnce
    <3>2. i # j
      BY <2>1, <2>5
    <3> QED
      BY <1>2, <3>1, <3>2
  <2> QED
    BY <1>5, <2>1, <2>5, <2>6 DEF TurnIn
<1> QED
  BY <1>4, <1>5

LEMMA CloseIsQuiet ==
    ASSUME RunInv, Paths, Stores, NEW w \in Workflows, CloseStream(w)
    PROVE  QuietStep(w)
<1>1. Active(w) /\ UNCHANGED events /\ run[w].pc = "close"
  BY DEF CloseStream, Active, At
<1>2. PICK out \in {"ok", "err"}, res \in {"ERROR", "SUCCESS", "close"} :
        /\ RunAsStep(w, "DBOS.closeStream", out) /\ Return(w, res)
        /\ res = "ERROR" => run[w].said = "coded"
        /\ res = "SUCCESS" => run[w].said # "coded"
  BY DEF CloseStream
<1>3. "DBOS.closeStream" \in Name /\ out \in Out /\ StepAt(run[w].pc) = "DBOS.closeStream"
  BY <1>1 DEF Name, Out, StepAt
<1>4. Took(w, "DBOS.closeStream", out) /\ run'[w].res = res
  BY <1>1, <1>2, <1>3, ReturnTook
<1>5. MayReport(w, run'[w], events)
  BY <1>1, <1>2, <1>4, TurnIsStored DEF MayReport
<1> QED
  BY <1>1, <1>3, <1>4, <1>5 DEF QuietStep

\* An append that commits leaves its event.
LEMMA AppendKeepsStores ==
    ASSUME RunInv, Stores, NEW w \in Workflows, NEW e \in Event, e.w = w, e.s = SessionOf[w],
           NEW out \in {"ok", "err"}, AppendEvent(w, e, out),
           ~Replaying(w) /\ out = "ok" =>
             /\ Evidence(e, log'[w])
             /\ \A i \in DOMAIN events : events[i].w = w => Before(events[i], e)
             /\ Leaves(log'[w], run[w].pos + 1, w, events')
    PROVE  /\ Stores'
           /\ events' = events \/ \E f \in Event : events' = Append(events, f)
<1> DEFINE x == [step |-> "session.AppendEvent", out |-> out]
<1>1. "session.AppendEvent" \in Name /\ out \in Out
  BY DEF Name, Out
<1>2. /\ \A v \in Workflows \ {w} : log'[v] = log[v]
      /\ \/ log'[w] = log[w] /\ Replaying(w)
         \/ ~Replaying(w) /\ Len(log[w]) = run[w].pos /\ log'[w] = Append(log[w], x)
      /\ log'[w][run[w].pos + 1] = x /\ x \in Entry
  BY <1>1, LogAfter DEF AppendEvent
<1> HIDE DEF x
<1>3. CASE Replaying(w)
  <2>1. events' = events /\ log'[w] = log[w]
    BY <1>2, <1>3 DEF AppendEvent
  <2> QED
    BY <1>2, <2>1, StoresGrow
<1>4. CASE ~Replaying(w) /\ out # "ok"
  <2>1. events' = events
    BY <1>4 DEF AppendEvent
  <2>2. log'[w][Len(log[w]) + 1] = x
    BY <1>2, <1>4
  <2>3. Leaves(log'[w], Len(log[w]) + 1, w, events')
    BY <1>4, <2>2 DEF Leaves, x
  <2> QED
    BY <1>2, <2>1, <2>3, StoresGrow
<1>5. CASE ~Replaying(w) /\ out = "ok"
  <2>1. events' = events \/ events' = Append(events, e)
    BY <1>5 DEF AppendEvent, Appended
  <2>2. Leaves(log'[w], Len(log[w]) + 1, w, events')
    BY <1>2, <1>5
  <2>3. \/ events' = events
        \/ \E f \in Event :
             /\ events' = Append(events, f)
             /\ f.w = w /\ Evidence(f, log'[w])
             /\ \A i \in DOMAIN events : events[i].w = w => Before(events[i], f)
    BY <1>5, <2>1
  <2> QED
    BY <1>2, <2>2, <2>3, StoresGrow
<1> QED
  BY <1>3, <1>4, <1>5

\* An event of a kind has that kind's id, in its run or its session.
LEMMA KindOf ==
    ASSUME RunInv, Stores, NEW i \in DOMAIN events
    PROVE  LET f == events[i] IN
           /\ f \in Event /\ f.w \in Workflows /\ f.kind \in Kind
           /\ Evidence(f, log[f.w])
           /\ f.kind = "user" <=> f.id[1] = "user"
           /\ f.kind \in {"model", "coded"} <=> f.id[1] = "model"
           /\ f.kind = "error" <=> f.id[1] = "error"
           /\ f.kind # "error" => f.id[2] = f.w
           /\ f.kind = "error" => f.id[2] = f.w \/ f.id = EarlyId(f.s)
<1>1. events[i] \in Event /\ Evidence(events[i], log[events[i].w])
  BY DEF RunInv, TypeInv, Stores
<1>2. events[i].kind \in Kind /\ events[i].w \in Workflows
  BY <1>1 DEF Event
<1> QED
  BY <1>1, <1>2 DEF Evidence, Kind

\* Before its user's message is stored a run has no event.
LEMMA NoEventYet ==
    ASSUME RunInv, Paths, Stores, NEW w \in Workflows, Active(w), run[w].pc = "user",
           ~Replaying(w), NEW i \in DOMAIN events
    PROVE  events[i].w # w
<1> SUFFICES ASSUME events[i].w = w PROVE FALSE
  OBVIOUS
<1> DEFINE l == log[w]
           n == run[w].pos
<1>1. /\ n \in DOMAIN l /\ l \in Seq(Entry) /\ l[n].step \in Opening
      /\ OnPath(l, n) /\ n = Len(l)
  <2>1. n \in DOMAIN l /\ l \in Seq(Entry) /\ n \in Nat /\ StageAfter(l, n) = "user"
    BY StandsAt
  <2>2. l[n].step \in Opening
    BY <2>1, StageOf
  <2>3. OnPath(l, n)
    BY <2>1 DEF Paths, PathInv
  <2>4. ~(n < Len(l)) /\ n <= Len(l)
    BY DEF Replaying, RunInv, TypeInv, RunTypeOK
  <2> HIDE DEF l, n
  <2> QED
    BY <2>1, <2>2, <2>3, <2>4
<1> HIDE DEF l, n
<1>2. \A m \in DOMAIN l : l[m].step \in Opening
  <2>1. DOMAIN l = 1 .. n /\ n \in Nat
    BY <1>1
  <2>2. \A m \in 1 .. n : m = n \/ m \in 1 .. n - 1
    BY <2>1
  <2> QED
    BY <1>1, <2>1, <2>2 DEF OnPath
<1>3. \A m \in DOMAIN l : ~IsAppend(l[m])
  BY <1>2 DEF IsAppend, Opening
<1>4. \E m \in DOMAIN l : UserAppend(l, m) \/ ModelAppend(l, m) \/ FailAppend(l, m)
  BY KindOf DEF Evidence, Kind, l
<1> QED
  BY <1>3, <1>4 DEF UserAppend, ModelAppend, FailAppend

\* A step that appends an event, or fails to.
LoudStep(w) ==
    /\ \E out \in Out : Took(w, "session.AppendEvent", out)
    /\ events' = events \/ \E e \in Event : events' = Append(events, e)
    /\ MayReport(w, run'[w], events')
    /\ Stores'

LEMMA UserIsLoud ==
    ASSUME RunInv, Paths, Stores, NEW w \in Workflows, AppendUserMessage(w)
    PROVE  LoudStep(w)
<1> DEFINE e == NewEvent(w, "user", Drawn(w, "user"))
           n == run[w].pos + 1
           k == log'[w]
<1>1. Active(w) /\ run[w].pc = "user"
  BY DEF AppendUserMessage, Active, At
<1>2. PICK out \in {"ok", "err"} :
        AppendEvent(w, e, out) /\ Goto(w, IF out = "ok" THEN "model" ELSE "fail")
  BY DEF AppendUserMessage
<1>3. /\ e \in Event /\ e.s = SessionOf[w] /\ e.w = w /\ e.kind = "user"
      /\ e.id[1] = "user" /\ e.id[2] = w /\ e.id = Drawn(w, "user")
  <2>1. e \in Event /\ e.s = SessionOf[w]
    BY DrawnType, NewEventType DEF Kind
  <2> QED
    BY <2>1 DEF NewEvent, Drawn
<1>4. /\ RunAsStep(w, "session.AppendEvent", out)
      /\ "session.AppendEvent" \in Name /\ out \in Out /\ out # "digest"
      /\ StepAt(run[w].pc) = "session.AppendEvent"
  BY <1>1, <1>2 DEF AppendEvent, Name, Out, StepAt
<1>5. /\ k \in Seq(Entry) /\ n \in DOMAIN k
      /\ k[n] = [step |-> "session.AppendEvent", out |-> out]
      /\ k[n - 1] = log[w][run[w].pos] /\ n > 1
  <2>1. run[w].pos \in Nat /\ run[w].pos > 0 /\ n - 1 = run[w].pos /\ n > 1
    BY <1>1, StandsAt
  <2>2. k[run[w].pos] = log[w][run[w].pos]
    BY <1>4, <2>1, LogShared
  <2>3. k \in Seq(Entry) /\ n \in DOMAIN k
    BY <1>4, LogShared
  <2>4. k[n] = [step |-> "session.AppendEvent", out |-> out]
    BY <1>4, EntryAfter
  <2> QED
    BY <2>1, <2>2, <2>3, <2>4
<1>6. UserAppend(k, n) /\ ~ModelAppend(k, n) /\ ~FailAppend(k, n)
  <2>1. log[w][run[w].pos].step = "session.SharedState" /\ log[w][run[w].pos].out = "ok"
    BY <1>1, StandsAt, StageOf
  <2>2. IsAppend(k[n])
    BY <1>5 DEF IsAppend
  <2> QED
    BY <1>5, <2>1, <2>2 DEF UserAppend, ModelAppend, FailAppend
<1>7. StageAfter(k, n) = IF out = "ok" THEN "model" ELSE "fail"
  BY <1>5, <1>6 DEF StageAfter, AfterAppend
<1> DEFINE pc == IF out = "ok" THEN "model" ELSE "fail"
<1>8. Took(w, "session.AppendEvent", out) /\ run'[w].pc = pc
  <2>1. Goto(w, pc) /\ pc \notin {"append", "close"} /\ StageAfter(k, n) = pc
    BY <1>2, <1>7
  <2> HIDE DEF pc
  <2> QED
    BY <1>1, <1>4, <2>1, GotoTook
<1> HIDE DEF e
<1>9. ASSUME ~Replaying(w), out = "ok"
      PROVE  /\ Evidence(e, k)
             /\ \A i \in DOMAIN events : events[i].w = w => Before(events[i], e)
             /\ Leaves(k, n, w, events')
  <2>1. Evidence(e, k)
    BY <1>3, <1>5, <1>6, <1>9 DEF Evidence
  <2>2. \A i \in DOMAIN events : events[i].w # w
    BY <1>1, <1>9, NoEventYet
  <2>3. events' = Append(events, e)
    <3>1. ASSUME NEW i \in DOMAIN events, events[i].id = e.id
          PROVE  FALSE
      BY <1>3, <2>2, <3>1, KindOf
    <3> QED
      BY <1>2, <1>9, <3>1 DEF AppendEvent, Appended
  <2>4. Has(events', w, "user")
    BY <1>3, <2>3, EventsGrow DEF RunInv, TypeInv
  <2>5. Leaves(k, n, w, events')
    BY <1>6, <2>4 DEF Leaves
  <2> QED
    BY <2>1, <2>2, <2>5
<1>10. Stores' /\ (events' = events \/ \E f \in Event : events' = Append(events, f))
  BY <1>2, <1>3, <1>9, AppendKeepsStores
<1>11. MayReport(w, run'[w], events')
  BY <1>8 DEF MayReport
<1> QED
  BY <1>4, <1>8, <1>10, <1>11 DEF LoudStep

\* A run at the end of its log has not ended there before.
LEMMA NotEnded ==
    ASSUME RunInv, Paths, NEW w \in Workflows, Active(w), ~Replaying(w),
           run[w].pc \in {"append", "fail"}, NEW m \in DOMAIN log[w]
    PROVE  /\ StageAfter(log[w], m) \notin {"return", "close"}
           /\ m \in 1 .. run[w].pos /\ run[w].pos = Len(log[w])
<1> DEFINE l == log[w]
           n == run[w].pos
<1>1. /\ n \in DOMAIN l /\ l \in Seq(Entry) /\ n \in Nat
      /\ StageAfter(l, n) = run[w].pc
  BY StandsAt
<1>2. n = Len(l)
  <2>1. ~(n < Len(l)) /\ n <= Len(l)
    BY DEF Replaying, RunInv, TypeInv, RunTypeOK
  <2>2. Len(l) \in Nat
    BY <1>1
  <2> HIDE DEF n, l
  <2> QED
    BY <1>1, <2>1, <2>2
<1>3. \A i \in DOMAIN l : OnPath(l, i)
  BY DEF Paths, PathInv
<1> HIDE DEF l, n
<1>4. DOMAIN l = 1 .. n
  BY <1>1, <1>2
<1>5. ASSUME NEW i \in 1 .. n - 1
      PROVE  /\ StageAfter(l, i) # "return" /\ i + 1 \in 1 .. n
             /\ l[i + 1].step = StepAt(StageAfter(l, i))
  <2>1. i + 1 \in DOMAIN l /\ i + 1 > 1 /\ i + 1 - 1 = i
    BY <1>1, <1>4
  <2> QED
    BY <1>3, <1>4, <2>1 DEF OnPath
<1>6. \A i \in 1 .. n : i = n \/ i \in 1 .. n - 1
  BY <1>1
<1>7. StageAfter(l, m) # "return"
  BY <1>1, <1>4, <1>5, <1>6 DEF l
<1>8. ASSUME StageAfter(l, m) = "close" PROVE FALSE
  <2>1. m \in 1 .. n - 1
    BY <1>1, <1>4, <1>6, <1>8 DEF l
  <2>2. l[m + 1].step = "DBOS.closeStream" /\ m + 1 \in 1 .. n
    BY <1>5, <1>8, <2>1 DEF StepAt
  <2>3. StageAfter(l, m + 1) = "return"
    BY <2>2 DEF StageAfter
  <2> QED
    BY <1>1, <1>5, <1>6, <2>2, <2>3
<1> QED
  BY <1>2, <1>4, <1>7, <1>8 DEF l, n

\* So it has neither an error event nor a coded one.
LEMMA NoEndEvent ==
    ASSUME RunInv, Paths, Stores, NEW w \in Workflows, Active(w), ~Replaying(w),
           run[w].pc \in {"append", "fail"}, NEW i \in DOMAIN events, events[i].w = w
    PROVE  /\ events[i].kind \in {"user", "model"}
           /\ events[i].kind = "model" =>
                \E m \in 1 .. run[w].pos : ModelAppend(log[w], m) /\ Turns(log[w], m) = events[i].id[3]
<1> DEFINE l == log[w]
<1>1. /\ events[i].kind \in Kind /\ Evidence(events[i], l) /\ l \in Seq(Entry)
  BY KindOf, LogType
<1>2. \A m \in DOMAIN l : StageAfter(l, m) \notin {"return", "close"} /\ m \in 1 .. run[w].pos
  BY NotEnded
<1> HIDE DEF l
<1>3. ASSUME NEW m \in DOMAIN l, FailAppend(l, m)
      PROVE  FALSE
  <2>1. StageAfter(l, m) = "return"
    BY <1>3 DEF FailAppend, IsAppend, StageAfter, AfterAppend
  <2> QED
    BY <1>2, <2>1
<1>4. ASSUME NEW m \in DOMAIN l, ModelAppend(l, m), l[m].out = "ok", l[m - 1].out = "coded"
      PROVE  FALSE
  <2>1. ~UserAppend(l, m)
    BY <1>4 DEF ModelAppend, UserAppend
  <2>2. l[m].step = "session.AppendEvent"
    BY <1>4 DEF ModelAppend, IsAppend
  <2>3. StageAfter(l, m) = "close"
    BY <1>4, <2>1, <2>2 DEF StageAfter, AfterAppend
  <2> QED
    BY <1>2, <2>3
<1> QED
  BY <1>1, <1>2, <1>3, <1>4 DEF Evidence, Kind, l

LEMMA FailureIsLoud ==
    ASSUME RunInv, Paths, Stores, NEW w \in Workflows, recordTurnFailure(w)
    PROVE  LoudStep(w)
<1> DEFINE e == NewEvent(w, "error", FailureId(w))
           n == run[w].pos + 1
           l == log[w]
           k == log'[w]
<1>1. Active(w) /\ run[w].pc = "fail"
  BY DEF recordTurnFailure, Active, At
<1>2. PICK out \in {"ok", "err"} :
        AppendEvent(w, e, out) /\ Return(w, IF out = "ok" THEN "ERROR" ELSE "append")
  BY DEF recordTurnFailure
<1>3. /\ e \in Event /\ e.s = SessionOf[w] /\ e.w = w /\ e.kind = "error"
      /\ e.id[1] = "error" /\ (e.id[2] = w \/ e.id = EarlyId(SessionOf[w]))
  <2>1. FailureId(w) \in {"user", "model", "error"} \X (Workflows \cup Sessions) \X Nat \X Nat
    BY DrawnType, RunAssumption DEF FailureId
  <2>2. e \in Event /\ e.s = SessionOf[w]
    BY <2>1, NewEventType DEF Kind
  <2> QED
    BY <2>2 DEF NewEvent, FailureId, Drawn, EarlyId
<1>4. /\ RunAsStep(w, "session.AppendEvent", out)
      /\ "session.AppendEvent" \in Name /\ out \in Out /\ out # "digest"
      /\ StepAt(run[w].pc) = "session.AppendEvent"
  BY <1>1, <1>2 DEF AppendEvent, Name, Out, StepAt
<1>5. /\ k \in Seq(Entry) /\ n \in DOMAIN k
      /\ k[n] = [step |-> "session.AppendEvent", out |-> out]
      /\ k[n - 1] = log[w][run[w].pos]
  <2>1. run[w].pos \in Nat /\ run[w].pos > 0 /\ n - 1 = run[w].pos
    BY <1>1, StandsAt
  <2>2. k[run[w].pos] = log[w][run[w].pos]
    BY <1>4, <2>1, LogShared
  <2>3. k \in Seq(Entry) /\ n \in DOMAIN k
    BY <1>4, LogShared
  <2>4. k[n] = [step |-> "session.AppendEvent", out |-> out]
    BY <1>4, EntryAfter
  <2> QED
    BY <2>1, <2>2, <2>3, <2>4
<1>6. FailAppend(k, n) /\ ~ModelAppend(k, n) /\ ~UserAppend(k, n)
  <2>1. /\ ~(l[run[w].pos].step = "session.SharedState" /\ l[run[w].pos].out = "ok")
        /\ ~(l[run[w].pos].step = "model" /\ l[run[w].pos].out # "err")
    BY <1>1, StandsAt, StageOf
  <2>2. IsAppend(k[n])
    BY <1>5 DEF IsAppend
  <2> QED
    BY <1>5, <2>1, <2>2 DEF UserAppend, ModelAppend, FailAppend
<1> DEFINE res == IF out = "ok" THEN "ERROR" ELSE "append"
<1>7. Took(w, "session.AppendEvent", out) /\ run'[w].res = res
  <2>1. Return(w, res)
    BY <1>2
  <2> HIDE DEF res
  <2> QED
    BY <1>1, <1>4, <2>1, ReturnTook
<1> HIDE DEF e
<1>8. ASSUME ~Replaying(w), out = "ok"
      PROVE  /\ Evidence(e, k)
             /\ \A i \in DOMAIN events : events[i].w = w => Before(events[i], e)
             /\ Leaves(k, n, w, events') /\ Told(events', w)
  <2>1. Evidence(e, k)
    BY <1>3, <1>5, <1>6, <1>8 DEF Evidence
  <2>2. \A i \in DOMAIN events : events[i].w = w => Before(events[i], e)
    BY <1>1, <1>3, <1>8, NoEndEvent DEF Before
  <2>3. Told(events', w)
    <3>1. CASE \E i \in DOMAIN events : events[i].s = e.s /\ events[i].id = e.id
      <4>1. PICK i \in DOMAIN events : events[i].s = e.s /\ events[i].id = e.id
        BY <3>1
      <4>2. events[i].kind = "error" /\ (events[i].w = w \/ events[i].id = EarlyId(SessionOf[w]))
        BY <1>3, <4>1, KindOf
      <4>3. events' = events
        BY <1>2, <1>8, <3>1 DEF AppendEvent, Appended
      <4> QED
        BY <4>2, <4>3 DEF Told
    <3>2. CASE events' = Append(events, e)
      <4>1. Has(events', w, "error")
        BY <1>3, <3>2, EventsGrow DEF RunInv, TypeInv
      <4> QED
        BY <4>1 DEF Has, Told
    <3> QED
      BY <1>2, <1>8, <3>1, <3>2 DEF AppendEvent, Appended
  <2>4. Leaves(k, n, w, events')
    BY <1>6, <2>3 DEF Leaves
  <2> QED
    BY <2>1, <2>2, <2>3, <2>4
<1>9. Stores' /\ (events' = events \/ \E f \in Event : events' = Append(events, f))
  BY <1>2, <1>3, <1>8, AppendKeepsStores
<1>10. MayReport(w, run'[w], events')
  <2>1. ASSUME out = "ok" PROVE Told(events', w)
    <3>1. CASE Replaying(w)
      <4>1. k = l /\ events' = events
        BY <1>2, <3>1 DEF AppendEvent, RunAsStep
      <4>2. Leaves(l, n, w, events)
        BY <1>5, <4>1 DEF Stores
      <4>3. IsAppend(k[n]) /\ k[n].out = "ok"
        BY <1>5, <2>1 DEF IsAppend
      <4> HIDE DEF l, k, n
      <4> QED
        BY <1>6, <4>1, <4>2, <4>3 DEF Leaves
    <3> QED
      BY <1>8, <2>1, <3>1
  <2>2. out # "ok" => run'[w].res = "append"
    BY <1>7
  <2>3. run'[w].res \notin {"SUCCESS", "diverged"}
    BY <1>7
  <2> QED
    BY <2>1, <2>2, <2>3 DEF MayReport
<1> QED
  BY <1>4, <1>7, <1>9, <1>10 DEF LoudStep

LEMMA ModelEventIsLoud ==
    ASSUME RunInv, Paths, Stores, NEW w \in Workflows, AppendModelEvent(w)
    PROVE  LoudStep(w)
<1> DEFINE e == NewEvent(w, EventKind(w), Drawn(w, "model"))
           p == run[w].pos
           n == run[w].pos + 1
           l == log[w]
           k == log'[w]
           r == [run[w] EXCEPT !.pos = @ + 1]
<1>1. Active(w) /\ run[w].pc = "append"
  BY DEF AppendModelEvent, Active, At
<1>2. PICK out \in {"ok", "err"} :
        /\ AppendEvent(w, e, out)
        /\ \/ out = "err" /\ run' = [run EXCEPT ![w] = [r EXCEPT !.pc = "fail"]]
           \/ /\ out = "ok" /\ r.said = "more" /\ StepsLeft(r)
              /\ run' = [run EXCEPT ![w] = [r EXCEPT !.pc = "model", !.yielded = TRUE]]
           \/ out = "ok" /\ r.said = "more" /\ ~StepsLeft(r) /\ Return(w, "steps")
           \/ /\ out = "ok" /\ r.said \in {"final", "coded"}
              /\ run' = [run EXCEPT ![w] = [r EXCEPT !.pc = "close", !.yielded = TRUE]]
  BY DEF AppendModelEvent
<1>3. /\ e \in Event /\ e.s = SessionOf[w] /\ e.w = w
      /\ e.kind = (IF run[w].said = "coded" THEN "coded" ELSE "model")
      /\ e.id[1] = "model" /\ e.id[2] = w /\ e.id[3] = run[w].turn
  <2>1. EventKind(w) \in Kind
    BY DEF EventKind, Kind
  <2>2. e \in Event /\ e.s = SessionOf[w]
    BY <2>1, DrawnType, NewEventType
  <2> QED
    BY <2>2 DEF NewEvent, Drawn, EventKind
<1>4. /\ RunAsStep(w, "session.AppendEvent", out)
      /\ "session.AppendEvent" \in Name /\ out \in Out /\ out # "digest"
      /\ StepAt(run[w].pc) = "session.AppendEvent"
  BY <1>1, <1>2 DEF AppendEvent, Name, Out, StepAt
<1>5. /\ p \in Nat /\ p > 0 /\ p \in DOMAIN l /\ l \in Seq(Entry)
      /\ l[p].step = "model" /\ l[p].out # "err" /\ run[w].said = l[p].out
      /\ run[w].turn = Turns(l, p)
  <2>1. p \in Nat /\ p > 0 /\ p \in DOMAIN l /\ l \in Seq(Entry) /\ StageAfter(l, p) = "append"
    BY <1>1, StandsAt
  <2>2. l[p].step = "model" /\ l[p].out # "err"
    BY <2>1, StageOf
  <2>3. run[w].said = l[p].out /\ run[w].turn = Turns(l, p)
    BY <1>1 DEF Paths, PathInv, Follows
  <2> QED
    BY <2>1, <2>2, <2>3
<1>6. /\ k \in Seq(Entry) /\ n \in DOMAIN k /\ n > 1 /\ n - 1 = p
      /\ k[n] = [step |-> "session.AppendEvent", out |-> out]
      /\ k[n - 1] = l[p]
      /\ Turns(k, n) = run[w].turn /\ run[w].turn \in Nat
  <2>1. n - 1 = p /\ n > 1
    BY <1>5
  <2>2. k[p] = l[p] /\ k \in Seq(Entry) /\ n \in DOMAIN k
    BY <1>4, <1>5, LogShared
  <2>3. k[n] = [step |-> "session.AppendEvent", out |-> out]
    BY <1>4, EntryAfter
  <2>4. Turns(k, n) = run[w].turn /\ run[w].turn \in Nat
    BY <1>1, <1>4, TurnAfter DEF Paths, PathInv
  <2> QED
    BY <2>1, <2>2, <2>3, <2>4
<1>7. ModelAppend(k, n) /\ ~UserAppend(k, n) /\ ~FailAppend(k, n)
  <2>1. IsAppend(k[n])
    BY <1>6 DEF IsAppend
  <2> QED
    BY <1>5, <1>6, <2>1 DEF UserAppend, ModelAppend, FailAppend
<1>8. StageAfter(k, n) = IF out # "ok" THEN "fail"
                         ELSE IF run[w].said # "more" THEN "close"
                         ELSE IF run[w].turn < MaxTurn THEN "model" ELSE "return"
  <2>1. StageAfter(k, n) = AfterAppend(k, n) /\ k[n].out = out /\ k[n - 1].out = run[w].said
    BY <1>5, <1>6 DEF StageAfter
  <2> HIDE DEF k, n
  <2> QED
    BY <1>6, <1>7, <2>1 DEF AfterAppend
<1>9. Took(w, "session.AppendEvent", out) /\ MayReport(w, run'[w], events')
  <2>0. /\ run[w] \in Execution /\ r \in Execution
        /\ r.pos = n /\ r.turn = run[w].turn /\ r.said = run[w].said
    BY ExecutionOf DEF Execution
  <2> HIDE DEF r, e
  <2>1. ASSUME NEW q, NEW pc \in {"fail", "model", "close"},
               q = [r EXCEPT !.pc = pc] \/ q = [r EXCEPT !.pc = pc, !.yielded = TRUE],
               run' = [run EXCEPT ![w] = q], StageAfter(k, n) = pc
        PROVE  Took(w, "session.AppendEvent", out) /\ MayReport(w, run'[w], events')
    <3>1. q.pc = pc /\ q.pos = n /\ q.turn = run[w].turn /\ q.said = run[w].said
      BY <2>0, <2>1 DEF Execution
    <3>2. run'[w] = q /\ \A v \in Workflows \ {w} : run'[v] = run[v]
      BY <2>1, ExecutionOf
    <3>3. run[w].said = k[n - 1].out
      BY <1>5, <1>6
    <3>4. pc # "append" /\ pc # "return"
      OBVIOUS
    <3> HIDE DEF k, n
    <3>5. Took(w, "session.AppendEvent", out)
      BY <1>1, <1>4, <1>6, <2>1, <3>1, <3>2, <3>3, <3>4 DEF Took, k, n
    <3> QED
      BY <3>1, <3>2, <3>4, <3>5 DEF MayReport
  <2>2. CASE out = "err" /\ run' = [run EXCEPT ![w] = [r EXCEPT !.pc = "fail"]]
    BY <1>8, <2>1, <2>2
  <2>3. CASE /\ out = "ok" /\ r.said = "more" /\ StepsLeft(r)
             /\ run' = [run EXCEPT ![w] = [r EXCEPT !.pc = "model", !.yielded = TRUE]]
    <3>1. run[w].turn < MaxTurn /\ run[w].said = "more"
      BY <2>0, <2>3 DEF StepsLeft
    <3>2. StageAfter(k, n) = "model"
      BY <1>8, <2>3, <3>1
    <3> QED
      BY <2>1, <2>3, <3>2
  <2>4. CASE Return(w, "steps")
    <3>1. Took(w, "session.AppendEvent", out) /\ run'[w].res = "steps"
      BY <1>1, <1>4, <2>4, ReturnTook
    <3> QED
      BY <3>1 DEF MayReport
  <2>5. CASE /\ out = "ok" /\ r.said \in {"final", "coded"}
             /\ run' = [run EXCEPT ![w] = [r EXCEPT !.pc = "close", !.yielded = TRUE]]
    <3>1. StageAfter(k, n) = "close"
      BY <1>8, <2>0, <2>5
    <3> QED
      BY <2>1, <2>5, <3>1
  <2> QED
    BY <1>2, <2>2, <2>3, <2>4, <2>5
<1> HIDE DEF e
<1>10. ASSUME ~Replaying(w), out = "ok"
       PROVE  /\ Evidence(e, k)
              /\ \A i \in DOMAIN events : events[i].w = w => Before(events[i], e)
              /\ Leaves(k, n, w, events')
  <2>1. Evidence(e, k)
    <3>1. e.kind \in {"model", "coded"} /\ (e.kind = "coded" <=> k[n - 1].out = "coded")
      BY <1>3, <1>5, <1>6
    <3>2. k[n].out = "ok" /\ Turns(k, n) = e.id[3]
      BY <1>3, <1>6, <1>10
    <3> HIDE DEF k, n
    <3>3. e.s = SessionOf[e.w] /\ e.kind # "user" /\ e.kind # "error" /\ k = log'[w]
      BY <1>3 DEF k
    <3> QED
      BY <1>3, <1>6, <1>7, <3>1, <3>2, <3>3 DEF Evidence
  <2>2. ASSUME NEW m \in 1 .. p, ModelAppend(l, m)
        PROVE  Turns(l, m) < run[w].turn
    <3>1. m # p
      BY <1>5, <2>2 DEF ModelAppend, IsAppend
    <3>2. p - 1 \in Nat /\ m \in 1 .. p - 1 /\ p - 1 + 1 = p
      BY <1>5, <3>1
    <3>3. /\ Turns(l, p - 1) \in Nat /\ Turns(l, m) <= Turns(l, p - 1)
          /\ Turns(l, p) = Turns(l, p - 1) + 1
      BY <1>5, <3>2, TurnsCount
    <3>4. Turns(l, m) \in Nat
      BY <1>5, <3>2, TurnsCount
    <3> HIDE DEF l, p
    <3> QED
      BY <1>5, <3>3, <3>4
  <2>3. ASSUME NEW i \in DOMAIN events, events[i].w = w
        PROVE  /\ events[i].kind \in {"user", "model"}
               /\ events[i].kind = "model" => events[i].id[3] < run[w].turn
    BY <1>1, <1>10, <2>2, <2>3, NoEndEvent
  <2>4. \A i \in DOMAIN events : events[i].w = w => Before(events[i], e)
    <3>1. e.kind \in {"model", "coded"} /\ e.kind # "user" /\ e.id[3] = run[w].turn
      BY <1>3
    <3> QED
      BY <2>3, <3>1 DEF Before
  <2>5. events' = Append(events, e)
    <3>1. ASSUME NEW i \in DOMAIN events, events[i].id = e.id
          PROVE  FALSE
      <4>1. events[i].kind \in {"model", "coded"} /\ events[i].w = w /\ events[i].id[3] = run[w].turn
        BY <1>3, <3>1, KindOf
      <4>2. events[i].kind = "model" /\ events[i].id[3] < run[w].turn
        BY <2>3, <4>1
      <4> QED
        BY <1>6, <4>1, <4>2
    <3> QED
      BY <1>2, <1>10, <3>1 DEF AppendEvent, Appended
  <2>6. Has(events', w, e.kind)
    BY <1>3, <2>5, EventsGrow DEF RunInv, TypeInv
  <2>7. e.kind = IF k[n - 1].out = "coded" THEN "coded" ELSE "model"
    BY <1>3, <1>5, <1>6
  <2>8. Leaves(k, n, w, events')
    <3> HIDE DEF k, n
    <3> QED
      BY <1>7, <2>6, <2>7 DEF Leaves
  <2> QED
    BY <2>1, <2>4, <2>8
<1>11. Stores' /\ (events' = events \/ \E f \in Event : events' = Append(events, f))
  BY <1>2, <1>3, <1>10, AppendKeepsStores
<1> QED
  BY <1>4, <1>9, <1>11 DEF LoudStep

-----------------------------------------------------------------------------
(* The path, the events and the reports, step by step.                     *)

LEMMA PathStepKeeps ==
    ASSUME RunInv, RunInv', TurnInv, NEW w \in Workflows, Step(w)
    PROVE  Start(w) \/ Diverge(w) \/ RecordResult(w) \/ Generate(w) \/ TurnInv'
<1>1. CASE QuietStep(w) /\ UNCHANGED <<result, deps>>
  <2>1. PICK name \in Name, out \in Out : Took(w, name, out)
    BY <1>1 DEF QuietStep
  <2>2. Paths'
    BY <1>1, <2>1, TookKeepsPath DEF TurnInv
  <2>3. Stores'
    BY <1>1, QuietKeepsStores DEF TurnInv
  <2>4. Reports'
    BY <1>1, <2>1, ReportsKept DEF TurnInv, QuietStep, Took
  <2> QED
    BY <2>2, <2>3, <2>4 DEF TurnInv
<1>2. CASE LoudStep(w) /\ UNCHANGED <<result, deps>>
  <2>1. PICK out \in Out : Took(w, "session.AppendEvent", out)
    BY <1>2 DEF LoudStep
  <2>2. Paths'
    BY <1>2, <2>1, TookKeepsPath DEF TurnInv, Name
  <2>3. Reports'
    BY <1>2, <2>1, ReportsKept DEF TurnInv, LoudStep, Took
  <2> QED
    BY <1>2, <2>2, <2>3 DEF TurnInv, LoudStep
<1>3. CASE durabilityOnlyRun(w)
  BY <1>1, <1>3, ProbeIsQuiet DEF TurnInv, durabilityOnlyRun, outside
<1>4. CASE resolveAgent(w)
  BY <1>1, <1>4, ResolveIsQuiet DEF TurnInv, resolveAgent, outside
<1>5. CASE GetSession(w) \/ GetSharedState(w) \/ CreateSession(w)
  BY <1>1, <1>5, SessionIsQuiet DEF TurnInv, GetSession, GetSharedState, CreateSession, outside
<1>6. CASE GenerateContent(w)
  BY <1>1, <1>6, AnswerIsQuiet DEF TurnInv, GenerateContent, outside
<1>7. CASE CloseStream(w)
  BY <1>1, <1>7, CloseIsQuiet DEF TurnInv, CloseStream, outside
<1>8. CASE AppendUserMessage(w)
  BY <1>2, <1>8, UserIsLoud DEF TurnInv, AppendUserMessage, outside
<1>9. CASE AppendModelEvent(w)
  BY <1>2, <1>9, ModelEventIsLoud DEF TurnInv, AppendModelEvent, outside
<1>10. CASE recordTurnFailure(w)
  BY <1>2, <1>10, FailureIsLoud DEF TurnInv, recordTurnFailure, outside
<1> QED
  BY <1>3, <1>4, <1>5, <1>6, <1>7, <1>8, <1>9, <1>10 DEF Step

\* What leaves the logs and the events alone leaves their agreement alone.
LEMMA StoresUnchanged ==
    ASSUME Stores, UNCHANGED <<log, events>>
    PROVE  Stores'
BY DEF Stores, EventsOnce

LEMMA StartKeepsTurn ==
    ASSUME RunInv, TurnInv, NEW w \in Workflows, Start(w)
    PROVE  TurnInv'
<1>1. /\ run[w] = Off /\ UNCHANGED <<result, log, events, deps>>
      /\ run' = [run EXCEPT ![w].pc = IF deps = "none" THEN "presolve" ELSE "resolve"]
  BY DEF Start, RunInv, PlaceInv
<1>2. /\ run'[w].pc = (IF deps = "none" THEN "presolve" ELSE "resolve")
      /\ run'[w].pos = 0 /\ run'[w].turn = 0
      /\ \A v \in Workflows \ {w} : run'[v] = run[v]
  <2> DEFINE pc == IF deps = "none" THEN "presolve" ELSE "resolve"
  <2>0. Off.pos = 0 /\ Off.turn = 0
    BY DEF Off
  <2>1. /\ run[w] \in Execution /\ run \in [Workflows -> Execution]
        /\ run[w].pos = 0 /\ run[w].turn = 0
    BY <1>1, <2>0, ExecutionOf
  <2>2. run' = [run EXCEPT ![w].pc = pc]
    BY <1>1
  <2> HIDE DEF pc
  <2>3. /\ run'[w].pc = pc /\ run'[w].pos = 0 /\ run'[w].turn = 0
        /\ \A v \in Workflows \ {w} : run'[v] = run[v]
    BY <2>1, <2>2 DEF Execution
  <2> QED
    BY <2>3 DEF pc
<1>3. Turns(log[w], 0) = 0 /\ ~(0 > 0)
  BY LogType, TurnsCount
<1>4. Follows(w)'
  BY <1>1, <1>2, <1>3 DEF Follows
<1>5. Calm(w)'
  BY <1>1, <1>2 DEF Calm, TurnInv, Paths, PathInv
<1>6. \A v \in Workflows \ {w} : PathInv(v)'
  BY <1>1, <1>2 DEF TurnInv, Paths, PathInv, Follows, Calm
<1>7. Paths'
  BY <1>1, <1>4, <1>5, <1>6 DEF TurnInv, Paths, PathInv
<1>8. Reports'
  BY <1>1, <1>2 DEF TurnInv, Reports, ReportInv, Says
<1> QED
  BY <1>1, <1>7, <1>8, StoresUnchanged DEF TurnInv

\* On the server the checkpoint an execution finds is the one it is about to make.
LEMMA DivergeKeepsTurn ==
    ASSUME RunInv, TurnInv, NEW w \in Workflows, Diverge(w)
    PROVE  TurnInv'
<1>1. /\ up /\ run[w].pc \notin {"off", "return"} /\ Replaying(w)
      /\ Recorded(w).step # Expected(w) \/ Undecodable(w)
      /\ UNCHANGED <<result, log, events, deps>>
      /\ run'[w].pc = "return" /\ run'[w].res = "diverged"
      /\ \A v \in Workflows \ {w} : run'[v] = run[v]
  BY ExecutionOf DEF Diverge, Return, Execution
<1>2. deps # "env"
  <2> SUFFICES ASSUME deps = "env" PROVE FALSE
    OBVIOUS
  <2> DEFINE l == log[w]
             n == run[w].pos
  <2>1. /\ Follows(w) /\ Calm(w) /\ \A m \in DOMAIN l : OnPath(l, m)
        /\ n \in Nat /\ l \in Seq(Entry) /\ n < Len(l)
    BY <1>1, ExecutionOf, LogType DEF TurnInv, Paths, PathInv, Replaying
  <2>2. /\ n + 1 \in DOMAIN l /\ (n > 0 => n + 1 > 1 /\ n + 1 - 1 = n)
    BY <2>1
  <2>3. run[w].pc # "presolve" /\ l[n + 1].out # "digest"
    BY <2>1, <2>2 DEF Calm
  <2>4. ~Undecodable(w)
    BY <2>3 DEF Undecodable, Recorded
  <2>5. run[w].pc # "answered"
    BY <1>1 DEF RunInv, PlaceInv
  <2>6. Expected(w) = StepAt(run[w].pc)
    BY <1>1, ExecutionOf DEF Expected, StepAt, Execution, Stage
  <2>7. l[n + 1].step = StepAt(run[w].pc)
    <3>1. CASE n = 0
      BY <1>1, <2>1, <2>2, <3>1 DEF Follows, OnPath, StepAt
    <3>2. CASE n > 0
      <4>1. run[w].pc = StageAfter(l, n)
        BY <1>1, <2>1, <2>5, <3>2 DEF Follows
      <4> HIDE DEF l, n
      <4> QED
        BY <2>1, <2>2, <3>2, <4>1 DEF OnPath
    <3> QED
      BY <2>1, <3>1, <3>2
  <2> QED
    BY <1>1, <2>4, <2>6, <2>7 DEF Recorded
<1>3. Paths'
  BY <1>1 DEF TurnInv, Paths, PathInv, Follows, Calm
<1>4. Reports'
  BY <1>1, <1>2 DEF TurnInv, Reports, ReportInv, Says
<1> QED
  BY <1>1, <1>3, <1>4, StoresUnchanged DEF TurnInv

LEMMA RecordKeepsTurn ==
    ASSUME RunInv, TurnInv, NEW w \in Workflows, RecordResult(w)
    PROVE  TurnInv'
<1>1. /\ run[w].pc = "return" /\ UNCHANGED <<log, events, deps>>
      /\ run'[w] = Off /\ Off.pc = "off" /\ result'[w] = run[w].res
      /\ \A v \in Workflows \ {w} : run'[v] = run[v] /\ result'[v] = result[v]
  BY ExecutionOf, OffType DEF RecordResult, At, RunInv, TypeInv, RunTypeOK
<1>2. Paths'
  BY <1>1 DEF TurnInv, Paths, PathInv, Follows, Calm
<1>3. Reports'
  BY <1>1 DEF TurnInv, Reports, ReportInv, Says
<1> QED
  BY <1>1, <1>2, <1>3, StoresUnchanged DEF TurnInv

LEMMA AnswerKeepsTurn ==
    ASSUME RunInv, TurnInv, NEW w \in Workflows, Generate(w)
    PROVE  TurnInv'
<1>1. /\ run[w].pc = "model" /\ up /\ UNCHANGED <<result, log, events, deps>>
      /\ \E a \in Answers : run' = [run EXCEPT ![w].pc = "answered", ![w].said = a]
  BY DEF Generate, At, outside
<1>2. /\ run'[w].pc = "answered" /\ run'[w].pos = run[w].pos /\ run'[w].turn = run[w].turn
      /\ \A v \in Workflows \ {w} : run'[v] = run[v]
  <2>1. PICK a \in Answers : run' = [run EXCEPT ![w].pc = "answered", ![w].said = a]
    BY <1>1
  <2>2. run[w] \in Execution /\ run \in [Workflows -> Execution]
    BY ExecutionOf
  <2> QED
    BY <2>1, <2>2 DEF Execution
<1>3. Follows(w)'
  BY <1>1, <1>2 DEF TurnInv, Paths, PathInv, Follows
<1>4. Paths'
  <2>1. \A v \in Workflows \ {w} : PathInv(v)'
    BY <1>1, <1>2 DEF TurnInv, Paths, PathInv, Follows, Calm
  <2>2. Calm(w)'
    BY <1>1, <1>2 DEF TurnInv, Paths, PathInv, Calm
  <2>3. \A n \in DOMAIN log'[w] : OnPath(log'[w], n)
    BY <1>1 DEF TurnInv, Paths, PathInv
  <2> QED
    BY <1>3, <2>1, <2>2, <2>3 DEF Paths, PathInv
<1>5. Reports'
  BY <1>1, <1>2 DEF TurnInv, Reports, ReportInv, Says
<1> QED
  BY <1>1, <1>4, <1>5, StoresUnchanged DEF TurnInv

\* A crash, a boot, a sign-in or out, a send, or nothing.
LEMMA ProcessKeepsTurn ==
    ASSUME RunInv, TurnInv,
           Crash \/ Boot \/ SignIn \/ SignOut \/ UNCHANGED vars \/ \E w \in Workflows : Send(w)
    PROVE  TurnInv'
<1>1. /\ UNCHANGED <<result, log, events>>
      /\ deps' = "env" => deps = "env"
      /\ \A v \in Workflows : run'[v] = run[v] \/ run'[v] = Off
  BY DEF Crash, Boot, SignIn, SignOut, vars, durable, Send, Enqueue
<1>2. Paths'
  BY <1>1, OffType DEF TurnInv, Paths, PathInv, Follows, Calm
<1>3. Reports'
  BY <1>1, OffType DEF TurnInv, Reports, ReportInv, Says
<1> QED
  BY <1>1, <1>2, <1>3, StoresUnchanged DEF TurnInv

LEMMA TurnNext == RunInv /\ RunInv' /\ TurnInv /\ [Next]_vars => TurnInv'
BY PathStepKeeps, StartKeepsTurn, DivergeKeepsTurn, RecordKeepsTurn, AnswerKeepsTurn,
   ProcessKeepsTurn DEF Next

LEMMA TurnInit == Init => TurnInv
<1> SUFFICES ASSUME Init PROVE TurnInv
  OBVIOUS
<1>1. /\ DOMAIN events = {}
      /\ \A w \in Workflows : DOMAIN log[w] = {} /\ run[w] = Off /\ result[w] = ""
  <2>1. DOMAIN <<>> = {}
    OBVIOUS
  <2> QED
    BY <2>1, Zenon DEF Init
<1>2. Off.pc = "off"
  BY OffType
<1>3. Paths
  BY <1>1, <1>2 DEF Paths, PathInv, Follows, Calm
<1>4. Stores
  BY <1>1 DEF Stores, EventsOnce
<1>5. Reports
  BY <1>1, <1>2 DEF Reports, ReportInv, Says
<1> QED
  BY <1>3, <1>4, <1>5 DEF TurnInv

LEMMA TurnInvariant == Spec => []TurnInv
BY RunInvariant, TurnInit, TurnNext, PTL DEF Spec

\* However often a run is killed and recovered, and whoever else writes into its
\* session, its turn leaves one user event, one event per generation and one error
\* event, in that order.
THEOREM TurnLeavesEventsOnce == Spec => []EventsOnce
<1>1. TurnInv => EventsOnce
  BY DEF TurnInv, Stores
<1> QED
  BY <1>1, TurnInvariant, PTL

\* On the server a recovered run takes the path of the run it recovers.
THEOREM ServerNeverDiverges == Spec => []NoDivergence
<1>1. TurnInv => NoDivergence
  BY DEF TurnInv, Reports, ReportInv, Says, NoDivergence
<1> QED
  BY <1>1, TurnInvariant, PTL

\* On the server a run that reports SUCCESS has stored its user's message and an
\* answer after it.
THEOREM SuccessIsStored == Spec => []ServerSuccessMeansTurn
<1>1. TurnInv => ServerSuccessMeansTurn
  BY DEF TurnInv, Reports, ReportInv, Says, TurnIn, ServerSuccessMeansTurn, SuccessMeansTurn
<1> QED
  BY <1>1, TurnInvariant, PTL

\* A run that reports ERROR has left an event that says so, or stands behind the
\* early failure of its session.
THEOREM FailureIsTold == Spec => []FailureTold
<1>1. TurnInv => FailureTold
  BY DEF TurnInv, Reports, ReportInv, Says, Told, EarlyId, FailureTold
<1> QED
  BY <1>1, TurnInvariant, PTL

-----------------------------------------------------------------------------
(* The page: its panel, its key and the dependencies it has registered.    *)

Buttons == {"sign-in", "sign-out", "chat-input", "chat-send"}

PageType ==
    /\ storage \in [key : Flow, verifier : Flow]
    /\ url \in Flow /\ asked \in Flow /\ flows \in Flow
    /\ tab \in [phase : {"boot", "exchange", "idle"}, held : Flow, leaving : Flow,
                enabled : SUBSET Buttons, typed : BOOLEAN, sends : SUBSET Workflows]
    /\ calm \subseteq Workflows /\ deps \in {"none", "key"}

\* A page that has not settled runs turns under no key, and its panel is as it
\* was loaded; one that has settled is signed in as DepsMatchKey says, and shows
\* so. Its send button was enabled by a sign-in, or by a send that a sign-out
\* outran.
PageInv ==
    /\ PageType
    /\ ~up => tab = Loading
    /\ tab.phase # "idle" => tab.enabled = {"sign-in"} /\ tab.sends = {}
    /\ up /\ tab.phase # "idle" => deps = "none"
    /\ tab.phase = "exchange" => url # 0
    /\ DepsMatchKey
    /\ SignedIn => deps = "key"
    /\ "chat-send" \in tab.enabled \/ tab.sends # {} => deps = "key" \/ signouts > 0

LEMMA LoadingType ==
    /\ Loading.phase = "boot" /\ Loading.enabled = {"sign-in"} /\ Loading.sends = {}
    /\ Loading \in [phase : {"boot", "exchange", "idle"}, held : Flow, leaving : Flow,
                    enabled : SUBSET Buttons, typed : BOOLEAN, sends : SUBSET Workflows]
<1>1. 0 \in Flow
  BY ChatAssumption DEF Flow
<1> QED
  BY <1>1 DEF Loading, Buttons

LEMMA PageInit == ChatInit => PageInv
<1> SUFFICES ASSUME ChatInit PROVE PageInv
  OBVIOUS
<1>1. /\ storage = [key |-> 0, verifier |-> 0] /\ url = 0 /\ asked = 0 /\ flows = 0
      /\ tab = Loading /\ calm = {} /\ up /\ deps = "none"
  BY ChatAssumption DEF ChatInit, Init
<1>2. PageType
  <2>1. 0 \in Flow
    BY ChatAssumption DEF Flow
  <2> QED
    BY <1>1, <2>1, LoadingType DEF PageType
<1> QED
  BY <1>1, <1>2, LoadingType DEF PageInv, DepsMatchKey, SignedIn, Enabled

\* What applyKeyState leaves behind, called with the key of the tab or with none.
LEMMA KeyApplied ==
    ASSUME PageInv, tab.phase # "idle", up, NEW k \in Flow, NEW held \in Flow,
           applyKeyState(k), storage' \in [key : Flow, verifier : Flow], url' \in Flow,
           k # 0 => storage'.key # 0,
           k = 0 => storage'.key = 0 \/ url' # 0,
           UNCHANGED <<asked, flows, calm>>
    PROVE  PageInv' /\ (UNCHANGED vars \/ SignIn)
<1>1. UNCHANGED vars \/ SignIn
  BY DEF applyKeyState
<1>2. /\ tab' = [tab EXCEPT !.phase = "idle", !.enabled = IF k = 0 THEN {"sign-in"}
                   ELSE {"sign-out", "chat-input", "chat-send"}]
      /\ PageType /\ deps = "none" /\ tab.sends = {}
  BY DEF applyKeyState, PageInv
<1>3. deps' = (IF k = 0 THEN "none" ELSE "key") /\ up' /\ signouts' = signouts
  BY <1>2 DEF applyKeyState, SignIn, vars
<1>4. /\ tab'.phase = "idle" /\ tab'.sends = {}
      /\ k = 0 => tab'.enabled = {"sign-in"}
  BY <1>2 DEF PageType
<1>5. PageType'
  BY <1>2, <1>3 DEF PageType, Buttons
<1> QED
  BY <1>1, <1>3, <1>4, <1>5 DEF PageInv, DepsMatchKey, SignedIn, Enabled

LEMMA WirePage ==
    ASSUME PageInv, wireChat
    PROVE  PageInv' /\ (UNCHANGED vars \/ SignIn)
<1>1. up /\ tab.phase = "boot" /\ UNCHANGED <<storage, url, asked, flows, calm>> /\ PageType
  BY DEF wireChat, PageInv
<1>2. CASE url # 0 /\ storage.verifier # 0
  <2>1. tab' = [tab EXCEPT !.phase = "exchange", !.held = storage.verifier] /\ UNCHANGED vars
    BY <1>2 DEF wireChat
  <2>2. /\ tab'.phase = "exchange" /\ tab'.enabled = tab.enabled /\ tab'.sends = tab.sends
        /\ PageType'
    BY <1>1, <2>1 DEF PageType, vars
  <2>3. /\ up' = up /\ deps' = deps /\ signouts' = signouts
        /\ tab.enabled = {"sign-in"} /\ tab.sends = {} /\ deps = "none"
    BY <1>1, <2>1 DEF vars, PageInv
  <2> QED
    BY <1>1, <1>2, <2>1, <2>2, <2>3 DEF PageInv, DepsMatchKey, SignedIn, Enabled
<1>3. CASE ~(url # 0 /\ storage.verifier # 0)
  <2> DEFINE k == IF url # 0 THEN 0 ELSE storage.key
  <2>1. k \in Flow
    BY <1>1, ChatAssumption DEF PageType, Flow
  <2>2. applyKeyState(k)
    BY <1>3 DEF wireChat
  <2>3. (k # 0 => storage'.key # 0) /\ (k = 0 => storage'.key = 0 \/ url' # 0)
    BY <1>1
  <2> HIDE DEF k
  <2> QED
    BY <1>1, <2>1, <2>2, <2>3, KeyApplied DEF PageType
<1> QED
  BY <1>2, <1>3

LEMMA CompletePage ==
    ASSUME PageInv, completeSignIn
    PROVE  PageInv' /\ (UNCHANGED vars \/ SignIn)
<1>1. /\ up /\ tab.phase = "exchange" /\ url # 0 /\ PageType /\ 0 \in Flow
      /\ UNCHANGED <<asked, flows, calm>>
  BY ChatAssumption DEF completeSignIn, PageInv, Flow
<1>2. CASE /\ storage' = [key |-> url, verifier |-> 0] /\ url' = 0
           /\ applyKeyState(storage'.key)
  <2>1. storage'.key = url /\ storage' \in [key : Flow, verifier : Flow] /\ url \in Flow
    BY <1>1, <1>2 DEF PageType
  <2>2. applyKeyState(url)
    BY <1>2, <2>1
  <2> QED
    BY <1>1, <1>2, <2>1, <2>2, KeyApplied
<1>3. CASE storage' = [storage EXCEPT !.verifier = 0] /\ url' = url /\ applyKeyState(0)
  <2>1. storage' \in [key : Flow, verifier : Flow] /\ url \in Flow
    BY <1>1, <1>3 DEF PageType
  <2> QED
    BY <1>1, <1>3, <2>1, KeyApplied
<1> QED
  BY <1>2, <1>3 DEF completeSignIn

\* A press of sign-in, or a key typed.
LEMMA PressPage ==
    ASSUME PageInv, signIn \/ Type
    PROVE  PageInv' /\ UNCHANGED vars
<1>1. UNCHANGED vars /\ up /\ UNCHANGED <<url, asked, calm>> /\ PageType
  BY DEF signIn, Type, Enabled, PageInv
<1>2. /\ storage'.key = storage.key /\ tab'.phase = tab.phase
      /\ tab'.enabled = tab.enabled /\ tab'.sends = tab.sends /\ PageType'
  <2>1. CASE signIn
    <3>1. flows' \in Flow
      BY <1>1, <2>1, ChatAssumption DEF signIn, PageType, Flow
    <3> QED
      BY <1>1, <2>1, <3>1 DEF signIn, PageType, vars
  <2>2. CASE Type
    BY <1>1, <2>2 DEF Type, PageType, vars
  <2> QED
    BY <2>1, <2>2
<1>3. up' = up /\ deps' = deps /\ signouts' = signouts
  BY <1>1 DEF vars
<1> QED
  BY <1>1, <1>2, <1>3 DEF PageInv, DepsMatchKey, SignedIn, Enabled

LEMMA SignOutPage ==
    ASSUME PageInv, RunInv, signOut
    PROVE  PageInv' /\ SignOut
<1>1. /\ SignOut /\ PageType /\ up /\ up' /\ deps = "key" /\ deps' = "none"
      /\ signouts' = signouts + 1 /\ signouts \in Nat
      /\ storage' = [key |-> 0, verifier |-> 0] /\ UNCHANGED <<url, asked, flows>>
      /\ calm' \subseteq calm
      /\ tab' = [tab EXCEPT !.enabled = {"sign-in"}]
  BY DEF signOut, SignOut, PageInv, RunInv, TypeInv
<1>2. tab.phase = "idle"
  BY <1>1 DEF PageInv
<1>3. tab'.enabled = {"sign-in"} /\ tab'.phase = "idle" /\ PageType'
  <2>1. 0 \in Flow
    BY ChatAssumption DEF Flow
  <2> QED
    BY <1>1, <1>2, <2>1 DEF PageType, Buttons
<1>4. signouts' > 0 /\ storage'.key = 0
  BY <1>1
<1> QED
  BY <1>1, <1>3, <1>4 DEF PageInv, DepsMatchKey, SignedIn, Enabled

\* What the panel sends, and what it does once the run has ended.
LEMMA SendPage ==
    ASSUME PageInv, NEW w \in Workflows, send(w) \/ sendReturns(w)
    PROVE  PageInv' /\ (Send(w) \/ UNCHANGED vars)
<1>1. /\ UNCHANGED <<storage, url, asked, flows, up, deps, signouts>> /\ PageType /\ up
  BY DEF send, sendReturns, Enqueue, vars, PageInv, Enabled
<1>2. "chat-send" \in tab.enabled \/ tab.sends # {}
  BY DEF send, sendReturns, Enabled
<1>3. tab.phase = "idle" /\ (deps = "key" \/ signouts > 0)
  BY <1>2 DEF PageInv
<1>4. Send(w) \/ UNCHANGED vars
  BY <1>3 DEF send, sendReturns, Send
<1>5. /\ tab'.phase = tab.phase /\ tab'.enabled \subseteq tab.enabled \cup {"chat-send"}
      /\ PageType'
  <2>1. CASE send(w)
    BY <1>1, <2>1 DEF send, PageType
  <2>2. CASE sendReturns(w)
    BY <1>1, <2>2 DEF sendReturns, PageType, Buttons
  <2> QED
    BY <2>1, <2>2
<1> QED
  BY <1>1, <1>3, <1>4, <1>5 DEF PageInv, DepsMatchKey, SignedIn, Enabled

LEMMA UnloadPage ==
    ASSUME PageInv, Unload
    PROVE  PageInv' /\ Crash
<1>1. /\ Crash /\ ~up' /\ deps' = deps /\ tab' = Loading /\ PageType
      /\ UNCHANGED <<storage, flows>> /\ calm' \subseteq calm
      /\ url' \in Flow /\ asked' \in Flow
  BY ChatAssumption DEF Unload, Crash, PageInv, PageType, Flow
<1>2. PageType'
  BY <1>1, LoadingType DEF PageType
<1> QED
  BY <1>1, <1>2, LoadingType DEF PageInv, DepsMatchKey, SignedIn, Enabled

LEMMA LoadPage ==
    ASSUME PageInv, Load
    PROVE  PageInv' /\ Boot
<1>1. /\ Boot /\ ~up /\ up' /\ deps' = "none" /\ tab' = Loading /\ PageType
      /\ UNCHANGED <<storage, flows, calm>> /\ url' \in Flow /\ asked' \in Flow
  BY ChatAssumption DEF Load, Boot, PageInv, PageType, Flow
<1>2. PageType'
  BY <1>1, LoadingType DEF PageType
<1> QED
  BY <1>1, <1>2, LoadingType DEF PageInv, DepsMatchKey, SignedIn, Enabled

LEMMA RunPage ==
    ASSUME PageInv, NEW w \in Workflows, RunStep(w)
    PROVE  PageInv' /\ Step(w)
<1>1. /\ Step(w) /\ UNCHANGED chatVars
  BY DEF RunStep
<1>2. UNCHANGED <<up, deps, signouts>>
  BY <1>1 DEF Step, Start, Diverge, durabilityOnlyRun, resolveAgent, GetSession, GetSharedState,
     CreateSession, AppendUserMessage, Generate, GenerateContent, AppendModelEvent, CloseStream,
     recordTurnFailure, RecordResult, outside
<1> QED
  BY <1>1, <1>2 DEF chatVars, PageInv, PageType, DepsMatchKey, SignedIn, Enabled

\* Every step of the page is one AgentRun allows a process of its kind.
LEMMA PageNext == PageInv /\ RunInv /\ [ChatNext]_pageVars => PageInv' /\ [Next]_vars
<1> SUFFICES ASSUME PageInv, RunInv, [ChatNext]_pageVars PROVE PageInv' /\ [Next]_vars
  OBVIOUS
<1>1. CASE UNCHANGED pageVars
  BY <1>1 DEF pageVars, vars, chatVars, PageInv, PageType, DepsMatchKey, SignedIn, Enabled
<1>2. CASE wireChat \/ completeSignIn
  BY <1>2, WirePage, CompletePage DEF Next
<1>3. CASE signIn \/ Type
  BY <1>3, PressPage
<1>4. CASE signOut \/ Unload \/ Load
  BY <1>4, SignOutPage, UnloadPage, LoadPage DEF Next
<1>5. ASSUME NEW w \in Workflows, send(w) \/ sendReturns(w) \/ RunStep(w)
      PROVE  PageInv' /\ [Next]_vars
  BY <1>5, SendPage, RunPage DEF Next
<1> QED
  BY <1>1, <1>2, <1>3, <1>4, <1>5 DEF ChatNext

LEMMA PageInvariant == ChatSpec => [](PageInv /\ RunInv)
<1>1. ChatInit => PageInv /\ RunInv
  BY PageInit, RunInit DEF ChatInit
<1>2. PageInv /\ RunInv /\ [ChatNext]_pageVars => (PageInv /\ RunInv)'
  BY PageNext, RunNext
<1> QED
  BY <1>1, <1>2, PTL DEF ChatSpec

\* The page drives its runs as AgentRun has a process do it: whatever is proved
\* of AgentRun's behaviours holds of the page's (send, applyKeyState, Register).
THEOREM PageRunsAreRuns == ChatSpec => Spec
<1>1. ChatInit => Init
  BY DEF ChatInit
<1>2. PageInv /\ RunInv /\ [ChatNext]_pageVars => [Next]_vars
  BY PageNext
<1> QED
  BY <1>1, <1>2, PageInvariant, PTL DEF ChatSpec, Spec

\* Once the page has settled, it runs turns under a key exactly when the tab has
\* one, unless the page came back with a code it could not redeem.
THEOREM SignInMatchesKey == ChatSpec => []DepsMatchKey
<1>1. PageInv => DepsMatchKey
  BY DEF PageInv
<1> QED
  BY <1>1, PageInvariant, PTL

-----------------------------------------------------------------------------
(* The turns that are sent from a page that is signed in, and stays so.    *)

Probing == {"presolve", "psleep", "pcomplete"}
NoProbe(l) == \A n \in DOMAIN l : l[n].out # "digest"

\* A run nothing has started yet, and one that has not ended.
Fresh(w) ==
    /\ status[w] \in {"NONE", "ENQUEUED"} => log[w] = <<>>
    /\ ~Ended(w) => result[w] = ""

\* A run of a page that has stayed signed in takes the path of the whole
\* workflow.
Undisturbed(w) ==
    /\ up /\ deps = "key" /\ status[w] \in {"ENQUEUED", "PENDING"}
    /\ run[w].pc \notin Probing
    /\ NoProbe(log[w])

SentInv ==
    \A w \in Workflows :
        /\ Fresh(w)
        /\ w \in calm => /\ Ended(w) \/ Undisturbed(w)
                         /\ Says(w, "SUCCESS") => TurnIn(events, w)

LEMMA SentInit == ChatInit => SentInv
<1> SUFFICES ASSUME ChatInit PROVE SentInv
  OBVIOUS
<1>1. /\ calm = {}
      /\ \A w \in Workflows : log[w] = <<>> /\ result[w] = "" /\ status[w] = "NONE"
  BY Zenon DEF ChatInit, Init
<1> QED
  BY <1>1 DEF SentInv, Fresh

\* A checkpoint of another output than the probe's.
LEMMA NoProbeKept ==
    ASSUME RunInv, NEW w \in Workflows, NEW name \in Name, NEW out \in Out \ {"digest"},
           RunAsStep(w, name, out), NoProbe(log[w])
    PROVE  NoProbe(log'[w])
<1> DEFINE e == [step |-> name, out |-> out]
<1>1. CASE log'[w] = log[w]
  BY <1>1
<1>2. CASE log'[w] = Append(log[w], e)
  <2>1. log[w] \in Seq(Entry) /\ e \in Entry /\ e.out # "digest"
    BY LogType DEF Entry
  <2> HIDE DEF e
  <2>2. /\ DOMAIN Append(log[w], e) = DOMAIN log[w] \cup {Len(log[w]) + 1}
        /\ \A n \in DOMAIN log[w] : Append(log[w], e)[n] = log[w][n]
        /\ Append(log[w], e)[Len(log[w]) + 1] = e
    BY <2>1
  <2> QED
    BY <1>2, <2>1, <2>2 DEF NoProbe
<1> QED
  BY <1>1, <1>2, LogAfter

\* A step of the whole workflow, with the checkpoint it takes and what it may report.
Earnest(w) ==
    /\ \E name \in Name, out \in Out \ {"digest"} : RunAsStep(w, name, out)
    /\ run'[w].pc \notin Probing
    /\ run'[w].pc = "return" => run'[w].res # "SUCCESS" \/ TurnIn(events, w)

LEMMA GotoIsEarnest ==
    ASSUME RunInv, NEW w \in Workflows, NEW name \in Name, NEW out \in Out \ {"digest"},
           RunAsStep(w, name, out), NEW pc \in Stage \ (Probing \cup {"return"}), Goto(w, pc)
    PROVE  Earnest(w)
<1>1. run'[w].pc = pc
  BY ExecutionOf DEF Goto, Execution
<1> QED
  BY <1>1 DEF Earnest

LEMMA ReturnIsEarnest ==
    ASSUME RunInv, NEW w \in Workflows, NEW name \in Name, NEW out \in Out \ {"digest"},
           RunAsStep(w, name, out), NEW res, Return(w, res),
           res # "SUCCESS" \/ TurnIn(events, w)
    PROVE  Earnest(w)
<1>1. run'[w].pc = "return" /\ run'[w].res = res
  BY ExecutionOf DEF Return, Execution
<1> QED
  BY <1>1 DEF Earnest, Probing

LEMMA StepIsEarnest ==
    ASSUME RunInv, Paths, Stores, NEW w \in Workflows, Step(w), run[w].pc \notin Probing
    PROVE  Start(w) \/ Diverge(w) \/ RecordResult(w) \/ Generate(w) \/ Earnest(w)
<1>1. ~durabilityOnlyRun(w)
  BY DEF durabilityOnlyRun, At, Probing
<1>2. ASSUME resolveAgent(w) PROVE Earnest(w)
  <2>1. PICK out \in {"closure", "absent"} :
          RunAsStep(w, "resolveAgent", out) /\ (Goto(w, "get") \/ Return(w, "resolve"))
    BY <1>2 DEF resolveAgent, resolveAgentClosure, buildRunner
  <2> QED
    BY <2>1, GotoIsEarnest, ReturnIsEarnest DEF Name, Out, Stage, Probing
<1>3. ASSUME GetSession(w) \/ GetSharedState(w) PROVE Earnest(w)
  <2>1. PICK name \in {"session.Get", "session.SharedState"}, out \in {"found", "absent", "err", "ok"},
             pc \in {"shared", "create", "user", "fail"} : RunAsStep(w, name, out) /\ Goto(w, pc)
    BY <1>3 DEF GetSession, GetSharedState
  <2> QED
    BY <2>1, GotoIsEarnest DEF Name, Out, Stage, Probing
<1>4. ASSUME CreateSession(w) PROVE Earnest(w)
  <2>1. PICK out \in {"created", "exists"}, pc \in {"get", "fail"} :
          RunAsStep(w, "session.Create", out) /\ Goto(w, pc)
    BY <1>4 DEF CreateSession
  <2> QED
    BY <2>1, GotoIsEarnest DEF Name, Out, Stage, Probing
<1>5. ASSUME AppendUserMessage(w) PROVE Earnest(w)
  <2>1. PICK out \in {"ok", "err"}, pc \in {"model", "fail"} :
          RunAsStep(w, "session.AppendEvent", out) /\ Goto(w, pc)
    BY <1>5 DEF AppendUserMessage, AppendEvent
  <2> QED
    BY <2>1, GotoIsEarnest DEF Name, Out, Stage, Probing
<1>6. ASSUME GenerateContent(w) PROVE Earnest(w)
  <2>1. PICK a \in Answers : RunAsStep(w, "model", a) /\ Heard(w, a)
    BY <1>6 DEF GenerateContent, At, RunInv, PlaceInv
  <2>2. run'[w].pc \in {"fail", "append"}
    BY <2>1, ExecutionOf DEF Heard, Execution
  <2>3. "model" \in Name /\ a \in Out \ {"digest"}
    BY DEF Name, Out, Answers
  <2> QED
    BY <2>1, <2>2, <2>3 DEF Earnest, Probing
<1>7. ASSUME AppendModelEvent(w) PROVE Earnest(w)
  <2> DEFINE r == [run[w] EXCEPT !.pos = @ + 1]
  <2>1. PICK out \in {"ok", "err"} :
          /\ RunAsStep(w, "session.AppendEvent", out)
          /\ \/ run' = [run EXCEPT ![w] = [r EXCEPT !.pc = "fail"]]
             \/ run' = [run EXCEPT ![w] = [r EXCEPT !.pc = "model", !.yielded = TRUE]]
             \/ Return(w, "steps")
             \/ run' = [run EXCEPT ![w] = [r EXCEPT !.pc = "close", !.yielded = TRUE]]
    BY <1>7 DEF AppendModelEvent, AppendEvent
  <2>2. r \in Execution /\ run \in [Workflows -> Execution]
    BY ExecutionOf DEF Execution
  <2>3. "session.AppendEvent" \in Name /\ out \in Out \ {"digest"}
    BY DEF Name, Out
  <2> HIDE DEF r
  <2>4. CASE Return(w, "steps")
    BY <2>1, <2>3, <2>4, ReturnIsEarnest
  <2>5. CASE ~Return(w, "steps")
    <3>1. run'[w].pc \in {"fail", "model", "close"}
      BY <2>1, <2>2, <2>5 DEF Execution
    <3> QED
      BY <2>1, <2>3, <3>1 DEF Earnest, Probing
  <2> QED
    BY <2>4, <2>5
<1>8. ASSUME CloseStream(w) PROVE Earnest(w)
  <2>1. Active(w) /\ run[w].pc = "close"
    BY <1>8 DEF CloseStream, Active, At
  <2>2. PICK out \in {"ok", "err"}, res \in {"ERROR", "SUCCESS", "close"} :
          /\ RunAsStep(w, "DBOS.closeStream", out) /\ Return(w, res)
          /\ res = "SUCCESS" => run[w].said # "coded"
    BY <1>8 DEF CloseStream
  <2>3. res # "SUCCESS" \/ TurnIn(events, w)
    BY <2>1, <2>2, TurnIsStored
  <2>4. "DBOS.closeStream" \in Name /\ out \in Out \ {"digest"}
    BY DEF Name, Out
  <2> QED
    BY <2>2, <2>3, <2>4, ReturnIsEarnest
<1>9. ASSUME recordTurnFailure(w) PROVE Earnest(w)
  <2>1. PICK out \in {"ok", "err"}, res \in {"ERROR", "append"} :
          RunAsStep(w, "session.AppendEvent", out) /\ Return(w, res)
    BY <1>9 DEF recordTurnFailure, AppendEvent
  <2>2. "session.AppendEvent" \in Name /\ out \in Out \ {"digest"}
    BY DEF Name, Out
  <2> QED
    BY <2>1, <2>2, ReturnIsEarnest
<1> QED
  BY <1>1, <1>2, <1>3, <1>4, <1>5, <1>6, <1>7, <1>8, <1>9 DEF Step

\* A step is of one run; it stores one event at most.
LEMMA StepIsOfOne ==
    ASSUME RunInv, NEW w \in Workflows, Step(w)
    PROVE  /\ \A v \in Workflows \ {w} : /\ run'[v] = run[v] /\ log'[v] = log[v]
                                         /\ status'[v] = status[v] /\ result'[v] = result[v]
           /\ events' = events \/ \E e \in Event : events' = Append(events, e)
           /\ up /\ UNCHANGED <<up, deps>>
           /\ Start(w) \/ RecordResult(w) \/ UNCHANGED <<status, result>>
<1>1. CASE Start(w) \/ Diverge(w) \/ RecordResult(w) \/ Generate(w)
  BY <1>1, ExecutionOf DEF Start, Diverge, RecordResult, Generate, Return, At, outside, RunInv,
     TypeInv, RunTypeOK
<1>2. CASE StepTaken(w)
  <2>1. PICK name \in Name, out \in Out, r \in Execution : Checkpoint(w, name, out, r)
    BY <1>2 DEF StepTaken
  <2>2. \A v \in Workflows \ {w} : run'[v] = run[v]
    BY <2>1, RunAfter
  <2>3. \A v \in Workflows \ {w} : log'[v] = log[v]
    BY <2>1, LogAfter DEF Checkpoint
  <2> QED
    BY <1>2, <2>2, <2>3 DEF StepTaken, Active, outside
<1> QED
  BY <1>1, <1>2, StepCases

LEMMA TurnStays ==
    ASSUME RunInv, NEW v \in Workflows, TurnIn(events, v),
           events' = events \/ \E e \in Event : events' = Append(events, e)
    PROVE  TurnIn(events', v)
BY EventsGrow DEF RunInv, TypeInv

\* The step of a run, for the run itself.
LEMMA SentStep ==
    ASSUME RunInv, TurnInv, SentInv, NEW w \in Workflows, Step(w), UNCHANGED calm
    PROVE  /\ Fresh(w)'
           /\ w \in calm => /\ (Ended(w) \/ Undisturbed(w))'
                            /\ Says(w, "SUCCESS")' => TurnIn(events, w)
<1>1. /\ Fresh(w) /\ run[w] \in Execution /\ run \in [Workflows -> Execution]
      /\ status \in [Workflows -> {"NONE", "ENQUEUED", "PENDING", "SUCCESS", "ERROR"}]
      /\ result \in [Workflows -> {""} \cup Outputs \cup Errors]
      /\ run[w].pc # "off" => status[w] = "PENDING"
      /\ Paths /\ Stores
  BY ExecutionOf DEF SentInv, RunInv, TypeInv, RunTypeOK, TurnInv
<1>2. /\ ~Ended(w) /\ up /\ up' /\ deps' = deps
      /\ status[w] \in {"ENQUEUED", "PENDING"} /\ (Start(w) \/ status[w] = "PENDING")
  BY <1>1, StepIsOfOne, StepCases DEF Start, Diverge, RecordResult, Generate, StepTaken, Active,
     At, Ended
<1>3. w \in calm => Undisturbed(w) /\ (Says(w, "SUCCESS") => TurnIn(events, w))
  BY <1>2 DEF SentInv
<1>4. CASE Start(w)
  <2>1. /\ status'[w] = "PENDING" /\ UNCHANGED <<result, log, events>>
        /\ run'[w].pc = IF deps = "none" THEN "presolve" ELSE "resolve"
    BY <1>1, <1>4 DEF Start, Execution
  <2>2. Fresh(w)'
    BY <1>1, <1>2, <2>1 DEF Fresh, Ended
  <2>3. w \in calm => Undisturbed(w)'
    BY <1>2, <1>3, <2>1 DEF Undisturbed, Probing
  <2>4. Says(w, "SUCCESS")' => Says(w, "SUCCESS")
    BY <2>1 DEF Says
  <2> QED
    BY <1>3, <2>1, <2>2, <2>3, <2>4
<1>5. CASE RecordResult(w)
  <2>1. /\ Ended(w)' /\ status'[w] \notin {"NONE", "ENQUEUED"}
        /\ run[w].pc = "return" /\ result'[w] = run[w].res /\ run'[w].pc # "return"
    BY <1>1, <1>5, OffType DEF RecordResult, At, Ended
  <2> QED
    BY <1>3, <2>1 DEF Fresh, Says
<1>6. CASE ~Start(w) /\ ~RecordResult(w)
  <2>1. UNCHANGED <<status, result>> /\ status[w] = "PENDING"
    BY <1>2, <1>6, StepIsOfOne
  <2>2. Fresh(w)'
    BY <1>1, <2>1 DEF Fresh, Ended
  <2>3. ASSUME w \in calm
        PROVE  /\ run'[w].pc \notin Probing /\ NoProbe(log'[w])
               /\ run'[w].pc = "return" => run'[w].res # "SUCCESS" \/ TurnIn(events, w)
    <3>1. run[w].pc \notin Probing /\ NoProbe(log[w])
      BY <1>3, <2>3 DEF Undisturbed
    <3>2. CASE Diverge(w)
      <4>1. run'[w].pc = "return" /\ run'[w].res = "diverged" /\ log' = log
        BY <1>1, <3>2 DEF Diverge, Return, Execution
      <4> QED
        BY <3>1, <4>1 DEF Probing
    <3>3. CASE Generate(w)
      <4>1. run'[w].pc = "answered" /\ log' = log
        BY <1>1, <3>3 DEF Generate, Execution
      <4> QED
        BY <3>1, <4>1 DEF Probing
    <3>4. CASE Earnest(w)
      BY <3>1, <3>4, NoProbeKept DEF Earnest
    <3> QED
      BY <1>1, <1>6, <3>1, <3>2, <3>3, <3>4, StepIsEarnest
  <2>4. w \in calm => Undisturbed(w)'
    BY <1>2, <1>3, <2>1, <2>3 DEF Undisturbed
  <2>5. w \in calm => (Says(w, "SUCCESS")' => TurnIn(events, w))
    BY <1>3, <2>1, <2>3 DEF Says
  <2> QED
    BY <2>2, <2>4, <2>5
<1> QED
  BY <1>4, <1>5, <1>6

LEMMA RunStepKeepsSent ==
    ASSUME RunInv, TurnInv, SentInv, NEW w \in Workflows, Step(w), UNCHANGED calm
    PROVE  SentInv'
<1>1. ASSUME NEW v \in Workflows \ {w}
      PROVE  /\ Fresh(v)'
             /\ v \in calm => /\ (Ended(v) \/ Undisturbed(v))'
                              /\ Says(v, "SUCCESS")' => TurnIn(events, v)
  <2>1. /\ run'[v] = run[v] /\ log'[v] = log[v] /\ status'[v] = status[v] /\ result'[v] = result[v]
        /\ up' = up /\ deps' = deps
    BY StepIsOfOne
  <2> QED
    BY <2>1 DEF SentInv, Fresh, Undisturbed, Ended, Says
<1>2. \A v \in Workflows : TurnIn(events, v) => TurnIn(events', v)
  BY StepIsOfOne, TurnStays
<1>3. /\ Fresh(w)'
      /\ w \in calm => /\ (Ended(w) \/ Undisturbed(w))'
                       /\ Says(w, "SUCCESS")' => TurnIn(events, w)
  BY SentStep
<1> QED
  BY <1>1, <1>2, <1>3 DEF SentInv

\* What the page does between the steps of its runs.
LEMMA PageKeepsSent ==
    ASSUME RunInv, PageInv, SentInv,
           wireChat \/ completeSignIn \/ signIn \/ Type \/ signOut \/ Unload \/ Load
    PROVE  SentInv'
<1>1. UNCHANGED <<status, result, log, events>> /\ calm' \subseteq calm
  BY WirePage, CompletePage, PressPage DEF wireChat, completeSignIn, signIn, Type, signOut, Unload,
     Load, SignIn, SignOut, Crash, Boot, durable, vars
<1>2. \/ UNCHANGED <<run, up, deps>>
      \/ \A w \in calm' : Ended(w)
  <2>1. CASE signIn \/ Type
    BY <2>1 DEF signIn, Type, vars
  <2>2. CASE signOut \/ Unload
    BY <2>2 DEF signOut, Unload, PageInv, PageType
  <2>3. CASE Load
    BY <2>3 DEF Load, Boot, SentInv, Undisturbed, PageInv, PageType
  <2>4. CASE wireChat \/ completeSignIn
    <3>1. UNCHANGED vars \/ SignIn
      BY <2>4, WirePage, CompletePage
    <3> QED
      BY <1>1, <3>1 DEF vars, SignIn, SentInv, Undisturbed, PageInv, PageType
  <2> QED
    BY <2>1, <2>2, <2>3, <2>4
<1>3. \A w \in Workflows : run'[w] = run[w] \/ run'[w].pc = "off"
  BY WirePage, CompletePage, PressPage, OffType
     DEF signOut, Unload, Load, SignIn, SignOut, Crash, Boot, vars
<1>4. ASSUME NEW w \in Workflows
      PROVE  /\ Fresh(w)'
             /\ w \in calm' => /\ (Ended(w) \/ Undisturbed(w))'
                               /\ Says(w, "SUCCESS")' => TurnIn(events', w)
  <2>1. Fresh(w)'
    BY <1>1 DEF SentInv, Fresh, Ended
  <2>2. w \in calm' => (Ended(w) \/ Undisturbed(w))'
    BY <1>1, <1>2 DEF SentInv, Undisturbed, Ended
  <2>3. w \in calm' => (Says(w, "SUCCESS")' => TurnIn(events', w))
    BY <1>1, <1>3 DEF SentInv, Says
  <2> QED
    BY <2>1, <2>2, <2>3
<1> QED
  BY <1>4 DEF SentInv

LEMMA SendKeepsSent ==
    ASSUME RunInv, PageInv, SentInv, NEW w \in Workflows, send(w)
    PROVE  SentInv'
<1>1. /\ up /\ status[w] = "NONE" /\ status' = [status EXCEPT ![w] = "ENQUEUED"]
      /\ UNCHANGED <<result, log, run, events, up, deps>>
      /\ calm' = calm \/ (SignedIn /\ calm' = calm \cup {w})
  BY DEF send, Enqueue
<1>2. status'[w] = "ENQUEUED" /\ \A v \in Workflows \ {w} : status'[v] = status[v]
  BY <1>1 DEF RunInv, TypeInv, RunTypeOK
<1>3. run[w].pc = "off" /\ log[w] = <<>> /\ result[w] = ""
  BY <1>1 DEF RunInv, TypeInv, RunTypeOK, SentInv, Fresh, Ended
<1>4. w \notin calm
  BY <1>1 DEF SentInv, Ended, Undisturbed
<1>5. Fresh(w)' /\ ~Says(w, "SUCCESS")'
  BY <1>1, <1>2, <1>3 DEF Fresh, Says
<1>6. w \in calm' => Undisturbed(w)'
  <2>1. DOMAIN <<>> = {}
    OBVIOUS
  <2>2. NoProbe(log[w])
    BY <1>3, <2>1, Zenon DEF NoProbe
  <2> QED
    BY <1>1, <1>2, <1>3, <1>4, <2>2 DEF Undisturbed, Probing, PageInv
<1>7. ASSUME NEW v \in Workflows \ {w}
      PROVE  /\ Fresh(v)'
             /\ v \in calm' => /\ (Ended(v) \/ Undisturbed(v))'
                               /\ Says(v, "SUCCESS")' => TurnIn(events', v)
  BY <1>1, <1>2 DEF SentInv, Fresh, Undisturbed, Ended, Says
<1> QED
  BY <1>5, <1>6, <1>7 DEF SentInv

LEMMA SentNext == PageInv /\ RunInv /\ TurnInv /\ SentInv /\ [ChatNext]_pageVars => SentInv'
<1> SUFFICES ASSUME PageInv, RunInv, TurnInv, SentInv, [ChatNext]_pageVars PROVE SentInv'
  OBVIOUS
<1>1. CASE UNCHANGED vars /\ UNCHANGED calm
  BY <1>1 DEF vars, SentInv, Fresh, Undisturbed, Ended, Says
<1>2. CASE UNCHANGED pageVars \/ \E w \in Workflows : sendReturns(w)
  BY <1>1, <1>2 DEF pageVars, chatVars, sendReturns
<1>3. ASSUME NEW w \in Workflows, RunStep(w) PROVE SentInv'
  BY <1>3, RunStepKeepsSent DEF RunStep, chatVars
<1> QED
  BY <1>2, <1>3, SendKeepsSent, PageKeepsSent DEF ChatNext

LEMMA SentInvariant == ChatSpec => []SentInv
<1>1. ChatSpec => []TurnInv
  BY PageRunsAreRuns, TurnInvariant, PTL
<1> QED
  BY <1>1, SentInit, SentNext, PageInvariant, PTL DEF ChatSpec

\* A message sent from a panel that says signed in, in a page that is neither
\* signed out of nor unloaded before the run ends, is a success only with an
\* answer stored.
THEOREM SentTurnIsAnswered == ChatSpec => []SentTurnIsRun
<1>1. PageInv /\ SentInv => SentTurnIsRun
  BY DEF PageInv, PageType, SentInv, Says, TurnIn, SentTurnIsRun
<1> QED
  BY <1>1, PageInvariant, SentInvariant, PTL
=============================================================================
