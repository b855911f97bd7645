------------------------------- MODULE AgentRun -------------------------------
(***************************************************************************)
(* The durable agent run: workflow.AgentRun, the ADK Runner loop it drives *)
(* through dbosadk and the session service, and the crashes and reloads it *)
(* is recovered from.                                                      *)
(*                                                                         *)
(* A workflow is ordinary code between steps. A step that has a checkpoint *)
(* in dbos.operation_outputs is replayed from it; the next one is executed *)
(* and checkpointed. An append (and a create) commits its rows and its     *)
(* checkpoint in one transaction. The process keeps, per running workflow, *)
(* only where it is; status, log, rows and events survive it.              *)
(***************************************************************************)
EXTENDS Naturals, Sequences, FiniteSets, SequencesExt

CONSTANTS
    Workflows, Sessions, SessionOf,
    BootDeps,    \* what processes register at boot: "env" (the server), "none" (the page)
    MaxTurn,     \* maxTurnSteps
    MaxCrashes,  \* bound: crashes or reloads in a behaviour
    MaxSignOuts  \* bound: sign-outs in a behaviour

ASSUME RunAssumption ==
    /\ SessionOf \in [Workflows -> Sessions]
    /\ BootDeps \subseteq {"env", "none"}
    /\ MaxTurn \in Nat \ {0} /\ MaxCrashes \in Nat /\ MaxSignOuts \in Nat

VARIABLES
    status,  \* dbos.workflow_status.status
    result,  \* AgentRunOutput.Status, once the workflow has returned one
    log,     \* dbos.operation_outputs: the checkpointed steps, in order
    run,     \* the execution in this process: where it is
    rows,    \* agentiq.session rows
    events,  \* agentiq.event rows, in commit order
    stream,  \* dbos.streams of the run's invocation: none, open, closed
    up,      \* the process (or tab) is alive
    deps,    \* registeredDeps: the server's, the signed-in page's ("key"), or Deps{} ("none")
    crashes, signouts,
    billed,  \* generations the provider has answered
    lost     \* answers that a crash destroyed before their checkpoint

durable == <<status, result, log, rows, events, stream>>
vars == <<status, result, log, run, rows, events, stream, up, deps,
          crashes, signouts, billed, lost>>

Off == [pc |-> "off", pos |-> 0, turn |-> 0, said |-> "", yielded |-> FALSE, res |-> ""]

(***************************************************************************)
(* Steps.                                                                  *)
(***************************************************************************)
At(w, pc) == up /\ run[w].pc = pc
Replaying(w) == run[w].pos < Len(log[w])
Recorded(w) == log[w][run[w].pos + 1]

\* The step named name ends with out: from its checkpoint, or executed and
\* checkpointed now.
RunAsStep(w, name, out) ==
    IF Replaying(w)
      THEN Recorded(w) = [step |-> name, out |-> out] /\ UNCHANGED log
      ELSE log' = [log EXCEPT ![w] = Append(@, [step |-> name, out |-> out])]

Goto(w, pc) == run' = [run EXCEPT ![w].pc = pc, ![w].pos = @ + 1]

\* The workflow function returns: an AgentRunOutput, or an error.
Outputs == {"SUCCESS", "ERROR"}
Errors == {"diverged", "resolve", "steps", "append", "close"}

Return(w, res) == run' = [run EXCEPT ![w].pc = "return", ![w].res = res]

\* DBOS stores what the function returned, after its last checkpoint.
RecordResult(w) ==
    /\ At(w, "return")
    /\ status' = [status EXCEPT ![w] = IF run[w].res \in Outputs THEN "SUCCESS" ELSE "ERROR"]
    /\ result' = [result EXCEPT ![w] = run[w].res]
    /\ run' = [run EXCEPT ![w] = Off]
    /\ UNCHANGED <<log, rows, events, stream, up, deps, crashes, signouts, billed, lost>>

\* The step a workflow is about to run, and the outputs it can decode.
Expected(w) ==
    CASE run[w].pc \in {"resolve", "presolve"}     -> "resolveAgent"
      [] run[w].pc = "get"                         -> "session.Get"
      [] run[w].pc = "shared"                      -> "session.SharedState"
      [] run[w].pc = "create"                      -> "session.Create"
      [] run[w].pc \in {"user", "append", "fail"}  -> "session.AppendEvent"
      [] run[w].pc \in {"model", "answered"}       -> "model"
      [] run[w].pc = "close"                       -> "DBOS.closeStream"
      [] run[w].pc = "psleep"                      -> "DBOS.sleep"
      [] run[w].pc = "pcomplete"                   -> "completeRun"
      [] OTHER                                     -> ""

\* The two shapes of AgentRun record different values for resolveAgent.
Undecodable(w) ==
    \/ run[w].pc = "presolve" /\ Recorded(w).out = "closure"
    \/ run[w].pc = "resolve" /\ Recorded(w).out = "digest"

\* DBOS refuses a replay that reaches a step other than the recorded one.
Diverge(w) ==
    /\ up /\ run[w].pc \notin {"off", "return"} /\ Replaying(w)
    /\ Recorded(w).step # Expected(w) \/ Undecodable(w)
    /\ Return(w, "diverged")
    /\ UNCHANGED <<status, result, log, rows, events, stream, up, deps, crashes, signouts, billed, lost>>

(***************************************************************************)
(* The process, its dependencies and its queue.                            *)
(***************************************************************************)
Init ==
    /\ status = [w \in Workflows |-> "NONE"]
    /\ result = [w \in Workflows |-> ""]
    /\ log = [w \in Workflows |-> <<>>]
    /\ run = [w \in Workflows |-> Off]
    /\ rows = {} /\ events = <<>>
    /\ stream = [w \in Workflows |-> "none"]
    /\ up = TRUE /\ deps \in BootDeps
    /\ crashes = 0 /\ signouts = 0
    /\ billed = [w \in Workflows |-> 0]
    /\ lost = [w \in Workflows |-> 0]

\* workflow.Enqueue.
Enqueue(w) ==
    /\ up /\ status[w] = "NONE"
    /\ status' = [status EXCEPT ![w] = "ENQUEUED"]
    /\ UNCHANGED <<result, log, run, rows, events, stream, up, deps, crashes, signouts, billed, lost>>

\* In the page the chat panel is enabled while signed in; a send that outlasts a
\* sign-out enables its button again.
Send(w) ==
    /\ deps # "none" \/ signouts > 0
    /\ Enqueue(w)

\* A launch that recovers nothing.
Start_NoRecovery(w) ==
    /\ up /\ run[w].pc = "off" /\ status[w] = "ENQUEUED"
    /\ status' = [status EXCEPT ![w] = "PENDING"]
    /\ run' = [run EXCEPT ![w].pc = IF deps = "none" THEN "presolve" ELSE "resolve"]
    /\ UNCHANGED <<result, log, rows, events, stream, up, deps, crashes, signouts, billed, lost>>

\* The queue worker takes a queued run, or recovery a run a dead process left
\* PENDING; AgentRun reads registeredDeps once, at its start.
Start(w) ==
    /\ up /\ run[w].pc = "off" /\ status[w] \in {"ENQUEUED", "PENDING"}
    /\ status' = [status EXCEPT ![w] = "PENDING"]
    /\ run' = [run EXCEPT ![w].pc = IF deps = "none" THEN "presolve" ELSE "resolve"]
    /\ UNCHANGED <<result, log, rows, events, stream, up, deps, crashes, signouts, billed, lost>>

\* An answer the process holds and has not checkpointed.
InHand(w) == IF run[w].pc = "answered" /\ run[w].said # "err" THEN 1 ELSE 0

\* A killed worker, or a closed or reloaded tab.
Crash ==
    /\ up /\ crashes < MaxCrashes
    /\ up' = FALSE /\ crashes' = crashes + 1
    /\ lost' = [w \in Workflows |-> lost[w] + InHand(w)]
    /\ run' = [w \in Workflows |-> Off]
    /\ UNCHANGED <<durable, deps, signouts, billed>>

\* Register, then Launch. The page registers Deps{} before it launches.
Boot ==
    /\ ~up
    /\ up' = TRUE /\ deps' = IF deps = "env" THEN "env" ELSE "none"
    /\ UNCHANGED <<durable, run, crashes, signouts, billed, lost>>

\* SetDeps: the key state of the tab is applied after Launch.
SignIn ==
    /\ up /\ deps = "none"
    /\ deps' = "key"
    /\ UNCHANGED <<durable, run, up, crashes, signouts, billed, lost>>

SignOut ==
    /\ up /\ deps = "key" /\ signouts < MaxSignOuts
    /\ deps' = "none" /\ signouts' = signouts + 1
    /\ UNCHANGED <<durable, run, up, crashes, billed, lost>>

outside == <<status, result, up, deps, crashes, signouts>>

(***************************************************************************)
(* durabilityOnlyRun: resolve, sleep, complete. A recorded error of the    *)
(* resolve step is returned whichever shape recorded it.                   *)
(***************************************************************************)
durabilityOnlyRun(w) ==
    /\ \/ At(w, "presolve") /\ RunAsStep(w, "resolveAgent", "digest")
          /\ Goto(w, "psleep")
       \/ At(w, "presolve") /\ Replaying(w)
          /\ RunAsStep(w, "resolveAgent", "absent") /\ Return(w, "resolve")
       \/ At(w, "psleep") /\ RunAsStep(w, "DBOS.sleep", "ok")
          /\ Goto(w, "pcomplete")
       \/ At(w, "pcomplete") /\ RunAsStep(w, "completeRun", "ok")
          /\ Return(w, "SUCCESS")
    /\ UNCHANGED <<outside, rows, events, stream, billed, lost>>

(***************************************************************************)
(* One turn.                                                               *)
(***************************************************************************)

\* The agent row is there, or it is not.
resolveAgentClosure == {"closure", "absent"}

\* The model, the agent and the runner are made of what was resolved, or
\* cannot be.
buildRunner(w) == Goto(w, "get") \/ Return(w, "resolve")

resolveAgent(w) ==
    /\ At(w, "resolve")
    /\ \E out \in resolveAgentClosure :
         /\ RunAsStep(w, "resolveAgent", out)
         /\ IF out = "closure" THEN buildRunner(w) ELSE Return(w, "resolve")
    /\ UNCHANGED <<outside, rows, events, stream, billed, lost>>

Stored(w) == SessionOf[w] \in rows

\* A read of the session that is not a step: a replay sees today's rows.
GetSession_NotAStep(w) ==
    /\ At(w, "get")
    /\ run' = [run EXCEPT ![w].pc = IF Stored(w) THEN "shared" ELSE "create"]
    /\ UNCHANGED <<log, outside, rows, events, stream, billed, lost>>

\* session.Get; the Runner creates a session that is not found.
GetSession(w) ==
    /\ At(w, "get")
    /\ \E out \in {"found", "absent", "err"} :
         /\ Replaying(w) \/ out = "err" \/ (out = "found" <=> Stored(w))
         /\ RunAsStep(w, "session.Get", out)
         /\ Goto(w, CASE out = "found" -> "shared" [] out = "absent" -> "create"
                      [] out = "err" -> "fail")
    /\ UNCHANGED <<outside, rows, events, stream, billed, lost>>

GetSharedState(w) ==
    /\ At(w, "shared")
    /\ \E out \in {"ok", "err"} :
         /\ RunAsStep(w, "session.SharedState", out)
         /\ Goto(w, IF out = "ok" THEN "user" ELSE "fail")
    /\ UNCHANGED <<outside, rows, events, stream, billed, lost>>

\* session.Create, then its read back. A session another run has created in
\* the meantime is a unique_violation, which ends the turn.
CreateSession(w) ==
    /\ At(w, "create")
    /\ \E out \in {"created", "exists"} :
         /\ Replaying(w) \/ (out = "exists" <=> Stored(w))
         /\ RunAsStep(w, "session.Create", out)
         /\ rows' = IF Replaying(w) THEN rows ELSE rows \cup {SessionOf[w]}
         /\ Goto(w, IF out = "created" THEN "get" ELSE "fail")
    /\ UNCHANGED <<outside, events, stream, billed, lost>>

\* ADK draws an event's id in the execution that makes the event.
Drawn(w, kind) == <<kind, w, run[w].turn, crashes>>

NewEvent(w, kind, id) == [s |-> SessionOf[w], kind |-> kind, id |-> id, w |-> w]

\* ON CONFLICT DO UPDATE.
Appended_Upsert(e) ==
    IF \E i \in DOMAIN events : events[i].s = e.s /\ events[i].id = e.id
      THEN [i \in DOMAIN events |->
              IF events[i].s = e.s /\ events[i].id = e.id THEN e ELSE events[i]]
      ELSE Append(events, e)

\* append_event: nothing when (session, id) is stored already.
Appended(e) ==
    IF \E i \in DOMAIN events : events[i].s = e.s /\ events[i].id = e.id
      THEN events ELSE Append(events, e)

\* The rows without the checkpoint.
AppendEvent_NoCheckpoint(w, e, out) ==
    /\ out = "ok" => Replaying(w) \/ Stored(w)
    /\ IF Replaying(w) THEN RunAsStep(w, "session.AppendEvent", out) ELSE UNCHANGED log
    /\ events' = IF Replaying(w) \/ out # "ok" THEN events ELSE Appended(e)

\* RunAsTransaction: the rows and the checkpoint commit together, or the
\* append fails for good, as it does where there is no session, and the error
\* is checkpointed.
AppendEvent(w, e, out) ==
    /\ out = "ok" => Replaying(w) \/ Stored(w)
    /\ RunAsStep(w, "session.AppendEvent", out)
    /\ events' = IF Replaying(w) \/ out # "ok" THEN events ELSE Appended(e)

\* The error of the append dropped.
AppendUserMessage_ErrorDropped(w) ==
    /\ At(w, "user")
    /\ \E out \in {"ok", "err"} :
         /\ AppendEvent(w, NewEvent(w, "user", Drawn(w, "user")), out)
         /\ Goto(w, "model")
    /\ UNCHANGED <<outside, rows, stream, billed, lost>>

\* The Runner stores the user's message before it calls the model.
AppendUserMessage(w) ==
    /\ At(w, "user")
    /\ \E out \in {"ok", "err"} :
         /\ AppendEvent(w, NewEvent(w, "user", Drawn(w, "user")), out)
         /\ Goto(w, IF out = "ok" THEN "model" ELSE "fail")
    /\ UNCHANGED <<outside, rows, stream, billed, lost>>

Answers == {"final", "more", "coded", "err"}

\* The provider called before the checkpoint is looked up.
Generate_BeforeLookup(w) ==
    /\ At(w, "model")
    /\ \E a \in Answers :
         /\ run' = [run EXCEPT ![w].pc = "answered", ![w].said = a]
         /\ billed' = [billed EXCEPT ![w] = @ + (IF a = "err" THEN 0 ELSE 1)]
    /\ UNCHANGED <<log, outside, rows, events, stream, lost>>

\* The provider answers, or has failed on every retry; partial responses go
\* to the stream as they come.
Generate(w) ==
    /\ At(w, "model") /\ ~Replaying(w)
    /\ \E a \in Answers :
         /\ run' = [run EXCEPT ![w].pc = "answered", ![w].said = a]
         /\ billed' = [billed EXCEPT ![w] = @ + (IF a = "err" THEN 0 ELSE 1)]
    /\ stream' \in {stream, [stream EXCEPT ![w] = "open"]}
    /\ UNCHANGED <<log, outside, rows, events, lost>>

\* The Runner has the answer: the event to append, or the error to report.
Heard(w, a) ==
    run' = [run EXCEPT ![w].pc = IF a = "err" THEN "fail" ELSE "append",
                       ![w].pos = @ + 1, ![w].turn = @ + 1, ![w].said = a]

\* stepModel.GenerateContent: the final response crosses the checkpoint.
GenerateContent(w) ==
    /\ \/ /\ At(w, "answered")
          /\ RunAsStep(w, "model", run[w].said)
          /\ Heard(w, run[w].said)
       \/ /\ At(w, "model") /\ Replaying(w)
          /\ \E a \in Answers : RunAsStep(w, "model", a) /\ Heard(w, a)
    /\ UNCHANGED <<outside, rows, events, stream, billed, lost>>

\* An answer with an errorCode is an event that says why the turn failed.
EventKind(w) == IF run[w].said = "coded" THEN "coded" ELSE "model"

\* maxTurnSteps: a backstop for a turn that never completes.
StepsLeft(r) == r.turn < MaxTurn

\* The Runner appends the model's event and yields it to runTurn.
AppendModelEvent(w) ==
    /\ At(w, "append")
    /\ \E out \in {"ok", "err"} :
         /\ AppendEvent(w, NewEvent(w, EventKind(w), Drawn(w, "model")), out)
         /\ LET r == [run[w] EXCEPT !.pos = @ + 1] IN
            \/ out = "err" /\ run' = [run EXCEPT ![w] = [r EXCEPT !.pc = "fail"]]
            \/ /\ out = "ok" /\ r.said = "more" /\ StepsLeft(r)
               /\ run' = [run EXCEPT ![w] = [r EXCEPT !.pc = "model", !.yielded = TRUE]]
            \/ out = "ok" /\ r.said = "more" /\ ~StepsLeft(r) /\ Return(w, "steps")
            \/ /\ out = "ok" /\ r.said \in {"final", "coded"}
               /\ run' = [run EXCEPT ![w] = [r EXCEPT !.pc = "close", !.yielded = TRUE]]
    /\ UNCHANGED <<outside, rows, stream, billed, lost>>

\* The turn ended without an error of the Runner's.
CloseStream(w) ==
    /\ At(w, "close")
    /\ \/ /\ RunAsStep(w, "DBOS.closeStream", "ok")
          /\ stream' = [stream EXCEPT ![w] = "closed"]
          /\ Return(w, IF run[w].said = "coded" THEN "ERROR" ELSE "SUCCESS")
       \/ /\ RunAsStep(w, "DBOS.closeStream", "err")
          /\ UNCHANGED stream
          /\ Return(w, "close")
    /\ UNCHANGED <<outside, rows, events, billed, lost>>

\* The id of the event a failed turn leaves behind: of the invocation, which
\* ADK draws, once an event has been yielded, and of the session before.
FailureId(w) ==
    IF run[w].yielded THEN Drawn(w, "error") ELSE <<"error", SessionOf[w], 0, 0>>

\* The status reported although the event could not be stored.
recordTurnFailure_ErrorDropped(w) ==
    /\ At(w, "fail")
    /\ \E out \in {"ok", "err"} :
         /\ AppendEvent(w, NewEvent(w, "error", FailureId(w)), out)
         /\ Return(w, "ERROR")
    /\ UNCHANGED <<outside, rows, stream, billed, lost>>

recordTurnFailure(w) ==
    /\ At(w, "fail")
    /\ \E out \in {"ok", "err"} :
         /\ AppendEvent(w, NewEvent(w, "error", FailureId(w)), out)
         /\ Return(w, IF out = "ok" THEN "ERROR" ELSE "append")
    /\ UNCHANGED <<outside, rows, stream, billed, lost>>

-----------------------------------------------------------------------------
Step(w) ==
    \/ Start(w) \/ Diverge(w) \/ durabilityOnlyRun(w)
    \/ resolveAgent(w) \/ GetSession(w) \/ GetSharedState(w) \/ CreateSession(w)
    \/ AppendUserMessage(w) \/ Generate(w) \/ GenerateContent(w)
    \/ AppendModelEvent(w) \/ CloseStream(w) \/ recordTurnFailure(w)
    \/ RecordResult(w)

Next ==
    \/ \E w \in Workflows : Send(w) \/ Step(w)
    \/ Crash \/ Boot \/ SignIn \/ SignOut

\* The worker's goroutines run, and somebody restarts a dead process.
Fairness == WF_vars(Boot) /\ \A w \in Workflows : WF_vars(Step(w))

Spec == Init /\ [][Next]_vars
FairSpec == Spec /\ Fairness

-----------------------------------------------------------------------------
Ended(w) == status[w] \in {"SUCCESS", "ERROR"}

\* Type correctness of the durable rows and of the executions.
RunTypeOK ==
    /\ status \in [Workflows -> {"NONE", "ENQUEUED", "PENDING", "SUCCESS", "ERROR"}]
    /\ result \in [Workflows -> {""} \cup Outputs \cup Errors]
    /\ stream \in [Workflows -> {"none", "open", "closed"}]
    /\ rows \subseteq Sessions
    /\ \A w \in Workflows :
         /\ run[w].pos <= Len(log[w])
         /\ run[w].pc # "off" => up /\ status[w] = "PENDING"
    /\ \A i \in DOMAIN events : events[i].s \in rows

\* However often a run is killed and recovered, its turn leaves one user
\* event, one event per generation and one error event, in that order.
EventsOnce ==
    \A i, j \in DOMAIN events : events[i].w = events[j].w /\ i < j =>
        \/ events[i].kind = "user" /\ events[j].kind # "user"
        \/ events[i].kind = "model" /\ events[j].kind = "error"
        \/ /\ events[i].kind = "model" /\ events[j].kind \in {"model", "coded"}
           /\ events[i].id[3] < events[j].id[3]

\* The checkpoints that hold an answer of the provider's.
Generations(steps) == {i \in DOMAIN steps : steps[i].step = "model" /\ steps[i].out # "err"}

\* A generation that has been checkpointed is never paid for again: the
\* provider's answers are those in the log, the one in hand, and those a
\* crash destroyed before their checkpoint.
NoRebilledGeneration ==
    \A w \in Workflows :
        billed[w] = Cardinality(Generations(log[w])) + lost[w] + InHand(w)

\* On the server, whose dependencies never change, a recovered run takes the
\* path of the run it recovers: no replay reaches a step other than the one
\* recorded there.
NoDivergence == deps = "env" => \A w \in Workflows : result[w] # "diverged"

\* A run that reports SUCCESS has stored its user's message and an answer to
\* it; nothing of the turn is lost to a crash or a reload.
SuccessMeansTurn ==
    \A w \in Workflows : status[w] = "SUCCESS" /\ result[w] = "SUCCESS" =>
        \E i, j \in DOMAIN events :
            /\ i < j /\ events[i].w = w /\ events[j].w = w
            /\ events[i].kind = "user" /\ events[j].kind = "model"

\* So it is on the server (AgentRun, Runner, AppendEvent, RunAsTransaction).
ServerSuccessMeansTurn == deps = "env" => SuccessMeansTurn

\* What is committed stays: an ended run keeps its status and result, and no
\* event or checkpoint is ever taken back, by a crash or by a replay; a stream
\* that was closed is not written to again by a replay of its turn.
DurableForGood ==
    [][/\ IsPrefix(events, events')
       /\ \A w \in Workflows :
            /\ IsPrefix(log[w], log'[w])
            /\ stream[w] = "closed" => stream'[w] = "closed"
            /\ Ended(w) => status'[w] = status[w] /\ result'[w] = result[w]]_vars

\* A run that is enqueued ends, however often the process dies.
EveryRunEnds == \A w \in Workflows : status[w] = "ENQUEUED" ~> Ended(w)

\* A run that reports Status ERROR has left an event that says so, or stands
\* behind the one its session's first early failure left under the id all early
\* failures of a session share (recordTurnFailure).
FailureTold ==
    \A w \in Workflows : result[w] = "ERROR" =>
        \E i \in DOMAIN events :
            /\ events[i].kind \in {"error", "coded"}
            /\ events[i].w = w \/ events[i].id = <<"error", SessionOf[w], 0, 0>>
=============================================================================
