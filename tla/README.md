# A TLA+ development of agentiq

agentiq runs LLM agents as durable workflows. A turn of a conversation is a DBOS
workflow whose steps (resolve the agent, read the session, store an event, call the
model, close the stream) are checkpointed in Postgres, so that a killed server or a
reloaded browser tab resumes instead of starting over. In the browser the database is
PGlite, a single Postgres session compiled to WebAssembly, and `wasmpg` lets a
connection pool of many logical connections share it. An analyzer that runs with the
linter checks that workflow code is deterministic, which is what makes a replay sound.

This directory holds TLA+ models of the parts of that system in which order,
concurrency, failure or a hand-written recogniser decide whether it is right, the TLC
configurations that check them, and TLAPS proofs of their main invariants.
`PROJECT.json` maps every definition to the source lines it translates. Paths below are
relative to the repository root.

## 1. Inventory

| Component | Source | State it keeps | Operations | Who calls it |
|---|---|---|---|---|
| Backend lock | `wasmpg/fifo.go` | `held`, `waiters`, one channel per waiter | `acquire`, `abandon`, `release` | `beginRoundTrip`, `endRoundTrip`, `abandonHold` |
| Multiplexer and connections | `wasmpg/mux.go`, `conn.go`, `pglite_js.go` | `m.conns`, `m.closed`; per connection `backendHold{held,inFlight,closing}`, `done`; the PGlite session's transaction | `DialContext`, `Close`, `Write`, `submit`, `beginRoundTrip`, `endRoundTrip`, `rollbackSession`, `shutdown`, `abandonHold` | pgx and pgxpool, DBOS through them |
| Notification routing | `wasmpg/mux.go` | `m.routes`; the session's own LISTEN set | `apply`, `forget`, `Notify`, `deliver` | `Conn.Write`; PGlite's `onNotification` |
| Wire codec | `wasmpg/pgproto.go`, `listen.go`, `Write` and `handleLocally` in `conn.go` | `wbuf`, `startup` | framing, the startup answers, `observeListen`, `sessionOutcome` | `Conn.Write`, `submit` |
| Read side and deadlines | `wasmpg/conn.go`, `deadline.go` | `queue`, `rem`, `ready`, `done`; `cancel`, `timer` | `deliver`, `Read`, `set` | pgx's reader, the timer, the notification path |
| Session service | `session/service.go`, `state.go`, `migrate/sql/0002`, `0003` | tables `session`, `event`, its children, `session_state` | `Create`, `Get`, `AppendEvent`, `Delete` | the ADK Runner, `recordTurnFailure`, the demo |
| Event row mapping | `session/rows.go`, `append.go`, `load.go` | none | `encodeEvent`, `EncodeForAppend`, `eventRowsFromSession`, `decodeEvent` | the session service |
| Agent run workflow | `workflow/*.go`, `dbosadk/*.go` | `registeredDeps`; DBOS's status and step tables; streams | `Register`, `SetDeps`, `Enqueue`, `AgentRun`, `runTurn`, `recordTurnFailure`, `durabilityOnlyRun`, `stepModel.GenerateContent`, `CloseStream` | the queue worker, recovery, the demo's chat |
| Chat panel and boot of the page | `demo/wasm/main.go`, `chat.go`, `model/pkce.go` | sessionStorage (`key`, `verifier`), the address bar, the panel's buttons | boot order, `beginSignIn`, `consumeCallback`, `applyKeyState`, `signOut`, `send`, `refresh` | the user, the provider's redirect |
| Migrations | `migrate/*.go`, `migrate/sql`, `tables`, `graph` | the schema, `agentiq.schema_migrations`, the property graph | `Apply`, `ApplyGraph`, `Run` | the server, the CLI, the page, on every boot |
| Server process | `cmd/agentiq/main.go` | what is alive, what was registered | boot order | operator |
| Determinism analyzer | `analyzer/determinism` | facts per exported function | `exportFacts`, `reportFromRegistrations`, `reportBody` | golangci-lint, one pass per package |
| Provider client | `model/*.go` | none | one HTTP call, one code exchange | `AgentRun`, the demo |
| Demo UI, pool, probe, bridge | `demo/wasm/ui.go`, `pool.go`, `probe.go`, `pglite.go`, `js.go` | DOM | rendering, configuration | the page |
| Raw SQL analyzer, generators, generated client, harness | `analyzer/rawsql`, `tools`, `generated`, `test` | none | build and test time | |

How they interact: DBOS and the session service hold pgx connections; in the browser each
is a `wasmpg.Conn`, whose `Write` reassembles messages, queues on the lock, sends to
PGlite, and leaves the reply in its own read queue. `submit` keeps the lock while the reply
says a transaction is open. PGlite's notifications arrive by callback and are copied to the
connections that sent LISTEN, which `observeListen` reads off the statements going past. The
workflow reaches the session service through the ADK Runner; each of its calls is a step, or
a transaction that carries the step's checkpoint. The chat panel enqueues runs and swaps the
dependencies of the next ones when the key comes and goes.

What is hard, and what makes each part correct:

* **Lock and multiplexer.** Three kinds of goroutine per connection (writer, closer,
  `Multiplexer.Close`) and a promise that may settle late or never. The lock must have one
  owner, never be lost when a grant crosses a change of mind, and be given back once; a
  transaction must not be entered, ended or inherited by another connection.
* **Routing.** The table moves when a statement is *written*, the session when it *runs*,
  and connections close in between. A listener that stays must stay routed and miss nothing.
* **Wire codec.** Chunks respect no message boundary; a LISTEN may be spelled inside a literal,
  a comment or a dollar quote, and a notification may arrive between the frames of a reply.
* **Reading.** A one-token wake-up, a timer that closes a channel without the mutex, a
  deadline that is replaced under a parked reader. No wake-up may be lost, no deadline
  missed or taken for another, no channel closed twice, nothing delivered before a close lost.
* **Session service.** Under PGlite transactions are serial; under Postgres they interleave
  statement by statement. Appends must be idempotent, sequences an order, deletes complete.
* **Agent run.** A crash between any two steps and a replay of everything before it, in the
  page under dependencies that may have been swapped. A replay must take the same path,
  store nothing twice, pay for nothing twice, and end.
* **Chat.** Sign-in leaves the page and comes back to a new one; a turn may be queued by one
  page and executed by the next. Page code runs on one thread, but every `await` is a place
  where something else happens. The dependencies must follow the key the user sees.
* **Migrations.** Every boot runs them, without a lock, one transaction per statement batch,
  over a new database or an earlier release's.
* **Analyzer.** A fixed point over a cyclic call graph in map order, then a walk that crosses
  packages through facts. It must report all of what a replay reaches and nothing else.

## 2. Modules and how they correspond to the code

`QueueLock` (what the lock promises) ← `FifoLock` (fifo.go) ← `Multiplexer` (extends it:
mux.go, conn.go); `Listen` ← `Wire` (the codec); `AgentRun` ← `Chat` (the page over the runs
it starts); `Routes`, `ConnRead`, `SessionStore`, `EventRows`, `Migrate` and `Determinism`
are components of their own. `MC*` give TLC its constants; `MCCodecs` puts `EventRows` and
`Wire` side by side. A component's proofs are in `<module>Proofs`, those of `Routes` and
`ConnRead` in `ConnProofs`, those of `EventRows` and `Wire` in `CodecProofs` (which extends
`ListenProofs`), those of `Chat` behind those of `AgentRun` in `AgentRunProofs`.

**FifoLock.** A caller is identified with the channel it parks on: `waiters` is a sequence
of callers, a closed and unread channel is membership in `granted`, and `at` says where a
caller is (out, queued in the select, leaving in `abandon`, owner, handing on an unwanted
grant). Each critical section of `f.mu` and each ready case of the select is an action.
Go's select picks any ready case, so `AcquireGiveUp` is enabled although the grant is there.

**Multiplexer.** A caller is a connection, because `Write` serialises on `wmu`. `wpc` is the
writer's place in `Write`/`submit`/`beginRoundTrip`/`endRoundTrip`, `kpc` that of whoever
runs the shutdown (`sync.Once` admits one). `holding`, `inFlight` and `closing` are the three
flags of `backendHold` as sets. The session is abstracted to *whose* transaction or batch it
is in the middle of. `exec` applies a message at the call; the promise then resolves
(`execReplies`), or rejects or is left behind by a deadline or a close (`execFails`), after
which the outcome is unknown and a ROLLBACK is sent. Write deadlines are not state: one may
pass at any moment of a `Write`.

**Routes.** `routes` is `m.routes` as pairs; `backendListens` is the single session's LISTEN
set; `wants` is what a connection with a session of its own would listen to. A Write observes
messages one by one (and moves the table) and executes them as a batch; the batch takes
effect or does not. `Notify` copies the table; `Deliver` runs later, per connection.

**Listen.** `observeListen` and its helpers as operators on a sequence of cells (a punctuation
character, a blank, a digit, a letter or one of the two keywords): splitting a text into
statements, skipping literals, comments and dollar quotes, and reading the keyword and the
channel. Its reference is the text *built* from tokens, whose meaning is known by construction.

**Wire.** A stream of cells is cut at any point; `wbuf` and `startup` are `Conn`'s. Each turn
of the decode loop is an action: a partial message ends the Write, a framing error ends the
connection, the startup phase and Terminate are answered by the shim, and the rest is gathered
and handed to the backend in one batch. The reply is searched for notifications and status.

**ConnRead.** One connection, one reader, concurrent deliverers, a caller of
`SetReadDeadline` and the timer. Deadline channels are numbered; `shut` is the closed ones.
A frame is two bytes, so that a short buffer can split it.

**SessionStore.** All tables are one set of rows; a transaction has the rows it added and
removed, sees the committed rows and its own (READ COMMITTED), and waits for a row key
another transaction holds. Each SQL statement of `create_session`, `append_event` and
`delete_session` is an action. `serial` is TRUE for PGlite behind the multiplexer, which is
justified by `Multiplexer`'s `TransactionIsolation`, and FALSE for Postgres. Values of state
keys are the number of the transaction that wrote them.

**EventRows.** Pure functions: encode an event into rows, what the JSON documents and the
constraints do to them, the rows arriving in any order, and decode. A nullable is a set of at
most one element. One group of each *kind of encoding* stands for the groups encoded alike.

**AgentRun.** `status`, `result`, `log` (the step table), `rows`, `events`, `stream` survive a
crash; `run` (where an execution is) does not. A step that has a checkpoint is replayed;
the next one is executed and checkpointed. Appends and the create commit with their
checkpoint; the model's answer is in the process's hands (`answered`) before its checkpoint.
`deps` is `registeredDeps`, read once at the start of an execution: "env" on the server, "key"
in a signed-in page, "none" for `Deps{}`, with which the page boots. What DBOS and ADK do
(recovery, the replay check, ids drawn per execution) is modelled from how the repository
uses them and marked external in the map.

**Chat** extends `AgentRun`. A sign-in flow is a number, which stands for the verifier, the
code and the key exchanged for it. `storage` is sessionStorage, `url` the code in the address
bar, `tab` what the page awaits, which buttons it enables and its sends in progress. An action is
what page code does from one wait to the next. Closing or leaving the page is `AgentRun`'s crash.

**Migrate.** Each `Exec` of `Apply` and `ApplyGraph` is an action; `recorded` lists the files
of this release in the order `Apply` splices them; a process may die between any two. The
database starts empty or as any earlier release left it: a prefix of each history.

**Determinism.** A body is the sequence of what the syntax walk looks at: statements, calls out
of the module, calls of known functions, calls through values, boundary calls. A pass picks a
package whose imports are done; `exportFacts` merges callees caller by caller, in any order of
the maps, until a round changes nothing; `reportBody`'s recursion is an explicit stack.

## 3. Runs

| Run | Instance | Distinct states | What it shows |
|---|---|---|---|
| `multiplexer` | 3 connections, budget 2, symmetric | 172 k | the FIFO lock refines `QueueLock` as the multiplexer uses it; isolation, clean handover, released once, gone owns nothing, only the owner ends a transaction |
| `multiplexer_live` | 2 connections | 19 k | every Write returns; a close gives the backend up, and `Multiplexer.Close` leaves nothing open |
| `routes` | 2 connections, 2 channels, 1 notification, 1 message per Write | 2.7 M | a listener that stays is routed and misses nothing |
| `conn_read` | 2 frames, 3 calls of set | 53 k | order, exact deadline, no double close, close after drain, and a blocked Read returns |
| `codecs` | 2 parts, 3 of 7 prefixed keys, nil values; scripts of up to 4 messages cut anywhere, 3,332 statement texts, replies of up to 3 frames | 453 k | load(store(e)) = e, only a nil value is refused; the stream is reassembled, exactly the LISTENs are observed, the reply is read as meant |
| `session_store` | 3 callers, 2 sessions, 2 events; 5 transactions serial, 4 on Postgres | 1.7 M | idempotent appends and events kept on both, no wait cycle; dense sequences, no orphans and consistent loads on PGlite |
| `sequence_unique_postgres` | 2 callers | violated | two appends share a sequence |
| `agent_run` | server and page; 2 runs of one session, 1 generation, 1 crash or sign-out | 4.4 M | nothing stored or paid for twice, what is committed stays, a failed turn is told; on the server replays do not diverge and SUCCESS means a stored turn |
| `chat` | 2 runs (the second with at most one unload), up to 3 generations, 3 unloads, 2 sign-ins, 1 sign-out | 698 k | the dependencies follow the key, an undisturbed turn is a turn, every run ends |
| `nothing_is_lost` | 1 run, 1 reload | violated | a reloaded turn ends SUCCESS with no turn |
| `migrate` | 2 processes, 2 deaths, every earlier release | 102 k | a boot fails only on a duplicate; ready means complete; boots get through unless torn |
| `determinism` | 5 functions in 3 packages, up to 2 items a body, 4 registrations | 406 k | facts and diagnostics are exactly what a replay reaches, chains are paths, the analysis ends |

Why the bounds are enough. Three connections are an owner and two waiters, the least for
which FIFO means something, and with a budget of two the third dials only when another has
gone; the safety properties are proved for every number. Two connections and two channels
give every pair of listeners that share or do not share a channel; a second notification
would only repeat the first, because `Notify` keeps nothing between calls, and the proof
covers the rest. Two frames fill the queue while the token is taken, three calls of `set` are a
deadline, its replacement under a fired timer, and a third that meets the stale channel. The
codec's scripts put every kind of message before and after every other, its texts every pair
of tokens that may touch before a LISTEN; `maxMessageSize` is 60 cells, longer than every legal message
of the scripts. Four transactions on Postgres are a create and three that overlap. Two
runs race for one session and one is killed anywhere; the chat's three unloads let a recovery
be recovered, and its two flows let one overtake the other. Two deaths let both processes
die, or one die twice. The call graphs of `determinism` contain every cycle of up to
four functions, inside a package and through an unexported helper; what is proved of the
facts holds for all.

Deadlock is checked in the multiplexer runs (`Stopped` is the only final state); in the
others the system may stop (bounds used up, everything read, every run ended), and what must
not stop is stated as a property (`NoWaitCycle`, `EveryRunEnds`, `BootsUnlessTorn`,
`AnalysisEnds`, `BlockedReadReturns`).

The type invariants (`TypeOK` of `Multiplexer`, `RoutesTypeOK`, `ReadTypeOK`, `StoreTypeOK`,
`RunTypeOK`, `MigrateTypeOK`) document the state of their modules and are what the inductive
invariants of section 4 start from; the runs spend their properties on behaviour.

Every property of a passing run has a mutant in `PROJECT.json`: an operator next to the one
it replaces, a slip the code could plausibly contain, under which TLC finds the property
violated.

### Fairness

* `multiplexer_live`: goroutines inside `Write` or a shutdown run; the write deadline pgx sets
  from the caller's context passes; PGlite settles the promises it returned. The last is an
  assumption about PGlite: without it `EveryWriteReturns` fails (section 5).
* `conn_read`: runnable goroutines run, a fired timer closes its channel. Nobody is obliged
  to deliver, to close or to call `Read`; an armed timer may be arbitrarily far away, and
  `BlockedReadReturns` asks for a return only where something is there to return with.
* `chat`: the user comes back to the page (`Load`), and the worker runs what is queued or
  recovered. Nobody is obliged to sign in, to send, or to finish a sign-in. Unloads are bounded,
  as DBOS's recovery attempts are (SPEC.md, F5).
* `migrate`: a process that is alive makes progress and a failed boot is tried again (the
  server's supervisor, the page load).
* `determinism`: the analysis is one goroutine that runs.

### Refinement

`ImplementsQueueLock` maps the owner to the caller that owns the lock in any of the ways
`Owns` lists and the queue to `waiters`. Joining, leaving, taking and passing on are single
critical sections; receiving a grant, or draining an unwanted one, is invisible. It is
checked on the lock as the multiplexer uses it and proved for any set of callers.

## 4. Proofs

Checked by TLAPS for every value of the constants. Each module's assumption is its `ASSUME`:
`None` is not a caller and `New` rejects a budget below 2 (lock, multiplexer), bounds are
natural numbers, the store's names and state keys have their types, `SessionOf` gives every run a session, `maxTurnSteps` is positive, the codec's messages, texts and frames are well-formed. The bounds
themselves are constants, so the theorems hold for behaviours of any length. A program that
`Determinism` analyses has sequences of items for bodies, each at a position, and names in a call
or a registration only what is declared and, in another package, exported and imported. The
inductive invariants of the turn (`TurnInv`), of the store's reads (`StateInv`, `ReadInv`), of the
page (`PageInv`, `SentInv`) and of the analyzer's walk (`WalkInv`, its chains up to two calls) were
checked by TLC before they were proved.

* `MultiplexerProofs`, of the lock. The inductive invariant is `LockInv`: types, `OneOwner`, `NeverLost`,
  `ParkedOnce` and `NobodyWaitsForFree`. None of the first three is inductive alone: that a
  release makes no second owner needs that whoever is in the slice holds no grant
  (`ParkedOnce`), and that a free lock has no queue is what makes `AcquireFree` a `Take` of
  `QueueLock`. Two lemmas on sequences (`WithoutLemma`, `TailLemma`) say what removing a
  waiter leaves. Theorems: `LockInvariant`, `LockOneOwner`, `LockRefinesQueueLock`.
* `MultiplexerProofs`, of the multiplexer. `MuxInv` adds, per connection, that the writer's place, the three
  flags and the stage of `acquire` agree (`WriterInv`), that an owner is on its way to a hold,
  has one or is giving it back (`OwnerInv`), that after `abandonHold` only a running round
  trip keeps a hold (`CloserInv`), and that the session is busy only for a connection that
  holds it or is about to roll it back (`SessionInv`). One lemma per action. From it:
  `MuxTypeOK`, `MuxTransactionIsolation`, `MuxCleanHandover`, `MuxGoneOwnsNothing`,
  `MuxReleasedOnce`, `MuxOnlyOwnerEnds` (an action property), and `MuxUsesLock`, that the
  multiplexer uses the lock only through its interface and so inherits its refinement.
* `ConnProofs`, of the routes. That a listener is routed *now* is not inductive: a batch in flight may end
  its listening. `HeadingRouted` says it of where the connection will be once its Write has
  run, which needs that what a batch does to a channel is pointwise and decided by its last
  operation (`AfterIsPointwise`, `AfterAppend`). Theorems: `RoutesListenerStays`,
  `RoutesNothingLost`.
* `ConnProofs`, of the read side. The deadline and the stream are two invariants, because no step changes
  both. `DeadlineInv`: a timer that is armed or fired belongs to the channel in use, which is
  open; from it, that no channel is closed twice and that each is closed when its deadline has
  passed (`DeadlineIsExact`). `StreamInv`: what was read, the rest of a frame and the queue
  are what was sent (`StreamIsInOrder`, over a closed form of the concatenation and the
  lemmas `FlatAppend` and `FlatHead`), and so a Read that reports the close has returned
  all of it (`CloseIsAfterDrain`).
* `SessionStoreProofs`, for both databases. `StoreInv` says of each call how far it has got
  (`StageInv`), what its uncommitted rows may be (`WritesInv`) and of the open calls that
  their locks are disjoint (`LocksInv`). Uniqueness of what a caller *sees* (`Visible`), not of
  the committed rows, is what survives a commit beside other open transactions; and a number
  drawn by an open transaction is in no other row (`Fresh`). One lemma for a statement
  (`StatementKeeps`) carries it through ten of them. Theorems: `StoredExactlyOnce`, and
  `EventsStay`, which needs that nobody can write the session's row again once a delete holds
  it (`GoneInv`). `SerialInv` is a second invariant, relative to the first, for PGlite: at most
  one transaction is open, so the sequence an append has computed is still the next one when it
  commits, and what a delete has emptied stays empty (`SequenceStaysDense`, `NothingOrphaned`).
  `LoadedStaysTrue` is about a `Get` whose two reads have other transactions between them. It
  needs two more invariants. `StateInv`, of the rows: an open transaction holds the latest clock,
  every event's delta is in the state or a later event's is, and every value in the state is
  the session's creation or one of its events. `ReadInv`, of what a caller has read so far: it is
  in order, and as long as the session is stored its rows back it. Without that condition
  `ReadInv` is not inductive: a delete between the two reads takes the rows away, which TLC
  showed before the proof was tried.
  `NoWaitCycle` says that some open transaction can go on; that, and not who waits for whom, is
  what a deadlock would take away, and `CanGoOn` states it as the guards of the caller's next
  statement (over the states of `session_store` TLC found it to be `ENABLED Progress`, which
  the provers cannot handle). `OrderInv`: what a caller holds comes, in the order child, event, state and session
  (`Rank`), before what its next statement locks. So of the open transactions one whose next
  locks are furthest on waits for nobody (`HoldersAreAhead`), which is `WaitsHaveAnEnd`.
* `AgentRunProofs`, of the runs. Nearly every step either replays the next checkpoint or appends one;
  `StepTaken` says this of each of them once, so that the invariant is carried through one
  summary instead of twenty actions. `PlaceInv` ties where an execution is to its log (an execution at position n
  has n checkpoints behind it, closing is the last), and with it
  `GenerationsPaidOnce` counts: billed = checkpointed + lost to a crash + in hand.
  `CommittedStays` is an action property over the same invariant. `RunTypes` is its type part.
  `TurnInv` says what a turn has left behind. `Paths`: the log is a path of the workflow, each
  checkpoint the step that follows the one before it (`OnPath`), and an execution stands where
  its checkpoints have brought it, whatever process made them (`Follows`). `Stores`: every
  event has its checkpoint in the log of its run and every checkpoint of an append its event, so
  a replay that appends nothing still owes nothing. `Reports`: what a run says, or is about
  to, has been stored. `EventsOnce` is not inductive alone: that a replayed run does not append
  its user's message a second time is a fact about its log. Theorems: `TurnLeavesEventsOnce`,
  `ServerNeverDiverges`, `SuccessIsStored`, `FailureIsTold`.
* `AgentRunProofs`, of the page. `PageInv` relates the panel, the tab's key, the address bar and the registered
  dependencies: a page that has not settled runs turns under no key, and a send button that is
  enabled was enabled by a sign-in or by a send that a sign-out outran. The second half is
  the guard of AgentRun's `Send`, so every step of the page is one of `AgentRun`'s
  (`PageRunsAreRuns`) and its theorems hold in the page. `SignInMatchesKey` is the first half.
  `SentTurnIsAnswered` follows a run that was sent while signed in (`Undisturbed`): it never
  takes the probe's path, so the only way it succeeds is to close its stream, and then
  `TurnInv` has its turn stored.
* `MigrateProofs`. `BootOf`: what a boot has behind it is in the ledger, what it is
  recording has committed, and a boot past the loop has the whole of `recorded` behind it; with
  `LedgerSound` (the ledger never runs ahead of the schema) this gives
  `MigrateOnlyDuplicates` (`OrderRespectsNeeds`: the splice of `migrate.go` puts every file
  behind what it names) and `MigrateReadyComplete`, for any number of processes and deaths.
* `DeterminismProofs`. `FactsAreReachability`: for every program and every order of iteration
  the exported facts name exactly the operations that are reachable. `Sound` is one half; the
  other is that a round without a change has found every caller to contain its callees
  (`Settled`), so that the functions whose operations a caller contains are closed under calls.
  `WalkInv` is about the report: an item of a body that was entered is handled or waits on the
  stack (`Walking`), so when the stack is empty the functions whose operations are reported are
  closed under calls and hold all that the workflow leads to (`WalkIsComplete`,
  `ReportsAreReachability`). What remains between that and `ReportsExact` is whether the
  flagged functions are the irreproducible ones and the prefix is the module's
  (`TablesAreRight`, the hypothesis of `ReportsAreExact`, which TLC evaluates for the instance:
  it is about the tables, and no property of the algorithm can show it).
  `ChainsExplain`: every reason has a chain of calls behind it (`ReasonPaths`), and the chain
  of a frame turns any path from its body into a path from the workflow (`FrameOK`), which is
  all that pushing a frame or taking over a fact needs. A body is read through `FlattenSeq`,
  whose recursive function is reasoned about by a least counterexample (`FlattenElements`).
  The pass terminates by TLC only.

* `CodecProofs`, of the rows. Encoding, storing, loading and decoding are functions of one
  event, so the proof is one lemma per kind of column that what comes back is what was put in,
  and that sorting whatever order the parts arrive in restores their list. That the sort has
  one outcome is a least counterexample: the first place where two of them differ.
  `EventsComeBack` needs no more of a state key than that it is a non-empty string.
* `CodecProofs`, of the wire. `WireInv` says what a connection holds of the stream: the batches
  the backend has are those of a whole number of messages (`BackendWhole`), and while the
  connection is open there is a k such that k messages have had their effect and the buffer
  begins with message k + 1 (`AtBoundary`), of which a Write that has returned leaves less than
  the whole. Each turn of the decode loop moves k by one. It rests on what one decode reads
  when a whole message, a part of one or a wrong length is in front. `StreamReassembled` and
  `ListensObserved` relate this to the messages written whole, for every script, every cut
  and a `Close` anywhere. `ReplyRead` is about a recursive function, `Frames`: that it splits a
  reply into the frames it was put together from is shown backwards, from the last frame to the
  first (`FramesAre`), and what is kept, found and reported follows frame by frame. The
  assumptions say what a well-formed message or frame is (`ScriptsAssumption`: the untyped
  messages come first, sizes fit the length word but for a wrong one; `RepliesAssumption`: a
  notification is a pid and two strings without a NUL, or has no two NULs).
  `ListensAreObserved` adds to the cutting of the stream what the lexer makes of each text.
* `ListenProofs`. A text is put together from statements, a statement from tokens (literals,
  quoted names, dollar-quoted bodies, comments, other cells), and `Meaning` reads off the
  tokens what a statement listens to. `TextsAreRead`: the lexer, which has only the characters,
  finds the same, for texts of any length that are `LegalText`: no token holds what would end
  it early, no two touch where PostgreSQL would read one, and LISTEN has an argument that its
  grammar allows or that names nothing. The texts of the run `codecs` are of this kind.
  Each scan of the lexer is a recursive function, which the provers cannot unfold by themselves:
  `Unfolds` shows once that a function that refers to itself only further on exists. `Skip`
  leads from the start of a token to its end (`QuotedSkipped`, `DollarSkipped`, `LineSkipped`,
  `BlockSkipped`) or from a cell to the next one (`CellSkipped`), hence what a scan says at one
  token it says at any later one of the statement (`TokenRides`, `LaidRides`). For the scan
  for semicolons that gives `StatementsAreSplit`, for that for leading blanks and comments
  `LeadingReal`; `KeywordRead` and `ArgumentRead` do the rest (`QuotedName`, `PlainName`,
  `NoName`). `LettersAssumption` keeps letters and digits apart from the characters that mean
  something to the lexer.

Only model-checked: everything under fairness (liveness is out of the prover's reach:
`EveryWriteReturns`, `CloseCompletes`, `BlockedReadReturns`, `EveryRunEnds`,
`BootsUnlessTorn`, `AnalysisEnds`). Every invariant and every other action property of the
runs, and the refinement, has a theorem.

## 5. Disagreements met while modelling

Two are runs that TLC refutes:

* `sequence_unique_postgres`: on Postgres two appends to one session read the same
  `MAX(sequence)` and both commit (`migrate/sql/0002_append_event.sql:51`); SPEC.md:486 and
  `session/rows.go:41` call the sequence "the ordering guarantee".
* `nothing_is_lost`: the page registers `Deps{}` and launches before the tab's key is applied
  (`demo/wasm/main.go:277`), so a turn that was queued when the tab reloaded is taken by
  `durabilityOnlyRun` and ends SUCCESS without a message; SPEC.md:1538 says "Nothing is lost".

The others follow from the code read with the model at hand. The lock and the connections:

* `wasmpg/fifo.go:17` says the lock is held "only across one execProtocol round trip"; it is
  kept while a transaction is open (`conn.go:361`), as `mux.go:131` says.
* SPEC.md:1074 says one message is in flight at a time. A cancelled call leaves its promise
  unsettled (`pglite_js.go:160`) when the ROLLBACK after it is sent.
* `conn.go:469` says a write inside a promise that never settles "is still interruptible".
  The call is; the ROLLBACK that follows runs on `context.Background()` (`conn.go:419`).
* `mux.go:398` says a notification "never chases a connection that has gone away". `apply`
  (`mux.go:377`) can enter a connection after `forget` has run; nothing removes it.
* `mux.go:373` says registering early reaches only a connection "about to be listening". A
  LISTEN that is refused or rolled back stays registered.
* UNLISTEN is forwarded to the one session (`conn.go:282`), so one connection's UNLISTEN
  silences every other that listens to the channel (SPEC.md:1079).
* The recogniser of LISTEN reads three things unlike PostgreSQL: a block comment ends at the
  first `*/` although they nest, `$` inside an identifier can open a dollar quote, and a
  backslash does not escape the quote of an `E'...'` literal. `LegalText` leaves them out.
* When one Write carries good messages and then a bad length, the good ones are dropped with
  the connection; when `submit` fails, the gathered batch is gone although the bytes were
  consumed. Both follow from gathering before sending.

The session service and the runs:

* `session/service.go:407` relies on the transaction to keep the session from being deleted
  between lookup and write. On Postgres nothing is locked, the final UPDATE of no row is no
  error, and there is no foreign key: the event is stored without a session.
* SPEC.md:431 makes `app:` keys application-wide and persisted. They are rows of the session
  that set them and are deleted with it (`migrate/sql/0003_session_functions.sql:128`).
* SPEC.md:596 promises that every event round-trips. A delta that sets a key to nil is
  refused (`session/rows.go:384`, `value_json` is NOT NULL); `RoundTrip` says this is
  the only such event.
* SPEC.md:1523 says a failed turn's session "records the error event". Its id is that of the
  session until an event has been yielded (`workflow/agentrun.go:241`), so the second early
  failure of a session is taken for a retry of the first. `FailureTold` states what is left.
* `agentrun.go:217` says the stream is closed at turn end; the error path (`:192`) and the step
  limit (`:212`) return without closing it.
* `agentrun.go:97` and `workflow.go:243` say the plugin refuses a model that is not wrapped;
  `ErrModelNotWrapped` (`dbosadk/plugin.go:36`) is returned nowhere.
* `migrate/migrate.go:54` counts on re-running at every boot. A migration and its ledger row are
  two transactions (`:285`, `:288`): a death between them makes every later boot fail on a
  duplicate. `BootsUnlessTorn` says that this is the only such place.

The page:

* `demo/wasm/chat.go:173` says the panel is enabled or disabled to match the key. While a code
  is being exchanged the sign-in button is enabled; a flow begun then has its verifier deleted by
  the old exchange, which also stores a key that the page the user comes back to
  does not show. `DepsMatchKey` excepts the pages that came back with a code.
* `send`'s deferred enabling turns Send on again after a sign-out, so text left in the box is
  enqueued under `Deps{}` and ends as a durability-only run.
* A reload during the exchange sends the verifier a second time; `model/pkce.go` says once.
* Every send starts another `refresh` loop, and none ends; a turn that is running keeps its key
  after a sign-out, in the closure it resolved.

The analyzer:

* `callSiteOf` takes the last call of the body with the callee's unqualified name, a call inside
  exempt step work included, where `determinism.go:775` says that a violation is reported "on
  the line that reaches it".
* A function-valued variable or an explicitly instantiated generic given to `RegisterWorkflow`
  is skipped without a word; a literal bound to a variable and then handed to `RunAsStep` is
  walked as workflow code. Calls through interfaces and values of functions are not followed.
  The model has these as items the walk does not enter, and `ReportsExact` is relative to them.

## 6. Not modelled

The provider client (one HTTP call; `AgentRun` has its outcomes) and the code exchange of PKCE
beyond what the page does with its result; rendering, pool configuration, the JavaScript bridge
and the one-shot probe of the demo; the raw SQL analyzer (a pattern match over string literals);
generators, generated client and test harness. In modelled parts: `List` and the event filters
of `Get` (reads of the same rows); `StepAsTool`, which has no caller yet; a PGlite ROLLBACK
that does not take effect, which nothing in the code observes; ADK event fields without a
column; upgrades from under a property graph that still names a column `tables/0003` drops,
because whether the backend refuses that is its dependency tracking, which the source does not
show; `AppendEvent` outside a workflow, whose lookup and append are then two transactions
(`session/service.go:168`), and which nothing in `src` calls so; `Conn.Close` inside a running `Write` of the codec (`Multiplexer` has it).

## 7. What could follow

`ConnRead` composed with the multiplexer (who delivers what a Write reads back); the pool's
limit and `ErrBudgetExhausted`, which the multiplexer's budget abstracts; and a per-session
append-only log that `SessionStore` implements under PGlite.
