------------------------------- MODULE ConnRead -------------------------------
(***************************************************************************)
(* The read side of one logical connection: deliver and Read in            *)
(* src/wasmpg/conn.go, and the read deadline of deadline.go that pgx uses  *)
(* to interrupt a blocked Read.  pgx reads from one goroutine; frames are  *)
(* delivered by the connection's own writer and by the notification path,  *)
(* deadlines are set from a third goroutine, and the timer fires on its    *)
(* own.  A frame is two bytes, so that a short buffer can split it.        *)
(***************************************************************************)
EXTENDS Naturals, Sequences, SequencesExt

CONSTANTS Frame,
          MaxSets       \* bound on the calls of SetReadDeadline

ASSUME ReadAssumption == MaxSets \in Nat

VARIABLES queue,        \* c.queue: whole frames
          rem,          \* c.rem: the bytes of the frame being read out
          sent,         \* the frames deliver has appended, in order
          got,          \* the bytes Read has returned, in order
          owed,         \* frames appended whose wake-up is still to be sent
          ready,        \* c.ready holds a token
          done,         \* c.done is closed
          atClose,      \* how many frames had been appended when it closed
          rpc,          \* where Read is
          rch,          \* the deadline channel Read is selecting on
          result        \* what the last Read returned

VARIABLES setting,      \* the deadline set is working on, holding d.mu, or "none"
          cancel,       \* d.cancel: the current channel
          shut,         \* the channels that are closed
          timer,        \* d.timer: none, armed, fired (close pending), spent
          passed,       \* the deadline in force has passed
          sets,         \* calls of set so far
          panicked      \* a channel was closed twice

streamVars == <<queue, rem, sent, got, owed, ready>>
readerVars == <<rpc, rch, result>>
deadlineVars == <<setting, cancel, shut, timer, passed, sets, panicked>>
readVars == <<streamVars, done, atClose, readerVars, deadlineVars>>

Byte == Frame \X {1, 2}
Bytes(f) == <<<<f, 1>>, <<f, 2>>>>

\* The bytes of whole frames, one frame after the other.
Flat(fs) == [i \in 1 .. 2 * Len(fs) |-> Bytes(fs[(i + 1) \div 2])[2 - (i % 2)]]

\* The times a caller passes: the zero time, one ahead, one already past.
When == {"never", "ahead", "past"}
ReadStage == {"idle", "check", "expired", "select", "wait", "drain"}

ReadTypeOK ==
    /\ queue \in Seq(Frame) /\ sent \in Seq(Frame)
    /\ rem \in Seq(Byte) /\ got \in Seq(Byte)
    /\ owed \subseteq Frame
    /\ ready \in BOOLEAN /\ done \in BOOLEAN
    /\ atClose \in 0..Len(sent)
    /\ rpc \in ReadStage
    /\ cancel \in Nat /\ rch \in 0..cancel
    /\ result \in {"none", "bytes", "timeout", "closed"}
    /\ setting \in When \cup {"none"}
    /\ 0..(cancel - 1) \subseteq shut /\ shut \subseteq 0..cancel
    /\ timer \in {"none", "armed", "fired", "spent"}
    /\ passed \in BOOLEAN
    /\ sets \in 0..MaxSets

ReadInit ==
    /\ queue = <<>> /\ rem = <<>> /\ sent = <<>> /\ got = <<>>
    /\ owed = {} /\ ready = FALSE
    /\ done = FALSE /\ atClose = 0
    /\ rpc = "idle" /\ rch = 0 /\ result = "none"
    /\ setting = "none" /\ cancel = 0 /\ shut = {} /\ timer = "none"
    /\ passed = FALSE /\ sets = 0 /\ panicked = FALSE

\* isClosed(d.cancel).
Expired == cancel \in shut

ReadReturns(r) == rpc' = "idle" /\ result' = r /\ rch' = 0
ReadGoes(stage) == rpc' = stage /\ UNCHANGED <<rch, result>>
-----------------------------------------------------------------------------
(* Mutated forms. *)

\* What does not fit the caller's buffer is dropped.
ReadCheckDropsRest ==
    /\ rpc = "check"
    /\ LET b == IF rem = <<>> /\ queue # <<>> THEN Bytes(Head(queue)) ELSE rem IN
       /\ b # <<>>
       /\ \E n \in 1..Len(b) : got' = got \o SubSeq(b, 1, n)
       /\ rem' = <<>>
       /\ queue' = IF rem = <<>> THEN Tail(queue) ELSE queue
    /\ ReadReturns("bytes")
    /\ UNCHANGED <<sent, owed, ready, done, atClose, deadlineVars>>

\* The done case of the select reports the close without looking again.
ReadDrainSkipped ==
    /\ rpc = "drain"
    /\ ReadReturns("closed")
    /\ UNCHANGED <<streamVars, done, atClose, deadlineVars>>

\* set does not wait for a timer that has fired, but not yet closed.
SetFinishNoWait ==
    /\ setting # "none"
    /\ setting' = "none"
    /\ cancel' = IF Expired /\ setting # "past" THEN cancel + 1 ELSE cancel
    /\ timer' = IF setting = "ahead" THEN "armed"
                ELSE IF timer = "fired" THEN timer ELSE "none"
    /\ shut' = IF setting = "past" THEN shut \cup {cancel} ELSE shut
    /\ passed' = (setting = "past")
    /\ UNCHANGED <<streamVars, done, atClose, readerVars, sets, panicked>>

\* set makes a new channel every time.
SetFinishFreshChannel ==
    /\ setting # "none" /\ timer # "fired"
    /\ setting' = "none"
    /\ cancel' = cancel + 1
    /\ timer' = IF setting = "ahead" THEN "armed" ELSE "none"
    /\ shut' = IF setting = "past" THEN shut \cup {cancel + 1} ELSE shut
    /\ passed' = (setting = "past")
    /\ UNCHANGED <<streamVars, done, atClose, readerVars, sets, panicked>>
-----------------------------------------------------------------------------
(* deliver.                                                                *)

\* The critical section of rmu: a closed connection takes no frame.
deliver(f) ==
    /\ f \notin ToSet(sent) /\ ~done
    /\ queue' = Append(queue, f)
    /\ sent' = Append(sent, f)
    /\ owed' = owed \cup {f}
    /\ UNCHANGED <<rem, got, ready, done, atClose, readerVars, deadlineVars>>

\* The wake-up: a send that is dropped when the token is already there.
Signal(f) ==
    /\ f \in owed
    /\ owed' = owed \ {f}
    /\ ready' = TRUE
    /\ UNCHANGED <<queue, rem, sent, got, done, atClose, readerVars, deadlineVars>>

\* shutdown's close(c.done).
CloseDone ==
    /\ ~done
    /\ done' = TRUE
    /\ atClose' = Len(sent)
    /\ UNCHANGED <<streamVars, readerVars, deadlineVars>>
-----------------------------------------------------------------------------
(* Read.                                                                   *)

ReadStart ==
    /\ rpc = "idle"
    /\ rpc' = "check" /\ result' = "none" /\ UNCHANGED rch
    /\ UNCHANGED <<streamVars, done, atClose, deadlineVars>>

\* Some bytes are there: as many as fit are copied out.
ReadCheck ==
    /\ rpc = "check"
    /\ LET b == IF rem = <<>> /\ queue # <<>> THEN Bytes(Head(queue)) ELSE rem IN
       /\ b # <<>>
       /\ \E n \in 1..Len(b) : /\ got' = got \o SubSeq(b, 1, n)
                               /\ rem' = SubSeq(b, n + 1, Len(b))
       /\ queue' = IF rem = <<>> THEN Tail(queue) ELSE queue
    /\ ReadReturns("bytes")
    /\ UNCHANGED <<sent, owed, ready, done, atClose, deadlineVars>>

\* None are: go on to the deadline.
ReadNothing ==
    /\ rpc = "check" /\ rem = <<>> /\ queue = <<>>
    /\ ReadGoes("expired")
    /\ UNCHANGED <<streamVars, done, atClose, deadlineVars>>

\* c.rd.expired(), which needs d.mu.
ReadExpired ==
    /\ rpc = "expired" /\ setting = "none"
    /\ IF Expired THEN ReadReturns("timeout") ELSE ReadGoes("select")
    /\ UNCHANGED <<streamVars, done, atClose, deadlineVars>>

\* c.rd.wait(), evaluated as the select is entered.
ReadSelect ==
    /\ rpc = "select" /\ setting = "none"
    /\ rpc' = "wait" /\ rch' = cancel /\ UNCHANGED result
    /\ UNCHANGED <<streamVars, done, atClose, deadlineVars>>

\* The three cases of the select.
ReadWoken ==
    /\ rpc = "wait" /\ ready
    /\ ready' = FALSE
    /\ ReadGoes("check")
    /\ UNCHANGED <<queue, rem, sent, got, owed, done, atClose, deadlineVars>>

ReadSeesDone ==
    /\ rpc = "wait" /\ done
    /\ ReadGoes("drain")
    /\ UNCHANGED <<streamVars, done, atClose, deadlineVars>>

ReadTimesOut ==
    /\ rpc = "wait" /\ rch \in shut
    /\ ReadReturns("timeout")
    /\ UNCHANGED <<streamVars, done, atClose, deadlineVars>>

\* After done: one more look at the queue, or the close is reported.
ReadDrain ==
    /\ rpc = "drain"
    /\ IF rem # <<>> \/ queue # <<>> THEN ReadGoes("check") ELSE ReadReturns("closed")
    /\ UNCHANGED <<streamVars, done, atClose, deadlineVars>>
-----------------------------------------------------------------------------
(* deadline.                                                               *)

\* set takes d.mu and stops the timer if it has not fired yet.
SetStart(t) ==
    /\ setting = "none" /\ sets < MaxSets
    /\ setting' = t
    /\ sets' = sets + 1
    /\ timer' = IF timer = "armed" THEN "none" ELSE timer
    /\ UNCHANGED <<streamVars, done, atClose, readerVars, cancel, shut, passed, panicked>>

\* The rest of set, once a timer that fired has closed the channel: a closed
\* channel is replaced unless the new deadline is past, too.
SetFinish ==
    /\ setting # "none" /\ timer # "fired"
    /\ setting' = "none"
    /\ cancel' = IF Expired /\ setting # "past" THEN cancel + 1 ELSE cancel
    /\ timer' = IF setting = "ahead" THEN "armed" ELSE "none"
    /\ shut' = IF setting = "past" THEN shut \cup {cancel} ELSE shut
    /\ passed' = (setting = "past")
    /\ UNCHANGED <<streamVars, done, atClose, readerVars, sets, panicked>>

\* The timer of AfterFunc goes off, and then runs close(d.cancel) without d.mu.
TimerFires ==
    /\ timer = "armed"
    /\ timer' = "fired" /\ passed' = TRUE
    /\ UNCHANGED <<streamVars, done, atClose, readerVars, setting, cancel, shut,
                   sets, panicked>>

TimerCloses ==
    /\ timer = "fired"
    /\ timer' = "spent"
    /\ panicked' = (panicked \/ Expired)
    /\ shut' = shut \cup {cancel}
    /\ UNCHANGED <<streamVars, done, atClose, readerVars, setting, cancel, passed, sets>>

ReadStep == \/ ReadCheck \/ ReadNothing \/ ReadExpired \/ ReadSelect
            \/ ReadWoken \/ ReadSeesDone \/ ReadTimesOut \/ ReadDrain

ReadNext ==
    \/ \E f \in Frame : deliver(f) \/ Signal(f)
    \/ CloseDone
    \/ ReadStart \/ ReadStep
    \/ \E t \in When : SetStart(t)
    \/ SetFinish \/ TimerFires \/ TimerCloses

ReadSpec == ReadInit /\ [][ReadNext]_readVars

\* Goroutines that can run do, a token that can be sent is, and a timer that has
\* fired closes its channel.  Nobody is obliged to deliver, to close, to set a
\* deadline or to call Read, and an armed timer may be arbitrarily far away.
ReadFairSpec ==
    /\ ReadSpec
    /\ WF_readVars(ReadStep) /\ WF_readVars(SetFinish) /\ WF_readVars(TimerCloses)
    /\ \A f \in Frame : WF_readVars(Signal(f))
-----------------------------------------------------------------------------
(* Properties.                                                             *)

\* Read returns the bytes of the delivered frames in order, none lost, none
\* twice, and a frame that a short buffer split is not interrupted by another:
\* an injected notification lands on a message boundary (deliver, Read).
StreamInOrder == got \o rem \o Flat(queue) = Flat(sent)

\* Between two calls of set the channel is closed exactly when the deadline in
\* force has passed: a timer of an earlier deadline never closes the channel of
\* a later one, a past deadline is never missed, and neither set nor a timer
\* closes a channel a second time, which would panic (deadline.set).
DeadlineExact ==
    /\ setting = "none" /\ timer # "fired" => (Expired <=> passed)
    /\ ~panicked

\* "Drain whatever landed before the close, then report it": when Read reports
\* the close, every frame delivered before it has been returned.
CloseAfterDrain ==
    [][ (result' = "closed" /\ result # "closed") => Len(got) >= 2 * atClose ]_readVars

\* A Read with a frame waiting for it returns: the one-token wake-up is never
\* lost (deliver's send, Read's select). So does a blocked Read whose deadline
\* passes, unless the deadline is moved: that is how pgx cancels a query
\* (deadline.set, Read).
BlockedReadReturns ==
    /\ (queue # <<>> /\ rpc # "idle") ~> rpc = "idle"
    /\ (passed /\ rpc # "idle") ~> (rpc = "idle" \/ ~passed)
=============================================================================
