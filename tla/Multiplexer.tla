----------------------------- MODULE Multiplexer -----------------------------
(***************************************************************************)
(* src/wasmpg/mux.go and conn.go: N logical connections over the single    *)
(* PGlite session.  A caller of the lock is a connection: Conn.Write       *)
(* serialises on wmu, so each connection has one writer.  Three kinds of   *)
(* goroutine meet here: the writer of each connection (wpc), whoever runs  *)
(* its shutdown (kpc; sync.Once admits one), and Multiplexer.Close.  Each  *)
(* action is one critical section of hold.mu, m.mu or the lock's mutex, or *)
(* one call into PGlite.                                                   *)
(*                                                                         *)
(* The session is abstracted to whose work it is in the middle of: an open *)
(* transaction block or a batch whose Sync has not arrived.  PGlite applies*)
(* a message when execProtocol is called; the promise settles later.       *)
(* Write deadlines are not state: opContext lets one pass at any moment of *)
(* a Write, so giving up is always possible while waiting.                 *)
(***************************************************************************)
EXTENDS FifoLock, FiniteSets

CONSTANT Budget     \* Config.LogicalConns

\* New rejects a budget below MinLogicalConns.
ASSUME BudgetAssumption == Budget \in Nat /\ Budget >= 2

Conn == Caller

VARIABLES wpc,        \* the writer of each connection: where Write is
          kpc,        \* the life of each connection: where shutdown is
          holding,    \* connections whose hold.held is true
          inFlight,   \* connections whose hold.inFlight is true
          closing,    \* connections whose hold.closing is true
          outcome,    \* submit's local: what the round trip found
          session,    \* the connection the session is busy for, or None
          muxClosed,  \* m.closed
          collected   \* the connections Multiplexer.Close copied out of m.conns

connVars == <<wpc, kpc, holding, inFlight, closing, outcome>>
muxVars == <<muxClosed, collected>>
vars == <<lockVars, connVars, session, muxVars>>

WStage == {"idle", "begin", "lock", "handback", "call", "await", "end",
           "rollback", "rolling", "release", "shut"}
KStage == {"unused", "open", "forgotten", "abandon", "rollback", "rolling",
           "release", "closed"}
Outcome == {"idle", "inTx", "unknown"}

TypeOK ==
    /\ LockTypeOK
    /\ wpc \in [Conn -> WStage]
    /\ kpc \in [Conn -> KStage]
    /\ holding \in SUBSET Conn
    /\ inFlight \in SUBSET holding
    /\ closing \in SUBSET Conn
    /\ outcome \in [Conn -> Outcome]
    /\ session \in Conn \cup {None}
    /\ muxClosed \in BOOLEAN
    /\ collected \in SUBSET Conn

Init ==
    /\ LockInit
    /\ wpc = [c \in Conn |-> "idle"]
    /\ kpc = [c \in Conn |-> "unused"]
    /\ holding = {} /\ inFlight = {} /\ closing = {}
    /\ outcome = [c \in Conn |-> "idle"]
    /\ session = None
    /\ muxClosed = FALSE /\ collected = {}

\* m.conns; and c.done being closed.
conns == {c \in Conn : kpc[c] = "open"}
Done(c) == kpc[c] \notin {"unused", "open", "forgotten"}

\* Move c's writer.  The outcome is dead once submit has returned.
WriterTo(c, stage) ==
    /\ wpc' = [wpc EXCEPT ![c] = stage]
    /\ outcome' = IF stage \in {"idle", "shut"} THEN [outcome EXCEPT ![c] = "idle"]
                                                ELSE outcome

CloserTo(c, stage) == kpc' = [kpc EXCEPT ![c] = stage]

\* What a Write does after a successful submit: return, or run the Terminate
\* the batch was flushed for.
WriterGoesOn(c) == WriterTo(c, "idle") \/ WriterTo(c, "shut")

SubmitReturns(c) ==
    IF outcome[c] = "unknown" THEN WriterTo(c, "idle") ELSE WriterGoesOn(c)
-----------------------------------------------------------------------------
(* Mutated forms: slips that would be plausible in mux.go and conn.go. *)

\* DialContext without the m.closed test.
DialContextAfterClose(c) ==
    /\ kpc[c] = "unused"
    /\ Cardinality(conns) < Budget
    /\ CloserTo(c, "open")
    /\ UNCHANGED <<lockVars, wpc, holding, inFlight, closing, outcome,
                   session, muxVars>>

\* acquire called without a context or a done channel to give up on.
WaitForBackendWithoutGivingUp(c) ==
    /\ wpc[c] = "lock"
    /\ Acquire(c)
    /\ UNCHANGED <<connVars, session, muxVars>>

\* endRoundTrip gives the backend back after every round trip.
endRoundTripAlwaysReleases(c) ==
    /\ wpc[c] = "end"
    /\ inFlight' = inFlight \ {c}
    /\ holding' = holding \ {c}
    /\ WriterTo(c, IF outcome[c] = "unknown" THEN "rollback" ELSE "release")
    /\ UNCHANGED <<lockVars, kpc, closing, session, muxVars>>

\* endRoundTrip does not look at hold.closing.
endRoundTripIgnoresClosing(c) ==
    /\ wpc[c] = "end"
    /\ inFlight' = inFlight \ {c}
    /\ IF outcome[c] = "inTx"
       THEN WriterGoesOn(c) /\ UNCHANGED holding
       ELSE /\ holding' = holding \ {c}
            /\ WriterTo(c, IF outcome[c] = "idle" THEN "release" ELSE "rollback")
    /\ UNCHANGED <<lockVars, kpc, closing, session, muxVars>>

\* abandonHold does not clear hold.held.
abandonHoldKeepsHeld(c) ==
    /\ kpc[c] = "abandon"
    /\ closing' = closing \cup {c}
    /\ CloserTo(c, IF c \notin inFlight /\ c \in holding THEN "rollback" ELSE "closed")
    /\ UNCHANGED <<lockVars, wpc, holding, inFlight, outcome, session, muxVars>>

\* abandonHold releases without rolling the session back.
abandonHoldWithoutRollback(c) ==
    /\ kpc[c] = "abandon"
    /\ closing' = closing \cup {c}
    /\ IF c \notin inFlight /\ c \in holding
       THEN holding' = holding \ {c} /\ CloserTo(c, "release")
       ELSE CloserTo(c, "closed") /\ UNCHANGED holding
    /\ UNCHANGED <<lockVars, wpc, inFlight, outcome, session, muxVars>>
-----------------------------------------------------------------------------
(* Dialling and closing the multiplexer. *)

\* Past the budget or after Close it returns an error and changes nothing.
DialContext(c) ==
    /\ kpc[c] = "unused"
    /\ ~muxClosed
    /\ Cardinality(conns) < Budget
    /\ CloserTo(c, "open")
    /\ UNCHANGED <<lockVars, wpc, holding, inFlight, closing, outcome,
                   session, muxVars>>

\* Close marks the multiplexer and copies m.conns; it then calls Conn.Close on
\* each (forget).
MuxClose ==
    /\ ~muxClosed
    /\ muxClosed' = TRUE
    /\ collected' = conns
    /\ UNCHANGED <<lockVars, connVars, session>>
-----------------------------------------------------------------------------
(* Conn.Write, submit, beginRoundTrip. *)

\* Write passes its checks and finds something to forward ("begin"), or a
\* Terminate, a torn frame or a CancelRequest in front of it ("shut").
WriteStart(c) ==
    /\ wpc[c] = "idle"
    /\ kpc[c] # "unused" /\ ~Done(c)
    /\ WriterTo(c, "begin") \/ WriterTo(c, "shut")
    /\ UNCHANGED <<lockVars, kpc, holding, inFlight, closing, session, muxVars>>

\* shutdown ran on Write's own goroutine, or sync.Once made it wait for
\* whoever did.  What follows a Terminate in the buffer is still submitted.
WriteShut(c) ==
    /\ wpc[c] = "shut"
    /\ kpc[c] = "closed"
    /\ WriterTo(c, "idle") \/ WriterTo(c, "begin")
    /\ UNCHANGED <<lockVars, kpc, holding, inFlight, closing, session, muxVars>>

beginRoundTrip(c) ==
    /\ wpc[c] = "begin"
    /\ \/ c \in closing /\ WriterTo(c, "idle") /\ UNCHANGED inFlight
       \/ /\ c \notin closing /\ c \in holding
          /\ inFlight' = inFlight \cup {c}
          /\ WriterTo(c, "call")
       \/ /\ c \notin closing /\ c \notin holding
          /\ WriterTo(c, "lock") /\ UNCHANGED inFlight
    /\ UNCHANGED <<lockVars, kpc, holding, closing, session, muxVars>>

\* c.m.backend.acquire(ctx, c.done)
WaitForBackend(c) ==
    /\ wpc[c] = "lock"
    /\ \/ (Acquire(c) \/ AcquireGiveUp(c)) /\ UNCHANGED <<wpc, outcome>>
       \/ AbandonWithdraw(c) /\ WriterTo(c, "idle")
       \/ AbandonDrain(c) /\ WriterTo(c, "handback")
    /\ UNCHANGED <<kpc, holding, inFlight, closing, session, muxVars>>

\* acquire returned nil: the second critical section of beginRoundTrip.
recordHold(c) ==
    /\ wpc[c] = "lock"
    /\ at[c] = "owner"
    /\ IF c \in closing
       THEN WriterTo(c, "handback") /\ UNCHANGED <<holding, inFlight>>
       ELSE /\ holding' = holding \cup {c}
            /\ inFlight' = inFlight \cup {c}
            /\ WriterTo(c, "call")
    /\ UNCHANGED <<lockVars, kpc, closing, session, muxVars>>

\* A grant that came too late, in beginRoundTrip or in abandon: pass it on and
\* report the error.
HandBack(c) ==
    /\ wpc[c] = "handback"
    /\ Release(c)
    /\ WriterTo(c, "idle")
    /\ UNCHANGED <<kpc, holding, inFlight, closing, session, muxVars>>
-----------------------------------------------------------------------------
(* The round trip, endRoundTrip and rollbackSession. *)

\* m.exec: the message takes effect at the call.  It leaves the session idle
\* or inside a block (its own, unless somebody else's was open), and the reply
\* will say which (sessionOutcome).
exec(c) ==
    /\ wpc[c] = "call"
    /\ session' \in {None, IF session = None THEN c ELSE session}
    /\ outcome' = [outcome EXCEPT ![c] = IF session' = None THEN "idle" ELSE "inTx"]
    /\ wpc' = [wpc EXCEPT ![c] = "await"]
    /\ UNCHANGED <<lockVars, kpc, holding, inFlight, closing, muxVars>>

\* The promise resolves: the reply is delivered, the outcome stands.
execReplies(c) ==
    /\ wpc[c] = "await"
    /\ WriterTo(c, "end")
    /\ UNCHANGED <<lockVars, kpc, holding, inFlight, closing, session, muxVars>>

\* The promise rejects, or the deadline or the close ends the context and the
\* promise is left behind: nothing is known of the session.
execFails(c) ==
    /\ wpc[c] = "await"
    /\ outcome' = [outcome EXCEPT ![c] = "unknown"]
    /\ wpc' = [wpc EXCEPT ![c] = "end"]
    /\ UNCHANGED <<lockVars, kpc, holding, inFlight, closing, session, muxVars>>

endRoundTrip(c) ==
    /\ wpc[c] = "end"
    /\ inFlight' = inFlight \ {c}
    /\ IF outcome[c] = "inTx" /\ c \notin closing
       THEN WriterGoesOn(c) /\ UNCHANGED holding
       ELSE /\ holding' = holding \ {c}
            /\ IF c \notin holding
               THEN SubmitReturns(c)
               ELSE WriterTo(c, IF outcome[c] = "idle" THEN "release" ELSE "rollback")
    /\ UNCHANGED <<lockVars, kpc, closing, session, muxVars>>

\* rollbackSession: the call ends whatever block is open.
rollbackSession(c) ==
    /\ wpc[c] = "rollback"
    /\ session' = None
    /\ WriterTo(c, "rolling")
    /\ UNCHANGED <<lockVars, kpc, holding, inFlight, closing, muxVars>>

\* It is awaited on context.Background(), so only settlement ends it.
rollbackSettles(c) ==
    /\ wpc[c] = "rolling"
    /\ WriterTo(c, "release")
    /\ UNCHANGED <<lockVars, kpc, holding, inFlight, closing, session, muxVars>>

ReleaseBackend(c) ==
    /\ wpc[c] = "release"
    /\ Release(c)
    /\ SubmitReturns(c)
    /\ UNCHANGED <<kpc, holding, inFlight, closing, session, muxVars>>
-----------------------------------------------------------------------------
(* shutdown and abandonHold, run once per connection by any goroutine. *)

\* shutdown begins; m.forget takes the connection out of m.conns.
forget(c) ==
    /\ kpc[c] = "open"
    /\ CloserTo(c, "forgotten")
    /\ UNCHANGED <<lockVars, wpc, holding, inFlight, closing, outcome,
                   session, muxVars>>

\* close(c.done)
closeDone(c) ==
    /\ kpc[c] = "forgotten"
    /\ CloserTo(c, "abandon")
    /\ UNCHANGED <<lockVars, wpc, holding, inFlight, closing, outcome,
                   session, muxVars>>

abandonHold(c) ==
    /\ kpc[c] = "abandon"
    /\ closing' = closing \cup {c}
    /\ IF c \notin inFlight /\ c \in holding
       THEN holding' = holding \ {c} /\ CloserTo(c, "rollback")
       ELSE CloserTo(c, "closed") /\ UNCHANGED holding
    /\ UNCHANGED <<lockVars, wpc, inFlight, outcome, session, muxVars>>

abandonRollback(c) ==
    /\ kpc[c] = "rollback"
    /\ session' = None
    /\ CloserTo(c, "rolling")
    /\ UNCHANGED <<lockVars, wpc, holding, inFlight, closing, outcome, muxVars>>

abandonRollbackSettles(c) ==
    /\ kpc[c] = "rolling"
    /\ CloserTo(c, "release")
    /\ UNCHANGED <<lockVars, wpc, holding, inFlight, closing, outcome,
                   session, muxVars>>

abandonRelease(c) ==
    /\ kpc[c] = "release"
    /\ Release(c)
    /\ CloserTo(c, "closed")
    /\ UNCHANGED <<wpc, holding, inFlight, closing, outcome, session, muxVars>>
-----------------------------------------------------------------------------
\* The steps the Go scheduler owes a running Write, the deadline included.
Writer(c) ==
    \/ WriteShut(c) \/ beginRoundTrip(c) \/ WaitForBackend(c) \/ recordHold(c)
    \/ HandBack(c) \/ exec(c) \/ execFails(c) \/ endRoundTrip(c)
    \/ rollbackSession(c) \/ ReleaseBackend(c)

\* The steps it owes a running shutdown.
Closer(c) ==
    \/ closeDone(c) \/ abandonHold(c) \/ abandonRollback(c) \/ abandonRelease(c)

\* The steps PGlite owes the promises it handed out.
Settles(c) ==
    \/ execReplies(c) \/ rollbackSettles(c) \/ abandonRollbackSettles(c)

\* What pgx and the pool decide.
Client(c) == DialContext(c) \/ WriteStart(c) \/ forget(c)

\* Every connection is gone and the multiplexer is closed: nothing is left to do.
Stopped ==
    /\ muxClosed
    /\ \A c \in Conn : wpc[c] = "idle" /\ kpc[c] \in {"unused", "closed"}
    /\ UNCHANGED vars

Next ==
    \/ \E c \in Conn : Writer(c) \/ Closer(c) \/ Settles(c) \/ Client(c)
    \/ MuxClose
    \/ Stopped

Spec == Init /\ [][Next]_vars

(***************************************************************************)
(* Fairness.  A goroutine inside Write or shutdown is scheduled, and the   *)
(* write deadline pgx sets from the caller's context does pass; a shutdown *)
(* that Write or Multiplexer.Close has called does start; and PGlite       *)
(* settles the promises it hands out, which the ROLLBACK that ends an      *)
(* abandoned transaction relies on (it is awaited without a deadline).     *)
(***************************************************************************)
CodeFairness ==
    \A c \in Conn :
      /\ WF_vars(Writer(c))
      /\ WF_vars(Closer(c))
      /\ WF_vars(forget(c) /\ (wpc[c] = "shut" \/ c \in collected))

BackendFairness == \A c \in Conn : WF_vars(Settles(c))

FairSpec == Spec /\ CodeFairness /\ BackendFairness
-----------------------------------------------------------------------------
(* Safety. *)

\* A statement reaches the session only when the session is idle or inside
\* that same connection's transaction: no traffic lands between another
\* connection's BEGIN and COMMIT (submit, "Why the lock outlives the round
\* trip").
TransactionIsolation == \A c \in Conn : wpc[c] = "call" => session \in {None, c}

\* A connection that comes to own the backend anew, through a free lock, a
\* grant, or a grant it no longer wants, finds the session idle, whatever its
\* predecessor died of (rollbackSession: "or the next connection to be granted
\* the backend silently finds itself inside somebody else's transaction").
CleanHandover ==
    /\ ~held => session = None
    /\ \A c \in Conn :
         (c \in granted \/ (wpc[c] \in {"lock", "handback"} /\ Owns(c)))
           => session = None

\* A connection that has gone away does not take the backend with it: once its
\* shutdown and its Write have both ended it owns nothing (abandonHold).
GoneOwnsNothing ==
    \A c \in Conn : kpc[c] = "closed" /\ wpc[c] = "idle" => ~Owns(c) /\ session # c

\* At most one of the two goroutines that may hand c's backend back is doing
\* it, and only while c owns the lock: release is never called twice for one
\* acquisition (endRoundTrip against abandonHold).
ReleasedOnce ==
    \A c \in Conn :
      LET writerGives == wpc[c] \in {"handback", "rollback", "rolling", "release"}
          closerGives == kpc[c] \in {"rollback", "rolling", "release"}
      IN  /\ ~(writerGives /\ closerGives)
          /\ writerGives \/ closerGives => Owns(c) /\ c \notin holding
          /\ c \in holding => at[c] = "owner"

\* A transaction ends by a step of the connection that opened it, of its
\* writer or of its shutdown, never by somebody else's COMMIT or ROLLBACK
\* (submit, rollbackSession).
OnlyOwnerEndsTransaction ==
    [][\A c \in Conn : session = c /\ session' # c
          => wpc'[c] # wpc[c] \/ kpc'[c] # kpc[c]]_vars
-----------------------------------------------------------------------------
(* The inductive invariant: who may own the lock at each pair of stages. *)

WriterGives(c) == wpc[c] \in {"rollback", "rolling", "release"}
CloserGives(c) == kpc[c] \in {"rollback", "rolling", "release"}

\* The writer's stage, the hold and the stage of acquire agree.
WriterInv(c) ==
    /\ c \in inFlight <=> wpc[c] \in {"call", "await", "end"}
    /\ at[c] \in {"queued", "leaving"} => wpc[c] = "lock"
    /\ at[c] = "handing" => wpc[c] = "handback"
    /\ wpc[c] = "handback" => at[c] \in {"owner", "handing"}
    /\ wpc[c] \in {"lock", "handback"} \/ WriterGives(c) => c \notin holding
    /\ c \in holding \/ WriterGives(c) => at[c] = "owner"

\* An owner is on its way to a hold, has one, or is giving it back.
OwnerInv(c) ==
    at[c] = "owner" =>
      \/ wpc[c] \in {"lock", "handback"} \/ c \in holding
      \/ WriterGives(c) \/ CloserGives(c)

\* Once shutdown has settled the hold, only a running round trip keeps it.
CloserInv(c) ==
    /\ c \in closing <=> CloserGives(c) \/ kpc[c] = "closed"
    /\ CloserGives(c) =>
         at[c] = "owner" /\ c \notin holding /\ wpc[c] \in {"idle", "begin", "shut"}
    /\ c \in closing /\ c \in holding => c \in inFlight

\* The session is busy only for a connection that holds it or is about to
\* roll it back, and an idle reply means an idle session.
SessionInv(c) ==
    /\ session = c => c \in holding \/ wpc[c] = "rollback" \/ kpc[c] = "rollback"
    /\ wpc[c] \in {"await", "end"} /\ outcome[c] = "idle" => session = None

MuxInv ==
    /\ LockInv /\ TypeOK
    /\ \A c \in Conn : WriterInv(c) /\ OwnerInv(c) /\ CloserInv(c) /\ SessionInv(c)
-----------------------------------------------------------------------------
(* Liveness. *)

\* A Write comes back: the wait behind another connection's transaction is
\* bounded by the write deadline, and nothing else in Write can block for ever
\* while PGlite settles its promises (package doc, "Transactions").
EveryWriteReturns == \A c \in Conn : wpc[c] # "idle" ~> wpc[c] = "idle"

\* A shutdown that started ends, and the backend is free of the connection for
\* good, also when it was in the middle of a round trip; and Multiplexer.Close
\* leaves no connection behind: a dial that raced it was either collected or
\* refused (shutdown, abandonHold, endRoundTrip; Close, DialContext).
CloseCompletes ==
    /\ \A c \in Conn : kpc[c] = "forgotten" ~> [](kpc[c] = "closed" /\ ~Owns(c))
    /\ muxClosed ~> [](\A c \in Conn : kpc[c] \in {"unused", "closed"})
=============================================================================
