------------------------------- MODULE FifoLock -------------------------------
(***************************************************************************)
(* src/wasmpg/fifo.go: the lock that guards the single PGlite backend.     *)
(*                                                                         *)
(* A caller of acquire is identified with the channel it parks on, so the  *)
(* waiters slice is a sequence of callers and a closed channel is          *)
(* membership in granted.  Every action is one critical section of f.mu,   *)
(* or one case of the select in acquire.                                   *)
(***************************************************************************)
EXTENDS Naturals, Sequences

CONSTANTS Caller, None

ASSUME LockAssumption == None \notin Caller

VARIABLES held,      \* f.held
          waiters,   \* f.waiters
          granted,   \* channels release has closed and nobody has received from
          at         \* where each caller is in acquire, abandon and release

lockVars == <<held, waiters, granted, at>>

\* out: not in the lock's code; queued: in acquire's select; leaving: in
\* abandon; owner: acquire returned nil; handing: abandon drained a grant.
Stage == {"out", "queued", "leaving", "owner", "handing"}

LockTypeOK ==
    /\ held \in BOOLEAN
    /\ waiters \in Seq(Caller)
    /\ granted \in SUBSET Caller
    /\ at \in [Caller -> Stage]

LockInit ==
    /\ held = FALSE
    /\ waiters = <<>>
    /\ granted = {}
    /\ at = [c \in Caller |-> "out"]

Waiting(c) == \E i \in 1..Len(waiters) : waiters[i] = c

\* append(f.waiters[:i], f.waiters[i+1:]...)
Without(s, i) ==
    [j \in 1..(Len(s) - 1) |-> IF j < i THEN s[j] ELSE s[j + 1]]

-----------------------------------------------------------------------------
(* Mutated forms: slips that would be plausible in fifo.go. *)

\* release serves the newest waiter.
ReleaseServesNewest(c) ==
    /\ at[c] \in {"owner", "handing"}
    /\ at' = [at EXCEPT ![c] = "out"]
    /\ IF waiters # <<>>
       THEN /\ waiters' = Without(waiters, Len(waiters))
            /\ granted' = granted \cup {waiters[Len(waiters)]}
            /\ UNCHANGED held
       ELSE held' = FALSE /\ UNCHANGED <<waiters, granted>>
-----------------------------------------------------------------------------
AcquireFree(c) ==
    /\ at[c] = "out"
    /\ ~held
    /\ held' = TRUE
    /\ at' = [at EXCEPT ![c] = "owner"]
    /\ UNCHANGED <<waiters, granted>>

AcquireQueue(c) ==
    /\ at[c] = "out"
    /\ held
    /\ waiters' = Append(waiters, c)
    /\ at' = [at EXCEPT ![c] = "queued"]
    /\ UNCHANGED <<held, granted>>

\* case <-ch
AcquireGranted(c) ==
    /\ at[c] = "queued"
    /\ c \in granted
    /\ granted' = granted \ {c}
    /\ at' = [at EXCEPT ![c] = "owner"]
    /\ UNCHANGED <<held, waiters>>

\* case <-ctx.Done() and case <-done.  Go's select picks any ready case, so
\* the caller may give up although its channel is already closed.
AcquireGiveUp(c) ==
    /\ at[c] = "queued"
    /\ at' = [at EXCEPT ![c] = "leaving"]
    /\ UNCHANGED <<held, waiters, granted>>

AbandonWithdraw(c) ==
    /\ at[c] = "leaving"
    /\ \E i \in 1..Len(waiters) :
         waiters[i] = c /\ waiters' = Without(waiters, i)
    /\ at' = [at EXCEPT ![c] = "out"]
    /\ UNCHANGED <<held, granted>>

\* <-ch: blocks until the grant is there.
AbandonDrain(c) ==
    /\ at[c] = "leaving"
    /\ ~Waiting(c)
    /\ c \in granted
    /\ granted' = granted \ {c}
    /\ at' = [at EXCEPT ![c] = "handing"]
    /\ UNCHANGED <<held, waiters>>

Release(c) ==
    /\ at[c] \in {"owner", "handing"}
    /\ at' = [at EXCEPT ![c] = "out"]
    /\ IF waiters # <<>>
       THEN /\ waiters' = Tail(waiters)
            /\ granted' = granted \cup {Head(waiters)}
            /\ UNCHANGED held
       ELSE /\ held' = FALSE
            /\ UNCHANGED <<waiters, granted>>

Acquire(c) == AcquireFree(c) \/ AcquireQueue(c) \/ AcquireGranted(c)

Abandon(c) == AcquireGiveUp(c) \/ AbandonWithdraw(c) \/ AbandonDrain(c)

LockNext == \E c \in Caller : Acquire(c) \/ Abandon(c) \/ Release(c)

LockSpec == LockInit /\ [][LockNext]_lockVars
-----------------------------------------------------------------------------
\* The lock belongs to c: it returned from acquire with it, it was granted it
\* and has not looked yet, or it is handing an unwanted grant on.
Owns(c) == at[c] \in {"owner", "handing"} \/ c \in granted

\* The lock belongs to at most one caller, whichever way it came by it: a
\* grant made by release in the instant its receiver gave up is not made
\* twice (acquire's select, abandon and release).
OneOwner == \A c, d \in Caller : Owns(c) /\ Owns(d) => c = d

\* The lock is never lost: while it is marked held somebody owns it and will
\* release it, although the caller it was granted to may have given up
\* (abandon's comment: "it owns the lock and has to hand it on").
NeverLost == held <=> \E c \in Caller : Owns(c)

\* Whoever is parked in acquire or abandon is either in the waiters slice or
\* holds a closed channel, never both: the receive in abandon cannot block,
\* and release never closes a channel twice.
ParkedOnce ==
    /\ \A c \in Caller : at[c] \in {"queued", "leaving"} <=> (Waiting(c) \/ c \in granted)
    /\ \A c \in granted : ~Waiting(c)
    /\ \A i, j \in 1..Len(waiters) : waiters[i] = waiters[j] => i = j

\* Nobody waits for a free lock: acquire queues only behind an owner, and
\* release frees the lock only when the queue is empty.
NobodyWaitsForFree == held \/ waiters = <<>>

\* The inductive invariant of the lock: the four facts above hold together
\* through every crossing of a grant and a change of mind (acquire, abandon,
\* release).
LockInv == LockTypeOK /\ OneOwner /\ NeverLost /\ ParkedOnce /\ NobodyWaitsForFree

\* The refinement: the owner is the caller Owns names, the queue the waiters.
QOwner == IF \E c \in Caller : Owns(c) THEN CHOOSE c \in Caller : Owns(c) ELSE None

Q == INSTANCE QueueLock WITH owner <- QOwner, queue <- waiters

\* fifo.go implements the abstract queueing lock: every critical section is a
\* step of QueueLock or changes nothing it can see.
ImplementsQueueLock == Q!QSpec
=============================================================================
