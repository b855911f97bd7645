------------------------------ MODULE QueueLock ------------------------------
(***************************************************************************)
(* What the one-in-flight lock promises its callers: at most one owner,    *)
(* arrivals queue in order, an owner passes ownership to the longest       *)
(* waiter, a waiter may leave, and the lock is free exactly when nobody    *)
(* owns it.  It says nothing of channels, mutexes or the window in which a *)
(* grant and a change of mind cross; FifoLock implements it.               *)
(***************************************************************************)
EXTENDS Naturals, Sequences

CONSTANTS Caller,   \* who may ask for the lock
          None      \* no owner

VARIABLES owner,    \* the caller the lock belongs to, or None
          queue     \* the callers waiting, longest waiter first

qvars == <<owner, queue>>

QInit == owner = None /\ queue = <<>>

Waits(c) == \E i \in 1..Len(queue) : queue[i] = c

Take(c) == owner = None /\ queue = <<>> /\ owner' = c /\ UNCHANGED queue

Join(c) ==
    /\ owner # None /\ owner # c
    /\ ~Waits(c)
    /\ queue' = Append(queue, c)
    /\ UNCHANGED owner

\* A waiter gives up; the order of the others is kept.
Leave(c) ==
    /\ \E i \in 1..Len(queue) :
         /\ queue[i] = c
         /\ queue' = [j \in 1..(Len(queue) - 1) |->
                        IF j < i THEN queue[j] ELSE queue[j + 1]]
    /\ UNCHANGED owner

PassOn(c) ==
    /\ owner = c
    /\ IF queue = <<>>
       THEN owner' = None /\ UNCHANGED queue
       ELSE owner' = Head(queue) /\ queue' = Tail(queue)

QNext == \E c \in Caller : Take(c) \/ Join(c) \/ Leave(c) \/ PassOn(c)

QSpec == QInit /\ [][QNext]_qvars
=============================================================================
