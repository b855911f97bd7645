--------------------------- MODULE MultiplexerProofs ---------------------------
(***************************************************************************)
(* Proofs about FifoLock, for every set of callers, and about Multiplexer, *)
(* for every set of connections and every budget. LockInv and MuxInv are   *)
(* inductive; the safety properties follow from them.                      *)
(***************************************************************************)
EXTENDS Multiplexer, TLAPS

-----------------------------------------------------------------------------
(* The lock.                                                               *)

\* acquire on a free lock keeps the lock's invariant.
LEMMA AcquireFreeKeepsInv ==
    ASSUME LockInv, NEW c \in Caller, AcquireFree(c)
    PROVE  LockInv'
<1> USE DEF Stage
<1>1. LockTypeOK'
  BY DEF LockInv, LockTypeOK, AcquireFree
<1>2. \A d \in Caller : Owns(d)' <=> d = c
  BY DEF LockInv, LockTypeOK, AcquireFree, NeverLost, Owns
<1>3. OneOwner' /\ NeverLost'
  BY <1>2 DEF OneOwner, NeverLost, AcquireFree
<1>4. ParkedOnce'
  BY DEF LockInv, LockTypeOK, AcquireFree, ParkedOnce, Waiting
<1>5. NobodyWaitsForFree'
  BY DEF AcquireFree, NobodyWaitsForFree
<1> QED
  BY <1>1, <1>3, <1>4, <1>5 DEF LockInv

\* acquire on a held lock joins the queue and keeps the invariant.
LEMMA AcquireQueueKeepsInv ==
    ASSUME LockInv, NEW c \in Caller, AcquireQueue(c)
    PROVE  LockInv'
<1> USE DEF Stage
<1>1. LockTypeOK'
  BY DEF LockInv, LockTypeOK, AcquireQueue
<1>2. \A d \in Caller : Owns(d)' <=> Owns(d)
  BY DEF LockInv, LockTypeOK, AcquireQueue, Owns
<1>3. OneOwner' /\ NeverLost'
  BY <1>2 DEF OneOwner, NeverLost, AcquireQueue, LockInv
<1>4. \A d \in Caller : Waiting(d)' <=> Waiting(d) \/ d = c
  BY DEF LockInv, LockTypeOK, AcquireQueue, Waiting
<1>5. ~Waiting(c) /\ c \notin granted
  BY DEF LockInv, ParkedOnce, AcquireQueue
<1>6. ParkedOnce'
  <2>1. \A d \in Caller : (at[d] \in {"queued", "leaving"})' <=> (Waiting(d) \/ d \in granted)'
    BY <1>4 DEF LockInv, LockTypeOK, AcquireQueue, ParkedOnce
  <2>2. \A d \in granted' : ~Waiting(d)'
    BY <1>4, <1>5 DEF LockInv, LockTypeOK, AcquireQueue, ParkedOnce
  <2>3. \A i, j \in 1..Len(waiters') : waiters'[i] = waiters'[j] => i = j
    BY <1>5 DEF LockInv, LockTypeOK, AcquireQueue, ParkedOnce, Waiting
  <2> QED
    BY <2>1, <2>2, <2>3 DEF ParkedOnce
<1>7. NobodyWaitsForFree'
  BY DEF AcquireQueue, NobodyWaitsForFree
<1> QED
  BY <1>1, <1>3, <1>6, <1>7 DEF LockInv

\* Receiving a grant, in acquire or in abandon, keeps the invariant.
LEMMA ReceiveKeepsInv ==
    ASSUME LockInv, NEW c \in Caller, AcquireGranted(c) \/ AbandonDrain(c)
    PROVE  LockInv'
<1> USE DEF Stage, AcquireGranted, AbandonDrain
<1>1. LockTypeOK'
  BY DEF LockInv, LockTypeOK
<1>2. \A d \in Caller : Owns(d)' <=> Owns(d)
  BY DEF LockInv, LockTypeOK, Owns
<1>3. OneOwner' /\ NeverLost'
  BY <1>2 DEF OneOwner, NeverLost, LockInv
<1>4. \A d \in Caller : Waiting(d)' <=> Waiting(d)
  BY DEF Waiting
<1>5. ParkedOnce'
  BY <1>4 DEF LockInv, LockTypeOK, ParkedOnce
<1>6. NobodyWaitsForFree'
  BY DEF LockInv, NobodyWaitsForFree
<1> QED
  BY <1>1, <1>3, <1>5, <1>6 DEF LockInv

\* Giving up in the select of acquire keeps the invariant.
LEMMA GiveUpKeepsInv ==
    ASSUME LockInv, NEW c \in Caller, AcquireGiveUp(c)
    PROVE  LockInv'
<1> USE DEF Stage, AcquireGiveUp
<1>1. LockTypeOK'
  BY DEF LockInv, LockTypeOK
<1>2. \A d \in Caller : (Owns(d)' <=> Owns(d)) /\ (Waiting(d)' <=> Waiting(d))
  BY DEF LockInv, LockTypeOK, Owns, Waiting
<1>3. OneOwner' /\ NeverLost'
  BY <1>2 DEF OneOwner, NeverLost, LockInv
<1>4. ParkedOnce'
  BY <1>2 DEF LockInv, LockTypeOK, ParkedOnce
<1>5. NobodyWaitsForFree'
  BY DEF LockInv, NobodyWaitsForFree
<1> QED
  BY <1>1, <1>3, <1>4, <1>5 DEF LockInv

\* What removing position i does to a duplicate-free queue.
LEMMA WithoutLemma ==
    ASSUME waiters \in Seq(Caller), NEW i \in 1..Len(waiters),
           \A j, k \in 1..Len(waiters) : waiters[j] = waiters[k] => j = k,
           waiters' = Without(waiters, i)
    PROVE  /\ waiters' \in Seq(Caller)
           /\ Len(waiters') = Len(waiters) - 1
           /\ \A d \in Caller : Waiting(d)' <=> Waiting(d) /\ d # waiters[i]
           /\ \A j, k \in 1..Len(waiters') : waiters'[j] = waiters'[k] => j = k
<1>1. /\ waiters' \in Seq(Caller)
      /\ Len(waiters') = Len(waiters) - 1
      /\ \A j \in 1..Len(waiters') :
           waiters'[j] = IF j < i THEN waiters[j] ELSE waiters[j + 1]
  BY DEF Without
<1>2. \A d \in Caller : Waiting(d)' => Waiting(d) /\ d # waiters[i]
  BY <1>1 DEF Waiting
<1>3. ASSUME NEW d \in Caller, Waiting(d), d # waiters[i]
      PROVE  Waiting(d)'
  <2>1. PICK k \in 1..Len(waiters) : waiters[k] = d
    BY <1>3 DEF Waiting
  <2>2. CASE k < i
    BY <1>1, <2>1, <2>2 DEF Waiting
  <2>3. CASE k > i
    <3>1. k - 1 \in 1..Len(waiters') /\ waiters'[k - 1] = d
      BY <1>1, <2>1, <2>3
    <3> QED
      BY <3>1 DEF Waiting
  <2> QED
    BY <1>3, <2>1, <2>2, <2>3
<1>4. \A j, k \in 1..Len(waiters') : waiters'[j] = waiters'[k] => j = k
  BY <1>1
<1> QED
  BY <1>1, <1>2, <1>3, <1>4

\* What removing the head does to a duplicate-free queue.
LEMMA TailLemma ==
    ASSUME waiters \in Seq(Caller), waiters # <<>>,
           \A j, k \in 1..Len(waiters) : waiters[j] = waiters[k] => j = k,
           waiters' = Tail(waiters)
    PROVE  /\ waiters' \in Seq(Caller)
           /\ Head(waiters) \in Caller
           /\ Waiting(Head(waiters))
           /\ \A d \in Caller : Waiting(d)' <=> Waiting(d) /\ d # Head(waiters)
           /\ \A j, k \in 1..Len(waiters') : waiters'[j] = waiters'[k] => j = k
<1>1. /\ waiters' \in Seq(Caller)
      /\ Len(waiters') = Len(waiters) - 1
      /\ Len(waiters) \in Nat /\ Len(waiters) >= 1
      /\ \A j \in 1..Len(waiters') : waiters'[j] = waiters[j + 1]
      /\ Head(waiters) = waiters[1]
      /\ Head(waiters) \in Caller
  OBVIOUS
<1>2. \A d \in Caller : Waiting(d)' => Waiting(d) /\ d # Head(waiters)
  BY <1>1 DEF Waiting
<1>3. ASSUME NEW d \in Caller, Waiting(d), d # Head(waiters)
      PROVE  Waiting(d)'
  <2>1. PICK k \in 1..Len(waiters) : waiters[k] = d
    BY <1>3 DEF Waiting
  <2>2. k - 1 \in 1..Len(waiters') /\ waiters'[k - 1] = d
    BY <1>1, <1>3, <2>1
  <2> QED
    BY <2>2 DEF Waiting
<1>4. \A j, k \in 1..Len(waiters') : waiters'[j] = waiters'[k] => j = k
  BY <1>1
<1>5. Waiting(Head(waiters))
  BY <1>1 DEF Waiting
<1> QED
  BY <1>1, <1>2, <1>3, <1>4, <1>5

\* Withdrawing from the queue keeps the invariant.
LEMMA WithdrawKeepsInv ==
    ASSUME LockInv, NEW c \in Caller, AbandonWithdraw(c)
    PROVE  LockInv'
<1> USE DEF Stage
<1>1. PICK i \in 1..Len(waiters) : waiters[i] = c /\ waiters' = Without(waiters, i)
  BY DEF AbandonWithdraw
<1>2. /\ waiters' \in Seq(Caller)
      /\ Len(waiters') = Len(waiters) - 1
      /\ \A d \in Caller : Waiting(d)' <=> Waiting(d) /\ d # c
      /\ \A j, k \in 1..Len(waiters') : waiters'[j] = waiters'[k] => j = k
  BY <1>1, WithoutLemma DEF LockInv, LockTypeOK, ParkedOnce
<1>3. LockTypeOK'
  BY <1>2 DEF LockInv, LockTypeOK, AbandonWithdraw
<1>4. \A d \in Caller : Owns(d)' <=> Owns(d)
  BY DEF LockInv, LockTypeOK, AbandonWithdraw, Owns
<1>5. OneOwner' /\ NeverLost'
  BY <1>4 DEF OneOwner, NeverLost, AbandonWithdraw, LockInv
<1>6. Waiting(c)
  BY <1>1 DEF Waiting
<1>7. ParkedOnce'
  BY <1>2, <1>6 DEF LockInv, LockTypeOK, ParkedOnce, AbandonWithdraw
<1>8. NobodyWaitsForFree'
  BY <1>1 DEF LockInv, LockTypeOK, NobodyWaitsForFree, AbandonWithdraw
<1> QED
  BY <1>3, <1>5, <1>7, <1>8 DEF LockInv

\* release keeps the invariant: ownership passes to the head of the queue, or
\* the lock becomes free.
LEMMA ReleaseKeepsInv ==
    ASSUME LockInv, NEW c \in Caller, Release(c)
    PROVE  LockInv'
<1> USE DEF Stage
<1>1. Owns(c) /\ ~Waiting(c) /\ c \notin granted /\ held
  BY DEF LockInv, ParkedOnce, NeverLost, Owns, Release
<1>2. CASE waiters # <<>>
  <2>1. waiters' = Tail(waiters) /\ granted' = granted \cup {Head(waiters)} /\ held' = held
    BY <1>2 DEF Release
  <2>2. /\ waiters' \in Seq(Caller)
        /\ Head(waiters) \in Caller
        /\ Waiting(Head(waiters))
        /\ \A d \in Caller : Waiting(d)' <=> Waiting(d) /\ d # Head(waiters)
        /\ \A j, k \in 1..Len(waiters') : waiters'[j] = waiters'[k] => j = k
    BY <1>2, <2>1, TailLemma DEF LockInv, LockTypeOK, ParkedOnce
  <2>3. LockTypeOK'
    BY <2>1, <2>2 DEF LockInv, LockTypeOK, Release
  <2>4. Head(waiters) # c
    BY <1>1, <2>2
  <2>5. \A d \in Caller : Owns(d)' <=> d = Head(waiters)
    BY <1>1, <2>1, <2>2, <2>4 DEF LockInv, LockTypeOK, OneOwner, Owns, Release
  <2>6. OneOwner' /\ NeverLost'
    BY <1>1, <2>1, <2>2, <2>5 DEF OneOwner, NeverLost
  <2>7. \A d \in Caller : (at[d] \in {"queued", "leaving"})' <=> (Waiting(d) \/ d \in granted)'
    BY <1>1, <2>1, <2>2, <2>4 DEF LockInv, LockTypeOK, ParkedOnce, Release
  <2>8. \A d \in granted' : ~Waiting(d)'
    BY <1>1, <2>1, <2>2 DEF LockInv, LockTypeOK, ParkedOnce
  <2>9. ParkedOnce'
    BY <2>2, <2>7, <2>8 DEF ParkedOnce
  <2>10. NobodyWaitsForFree'
    BY <1>1, <2>1 DEF NobodyWaitsForFree
  <2> QED
    BY <2>3, <2>6, <2>9, <2>10 DEF LockInv
<1>3. CASE waiters = <<>>
  <2>1. held' = FALSE /\ waiters' = waiters /\ granted' = granted
    BY <1>3 DEF Release
  <2>2. LockTypeOK'
    BY <2>1 DEF LockInv, LockTypeOK, Release
  <2>3. \A d \in Caller : ~Owns(d)'
    BY <1>1, <2>1 DEF LockInv, LockTypeOK, OneOwner, Owns, Release
  <2>4. OneOwner' /\ NeverLost'
    BY <2>1, <2>3 DEF OneOwner, NeverLost
  <2>5. \A d \in Caller : Waiting(d)' <=> Waiting(d)
    BY <2>1 DEF Waiting
  <2>6. ParkedOnce'
    BY <1>1, <2>1, <2>5 DEF LockInv, LockTypeOK, ParkedOnce, Release
  <2>7. NobodyWaitsForFree'
    BY <1>3, <2>1 DEF NobodyWaitsForFree
  <2> QED
    BY <2>2, <2>4, <2>6, <2>7 DEF LockInv
<1> QED
  BY <1>2, <1>3
-----------------------------------------------------------------------------
\* The initial state satisfies the lock's invariant.
LEMMA LockInitInv == LockInit => LockInv
<1> SUFFICES ASSUME LockInit PROVE LockInv
  OBVIOUS
<1>1. Len(waiters) = 0 /\ waiters \in Seq(Caller)
  BY DEF LockInit
<1>2. \A c \in Caller : ~Waiting(c)
  BY <1>1 DEF Waiting
<1>3. \A c \in Caller : ~Owns(c)
  BY DEF LockInit, Owns
<1>4. LockTypeOK
  BY <1>1 DEF LockInit, LockTypeOK, Stage
<1>5. OneOwner /\ NeverLost
  BY <1>3 DEF LockInit, OneOwner, NeverLost
<1>6. ParkedOnce
  BY <1>1, <1>2 DEF LockInit, ParkedOnce
<1> QED
  BY <1>4, <1>5, <1>6 DEF LockInit, LockInv, NobodyWaitsForFree

\* Every step of the lock, and every step that leaves it alone, keeps the
\* invariant.
LEMMA LockNextInv == LockInv /\ [LockNext]_lockVars => LockInv'
<1> SUFFICES ASSUME LockInv, [LockNext]_lockVars PROVE LockInv'
  OBVIOUS
<1>1. CASE LockNext
  <2>1. PICK c \in Caller : Acquire(c) \/ Abandon(c) \/ Release(c)
    BY <1>1 DEF LockNext
  <2>2. CASE Acquire(c)
    BY <2>2, AcquireFreeKeepsInv, AcquireQueueKeepsInv, ReceiveKeepsInv DEF Acquire
  <2>3. CASE Abandon(c)
    BY <2>3, GiveUpKeepsInv, WithdrawKeepsInv, ReceiveKeepsInv DEF Abandon
  <2>4. CASE Release(c)
    BY <2>4, ReleaseKeepsInv
  <2> QED
    BY <2>1, <2>2, <2>3, <2>4
<1>2. CASE UNCHANGED lockVars
  BY <1>2 DEF lockVars, LockInv, LockTypeOK, OneOwner, NeverLost, ParkedOnce,
              NobodyWaitsForFree, Owns, Waiting
<1> QED
  BY <1>1, <1>2

\* fifo.go, for every number of callers: the lock has at most one owner, is
\* never lost, and parks every waiter in exactly one place.
THEOREM LockInvariant == LockSpec => []LockInv
<1>1. LockInit => LockInv
  BY LockInitInv
<1>2. LockInv /\ [LockNext]_lockVars => LockInv'
  BY LockNextInv
<1> QED
  BY <1>1, <1>2, PTL DEF LockSpec

\* The owner of the lock is unique, whichever way it came by it.
THEOREM LockOneOwner == LockSpec => [](OneOwner /\ NeverLost /\ ParkedOnce)
<1>1. LockInv => OneOwner /\ NeverLost /\ ParkedOnce
  BY DEF LockInv
<1> QED
  BY <1>1, LockInvariant, PTL
-----------------------------------------------------------------------------
(* The refinement. *)

\* The refinement mapping finds the owner, before and after a step.
LEMMA OwnerMapped ==
    ASSUME OneOwner, OneOwner'
    PROVE  /\ \A c \in Caller : Owns(c) => QOwner = c
           /\ (\A c \in Caller : ~Owns(c)) => QOwner = None
           /\ \A c \in Caller : Owns(c)' => QOwner' = c
           /\ (\A c \in Caller : ~Owns(c)') => QOwner' = None
<1>1. \A c \in Caller : Owns(c) => QOwner = c
  BY DEF QOwner, OneOwner
<1>2. (\A c \in Caller : ~Owns(c)) => QOwner = None
  BY DEF QOwner
<1>3. \A c \in Caller : Owns(c)' => QOwner' = c
  BY DEF QOwner, OneOwner
<1>4. (\A c \in Caller : ~Owns(c)') => QOwner' = None
  BY DEF QOwner
<1> QED
  BY <1>1, <1>2, <1>3, <1>4

\* A step that changes neither ownership nor the queue is a stutter of the
\* abstract lock.
LEMMA SameOwner ==
    ASSUME LockInv, LockInv', \A d \in Caller : Owns(d)' <=> Owns(d)
    PROVE  QOwner' = QOwner
BY OwnerMapped DEF LockInv

\* Every critical section of fifo.go is a step of the abstract queueing lock,
\* or invisible to it.
LEMMA LockStepRefines ==
    ASSUME LockInv, LockInv', NEW c \in Caller, Acquire(c) \/ Abandon(c) \/ Release(c)
    PROVE  [Q!QNext]_(Q!qvars)
<1> USE DEF Stage, Q!qvars
<1>0. OneOwner /\ OneOwner'
  BY DEF LockInv
<1>1. CASE AcquireFree(c)
  <2>1. Owns(c)' /\ \A d \in Caller : ~Owns(d)
    BY <1>1 DEF AcquireFree, LockInv, LockTypeOK, NeverLost, Owns
  <2>2. QOwner = None /\ QOwner' = c
    BY <1>0, <2>1, OwnerMapped
  <2>3. Q!Take(c)
    BY <1>1, <2>2 DEF Q!Take, AcquireFree, LockInv, NobodyWaitsForFree
  <2> QED
    BY <2>3 DEF Q!QNext
<1>2. CASE AcquireQueue(c)
  <2>1. \A d \in Caller : Owns(d)' <=> Owns(d)
    BY <1>2 DEF AcquireQueue, LockInv, LockTypeOK, Owns
  <2>2. QOwner' = QOwner
    BY <2>1, SameOwner
  <2>3. PICK o \in Caller : Owns(o)
    BY <1>2 DEF AcquireQueue, LockInv, NeverLost
  <2>4. ~Owns(c) /\ ~Waiting(c)
    BY <1>2 DEF AcquireQueue, LockInv, ParkedOnce, Owns
  <2>5. QOwner = o /\ o # c
    BY <1>0, <2>3, <2>4, OwnerMapped
  <2>6. Q!Join(c)
    BY <1>2, <2>2, <2>4, <2>5, LockAssumption DEF Q!Join, Q!Waits, AcquireQueue, Waiting
  <2> QED
    BY <2>6 DEF Q!QNext
<1>3. CASE AcquireGranted(c) \/ AbandonDrain(c) \/ AcquireGiveUp(c)
  <2>1. \A d \in Caller : Owns(d)' <=> Owns(d)
    BY <1>3 DEF AcquireGranted, AbandonDrain, AcquireGiveUp, LockInv, LockTypeOK, Owns
  <2>2. QOwner' = QOwner
    BY <2>1, SameOwner
  <2> QED
    BY <1>3, <2>2 DEF AcquireGranted, AbandonDrain, AcquireGiveUp
<1>4. CASE AbandonWithdraw(c)
  <2>1. \A d \in Caller : Owns(d)' <=> Owns(d)
    BY <1>4 DEF AbandonWithdraw, LockInv, LockTypeOK, Owns
  <2>2. QOwner' = QOwner
    BY <2>1, SameOwner
  <2>3. Q!Leave(c)
    BY <1>4, <2>2 DEF Q!Leave, AbandonWithdraw, Without
  <2> QED
    BY <2>3 DEF Q!QNext
<1>5. CASE Release(c)
  <2>1. Owns(c)
    BY <1>5 DEF Release, Owns
  <2>2. QOwner = c
    BY <1>0, <2>1, OwnerMapped
  <2>3. CASE waiters = <<>>
    <3>1. held' = FALSE /\ waiters' = waiters
      BY <1>5, <2>3 DEF Release
    <3>2. \A d \in Caller : ~Owns(d)'
      BY <3>1 DEF LockInv, NeverLost
    <3>3. QOwner' = None
      BY <1>0, <3>2, OwnerMapped
    <3>4. Q!PassOn(c)
      BY <2>2, <2>3, <3>1, <3>3 DEF Q!PassOn
    <3> QED
      BY <3>4 DEF Q!QNext
  <2>4. CASE waiters # <<>>
    <3>1. waiters' = Tail(waiters) /\ granted' = granted \cup {Head(waiters)}
      BY <1>5, <2>4 DEF Release
    <3>2. Head(waiters) \in Caller
      BY <2>4 DEF LockInv, LockTypeOK
    <3>3. QOwner' = Head(waiters)
      BY <1>0, <3>1, <3>2, OwnerMapped DEF Owns
    <3>4. Q!PassOn(c)
      BY <2>2, <2>4, <3>1, <3>3 DEF Q!PassOn
    <3> QED
      BY <3>4 DEF Q!QNext
  <2> QED
    BY <2>3, <2>4
<1> QED
  BY <1>1, <1>2, <1>3, <1>4, <1>5 DEF Acquire, Abandon

\* fifo.go implements the abstract queueing lock for every set of callers:
\* first come, first served, one owner, nobody forgotten.
THEOREM LockRefinesQueueLock == LockSpec => ImplementsQueueLock
<1>1. LockInit => Q!QInit
  <2> SUFFICES ASSUME LockInit PROVE Q!QInit
    OBVIOUS
  <2>1. \A c \in Caller : ~Owns(c)
    BY DEF LockInit, Owns
  <2>2. QOwner = None
    BY <2>1 DEF QOwner
  <2> QED
    BY <2>2 DEF LockInit, Q!QInit
<1>2. LockInv /\ LockInv' /\ [LockNext]_lockVars => [Q!QNext]_(Q!qvars)
  <2> SUFFICES ASSUME LockInv, LockInv', [LockNext]_lockVars
               PROVE  [Q!QNext]_(Q!qvars)
    OBVIOUS
  <2>1. CASE LockNext
    BY <2>1, LockStepRefines DEF LockNext
  <2>2. CASE UNCHANGED lockVars
    <3>1. \A d \in Caller : Owns(d)' <=> Owns(d)
      BY <2>2 DEF lockVars, Owns
    <3>2. QOwner' = QOwner
      BY <3>1, SameOwner
    <3> QED
      BY <2>2, <3>2 DEF lockVars, Q!qvars
  <2> QED
    BY <2>1, <2>2
<1> QED
  BY <1>1, <1>2, LockInvariant, PTL DEF LockSpec, ImplementsQueueLock, Q!QSpec

-----------------------------------------------------------------------------
(* The multiplexer.                                                        *)

\* Two connections never both own the lock.
LEMMA UniqueOwner ==
    ASSUME LockInv, NEW c \in Conn, NEW d \in Conn, Owns(c), Owns(d)
    PROVE  c = d
BY DEF LockInv, OneOwner, Conn

\* The initial state satisfies the invariant.
LEMMA MuxInit == Init => MuxInv
<1> SUFFICES ASSUME Init PROVE MuxInv
  OBVIOUS
<1>1. LockInv
  BY LockInitInv DEF Init
<1>2. TypeOK
  BY <1>1 DEF Init, TypeOK, LockInv, WStage, KStage, Outcome
<1>3. \A c \in Conn : WriterInv(c) /\ OwnerInv(c) /\ CloserInv(c) /\ SessionInv(c)
  BY LockAssumption DEF Init, LockInit, Conn, WriterInv, OwnerInv, CloserInv, SessionInv,
                        WriterGives, CloserGives
<1> QED
  BY <1>1, <1>2, <1>3 DEF MuxInv

\* Write starting, or going on after a Terminate, keeps the invariant.
LEMMA StartAndShutKeepInv ==
    ASSUME MuxInv, NEW c \in Conn, WriteStart(c) \/ WriteShut(c)
    PROVE  MuxInv'
<1> USE DEF WriteStart, WriteShut, WriterTo
<1>1. LockInv'
  BY LockNextInv DEF MuxInv, lockVars
<1>2. TypeOK'
  BY <1>1 DEF MuxInv, LockInv, TypeOK, WStage, KStage, Outcome, Conn, muxVars
<1>3. ASSUME NEW d \in Conn
      PROVE  (WriterInv(d) /\ OwnerInv(d) /\ CloserInv(d) /\ SessionInv(d))'
  <2>0. /\ WriterInv(c) /\ OwnerInv(c) /\ CloserInv(c) /\ SessionInv(c)
        /\ WriterInv(d) /\ OwnerInv(d) /\ CloserInv(d) /\ SessionInv(d)
    BY DEF MuxInv
  <2>1. Owns(c) /\ Owns(d) => c = d
    BY UniqueOwner DEF MuxInv
  <2> USE <2>0, <2>1 DEF MuxInv, TypeOK, LockInv, LockTypeOK, lockVars, Conn, Owns, WriterGives, CloserGives
  <2>2. WriterInv(d)'
    BY DEF WriterInv, CloserInv
  <2>3. OwnerInv(d)'
    BY DEF OwnerInv, WriterInv, CloserInv
  <2>4. CloserInv(d)'
    BY DEF CloserInv, WriterInv, WStage
  <2>5. SessionInv(d)'
    BY LockAssumption DEF SessionInv, WriterInv, CloserInv
  <2> QED
    BY <2>2, <2>3, <2>4, <2>5
<1> QED
  BY <1>1, <1>2, <1>3 DEF MuxInv

\* The first critical section of beginRoundTrip keeps the invariant.
LEMMA BeginKeepsInv ==
    ASSUME MuxInv, NEW c \in Conn, beginRoundTrip(c)
    PROVE  MuxInv'
<1> USE DEF beginRoundTrip, WriterTo
<1>1. LockInv'
  BY LockNextInv DEF MuxInv, lockVars
<1>2. TypeOK'
  BY <1>1 DEF MuxInv, LockInv, TypeOK, WStage, KStage, Outcome, Conn, muxVars
<1>3. ASSUME NEW d \in Conn
      PROVE  (WriterInv(d) /\ OwnerInv(d) /\ CloserInv(d) /\ SessionInv(d))'
  <2>0. /\ WriterInv(c) /\ OwnerInv(c) /\ CloserInv(c) /\ SessionInv(c)
        /\ WriterInv(d) /\ OwnerInv(d) /\ CloserInv(d) /\ SessionInv(d)
    BY DEF MuxInv
  <2>1. Owns(c) /\ Owns(d) => c = d
    BY UniqueOwner DEF MuxInv
  <2> USE <2>0, <2>1 DEF MuxInv, TypeOK, LockInv, LockTypeOK, lockVars, Conn, Owns, WriterGives, CloserGives
  <2>2. WriterInv(d)'
    BY DEF WriterInv, CloserInv
  <2>3. OwnerInv(d)'
    BY DEF OwnerInv, WriterInv, CloserInv
  <2>4. CloserInv(d)'
    BY DEF CloserInv, WriterInv, WStage
  <2>5. SessionInv(d)'
    BY LockAssumption DEF SessionInv, WriterInv, CloserInv
  <2> QED
    BY <2>2, <2>3, <2>4, <2>5
<1> QED
  BY <1>1, <1>2, <1>3 DEF MuxInv

\* Waiting for the backend, and giving up, keeps the invariant.
LEMMA WaitKeepsInv ==
    ASSUME MuxInv, NEW c \in Conn, WaitForBackend(c)
    PROVE  MuxInv'
<1> USE DEF WaitForBackend, WriterTo, AcquireFree, AcquireQueue, AcquireGranted, AcquireGiveUp, AbandonWithdraw, AbandonDrain, Acquire
<1>1. LockInv'
  BY LockNextInv DEF MuxInv, LockNext, Acquire, Abandon, Conn
<1>2. TypeOK'
  BY <1>1 DEF MuxInv, LockInv, TypeOK, WStage, KStage, Outcome, Conn, muxVars
<1>3. ASSUME NEW d \in Conn
      PROVE  (WriterInv(d) /\ OwnerInv(d) /\ CloserInv(d) /\ SessionInv(d))'
  <2>0. /\ WriterInv(c) /\ OwnerInv(c) /\ CloserInv(c) /\ SessionInv(c)
        /\ WriterInv(d) /\ OwnerInv(d) /\ CloserInv(d) /\ SessionInv(d)
    BY DEF MuxInv
  <2>1. Owns(c) /\ Owns(d) => c = d
    BY UniqueOwner DEF MuxInv
  <2> USE <2>0, <2>1 DEF MuxInv, TypeOK, LockInv, LockTypeOK, lockVars, Conn, Owns, WriterGives, CloserGives
  <2>2. WriterInv(d)'
    BY DEF WriterInv, CloserInv
  <2>3. OwnerInv(d)'
    BY DEF OwnerInv, WriterInv, CloserInv
  <2>4. CloserInv(d)'
    BY DEF CloserInv, WriterInv, WStage
  <2>5. SessionInv(d)'
    BY LockAssumption DEF SessionInv, WriterInv, CloserInv
  <2> QED
    BY <2>2, <2>3, <2>4, <2>5
<1> QED
  BY <1>1, <1>2, <1>3 DEF MuxInv

\* Recording the hold keeps the invariant.
LEMMA RecordKeepsInv ==
    ASSUME MuxInv, NEW c \in Conn, recordHold(c)
    PROVE  MuxInv'
<1> USE DEF recordHold, WriterTo
<1>1. LockInv'
  BY LockNextInv DEF MuxInv, lockVars
<1>2. TypeOK'
  BY <1>1 DEF MuxInv, LockInv, TypeOK, WStage, KStage, Outcome, Conn, muxVars
<1>3. ASSUME NEW d \in Conn
      PROVE  (WriterInv(d) /\ OwnerInv(d) /\ CloserInv(d) /\ SessionInv(d))'
  <2>0. /\ WriterInv(c) /\ OwnerInv(c) /\ CloserInv(c) /\ SessionInv(c)
        /\ WriterInv(d) /\ OwnerInv(d) /\ CloserInv(d) /\ SessionInv(d)
    BY DEF MuxInv
  <2>1. Owns(c) /\ Owns(d) => c = d
    BY UniqueOwner DEF MuxInv
  <2> USE <2>0, <2>1 DEF MuxInv, TypeOK, LockInv, LockTypeOK, lockVars, Conn, Owns, WriterGives, CloserGives
  <2>2. WriterInv(d)'
    BY DEF WriterInv, CloserInv
  <2>3. OwnerInv(d)'
    BY DEF OwnerInv, WriterInv, CloserInv
  <2>4. CloserInv(d)'
    BY DEF CloserInv, WriterInv, WStage
  <2>5. SessionInv(d)'
    BY LockAssumption DEF SessionInv, WriterInv, CloserInv
  <2> QED
    BY <2>2, <2>3, <2>4, <2>5
<1> QED
  BY <1>1, <1>2, <1>3 DEF MuxInv

\* Passing an unwanted grant on keeps the invariant.
LEMMA HandBackKeepsInv ==
    ASSUME MuxInv, NEW c \in Conn, HandBack(c)
    PROVE  MuxInv'
<1> USE DEF HandBack, WriterTo, Release
<1>1. LockInv'
  BY LockNextInv DEF MuxInv, LockNext, Acquire, Abandon, Conn
<1>2. TypeOK'
  BY <1>1 DEF MuxInv, LockInv, TypeOK, WStage, KStage, Outcome, Conn, muxVars
<1>3. ASSUME NEW d \in Conn
      PROVE  (WriterInv(d) /\ OwnerInv(d) /\ CloserInv(d) /\ SessionInv(d))'
  <2>0. /\ WriterInv(c) /\ OwnerInv(c) /\ CloserInv(c) /\ SessionInv(c)
        /\ WriterInv(d) /\ OwnerInv(d) /\ CloserInv(d) /\ SessionInv(d)
    BY DEF MuxInv
  <2>1. Owns(c) /\ Owns(d) => c = d
    BY UniqueOwner DEF MuxInv
  <2> USE <2>0, <2>1 DEF MuxInv, TypeOK, LockInv, LockTypeOK, lockVars, Conn, Owns, WriterGives, CloserGives
  <2>2. WriterInv(d)'
    BY DEF WriterInv, CloserInv
  <2>3. OwnerInv(d)'
    BY DEF OwnerInv, WriterInv, CloserInv
  <2>4. CloserInv(d)'
    BY DEF CloserInv, WriterInv, WStage
  <2>5. SessionInv(d)'
    BY LockAssumption DEF SessionInv, WriterInv, CloserInv
  <2> QED
    BY <2>2, <2>3, <2>4, <2>5
<1> QED
  BY <1>1, <1>2, <1>3 DEF MuxInv

\* Calling the backend keeps the invariant.
LEMMA ExecKeepsInv ==
    ASSUME MuxInv, NEW c \in Conn, exec(c)
    PROVE  MuxInv'
<1> USE DEF exec
<1>1. LockInv'
  BY LockNextInv DEF MuxInv, lockVars
<1>2. TypeOK'
  BY <1>1 DEF MuxInv, LockInv, TypeOK, WStage, KStage, Outcome, Conn, muxVars
<1>3. ASSUME NEW d \in Conn
      PROVE  (WriterInv(d) /\ OwnerInv(d) /\ CloserInv(d) /\ SessionInv(d))'
  <2>0. /\ WriterInv(c) /\ OwnerInv(c) /\ CloserInv(c) /\ SessionInv(c)
        /\ WriterInv(d) /\ OwnerInv(d) /\ CloserInv(d) /\ SessionInv(d)
    BY DEF MuxInv
  <2>1. Owns(c) /\ Owns(d) => c = d
    BY UniqueOwner DEF MuxInv
  <2> USE <2>0, <2>1 DEF MuxInv, TypeOK, LockInv, LockTypeOK, lockVars, Conn, Owns, WriterGives, CloserGives
  <2>2. WriterInv(d)'
    BY DEF WriterInv, CloserInv
  <2>3. OwnerInv(d)'
    BY DEF OwnerInv, WriterInv, CloserInv
  <2>4. CloserInv(d)'
    BY DEF CloserInv, WriterInv, WStage
  <2>5. SessionInv(d)'
    BY LockAssumption DEF SessionInv, WriterInv, CloserInv
  <2> QED
    BY <2>2, <2>3, <2>4, <2>5
<1> QED
  BY <1>1, <1>2, <1>3 DEF MuxInv

\* A reply, a rejection or a cancelled wait keeps the invariant.
LEMMA ExecEndsKeepsInv ==
    ASSUME MuxInv, NEW c \in Conn, execReplies(c) \/ execFails(c)
    PROVE  MuxInv'
<1> USE DEF execReplies, execFails, WriterTo
<1>1. LockInv'
  BY LockNextInv DEF MuxInv, lockVars
<1>2. TypeOK'
  BY <1>1 DEF MuxInv, LockInv, TypeOK, WStage, KStage, Outcome, Conn, muxVars
<1>3. ASSUME NEW d \in Conn
      PROVE  (WriterInv(d) /\ OwnerInv(d) /\ CloserInv(d) /\ SessionInv(d))'
  <2>0. /\ WriterInv(c) /\ OwnerInv(c) /\ CloserInv(c) /\ SessionInv(c)
        /\ WriterInv(d) /\ OwnerInv(d) /\ CloserInv(d) /\ SessionInv(d)
    BY DEF MuxInv
  <2>1. Owns(c) /\ Owns(d) => c = d
    BY UniqueOwner DEF MuxInv
  <2> USE <2>0, <2>1 DEF MuxInv, TypeOK, LockInv, LockTypeOK, lockVars, Conn, Owns, WriterGives, CloserGives
  <2>2. WriterInv(d)'
    BY DEF WriterInv, CloserInv
  <2>3. OwnerInv(d)'
    BY DEF OwnerInv, WriterInv, CloserInv
  <2>4. CloserInv(d)'
    BY DEF CloserInv, WriterInv, WStage
  <2>5. SessionInv(d)'
    BY LockAssumption DEF SessionInv, WriterInv, CloserInv
  <2> QED
    BY <2>2, <2>3, <2>4, <2>5
<1> QED
  BY <1>1, <1>2, <1>3 DEF MuxInv

\* endRoundTrip keeps the invariant.
LEMMA EndKeepsInv ==
    ASSUME MuxInv, NEW c \in Conn, endRoundTrip(c)
    PROVE  MuxInv'
<1> USE DEF endRoundTrip, WriterTo, WriterGoesOn, SubmitReturns
<1>1. LockInv'
  BY LockNextInv DEF MuxInv, lockVars
<1>2. TypeOK'
  BY <1>1 DEF MuxInv, LockInv, TypeOK, WStage, KStage, Outcome, Conn, muxVars
<1>3. ASSUME NEW d \in Conn
      PROVE  (WriterInv(d) /\ OwnerInv(d) /\ CloserInv(d) /\ SessionInv(d))'
  <2>0. /\ WriterInv(c) /\ OwnerInv(c) /\ CloserInv(c) /\ SessionInv(c)
        /\ WriterInv(d) /\ OwnerInv(d) /\ CloserInv(d) /\ SessionInv(d)
    BY DEF MuxInv
  <2>1. Owns(c) /\ Owns(d) => c = d
    BY UniqueOwner DEF MuxInv
  <2> USE <2>0, <2>1 DEF MuxInv, TypeOK, LockInv, LockTypeOK, lockVars, Conn, Owns, WriterGives, CloserGives
  <2>2. WriterInv(d)'
    BY DEF WriterInv, CloserInv
  <2>3. OwnerInv(d)'
    BY DEF OwnerInv, WriterInv, CloserInv
  <2>4. CloserInv(d)'
    BY DEF CloserInv, WriterInv, WStage
  <2>5. SessionInv(d)'
    BY LockAssumption DEF SessionInv, WriterInv, CloserInv
  <2> QED
    BY <2>2, <2>3, <2>4, <2>5
<1> QED
  BY <1>1, <1>2, <1>3 DEF MuxInv

\* The writer's rollback keeps the invariant.
LEMMA RollbackKeepsInv ==
    ASSUME MuxInv, NEW c \in Conn, rollbackSession(c) \/ rollbackSettles(c)
    PROVE  MuxInv'
<1> USE DEF rollbackSession, rollbackSettles, WriterTo
<1>1. LockInv'
  BY LockNextInv DEF MuxInv, lockVars
<1>2. TypeOK'
  BY <1>1 DEF MuxInv, LockInv, TypeOK, WStage, KStage, Outcome, Conn, muxVars
<1>3. ASSUME NEW d \in Conn
      PROVE  (WriterInv(d) /\ OwnerInv(d) /\ CloserInv(d) /\ SessionInv(d))'
  <2>0. /\ WriterInv(c) /\ OwnerInv(c) /\ CloserInv(c) /\ SessionInv(c)
        /\ WriterInv(d) /\ OwnerInv(d) /\ CloserInv(d) /\ SessionInv(d)
    BY DEF MuxInv
  <2>1. Owns(c) /\ Owns(d) => c = d
    BY UniqueOwner DEF MuxInv
  <2> USE <2>0, <2>1 DEF MuxInv, TypeOK, LockInv, LockTypeOK, lockVars, Conn, Owns, WriterGives, CloserGives
  <2>2. WriterInv(d)'
    BY DEF WriterInv, CloserInv
  <2>3. OwnerInv(d)'
    BY DEF OwnerInv, WriterInv, CloserInv
  <2>4. CloserInv(d)'
    BY DEF CloserInv, WriterInv, WStage
  <2>5. SessionInv(d)'
    BY LockAssumption DEF SessionInv, WriterInv, CloserInv
  <2> QED
    BY <2>2, <2>3, <2>4, <2>5
<1> QED
  BY <1>1, <1>2, <1>3 DEF MuxInv

\* The writer's release keeps the invariant.
LEMMA ReleaseKeepsMuxInv ==
    ASSUME MuxInv, NEW c \in Conn, ReleaseBackend(c)
    PROVE  MuxInv'
<1> USE DEF ReleaseBackend, WriterTo, Release, WriterGoesOn, SubmitReturns
<1>1. LockInv'
  BY LockNextInv DEF MuxInv, LockNext, Acquire, Abandon, Conn
<1>2. TypeOK'
  BY <1>1 DEF MuxInv, LockInv, TypeOK, WStage, KStage, Outcome, Conn, muxVars
<1>3. ASSUME NEW d \in Conn
      PROVE  (WriterInv(d) /\ OwnerInv(d) /\ CloserInv(d) /\ SessionInv(d))'
  <2>0. /\ WriterInv(c) /\ OwnerInv(c) /\ CloserInv(c) /\ SessionInv(c)
        /\ WriterInv(d) /\ OwnerInv(d) /\ CloserInv(d) /\ SessionInv(d)
    BY DEF MuxInv
  <2>1. Owns(c) /\ Owns(d) => c = d
    BY UniqueOwner DEF MuxInv
  <2> USE <2>0, <2>1 DEF MuxInv, TypeOK, LockInv, LockTypeOK, lockVars, Conn, Owns, WriterGives, CloserGives
  <2>2. WriterInv(d)'
    BY DEF WriterInv, CloserInv
  <2>3. OwnerInv(d)'
    BY DEF OwnerInv, WriterInv, CloserInv
  <2>4. CloserInv(d)'
    BY DEF CloserInv, WriterInv, WStage
  <2>5. SessionInv(d)'
    BY LockAssumption DEF SessionInv, WriterInv, CloserInv
  <2> QED
    BY <2>2, <2>3, <2>4, <2>5
<1> QED
  BY <1>1, <1>2, <1>3 DEF MuxInv

\* Dialling, and shutdown up to the close of done, keep the invariant.
LEMMA ShutdownKeepsInv ==
    ASSUME MuxInv, NEW c \in Conn, DialContext(c) \/ forget(c) \/ closeDone(c)
    PROVE  MuxInv'
<1> USE DEF DialContext, forget, closeDone, CloserTo
<1>1. LockInv'
  BY LockNextInv DEF MuxInv, lockVars
<1>2. TypeOK'
  BY <1>1 DEF MuxInv, LockInv, TypeOK, WStage, KStage, Outcome, Conn, muxVars
<1>3. ASSUME NEW d \in Conn
      PROVE  (WriterInv(d) /\ OwnerInv(d) /\ CloserInv(d) /\ SessionInv(d))'
  <2>0. /\ WriterInv(c) /\ OwnerInv(c) /\ CloserInv(c) /\ SessionInv(c)
        /\ WriterInv(d) /\ OwnerInv(d) /\ CloserInv(d) /\ SessionInv(d)
    BY DEF MuxInv
  <2>1. Owns(c) /\ Owns(d) => c = d
    BY UniqueOwner DEF MuxInv
  <2> USE <2>0, <2>1 DEF MuxInv, TypeOK, LockInv, LockTypeOK, lockVars, Conn, Owns, WriterGives, CloserGives
  <2>2. WriterInv(d)'
    BY DEF WriterInv, CloserInv
  <2>3. OwnerInv(d)'
    BY DEF OwnerInv, WriterInv, CloserInv
  <2>4. CloserInv(d)'
    BY DEF CloserInv, WriterInv, WStage
  <2>5. SessionInv(d)'
    BY LockAssumption DEF SessionInv, WriterInv, CloserInv
  <2> QED
    BY <2>2, <2>3, <2>4, <2>5
<1> QED
  BY <1>1, <1>2, <1>3 DEF MuxInv

\* abandonHold's critical section keeps the invariant.
LEMMA AbandonKeepsInv ==
    ASSUME MuxInv, NEW c \in Conn, abandonHold(c)
    PROVE  MuxInv'
<1> USE DEF abandonHold, CloserTo
<1>1. LockInv'
  BY LockNextInv DEF MuxInv, lockVars
<1>2. TypeOK'
  BY <1>1 DEF MuxInv, LockInv, TypeOK, WStage, KStage, Outcome, Conn, muxVars
<1>3. ASSUME NEW d \in Conn
      PROVE  (WriterInv(d) /\ OwnerInv(d) /\ CloserInv(d) /\ SessionInv(d))'
  <2>0. /\ WriterInv(c) /\ OwnerInv(c) /\ CloserInv(c) /\ SessionInv(c)
        /\ WriterInv(d) /\ OwnerInv(d) /\ CloserInv(d) /\ SessionInv(d)
    BY DEF MuxInv
  <2>1. Owns(c) /\ Owns(d) => c = d
    BY UniqueOwner DEF MuxInv
  <2> USE <2>0, <2>1 DEF MuxInv, TypeOK, LockInv, LockTypeOK, lockVars, Conn, Owns, WriterGives, CloserGives
  <2>2. WriterInv(d)'
    BY DEF WriterInv, CloserInv
  <2>3. OwnerInv(d)'
    BY DEF OwnerInv, WriterInv, CloserInv
  <2>4. CloserInv(d)'
    BY DEF CloserInv, WriterInv, WStage
  <2>5. SessionInv(d)'
    BY LockAssumption DEF SessionInv, WriterInv, CloserInv
  <2> QED
    BY <2>2, <2>3, <2>4, <2>5
<1> QED
  BY <1>1, <1>2, <1>3 DEF MuxInv

\* The shutdown's rollback keeps the invariant.
LEMMA AbandonRollbackKeepsInv ==
    ASSUME MuxInv, NEW c \in Conn, abandonRollback(c) \/ abandonRollbackSettles(c)
    PROVE  MuxInv'
<1> USE DEF abandonRollback, abandonRollbackSettles, CloserTo
<1>1. LockInv'
  BY LockNextInv DEF MuxInv, lockVars
<1>2. TypeOK'
  BY <1>1 DEF MuxInv, LockInv, TypeOK, WStage, KStage, Outcome, Conn, muxVars
<1>3. ASSUME NEW d \in Conn
      PROVE  (WriterInv(d) /\ OwnerInv(d) /\ CloserInv(d) /\ SessionInv(d))'
  <2>0. /\ WriterInv(c) /\ OwnerInv(c) /\ CloserInv(c) /\ SessionInv(c)
        /\ WriterInv(d) /\ OwnerInv(d) /\ CloserInv(d) /\ SessionInv(d)
    BY DEF MuxInv
  <2>1. Owns(c) /\ Owns(d) => c = d
    BY UniqueOwner DEF MuxInv
  <2> USE <2>0, <2>1 DEF MuxInv, TypeOK, LockInv, LockTypeOK, lockVars, Conn, Owns, WriterGives, CloserGives
  <2>2. WriterInv(d)'
    BY DEF WriterInv, CloserInv
  <2>3. OwnerInv(d)'
    BY DEF OwnerInv, WriterInv, CloserInv
  <2>4. CloserInv(d)'
    BY DEF CloserInv, WriterInv, WStage
  <2>5. SessionInv(d)'
    BY LockAssumption DEF SessionInv, WriterInv, CloserInv
  <2> QED
    BY <2>2, <2>3, <2>4, <2>5
<1> QED
  BY <1>1, <1>2, <1>3 DEF MuxInv

\* The shutdown's release keeps the invariant.
LEMMA AbandonReleaseKeepsInv ==
    ASSUME MuxInv, NEW c \in Conn, abandonRelease(c)
    PROVE  MuxInv'
<1> USE DEF abandonRelease, CloserTo, Release
<1>1. LockInv'
  BY LockNextInv DEF MuxInv, LockNext, Acquire, Abandon, Conn
<1>2. TypeOK'
  BY <1>1 DEF MuxInv, LockInv, TypeOK, WStage, KStage, Outcome, Conn, muxVars
<1>3. ASSUME NEW d \in Conn
      PROVE  (WriterInv(d) /\ OwnerInv(d) /\ CloserInv(d) /\ SessionInv(d))'
  <2>0. /\ WriterInv(c) /\ OwnerInv(c) /\ CloserInv(c) /\ SessionInv(c)
        /\ WriterInv(d) /\ OwnerInv(d) /\ CloserInv(d) /\ SessionInv(d)
    BY DEF MuxInv
  <2>1. Owns(c) /\ Owns(d) => c = d
    BY UniqueOwner DEF MuxInv
  <2> USE <2>0, <2>1 DEF MuxInv, TypeOK, LockInv, LockTypeOK, lockVars, Conn, Owns, WriterGives, CloserGives
  <2>2. WriterInv(d)'
    BY DEF WriterInv, CloserInv
  <2>3. OwnerInv(d)'
    BY DEF OwnerInv, WriterInv, CloserInv
  <2>4. CloserInv(d)'
    BY DEF CloserInv, WriterInv, WStage
  <2>5. SessionInv(d)'
    BY LockAssumption DEF SessionInv, WriterInv, CloserInv
  <2> QED
    BY <2>2, <2>3, <2>4, <2>5
<1> QED
  BY <1>1, <1>2, <1>3 DEF MuxInv
-----------------------------------------------------------------------------
\* Every step of the multiplexer keeps the invariant.
LEMMA MuxNext == MuxInv /\ [Next]_vars => MuxInv'
<1> SUFFICES ASSUME MuxInv, [Next]_vars PROVE MuxInv'
  OBVIOUS
<1>1. ASSUME NEW c \in Conn, Writer(c) PROVE MuxInv'
  BY <1>1, StartAndShutKeepInv, BeginKeepsInv, WaitKeepsInv, RecordKeepsInv, HandBackKeepsInv,
     ExecKeepsInv, ExecEndsKeepsInv, EndKeepsInv, RollbackKeepsInv, ReleaseKeepsMuxInv
     DEF Writer
<1>2. ASSUME NEW c \in Conn, Closer(c) PROVE MuxInv'
  BY <1>2, ShutdownKeepsInv, AbandonKeepsInv, AbandonRollbackKeepsInv, AbandonReleaseKeepsInv
     DEF Closer
<1>3. ASSUME NEW c \in Conn, Settles(c) PROVE MuxInv'
  BY <1>3, ExecEndsKeepsInv, RollbackKeepsInv, AbandonRollbackKeepsInv DEF Settles
<1>4. ASSUME NEW c \in Conn, Client(c) PROVE MuxInv'
  BY <1>4, ShutdownKeepsInv, StartAndShutKeepInv DEF Client
<1>5. ASSUME UNCHANGED <<lockVars, connVars, session>>,
             muxClosed' \in BOOLEAN, collected' \in SUBSET Conn
      PROVE  MuxInv'
  <2>1. LockInv'
    BY <1>5, LockNextInv DEF MuxInv
  <2>2. TypeOK'
    BY <1>5, <2>1 DEF MuxInv, LockInv, TypeOK, connVars
  <2>3. \A d \in Conn : (WriterInv(d) /\ OwnerInv(d) /\ CloserInv(d) /\ SessionInv(d))'
    BY <1>5 DEF MuxInv, WriterInv, OwnerInv, CloserInv, SessionInv, WriterGives, CloserGives,
                lockVars, connVars
  <2> QED
    BY <2>1, <2>2, <2>3 DEF MuxInv
<1>6. CASE MuxClose
  BY <1>5, <1>6 DEF MuxClose, conns
<1>7. CASE UNCHANGED vars
  BY <1>5, <1>7 DEF MuxInv, TypeOK, vars, muxVars
<1> QED
  BY <1>1, <1>2, <1>3, <1>4, <1>6, <1>7 DEF Next, Stopped

\* The inductive invariant holds of every execution of the multiplexer.
THEOREM MuxInvariant == Spec => []MuxInv
<1>1. Init => MuxInv
  BY MuxInit
<1>2. MuxInv /\ [Next]_vars => MuxInv'
  BY MuxNext
<1> QED
  BY <1>1, <1>2, PTL DEF Spec

\* Type correctness of the multiplexer, hold.inFlight implying hold.held
\* included.
THEOREM MuxTypeOK == Spec => []TypeOK
<1>1. MuxInv => TypeOK
  BY DEF MuxInv
<1> QED
  BY <1>1, MuxInvariant, PTL

\* While the session is busy for a connection, that connection owns the lock.
LEMMA BusySessionIsOwned ==
    ASSUME MuxInv, NEW d \in Conn, session = d
    PROVE  /\ at[d] = "owner" /\ Owns(d) /\ held
           /\ d \in holding \/ wpc[d] = "rollback" \/ kpc[d] = "rollback"
<1>1. d \in holding \/ wpc[d] = "rollback" \/ kpc[d] = "rollback"
  BY DEF MuxInv, SessionInv
<1>2. at[d] = "owner"
  BY <1>1 DEF MuxInv, WriterInv, CloserInv, WriterGives, CloserGives
<1>3. Owns(d)
  BY <1>2 DEF Owns
<1>4. held
  BY <1>3 DEF MuxInv, LockInv, NeverLost, Conn
<1> QED
  BY <1>1, <1>2, <1>3, <1>4

\* A connection inside a round trip finds no transaction but its own.
LEMMA MuxIsolates == MuxInv => TransactionIsolation
<1> SUFFICES ASSUME MuxInv, NEW c \in Conn, wpc[c] = "call" PROVE session \in {None, c}
  BY DEF TransactionIsolation
<1>1. c \in holding /\ Owns(c)
  BY DEF MuxInv, TypeOK, WriterInv, Owns
<1>2. ASSUME NEW d \in Conn, session = d PROVE d = c
  BY <1>1, <1>2, BusySessionIsOwned, UniqueOwner DEF MuxInv
<1> QED
  BY <1>2 DEF MuxInv, TypeOK

\* No connection's statement runs inside another connection's transaction,
\* whatever closes, cancels or times out in between.
THEOREM MuxTransactionIsolation == Spec => []TransactionIsolation
BY MuxIsolates, MuxInvariant, PTL

\* The lock changes hands only over an idle session.
LEMMA MuxHandsOverClean == MuxInv => CleanHandover
<1> SUFFICES ASSUME MuxInv PROVE CleanHandover
  OBVIOUS
<1>1. ~held => session = None
  BY BusySessionIsOwned DEF MuxInv, TypeOK
<1>2. ASSUME NEW c \in Conn,
             c \in granted \/ (wpc[c] \in {"lock", "handback"} /\ Owns(c)),
             session # None
      PROVE  FALSE
  <2>1. Owns(c) /\ wpc[c] \in {"lock", "handback"}
    BY <1>2 DEF MuxInv, LockInv, ParkedOnce, WriterInv, Owns, Conn
  <2>2. PICK d \in Conn : session = d
    BY <1>2 DEF MuxInv, TypeOK
  <2>3. d = c
    BY <2>1, <2>2, BusySessionIsOwned, UniqueOwner DEF MuxInv
  <2> QED
    BY <2>1, <2>2, <2>3, BusySessionIsOwned
       DEF MuxInv, WriterInv, CloserInv, WriterGives, CloserGives
<1> QED
  BY <1>1, <1>2 DEF CleanHandover

\* Whoever is granted the backend finds the session idle.
THEOREM MuxCleanHandover == Spec => []CleanHandover
BY MuxHandsOverClean, MuxInvariant, PTL

\* A connection that is gone owns nothing and leaves no transaction.
LEMMA MuxGone == MuxInv => GoneOwnsNothing
<1> SUFFICES ASSUME MuxInv, NEW c \in Conn, kpc[c] = "closed", wpc[c] = "idle"
             PROVE  ~Owns(c) /\ session # c
  BY DEF GoneOwnsNothing
<1>1. c \notin granted /\ at[c] \notin {"handing", "queued", "leaving"}
  BY DEF MuxInv, LockInv, ParkedOnce, WriterInv, Conn
<1>2. c \notin holding
  BY DEF MuxInv, CloserInv, WriterInv, CloserGives
<1>3. at[c] # "owner"
  BY <1>2 DEF MuxInv, OwnerInv, WriterGives, CloserGives
<1>4. ~Owns(c)
  BY <1>1, <1>3 DEF Owns
<1> QED
  BY <1>4, BusySessionIsOwned

\* A connection that has gone away never takes the only backend with it.
THEOREM MuxGoneOwnsNothing == Spec => []GoneOwnsNothing
BY MuxGone, MuxInvariant, PTL

\* The writer and the shutdown never both give the backend back.
LEMMA MuxReleases == MuxInv => ReleasedOnce
BY DEF MuxInv, ReleasedOnce, WriterInv, CloserInv, WriterGives, CloserGives, Owns

\* release is called once per acquisition, by one of the two goroutines.
THEOREM MuxReleasedOnce == Spec => []ReleasedOnce
BY MuxReleases, MuxInvariant, PTL

\* Only exec and the two rollbacks touch the session, and each is a step of
\* the connection that owns it.
LEMMA MuxStepEndsOwn ==
    ASSUME MuxInv, Next, NEW c \in Conn, session = c, session' # c
    PROVE  wpc'[c] # wpc[c] \/ kpc'[c] # kpc[c]
<1>1. Owns(c)
  BY BusySessionIsOwned
<1>2. PICK d \in Conn : exec(d) \/ rollbackSession(d) \/ abandonRollback(d)
  BY DEF Next, Writer, Closer, Settles, Client, MuxClose, Stopped, vars,
         WriteStart, WriteShut, beginRoundTrip, WaitForBackend, recordHold, HandBack,
         execReplies, execFails, endRoundTrip, rollbackSettles, ReleaseBackend,
         DialContext, forget, closeDone, abandonHold, abandonRollbackSettles, abandonRelease
<1>3. Owns(d)
  BY <1>2 DEF MuxInv, TypeOK, WriterInv, CloserInv, WriterGives, CloserGives, Owns,
              exec, rollbackSession, abandonRollback
<1>4. d = c
  BY <1>1, <1>3, UniqueOwner DEF MuxInv
<1> QED
  BY <1>2, <1>4 DEF exec, rollbackSession, abandonRollback, WriterTo, CloserTo, MuxInv, TypeOK

\* A transaction is ended by the connection that opened it and by nobody else.
THEOREM MuxOnlyOwnerEnds == Spec => OnlyOwnerEndsTransaction
<1>1. MuxInv /\ [Next]_vars =>
        [\A c \in Conn : session = c /\ session' # c
           => wpc'[c] # wpc[c] \/ kpc'[c] # kpc[c]]_vars
  BY MuxStepEndsOwn
<1> QED
  BY <1>1, MuxInvariant, PTL DEF Spec, OnlyOwnerEndsTransaction

\* The multiplexer uses the lock as the lock's specification allows, so what
\* is proved of the lock holds inside it.
THEOREM MuxUsesLock == Spec => ImplementsQueueLock
<1>1. Init => LockInit
  BY DEF Init
<1>2. [Next]_vars => [LockNext]_lockVars
  <2> SUFFICES ASSUME [Next]_vars PROVE [LockNext]_lockVars
    OBVIOUS
  <2>1. ASSUME NEW c \in Conn, WaitForBackend(c) \/ HandBack(c) \/ ReleaseBackend(c) \/ abandonRelease(c)
        PROVE  LockNext
    BY <2>1 DEF WaitForBackend, HandBack, ReleaseBackend, abandonRelease, LockNext, Abandon, Conn
  <2>2. ASSUME NEW c \in Conn, Writer(c) \/ Closer(c) \/ Settles(c) \/ Client(c)
        PROVE  LockNext \/ UNCHANGED lockVars
    BY <2>1, <2>2 DEF Writer, Closer, Settles, Client,
         WriteStart, WriteShut, beginRoundTrip, recordHold, exec,
         execReplies, execFails, endRoundTrip, rollbackSession, rollbackSettles,
         DialContext, forget, closeDone, abandonHold, abandonRollback, abandonRollbackSettles
  <2> QED
    BY <2>2 DEF Next, MuxClose, Stopped, vars
<1> QED
  BY <1>1, <1>2, LockRefinesQueueLock, PTL DEF Spec, LockSpec
=============================================================================
