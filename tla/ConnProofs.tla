------------------------------ MODULE ConnProofs ------------------------------
(***************************************************************************)
(* Proofs about one connection's read side (ConnRead), for every set of    *)
(* frames and any number of deadlines, and about the routing of            *)
(* notifications (Routes), for every set of connections and channels and   *)
(* any number of notifications and of messages in a Write.                 *)
(***************************************************************************)
EXTENDS ConnRead, Routes, SequenceTheorems, TLAPS

\* The deadline's own variables: the channels that are closed are those made so
\* far, and a timer that has not closed yet is one the open channel waits for.
DeadlineInv ==
    /\ cancel \in Nat /\ shut \subseteq 0 .. cancel
    /\ setting \in When \cup {"none"}
    /\ timer \in {"none", "armed", "fired", "spent"}
    /\ passed \in BOOLEAN
    /\ timer \in {"armed", "fired"} => ~Expired
    /\ timer = "armed" => setting = "none"
    /\ timer = "fired" => passed
    /\ DeadlineExact

StreamTypeOK ==
    /\ queue \in Seq(Frame) /\ sent \in Seq(Frame)
    /\ rem \in Seq(Byte) /\ got \in Seq(Byte)

StreamInv ==
    /\ StreamTypeOK
    /\ StreamInOrder
    /\ atClose \in Nat /\ atClose <= Len(sent)

-----------------------------------------------------------------------------
(* The deadline.                                                           *)

\* The steps of set and of the timer.
LEMMA SetKeepsInv ==
    ASSUME DeadlineInv, (\E t \in When : SetStart(t)) \/ SetFinish
    PROVE  DeadlineInv'
<1>1. CASE \E t \in When : SetStart(t)
  BY <1>1 DEF DeadlineInv, DeadlineExact, SetStart, Expired, When
<1>2. CASE SetFinish
  <2>1. /\ setting' = "none" /\ timer # "fired" /\ passed' = (setting = "past")
        /\ UNCHANGED panicked
        /\ timer' = IF setting = "ahead" THEN "armed" ELSE "none"
    BY <1>2 DEF SetFinish
  <2>2. /\ cancel' \in Nat /\ shut' \subseteq 0 .. cancel'
        /\ Expired' <=> setting = "past"
    <3>1. CASE setting = "past"
      BY <1>2, <3>1 DEF DeadlineInv, SetFinish, Expired
    <3>2. CASE setting # "past" /\ Expired
      <4>1. /\ cancel' = cancel + 1 /\ shut' = shut /\ cancel' \notin shut
        BY <1>2, <3>2 DEF DeadlineInv, SetFinish
      <4> QED
        BY <3>2, <4>1 DEF DeadlineInv, Expired
    <3>3. CASE setting # "past" /\ ~Expired
      BY <1>2, <3>3 DEF DeadlineInv, SetFinish, Expired
    <3> QED
      BY <3>1, <3>2, <3>3
  <2> QED
    BY <1>2, <2>1, <2>2 DEF DeadlineInv, DeadlineExact
<1> QED
  BY <1>1, <1>2

LEMMA TimerKeepsInv ==
    ASSUME DeadlineInv, TimerFires \/ TimerCloses
    PROVE  DeadlineInv'
<1>1. CASE TimerFires
  <2>1. /\ timer = "armed" /\ timer' = "fired" /\ passed' = TRUE
        /\ UNCHANGED <<setting, cancel, shut, panicked>>
    BY <1>1 DEF TimerFires
  <2> QED
    BY <2>1 DEF DeadlineInv, DeadlineExact, Expired
<1>2. CASE TimerCloses
  <2>1. /\ timer = "fired" /\ timer' = "spent" /\ panicked' = (panicked \/ Expired)
        /\ shut' = shut \cup {cancel} /\ UNCHANGED <<setting, cancel, passed>>
    BY <1>2 DEF TimerCloses
  <2>2. cancel \in Nat /\ shut' \subseteq 0 .. cancel /\ Expired'
    BY <2>1 DEF DeadlineInv, Expired
  <2>3. ~panicked' /\ passed
    BY <2>1 DEF DeadlineInv, DeadlineExact
  <2> QED
    BY <2>1, <2>2, <2>3 DEF DeadlineInv, DeadlineExact
<1> QED
  BY <1>1, <1>2

LEMMA OthersKeepDeadline ==
    ASSUME DeadlineInv, UNCHANGED deadlineVars
    PROVE  DeadlineInv'
BY DEF deadlineVars, DeadlineInv, DeadlineExact, Expired

\* Everything but set and the timer leaves the deadline alone.
LEMMA StreamStepsLeaveDeadline ==
    ASSUME NEW f \in Frame,
           deliver(f) \/ Signal(f) \/ CloseDone \/ ReadStart \/ ReadStep
    PROVE  UNCHANGED deadlineVars
BY DEF deliver, Signal, CloseDone, ReadStart, ReadStep, ReadCheck, ReadNothing, ReadExpired,
   ReadSelect, ReadWoken, ReadSeesDone, ReadTimesOut, ReadDrain

LEMMA DeadlineNext == DeadlineInv /\ [ReadNext]_readVars => DeadlineInv'
<1> SUFFICES ASSUME DeadlineInv, [ReadNext]_readVars PROVE DeadlineInv'
  OBVIOUS
<1>1. CASE (\E t \in When : SetStart(t)) \/ SetFinish
  BY <1>1, SetKeepsInv
<1>2. CASE TimerFires \/ TimerCloses
  BY <1>2, TimerKeepsInv
<1>3. CASE CloseDone \/ ReadStart \/ ReadStep
  <2>1. UNCHANGED deadlineVars
    BY <1>3 DEF CloseDone, ReadStart, ReadStep, ReadCheck, ReadNothing, ReadExpired,
       ReadSelect, ReadWoken, ReadSeesDone, ReadTimesOut, ReadDrain
  <2> QED
    BY <2>1, OthersKeepDeadline
<1>4. CASE \E f \in Frame : deliver(f) \/ Signal(f)
  <2>1. UNCHANGED deadlineVars
    BY <1>4 DEF deliver, Signal
  <2> QED
    BY <2>1, OthersKeepDeadline
<1>5. CASE UNCHANGED readVars
  BY <1>5, OthersKeepDeadline DEF readVars
<1> QED
  BY <1>1, <1>2, <1>3, <1>4, <1>5 DEF ReadNext

LEMMA DeadlineInit == ReadInit => DeadlineInv
<1> SUFFICES ASSUME ReadInit PROVE DeadlineInv
  OBVIOUS
<1>1. /\ setting = "none" /\ cancel = 0 /\ shut = {} /\ timer = "none"
      /\ passed = FALSE /\ panicked = FALSE
  BY DEF ReadInit
<1> QED
  BY <1>1 DEF DeadlineInv, DeadlineExact, Expired

\* Whatever set, the timer and Close do to each other, the channel a Read waits
\* on is closed when its deadline has passed, and once.
THEOREM DeadlineIsExact == ReadSpec => []DeadlineExact
<1>1. DeadlineInv => DeadlineExact
  BY DEF DeadlineInv
<1> QED
  BY <1>1, DeadlineInit, DeadlineNext, PTL DEF ReadSpec

-----------------------------------------------------------------------------
(* The bytes of frames.                                                    *)

LEMMA BytesType == \A f \in Frame : Bytes(f) \in Seq(Byte) /\ Len(Bytes(f)) = 2
BY DEF Bytes, Byte

LEMMA FlatType ==
    ASSUME NEW fs \in Seq(Frame)
    PROVE  Flat(fs) \in Seq(Byte) /\ Len(Flat(fs)) = 2 * Len(fs)
<1>1. ASSUME NEW i \in 1 .. 2 * Len(fs)
      PROVE  (i + 1) \div 2 \in 1 .. Len(fs) /\ 2 - (i % 2) \in {1, 2}
  BY <1>1
<1>2. ASSUME NEW i \in 1 .. 2 * Len(fs)
      PROVE  Bytes(fs[(i + 1) \div 2])[2 - (i % 2)] \in Byte
  BY <1>1, <1>2 DEF Bytes, Byte
<1>3. 2 * Len(fs) \in Nat
  OBVIOUS
<1>4. Flat(fs) \in [1 .. 2 * Len(fs) -> Byte]
  BY <1>2 DEF Flat
<1>5. Flat(fs) \in Seq(Byte)
  BY <1>3, <1>4, SeqDef, Zenon
<1>6. Len(Flat(fs)) \in Nat /\ 1 .. Len(Flat(fs)) = 1 .. 2 * Len(fs)
  BY <1>4, <1>5, LenProperties
<1> QED
  BY <1>3, <1>5, <1>6

\* A position is the first or the second byte of a frame.
LEMMA PlaceOf ==
    ASSUME NEW n \in Nat, NEW i \in 1 .. 2 * n
    PROVE  \E k \in 1..n, b \in {1, 2} : i = 2 * k + b - 2
<1>1. CASE i % 2 = 0
  <2>1. i \div 2 \in 1..n /\ i = 2 * (i \div 2) + 2 - 2
    BY <1>1
  <2> QED
    BY <2>1
<1>2. CASE i % 2 = 1
  <2>1. (i + 1) \div 2 \in 1..n /\ i = 2 * ((i + 1) \div 2) + 1 - 2
    BY <1>2
  <2> QED
    BY <2>1
<1> QED
  BY <1>1, <1>2

LEMMA FlatAt ==
    ASSUME NEW fs \in Seq(Frame), NEW k \in 1 .. Len(fs), NEW b \in {1, 2}
    PROVE  Flat(fs)[2 * k + b - 2] = Bytes(fs[k])[b]
<1> DEFINE i == 2 * k + b - 2
<1>1. i \in 1 .. 2 * Len(fs) /\ (i + 1) \div 2 = k /\ 2 - (i % 2) = b
  <2>1. CASE b = 1
    BY <2>1
  <2>2. CASE b = 2
    BY <2>2
  <2> QED
    BY <2>1, <2>2
<1> HIDE DEF i
<1>2. Flat(fs)[i] = Bytes(fs[(i + 1) \div 2])[2 - (i % 2)]
  BY <1>1 DEF Flat
<1>3. Flat(fs)[i] = Bytes(fs[k])[b]
  BY <1>1, <1>2, Zenon
<1> QED
  BY <1>3 DEF i

\* What equals two sequences put one after the other.
LEMMA IsConcat ==
    ASSUME NEW r \in Seq(Byte), NEW s \in Seq(Byte), NEW t \in Seq(Byte),
           Len(r) = Len(s) + Len(t),
           \A i \in 1 .. Len(s) : r[i] = s[i],
           \A i \in 1 .. Len(t) : r[Len(s) + i] = t[i]
    PROVE  r = s \o t
<1>1. /\ s \o t \in Seq(Byte) /\ Len(s \o t) = Len(s) + Len(t)
      /\ \A i \in 1 .. Len(s) + Len(t) : (s \o t)[i] = IF i <= Len(s) THEN s[i] ELSE t[i - Len(s)]
  BY ConcatProperties, Zenon
<1>2. Len(s) \in Nat /\ Len(t) \in Nat
  OBVIOUS
<1> DEFINE c == s \o t
<1> HIDE DEF c
<1>3. ASSUME NEW i \in 1 .. Len(r) PROVE r[i] = c[i]
  <2>1. CASE i <= Len(s)
    BY <1>1, <1>2, <2>1 DEF c
  <2>2. CASE ~(i <= Len(s))
    <3>1. i - Len(s) \in 1 .. Len(t) /\ Len(s) + (i - Len(s)) = i
      BY <1>2, <2>2
    <3>2. c[i] = t[i - Len(s)]
      BY <1>1, <2>2 DEF c
    <3> QED
      BY <3>1, <3>2
  <2> QED
    BY <2>1, <2>2
<1>4. c \in Seq(Byte) /\ Len(c) = Len(r)
  BY <1>1 DEF c
<1>5. r = c
  BY <1>3, <1>4, SeqEqual
<1> QED
  BY <1>5 DEF c

\* One more frame at the end ...
LEMMA FlatAppend ==
    ASSUME NEW fs \in Seq(Frame), NEW f \in Frame
    PROVE  Flat(Append(fs, f)) = Flat(fs) \o Bytes(f)
<1> DEFINE n == Len(fs)
           a == Append(fs, f)
           r == Flat(a)
           s == Flat(fs)
           t == Bytes(f)
<1>1. /\ a \in Seq(Frame) /\ n \in Nat /\ Len(a) = n + 1 /\ a[n + 1] = f
      /\ \A i \in 1..n : a[i] = fs[i]
  OBVIOUS
<1>2. r \in Seq(Byte) /\ Len(r) = 2 * n + 2
  <2>1. r \in Seq(Byte) /\ Len(r) = 2 * Len(a)
    BY <1>1, FlatType
  <2> QED
    BY <1>1, <2>1
<1>3. s \in Seq(Byte) /\ Len(s) = 2 * n
  BY FlatType
<1>4. t \in Seq(Byte) /\ Len(t) = 2
  BY BytesType
<1>5. ASSUME NEW i \in 1 .. 2 * n
      PROVE  r[i] = s[i]
  <2>1. PICK k \in 1..n, b \in {1, 2} : i = 2 * k + b - 2
    BY <1>1, PlaceOf
  <2>2. k \in 1 .. Len(a) /\ a[k] = fs[k]
    BY <1>1
  <2>3. r[2 * k + b - 2] = Bytes(a[k])[b]
    BY <1>1, <2>2, FlatAt
  <2>4. s[2 * k + b - 2] = Bytes(fs[k])[b]
    BY FlatAt
  <2> HIDE DEF r, s, a
  <2> QED
    BY <2>1, <2>2, <2>3, <2>4
<1>6. ASSUME NEW b \in {1, 2}
      PROVE  r[2 * n + b] = t[b]
  <2>1. n + 1 \in 1 .. Len(a)
    BY <1>1
  <2>2. r[2 * (n + 1) + b - 2] = Bytes(a[n + 1])[b]
    BY <1>1, <2>1, FlatAt
  <2>3. 2 * (n + 1) + b - 2 = 2 * n + b
    BY <1>1
  <2> HIDE DEF r, a, n
  <2> QED
    BY <1>1, <2>2, <2>3
<1> HIDE DEF n, r, s, t
<1>7. /\ Len(r) = Len(s) + Len(t)
      /\ \A i \in 1 .. Len(s) : r[i] = s[i]
      /\ \A i \in 1 .. Len(t) : r[Len(s) + i] = t[i]
  <2>1. 2 * n \in Nat
    BY <1>1
  <2> QED
    BY <1>2, <1>3, <1>4, <1>5, <1>6, <2>1
<1>8. r = s \o t
  BY <1>2, <1>3, <1>4, <1>7, IsConcat
<1> QED
  BY <1>8 DEF r, s, t

\* ... and one at the front.
LEMMA FlatHead ==
    ASSUME NEW fs \in Seq(Frame), fs # <<>>
    PROVE  Flat(fs) = Bytes(Head(fs)) \o Flat(Tail(fs))
<1> DEFINE n == Len(fs)
           u == Tail(fs)
           r == Flat(fs)
           s == Bytes(Head(fs))
           t == Flat(u)
<1>1. /\ u \in Seq(Frame) /\ n \in Nat \ {0} /\ Len(u) = n - 1
      /\ Head(fs) = fs[1] /\ Head(fs) \in Frame
      /\ \A i \in 1 .. n - 1 : u[i] = fs[i + 1]
  OBVIOUS
<1>2. r \in Seq(Byte) /\ Len(r) = 2 * n
  BY FlatType
<1>3. s \in Seq(Byte) /\ Len(s) = 2
  BY <1>1, BytesType
<1>4. t \in Seq(Byte) /\ Len(t) = 2 * n - 2
  <2>1. t \in Seq(Byte) /\ Len(t) = 2 * Len(u)
    BY <1>1, FlatType
  <2> QED
    BY <1>1, <2>1
<1>5. ASSUME NEW b \in {1, 2}
      PROVE  r[b] = s[b]
  <2>1. 1 \in 1 .. Len(fs)
    BY <1>1
  <2>2. r[2 * 1 + b - 2] = Bytes(fs[1])[b]
    BY <2>1, FlatAt
  <2>3. 2 * 1 + b - 2 = b
    OBVIOUS
  <2> HIDE DEF r
  <2> QED
    BY <1>1, <2>2, <2>3
<1>6. ASSUME NEW i \in 1 .. 2 * n - 2
      PROVE  r[2 + i] = t[i]
  <2>1. n - 1 \in Nat /\ i \in 1 .. 2 * (n - 1)
    BY <1>1
  <2>2. PICK k \in 1 .. n - 1, b \in {1, 2} : i = 2 * k + b - 2
    BY <2>1, PlaceOf
  <2>3. k \in 1 .. Len(u) /\ k + 1 \in 1 .. Len(fs) /\ u[k] = fs[k + 1]
    BY <1>1
  <2>4. t[2 * k + b - 2] = Bytes(u[k])[b]
    BY <1>1, <2>3, FlatAt
  <2>5. r[2 * (k + 1) + b - 2] = Bytes(fs[k + 1])[b]
    BY <2>3, FlatAt
  <2>6. 2 * (k + 1) + b - 2 = 2 + i
    BY <2>2
  <2> HIDE DEF r, t, u, n
  <2> QED
    BY <2>2, <2>3, <2>4, <2>5, <2>6
<1> HIDE DEF n, r, s, t
<1>7. /\ Len(r) = Len(s) + Len(t)
      /\ \A i \in 1 .. Len(s) : r[i] = s[i]
      /\ \A i \in 1 .. Len(t) : r[Len(s) + i] = t[i]
  <2>1. 2 * n - 2 \in Nat
    BY <1>1
  <2> QED
    BY <1>2, <1>3, <1>4, <1>5, <1>6, <2>1
<1>8. r = s \o t
  BY <1>2, <1>3, <1>4, <1>7, IsConcat
<1> QED
  BY <1>8 DEF r, s, t, u

-----------------------------------------------------------------------------
(* The stream.                                                             *)

LEMMA Associates ==
    ASSUME NEW s \in Seq(Byte), NEW t \in Seq(Byte), NEW u \in Seq(Byte)
    PROVE  (s \o t) \o u = s \o (t \o u)
BY ConcatAssociative

\* A delivered frame.
LEMMA DeliverKeepsStream ==
    ASSUME StreamInv, NEW f \in Frame, deliver(f)
    PROVE  StreamInv'
<1>1. /\ queue' = Append(queue, f) /\ sent' = Append(sent, f)
      /\ UNCHANGED <<rem, got, atClose>>
  BY DEF deliver
<1>2. StreamTypeOK /\ StreamTypeOK'
  BY <1>1 DEF StreamInv, StreamTypeOK
<1>3. /\ Flat(queue) \in Seq(Byte) /\ Bytes(f) \in Seq(Byte)
      /\ Flat(queue') = Flat(queue) \o Bytes(f)
      /\ Flat(sent') = Flat(sent) \o Bytes(f)
  BY <1>1, <1>2, FlatType, BytesType, FlatAppend DEF StreamTypeOK
<1>4. got \in Seq(Byte) /\ rem \in Seq(Byte) /\ got \o rem \in Seq(Byte)
  BY <1>2 DEF StreamTypeOK
<1>5. (got \o rem) \o (Flat(queue) \o Bytes(f)) = ((got \o rem) \o Flat(queue)) \o Bytes(f)
  BY <1>3, <1>4, Associates
<1>6. StreamInOrder'
  BY <1>1, <1>3, <1>5 DEF StreamInOrder, StreamInv
<1>7. atClose' \in Nat /\ atClose' <= Len(sent')
  BY <1>1, <1>2 DEF StreamInv, StreamTypeOK
<1> QED
  BY <1>2, <1>6, <1>7 DEF StreamInv

\* What Read returns, and what it leaves of the frame.
LEMMA ReadKeepsStream ==
    ASSUME StreamInv, ReadCheck
    PROVE  StreamInv'
<1> DEFINE next == rem = <<>> /\ queue # <<>>
           b == IF next THEN Bytes(Head(queue)) ELSE rem
           rest == IF rem = <<>> THEN Tail(queue) ELSE queue
<1>1. PICK n \in 1 .. Len(b) : got' = got \o SubSeq(b, 1, n) /\ rem' = SubSeq(b, n + 1, Len(b))
  BY DEF ReadCheck
<1>2. b # <<>> /\ queue' = rest /\ UNCHANGED <<sent, atClose>>
  BY DEF ReadCheck
<1>3. StreamTypeOK
  BY DEF StreamInv
<1>4. b \in Seq(Byte)
  <2>1. CASE next
    <3>1. Head(queue) \in Frame
      BY <1>3, <2>1 DEF StreamTypeOK
    <3> QED
      BY <2>1, <3>1, BytesType
  <2>2. CASE ~next
    BY <1>3, <2>2 DEF StreamTypeOK
  <2> QED
    BY <2>1, <2>2
<1>5. rest \in Seq(Frame) /\ b \o Flat(rest) = rem \o Flat(queue)
  <2>1. CASE next
    <3>1. /\ Flat(queue) = Bytes(Head(queue)) \o Flat(Tail(queue))
          /\ Flat(queue) \in Seq(Byte) /\ Tail(queue) \in Seq(Frame)
      BY <1>3, <2>1, FlatHead, FlatType DEF StreamTypeOK
    <3>2. rem \o Flat(queue) = Flat(queue)
      BY <2>1, <3>1, ConcatEmptySeq
    <3> QED
      BY <2>1, <3>1, <3>2
  <2>2. CASE ~next
    <3>1. rem # <<>>
      BY <1>2, <2>2
    <3> QED
      BY <1>3, <2>2, <3>1 DEF StreamTypeOK
  <2> QED
    BY <2>1, <2>2
<1> HIDE DEF b, rest
<1>6. /\ SubSeq(b, 1, n) \in Seq(Byte) /\ SubSeq(b, n + 1, Len(b)) \in Seq(Byte)
      /\ SubSeq(b, 1, n) \o SubSeq(b, n + 1, Len(b)) = b
  <2>1. Len(b) \in Nat /\ n \in 1 .. Len(b)
    BY <1>4
  <2>2. SubSeq(b, 1, n) \o SubSeq(b, n + 1, Len(b)) = SubSeq(b, 1, Len(b))
    <3>1. 1 \in 1 .. Len(b) + 1 /\ n \in 1 - 1 .. Len(b) /\ Len(b) \in n .. Len(b)
      BY <2>1
    <3> QED
      BY <1>4, <3>1, ConcatAdjacentSubSeq
  <2>3. SubSeq(b, 1, Len(b)) = b
    BY <1>4, SubSeqFull
  <2>4. SubSeq(b, 1, n) \in Seq(Byte)
    BY <1>4, <2>1
  <2>5. SubSeq(b, n + 1, Len(b)) \in Seq(Byte)
    BY <1>4, <2>1
  <2> QED
    BY <2>2, <2>3, <2>4, <2>5
<1> DEFINE s1 == SubSeq(b, 1, n)
           s2 == SubSeq(b, n + 1, Len(b))
<1>7. s1 \in Seq(Byte) /\ s2 \in Seq(Byte) /\ s1 \o s2 = b /\ got' = got \o s1 /\ rem' = s2
  BY <1>1, <1>6
<1> HIDE DEF s1, s2
<1>8. got \in Seq(Byte) /\ rem \in Seq(Byte) /\ Flat(rest) \in Seq(Byte) /\ Flat(queue) \in Seq(Byte)
  BY <1>3, <1>5, FlatType DEF StreamTypeOK
<1>9. StreamTypeOK'
  <2>1. got' \in Seq(Byte) /\ rem' \in Seq(Byte)
    BY <1>7, <1>8
  <2> QED
    BY <1>2, <1>3, <1>5, <2>1 DEF StreamTypeOK
<1>10. StreamInOrder'
  <2>1. got' \o rem' = got \o b
    BY <1>7, <1>8, Associates
  <2>2. (got \o b) \o Flat(rest) = got \o (b \o Flat(rest))
    BY <1>4, <1>8, Associates
  <2>3. got \o (rem \o Flat(queue)) = (got \o rem) \o Flat(queue)
    BY <1>8, Associates
  <2>4. (got \o rem) \o Flat(queue) = Flat(sent)
    BY DEF StreamInv, StreamInOrder
  <2>5. (got' \o rem') \o Flat(queue') = Flat(sent')
    BY <1>2, <1>5, <2>1, <2>2, <2>3, <2>4
  <2> QED
    BY <2>5 DEF StreamInOrder
<1> QED
  BY <1>2, <1>9, <1>10 DEF StreamInv

LEMMA StreamNext == StreamInv /\ [ReadNext]_readVars => StreamInv'
<1> SUFFICES ASSUME StreamInv, [ReadNext]_readVars PROVE StreamInv'
  OBVIOUS
<1>1. ASSUME UNCHANGED <<queue, sent, rem, got>>, atClose' \in {atClose, Len(sent)}
      PROVE  StreamInv'
  BY <1>1 DEF StreamInv, StreamTypeOK, StreamInOrder
<1>2. CASE \E f \in Frame : deliver(f)
  BY <1>2, DeliverKeepsStream
<1>3. CASE ReadCheck
  BY <1>3, ReadKeepsStream
<1>4. CASE CloseDone
  BY <1>1, <1>4 DEF CloseDone, streamVars
<1>5. CASE \/ \E f \in Frame : Signal(f)
           \/ ReadStart \/ ReadNothing \/ ReadExpired \/ ReadSelect \/ ReadWoken
           \/ ReadSeesDone \/ ReadTimesOut \/ ReadDrain
  BY <1>1, <1>5 DEF Signal, ReadStart, ReadNothing, ReadExpired, ReadSelect, ReadWoken,
     ReadSeesDone, ReadTimesOut, ReadDrain, streamVars
<1>6. CASE (\E t \in When : SetStart(t)) \/ SetFinish \/ TimerFires \/ TimerCloses
  BY <1>1, <1>6 DEF SetStart, SetFinish, TimerFires, TimerCloses, streamVars
<1>7. CASE UNCHANGED readVars
  BY <1>1, <1>7 DEF readVars, streamVars
<1> QED
  BY <1>2, <1>3, <1>4, <1>5, <1>6, <1>7 DEF ReadNext, ReadStep

LEMMA StreamInit == ReadInit => StreamInv
<1> SUFFICES ASSUME ReadInit PROVE StreamInv
  OBVIOUS
<1>1. queue = <<>> /\ rem = <<>> /\ sent = <<>> /\ got = <<>> /\ atClose = 0
  BY DEF ReadInit
<1>2. StreamTypeOK
  BY <1>1 DEF StreamTypeOK
<1>3. Flat(<<>>) \in Seq(Byte)
  BY FlatType, EmptySeq
<1>4. <<>> \in Seq(Byte)
  OBVIOUS
<1>5. (<<>> \o <<>>) \o Flat(<<>>) = Flat(<<>>)
  BY <1>3, <1>4, ConcatEmptySeq
<1>6. StreamInOrder
  BY <1>1, <1>5 DEF StreamInOrder
<1> QED
  BY <1>1, <1>2, <1>6 DEF StreamInv

\* Whatever the reader's buffers, the bytes it got, has left over and has
\* waiting are those of the delivered frames, in order.
THEOREM StreamIsInOrder == ReadSpec => []StreamInOrder
<1>1. StreamInv => StreamInOrder
  BY DEF StreamInv
<1> QED
  BY <1>1, StreamInit, StreamNext, PTL DEF ReadSpec

\* A Read that reports the close has found nothing left over and nothing waiting.
LEMMA ClosedMeansDrained ==
    StreamInv /\ [ReadNext]_readVars =>
      [(result' = "closed" /\ result # "closed") => Len(got) >= 2 * atClose]_readVars
<1> SUFFICES ASSUME StreamInv, ReadNext, result' = "closed", result # "closed"
             PROVE  Len(got) >= 2 * atClose
  BY DEF readVars
<1>1. ReadDrain
  BY DEF ReadNext, ReadStep, deliver, Signal, CloseDone, ReadStart, ReadCheck, ReadNothing,
     ReadExpired, ReadSelect, ReadWoken, ReadSeesDone, ReadTimesOut, ReadReturns, ReadGoes,
     SetStart, SetFinish, TimerFires, TimerCloses, readerVars
<1>2. rem = <<>> /\ queue = <<>>
  BY <1>1 DEF ReadDrain, ReadGoes
<1>3. got \in Seq(Byte) /\ sent \in Seq(Frame)
  BY DEF StreamInv, StreamTypeOK
<1>4. Flat(<<>>) = <<>>
  <2>1. Flat(<<>>) \in Seq(Byte) /\ Len(Flat(<<>>)) = 0
    <3>1. <<>> \in Seq(Frame) /\ Len(<<>>) = 0
      OBVIOUS
    <3>2. Flat(<<>>) \in Seq(Byte) /\ Len(Flat(<<>>)) = 2 * Len(<<>>)
      BY <3>1, FlatType, Zenon
    <3> QED
      BY <3>1, <3>2
  <2> QED
    BY <2>1, EmptySeq
<1>5. got = Flat(sent)
  BY <1>2, <1>3, <1>4, ConcatEmptySeq DEF StreamInv, StreamInOrder
<1>6. Len(got) = 2 * Len(sent)
  BY <1>3, <1>5, FlatType
<1> QED
  BY <1>3, <1>6 DEF StreamInv

\* "Drain whatever landed before the close, then report it."
THEOREM CloseIsAfterDrain == ReadSpec => CloseAfterDrain
<1>1. ReadSpec => []StreamInv
  BY StreamInit, StreamNext, PTL DEF ReadSpec
<1> QED
  BY <1>1, ClosedMeansDrained, PTL DEF ReadSpec, CloseAfterDrain

-----------------------------------------------------------------------------
(* Routes.                                                                 *)

\* Where a connection is heading once its Write has run is in the table: this
\* is what makes ListenerStaysRouted survive the end of a batch.
HeadingRouted ==
    \A c \in Conn : (life[c] = "open" /\ c \notin refused)
        => \A ch \in AfterBatch(batch[c], wants[c]) : <<c, ch>> \in routes

RoutesInv ==
    /\ RoutesTypeOK
    /\ HeadingRouted
    /\ NoNotificationLost

-----------------------------------------------------------------------------
(* What AfterBatch says of batches.                                        *)

\* The empty batch changes nothing.
LEMMA AfterNothing ==
    ASSUME NEW S \in SUBSET Channel
    PROVE  AfterBatch(<<>>, S) = S
BY DEF AfterBatch

\* What one operation leaves of a channel does not depend on the others.
LEMMA AfterIsPointwise ==
    ASSUME NEW op \in Op, NEW S \in SUBSET Channel, NEW ch \in Channel
    PROVE  ch \in After(op, S) <=>
             \/ op = [kind |-> "listen", channel |-> ch]
             \/ ch \in S /\ ch \in After(op, {ch})
BY DEF After, Op

\* One more operation at the end of a batch acts on what the batch leaves.
LEMMA AfterAppend ==
    ASSUME NEW b \in Seq(Op), NEW op \in Op, NEW S \in SUBSET Channel
    PROVE  AfterBatch(Append(b, op), S) = After(op, AfterBatch(b, S))
<1> DEFINE n == Len(b) + 1
           a == Append(b, op)
           Fate(ch, i, q) == /\ IF i = 0 THEN ch \in S
                                ELSE q[i] = [kind |-> "listen", channel |-> ch]
                             /\ \A j \in i + 1..Len(q) : ch \in After(q[j], {ch})
<1>1. /\ Len(b) \in Nat /\ Len(a) = n /\ a[n] = op
      /\ \A i \in 1..Len(b) : a[i] = b[i]
  OBVIOUS
<1>2. ASSUME NEW ch \in Channel
      PROVE  ch \in AfterBatch(a, S) <=> ch \in After(op, AfterBatch(b, S))
  <2>1. ASSUME NEW i \in 0..Len(b)
        PROVE  Fate(ch, i, a) <=> Fate(ch, i, b) /\ ch \in After(op, {ch})
    <3>1. (\A j \in i + 1..Len(a) : ch \in After(a[j], {ch}))
            <=> (\A j \in i + 1..Len(b) : ch \in After(a[j], {ch})) /\ ch \in After(a[n], {ch})
      <4>1. i + 1..n = (i + 1..Len(b)) \cup {n}
        BY <1>1
      <4> QED
        BY <1>1, <4>1
    <3>2. (\A j \in i + 1..Len(b) : ch \in After(a[j], {ch}))
            <=> \A j \in i + 1..Len(b) : ch \in After(b[j], {ch})
      <4>1. \A j \in i + 1..Len(b) : a[j] = b[j]
        BY <1>1
      <4> QED
        BY <4>1
    <3>3. i # 0 => a[i] = b[i]
      BY <1>1
    <3> QED
      BY <1>1, <3>1, <3>2, <3>3
  <2>2. Fate(ch, n, a) <=> op = [kind |-> "listen", channel |-> ch]
    BY <1>1
  <2>3. ch \in AfterBatch(a, S) <=> \E i \in 0..n : Fate(ch, i, a)
    BY <1>1 DEF AfterBatch
  <2>4. (\E i \in 0..n : Fate(ch, i, a))
           <=> (\E i \in 0..Len(b) : Fate(ch, i, a)) \/ Fate(ch, n, a)
    <3>1. 0..n = (0..Len(b)) \cup {n}
      BY <1>1
    <3> HIDE DEF Last, n, a
    <3> QED
      BY <3>1
  <2>5. ch \in AfterBatch(b, S) <=> \E i \in 0..Len(b) : Fate(ch, i, b)
    BY DEF AfterBatch
  <2>6. AfterBatch(b, S) \in SUBSET Channel
    BY DEF AfterBatch
  <2> QED
    <3> HIDE DEF Last
    <3> QED BY <2>1, <2>2, <2>3, <2>4, <2>5, <2>6, AfterIsPointwise
<1> QED
  <2>1. AfterBatch(a, S) \subseteq Channel
    BY DEF AfterBatch
  <2>2. After(op, AfterBatch(b, S)) \subseteq Channel
    BY DEF AfterBatch, After, Op
  <2> QED
    BY <1>2, <2>1, <2>2

\* What a connection listens to and does not ask to leave is where it is heading.
LEMMA StayingIsHeading ==
    ASSUME NEW c \in Conn, RoutesTypeOK
    PROVE  (wants[c] \ Leaving(c)) \subseteq AfterBatch(batch[c], wants[c])
<1> SUFFICES ASSUME NEW ch \in wants[c], ch \notin Leaving(c)
             PROVE  ch \in AfterBatch(batch[c], wants[c])
  OBVIOUS
<1>1. batch[c] \in Seq(Op) /\ ch \in Channel
  BY DEF RoutesTypeOK
<1>2. \A j \in DOMAIN batch[c] : ch \in After(batch[c][j], {ch})
  BY <1>1 DEF Leaving
<1>3. \A j \in 0 + 1..Len(batch[c]) : ch \in After(batch[c][j], {ch})
  <2>1. \A j \in 0 + 1..Len(batch[c]) : j \in DOMAIN batch[c]
    BY <1>1
  <2> QED
    BY <1>2, <2>1
<1>4. 0 \in 0..Len(batch[c])
  BY <1>1
<1>5. IF 0 = 0 THEN ch \in wants[c]
      ELSE batch[c][0] = [kind |-> "listen", channel |-> ch]
  OBVIOUS
<1> QED
  BY <1>1, <1>3, <1>4, <1>5, Zenon DEF AfterBatch

-----------------------------------------------------------------------------
(* The invariant.                                                          *)

LEMMA RoutesInitInv == RoutesInit => RoutesInv
<1> SUFFICES ASSUME RoutesInit PROVE RoutesInv
  OBVIOUS
<1>1. RoutesTypeOK
  BY DEF RoutesInit, RoutesTypeOK
<1>2. HeadingRouted
  BY AfterNothing DEF RoutesInit, HeadingRouted
<1>3. NoNotificationLost
  BY DEF RoutesInit, NoNotificationLost
<1> QED
  BY <1>1, <1>2, <1>3 DEF RoutesInv

\* Observing a message moves the table and the heading together.
LEMMA ObserveKeepsInv ==
    ASSUME RoutesInv, NEW c \in Conn, NEW m \in Message, NEW op \in Op, Observe(c, m, op)
    PROVE  RoutesInv'
<1> USE DEF RoutesInv, Observe, noteVars
<1>1. RoutesTypeOK'
  <2>1. apply(c, op) \subseteq Conn \X Channel
    BY DEF RoutesTypeOK, apply, Op
  <2> QED
    BY <2>1 DEF RoutesTypeOK
<1>2. HeadingRouted'
  <2> SUFFICES ASSUME NEW d \in Conn, life[d] = "open", d \notin refused,
                      NEW ch \in AfterBatch(batch'[d], wants[d])
               PROVE  <<d, ch>> \in routes'
    BY DEF HeadingRouted
  <2>0. batch[d] \in Seq(Op) /\ wants[d] \in SUBSET Channel
    BY DEF RoutesTypeOK
  <2>1. CASE d = c
    <3>1. ch \in After(op, AfterBatch(batch[c], wants[c]))
      BY <2>0, <2>1, AfterAppend DEF RoutesTypeOK
    <3>2. ch \in AfterBatch(batch[c], wants[c]) => <<c, ch>> \in routes
      BY <2>1 DEF HeadingRouted
    <3> QED
      BY <2>1, <3>1, <3>2 DEF After, apply, Op
  <2>2. CASE d # c
    <3>1. <<d, ch>> \in routes
      BY <2>2 DEF HeadingRouted, RoutesTypeOK
    <3> QED
      BY <2>2, <3>1 DEF apply, Op
  <2> QED
    BY <2>1, <2>2
<1>3. NoNotificationLost'
  BY DEF NoNotificationLost
<1> QED
  BY <1>1, <1>2, <1>3

\* A batch that runs ends where it was heading.
LEMMA ExecOKKeepsInv ==
    ASSUME RoutesInv, NEW c \in Conn, ExecOK(c)
    PROVE  RoutesInv'
<1> USE DEF RoutesInv, ExecOK, noteVars
<1>0. /\ AfterBatch(batch[c], wants[c]) \in SUBSET Channel
      /\ AfterBatch(batch[c], backendListens) \in SUBSET Channel
  BY DEF AfterBatch
<1>1. RoutesTypeOK'
  BY <1>0 DEF RoutesTypeOK
<1>2. HeadingRouted'
  <2> SUFFICES ASSUME NEW d \in Conn, life[d] = "open", d \notin refused,
                      NEW ch \in AfterBatch(batch'[d], wants'[d])
               PROVE  <<d, ch>> \in routes
    BY DEF HeadingRouted
  <2>1. CASE d = c
    <3>1. ch \in AfterBatch(batch[c], wants[c])
      BY <1>0, <2>1, AfterNothing DEF RoutesTypeOK
    <3> QED
      BY <2>1, <3>1 DEF HeadingRouted
  <2>2. CASE d # c
    BY <2>2 DEF HeadingRouted, RoutesTypeOK
  <2> QED
    BY <2>1, <2>2
<1>3. NoNotificationLost'
  BY DEF NoNotificationLost
<1> QED
  BY <1>1, <1>2, <1>3

\* A batch that does not run leaves the connection where it was, unless the
\* table has already followed it out of a channel.
LEMMA ExecRefusedKeepsInv ==
    ASSUME RoutesInv, NEW c \in Conn, ExecRefused(c)
    PROVE  RoutesInv'
<1> USE DEF RoutesInv, ExecRefused, noteVars
<1>1. RoutesTypeOK'
  BY DEF RoutesTypeOK
<1>2. HeadingRouted'
  <2> SUFFICES ASSUME NEW d \in Conn, life[d] = "open", d \notin refused',
                      NEW ch \in AfterBatch(batch'[d], wants[d])
               PROVE  <<d, ch>> \in routes
    BY DEF HeadingRouted
  <2>0. d \notin refused
    OBVIOUS
  <2>1. CASE d = c
    <3>1. Leaving(c) = {}
      BY <2>1 DEF Done
    <3>2. ch \in wants[c] \ Leaving(c)
      BY <2>1, <3>1, AfterNothing DEF RoutesTypeOK
    <3> QED
      BY <2>0, <2>1, <3>2, StayingIsHeading DEF HeadingRouted
  <2>2. CASE d # c
    BY <2>0, <2>2 DEF HeadingRouted, RoutesTypeOK
  <2> QED
    BY <2>1, <2>2
<1>3. NoNotificationLost'
  BY DEF NoNotificationLost
<1> QED
  BY <1>1, <1>2, <1>3

\* A shutdown takes only its own connection's entries.
LEMMA CloseKeepsInv ==
    ASSUME RoutesInv, NEW c \in Conn, forget(c) \/ closeDone(c)
    PROVE  RoutesInv'
<1> USE DEF RoutesInv, forget, closeDone, noteVars
<1>1. RoutesTypeOK'
  BY DEF RoutesTypeOK
<1>2. HeadingRouted'
  <2> SUFFICES ASSUME NEW d \in Conn, life'[d] = "open", d \notin refused',
                      NEW ch \in AfterBatch(batch'[d], wants'[d])
               PROVE  <<d, ch>> \in routes'
    BY DEF HeadingRouted
  <2>1. d # c /\ life[d] = "open" /\ wants'[d] = wants[d] /\ d \notin refused
    BY DEF RoutesTypeOK
  <2> QED
    BY <2>1 DEF HeadingRouted
<1>3. NoNotificationLost'
  <2>1. \A d \in Conn : life[d] # "open" => life'[d] # "open"
    BY DEF RoutesTypeOK
  <2>2. \A n \in DOMAIN notes : due[n] \subseteq Conn
    BY DEF RoutesTypeOK
  <2> QED
    BY <2>1, <2>2 DEF NoNotificationLost
<1> QED
  BY <1>1, <1>2, <1>3

\* A notification is owed to listeners only, and they are all in the copy.
LEMMA NotifyKeepsInv ==
    ASSUME RoutesInv, NEW ch \in Channel, Notify(ch)
    PROVE  RoutesInv'
<1> USE DEF RoutesInv, Notify, connVars
<1>1. RoutesTypeOK'
  BY DEF RoutesTypeOK
<1>2. HeadingRouted'
  BY DEF HeadingRouted
<1>3. NoNotificationLost'
  <2> SUFFICES ASSUME NEW n \in DOMAIN notes', NEW c \in due'[n], c \in Conn
               PROVE  n \in inbox[c] \/ c \in targets'[n] \/ life[c] # "open"
    BY <1>1 DEF NoNotificationLost, RoutesTypeOK
  <2>1. CASE n \in DOMAIN notes
    BY <2>1 DEF NoNotificationLost, RoutesTypeOK
  <2>2. CASE n = Len(notes) + 1
    <3>1. c \notin refused /\ ch \in wants[c] \ Leaving(c) /\ life[c] = "open"
      BY <2>2 DEF RoutesTypeOK
    <3>2. <<c, ch>> \in routes
      BY <3>1, StayingIsHeading DEF HeadingRouted
    <3> QED
      BY <2>2, <3>2 DEF RoutesTypeOK
  <2> QED
    BY <2>1, <2>2 DEF RoutesTypeOK
<1> QED
  BY <1>1, <1>2, <1>3

\* A delivery reaches whoever is still there.
LEMMA DeliverKeepsInv ==
    ASSUME RoutesInv, NEW c \in Conn, NEW n \in DOMAIN targets, Deliver(n, c)
    PROVE  RoutesInv'
<1> USE DEF RoutesInv, Deliver, connVars
<1>1. RoutesTypeOK'
  BY DEF RoutesTypeOK
<1>2. HeadingRouted'
  BY DEF HeadingRouted
<1>3. NoNotificationLost'
  BY DEF NoNotificationLost, RoutesTypeOK, Done
<1> QED
  BY <1>1, <1>2, <1>3

LEMMA RoutesNextInv == RoutesInv /\ [RoutesNext]_routesVars => RoutesInv'
<1> SUFFICES ASSUME RoutesInv, [RoutesNext]_routesVars PROVE RoutesInv'
  OBVIOUS
<1>1. CASE \E c \in Conn : WriteStart(c)
  BY <1>1 DEF RoutesInv, WriteStart, RoutesTypeOK, HeadingRouted, NoNotificationLost, noteVars
<1>2. CASE \E c \in Conn : ExecOK(c) \/ ExecRefused(c)
  BY <1>2, ExecOKKeepsInv, ExecRefusedKeepsInv
<1>3. CASE \E c \in Conn, m \in Message, op \in Op : Observe(c, m, op)
  BY <1>3, ObserveKeepsInv
<1>4. CASE \E c \in Conn : forget(c) \/ closeDone(c)
  BY <1>4, CloseKeepsInv
<1>5. CASE \E c \in Conn, n \in DOMAIN targets : Deliver(n, c)
  BY <1>5, DeliverKeepsInv
<1>6. CASE \E ch \in Channel : Notify(ch)
  BY <1>6, NotifyKeepsInv
<1>7. CASE UNCHANGED routesVars
  BY <1>7 DEF routesVars, connVars, noteVars, RoutesInv, RoutesTypeOK, HeadingRouted,
              NoNotificationLost
<1> QED
  BY <1>1, <1>2, <1>3, <1>4, <1>5, <1>6, <1>7 DEF RoutesNext

\* The table, the batches and the notifications under way agree at every moment.
THEOREM RoutesInvariant == RoutesSpec => []RoutesInv
BY RoutesInitInv, RoutesNextInv, PTL DEF RoutesSpec

\* An open connection whose LISTEN has run is in the table until it asks to
\* leave, whatever other connections send, close or are refused.
THEOREM RoutesListenerStays == RoutesSpec => []ListenerStaysRouted
<1>1. RoutesInv => ListenerStaysRouted
  BY StayingIsHeading DEF RoutesInv, HeadingRouted, ListenerStaysRouted
<1> QED
  BY <1>1, RoutesInvariant, PTL

\* Every notification reaches every connection that was listening when it was
\* raised, or is on its way to it, or the connection has gone.
THEOREM RoutesNothingLost == RoutesSpec => []NoNotificationLost
<1>1. RoutesInv => NoNotificationLost
  BY DEF RoutesInv
<1> QED
  BY <1>1, RoutesInvariant, PTL
=============================================================================
