------------------------- MODULE DeterminismProofs -------------------------
(***************************************************************************)
(* For every program, call graph and iteration order: the facts that       *)
(* exportFacts exports are reachability (THEOREM FactsAreReachability),    *)
(* the walk from a registration reports what it reaches (THEOREM           *)
(* ReportsAreReachability) and, where the tables know what the program     *)
(* calls, exactly what a replay evaluates and cannot reproduce (THEOREM    *)
(* ReportsAreExact), and each diagnostic is the end of a chain of calls    *)
(* that the code makes (THEOREM ChainsExplain).                            *)
(*                                                                         *)
(* The facts are the usual argument for a least fixed point.  A reason is  *)
(* only ever taken from a callee, so what is known of a function is        *)
(* reachable from it (Sound).  A round that changed nothing has found      *)
(* every caller to contain its callees (Settled), so the functions whose   *)
(* operations the caller contains are closed under calls, and contain      *)
(* everything reachable.                                                   *)
(*                                                                         *)
(* The walk is the usual one for a depth-first search.  An item of a body  *)
(* that has been entered is handled or waits on the stack (Walking), so    *)
(* when the stack is empty the functions whose operations are reported are *)
(* closed under calls.  A frame's chain turns every path from its body     *)
(* into a path from the registered workflow (FrameOK).                     *)
(***************************************************************************)
EXTENDS Determinism, SequenceTheorems, WellFoundedInduction, TLAPS

-----------------------------------------------------------------------------
\* Sequences

\* Induction on the naturals, for a set: a least counterexample has a
\* predecessor.
LEMMA Induction ==
    ASSUME NEW P, 0 \in P, \A n \in Nat : n \in P => n + 1 \in P
    PROVE  \A n \in Nat : n \in P
<1> DEFINE Bad == {n \in Nat : n \notin P}
<1> SUFFICES ASSUME Bad # {} PROVE FALSE
  OBVIOUS
<1>1. PICK b \in Bad : \A c \in Bad : <<c, b>> \notin OpToRel(<, Nat)
  BY NatLessThanWellFounded, WFMin
<1>2. \A c \in Bad : ~(c < b)
  BY <1>1 DEF OpToRel
<1>3. b \in Nat /\ b # 0
  OBVIOUS
<1>4. b - 1 \in Nat /\ b - 1 < b /\ b - 1 + 1 = b
  BY <1>3
<1> QED
  BY <1>2, <1>4

\* The running concatenations of the first m of ss.
IsFlat(f, ss, m) == f = [i \in 1 .. m |-> IF i = 1 THEN ss[i] ELSE f[i - 1] \o ss[i]]

\* FlattenSeq chooses one such function: there is one.
LEMMA FlatExists ==
    ASSUME NEW S, NEW ss \in Seq(Seq(S)), Len(ss) # 0
    PROVE  \E f : IsFlat(f, ss, Len(ss))
<1> DEFINE P == {m \in Nat : m < Len(ss) => \E f : IsFlat(f, ss, m + 1)}
<1>1. 0 \in P
  <2>1. IsFlat([i \in 1 .. 1 |-> ss[i]], ss, 0 + 1)
    BY DEF IsFlat
  <2> QED
    BY <2>1
<1>2. ASSUME NEW n \in Nat, n \in P PROVE n + 1 \in P
  <2>1. SUFFICES ASSUME n + 1 < Len(ss) PROVE \E f : IsFlat(f, ss, n + 1 + 1)
    OBVIOUS
  <2>2. PICK f : IsFlat(f, ss, n + 1)
    BY <1>2, <2>1
  <2> DEFINE g == [i \in 1 .. n + 1 + 1 |-> IF i = n + 1 + 1 THEN f[n + 1] \o ss[i] ELSE f[i]]
  <2>3. f = [i \in 1 .. n + 1 |-> IF i = 1 THEN ss[i] ELSE f[i - 1] \o ss[i]]
    BY <2>2 DEF IsFlat
  <2>4. ASSUME NEW i \in 1 .. n + 1 + 1
        PROVE  g[i] = IF i = 1 THEN ss[i] ELSE g[i - 1] \o ss[i]
    <3>1. CASE i = n + 1 + 1
      <4>1. i # 1 /\ i - 1 = n + 1 /\ i - 1 \in 1 .. n + 1 + 1 /\ i - 1 # n + 1 + 1
        BY <3>1
      <4>2. g[i - 1] = f[n + 1]
        BY <4>1
      <4>3. g[i] = f[n + 1] \o ss[i]
        BY <3>1
      <4> QED
        BY <4>1, <4>2, <4>3
    <3>2. CASE i # n + 1 + 1
      <4>1. i \in 1 .. n + 1
        BY <3>2
      <4>2. g[i] = f[i]
        BY <3>2
      <4>3. f[i] = IF i = 1 THEN ss[i] ELSE f[i - 1] \o ss[i]
        BY <2>3, <4>1, Zenon
      <4>4. CASE i = 1
        BY <4>2, <4>3, <4>4
      <4>5. CASE i # 1
        <5>1. i - 1 \in 1 .. n + 1 + 1 /\ i - 1 # n + 1 + 1
          BY <4>1, <4>5
        <5>2. g[i - 1] = f[i - 1]
          BY <5>1
        <5> QED
          BY <4>2, <4>3, <4>5, <5>2
      <4> QED
        BY <4>4, <4>5
    <3> QED
      BY <3>1, <3>2
  <2>5. IsFlat(g, ss, n + 1 + 1)
    <3> HIDE DEF g
    <3>1. g = [i \in 1 .. n + 1 + 1 |-> g[i]]
      BY DEF g
    <3> QED
      BY <2>4, <3>1, Zenon DEF IsFlat
  <2> QED
    BY <2>5
<1>3. Len(ss) - 1 \in Nat /\ Len(ss) - 1 < Len(ss) /\ Len(ss) - 1 + 1 = Len(ss)
  OBVIOUS
<1> HIDE DEF P
<1>4. Len(ss) - 1 \in P
  BY <1>1, <1>2, <1>3, Induction
<1> QED
  BY <1>3, <1>4 DEF P

\* What FlattenSeq returns is the last of the running concatenations.
LEMMA FlattenIs ==
    ASSUME NEW S, NEW ss \in Seq(Seq(S)), Len(ss) # 0
    PROVE  \E f : IsFlat(f, ss, Len(ss)) /\ FlattenSeq(ss) = f[Len(ss)]
<1> DEFINE f == CHOOSE f : IsFlat(f, ss, Len(ss))
<1>1. FlattenSeq(ss) = f[Len(ss)]
  BY Zenon DEF FlattenSeq, IsFlat
<1>2. IsFlat(f, ss, Len(ss))
  BY FlatExists, Zenon
<1> QED
  BY <1>1, <1>2

\* The elements of a concatenation are those of its parts.
LEMMA ConcatElements ==
    ASSUME NEW S, NEW s \in Seq(S), NEW t \in Seq(S)
    PROVE  s \o t \in Seq(S) /\ ToSet(s \o t) = ToSet(s) \cup ToSet(t)
<1>1. s \o t \in Seq(S) /\ Len(s \o t) = Len(s) + Len(t)
  OBVIOUS
<1>2. \A i \in DOMAIN s : i \in DOMAIN (s \o t) /\ (s \o t)[i] = s[i]
  OBVIOUS
<1>3. \A i \in DOMAIN t : Len(s) + i \in DOMAIN (s \o t) /\ (s \o t)[Len(s) + i] = t[i]
  OBVIOUS
<1>4. ASSUME NEW i \in DOMAIN (s \o t) PROVE (s \o t)[i] \in ToSet(s) \cup ToSet(t)
  <2>1. CASE i \in DOMAIN s
    BY <1>2, <2>1 DEF ToSet
  <2>2. CASE i \notin DOMAIN s
    <3>1. i - Len(s) \in DOMAIN t /\ Len(s) + (i - Len(s)) = i
      BY <2>2
    <3> QED
      BY <1>3, <3>1 DEF ToSet
  <2> QED
    BY <2>1, <2>2
<1> DEFINE u == s \o t
<1> HIDE DEF u
<1>5. ToSet(u) = ToSet(s) \cup ToSet(t)
  <2>1. \A i \in DOMAIN s : i \in DOMAIN u /\ u[i] = s[i]
    BY <1>2 DEF u
  <2>2. \A i \in DOMAIN t : \E j \in DOMAIN u : u[j] = t[i]
    BY <1>3 DEF u
  <2>3. \A i \in DOMAIN u : u[i] \in ToSet(s) \cup ToSet(t)
    BY <1>4 DEF u
  <2> QED
    BY <2>1, <2>2, <2>3 DEF ToSet
<1> QED
  BY <1>1, <1>5 DEF u

\* What flattening leaves: the elements of the sequences it is given.
LEMMA FlattenElements ==
    ASSUME NEW S, NEW ss \in Seq(Seq(S))
    PROVE  /\ FlattenSeq(ss) \in Seq(S)
           /\ \A x : x \in ToSet(FlattenSeq(ss)) <=> \E i \in DOMAIN ss : x \in ToSet(ss[i])
<1>1. CASE Len(ss) = 0
  <2>1. FlattenSeq(ss) = ss
    BY <1>1, Zenon DEF FlattenSeq
  <2>2. DOMAIN ss = {} /\ ss \in Seq(S)
    BY <1>1
  <2> QED
    BY <2>1, <2>2 DEF ToSet
<1>2. CASE Len(ss) # 0
  <2>1. PICK f : IsFlat(f, ss, Len(ss)) /\ FlattenSeq(ss) = f[Len(ss)]
    BY <1>2, FlattenIs
  <2>2. f = [i \in 1 .. Len(ss) |-> IF i = 1 THEN ss[i] ELSE f[i - 1] \o ss[i]]
    BY <2>1 DEF IsFlat
  <2> DEFINE Fine(m) == /\ f[m] \in Seq(S)
                        /\ \A x : x \in ToSet(f[m]) <=> \E i \in 1 .. m : x \in ToSet(ss[i])
             P == {m \in Nat : m < Len(ss) => Fine(m + 1)}
  <2>3. 0 \in P
    <3>1. 1 \in 1 .. Len(ss)
      BY <1>2
    <3>2. f[1] = ss[1] /\ ss[1] \in Seq(S) /\ 0 + 1 = 1
      BY <2>2, <3>1
    <3>3. Fine(0 + 1)
      BY <3>2
    <3> QED
      BY <3>3
  <2>4. ASSUME NEW n \in Nat, n \in P PROVE n + 1 \in P
    <3>1. SUFFICES ASSUME n + 1 < Len(ss) PROVE Fine(n + 1 + 1)
      OBVIOUS
    <3>2. Fine(n + 1)
      BY <2>4, <3>1
    <3> DEFINE k == n + 1
               m == n + 1 + 1
    <3>3. m \in 1 .. Len(ss) /\ m # 1 /\ m - 1 = k
      BY <3>1
    <3>4. ss[m] \in Seq(S)
      BY <3>3
    <3>5. f[m] = f[k] \o ss[m]
      <4> HIDE DEF m, k
      <4>1. f[m] = IF m = 1 THEN ss[m] ELSE f[m - 1] \o ss[m]
        BY <2>2, <3>3, Zenon
      <4> QED
        BY <3>3, <4>1, Zenon
    <3>6. f[m] \in Seq(S) /\ ToSet(f[m]) = ToSet(f[k]) \cup ToSet(ss[m])
      <4> HIDE DEF m, k
      <4>1. f[k] \in Seq(S)
        BY <3>2 DEF k
      <4> QED
        BY <3>4, <3>5, <4>1, ConcatElements
    <3>7. 1 .. m = (1 .. k) \cup {m}
      OBVIOUS
    <3>8. ASSUME NEW x
          PROVE  x \in ToSet(f[m]) <=> \E i \in 1 .. m : x \in ToSet(ss[i])
      <4> HIDE DEF m, k
      <4>1. x \in ToSet(f[k]) <=> \E i \in 1 .. k : x \in ToSet(ss[i])
        BY <3>2 DEF k
      <4> QED
        BY <3>6, <3>7, <4>1
    <3> HIDE DEF k
    <3> QED
      BY <3>6, <3>8
  <2> HIDE DEF P
  <2>5. Len(ss) - 1 \in Nat /\ Len(ss) - 1 < Len(ss) /\ Len(ss) - 1 + 1 = Len(ss)
    BY <1>2
  <2>6. Len(ss) - 1 \in P
    BY <2>3, <2>4, <2>5, Induction
  <2>7. Fine(Len(ss))
    BY <2>5, <2>6 DEF P
  <2>8. DOMAIN ss = 1 .. Len(ss)
    OBVIOUS
  <2> QED
    BY <2>1, <2>7, <2>8
<1> QED
  BY <1>1, <1>2

\* The first callee of a list and the rest of it are the whole of it.
LEMMA HeadAndTail ==
    ASSUME NEW S, NEW s \in Seq(S), s # <<>>
    PROVE  /\ Head(s) \in S /\ Tail(s) \in Seq(S)
           /\ ToSet(s) = {Head(s)} \cup ToSet(Tail(s))
<1>1. Head(s) \in S /\ Tail(s) \in Seq(S)
  OBVIOUS
<1>2. ASSUME NEW i \in DOMAIN s PROVE s[i] \in {Head(s)} \cup ToSet(Tail(s))
  <2>1. CASE i = 1
    BY <2>1
  <2>2. CASE i # 1
    <3>1. i - 1 \in DOMAIN Tail(s) /\ Tail(s)[i - 1] = s[i]
      BY <2>2
    <3>2. QED
      BY <3>1 DEF ToSet
  <2>3. QED
    BY <2>1, <2>2
<1>3. ASSUME NEW i \in DOMAIN Tail(s) PROVE Tail(s)[i] \in ToSet(s)
  <2>1. i + 1 \in DOMAIN s /\ s[i + 1] = Tail(s)[i]
    OBVIOUS
  <2>2. QED
    BY <2>1 DEF ToSet
<1>4. Head(s) \in ToSet(s)
  BY 1 \in DOMAIN s, Head(s) = s[1] DEF ToSet
<1>5. QED
  BY <1>1, <1>2, <1>3, <1>4 DEF ToSet

\* A stack is its top and what is below it.
LEMMA LastAndFront ==
    ASSUME NEW F, NEW st \in Seq(F), st # <<>>
    PROVE  /\ Last(st) \in F /\ Front(st) \in Seq(F)
           /\ ToSet(st) = ToSet(Front(st)) \cup {Last(st)}
<1> DEFINE n == Len(st)
           front == Front(st)
<1>1. n \in Nat /\ n # 0 /\ DOMAIN st = 1 .. n /\ n \in DOMAIN st
  OBVIOUS
<1>2. front \in Seq(F) /\ Len(front) = n - 1 /\ \A i \in 1 .. n - 1 : front[i] = st[i]
  BY <1>1 DEF Front
<1>3. DOMAIN front = 1 .. n - 1
  BY <1>2
<1>4. Last(st) = st[n] /\ st[n] \in F
  BY <1>1 DEF Last
<1>5. DOMAIN st = DOMAIN front \cup {n}
  BY <1>1, <1>3
<1> HIDE DEF n, front
<1>6. \A i \in DOMAIN front : front[i] = st[i]
  BY <1>2, <1>3
<1>7. ToSet(st) = ToSet(front) \cup {st[n]}
  BY <1>5, <1>6 DEF ToSet
<1> QED
  BY <1>2, <1>4, <1>7 DEF front

\* A pushed element is the only new one.
LEMMA AppendElements ==
    ASSUME NEW F, NEW st \in Seq(F), NEW x \in F
    PROVE  /\ Append(st, x) \in Seq(F) /\ Append(st, x) # <<>>
           /\ ToSet(Append(st, x)) = ToSet(st) \cup {x}
<1> DEFINE n == Len(st) + 1
           new == Append(st, x)
<1>1. /\ new \in Seq(F) /\ Len(new) = n /\ new # <<>> /\ n \in 1 .. n
      /\ new[n] = x /\ \A i \in 1 .. Len(st) : new[i] = st[i]
  OBVIOUS
<1>2. DOMAIN st = 1 .. Len(st) /\ DOMAIN new = DOMAIN st \cup {n}
  BY <1>1
<1>3. \A i \in DOMAIN st : new[i] = st[i]
  BY <1>1, <1>2
<1> HIDE DEF new, n
<1>4. ToSet(new) = ToSet(st) \cup {x}
  BY <1>1, <1>2, <1>3 DEF ToSet
<1> QED
  BY <1>1, <1>4 DEF new

-----------------------------------------------------------------------------
\* Bodies

\* The syntax walk of a body meets what is replayed of it.
LEMMA InspectElements ==
    ASSUME NEW body, IsBody(body)
    PROVE  /\ Inspect(body) \in Seq(Replayed(body))
           /\ ToSet(Inspect(body)) = Replayed(body)
<1> DEFINE ss == [i \in DOMAIN body |-> CheckCall(body[i])]
           S == Replayed(body)
<1>1. body \in Seq(ToSet(body)) /\ DOMAIN body = 1 .. Len(body) /\ Len(body) \in Nat
  <2>1. IsSeq(body)
    BY DEF IsBody
  <2> QED
    BY <2>1 DEF IsSeq
<1>2. ASSUME NEW i \in DOMAIN body
      PROVE  /\ CheckCall(body[i]) \in Seq(ToSet(CheckCall(body[i])))
             /\ ToSet(CheckCall(body[i])) =
                  IF body[i].k = "step" THEN ToSet(body[i].args) ELSE {body[i]}
  <2>1. CASE body[i].k = "step"
    <3>1. body[i] \in ToSet(body)
      BY DEF ToSet
    <3>2. IsSeq(body[i].args)
      BY <2>1, <3>1 DEF IsBody
    <3>3. CheckCall(body[i]) = body[i].args
      BY <2>1 DEF CheckCall
    <3>4. body[i].args \in Seq(ToSet(body[i].args))
      BY <3>2 DEF IsSeq
    <3> QED
      BY <2>1, <3>3, <3>4
  <2>2. CASE body[i].k # "step"
    <3> DEFINE x == body[i]
    <3>1. CheckCall(x) = <<x>>
      BY <2>2 DEF CheckCall
    <3> HIDE DEF x
    <3>2. <<x>> \in Seq({x}) /\ ToSet(<<x>>) = {x}
      BY DEF ToSet
    <3> QED
      BY <2>2, <3>1, <3>2 DEF x
  <2> QED
    BY <2>1, <2>2
<1>3. \A x : x \in S <=> \E i \in DOMAIN body : x \in ToSet(CheckCall(body[i]))
  BY <1>2 DEF Replayed
<1>4. \A i \in DOMAIN body : CheckCall(body[i]) \in Seq(S)
  <2> SUFFICES ASSUME NEW i \in DOMAIN body PROVE CheckCall(body[i]) \in Seq(S)
    OBVIOUS
  <2> DEFINE t == CheckCall(body[i])
  <2>1. t \in Seq(ToSet(t)) /\ ToSet(t) \subseteq S
    BY <1>2, <1>3
  <2> HIDE DEF t, S
  <2>2. t \in Seq(S)
    BY <2>1
  <2> QED
    BY <2>2 DEF t
<1> HIDE DEF S
<1>5. ss \in Seq(Seq(S)) /\ DOMAIN ss = DOMAIN body
  BY <1>1, <1>4
<1>6. /\ FlattenSeq(ss) \in Seq(S)
      /\ \A x : x \in ToSet(FlattenSeq(ss)) <=> \E i \in DOMAIN ss : x \in ToSet(ss[i])
  BY <1>5, FlattenElements
<1>7. \A x : x \in ToSet(FlattenSeq(ss)) <=> x \in S
  BY <1>3, <1>5, <1>6
<1> QED
  BY <1>6, <1>7 DEF Inspect, S

\* What a body calls is what its calls name.
LEMMA CalleesElements ==
    ASSUME NEW body, IsBody(body), NEW p
    PROVE  /\ Callees(body, p) \in Seq(ToSet(Callees(body, p)))
           /\ \A g : g \in ToSet(Callees(body, p)) <=>
                       \E item \in Replayed(body) : IsCall(item, p) /\ item.fn = g
<1> DEFINE items == Inspect(body)
           S == {item.fn : item \in {i \in Replayed(body) : IsCall(i, p)}}
           One(i) == IF IsCall(items[i], p) THEN <<items[i].fn>> ELSE <<>>
           ss == [i \in DOMAIN items |-> One(i)]
<1>1. /\ items \in Seq(Replayed(body)) /\ ToSet(items) = Replayed(body)
      /\ DOMAIN items = 1 .. Len(items) /\ Len(items) \in Nat
  BY InspectElements
<1> HIDE DEF items
<1>2. ASSUME NEW i \in DOMAIN items
      PROVE  /\ One(i) \in Seq(S)
             /\ \A g : g \in ToSet(One(i)) <=> IsCall(items[i], p) /\ items[i].fn = g
  <2>1. CASE IsCall(items[i], p)
    <3> DEFINE x == items[i].fn
    <3>1. x \in S
      BY <1>1, <2>1 DEF ToSet
    <3>2. One(i) = <<x>>
      BY <2>1
    <3> HIDE DEF x, S, One
    <3>3. <<x>> \in Seq(S) /\ ToSet(<<x>>) = {x}
      BY <3>1 DEF ToSet
    <3> QED
      BY <2>1, <3>2, <3>3 DEF x
  <2>2. CASE ~IsCall(items[i], p)
    <3>1. One(i) = <<>>
      BY <2>2
    <3> HIDE DEF S, One
    <3>2. <<>> \in Seq(S) /\ ToSet(<<>>) = {}
      BY DEF ToSet
    <3> QED
      BY <2>2, <3>1, <3>2
  <2> QED
    BY <2>1, <2>2
<1> HIDE DEF One, S
<1>3. ss \in Seq(Seq(S)) /\ DOMAIN ss = DOMAIN items
  BY <1>1, <1>2
<1>4. /\ FlattenSeq(ss) \in Seq(S)
      /\ \A g : g \in ToSet(FlattenSeq(ss)) <=> \E i \in DOMAIN ss : g \in ToSet(ss[i])
  BY <1>3, FlattenElements
<1>5. Callees(body, p) = FlattenSeq(ss)
  BY DEF Callees, One, items
<1>6. \A g : g \in ToSet(FlattenSeq(ss)) <=>
              \E i \in DOMAIN items : IsCall(items[i], p) /\ items[i].fn = g
  BY <1>2, <1>3, <1>4
<1>7. FlattenSeq(ss) \in Seq(ToSet(FlattenSeq(ss)))
  <2> DEFINE t == FlattenSeq(ss)
  <2>1. t \in Seq(S)
    BY <1>4
  <2> HIDE DEF t
  <2>2. t \in Seq(ToSet(t))
    BY <2>1 DEF ToSet
  <2> QED
    BY <2>2 DEF t
<1>8. ASSUME NEW g
      PROVE  (\E i \in DOMAIN items : IsCall(items[i], p) /\ items[i].fn = g)
               <=> \E item \in Replayed(body) : IsCall(item, p) /\ item.fn = g
  <2>1. \A i \in DOMAIN items : items[i] \in Replayed(body)
    BY <1>1 DEF ToSet
  <2>2. \A item \in Replayed(body) : \E i \in DOMAIN items : items[i] = item
    BY <1>1 DEF ToSet
  <2> QED
    BY <2>1, <2>2
<1>9. \A g : g \in ToSet(FlattenSeq(ss)) <=>
              \E item \in Replayed(body) : IsCall(item, p) /\ item.fn = g
  BY <1>6, <1>8
<1> HIDE DEF ss
<1> QED
  BY <1>5, <1>7, <1>9

\* A body's operations are those of what it replays.
LEMMA FoundElements ==
    ASSUME NEW body, IsBody(body), NEW at
    PROVE  at \in Found(body) <=> \E item \in Replayed(body) : IsFound(item) /\ item.at = at
BY InspectElements DEF Found

-----------------------------------------------------------------------------
\* The facts of the exported functions

CallSet(f) == ToSet(Calls(f))

\* The callees of f that this round has not merged into it yet.
Pending(f) == IF f = todo.caller THEN ToSet(todo.callees) ELSE {}

PassOK ==
    /\ source \in Programs
    /\ phase \in {"idle", "facts", "report"}
    /\ phase # "idle" => pkg \in Packages /\ Imports[pkg] \subseteq done
    /\ DOMAIN resolved = Functions
    /\ phase = "facts" =>
         /\ visited \subseteq Bodies(pkg)
         /\ todo.callees \in Seq(Functions)
         /\ todo.callees # <<>> =>
              todo.caller \in visited /\ Pending(todo.caller) \subseteq CallSet(todo.caller)

\* What is known of a function is reachable from it, and includes what its own
\* body does.
Sound ==
    phase = "facts" =>
      \A f \in Bodies(pkg) :
         Direct(f) \subseteq Ats(resolved[f]) /\ Ats(resolved[f]) \subseteq OpsReachable({f})

\* In a round without a change so far, a visited caller contains its merged
\* callees.
Settled ==
    phase = "facts" /\ ~changed =>
      \A f \in visited : \A g \in CallSet(f) \ Pending(f) :
         Ats(ReasonsFor(g)) \subseteq Ats(resolved[f])

\* The facts of the packages whose fixed point is over are exact.
Exact ==
    \A f \in Exported :
       Home[f] \in done \/ (phase = "report" /\ Home[f] = pkg) =>
         Ats(facts[f]) = OpsReachable({f})

FactInv == PassOK /\ Sound /\ Settled /\ Exact

-----------------------------------------------------------------------------

\* Merging a callee adds its positions, and nothing else; when it adds no
\* reason they were there already.
LEMMA MergedAts ==
    ASSUME NEW old, NEW new, NEW f
    PROVE  /\ Ats(AddReason(old, Via(f, new))) = Ats(old) \cup Ats(new)
           /\ AddReason(old, Via(f, new)) = old => Ats(new) \subseteq Ats(old)
<1>1. Ats(Via(f, new)) = Ats(new)
  <2>1. ASSUME NEW r \in new PROVE r.at \in Ats(Via(f, new))
    <3>1. [at |-> r.at, chain |-> <<f>> \o r.chain] \in Via(f, new)
      BY DEF Via
    <3>2. QED
      BY <3>1 DEF Ats
  <2>2. ASSUME NEW v \in Via(f, new) PROVE v.at \in Ats(new)
    BY DEF Via, Ats
  <2>3. QED
    BY <2>1, <2>2 DEF Ats
<1> DEFINE via == Via(f, new)
<1> HIDE DEF via
<1>2. Ats(AddReason(old, via)) = Ats(old) \cup Ats(via)
  BY DEF AddReason, Ats
<1>3. QED
  BY <1>1, <1>2 DEF via

\* A body's own operations are reachable from it.
LEMMA DirectIsReachable ==
    ASSUME NEW f \in Functions PROVE Direct(f) \subseteq OpsReachable({f})
<1>1. f \in Reachable({f})
  BY DEF Reachable
<1>2. QED
  BY <1>1 DEF OpsReachable

\* What a callee reaches, its caller reaches.
LEMMA CalleesAreReachable ==
    ASSUME NEW f \in Functions, NEW g \in CallSet(f)
    PROVE  OpsReachable({g}) \subseteq OpsReachable({f})
<1>1. ASSUME NEW h \in Reachable({g}) PROVE h \in Reachable({f})
  <2>1. SUFFICES ASSUME NEW S \in SUBSET Functions, {f} \subseteq S, Closed(S)
                 PROVE  h \in S
    BY <1>1 DEF Reachable
  <2>2. {g} \subseteq S
    BY <2>1 DEF Closed, CallSet
  <2>3. QED
    BY <2>1, <2>2, <1>1 DEF Reachable
<1>2. QED
  BY <1>1 DEF OpsReachable

\* What the driver and the language guarantee, of the program under analysis.
LEMMA CallsAreVisible ==
    ASSUME source \in Programs, NEW f \in Functions
    PROVE  /\ Calls(f) \in Seq(Functions)
           /\ CallSet(f) \subseteq Functions
           /\ \A g \in CallSet(f) :
                Home[g] # Home[f] => g \in Exported /\ Home[g] \in Imports[Home[f]]
<1>1. IsBody(source[f])
  BY ProgramAssumption DEF IsBodyIn
<1>2. \A g \in CallSet(f) : MayName(Home[f], g)
  BY ProgramAssumption DEF IsBodyIn, CallSet, Calls
<1>3. CallSet(f) \subseteq Functions
  BY <1>2 DEF MayName
<1>4. Calls(f) \in Seq(CallSet(f))
  BY <1>1, CalleesElements DEF CallSet, Calls
<1>5. Calls(f) \in Seq(Functions)
  BY <1>3, <1>4
<1>6. QED
  BY <1>2, <1>3, <1>5 DEF MayName

\* When a round has changed nothing, a function of the package knows all that
\* it reaches.
LEMMA SettledIsComplete ==
    ASSUME FactInv, RoundOver, ~changed, NEW f \in Bodies(pkg)
    PROVE  OpsReachable({f}) \subseteq Ats(resolved[f])
<1> DEFINE R == Ats(resolved[f])
           Known(g) == IF Home[g] = pkg THEN Ats(resolved[g]) ELSE OpsReachable({g})
           T == {g \in Functions : Known(g) \subseteq R}
<1>0. f \in Functions /\ Home[f] = pkg
  BY DEF Bodies
<1>1. f \in T
  BY <1>0
<1>2. ASSUME NEW g \in T, NEW c \in CallSet(g) PROVE c \in T
  <2>1. /\ source \in Programs /\ g \in Functions /\ c \in Functions
        /\ Home[c] # Home[g] => c \in Exported /\ Home[c] \in Imports[Home[g]]
    BY CallsAreVisible DEF FactInv, PassOK
  <2>2. OpsReachable({c}) \subseteq OpsReachable({g})
    BY <2>1, CalleesAreReachable
  <2>3. CASE Home[g] = pkg
    <3>1. g \in visited /\ Pending(g) = {}
      BY <2>1, <2>3 DEF RoundOver, Bodies, Pending, ToSet
    <3>2. Ats(ReasonsFor(c)) \subseteq R
      BY <3>1, <2>3 DEF FactInv, Settled, RoundOver
    <3>3. CASE Home[c] = pkg
      BY <3>2, <3>3, <2>1 DEF ReasonsFor
    <3>4. CASE Home[c] # pkg
      <4>1. c \in Exported /\ Home[c] \in done
        BY <2>1, <2>3, <3>4 DEF FactInv, PassOK, RoundOver
      <4>2. Ats(facts[c]) = OpsReachable({c})
        BY <4>1 DEF FactInv, Exact
      <4>3. QED
        BY <4>2, <3>2, <3>4, <2>1 DEF ReasonsFor
    <3>5. QED
      BY <3>3, <3>4
  <2>4. CASE Home[g] # pkg
    <3>1. OpsReachable({c}) \subseteq R
      BY <2>2, <2>4
    <3>2. Home[c] = pkg => Ats(resolved[c]) \subseteq OpsReachable({c})
      BY <2>1 DEF FactInv, Sound, RoundOver, Bodies
    <3>3. QED
      BY <3>1, <3>2, <2>1
  <2>5. QED
    BY <2>3, <2>4
<1>3. Closed(T)
  BY <1>2 DEF Closed, CallSet
<1>4. ASSUME NEW g \in Reachable({f}) PROVE Direct(g) \subseteq R
  <2>1. g \in T
    <3>1. T \in SUBSET Functions /\ {f} \subseteq T
      BY <1>1
    <3>2. QED
      BY <3>1, <1>3 DEF Reachable
  <2>2. CASE Home[g] = pkg
    BY <2>1, <2>2 DEF FactInv, Sound, RoundOver, Bodies
  <2>3. CASE Home[g] # pkg
    BY <2>1, <2>3, DirectIsReachable
  <2>4. QED
    BY <2>2, <2>3
<1>5. QED
  BY <1>4 DEF OpsReachable

\* Whatever package a caller and its callee live in, the callee's reasons as
\* the caller sees them are reachable from the callee.
LEMMA ReasonsAreReachable ==
    ASSUME FactInv, phase = "facts", NEW f \in Bodies(pkg), NEW g \in CallSet(f)
    PROVE  Ats(ReasonsFor(g)) \subseteq OpsReachable({f})
<1>1. /\ f \in Functions /\ Home[f] = pkg
      /\ g \in Functions
      /\ Home[g] # pkg => g \in Exported /\ Home[g] \in Imports[pkg]
  BY CallsAreVisible DEF FactInv, PassOK, Bodies
<1>2. Ats(ReasonsFor(g)) \subseteq OpsReachable({g})
  <2>1. CASE Home[g] = pkg
    BY <1>1, <2>1 DEF ReasonsFor, FactInv, Sound, Bodies
  <2>2. CASE Home[g] # pkg
    BY <1>1, <2>2 DEF ReasonsFor, FactInv, PassOK, Exact
  <2>3. QED
    BY <2>1, <2>2
<1>3. QED
  BY <1>1, <1>2, CalleesAreReachable

-----------------------------------------------------------------------------
\* What the reasons mean depends on the program alone.
LEMMA SameProgram ==
    ASSUME source' = source
    PROVE  /\ \A f : Direct(f)' = Direct(f) /\ CallSet(f)' = CallSet(f)
           /\ \A fs : OpsReachable(fs)' = OpsReachable(fs)
<1>1. \A f : Direct(f)' = Direct(f) /\ Calls(f)' = Calls(f) /\ CallSet(f)' = CallSet(f)
  BY DEF Direct, Calls, CallSet
<1>2. \A S : Closed(S)' = Closed(S)
  BY <1>1 DEF Closed
<1>3. \A fs : Reachable(fs)' = Reachable(fs)
  BY <1>2 DEF Reachable
<1>4. QED
  BY <1>1, <1>3 DEF OpsReachable

LEMMA InitFacts == Init => FactInv
<1> SUFFICES ASSUME Init PROVE FactInv
  OBVIOUS
<1>1. PassOK
  BY DEF Init, PassOK
<1>2. Sound /\ Settled /\ Exact
  BY DEF Init, Sound, Settled, Exact
<1>3. QED
  BY <1>1, <1>2 DEF FactInv

LEMMA RunFacts ==
    ASSUME FactInv, NEW p \in Packages, Run(p) PROVE FactInv'
<1>0. /\ source' = source /\ facts' = facts /\ done' = done
      /\ phase = "idle" /\ phase' = "facts" /\ pkg' = p
      /\ Imports[p] \subseteq done
      /\ visited' = {} /\ todo'.callees = <<>>
  BY DEF Run
<1>1. PassOK'
  <2>1. DOMAIN resolved' = Functions
    BY DEF Run
  <2>2. QED
    BY <1>0, <2>1 DEF PassOK, FactInv
<1>2. Sound'
  <2>1. SUFFICES ASSUME NEW f \in Functions, Home[f] = p
                 PROVE  /\ Direct(f)' \subseteq Ats(resolved'[f])
                        /\ Ats(resolved'[f]) \subseteq OpsReachable({f})'
    BY <1>0 DEF Sound, Bodies, Ats
  <2>2. resolved'[f] = {[at |-> a, chain |-> <<>>] : a \in Direct(f)}
    BY <2>1 DEF Run
  <2>3. Ats(resolved'[f]) = Direct(f)
    <3> DEFINE own == {[at |-> a, chain |-> <<>>] : a \in Direct(f)}
    <3>1. ASSUME NEW a \in Direct(f) PROVE a \in Ats(own)
      <4>1. [at |-> a, chain |-> <<>>] \in own
        OBVIOUS
      <4>2. QED
        BY <4>1 DEF Ats
    <3>2. Ats(own) \subseteq Direct(f)
      BY DEF Ats
    <3>3. QED
      BY <3>1, <3>2, <2>2
  <2>4. QED
    BY <2>1, <2>3, <1>0, SameProgram, DirectIsReachable
<1>3. Settled'
  BY <1>0 DEF Settled
<1>4. Exact'
  BY <1>0, SameProgram DEF Exact, FactInv
<1>5. QED
  BY <1>1, <1>2, <1>3, <1>4 DEF FactInv

LEMMA NextCallerFacts ==
    ASSUME FactInv, NEW f \in Functions, NextCaller(f) PROVE FactInv'
<1>0. /\ source' = source /\ facts' = facts /\ done' = done
      /\ phase = "facts" /\ phase' = phase /\ pkg' = pkg
      /\ resolved' = resolved /\ changed' = changed
      /\ f \in Bodies(pkg) \ visited
      /\ visited' = visited \cup {f}
      /\ todo.callees = <<>>
      /\ todo'.caller = f /\ todo'.callees = Calls(f)
  BY DEF NextCaller, passVars
<1>1. PassOK'
  <2>1. Calls(f) \in Seq(Functions)
    BY CallsAreVisible DEF FactInv, PassOK
  <2>2. Pending(f)' = CallSet(f)'
    BY <1>0, SameProgram DEF Pending, CallSet
  <2>3. QED
    BY <1>0, <2>1, <2>2 DEF PassOK, FactInv, Bodies
<1>2. Sound'
  BY <1>0, SameProgram DEF Sound, FactInv, Bodies
<1>3. Settled'
  <2>1. SUFFICES ASSUME ~changed, NEW c \in visited', NEW g \in CallSet(c) \ Pending(c)'
                 PROVE  Ats(ReasonsFor(g)) \subseteq Ats(resolved[c])
    BY <1>0, SameProgram DEF Settled, ReasonsFor
  <2>2. c # f
    BY <2>1, <1>0 DEF Pending, CallSet
  <2>3. Pending(c) = {}
    BY <1>0 DEF Pending, ToSet
  <2>4. QED
    BY <2>1, <2>2, <2>3, <1>0 DEF Settled, FactInv
<1>4. Exact'
  BY <1>0, SameProgram DEF Exact, FactInv
<1>5. QED
  BY <1>1, <1>2, <1>3, <1>4 DEF FactInv

LEMMA MergeCalleeFacts ==
    ASSUME FactInv, MergeCallee PROVE FactInv'
<1> DEFINE f == todo.caller
           callee == Head(todo.callees)
           merged == AddReason(resolved[f], Via(callee, ReasonsFor(callee)))
<1>0. /\ source' = source /\ facts' = facts /\ done' = done
      /\ phase = "facts" /\ phase' = phase /\ pkg' = pkg
      /\ visited' = visited
      /\ todo.callees # <<>>
      /\ todo'.caller = f /\ todo'.callees = Tail(todo.callees)
      /\ resolved' = [resolved EXCEPT ![f] = merged]
      /\ changed' = (changed \/ merged # resolved[f])
  <2>1. todo'.caller = f /\ todo'.callees = Tail(todo.callees)
    BY DEF MergeCallee
  <2>2. QED
    BY <2>1 DEF MergeCallee, passVars
<1>1. /\ f \in visited /\ f \in Bodies(pkg) /\ f \in Functions
      /\ todo.callees \in Seq(Functions)
      /\ callee \in CallSet(f)
      /\ Pending(f) = {callee} \cup Pending(f)'
      /\ todo'.callees \in Seq(Functions)
  <2>1. /\ todo.callees \in Seq(Functions) /\ f \in visited
        /\ f \in Bodies(pkg) /\ Pending(f) \subseteq CallSet(f)
    BY <1>0 DEF FactInv, PassOK
  <2>2. Pending(f) = {callee} \cup Pending(f)' /\ todo'.callees \in Seq(Functions)
    BY <2>1, <1>0, HeadAndTail DEF Pending
  <2>3. QED
    BY <2>1, <2>2 DEF Bodies
<1>2. /\ DOMAIN resolved' = Functions
      /\ resolved'[f] = merged
      /\ \A g \in Functions : g # f => resolved'[g] = resolved[g]
  BY <1>0, <1>1 DEF FactInv, PassOK
<1>3. /\ Ats(merged) = Ats(resolved[f]) \cup Ats(ReasonsFor(callee))
      /\ merged = resolved[f] => Ats(ReasonsFor(callee)) \subseteq Ats(resolved[f])
  BY MergedAts
<1> HIDE DEF merged, callee
<1>4. PassOK'
  <2>1. CallSet(f)' = CallSet(f)
    BY <1>0, SameProgram
  <2>2. QED
    BY <1>0, <1>1, <1>2, <2>1 DEF PassOK, FactInv, Bodies
<1>5. Sound'
  <2>1. Ats(ReasonsFor(callee)) \subseteq OpsReachable({f})
    BY <1>0, <1>1, ReasonsAreReachable
  <2>2. ASSUME NEW g \in Bodies(pkg)
        PROVE  /\ Direct(g) \subseteq Ats(resolved'[g])
               /\ Ats(resolved'[g]) \subseteq OpsReachable({g})
    <3>1. /\ g \in Functions
          /\ Direct(g) \subseteq Ats(resolved[g])
          /\ Ats(resolved[g]) \subseteq OpsReachable({g})
      BY <1>0, <2>2 DEF FactInv, Sound, Bodies
    <3>2. CASE g = f
      BY <3>1, <3>2, <2>1, <1>2, <1>3
    <3>3. CASE g # f
      BY <3>1, <3>3, <1>2
    <3>4. QED
      BY <3>2, <3>3
  <2>3. QED
    BY <2>2, <1>0, SameProgram DEF Sound, Bodies
<1>6. Settled'
  <2>1. SUFFICES ASSUME ~changed, merged = resolved[f], NEW c \in visited,
                        NEW g \in CallSet(c), g \notin Pending(c)'
                 PROVE  Ats(ReasonsFor(g))' \subseteq Ats(resolved'[c])
    BY <1>0, SameProgram DEF Settled, Ats
  <2>2. c \in Functions /\ g \in Functions
    BY <1>0, <2>1, CallsAreVisible DEF FactInv, PassOK, Bodies
  <2>3. resolved'[c] = resolved[c] /\ ReasonsFor(g)' = ReasonsFor(g)
    BY <2>1, <2>2, <1>0, <1>2 DEF ReasonsFor
  <2>4. CASE c = f /\ g = callee
    BY <2>1, <2>3, <2>4, <1>3 DEF Ats
  <2>5. CASE c # f \/ g # callee
    <3>1. g \notin Pending(c)
      BY <2>1, <2>5, <1>0, <1>1 DEF Pending
    <3>2. QED
      BY <3>1, <2>1, <2>3, <1>0 DEF FactInv, Settled, Ats
  <2>6. QED
    BY <2>4, <2>5
<1>7. Exact'
  BY <1>0, SameProgram DEF Exact, FactInv
<1>8. QED
  BY <1>4, <1>5, <1>6, <1>7 DEF FactInv

LEMMA NextRoundFacts == ASSUME FactInv, NextRound PROVE FactInv'
<1>0. /\ source' = source /\ facts' = facts /\ done' = done
      /\ phase = "facts" /\ phase' = phase /\ pkg' = pkg
      /\ resolved' = resolved /\ visited' = {} /\ todo'.callees = <<>>
  BY DEF NextRound, RoundOver, passVars
<1>1. PassOK'
  BY <1>0 DEF PassOK, FactInv
<1>2. Sound'
  BY <1>0, SameProgram DEF Sound, FactInv, Bodies
<1>3. Settled'
  BY <1>0 DEF Settled
<1>4. Exact'
  BY <1>0, SameProgram DEF Exact, FactInv
<1>5. QED
  BY <1>1, <1>2, <1>3, <1>4 DEF FactInv

\* The fixed point is reached: what is exported is exact.
LEMMA ExportFactsFacts == ASSUME FactInv, ExportFacts PROVE FactInv'
<1>0. /\ source' = source /\ done' = done /\ pkg' = pkg
      /\ phase = "facts" /\ phase' = "report" /\ resolved' = resolved
      /\ RoundOver /\ ~changed
  BY DEF ExportFacts, factVars, RoundOver
<1>1. PassOK'
  BY <1>0 DEF PassOK, FactInv
<1>2. Sound' /\ Settled'
  BY <1>0 DEF Sound, Settled
<1>3. Exact'
  <2>1. SUFFICES ASSUME NEW f \in Exported, Home[f] \in done \/ Home[f] = pkg
                 PROVE  Ats(facts'[f]) = OpsReachable({f})
    BY <1>0, SameProgram DEF Exact, Ats
  <2>2. f \in Functions
    BY ProgramAssumption
  <2>3. CASE Home[f] = pkg
    <3>1. facts'[f] = resolved[f]
      BY <2>2, <2>3 DEF ExportFacts
    <3>2. Ats(resolved[f]) \subseteq OpsReachable({f})
      BY <1>0, <2>2, <2>3 DEF FactInv, Sound, Bodies
    <3>3. OpsReachable({f}) \subseteq Ats(resolved[f])
      BY <1>0, <2>2, <2>3, SettledIsComplete DEF Bodies
    <3>4. QED
      BY <3>1, <3>2, <3>3
  <2>4. CASE Home[f] # pkg
    <3>1. facts'[f] = facts[f]
      BY <2>2, <2>4 DEF ExportFacts
    <3>2. QED
      BY <3>1, <2>1, <2>4 DEF FactInv, Exact
  <2>5. QED
    BY <2>3, <2>4
<1>4. QED
  BY <1>1, <1>2, <1>3 DEF FactInv

\* Reporting reads facts and leaves them alone.
LEMMA ReportingFacts ==
    ASSUME FactInv, ReportEntry \/ ReportBody \/ ReportBodyReturns \/ PassEnds
    PROVE  FactInv'
<1>0. /\ source' = source /\ facts' = facts /\ resolved' = resolved
      /\ phase = "report" /\ phase' \in {"idle", "report"}
      /\ phase' = "report" => pkg' = pkg /\ done' = done
      /\ done \subseteq done' /\ done' \subseteq done \cup {pkg}
  <2>1. CASE ReportEntry
    BY <2>1 DEF ReportEntry, passVars, factVars
  <2>2. CASE ReportBody
    BY <2>2 DEF ReportBody, passVars, factVars
  <2>3. CASE ReportBodyReturns
    BY <2>3 DEF ReportBodyReturns, passVars, factVars
  <2>4. CASE PassEnds
    BY <2>4 DEF PassEnds, factVars
  <2>5. QED
    BY <2>1, <2>2, <2>3, <2>4
<1>1. PassOK'
  BY <1>0 DEF PassOK, FactInv
<1>2. Sound' /\ Settled'
  BY <1>0 DEF Sound, Settled
<1>3. Exact'
  BY <1>0, SameProgram DEF Exact, FactInv
<1>4. QED
  BY <1>1, <1>2, <1>3 DEF FactInv

LEMMA IdleFacts == ASSUME FactInv, UNCHANGED vars PROVE FactInv'
<1>0. /\ source' = source /\ facts' = facts /\ resolved' = resolved
      /\ phase' = phase /\ pkg' = pkg /\ done' = done /\ visited' = visited
      /\ todo' = todo /\ changed' = changed
  BY DEF vars
<1>1. PassOK'
  <2>1. /\ \A f : CallSet(f)' = CallSet(f) /\ Pending(f)' = Pending(f)
        /\ Bodies(pkg)' = Bodies(pkg)
    BY <1>0, SameProgram DEF Pending, Bodies
  <2>2. QED
    BY <1>0, <2>1 DEF PassOK, FactInv
<1>2. Sound' /\ Exact'
  BY <1>0, SameProgram DEF Sound, Exact, FactInv, Bodies
<1>3. Settled'
  BY <1>0, SameProgram DEF Settled, FactInv, Pending, ReasonsFor
<1>4. QED
  BY <1>1, <1>2, <1>3 DEF FactInv

\* Every step keeps the invariant of the facts.
LEMMA NextFacts == ASSUME FactInv, [Next]_vars PROVE FactInv'
<1>1. CASE \E p \in Packages : Run(p)
  BY <1>1, RunFacts
<1>2. CASE \E f \in Functions : NextCaller(f)
  BY <1>2, NextCallerFacts
<1>3. CASE MergeCallee
  BY <1>3, MergeCalleeFacts
<1>4. CASE NextRound
  BY <1>4, NextRoundFacts
<1>5. CASE ExportFacts
  BY <1>5, ExportFactsFacts
<1>6. CASE ReportEntry \/ ReportBody \/ ReportBodyReturns \/ PassEnds
  BY <1>6, ReportingFacts
<1>7. CASE UNCHANGED vars
  BY <1>7, IdleFacts
<1>8. QED
  BY <1>1, <1>2, <1>3, <1>4, <1>5, <1>6, <1>7 DEF Next

\* For every program and iteration order, the fact of an exported function of
\* an analysed package names exactly the operations reachable from it
\* (exportFacts, reasonsFor, addReason).
THEOREM FactsAreReachability == Spec => []FactsExact
<1>1. FactInv /\ [Next]_vars => FactInv'
  BY NextFacts
<1>2. FactInv => FactsExact
  BY DEF FactInv, Exact, FactsExact
<1>3. QED
  BY InitFacts, <1>1, <1>2, PTL DEF Spec

-----------------------------------------------------------------------------
\* The chains of the reasons

\* A reason of f holds a chain of calls from f's body to the operation.
IsReasonOf(f, r) ==
    r.chain \in Seq(Functions) /\ IsPath(source[f], Home[f], r.chain, r.at)

ReasonPaths ==
    \A f \in Functions :
       /\ \A r \in resolved[f] : IsReasonOf(f, r)
       /\ \A r \in facts[f] : IsReasonOf(f, r)

\* A body's own operations are at the end of the empty chain.
LEMMA EmptyPath ==
    ASSUME NEW body, NEW p, NEW at \in Found(body)
    PROVE  <<>> \in Seq(Functions) /\ IsPath(body, p, <<>>, at)
BY DEF IsPath

\* A call of g put before a path from g's body is a path.
LEMMA PathPrepended ==
    ASSUME NEW body, NEW p, NEW g \in Functions, g \in ToSet(Callees(body, p)),
           NEW chain \in Seq(Functions), NEW at,
           IsPath(source[g], Home[g], chain, at)
    PROVE  <<g>> \o chain \in Seq(Functions) /\ IsPath(body, p, <<g>> \o chain, at)
<1> DEFINE long == <<g>> \o chain
           step(i) == IF i = 0 THEN source[g] ELSE source[chain[i]]
           home(i) == IF i = 0 THEN Home[g] ELSE Home[chain[i]]
           stepL(i) == IF i = 0 THEN body ELSE source[long[i]]
           homeL(i) == IF i = 0 THEN p ELSE Home[long[i]]
<1>1. /\ long \in Seq(Functions) /\ Len(long) = Len(chain) + 1 /\ long[1] = g
      /\ Len(chain) \in Nat
      /\ \A i \in 1 .. Len(chain) : long[i + 1] = chain[i]
  OBVIOUS
<1>2. /\ \A i \in 1 .. Len(chain) : chain[i] \in ToSet(Callees(step(i - 1), home(i - 1)))
      /\ at \in Found(step(Len(chain)))
  BY DEF IsPath
<1> HIDE DEF long
<1>3. \A i \in 0 .. Len(chain) : stepL(i + 1) = step(i) /\ homeL(i + 1) = home(i)
  <2>1. \A i \in 0 .. Len(chain) : i + 1 # 0 /\ (i # 0 => i \in 1 .. Len(chain))
    BY <1>1
  <2> QED
    BY <1>1, <2>1
<1> HIDE DEF step, home
<1>4. ASSUME NEW i \in 1 .. Len(long)
      PROVE  long[i] \in ToSet(Callees(stepL(i - 1), homeL(i - 1)))
  <2>1. CASE i = 1
    <3>1. stepL(i - 1) = body /\ homeL(i - 1) = p
      BY <2>1
    <3> QED
      BY <1>1, <2>1, <3>1
  <2>2. CASE i # 1
    <3> DEFINE j == i - 1
    <3>1. j \in 1 .. Len(chain) /\ j + 1 = i /\ j - 1 \in 0 .. Len(chain) /\ j - 1 + 1 = j
      BY <1>1, <2>2
    <3>2. long[i] = chain[j] /\ chain[j] \in ToSet(Callees(step(j - 1), home(j - 1)))
      BY <1>1, <1>2, <3>1
    <3>3. stepL(j) = step(j - 1) /\ homeL(j) = home(j - 1)
      BY <1>3, <3>1
    <3> QED
      BY <3>2, <3>3
  <2> QED
    BY <2>1, <2>2
<1>5. at \in Found(stepL(Len(long)))
  <2>1. stepL(Len(chain) + 1) = step(Len(chain))
    BY <1>1, <1>3
  <2> QED
    BY <1>1, <1>2, <2>1
<1>6. IsPath(body, p, long, at)
  BY <1>4, <1>5 DEF IsPath
<1> QED
  BY <1>1, <1>6 DEF long

\* Paths depend on the program alone.
LEMMA SamePaths ==
    ASSUME source' = source
    PROVE  /\ \A body, p, chain, at : IsPath(body, p, chain, at)' <=> IsPath(body, p, chain, at)
           /\ \A f, r : IsReasonOf(f, r)' <=> IsReasonOf(f, r)
<1>1. \A body, p, chain, at : IsPath(body, p, chain, at)' <=> IsPath(body, p, chain, at)
  BY DEF IsPath
<1>2. \A f, r : IsReasonOf(f, r)' <=> IsReasonOf(f, r)
  BY DEF IsReasonOf, IsPath
<1> QED
  BY <1>1, <1>2

\* A caller may take over its callee's reasons.
LEMMA ViaPaths ==
    ASSUME source \in Programs, NEW f \in Functions, NEW g \in CallSet(f),
           NEW reasons, \A r \in reasons : IsReasonOf(g, r)
    PROVE  \A v \in Via(g, reasons) : IsReasonOf(f, v)
<1>1. g \in Functions /\ g \in ToSet(Callees(source[f], Home[f]))
  BY CallsAreVisible DEF CallSet, Calls
<1> SUFFICES ASSUME NEW r \in reasons
             PROVE  IsReasonOf(f, [at |-> r.at, chain |-> <<g>> \o r.chain])
  BY DEF Via
<1>2. r.chain \in Seq(Functions) /\ IsPath(source[g], Home[g], r.chain, r.at)
  BY DEF IsReasonOf
<1>3. <<g>> \o r.chain \in Seq(Functions) /\ IsPath(source[f], Home[f], <<g>> \o r.chain, r.at)
  BY <1>1, <1>2, PathPrepended
<1> QED
  BY <1>3 DEF IsReasonOf

\* Every step keeps a chain of calls behind every reason.
LEMMA NextReasonPaths ==
    ASSUME FactInv, ReasonPaths, [Next]_vars
    PROVE  ReasonPaths'
<1>1. CASE \E p \in Packages : Run(p)
  <2>1. PICK p \in Packages : Run(p)
    BY <1>1
  <2>2. source' = source /\ facts' = facts
    BY <2>1 DEF Run
  <2>3. ASSUME NEW f \in Functions, NEW r \in resolved'[f] PROVE IsReasonOf(f, r)
    <3>1. CASE Home[f] = p
      <4>1. PICK a \in Direct(f) : r = [at |-> a, chain |-> <<>>]
        BY <2>1, <2>3, <3>1 DEF Run
      <4> QED
        BY <4>1, EmptyPath DEF IsReasonOf, Direct
    <3>2. CASE Home[f] # p
      BY <2>1, <2>3, <3>2 DEF Run, ReasonPaths
    <3> QED
      BY <3>1, <3>2
  <2> QED
    BY <2>2, <2>3, SamePaths DEF ReasonPaths
<1>2. CASE MergeCallee
  <2> DEFINE f == todo.caller
             callee == Head(todo.callees)
             via == Via(callee, ReasonsFor(callee))
  <2>1. /\ source' = source /\ facts' = facts /\ phase = "facts" /\ todo.callees # <<>>
        /\ resolved' = [resolved EXCEPT ![f] = AddReason(resolved[f], via)]
    BY <1>2 DEF MergeCallee, passVars
  <2>2. source \in Programs /\ f \in Functions /\ callee \in CallSet(f)
    <3>1. /\ todo.callees \in Seq(Functions) /\ f \in visited /\ visited \subseteq Bodies(pkg)
          /\ Pending(f) \subseteq CallSet(f) /\ source \in Programs
      BY <2>1 DEF FactInv, PassOK
    <3>2. callee \in ToSet(todo.callees)
      BY <2>1, <3>1, HeadAndTail
    <3> QED
      BY <3>1, <3>2 DEF Pending, Bodies
  <2>3. callee \in Functions
    BY <2>2, CallsAreVisible
  <2>4. \A r \in ReasonsFor(callee) : IsReasonOf(callee, r)
    BY <2>3 DEF ReasonsFor, ReasonPaths
  <2>5. \A v \in via : IsReasonOf(f, v)
    BY <2>2, <2>4, ViaPaths
  <2> HIDE DEF via, callee
  <2>6. ASSUME NEW h \in Functions, NEW r \in resolved'[h] PROVE IsReasonOf(h, r)
    <3>1. CASE h = f
      BY <2>1, <2>5, <2>6, <3>1, <2>2 DEF FactInv, PassOK, AddReason, ReasonPaths
    <3>2. CASE h # f
      BY <2>1, <2>6, <3>2 DEF FactInv, PassOK, ReasonPaths
    <3> QED
      BY <3>1, <3>2
  <2> QED
    BY <2>1, <2>6, SamePaths DEF ReasonPaths
<1>3. CASE ExportFacts
  <2>1. /\ source' = source /\ resolved' = resolved
        /\ \A f \in Functions : facts'[f] \in {resolved[f], facts[f]}
    BY <1>3 DEF ExportFacts, factVars
  <2> QED
    BY <2>1, SamePaths DEF ReasonPaths
<1>4. CASE \/ \E f \in Functions : NextCaller(f)
           \/ NextRound \/ ReportEntry \/ ReportBody \/ ReportBodyReturns \/ PassEnds
           \/ UNCHANGED vars
  <2>1. source' = source /\ facts' = facts /\ resolved' = resolved
    BY <1>4 DEF NextCaller, NextRound, ReportEntry, ReportBody, ReportBodyReturns, PassEnds,
                vars, factVars
  <2> QED
    BY <2>1, SamePaths DEF ReasonPaths
<1> QED
  BY <1>1, <1>2, <1>3, <1>4 DEF Next

-----------------------------------------------------------------------------
\* The walk from a registration

\* The operations that a body of package p leads to: its own, and those
\* reachable from what it calls.
Ops(body, p) == Found(body) \cup OpsReachable(ToSet(Callees(body, p)))

Target(p, r) == Ops(Entry(r), EntryHome(r, p))

Reported(p, i) == {d.at : d \in {x \in reports : x.pkg = p /\ x.register = i}}

\* The registration whose walk is under way.
Current == Registers[pkg][register]

IsWalked(r) == r.k = "literal" \/ (r.k = "named" /\ Home[r.fn] = pkg)

OwnBodies(p) ==
    {source[f] : f \in Bodies(p)} \cup
    {r.body : r \in {x \in ToSet(Registers[p]) : x.k = "literal"}}

Frame == [body : OwnBodies(pkg),
          rest : Seq(UNION {Replayed(b) : b \in OwnBodies(pkg)}),
          chain : Seq(Functions)]

\* What is still to be walked of a body is of that body, which the registered
\* workflow leads to, and the frame's chain leads there.
FrameOK(fr) ==
    /\ ToSet(fr.rest) \subseteq Replayed(fr.body)
    /\ Ops(fr.body, pkg) \subseteq Target(pkg, Current)
    /\ \A chain \in Seq(Functions) : \A at :
         IsPath(fr.body, pkg, chain, at) =>
           IsPath(Entry(Current), pkg, fr.chain \o chain, at)

\* A function whose operations are reported, or whose body is being walked.
Covered(g) ==
    \/ g \in seen /\ Home[g] = pkg
    \/ OpsReachable({g}) \subseteq Reported(pkg, register)

Handled(item) ==
    /\ IsFound(item) => item.at \in Reported(pkg, register)
    /\ IsCall(item, pkg) => Covered(item.fn)

\* The items of the bodies this registration's walk has entered, and those it
\* has still to come to.
Walked ==
    Replayed(Entry(Current)) \cup
    UNION {Replayed(source[g]) : g \in {h \in seen : Home[h] = pkg}}

Waiting == UNION {ToSet(fr.rest) : fr \in ToSet(stack)}

Walking ==
    /\ register \in 1 .. Len(Registers[pkg])
    /\ IsWalked(Current)
    /\ Reported(pkg, register) \subseteq Target(pkg, Current)
    /\ \A fr \in ToSet(stack) : FrameOK(fr)
    /\ seen \subseteq Functions
    /\ \A g \in seen : Covered(g)
    /\ \A item \in Walked : item \in Waiting \/ Handled(item)

\* What a diagnostic says of where it stands and how it was reached.
IsExplained(d) ==
    LET r == Registers[d.pkg][d.register]
        cross == r.k = "named" /\ Home[r.fn] # d.pkg
        chain == IF cross THEN Tail(d.chain) ELSE d.chain
    IN  /\ cross => Head(d.chain) = r.fn
        /\ IsPath(Entry(r), EntryHome(r, d.pkg), chain, d.at)

DiagOK(d) ==
    /\ d.site \in OwnPositions(d.pkg)
    /\ IsExplained(d)

\* The diagnostics of a registration that has been walked are exact.
ExactFor(p, i) ==
    Registers[p][i].k # "value" => Reported(p, i) = Target(p, Registers[p][i])

WalkInv ==
    /\ done \subseteq Packages
    /\ phase # "idle" => pkg \notin done
    /\ \A d \in reports : DiagOK(d)
    /\ \A d \in reports :
         d.pkg \in done \/ (phase = "report" /\ d.pkg = pkg /\ d.register \in 1 .. register)
    /\ \A p \in done : \A i \in DOMAIN Registers[p] : ExactFor(p, i)
    /\ phase = "report" =>
         /\ register \in 0 .. Len(Registers[pkg])
         /\ stack \in Seq(Frame)
         /\ \A i \in 1 .. register : i # register \/ stack = <<>> => ExactFor(pkg, i)
         /\ stack # <<>> => Walking

-----------------------------------------------------------------------------
\* Reachability is closed under calls and grows with what it starts from.
LEMMA ReachableIsClosed ==
    ASSUME NEW fs \in SUBSET Functions
    PROVE  /\ fs \subseteq Reachable(fs)
           /\ \A g \in Reachable(fs) : CallSet(g) \subseteq Functions =>
                                        CallSet(g) \subseteq Reachable(fs)
BY DEF Reachable, Closed, CallSet

\* A set of functions reaches what each of them reaches.
LEMMA OpsOfOne ==
    ASSUME NEW fs \in SUBSET Functions, NEW g \in fs
    PROVE  OpsReachable({g}) \subseteq OpsReachable(fs)
<1>1. Reachable({g}) \subseteq Reachable(fs)
  BY DEF Reachable
<1> QED
  BY <1>1 DEF OpsReachable

\* What a set of functions reaches, and all of it reported, is in a set closed
\* under calls.
LEMMA OpsWithin ==
    ASSUME NEW fs \in SUBSET Functions, NEW T \in SUBSET Functions, NEW R,
           fs \subseteq T, Closed(T), \A g \in T : Direct(g) \subseteq R
    PROVE  OpsReachable(fs) \subseteq R
<1>1. Reachable(fs) \subseteq T
  BY DEF Reachable
<1> QED
  BY <1>1 DEF OpsReachable

\* What a function leads to: its body's operations and what its calls reach.
LEMMA OpsOfFunction ==
    ASSUME source \in Programs, NEW f \in Functions
    PROVE  Ops(source[f], Home[f]) = OpsReachable({f})
<1> DEFINE T == {f} \cup Reachable(CallSet(f))
           R == Direct(f) \cup OpsReachable(CallSet(f))
<1>1. Ops(source[f], Home[f]) = R
  BY DEF Ops, Direct, Calls, CallSet
<1>2. CallSet(f) \in SUBSET Functions
  BY CallsAreVisible
<1>3. R \subseteq OpsReachable({f})
  <2>1. Reachable(CallSet(f)) \subseteq Reachable({f})
    BY <1>2 DEF Reachable, Closed, CallSet
  <2>2. OpsReachable(CallSet(f)) \subseteq OpsReachable({f})
    BY <2>1 DEF OpsReachable
  <2> QED
    BY <2>2, DirectIsReachable
<1>4. OpsReachable({f}) \subseteq R
  <2>1. T \in SUBSET Functions
    BY DEF Reachable
  <2>2. ASSUME NEW g \in T PROVE CallSet(g) \subseteq T
    <3>1. CallSet(g) \subseteq Functions
      BY <2>1, CallsAreVisible
    <3> QED
      BY <1>2, <3>1, ReachableIsClosed
  <2>3. Closed(T)
    BY <2>2 DEF Closed, CallSet
  <2>4. \A g \in T : Direct(g) \subseteq R
    BY DEF OpsReachable
  <2> QED
    BY <2>1, <2>3, <2>4, OpsWithin
<1> QED
  BY <1>1, <1>3, <1>4

\* What a body calls leads to nothing that the body does not lead to.
LEMMA OpsOfCall ==
    ASSUME source \in Programs, NEW body, NEW p, IsBodyIn(body, p),
           NEW g \in ToSet(Callees(body, p))
    PROVE  /\ g \in Functions /\ MayName(p, g)
           /\ OpsReachable({g}) \subseteq Ops(body, p)
           /\ Ops(source[g], Home[g]) \subseteq Ops(body, p)
<1>1. ToSet(Callees(body, p)) \in SUBSET Functions /\ g \in Functions /\ MayName(p, g)
  BY DEF IsBodyIn, MayName
<1>2. OpsReachable({g}) \subseteq Ops(body, p)
  BY <1>1, OpsOfOne DEF Ops
<1> QED
  BY <1>1, <1>2, OpsOfFunction

-----------------------------------------------------------------------------
\* The bodies of a package are as the language makes them.
LEMMA OwnBodyIsBody ==
    ASSUME source \in Programs, NEW p \in Packages, NEW body \in OwnBodies(p)
    PROVE  IsBodyIn(body, p) /\ IsBody(body)
<1>1. CASE body \in {source[f] : f \in Bodies(p)}
  BY <1>1, ProgramAssumption DEF Bodies, IsBodyIn
<1>2. CASE body \in {r.body : r \in {x \in ToSet(Registers[p]) : x.k = "literal"}}
  <2>1. PICK r \in ToSet(Registers[p]) : r.k = "literal" /\ body = r.body
    BY <1>2
  <2> QED
    BY <2>1, ProgramAssumption DEF IsBodyIn
<1> QED
  BY <1>1, <1>2 DEF OwnBodies

\* The positions of a body of the package are positions of the package.
LEMMA OwnPositionsOfBody ==
    ASSUME NEW p, NEW body \in OwnBodies(p)
    PROVE  Positions(body) \subseteq OwnPositions(p)
<1>1. CASE body \in {source[f] : f \in Bodies(p)}
  BY <1>1 DEF OwnPositions
<1>2. CASE body \in {r.body : r \in {x \in ToSet(Registers[p]) : x.k = "literal"}}
  <2>1. PICK r \in ToSet(Registers[p]) : r.k = "literal" /\ body = r.body
    BY <1>2
  <2>2. Positions(body) \in {IF x.k = "literal" THEN Positions(x.body) ELSE {x.at} :
                               x \in ToSet(Registers[p])}
    BY <2>1
  <2> QED
    BY <2>2 DEF OwnPositions
<1> QED
  BY <1>1, <1>2 DEF OwnBodies

\* What stands in a body: its plain items and all that its boundaries are
\* handed.
Standing(body, i) ==
    IF body[i].k = "step" THEN body[i].work \o body[i].args ELSE <<body[i]>>

LEMMA StandingElements ==
    ASSUME NEW body, IsBody(body), NEW i \in DOMAIN body
    PROVE  /\ Standing(body, i) \in Seq(ToSet(Standing(body, i)))
           /\ \A x \in ToSet(Standing(body, i)) : x.at \in Positions(body) /\ x.at # ""
           /\ body[i].k = "step" => ToSet(body[i].args) \subseteq ToSet(Standing(body, i))
           /\ body[i].k # "step" => body[i] \in ToSet(Standing(body, i))
<1> DEFINE item == body[i]
<1>1. item \in ToSet(body)
  BY DEF ToSet
<1>2. CASE item.k = "step"
  <2>1. /\ IsSeq(item.work) /\ IsSeq(item.args)
        /\ \A x \in ToSet(item.work) \cup ToSet(item.args) : x.at # ""
    BY <1>1, <1>2 DEF IsBody
  <2> DEFINE S == ToSet(item.work) \cup ToSet(item.args)
             both == item.work \o item.args
  <2>2. item.work \in Seq(S) /\ item.args \in Seq(S)
    <3>1. item.work \in Seq(ToSet(item.work)) /\ item.args \in Seq(ToSet(item.args))
      BY <2>1 DEF IsSeq
    <3> DEFINE a == item.work
               b == item.args
    <3> HIDE DEF a, b
    <3>2. a \in Seq(ToSet(a)) /\ b \in Seq(ToSet(b)) =>
            a \in Seq(ToSet(a) \cup ToSet(b)) /\ b \in Seq(ToSet(a) \cup ToSet(b))
      OBVIOUS
    <3> QED
      BY <3>1, <3>2 DEF a, b
  <2>3. both \in Seq(S) /\ ToSet(both) = S
    <3> HIDE DEF item
    <3>1. both \in Seq(S) /\ ToSet(both) = ToSet(item.work) \cup ToSet(item.args)
      BY <2>2, ConcatElements
    <3> QED
      BY <3>1
  <2>4. Standing(body, i) = both
    BY <1>2 DEF Standing
  <2>5. {x.at : x \in ToSet(both)} \subseteq Positions(body)
    BY <1>2 DEF Positions
  <2> HIDE DEF both
  <2> QED
    BY <1>2, <2>1, <2>3, <2>4, <2>5
<1>3. CASE item.k # "step"
  <2>1. Standing(body, i) = <<item>>
    BY <1>3 DEF Standing
  <2>2. item.at # ""
    BY <1>1, <1>3 DEF IsBody
  <2>3. item.at \in Positions(body)
    BY <1>3 DEF Positions
  <2> HIDE DEF item
  <2>4. <<item>> \in Seq({item}) /\ ToSet(<<item>>) = {item}
    BY DEF ToSet
  <2> QED
    BY <1>3, <2>1, <2>2, <2>3, <2>4 DEF item
<1> QED
  BY <1>2, <1>3

\* An item of a body stands in it.
LEMMA ItemPosition ==
    ASSUME NEW body, IsBody(body), NEW item \in Replayed(body)
    PROVE  item.at \in Positions(body) /\ item.at # ""
<1>1. PICK i \in DOMAIN body :
        item \in IF body[i].k = "step" THEN ToSet(body[i].args) ELSE {body[i]}
  BY DEF Replayed
<1>2. item \in ToSet(Standing(body, i))
  BY <1>1, StandingElements
<1> QED
  BY <1>2, StandingElements

\* A call site is one of the body's own positions.
LEMMA CallSitePosition ==
    ASSUME NEW body, IsBody(body), NEW f
    PROVE  CallSiteOf(f, body) \in Positions(body) /\ CallSiteOf(f, body) # ""
<1> DEFINE ss == [i \in DOMAIN body |-> Standing(body, i)]
           S == UNION {ToSet(Standing(body, i)) : i \in DOMAIN body}
           all == FlattenSeq(ss)
           One(i) == IF CallName(all[i]) = Name[f] THEN <<all[i]>> ELSE <<>>
           tt == [i \in DOMAIN all |-> One(i)]
           named == FlattenSeq(tt)
<1>1. body \in Seq(ToSet(body)) /\ DOMAIN body = 1 .. Len(body) /\ Len(body) \in Nat
  <2>1. IsSeq(body)
    BY DEF IsBody
  <2> QED
    BY <2>1 DEF IsSeq
<1>2. \A x \in S : x.at \in Positions(body) /\ x.at # ""
  BY StandingElements
<1>3. \A i \in DOMAIN body : Standing(body, i) \in Seq(S)
  <2> SUFFICES ASSUME NEW i \in DOMAIN body PROVE Standing(body, i) \in Seq(S)
    OBVIOUS
  <2> DEFINE t == Standing(body, i)
  <2>1. t \in Seq(ToSet(t)) /\ ToSet(t) \subseteq S
    BY StandingElements
  <2> HIDE DEF t, S
  <2>2. t \in Seq(S)
    BY <2>1
  <2> QED
    BY <2>2 DEF t
<1> HIDE DEF S
<1>4. ss \in Seq(Seq(S))
  BY <1>1, <1>3
<1>5. all \in Seq(S)
  BY <1>4, FlattenElements
<1>6. CallSiteOf(f, body) = IF named = <<>> THEN "body" ELSE Last(named).at
  BY DEF CallSiteOf, Standing
<1> HIDE DEF all
<1>7. DOMAIN all = 1 .. Len(all) /\ Len(all) \in Nat /\ \A i \in DOMAIN all : all[i] \in S
  BY <1>5
<1>8. \A i \in DOMAIN all : One(i) \in Seq(S)
  BY <1>7
<1> HIDE DEF One
<1>9. tt \in Seq(Seq(S))
  BY <1>7, <1>8
<1>10. named \in Seq(S)
  BY <1>9, FlattenElements
<1> HIDE DEF named
<1>11. CASE named = <<>>
  <2>1. "body" \in Positions(body)
    BY DEF Positions
  <2> QED
    BY <1>6, <1>11, <2>1
<1>12. CASE named # <<>>
  <2>1. Last(named) \in S
    BY <1>10, <1>12 DEF Last
  <2> QED
    BY <1>2, <1>6, <1>12, <2>1
<1> QED
  BY <1>11, <1>12

\* The stack once the top frame has moved past its next item.
Popped == Append(Front(stack), [Last(stack) EXCEPT !.rest = Tail(@)])

\* Moving past the next item leaves the other items waiting, and no new frame.
LEMMA PoppedFrames ==
    ASSUME stack \in Seq(Frame), stack # <<>>, Last(stack).rest # <<>>
    PROVE  /\ Popped \in Seq(Frame) /\ Popped # <<>>
           /\ Last(stack) \in ToSet(stack) /\ Last(stack) \in Frame
           /\ Head(Last(stack).rest) \in ToSet(Last(stack).rest)
           /\ \A fr \in ToSet(Popped) :
                \E o \in ToSet(stack) : /\ fr.body = o.body /\ fr.chain = o.chain
                                        /\ ToSet(fr.rest) \subseteq ToSet(o.rest)
           /\ \A item \in Waiting :
                \/ item = Head(Last(stack).rest)
                \/ \E fr \in ToSet(Popped) : item \in ToSet(fr.rest)
<1> DEFINE top == Last(stack)
           moved == [top EXCEPT !.rest = Tail(@)]
<1>1. /\ top \in Frame /\ Front(stack) \in Seq(Frame)
      /\ ToSet(stack) = ToSet(Front(stack)) \cup {top}
  BY LastAndFront
<1>2. /\ top.rest \in Seq(UNION {Replayed(b) : b \in OwnBodies(pkg)})
      /\ moved.body = top.body /\ moved.chain = top.chain /\ moved.rest = Tail(top.rest)
  BY <1>1 DEF Frame
<1>3. /\ ToSet(top.rest) = {Head(top.rest)} \cup ToSet(moved.rest)
      /\ moved.rest \in Seq(UNION {Replayed(b) : b \in OwnBodies(pkg)})
  BY <1>2, HeadAndTail
<1>4. moved \in Frame
  BY <1>1, <1>3 DEF Frame
<1> DEFINE front == Front(stack)
<1>9. Popped = Append(front, moved)
  BY DEF Popped
<1> HIDE DEF top, moved, front
<1>5. /\ Popped \in Seq(Frame) /\ Popped # <<>>
      /\ ToSet(Popped) = ToSet(Front(stack)) \cup {moved}
  <2>1. front \in Seq(Frame)
    BY <1>1 DEF front
  <2>2. /\ Append(front, moved) \in Seq(Frame) /\ Append(front, moved) # <<>>
        /\ ToSet(Append(front, moved)) = ToSet(front) \cup {moved}
    BY <1>4, <2>1, AppendElements
  <2> QED
    BY <1>9, <2>2 DEF front
<1>6. ASSUME NEW fr \in ToSet(Popped)
      PROVE  \E o \in ToSet(stack) : /\ fr.body = o.body /\ fr.chain = o.chain
                                     /\ ToSet(fr.rest) \subseteq ToSet(o.rest)
  <2>1. CASE fr \in ToSet(Front(stack))
    BY <1>1, <2>1
  <2>2. CASE fr = moved
    <3>1. top \in ToSet(stack)
      BY <1>1
    <3> QED
      BY <1>2, <1>3, <2>2, <3>1
  <2> QED
    BY <1>5, <2>1, <2>2
<1>7. ASSUME NEW item \in Waiting
      PROVE  item = Head(top.rest) \/ \E fr \in ToSet(Popped) : item \in ToSet(fr.rest)
  <2>1. PICK o \in ToSet(stack) : item \in ToSet(o.rest)
    BY DEF Waiting
  <2>2. CASE o = top
    BY <1>3, <1>5, <2>1, <2>2
  <2>3. CASE o # top
    BY <1>1, <1>5, <2>1, <2>3
  <2> QED
    BY <2>2, <2>3
<1>8. top \in ToSet(stack) /\ Head(top.rest) \in ToSet(top.rest)
  BY <1>1, <1>3
<1> QED
  BY <1>1, <1>5, <1>6, <1>7, <1>8 DEF top

\* A frame that stands further on in the same body is as good.
LEMMA FrameMoves ==
    ASSUME NEW o, FrameOK(o), NEW fr, fr.body = o.body, fr.chain = o.chain,
           ToSet(fr.rest) \subseteq ToSet(o.rest)
    PROVE  FrameOK(fr)
BY DEF FrameOK

-----------------------------------------------------------------------------
\* What the walk's predicates mean depends on the program and the registration.
LEMMA SameWalk ==
    ASSUME source' = source
    PROVE  /\ \A body, p : Ops(body, p)' = Ops(body, p)
           /\ \A p, r : Target(p, r)' = Target(p, r)
           /\ \A p : OwnBodies(p)' = OwnBodies(p) /\ OwnPositions(p)' = OwnPositions(p)
           /\ \A d : DiagOK(d)' <=> DiagOK(d)
           /\ pkg' = pkg => Frame' = Frame
           /\ pkg' = pkg /\ register' = register =>
                Current' = Current /\ \A fr : FrameOK(fr)' <=> FrameOK(fr)
<1>1. /\ \A fs : OpsReachable(fs)' = OpsReachable(fs)
      /\ \A body, p, chain, at : IsPath(body, p, chain, at)' <=> IsPath(body, p, chain, at)
  BY SameProgram, SamePaths
<1>2. \A body, p : Ops(body, p)' = Ops(body, p)
  BY <1>1 DEF Ops
<1>3. \A r : Entry(r)' = Entry(r)
  BY DEF Entry
<1>4. \A p, r : Target(p, r)' = Target(p, r)
  BY <1>2, <1>3 DEF Target
<1>5. \A p : OwnBodies(p)' = OwnBodies(p) /\ OwnPositions(p)' = OwnPositions(p)
  BY DEF OwnBodies, OwnPositions
<1>6. \A d : IsExplained(d)' <=> IsExplained(d)
  BY <1>1, <1>3 DEF IsExplained
<1>7. \A d : DiagOK(d)' <=> DiagOK(d)
  BY <1>5, <1>6 DEF DiagOK
<1>8. pkg' = pkg => Frame' = Frame
  BY <1>5 DEF Frame
<1>9. ASSUME pkg' = pkg, register' = register
      PROVE  Current' = Current /\ \A fr : FrameOK(fr)' <=> FrameOK(fr)
  <2>1. Current' = Current
    BY <1>9 DEF Current
  <2> QED
    BY <1>1, <1>2, <1>3, <1>4, <1>9, <2>1 DEF FrameOK
<1> QED
  BY <1>2, <1>4, <1>5, <1>7, <1>8, <1>9

\* New diagnostics belong to the registration that is walked.
LEMMA ReportedGrows ==
    ASSUME NEW new, reports' = reports \cup new, NEW q, NEW j,
           \A d \in new : d.pkg = q /\ d.register = j
    PROVE  /\ Reported(q, j)' = Reported(q, j) \cup Ats(new)
           /\ \A p, i : p # q \/ i # j => Reported(p, i)' = Reported(p, i)
<1>1. Reported(q, j)' = Reported(q, j) \cup Ats(new)
  BY DEF Reported, Ats
<1>2. ASSUME NEW p, NEW i, p # q \/ i # j PROVE Reported(p, i)' = Reported(p, i)
  BY <1>2 DEF Reported
<1> QED
  BY <1>1, <1>2

\* A step of the walk that handles what it takes from the stack.
LEMMA WalkingStep ==
    ASSUME WalkInv, phase = "report", stack # <<>>,
           source' = source, done' = done, pkg' = pkg, phase' = phase,
           register' = register,
           NEW new, reports' = reports \cup new,
           \A d \in new : /\ d.pkg = pkg /\ d.register = register
                          /\ DiagOK(d) /\ d.at \in Target(pkg, Current),
           stack' \in Seq(Frame), stack' # <<>>,
           \A fr \in ToSet(stack') : FrameOK(fr),
           seen' \subseteq Functions, seen \subseteq seen',
           \A g \in seen' \ seen : Covered(g)',
           \A item \in Walked' : item \in Walked \/ item \in Waiting',
           \A item \in Waiting : item \in Waiting' \/ Handled(item)'
    PROVE  WalkInv'
<1>1. Walking /\ register \in 1 .. Len(Registers[pkg])
  BY DEF WalkInv, Walking
<1>2. /\ Reported(pkg, register)' = Reported(pkg, register) \cup Ats(new)
      /\ \A p, i : p # pkg \/ i # register => Reported(p, i)' = Reported(p, i)
  <2>1. \A q, j : q = pkg /\ j = register =>
          /\ Reported(q, j)' = Reported(q, j) \cup Ats(new)
          /\ \A p, i : p # q \/ i # j => Reported(p, i)' = Reported(p, i)
    <3> SUFFICES ASSUME NEW q, NEW j, q = pkg, j = register
                 PROVE  /\ Reported(q, j)' = Reported(q, j) \cup Ats(new)
                        /\ \A p, i : p # q \/ i # j => Reported(p, i)' = Reported(p, i)
      OBVIOUS
    <3>1. \A d \in new : d.pkg = q /\ d.register = j
      OBVIOUS
    <3> QED
      BY <3>1, ReportedGrows
  <2>2. \A q, j : q = pkg /\ j = register => Reported(q, j)' = Reported(pkg, register)'
    BY DEF Reported
  <2> QED
    BY <2>1, <2>2
<1>3. \A d \in reports' : DiagOK(d)'
  BY SameWalk DEF WalkInv
<1>4. \A d \in reports' : \/ d.pkg \in done
                          \/ phase = "report" /\ d.pkg = pkg /\ d.register \in 1 .. register
  BY <1>1 DEF WalkInv
<1>5. \A p, i : p # pkg \/ i # register => (ExactFor(p, i)' <=> ExactFor(p, i))
  BY <1>2, SameWalk DEF ExactFor
<1>6. Walking'
  <2>1. IsWalked(Current)' /\ Current' = Current
    BY <1>1, SameWalk DEF Walking, IsWalked
  <2>2. Reported(pkg, register)' \subseteq Target(pkg, Current)'
    BY <1>1, <1>2, SameWalk DEF Walking, Ats
  <2>3. \A g : Covered(g) => Covered(g)'
    BY <1>2, SameProgram DEF Covered
  <2>4. \A item : Handled(item) => Handled(item)'
    BY <1>2, <2>3 DEF Handled
  <2>5. \A g \in seen' : Covered(g)'
    BY <1>1, <2>3 DEF Walking
  <2>6. \A item \in Walked' : item \in Waiting' \/ Handled(item)'
    BY <1>1, <2>4 DEF Walking
  <2>7. \A fr \in ToSet(stack') : FrameOK(fr)'
    BY SameWalk
  <2>8. (register \in 1 .. Len(Registers[pkg]))'
    BY <1>1
  <2> QED
    BY <2>1, <2>2, <2>5, <2>6, <2>7, <2>8 DEF Walking
<1>7. (stack \in Seq(Frame))' /\ (register \in 0 .. Len(Registers[pkg]))'
  BY SameWalk DEF WalkInv
<1>8. \A p \in done : \A i \in DOMAIN Registers[p] : ExactFor(p, i)'
  BY <1>5 DEF WalkInv
<1>9. \A i \in 1 .. register : i # register => ExactFor(pkg, i)'
  BY <1>5 DEF WalkInv
<1>10. done' \subseteq Packages /\ (phase' # "idle" => pkg' \notin done')
  BY DEF WalkInv
<1> QED
  BY <1>3, <1>4, <1>6, <1>7, <1>8, <1>9, <1>10 DEF WalkInv

Top == Last(stack)
Item == Head(Top.rest)

\* The top frame and the item it comes to.
LEMMA TopOfStack ==
    ASSUME FactInv, WalkInv, phase = "report", stack # <<>>, Top.rest # <<>>
    PROVE  /\ source \in Programs /\ pkg \in Packages /\ Walking
           /\ EntryHome(Current, pkg) = pkg
           /\ Top.body \in OwnBodies(pkg) /\ Top.chain \in Seq(Functions) /\ FrameOK(Top)
           /\ IsBody(Top.body) /\ IsBodyIn(Top.body, pkg)
           /\ Item \in Replayed(Top.body)
           /\ IsFound(Item) => Item.at \in Found(Top.body)
           /\ IsCall(Item, pkg) => Item.fn \in ToSet(Callees(Top.body, pkg))
           /\ Popped \in Seq(Frame) /\ Popped # <<>>
           /\ \A fr \in ToSet(Popped) : FrameOK(fr)
           /\ \A w \in Waiting : w = Item \/ \E fr \in ToSet(Popped) : w \in ToSet(fr.rest)
<1>1. source \in Programs /\ pkg \in Packages
  BY DEF FactInv, PassOK
<1>2. Walking /\ stack \in Seq(Frame)
  BY DEF WalkInv
<1>3. EntryHome(Current, pkg) = pkg
  BY <1>2 DEF Walking, IsWalked, EntryHome
<1>4. /\ Popped \in Seq(Frame) /\ Popped # <<>>
      /\ Top \in ToSet(stack) /\ Top \in Frame /\ Item \in ToSet(Top.rest)
      /\ \A fr \in ToSet(Popped) :
           \E o \in ToSet(stack) : /\ fr.body = o.body /\ fr.chain = o.chain
                                   /\ ToSet(fr.rest) \subseteq ToSet(o.rest)
      /\ \A w \in Waiting : w = Item \/ \E fr \in ToSet(Popped) : w \in ToSet(fr.rest)
  BY <1>2, PoppedFrames DEF Top, Item
<1>5. \A fr \in ToSet(Popped) : FrameOK(fr)
  BY <1>2, <1>4, FrameMoves DEF Walking
<1>6. Top.body \in OwnBodies(pkg) /\ Top.chain \in Seq(Functions)
  BY <1>4 DEF Frame
<1>7. FrameOK(Top)
  BY <1>2, <1>4 DEF Walking
<1>8. Item \in Replayed(Top.body)
  BY <1>4, <1>7 DEF FrameOK
<1>9. IsBody(Top.body) /\ IsBodyIn(Top.body, pkg)
  BY <1>1, <1>6, OwnBodyIsBody
<1>10. IsFound(Item) => Item.at \in Found(Top.body)
  BY <1>8, <1>9, FoundElements
<1>11. IsCall(Item, pkg) => Item.fn \in ToSet(Callees(Top.body, pkg))
  BY <1>8, <1>9, CalleesElements
<1> QED
  BY <1>1, <1>2, <1>3, <1>4, <1>5, <1>6, <1>7, <1>8, <1>9, <1>10, <1>11

\* A diagnostic of the walk under way that stands in the package, at the end of
\* a path from the registered workflow.
LEMMA WalkDiagOK ==
    ASSUME Walking, EntryHome(Current, pkg) = pkg,
           NEW d, d.pkg = pkg, d.register = register, d.site \in OwnPositions(pkg),
           IsPath(Entry(Current), pkg, d.chain, d.at)
    PROVE  DiagOK(d)
<1>1. ~(Current.k = "named" /\ Home[Current.fn] # pkg)
  BY DEF Walking, IsWalked
<1>2. Registers[d.pkg][d.register] = Current
  BY DEF Current
<1> QED
  BY <1>1, <1>2 DEF DiagOK, IsExplained

\* The path to a frame goes on with the paths of what its body calls.
LEMMA PathGoesOn ==
    ASSUME NEW fr, FrameOK(fr), fr.chain \in Seq(Functions),
           NEW g \in Functions, g \in ToSet(Callees(fr.body, pkg)),
           NEW chain \in Seq(Functions), NEW at, IsPath(source[g], Home[g], chain, at)
    PROVE  IsPath(Entry(Current), pkg, Append(fr.chain, g) \o chain, at)
<1>1. <<g>> \o chain \in Seq(Functions) /\ IsPath(fr.body, pkg, <<g>> \o chain, at)
  BY PathPrepended
<1>2. IsPath(Entry(Current), pkg, fr.chain \o (<<g>> \o chain), at)
  BY <1>1 DEF FrameOK
<1> DEFINE c == fr.chain
<1>3. c \in Seq(Functions)
  OBVIOUS
<1> HIDE DEF c
<1>4. c \o (<<g>> \o chain) = Append(c, g) \o chain
  <2>1. <<g>> \in Seq(Functions)
    OBVIOUS
  <2>2. (c \o <<g>>) \o chain = c \o (<<g>> \o chain)
    BY <1>3, <2>1, ConcatAssociative
  <2>3. Append(c, g) = c \o <<g>>
    BY <1>3, AppendIsConcat
  <2> QED
    BY <2>2, <2>3
<1> QED
  BY <1>2, <1>4 DEF c

\* reportBody at an operation.
LEMMA FoundStep ==
    ASSUME FactInv, WalkInv, ReportBody, IsFound(Item)
    PROVE  WalkInv'
<1> DEFINE new == Report({[at |-> Item.at, chain |-> Top.chain]}, "")
<1>0. ~IsCall(Item, pkg)
  BY DEF IsFound, IsCall
<1>1. /\ phase = "report" /\ stack # <<>> /\ Top.rest # <<>>
      /\ source' = source /\ done' = done /\ pkg' = pkg /\ phase' = phase
      /\ register' = register
      /\ stack' = Popped /\ seen' = seen /\ reports' = reports \cup new
  BY <1>0 DEF ReportBody, Top, Item, Popped, passVars
<1>2. /\ Walking /\ EntryHome(Current, pkg) = pkg /\ source \in Programs /\ pkg \in Packages
      /\ Top.body \in OwnBodies(pkg) /\ Top.chain \in Seq(Functions) /\ FrameOK(Top)
      /\ IsBody(Top.body) /\ Item \in Replayed(Top.body) /\ Item.at \in Found(Top.body)
      /\ Popped \in Seq(Frame) /\ Popped # <<>> /\ \A fr \in ToSet(Popped) : FrameOK(fr)
      /\ \A w \in Waiting : w = Item \/ \E fr \in ToSet(Popped) : w \in ToSet(fr.rest)
  BY <1>1, TopOfStack
<1>3. new = {[pkg |-> pkg, register |-> register, at |-> Item.at, chain |-> Top.chain,
              site |-> Item.at]}
  BY <1>1 DEF Report
<1>4. Item.at \in Target(pkg, Current)
  BY <1>2 DEF FrameOK, Ops
<1>5. IsPath(Entry(Current), pkg, Top.chain, Item.at)
  <2>1. IsPath(Top.body, pkg, <<>>, Item.at) /\ <<>> \in Seq(Functions)
    BY <1>2, EmptyPath
  <2>2. IsPath(Entry(Current), pkg, Top.chain \o <<>>, Item.at)
    BY <1>2, <2>1 DEF FrameOK
  <2>3. \A c \in Seq(Functions) : c \o <<>> = c
    OBVIOUS
  <2> QED
    BY <1>2, <2>2, <2>3
<1>6. Item.at \in OwnPositions(pkg)
  BY <1>2, ItemPosition, OwnPositionsOfBody
<1> HIDE DEF new
<1>7. \A d \in new : /\ d.pkg = pkg /\ d.register = register
                     /\ DiagOK(d) /\ d.at \in Target(pkg, Current)
  BY <1>2, <1>3, <1>4, <1>5, <1>6, WalkDiagOK
<1>8. ASSUME NEW x, x = Item PROVE Handled(x)'
  <2>1. x.at \in Reported(pkg, register)'
    <3>1. [pkg |-> pkg, register |-> register, at |-> Item.at, chain |-> Top.chain,
           site |-> Item.at] \in reports'
      BY <1>1, <1>3
    <3> QED
      BY <1>1, <1>8, <3>1 DEF Reported
  <2> QED
    BY <1>0, <1>1, <1>8, <2>1 DEF Handled
<1>9. \A w \in Waiting : w \in Waiting' \/ Handled(w)'
  BY <1>1, <1>2, <1>8 DEF Waiting
<1>10. \A w \in Walked' : w \in Walked
  BY <1>1, SameWalk DEF Walked, Entry
<1> QED
  BY <1>1, <1>2, <1>7, <1>9, <1>10, WalkingStep DEF Walking

\* reportBody at an item that leads nowhere, or where the walk has been.
LEMMA PassedStep ==
    ASSUME FactInv, WalkInv, ReportBody, ~IsFound(Item),
           IsCall(Item, pkg) => Item.fn \in seen
    PROVE  WalkInv'
<1>1. /\ phase = "report" /\ stack # <<>> /\ Top.rest # <<>>
      /\ source' = source /\ done' = done /\ pkg' = pkg /\ phase' = phase
      /\ register' = register
      /\ stack' = Popped /\ seen' = seen /\ reports' = reports \cup {}
  BY DEF ReportBody, Top, Item, Popped, passVars
<1>2. /\ Walking /\ source \in Programs
      /\ Popped \in Seq(Frame) /\ Popped # <<>> /\ \A fr \in ToSet(Popped) : FrameOK(fr)
      /\ \A w \in Waiting : w = Item \/ \E fr \in ToSet(Popped) : w \in ToSet(fr.rest)
  BY <1>1, TopOfStack
<1>3. ASSUME NEW x, x = Item PROVE Handled(x)'
  <2>1. Handled(x)
    BY <1>2, <1>3 DEF Handled, Walking
  <2> QED
    BY <1>1, <2>1, SameProgram DEF Handled, Covered, Reported
<1>4. \A w \in Waiting : w \in Waiting' \/ Handled(w)'
  BY <1>1, <1>2, <1>3 DEF Waiting
<1>5. \A w \in Walked' : w \in Walked
  BY <1>1, SameWalk DEF Walked, Entry
<1> DEFINE none == {}
<1>6. reports' = reports \cup none /\ none = {}
  BY <1>1
<1> HIDE DEF none
<1>7. \A d \in none : /\ d.pkg = pkg /\ d.register = register
                      /\ DiagOK(d) /\ d.at \in Target(pkg, Current)
  BY <1>6
<1>8. seen' \subseteq Functions /\ seen \subseteq seen' /\ \A x \in seen' \ seen : Covered(x)'
  BY <1>1, <1>2 DEF Walking
<1> QED
  BY <1>1, <1>2, <1>4, <1>5, <1>6, <1>7, <1>8, WalkingStep

\* reportBody at a call of a function of this package that it has not entered.
LEMMA EnteredStep ==
    ASSUME FactInv, WalkInv, ReportBody, IsCall(Item, pkg), Item.fn \notin seen,
           Home[Item.fn] = pkg
    PROVE  WalkInv'
<1> DEFINE g == Item.fn
           entered == [body |-> source[g], rest |-> Inspect(source[g]),
                       chain |-> Append(Top.chain, g)]
<1>0. ~IsFound(Item) /\ Item.k = "call"
  BY DEF IsFound, IsCall
<1>1. /\ phase = "report" /\ stack # <<>> /\ Top.rest # <<>>
      /\ source' = source /\ done' = done /\ pkg' = pkg /\ phase' = phase
      /\ register' = register
      /\ stack' = Append(Popped, entered) /\ seen' = seen \cup {g}
      /\ reports' = reports \cup {}
  BY <1>0 DEF ReportBody, Top, Item, Popped, passVars
<1>2. /\ Walking /\ source \in Programs /\ pkg \in Packages
      /\ Top.body \in OwnBodies(pkg) /\ Top.chain \in Seq(Functions) /\ FrameOK(Top)
      /\ IsBodyIn(Top.body, pkg) /\ g \in ToSet(Callees(Top.body, pkg))
      /\ Popped \in Seq(Frame) /\ Popped # <<>> /\ \A fr \in ToSet(Popped) : FrameOK(fr)
      /\ \A w \in Waiting : w = Item \/ \E fr \in ToSet(Popped) : w \in ToSet(fr.rest)
  BY <1>1, TopOfStack
<1>3. /\ g \in Functions /\ Ops(source[g], pkg) \subseteq Ops(Top.body, pkg)
  BY <1>2, OpsOfCall
<1>4. source[g] \in OwnBodies(pkg) /\ IsBody(source[g])
  <2>1. source[g] \in OwnBodies(pkg)
    BY <1>3 DEF OwnBodies, Bodies
  <2> QED
    BY <1>2, <2>1, OwnBodyIsBody
<1>5. /\ Inspect(source[g]) \in Seq(Replayed(source[g]))
      /\ ToSet(Inspect(source[g])) = Replayed(source[g])
  BY <1>4, InspectElements
<1>6. Append(Top.chain, g) \in Seq(Functions)
  BY <1>2, <1>3
<1> HIDE DEF g
<1>7. entered \in Frame
  <2> DEFINE B == Replayed(source[g])
             I == UNION {Replayed(b) : b \in OwnBodies(pkg)}
             s == Inspect(source[g])
  <2>1. B \subseteq I
    BY <1>4
  <2>2. s \in Seq(B)
    BY <1>5
  <2> HIDE DEF B, I, s
  <2>3. s \in Seq(I)
    BY <2>1, <2>2
  <2> QED
    BY <1>4, <1>6, <2>3 DEF Frame, I, s
<1>8. FrameOK(entered)
  <2>1. ToSet(entered.rest) \subseteq Replayed(entered.body)
    BY <1>5
  <2>2. Ops(entered.body, pkg) \subseteq Target(pkg, Current)
    BY <1>2, <1>3 DEF FrameOK
  <2>3. ASSUME NEW chain \in Seq(Functions), NEW at, IsPath(entered.body, pkg, chain, at)
        PROVE  IsPath(Entry(Current), pkg, entered.chain \o chain, at)
    BY <1>2, <1>3, <2>3, PathGoesOn DEF g
  <2> QED
    BY <2>1, <2>2, <2>3 DEF FrameOK
<1>9. entered.rest = Inspect(source[g])
  OBVIOUS
<1> HIDE DEF entered
<1>10. /\ stack' \in Seq(Frame) /\ stack' # <<>>
       /\ ToSet(stack') = ToSet(Popped) \cup {entered}
  BY <1>1, <1>2, <1>7, AppendElements
<1>11. \A fr \in ToSet(stack') : FrameOK(fr)
  BY <1>2, <1>8, <1>10
<1>12. ASSUME NEW x, x = g PROVE Covered(x)'
  BY <1>1, <1>2, <1>3, <1>12 DEF Covered, g, MayName
<1>13. seen' \subseteq Functions /\ seen \subseteq seen'
  BY <1>1, <1>2, <1>3 DEF Walking
<1>14. \A x \in seen' \ seen : Covered(x)'
  BY <1>1, <1>12
<1>15. \A w \in Waiting : w \in Waiting' \/ Handled(w)'
  <2>1. ASSUME NEW x, x = Item PROVE Handled(x)'
    BY <1>0, <1>1, <1>12, <2>1 DEF Handled, g
  <2> QED
    BY <1>1, <1>2, <1>10, <2>1 DEF Waiting
<1>16. \A w \in Walked' : w \in Walked \/ w \in Waiting'
  <2>1. ASSUME NEW w \in Walked' PROVE w \in Walked \/ w \in Replayed(source[g])
    <3>1. Entry(Current)' = Entry(Current)
      BY <1>1, SameWalk DEF Entry
    <3> QED
      BY <1>1, <2>1, <3>1 DEF Walked
  <2>2. Replayed(source[g]) \subseteq Waiting'
    BY <1>5, <1>9, <1>10 DEF Waiting
  <2> QED
    BY <2>1, <2>2
<1> DEFINE none == {}
<1>17. reports' = reports \cup none /\ none = {}
  BY <1>1
<1> HIDE DEF none
<1> QED
  BY <1>1, <1>2, <1>10, <1>11, <1>13, <1>14, <1>15, <1>16, <1>17, WalkingStep

\* reportBody at a call of a function of another package: its fact is reported.
LEMMA FactStep ==
    ASSUME FactInv, ReasonPaths, WalkInv, ReportBody, IsCall(Item, pkg),
           Item.fn \notin seen, Home[Item.fn] # pkg
    PROVE  WalkInv'
<1> DEFINE g == Item.fn
           site == CallSiteOf(g, Top.body)
           diag(r) == [pkg |-> pkg, register |-> register, at |-> r.at,
                       chain |-> Append(Top.chain, g) \o r.chain, site |-> site]
           new == {diag(r) : r \in facts[g]}
<1>0. ~IsFound(Item) /\ Item.k = "call"
  BY DEF IsFound, IsCall
<1>1. /\ phase = "report" /\ stack # <<>> /\ Top.rest # <<>>
      /\ source' = source /\ done' = done /\ pkg' = pkg /\ phase' = phase
      /\ register' = register
      /\ stack' = Popped
      /\ seen' = IF facts[g] = {} THEN seen ELSE seen \cup {g}
      /\ reports' = reports \cup
           Report({[at |-> r.at, chain |-> Append(Top.chain, g) \o r.chain] : r \in facts[g]},
                  site)
  BY <1>0 DEF ReportBody, Top, Item, Popped, passVars
<1>2. /\ Walking /\ source \in Programs /\ pkg \in Packages
      /\ EntryHome(Current, pkg) = pkg
      /\ Top.body \in OwnBodies(pkg) /\ Top.chain \in Seq(Functions) /\ FrameOK(Top)
      /\ IsBody(Top.body) /\ IsBodyIn(Top.body, pkg) /\ g \in ToSet(Callees(Top.body, pkg))
      /\ Popped \in Seq(Frame) /\ Popped # <<>> /\ \A fr \in ToSet(Popped) : FrameOK(fr)
      /\ \A w \in Waiting : w = Item \/ \E fr \in ToSet(Popped) : w \in ToSet(fr.rest)
  BY <1>1, TopOfStack
<1>3. /\ g \in Functions /\ g \in Exported /\ Home[g] \in done
      /\ OpsReachable({g}) \subseteq Target(pkg, Current)
  <2>1. /\ g \in Functions /\ MayName(pkg, g)
        /\ OpsReachable({g}) \subseteq Ops(Top.body, pkg)
    BY <1>2, OpsOfCall
  <2>2. g \in Exported /\ Home[g] \in done
    BY <1>1, <2>1 DEF MayName, FactInv, PassOK
  <2> QED
    BY <1>2, <2>1, <2>2 DEF FrameOK
<1>4. Ats(facts[g]) = OpsReachable({g})
  BY <1>3 DEF FactInv, Exact
<1>5. site \in OwnPositions(pkg) /\ site # ""
  <2>1. site \in Positions(Top.body) /\ site # ""
    BY <1>2, CallSitePosition
  <2> QED
    BY <1>2, <2>1, OwnPositionsOfBody
<1> HIDE DEF site, g
<1>6. reports' = reports \cup new
  <2> DEFINE mid == {[at |-> r.at, chain |-> Append(Top.chain, g) \o r.chain] : r \in facts[g]}
  <2>1. Report(mid, site) = {[pkg |-> pkg, register |-> register, at |-> q.at,
                              chain |-> q.chain, site |-> site] : q \in mid}
    BY <1>1, <1>5 DEF Report
  <2>2. ASSUME NEW q \in mid
        PROVE  [pkg |-> pkg, register |-> register, at |-> q.at, chain |-> q.chain,
                site |-> site] \in new
    <3>1. PICK r \in facts[g] : q = [at |-> r.at, chain |-> Append(Top.chain, g) \o r.chain]
      OBVIOUS
    <3>2. q.at = r.at /\ q.chain = Append(Top.chain, g) \o r.chain
      BY <3>1
    <3>3. diag(r) \in new
      OBVIOUS
    <3> HIDE DEF new, mid
    <3> QED
      BY <3>2, <3>3
  <2>3. ASSUME NEW r \in facts[g]
        PROVE  \E q \in mid : q.at = r.at /\ q.chain = Append(Top.chain, g) \o r.chain
    <3>1. [at |-> r.at, chain |-> Append(Top.chain, g) \o r.chain] \in mid
      OBVIOUS
    <3> QED
      BY <3>1
  <2> HIDE DEF mid
  <2>4. Report(mid, site) \subseteq new
    <3> HIDE DEF new
    <3> QED
      BY <2>1, <2>2
  <2>5. new \subseteq Report(mid, site)
    BY <2>1, <2>3
  <2> QED
    BY <1>1, <2>4, <2>5 DEF mid
<1>7. ASSUME NEW d \in new
      PROVE  /\ d.pkg = pkg /\ d.register = register
             /\ DiagOK(d) /\ d.at \in Target(pkg, Current)
  <2>1. PICK r \in facts[g] : d = diag(r)
    OBVIOUS
  <2>2. r.chain \in Seq(Functions) /\ IsPath(source[g], Home[g], r.chain, r.at)
    BY <1>3 DEF ReasonPaths, IsReasonOf
  <2>3. IsPath(Entry(Current), pkg, Append(Top.chain, g) \o r.chain, r.at)
    BY <1>2, <1>3, <2>2, PathGoesOn
  <2>4. r.at \in Target(pkg, Current)
    BY <1>3, <1>4 DEF Ats
  <2>5. /\ d.pkg = pkg /\ d.register = register /\ d.at = r.at
        /\ d.chain = Append(Top.chain, g) \o r.chain /\ d.site = site
    BY <2>1
  <2>6. DiagOK(d)
    BY <1>2, <1>5, <2>3, <2>5, WalkDiagOK
  <2> QED
    BY <2>4, <2>5, <2>6
<1>8. ASSUME NEW r \in facts[g]
      PROVE  \E d \in new : d.pkg = pkg /\ d.register = register /\ d.at = r.at
  <2>1. diag(r) \in new
    OBVIOUS
  <2> QED
    BY <2>1
<1> HIDE DEF new
<1>9. OpsReachable({g}) \subseteq Reported(pkg, register)'
  BY <1>1, <1>4, <1>6, <1>8 DEF Reported, Ats
<1>10. ASSUME NEW x, x = g PROVE Covered(x)'
  <2>1. OpsReachable({x})' = OpsReachable({g})
    BY <1>1, <1>10, SameProgram
  <2> QED
    BY <1>9, <2>1 DEF Covered
<1>11. seen' \subseteq Functions /\ seen \subseteq seen' /\ seen' \subseteq seen \cup {g}
  BY <1>1, <1>2, <1>3 DEF Walking
<1>12. \A x \in seen' \ seen : Covered(x)'
  BY <1>10, <1>11
<1>13. \A w \in Waiting : w \in Waiting' \/ Handled(w)'
  <2>1. ASSUME NEW x, x = Item PROVE Handled(x)'
    BY <1>0, <1>1, <1>10, <2>1 DEF Handled, g
  <2> QED
    BY <1>1, <1>2, <2>1 DEF Waiting
<1>14. \A w \in Walked' : w \in Walked
  <2>1. Entry(Current)' = Entry(Current)
    BY <1>1, SameWalk DEF Entry
  <2>2. \A h \in seen' : Home[h] = pkg => h \in seen
    BY <1>11 DEF g
  <2> QED
    BY <1>1, <2>1, <2>2 DEF Walked
<1> QED
  BY <1>1, <1>2, <1>6, <1>7, <1>11, <1>12, <1>13, <1>14, WalkingStep

\* Whatever item comes next, the walk goes on well.
LEMMA ReportBodyWalk ==
    ASSUME FactInv, ReasonPaths, WalkInv, ReportBody
    PROVE  WalkInv'
<1>1. CASE IsFound(Item)
  BY <1>1, FoundStep
<1>2. CASE ~IsFound(Item) /\ (IsCall(Item, pkg) => Item.fn \in seen)
  BY <1>2, PassedStep
<1>3. CASE IsCall(Item, pkg) /\ Item.fn \notin seen /\ Home[Item.fn] = pkg
  BY <1>3, EnteredStep
<1>4. CASE IsCall(Item, pkg) /\ Item.fn \notin seen /\ Home[Item.fn] # pkg
  BY <1>4, FactStep
<1> QED
  BY <1>1, <1>2, <1>3, <1>4

\* A registration of the package is a workflow of its own, or another package's.
LEMMA EntryIsOwn ==
    ASSUME source \in Programs, NEW p \in Packages, NEW r \in ToSet(Registers[p]),
           r.k = "literal" \/ (r.k = "named" /\ Home[r.fn] = p)
    PROVE  /\ Entry(r) \in OwnBodies(p) /\ EntryHome(r, p) = p
           /\ IsBody(Entry(r)) /\ IsBodyIn(Entry(r), p)
<1>1. CASE r.k = "literal"
  <2>1. Entry(r) = r.body /\ EntryHome(r, p) = p
    BY <1>1 DEF Entry, EntryHome
  <2> QED
    BY <1>1, <2>1, OwnBodyIsBody DEF OwnBodies
<1>2. CASE r.k = "named" /\ Home[r.fn] = p
  <2>1. Entry(r) = source[r.fn] /\ EntryHome(r, p) = p
    BY <1>2 DEF Entry, EntryHome
  <2>2. r.fn \in Functions
    BY <1>2, ProgramAssumption DEF MayName
  <2> QED
    BY <1>2, <2>1, <2>2, OwnBodyIsBody DEF OwnBodies, Bodies
<1> QED
  BY <1>1, <1>2

\* The registrations of a package are a sequence.
LEMMA RegistersInOrder ==
    ASSUME NEW p \in Packages
    PROVE  /\ DOMAIN Registers[p] = 1 .. Len(Registers[p]) /\ Len(Registers[p]) \in Nat
           /\ \A i \in 1 .. Len(Registers[p]) : Registers[p][i] \in ToSet(Registers[p])
<1>1. Registers[p] \in Seq(ToSet(Registers[p]))
  BY ProgramAssumption DEF IsSeq
<1> QED
  BY <1>1

\* When nothing is left to walk, everything the workflow leads to is reported:
\* the functions whose operations are reported are closed under calls.
LEMMA WalkIsComplete ==
    ASSUME FactInv, WalkInv, phase = "report", stack # <<>>, Waiting = {}
    PROVE  ExactFor(pkg, register)
<1> DEFINE body == Entry(Current)
           R == Reported(pkg, register)
           T == {h \in Functions : Covered(h)}
           fs == ToSet(Callees(body, pkg))
<1>1. Walking /\ source \in Programs /\ pkg \in Packages
  BY DEF WalkInv, FactInv, PassOK
<1>2. /\ Current \in ToSet(Registers[pkg])
      /\ Current.k = "literal" \/ (Current.k = "named" /\ Home[Current.fn] = pkg)
  BY <1>1, RegistersInOrder DEF Walking, IsWalked, Current
<1>3. /\ body \in OwnBodies(pkg) /\ EntryHome(Current, pkg) = pkg
      /\ IsBody(body) /\ IsBodyIn(body, pkg)
  BY <1>1, <1>2, EntryIsOwn
<1>4. \A item \in Walked : Handled(item)
  BY <1>1 DEF Walking
<1>5. Replayed(body) \subseteq Walked
  BY DEF Walked
<1>6. Found(body) \subseteq R
  BY <1>3, <1>4, <1>5, FoundElements DEF Handled
<1>7. fs \subseteq T
  <2>1. ASSUME NEW g \in fs PROVE Covered(g)
    BY <1>3, <1>4, <1>5, CalleesElements DEF Handled
  <2>2. fs \subseteq Functions
    BY <1>3 DEF IsBodyIn, MayName
  <2> QED
    BY <2>1, <2>2
<1>8. ASSUME NEW h \in T, h \in seen, Home[h] = pkg
      PROVE  Direct(h) \subseteq R /\ \A c \in CallSet(h) : Covered(c)
  <2>1. Replayed(source[h]) \subseteq Walked
    BY <1>8 DEF Walked
  <2>2. IsBody(source[h])
    BY <1>1, ProgramAssumption DEF IsBodyIn
  <2>3. Direct(h) \subseteq R
    BY <1>4, <2>1, <2>2, FoundElements DEF Handled, Direct
  <2>4. ASSUME NEW c \in CallSet(h) PROVE Covered(c)
    <3>1. PICK item \in Replayed(source[h]) : IsCall(item, pkg) /\ item.fn = c
      BY <1>8, <2>2, CalleesElements DEF CallSet, Calls
    <3> QED
      BY <1>4, <2>1, <3>1 DEF Handled
  <2> QED
    BY <2>3, <2>4
<1>9. ASSUME NEW h \in T, OpsReachable({h}) \subseteq R
      PROVE  Direct(h) \subseteq R /\ \A c \in CallSet(h) : Covered(c)
  <2>1. \A c \in CallSet(h) : OpsReachable({c}) \subseteq OpsReachable({h})
    BY CalleesAreReachable
  <2> QED
    BY <1>9, <2>1, DirectIsReachable DEF Covered
<1>10. \A h \in T : Direct(h) \subseteq R /\ \A c \in CallSet(h) : Covered(c)
  BY <1>8, <1>9 DEF Covered
<1>11. Closed(T)
  BY <1>1, <1>10, CallsAreVisible DEF Closed, CallSet
<1>12. OpsReachable(fs) \subseteq R
  <2> HIDE DEF fs, T, R
  <2>1. T \in SUBSET Functions /\ fs \in SUBSET Functions
    BY <1>7 DEF T
  <2> QED
    BY <1>7, <1>10, <1>11, <2>1, OpsWithin
<1>13. Target(pkg, Current) \subseteq R
  BY <1>3, <1>6, <1>12 DEF Target, Ops
<1> QED
  BY <1>1, <1>13 DEF ExactFor, Walking, Current

\* What is reported of a registration depends on the diagnostics.
LEMMA SameReports ==
    ASSUME source' = source, reports' = reports
    PROVE  /\ \A p, i : Reported(p, i)' = Reported(p, i) /\ (ExactFor(p, i)' <=> ExactFor(p, i))
           /\ \A d : DiagOK(d)' <=> DiagOK(d)
<1>1. \A p, i : Reported(p, i)' = Reported(p, i)
  BY DEF Reported
<1>2. \A p, i : ExactFor(p, i)' <=> ExactFor(p, i)
  BY <1>1, SameWalk DEF ExactFor
<1> QED
  BY <1>1, <1>2, SameWalk

\* A body is left: whatever was waiting still waits below.
LEMMA ReturnWalk ==
    ASSUME FactInv, WalkInv, ReportBodyReturns
    PROVE  WalkInv'
<1>1. /\ phase = "report" /\ stack # <<>> /\ Last(stack).rest = <<>>
      /\ source' = source /\ done' = done /\ pkg' = pkg /\ phase' = phase
      /\ register' = register /\ seen' = seen /\ reports' = reports
      /\ stack' = Front(stack)
  BY DEF ReportBodyReturns, passVars
<1>2. Walking /\ stack \in Seq(Frame) /\ register \in 1 .. Len(Registers[pkg])
  BY <1>1 DEF WalkInv, Walking
<1>3. stack' \in Seq(Frame) /\ ToSet(stack) = ToSet(stack') \cup {Last(stack)}
  BY <1>1, <1>2, LastAndFront
<1>4. ToSet(Last(stack).rest) = {}
  BY <1>1 DEF ToSet
<1>5. ASSUME NEW w \in Waiting PROVE \E fr \in ToSet(stack') : w \in ToSet(fr.rest)
  BY <1>3, <1>4 DEF Waiting
<1>6. CASE stack' = <<>>
  <2>1. Waiting = {}
    BY <1>5, <1>6 DEF ToSet
  <2>2. ExactFor(pkg, register)
    BY <1>1, <2>1, WalkIsComplete
  <2>3. \A i \in 1 .. register : ExactFor(pkg, i)
    BY <1>1, <2>2 DEF WalkInv
  <2>4. \A i \in 1 .. register : ExactFor(pkg, i)'
    BY <1>1, <2>3, SameReports
  <2>5. \A p \in done : \A i \in DOMAIN Registers[p] : ExactFor(p, i)'
    BY <1>1, SameReports DEF WalkInv
  <2>6. \A d \in reports' : DiagOK(d)'
    BY <1>1, SameReports DEF WalkInv
  <2>7. (stack \in Seq(Frame))' /\ (stack = <<>>)' /\ (register \in 0 .. Len(Registers[pkg]))'
    BY <1>1, <1>2, <1>3, <1>6, SameWalk DEF WalkInv
  <2>8. \A d \in reports' : \/ d.pkg \in done'
                            \/ phase' = "report" /\ d.pkg = pkg' /\ d.register \in 1 .. register'
    BY <1>1 DEF WalkInv
  <2>9. done' \subseteq Packages /\ (phase' # "idle" => pkg' \notin done')
    BY <1>1 DEF WalkInv
  <2> QED
    BY <1>1, <2>4, <2>5, <2>6, <2>7, <2>8, <2>9 DEF WalkInv
<1>7. CASE stack' # <<>>
  <2> DEFINE none == {}
  <2>1. reports' = reports \cup none /\ none = {}
    BY <1>1
  <2> HIDE DEF none
  <2>2. \A d \in none : /\ d.pkg = pkg /\ d.register = register
                        /\ DiagOK(d) /\ d.at \in Target(pkg, Current)
    BY <2>1
  <2>3. /\ seen' \subseteq Functions /\ seen \subseteq seen'
        /\ \A x \in seen' \ seen : Covered(x)'
    BY <1>1, <1>2 DEF Walking
  <2>4. \A w \in Waiting : w \in Waiting' \/ Handled(w)'
    BY <1>5 DEF Waiting
  <2>5. \A w \in Walked' : w \in Walked
    BY <1>1, SameWalk DEF Walked, Entry
  <2>6. \A fr \in ToSet(stack') : FrameOK(fr)
    BY <1>2, <1>3 DEF Walking
  <2> QED
    BY <1>1, <1>3, <1>7, <2>1, <2>2, <2>3, <2>4, <2>5, <2>6, WalkingStep
<1> QED
  BY <1>6, <1>7

\* The registration a pass comes to next, and what is known before it does.
Coming == Registers[pkg][register + 1]

\* Nothing is reported yet of the registration that comes next.
LEMMA BeforeEntry ==
    ASSUME FactInv, WalkInv, phase = "report", stack = <<>>,
           register < Len(Registers[pkg])
    PROVE  /\ source \in Programs /\ pkg \in Packages
           /\ register + 1 \in 1 .. Len(Registers[pkg]) /\ register + 1 \notin 1 .. register
           /\ Coming \in ToSet(Registers[pkg])
           /\ Reported(pkg, register + 1) = {}
           /\ \A i \in 1 .. register : ExactFor(pkg, i)
<1>1. source \in Programs /\ pkg \in Packages
  BY DEF FactInv, PassOK
<1>2. register \in 0 .. Len(Registers[pkg]) /\ Len(Registers[pkg]) \in Nat
  BY <1>1, RegistersInOrder DEF WalkInv
<1>3. register + 1 \in 1 .. Len(Registers[pkg]) /\ register + 1 \notin 1 .. register
  BY <1>2
<1>4. Coming \in ToSet(Registers[pkg])
  BY <1>1, <1>3, RegistersInOrder DEF Coming
<1>5. Reported(pkg, register + 1) = {}
  <2>1. pkg \notin done
    BY DEF WalkInv
  <2> QED
    BY <1>3, <2>1 DEF Reported, WalkInv
<1>6. \A i \in 1 .. register : ExactFor(pkg, i)
  BY DEF WalkInv
<1> QED
  BY <1>1, <1>3, <1>4, <1>5, <1>6

\* The walk of a workflow of the package's own starts with all of its body.
LEMMA WalkStarts ==
    ASSUME FactInv, WalkInv, phase = "report", stack = <<>>,
           register < Len(Registers[pkg]),
           source' = source, done' = done, pkg' = pkg, phase' = phase,
           reports' = reports, register' = register + 1, IsWalked(Coming),
           stack' = <<[body |-> Entry(Coming), rest |-> Inspect(Entry(Coming)),
                       chain |-> <<>>]>>,
           seen' = IF Coming.k = "literal" THEN {} ELSE {Coming.fn}
    PROVE  WalkInv'
<1> DEFINE body == Entry(Coming)
           fr == [body |-> body, rest |-> Inspect(body), chain |-> <<>>]
<1>1. /\ source \in Programs /\ pkg \in Packages
      /\ register + 1 \in 1 .. Len(Registers[pkg]) /\ register + 1 \notin 1 .. register
      /\ Coming \in ToSet(Registers[pkg])
      /\ Reported(pkg, register + 1) = {}
      /\ \A i \in 1 .. register : ExactFor(pkg, i)
  BY BeforeEntry
<1>2. body \in OwnBodies(pkg) /\ EntryHome(Coming, pkg) = pkg /\ IsBody(body)
  BY <1>1, EntryIsOwn DEF IsWalked
<1>3. Inspect(body) \in Seq(Replayed(body)) /\ ToSet(Inspect(body)) = Replayed(body)
  BY <1>2, InspectElements
<1>4. Current' = Coming
  BY DEF Current, Coming
<1> HIDE DEF body
<1>5. fr \in Frame
  <2> DEFINE B == Replayed(body)
             I == UNION {Replayed(b) : b \in OwnBodies(pkg)}
             s == Inspect(body)
  <2>1. B \subseteq I
    BY <1>2
  <2>2. s \in Seq(B)
    BY <1>3
  <2> HIDE DEF B, I, s
  <2>3. s \in Seq(I)
    BY <2>1, <2>2
  <2> QED
    BY <1>2, <2>3 DEF Frame, I, s
<1>6. ToSet(fr.rest) = Replayed(body) /\ fr.body = body /\ fr.chain = <<>>
  BY <1>3
<1> HIDE DEF fr
<1>7. stack' = <<fr>>
  BY DEF fr, body
<1>8. stack' \in Seq(Frame) /\ stack' # <<>> /\ ToSet(stack') = {fr}
  <2>1. <<fr>> \in Seq(Frame) /\ <<fr>> # <<>> /\ ToSet(<<fr>>) = {fr}
    BY <1>5 DEF ToSet
  <2> QED
    BY <1>7, <2>1
<1>9. Ops(body, pkg) = Target(pkg, Coming)
  BY <1>2 DEF Target, body
<1>10. ASSUME NEW f, f = fr PROVE FrameOK(f)'
  <2>1. (ToSet(f.rest) \subseteq Replayed(f.body))'
    BY <1>6, <1>10
  <2>2. (Ops(f.body, pkg) \subseteq Target(pkg, Current))'
    BY <1>4, <1>6, <1>9, <1>10, SameWalk
  <2>3. ASSUME NEW chain \in Seq(Functions), NEW at, IsPath(f.body, pkg, chain, at)'
        PROVE  IsPath(Entry(Current), pkg, f.chain \o chain, at)'
    <3>1. f.chain \o chain = chain
      BY <1>6, <1>10, <2>3, ConcatEmptySeq
    <3>2. IsPath(body, pkg, chain, at)
      BY <1>6, <1>10, <2>3, SamePaths
    <3>3. Entry(Current)' = body
      BY <1>4 DEF body, Entry
    <3> QED
      BY <3>1, <3>2, <3>3, SamePaths
  <2> QED
    BY <2>1, <2>2, <2>3 DEF FrameOK
<1>11. Reported(pkg, register)' = {}
  BY <1>1 DEF Reported
<1>12. seen' \subseteq Functions /\ \A g \in seen' : Home[g] = pkg /\ source[g] = body
  <2>1. CASE Coming.k = "literal"
    BY <2>1
  <2>2. CASE Coming.k # "literal"
    BY <1>1, <2>2, ProgramAssumption DEF IsWalked, MayName, Entry, body
  <2> QED
    BY <2>1, <2>2
<1>13. Walking'
  <2>1. (register \in 1 .. Len(Registers[pkg]))'
    BY <1>1
  <2>2. IsWalked(Current)'
    BY <1>4 DEF IsWalked
  <2>3. (Reported(pkg, register) \subseteq Target(pkg, Current))'
    BY <1>11
  <2>4. (\A f \in ToSet(stack) : FrameOK(f))'
    BY <1>8, <1>10
  <2>5. (\A g \in seen : Covered(g))'
    BY <1>12 DEF Covered
  <2>6. (\A item \in Walked : item \in Waiting)'
    <3>1. Waiting' = Replayed(body)
      BY <1>6, <1>8 DEF Waiting
    <3>2. Entry(Current)' = body
      BY <1>4 DEF body, Entry
    <3>3. Walked' \subseteq Replayed(body)
      BY <1>12, <3>2 DEF Walked
    <3> QED
      BY <3>1, <3>3
  <2> QED
    BY <1>12, <2>1, <2>2, <2>3, <2>4, <2>5, <2>6 DEF Walking
<1>14. \A i \in 1 .. register : ExactFor(pkg, i)'
  BY <1>1, SameReports
<1>15. \A p \in done : \A i \in DOMAIN Registers[p] : ExactFor(p, i)'
  BY SameReports DEF WalkInv
<1>16. \A d \in reports' : DiagOK(d)'
  BY SameReports DEF WalkInv
<1>17. register \in Nat
  BY DEF WalkInv
<1>18. \A d \in reports' : \/ d.pkg \in done'
                           \/ phase' = "report" /\ d.pkg = pkg' /\ d.register \in 1 .. register'
  BY <1>17 DEF WalkInv
<1>19. done' \subseteq Packages /\ (phase' # "idle" => pkg' \notin done')
  BY DEF WalkInv
<1>20. (stack \in Seq(Frame))' /\ (register \in 0 .. Len(Registers[pkg]))'
  BY <1>1, <1>8, SameWalk
<1>21. \A i \in 1 .. register' : i # register' => ExactFor(pkg, i)'
  BY <1>14, <1>17
<1> QED
  BY <1>8, <1>13, <1>15, <1>16, <1>18, <1>19, <1>20, <1>21 DEF WalkInv

\* The workflow of another package is reported from its fact.
LEMMA FactEntry ==
    ASSUME FactInv, ReasonPaths, WalkInv, phase = "report", stack = <<>>,
           register < Len(Registers[pkg]),
           source' = source, done' = done, pkg' = pkg, phase' = phase,
           register' = register + 1, stack' = stack,
           Coming.k = "named", Home[Coming.fn] # pkg,
           reports' = reports \cup Report(Via(Coming.fn, facts[Coming.fn]), Coming.at)
    PROVE  WalkInv'
<1> DEFINE g == Coming.fn
           idx == register + 1
           diag(r) == [pkg |-> pkg, register |-> idx, at |-> r.at,
                       chain |-> <<g>> \o r.chain, site |-> Coming.at]
           new == {diag(r) : r \in facts[g]}
<1>1. /\ source \in Programs /\ pkg \in Packages
      /\ idx \in 1 .. Len(Registers[pkg]) /\ idx \notin 1 .. register
      /\ Coming \in ToSet(Registers[pkg])
      /\ Reported(pkg, idx) = {}
      /\ \A i \in 1 .. register : ExactFor(pkg, i)
  BY BeforeEntry
<1>2. /\ g \in Functions /\ g \in Exported /\ Home[g] \in done /\ Coming.at # ""
  BY <1>1, ProgramAssumption DEF MayName, FactInv, PassOK
<1>3. Ats(facts[g]) = Target(pkg, Coming)
  <2>1. Ats(facts[g]) = OpsReachable({g})
    BY <1>2 DEF FactInv, Exact
  <2>2. Target(pkg, Coming) = Ops(source[g], Home[g])
    BY DEF Target, Entry, EntryHome
  <2> QED
    BY <1>1, <1>2, <2>1, <2>2, OpsOfFunction
<1>4. Coming.at \in OwnPositions(pkg)
  <2>1. {Coming.at} \in {IF x.k = "literal" THEN Positions(x.body) ELSE {x.at} :
                           x \in ToSet(Registers[pkg])}
    BY <1>1
  <2> QED
    BY <2>1 DEF OwnPositions
<1>5. reports' = reports \cup new
  <2> DEFINE mid == Via(g, facts[g])
  <2>1. Report(mid, Coming.at) = {[pkg |-> pkg, register |-> idx, at |-> q.at,
                                   chain |-> q.chain, site |-> Coming.at] : q \in mid}
    BY <1>2 DEF Report
  <2>2. ASSUME NEW q \in mid
        PROVE  [pkg |-> pkg, register |-> idx, at |-> q.at, chain |-> q.chain,
                site |-> Coming.at] \in new
    <3>1. PICK r \in facts[g] : q = [at |-> r.at, chain |-> <<g>> \o r.chain]
      BY DEF Via
    <3>2. q.at = r.at /\ q.chain = <<g>> \o r.chain
      BY <3>1
    <3>3. diag(r) \in new
      OBVIOUS
    <3> HIDE DEF new, mid
    <3> QED
      BY <3>2, <3>3
  <2>3. ASSUME NEW r \in facts[g]
        PROVE  \E q \in mid : q.at = r.at /\ q.chain = <<g>> \o r.chain
    <3>1. [at |-> r.at, chain |-> <<g>> \o r.chain] \in mid
      BY DEF Via
    <3> QED
      BY <3>1
  <2> HIDE DEF mid
  <2>4. Report(mid, Coming.at) \subseteq new
    <3> HIDE DEF new
    <3> QED
      BY <2>1, <2>2
  <2>5. new \subseteq Report(mid, Coming.at)
    BY <2>1, <2>3
  <2> QED
    BY <2>4, <2>5 DEF mid
<1>6. ASSUME NEW d \in new
      PROVE  d.pkg = pkg /\ d.register = idx /\ DiagOK(d) /\ d.at \in Ats(facts[g])
  <2>1. PICK r \in facts[g] : d = diag(r)
    OBVIOUS
  <2>2. r.chain \in Seq(Functions) /\ IsPath(source[g], Home[g], r.chain, r.at)
    BY <1>2 DEF ReasonPaths, IsReasonOf
  <2>3. /\ d.pkg = pkg /\ d.register = idx /\ d.at = r.at
        /\ d.chain = <<g>> \o r.chain /\ d.site = Coming.at
    BY <2>1
  <2>4. Head(d.chain) = g /\ Tail(d.chain) = r.chain
    <3> DEFINE c == r.chain
    <3>1. c \in Seq(Functions)
      BY <2>2
    <3> HIDE DEF c, g
    <3>2. Head(<<g>> \o c) = g /\ Tail(<<g>> \o c) = c
      <4>1. <<g>> \o c \in Seq(Functions)
        <5>1. g \in Functions
          BY <1>2
        <5>2. <<g>> \in Seq(Functions)
          BY <5>1
        <5> QED
          BY <3>1, <5>2
      <4>2. Tail(<<g>> \o c) \in Seq(Functions) /\ Len(Tail(<<g>> \o c)) = Len(c)
        BY <3>1, <4>1
      <4>3. \A i \in 1 .. Len(c) : Tail(<<g>> \o c)[i] = c[i]
        BY <3>1, <4>1
      <4>4. Tail(<<g>> \o c) = c
        BY <3>1, <4>2, <4>3, SeqEqual
      <4> QED
        BY <3>1, <4>4
    <3> QED
      BY <2>3, <3>2 DEF c
  <2>5. Registers[d.pkg][d.register] = Coming
    BY <2>3 DEF Coming
  <2>6. Entry(Coming) = source[g] /\ EntryHome(Coming, pkg) = Home[g]
    BY DEF Entry, EntryHome
  <2> HIDE DEF g, idx
  <2>7. IsExplained(d)
    BY <2>2, <2>3, <2>4, <2>5, <2>6 DEF IsExplained, g
  <2> QED
    BY <1>4, <2>3, <2>7 DEF DiagOK, Ats
<1>7. \A r \in facts[g] : \E d \in new : d.at = r.at
  <2> SUFFICES ASSUME NEW r \in facts[g] PROVE \E d \in new : d.at = r.at
    OBVIOUS
  <2>1. diag(r) \in new
    OBVIOUS
  <2> QED
    BY <2>1
<1> HIDE DEF new, g
<1>8. Ats(new) = Ats(facts[g])
  BY <1>6, <1>7 DEF Ats
<1>9. ASSUME NEW p, NEW i, p # pkg \/ i # idx PROVE Reported(p, i)' = Reported(p, i)
  BY <1>5, <1>6, <1>9 DEF Reported
<1>10. \A p, i : p # pkg \/ i # idx => (ExactFor(p, i)' <=> ExactFor(p, i))
  BY <1>9, SameWalk DEF ExactFor
<1>11. ASSUME NEW q, NEW i, NEW r, q = pkg, i = idx, r = Coming PROVE ExactFor(q, i)'
  <2>1. Target(q, r)' = Target(q, r)
    BY SameWalk
  <2>2. Reported(q, i) = {} /\ Target(q, r) = Ats(new)
    BY <1>1, <1>3, <1>8, <1>11
  <2>3. \A d \in new : d.pkg = q /\ d.register = i
    BY <1>6, <1>11
  <2>4. Reported(q, i)' = Reported(q, i) \cup Ats(new)
    BY <1>5, <2>3 DEF Reported, Ats
  <2>5. Registers[q][i] = r
    BY <1>11 DEF Coming
  <2> QED
    BY <2>1, <2>2, <2>4, <2>5 DEF ExactFor
<1>12. register \in Nat
  BY DEF WalkInv
<1>13. \A p \in done : \A i \in DOMAIN Registers[p] : ExactFor(p, i)'
  <2>1. pkg \notin done
    BY DEF WalkInv
  <2> QED
    BY <1>10, <2>1 DEF WalkInv
<1>14. \A i \in 1 .. register + 1 : ExactFor(pkg, i)'
  <2>1. \A q, i : q = pkg /\ i \in 1 .. register => ExactFor(q, i)'
    BY <1>1, <1>10
  <2>2. \A q, i : q = pkg /\ i = idx => ExactFor(q, i)'
    BY <1>11
  <2> QED
    BY <1>12, <2>1, <2>2
<1>15. \A d \in reports' : DiagOK(d)'
  BY <1>5, <1>6, SameWalk DEF WalkInv
<1>16. \A d \in reports' : \/ d.pkg \in done'
                           \/ phase' = "report" /\ d.pkg = pkg' /\ d.register \in 1 .. register'
  BY <1>1, <1>5, <1>6, <1>12 DEF WalkInv
<1>17. done' \subseteq Packages /\ (phase' # "idle" => pkg' \notin done')
  BY DEF WalkInv
<1>18. (stack \in Seq(Frame))' /\ (stack = <<>>)' /\ (register \in 0 .. Len(Registers[pkg]))'
  BY <1>1, SameWalk DEF WalkInv
<1> QED
  BY <1>13, <1>14, <1>15, <1>16, <1>17, <1>18 DEF WalkInv

\* A function value that names no function is passed over.
LEMMA ValueEntry ==
    ASSUME FactInv, WalkInv, phase = "report", stack = <<>>,
           register < Len(Registers[pkg]),
           source' = source, done' = done, pkg' = pkg, phase' = phase,
           register' = register + 1, stack' = stack, reports' = reports,
           Coming.k = "value"
    PROVE  WalkInv'
<1>1. /\ register + 1 \in 1 .. Len(Registers[pkg])
      /\ \A i \in 1 .. register : ExactFor(pkg, i)
  BY BeforeEntry
<1>2. register \in Nat
  BY DEF WalkInv
<1>3. \A i \in 1 .. register + 1 : ExactFor(pkg, i)'
  <2>1. \A i \in 1 .. register : ExactFor(pkg, i)'
    BY <1>1, SameReports
  <2>2. \A q, i : q = pkg /\ i = register + 1 => ExactFor(q, i)'
    BY DEF ExactFor, Coming
  <2> QED
    BY <1>2, <2>1, <2>2
<1>4. \A p \in done : \A i \in DOMAIN Registers[p] : ExactFor(p, i)'
  BY SameReports DEF WalkInv
<1>5. \A d \in reports' : DiagOK(d)'
  BY SameReports DEF WalkInv
<1>6. \A d \in reports' : \/ d.pkg \in done'
                          \/ phase' = "report" /\ d.pkg = pkg' /\ d.register \in 1 .. register'
  BY <1>2 DEF WalkInv
<1>7. done' \subseteq Packages /\ (phase' # "idle" => pkg' \notin done')
  BY DEF WalkInv
<1>8. (stack \in Seq(Frame))' /\ (stack = <<>>)' /\ (register \in 0 .. Len(Registers[pkg]))'
  BY <1>1, SameWalk DEF WalkInv
<1> QED
  BY <1>3, <1>4, <1>5, <1>6, <1>7, <1>8 DEF WalkInv

\* Whatever is registered, the walk of it starts well.
LEMMA ReportEntryWalk ==
    ASSUME FactInv, ReasonPaths, WalkInv, ReportEntry
    PROVE  WalkInv'
<1>1. /\ phase = "report" /\ stack = <<>> /\ register < Len(Registers[pkg])
      /\ source' = source /\ done' = done /\ pkg' = pkg /\ phase' = phase
      /\ register' = register + 1
  BY DEF ReportEntry, passVars, Registrations
<1>2. \/ /\ Coming.k = "literal"
         /\ stack' = <<[body |-> Coming.body, rest |-> Inspect(Coming.body), chain |-> <<>>]>>
         /\ seen' = {} /\ reports' = reports
      \/ /\ Coming.k = "named" /\ Home[Coming.fn] = pkg
         /\ stack' = <<[body |-> source[Coming.fn], rest |-> Inspect(source[Coming.fn]),
                        chain |-> <<>>]>>
         /\ seen' = {Coming.fn} /\ reports' = reports
      \/ /\ Coming.k = "named" /\ Home[Coming.fn] # pkg
         /\ reports' = reports \cup Report(Via(Coming.fn, facts[Coming.fn]), Coming.at)
         /\ stack' = stack
      \/ /\ Coming.k = "value"
         /\ stack' = stack /\ reports' = reports
  BY DEF ReportEntry, Coming, Registrations
<1>3. CASE Coming.k = "literal"
  BY <1>1, <1>2, <1>3, WalkStarts DEF IsWalked, Entry
<1>4. CASE Coming.k = "named" /\ Home[Coming.fn] = pkg
  BY <1>1, <1>2, <1>4, WalkStarts DEF IsWalked, Entry
<1>5. CASE Coming.k = "named" /\ Home[Coming.fn] # pkg
  BY <1>1, <1>2, <1>5, FactEntry
<1>6. CASE Coming.k = "value"
  BY <1>1, <1>2, <1>6, ValueEntry
<1> QED
  BY <1>2, <1>3, <1>4, <1>5, <1>6

\* After the last registration all the package's diagnostics are there.
LEMMA PassEndsWalk ==
    ASSUME FactInv, WalkInv, PassEnds
    PROVE  WalkInv'
<1>1. /\ phase = "report" /\ stack = <<>> /\ register = Len(Registers[pkg])
      /\ source' = source /\ reports' = reports
      /\ done' = done \cup {pkg} /\ phase' = "idle"
  BY DEF PassEnds, Registrations
<1>2. pkg \in Packages /\ DOMAIN Registers[pkg] = 1 .. Len(Registers[pkg])
  BY <1>1, RegistersInOrder DEF FactInv, PassOK
<1>3. \A p \in done' : \A i \in DOMAIN Registers[p] : ExactFor(p, i)
  BY <1>1, <1>2 DEF WalkInv
<1>4. \A p \in done' : \A i \in DOMAIN Registers[p] : ExactFor(p, i)'
  BY <1>1, <1>3, SameReports
<1>5. \A d \in reports' : DiagOK(d)' /\ d.pkg \in done'
  BY <1>1, SameReports DEF WalkInv
<1>6. done' \subseteq Packages
  BY <1>1, <1>2 DEF WalkInv
<1> QED
  BY <1>1, <1>4, <1>5, <1>6 DEF WalkInv

\* Nothing is reported while facts are computed.
LEMMA FactsWalk ==
    ASSUME FactInv, WalkInv, phase # "report", source' = source, done' = done,
           reports' = reports, phase' # "idle" => pkg' \in Packages /\ pkg' \notin done',
           phase' = "report" => register' = 0 /\ stack' = <<>>
    PROVE  WalkInv'
<1>1. \A p \in done : \A i \in DOMAIN Registers[p] : ExactFor(p, i)'
  BY SameReports DEF WalkInv
<1>2. \A d \in reports' : DiagOK(d)' /\ d.pkg \in done'
  BY SameReports DEF WalkInv
<1>3. phase' = "report" => (register \in 0 .. Len(Registers[pkg]))'
  <2> SUFFICES ASSUME phase' = "report" PROVE (register \in 0 .. Len(Registers[pkg]))'
    OBVIOUS
  <2>1. pkg' \in Packages
    OBVIOUS
  <2> QED
    BY <2>1, RegistersInOrder
<1>4. phase' = "report" => (stack \in Seq(Frame))'
  BY DEF WalkInv
<1> QED
  BY <1>1, <1>2, <1>3, <1>4 DEF WalkInv

\* Nothing is reported at first.
LEMMA InitWalk == Init => WalkInv /\ ReasonPaths
BY DEF Init, WalkInv, ReasonPaths

\* Every step keeps the invariant of the walk.
LEMMA NextWalk ==
    ASSUME FactInv, ReasonPaths, WalkInv, [Next]_vars
    PROVE  WalkInv'
<1>1. CASE \E p \in Packages : Run(p)
  <2>1. PICK p \in Packages : Run(p)
    BY <1>1
  <2>2. /\ source' = source /\ done' = done /\ reports' = reports
        /\ phase = "idle" /\ phase' = "facts" /\ pkg' = p /\ p \notin done
    BY <2>1 DEF Run
  <2> QED
    BY <2>2, FactsWalk
<1>2. CASE (\E f \in Functions : NextCaller(f)) \/ MergeCallee \/ NextRound
  <2>1. /\ source' = source /\ done' = done /\ reports' = reports
        /\ phase = "facts" /\ phase' = phase /\ pkg' = pkg
    BY <1>2 DEF NextCaller, MergeCallee, NextRound, RoundOver, passVars
  <2>2. pkg \in Packages /\ pkg \notin done
    BY <2>1 DEF FactInv, PassOK, WalkInv
  <2> QED
    BY <2>1, <2>2, FactsWalk
<1>3. CASE ExportFacts
  <2>1. /\ source' = source /\ done' = done /\ reports' = reports
        /\ phase = "facts" /\ phase' = "report" /\ pkg' = pkg
        /\ register' = 0 /\ stack' = <<>>
    BY <1>3 DEF ExportFacts, RoundOver
  <2>2. pkg \in Packages /\ pkg \notin done
    BY <2>1 DEF FactInv, PassOK, WalkInv
  <2> QED
    BY <2>1, <2>2, FactsWalk
<1>4. CASE ReportEntry
  BY <1>4, ReportEntryWalk
<1>5. CASE ReportBody
  BY <1>5, ReportBodyWalk
<1>6. CASE ReportBodyReturns
  BY <1>6, ReturnWalk
<1>7. CASE PassEnds
  BY <1>7, PassEndsWalk
<1>8. CASE UNCHANGED vars
  <2>1. /\ source' = source /\ done' = done /\ reports' = reports /\ phase' = phase
        /\ pkg' = pkg /\ register' = register /\ stack' = stack /\ seen' = seen
    BY <1>8 DEF vars
  <2>2. /\ \A p, i : ExactFor(p, i)' <=> ExactFor(p, i)
        /\ \A d : DiagOK(d)' <=> DiagOK(d)
    BY <2>1, SameReports
  <2>3. Frame' = Frame /\ Current' = Current /\ \A fr : FrameOK(fr)' <=> FrameOK(fr)
    BY <2>1, SameWalk
  <2>4. Walking => Walking'
    <3>1. /\ IsWalked(Current)' <=> IsWalked(Current)
          /\ Entry(Current)' = Entry(Current)
      BY <2>1, <2>3 DEF IsWalked, Entry
    <3>2. Reported(pkg, register)' = Reported(pkg, register)
      BY <2>1 DEF Reported
    <3>3. Target(pkg, Current)' = Target(pkg, Current)
      BY <2>1, <2>3, SameWalk
    <3>4. \A g : Covered(g)' <=> Covered(g)
      BY <2>1, <3>2, SameProgram DEF Covered
    <3>5. \A item : Handled(item)' <=> Handled(item)
      BY <2>1, <3>2, <3>4 DEF Handled
    <3>6. Walked' = Walked /\ Waiting' = Waiting
      BY <2>1, <3>1 DEF Walked, Waiting
    <3> QED
      BY <2>1, <2>3, <3>1, <3>2, <3>3, <3>4, <3>5, <3>6 DEF Walking
  <2> QED
    BY <2>1, <2>2, <2>3, <2>4 DEF WalkInv
<1> QED
  BY <1>1, <1>2, <1>3, <1>4, <1>5, <1>6, <1>7, <1>8 DEF Next

\* Every workflow's diagnostics are exactly the operations that its registered
\* function or literal leads to by the calls that are followed.
ReportsReach ==
    phase = "idle" =>
      \A p \in done : \A i \in DOMAIN Registers[p] :
         LET r == Registers[p][i]
         IN  r.k # "value" => Reported(p, i) = Ops(Entry(r), EntryHome(r, p))

\* The invariants of the facts, of their chains and of the walk.
LEMMA ReportsInv == Spec => [](FactInv /\ ReasonPaths /\ WalkInv)
<1>1. Init => FactInv /\ ReasonPaths /\ WalkInv
  BY InitFacts, InitWalk
<1>2. FactInv /\ ReasonPaths /\ WalkInv /\ [Next]_vars => (FactInv /\ ReasonPaths /\ WalkInv)'
  BY NextFacts, NextReasonPaths, NextWalk
<1> QED
  BY <1>1, <1>2, PTL DEF Spec

\* For every program and iteration order, the walk from each registration
\* reports what it can reach and nothing else, though each body is entered once
\* and other packages are known by their facts only (reportEntry, reportBody).
THEOREM ReportsAreReachability == Spec => []ReportsReach
<1>1. WalkInv => ReportsReach
  BY DEF WalkInv, ReportsReach, ExactFor, Target
<1> QED
  BY <1>1, ReportsInv, PTL

\* For every program, each diagnostic's chain is a chain of calls that the code
\* makes, from the registered workflow to the operation (reportEntry,
\* reportBody, addReason).
THEOREM ChainsExplain == Spec => []ChainsArePaths
<1>1. WalkInv => ChainsArePaths
  BY DEF WalkInv, DiagOK, IsExplained, ChainsArePaths
<1> QED
  BY <1>1, ReportsInv, PTL

-----------------------------------------------------------------------------
\* Where the tables are right, what the walk looks for is what a replay cannot
\* reproduce, and the calls it follows are those of the module.
LEMMA TablesOfBody ==
    ASSUME NEW body, NEW p, IsBody(body), KnownIn(body, p)
    PROVE  UnsafeIn(body) = Found(body) /\ CalledIn(body, p) = ToSet(Callees(body, p))
<1>1. \A item \in Replayed(body) : IsFound(item) <=> Unsafe(item)
  BY DEF KnownIn, IsFound, Unsafe, CheckRange
<1>2. UnsafeIn(body) = Found(body)
  BY <1>1, FoundElements DEF UnsafeIn
<1>3. \A item \in Replayed(body) :
        IsCall(item, p) <=> item.k = "call" /\ Module[Home[item.fn]] = Module[p]
  BY DEF KnownIn, IsCall
<1>4. CalledIn(body, p) = ToSet(Callees(body, p))
  BY <1>3, CalleesElements DEF CalledIn
<1> QED
  BY <1>2, <1>4

\* Under right tables, the operations a body leads to are the unsafe ones replayed
\* with it.
LEMMA ReplayedOps ==
    ASSUME TablesAreRight, source \in Programs, NEW body, NEW p, IsBody(body),
           KnownIn(body, p)
    PROVE  UNION {UnsafeIn(b) : b \in ReplayedWith(body, p)} = Ops(body, p)
<1> DEFINE fs == CalledIn(body, p)
           edge(S) == UNION {CalledIn(source[f], Home[f]) : f \in S}
           within == {S \in SUBSET Functions : fs \cup edge(S) \subseteq S}
           least == {g \in Functions : \A S \in within : g \in S}
<1>1. fs = ToSet(Callees(body, p)) /\ UnsafeIn(body) = Found(body)
  BY TablesOfBody
<1>2. \A f \in Functions : /\ CalledIn(source[f], Home[f]) = CallSet(f)
                           /\ UnsafeIn(source[f]) = Direct(f)
  <2> SUFFICES ASSUME NEW f \in Functions
               PROVE  /\ CalledIn(source[f], Home[f]) = CallSet(f)
                      /\ UnsafeIn(source[f]) = Direct(f)
    OBVIOUS
  <2>1. IsBody(source[f]) /\ KnownIn(source[f], Home[f])
    BY ProgramAssumption DEF TablesAreRight, IsBodyIn
  <2> QED
    BY <2>1, TablesOfBody DEF CallSet, Calls, Direct
<1>3. \A S \in SUBSET Functions : S \in within <=> fs \subseteq S /\ Closed(S)
  <2> SUFFICES ASSUME NEW S \in SUBSET Functions
               PROVE  S \in within <=> fs \subseteq S /\ Closed(S)
    OBVIOUS
  <2>1. edge(S) \subseteq S <=> Closed(S)
    BY <1>2 DEF Closed, CallSet
  <2> QED
    BY <2>1
<1> HIDE DEF fs, within
<1>4. least = Reachable(fs)
  <2>1. within \subseteq SUBSET Functions
    BY DEF within
  <2> QED
    BY <1>3, <2>1 DEF Reachable
<1>5. ReplayedWith(body, p) = {body} \cup {source[f] : f \in least}
  BY DEF ReplayedWith, fs, within
<1> HIDE DEF least
<1>6. \A f \in least : f \in Functions
  BY DEF least
<1>7. UNION {UnsafeIn(b) : b \in ReplayedWith(body, p)} = Found(body) \cup OpsReachable(fs)
  <2>1. ASSUME NEW b \in ReplayedWith(body, p)
        PROVE  UnsafeIn(b) \subseteq Found(body) \cup OpsReachable(fs)
    BY <1>1, <1>2, <1>4, <1>5, <1>6 DEF OpsReachable
  <2>2. Found(body) = UnsafeIn(body) /\ body \in ReplayedWith(body, p)
    BY <1>1, <1>5
  <2>3. \A f \in Reachable(fs) :
          Direct(f) = UnsafeIn(source[f]) /\ source[f] \in ReplayedWith(body, p)
    BY <1>2, <1>4, <1>5, <1>6
  <2> QED
    BY <2>1, <2>2, <2>3 DEF OpsReachable
<1> QED
  BY <1>1, <1>7 DEF Ops

\* For every program whose calls the tables know, the diagnostics of each
\* workflow are exactly the operations that a replay of it evaluates and cannot
\* reproduce, each at a position of the package (reportFromRegistrations).
THEOREM ReportsAreExact == ASSUME TablesAreRight PROVE Spec => []ReportsExact
<1>1. FactInv /\ WalkInv => ReportsExact
  <2> SUFFICES ASSUME FactInv, WalkInv, phase = "idle", NEW p \in done
               PROVE  /\ \A d \in reports : d.pkg = p => d.site \in OwnPositions(p)
                      /\ \A i \in DOMAIN Registers[p] :
                           LET r == Registers[p][i]
                           IN  r.k # "value" =>
                                 {d.at : d \in {x \in reports : x.pkg = p /\ x.register = i}}
                                   = UNION {UnsafeIn(b) :
                                              b \in ReplayedWith(Entry(r), EntryHome(r, p))}
    BY DEF ReportsExact
  <2>1. p \in Packages /\ source \in Programs
    BY DEF WalkInv, FactInv, PassOK
  <2>2. \A d \in reports : d.pkg = p => d.site \in OwnPositions(p)
    BY DEF WalkInv, DiagOK
  <2>3. ASSUME NEW i \in DOMAIN Registers[p], Registers[p][i].k # "value"
        PROVE  Reported(p, i) = UNION {UnsafeIn(b) : b \in
                 ReplayedWith(Entry(Registers[p][i]), EntryHome(Registers[p][i], p))}
    <3> DEFINE r == Registers[p][i]
    <3>1. Reported(p, i) = Ops(Entry(r), EntryHome(r, p))
      BY <2>3 DEF WalkInv, ExactFor, Target
    <3>2. r \in ToSet(Registers[p])
      BY <2>1, RegistersInOrder
    <3> HIDE DEF r
    <3>3. IsBody(Entry(r)) /\ KnownIn(Entry(r), EntryHome(r, p))
      <4>1. CASE r.k = "literal"
        BY <2>1, <3>2, <4>1, ProgramAssumption DEF TablesAreRight, IsBodyIn, Entry, EntryHome
      <4>2. CASE r.k = "named"
        BY <2>1, <3>2, <4>2, ProgramAssumption
           DEF TablesAreRight, IsBodyIn, Entry, EntryHome, MayName
      <4> QED
        BY <2>1, <2>3, <3>2, <4>1, <4>2, ProgramAssumption DEF r
    <3> QED
      BY <2>1, <3>1, <3>3, ReplayedOps DEF r
  <2> QED
    BY <2>2, <2>3 DEF Reported
<1> QED
  BY <1>1, ReportsInv, PTL

=============================================================================
