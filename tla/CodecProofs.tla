----------------------------- MODULE CodecProofs -----------------------------
(***************************************************************************)
(* Proofs about the two codecs: EventRows, for every set of state keys and *)
(* events of any number of parts, and Wire, for every script, every way of *)
(* cutting it into writes and every reply.                                 *)
(***************************************************************************)
EXTENDS EventRows, Wire, ListenProofs

-----------------------------------------------------------------------------
(* Events and rows: one value and its column.                              *)

LEMMA Json ==
    /\ Unmarshal(Marshal("empty")) = "empty" /\ Unmarshal(Marshal("v")) = "v"
    /\ Unmarshal(Marshal("nil")) = "nil"
    /\ Marshal("empty") = "{}" /\ Marshal("v") = "{v}" /\ Marshal("nil") = "null"
    /\ Unmarshal("{v}") = "v"
<1>1. Marshal("empty") = "{}"
  BY DEF Marshal
<1>2. Marshal("v") = "{v}"
  BY DEF Marshal
<1>3. Marshal("nil") = "null"
  BY DEF Marshal
<1>4. Unmarshal("{}") = "empty"
  BY DEF Unmarshal
<1>5. Unmarshal("{v}") = "v"
  BY DEF Unmarshal
<1>6. Unmarshal("null") = "nil"
  BY DEF Unmarshal
<1> QED
  BY <1>1, <1>2, <1>3, <1>4, <1>5, <1>6

LEMMA Nullable ==
    ASSUME NEW v, v \in Opt(Doc)
    PROVE  unmarshalNullable(marshalNullable(v)) = v
<1>1. v = {} \/ v = {"empty"} \/ v = {"v"}
  BY DEF Opt, Doc
<1>2. unmarshalNullable(marshalNullable({})) = {}
  BY DEF unmarshalNullable, marshalNullable
<1>3. \A x : unmarshalNullable(marshalNullable({x})) = {Unmarshal(Marshal(x))}
  BY DEF unmarshalNullable, marshalNullable
<1> QED
  BY <1>1, <1>2, <1>3, Json

LEMMA Base64 ==
    ASSUME NEW v \in Opt(Text)
    PROVE  bytesFromBase64(bytesToBase64(v)) = v
<1>1. v = {} \/ v = {""} \/ v = {"v"}
  BY DEF Opt, Text
<1>2. bytesFromBase64(bytesToBase64({})) = {}
  BY DEF bytesFromBase64, bytesToBase64
<1>3. bytesToBase64({""}) = {""} /\ bytesToBase64({"v"}) = {"b64"}
  BY DEF bytesToBase64
<1>4. bytesFromBase64({""}) = {""} /\ bytesFromBase64({"b64"}) = {"v"}
  BY DEF bytesFromBase64
<1> QED
  BY <1>1, <1>2, <1>3, <1>4

LEMMA PartRoundTrip ==
    ASSUME NEW p \in Part, NEW i
    PROVE  decodePart(encodePart(i, p)) = p
<1> DEFINE r == encodePart(i, p)
<1>1. p = [text |-> p.text, call |-> p.call, blob |-> p.blob, tool |-> p.tool]
  BY DEF Part
<1>2. /\ r.text = p.text /\ r.tool_call = marshalNullable(p.tool)
      /\ r.function_call_id = {c.id : c \in p.call}
      /\ r.function_call_args = UNION {marshalNullable(c.args) : c \in p.call}
      /\ r.inline_data_mime_type = {b.mime : b \in p.blob}
      /\ r.inline_data_bytes_b64 = UNION {bytesToBase64(b.data) : b \in p.blob}
  BY DEF encodePart
<1>3. unmarshalNullable(r.tool_call) = p.tool
  BY <1>2, Nullable DEF Part, Opt, Doc
<1>4. {[id |-> x, args |-> unmarshalNullable(r.function_call_args)] : x \in r.function_call_id}
        = p.call
  <2>1. CASE p.call = {}
    BY <1>2, <2>1
  <2>2. ASSUME NEW c \in [id : Text, args : Opt(Doc)], p.call = {c} PROVE <1>4!1 = p.call
    <3>1. r.function_call_id = {c.id} /\ r.function_call_args = marshalNullable(c.args)
      BY <1>2, <2>2
    <3>2. unmarshalNullable(marshalNullable(c.args)) = c.args
      BY Nullable
    <3>3. c = [id |-> c.id, args |-> c.args]
      OBVIOUS
    <3> QED
      BY <2>2, <3>1, <3>2, <3>3
  <2> QED
    BY <2>1, <2>2 DEF Part, Opt
<1>5. decodePart(r).blob = p.blob
  <2>1. CASE p.blob = {}
    BY <1>2, <2>1 DEF decodePart
  <2>2. ASSUME NEW b \in [mime : Text, data : Opt(Text)], p.blob = {b}
        PROVE  decodePart(r).blob = p.blob
    <3>1. r.inline_data_mime_type = {b.mime} /\ r.inline_data_bytes_b64 = bytesToBase64(b.data)
      BY <1>2, <2>2
    <3>2. bytesFromBase64(bytesToBase64(b.data)) = b.data
      BY Base64
    <3>3. b = [mime |-> b.mime, data |-> b.data]
      OBVIOUS
    <3>4. (CHOOSE x \in {b.mime} \cup {""} : {b.mime} \subseteq {x}) = b.mime
      OBVIOUS
    <3>5. decodePart(r).blob =
            {[mime |-> CHOOSE x \in {b.mime} \cup {""} : {b.mime} \subseteq {x},
              data |-> bytesFromBase64(bytesToBase64(b.data))]}
      BY <3>1 DEF decodePart
    <3> QED
      BY <2>2, <3>2, <3>3, <3>4, <3>5
  <2> QED
    BY <2>1, <2>2 DEF Part, Opt
<1>6. decodePart(r) = [text |-> p.text, call |-> p.call, blob |-> p.blob, tool |-> p.tool]
  BY <1>2, <1>3, <1>4, <1>5 DEF decodePart
<1> QED
  BY <1>1, <1>6

-----------------------------------------------------------------------------
(* The rows of an event's parts come back in the order of the parts.        *)

InOrder(s) == \A i, j \in DOMAIN s : i < j => s[i].part_index <= s[j].part_index

\* A sequence of the elements of a finite set, each once, has each of them.
LEMMA EachOnce ==
    ASSUME NEW S, IsFiniteSet(S), NEW s \in SetToSeqs(S)
    PROVE  /\ Cardinality(S) \in Nat /\ DOMAIN s = 1..Cardinality(S)
           /\ \A i \in DOMAIN s : s[i] \in S
           /\ \A i, j \in DOMAIN s : i # j => s[i] # s[j]
           /\ \A x \in S : \E i \in DOMAIN s : s[i] = x
<1> DEFINE n == Cardinality(S)
<1>1. n \in Nat
  BY FS_CardinalityType
<1>2. s \in [1..n -> S] /\ \A i, j \in 1..n : i # j => s[i] # s[j]
  BY DEF SetToSeqs
<1>3. s \in Injection(1..n, S)
  BY <1>2 DEF Injection, IsInjective
<1>4. IsFiniteSet(1..n) /\ Cardinality(1..n) = n
  BY <1>1, FS_Interval
<1>5. s \in Surjection(1..n, S)
  BY <1>3, <1>4, FS_Injection
<1> QED
  BY <1>1, <1>2, <1>5 DEF Surjection

\* The rows of parts sorted by index are the rows in the order of the parts.
Permuted(n, s, enc) ==
    /\ n \in Nat /\ DOMAIN enc = 1..n /\ DOMAIN s = 1..n
    /\ \A i \in 1..n : enc[i].part_index = i - 1
    /\ \A i \in 1..n : \E k \in 1..n : s[i] = enc[k]
    /\ \A i, j \in 1..n : i # j => s[i] # s[j]
    /\ \A k \in 1..n : \E i \in 1..n : s[i] = enc[k]

LEMMA SortedRows ==
    ASSUME NEW n, NEW s, NEW enc, Permuted(n, s, enc), InOrder(s)
    PROVE  \A i \in 1..n : s[i] = enc[i]
<1> USE DEF Permuted
<1> DEFINE Wrong == {i \in 1..n : s[i] # enc[i]}
<1> SUFFICES ASSUME Wrong # {} PROVE FALSE
  OBVIOUS
<1>1. PICK i \in Wrong : \A c \in Wrong : i <= c
  <2>1. Wrong \subseteq Nat
    OBVIOUS
  <2> HIDE DEF Wrong
  <2> QED
    BY <2>1, Least
<1>2. i \in 1..n /\ s[i] # enc[i] /\ \A c \in 1..n : c < i => s[c] = enc[c]
  BY <1>1
<1>3. PICK k \in 1..n : s[i] = enc[k]
  BY <1>2
<1>4. PICK m \in 1..n : s[m] = enc[i]
  BY <1>2
<1>5. k > i
  <2>1. k # i
    BY <1>2, <1>3
  <2>2. k < i => s[k] = s[i]
    BY <1>2, <1>3
  <2> QED
    BY <2>1, <2>2, <1>2
<1>6. m > i
  <2>1. m # i
    BY <1>2, <1>4
  <2>2. ASSUME m < i PROVE FALSE
    <3>1. enc[m] = enc[i]
      BY <1>2, <1>4, <2>2
    <3>2. enc[m].part_index = m - 1 /\ enc[i].part_index = i - 1
      BY <1>2
    <3> QED
      BY <3>1, <3>2, <2>2, <1>2
  <2> QED
    BY <2>1, <2>2, <1>2
<1>7. s[i].part_index <= s[m].part_index
  BY <1>2, <1>6 DEF InOrder
<1>8. s[i].part_index = k - 1 /\ s[m].part_index = i - 1
  BY <1>2, <1>3, <1>4
<1> QED
  BY <1>5, <1>7, <1>8, <1>2

RowsOf(ps) == [i \in DOMAIN ps |-> encodePart(i, ps[i])]

LEMMA LoadedParts ==
    ASSUME NEW ps \in Seq(Part),
           NEW arrived \in SetToSeqs(PartRows(ps))
    PROVE  eventRowsFromSession(arrived) = RowsOf(ps)
<1> DEFINE n == Len(ps)
           enc == RowsOf(ps)
           R == PartRows(ps)
<1>1. n \in Nat /\ DOMAIN ps = 1..n /\ DOMAIN enc = 1..n
  BY DEF RowsOf
<1>2. \A i \in 1..n : enc[i] = encodePart(i, ps[i]) /\ enc[i].part_index = i - 1
  BY <1>1 DEF RowsOf, encodePart
<1>3. \A x : x \in R <=> \E i \in 1..n : x = enc[i]
  BY <1>1, <1>2 DEF PartRows
<1>4. \A i, j \in 1..n : i # j => enc[i] # enc[j]
  BY <1>2
<1>5. IsFiniteSet(R) /\ Cardinality(R) = n
  <2> HIDE DEF R, enc
  <2>1. enc = [i \in 1..n |-> enc[i]]
    BY <1>1 DEF enc, RowsOf
  <2>2. enc \in Surjection(1..n, R)
    BY <2>1, <1>3 DEF Surjection
  <2>3. enc \in Injection(1..n, R)
    BY <2>1, <1>3, <1>4 DEF Injection, IsInjective
  <2>4. IsFiniteSet(1..n) /\ Cardinality(1..n) = n
    BY <1>1, FS_Interval
  <2> QED
    BY <2>2, <2>3, <2>4, FS_Surjection
<1> HIDE DEF n, enc, R
<1>6. arrived \in SetToSeqs(R)
  BY DEF R
<1>7. ToSet(arrived) = R
  BY <1>5, <1>6, EachOnce DEF ToSet
<1>8. enc \in SetToSeqs(R)
  <2>1. enc \in [1..n -> R]
    <3>1. enc = [i \in 1..n |-> enc[i]]
      BY <1>1 DEF enc, RowsOf
    <3> QED
      BY <3>1, <1>3
  <2> QED
    BY <2>1, <1>4, <1>5 DEF SetToSeqs
<1>9. InOrder(enc)
  BY <1>1, <1>2 DEF InOrder
<1> DEFINE s == eventRowsFromSession(arrived)
<1>10. s = CHOOSE x \in SetToSeqs(R) : InOrder(x)
  BY <1>7, Zenon DEF eventRowsFromSession, InOrder
<1>11. s \in SetToSeqs(R) /\ InOrder(s)
  <2> HIDE DEF s
  <2> QED
    BY <1>8, <1>9, <1>10
<1>12. s \in [1..n -> R]
  BY <1>5, <1>11 DEF SetToSeqs
<1> HIDE DEF s
<1>13. /\ DOMAIN s = 1..n
       /\ \A i \in 1..n : s[i] \in R
       /\ \A i, j \in 1..n : i # j => s[i] # s[j]
       /\ \A x \in R : \E i \in 1..n : s[i] = x
  BY <1>5, <1>11, EachOnce
<1>14. \A i \in 1..n : s[i] = enc[i]
  <2>1. \A i \in 1..n : \E k \in 1..n : s[i] = enc[k]
    BY <1>3, <1>13
  <2>2. \A k \in 1..n : \E i \in 1..n : s[i] = enc[k]
    BY <1>3, <1>13
  <2>3. n \in Nat /\ DOMAIN enc = 1..n
    BY <1>1
  <2>4. \A i \in 1..n : enc[i].part_index = i - 1
    BY <1>2
  <2>5. InOrder(s) /\ DOMAIN s = 1..n /\ \A i, j \in 1..n : i # j => s[i] # s[j]
    BY <1>11, <1>13
  <2>6. Permuted(n, s, enc)
    BY <2>1, <2>2, <2>3, <2>4, <2>5 DEF Permuted
  <2>7. InOrder(s)
    BY <2>5
  <2> QED
    BY <2>6, <2>7, SortedRows
<1>15. s = enc
  <2>1. s = [i \in 1..n |-> s[i]]
    BY <1>12
  <2>2. enc = [i \in 1..n |-> enc[i]]
    BY <1>1 DEF enc, RowsOf
  <2> QED
    BY <2>1, <2>2, <1>14
<1> QED
  BY <1>15 DEF s, enc

-----------------------------------------------------------------------------
(* The rows of a state delta.                                               *)

\* The keys of a delta that are stored, and the row of each.
Persisted(d) == {k \in DOMAIN d : Head(k) # "temp:"}

ScopedRow(k) == CHOOSE r \in ScopeOf(k) : TRUE

DeltaRow(d, k) ==
    [scope |-> ScopedRow(k).scope, key |-> ScopedRow(k).key, value_json |-> Marshal(d[k])]

StateDeltas == UNION {[K -> {"nil", "v"}] : K \in SUBSET Keys}

\* Taking a prefix off and putting it back.
LEMMA KeyOfScope ==
    ASSUME NEW k \in Keys
    PROVE  /\ Head(k) = "temp:" => ScopeOf(k) = {}
           /\ Head(k) # "temp:" =>
                /\ ScopeOf(k) = {ScopedRow(k)}
                /\ Key(ScopedRow(k).scope, ScopedRow(k).key) = k
<1>1. k \in Seq(STRING) /\ k # <<>>
  BY RowsAssumption
<1>2. \A x : Head(k) = x => <<x>> \o Tail(k) = k
  <2>1. <<Head(k)>> \o Tail(k) = k
    BY <1>1
  <2> QED
    BY <2>1
<1>3. CASE Head(k) = "temp:"
  BY <1>3 DEF ScopeOf
<1>4. CASE Head(k) = "app:"
  <2>1. ScopeOf(k) = {[scope |-> "app", key |-> Tail(k)]}
    BY <1>4 DEF ScopeOf
  <2>2. ScopedRow(k) = [scope |-> "app", key |-> Tail(k)]
    BY <2>1 DEF ScopedRow
  <2>3. Key("app", Tail(k)) = k
    BY <1>2, <1>4 DEF Key
  <2> QED
    BY <1>4, <2>1, <2>2, <2>3
<1>5. CASE Head(k) = "user:"
  <2>1. ScopeOf(k) = {[scope |-> "user", key |-> Tail(k)]}
    BY <1>5 DEF ScopeOf
  <2>2. ScopedRow(k) = [scope |-> "user", key |-> Tail(k)]
    BY <2>1 DEF ScopedRow
  <2>3. Key("user", Tail(k)) = k
    BY <1>2, <1>5 DEF Key
  <2> QED
    BY <1>5, <2>1, <2>2, <2>3
<1>6. CASE Head(k) \notin {"temp:", "app:", "user:"}
  <2>1. ScopeOf(k) = {[scope |-> "session", key |-> k]}
    BY <1>6 DEF ScopeOf
  <2>2. ScopedRow(k) = [scope |-> "session", key |-> k]
    BY <2>1 DEF ScopedRow
  <2>3. Key("session", k) = k
    BY DEF Key
  <2> QED
    BY <1>6, <2>1, <2>2, <2>3
<1> QED
  BY <1>3, <1>4, <1>5, <1>6

LEMMA DeltaRows ==
    ASSUME NEW d \in StateDeltas
    PROVE  /\ encodeActions({d}) = {DeltaRow(d, k) : k \in Persisted(d)}
           /\ \A k \in Persisted(d) : Key(DeltaRow(d, k).scope, DeltaRow(d, k).key) = k
           /\ \A k \in DOMAIN d : d[k] \in {"nil", "v"} /\ k \in Keys
<1>1. \A k \in DOMAIN d : d[k] \in {"nil", "v"} /\ k \in Keys
  BY DEF StateDeltas
<1> DEFINE Of(k) == {[scope |-> r.scope, key |-> r.key, value_json |-> Marshal(d[k])] : r \in ScopeOf(k)}
<1>2. encodeActions({d}) = UNION {Of(k) : k \in DOMAIN d}
  <2>1. StateRows(d) = UNION {Of(k) : k \in DOMAIN d}
    BY Zenon DEF StateRows
  <2> HIDE DEF Of
  <2> QED
    BY <2>1 DEF encodeActions
<1>3. ASSUME NEW k \in DOMAIN d, Head(k) = "temp:" PROVE Of(k) = {}
  <2>1. ScopeOf(k) = {}
    BY <1>1, <1>3, KeyOfScope
  <2> QED
    BY <2>1
<1>4. ASSUME NEW k \in DOMAIN d, Head(k) # "temp:" PROVE Of(k) = {DeltaRow(d, k)}
  <2>1. ScopeOf(k) = {ScopedRow(k)}
    BY <1>1, <1>4, KeyOfScope
  <2>2. Of(k) = {[scope |-> r.scope, key |-> r.key, value_json |-> Marshal(d[k])] :
                   r \in {ScopedRow(k)}}
    BY <2>1, Zenon
  <2> QED
    BY <2>2 DEF DeltaRow
<1> HIDE DEF Of
<1>5. encodeActions({d}) = {DeltaRow(d, k) : k \in Persisted(d)}
  <2>1. ASSUME NEW x \in encodeActions({d}) PROVE \E k \in Persisted(d) : x = DeltaRow(d, k)
    <3>1. PICK k \in DOMAIN d : x \in Of(k)
      BY <1>2, <2>1
    <3>2. Head(k) # "temp:"
      BY <1>3, <3>1
    <3>3. x = DeltaRow(d, k)
      BY <1>4, <3>1, <3>2
    <3> QED
      BY <3>2, <3>3 DEF Persisted
  <2>2. ASSUME NEW k \in Persisted(d) PROVE DeltaRow(d, k) \in encodeActions({d})
    <3>1. k \in DOMAIN d /\ Head(k) # "temp:"
      BY DEF Persisted
    <3>2. DeltaRow(d, k) \in Of(k)
      BY <1>4, <3>1
    <3> QED
      BY <1>2, <3>1, <3>2
  <2> QED
    BY <2>1, <2>2
<1>6. ASSUME NEW k \in Persisted(d)
      PROVE  Key(DeltaRow(d, k).scope, DeltaRow(d, k).key) = k
  <2>1. DeltaRow(d, k).scope = ScopedRow(k).scope /\ DeltaRow(d, k).key = ScopedRow(k).key
    BY DEF DeltaRow
  <2>2. k \in Keys /\ Head(k) # "temp:"
    BY <1>1 DEF Persisted
  <2> QED
    BY <2>1, <2>2, KeyOfScope
<1> QED
  BY <1>1, <1>5, <1>6

SetsNil(delta) == \E d \in delta : \E k \in DOMAIN d : Head(k) # "temp:" /\ d[k] = "nil"

\* What the store refuses, of the rows of a delta.
LEMMA RefusedDelta ==
    ASSUME NEW d \in StateDeltas
    PROVE  LET rs == encodeActions({d})
           IN  /\ \A r, s \in rs : StateDeltaKey(r) = StateDeltaKey(s) => r = s
               /\ (\A r \in rs : populate({r.value_json}) # {}) <=> ~SetsNil({d})
<1> DEFINE rs == encodeActions({d})
<1>1. rs = {DeltaRow(d, k) : k \in Persisted(d)}
  BY DeltaRows
<1> HIDE DEF rs
<1>2. ASSUME NEW r \in rs, NEW s \in rs, StateDeltaKey(r) = StateDeltaKey(s) PROVE r = s
  <2>1. PICK k \in Persisted(d) : r = DeltaRow(d, k)
    BY <1>1
  <2>2. PICK l \in Persisted(d) : s = DeltaRow(d, l)
    BY <1>1
  <2>3. r.scope = s.scope /\ r.key = s.key
    BY <1>2 DEF StateDeltaKey
  <2>4. Key(r.scope, r.key) = k /\ Key(s.scope, s.key) = l
    BY <2>1, <2>2, DeltaRows
  <2> QED
    BY <2>1, <2>2, <2>3, <2>4
<1>3. ASSUME NEW k \in Persisted(d)
      PROVE  populate({DeltaRow(d, k).value_json}) # {} <=> d[k] # "nil"
  <2>1. d[k] = "nil" \/ d[k] = "v"
    BY DeltaRows DEF Persisted
  <2>2. DeltaRow(d, k).value_json = Marshal(d[k])
    BY DEF DeltaRow
  <2>3. populate({Marshal("nil")}) = {} /\ populate({Marshal("v")}) # {}
    BY Json DEF populate
  <2> QED
    BY <2>1, <2>2, <2>3
<1>4. SetsNil({d}) <=> \E k \in Persisted(d) : d[k] = "nil"
  BY DEF SetsNil, Persisted
<1>5. (\A r \in rs : populate({r.value_json}) # {}) <=> ~SetsNil({d})
  BY <1>1, <1>3, <1>4
<1> QED
  BY <1>2, <1>5 DEF rs

\* Reading the rows of a delta gives the stored part of it back.
LEMMA DeltaRoundTrip ==
    ASSUME NEW d \in StateDeltas
    PROVE  decodeActions(encodeActions({d})) =
             IF Persisted(d) = {} THEN {} ELSE {[k \in Persisted(d) |-> d[k]]}
<1> DEFINE ds == encodeActions({d})
<1>1. ds = {DeltaRow(d, k) : k \in Persisted(d)}
  BY DeltaRows
<1>2. CASE Persisted(d) = {}
  BY <1>1, <1>2 DEF decodeActions
<1>3. CASE Persisted(d) # {}
  <2> HIDE DEF ds
  <2>1. ds # {}
    BY <1>1, <1>3
  <2>2. {Key(r.scope, r.key) : r \in ds} = Persisted(d)
    <3>1. \A k \in Persisted(d) : DeltaRow(d, k) \in ds
      BY <1>1
    <3>2. \A r \in ds : \E k \in Persisted(d) : r = DeltaRow(d, k)
      BY <1>1
    <3>3. \A k \in Persisted(d) : Key(DeltaRow(d, k).scope, DeltaRow(d, k).key) = k
      BY DeltaRows
    <3>4. ASSUME NEW r \in ds PROVE Key(r.scope, r.key) \in Persisted(d)
      <4>1. PICK k \in Persisted(d) : r = DeltaRow(d, k)
        BY <3>2
      <4> QED
        BY <4>1, <3>3
    <3>5. ASSUME NEW k \in Persisted(d) PROVE \E r \in ds : Key(r.scope, r.key) = k
      BY <3>1, <3>3
    <3> QED
      BY <3>4, <3>5
  <2>3. ASSUME NEW k \in Persisted(d)
        PROVE  Unmarshal((CHOOSE r \in ds : Key(r.scope, r.key) = k).value_json) = d[k]
    <3>1. DeltaRow(d, k) \in ds /\ Key(DeltaRow(d, k).scope, DeltaRow(d, k).key) = k
      BY <1>1, DeltaRows
    <3>2. ASSUME NEW r \in ds, Key(r.scope, r.key) = k PROVE r = DeltaRow(d, k)
      <4>1. PICK l \in Persisted(d) : r = DeltaRow(d, l)
        BY <1>1
      <4>2. Key(r.scope, r.key) = l
        BY <4>1, DeltaRows
      <4> QED
        BY <3>2, <4>1, <4>2
    <3>3. (CHOOSE r \in ds : Key(r.scope, r.key) = k) = DeltaRow(d, k)
      BY <3>1, <3>2
    <3>4. DeltaRow(d, k).value_json = Marshal(d[k])
      BY DEF DeltaRow
    <3>5. d[k] = "nil" \/ d[k] = "v"
      BY DeltaRows DEF Persisted
    <3> QED
      BY <3>3, <3>4, <3>5, Json
  <2>4. decodeActions(ds) =
          {[k \in {Key(r.scope, r.key) : r \in ds} |->
              Unmarshal((CHOOSE r \in ds : Key(r.scope, r.key) = k).value_json)]}
    BY <2>1 DEF decodeActions
  <2>5. [k \in {Key(r.scope, r.key) : r \in ds} |->
           Unmarshal((CHOOSE r \in ds : Key(r.scope, r.key) = k).value_json)]
          = [k \in Persisted(d) |-> d[k]]
    BY <2>2, <2>3
  <2> QED
    BY <1>3, <2>4, <2>5 DEF ds
<1> QED
  BY <1>2, <1>3

-----------------------------------------------------------------------------
(* Whole events.                                                            *)

IsEvent(e) ==
    /\ e = [partial |-> e.partial, content |-> e.content, meta |-> e.meta,
            conf |-> e.conf, delta |-> e.delta]
    /\ e.partial \in BOOLEAN
    /\ e.content = {} \/ \E ps \in Seq(Part) : e.content = Content(ps)
    /\ e.meta \in Opt(Doc) /\ e.conf \in Opt({"v"})
    /\ e.delta = {} \/ \E d \in StateDeltas : e.delta = {d}

LEMMA EventsAreEvents ==
    ASSUME NEW e \in Events
    PROVE  IsEvent(e)
<1>1. CASE e \in ContentEvents
  <2>1. PICK ps \in SeqsUpTo(Part, MaxParts) : e = [PlainEvent EXCEPT !.content = Content(ps)]
    BY <1>1 DEF ContentEvents
  <2>2. ps \in Seq(Part)
    <3>1. PICK k \in 0..MaxParts : ps \in [1..k -> Part]
      BY DEF SeqsUpTo
    <3> QED
      BY <3>1, RowsAssumption
  <2>3. e = [partial |-> FALSE, content |-> Content(ps), meta |-> {}, conf |-> {}, delta |-> {}]
    BY <2>1 DEF PlainEvent
  <2> QED
    BY <2>2, <2>3 DEF IsEvent, Opt
<1>2. CASE e \in ColumnEvents
  <2>1. /\ e = [partial |-> e.partial, content |-> e.content, meta |-> e.meta,
                conf |-> e.conf, delta |-> e.delta]
        /\ e.partial \in BOOLEAN /\ e.content = {} /\ e.meta \in Opt(Doc)
        /\ e.conf \in Opt({"v"}) /\ e.delta \in Opt(Deltas)
    BY <1>2 DEF ColumnEvents
  <2>2. e.delta = {} \/ \E x \in Deltas : e.delta = {x}
    BY <2>1 DEF Opt
  <2>3. Deltas \subseteq StateDeltas
    BY DEF Deltas, StateDeltas
  <2>4. e.delta = {} \/ \E x \in StateDeltas : e.delta = {x}
    BY <2>2, <2>3
  <2> QED
    BY <2>1, <2>4 DEF IsEvent
<1> QED
  BY <1>1, <1>2 DEF Events

LEMMA AcceptableEvent ==
    ASSUME NEW e, IsEvent(e)
    PROVE  Acceptable(encodeEvent(e)) <=> ~SetsNil(e.delta)
<1>1. encodeEvent(e).state_delta = encodeActions(e.delta)
  BY DEF encodeEvent
<1>2. CASE e.delta = {}
  BY <1>1, <1>2 DEF Acceptable, SetsNil, encodeActions
<1>3. ASSUME NEW d \in StateDeltas, e.delta = {d} PROVE Acceptable(encodeEvent(e)) <=> ~SetsNil(e.delta)
  <2> DEFINE rs == encodeActions({d})
  <2>1. encodeEvent(e).state_delta = rs
    BY <1>1, <1>3
  <2>2. /\ \A r, s \in rs : StateDeltaKey(r) = StateDeltaKey(s) => r = s
        /\ (\A r \in rs : populate({r.value_json}) # {}) <=> ~SetsNil({d})
    BY RefusedDelta
  <2> HIDE DEF rs
  <2>3. Acceptable(encodeEvent(e)) <=> \A r \in rs : populate({r.value_json}) # {}
    BY <2>1, <2>2, Zenon DEF Acceptable
  <2> QED
    BY <2>2, <2>3, <1>3
<1> QED
  BY <1>2, <1>3 DEF IsEvent

\* The delta of an event, read back: what Kept keeps of it.
LEMMA DeltaKept ==
    ASSUME NEW e, IsEvent(e)
    PROVE  decodeActions(encodeActions(e.delta)) = Kept(e).delta
<1>1. Kept(e).delta =
        {[k \in Persisted(d) |-> d[k]] : d \in {d \in e.delta : Persisted(d) # {}}}
  <2>1. \A d : (\E x \in DOMAIN d : Head(x) # "temp:") <=> Persisted(d) # {}
    BY DEF Persisted
  <2>2. {d \in e.delta : \E x \in DOMAIN d : Head(x) # "temp:"}
          = {d \in e.delta : Persisted(d) # {}}
    BY <2>1
  <2>3. Kept(e).delta =
          {[k \in Persisted(d) |-> d[k]] :
             d \in {d \in e.delta : \E x \in DOMAIN d : Head(x) # "temp:"}}
    BY DEF Kept, Persisted, IsEvent
  <2> QED
    BY <2>2, <2>3
<1>2. CASE e.delta = {}
  BY <1>1, <1>2 DEF decodeActions, encodeActions
<1>3. ASSUME NEW d \in StateDeltas, e.delta = {d}
      PROVE  decodeActions(encodeActions(e.delta)) = Kept(e).delta
  <2>1. decodeActions(encodeActions({d})) =
          IF Persisted(d) = {} THEN {} ELSE {[k \in Persisted(d) |-> d[k]]}
    BY DeltaRoundTrip
  <2>2. CASE Persisted(d) = {}
    <3>1. {x \in e.delta : Persisted(x) # {}} = {}
      BY <1>3, <2>2
    <3> QED
      BY <1>1, <1>3, <2>1, <2>2, <3>1
  <2>3. CASE Persisted(d) # {}
    <3>1. {x \in e.delta : Persisted(x) # {}} = {d}
      BY <1>3, <2>3
    <3> QED
      BY <1>1, <1>3, <2>1, <2>3, <3>1
  <2> QED
    BY <2>2, <2>3
<1> QED
  BY <1>2, <1>3 DEF IsEvent

ContentOf(rs, prs) ==
    {[role |-> x, parts |-> [i \in DOMAIN prs |-> decodePart(prs[i])]] : x \in rs.content_role}

LEMMA DecodedEvent ==
    ASSUME NEW rs, NEW parts
    PROVE  decodeEvent(rs, parts) =
             [partial |-> FALSE,
              content |-> ContentOf(rs, parts),
              meta |-> unmarshalNullable(rs.meta),
              conf |-> unmarshalNullable(rs.requested_auth_configs),
              delta |-> decodeActions(rs.state_delta)]
BY Zenon DEF decodeEvent, ContentOf

LEMMA EventRoundTrip ==
    ASSUME NEW e, IsEvent(e), e.partial = FALSE, NEW arrived \in SetToSeqs(encodeEvent(e).parts)
    PROVE  decodeEvent(encodeEvent(e), eventRowsFromSession(arrived)) = Kept(e)
<1> DEFINE rs == encodeEvent(e)
           prs == eventRowsFromSession(arrived)
<1>1. /\ rs.content_role = {c.role : c \in e.content}
      /\ rs.meta = marshalNullable(e.meta)
      /\ rs.requested_auth_configs = populate(marshalUnlisted(e.conf))
      /\ rs.parts = UNION {PartRows(c.parts) : c \in e.content}
      /\ rs.state_delta = encodeActions(e.delta)
  BY DEF encodeEvent
<1> HIDE DEF rs, prs
<1>2. unmarshalNullable(rs.meta) = e.meta
  BY <1>1, Nullable DEF IsEvent
<1>3. unmarshalNullable(rs.requested_auth_configs) = e.conf
  <2>1. e.conf = {} \/ e.conf = {"v"}
    BY DEF IsEvent, Opt
  <2>2. populate(marshalUnlisted({})) = {}
    BY Json DEF populate, marshalUnlisted
  <2>3. populate(marshalUnlisted({"v"})) = {"{v}"}
    BY Json DEF populate, marshalUnlisted, marshalNullable
  <2>4. unmarshalNullable({}) = {} /\ unmarshalNullable({"{v}"}) = {"v"}
    BY Json DEF unmarshalNullable
  <2> QED
    BY <1>1, <2>1, <2>2, <2>3, <2>4
<1>4. decodeActions(rs.state_delta) = Kept(e).delta
  BY <1>1, DeltaKept
<1>5. ContentOf(rs, prs) = e.content
  <2>1. CASE e.content = {}
    <3>1. rs.content_role = {}
      BY <1>1, <2>1
    <3> QED
      BY <3>1, <2>1 DEF ContentOf
  <2>2. ASSUME NEW ps \in Seq(Part), e.content = Content(ps) PROVE ContentOf(rs, prs) = e.content
    <3>1. e.content = {[role |-> "", parts |-> ps]}
      BY <2>2 DEF Content
    <3>2. rs.content_role = {""}
      <4>1. \A c \in e.content : c.role = ""
        <5>1. [role |-> "", parts |-> ps].role = ""
          OBVIOUS
        <5>2. \A c \in e.content : c = [role |-> "", parts |-> ps]
          BY <3>1
        <5> QED
          BY <5>1, <5>2, Zenon
      <4>2. [role |-> "", parts |-> ps] \in e.content
        BY <3>1
      <4>3. {c.role : c \in e.content} = {""}
        BY <4>1, <4>2, Zenon
      <4> QED
        BY <1>1, <4>3
    <3>3. rs.parts = PartRows(ps)
      <4>1. \A c \in e.content : PartRows(c.parts) = PartRows(ps)
        <5>1. [role |-> "", parts |-> ps].parts = ps
          OBVIOUS
        <5>2. \A c \in e.content : c = [role |-> "", parts |-> ps]
          BY <3>1
        <5> QED
          BY <5>1, <5>2, Zenon
      <4>2. {PartRows(c.parts) : c \in e.content} = {PartRows(ps)}
        <5>1. [role |-> "", parts |-> ps] \in e.content
          BY <3>1
        <5> QED
          BY <4>1, <5>1, Zenon
      <4>3. UNION {PartRows(ps)} = PartRows(ps)
        OBVIOUS
      <4> QED
        BY <1>1, <4>2, <4>3, Zenon
    <3>4. prs = RowsOf(ps)
      BY <3>3, LoadedParts DEF prs, rs
    <3>5. [i \in DOMAIN prs |-> decodePart(prs[i])] = ps
      <4>1. DOMAIN prs = DOMAIN ps /\ \A i \in DOMAIN ps : prs[i] = encodePart(i, ps[i])
        BY <3>4 DEF RowsOf
      <4>2. \A i \in DOMAIN ps : decodePart(prs[i]) = ps[i]
        BY <4>1, PartRoundTrip
      <4>3. ps = [i \in DOMAIN ps |-> ps[i]]
        OBVIOUS
      <4> QED
        BY <4>1, <4>2, <4>3
    <3>6. ContentOf(rs, prs) = {[role |-> x, parts |-> ps] : x \in {""}}
      BY <3>2, <3>5, Zenon DEF ContentOf
    <3> QED
      BY <3>1, <3>6
  <2> QED
    BY <2>1, <2>2 DEF IsEvent
<1>6. decodeEvent(rs, prs) =
        [partial |-> FALSE, content |-> ContentOf(rs, prs), meta |-> unmarshalNullable(rs.meta),
         conf |-> unmarshalNullable(rs.requested_auth_configs),
         delta |-> decodeActions(rs.state_delta)]
  BY DecodedEvent
<1>7. Kept(e) = [partial |-> FALSE, content |-> e.content, meta |-> e.meta, conf |-> e.conf,
                 delta |-> Kept(e).delta]
  <2> DEFINE kept == {[k \in {x \in DOMAIN d : Head(x) # "temp:"} |-> d[k]] :
                        d \in {d \in e.delta : \E x \in DOMAIN d : Head(x) # "temp:"}}
  <2>1. Kept(e) = [e EXCEPT !.delta = kept]
    BY Zenon DEF Kept
  <2> HIDE DEF kept
  <2>2. e = [partial |-> FALSE, content |-> e.content, meta |-> e.meta, conf |-> e.conf,
             delta |-> e.delta]
    BY DEF IsEvent
  <2> QED
    BY <2>1, <2>2
<1> QED
  BY <1>2, <1>3, <1>4, <1>5, <1>6, <1>7 DEF rs, prs

-----------------------------------------------------------------------------
(* The theorem.                                                             *)

\* What is stored is the encoding of an event the store accepts, and what is
\* loaded is what is to be kept of it.
RowsInv ==
    /\ IsEvent(ev)
    /\ pc \in {"stored", "refused", "loaded"} =>
         /\ ev.partial = FALSE /\ rows = encodeEvent(ev)
         /\ SetsNil(ev.delta) <=> pc = "refused"
    /\ pc = "loaded" => out = Kept(ev)

LEMMA RowsInit == Init => RowsInv
BY EventsAreEvents DEF Init, RowsInv

LEMMA RowsStep == RowsInv /\ [Next]_vars => RowsInv'
<1> SUFFICES ASSUME RowsInv, [Next]_vars PROVE RowsInv'
  OBVIOUS
<1>1. CASE AppendPartial
  BY <1>1 DEF RowsInv, AppendPartial
<1>2. CASE EncodeForAppend
  <2>1. /\ pc = "offered" /\ ~ev.partial /\ rows' = encodeEvent(ev)
        /\ pc' = IF Acceptable(rows') THEN "stored" ELSE "refused"
        /\ ev' = ev
    BY <1>2 DEF EncodeForAppend
  <2>2. IsEvent(ev) /\ ev.partial = FALSE
    BY <2>1 DEF RowsInv, IsEvent
  <2>3. Acceptable(rows') <=> ~SetsNil(ev.delta)
    BY <2>1, <2>2, AcceptableEvent
  <2> QED
    BY <2>1, <2>2, <2>3 DEF RowsInv
<1>3. CASE Load
  <2>1. pc = "stored" /\ pc' = "loaded" /\ ev' = ev /\ rows' = rows
    BY <1>3 DEF Load
  <2>2. PICK arrived \in SetToSeqs(rows.parts) :
          out' = decodeEvent(rows, eventRowsFromSession(arrived))
    BY <1>3 DEF Load
  <2>3. IsEvent(ev) /\ ev.partial = FALSE /\ rows = encodeEvent(ev) /\ ~SetsNil(ev.delta)
    BY <2>1 DEF RowsInv
  <2>4. out' = Kept(ev)
    BY <2>2, <2>3, EventRoundTrip
  <2> QED
    BY <2>1, <2>3, <2>4 DEF RowsInv
<1>4. CASE UNCHANGED vars
  BY <1>4 DEF RowsInv, vars
<1> QED
  BY <1>1, <1>2, <1>3, <1>4 DEF Next

\* For every set of keys and any number of parts and of keys of a delta: an
\* event that is stored and loaded comes back as it was, whatever is nil, empty
\* or set in it and in whatever order its rows arrive, and the store refuses it
\* for a persisted key set to nil and for nothing else.
THEOREM EventsComeBack == Spec => []RoundTrip
<1>1. RowsInv => RoundTrip
  <2> SUFFICES ASSUME RowsInv PROVE RoundTrip
    OBVIOUS
  <2>1. SetsNil(ev.delta) <=> \E d \in ev.delta : \E k \in DOMAIN d : Head(k) # "temp:" /\ d[k] = "nil"
    BY DEF SetsNil
  <2> QED
    BY <2>1 DEF RowsInv, RoundTrip
<1> QED
  BY <1>1, RowsInit, RowsStep, PTL DEF Spec

-----------------------------------------------------------------------------
(* Cutting sequences.                                                       *)

\* Two ways to cut one sequence in two agree where both have elements.
LEMMA CutsAgree ==
    ASSUME NEW S, NEW a \in Seq(S), NEW b \in Seq(S), NEW r \in Seq(S), NEW t \in Seq(S),
           a \o b = r \o t
    PROVE  /\ Len(a) + Len(b) = Len(r) + Len(t)
           /\ \A i \in 1..Len(r) : i <= Len(a) => a[i] = r[i]
<1>1. Len(a \o b) = Len(a) + Len(b) /\ Len(r \o t) = Len(r) + Len(t)
  OBVIOUS
<1>2. ASSUME NEW i \in 1..Len(r), i <= Len(a) PROVE a[i] = r[i]
  <2>1. (a \o b)[i] = a[i]
    BY <1>2
  <2>2. (r \o t)[i] = r[i]
    OBVIOUS
  <2> QED
    BY <2>1, <2>2
<1> QED
  BY <1>1, <1>2

LEMMA CancelLeft ==
    ASSUME NEW S, NEW a \in Seq(S), NEW b \in Seq(S), NEW c \in Seq(S), a \o b = a \o c
    PROVE  b = c
<1>1. Len(a \o b) = Len(a) + Len(b) /\ Len(a \o c) = Len(a) + Len(c)
  OBVIOUS
<1>2. Len(b) = Len(c)
  BY <1>1
<1>3. ASSUME NEW i \in 1..Len(b) PROVE b[i] = c[i]
  <2>1. (a \o b)[Len(a) + i] = b[i]
    OBVIOUS
  <2>2. (a \o c)[Len(a) + i] = c[i]
    BY <1>2
  <2> QED
    BY <2>1, <2>2
<1> QED
  BY <1>2, <1>3, SameSeq

LEMMA Chop ==
    ASSUME NEW S, NEW a \in Seq(S), NEW b \in Seq(S), NEW r \in Seq(S), NEW t \in Seq(S),
           a \o b = r \o t, Len(r) <= Len(a)
    PROVE  /\ SubSeq(a, 1, Len(r)) = r
           /\ From(a, Len(r) + 1) \in Seq(S)
           /\ From(a, Len(r) + 1) \o b = t
<1> DEFINE c == From(a, Len(r) + 1)
<1>1. SubSeq(a, 1, Len(r)) = r
  <2>1. SubSeq(a, 1, Len(r)) \in Seq(S) /\ Len(SubSeq(a, 1, Len(r))) = Len(r)
    OBVIOUS
  <2>2. \A i \in 1..Len(r) : SubSeq(a, 1, Len(r))[i] = a[i]
    OBVIOUS
  <2>3. \A i \in 1..Len(r) : a[i] = r[i]
    BY CutsAgree
  <2> QED
    BY <2>1, <2>2, <2>3, SameSeq
<1>2. /\ c \in Seq(S) /\ Len(c) = Len(a) - Len(r)
      /\ \A i \in 1..Len(c) : c[i] = a[Len(r) + i]
  BY DEF From
<1> HIDE DEF c
<1>3. c \o b \in Seq(S) /\ Len(c \o b) = Len(t)
  <2>1. Len(a) + Len(b) = Len(r) + Len(t)
    BY CutsAgree
  <2> QED
    BY <1>2, <2>1
<1>4. ASSUME NEW i \in 1..Len(t) PROVE (c \o b)[i] = t[i]
  <2>1. (r \o t)[Len(r) + i] = t[i]
    OBVIOUS
  <2>2. CASE i <= Len(c)
    <3>1. (c \o b)[i] = a[Len(r) + i]
      BY <1>2, <2>2
    <3>2. (a \o b)[Len(r) + i] = a[Len(r) + i]
      BY <1>2, <2>2
    <3> QED
      BY <2>1, <3>1, <3>2
  <2>3. CASE i > Len(c)
    <3>1. (c \o b)[i] = b[i - Len(c)]
      BY <1>2, <1>3, <2>3
    <3>2. Len(r) + i \in 1..Len(a \o b) /\ Len(r) + i > Len(a)
      BY <1>2, <1>3, <2>3
    <3>3. (a \o b)[Len(r) + i] = b[Len(r) + i - Len(a)]
      <4>1. \A x \in 1..Len(a) + Len(b) : (a \o b)[x] = IF x <= Len(a) THEN a[x] ELSE b[x - Len(a)]
        BY ConcatProperties
      <4>2. PICK x \in 1..Len(a) + Len(b) : x = Len(r) + i
        BY <3>2
      <4> QED
        BY <3>2, <4>1, <4>2
    <3>4. Len(r) + i - Len(a) = i - Len(c)
      BY <1>2
    <3> QED
      BY <2>1, <3>1, <3>3, <3>4
  <2> QED
    BY <1>2, <2>2, <2>3
<1>5. c \o b = t
  BY <1>3, <1>4, SameSeq
<1> QED
  BY <1>1, <1>2, <1>5 DEF c

LEMMA PrefixOfConcat ==
    ASSUME NEW S, NEW a \in Seq(S), NEW b \in Seq(S)
    PROVE  IsPrefix(a, a \o b)
<1>1. Len(a) <= Len(a \o b)
  OBVIOUS
<1>2. SubSeq(a, 1, Len(a)) = a
  OBVIOUS
<1>3. SubSeq(a \o b, 1, Len(a)) = a
  <2>1. SubSeq(a \o b, 1, Len(a)) \in Seq(S) /\ Len(SubSeq(a \o b, 1, Len(a))) = Len(a)
    OBVIOUS
  <2>2. \A i \in 1..Len(a) : SubSeq(a \o b, 1, Len(a))[i] = a[i]
    OBVIOUS
  <2> QED
    BY <2>1, <2>2, SameSeq
<1> QED
  BY <1>1, <1>2, <1>3, Zenon DEF IsPrefix

-----------------------------------------------------------------------------
(* Messages and scripts.                                                    *)

\* A message on the wire.
LEMMA RawShape ==
    ASSUME NEW m, WellFormed(m)
    PROVE  /\ Raw(m) \in Seq(Elements(Raw(m)))
           /\ Len(Raw(m)) = Len(Payload(m)) + 2 /\ Len(Payload(m)) \in Nat
           /\ Untyped(m) => Raw(m)[1] = Len(Payload(m)) + 2 /\ Raw(m)[2] = m.typ
           /\ ~Untyped(m) =>
                /\ Raw(m)[1] = m.typ
                /\ m.bad = "no" => Raw(m)[2] = Len(Payload(m)) + 1
                /\ m.bad = "small" => Raw(m)[2] = 0
                /\ m.bad = "large" => Raw(m)[2] = maxMessageSize + 1
<1> DEFINE p == Payload(m)
<1>1. p \in Seq(Elements(p)) /\ Len(p) \in Nat
  BY Sequences DEF WellFormed
<1> HIDE DEF p
<1>2. ASSUME NEW a, NEW b
      PROVE  /\ <<a, b>> \o p \in Seq(Elements(<<a, b>> \o p)) /\ Len(<<a, b>> \o p) = Len(p) + 2
             /\ (<<a, b>> \o p)[1] = a /\ (<<a, b>> \o p)[2] = b
  <2> DEFINE T == Elements(p) \cup {a, b}
             q == <<a, b>> \o p
  <2>1. <<a, b>> \in Seq(T) /\ p \in Seq(T)
    BY <1>1
  <2>2. q \in Seq(T) /\ Len(q) = Len(p) + 2 /\ q[1] = a /\ q[2] = b
    BY <2>1
  <2> HIDE DEF q
  <2>3. IsSequence(q)
    BY <2>2 DEF IsSequence
  <2>4. q \in Seq(Elements(q))
    BY <2>3, Sequences
  <2> QED
    BY <2>2, <2>4 DEF q
<1>3. CASE Untyped(m)
  <2>1. Raw(m) = <<Len(p) + 2, m.typ>> \o p
    BY <1>3 DEF Raw, p
  <2> QED
    BY <1>1, <1>2, <1>3, <2>1 DEF p
<1>4. CASE ~Untyped(m)
  <2> DEFINE l == CASE m.bad = "small" -> 0
                    [] m.bad = "large" -> maxMessageSize + 1
                    [] OTHER           -> Len(p) + 1
  <2>1. Raw(m) = <<m.typ, l>> \o p
    BY <1>4 DEF Raw, p
  <2>2. /\ m.bad = "no" => l = Len(p) + 1
        /\ m.bad = "small" => l = 0
        /\ m.bad = "large" => l = maxMessageSize + 1
    OBVIOUS
  <2> HIDE DEF l
  <2>3. /\ Raw(m) \in Seq(Elements(Raw(m))) /\ Len(Raw(m)) = Len(p) + 2
        /\ Raw(m)[1] = m.typ /\ Raw(m)[2] = l
    BY <1>2, <2>1
  <2> QED
    BY <1>1, <1>4, <2>2, <2>3 DEF p
<1> QED
  BY <1>3, <1>4

\* What the codec makes of a buffer that begins like a message.
LEMMA Decode ==
    ASSUME NEW m, WellFormed(m), startup <=> Untyped(m),
           NEW buf, Len(buf) \in Nat,
           \A i \in 1..Len(Raw(m)) : i <= Len(buf) => buf[i] = Raw(m)[i]
    PROVE  \/ nextFrontendMessage(buf) = Framing /\ m.bad # "no"
           \/ nextFrontendMessage(buf) = Partial /\ Len(buf) < Len(Raw(m))
           \/ /\ nextFrontendMessage(buf) = Complete(Len(Raw(m)))
              /\ m.bad = "no" /\ Len(Raw(m)) <= Len(buf)
<1> DEFINE length == IF startup THEN buf[1] ELSE buf[2]
           total == IF startup THEN length ELSE length + 1
           nx == nextFrontendMessage(buf)
<1>1. nx = CASE Len(buf) < 2 -> Partial
             [] Len(buf) >= 2 /\ length < (IF startup THEN 2 ELSE 1) -> Framing
             [] Len(buf) >= 2 /\ length > maxMessageSize -> Framing
             [] OTHER -> IF Len(buf) < total THEN Partial ELSE Complete(total)
  BY DEF nextFrontendMessage
<1> HIDE DEF nx
<1> DEFINE R == Raw(m)
           p == Len(Payload(m))
           Goal == \/ nx = Framing /\ m.bad # "no"
                   \/ nx = Partial /\ Len(buf) < Len(R)
                   \/ nx = Complete(Len(R)) /\ m.bad = "no" /\ Len(R) <= Len(buf)
<1>3. Len(R) = p + 2 /\ p \in Nat
  BY RawShape
<1>4. m.bad \in {"no", "small", "large"} /\ maxMessageSize \in Nat
  BY ScriptsAssumption DEF WellFormed
<1>5. Untyped(m) => R[1] = p + 2 /\ m.bad = "no" /\ p + 2 <= maxMessageSize
  BY RawShape DEF WellFormed
<1>6. ~Untyped(m) => /\ m.bad = "no" => R[2] = p + 1 /\ p + 1 <= maxMessageSize
                     /\ m.bad = "small" => R[2] = 0
                     /\ m.bad = "large" => R[2] = maxMessageSize + 1
  BY RawShape DEF WellFormed
<1>7. \A i \in 1..Len(R) : i <= Len(buf) => buf[i] = R[i]
  OBVIOUS
<1> HIDE DEF R, p
<1>8. CASE Len(buf) < 2
  <2>1. nx = Partial
    BY <1>1, <1>8
  <2>2. Len(buf) < Len(R)
    BY <1>3, <1>8
  <2>3. Goal
    BY <2>1, <2>2
  <2> QED
    BY <2>3 DEF R, nx
<1>9. CASE Len(buf) >= 2
  <2>1. buf[1] = R[1] /\ buf[2] = R[2]
    <3>1. 1 \in 1..Len(R) /\ 2 \in 1..Len(R) /\ 1 <= Len(buf) /\ 2 <= Len(buf)
      BY <1>3, <1>9
    <3> QED
      BY <1>7, <3>1
  <2>2. ASSUME m.bad = "no", total = Len(R), total >= 1, length <= maxMessageSize,
               ~(length < (IF startup THEN 2 ELSE 1)), length \in Nat
        PROVE  Goal
    <3> HIDE DEF length, total
    <3>1. nx = IF Len(buf) < total THEN Partial ELSE Complete(total)
      BY <1>1, <1>4, <1>9, <2>2
    <3> QED
      BY <1>3, <2>2, <3>1
  <2>3. ASSUME Untyped(m) PROVE Goal
    <3>1. startup /\ m.bad = "no" /\ buf[1] = p + 2 /\ p + 2 <= maxMessageSize
      BY <1>5, <2>1, <2>3
    <3>2. length = p + 2 /\ total = p + 2
      BY <3>1
    <3> HIDE DEF length, total, Goal
    <3>3. /\ total = Len(R) /\ total >= 1 /\ length <= maxMessageSize
          /\ length \in Nat /\ ~(length < (IF startup THEN 2 ELSE 1))
      BY <1>3, <3>1, <3>2
    <3> QED
      BY <2>2, <3>1, <3>3
  <2>4. ASSUME ~Untyped(m), m.bad = "no" PROVE Goal
    <3>1. ~startup /\ buf[2] = p + 1 /\ p + 1 <= maxMessageSize
      BY <1>6, <2>1, <2>4
    <3>2. length = p + 1 /\ total = p + 2
      BY <1>3, <3>1
    <3> HIDE DEF length, total, Goal
    <3>3. /\ total = Len(R) /\ total >= 1 /\ length <= maxMessageSize
          /\ length \in Nat /\ ~(length < (IF startup THEN 2 ELSE 1))
      BY <1>3, <3>1, <3>2
    <3> QED
      BY <2>2, <2>4, <3>3
  <2>5. ASSUME m.bad # "no" PROVE Goal
    <3>1. ~Untyped(m) /\ ~startup
      BY <1>5, <2>5
    <3>2. length = 0 \/ length = maxMessageSize + 1
      BY <1>4, <1>6, <2>1, <2>5, <3>1
    <3> HIDE DEF length, total
    <3>3. nx = Framing
      BY <1>1, <1>4, <1>9, <3>1, <3>2
    <3> QED
      BY <2>5, <3>3
  <2>6. Goal
    BY <2>3, <2>4, <2>5
  <2> QED
    BY <2>6 DEF R, nx
<1> QED
  BY <1>8, <1>9

-----------------------------------------------------------------------------
(* The texts of the messages.                                              *)

\* What is found behind the first part of a buffer.
LEMMA Behind ==
    ASSUME NEW S, NEW a \in Seq(S), NEW u \in Seq(S)
    PROVE  From(a \o u, Len(a) + 1) = u
<1>1. a \o u \in Seq(S) /\ Len(a \o u) = Len(a) + Len(u) /\ Len(a) \in Nat /\ Len(u) \in Nat
  OBVIOUS
<1>2. \A x \in 1..Len(a) + Len(u) : (a \o u)[x] = IF x <= Len(a) THEN a[x] ELSE u[x - Len(a)]
  BY ConcatProperties
<1>3. PICK b \in Seq(S) : b = a \o u
  BY <1>1, Zenon
<1>4. From(b, Len(a) + 1) \in Seq(S) /\ Len(From(b, Len(a) + 1)) = Len(u)
  BY <1>1, <1>3 DEF From
<1>5. ASSUME NEW i \in 1..Len(u) PROVE From(b, Len(a) + 1)[i] = u[i]
  <2>1. From(b, Len(a) + 1)[i] = b[Len(a) + i]
    BY <1>1, <1>3 DEF From
  <2>2. PICK x \in 1..Len(a) + Len(u) : x = Len(a) + i
    BY <1>1
  <2>3. b[x] = u[x - Len(a)]
    BY <1>1, <1>2, <1>3, <2>2
  <2>4. x - Len(a) = i
    BY <1>1, <2>2
  <2> QED
    BY <2>1, <2>2, <2>3, <2>4
<1>6. From(b, Len(a) + 1) = u
  BY <1>4, <1>5, SameSeq
<1> QED
  BY <1>3, <1>6

\* A string is read up to the NUL that ends it.
LEMMA CStringRead ==
    ASSUME NEW S, "NUL" \in S, NEW c \in Seq(S), NEW u \in Seq(S), NoNul(c)
    PROVE  /\ CStringEnd(CString(c) \o u) = Len(c) + 1
           /\ SubSeq(CString(c) \o u, 1, Len(c)) = c
           /\ From(CString(c) \o u, Len(c) + 1 + 1) = u
           /\ CString(c) \in Seq(S) /\ CString(c) \o u \in Seq(S)
           /\ CStringEnd(CString(c)) = Len(c) + 1 /\ SubSeq(CString(c), 1, Len(c)) = c
<1>1. <<"NUL">> \in Seq(S)
  OBVIOUS
<1>2. /\ CString(c) \in Seq(S) /\ Len(CString(c)) = Len(c) + 1 /\ Len(c) \in Nat
      /\ \A i \in 1..Len(c) : CString(c)[i] = c[i]
      /\ CString(c)[Len(c) + 1] = "NUL"
  BY <1>1 DEF CString
<1>3. PICK k \in Seq(S) : k = CString(c)
  BY <1>2, Zenon
<1>4. \A i \in 1..Len(c) : c[i] # "NUL"
  BY DEF NoNul
<1>5. ASSUME NEW s \in Seq(S), Len(s) >= Len(k), \A i \in 1..Len(k) : s[i] = k[i]
      PROVE  CStringEnd(s) = Len(c) + 1 /\ SubSeq(s, 1, Len(c)) = c
  <2> DEFINE nul == {i \in DOMAIN s : s[i] = "NUL"}
             e == Len(c) + 1
  <2>1. Len(s) \in Nat /\ DOMAIN s = 1..Len(s)
    OBVIOUS
  <2>2. e \in 1..Len(s) /\ s[e] = "NUL" /\ \A i \in 1..Len(c) : s[i] = c[i]
    <3>1. e \in 1..Len(k) /\ Len(k) = e /\ \A i \in 1..Len(c) : i \in 1..Len(k)
      BY <1>2, <1>3
    <3> QED
      BY <1>2, <1>3, <1>5, <2>1, <3>1
  <2>3. e \in nul
    BY <2>1, <2>2
  <2>4. \A i \in nul : e <= i
    BY <1>2, <1>4, <2>1, <2>2
  <2>5. Min(nul) = e
    <3>1. \A x \in nul : x \in Nat
      BY <2>1
    <3>2. \A x \in nul : (\A y \in nul : x <= y) => x = e
      BY <1>2, <2>3, <2>4, <3>1
    <3> HIDE DEF nul, e
    <3> QED
      BY <2>3, <2>4, <3>2 DEF Min
  <2>6. CStringEnd(s) = e
    <3>1. nul # {}
      BY <2>3
    <3> HIDE DEF e
    <3> QED
      BY <2>5, <3>1, Zenon DEF CStringEnd
  <2>7. SubSeq(s, 1, Len(c)) = c
    <3>1. SubSeq(s, 1, Len(c)) \in Seq(S) /\ Len(SubSeq(s, 1, Len(c))) = Len(c)
      BY <1>2, <2>1, <2>2
    <3>2. \A i \in 1..Len(c) : SubSeq(s, 1, Len(c))[i] = c[i]
      BY <1>2, <2>1, <2>2
    <3> QED
      BY <3>1, <3>2, SameSeq
  <2> QED
    BY <2>6, <2>7
<1>6. k \o u \in Seq(S) /\ Len(k \o u) >= Len(k) /\ \A i \in 1..Len(k) : (k \o u)[i] = k[i]
  OBVIOUS
<1>7. CStringEnd(k \o u) = Len(c) + 1 /\ SubSeq(k \o u, 1, Len(c)) = c
  <2>1. PICK s \in Seq(S) : s = k \o u
    BY <1>6, Zenon
  <2>2. Len(s) >= Len(k) /\ \A i \in 1..Len(k) : s[i] = k[i]
    BY <1>6, <2>1, Zenon
  <2> QED
    BY <1>5, <2>1, <2>2, Zenon
<1>8. CStringEnd(k) = Len(c) + 1 /\ SubSeq(k, 1, Len(c)) = c
  <2>1. Len(k) >= Len(k)
    OBVIOUS
  <2> QED
    BY <1>5, <2>1
<1>9. From(k \o u, Len(k) + 1) = u
  BY Behind
<1>10. Len(k) = Len(c) + 1
  BY <1>2, <1>3
<1> QED
  BY <1>2, <1>3, <1>6, <1>7, <1>8, <1>9, <1>10, Zenon

\* How what stands behind a name may be bracketed.
IsBracketed(a, c, z, o) == (a \o c) \o (z \o o) = a \o ((c \o z) \o o)

LEMMA Bracketed ==
    ASSUME NEW S, NEW a \in Seq(S), NEW c \in Seq(S), NEW z \in Seq(S), NEW o \in Seq(S)
    PROVE  IsBracketed(a, c, z, o)
<1>1. PICK y \in Seq(S) : y = z \o o
  <2>1. z \o o \in Seq(S)
    OBVIOUS
  <2> QED
    BY <2>1, Zenon
<1>2. (a \o c) \o y = a \o (c \o y)
  BY ConcatAssociative, SMT
<1>3. (c \o z) \o o = c \o (z \o o)
  BY ConcatAssociative, SMT
<1> QED
  BY <1>1, <1>2, <1>3, Zenon DEF IsBracketed

\* The text of a message is behind its name, and a NUL ends it.
LEMMA TextOfMessage ==
    ASSUME NEW m, WellFormed(m), m.typ \in {"Q", "P"}, m.bad = "no"
    PROVE  sql(Raw(m)) = Sql(m.sql)
<1> DEFINE c == Sql(m.sql)
           p == Payload(m)
           T == Elements(p) \cup (TextCells(m.sql) \cup {"NUL", "oids"})
           r == Raw(m)
           head == <<m.typ, Len(p) + 1>>
<1>1. c \in Seq(TextCells(m.sql)) /\ \A i \in DOMAIN c : c[i] # "NUL"
  BY TextHasNoNul, Zenon DEF WellFormed
<1>2. p \in Seq(Elements(p)) /\ Len(p) \in Nat
  BY Sequences, Zenon DEF WellFormed
<1>3. r = head \o p
  BY DEF Raw, Untyped, startupCodes
<1>4. m.typ = "Q" => p = CString(c)
  BY Zenon DEF Payload, CString
<1>5. m.typ = "P" => p = m.name \o <<"NUL">> \o c \o <<"NUL", "oids">>
  BY DEF Payload
<1>6. m.typ = "P" => IsSequence(m.name) /\ NoNul(m.name)
  <2>1. ASSUME m.typ = "P" PROVE IsSequence(m.name) /\ "NUL" \notin ToSet(m.name)
    BY <2>1 DEF WellFormed
  <2> QED
    BY <2>1 DEF NoNul, ToSet
<1>7. NoNul(c)
  BY <1>1, Zenon DEF NoNul
<1>8. c \in Seq(T) /\ p \in Seq(T) /\ "NUL" \in T /\ "oids" \in T
  <2>1. TextCells(m.sql) \subseteq T /\ Elements(p) \subseteq T /\ "NUL" \in T /\ "oids" \in T
    OBVIOUS
  <2> HIDE DEF T, c, p
  <2> QED
    BY <1>1, <1>2, <2>1
<1> HIDE DEF c, p, T
<1>9. SubSeq(r, 3, Len(r)) = p /\ r[1] = m.typ /\ From(r, 3) = p
  <2> DEFINE U == T \cup {m.typ, Len(p) + 1}
  <2>1. head \in Seq(U) /\ Len(head) = 2 /\ head[1] = m.typ
    OBVIOUS
  <2>2. p \in Seq(U)
    BY <1>8
  <2> HIDE DEF U, head
  <2>3. From(head \o p, Len(head) + 1) = p
    BY <2>1, <2>2, Behind
  <2>4. (head \o p)[1] = head[1]
    BY <2>1, <2>2
  <2>5. From(r, 3) = p
    BY <1>3, <2>1, <2>3
  <2> QED
    BY <1>3, <2>1, <2>4, <2>5, Zenon DEF From
<1> HIDE DEF r, head
<1> DEFINE query(s) == IF CStringEnd(s) = 0 THEN <<>> ELSE SubSeq(s, 1, CStringEnd(s) - 1)
<1>10. CASE m.typ = "Q"
  <2>1. CStringEnd(p) = Len(c) + 1 /\ SubSeq(p, 1, Len(c)) = c
    BY <1>4, <1>7, <1>8, <1>10, CStringRead
  <2>2. query(p) = c
    <3>1. Len(c) \in Nat /\ CStringEnd(p) # 0 /\ CStringEnd(p) - 1 = Len(c)
      BY <1>8, <2>1
    <3> QED
      BY <2>1, <3>1
  <2>3. sql(r) = query(p)
    BY <1>9, <1>10 DEF sql
  <2> QED
    BY <2>2, <2>3 DEF r, c
<1>11. CASE m.typ = "P"
  <2> DEFINE a == m.name
             oids == <<"oids">>
             q == CString(c) \o oids
             V == T \cup Elements(a)
  <2>1. a \in Seq(V) /\ c \in Seq(V) /\ oids \in Seq(V) /\ "NUL" \in V
    <3>1. a \in Seq(Elements(a))
      BY <1>6, <1>11, Sequences
    <3>2. T \subseteq V /\ Elements(a) \subseteq V
      OBVIOUS
    <3>3. "NUL" \in V /\ "oids" \in V
      BY <1>8
    <3> HIDE DEF V
    <3> QED
      BY <1>8, <3>1, <3>2, <3>3
  <2> HIDE DEF V, a
  <2>2. q \in Seq(V) /\ CString(c) \in Seq(V) /\ CString(a) \in Seq(V)
    BY <2>1 DEF CString
  <2>3. p = CString(a) \o q
    <3>1. p = a \o <<"NUL">> \o c \o <<"NUL", "oids">>
      BY <1>5, <1>11 DEF a
    <3>2. <<"NUL">> \in Seq(V) /\ <<"NUL", "oids">> = <<"NUL">> \o oids
      BY <2>1
    <3>3. PICK z \in Seq(V) : z = <<"NUL">>
      BY <3>2
    <3>4. a \o z \in Seq(V)
      BY <2>1
    <3>5. IsBracketed(a \o z, c, z, oids)
      <4>1. c \in Seq(V) /\ oids \in Seq(V)
        BY <2>1
      <4> HIDE DEF oids, c
      <4> QED
        BY <3>3, <3>4, <4>1, Bracketed, Zenon
    <3> QED
      BY <3>1, <3>2, <3>3, <3>5, Zenon DEF CString, IsBracketed
  <2>4. CStringEnd(p) = Len(a) + 1 /\ From(p, Len(a) + 1 + 1) = q
    <3> HIDE DEF q
    <3> QED
      BY <1>6, <1>11, <2>1, <2>2, <2>3, CStringRead DEF a
  <2>5. CStringEnd(q) = Len(c) + 1 /\ SubSeq(q, 1, Len(c)) = c
    <3> HIDE DEF oids
    <3> QED
      BY <1>7, <2>1, CStringRead
  <2> HIDE DEF q
  <2>6. query(q) = c
    <3>1. Len(c) \in Nat /\ CStringEnd(q) # 0 /\ CStringEnd(q) - 1 = Len(c)
      BY <1>8, <2>5
    <3> QED
      BY <2>5, <3>1
  <2>7. From(p, CStringEnd(p) + 1) = q /\ CStringEnd(p) # 0
    BY <2>1, <2>4
  <2>8. sql(r) = query(From(p, CStringEnd(p) + 1))
    BY <1>9, <1>11, <2>7 DEF sql
  <2> QED
    BY <2>6, <2>7, <2>8, Zenon DEF r, c
<1> QED
  BY <1>10, <1>11

\* The lexer finds in each message what its text was put together to mean.
LEMMA MessageRead ==
    ASSUME NEW m, WellFormed(m), Forwardable(m)
    PROVE  observeListen(sql(Raw(m))) = Meant(m)
<1>1. WellFormed(m)
  OBVIOUS
<1>2. m.bad = "no" /\ ~Untyped(m)
  BY DEF Forwardable, Fatal
<1>3. CASE m.typ \in {"Q", "P"}
  <2>1. sql(Raw(m)) = Sql(m.sql) /\ LegalText(m.sql)
    BY <1>1, <1>2, <1>3, TextOfMessage, Zenon DEF WellFormed
  <2>2. Meant(m) = FlattenSeq([k \in DOMAIN m.sql |->
                     IF Meaning(m.sql[k]) = NoOp THEN <<>> ELSE <<Meaning(m.sql[k])>>])
    BY <1>3, Zenon DEF Meant
  <2> QED
    BY <2>1, <2>2, TextsAreRead, Zenon
<1>4. CASE m.typ \notin {"Q", "P"}
  <2>1. Raw(m)[1] = m.typ
    BY <1>1, <1>2, RawShape, Zenon
  <2>2. sql(Raw(m)) = <<>>
    BY <1>4, <2>1 DEF sql
  <2>3. observeListen(<<>>) = <<>>
    BY NothingObserved, Zenon
  <2> QED
    BY <1>4, <2>2, <2>3, Zenon DEF Meant
<1> QED
  BY <1>3, <1>4

-----------------------------------------------------------------------------
(* Scripts: what is due to each of the first k messages.                    *)

CellSet(ms) == UNION {Elements(Raw(ms[i])) : i \in 1..Len(ms)}

RawOf(ms) == [i \in 1..Len(ms) |-> Raw(ms[i])]

FwdOf(ms) == [i \in 1..Len(ms) |-> IF Forwardable(ms[i]) THEN Raw(ms[i]) ELSE <<>>]

AnsOf(ms) == [i \in 1..Len(ms) |-> AnswerTo(ms[i])]

MeantOf(ms) == [i \in 1..Len(ms) |-> Meant(ms[i])]

MeantSet(ms) == UNION {Elements(Meant(ms[i])) : i \in 1..Len(ms)}

LEMMA ScriptFacts ==
    ASSUME NEW ms \in Scripts
    PROVE  /\ Len(ms) \in Nat /\ Len(ms) # 0 /\ DOMAIN ms = 1..Len(ms)
           /\ ms \in Seq(Elements(ms))
           /\ \A i \in 1..Len(ms) : WellFormed(ms[i])
           /\ \A i \in 2..Len(ms) : Untyped(ms[i]) <=> ms[i - 1].typ \in {"ssl", "gss", "cancel"}
<1>1. IsSequence(ms) /\ ms # <<>>
  BY ScriptsAssumption
<1>2. ms \in Seq(Elements(ms)) /\ DOMAIN ms = 1..Len(ms) /\ Len(ms) \in Nat
  BY <1>1, Sequences
<1>3. Len(ms) # 0
  BY <1>1, <1>2
<1>4. \A i \in DOMAIN ms : WellFormed(ms[i])
  BY ScriptsAssumption
<1>5. \A i \in DOMAIN ms \ {1} : Untyped(ms[i]) <=> ms[i - 1].typ \in {"ssl", "gss", "cancel"}
  BY ScriptsAssumption
<1>6. \A i \in 2..Len(ms) : i \in DOMAIN ms \ {1}
  BY <1>2
<1> QED
  BY <1>2, <1>3, <1>4, <1>5, <1>6

LEMMA Pieces ==
    ASSUME NEW ms \in Scripts
    PROVE  /\ \A i \in 1..Len(ms) : Raw(ms[i]) \in Seq(CellSet(ms))
           /\ RawOf(ms) \in Seq(Seq(CellSet(ms))) /\ Len(RawOf(ms)) = Len(ms)
           /\ FwdOf(ms) \in Seq(Seq(CellSet(ms))) /\ Len(FwdOf(ms)) = Len(ms)
           /\ AnsOf(ms) \in Seq(Seq({"N", "handshake"})) /\ Len(AnsOf(ms)) = Len(ms)
<1> DEFINE S == CellSet(ms)
           n == Len(ms)
<1>1. n \in Nat /\ \A i \in 1..n : WellFormed(ms[i])
  BY ScriptFacts
<1>2. \A i \in 1..n : Raw(ms[i]) \in Seq(S)
  <2> TAKE i \in 1..n
  <2>1. Raw(ms[i]) \in Seq(Elements(Raw(ms[i])))
    BY <1>1, RawShape
  <2>2. Elements(Raw(ms[i])) \subseteq S
    BY DEF CellSet
  <2> HIDE DEF S
  <2> QED
    BY <2>1, <2>2
<1>3. <<>> \in Seq(S)
  OBVIOUS
<1>4. \A i \in 1..n : AnswerTo(ms[i]) \in Seq({"N", "handshake"})
  <2> TAKE i \in 1..n
  <2>1. AnswerTo(ms[i]) \in {<<"N">>, <<"handshake">>, <<>>}
    BY DEF AnswerTo
  <2>2. {<<"N">>, <<"handshake">>, <<>>} \subseteq Seq({"N", "handshake"})
    OBVIOUS
  <2> QED
    BY <2>1, <2>2
<1> HIDE DEF S, n
<1>5. RawOf(ms) = [i \in 1..n |-> Raw(ms[i])]
  BY DEF RawOf, n
<1>6. FwdOf(ms) = [i \in 1..n |-> IF Forwardable(ms[i]) THEN Raw(ms[i]) ELSE <<>>]
  BY DEF FwdOf, n
<1>7. AnsOf(ms) = [i \in 1..n |-> AnswerTo(ms[i])]
  BY DEF AnsOf, n
<1>8. RawOf(ms) \in Seq(Seq(S)) /\ Len(RawOf(ms)) = n
  BY <1>1, <1>2, <1>5
<1>9. FwdOf(ms) \in Seq(Seq(S)) /\ Len(FwdOf(ms)) = n
  BY <1>1, <1>2, <1>3, <1>6
<1>10. AnsOf(ms) \in Seq(Seq({"N", "handshake"})) /\ Len(AnsOf(ms)) = n
  BY <1>1, <1>4, <1>7
<1> QED
  BY <1>2, <1>8, <1>9, <1>10 DEF S, n

LEMMA MeantPieces ==
    ASSUME NEW ms \in Scripts
    PROVE  /\ MeantOf(ms) \in Seq(Seq(MeantSet(ms))) /\ Len(MeantOf(ms)) = Len(ms)
           /\ \A i \in 1..Len(ms) : Untyped(ms[i]) => Meant(ms[i]) = <<>>
<1> DEFINE S == MeantSet(ms)
           n == Len(ms)
<1>1. n \in Nat /\ \A i \in 1..n : WellFormed(ms[i])
  BY ScriptFacts
<1>2. ASSUME NEW m, WellFormed(m) PROVE Meant(m) \in Seq(Elements(Meant(m)))
  <2>1. CASE m.typ \notin {"Q", "P"}
    <3>1. Meant(m) = <<>>
      BY <2>1 DEF Meant
    <3> QED
      BY <3>1
  <2>2. CASE m.typ \in {"Q", "P"}
    <3> DEFINE q == m.sql
               f(x) == IF Meaning(x) = NoOp THEN <<>> ELSE <<Meaning(x)>>
               T == {Meaning(q[i]) : i \in 1..Len(q)}
               g == [i \in 1..Len(q) |-> f(q[i])]
    <3>1. q \in Seq(Elements(q)) /\ DOMAIN q = 1..Len(q) /\ Len(q) \in Nat
      BY <1>2, <2>2, Sequences DEF WellFormed, LegalText
    <3>2. Meant(m) = FlattenSeq([i \in DOMAIN q |-> IF Meaning(q[i]) = NoOp THEN <<>> ELSE <<Meaning(q[i])>>])
      BY <2>2, Zenon DEF Meant
    <3>3. Meant(m) = FlattenSeq(g)
      BY <3>1, <3>2
    <3>4. \A i \in 1..Len(q) : f(q[i]) \in Seq(T)
      <4> TAKE i \in 1..Len(q)
      <4>1. Meaning(q[i]) \in T
        OBVIOUS
      <4> HIDE DEF T
      <4>2. <<>> \in Seq(T) /\ <<Meaning(q[i])>> \in Seq(T)
        BY <4>1
      <4>3. f(q[i]) = <<>> \/ f(q[i]) = <<Meaning(q[i])>>
        OBVIOUS
      <4> HIDE DEF f
      <4> QED
        BY <4>2, <4>3
    <3> HIDE DEF T, q, f
    <3>5. g \in Seq(Seq(T)) /\ Len(g) = Len(q)
      BY <3>1, <3>4
    <3>6. g = [i \in 1..Len(q) |-> g[i]]
      OBVIOUS
    <3> HIDE DEF g
    <3>7. First(g, Len(q)) = FlattenSeq(g)
      BY <3>6, Zenon DEF First
    <3>8. Meant(m) \in Seq(T)
      <4>1. Len(q) \in 0..Len(g)
        BY <3>1, <3>5
      <4> QED
        BY <3>3, <3>5, <3>7, <4>1, FirstType
    <3>9. IsSequence(Meant(m))
      BY <3>8 DEF IsSequence
    <3> QED
      BY <3>9, Sequences
  <2> QED
    BY <2>1, <2>2
<1>3. \A i \in 1..n : Meant(ms[i]) \in Seq(S)
  <2> TAKE i \in 1..n
  <2>1. Meant(ms[i]) \in Seq(Elements(Meant(ms[i])))
    BY <1>1, <1>2
  <2>2. Elements(Meant(ms[i])) \subseteq S
    BY DEF MeantSet
  <2> HIDE DEF S
  <2> QED
    BY <2>1, <2>2
<1>4. \A i \in 1..n : Untyped(ms[i]) => Meant(ms[i]) = <<>>
  BY DEF Untyped, startupCodes, Meant
<1>5. MeantOf(ms) = [i \in 1..n |-> Meant(ms[i])]
  BY DEF MeantOf
<1> HIDE DEF S, n
<1>6. MeantOf(ms) \in Seq(Seq(S)) /\ Len(MeantOf(ms)) = n
  BY <1>1, <1>3, <1>5
<1> QED
  BY <1>4, <1>6 DEF S, n

\* The first k messages have had their effect, and rest is what is left of the
\* stream.
Reached(k, ms, rest, fwd, ans, lis) ==
    /\ k \in 0..Len(ms)
    /\ \A i \in 1..k : ~Fatal(ms[i])
    /\ First(RawOf(ms), Len(ms)) = First(RawOf(ms), k) \o rest
    /\ fwd = First(FwdOf(ms), k)
    /\ ans = First(AnsOf(ms), k)
    /\ lis = First(MeantOf(ms), k)

\* Two ways to cut one sequence: off a, and off a and what follows it.
Recut(S, a, r, t, u) == a \o u = (a \o r) \o t => u = r \o t

LEMMA Regroup ==
    ASSUME NEW S, NEW a \in Seq(S), NEW r \in Seq(S), NEW t \in Seq(S), NEW u \in Seq(S)
    PROVE  Recut(S, a, r, t, u)
<1>1. (a \o r) \o t = a \o (r \o t)
  BY ConcatAssociative, SMT
<1>2. r \o t \in Seq(S)
  OBVIOUS
<1>3. PICK v \in Seq(S) : v = r \o t
  BY <1>2, Zenon
<1>4. a \o u = a \o v => u = v
  BY CancelLeft
<1> QED
  BY <1>1, <1>3, <1>4, Zenon DEF Recut

\* One more: it is at the front of what is left.
LEMMA NextPiece ==
    ASSUME NEW S, NEW g \in Seq(Seq(S)), NEW k \in 0..Len(g) - 1, NEW rest \in Seq(S),
           First(g, Len(g)) = First(g, k) \o rest
    PROVE  \E t \in Seq(S) : rest = g[k + 1] \o t /\ First(g, Len(g)) = First(g, k + 1) \o t
<1>1. PICK j \in 0..Len(g) : j = k + 1
  OBVIOUS
<1>2. PICK n \in 0..Len(g) : n = Len(g)
  OBVIOUS
<1>3. \E t \in Seq(S) : First(g, n) = First(g, j) \o t
  <2>1. j \in 0..n
    BY <1>1, <1>2
  <2> QED
    BY <2>1, FirstGrows
<1>4. First(g, k) \in Seq(S)
  <2>1. k \in 0..Len(g)
    OBVIOUS
  <2> QED
    BY <2>1, FirstType
<1>5. g[k + 1] \in Seq(S)
  OBVIOUS
<1>6. First(g, j) = First(g, k) \o g[k + 1]
  BY <1>1, FirstStep
<1>7. First(g, n) = First(g, k) \o rest
  BY <1>2, Zenon
<1>8. PICK t \in Seq(S) : First(g, n) = First(g, j) \o t
  BY <1>3
<1>9. Recut(S, First(g, k), g[k + 1], t, rest)
  BY <1>4, <1>5, Regroup, Zenon
<1>10. rest = g[k + 1] \o t
  BY <1>6, <1>7, <1>8, <1>9, Zenon DEF Recut
<1> QED
  BY <1>1, <1>2, <1>8, <1>10, Zenon

LEMMA Ahead ==
    ASSUME NEW ms \in Scripts, NEW k \in 0..Len(ms), k # Len(ms), NEW rest \in Seq(CellSet(ms)),
           First(RawOf(ms), Len(ms)) = First(RawOf(ms), k) \o rest
    PROVE  \E t \in Seq(CellSet(ms)) :
             /\ rest = Raw(ms[k + 1]) \o t
             /\ First(RawOf(ms), Len(ms)) = First(RawOf(ms), k + 1) \o t
<1>1. Len(ms) \in Nat
  BY ScriptFacts
<1>2. RawOf(ms) \in Seq(Seq(CellSet(ms))) /\ Len(RawOf(ms)) = Len(ms)
  BY Pieces
<1>3. k + 1 \in 1..Len(ms) /\ k \in 0..Len(RawOf(ms)) - 1
  BY <1>1, <1>2
<1>4. RawOf(ms)[k + 1] = Raw(ms[k + 1])
  BY <1>3 DEF RawOf
<1>5. \E t \in Seq(CellSet(ms)) :
         /\ rest = RawOf(ms)[k + 1] \o t
         /\ First(RawOf(ms), Len(RawOf(ms))) = First(RawOf(ms), k + 1) \o t
  <2>1. First(RawOf(ms), Len(RawOf(ms))) = First(RawOf(ms), k) \o rest
    BY <1>2
  <2> QED
    BY <1>2, <1>3, <2>1, NextPiece
<1> QED
  BY <1>2, <1>4, <1>5

LEMMA Finished ==
    ASSUME NEW S, NEW a \in Seq(S), NEW rest \in Seq(S), a = a \o rest
    PROVE  rest = <<>> /\ Len(rest) = 0
<1>1. Len(a \o rest) = Len(a) + Len(rest)
  OBVIOUS
<1>2. Len(rest) = 0
  BY <1>1
<1> QED
  BY <1>2

\* What one more message adds.
LEMMA Effects ==
    ASSUME NEW ms \in Scripts, NEW k \in 0..Len(ms), k # Len(ms)
    PROVE  /\ First(RawOf(ms), k + 1) = First(RawOf(ms), k) \o Raw(ms[k + 1])
           /\ First(FwdOf(ms), k + 1) =
                First(FwdOf(ms), k) \o IF Forwardable(ms[k + 1]) THEN Raw(ms[k + 1]) ELSE <<>>
           /\ First(AnsOf(ms), k + 1) = First(AnsOf(ms), k) \o AnswerTo(ms[k + 1])
           /\ First(MeantOf(ms), k + 1) = First(MeantOf(ms), k) \o Meant(ms[k + 1])
<1>1. Len(ms) \in Nat
  BY ScriptFacts
<1>2. k + 1 \in 1..Len(ms) /\ k \in 0..Len(ms) - 1
  BY <1>1
<1>3. ASSUME NEW S, NEW g \in Seq(Seq(S)), Len(g) = Len(ms)
      PROVE  First(g, k + 1) = First(g, k) \o g[k + 1]
  <2>1. k \in 0..Len(g) - 1
    BY <1>2, <1>3
  <2> QED
    BY <2>1, FirstStep
<1>4. First(RawOf(ms), k + 1) = First(RawOf(ms), k) \o Raw(ms[k + 1])
  <2>1. RawOf(ms)[k + 1] = Raw(ms[k + 1])
    BY <1>2 DEF RawOf
  <2> QED
    BY <1>3, <2>1, Pieces, Zenon
<1>5. First(FwdOf(ms), k + 1) =
        First(FwdOf(ms), k) \o IF Forwardable(ms[k + 1]) THEN Raw(ms[k + 1]) ELSE <<>>
  <2>1. FwdOf(ms)[k + 1] = IF Forwardable(ms[k + 1]) THEN Raw(ms[k + 1]) ELSE <<>>
    BY <1>2 DEF FwdOf
  <2> QED
    BY <1>3, <2>1, Pieces, Zenon
<1>6. First(AnsOf(ms), k + 1) = First(AnsOf(ms), k) \o AnswerTo(ms[k + 1])
  <2>1. AnsOf(ms)[k + 1] = AnswerTo(ms[k + 1])
    BY <1>2 DEF AnsOf
  <2> QED
    BY <1>3, <2>1, Pieces, Zenon
<1>7. First(MeantOf(ms), k + 1) = First(MeantOf(ms), k) \o Meant(ms[k + 1])
  <2>1. MeantOf(ms)[k + 1] = Meant(ms[k + 1])
    BY <1>2 DEF MeantOf
  <2> QED
    BY <1>3, <2>1, MeantPieces, Zenon
<1> QED
  BY <1>4, <1>5, <1>6, <1>7

LEMMA OneMore ==
    ASSUME NEW ms \in Scripts, NEW k \in 0..Len(ms), k # Len(ms), ~Fatal(ms[k + 1]),
           NEW rest, NEW left, NEW f, NEW a, NEW l, Reached(k, ms, rest, f, a, l),
           First(RawOf(ms), Len(ms)) = First(RawOf(ms), k + 1) \o left
    PROVE  Reached(k + 1, ms, left,
                   f \o IF Forwardable(ms[k + 1]) THEN Raw(ms[k + 1]) ELSE <<>>,
                   a \o AnswerTo(ms[k + 1]), l \o Meant(ms[k + 1]))
<1>1. Len(ms) \in Nat
  BY ScriptFacts
<1>2. k + 1 \in 0..Len(ms) /\ \A i \in 1..k + 1 : i \in 1..k \/ i = k + 1
  BY <1>1
<1>3. \A i \in 1..k + 1 : ~Fatal(ms[i])
  BY <1>2, Zenon DEF Reached
<1> QED
  BY <1>2, <1>3, Effects, Zenon DEF Reached

\* A buffer and what will follow it, and the message they begin with.
BeginsWith(S, a, b, r, t) ==
    a \o b = r \o t =>
      /\ \A i \in 1..Len(r) : i <= Len(a) => a[i] = r[i]
      /\ Len(r) <= Len(a) => /\ SubSeq(a, 1, Len(r)) = r
                            /\ From(a, Len(r) + 1) \in Seq(S)
                            /\ From(a, Len(r) + 1) \o b = t

LEMMA Begins ==
    ASSUME NEW S, NEW a \in Seq(S), NEW b \in Seq(S), NEW r \in Seq(S), NEW t \in Seq(S)
    PROVE  BeginsWith(S, a, b, r, t)
<1>1. ASSUME a \o b = r \o t
      PROVE  \A i \in 1..Len(r) : i <= Len(a) => a[i] = r[i]
  BY <1>1, CutsAgree
<1>2. ASSUME a \o b = r \o t, Len(r) <= Len(a)
      PROVE  /\ SubSeq(a, 1, Len(r)) = r
             /\ From(a, Len(r) + 1) \in Seq(S)
             /\ From(a, Len(r) + 1) \o b = t
  BY <1>2, Chop
<1> QED
  BY <1>1, <1>2, Zenon DEF BeginsWith

\* What the codec finds at the front of the buffer.
LEMMA AtTheFront ==
    ASSUME NEW ms \in Scripts, NEW k, NEW w \in Seq(CellSet(ms)), NEW u \in Seq(CellSet(ms)),
           NEW f, NEW a, NEW l, Reached(k, ms, w \o u, f, a, l),
           k # Len(ms) => (startup <=> Untyped(ms[k + 1]))
    PROVE  \/ nextFrontendMessage(w) = Framing
           \/ /\ nextFrontendMessage(w) = Partial
              /\ k # Len(ms) => Len(w) < Len(Raw(ms[k + 1]))
           \/ /\ k # Len(ms) /\ ms[k + 1].bad = "no"
              /\ nextFrontendMessage(w) = Complete(Len(Raw(ms[k + 1])))
              /\ SubSeq(w, 1, Len(Raw(ms[k + 1]))) = Raw(ms[k + 1])
              /\ From(w, Len(Raw(ms[k + 1])) + 1) \in Seq(CellSet(ms))
              /\ First(RawOf(ms), Len(ms)) =
                   First(RawOf(ms), k + 1) \o (From(w, Len(Raw(ms[k + 1])) + 1) \o u)
<1> DEFINE C == CellSet(ms)
           m == ms[k + 1]
           n == Len(Raw(m))
<1>1. Len(ms) \in Nat /\ k \in 0..Len(ms) /\ w \o u \in Seq(C)
  BY ScriptFacts DEF Reached
<1>2. First(RawOf(ms), Len(ms)) = First(RawOf(ms), k) \o (w \o u)
  BY DEF Reached
<1>3. CASE k = Len(ms)
  <2>1. RawOf(ms) \in Seq(Seq(C)) /\ Len(ms) \in 0..Len(RawOf(ms))
    BY <1>1, Pieces
  <2>2. First(RawOf(ms), Len(ms)) \in Seq(C)
    BY <2>1, FirstType
  <2>3. PICK a0 \in Seq(C) : a0 = First(RawOf(ms), Len(ms))
    BY <2>2
  <2>4. PICK r \in Seq(C) : r = w \o u
    BY <1>1
  <2>5. a0 = a0 \o r
    BY <1>2, <1>3, <2>3, <2>4, Zenon
  <2>6. Len(r) = 0
    BY <2>5, Finished
  <2>7. Len(w) = 0
    BY <2>4, <2>6
  <2>8. nextFrontendMessage(w) = Partial
    BY <2>7 DEF nextFrontendMessage
  <2> QED
    BY <1>3, <2>8
<1>4. CASE k # Len(ms)
  <2>1. k + 1 \in 1..Len(ms)
    BY <1>1, <1>4
  <2>2. WellFormed(m) /\ Raw(m) \in Seq(C)
    BY <2>1, ScriptFacts, Pieces, Zenon
  <2>3. PICK t \in Seq(C) : /\ w \o u = Raw(m) \o t
                            /\ First(RawOf(ms), Len(ms)) = First(RawOf(ms), k + 1) \o t
    BY <1>1, <1>2, <1>4, Ahead, Zenon
  <2>4. BeginsWith(C, w, u, Raw(m), t)
    BY <2>2, Begins, Zenon
  <2>7. Len(Raw(m)) <= Len(w) => /\ SubSeq(w, 1, n) = Raw(m)
                                 /\ From(w, n + 1) \in Seq(C)
                                 /\ From(w, n + 1) \o u = t
    BY <2>3, <2>4, Zenon DEF BeginsWith
  <2>8. Len(w) \in Nat
    OBVIOUS
  <2>9. \A i \in 1..Len(Raw(m)) : i <= Len(w) => w[i] = Raw(m)[i]
    BY <2>3, <2>4, Zenon DEF BeginsWith
  <2>10. startup <=> Untyped(m)
    BY <1>4
  <2>11. \/ nextFrontendMessage(w) = Framing /\ m.bad # "no"
         \/ nextFrontendMessage(w) = Partial /\ Len(w) < Len(Raw(m))
         \/ /\ nextFrontendMessage(w) = Complete(Len(Raw(m)))
            /\ m.bad = "no" /\ Len(Raw(m)) <= Len(w)
    BY <2>2, <2>8, <2>9, <2>10, Decode, Zenon
  <2> QED
    BY <1>4, <2>3, <2>7, <2>11, Zenon
<1> QED
  BY <1>3, <1>4

-----------------------------------------------------------------------------
(* Writing: what holds of the connection at every step.                     *)

\* What the backend has been handed are whole messages, in order.
BackendWhole ==
    \E k \in 0..Len(script) :
      (\A i \in 1..k : ~Fatal(script[i])) /\ backend = First(FwdOf(script), k)

\* k messages have been taken from the buffer; before a Write the rest of the
\* buffer is less than a message.
AtBoundary(k) ==
    /\ Reached(k, script, wbuf \o unsent, backend \o forward, answers, listens)
    /\ k # Len(script) => (startup <=> Untyped(script[k + 1]))
    /\ wpc = "idle" /\ k # Len(script) => Len(wbuf) < Len(Raw(script[k + 1]))

StillOpen == life = "open" /\ wpc # "error"

Flowing ==
    /\ wbuf \in Seq(CellSet(script)) /\ unsent \in Seq(CellSet(script))
    /\ backend \in Seq(CellSet(script)) /\ forward \in Seq(CellSet(script))
    /\ wpc = "idle" => forward = <<>>
    /\ \E k \in 0..Len(script) : AtBoundary(k)

WireInv ==
    /\ script \in Scripts
    /\ BackendWhole
    /\ StillOpen => Flowing

LEMMA RawAllIs ==
    ASSUME NEW ms \in Scripts
    PROVE  /\ RawAll(ms) = First(RawOf(ms), Len(ms)) /\ RawAll(ms) \in Seq(CellSet(ms))
           /\ Forwarded(ms) = First(FwdOf(ms), Len(ms))
           /\ AnswersTo(ms) = First(AnsOf(ms), Len(ms))
           /\ ListensIn(ms) = First(MeantOf(ms), Len(ms))
<1>1. DOMAIN ms = 1..Len(ms) /\ Len(ms) \in Nat
  BY ScriptFacts
<1>2. \A i \in 1..Len(ms) : RawOf(ms)[i] = Raw(ms[i])
  BY DEF RawOf
<1>3. [i \in DOMAIN ms |-> Raw(ms[i])] = [i \in 1..Len(ms) |-> RawOf(ms)[i]]
  BY <1>1, <1>2
<1>4. RawAll(ms) = First(RawOf(ms), Len(ms))
  BY <1>3, Zenon DEF RawAll, First
<1>5. RawAll(ms) \in Seq(CellSet(ms))
  <2>1. RawOf(ms) \in Seq(Seq(CellSet(ms))) /\ Len(ms) \in 0..Len(RawOf(ms))
    BY <1>1, Pieces
  <2> QED
    BY <1>4, <2>1, FirstType
<1>6. Forwarded(ms) = First(FwdOf(ms), Len(ms))
  <2>1. \A i \in 1..Len(ms) :
          FwdOf(ms)[i] = IF Forwardable(ms[i]) THEN Raw(ms[i]) ELSE <<>>
    BY DEF FwdOf
  <2>2. [i \in DOMAIN ms |-> IF Forwardable(ms[i]) THEN Raw(ms[i]) ELSE <<>>]
          = [i \in 1..Len(ms) |-> FwdOf(ms)[i]]
    BY <1>1, <2>1
  <2> QED
    BY <2>2, Zenon DEF Forwarded, First
<1>7. AnswersTo(ms) = First(AnsOf(ms), Len(ms))
  <2>1. \A i \in 1..Len(ms) : AnsOf(ms)[i] = AnswerTo(ms[i])
    BY DEF AnsOf
  <2>2. [i \in DOMAIN ms |-> AnswerTo(ms[i])] = [i \in 1..Len(ms) |-> AnsOf(ms)[i]]
    BY <1>1, <2>1
  <2> QED
    BY <2>2, Zenon DEF AnswersTo, First
<1>8. ListensIn(ms) = First(MeantOf(ms), Len(ms))
  <2>1. \A i \in 1..Len(ms) : MeantOf(ms)[i] = Meant(ms[i])
    BY DEF MeantOf
  <2>2. [i \in DOMAIN ms |-> Meant(ms[i])] = [i \in 1..Len(ms) |-> MeantOf(ms)[i]]
    BY <1>1, <2>1
  <2> QED
    BY <2>2, Zenon DEF ListensIn, First
<1> QED
  BY <1>4, <1>5, <1>6, <1>7, <1>8

LEMMA WireStart == WireInit => WireInv
<1> SUFFICES ASSUME WireInit PROVE WireInv
  OBVIOUS
<1> DEFINE C == CellSet(script)
<1>1. /\ script \in Scripts /\ unsent = RawAll(script) /\ wbuf = <<>>
      /\ startup = Untyped(script[1]) /\ forward = <<>> /\ backend = <<>>
      /\ answers = <<>> /\ listens = <<>>
  BY DEF WireInit
<1>2. Len(script) \in Nat /\ WellFormed(script[1]) /\ 0 \in 0..Len(script)
  BY <1>1, ScriptFacts
<1>3. \A g, S : g \in Seq(Seq(S)) => First(g, 0) = <<>>
  <2> SUFFICES ASSUME NEW g, NEW S, g \in Seq(Seq(S)) PROVE First(g, 0) = <<>>
    OBVIOUS
  <2>1. 0 \in 0..Len(g)
    OBVIOUS
  <2> QED
    BY <2>1, FirstType
<1>4. First(RawOf(script), 0) = <<>> /\ First(FwdOf(script), 0) = <<>> /\ First(AnsOf(script), 0) = <<>>
  BY <1>1, <1>3, Pieces, Zenon
<1>5. First(MeantOf(script), 0) = <<>>
  BY <1>1, <1>3, MeantPieces, Zenon
<1>6. BackendWhole
  BY <1>1, <1>2, <1>4 DEF BackendWhole
<1>7. /\ wbuf \in Seq(C) /\ unsent \in Seq(C) /\ backend \in Seq(C) /\ forward \in Seq(C)
      /\ <<>> \o unsent = unsent
  <2>1. unsent \in Seq(C)
    BY <1>1, RawAllIs
  <2> HIDE DEF C
  <2> QED
    BY <1>1, <2>1
<1>8. Reached(0, script, wbuf \o unsent, backend \o forward, answers, listens)
  <2>1. wbuf \o unsent = <<>> \o (<<>> \o unsent) /\ backend \o forward = <<>>
    BY <1>1, <1>7
  <2>2. First(RawOf(script), Len(script)) = First(RawOf(script), 0) \o (wbuf \o unsent)
    BY <1>1, <1>4, <1>7, RawAllIs, Zenon
  <2> QED
    BY <1>1, <1>2, <1>4, <1>5, <2>1, <2>2 DEF Reached
<1>9. AtBoundary(0)
  <2>1. Len(wbuf) < Len(Raw(script[1]))
    BY <1>1, <1>2, RawShape
  <2> QED
    BY <1>1, <1>8, <2>1 DEF AtBoundary
<1> QED
  BY <1>1, <1>2, <1>6, <1>7, <1>9, Zenon DEF WireInv, Flowing, C

\* A message has been decoded: it is the next of the script, whole.
LEMMA Decoding ==
    ASSUME WireInv, StillOpen, Decoded
    PROVE  \E k \in 0..Len(script) :
             /\ k # Len(script) /\ AtBoundary(k) /\ k + 1 \in 1..Len(script)
             /\ WellFormed(script[k + 1]) /\ script[k + 1].bad = "no"
             /\ (startup <=> Untyped(script[k + 1]))
             /\ Message = Raw(script[k + 1])
             /\ From(wbuf, Next1.n + 1) \in Seq(CellSet(script))
             /\ First(RawOf(script), Len(script)) =
                  First(RawOf(script), k + 1) \o (From(wbuf, Next1.n + 1) \o unsent)
<1>1. script \in Scripts /\ Flowing
  BY DEF WireInv
<1>2. wbuf \in Seq(CellSet(script)) /\ unsent \in Seq(CellSet(script))
  BY <1>1 DEF Flowing
<1>3. PICK k \in 0..Len(script) : AtBoundary(k)
  BY <1>1 DEF Flowing
<1>4. /\ Reached(k, script, wbuf \o unsent, backend \o forward, answers, listens)
      /\ k # Len(script) => (startup <=> Untyped(script[k + 1]))
  BY <1>3 DEF AtBoundary
<1>5. Next1 = nextFrontendMessage(wbuf) /\ ~Next1.err /\ Next1.n > 0
  BY DEF Decoded, Next1
<1>6. Next1 # Framing /\ Next1 # Partial
  BY <1>5 DEF Framing, Partial
<1>7. \/ nextFrontendMessage(wbuf) = Framing
      \/ nextFrontendMessage(wbuf) = Partial
      \/ /\ k # Len(script) /\ script[k + 1].bad = "no"
         /\ nextFrontendMessage(wbuf) = Complete(Len(Raw(script[k + 1])))
         /\ SubSeq(wbuf, 1, Len(Raw(script[k + 1]))) = Raw(script[k + 1])
         /\ From(wbuf, Len(Raw(script[k + 1])) + 1) \in Seq(CellSet(script))
         /\ First(RawOf(script), Len(script)) =
              First(RawOf(script), k + 1) \o (From(wbuf, Len(Raw(script[k + 1])) + 1) \o unsent)
  BY <1>1, <1>2, <1>4, AtTheFront, Zenon
<1>8. k # Len(script) /\ Next1 = Complete(Len(Raw(script[k + 1])))
  BY <1>5, <1>6, <1>7, Zenon
<1>9. Next1.n = Len(Raw(script[k + 1]))
  BY <1>8 DEF Complete
<1>10. Message = Raw(script[k + 1])
  BY <1>5, <1>6, <1>7, <1>9, Zenon DEF Message
<1>11. k + 1 \in 1..Len(script) /\ WellFormed(script[k + 1])
  <2>1. Len(script) \in Nat
    BY <1>1, ScriptFacts
  <2>2. k + 1 \in 1..Len(script)
    BY <1>8, <2>1
  <2> QED
    BY <1>1, <2>2, ScriptFacts
<1> QED
  BY <1>3, <1>4, <1>5, <1>6, <1>7, <1>8, <1>9, <1>10, <1>11, Zenon

\* Taking a message that does not end the connection, whatever is made of it.
LEMMA Consumed ==
    ASSUME NEW ms \in Scripts, NEW k \in 0..Len(ms), k # Len(ms), ~Fatal(ms[k + 1]),
           NEW rest, NEW left, NEW f, NEW a, NEW l, Reached(k, ms, rest, f, a, l),
           First(RawOf(ms), Len(ms)) = First(RawOf(ms), k + 1) \o left,
           NEW f1, f1 = IF Forwardable(ms[k + 1]) THEN f \o Raw(ms[k + 1]) ELSE f,
           NEW a1, a1 = IF AnswerTo(ms[k + 1]) = <<>> THEN a ELSE a \o AnswerTo(ms[k + 1]),
           NEW l1, l1 = IF Meant(ms[k + 1]) = <<>> THEN l ELSE l \o Meant(ms[k + 1])
    PROVE  Reached(k + 1, ms, left, f1, a1, l1)
<1>1. Reached(k + 1, ms, left,
              f \o IF Forwardable(ms[k + 1]) THEN Raw(ms[k + 1]) ELSE <<>>,
              a \o AnswerTo(ms[k + 1]), l \o Meant(ms[k + 1]))
  BY OneMore
<1>2. \A S, g : g \in Seq(Seq(S)) /\ Len(g) = Len(ms) => First(g, k) \o <<>> = First(g, k)
  <2> SUFFICES ASSUME NEW S, NEW g, g \in Seq(Seq(S)), Len(g) = Len(ms)
               PROVE  First(g, k) \o <<>> = First(g, k)
    OBVIOUS
  <2>1. First(g, k) \in Seq(S)
    BY FirstType
  <2> QED
    BY <2>1
<1>3. f \o <<>> = f
  BY <1>2, Pieces, Zenon DEF Reached
<1>4. a \o <<>> = a
  BY <1>2, Pieces, Zenon DEF Reached
<1>5. l \o <<>> = l
  BY <1>2, MeantPieces, Zenon DEF Reached
<1>6. f1 = f \o IF Forwardable(ms[k + 1]) THEN Raw(ms[k + 1]) ELSE <<>>
  BY <1>3, Zenon
<1>7. a1 = a \o AnswerTo(ms[k + 1])
  BY <1>4, Zenon
<1>8. l1 = l \o Meant(ms[k + 1])
  BY <1>5, Zenon
<1> QED
  BY <1>1, <1>6, <1>7, <1>8, Zenon DEF Reached

\* Whether the message behind this one belongs to the startup phase.
LEMMA NextPhase ==
    ASSUME NEW ms \in Scripts, NEW k \in 0..Len(ms), k + 1 \in 1..Len(ms), k + 1 # Len(ms)
    PROVE  Untyped(ms[k + 1 + 1]) <=> ms[k + 1].typ \in {"ssl", "gss", "cancel"}
<1>1. Len(ms) \in Nat
  BY ScriptFacts
<1>2. k + 1 + 1 \in 2..Len(ms) /\ k + 1 + 1 - 1 = k + 1
  BY <1>1
<1>3. PICK i \in 2..Len(ms) : i = k + 1 + 1
  BY <1>2
<1>4. Untyped(ms[i]) <=> ms[i - 1].typ \in {"ssl", "gss", "cancel"}
  BY ScriptFacts
<1> QED
  BY <1>2, <1>3, <1>4

LEMMA WholeKept ==
    ASSUME WireInv, script' = script, backend' = backend
    PROVE  BackendWhole'
BY DEF WireInv, BackendWhole

LEMMA GatherKeeps ==
    ASSUME WireInv, Gather
    PROVE  WireInv'
<1> DEFINE C == CellSet(script)
<1>1. /\ Decoded /\ ~startup /\ Message[1] # "X"
      /\ wbuf' = From(wbuf, Next1.n + 1)
      /\ listens' = listens \o observeListen(sql(Message))
      /\ forward' = forward \o Message
      /\ script' = script /\ unsent' = unsent /\ startup' = startup /\ wpc' = wpc
      /\ life' = life /\ backend' = backend /\ answers' = answers
  BY DEF Gather, consume
<1>2. wpc = "decode"
  BY <1>1 DEF Decoded
<1>3. script' \in Scripts /\ BackendWhole'
  BY <1>1, WholeKept DEF WireInv
<1>4. ASSUME StillOpen' PROVE Flowing'
  <2>1. StillOpen
    BY <1>1, <1>4 DEF StillOpen
  <2>2. script \in Scripts /\ Flowing
    BY <2>1 DEF WireInv
  <2>3. PICK k \in 0..Len(script) :
             /\ k # Len(script) /\ AtBoundary(k) /\ k + 1 \in 1..Len(script)
             /\ WellFormed(script[k + 1]) /\ script[k + 1].bad = "no"
             /\ (startup <=> Untyped(script[k + 1]))
             /\ Message = Raw(script[k + 1])
             /\ From(wbuf, Next1.n + 1) \in Seq(CellSet(script))
             /\ First(RawOf(script), Len(script)) =
                  First(RawOf(script), k + 1) \o (From(wbuf, Next1.n + 1) \o unsent)
    BY <1>1, <2>1, Decoding
  <2> DEFINE m == script[k + 1]
  <2>4. ~Untyped(m) /\ m.typ # "X"
    BY <1>1, <2>3, RawShape
  <2>5. ~Fatal(m) /\ Forwardable(m)
    BY <2>3, <2>4 DEF Fatal, Forwardable, Untyped, startupCodes
  <2>6. AnswerTo(m) = <<>>
    BY <2>4 DEF AnswerTo, Untyped, startupCodes
  <2>7. observeListen(sql(Raw(m))) = Meant(m)
    BY <2>3, <2>5, MessageRead, Zenon
  <2>8. Reached(k, script, wbuf \o unsent, backend \o forward, answers, listens)
    BY <2>3 DEF AtBoundary
  <2>9. Raw(m) \in Seq(C)
    BY <2>2, <2>3, Pieces
  <2>10. backend \in Seq(C) /\ forward \in Seq(C) /\ unsent \in Seq(C)
    BY <2>2 DEF Flowing
  <2>11. backend \o (forward \o Raw(m)) = (backend \o forward) \o Raw(m) /\ forward \o Raw(m) \in Seq(C)
    <3> HIDE DEF C, m
    <3>1. PICK r \in Seq(C) : r = Raw(m)
      BY <2>9
    <3>2. backend \o (forward \o r) = (backend \o forward) \o r
      BY <2>10, ConcatAssociative, SMT
    <3>3. forward \o r \in Seq(C)
      BY <2>10
    <3> QED
      BY <3>1, <3>2, <3>3, Zenon
  <2>12. listens' = IF Meant(m) = <<>> THEN listens ELSE listens \o Meant(m)
    <3>1. listens \o <<>> = listens
      <4>1. listens = First(MeantOf(script), k)
        BY <2>8 DEF Reached
      <4>2. MeantOf(script) \in Seq(Seq(MeantSet(script))) /\ Len(MeantOf(script)) = Len(script)
        BY <2>2, MeantPieces
      <4>3. listens \in Seq(MeantSet(script))
        BY <4>1, <4>2, FirstType
      <4> QED
        BY <4>3
    <3> QED
      BY <1>1, <2>3, <2>7, <3>1, Zenon
  <2>13. Reached(k + 1, script, From(wbuf, Next1.n + 1) \o unsent,
                 backend \o (forward \o Raw(m)), answers, listens')
    <3>1. backend \o (forward \o Raw(m)) =
            IF Forwardable(m) THEN (backend \o forward) \o Raw(m) ELSE backend \o forward
      BY <2>5, <2>11, Zenon
    <3>2. answers = IF AnswerTo(m) = <<>> THEN answers ELSE answers \o AnswerTo(m)
      BY <2>6, Zenon
    <3> QED
      BY <2>2, <2>3, <2>5, <2>8, <2>12, <3>1, <3>2, Consumed, Zenon
  <2>14. k + 1 # Len(script) => ~Untyped(script[k + 1 + 1])
    BY <2>2, <2>3, <2>4, NextPhase DEF Untyped, startupCodes
  <2>15. AtBoundary(k + 1)'
    BY <1>1, <1>2, <2>3, <2>13, <2>14, Zenon DEF AtBoundary
  <2>16. k + 1 \in 0..Len(script)
    BY <2>3
  <2> QED
    BY <1>1, <1>2, <2>3, <2>10, <2>11, <2>15, <2>16 DEF Flowing
<1> QED
  BY <1>3, <1>4 DEF WireInv

LEMMA StartupKeeps ==
    ASSUME WireInv, AnswerStartup
    PROVE  WireInv'
<1>1. /\ Decoded /\ startup
      /\ wbuf' = From(wbuf, Next1.n + 1)
      /\ script' = script /\ unsent' = unsent /\ wpc' = wpc /\ forward' = forward
      /\ backend' = backend /\ listens' = listens
      /\ startup' = (Message[2] \in {"ssl", "gss", "cancel"})
      /\ life' = IF Message[2] = "cancel" /\ life = "open" THEN "closed" ELSE life
      /\ deliver(CASE Message[2] \in {"ssl", "gss"} -> <<"N">>
                   [] Message[2] = "cancel"         -> <<>>
                   [] OTHER                         -> <<"handshake">>)
  BY DEF AnswerStartup, consume
<1>2. wpc = "decode"
  BY <1>1 DEF Decoded
<1>3. script' \in Scripts /\ BackendWhole'
  BY <1>1, WholeKept DEF WireInv
<1>4. ASSUME StillOpen' PROVE Flowing'
  <2>1. StillOpen /\ life = "open" /\ Message[2] # "cancel"
    BY <1>1, <1>4 DEF StillOpen
  <2>2. script \in Scripts /\ Flowing
    BY <2>1 DEF WireInv
  <2>3. PICK k \in 0..Len(script) :
             /\ k # Len(script) /\ AtBoundary(k) /\ k + 1 \in 1..Len(script)
             /\ WellFormed(script[k + 1]) /\ script[k + 1].bad = "no"
             /\ (startup <=> Untyped(script[k + 1]))
             /\ Message = Raw(script[k + 1])
             /\ From(wbuf, Next1.n + 1) \in Seq(CellSet(script))
             /\ First(RawOf(script), Len(script)) =
                  First(RawOf(script), k + 1) \o (From(wbuf, Next1.n + 1) \o unsent)
    BY <1>1, <2>1, Decoding
  <2> DEFINE m == script[k + 1]
  <2>4. Untyped(m) /\ Message[2] = m.typ
    BY <1>1, <2>3, RawShape
  <2>5. m.typ \in {"ssl", "gss", "v3"}
    BY <2>1, <2>4 DEF Untyped, startupCodes
  <2>6. ~Fatal(m) /\ ~Forwardable(m)
    BY <2>3, <2>4, <2>5 DEF Fatal, Forwardable
  <2>7. /\ answers' = answers \o AnswerTo(m)
        /\ AnswerTo(m) # <<>>
    BY <1>1, <2>1, <2>4, <2>5 DEF deliver, AnswerTo
  <2>8. Meant(m) = <<>>
    BY <2>2, <2>3, <2>4, MeantPieces
  <2>9. Reached(k, script, wbuf \o unsent, backend \o forward, answers, listens)
    BY <2>3 DEF AtBoundary
  <2>10. Reached(k + 1, script, From(wbuf, Next1.n + 1) \o unsent, backend \o forward,
                 answers', listens)
    <3>1. backend \o forward =
            IF Forwardable(m) THEN (backend \o forward) \o Raw(m) ELSE backend \o forward
      BY <2>6, Zenon
    <3>2. answers' = IF AnswerTo(m) = <<>> THEN answers ELSE answers \o AnswerTo(m)
      BY <2>7, Zenon
    <3>3. listens = IF Meant(m) = <<>> THEN listens ELSE listens \o Meant(m)
      BY <2>8, Zenon
    <3> QED
      BY <2>2, <2>3, <2>6, <2>9, <3>1, <3>2, <3>3, Consumed, Zenon
  <2>11. k + 1 # Len(script) => (startup' <=> Untyped(script[k + 1 + 1]))
    BY <1>1, <2>2, <2>3, <2>4, NextPhase
  <2>12. AtBoundary(k + 1)'
    BY <1>1, <1>2, <2>3, <2>10, <2>11, Zenon DEF AtBoundary
  <2>13. k + 1 \in 0..Len(script)
    BY <2>3
  <2>14. backend \in Seq(CellSet(script)) /\ forward \in Seq(CellSet(script))
         /\ unsent \in Seq(CellSet(script))
    BY <2>2 DEF Flowing
  <2> QED
    BY <1>1, <1>2, <2>3, <2>12, <2>13, <2>14 DEF Flowing
<1> QED
  BY <1>3, <1>4 DEF WireInv

\* A batch that is submitted is what has been gathered, and so whole messages.
LEMMA SubmittedWhole ==
    ASSUME WireInv, StillOpen, Submitted, script' = script
    PROVE  /\ BackendWhole'
           /\ backend' = backend \o forward /\ forward' = <<>>
           /\ backend' \in Seq(CellSet(script)) /\ backend' \o forward' = backend \o forward
<1>1. backend' = backend \o forward /\ forward' = <<>>
  BY DEF Submitted
<1>2. Flowing /\ script \in Scripts
  BY DEF WireInv
<1>3. PICK k \in 0..Len(script) : AtBoundary(k)
  BY <1>2 DEF Flowing
<1>4. (\A i \in 1..k : ~Fatal(script[i])) /\ backend \o forward = First(FwdOf(script), k)
  BY <1>3 DEF AtBoundary, Reached
<1>5. BackendWhole'
  BY <1>1, <1>4, Zenon DEF BackendWhole
<1>6. backend \in Seq(CellSet(script)) /\ forward \in Seq(CellSet(script))
  BY <1>2 DEF Flowing
<1>7. backend \o forward \in Seq(CellSet(script)) /\ (backend \o forward) \o <<>> = backend \o forward
  BY <1>6
<1> QED
  BY <1>1, <1>5, <1>7

LEMMA TerminateKeeps ==
    ASSUME WireInv, AnswerTerminate
    PROVE  WireInv'
<1>1. script' = script /\ Decoded
  BY DEF AnswerTerminate
<1>2. script' \in Scripts
  BY <1>1 DEF WireInv
<1>3. CASE forward = <<>> /\ life' = (IF life = "open" THEN "eof" ELSE life) /\ backend' = backend
  <2>1. ~StillOpen'
    BY <1>3 DEF StillOpen
  <2> QED
    BY <1>1, <1>2, <1>3, <2>1, WholeKept DEF WireInv
<1>4. CASE Submitted /\ life' = "eof"
  <2>1. ~StillOpen' /\ StillOpen
    BY <1>1, <1>4 DEF StillOpen, Submitted, Decoded
  <2> QED
    BY <1>1, <1>2, <1>4, <2>1, SubmittedWhole DEF WireInv
<1>5. CASE SubmitFails
  <2>1. ~StillOpen' /\ backend' = backend
    BY <1>5 DEF StillOpen, SubmitFails
  <2> QED
    BY <1>1, <1>2, <2>1, WholeKept DEF WireInv
<1> QED
  BY <1>3, <1>4, <1>5 DEF AnswerTerminate

LEMMA ReturnKeeps ==
    ASSUME WireInv, WriteReturns
    PROVE  WireInv'
<1>1. /\ script' = script /\ unsent' = unsent /\ wbuf' = wbuf /\ startup' = startup
      /\ life' = life /\ answers' = answers /\ listens' = listens
      /\ wpc = "decode" /\ ~Next1.err /\ Next1.n = 0
  BY DEF WriteReturns
<1>2. script' \in Scripts
  BY <1>1 DEF WireInv
<1>3. CASE SubmitFails
  <2>1. ~StillOpen' /\ backend' = backend
    BY <1>3 DEF StillOpen, SubmitFails
  <2> QED
    BY <1>1, <1>2, <2>1, WholeKept DEF WireInv
<1>4. ASSUME wpc' = "idle", BackendWhole', forward' = <<>>,
             StillOpen => /\ backend' \in Seq(CellSet(script))
                          /\ backend' \o forward' = backend \o forward
      PROVE  WireInv'
  <2>1. ASSUME StillOpen' PROVE Flowing'
    <3>1. StillOpen /\ Flowing /\ script \in Scripts
      BY <1>1, <2>1 DEF StillOpen, WireInv
    <3>2. /\ wbuf \in Seq(CellSet(script)) /\ unsent \in Seq(CellSet(script))
      BY <3>1 DEF Flowing
    <3>3. PICK k \in 0..Len(script) : AtBoundary(k)
      BY <3>1 DEF Flowing
    <3>4. /\ Reached(k, script, wbuf \o unsent, backend \o forward, answers, listens)
          /\ k # Len(script) => (startup <=> Untyped(script[k + 1]))
      BY <3>3 DEF AtBoundary
    <3>5. \/ nextFrontendMessage(wbuf) = Framing
          \/ /\ nextFrontendMessage(wbuf) = Partial
             /\ k # Len(script) => Len(wbuf) < Len(Raw(script[k + 1]))
          \/ /\ k # Len(script) /\ script[k + 1].bad = "no"
             /\ nextFrontendMessage(wbuf) = Complete(Len(Raw(script[k + 1])))
             /\ SubSeq(wbuf, 1, Len(Raw(script[k + 1]))) = Raw(script[k + 1])
             /\ From(wbuf, Len(Raw(script[k + 1])) + 1) \in Seq(CellSet(script))
             /\ First(RawOf(script), Len(script)) =
                  First(RawOf(script), k + 1) \o (From(wbuf, Len(Raw(script[k + 1])) + 1) \o unsent)
      BY <3>1, <3>2, <3>4, AtTheFront, Zenon
    <3>6. nextFrontendMessage(wbuf) # Framing
      BY <1>1 DEF Framing, Next1
    <3>7. k # Len(script) => nextFrontendMessage(wbuf) # Complete(Len(Raw(script[k + 1])))
      <4>1. ASSUME k # Len(script) PROVE Len(Raw(script[k + 1])) > 0
        <5>1. k + 1 \in 1..Len(script) /\ WellFormed(script[k + 1])
          <6>1. Len(script) \in Nat
            BY <3>1, ScriptFacts
          <6>2. k + 1 \in 1..Len(script)
            BY <4>1, <6>1
          <6> QED
            BY <3>1, <6>2, ScriptFacts
        <5> QED
          BY <5>1, RawShape
      <4>2. nextFrontendMessage(wbuf).n = 0
        BY <1>1 DEF Next1
      <4> QED
        BY <4>1, <4>2 DEF Complete
    <3>8. k # Len(script) => Len(wbuf) < Len(Raw(script[k + 1]))
      BY <3>5, <3>6, <3>7, Zenon
    <3>9. AtBoundary(k)'
      BY <1>1, <1>4, <3>1, <3>4, <3>8, Zenon DEF AtBoundary
    <3>10. <<>> \in Seq(CellSet(script))
      OBVIOUS
    <3> QED
      BY <1>1, <1>4, <3>1, <3>2, <3>9, <3>10, Zenon DEF Flowing
  <2> QED
    BY <1>2, <1>4, <2>1 DEF WireInv
<1>5. CASE forward = <<>> /\ wpc' = "idle" /\ backend' = backend /\ forward' = forward
  <2>1. BackendWhole'
    BY <1>1, <1>5, WholeKept
  <2>2. StillOpen => backend \in Seq(CellSet(script))
    BY DEF WireInv, Flowing
  <2> QED
    BY <1>4, <1>5, <2>1, <2>2, Zenon
<1>6. CASE wpc' = "idle" /\ Submitted
  <2>1. StillOpen
    BY <1>1, <1>6 DEF StillOpen, Submitted
  <2> QED
    BY <1>1, <1>4, <1>6, <2>1, SubmittedWhole, Zenon
<1> QED
  BY <1>3, <1>5, <1>6 DEF WriteReturns

\* Moving cells from one buffer to another leaves the two together as they were.
LEMMA CutInTwo ==
    ASSUME NEW S, NEW u \in Seq(S), NEW i \in 1..Len(u)
    PROVE  /\ SubSeq(u, 1, i) \in Seq(S) /\ From(u, i + 1) \in Seq(S)
           /\ SubSeq(u, 1, i) \o From(u, i + 1) = u
<1> DEFINE p == SubSeq(u, 1, i)
           q == From(u, i + 1)
<1>1. p \in Seq(S) /\ Len(p) = i /\ \A x \in 1..i : p[x] = u[x]
  OBVIOUS
<1>2. q \in Seq(S) /\ Len(q) = Len(u) - i /\ \A x \in 1..Len(q) : q[x] = u[i + x]
  BY DEF From
<1> HIDE DEF p, q
<1>3. p \o q \in Seq(S) /\ Len(p \o q) = Len(u)
  <2>0. p \in Seq(S) /\ q \in Seq(S)
    BY <1>1, <1>2
  <2>1. p \o q \in Seq(S) /\ Len(p \o q) = Len(p) + Len(q)
    BY <2>0
  <2>2. Len(u) \in Nat /\ i \in Int
    OBVIOUS
  <2>3. i + (Len(u) - i) = Len(u)
    BY <2>2
  <2> QED
    BY <1>1, <1>2, <2>1, <2>3, Zenon
<1>4. ASSUME NEW x \in 1..Len(u) PROVE (p \o q)[x] = u[x]
  <2>1. CASE x <= i
    BY <1>1, <1>2, <2>1
  <2>2. CASE x > i
    <3>1. (p \o q)[x] = q[x - i]
      BY <1>1, <1>2, <2>2
    <3>2. PICK y \in 1..Len(q) : y = x - i
      BY <1>2, <2>2
    <3>3. q[y] = u[i + y] /\ i + y = x
      BY <1>2, <3>2
    <3> QED
      BY <3>1, <3>2, <3>3
  <2>3. x <= i \/ x > i
    OBVIOUS
  <2> QED
    BY <2>1, <2>2, <2>3, Zenon
<1>5. p \o q = u
  BY <1>3, <1>4, SameSeq
<1> QED
  BY <1>1, <1>2, <1>5 DEF p, q

LEMMA Handed ==
    ASSUME NEW S, NEW w \in Seq(S), NEW u \in Seq(S), NEW i \in 1..Len(u)
    PROVE  /\ w \o SubSeq(u, 1, i) \in Seq(S) /\ From(u, i + 1) \in Seq(S)
           /\ (w \o SubSeq(u, 1, i)) \o From(u, i + 1) = w \o u
<1>1. /\ SubSeq(u, 1, i) \in Seq(S) /\ From(u, i + 1) \in Seq(S)
      /\ SubSeq(u, 1, i) \o From(u, i + 1) = u
  BY CutInTwo
<1>2. PICK p \in Seq(S) : p = SubSeq(u, 1, i)
  BY <1>1, Zenon
<1>3. PICK q \in Seq(S) : q = From(u, i + 1)
  BY <1>1, Zenon
<1>4. (w \o p) \o q = w \o (p \o q)
  BY ConcatAssociative, SMT
<1>5. w \o p \in Seq(S)
  OBVIOUS
<1> QED
  BY <1>1, <1>2, <1>3, <1>4, <1>5, Zenon

LEMMA WriteKeeps ==
    ASSUME WireInv, NEW n \in DOMAIN unsent, Write(n)
    PROVE  WireInv'
<1>1. /\ wpc = "idle" /\ life = "open" /\ n \in 1..Len(unsent)
      /\ wbuf' = wbuf \o SubSeq(unsent, 1, n) /\ unsent' = From(unsent, n + 1)
      /\ forward' = <<>> /\ wpc' = "decode"
      /\ script' = script /\ startup' = startup /\ life' = life /\ backend' = backend
      /\ answers' = answers /\ listens' = listens
  BY DEF Write
<1>2. script \in Scripts /\ Flowing /\ BackendWhole'
  BY <1>1, WholeKept DEF WireInv, StillOpen
<1>3. /\ wbuf \in Seq(CellSet(script)) /\ unsent \in Seq(CellSet(script))
      /\ backend \in Seq(CellSet(script)) /\ forward = <<>>
  BY <1>1, <1>2 DEF Flowing
<1>4. /\ wbuf' \in Seq(CellSet(script)) /\ unsent' \in Seq(CellSet(script))
      /\ wbuf' \o unsent' = wbuf \o unsent
  <2>1. n \in 1..Len(unsent)
    BY <1>1
  <2> QED
    BY <1>1, <1>3, <2>1, Handed
<1>5. <<>> \in Seq(CellSet(script))
  OBVIOUS
<1>6. PICK k \in 0..Len(script) : AtBoundary(k)
  BY <1>2 DEF Flowing
<1>7. AtBoundary(k)'
  BY <1>1, <1>3, <1>4, <1>6, Zenon DEF AtBoundary
<1>8. Flowing'
  BY <1>1, <1>3, <1>4, <1>5, <1>7, Zenon DEF Flowing
<1> QED
  BY <1>1, <1>2, <1>8 DEF WireInv

\* What the connection holds of the stream at every point: the backend has whole
\* messages only, and while the connection is open everything written so far is
\* handled, or stands in wbuf from a message boundary on (Conn.Write, consume).
THEOREM WireInvHolds == WireSpec => []WireInv
<1>1. WireInit => WireInv
  BY WireStart
<1>2. WireInv /\ [WireNext]_wireVars => WireInv'
  <2> SUFFICES ASSUME WireInv, [WireNext]_wireVars PROVE WireInv'
    OBVIOUS
  <2>1. ASSUME NEW n \in DOMAIN unsent, Write(n) PROVE WireInv'
    BY <2>1, WriteKeeps
  <2>2. CASE FramingLost
    <3>1. script' = script /\ backend' = backend /\ wpc' = "error"
      BY <2>2 DEF FramingLost
    <3> QED
      BY <3>1, WholeKept DEF WireInv, StillOpen
  <2>3. CASE WriteReturns
    BY <2>3, ReturnKeeps
  <2>4. CASE AnswerStartup
    BY <2>4, StartupKeeps
  <2>5. CASE AnswerTerminate
    BY <2>5, TerminateKeeps
  <2>6. CASE Gather
    BY <2>6, GatherKeeps
  <2>7. CASE Close
    <3>1. script' = script /\ backend' = backend /\ life' = "closed"
      BY <2>7 DEF Close
    <3> QED
      BY <3>1, WholeKept DEF WireInv, StillOpen
  <2>8. CASE UNCHANGED wireVars
    BY <2>8, Zenon DEF wireVars, replyVars, WireInv, StillOpen, Flowing, BackendWhole,
                       AtBoundary
  <2> QED
    BY <2>1, <2>2, <2>3, <2>4, <2>5, <2>6, <2>7, <2>8 DEF WireNext
<1> QED
  BY <1>1, <1>2, PTL DEF WireSpec

-----------------------------------------------------------------------------
(* What that says of the script's messages.                                 *)

\* The messages of a shorter script are the first of a longer one.
LEMMA Shorter ==
    ASSUME NEW ms \in Scripts, NEW c \in 0..Len(ms)
    PROVE  /\ RawAll(SubSeq(ms, 1, c)) = First(RawOf(ms), c)
           /\ Forwarded(SubSeq(ms, 1, c)) = First(FwdOf(ms), c)
           /\ AnswersTo(SubSeq(ms, 1, c)) = First(AnsOf(ms), c)
           /\ ListensIn(SubSeq(ms, 1, c)) = First(MeantOf(ms), c)
<1> DEFINE s == SubSeq(ms, 1, c)
<1>1. ms \in Seq(Elements(ms)) /\ Len(ms) \in Nat
  BY ScriptFacts
<1>2. DOMAIN s = 1..c /\ \A i \in 1..c : s[i] = ms[i] /\ i \in 1..Len(ms)
  BY <1>1
<1> HIDE DEF s
<1>3. RawAll(s) = First(RawOf(ms), c)
  <2>1. \A i \in 1..c : RawOf(ms)[i] = Raw(s[i])
    BY <1>2 DEF RawOf
  <2>2. [i \in DOMAIN s |-> Raw(s[i])] = [i \in 1..c |-> RawOf(ms)[i]]
    BY <1>2, <2>1
  <2> QED
    BY <2>2, Zenon DEF RawAll, First
<1>4. Forwarded(s) = First(FwdOf(ms), c)
  <2>1. \A i \in 1..c : FwdOf(ms)[i] = IF Forwardable(s[i]) THEN Raw(s[i]) ELSE <<>>
    BY <1>2 DEF FwdOf
  <2>2. [i \in DOMAIN s |-> IF Forwardable(s[i]) THEN Raw(s[i]) ELSE <<>>]
          = [i \in 1..c |-> FwdOf(ms)[i]]
    BY <1>2, <2>1
  <2> QED
    BY <2>2, Zenon DEF Forwarded, First
<1>5. AnswersTo(s) = First(AnsOf(ms), c)
  <2>1. \A i \in 1..c : AnsOf(ms)[i] = AnswerTo(s[i])
    BY <1>2 DEF AnsOf
  <2>2. [i \in DOMAIN s |-> AnswerTo(s[i])] = [i \in 1..c |-> AnsOf(ms)[i]]
    BY <1>2, <2>1
  <2> QED
    BY <2>2, Zenon DEF AnswersTo, First
<1>6. ListensIn(s) = First(MeantOf(ms), c)
  <2>1. \A i \in 1..c : MeantOf(ms)[i] = Meant(s[i])
    BY <1>2 DEF MeantOf
  <2>2. [i \in DOMAIN s |-> Meant(s[i])] = [i \in 1..c |-> MeantOf(ms)[i]]
    BY <1>2, <2>1
  <2> QED
    BY <2>2, Zenon DEF ListensIn, First
<1> QED
  BY <1>3, <1>4, <1>5, <1>6, Zenon DEF s

\* The lengths of the stream up to a message, and up to one further on.
LEMMA Lengths ==
    ASSUME NEW S, NEW g \in Seq(Seq(S)), NEW k \in 0..Len(g), NEW j \in 0..k
    PROVE  Len(First(g, j)) \in Nat /\ Len(First(g, k)) \in Nat /\ Len(First(g, j)) <= Len(First(g, k))
<1>1. PICK t \in Seq(S) : First(g, k) = First(g, j) \o t
  BY FirstGrows
<1>2. First(g, j) \in Seq(S)
  <2>1. j \in 0..Len(g)
    OBVIOUS
  <2> QED
    BY <2>1, FirstType
<1>3. PICK a \in Seq(S) : a = First(g, j)
  BY <1>2
<1>4. Len(a \o t) = Len(a) + Len(t) /\ Len(a) \in Nat /\ Len(t) \in Nat
  OBVIOUS
<1>5. Len(a) <= Len(a \o t) /\ Len(a \o t) \in Nat
  BY <1>4
<1> QED
  BY <1>1, <1>3, <1>4, <1>5, Zenon

LEMMA ReadWhole ==
    ASSUME WireInv, StillOpen, wpc = "idle"
    PROVE  \E k \in 0..Len(script) :
             /\ WrittenWhole = SubSeq(script, 1, k)
             /\ Reached(k, script, wbuf \o unsent, backend, answers, listens)
<1> DEFINE C == CellSet(script)
           G == RawOf(script)
           L(j) == Len(First(G, j))
<1>1. script \in Scripts /\ Flowing
  BY DEF WireInv
<1>2. PICK k \in 0..Len(script) : AtBoundary(k)
  BY <1>1 DEF Flowing
<1>3. /\ Reached(k, script, wbuf \o unsent, backend \o forward, answers, listens)
      /\ k # Len(script) => Len(wbuf) < Len(Raw(script[k + 1]))
  BY <1>2 DEF AtBoundary
<1>4. /\ wbuf \in Seq(C) /\ unsent \in Seq(C) /\ backend \in Seq(C) /\ forward = <<>>
  BY <1>1 DEF Flowing
<1>5. backend \o forward = backend
  BY <1>4
<1>6. Len(script) \in Nat
  BY <1>1, ScriptFacts
<1>7. G \in Seq(Seq(C)) /\ Len(G) = Len(script)
  BY <1>1, Pieces
<1>8. ASSUME NEW j \in 0..Len(script), NEW i \in 0..j
      PROVE  L(i) \in Nat /\ L(j) \in Nat /\ L(i) <= L(j)
  <2>1. j \in 0..Len(G)
    BY <1>7
  <2> QED
    BY <1>7, <2>1, Lengths
<1>9. Len(RawAll(script)) - Len(unsent) = L(k) + Len(wbuf)
  <2>1. RawAll(script) = First(G, k) \o (wbuf \o unsent)
    BY <1>1, <1>3, RawAllIs DEF Reached
  <2>2. First(G, k) \in Seq(C)
    <3>1. k \in 0..Len(G)
      BY <1>7
    <3> QED
      BY <1>7, <3>1, FirstType
  <2>3. PICK a \in Seq(C) : a = First(G, k)
    BY <2>2, Zenon
  <2>4. Len(a \o (wbuf \o unsent)) = Len(a) + Len(wbuf) + Len(unsent)
    <3> HIDE DEF C, G
    <3>1. Len(wbuf \o unsent) = Len(wbuf) + Len(unsent) /\ wbuf \o unsent \in Seq(C)
      BY <1>4
    <3>2. PICK b \in Seq(C) : b = wbuf \o unsent
      BY <3>1, Zenon
    <3>3. Len(a \o b) = Len(a) + Len(b)
      OBVIOUS
    <3>4. Len(a) \in Nat /\ Len(wbuf) \in Nat /\ Len(unsent) \in Nat
      BY <1>4
    <3> QED
      BY <3>1, <3>2, <3>3, <3>4
  <2>5. Len(RawAll(script)) = L(k) + Len(wbuf) + Len(unsent)
    BY <2>1, <2>3, <2>4, Zenon
  <2>6. L(k) \in Nat /\ Len(wbuf) \in Nat /\ Len(unsent) \in Nat
    BY <1>4, <2>2
  <2> HIDE DEF L
  <2> QED
    BY <2>5, <2>6
<1>10. k # Len(script) => L(k) + Len(wbuf) < L(k + 1)
  <2>1. SUFFICES ASSUME k # Len(script) PROVE L(k) + Len(wbuf) < L(k + 1)
    OBVIOUS
  <2>2. First(G, k + 1) = First(G, k) \o Raw(script[k + 1])
    BY <1>1, <2>1, Effects
  <2>3. PICK r \in Seq(C) : r = Raw(script[k + 1])
    <3>1. k + 1 \in 1..Len(script)
      BY <1>6, <2>1
    <3> QED
      BY <1>1, <3>1, Pieces
  <2>4. PICK a \in Seq(C) : a = First(G, k)
    <3>1. k \in 0..Len(G)
      BY <1>7
    <3>2. First(G, k) \in Seq(C)
      BY <1>7, <3>1, FirstType
    <3> QED
      BY <3>2, Zenon
  <2>5. Len(a \o r) = Len(a) + Len(r) /\ Len(a) \in Nat /\ Len(r) \in Nat
    OBVIOUS
  <2>6. L(k + 1) = Len(a) + Len(r) /\ L(k) = Len(a)
    BY <2>2, <2>3, <2>4, <2>5, Zenon
  <2>7. Len(wbuf) < Len(r) /\ Len(wbuf) \in Nat
    BY <1>3, <1>4, <2>1, <2>3
  <2> HIDE DEF L
  <2> QED
    BY <2>5, <2>6, <2>7
<1> DEFINE whole == {j \in 0..Len(script) :
                       Len(RawAll(SubSeq(script, 1, j))) <= Len(RawAll(script)) - Len(unsent)}
<1>11. \A j \in 0..Len(script) : Len(RawAll(SubSeq(script, 1, j))) = L(j)
  BY <1>1, Shorter, Zenon
<1>12. \A j \in whole : j \in 0..Len(script) /\ L(j) <= L(k) + Len(wbuf)
  BY <1>9, <1>11
<1>13. L(k) <= L(k) + Len(wbuf)
  <2>1. L(k) \in Nat /\ Len(wbuf) \in Nat
    BY <1>4, <1>8
  <2> HIDE DEF L
  <2> QED
    BY <2>1
<1>14. k \in whole
  BY <1>9, <1>11, <1>13
<1> HIDE DEF whole, L
<1>15. ASSUME NEW j \in whole PROVE k >= j
  <2>1. SUFFICES ASSUME j > k PROVE FALSE
    BY <1>6, <1>12
  <2>2. k # Len(script) /\ k + 1 \in 0..j /\ j \in 0..Len(script)
    BY <1>6, <1>12, <2>1
  <2>3. L(k + 1) <= L(j) /\ L(k + 1) \in Nat /\ L(j) \in Nat
    BY <1>8, <2>2
  <2>4. L(k) + Len(wbuf) < L(k + 1) /\ L(j) <= L(k) + Len(wbuf)
    BY <1>10, <1>12, <2>2
  <2>5. L(k) \in Nat /\ Len(wbuf) \in Nat
    BY <1>4, <1>8
  <2> QED
    BY <2>3, <2>4, <2>5
<1>16. Max(whole) = k
  <2>1. \A x \in whole : (\A y \in whole : x >= y) => x = k
    <3>1. \A x \in whole : x \in Int /\ k \in Int
      BY <1>12
    <3> QED
      BY <1>14, <1>15, <3>1
  <2> QED
    BY <1>14, <1>15, <2>1 DEF Max
<1>17. WrittenWhole = SubSeq(script, 1, k)
  BY <1>16, Zenon DEF WrittenWhole, whole
<1> QED
  BY <1>3, <1>5, <1>17, Zenon

\* Nothing behind a message that ends the connection counts.
LEMMA CountingIs ==
    ASSUME NEW ms \in Scripts, NEW k \in 0..Len(ms), \A i \in 1..k : ~Fatal(ms[i])
    PROVE  \E c \in 0..Len(ms) : k <= c /\ Forwarded(Counting(ms)) = First(FwdOf(ms), c)
<1> DEFINE ends == {i \in DOMAIN ms : Fatal(ms[i])}
<1>1. DOMAIN ms = 1..Len(ms) /\ Len(ms) \in Nat
  BY ScriptFacts
<1>2. CASE ends = {}
  <2>1. Counting(ms) = ms
    BY <1>2, Zenon DEF Counting
  <2>2. Len(ms) \in 0..Len(ms) /\ k <= Len(ms)
    BY <1>1
  <2> QED
    BY <2>1, <2>2, RawAllIs
<1>3. CASE ends # {}
  <2>1. ends \subseteq Nat
    BY <1>1
  <2>2. \E b \in ends : \A x \in ends : b <= x
    BY <1>3, <2>1, Least
  <2>3. Min(ends) \in ends
    <3> HIDE DEF ends
    <3> QED
      BY <2>2 DEF Min
  <2>4. PICK e \in ends : e = Min(ends)
    BY <2>3, Zenon
  <2>5. e \in 1..Len(ms) /\ Fatal(ms[e])
    BY <1>1
  <2>6. e - 1 \in 0..Len(ms) /\ k <= e - 1
    <3>1. ~(e \in 1..k)
      BY <2>5
    <3> QED
      BY <1>1, <2>5, <3>1
  <2>7. Counting(ms) = SubSeq(ms, 1, e - 1)
    BY <1>3, <2>4, Zenon DEF Counting
  <2> QED
    BY <2>6, <2>7, Shorter
<1> QED
  BY <1>2, <1>3

\* However the bytes are cut into writes, the backend sees only whole messages
\* that count, in order, and a Write that has returned has dealt with every
\* message written whole: nextFrontendMessage, Conn.Write and handleLocally, for
\* every script and every reply.
THEOREM MessagesAreReassembled == WireSpec => []StreamReassembled
<1>1. WireInv => StreamReassembled
  <2> SUFFICES ASSUME WireInv PROVE StreamReassembled
    OBVIOUS
  <2>1. script \in Scripts
    BY DEF WireInv
  <2>2. IsPrefix(backend, Forwarded(Counting(script)))
    <3>1. PICK k \in 0..Len(script) :
            (\A i \in 1..k : ~Fatal(script[i])) /\ backend = First(FwdOf(script), k)
      BY DEF WireInv, BackendWhole
    <3>2. PICK c \in 0..Len(script) :
            k <= c /\ Forwarded(Counting(script)) = First(FwdOf(script), c)
      BY <2>1, <3>1, CountingIs
    <3>3. /\ FwdOf(script) \in Seq(Seq(CellSet(script))) /\ c \in 0..Len(FwdOf(script))
          /\ k \in 0..c /\ k \in 0..Len(FwdOf(script))
      BY <2>1, <3>2, Pieces
    <3>4. PICK t \in Seq(CellSet(script)) : First(FwdOf(script), c) = First(FwdOf(script), k) \o t
      BY <3>3, FirstGrows
    <3>5. PICK a \in Seq(CellSet(script)) : a = First(FwdOf(script), k)
      <4>1. First(FwdOf(script), k) \in Seq(CellSet(script))
        BY <3>3, FirstType
      <4> QED
        BY <4>1, Zenon
    <3>6. IsPrefix(a, a \o t)
      BY PrefixOfConcat
    <3> QED
      BY <3>1, <3>2, <3>4, <3>5, <3>6, Zenon
  <2>3. ASSUME wpc = "idle", life = "open"
        PROVE  backend = Forwarded(WrittenWhole) /\ answers = AnswersTo(WrittenWhole)
    <3>1. StillOpen
      BY <2>3 DEF StillOpen
    <3>2. PICK k \in 0..Len(script) :
            /\ WrittenWhole = SubSeq(script, 1, k)
            /\ Reached(k, script, wbuf \o unsent, backend, answers, listens)
      BY <2>3, <3>1, ReadWhole
    <3> QED
      BY <2>1, <3>2, Shorter, Zenon DEF Reached
  <2> QED
    BY <2>2, <2>3 DEF StreamReassembled
<1> QED
  BY <1>1, WireInvHolds, PTL

\* However the stream is cut and whatever its texts quote or comment out, each
\* LISTEN and UNLISTEN of the statements written is applied once and in order,
\* and nothing else is (Conn.Write, observeListen).
THEOREM ListensAreObserved == WireSpec => []ListensObserved
<1>1. WireInv => ListensObserved
  <2> SUFFICES ASSUME WireInv, wpc = "idle", life = "open" PROVE listens = ListensIn(WrittenWhole)
    BY DEF ListensObserved
  <2>1. StillOpen /\ script \in Scripts
    BY DEF StillOpen, WireInv
  <2>2. PICK k \in 0..Len(script) :
          /\ WrittenWhole = SubSeq(script, 1, k)
          /\ Reached(k, script, wbuf \o unsent, backend, answers, listens)
    BY <2>1, ReadWhole
  <2> QED
    BY <2>1, <2>2, Shorter, Zenon DEF Reached
<1> QED
  BY <1>1, WireInvHolds, PTL

-----------------------------------------------------------------------------
(* Reading a reply: its frames.                                             *)

\* A function that refers to itself further on, up to the end of its domain.
Forward(L, T) ==
    \A i \in 1..L : T[i] = 0 \/ (T[i] \in Nat /\ T[i] > 0 /\ i + T[i] <= L + 1)

IsBackwards(f, L, T, A, B) ==
    f = [i \in 1..L + 1 |->
           IF i > L THEN <<>> ELSE IF T[i] = 0 THEN A[i] ELSE B[i] \o f[i + T[i]]]

LEMMA Backwards ==
    ASSUME NEW L \in Nat, NEW T, NEW A, NEW B, Forward(L, T)
    PROVE  \E f : IsBackwards(f, L, T, A, B)
<1>0. \A i \in 1..L : T[i] = 0 \/ (T[i] \in Nat /\ T[i] > 0 /\ i + T[i] <= L + 1)
  BY DEF Forward
<1> DEFINE Val(f, i) == IF i > L THEN <<>> ELSE IF T[i] = 0 THEN A[i] ELSE B[i] \o f[i + T[i]]
           From1(m) == L + 1 - m..L + 1
           Q(m) == \E f : f = [i \in From1(m) |-> Val(f, i)]
           P == {m \in Nat : m <= L => Q(m)}
<1>1. Q(0)
  <2> DEFINE f == [i \in From1(0) |-> <<>>]
  <2>1. \A i \in From1(0) : Val(f, i) = <<>>
    OBVIOUS
  <2>2. f = [i \in From1(0) |-> Val(f, i)]
    BY <2>1, Zenon
  <2> QED
    BY <2>2, Zenon
<1>2. ASSUME NEW m \in Nat, m + 1 <= L, Q(m) PROVE Q(m + 1)
  <2>1. PICK f : f = [i \in From1(m) |-> Val(f, i)]
    BY <1>2
  <2> DEFINE a == L - m
             f2 == [i \in From1(m + 1) |-> IF i = a THEN Val(f, i) ELSE f[i]]
  <2>2. /\ a \in 1..L /\ a \in From1(m + 1) /\ a \notin From1(m)
        /\ \A i \in From1(m + 1) : i = a \/ i \in From1(m)
        /\ \A i \in From1(m) : i \in From1(m + 1) /\ i # a
    BY <1>2
  <2>3. \A i \in From1(m) : f2[i] = f[i]
    BY <2>2
  <2>4. \A i \in From1(m + 1) : i > L \/ T[i] = 0 \/ i + T[i] \in From1(m)
    BY <1>0, <1>2
  <2>5. \A i \in From1(m + 1) : Val(f2, i) = Val(f, i)
    <3> HIDE DEF f2, From1
    <3> QED
      BY <2>3, <2>4, Zenon
  <2>6. \A i \in From1(m) : f[i] = Val(f, i)
    <3> HIDE DEF Val, From1
    <3> QED
      BY <2>1, Zenon
  <2>7. f2 = [i \in From1(m + 1) |-> Val(f2, i)]
    <3>1. \A i \in From1(m + 1) : (IF i = a THEN Val(f, i) ELSE f[i]) = Val(f2, i)
      <4> HIDE DEF f2, From1, Val, a
      <4> QED
        BY <2>2, <2>5, <2>6, Zenon
    <3> HIDE DEF From1, Val, a
    <3> QED
      BY <3>1, Zenon
  <2> QED
    BY <2>7, Zenon
<1>3. \A m \in Nat : m \in P
  <2>1. 0 \in P
    BY <1>1
  <2>2. ASSUME NEW m \in Nat, m \in P PROVE m + 1 \in P
    <3>1. m + 1 <= L => Q(m)
      <4> HIDE DEF Q
      <4> QED
        BY <2>2
    <3>2. m + 1 <= L => Q(m + 1)
      BY <1>2, <3>1, Zenon
    <3> HIDE DEF Q
    <3> QED
      BY <3>2
  <2> HIDE DEF P
  <2> QED
    BY <2>1, <2>2, Induction
<1>4. Q(L)
  <2> HIDE DEF Q
  <2> QED
    BY <1>3
<1>5. From1(L) = 1..L + 1
  OBVIOUS
<1> QED
  BY <1>4, <1>5, Zenon DEF IsBackwards

\* Where the codec cuts: frames of two cells or more, within the buffer.
LEMMA Cuts ==
    ASSUME NEW S, NEW buf \in Seq(S)
    PROVE  nextBackendMessage(buf) \in Nat /\ nextBackendMessage(buf) <= Len(buf)
BY ScriptsAssumption DEF nextBackendMessage

LEMMA CutsFrom ==
    ASSUME NEW S, NEW buf \in Seq(S), NEW i \in 1..Len(buf)
    PROVE  LET total == nextBackendMessage(From(buf, i))
           IN  total = 0 \/ (total \in Nat /\ total > 0 /\ i + total <= Len(buf) + 1)
<1>1. From(buf, i) \in Seq(S) /\ Len(From(buf, i)) = Len(buf) + 1 - i
  BY DEF From
<1>2. PICK b \in Seq(S) : b = From(buf, i)
  BY <1>1, Zenon
<1>3. nextBackendMessage(b) \in Nat /\ nextBackendMessage(b) <= Len(b)
  BY Cuts
<1>4. PICK n \in Nat : n = nextBackendMessage(From(buf, i))
  BY <1>2, <1>3
<1>5. n <= Len(buf) + 1 - i
  BY <1>1, <1>2, <1>3, <1>4
<1>6. n = 0 \/ (n > 0 /\ i + n <= Len(buf) + 1)
  <2>1. Len(buf) \in Nat /\ i \in Nat
    OBVIOUS
  <2> QED
    BY <1>5, <2>1
<1>7. n = 0 \/ (n \in Nat /\ n > 0 /\ i + n <= Len(buf) + 1)
  BY <1>6
<1> QED
  BY <1>4, <1>7, Zenon

IsSplit(split, buf) ==
    split = [i \in 1..Len(buf) + 1 |->
               LET total == nextBackendMessage(From(buf, i))
               IN  IF i > Len(buf) THEN <<>>
                   ELSE IF total = 0 THEN <<From(buf, i)>>
                   ELSE <<SubSeq(buf, i, i + total - 1)>> \o split[i + total]]

LEMMA FramesIs ==
    ASSUME NEW S, NEW buf \in Seq(S)
    PROVE  \E split : IsSplit(split, buf) /\ Frames(buf) = split[1]
<1> DEFINE L == Len(buf)
           T == [i \in 1..L |-> nextBackendMessage(From(buf, i))]
           A == [i \in 1..L |-> <<From(buf, i)>>]
           B == [i \in 1..L |-> <<SubSeq(buf, i, i + T[i] - 1)>>]
<1>1. L \in Nat /\ Forward(L, T)
  BY CutsFrom DEF Forward
<1>2. PICK f : IsBackwards(f, L, T, A, B)
  <2> HIDE DEF L, T, A, B
  <2> QED
    BY <1>1, Backwards, Zenon
<1>3. \A i \in 1..L + 1 : i > L \/ i \in 1..L
  BY <1>1
<1>4. \A i \in 1..L + 1 :
        (IF i > L THEN <<>> ELSE IF T[i] = 0 THEN A[i] ELSE B[i] \o f[i + T[i]])
          = LET total == nextBackendMessage(From(buf, i))
            IN  IF i > L THEN <<>>
                ELSE IF total = 0 THEN <<From(buf, i)>>
                ELSE <<SubSeq(buf, i, i + total - 1)>> \o f[i + total]
  <2> TAKE i \in 1..L + 1
  <2>1. CASE i > L
    BY <2>1, Zenon
  <2>2. CASE ~(i > L)
    <3>1. T[i] = nextBackendMessage(From(buf, i)) /\ A[i] = <<From(buf, i)>>
          /\ B[i] = <<SubSeq(buf, i, i + nextBackendMessage(From(buf, i)) - 1)>>
      <4>1. i \in 1..L
        BY <1>3, <2>2
      <4> HIDE DEF L
      <4> QED
        BY <4>1, Zenon
    <3> HIDE DEF T, A, B
    <3> QED
      BY <2>2, <3>1, Zenon
  <2> QED
    BY <2>1, <2>2, Zenon
<1>5. IsSplit(f, buf)
  BY <1>2, <1>4, Zenon DEF IsSplit, IsBackwards
<1> DEFINE split == CHOOSE split : IsSplit(split, buf)
<1>6. Frames(buf) = split[1]
  BY Zenon DEF Frames, IsSplit
<1>7. IsSplit(split, buf)
  BY <1>5, Zenon
<1> QED
  BY <1>6, <1>7, Zenon

\* A sequence that is a whole frame, by its length.
IsFrame(x) == Len(x) >= 2 /\ x[2] = Len(x) - 1 /\ Len(x) - 1 <= maxMessageSize

LEMMA FrameRead ==
    ASSUME NEW S, NEW x \in Seq(S), NEW t \in Seq(S), IsFrame(x)
    PROVE  nextBackendMessage(x \o t) = Len(x)
<1>1. maxMessageSize \in Nat
  BY ScriptsAssumption
<1>2. Len(x) \in Nat /\ Len(x) >= 2 /\ x[2] = Len(x) - 1 /\ Len(x) - 1 <= maxMessageSize
  BY DEF IsFrame
<1>3. Len(x \o t) = Len(x) + Len(t) /\ Len(t) \in Nat
  OBVIOUS
<1>4. (x \o t)[2] = Len(x) - 1
  <2>1. 2 \in 1..Len(x)
    BY <1>2
  <2>2. \A i \in 1..Len(x) : (x \o t)[i] = x[i]
    OBVIOUS
  <2> QED
    BY <1>2, <2>1, <2>2
<1>5. PICK n \in Nat : n = Len(x)
  BY <1>2
<1>6. PICK b : b = x \o t
  OBVIOUS
<1>7. Len(b) >= n /\ Len(b) \in Nat /\ b[2] = n - 1 /\ n >= 2 /\ n - 1 <= maxMessageSize
  BY <1>2, <1>3, <1>4, <1>5, <1>6
<1>8. nextBackendMessage(b) = n
  BY <1>1, <1>7 DEF nextBackendMessage
<1> QED
  BY <1>5, <1>6, <1>8, Zenon

Associates(a, x, v, t) == ((a \o x) \o v) \o t = a \o (x \o (v \o t))

LEMMA Regrouped ==
    ASSUME NEW S, NEW a \in Seq(S), NEW x \in Seq(S), NEW v \in Seq(S), NEW t \in Seq(S)
    PROVE  Associates(a, x, v, t)
<1>1. PICK p \in Seq(S) : p = a \o x
  <2>1. a \o x \in Seq(S)
    OBVIOUS
  <2> QED
    BY <2>1, Zenon
<1>2. PICK q \in Seq(S) : q = v \o t
  <2>1. v \o t \in Seq(S)
    OBVIOUS
  <2> QED
    BY <2>1, Zenon
<1>3. (p \o v) \o t = p \o (v \o t)
  BY ConcatAssociative, SMT
<1>4. (a \o x) \o q = a \o (x \o q)
  BY ConcatAssociative, SMT
<1> QED
  BY <1>1, <1>2, <1>3, <1>4, Zenon DEF Associates

\* One frame at the start of what is left of a buffer.
SplitsOff(split, buf, a, x, v) ==
    buf = a \o (x \o v) => split[Len(a) + 1] = <<x>> \o split[Len(a) + Len(x) + 1]

LEMMA OneFrame ==
    ASSUME NEW S, NEW a \in Seq(S), NEW x \in Seq(S), NEW v \in Seq(S), IsFrame(x),
           NEW buf, NEW split, IsSplit(split, buf)
    PROVE  SplitsOff(split, buf, a, x, v)
<1> SUFFICES ASSUME buf = a \o (x \o v)
             PROVE  split[Len(a) + 1] = <<x>> \o split[Len(a) + Len(x) + 1]
  BY Zenon DEF SplitsOff
<1> DEFINE i == Len(a) + 1
<1>1. PICK u \in Seq(S) : u = x \o v
  <2>1. x \o v \in Seq(S)
    OBVIOUS
  <2> QED
    BY <2>1, Zenon
<1>2. buf = a \o u
  BY <1>1, Zenon
<1>3. From(buf, i) = u
  BY <1>2, Behind
<1>4. nextBackendMessage(u) = Len(x)
  BY <1>1, FrameRead, Zenon
<1>5. /\ Len(buf) = Len(a) + Len(u) /\ Len(u) = Len(x) + Len(v) /\ buf \in Seq(S)
      /\ Len(a) \in Nat /\ Len(x) \in Nat /\ Len(v) \in Nat /\ Len(u) \in Nat
  BY <1>1, <1>2
<1>6. Len(x) >= 2
  BY DEF IsFrame
<1>7. i \in 1..Len(buf) + 1 /\ ~(i > Len(buf)) /\ Len(x) # 0 /\ i + Len(x) = Len(a) + Len(x) + 1
  BY <1>5, <1>6
<1>8. SubSeq(buf, i, i + Len(x) - 1) = x
  <2>1. SubSeq(buf, i, i + Len(x) - 1) \in Seq(S) /\ Len(SubSeq(buf, i, i + Len(x) - 1)) = Len(x)
    BY <1>5, <1>6
  <2>2. ASSUME NEW y \in 1..Len(x) PROVE SubSeq(buf, i, i + Len(x) - 1)[y] = x[y]
    <3>1. SubSeq(buf, i, i + Len(x) - 1)[y] = buf[Len(a) + y]
      BY <1>5, <1>6
    <3>2. From(buf, i)[y] = buf[Len(a) + y]
      BY <1>5, <1>6 DEF From
    <3>3. u[y] = x[y]
      BY <1>1
    <3> QED
      BY <1>3, <3>1, <3>2, <3>3, Zenon
  <2>3. PICK z \in Seq(S) : z = SubSeq(buf, i, i + Len(x) - 1)
    BY <2>1, Zenon
  <2>4. Len(z) = Len(x) /\ \A y \in 1..Len(z) : z[y] = x[y]
    BY <2>1, <2>2, <2>3, Zenon
  <2>5. z = x
    BY <2>4, SameSeq
  <2> QED
    BY <2>3, <2>5
<1>9. split[i] = LET total == nextBackendMessage(From(buf, i))
                 IN  IF i > Len(buf) THEN <<>>
                     ELSE IF total = 0 THEN <<From(buf, i)>>
                     ELSE <<SubSeq(buf, i, i + total - 1)>> \o split[i + total]
  <2> HIDE DEF i
  <2> QED
    BY <1>7, Zenon DEF IsSplit
<1> HIDE DEF i
<1>10. split[i] = <<x>> \o split[i + Len(x)]
  BY <1>3, <1>4, <1>7, <1>8, <1>9, Zenon
<1> QED
  BY <1>7, <1>10, Zenon DEF i

\* The end: nothing, or what has arrived of another frame.
LEMMA LastFrame ==
    ASSUME NEW S, NEW a \in Seq(S), NEW t \in Seq(S), nextBackendMessage(t) = 0,
           NEW buf, buf = a \o t, NEW split, IsSplit(split, buf)
    PROVE  split[Len(a) + 1] = IF t = <<>> THEN <<>> ELSE <<t>>
<1> DEFINE i == Len(a) + 1
<1>1. From(buf, i) = t
  BY Behind
<1>2. /\ Len(buf) = Len(a) + Len(t) /\ Len(a) \in Nat /\ Len(t) \in Nat
  OBVIOUS
<1>3. i \in 1..Len(buf) + 1 /\ (i > Len(buf) <=> Len(t) = 0)
  BY <1>2
<1>4. Len(t) = 0 <=> t = <<>>
  OBVIOUS
<1>5. split[i] = LET total == nextBackendMessage(From(buf, i))
                 IN  IF i > Len(buf) THEN <<>>
                     ELSE IF total = 0 THEN <<From(buf, i)>>
                     ELSE <<SubSeq(buf, i, i + total - 1)>> \o split[i + total]
  <2> HIDE DEF i
  <2> QED
    BY <1>3, Zenon DEF IsSplit
<1> HIDE DEF i
<1>6. split[i] = IF t = <<>> THEN <<>> ELSE <<t>>
  BY <1>1, <1>3, <1>4, <1>5, Zenon
<1> QED
  BY <1>6, Zenon DEF i

LEMMA Peel ==
    ASSUME NEW S, NEW q \in Seq(S), NEW j \in 1..Len(q)
    PROVE  From(q, j) = <<q[j]>> \o From(q, j + 1)
<1>1. Len(q) \in Nat /\ j \in Nat /\ q[j] \in S /\ j \in 1..Len(q) + 1 /\ j + 1 \in 1..Len(q) + 1
  OBVIOUS
<1>2. PICK c \in S : c = q[j]
  BY <1>1, Zenon
<1>3. PICK r \in Seq(S) : r = From(q, j + 1)
  BY <1>1, FromIs, Zenon
<1>4. Len(r) = Len(q) - j /\ \A i \in 1..Len(r) : r[i] = q[j + i]
  <2>1. PICK k \in 1..Len(q) + 1 : k = j + 1
    BY <1>1
  <2>2. r = From(q, k)
    BY <1>3, <2>1
  <2>3. Len(r) = Len(q) + 1 - k /\ \A x \in 1..Len(q) + 1 - k : r[x] = q[k + x - 1]
    BY <2>2, FromIs, Zenon
  <2>4. Len(r) = Len(q) - j
    BY <1>1, <2>1, <2>3
  <2>5. ASSUME NEW i \in 1..Len(r) PROVE r[i] = q[j + i]
    <3>1. i \in 1..Len(q) + 1 - k /\ k + i - 1 = j + i
      BY <1>1, <2>1, <2>4
    <3> QED
      BY <2>3, <3>1, Zenon
  <2> QED
    BY <2>4, <2>5
<1>5. PICK b \in Seq(S) : b = From(q, j)
  BY <1>1, FromIs, Zenon
<1>6. Len(b) = Len(q) + 1 - j /\ \A i \in 1..Len(q) + 1 - j : b[i] = q[j + i - 1]
  BY <1>1, <1>5, FromIs, Zenon
<1>7. PICK d \in Seq(S) : d = <<c>> \o r
  <2>1. <<c>> \in Seq(S)
    OBVIOUS
  <2>2. <<c>> \o r \in Seq(S)
    BY <2>1
  <2> QED
    BY <2>2, Zenon
<1>8. Len(d) = 1 + Len(r) /\ d[1] = c /\ \A i \in 1..Len(r) : d[i + 1] = r[i]
  BY <1>7
<1>9. ASSUME NEW i \in 1..Len(b) PROVE b[i] = d[i]
  <2>0. b[i] = q[j + i - 1]
    <3>1. i \in 1..Len(q) + 1 - j
      BY <1>6
    <3> QED
      BY <1>6, <3>1, Zenon
  <2>1. CASE i = 1
    <3>1. j + i - 1 = j
      BY <1>1, <2>1
    <3> QED
      BY <1>2, <1>8, <2>0, <2>1, <3>1, Zenon
  <2>2. CASE i # 1
    <3>1. Len(b) = Len(r) + 1 /\ Len(r) \in Nat
      BY <1>1, <1>4, <1>6
    <3>2. PICK k \in 1..Len(r) : i = k + 1
      <4>1. i - 1 \in 1..Len(r) /\ i = i - 1 + 1
        BY <2>2, <3>1
      <4> QED
        BY <4>1, Zenon
    <3>3. d[i] = r[k] /\ r[k] = q[j + k]
      BY <1>4, <1>8, <3>2, Zenon
    <3>4. j + i - 1 = j + k
      BY <1>1, <3>2
    <3> QED
      BY <2>0, <3>3, <3>4, Zenon
  <2> QED
    BY <2>1, <2>2, Zenon
<1>10. b = d
  <2>1. Len(b) = Len(d)
    BY <1>1, <1>4, <1>6, <1>8
  <2> QED
    BY <1>9, <2>1, SameSeq
<1> QED
  BY <1>2, <1>3, <1>5, <1>7, <1>10, Zenon

\* The frames of a reply are found, each whole, and then what is left.
Found(G, t) == IF t = <<>> THEN G ELSE G \o <<t>>

LEMMA FoundIs ==
    ASSUME NEW S, NEW G \in Seq(Seq(S)), NEW t \in Seq(S)
    PROVE  /\ Found(G, t) \in Seq(Seq(S))
           /\ Len(Found(G, t)) = Len(G) + IF t = <<>> THEN 0 ELSE 1
           /\ \A i \in 1..Len(G) : Found(G, t)[i] = G[i]
           /\ t # <<>> => Found(G, t)[Len(G) + 1] = t
           /\ From(Found(G, t), 1) = Found(G, t)
           /\ From(Found(G, t), Len(G) + 1) = IF t = <<>> THEN <<>> ELSE <<t>>
<1> DEFINE T == Seq(S)
<1>1. ASSUME NEW U, NEW g \in Seq(U), NEW c \in U
      PROVE  /\ g \o <<c>> \in Seq(U) /\ Len(g \o <<c>>) = Len(g) + 1
             /\ \A i \in 1..Len(g) : (g \o <<c>>)[i] = g[i]
             /\ (g \o <<c>>)[Len(g) + 1] = c
             /\ From(g \o <<c>>, Len(g) + 1) = <<c>>
  <2>1. <<c>> \in Seq(U)
    OBVIOUS
  <2>2. PICK d \in Seq(U) : d = <<c>>
    BY <2>1, Zenon
  <2>3. From(g \o d, Len(g) + 1) = d
    BY Behind
  <2> QED
    BY <2>2, <2>3
<1>2. ASSUME NEW U, NEW g \in Seq(U)
      PROVE  From(g, 1) = g /\ From(g, Len(g) + 1) = <<>>
  BY DEF From
<1>3. CASE t = <<>>
  <2>1. Found(G, t) = G
    BY <1>3 DEF Found
  <2>2. Len(G) + 0 = Len(G)
    OBVIOUS
  <2> QED
    BY <1>2, <1>3, <2>1, <2>2, Zenon
<1>4. CASE t # <<>>
  <2>1. Found(G, t) = G \o <<t>>
    BY <1>4 DEF Found
  <2>2. /\ G \o <<t>> \in Seq(Seq(S)) /\ Len(G \o <<t>>) = Len(G) + 1
        /\ \A i \in 1..Len(G) : (G \o <<t>>)[i] = G[i]
        /\ (G \o <<t>>)[Len(G) + 1] = t
        /\ From(G \o <<t>>, Len(G) + 1) = <<t>>
    BY <1>1
  <2>3. From(G \o <<t>>, 1) = G \o <<t>>
    BY <1>2, <2>2
  <2> QED
    BY <1>4, <2>1, <2>2, <2>3, Zenon
<1> QED
  BY <1>3, <1>4

FoundShape(E, G, t, S, n) ==
    /\ E \in Seq(Seq(S)) /\ Len(E) = n + (IF t = <<>> THEN 0 ELSE 1)
    /\ \A i \in 1..n : E[i] = G[i]
    /\ t # <<>> => E[n + 1] = t

LEMMA FoundHas ==
    ASSUME NEW S, NEW G \in Seq(Seq(S)), NEW t \in Seq(S), NEW n, Len(G) = n
    PROVE  FoundShape(Found(G, t), G, t, S, n)
<1>1. /\ Found(G, t) \in Seq(Seq(S))
      /\ Len(Found(G, t)) = Len(G) + (IF t = <<>> THEN 0 ELSE 1)
      /\ \A i \in 1..Len(G) : Found(G, t)[i] = G[i]
      /\ t # <<>> => Found(G, t)[Len(G) + 1] = t
  BY FoundIs
<1>2. n = Len(G)
  OBVIOUS
<1> QED
  BY <1>1, <1>2, Zenon DEF FoundShape

LEMMA FramesAre ==
    ASSUME NEW S, NEW G \in Seq(Seq(S)), NEW t \in Seq(S), nextBackendMessage(t) = 0,
           \A i \in 1..Len(G) : IsFrame(G[i])
    PROVE  Frames(First(G, Len(G)) \o t) = Found(G, t)
<1> DEFINE N == Len(G)
           buf == First(G, N) \o t
           E == Found(G, t)
           Start(j) == Len(First(G, j)) + 1
<1>1. N \in Nat /\ \A j \in 0..N : First(G, j) \in Seq(S)
  BY FirstType
<1>2. PICK split : IsSplit(split, buf) /\ Frames(buf) = split[1]
  <2>1. PICK a \in Seq(S) : a = First(G, N)
    <3>1. N \in 0..N
      BY <1>1
    <3> QED
      BY <1>1, <3>1
  <2>2. a \o t \in Seq(S)
    OBVIOUS
  <2>3. buf \in Seq(S)
    BY <2>1, <2>2
  <2> HIDE DEF buf
  <2> QED
    BY <2>3, FramesIs
<1>3. split[Start(N)] = From(E, N + 1)
  <2>1. PICK a \in Seq(S) : a = First(G, N)
    <3>1. N \in 0..N
      BY <1>1
    <3> QED
      BY <1>1, <3>1
  <2>2. buf = a \o t
    BY <2>1
  <2> HIDE DEF buf
  <2>3. split[Len(a) + 1] = IF t = <<>> THEN <<>> ELSE <<t>>
    BY <1>2, <2>2, LastFrame
  <2>4. From(E, N + 1) = IF t = <<>> THEN <<>> ELSE <<t>>
    BY FoundIs
  <2> QED
    BY <2>1, <2>3, <2>4, Zenon
<1>4. ASSUME NEW j \in 0..N - 1, split[Start(j + 1)] = From(E, j + 2)
      PROVE  split[Start(j)] = From(E, j + 1)
  <2>1. j \in 0..N /\ j + 1 \in 0..N /\ j + 1 \in 1..N
    BY <1>1
  <2>2. PICK a \in Seq(S) : a = First(G, j)
    BY <1>1, <2>1
  <2>3. PICK x \in Seq(S) : x = G[j + 1] /\ IsFrame(x)
    BY <2>1
  <2>4. First(G, j + 1) = a \o x
    <3>1. First(G, j + 1) = First(G, j) \o G[j + 1]
      BY FirstStep
    <3> QED
      BY <2>2, <2>3, <3>1, Zenon
  <2>5. PICK v \in Seq(S) : First(G, N) = First(G, j + 1) \o v
    <3>1. PICK k \in 0..N : k = j + 1
      BY <2>1
    <3>2. N \in 0..N
      BY <1>1
    <3>3. \E v \in Seq(S) : First(G, N) = First(G, k) \o v
      BY <3>2, FirstGrows
    <3> QED
      BY <3>1, <3>3, Zenon
  <2>6. PICK w \in Seq(S) : w = v \o t
    <3>1. v \o t \in Seq(S)
      OBVIOUS
    <3> QED
      BY <3>1, Zenon
  <2>7. buf = a \o (x \o w)
    <3>1. Associates(a, x, v, t)
      BY Regrouped, Zenon
    <3> QED
      BY <2>4, <2>5, <2>6, <3>1, Zenon DEF Associates
  <2> HIDE DEF buf
  <2>8. split[Len(a) + 1] = <<x>> \o split[Len(a) + Len(x) + 1]
    <3>1. SplitsOff(split, buf, a, x, w)
      BY <1>2, <2>3, OneFrame, Zenon
    <3> QED
      BY <2>7, <3>1, Zenon DEF SplitsOff
  <2>9. Start(j) = Len(a) + 1 /\ Start(j + 1) = Len(a) + Len(x) + 1
    <3>1. Len(a \o x) = Len(a) + Len(x)
      OBVIOUS
    <3> QED
      BY <2>2, <2>4, <3>1, Zenon
  <2>10. From(E, j + 1) = <<x>> \o From(E, j + 2)
    <3>1. /\ E \in Seq(Seq(S)) /\ Len(E) = N + (IF t = <<>> THEN 0 ELSE 1)
          /\ \A i \in 1..N : E[i] = G[i]
      <4>1. FoundShape(Found(G, t), G, t, S, N)
        BY FoundHas, Zenon
      <4> QED
        BY <4>1, Zenon DEF FoundShape
    <3> HIDE DEF E
    <3>2. PICK k \in 1..Len(E) : k = j + 1
      BY <1>1, <2>1, <3>1
    <3>3. From(E, k) = <<E[k]>> \o From(E, k + 1)
      <4> DEFINE U == Seq(S)
      <4>1. E \in Seq(U)
        BY <3>1
      <4> HIDE DEF U
      <4> QED
        BY <4>1, Peel
    <3>4. E[k] = x /\ k + 1 = j + 2
      BY <2>1, <2>3, <3>1, <3>2
    <3> QED
      BY <3>2, <3>3, <3>4, Zenon
  <2> QED
    BY <1>4, <2>8, <2>9, <2>10, Zenon
<1> DEFINE P == {m \in Nat : m <= N => split[Start(N - m)] = From(E, N - m + 1)}
<1>5. 0 \in P
  <2>1. N - 0 = N
    BY <1>1
  <2> HIDE DEF Start, E
  <2> QED
    BY <1>3, <2>1
<1>6. ASSUME NEW m \in Nat, m \in P PROVE m + 1 \in P
  <2>1. SUFFICES ASSUME m + 1 <= N
                 PROVE  split[Start(N - (m + 1))] = From(E, N - (m + 1) + 1)
    OBVIOUS
  <2>0. N \in Nat
    BY <1>1
  <2>2. PICK j \in 0..N - 1 : j = N - (m + 1)
    <3>1. N - (m + 1) \in 0..N - 1
      BY <2>0, <2>1
    <3> QED
      BY <3>1, Zenon
  <2>3. N - m = j + 1 /\ N - m + 1 = j + 2 /\ m <= N
    BY <2>0, <2>1, <2>2
  <2> HIDE DEF Start, E
  <2>4. split[Start(N - m)] = From(E, N - m + 1)
    BY <1>6, <2>3
  <2>5. split[Start(j + 1)] = From(E, j + 2)
    BY <2>3, <2>4, Zenon
  <2>6. split[Start(j)] = From(E, j + 1)
    BY <1>4, <2>5, Zenon
  <2> QED
    BY <2>2, <2>6, Zenon
<1>7. N \in P
  <2> HIDE DEF P
  <2> QED
    BY <1>1, <1>5, <1>6, Induction
<1>8. split[Start(0)] = From(E, 1)
  <2>1. N - N = 0 /\ 0 + 1 = 1 /\ N <= N
    BY <1>1
  <2>2. split[Start(N - N)] = From(E, N - N + 1)
    <3> HIDE DEF Start, E
    <3> QED
      BY <1>7, <2>1
  <2> QED
    BY <2>1, <2>2, Zenon
<1>9. Start(0) = 1
  <2>1. 0 \in 0..Len(G)
    BY <1>1
  <2>2. First(G, 0) = <<>>
    BY <2>1, FirstType
  <2> QED
    BY <2>2
<1>10. From(E, 1) = E
  BY FoundIs
<1> QED
  BY <1>2, <1>8, <1>9, <1>10, Zenon

-----------------------------------------------------------------------------
(* What a reply says.                                                       *)

\* A frame as it crosses the wire.
LEMMA FrameShape ==
    ASSUME NEW f, WellFormedFrame(f)
    PROVE  /\ Frame(f) \in Seq(Elements(Frame(f))) /\ IsFrame(Frame(f))
           /\ Len(Frame(f)) = Len(f.body) + 2 /\ Len(f.body) \in Nat
           /\ Frame(f)[1] = f.typ /\ From(Frame(f), 3) = f.body
           /\ \A i \in 1..Len(f.body) : Frame(f)[i + 2] = f.body[i]
<1> DEFINE p == f.body
           h == <<f.typ, Len(p) + 1>>
           T == Elements(p) \cup {f.typ, Len(p) + 1}
           q == h \o p
<1>1. p \in Seq(Elements(p)) /\ Len(p) \in Nat /\ Len(p) + 1 <= maxMessageSize
  BY Sequences DEF WellFormedFrame
<1>2. Frame(f) = q
  BY DEF Frame
<1>3. h \in Seq(T) /\ p \in Seq(T) /\ Len(h) = 2 /\ h[1] = f.typ /\ h[2] = Len(p) + 1
  <2> HIDE DEF p
  <2> QED
    BY <1>1
<1> HIDE DEF h, p, T
<1>4. q \in Seq(T) /\ Len(q) = Len(p) + 2 /\ q[1] = f.typ /\ q[2] = Len(p) + 1
  <2>1. h \in Seq(T) /\ p \in Seq(T)
    BY <1>3
  <2>2. q \in Seq(T) /\ Len(q) = Len(h) + Len(p)
    BY <2>1
  <2>3. \A x \in 1..Len(h) + Len(p) : q[x] = IF x <= Len(h) THEN h[x] ELSE p[x - Len(h)]
    BY <2>1, ConcatProperties
  <2>4. 1 \in 1..Len(h) + Len(p) /\ 2 \in 1..Len(h) + Len(p) /\ 1 <= Len(h) /\ 2 <= Len(h)
    BY <1>1, <1>3
  <2>5. q[1] = h[1] /\ q[2] = h[2]
    BY <2>3, <2>4, Zenon
  <2>6. Len(h) + Len(p) = Len(p) + 2
    BY <1>1, <1>3
  <2> QED
    BY <1>3, <2>2, <2>5, <2>6, Zenon
<1>5. From(q, 3) = p
  <2>1. From(q, Len(h) + 1) = p
    BY <1>3, Behind
  <2>2. Len(h) + 1 = 3
    BY <1>3
  <2> QED
    BY <2>1, <2>2, Zenon
<1>6. \A i \in 1..Len(p) : q[i + 2] = p[i]
  <2> TAKE i \in 1..Len(p)
  <2>1. \A x \in 1..Len(h) + Len(p) : q[x] = IF x <= Len(h) THEN h[x] ELSE p[x - Len(h)]
    BY <1>3, ConcatProperties
  <2>2. PICK x \in 1..Len(h) + Len(p) : x = i + 2
    BY <1>1, <1>3
  <2>3. ~(x <= Len(h)) /\ x - Len(h) = i
    BY <1>1, <1>3, <2>2
  <2> QED
    BY <2>1, <2>2, <2>3, Zenon
<1> HIDE DEF q
<1>7. IsSequence(q)
  BY <1>1, <1>4 DEF IsSequence
<1>8. q \in Seq(Elements(q))
  BY <1>7, Sequences
<1>9. IsFrame(q)
  BY <1>1, <1>4 DEF IsFrame
<1> QED
  BY <1>1, <1>2, <1>4, <1>5, <1>6, <1>8, <1>9, Zenon DEF p

\* A notification is understood if it is well-formed, and ignored if it is not.
LEMMA NotificationRead ==
    ASSUME NEW f, WellFormedFrame(f), f.typ = "A"
    PROVE  decodeNotification(f.body) = IF f.wellFormed THEN {f.note} ELSE {}
<1> DEFINE b == f.body
           rest == Tail(b)
           e == CStringEnd(rest)
           text == From(rest, e + 1)
<1>1. decodeNotification(b) =
        IF b = <<>> THEN {}
        ELSE IF e = 0 \/ CStringEnd(text) = 0 THEN {}
        ELSE {[channel |-> SubSeq(rest, 1, e - 1), payload |-> SubSeq(text, 1, CStringEnd(text) - 1)]}
  BY Zenon DEF decodeNotification
<1>2. CASE f.wellFormed
  <2> DEFINE ch == f.note.channel
             pl == f.note.payload
             S == Elements(ch) \cup Elements(pl) \cup {"NUL", "pid"}
  <2>1. /\ IsSequence(ch) /\ NoNul(ch) /\ IsSequence(pl) /\ NoNul(pl)
        /\ f.note = [channel |-> ch, payload |-> pl]
        /\ b = <<"pid">> \o (CString(ch) \o CString(pl))
    BY <1>2 DEF WellFormedFrame
  <2>2. ch \in Seq(Elements(ch)) /\ pl \in Seq(Elements(pl))
    BY <2>1, Sequences
  <2> HIDE DEF ch, pl
  <2>3. ch \in Seq(S) /\ pl \in Seq(S) /\ "NUL" \in S /\ "pid" \in S
    BY <2>2
  <2> HIDE DEF S
  <2>4. CString(pl) \in Seq(S) /\ CStringEnd(CString(pl)) = Len(pl) + 1
        /\ SubSeq(CString(pl), 1, Len(pl)) = pl
    <3>1. <<>> \in Seq(S)
      OBVIOUS
    <3> QED
      BY <2>1, <2>3, <3>1, CStringRead
  <2>5. PICK u \in Seq(S) : u = CString(pl)
    BY <2>4, Zenon
  <2>6. /\ CStringEnd(CString(ch) \o u) = Len(ch) + 1
        /\ SubSeq(CString(ch) \o u, 1, Len(ch)) = ch
        /\ From(CString(ch) \o u, Len(ch) + 1 + 1) = u
        /\ CString(ch) \o u \in Seq(S)
    BY <2>1, <2>3, CStringRead
  <2>7. PICK w \in Seq(S) : w = CString(ch) \o u
    BY <2>6, Zenon
  <2>8. b = <<"pid">> \o w
    BY <2>1, <2>5, <2>7, Zenon
  <2>9. b # <<>> /\ rest = w
    <3>1. <<"pid">> \in Seq(S)
      BY <2>3
    <3>2. PICK h \in Seq(S) : h = <<"pid">>
      BY <3>1, Zenon
    <3>3. Len(h) = 1 /\ b = h \o w
      BY <2>8, <3>2
    <3> HIDE DEF b
    <3>4. b \in Seq(S) /\ Len(b) = 1 + Len(w) /\ Len(w) \in Nat
      <4>1. h \o w \in Seq(S) /\ Len(h \o w) = Len(h) + Len(w) /\ Len(w) \in Nat
        OBVIOUS
      <4> QED
        BY <3>3, <4>1, Zenon
    <3>5. \A x \in 1..Len(h) + Len(w) : b[x] = IF x <= Len(h) THEN h[x] ELSE w[x - Len(h)]
      BY <3>3, ConcatProperties
    <3>6. b # <<>>
      BY <3>4
    <3>7. Tail(b) \in Seq(S) /\ Len(Tail(b)) = Len(w)
      BY <3>4, <3>6, TailIs
    <3>8. ASSUME NEW i \in 1..Len(w) PROVE Tail(b)[i] = w[i]
      <4>1. Tail(b)[i] = b[i + 1]
        <5>1. i \in 1..Len(b) - 1
          BY <3>4
        <5> QED
          BY <3>4, <3>6, <5>1, TailIs
      <4>2. PICK x \in 1..Len(h) + Len(w) : x = i + 1
        BY <3>3, <3>4
      <4>3. ~(x <= Len(h)) /\ x - Len(h) = i
        BY <3>3, <3>4, <4>2
      <4> QED
        BY <3>5, <4>1, <4>2, <4>3, Zenon
    <3>9. Tail(b) = w
      BY <3>7, <3>8, SameSeq
    <3> QED
      BY <3>6, <3>9
  <2> HIDE DEF b, rest
  <2>10. Len(ch) \in Nat /\ Len(pl) \in Nat
    BY <2>3
  <2>11. e = Len(ch) + 1 /\ text = u
    BY <2>6, <2>7, <2>9, Zenon
  <2>12. CStringEnd(text) = Len(pl) + 1
    BY <2>4, <2>5, <2>11, Zenon
  <2>13. e # 0 /\ CStringEnd(text) # 0 /\ e - 1 = Len(ch) /\ CStringEnd(text) - 1 = Len(pl)
    <3> HIDE DEF e, text
    <3> QED
      BY <2>10, <2>11, <2>12
  <2>14. SubSeq(rest, 1, e - 1) = ch /\ SubSeq(text, 1, CStringEnd(text) - 1) = pl
    BY <2>4, <2>5, <2>6, <2>7, <2>9, <2>11, <2>13, Zenon
  <2>15. decodeNotification(b) = {f.note}
    <3> HIDE DEF e, text
    <3> QED
      BY <1>1, <2>1, <2>9, <2>13, <2>14, Zenon
  <2> QED
    BY <1>2, <2>15, Zenon DEF b
<1>3. CASE ~f.wellFormed /\ b = <<>>
  BY <1>1, <1>3, Zenon
<1>4. CASE ~f.wellFormed /\ b # <<>>
  <2> DEFINE S == Elements(b)
             nul == {i \in DOMAIN rest : rest[i] = "NUL"}
             nul2 == {i \in DOMAIN text : text[i] = "NUL"}
  <2>1. b \in Seq(S)
    BY Sequences DEF WellFormedFrame
  <2>2. \A i, j \in 2..Len(b) : b[i] = "NUL" /\ b[j] = "NUL" => i = j
    BY <1>4 DEF WellFormedFrame
  <2> HIDE DEF b, S
  <2>3. /\ rest \in Seq(S) /\ Len(rest) = Len(b) - 1 /\ Len(b) \in Nat
        /\ \A i \in 1..Len(b) - 1 : rest[i] = b[i + 1]
    BY <1>4, <2>1, TailIs
  <2> HIDE DEF rest
  <2>4. DOMAIN rest = 1..Len(rest) /\ Len(rest) \in Nat
    BY <2>3
  <2>5. ASSUME e # 0 PROVE CStringEnd(text) = 0
    <3>1. nul # {} /\ e = Min(nul)
      BY <2>5, Zenon DEF CStringEnd
    <3>2. nul \subseteq Nat
      BY <2>4
    <3>3. \E x \in nul : \A y \in nul : x <= y
      BY <3>1, <3>2, Least
    <3>4. e \in nul
      <4> HIDE DEF nul
      <4> QED
        BY <3>1, <3>3 DEF Min
    <3> HIDE DEF e
    <3>5. e \in 1..Len(rest) /\ rest[e] = "NUL"
      BY <2>4, <3>4
    <3>6. e + 1 \in 1..Len(rest) + 1
      BY <2>4, <3>5
    <3>7. /\ text \in Seq(S) /\ Len(text) = Len(rest) - e
          /\ \A x \in 1..Len(rest) - e : text[x] = rest[e + x]
      <4>1. PICK k \in 1..Len(rest) + 1 : k = e + 1
        BY <3>6
      <4>2. text = From(rest, k)
        BY <4>1
      <4>3. /\ From(rest, k) \in Seq(S) /\ Len(From(rest, k)) = Len(rest) + 1 - k
            /\ \A x \in 1..Len(rest) + 1 - k : From(rest, k)[x] = rest[k + x - 1]
        BY <2>3, FromIs
      <4> HIDE DEF text
      <4>4. Len(rest) + 1 - k = Len(rest) - e
        <5>1. Len(rest) \in Nat /\ e \in Nat /\ k = e + 1
          BY <2>4, <3>5, <4>1
        <5> QED
          BY <5>1
      <4>5. ASSUME NEW x \in 1..Len(rest) - e PROVE text[x] = rest[e + x]
        <5>1. k + x - 1 = e + x
          BY <3>5, <4>1
        <5> QED
          BY <4>2, <4>3, <4>4, <5>1, Zenon
      <4> QED
        BY <4>2, <4>3, <4>4, <4>5, Zenon
    <3> HIDE DEF text
    <3>8. ASSUME NEW i \in nul2 PROVE FALSE
      <4>1. i \in 1..Len(text) /\ text[i] = "NUL"
        BY <3>7
      <4>2. i \in 1..Len(rest) - e
        BY <3>7, <4>1, Zenon
      <4>3. rest[e + i] = "NUL"
        BY <3>7, <4>1, <4>2, Zenon
      <4>4. PICK x \in 1..Len(b) - 1 : x = e + i
        BY <2>3, <2>4, <3>5, <4>2
      <4>5. PICK y \in 1..Len(b) - 1 : y = e
        BY <2>3, <2>4, <3>5
      <4>6. b[x + 1] = "NUL" /\ b[y + 1] = "NUL"
        BY <2>3, <3>5, <4>3, <4>4, <4>5
      <4>7. x + 1 \in 2..Len(b) /\ y + 1 \in 2..Len(b)
        BY <2>3
      <4>8. x + 1 = y + 1
        BY <2>2, <4>6, <4>7, Zenon
      <4> QED
        BY <3>5, <4>2, <4>4, <4>5, <4>8, <2>4
    <3>9. nul2 = {}
      BY <3>8, Zenon
    <3> QED
      BY <3>9, Zenon DEF CStringEnd
  <2>6. decodeNotification(b) = {}
    <3> HIDE DEF e, text
    <3> QED
      BY <1>1, <1>4, <2>5, Zenon
  <2> QED
    BY <1>4, <2>6, Zenon DEF b
<1> QED
  BY <1>2, <1>3, <1>4, Zenon

\* A set of numbers that is bounded has a greatest one.
LEMMA Greatest ==
    ASSUME NEW N \in Nat, NEW R, R \subseteq 1..N, R # {}
    PROVE  Max(R) \in R /\ R \subseteq Int
<1> DEFINE D == {N - x : x \in R}
<1>1. D \subseteq Nat /\ D # {}
  <2>1. \A x \in R : N - x \in Nat
    <3> TAKE x \in R
    <3>1. x \in Int /\ x <= N
      OBVIOUS
    <3> QED
      BY <3>1
  <2> QED
    BY <2>1
<1>2. PICK d \in D : \A y \in D : d <= y
  BY <1>1, Least
<1>3. PICK m \in R : d = N - m
  OBVIOUS
<1>4. \A x \in R : m >= x
  <2> TAKE x \in R
  <2>1. N - x \in D
    OBVIOUS
  <2>2. N - m <= N - x
    BY <1>2, <1>3, <2>1
  <2>3. m \in Int /\ x \in Int
    OBVIOUS
  <2> HIDE DEF D
  <2> QED
    BY <2>2, <2>3
<1>5. Max(R) \in R
  <2> HIDE DEF D
  <2> QED
    BY <1>4 DEF Max
<1> QED
  BY <1>5

FrameOf(fs) == [i \in 1..Len(fs) |-> Frame(fs[i])]

KeptOf(fs) == [i \in 1..Len(fs) |-> IF fs[i].typ = "A" THEN <<>> ELSE Frame(fs[i])]

CellsOf(r) == (UNION {Elements(Frame(r.frames[i])) : i \in 1..Len(r.frames)}) \cup Elements(r.tail)

LEMMA ReplyFacts ==
    ASSUME NEW ms \in Scripts, NEW r \in Replies(ms)
    PROVE  /\ Len(r.frames) \in Nat /\ DOMAIN r.frames = 1..Len(r.frames)
           /\ \A i \in 1..Len(r.frames) : WellFormedFrame(r.frames[i])
           /\ r.tail \in Seq(CellsOf(r)) /\ nextBackendMessage(r.tail) = 0
           /\ FrameOf(r.frames) \in Seq(Seq(CellsOf(r))) /\ Len(FrameOf(r.frames)) = Len(r.frames)
           /\ KeptOf(r.frames) \in Seq(Seq(CellsOf(r))) /\ Len(KeptOf(r.frames)) = Len(r.frames)
           /\ \A i \in 1..Len(r.frames) :
                /\ FrameOf(r.frames)[i] = Frame(r.frames[i]) /\ IsFrame(FrameOf(r.frames)[i])
                /\ FrameOf(r.frames)[i] \in Seq(CellsOf(r))
           /\ FrameAll(r.frames) = First(FrameOf(r.frames), Len(r.frames))
<1> DEFINE fs == r.frames
           n == Len(fs)
           S == CellsOf(r)
<1>1. IsSequence(fs) /\ IsSequence(r.tail) /\ nextBackendMessage(r.tail) = 0
      /\ \A i \in DOMAIN fs : WellFormedFrame(fs[i])
  BY RepliesAssumption
<1>2. n \in Nat /\ DOMAIN fs = 1..n /\ \A i \in 1..n : WellFormedFrame(fs[i])
  BY <1>1, Sequences
<1>3. \A i \in 1..n : Frame(fs[i]) \in Seq(S) /\ IsFrame(Frame(fs[i]))
  <2> TAKE i \in 1..n
  <2>1. Frame(fs[i]) \in Seq(Elements(Frame(fs[i]))) /\ IsFrame(Frame(fs[i]))
    BY <1>2, FrameShape
  <2>2. Elements(Frame(fs[i])) \subseteq S
    BY DEF CellsOf
  <2> HIDE DEF S
  <2> QED
    BY <2>1, <2>2
<1>4. r.tail \in Seq(S)
  <2>1. r.tail \in Seq(Elements(r.tail))
    BY <1>1, Sequences, Zenon
  <2>2. Elements(r.tail) \subseteq S
    BY DEF CellsOf
  <2> HIDE DEF S
  <2> QED
    BY <2>1, <2>2
<1>5. <<>> \in Seq(S)
  OBVIOUS
<1>6. FrameAll(fs) = First(FrameOf(fs), n)
  <2>1. \A i \in 1..n : FrameOf(fs)[i] = Frame(fs[i])
    BY DEF FrameOf
  <2>2. [i \in DOMAIN fs |-> Frame(fs[i])] = [i \in 1..n |-> FrameOf(fs)[i]]
    BY <1>2, <2>1
  <2> QED
    BY <2>2, Zenon DEF FrameAll, First
<1>7. FrameOf(fs) = [i \in 1..n |-> Frame(fs[i])]
      /\ KeptOf(fs) = [i \in 1..n |-> IF fs[i].typ = "A" THEN <<>> ELSE Frame(fs[i])]
  BY Zenon DEF FrameOf, KeptOf
<1> HIDE DEF S, fs, n
<1>8. /\ FrameOf(fs) \in Seq(Seq(S)) /\ Len(FrameOf(fs)) = n
      /\ \A i \in 1..n : FrameOf(fs)[i] = Frame(fs[i])
  BY <1>2, <1>3, <1>7
<1>9. KeptOf(fs) \in Seq(Seq(S)) /\ Len(KeptOf(fs)) = n
  BY <1>2, <1>3, <1>5, <1>7
<1> QED
  BY <1>1, <1>2, <1>3, <1>4, <1>6, <1>8, <1>9, Zenon DEF S, fs, n

\* Which of the frames stay, and which report the session's state.
LEMMA FrameKinds ==
    ASSUME NEW S, NEW t \in Seq(S), nextBackendMessage(t) = 0
    PROVE  /\ Stays(t) /\ ~IsReady(t)
           /\ \A f : WellFormedFrame(f) =>
                /\ Stays(Frame(f)) <=> f.typ # "A"
                /\ IsReady(Frame(f)) <=> f.typ = "Z" /\ Len(f.body) = 1
<1>1. ~IsWhole(t)
  <2>1. Len(t) = 0 => t = <<>>
    OBVIOUS
  <2> QED
    BY <2>1 DEF IsWhole
<1>2. ASSUME NEW f, WellFormedFrame(f)
      PROVE  /\ Stays(Frame(f)) <=> f.typ # "A"
             /\ IsReady(Frame(f)) <=> f.typ = "Z" /\ Len(f.body) = 1
  <2> DEFINE x == Frame(f)
             U == Elements(x)
  <2>1. /\ x \in Seq(U) /\ IsFrame(x) /\ Len(x) = Len(f.body) + 2 /\ Len(f.body) \in Nat
        /\ x[1] = f.typ
    BY <1>2, FrameShape
  <2> HIDE DEF x, U
  <2>2. IsWhole(x)
    <3>1. <<>> \in Seq(U) /\ x \o <<>> = x
      BY <2>1
    <3>2. nextBackendMessage(x \o <<>>) = Len(x)
      BY <2>1, <3>1, FrameRead
    <3>3. x # <<>>
      BY <2>1
    <3> QED
      BY <3>1, <3>2, <3>3, Zenon DEF IsWhole
  <2>3. Len(x) = 3 <=> Len(f.body) = 1
    <3>1. ASSUME NEW m \in Nat, NEW k, k = m + 2 PROVE k = 3 <=> m = 1
      BY <3>1
    <3>2. Len(f.body) \in Nat /\ Len(x) = Len(f.body) + 2
      BY <2>1
    <3> QED
      BY <3>1, <3>2, Zenon
  <2> QED
    BY <2>1, <2>2, <2>3, Zenon DEF Stays, IsReady, x
<1> QED
  BY <1>1, <1>2, Zenon DEF Stays, IsReady

LEMMA CleanIs ==
    ASSUME NEW ms \in Scripts, NEW r \in Replies(ms)
    PROVE  LET E == Found(FrameOf(r.frames), r.tail)
           IN  FlattenSeq([i \in DOMAIN E |-> IF Stays(E[i]) THEN E[i] ELSE <<>>])
                 = First(KeptOf(r.frames), Len(r.frames)) \o r.tail
<1> DEFINE fs == r.frames
           t == r.tail
           n == Len(fs)
           S == CellsOf(r)
           G == FrameOf(fs)
           K == KeptOf(fs)
           E == Found(G, t)
           H == [i \in DOMAIN E |-> IF Stays(E[i]) THEN E[i] ELSE <<>>]
<1>1. /\ n \in Nat /\ \A i \in 1..n : WellFormedFrame(fs[i])
      /\ t \in Seq(S) /\ nextBackendMessage(t) = 0
      /\ G \in Seq(Seq(S)) /\ Len(G) = n /\ \A i \in 1..n : G[i] = Frame(fs[i])
      /\ K \in Seq(Seq(S)) /\ Len(K) = n
  BY ReplyFacts, Zenon
<1>2. \A i \in 1..n : K[i] = IF fs[i].typ = "A" THEN <<>> ELSE Frame(fs[i])
  BY DEF KeptOf
<1> HIDE DEF G, K, E, S, fs, t, n
<1>3. /\ E \in Seq(Seq(S)) /\ Len(E) = n + (IF t = <<>> THEN 0 ELSE 1)
      /\ \A i \in 1..n : E[i] = G[i]
      /\ t # <<>> => E[n + 1] = t
  <2>1. FoundShape(Found(G, t), G, t, S, n)
    BY <1>1, FoundHas, Zenon
  <2> QED
    BY <2>1, Zenon DEF FoundShape, E
<1>4. DOMAIN E = 1..Len(E)
  BY <1>3
<1>5. Stays(t)
  BY <1>1, FrameKinds, Zenon
<1>6. \A i \in 1..n : (IF Stays(E[i]) THEN E[i] ELSE <<>>) = K[i]
  <2> TAKE i \in 1..n
  <2>1. E[i] = Frame(fs[i]) /\ WellFormedFrame(fs[i])
    BY <1>1, <1>3, Zenon
  <2>2. Stays(Frame(fs[i])) <=> fs[i].typ # "A"
    BY <1>1, <2>1, FrameKinds, Zenon
  <2> QED
    BY <1>2, <2>1, <2>2, Zenon
<1>7. First(K, n) \in Seq(S)
  <2>1. n \in 0..Len(K)
    BY <1>1
  <2> QED
    BY <1>1, <2>1, FirstType
<1>8. CASE t = <<>>
  <2>1. H = [i \in 1..n |-> K[i]]
    <3>1. DOMAIN E = 1..n
      BY <1>1, <1>3, <1>4, <1>8
    <3> QED
      BY <1>6, <3>1, Zenon
  <2>2. FlattenSeq(H) = First(K, n)
    BY <2>1, Zenon DEF First
  <2>3. First(K, n) \o <<>> = First(K, n)
    BY <1>7
  <2> HIDE DEF H
  <2>4. FlattenSeq(H) = First(K, n) \o t
    BY <1>8, <2>2, <2>3, Zenon
  <2> QED
    BY <2>4, Zenon DEF H, E, G, K, fs, t, n
<1>9. CASE t # <<>>
  <2>1. DOMAIN E = 1..n + 1 /\ Len(E) = n + 1
    BY <1>1, <1>3, <1>4, <1>9
  <2>2. \A i \in 1..n + 1 : i \in 1..n \/ i = n + 1
    BY <1>1
  <2>3. \A i \in 1..n : H[i] = K[i]
    <3>1. \A i \in 1..n : i \in DOMAIN E
      BY <1>1, <2>1
    <3> QED
      BY <1>6, <3>1, Zenon
  <2>4. H[n + 1] = t
    <3>1. n + 1 \in DOMAIN E
      BY <1>1, <2>1
    <3> QED
      BY <1>3, <1>5, <1>9, <3>1, Zenon
  <2>5. \A i \in 1..n + 1 : H[i] \in Seq(S)
    <3>1. \A i \in 1..n : K[i] \in Seq(S)
      BY <1>1
    <3> HIDE DEF H
    <3> QED
      BY <1>1, <2>2, <2>3, <2>4, <3>1, Zenon
  <2>6. H = [i \in 1..n + 1 |-> H[i]]
    BY <2>1, Zenon
  <2> HIDE DEF H
  <2>7. H \in Seq(Seq(S)) /\ Len(H) = n + 1
    <3>1. n + 1 \in Nat
      BY <1>1
    <3> QED
      BY <2>5, <2>6, <3>1
  <2>8. FlattenSeq(H) = First(H, n + 1)
    BY <2>6, Zenon DEF First
  <2>9. First(H, n + 1) = First(H, n) \o H[n + 1]
    <3>1. n \in 0..Len(H) - 1
      BY <1>1, <2>7
    <3> QED
      BY <2>7, <3>1, FirstStep
  <2>10. First(H, n) = First(K, n)
    <3>1. [i \in 1..n |-> H[i]] = [i \in 1..n |-> K[i]]
      BY <2>3, Zenon
    <3> QED
      BY <3>1, Zenon DEF First
  <2>11. FlattenSeq(H) = First(K, n) \o t
    BY <2>4, <2>8, <2>9, <2>10, Zenon
  <2> QED
    BY <2>11, Zenon DEF H, E, G, K, fs, t, n
<1> QED
  BY <1>8, <1>9, Zenon

LEMMA InlineIs ==
    ASSUME NEW ms \in Scripts, NEW r \in Replies(ms)
    PROVE  LET E == Found(FrameOf(r.frames), r.tail)
           IN  UNION {decodeNotification(From(f, 3)) : f \in {x \in ToSet(E) : ~Stays(x)}}
                 = {f.note : f \in {x \in ToSet(r.frames) : x.typ = "A" /\ x.wellFormed}}
<1> DEFINE fs == r.frames
           t == r.tail
           n == Len(fs)
           S == CellsOf(r)
           G == FrameOf(fs)
           E == Found(G, t)
           Left == UNION {decodeNotification(From(f, 3)) : f \in {x \in ToSet(E) : ~Stays(x)}}
           Right == {f.note : f \in {x \in ToSet(fs) : x.typ = "A" /\ x.wellFormed}}
<1>1. /\ n \in Nat /\ DOMAIN fs = 1..n /\ \A i \in 1..n : WellFormedFrame(fs[i])
      /\ t \in Seq(S) /\ nextBackendMessage(t) = 0
      /\ G \in Seq(Seq(S)) /\ Len(G) = n /\ \A i \in 1..n : G[i] = Frame(fs[i])
  BY ReplyFacts, Zenon
<1>2. /\ E \in Seq(Seq(S)) /\ Len(E) = n + (IF t = <<>> THEN 0 ELSE 1)
      /\ \A i \in 1..n : E[i] = G[i]
      /\ t # <<>> => E[n + 1] = t
  <2> HIDE DEF G, E, S, fs, t, n
  <2>1. FoundShape(Found(G, t), G, t, S, n)
    BY <1>1, FoundHas, Zenon
  <2> QED
    BY <2>1, Zenon DEF FoundShape, E
<1> HIDE DEF G, E, S, fs, t, n
<1>3. DOMAIN E = 1..Len(E)
  BY <1>2
<1>4. \A i \in DOMAIN E : i \in 1..n \/ E[i] = t
  <2> TAKE i \in DOMAIN E
  <2>1. i \in 1..n \/ (i = n + 1 /\ t # <<>>)
    BY <1>1, <1>2, <1>3
  <2> QED
    BY <1>2, <2>1, Zenon
<1>5. \A i \in 1..n : i \in DOMAIN E
  BY <1>1, <1>2, <1>3
<1>6. Stays(t)
  BY <1>1, FrameKinds, Zenon
<1>7. ASSUME NEW i \in 1..n
      PROVE  /\ E[i] = Frame(fs[i])
             /\ Stays(E[i]) <=> fs[i].typ # "A"
             /\ fs[i].typ = "A" =>
                  decodeNotification(From(E[i], 3)) = IF fs[i].wellFormed THEN {fs[i].note} ELSE {}
  <2>1. E[i] = Frame(fs[i]) /\ WellFormedFrame(fs[i])
    BY <1>1, <1>2, Zenon
  <2>2. Stays(Frame(fs[i])) <=> fs[i].typ # "A"
    BY <1>1, <2>1, FrameKinds, Zenon
  <2>3. From(Frame(fs[i]), 3) = fs[i].body
    BY <2>1, FrameShape
  <2>4. fs[i].typ = "A" =>
          decodeNotification(fs[i].body) = IF fs[i].wellFormed THEN {fs[i].note} ELSE {}
    BY <2>1, NotificationRead
  <2> QED
    BY <2>1, <2>2, <2>3, <2>4, Zenon
<1>8. ASSUME NEW x \in Left PROVE x \in Right
  <2>1. PICK f \in ToSet(E) : ~Stays(f) /\ x \in decodeNotification(From(f, 3))
    BY <1>8, Zenon
  <2>2. PICK i \in DOMAIN E : f = E[i]
    BY Zenon DEF ToSet
  <2>3. i \in 1..n
    BY <1>4, <1>6, <2>1, <2>2, Zenon
  <2>4. fs[i].typ = "A" /\ fs[i].wellFormed /\ x = fs[i].note
    BY <1>7, <2>1, <2>2, <2>3, Zenon
  <2>5. fs[i] \in ToSet(fs)
    BY <1>1, <2>3, Zenon DEF ToSet
  <2> QED
    BY <2>4, <2>5, Zenon
<1>9. ASSUME NEW x \in Right PROVE x \in Left
  <2>1. PICK f \in ToSet(fs) : f.typ = "A" /\ f.wellFormed /\ x = f.note
    BY <1>9, Zenon
  <2>2. PICK i \in 1..n : f = fs[i]
    BY <1>1, Zenon DEF ToSet
  <2>3. ~Stays(E[i]) /\ x \in decodeNotification(From(E[i], 3))
    BY <1>7, <2>1, <2>2, Zenon
  <2>4. E[i] \in ToSet(E)
    BY <1>5, Zenon DEF ToSet
  <2> QED
    BY <2>3, <2>4, Zenon
<1>10. Left = Right
  <2> HIDE DEF Left, Right
  <2> QED
    BY <1>8, <1>9, Zenon
<1> QED
  BY <1>10, Zenon DEF Left, Right, E, G, fs, t

LEMMA StatusIs ==
    ASSUME NEW ms \in Scripts, NEW r \in Replies(ms), NEW buf,
           Frames(buf) = Found(FrameOf(r.frames), r.tail)
    PROVE  LET reports == {i \in DOMAIN r.frames : r.frames[i].typ = "Z" /\ Len(r.frames[i].body) = 1}
           IN  sessionOutcome(buf) = "idle"
                 <=> reports # {} /\ r.frames[Max(reports)].body = <<"I">>
<1> DEFINE fs == r.frames
           t == r.tail
           n == Len(fs)
           S == CellsOf(r)
           G == FrameOf(fs)
           E == Found(G, t)
           R == {i \in DOMAIN fs : fs[i].typ = "Z" /\ Len(fs[i].body) = 1}
<1>1. /\ n \in Nat /\ DOMAIN fs = 1..n /\ \A i \in 1..n : WellFormedFrame(fs[i])
      /\ t \in Seq(S) /\ nextBackendMessage(t) = 0
      /\ G \in Seq(Seq(S)) /\ Len(G) = n /\ \A i \in 1..n : G[i] = Frame(fs[i])
  BY ReplyFacts, Zenon
<1>2. /\ E \in Seq(Seq(S)) /\ Len(E) = n + (IF t = <<>> THEN 0 ELSE 1)
      /\ \A i \in 1..n : E[i] = G[i]
      /\ t # <<>> => E[n + 1] = t
  <2> HIDE DEF G, E, S, fs, t, n
  <2>1. FoundShape(Found(G, t), G, t, S, n)
    BY <1>1, FoundHas, Zenon
  <2> QED
    BY <2>1, Zenon DEF FoundShape, E
<1>3. Frames(buf) = E
  BY DEF E, G, fs, t
<1> HIDE DEF G, E, S, fs, t, n
<1>4. DOMAIN E = 1..Len(E)
  BY <1>2
<1>5. \A i \in DOMAIN E : i \in 1..n \/ E[i] = t
  <2> TAKE i \in DOMAIN E
  <2>1. i \in 1..n \/ (i = n + 1 /\ t # <<>>)
    BY <1>1, <1>2, <1>4
  <2> QED
    BY <1>2, <2>1, Zenon
<1>6. \A i \in 1..n : i \in DOMAIN E
  BY <1>1, <1>2, <1>4
<1>7. ~IsReady(t)
  BY <1>1, FrameKinds, Zenon
<1>8. ASSUME NEW i \in 1..n
      PROVE  E[i] = Frame(fs[i]) /\ (IsReady(E[i]) <=> fs[i].typ = "Z" /\ Len(fs[i].body) = 1)
  <2>1. E[i] = Frame(fs[i]) /\ WellFormedFrame(fs[i])
    BY <1>1, <1>2, Zenon
  <2> QED
    BY <1>1, <2>1, FrameKinds, Zenon
<1>9. Reports(E) = R
  BY <1>1, <1>5, <1>6, <1>7, <1>8, Zenon DEF Reports
<1>10. CASE R = {}
  <2>1. lastReadyForQuery(buf) = "none"
    BY <1>3, <1>9, <1>10, Zenon DEF lastReadyForQuery
  <2>2. sessionOutcome(buf) = "inTx"
    BY <2>1 DEF sessionOutcome
  <2> QED
    BY <1>10, <2>2 DEF R, fs
<1>11. CASE R # {}
  <2>1. lastReadyForQuery(buf) = E[Max(R)][3]
    BY <1>3, <1>9, <1>11, Zenon DEF lastReadyForQuery
  <2>2. Max(R) \in R
    <3>1. R \subseteq 1..n
      BY <1>1
    <3> HIDE DEF R
    <3> QED
      BY <1>1, <1>11, <3>1, Greatest
  <2>3. PICK m \in 1..n : m = Max(R) /\ Len(fs[m].body) = 1
    BY <1>1, <2>2, Zenon
  <2> DEFINE b == fs[m].body
  <2>4. Frame(fs[m])[3] = b[1] /\ IsSequence(b)
    <3>1. WellFormedFrame(fs[m])
      BY <1>1, Zenon
    <3>2. \A i \in 1..Len(b) : Frame(fs[m])[i + 2] = b[i]
      BY <3>1, FrameShape
    <3>3. 1 \in 1..Len(b) /\ 1 + 2 = 3
      BY <2>3
    <3>4. IsSequence(b)
      BY <3>1, Zenon DEF WellFormedFrame
    <3> QED
      BY <3>2, <3>3, <3>4, Zenon
  <2>5. b = <<"I">> <=> b[1] = "I"
    <3>1. b \in Seq(Elements(b)) /\ Len(b) = 1
      BY <2>3, <2>4, Sequences
    <3> HIDE DEF b
    <3> QED
      BY <3>1
  <2>6. lastReadyForQuery(buf) = b[1]
    BY <1>8, <2>1, <2>3, <2>4, Zenon
  <2>7. sessionOutcome(buf) = "idle" <=> b[1] = "I"
    BY <2>6 DEF sessionOutcome
  <2>8. sessionOutcome(buf) = "idle" <=> R # {} /\ fs[Max(R)].body = <<"I">>
    <3> HIDE DEF R
    <3> QED
      BY <1>11, <2>3, <2>5, <2>7, Zenon
  <2> QED
    BY <2>8, Zenon DEF R, fs
<1> QED
  BY <1>10, <1>11, Zenon

\* Of every reply the connection keeps all but the notifications, finds each of
\* those, and takes the state of the session from its last report of it:
\* splitNotifications, lastReadyForQuery and sessionOutcome, for any number of
\* frames and any part of one behind them.
THEOREM RepliesAreRead == WireSpec => []ReplyRead
<1> DEFINE IInv == script \in Scripts /\ ReplyRead
<1>1. WireInit => IInv
  <2> SUFFICES ASSUME WireInit PROVE IInv
    OBVIOUS
  <2>1. script \in Scripts /\ reply.frames = <<>>
    BY DEF WireInit
  <2> QED
    BY <2>1, Zenon DEF ReplyRead
<1>2. ASSUME script \in Scripts, Submitted PROVE ReplyRead'
  <2> DEFINE r == reply'
             fs == r.frames
             bytes == FrameAll(fs) \o r.tail
  <2>1. /\ r \in Replies(script)
        /\ clean' = splitNotifications(bytes).clean
        /\ inline' = splitNotifications(bytes).found
        /\ status' = sessionOutcome(bytes)
    BY <1>2, Zenon DEF Submitted
  <2>2. PICK q \in Replies(script) : q = r
    BY <2>1, Zenon
  <2>3. Frames(bytes) = Found(FrameOf(q.frames), q.tail)
    <3> DEFINE S == CellsOf(q)
               G == FrameOf(q.frames)
    <3>1. /\ G \in Seq(Seq(S)) /\ q.tail \in Seq(S) /\ nextBackendMessage(q.tail) = 0
          /\ \A i \in 1..Len(q.frames) : IsFrame(G[i])
          /\ Len(G) = Len(q.frames) /\ FrameAll(q.frames) = First(G, Len(q.frames))
      BY <1>2, ReplyFacts, Zenon
    <3>2. \A i \in 1..Len(G) : IsFrame(G[i])
      BY <3>1, Zenon
    <3> HIDE DEF S, G
    <3>3. Frames(First(G, Len(G)) \o q.tail) = Found(G, q.tail)
      BY <3>1, <3>2, FramesAre, Zenon
    <3> QED
      BY <2>2, <3>1, <3>3, Zenon DEF G
  <2> DEFINE E == Frames(bytes)
  <2>4. /\ splitNotifications(bytes).clean = FlattenSeq([i \in DOMAIN E |-> IF Stays(E[i]) THEN E[i] ELSE <<>>])
        /\ splitNotifications(bytes).found =
             UNION {decodeNotification(From(f, 3)) : f \in {x \in ToSet(E) : ~Stays(x)}}
    BY Zenon DEF splitNotifications
  <2>5. clean' = First(KeptOf(q.frames), Len(q.frames)) \o q.tail
    BY <1>2, <2>1, <2>3, <2>4, CleanIs, Zenon
  <2>6. inline' = {f.note : f \in {x \in ToSet(q.frames) : x.typ = "A" /\ x.wellFormed}}
    BY <1>2, <2>1, <2>3, <2>4, InlineIs, Zenon
  <2>7. First(KeptOf(q.frames), Len(q.frames)) =
          FlattenSeq([i \in DOMAIN q.frames |-> IF q.frames[i].typ = "A" THEN <<>> ELSE Frame(q.frames[i])])
    <3>1. DOMAIN q.frames = 1..Len(q.frames)
      BY <1>2, ReplyFacts
    <3>2. \A i \in 1..Len(q.frames) :
            KeptOf(q.frames)[i] = IF q.frames[i].typ = "A" THEN <<>> ELSE Frame(q.frames[i])
      BY DEF KeptOf
    <3>3. [i \in 1..Len(q.frames) |-> KeptOf(q.frames)[i]] =
            [i \in DOMAIN q.frames |-> IF q.frames[i].typ = "A" THEN <<>> ELSE Frame(q.frames[i])]
      BY <3>1, <3>2
    <3> QED
      BY <3>3, Zenon DEF First
  <2> DEFINE reports == {i \in DOMAIN q.frames : q.frames[i].typ = "Z" /\ Len(q.frames[i].body) = 1}
  <2>8. status' = "idle" <=> reports # {} /\ q.frames[Max(reports)].body = <<"I">>
    BY <1>2, <2>1, <2>3, StatusIs, Zenon
  <2> HIDE DEF bytes, E
  <2> QED
    BY <2>2, <2>5, <2>6, <2>7, <2>8, Zenon DEF ReplyRead
<1>3. ASSUME script \in Scripts, ReplyRead, UNCHANGED replyVars PROVE ReplyRead'
  BY <1>3, Zenon DEF replyVars, ReplyRead
<1>4. IInv /\ [WireNext]_wireVars => IInv'
  <2> SUFFICES ASSUME IInv, [WireNext]_wireVars PROVE IInv'
    OBVIOUS
  <2>1. script' = script /\ (Submitted \/ UNCHANGED replyVars)
    BY DEF WireNext, wireVars, Write, FramingLost, WriteReturns, AnswerStartup,
           AnswerTerminate, Gather, Close, SubmitFails
  <2>2. ReplyRead'
    BY <1>2, <1>3, <2>1, Zenon
  <2> QED
    BY <2>1, <2>2
<1> QED
  BY <1>1, <1>4, PTL DEF WireSpec
=============================================================================
