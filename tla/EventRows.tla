------------------------------ MODULE EventRows ------------------------------
(***************************************************************************)
(* The mapping between an ADK event and the rows of five tables            *)
(* (session/rows.go, session/append.go, session/load.go, session/state.go):*)
(* encode, the JSON documents append_event unpacks, the traversal that     *)
(* reads the rows back in no order, and decode.                            *)
(*                                                                         *)
(* A Go pointer, map or slice that may be nil, and a column that may be    *)
(* NULL, is a set of at most one element. A part carries one group of each *)
(* kind of encoding: strings with a json column (functionCall,             *)
(* functionResponse, and the string-only groups), strings with bytes       *)
(* (inlineData), and one json column (toolCall, toolResponse,              *)
(* partMetadata).                                                          *)
(***************************************************************************)
EXTENDS Naturals, Sequences, FiniteSets, SequencesExt

CONSTANTS
    Keys,        \* state keys: sequences of prefix tokens and a name
    MaxParts,    \* bound: parts of an event
    MaxKeys      \* bound: keys of a state delta

ASSUME RowsAssumption ==
    /\ MaxParts \in Nat /\ MaxKeys \in Nat
    /\ \A k \in Keys : k \in Seq(STRING) /\ k # <<>>

VARIABLES ev, pc, rows, out
vars == <<ev, pc, rows, out>>

(***************************************************************************)
(* ADK events.                                                             *)
(***************************************************************************)
Opt(S) == {{}} \cup {{x} : x \in S}
Text == {"", "v"}
Doc == {"empty", "v"}     \* a non-nil map or slice: {} or [], or with content

Part == [text : Text,
         call : Opt([id : Text, args : Opt(Doc)]),
         blob : Opt([mime : Text, data : Opt(Text)]),
         tool : Opt({"v"})]

Content(parts) == {[role |-> "", parts |-> parts]}
SeqsUpTo(S, n) == UNION {[1..k -> S] : k \in 0..n}

Deltas == UNION {[K -> {"nil", "v"}] : K \in {K \in SUBSET Keys : Cardinality(K) <= MaxKeys}}

PlainEvent == [partial |-> FALSE, content |-> {}, meta |-> {}, conf |-> {}, delta |-> {}]

\* The events offered to AppendEvent: every sequence of parts, and every
\* combination of the nullable columns and state deltas.
ContentEvents == {[PlainEvent EXCEPT !.content = Content(ps)] : ps \in SeqsUpTo(Part, MaxParts)}
ColumnEvents ==
    [partial : BOOLEAN, content : {{}}, meta : Opt(Doc), conf : Opt({"v"}), delta : Opt(Deltas)]

Events == ContentEvents \cup ColumnEvents

(***************************************************************************)
(* State scopes.                                                           *)
(***************************************************************************)

\* The scope and the key as stored; nothing for a temp: key.
ScopeOf(k) ==
    CASE Head(k) = "temp:" -> {}
      [] Head(k) = "app:"  -> {[scope |-> "app",  key |-> Tail(k)]}
      [] Head(k) = "user:" -> {[scope |-> "user", key |-> Tail(k)]}
      [] OTHER             -> {[scope |-> "session", key |-> k]}

\* The inverse.
Key(scope, stored) ==
    CASE scope = "app"  -> <<"app:">> \o stored
      [] scope = "user" -> <<"user:">> \o stored
      [] OTHER          -> stored

(***************************************************************************)
(* Encode. A nil value becomes SQL NULL, an empty one stays a value.       *)
(***************************************************************************)
Marshal(x) == CASE x = "empty" -> "{}" [] x = "v" -> "{v}" [] x = "nil" -> "null"
Unmarshal(j) == CASE j = "{}" -> "empty" [] j = "{v}" -> "v" [] j = "null" -> "nil"

marshalNullable(v) == {Marshal(x) : x \in v}
unmarshalNullable(raw) == {Unmarshal(j) : j \in raw}

\* RequestedToolConfirmations is of a map type isNil does not list: a nil one
\* is marshalled, as the document null.
marshalUnlisted(v) == IF v = {} THEN {Marshal("nil")} ELSE marshalNullable(v)

\* json.Marshal renders bytes as base64 text, nil as null.
bytesToBase64(b) == {IF x = "" THEN "" ELSE "b64" : x \in b}
bytesFromBase64(s) == {IF x = "" THEN "" ELSE "v" : x \in s}

encodePart(i, p) ==
    [part_index |-> i - 1,
     text |-> p.text,
     function_call_id |-> {c.id : c \in p.call},
     function_call_args |-> UNION {marshalNullable(c.args) : c \in p.call},
     inline_data_mime_type |-> {b.mime : b \in p.blob},
     inline_data_bytes_b64 |-> UNION {bytesToBase64(b.data) : b \in p.blob},
     tool_call |-> marshalNullable(p.tool)]

PartRows(parts) == {encodePart(i, parts[i]) : i \in DOMAIN parts}

\* The state_delta rows, one per persisted key.
StateRows(d) ==
    UNION {{[scope |-> r.scope, key |-> r.key, value_json |-> Marshal(d[k])] :
              r \in ScopeOf(k)} : k \in DOMAIN d}
encodeActions(delta) == UNION {StateRows(d) : d \in delta}

\* json_populate_record turns a JSON null into SQL NULL.
populate(column) == column \ {"null"}

encodeEvent(e) ==
    [content_role |-> {c.role : c \in e.content},
     meta |-> marshalNullable(e.meta),
     requested_auth_configs |-> populate(marshalUnlisted(e.conf)),
     parts |-> UNION {PartRows(c.parts) : c \in e.content},
     state_delta |-> encodeActions(e.delta)]

(***************************************************************************)
(* The store: what the constraints refuse.                                 *)
(***************************************************************************)

\* UNIQUE (event_id, scope, key)
StateDeltaKey(r) == <<r.scope, r.key>>

Acceptable(rs) ==
    /\ \A r, s \in rs.state_delta : StateDeltaKey(r) = StateDeltaKey(s) => r = s
    /\ \A r \in rs.state_delta : populate({r.value_json}) # {}   \* value_json NOT NULL

(***************************************************************************)
(* Load: rows arrive in the order of their uuids, that is, in any order.   *)
(***************************************************************************)

\* The order of arrival kept.
eventRowsFromSession_Unsorted(arrived) == arrived

\* Parts sorted by part_index.
eventRowsFromSession(arrived) ==
    CHOOSE s \in SetToSeqs(ToSet(arrived)) :
      \A i, j \in DOMAIN s : i < j => s[i].part_index <= s[j].part_index

decodePart(r) ==
    [text |-> r.text,
     call |-> {[id |-> x, args |-> unmarshalNullable(r.function_call_args)] : x \in r.function_call_id},
     blob |-> IF r.inline_data_mime_type = {} /\ r.inline_data_bytes_b64 = {} THEN {}
              ELSE {[mime |-> CHOOSE x \in r.inline_data_mime_type \cup {""} :
                                 r.inline_data_mime_type \subseteq {x},
                     data |-> bytesFromBase64(r.inline_data_bytes_b64)]},
     tool |-> unmarshalNullable(r.tool_call)]

\* A map is made only when there are rows for it.
decodeActions(ds) ==
    IF ds = {} THEN {}
    ELSE {[k \in {Key(r.scope, r.key) : r \in ds} |->
             Unmarshal((CHOOSE r \in ds : Key(r.scope, r.key) = k).value_json)]}

decodeEvent(rs, parts) ==
    [partial |-> FALSE,
     content |-> {[role |-> x, parts |-> [i \in DOMAIN parts |-> decodePart(parts[i])]] :
                    x \in rs.content_role},
     meta |-> unmarshalNullable(rs.meta),
     conf |-> unmarshalNullable(rs.requested_auth_configs),
     delta |-> decodeActions(rs.state_delta)]

-----------------------------------------------------------------------------
NoRows == encodeEvent(PlainEvent)

Init == ev \in Events /\ pc = "offered" /\ rows = NoRows /\ out = PlainEvent

\* A partial event is dropped and reported as stored.
AppendPartial ==
    /\ pc = "offered" /\ ev.partial
    /\ pc' = "dropped"
    /\ UNCHANGED <<ev, rows, out>>

EncodeForAppend ==
    /\ pc = "offered" /\ ~ev.partial
    /\ rows' = encodeEvent(ev)
    /\ pc' = IF Acceptable(rows') THEN "stored" ELSE "refused"
    /\ UNCHANGED <<ev, out>>

Load ==
    /\ pc = "stored"
    /\ \E arrived \in SetToSeqs(rows.parts) :
         out' = decodeEvent(rows, eventRowsFromSession(arrived))
    /\ pc' = "loaded"
    /\ UNCHANGED <<ev, rows>>

Next == AppendPartial \/ EncodeForAppend \/ Load
Spec == Init /\ [][Next]_vars

-----------------------------------------------------------------------------
\* What load(store(e)) is to be: e itself, without its temp: keys; a state
\* delta left with no key reads back as nil.
Kept(e) ==
    [e EXCEPT !.delta =
        {[k \in {x \in DOMAIN d : Head(x) # "temp:"} |-> d[k]] :
            d \in {d \in e.delta : \E x \in DOMAIN d : Head(x) # "temp:"}}]

\* Storing an event and loading it again gives the event back, whatever is
\* nil, empty or set in it and in whatever order its rows arrive: no two
\* groups of a part, and no two prefixed keys, are confused. The store refuses
\* an event (value_json is NOT NULL, and a nil value is a JSON null) for
\* setting a persisted key to nil and for nothing else: not two keys that
\* differ in their prefix, not a nil or an empty column, not a temp: key.
RoundTrip ==
    LET setsNil == \E d \in ev.delta : \E k \in DOMAIN d :
                       Head(k) # "temp:" /\ d[k] = "nil"
    IN  /\ pc = "loaded" => out = Kept(ev)
        /\ pc = "refused" => setsNil
        /\ pc = "stored" => ~setsNil
=============================================================================
