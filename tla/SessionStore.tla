---------------------------- MODULE SessionStore ----------------------------
(***************************************************************************)
(* The session service (session/service.go) over the agentiq.* tables and  *)
(* the three PL/pgSQL functions it calls (migrate/sql/0002 and 0003).      *)
(*                                                                         *)
(* A transaction runs its SQL statements one at a time; each statement     *)
(* sees the committed rows plus its own writes (READ COMMITTED), and waits *)
(* for a transaction that holds a row it has to insert, update or delete.  *)
(* serial says which database is below: TRUE is PGlite behind the wasmpg   *)
(* multiplexer, which gives the backend to one transaction at a time       *)
(* (TransactionIsolation), FALSE is Postgres with a pool of connections.   *)
(*                                                                         *)
(* The n-th transaction draws n for everything it takes from the database: *)
(* gen_random_uuid() and now(), which is the transaction's start time.     *)
(***************************************************************************)
EXTENDS Naturals, FiniteSets, Sequences, SequencesExt, FiniteSetsExt

CONSTANTS
    Writers,     \* callers of the service: workflow steps, or the read path
    Names,       \* (app_name, user_id, adk_id), all of one application
    UserOf,      \* the user_id of each name
    Adk,         \* ADK event ids
    Delta,       \* the one state key each event sets, by its prefix
    InitialState,\* the prefixes of the keys a session is created with
    Databases,   \* which databases are below: a set of values of serial
    MaxTx        \* bound: transactions begun in a behaviour, per database

Scopes == {"app", "user", "session"}

ASSUME StoreAssumption ==
    /\ Delta \in [Adk -> Scopes \cup {"temp"}]
    /\ InitialState \subseteq Scopes \cup {"temp"}
    /\ UserOf \in [Names -> STRING]
    /\ Databases \subseteq BOOLEAN
    /\ MaxTx \in [BOOLEAN -> Nat]

VARIABLES
    serial, \* one transaction at a time (PGlite) or many (Postgres)
    db,     \* the committed rows of all tables
    tx,     \* per caller: where its call is
    add,    \* per caller: rows written and not yet committed
    rem,    \* per caller: rows deleted (or replaced) and not yet committed
    clock,  \* transactions begun so far
    view    \* per caller: the storedSession Get has assembled

vars == <<serial, db, tx, add, rem, clock, view>>

(***************************************************************************)
(* Rows.                                                                   *)
(***************************************************************************)
SessionRow(id, n, upd) == [tab |-> "session", id |-> id, name |-> n, upd |-> upd]
EventRow(id, sid, e, s) == [tab |-> "event", id |-> id, sid |-> sid, adk |-> e, seq |-> s]

\* The part, actions, state_delta and artifact_delta rows written with an
\* event; by is the transaction that wrote them.
ChildRows(ev, by) == [tab |-> "child", ev |-> ev, by |-> by]

\* A session_state row. Its value is the number of the writing transaction,
\* which is also its updated_at_ts.
StateRow(sid, scope, at) == [tab |-> "state", sid |-> sid, scope |-> scope, at |-> at]

\* The unique constraint a row is subject to.
RowKey(r) ==
    CASE r.tab = "session" -> <<"session_key", r.name>>
      [] r.tab = "event"   -> <<"event_key", r.sid, r.adk>>
      [] r.tab = "state"   -> <<"session_state_key", r.sid, r.scope>>
      [] r.tab = "child"   -> <<"child", r.ev, r.by>>

SessionsIn(rows) == {r \in rows : r.tab = "session"}
EventsIn(rows)   == {r \in rows : r.tab = "event"}
ChildrenIn(rows) == {r \in rows : r.tab = "child"}
StateIn(rows)    == {r \in rows : r.tab = "state"}

EventsOf(rows, sid) == {r \in EventsIn(rows) : r.sid = sid}
StateOf(rows, sid)  == {r \in StateIn(rows) : r.sid = sid}

(***************************************************************************)
(* Transactions: what a statement of caller p sees and may touch.          *)
(***************************************************************************)
Idle == [op |-> "none", pc |-> "idle", name |-> "", adk |-> "",
         at |-> 0, sid |-> 0, seq |-> 0]

Open(p) == tx[p].at # 0
Visible(p) == (db \ rem[p]) \cup add[p]

Held(p) == {RowKey(r) : r \in add[p] \cup rem[p]}

\* No other open transaction holds a lock on one of these rows.
Free(p, rows) ==
    \A q \in Writers \ {p} : {RowKey(r) : r \in rows} \cap Held(q) = {}

\* PGlite has one backend: nothing runs beside an open transaction.
BackendFree(p) == serial => \A q \in Writers \ {p} : ~Open(q)

Begin(p, call) ==
    /\ tx[p] = Idle
    /\ clock < MaxTx[serial]
    /\ BackendFree(p)
    /\ clock' = clock + 1
    /\ tx' = [tx EXCEPT ![p] = [call EXCEPT !.at = clock + 1]]
    /\ UNCHANGED <<db, add, rem, view>>

\* One statement: what it deletes, what it writes, and where the function
\* goes on.
Statement(p, del, ins, next) ==
    /\ add' = [add EXCEPT ![p] = (@ \ del) \cup ins]
    /\ rem' = [rem EXCEPT ![p] = @ \cup (del \cap db)]
    /\ tx' = [tx EXCEPT ![p] = next]
    /\ UNCHANGED <<db, clock, view>>

Goto(p, pc) == [tx[p] EXCEPT !.pc = pc]

EndTx(p) ==
    /\ tx' = [tx EXCEPT ![p] = Idle]
    /\ add' = [add EXCEPT ![p] = {}]
    /\ rem' = [rem EXCEPT ![p] = {}]
    /\ UNCHANGED <<clock, view>>

Commit(p) ==
    /\ tx[p].pc = "commit"
    /\ db' = (db \ rem[p]) \cup add[p]
    /\ EndTx(p)

\* A raised error, a lost connection or a crash: the transaction leaves no
\* trace, and the caller may try the whole call again.
Rollback(p) ==
    /\ Open(p)
    /\ EndTx(p)
    /\ UNCHANGED db

(***************************************************************************)
(* State scopes (session/state.go).                                        *)
(***************************************************************************)

\* The prefixes that persist: all but temp:.
Persisted(prefixes) == prefixes \ {"temp"}

\* Create's initial state, as session_state rows.
stateDocument(sid, at) == {StateRow(sid, s, at) : s \in Persisted(InitialState)}

(***************************************************************************)
(* create_session.                                                         *)
(***************************************************************************)
Create(p, n) == Begin(p, [Idle EXCEPT !.op = "create", !.pc = "insert", !.name = n])

NewSession(p) == SessionRow(tx[p].at, tx[p].name, tx[p].at)

create_session(p) ==
    LET t == tx[p]
        row == NewSession(p)
    IN  /\ t.op = "create" /\ t.pc = "insert"
        /\ Free(p, {row})
        \* A taken natural key raises unique_violation: only Rollback is left.
        /\ \A r \in SessionsIn(Visible(p)) : r.name # t.name
        /\ Statement(p, {}, {row} \cup stateDocument(t.at, t.at), Goto(p, "commit"))

(***************************************************************************)
(* AppendEvent and append_event.                                           *)
(***************************************************************************)
AppendEvent(p, n, e) ==
    Begin(p, [Idle EXCEPT !.op = "append", !.pc = "ref", !.name = n, !.adk = e])

\* The surrogate id, looked up in the transaction of the append.
SessionRef(p) ==
    /\ tx[p].op = "append" /\ tx[p].pc = "ref"
    /\ \E r \in SessionsIn(Visible(p)) :
          /\ r.name = tx[p].name
          /\ Statement(p, {}, {}, [tx[p] EXCEPT !.pc = "max", !.sid = r.id])

\* The WHERE clause forgotten: numbered over all sessions.
NextSequence_AllSessions(rows, sid) == 1 + Max({0} \cup {r.seq : r \in EventsIn(rows)})

\* COALESCE(MAX(sequence), 0) + 1 over the events of the session.
NextSequence(rows, sid) == 1 + Max({0} \cup {r.seq : r \in EventsOf(rows, sid)})

append_max(p) ==
    /\ tx[p].op = "append" /\ tx[p].pc = "max"
    /\ Statement(p, {}, {},
          [tx[p] EXCEPT !.pc = "insert", !.seq = NextSequence(Visible(p), tx[p].sid)])

Stored(p) == {r \in EventsOf(Visible(p), tx[p].sid) : r.adk = tx[p].adk}

NewEvent(p) == EventRow(tx[p].at, tx[p].sid, tx[p].adk, tx[p].seq)

\* A retried append that inserts the child rows of the stored event again.
append_insert_NoEarlyReturn(p) ==
    LET t == tx[p]
        row == NewEvent(p)
    IN  /\ t.op = "append" /\ t.pc = "insert"
        /\ Free(p, {row})
        /\ IF Stored(p) = {}
             THEN Statement(p, {}, {row}, Goto(p, "children"))
             ELSE Statement(p, {}, {}, Goto(p, "children"))

\* INSERT ... ON CONFLICT DO NOTHING; on a conflict the function returns at
\* once and leaves every child table alone.
append_insert(p) ==
    LET t == tx[p]
        row == NewEvent(p)
    IN  /\ t.op = "append" /\ t.pc = "insert"
        /\ Free(p, {row})
        /\ IF Stored(p) = {}
             THEN Statement(p, {}, {row}, Goto(p, "children"))
             ELSE Statement(p, {}, {}, Goto(p, "commit"))

\* The session_state rows of the event: none for a temp: key.
NewState(p) ==
    {StateRow(tx[p].sid, s, tx[p].at) : s \in Persisted({Delta[tx[p].adk]})}

\* The child rows, and the deltas projected onto session_state (last write
\* wins per key).
append_children(p) ==
    LET t == tx[p]
        new == NewState(p)
        old == {r \in StateOf(Visible(p), t.sid) : \E n \in new : RowKey(n) = RowKey(r)}
    IN  /\ t.op = "append" /\ t.pc = "children"
        /\ Free(p, new)
        /\ \E ev \in Stored(p) :
             Statement(p, old, new \cup {ChildRows(ev.id, t.at)}, Goto(p, "touch"))

ItsSession(p) == {r \in SessionsIn(Visible(p)) : r.id = tx[p].sid}

\* UPDATE session SET last_update_at: no row is not an error.
append_touch(p) ==
    LET t == tx[p]
        old == ItsSession(p)
    IN  /\ t.op = "append" /\ t.pc = "touch"
        /\ Free(p, old)
        /\ Statement(p, old, {[r EXCEPT !.upd = t.at] : r \in old}, Goto(p, "commit"))

(***************************************************************************)
(* delete_session.                                                         *)
(***************************************************************************)
Delete(p, n) == Begin(p, [Idle EXCEPT !.op = "delete", !.pc = "find", !.name = n])

\* SELECT ... FOR UPDATE: the session row locked before its children.
delete_find_ForUpdate(p) ==
    LET found == {r \in SessionsIn(Visible(p)) : r.name = tx[p].name}
    IN  /\ tx[p].op = "delete" /\ tx[p].pc = "find"
        /\ Free(p, found)
        /\ \/ /\ found = {}
              /\ Statement(p, {}, {}, Goto(p, "commit"))
           \/ \E r \in found :
              Statement(p, {r}, {r}, [tx[p] EXCEPT !.pc = "children", !.sid = r.id])

\* A session that is not there is a success that deletes nothing.
delete_find(p) ==
    LET found == {r \in SessionsIn(Visible(p)) : r.name = tx[p].name}
    IN  /\ tx[p].op = "delete" /\ tx[p].pc = "find"
        /\ \/ /\ found = {}
              /\ Statement(p, {}, {}, Goto(p, "commit"))
           \/ \E r \in found :
              Statement(p, {}, {}, [tx[p] EXCEPT !.pc = "children", !.sid = r.id])

\* One DELETE statement: it waits for every row it has to remove.
DeleteRows(p, pc, rows, next) ==
    /\ tx[p].op = "delete" /\ tx[p].pc = pc
    /\ Free(p, rows)
    /\ Statement(p, rows, {}, Goto(p, next))

\* The rows of the four child tables, by the ids of the events visible to the
\* statement.
DoomedChildren(p) ==
    {r \in ChildrenIn(Visible(p)) :
        \E ev \in EventsOf(Visible(p), tx[p].sid) : ev.id = r.ev}

delete_children(p) == DeleteRows(p, "children", DoomedChildren(p), "events")

delete_events(p) ==
    DeleteRows(p, "events", EventsOf(Visible(p), tx[p].sid), "state")

\* delete_session that forgets the session_state rows.
delete_state_Forgotten(p) == DeleteRows(p, "state", {}, "session")

delete_state(p) ==
    DeleteRows(p, "state", StateOf(Visible(p), tx[p].sid), "session")

\* The session row itself left behind.
delete_row_Kept(p) == DeleteRows(p, "session", {}, "commit")

delete_row(p) == DeleteRows(p, "session", ItsSession(p), "commit")

(***************************************************************************)
(* What the next statement of p has to lock, and whether it can run now.   *)
(***************************************************************************)
NextLocks(p) ==
    LET at(op, pc) == tx[p].op = op /\ tx[p].pc = pc
    IN  CASE at("create", "insert")   -> {NewSession(p)}
          [] at("append", "insert")   -> {NewEvent(p)}
          [] at("append", "children") -> NewState(p)
          [] at("append", "touch")    -> ItsSession(p)
          [] at("delete", "children") -> DoomedChildren(p)
          [] at("delete", "events")   -> EventsOf(Visible(p), tx[p].sid)
          [] at("delete", "state")    -> StateOf(Visible(p), tx[p].sid)
          [] at("delete", "session")  -> ItsSession(p)
          [] OTHER                    -> {}

CanGoOn(p) ==
    /\ Free(p, NextLocks(p))
    /\ tx[p].op = "create" /\ tx[p].pc = "insert" =>
         \A r \in SessionsIn(Visible(p)) : r.name # tx[p].name
    /\ tx[p].pc = "ref" => \E r \in SessionsIn(Visible(p)) : r.name = tx[p].name
    /\ tx[p].op = "append" /\ tx[p].pc = "children" => Stored(p) # {}

(***************************************************************************)
(* Get: two reads, each a statement of its own.                            *)
(***************************************************************************)
NoView == [id |-> 0, name |-> "", events |-> <<>>, state |-> [s \in Scopes |-> 0]]

\* The value of each scope's key in a set of session_state rows: the newest.
Newest(rows) ==
    [s \in Scopes |-> Max({0} \cup {r.at : r \in {x \in rows : x.scope = s}})]

\* Rows taken in the order the traversal returns them.
sessionFromRow_Unsorted(rows, id, n) ==
    {[id |-> id, name |-> n, events |-> evs, state |-> Newest(StateOf(rows, id))] :
        evs \in SetToSeqs(EventsOf(rows, id))}

\* Events in sequence order; rows of equal sequence in any order.
sessionFromRow(rows, id, n) ==
    {[id |-> id, name |-> n, events |-> evs, state |-> Newest(StateOf(rows, id))] :
        evs \in {q \in SetToSeqs(EventsOf(rows, id)) :
                    \A i, j \in 1..Len(q) : i < j => q[i].seq <= q[j].seq}}

\* app: rows of every session, user: rows of the user's sessions, session
\* rows of this session only.
SharedRows(rows, v) ==
    {r \in StateIn(rows) : \E s \in SessionsIn(rows) :
        /\ s.id = r.sid
        /\ \/ r.scope = "app"
           \/ r.scope = "user" /\ UserOf[s.name] = UserOf[v.name]
           \/ r.scope = "session" /\ s.id = v.id}

\* The shared rows overlaid on the session's own.
mergeSharedState(v, rows) ==
    LET shared == Newest(SharedRows(rows, v))
    IN  [v EXCEPT !.state = [s \in Scopes |-> IF shared[s] # 0 THEN shared[s] ELSE @[s]]]

\* session.Get: no row is ErrSessionNotFound and leaves the caller as it was.
Get(p, n) ==
    /\ tx[p] = Idle
    /\ BackendFree(p)
    /\ \E s \in SessionsIn(db) :
         /\ s.name = n
         /\ \E v \in sessionFromRow(db, s.id, n) : view' = [view EXCEPT ![p] = v]
    /\ tx' = [tx EXCEPT ![p] = [Idle EXCEPT !.op = "get", !.pc = "shared", !.name = n]]
    /\ UNCHANGED <<db, add, rem, clock>>

\* session.SharedState, a second statement with a snapshot of its own.
GetShared(p) ==
    /\ tx[p].pc = "shared"
    /\ BackendFree(p)
    /\ view' = [view EXCEPT ![p] = mergeSharedState(view[p], db)]
    /\ tx' = [tx EXCEPT ![p].pc = "loaded"]
    /\ UNCHANGED <<db, add, rem, clock>>

\* The caller is done with the snapshot.
Release(p) ==
    /\ tx[p].op = "get" /\ tx[p].pc = "loaded"
    /\ view' = [view EXCEPT ![p] = NoView]
    /\ tx' = [tx EXCEPT ![p] = Idle]
    /\ UNCHANGED <<db, add, rem, clock>>

-----------------------------------------------------------------------------
Init ==
    /\ serial \in Databases
    /\ db = {}
    /\ tx = [p \in Writers |-> Idle]
    /\ add = [p \in Writers |-> {}]
    /\ rem = [p \in Writers |-> {}]
    /\ clock = 0
    /\ view = [p \in Writers |-> NoView]

\* The statements of an open transaction.
Progress(p) ==
    \/ create_session(p)
    \/ SessionRef(p) \/ append_max(p) \/ append_insert(p)
    \/ append_children(p) \/ append_touch(p)
    \/ delete_find(p) \/ delete_children(p) \/ delete_events(p)
    \/ delete_state(p) \/ delete_row(p)
    \/ Commit(p)

Step(p) ==
    \/ \E n \in Names : Create(p, n) \/ Delete(p, n) \/ Get(p, n)
    \/ \E n \in Names, e \in Adk : AppendEvent(p, n, e)
    \/ Progress(p)
    \/ Rollback(p)
    \/ GetShared(p) \/ Release(p)

Next == \E p \in Writers : Step(p) /\ UNCHANGED serial

Spec == Init /\ [][Next]_vars

-----------------------------------------------------------------------------
Ids == 1..MaxTx[serial]

RowType ==
    [tab : {"session"}, id : Ids, name : Names, upd : Ids]
      \cup [tab : {"event"}, id : Ids, sid : Ids, adk : Adk, seq : Nat \ {0}]
      \cup [tab : {"child"}, ev : Ids, by : Ids]
      \cup [tab : {"state"}, sid : Ids, scope : Scopes, at : Ids]

\* Type correctness of the tables, of the open transactions and of the loaded
\* sessions; no session_state row ever has the scope temp.
StoreTypeOK ==
    /\ \A r \in db : r \in RowType
    /\ \A p \in Writers :
         /\ \A r \in add[p] \cup rem[p] : r \in RowType
         /\ tx[p].op \in {"none", "create", "append", "delete", "get"}
         /\ tx[p].name \in Names \cup {""} /\ tx[p].adk \in Adk \cup {""}
         /\ {tx[p].at, tx[p].sid} \subseteq 0..MaxTx[serial]
         /\ view[p].state \in [Scopes -> 0..MaxTx[serial]]
    /\ clock \in 0..MaxTx[serial]

\* append_event stores an event exactly once, however often and by whomever
\* it is called: one row per (session, adk_id), one row per session name, and
\* the child rows of one call for every stored event. A retried append leaves
\* the first one's rows alone.
AppendedExactlyOnce ==
    /\ \A r, s \in db : RowKey(r) = RowKey(s) => r = s
    /\ \A ev \in EventsIn(db) : \E by \in Ids :
         {c \in ChildrenIn(db) : c.ev = ev.id} = {ChildRows(ev.id, by)}

\* Where transactions run one at a time, sequence, as append_event allocates
\* it, numbers the events of a session 1..n: no gap, no two events with one
\* number.
SequenceDense ==
    serial => \A s \in SessionsIn(db) :
        {ev.seq : ev \in EventsOf(db, s.id)} = 1..Cardinality(EventsOf(db, s.id))

\* sequence is the ordering guarantee: no two events of a session share one.
SequenceUnique ==
    \A a, b \in EventsIn(db) : a.sid = b.sid /\ a.seq = b.seq => a = b

\* Where transactions run one at a time, every event and every state row
\* belongs to a stored session, every child row to a stored event:
\* delete_session and append_event leave no orphans.
NoOrphans == serial =>
    /\ \A r \in EventsIn(db) \cup StateIn(db) : \E s \in SessionsIn(db) : s.id = r.sid
    /\ \A c \in ChildrenIn(db) : \E ev \in EventsIn(db) : ev.id = c.ev

\* A stored event is never changed, and disappears only with its session.
EventsKept ==
    [][\A ev \in EventsIn(db) \ EventsIn(db') :
          \A s \in SessionsIn(db') : s.id # ev.sid]_vars

\* Where transactions run one at a time, what Get returns while the session is
\* stored: its events in sequence order, and a state no older than those
\* events, although the two were read by different statements. Session-scoped
\* keys are the session's own.
LoadedConsistent == serial =>
    \A p \in Writers : tx[p].pc = "loaded" =>
        LET v == view[p] IN
        (\E s \in SessionsIn(db) : s.id = v.id) =>
            /\ \A i, j \in DOMAIN v.events : i < j => v.events[i].seq < v.events[j].seq
            /\ \A i \in DOMAIN v.events :
                 Delta[v.events[i].adk] \in Scopes =>
                     v.state[Delta[v.events[i].adk]] >= v.events[i].id
            /\ v.state["session"] # 0 =>
                 \/ v.state["session"] = v.id
                 \/ \E ev \in EventsOf(db, v.id) : ev.id = v.state["session"]

\* The three functions take their rows in one order, events before state
\* before session, so open transactions never wait for each other in a cycle:
\* while some are open, the next statement of one of them waits for no row of
\* another and runs. (A call whose session is absent, or taken, ends in its
\* error.)
NoWaitCycle ==
    LET open == {p \in Writers : Open(p)}
        refused == {p \in open :
            \/ tx[p].pc = "ref" /\ \A s \in SessionsIn(db) : s.name # tx[p].name
            \/ tx[p].op = "create" /\ \E s \in SessionsIn(db) : s.name = tx[p].name}
    IN  open # {} => \E p \in open : p \in refused \/ CanGoOn(p)
=============================================================================
