-------------------------- MODULE SessionStoreProofs --------------------------
(***************************************************************************)
(* Proofs about SessionStore, for every set of callers, names and events,  *)
(* any number of transactions, and both databases.                         *)
(***************************************************************************)
EXTENDS SessionStore, FiniteSetTheorems, WellFoundedInduction, TLAPS

Tabs == {"session", "event", "child", "state"}
Fields == {"op", "pc", "name", "adk", "at", "sid", "seq"}

RowOK(r) == r.tab \in Tabs /\ (r.tab = "session" => r = SessionRow(r.id, r.name, r.upd))

\* The numbers a row is known by: its own and those it points to.
Numbers(r) ==
    CASE r.tab = "session" -> {r.id}
      [] r.tab = "event"   -> {r.id, r.sid}
      [] r.tab = "child"   -> {r.ev, r.by}
      [] r.tab = "state"   -> {r.sid}

\* A number whose transaction has ended, and one that p may use.
Settled(n) == n \in 1..clock /\ \A p \in Writers : tx[p].at # n
Known(p, n) == Settled(n) \/ n = tx[p].at

Unique(rows) == \A r, s \in rows : RowKey(r) = RowKey(s) => r = s

Clean(p) == add[p] = {} /\ rem[p] = {}

-----------------------------------------------------------------------------
(* The invariant.                                                          *)

\* The tables: rows of ended transactions, one per key, one event per number.
TablesInv ==
    /\ serial \in BOOLEAN /\ clock \in 0..MaxTx[serial]
    /\ \A r \in db : RowOK(r) /\ \A n \in Numbers(r) : Settled(n)
    /\ Unique(db)
    /\ \A a, b \in EventsIn(db) : a.id = b.id => a = b

ChildrenInv ==
    \A ev \in EventsIn(db) : \E by \in Ids :
      {c \in ChildrenIn(db) : c.ev = ev.id} = {ChildRows(ev.id, by)}

\* A session row is written by create_session, or in the place of one.
Made(p, s) ==
    \/ s.id = tx[p].at
    \/ \E r \in SessionsIn(rem[p]) : r.id = s.id /\ r.name = s.name

\* What p has written and not committed fits what it sees.
WritesInv(p) ==
    /\ rem[p] \subseteq db
    /\ \A r \in add[p] : RowOK(r) /\ \A n \in Numbers(r) : Known(p, n)
    /\ Unique(Visible(p))
    /\ \A s \in SessionsIn(add[p]) : Made(p, s)

\* Open transactions have numbers of their own and lock different rows.
LocksInv ==
    /\ DOMAIN tx = Writers /\ DOMAIN add = Writers /\ DOMAIN rem = Writers
    /\ \A p \in Writers : DOMAIN tx[p] = Fields /\ tx[p].at \in 0..clock
    /\ \A p, q \in Writers : Open(p) /\ tx[p].at = tx[q].at => p = q
    /\ \A p, q \in Writers : p # q => Held(p) \cap Held(q) = {}

IdleInv(p) == tx[p].at = 0 /\ Clean(p) /\ tx[p].pc \in {"idle", "shared", "loaded"}

CreateInv(p) ==
    /\ Open(p) /\ tx[p].pc \in {"insert", "commit"}
    /\ rem[p] = {} /\ EventsIn(add[p]) = {} /\ ChildrenIn(add[p]) = {}
    /\ tx[p].pc = "insert" => add[p] = {}

Wrote(p) ==
    /\ EventsIn(add[p]) = {NewEvent(p)}
    /\ ChildrenIn(add[p]) = {ChildRows(tx[p].at, tx[p].at)}

AppendInv(p) ==
    /\ Open(p) /\ tx[p].pc \in {"ref", "max", "insert", "children", "touch", "commit"}
    /\ EventsIn(rem[p]) = {} /\ ChildrenIn(rem[p]) = {}
    /\ tx[p].pc # "ref" => Settled(tx[p].sid)
    /\ tx[p].pc \in {"ref", "max", "insert"} => Clean(p)
    /\ tx[p].pc = "children" => add[p] = {NewEvent(p)}
    /\ tx[p].pc = "touch" => Wrote(p) /\ SessionsIn(add[p]) = {}
    /\ tx[p].pc = "commit" => Clean(p) \/ Wrote(p)

\* The events a delete has removed children of are its session's, and it
\* removes them next.
DeleteInv(p) ==
    /\ Open(p) /\ tx[p].pc \in {"find", "children", "events", "state", "session", "commit"}
    /\ add[p] = {}
    /\ tx[p].pc \in {"find", "children"} => rem[p] = {}
    /\ tx[p].pc = "find" \/ Settled(tx[p].sid) \/ (tx[p].pc = "commit" /\ rem[p] = {})
    /\ \A ev \in EventsIn(rem[p]) : ev.sid = tx[p].sid
    /\ tx[p].pc = "events" => \A c \in ChildrenIn(rem[p]) :
         \A ev \in EventsIn(db) : ev.id = c.ev => ev.sid = tx[p].sid
    /\ tx[p].pc \in {"state", "session", "commit"} => \A c \in ChildrenIn(rem[p]) :
         \A ev \in EventsIn(db) : ev.id = c.ev => ev \in rem[p]

StageInv(p) ==
    \/ tx[p].op \in {"none", "get"} /\ IdleInv(p)
    \/ tx[p].op = "create" /\ CreateInv(p)
    \/ tx[p].op = "append" /\ AppendInv(p)
    \/ tx[p].op = "delete" /\ DeleteInv(p)

\* When a delete that removed events is about to commit, its session is gone
\* for good: nobody has written its row again.
Gone(p) ==
    /\ \A s \in SessionsIn(db) : s \in rem[p] \/ s.id # tx[p].sid
    /\ \A q \in Writers : \A s \in SessionsIn(add[q]) : s.id # tx[p].sid

GoneInv(p) ==
    tx[p].op = "delete" /\ tx[p].pc = "commit" /\ EventsIn(rem[p]) # {} => Gone(p)

CallInv(p) == WritesInv(p) /\ StageInv(p) /\ GoneInv(p)

StoreInv == TablesInv /\ ChildrenInv /\ LocksInv /\ \A p \in Writers : CallInv(p)

-----------------------------------------------------------------------------
(* Rows and their keys.                                                    *)

\* Rows of one key are of one table, and agree on what the key is made of.
LEMMA KeyFacts ==
    ASSUME NEW r, NEW s, r.tab \in Tabs, s.tab \in Tabs
    PROVE  RowKey(r) = RowKey(s) <=>
             /\ r.tab = s.tab
             /\ r.tab = "session" => r.name = s.name
             /\ r.tab = "event" => r.sid = s.sid /\ r.adk = s.adk
             /\ r.tab = "state" => r.sid = s.sid /\ r.scope = s.scope
             /\ r.tab = "child" => r.ev = s.ev /\ r.by = s.by
<1>1. CASE r.tab = "session" BY <1>1 DEF Tabs, RowKey
<1>2. CASE r.tab = "event" BY <1>2 DEF Tabs, RowKey
<1>3. CASE r.tab = "child" BY <1>3 DEF Tabs, RowKey
<1>4. CASE r.tab = "state" BY <1>4 DEF Tabs, RowKey
<1>. QED BY <1>1, <1>2, <1>3, <1>4 DEF Tabs

LEMMA IdleFields ==
    Idle.op = "none" /\ Idle.pc = "idle" /\ Idle.at = 0 /\ DOMAIN Idle = Fields
BY DEF Idle, Fields

LEMMA InitInv == Init => StoreInv
<1>. SUFFICES ASSUME Init PROVE StoreInv OBVIOUS
<1>. /\ DOMAIN tx = Writers /\ DOMAIN add = Writers /\ DOMAIN rem = Writers
     /\ \A p \in Writers : tx[p] = Idle /\ add[p] = {} /\ rem[p] = {}
  BY DEF Init
<1>1. TablesInv
  <2>1. serial \in BOOLEAN /\ clock \in 0..MaxTx[serial]
    BY StoreAssumption DEF Init
  <2>2. db = {} BY DEF Init
  <2>. QED BY <2>1, <2>2 DEF TablesInv, Unique, EventsIn
<1>2. ChildrenInv BY DEF Init, ChildrenInv, EventsIn
<1>3. LocksInv
  <2>1. clock = 0 BY DEF Init
  <2>. QED BY <2>1, IdleFields DEF LocksInv, Open, Held
<1>4. ASSUME NEW p \in Writers PROVE CallInv(p)
  <2>1. tx[p] = Idle /\ add[p] = {} /\ rem[p] = {} OBVIOUS
  <2>2. WritesInv(p) BY <2>1 DEF Init, WritesInv, Unique, Visible, SessionsIn
  <2>3. StageInv(p) BY <2>1, IdleFields DEF StageInv, IdleInv, Clean
  <2>4. GoneInv(p) BY <2>1, IdleFields DEF GoneInv
  <2>. QED BY <2>2, <2>3, <2>4 DEF CallInv
<1>. QED BY <1>1, <1>2, <1>3, <1>4 DEF StoreInv

-----------------------------------------------------------------------------
(* Steps that leave the tables alone.                                      *)

\* What does not change of a caller whose call stands still.
Still(q) == tx'[q] = tx[q] /\ add'[q] = add[q] /\ rem'[q] = rem[q]

\* While the tables stand still, so does the stage of a call that does not move.
LEMMA StageKept ==
    ASSUME NEW q \in Writers, StageInv(q), Still(q), db' = db,
           \A n \in 1..clock : Settled(n) => Settled(n)'
    PROVE  StageInv(q)'
<1>1. Settled(tx[q].sid) => Settled(tx[q].sid)'
  BY DEF Settled, Still
<1>2. tx[q].op \in {"none", "get"} /\ IdleInv(q) => IdleInv(q)'
  BY DEF Still, IdleInv, Clean
<1>3. CreateInv(q) => CreateInv(q)'
  BY DEF Still, CreateInv, Open
<1>4. AppendInv(q) => AppendInv(q)'
  BY <1>1 DEF Still, AppendInv, Open, Clean, Wrote, NewEvent
<1>5. DeleteInv(q) => DeleteInv(q)'
  BY <1>1 DEF Still, DeleteInv, Open
<1>. QED BY <1>2, <1>3, <1>4, <1>5 DEF StageInv, Still

\* What one statement of p changes.
LEMMA StatementFacts ==
    ASSUME LocksInv, NEW p \in Writers, NEW del, NEW ins, NEW next,
           Statement(p, del, ins, next), next.at = tx[p].at, DOMAIN next = Fields
    PROVE  /\ db' = db /\ clock' = clock
           /\ add'[p] = (add[p] \ del) \cup ins
           /\ rem'[p] = rem[p] \cup (del \cap db)
           /\ tx'[p] = next
           /\ \A q \in Writers \ {p} : Still(q)
           /\ DOMAIN tx' = Writers /\ DOMAIN add' = Writers /\ DOMAIN rem' = Writers
           /\ \A q \in Writers : tx'[q].at = tx[q].at /\ DOMAIN tx'[q] = Fields
           /\ \A n : Settled(n)' = Settled(n)
<1>1. db' = db /\ clock' = clock BY DEF Statement
<1>2. add' = [add EXCEPT ![p] = (add[p] \ del) \cup ins] BY DEF Statement
<1>3. rem' = [rem EXCEPT ![p] = rem[p] \cup (del \cap db)] BY DEF Statement
<1>4. tx' = [tx EXCEPT ![p] = next] BY DEF Statement
<1>5. DOMAIN tx = Writers /\ DOMAIN add = Writers /\ DOMAIN rem = Writers
  BY DEF LocksInv
<1>6. \A q \in Writers : DOMAIN tx[q] = Fields BY DEF LocksInv
<1>7. tx'[p] = next /\ \A q \in Writers \ {p} : tx'[q] = tx[q] BY <1>4, <1>5
<1>8. \A q \in Writers : tx'[q].at = tx[q].at /\ DOMAIN tx'[q] = Fields BY <1>6, <1>7
<1>9. \A n : Settled(n)' = Settled(n) BY <1>1, <1>8 DEF Settled
<1>. QED BY <1>1, <1>2, <1>3, <1>4, <1>5, <1>7, <1>8, <1>9 DEF Still

\* A statement keeps the invariant if it writes rows p may write, over nothing
\* it leaves in place, and touches no row another call has locked.
LEMMA StatementKeeps ==
    ASSUME StoreInv, NEW p \in Writers, NEW del, NEW ins, NEW next,
           Statement(p, del, ins, next), UNCHANGED serial,
           next.at = tx[p].at, DOMAIN next = Fields,
           del \subseteq Visible(p),
           \A r \in ins : RowOK(r) /\ \A n \in Numbers(r) : Known(p, n),
           Unique(ins),
           \A i \in ins, r \in Visible(p) : RowKey(i) = RowKey(r) => r \in del,
           \A r \in del \cup ins, q \in Writers \ {p} : RowKey(r) \notin Held(q),
           \A s \in SessionsIn(ins) :
             \/ s.id = tx[p].at
             \/ \E r \in SessionsIn(del) \cap db : r.id = s.id /\ r.name = s.name,
           StageInv(p)', GoneInv(p)'
    PROVE  StoreInv'
<1>. LocksInv /\ TablesInv /\ ChildrenInv BY DEF StoreInv
<1>. \A q \in Writers : CallInv(q) BY DEF StoreInv
<1>. /\ db' = db /\ clock' = clock
     /\ add'[p] = (add[p] \ del) \cup ins
     /\ rem'[p] = rem[p] \cup (del \cap db)
     /\ tx'[p] = next
     /\ \A q \in Writers \ {p} : Still(q)
     /\ DOMAIN tx' = Writers /\ DOMAIN add' = Writers /\ DOMAIN rem' = Writers
     /\ \A q \in Writers : tx'[q].at = tx[q].at /\ DOMAIN tx'[q] = Fields
     /\ \A n : Settled(n)' = Settled(n)
  BY StatementFacts
<1>1. TablesInv'
  <2>1. (serial \in BOOLEAN /\ clock \in 0..MaxTx[serial])' BY DEF TablesInv
  <2>2. \A r \in db : RowOK(r) /\ \A n \in Numbers(r) : Settled(n)' BY DEF TablesInv
  <2>3. Unique(db) /\ \A a, b \in EventsIn(db) : a.id = b.id => a = b
    BY DEF TablesInv
  <2>. QED BY <2>1, <2>2, <2>3 DEF TablesInv
<1>2. ChildrenInv'
  BY DEF ChildrenInv, Ids
<1>3. Held(p)' \subseteq Held(p) \cup {RowKey(r) : r \in del \cup ins}
  BY DEF Held
<1>4. \A q \in Writers \ {p} : Held(q)' = Held(q)
  BY DEF Held, Still
<1>5. LocksInv'
  <2>1. \A q, r \in Writers : q # r => Held(q) \cap Held(r) = {} BY DEF LocksInv
  <2>2. \A q \in Writers \ {p} : Held(p)' \cap Held(q) = {}
    BY <1>3, <2>1
  <2>3. \A q, r \in Writers : q # r => Held(q)' \cap Held(r)' = {}
    BY <1>4, <2>1, <2>2
  <2>4. \A q \in Writers : DOMAIN tx'[q] = Fields /\ tx'[q].at \in 0..clock
    BY DEF LocksInv
  <2>5. \A q, r \in Writers : tx'[q].at # 0 /\ tx'[q].at = tx'[r].at => q = r
    BY DEF LocksInv, Open
  <2>. QED BY <2>3, <2>4, <2>5 DEF LocksInv, Open
<1>6. WritesInv(p)'
  <2>1. WritesInv(p) BY DEF CallInv
  <2>2. rem'[p] \subseteq db BY <2>1 DEF WritesInv
  <2>3. \A n : Known(p, n)' = Known(p, n) BY DEF Known
  <2>4. \A r \in add'[p] : RowOK(r) /\ \A n \in Numbers(r) : Known(p, n)'
    BY <2>1, <2>3 DEF WritesInv
  <2>5. Visible(p)' \subseteq (Visible(p) \ del) \cup ins
    BY DEF Visible
  <2>6. Unique(Visible(p)')
    BY <2>1, <2>5 DEF WritesInv, Unique
  <2>7. ASSUME NEW s \in SessionsIn(add'[p]) PROVE Made(p, s)'
    <3>1. CASE s \in SessionsIn(ins)
      BY <3>1 DEF Made, SessionsIn
    <3>2. CASE s \in SessionsIn(add[p])
      <4>1. Made(p, s) BY <3>2, <2>1 DEF WritesInv
      <4>. QED BY <4>1 DEF Made, SessionsIn
    <3>. QED BY <3>1, <3>2 DEF SessionsIn
  <2>. QED BY <2>2, <2>4, <2>6, <2>7 DEF WritesInv
<1>7. ASSUME NEW q \in Writers \ {p} PROVE CallInv(q)'
  <2>0. CallInv(q) /\ Still(q) OBVIOUS
  <2>1. WritesInv(q)'
    <3>1. \A n : Known(q, n)' = Known(q, n) BY DEF Known
    <3>2. \A s : Made(q, s)' = Made(q, s) BY <2>0 DEF Made, Still
    <3>. QED BY <2>0, <3>1, <3>2 DEF CallInv, WritesInv, Still, Visible
  <2>2. StageInv(q)' BY <2>0, StageKept DEF CallInv
  <2>3. GoneInv(q)'
    <3>1. SUFFICES ASSUME tx[q].op = "delete", tx[q].pc = "commit", EventsIn(rem[q]) # {}
                   PROVE  Gone(q)'
      BY <2>0 DEF GoneInv, Still
    <3>2. Gone(q) BY <2>0, <3>1 DEF CallInv, GoneInv
    <3>3. Settled(tx[q].sid)
      BY <2>0, <3>1 DEF CallInv, StageInv, IdleInv, CreateInv, AppendInv, DeleteInv, EventsIn
    <3>4. \A s \in SessionsIn(add[p]) : s.id # tx[q].sid BY <3>2 DEF Gone
    <3>5. ASSUME NEW s \in SessionsIn(ins) PROVE s.id # tx[q].sid
      <4>1. CASE s.id = tx[p].at BY <4>1, <3>3 DEF Settled
      <4>2. CASE \E r \in SessionsIn(del) \cap db : r.id = s.id /\ r.name = s.name
        <5>1. PICK r \in SessionsIn(del) \cap db : r.id = s.id BY <4>2
        <5>2. RowKey(r) \notin Held(q) BY <5>1 DEF SessionsIn
        <5>3. r \notin rem[q] BY <5>2 DEF Held
        <5>4. r \in SessionsIn(db) BY <5>1 DEF SessionsIn
        <5>. QED BY <5>1, <5>3, <5>4, <3>2 DEF Gone
      <4>. QED BY <4>1, <4>2
    <3>6. \A s \in SessionsIn(add'[p]) : s.id # tx[q].sid
      BY <3>4, <3>5 DEF SessionsIn
    <3>7. \A r \in Writers : \A s \in SessionsIn(add'[r]) : s.id # tx[q].sid
      BY <3>2, <3>6 DEF Gone, Still
    <3>. QED BY <2>0, <3>2, <3>7 DEF Gone, Still
  <2>. QED BY <2>1, <2>2, <2>3 DEF CallInv
<1>8. CallInv(p)' BY <1>6 DEF CallInv
<1>. QED BY <1>1, <1>2, <1>5, <1>7, <1>8 DEF StoreInv

\* A statement that writes nothing only moves its call on.
LEMMA SilentKeeps ==
    ASSUME StoreInv, NEW p \in Writers, NEW next,
           Statement(p, {}, {}, next), UNCHANGED serial,
           next.at = tx[p].at, DOMAIN next = Fields, StageInv(p)', GoneInv(p)'
    PROVE  StoreInv'
<1>1. Unique({}) BY DEF Unique
<1>2. SessionsIn({}) = {} BY DEF SessionsIn
<1>. QED BY <1>1, <1>2, StatementKeeps

\* The number of an open call is in no row but those it wrote.
LEMMA Fresh ==
    ASSUME StoreInv, NEW p \in Writers, Open(p)
    PROVE  /\ \A r \in db : RowOK(r) /\ tx[p].at \notin Numbers(r)
           /\ \A q \in Writers \ {p} : \A r \in add[q] \cup rem[q] :
                RowOK(r) /\ tx[p].at \notin Numbers(r)
<1>1. \A n : Settled(n) => n # tx[p].at BY DEF Settled
<1>2. \A r \in db : RowOK(r) /\ tx[p].at \notin Numbers(r)
  BY <1>1 DEF StoreInv, TablesInv
<1>3. ASSUME NEW q \in Writers \ {p}, NEW r \in add[q] \cup rem[q]
      PROVE  RowOK(r) /\ tx[p].at \notin Numbers(r)
  <2>1. tx[q].at # tx[p].at BY DEF StoreInv, LocksInv
  <2>2. WritesInv(q) BY DEF StoreInv, CallInv
  <2>. QED BY <1>1, <1>2, <2>1, <2>2 DEF WritesInv, Known
<1>. QED BY <1>2, <1>3

\* What a caller sees are rows it may point to.
LEMMA SeenRows ==
    ASSUME StoreInv, NEW p \in Writers
    PROVE  \A r \in Visible(p) : RowOK(r) /\ \A n \in Numbers(r) : Known(p, n)
BY DEF StoreInv, TablesInv, CallInv, WritesInv, Visible, Known

LEMMA GotoFields ==
    ASSUME StoreInv, NEW p \in Writers, NEW pc
    PROVE  /\ DOMAIN Goto(p, pc) = Fields /\ Goto(p, pc).pc = pc
           /\ Goto(p, pc).op = tx[p].op /\ Goto(p, pc).at = tx[p].at
           /\ Goto(p, pc).sid = tx[p].sid /\ Goto(p, pc).adk = tx[p].adk
           /\ Goto(p, pc).seq = tx[p].seq /\ Goto(p, pc).name = tx[p].name
<1>. DOMAIN tx[p] = Fields BY DEF StoreInv, LocksInv
<1>. QED BY DEF Goto, Fields

LEMMA CreateKeeps ==
    ASSUME StoreInv, NEW p \in Writers, create_session(p), UNCHANGED serial
    PROVE  StoreInv'
<1>. DEFINE row == SessionRow(tx[p].at, tx[p].name, tx[p].at)
            states == stateDocument(tx[p].at, tx[p].at)
            ins == {row} \cup states
            next == Goto(p, "commit")
<1>1. /\ Statement(p, {}, ins, next) /\ Free(p, {row})
      /\ \A r \in SessionsIn(Visible(p)) : r.name # tx[p].name
      /\ tx[p].op = "create" /\ tx[p].pc = "insert"
  BY DEF create_session, NewSession
<1>2. Open(p) /\ add[p] = {} /\ rem[p] = {}
  BY <1>1 DEF StoreInv, CallInv, StageInv, CreateInv
<1>3. row.tab = "session" /\ row.name = tx[p].name /\ row.id = tx[p].at /\ RowOK(row)
  BY DEF SessionRow, RowOK, Tabs
<1>4. \A r \in states : /\ r.tab = "state" /\ r.sid = tx[p].at /\ RowOK(r)
                        /\ r = StateRow(tx[p].at, r.scope, tx[p].at)
  BY DEF stateDocument, StateRow, RowOK, Tabs
<1>5. \A r \in ins : RowOK(r) /\ r.tab \in Tabs /\ \A n \in Numbers(r) : Known(p, n)
  BY <1>3, <1>4 DEF Numbers, Known, RowOK
<1>6. Unique(ins)
  <2>. SUFFICES ASSUME NEW r \in ins, NEW s \in ins, RowKey(r) = RowKey(s) PROVE r = s
    BY DEF Unique
  <2>1. r.tab = s.tab /\ (r.tab = "state" => r.scope = s.scope) BY <1>5, KeyFacts
  <2>. QED BY <2>1, <1>3, <1>4
<1>7. ASSUME NEW i \in ins, NEW r \in Visible(p), RowKey(i) = RowKey(r) PROVE FALSE
  <2>1. r \in db /\ RowOK(r) /\ tx[p].at \notin Numbers(r) BY <1>2, Fresh DEF Visible
  <2>2. /\ i.tab = r.tab
        /\ i.tab = "session" => i.name = r.name
        /\ i.tab = "state" => i.sid = r.sid
    BY <1>5, <1>7, <2>1, KeyFacts DEF RowOK
  <2>3. CASE i = row BY <2>2, <2>3, <1>1, <1>3 DEF SessionsIn
  <2>4. CASE i \in states BY <2>1, <2>2, <2>4, <1>4 DEF Numbers
  <2>. QED BY <2>3, <2>4
<1>8. ASSUME NEW i \in ins, NEW q \in Writers \ {p} PROVE RowKey(i) \notin Held(q)
  <2>1. CASE i = row BY <2>1, <1>1 DEF Free
  <2>2. CASE i \in states
    <3>. SUFFICES ASSUME NEW r \in add[q] \cup rem[q], RowKey(i) = RowKey(r) PROVE FALSE
      BY DEF Held
    <3>1. RowOK(r) /\ tx[p].at \notin Numbers(r) BY <1>2, Fresh
    <3>2. r.tab = "state" /\ i.sid = r.sid
      BY <1>5, <1>4, <2>2, <3>1, KeyFacts DEF RowOK
    <3>. QED BY <3>1, <3>2, <2>2, <1>4 DEF Numbers
  <2>. QED BY <2>1, <2>2
<1>9. \A s \in SessionsIn(ins) : s.id = tx[p].at BY <1>3, <1>4 DEF SessionsIn
<1>10. DOMAIN next = Fields /\ next.at = tx[p].at /\ next.op = "create" /\ next.pc = "commit"
  BY <1>1, GotoFields
<1>11. StageInv(p)' /\ GoneInv(p)'
  <2>1. LocksInv BY DEF StoreInv
  <2>2. tx'[p] = next /\ add'[p] = ins /\ rem'[p] = {}
    BY <1>1, <1>2, <1>10, <2>1, StatementFacts
  <2>3. EventsIn(ins) = {} /\ ChildrenIn(ins) = {} BY <1>3, <1>4 DEF EventsIn, ChildrenIn
  <2>4. CreateInv(p)' BY <1>2, <1>10, <2>2, <2>3 DEF CreateInv, Open
  <2>. QED BY <1>10, <2>2, <2>4 DEF StageInv, GoneInv
<1>. HIDE DEF ins, next
<1>. QED BY <1>1, <1>5, <1>6, <1>7, <1>8, <1>9, <1>10, <1>11, StatementKeeps

\* SessionRef and append_max, and the appends that have nothing to write.
LEMMA AppendMovesOn ==
    ASSUME StoreInv, NEW p \in Writers, NEW next,
           tx[p].op = "append", tx[p].pc \in {"ref", "max", "insert"},
           Statement(p, {}, {}, next), UNCHANGED serial, DOMAIN next = Fields,
           next.op = "append", next.at = tx[p].at, next.pc \in {"max", "insert", "commit"},
           Settled(next.sid)
    PROVE  StoreInv'
<1>1. Open(p) /\ add[p] = {} /\ rem[p] = {}
  BY DEF StoreInv, CallInv, StageInv, AppendInv, Clean
<1>2. LocksInv BY DEF StoreInv
<1>3. tx'[p] = next /\ add'[p] = {} /\ rem'[p] = {} /\ Settled(next.sid)'
  BY <1>1, <1>2, StatementFacts
<1>4. EventsIn({}) = {} /\ ChildrenIn({}) = {} BY DEF EventsIn, ChildrenIn
<1>5. Settled(tx[p].sid)' BY <1>3 DEF Settled
<1>6. AppendInv(p)' BY <1>1, <1>3, <1>4, <1>5 DEF AppendInv, Open, Clean
<1>7. StageInv(p)' /\ GoneInv(p)' BY <1>3, <1>6 DEF StageInv, GoneInv
<1>. QED BY <1>7, SilentKeeps

LEMMA RefKeeps ==
    ASSUME StoreInv, NEW p \in Writers, SessionRef(p), UNCHANGED serial
    PROVE  StoreInv'
<1>1. PICK r \in SessionsIn(Visible(p)) :
        Statement(p, {}, {}, [tx[p] EXCEPT !.pc = "max", !.sid = r.id])
  BY DEF SessionRef
<1>2. tx[p].op = "append" /\ tx[p].pc = "ref" BY DEF SessionRef
<1>3. rem[p] = {} /\ add[p] = {} BY <1>2 DEF StoreInv, CallInv, StageInv, AppendInv, Clean
<1>4. r \in db /\ r.tab = "session" BY <1>3 DEF SessionsIn, Visible
<1>5. Settled(r.id) BY <1>4 DEF StoreInv, TablesInv, Numbers
<1>. DEFINE next == [tx[p] EXCEPT !.pc = "max", !.sid = r.id]
<1>6. DOMAIN tx[p] = Fields BY DEF StoreInv, LocksInv
<1>7. /\ DOMAIN next = Fields /\ next.op = tx[p].op /\ next.at = tx[p].at
      /\ next.pc = "max" /\ next.sid = r.id
  BY <1>6 DEF Fields
<1>. HIDE DEF next
<1>. QED BY <1>1, <1>2, <1>5, <1>7, AppendMovesOn DEF next

LEMMA MaxKeeps ==
    ASSUME StoreInv, NEW p \in Writers, append_max(p), UNCHANGED serial
    PROVE  StoreInv'
<1>. DEFINE next == [tx[p] EXCEPT !.pc = "insert", !.seq = NextSequence(Visible(p), tx[p].sid)]
<1>1. tx[p].op = "append" /\ tx[p].pc = "max" /\ Statement(p, {}, {}, next)
  BY DEF append_max
<1>2. Settled(tx[p].sid) BY <1>1 DEF StoreInv, CallInv, StageInv, AppendInv
<1>3. DOMAIN tx[p] = Fields BY DEF StoreInv, LocksInv
<1>4. /\ DOMAIN next = Fields /\ next.op = tx[p].op /\ next.at = tx[p].at
      /\ next.pc = "insert" /\ next.sid = tx[p].sid
  BY <1>3 DEF Fields
<1>. HIDE DEF next
<1>. QED BY <1>1, <1>2, <1>4, AppendMovesOn

LEMMA InsertKeeps ==
    ASSUME StoreInv, NEW p \in Writers, append_insert(p), UNCHANGED serial
    PROVE  StoreInv'
<1>. DEFINE row == EventRow(tx[p].at, tx[p].sid, tx[p].adk, tx[p].seq)
            next == Goto(p, "children")
<1>1. /\ tx[p].op = "append" /\ tx[p].pc = "insert" /\ Free(p, {row})
      /\ IF Stored(p) = {} THEN Statement(p, {}, {row}, next)
         ELSE Statement(p, {}, {}, Goto(p, "commit"))
  BY DEF append_insert, NewEvent
<1>2. Open(p) /\ add[p] = {} /\ rem[p] = {} /\ Settled(tx[p].sid) /\ LocksInv
  BY <1>1 DEF StoreInv, CallInv, StageInv, AppendInv, Clean
<1>3. CASE Stored(p) # {}
  <2>1. Statement(p, {}, {}, Goto(p, "commit")) BY <1>1, <1>3
  <2>. QED BY <1>1, <1>2, <2>1, GotoFields, AppendMovesOn
<1>4. CASE Stored(p) = {}
  <2>1. Statement(p, {}, {row}, next) BY <1>1, <1>4
  <2>2. /\ row.tab = "event" /\ row.id = tx[p].at /\ row.sid = tx[p].sid
        /\ row.adk = tx[p].adk /\ RowOK(row) /\ row.tab \in Tabs
    BY DEF EventRow, RowOK, Tabs
  <2>3. \A n \in Numbers(row) : Known(p, n) BY <1>2, <2>2 DEF Numbers, Known
  <2>4. Unique({row}) BY DEF Unique
  <2>5. ASSUME NEW r \in Visible(p), RowKey(row) = RowKey(r) PROVE FALSE
    <3>1. RowOK(r) BY SeenRows
    <3>2. r.tab = "event" /\ r.sid = tx[p].sid /\ r.adk = tx[p].adk
      BY <2>2, <2>5, <3>1, KeyFacts DEF RowOK
    <3>. QED BY <1>4, <3>2 DEF Stored, EventsOf, EventsIn
  <2>6. \A q \in Writers \ {p} : RowKey(row) \notin Held(q) BY <1>1 DEF Free
  <2>7. SessionsIn({row}) = {} BY <2>2 DEF SessionsIn
  <2>8. /\ DOMAIN next = Fields /\ next.at = tx[p].at /\ next.op = "append"
        /\ next.pc = "children" /\ next.sid = tx[p].sid /\ next.adk = tx[p].adk
        /\ next.seq = tx[p].seq
    BY <1>1, GotoFields
  <2>9. StageInv(p)' /\ GoneInv(p)'
    <3>1. tx'[p] = next /\ add'[p] = {row} /\ rem'[p] = {} /\ Settled(tx[p].sid)'
      BY <1>2, <2>1, <2>8, StatementFacts DEF Settled
    <3>2. NewEvent(p)' = row BY <2>8, <3>1 DEF NewEvent
    <3>3. EventsIn({}) = {} /\ ChildrenIn({}) = {} BY DEF EventsIn, ChildrenIn
    <3>4. AppendInv(p)' BY <1>2, <2>8, <3>1, <3>2, <3>3 DEF AppendInv, Open
    <3>. QED BY <2>8, <3>1, <3>4 DEF StageInv, GoneInv
  <2>. HIDE DEF row, next
  <2>. QED BY <2>1, <2>2, <2>3, <2>4, <2>5, <2>6, <2>7, <2>8, <2>9, StatementKeeps
<1>. QED BY <1>3, <1>4

LEMMA ChildrenKeeps ==
    ASSUME StoreInv, NEW p \in Writers, append_children(p), UNCHANGED serial
    PROVE  StoreInv'
<1>. DEFINE new == {StateRow(tx[p].sid, s, tx[p].at) : s \in Persisted({Delta[tx[p].adk]})}
            old == {r \in StateOf(Visible(p), tx[p].sid) : \E n \in new : RowKey(n) = RowKey(r)}
            child == ChildRows(tx[p].at, tx[p].at)
            ins == new \cup {child}
            next == Goto(p, "touch")
<1>1. tx[p].op = "append" /\ tx[p].pc = "children" /\ Free(p, new)
  BY DEF append_children, NewState
<1>2. PICK ev \in Stored(p) : Statement(p, old, new \cup {ChildRows(ev.id, tx[p].at)}, next)
  BY DEF append_children, NewState
<1>3. /\ Open(p) /\ add[p] = {NewEvent(p)} /\ Settled(tx[p].sid) /\ LocksInv
      /\ EventsIn(rem[p]) = {} /\ ChildrenIn(rem[p]) = {}
  BY <1>1 DEF StoreInv, CallInv, StageInv, AppendInv
<1>4. /\ NewEvent(p).tab = "event" /\ NewEvent(p).id = tx[p].at
      /\ NewEvent(p).sid = tx[p].sid /\ NewEvent(p).adk = tx[p].adk
  BY DEF NewEvent, EventRow
<1>5. ev.id = tx[p].at
  <2>1. ev \in Visible(p) /\ ev.tab = "event" /\ ev.sid = tx[p].sid /\ ev.adk = tx[p].adk
    BY DEF Stored, EventsOf, EventsIn
  <2>2. RowKey(ev) = RowKey(NewEvent(p)) BY <2>1, <1>4, KeyFacts DEF Tabs
  <2>3. NewEvent(p) \in Visible(p) BY <1>3 DEF Visible
  <2>4. Unique(Visible(p)) BY DEF StoreInv, CallInv, WritesInv
  <2>. QED BY <2>1, <2>2, <2>3, <2>4, <1>4 DEF Unique
<1>6. Statement(p, old, ins, next) BY <1>2, <1>5
<1>7. \A r \in new : r.tab = "state" /\ r.sid = tx[p].sid /\ r = StateRow(tx[p].sid, r.scope, tx[p].at)
  BY DEF StateRow
<1>8. child.tab = "child" /\ child.ev = tx[p].at /\ child.by = tx[p].at BY DEF ChildRows
<1>9. \A r \in ins : RowOK(r) /\ r.tab \in Tabs /\ \A n \in Numbers(r) : Known(p, n)
  BY <1>3, <1>7, <1>8 DEF RowOK, Tabs, Numbers, Known
<1>10. \A r \in old : r \in Visible(p) /\ r.tab = "state" /\ r.sid = tx[p].sid
  BY DEF StateOf, StateIn
<1>11. Unique(ins)
  <2>. SUFFICES ASSUME NEW r \in ins, NEW s \in ins, RowKey(r) = RowKey(s) PROVE r = s
    BY DEF Unique
  <2>1. r.tab = s.tab /\ (r.tab = "state" => r.scope = s.scope) BY <1>9, KeyFacts
  <2>. QED BY <2>1, <1>7, <1>8
<1>12. ASSUME NEW i \in ins, NEW r \in Visible(p), RowKey(i) = RowKey(r) PROVE r \in old
  <2>1. RowOK(r) BY SeenRows
  <2>2. /\ i.tab = r.tab
        /\ i.tab = "state" => i.sid = r.sid
        /\ i.tab = "child" => i.by = r.by
    BY <1>9, <1>12, <2>1, KeyFacts DEF RowOK
  <2>3. CASE i = child
    <3>1. r \in db BY <1>3, <1>4, <1>8, <2>2, <2>3 DEF Visible
    <3>2. tx[p].at \notin Numbers(r) BY <1>3, <3>1, Fresh
    <3>. QED BY <1>8, <2>2, <2>3, <3>2 DEF Numbers
  <2>4. CASE i \in new
    <3>1. r \in StateOf(Visible(p), tx[p].sid)
      BY <1>7, <2>2, <2>4 DEF StateOf, StateIn
    <3>. QED BY <3>1, <2>4, <1>12
  <2>. QED BY <2>3, <2>4
<1>13. ASSUME NEW r \in old \cup ins, NEW q \in Writers \ {p} PROVE RowKey(r) \notin Held(q)
  <2>1. \A n \in new : RowKey(n) \notin Held(q) BY <1>1 DEF Free
  <2>2. CASE r \in old \cup new BY <2>1, <2>2
  <2>3. CASE r = child
    <3>. SUFFICES ASSUME NEW s \in add[q] \cup rem[q], RowKey(child) = RowKey(s) PROVE FALSE
      BY <2>3 DEF Held
    <3>1. RowOK(s) /\ tx[p].at \notin Numbers(s) BY <1>3, Fresh
    <3>2. s.tab = "child" /\ s.by = tx[p].at
      BY <1>8, <1>9, <3>1, KeyFacts DEF RowOK
    <3>. QED BY <3>1, <3>2 DEF Numbers
  <2>. QED BY <2>2, <2>3
<1>14. SessionsIn(ins) = {} BY <1>7, <1>8 DEF SessionsIn
<1>15. /\ DOMAIN next = Fields /\ next.at = tx[p].at /\ next.op = "append"
       /\ next.pc = "touch" /\ next.sid = tx[p].sid /\ next.adk = tx[p].adk
       /\ next.seq = tx[p].seq
  BY <1>1, GotoFields
<1>16. StageInv(p)' /\ GoneInv(p)'
  <2>1. /\ tx'[p] = next /\ add'[p] = ({NewEvent(p)} \ old) \cup ins
        /\ rem'[p] = rem[p] \cup (old \cap db) /\ Settled(tx[p].sid)'
    <3>. HIDE DEF old, ins, next
    <3>1. /\ tx'[p] = next /\ add'[p] = (add[p] \ old) \cup ins
          /\ rem'[p] = rem[p] \cup (old \cap db) /\ \A n : Settled(n)' = Settled(n)
      BY <1>3, <1>6, <1>15, StatementFacts
    <3>2. tx'[p].sid = tx[p].sid BY <3>1, <1>15
    <3>3. Settled(tx[p].sid)' BY <3>1, <3>2, <1>3 DEF Settled
    <3>. QED BY <3>1, <3>3, <1>3
  <2>2. NewEvent(p)' = NewEvent(p) BY <1>15, <2>1 DEF NewEvent
  <2>3. NewEvent(p) \notin old BY <1>4, <1>10
  <2>4. EventsIn(add'[p]) = {NewEvent(p)} BY <2>1, <2>3, <1>4, <1>7, <1>8 DEF EventsIn
  <2>5. ChildrenIn(add'[p]) = {child} BY <2>1, <1>4, <1>7, <1>8 DEF ChildrenIn
  <2>6. SessionsIn(add'[p]) = {} BY <2>1, <1>4, <1>7, <1>8 DEF SessionsIn
  <2>7. EventsIn(rem'[p]) = {} /\ ChildrenIn(rem'[p]) = {}
    BY <1>3, <1>10, <2>1 DEF EventsIn, ChildrenIn
  <2>8. AppendInv(p)'
    BY <1>3, <1>15, <2>1, <2>2, <2>4, <2>5, <2>6, <2>7 DEF AppendInv, Open, Wrote
  <2>. QED BY <1>15, <2>1, <2>8 DEF StageInv, GoneInv
<1>. HIDE DEF old, ins, next
<1>. QED BY <1>6, <1>9, <1>10, <1>11, <1>12, <1>13, <1>14, <1>15, <1>16, StatementKeeps

LEMMA TouchKeeps ==
    ASSUME StoreInv, NEW p \in Writers, append_touch(p), UNCHANGED serial
    PROVE  StoreInv'
<1>. DEFINE old == {r \in SessionsIn(Visible(p)) : r.id = tx[p].sid}
            Touched(r) == SessionRow(r.id, r.name, tx[p].at)
            ins == {Touched(r) : r \in old}
            next == Goto(p, "commit")
<1>1. /\ tx[p].op = "append" /\ tx[p].pc = "touch" /\ Free(p, old)
      /\ Statement(p, old, {[r EXCEPT !.upd = tx[p].at] : r \in old}, next)
  BY DEF append_touch, ItsSession
<1>2. /\ Open(p) /\ Wrote(p) /\ SessionsIn(add[p]) = {} /\ LocksInv
      /\ Settled(tx[p].sid) /\ EventsIn(rem[p]) = {} /\ ChildrenIn(rem[p]) = {}
  BY <1>1 DEF StoreInv, CallInv, StageInv, AppendInv
<1>3. \A r \in old : /\ r \in Visible(p) /\ r \in db /\ r.tab = "session" /\ r.id = tx[p].sid
                     /\ RowOK(r) /\ r.tab \in Tabs
  BY <1>2, SeenRows DEF Visible, SessionsIn, Tabs
<1>4. \A r \in old : [r EXCEPT !.upd = tx[p].at] = Touched(r)
  BY <1>3 DEF RowOK, SessionRow
<1>5. Statement(p, old, ins, next)
  <2>1. {[r EXCEPT !.upd = tx[p].at] : r \in old} = ins BY <1>4
  <2>. QED BY <1>1, <2>1
<1>6. \A r : /\ Touched(r).tab = "session" /\ Touched(r).id = r.id /\ Touched(r).name = r.name
             /\ RowOK(Touched(r)) /\ Touched(r).tab \in Tabs
  BY DEF SessionRow, RowOK, Tabs
<1>7. \A r \in old : RowKey(Touched(r)) = RowKey(r)
  BY <1>3, <1>6, KeyFacts
<1>8. \A i \in ins : RowOK(i) /\ \A n \in Numbers(i) : Known(p, n)
  BY <1>2, <1>3, <1>6 DEF Numbers, Known
<1>9. Unique(Visible(p)) BY DEF StoreInv, CallInv, WritesInv
<1>10. Unique(ins) BY <1>3, <1>7, <1>9 DEF Unique
<1>11. \A i \in ins, r \in Visible(p) : RowKey(i) = RowKey(r) => r \in old
  BY <1>3, <1>7, <1>9 DEF Unique
<1>12. \A r \in old \cup ins, q \in Writers \ {p} : RowKey(r) \notin Held(q)
  BY <1>1, <1>7 DEF Free
<1>13. \A s \in SessionsIn(ins) : \E r \in SessionsIn(old) \cap db : r.id = s.id /\ r.name = s.name
  BY <1>3, <1>6 DEF SessionsIn
<1>14. /\ DOMAIN next = Fields /\ next.at = tx[p].at /\ next.op = "append"
       /\ next.pc = "commit" /\ next.sid = tx[p].sid /\ next.adk = tx[p].adk
       /\ next.seq = tx[p].seq
  BY <1>1, GotoFields
<1>15. old \subseteq Visible(p) BY <1>3
<1>16. (\A r \in old : r.tab = "session") /\ (\A i \in ins : i.tab = "session")
  BY <1>3, <1>6
<1>. HIDE DEF old, ins, next
<1>17. StageInv(p)' /\ GoneInv(p)'
  <2>1. /\ tx'[p] = next /\ add'[p] = (add[p] \ old) \cup ins
        /\ rem'[p] = rem[p] \cup (old \cap db) /\ \A n : Settled(n)' = Settled(n)
    BY <1>2, <1>5, <1>14, StatementFacts
  <2>2. tx'[p].sid = tx[p].sid BY <2>1, <1>14
  <2>3. Settled(tx[p].sid)' BY <2>1, <2>2, <1>2 DEF Settled
  <2>4. NewEvent(p)' = NewEvent(p) BY <1>14, <2>1 DEF NewEvent
  <2>5. EventsIn(add'[p]) = EventsIn(add[p]) BY <2>1, <1>16 DEF EventsIn
  <2>6. ChildrenIn(add'[p]) = ChildrenIn(add[p]) BY <2>1, <1>16 DEF ChildrenIn
  <2>7. EventsIn(rem'[p]) = {} /\ ChildrenIn(rem'[p]) = {}
    BY <1>2, <1>16, <2>1 DEF EventsIn, ChildrenIn
  <2>8. Wrote(p)' BY <1>2, <1>14, <2>1, <2>4, <2>5, <2>6 DEF Wrote
  <2>9. AppendInv(p)' BY <1>2, <1>14, <2>1, <2>3, <2>7, <2>8 DEF AppendInv, Open
  <2>. QED BY <1>14, <2>1, <2>9 DEF StageInv, GoneInv
<1>. QED BY <1>5, <1>8, <1>10, <1>11, <1>12, <1>13, <1>14, <1>15, <1>17, StatementKeeps

-----------------------------------------------------------------------------
(* delete_session.                                                         *)

LEMMA FindKeeps ==
    ASSUME StoreInv, NEW p \in Writers, delete_find(p), UNCHANGED serial
    PROVE  StoreInv'
<1>1. tx[p].op = "delete" /\ tx[p].pc = "find" BY DEF delete_find
<1>2. Open(p) /\ add[p] = {} /\ rem[p] = {} /\ LocksInv
  BY <1>1 DEF StoreInv, CallInv, StageInv, DeleteInv
<1>3. EventsIn({}) = {} /\ ChildrenIn({}) = {} BY DEF EventsIn, ChildrenIn
<1>4. ASSUME NEW next, Statement(p, {}, {}, next), DOMAIN next = Fields,
             next.op = "delete", next.at = tx[p].at,
             next.pc = "commit" \/ (next.pc = "children" /\ Settled(next.sid))
      PROVE  StoreInv'
  <2>1. /\ tx'[p] = next /\ add'[p] = (add[p] \ {}) \cup {}
        /\ rem'[p] = rem[p] \cup ({} \cap db) /\ \A n : Settled(n)' = Settled(n)
    BY <1>2, <1>4, StatementFacts
  <2>2. add'[p] = {} /\ rem'[p] = {} BY <1>2, <2>1
  <2>3. Settled(next.sid) => Settled(tx[p].sid)' BY <2>1 DEF Settled
  <2>4. DeleteInv(p)' BY <1>2, <1>3, <1>4, <2>1, <2>2, <2>3 DEF DeleteInv, Open
  <2>5. StageInv(p)' /\ GoneInv(p)' BY <1>3, <1>4, <2>1, <2>2, <2>4 DEF StageInv, GoneInv
  <2>. QED BY <1>4, <2>5, SilentKeeps
<1>5. CASE Statement(p, {}, {}, Goto(p, "commit"))
  <2>. DEFINE next == Goto(p, "commit")
  <2>1. /\ DOMAIN next = Fields /\ next.op = tx[p].op /\ next.at = tx[p].at
        /\ next.pc = "commit"
    BY GotoFields
  <2>2. Statement(p, {}, {}, next) BY <1>5
  <2>. HIDE DEF next
  <2>. QED BY <1>1, <1>4, <2>1, <2>2
<1>6. CASE \E r \in SessionsIn(Visible(p)) :
             Statement(p, {}, {}, [tx[p] EXCEPT !.pc = "children", !.sid = r.id])
  <2>1. PICK r \in SessionsIn(Visible(p)) :
          Statement(p, {}, {}, [tx[p] EXCEPT !.pc = "children", !.sid = r.id])
    BY <1>6
  <2>2. r \in db /\ r.tab = "session" BY <1>2 DEF SessionsIn, Visible
  <2>3. Settled(r.id) BY <2>2 DEF StoreInv, TablesInv, Numbers
  <2>. DEFINE next == [tx[p] EXCEPT !.pc = "children", !.sid = r.id]
  <2>4. DOMAIN tx[p] = Fields BY DEF StoreInv, LocksInv
  <2>5. /\ DOMAIN next = Fields /\ next.op = tx[p].op /\ next.at = tx[p].at
        /\ next.pc = "children" /\ next.sid = r.id
    BY <2>4 DEF Fields
  <2>6. Statement(p, {}, {}, next) BY <2>1
  <2>. HIDE DEF next
  <2>. QED BY <1>1, <1>4, <2>3, <2>5, <2>6
<1>. QED BY <1>5, <1>6 DEF delete_find

\* What the four DELETE statements have in common.
LEMMA DeleteRowsKeeps ==
    ASSUME StoreInv, NEW p \in Writers, NEW pc, NEW rows, NEW next,
           pc \in {"children", "events", "state", "session"},
           DeleteRows(p, pc, rows, next), UNCHANGED serial,
           next \in {"events", "state", "session", "commit"},
           rows \subseteq Visible(p),
           \A ev \in EventsIn(rows) : ev.sid = tx[p].sid,
           next = "events" => \A c \in ChildrenIn(rem[p] \cup rows) :
             \A ev \in EventsIn(db) : ev.id = c.ev => ev.sid = tx[p].sid,
           next # "events" => \A c \in ChildrenIn(rem[p] \cup rows) :
             \A ev \in EventsIn(db) : ev.id = c.ev => ev \in rem[p] \cup rows,
           next = "commit" =>
             /\ \A s \in SessionsIn(db) : s \in rem[p] \cup rows \/ s.id # tx[p].sid
             /\ \A q \in Writers : \A s \in SessionsIn(add[q]) : s.id # tx[p].sid
    PROVE  StoreInv'
<1>1. /\ tx[p].op = "delete" /\ tx[p].pc = pc /\ Free(p, rows)
      /\ Statement(p, rows, {}, Goto(p, next))
  BY DEF DeleteRows
<1>2. /\ Open(p) /\ add[p] = {} /\ Settled(tx[p].sid) /\ LocksInv
      /\ \A ev \in EventsIn(rem[p]) : ev.sid = tx[p].sid
  BY <1>1 DEF StoreInv, CallInv, StageInv, DeleteInv
<1>3. rows \subseteq db BY <1>2 DEF Visible
<1>. DEFINE to == Goto(p, next)
<1>4. /\ DOMAIN to = Fields /\ to.at = tx[p].at /\ to.op = "delete"
      /\ to.pc = next /\ to.sid = tx[p].sid
  BY <1>1, GotoFields
<1>5. Statement(p, rows, {}, to) BY <1>1
<1>. HIDE DEF to
<1>6. /\ tx'[p] = to /\ add'[p] = {} /\ rem'[p] = rem[p] \cup rows /\ db' = db
      /\ \A q \in Writers \ {p} : Still(q)
      /\ \A n : Settled(n)' = Settled(n)
  BY <1>2, <1>3, <1>4, <1>5, StatementFacts
<1>7. Settled(tx[p].sid)' BY <1>2, <1>4, <1>6 DEF Settled
<1>8. \A ev \in EventsIn(rem'[p]) : ev.sid = tx[p].sid
  BY <1>2, <1>6 DEF EventsIn
<1>9. DeleteInv(p)'
  <2>1. (Open(p) /\ tx[p].pc \in {"find", "children", "events", "state", "session", "commit"})'
    BY <1>2, <1>4, <1>6 DEF Open
  <2>2. (tx[p].pc = "events" => \A c \in ChildrenIn(rem[p]) :
           \A ev \in EventsIn(db) : ev.id = c.ev => ev.sid = tx[p].sid)'
    BY <1>4, <1>6
  <2>3. (tx[p].pc \in {"state", "session", "commit"} => \A c \in ChildrenIn(rem[p]) :
           \A ev \in EventsIn(db) : ev.id = c.ev => ev \in rem[p])'
    BY <1>4, <1>6
  <2>4. (\A ev \in EventsIn(rem[p]) : ev.sid = tx[p].sid)' BY <1>4, <1>6, <1>8
  <2>5. (add[p] = {} /\ (tx[p].pc \in {"find", "children"} => rem[p] = {}))'
    BY <1>4, <1>6
  <2>6. (tx[p].pc = "find" \/ Settled(tx[p].sid) \/ (tx[p].pc = "commit" /\ rem[p] = {}))'
    BY <1>7
  <2>. QED BY <2>1, <2>2, <2>3, <2>4, <2>5, <2>6 DEF DeleteInv
<1>10. GoneInv(p)'
  <2>. SUFFICES ASSUME next = "commit" PROVE Gone(p)'
    BY <1>4, <1>6 DEF GoneInv
  <2>1. \A q \in Writers : \A s \in SessionsIn(add'[q]) : s.id # tx[p].sid
    BY <1>6 DEF Still, SessionsIn
  <2>. QED BY <1>4, <1>6, <2>1 DEF Gone
<1>11. StageInv(p)' BY <1>4, <1>6, <1>9 DEF StageInv
<1>12. Unique({}) /\ SessionsIn({}) = {} BY DEF Unique, SessionsIn
<1>13. \A r \in rows, q \in Writers \ {p} : RowKey(r) \notin Held(q) BY <1>1 DEF Free
<1>. QED BY <1>4, <1>5, <1>10, <1>11, <1>12, <1>13, StatementKeeps

LEMMA DeleteStepsKeep ==
    ASSUME StoreInv, NEW p \in Writers, UNCHANGED serial,
           delete_children(p) \/ delete_events(p) \/ delete_state(p) \/ delete_row(p)
    PROVE  StoreInv'
<1>. DEFINE sid == tx[p].sid
<1>1. LocksInv /\ CallInv(p) /\ WritesInv(p) BY DEF StoreInv, CallInv
<1>2. \A a, b \in EventsIn(db) : a.id = b.id => a = b BY DEF StoreInv, TablesInv
<1>3. ASSUME delete_children(p) PROVE StoreInv'
  <2>. DEFINE rows == {r \in ChildrenIn(Visible(p)) :
                         \E ev \in EventsOf(Visible(p), sid) : ev.id = r.ev}
  <2>1. DeleteRows(p, "children", rows, "events") BY <1>3 DEF delete_children, DoomedChildren
  <2>2. tx[p].op = "delete" /\ tx[p].pc = "children" BY <2>1 DEF DeleteRows
  <2>3. add[p] = {} /\ rem[p] = {} BY <1>1, <2>2 DEF CallInv, StageInv, DeleteInv
  <2>4. Visible(p) = db BY <2>3 DEF Visible
  <2>5. rows \subseteq Visible(p) /\ EventsIn(rows) = {} BY DEF ChildrenIn, EventsIn
  <2>6. \A c \in ChildrenIn(rem[p] \cup rows) : \A ev \in EventsIn(db) :
          ev.id = c.ev => ev.sid = sid
    BY <1>2, <2>3, <2>4 DEF ChildrenIn, EventsOf, EventsIn
  <2>. HIDE DEF rows
  <2>. QED BY <2>1, <2>5, <2>6, DeleteRowsKeeps
<1>4. ASSUME delete_events(p) PROVE StoreInv'
  <2>. DEFINE rows == EventsOf(Visible(p), sid)
  <2>1. DeleteRows(p, "events", rows, "state") BY <1>4 DEF delete_events
  <2>2. tx[p].op = "delete" /\ tx[p].pc = "events" BY <2>1 DEF DeleteRows
  <2>3. /\ add[p] = {} /\ \A c \in ChildrenIn(rem[p]) :
             \A ev \in EventsIn(db) : ev.id = c.ev => ev.sid = sid
    BY <1>1, <2>2 DEF CallInv, StageInv, DeleteInv
  <2>4. rows \subseteq Visible(p) /\ (\A ev \in EventsIn(rows) : ev.sid = sid)
        /\ ChildrenIn(rows) = {}
    BY DEF ChildrenIn, EventsOf, EventsIn
  <2>5. \A ev \in EventsIn(db) : ev.sid = sid => ev \in rem[p] \cup rows
    BY DEF EventsOf, EventsIn, Visible
  <2>6. \A c \in ChildrenIn(rem[p] \cup rows) : c \in ChildrenIn(rem[p])
    BY <2>4 DEF ChildrenIn
  <2>7. \A c \in ChildrenIn(rem[p] \cup rows) : \A ev \in EventsIn(db) :
          ev.id = c.ev => ev \in rem[p] \cup rows
    BY <2>3, <2>5, <2>6
  <2>. HIDE DEF rows
  <2>. QED BY <2>1, <2>4, <2>7, DeleteRowsKeeps
<1>5. ASSUME NEW pc \in {"state", "session"}, NEW tab \in {"state", "session"},
             NEW rows, NEW next \in {"session", "commit"},
             DeleteRows(p, pc, rows, next), rows \subseteq Visible(p),
             \A r \in rows : r.tab = tab,
             next = "commit" =>
               /\ \A s \in SessionsIn(db) : s \in rem[p] \cup rows \/ s.id # sid
               /\ \A q \in Writers : \A s \in SessionsIn(add[q]) : s.id # sid
      PROVE  StoreInv'
  <2>1. tx[p].op = "delete" /\ tx[p].pc = pc BY <1>5 DEF DeleteRows
  <2>2. \A c \in ChildrenIn(rem[p]) : \A ev \in EventsIn(db) : ev.id = c.ev => ev \in rem[p]
    BY <1>1, <2>1 DEF CallInv, StageInv, DeleteInv
  <2>3. EventsIn(rows) = {} BY <1>5 DEF EventsIn
  <2>4. ChildrenIn(rem[p] \cup rows) \subseteq ChildrenIn(rem[p]) BY <1>5 DEF ChildrenIn
  <2>5. \A c \in ChildrenIn(rem[p] \cup rows) : \A ev \in EventsIn(db) :
          ev.id = c.ev => ev \in rem[p] \cup rows
    BY <2>2, <2>4
  <2>. QED BY <1>5, <2>3, <2>5, DeleteRowsKeeps
<1>6. ASSUME delete_state(p) PROVE StoreInv'
  <2>. DEFINE rows == StateOf(Visible(p), sid)
  <2>1. DeleteRows(p, "state", rows, "session") BY <1>6 DEF delete_state
  <2>2. rows \subseteq Visible(p) /\ \A r \in rows : r.tab = "state" BY DEF StateOf, StateIn
  <2>. HIDE DEF rows
  <2>. QED BY <2>1, <2>2, <1>5
<1>7. ASSUME delete_row(p) PROVE StoreInv'
  <2>. DEFINE rows == {r \in SessionsIn(Visible(p)) : r.id = sid}
  <2>1. DeleteRows(p, "session", rows, "commit") BY <1>7 DEF delete_row, ItsSession
  <2>2. rows \subseteq Visible(p) /\ \A r \in rows : r.tab = "session" BY DEF SessionsIn
  <2>3. tx[p].op = "delete" /\ tx[p].pc = "session" BY <2>1 DEF DeleteRows
  <2>4. add[p] = {} /\ Settled(sid)
    BY <1>1, <2>3 DEF CallInv, StageInv, DeleteInv
  <2>5. \A s \in SessionsIn(db) : s \in rem[p] \cup rows \/ s.id # sid
    BY DEF SessionsIn, Visible
  <2>6. \A r \in rows, q \in Writers \ {p} : RowKey(r) \notin Held(q)
    BY <2>1 DEF DeleteRows, Free
  <2>7. ASSUME NEW q \in Writers, NEW s \in SessionsIn(add[q]), s.id = sid PROVE FALSE
    <3>1. q # p BY <2>4 DEF SessionsIn
    <3>2. WritesInv(q) BY DEF StoreInv, CallInv
    <3>3. Made(q, s) BY <3>2 DEF WritesInv
    <3>4. s.id # tx[q].at BY <2>4, <2>7 DEF Settled
    <3>5. PICK r \in SessionsIn(rem[q]) : r.id = sid BY <2>7, <3>3, <3>4 DEF Made
    <3>6. r \in SessionsIn(db) BY <3>2 DEF WritesInv, SessionsIn
    <3>7. RowKey(r) \in Held(q) BY <3>5 DEF Held, SessionsIn
    <3>8. CASE r \in rem[p]
      <4>1. RowKey(r) \in Held(p) BY <3>8 DEF Held
      <4>2. Held(p) \cap Held(q) = {} BY <1>1, <3>1 DEF LocksInv
      <4>. QED BY <3>7, <4>1, <4>2
    <3>9. CASE r \in rows BY <2>6, <3>1, <3>7, <3>9
    <3>. QED BY <2>5, <3>5, <3>6, <3>8, <3>9
  <2>. HIDE DEF rows
  <2>. QED BY <2>1, <2>2, <2>5, <2>7, <1>5
<1>. QED BY <1>3, <1>4, <1>6, <1>7

-----------------------------------------------------------------------------
(* The begin of a call, its end, and the read path.                        *)

LEMMA BeginKeeps ==
    ASSUME StoreInv, NEW p \in Writers, NEW call, Begin(p, call), UNCHANGED serial,
           DOMAIN call = Fields,
           \/ call.op = "create" /\ call.pc = "insert"
           \/ call.op = "append" /\ call.pc = "ref"
           \/ call.op = "delete" /\ call.pc = "find"
    PROVE  StoreInv'
<1>. DEFINE next == [call EXCEPT !.at = clock + 1]
<1>1. /\ tx[p] = Idle /\ clock < MaxTx[serial] /\ clock' = clock + 1
      /\ tx' = [tx EXCEPT ![p] = next]
      /\ db' = db /\ add' = add /\ rem' = rem /\ serial' = serial
  BY DEF Begin
<1>2. TablesInv /\ ChildrenInv /\ LocksInv /\ \A q \in Writers : CallInv(q) BY DEF StoreInv
<1>3. DOMAIN next = Fields /\ next.op = call.op /\ next.pc = call.pc /\ next.at = clock + 1
  BY DEF Fields
<1>. HIDE DEF next
<1>4. clock \in Nat /\ MaxTx[serial] \in Nat BY <1>2, StoreAssumption DEF TablesInv
<1>5. DOMAIN tx' = Writers /\ tx'[p] = next /\ \A q \in Writers \ {p} : tx'[q] = tx[q]
  BY <1>1, <1>2 DEF LocksInv
<1>6. \A n : Settled(n) => Settled(n)'
  BY <1>1, <1>3, <1>4, <1>5 DEF Settled
<1>7. add[p] = {} /\ rem[p] = {}
  BY <1>1, <1>2, IdleFields DEF CallInv, StageInv, IdleInv, Clean
<1>8. TablesInv'
  <2>1. (serial \in BOOLEAN /\ clock \in 0..MaxTx[serial])'
    BY <1>1, <1>2, <1>4 DEF TablesInv
  <2>2. \A r \in db : RowOK(r) /\ \A n \in Numbers(r) : Settled(n)'
    BY <1>2, <1>6 DEF TablesInv
  <2>. QED BY <1>1, <1>2, <2>1, <2>2 DEF TablesInv
<1>9. ChildrenInv' BY <1>1, <1>2 DEF ChildrenInv, Ids
<1>10. \A q \in Writers : Held(q)' = Held(q) BY <1>1 DEF Held
<1>11. LocksInv'
  <2>1. \A q \in Writers : DOMAIN tx'[q] = Fields /\ tx'[q].at \in 0..clock'
    BY <1>1, <1>2, <1>3, <1>4, <1>5 DEF LocksInv
  <2>2. \A q \in Writers \ {p} : tx[q].at # clock + 1
    BY <1>2, <1>4 DEF LocksInv
  <2>3. ASSUME NEW q \in Writers, NEW r \in Writers, tx'[q].at # 0, tx'[q].at = tx'[r].at
        PROVE  q = r
    <3>1. CASE q = p \/ r = p BY <3>1, <2>2, <2>3, <1>3, <1>5
    <3>2. CASE q # p /\ r # p BY <3>2, <2>3, <1>2, <1>5 DEF LocksInv, Open
    <3>. QED BY <3>1, <3>2
  <2>4. DOMAIN add' = Writers /\ DOMAIN rem' = Writers BY <1>1, <1>2 DEF LocksInv
  <2>5. \A q, r \in Writers : q # r => Held(q)' \cap Held(r)' = {}
    BY <1>2, <1>10 DEF LocksInv
  <2>. QED BY <1>5, <2>1, <2>3, <2>4, <2>5 DEF LocksInv, Open
<1>12. ASSUME NEW q \in Writers \ {p} PROVE CallInv(q)'
  <2>1. Still(q) BY <1>1, <1>5 DEF Still
  <2>2. \A n : Known(q, n) => Known(q, n)' BY <1>5, <1>6 DEF Known
  <2>3. \A s : Made(q, s)' = Made(q, s) BY <1>1, <1>5 DEF Made
  <2>4. WritesInv(q)'
    BY <1>1, <1>2, <2>2, <2>3 DEF CallInv, WritesInv, Visible
  <2>5. StageInv(q)' BY <1>1, <1>2, <1>6, <2>1, StageKept DEF CallInv
  <2>6. GoneInv(q)' BY <1>1, <1>2, <1>5 DEF CallInv, GoneInv, Gone
  <2>. QED BY <2>4, <2>5, <2>6 DEF CallInv
<1>13. CallInv(p)'
  <2>1. WritesInv(p)'
    <3>1. Visible(p)' = db BY <1>1, <1>7 DEF Visible
    <3>. QED BY <1>1, <1>2, <1>7, <3>1 DEF WritesInv, TablesInv, SessionsIn
  <2>2. Open(p)' BY <1>3, <1>4, <1>5 DEF Open
  <2>3. EventsIn({}) = {} /\ ChildrenIn({}) = {} BY DEF EventsIn, ChildrenIn
  <2>4. add'[p] = {} /\ rem'[p] = {} BY <1>1, <1>7
  <2>5. StageInv(p)'
    <3>1. CASE next.op = "create" /\ next.pc = "insert"
      BY <3>1, <1>5, <2>2, <2>3, <2>4 DEF StageInv, CreateInv
    <3>2. CASE next.op = "append" /\ next.pc = "ref"
      BY <3>2, <1>5, <2>2, <2>3, <2>4 DEF StageInv, AppendInv, Clean
    <3>3. CASE next.op = "delete" /\ next.pc = "find"
      BY <3>3, <1>5, <2>2, <2>3, <2>4 DEF StageInv, DeleteInv
    <3>. QED BY <1>3, <3>1, <3>2, <3>3
  <2>6. GoneInv(p)' BY <2>3, <2>4 DEF GoneInv
  <2>. QED BY <2>1, <2>5, <2>6 DEF CallInv
<1>. QED BY <1>8, <1>9, <1>11, <1>12, <1>13 DEF StoreInv

\* A caller with no transaction open, now or after the step, which leaves the
\* tables alone: a rollback and the read path.
LEMMA NoTransactionKeeps ==
    ASSUME StoreInv, NEW p \in Writers, NEW next,
           tx' = [tx EXCEPT ![p] = next],
           DOMAIN add' = Writers, DOMAIN rem' = Writers, add'[p] = {}, rem'[p] = {},
           \A q \in Writers \ {p} : add'[q] = add[q] /\ rem'[q] = rem[q],
           db' = db, clock' = clock, UNCHANGED serial,
           DOMAIN next = Fields, next.at = 0, next.op \in {"none", "get"},
           next.pc \in {"idle", "shared", "loaded"}
    PROVE  StoreInv'
<1>1. TablesInv /\ ChildrenInv /\ LocksInv /\ \A q \in Writers : CallInv(q) BY DEF StoreInv
<1>2. /\ DOMAIN tx' = Writers /\ DOMAIN add' = Writers /\ DOMAIN rem' = Writers
      /\ tx'[p] = next /\ add'[p] = {} /\ rem'[p] = {}
      /\ \A q \in Writers \ {p} : Still(q)
  BY <1>1 DEF LocksInv, Still
<1>3. clock \in Nat BY <1>1, StoreAssumption DEF TablesInv
<1>4. \A n : Settled(n) => Settled(n)' BY <1>2, <1>3 DEF Settled, Still
<1>5. TablesInv'
  <2>1. \A r \in db : RowOK(r) /\ \A n \in Numbers(r) : Settled(n)'
    BY <1>1, <1>4 DEF TablesInv
  <2>. QED BY <1>1, <2>1 DEF TablesInv
<1>6. ChildrenInv' BY <1>1 DEF ChildrenInv, Ids
<1>7. Held(p)' = {} /\ \A q \in Writers \ {p} : Held(q)' = Held(q)
  BY <1>2 DEF Held, Still
<1>8. LocksInv'
  <2>1. \A q \in Writers : DOMAIN tx'[q] = Fields /\ tx'[q].at \in 0..clock
    BY <1>1, <1>2, <1>3 DEF LocksInv, Still
  <2>2. \A q, r \in Writers : tx'[q].at # 0 /\ tx'[q].at = tx'[r].at => q = r
    BY <1>1, <1>2 DEF LocksInv, Open, Still
  <2>3. \A q, r \in Writers : q # r => Held(q)' \cap Held(r)' = {}
    BY <1>1, <1>7 DEF LocksInv
  <2>. QED BY <1>2, <2>1, <2>2, <2>3 DEF LocksInv, Open
<1>9. ASSUME NEW q \in Writers \ {p} PROVE CallInv(q)'
  <2>1. Still(q) BY <1>2
  <2>2. \A n : Known(q, n) => Known(q, n)' BY <1>4, <2>1 DEF Known, Still
  <2>3. \A s : Made(q, s)' = Made(q, s) BY <2>1 DEF Made, Still
  <2>4. WritesInv(q)' BY <1>1, <2>1, <2>2, <2>3 DEF CallInv, WritesInv, Visible, Still
  <2>5. StageInv(q)' BY <1>1, <1>4, <2>1, StageKept DEF CallInv
  <2>6. GoneInv(q)'
    <3>1. \A r \in Writers : SessionsIn(add'[r]) \subseteq SessionsIn(add[r])
      BY <1>2 DEF SessionsIn, Still
    <3>. QED BY <1>1, <2>1, <3>1 DEF CallInv, GoneInv, Gone, Still
  <2>. QED BY <2>4, <2>5, <2>6 DEF CallInv
<1>10. CallInv(p)'
  <2>1. Visible(p)' = db BY <1>2 DEF Visible
  <2>2. WritesInv(p)' BY <1>1, <1>2, <2>1 DEF WritesInv, TablesInv, SessionsIn
  <2>3. StageInv(p)' BY <1>2 DEF StageInv, IdleInv, Clean
  <2>4. GoneInv(p)' BY <1>2 DEF GoneInv
  <2>. QED BY <2>2, <2>3, <2>4 DEF CallInv
<1>. QED BY <1>5, <1>6, <1>8, <1>9, <1>10 DEF StoreInv

LEMMA ReadsKeep ==
    ASSUME StoreInv, NEW p \in Writers, UNCHANGED serial,
           \/ \E n \in Names : Get(p, n)
           \/ GetShared(p) \/ Release(p) \/ Rollback(p)
    PROVE  StoreInv'
<1>1. /\ DOMAIN tx = Writers /\ DOMAIN add = Writers /\ DOMAIN rem = Writers
      /\ DOMAIN tx[p] = Fields
  BY DEF StoreInv, LocksInv
<1>2. StageInv(p) BY DEF StoreInv, CallInv
<1>3. ASSUME NEW n \in Names, Get(p, n) PROVE StoreInv'
  <2>. DEFINE next == [Idle EXCEPT !.op = "get", !.pc = "shared", !.name = n]
  <2>1. tx[p] = Idle /\ tx' = [tx EXCEPT ![p] = next] /\ UNCHANGED <<db, add, rem, clock>>
    BY <1>3 DEF Get
  <2>2. next.op = "get" /\ next.pc = "shared" /\ next.at = 0 /\ DOMAIN next = Fields
    BY IdleFields DEF Fields
  <2>3. add[p] = {} /\ rem[p] = {}
    BY <1>2, <2>1, IdleFields DEF StageInv, IdleInv, Clean
  <2>. HIDE DEF next
  <2>. QED BY <1>1, <2>1, <2>2, <2>3, NoTransactionKeeps
<1>4. ASSUME GetShared(p) PROVE StoreInv'
  <2>. DEFINE next == [tx[p] EXCEPT !.pc = "loaded"]
  <2>1. /\ tx[p].pc = "shared" /\ tx' = [tx EXCEPT ![p] = next]
        /\ UNCHANGED <<db, add, rem, clock>>
    BY <1>4 DEF GetShared
  <2>2. tx[p].op \in {"none", "get"} /\ tx[p].at = 0 /\ add[p] = {} /\ rem[p] = {}
    BY <1>2, <2>1 DEF StageInv, IdleInv, CreateInv, AppendInv, DeleteInv, Clean
  <2>3. next.op = tx[p].op /\ next.pc = "loaded" /\ next.at = 0 /\ DOMAIN next = Fields
    BY <1>1, <2>2 DEF Fields
  <2>. HIDE DEF next
  <2>. QED BY <1>1, <2>1, <2>2, <2>3, NoTransactionKeeps
<1>5. ASSUME Release(p) PROVE StoreInv'
  <2>1. /\ tx[p].op = "get" /\ tx' = [tx EXCEPT ![p] = Idle]
        /\ UNCHANGED <<db, add, rem, clock>>
    BY <1>5 DEF Release
  <2>2. add[p] = {} /\ rem[p] = {} BY <1>2, <2>1 DEF StageInv, IdleInv, Clean
  <2>. QED BY <1>1, <2>1, <2>2, IdleFields, NoTransactionKeeps
<1>6. ASSUME Rollback(p) PROVE StoreInv'
  <2>1. /\ tx' = [tx EXCEPT ![p] = Idle]
        /\ add' = [add EXCEPT ![p] = {}] /\ rem' = [rem EXCEPT ![p] = {}]
        /\ UNCHANGED <<db, clock>>
    BY <1>6 DEF Rollback, EndTx
  <2>2. /\ DOMAIN add' = Writers /\ DOMAIN rem' = Writers /\ add'[p] = {} /\ rem'[p] = {}
        /\ \A q \in Writers \ {p} : add'[q] = add[q] /\ rem'[q] = rem[q]
    BY <1>1, <2>1
  <2>. QED BY <2>1, <2>2, IdleFields, NoTransactionKeeps
<1>. QED BY <1>3, <1>4, <1>5, <1>6

\* What a transaction that commits has written and removed.
LEMMA CommitsWhat ==
    ASSUME StoreInv, NEW p \in Writers, tx[p].pc = "commit"
    PROVE  /\ Open(p)
           /\ \/ EventsIn(add[p]) = {} /\ ChildrenIn(add[p]) = {}
              \/ Wrote(p)
           /\ \A c \in ChildrenIn(rem[p]) :
                \A ev \in EventsIn(db) : ev.id = c.ev => ev \in rem[p]
<1>1. StageInv(p) BY DEF StoreInv, CallInv
<1>2. CASE tx[p].op \in {"none", "get"} BY <1>1, <1>2 DEF StageInv, IdleInv
<1>3. CASE tx[p].op = "create"
  BY <1>1, <1>3 DEF StageInv, CreateInv, ChildrenIn
<1>4. CASE tx[p].op = "append"
  BY <1>1, <1>4 DEF StageInv, AppendInv, Clean, ChildrenIn, EventsIn
<1>5. CASE tx[p].op = "delete"
  BY <1>1, <1>5 DEF StageInv, DeleteInv, ChildrenIn, EventsIn
<1>. QED BY <1>1, <1>2, <1>3, <1>4, <1>5 DEF StageInv

LEMMA CommitKeeps ==
    ASSUME StoreInv, NEW p \in Writers, Commit(p), UNCHANGED serial
    PROVE  StoreInv'
<1>1. TablesInv /\ ChildrenInv /\ LocksInv /\ \A q \in Writers : CallInv(q) BY DEF StoreInv
<1>2. /\ db' = Visible(p) /\ clock' = clock /\ serial' = serial /\ tx[p].pc = "commit"
      /\ tx' = [tx EXCEPT ![p] = Idle]
      /\ add' = [add EXCEPT ![p] = {}] /\ rem' = [rem EXCEPT ![p] = {}]
  BY DEF Commit, EndTx, Visible
<1>3. /\ DOMAIN tx' = Writers /\ DOMAIN add' = Writers /\ DOMAIN rem' = Writers
      /\ tx'[p] = Idle /\ add'[p] = {} /\ rem'[p] = {}
      /\ \A q \in Writers \ {p} : Still(q)
  BY <1>1, <1>2 DEF LocksInv, Still
<1>4. clock \in Nat BY <1>1, StoreAssumption DEF TablesInv
<1>5. /\ Open(p) /\ WritesInv(p)
      /\ (EventsIn(add[p]) = {} /\ ChildrenIn(add[p]) = {}) \/ Wrote(p)
      /\ \A c \in ChildrenIn(rem[p]) :
           \A ev \in EventsIn(db) : ev.id = c.ev => ev \in rem[p]
  BY <1>1, <1>2, CommitsWhat DEF CallInv
<1>6. \A n : Settled(n) => Settled(n)' BY <1>2, <1>3, <1>4, IdleFields DEF Settled, Still
<1>7. ASSUME NEW n, n = tx[p].at PROVE Settled(n)'
  <2>1. tx[p].at \in 1..clock BY <1>1, <1>4, <1>5 DEF LocksInv, Open
  <2>2. \A q \in Writers \ {p} : tx'[q].at # tx[p].at
    BY <1>1, <1>3, <1>5 DEF LocksInv, Still
  <2>3. tx'[p].at # tx[p].at BY <1>3, <1>5, IdleFields DEF Open
  <2>. QED BY <1>2, <1>7, <2>1, <2>2, <2>3 DEF Settled
<1>8. \A n : Known(p, n) => Settled(n)' BY <1>6, <1>7 DEF Known
<1>9. Wrote(p) => \A ev \in EventsIn(add[p]) : ev = NewEvent(p) /\ ev.id = tx[p].at
  BY DEF Wrote, NewEvent, EventRow
<1>10. \A ev \in EventsIn(db) : ev.id # tx[p].at
  BY <1>5, Fresh DEF EventsIn, Numbers
<1>11. \A c \in ChildrenIn(db) : c.ev # tx[p].at
  BY <1>5, Fresh DEF ChildrenIn, Numbers
<1>12. \A ev \in EventsIn(db') : ev \in EventsIn(db) \ rem[p] \/ ev \in EventsIn(add[p])
  BY <1>2 DEF EventsIn, Visible
<1>13. TablesInv'
  <2>1. (serial \in BOOLEAN /\ clock \in 0..MaxTx[serial])' BY <1>1, <1>2 DEF TablesInv
  <2>2. \A r \in db' : RowOK(r) /\ \A n \in Numbers(r) : Settled(n)'
    BY <1>2, <1>8, SeenRows
  <2>3. Unique(db') BY <1>2, <1>5 DEF WritesInv
  <2>4. ASSUME NEW a \in EventsIn(db'), NEW b \in EventsIn(db'), a.id = b.id PROVE a = b
    BY <1>1, <1>5, <1>9, <1>10, <1>12, <2>4 DEF TablesInv
  <2>. QED BY <2>1, <2>2, <2>3, <2>4 DEF TablesInv
<1>14. ChildrenInv'
  <2>. SUFFICES ASSUME NEW ev \in EventsIn(db')
                PROVE  \E by \in Ids : {c \in ChildrenIn(db') : c.ev = ev.id} = {ChildRows(ev.id, by)}
    BY <1>2 DEF ChildrenInv, Ids
  <2>1. \A c : c \in ChildrenIn(db') <=>
            c \in ChildrenIn(add[p]) \/ (c \in ChildrenIn(db) /\ c \notin rem[p])
    BY <1>2 DEF ChildrenIn, Visible
  <2>2. ChildRows(tx[p].at, tx[p].at).ev = tx[p].at BY DEF ChildRows
  <2>3. \A c \in ChildrenIn(add[p]) : c.ev = tx[p].at BY <1>5, <2>2 DEF Wrote
  <2>4. CASE ev \in EventsIn(add[p])
    <3>1. Wrote(p) /\ ev.id = tx[p].at BY <1>5, <1>9, <2>4
    <3>2. tx[p].at \in Ids
      BY <1>1, <1>4, <1>5, StoreAssumption DEF LocksInv, Open, Ids, TablesInv
    <3>3. {c \in ChildrenIn(db') : c.ev = ev.id} = {ChildRows(ev.id, tx[p].at)}
      BY <1>11, <2>1, <2>2, <3>1 DEF Wrote
    <3>. QED BY <3>2, <3>3
  <2>5. CASE ev \in EventsIn(db) \ rem[p]
    <3>1. PICK by \in Ids : {c \in ChildrenIn(db) : c.ev = ev.id} = {ChildRows(ev.id, by)}
      BY <1>1, <2>5 DEF ChildrenInv
    <3>2. \A c \in ChildrenIn(db) : c.ev = ev.id => c \notin rem[p]
      BY <1>5, <2>5 DEF ChildrenIn
    <3>3. \A c \in ChildrenIn(add[p]) : c.ev # ev.id BY <1>10, <2>3, <2>5
    <3>4. {c \in ChildrenIn(db') : c.ev = ev.id} = {c \in ChildrenIn(db) : c.ev = ev.id}
      BY <2>1, <3>2, <3>3
    <3>. QED BY <3>1, <3>4
  <2>. QED BY <1>12, <2>4, <2>5
<1>15. Held(p)' = {} /\ \A q \in Writers \ {p} : Held(q)' = Held(q)
  BY <1>3 DEF Held, Still
<1>16. LocksInv'
  <2>1. \A q \in Writers : DOMAIN tx'[q] = Fields /\ tx'[q].at \in 0..clock
    BY <1>1, <1>3, <1>4, IdleFields DEF LocksInv, Still
  <2>2. \A q, r \in Writers : tx'[q].at # 0 /\ tx'[q].at = tx'[r].at => q = r
    BY <1>1, <1>3, IdleFields DEF LocksInv, Open, Still
  <2>3. \A q, r \in Writers : q # r => Held(q)' \cap Held(r)' = {}
    BY <1>1, <1>15 DEF LocksInv
  <2>. QED BY <1>2, <1>3, <2>1, <2>2, <2>3 DEF LocksInv, Open
<1>17. ASSUME NEW q \in Writers \ {p} PROVE CallInv(q)'
  <2>0. Still(q) /\ CallInv(q) /\ WritesInv(q) /\ Held(p) \cap Held(q) = {}
    BY <1>1, <1>3 DEF CallInv, LocksInv
  <2>1. \A n : Known(q, n) => Known(q, n)' BY <1>6, <2>0 DEF Known, Still
  <2>2. \A s : Made(q, s)' = Made(q, s) BY <2>0 DEF Made, Still
  <2>3. rem[q] \subseteq db'
    BY <1>2, <2>0 DEF Held, WritesInv, Visible
  <2>4. Unique(Visible(q)')
    <3>1. Visible(q)' = (Visible(p) \ rem[q]) \cup add[q] BY <1>2, <2>0 DEF Visible, Still
    <3>2. Unique(Visible(p)) /\ Unique(Visible(q)) BY <1>5, <2>0 DEF WritesInv
    <3>3. ASSUME NEW a \in Visible(p) \ rem[q], NEW b \in add[q], RowKey(a) = RowKey(b)
          PROVE  a = b
      <4>1. CASE a \in add[p] BY <2>0, <3>3, <4>1 DEF Held
      <4>2. CASE a \in db BY <3>2, <3>3, <4>2 DEF Visible, Unique
      <4>. QED BY <4>1, <4>2 DEF Visible
    <3>4. \A a, b \in add[q] : RowKey(a) = RowKey(b) => a = b
      BY <3>2 DEF Visible, Unique
    <3>. QED BY <3>1, <3>2, <3>3, <3>4 DEF Unique
  <2>5. WritesInv(q)' BY <2>0, <2>1, <2>2, <2>3, <2>4 DEF WritesInv, Still
  <2>6. StageInv(q)'
    <3>1. Settled(tx[q].sid) => Settled(tx[q].sid)' BY <1>6, <2>0 DEF Still, Settled
    <3>2. \A c \in ChildrenIn(rem[q]) : \A ev \in EventsIn(db') :
            ev.id = c.ev => ev \in EventsIn(db)
      BY <1>5, <1>9, <1>11, <1>12, <2>0 DEF WritesInv, ChildrenIn
    <3>3. StageInv(q) BY <2>0 DEF CallInv
    <3>4. IdleInv(q) => IdleInv(q)' BY <2>0 DEF Still, IdleInv, Clean
    <3>5. CreateInv(q) => CreateInv(q)' BY <2>0 DEF Still, CreateInv, Open
    <3>6. AppendInv(q) => AppendInv(q)'
      BY <2>0, <3>1 DEF Still, AppendInv, Open, Clean, Wrote, NewEvent
    <3>7. DeleteInv(q) => DeleteInv(q)'
      BY <2>0, <3>1, <3>2 DEF Still, DeleteInv, Open
    <3>. QED BY <2>0, <3>3, <3>4, <3>5, <3>6, <3>7 DEF StageInv, Still
  <2>7. GoneInv(q)'
    <3>1. \A r \in Writers : SessionsIn(add'[r]) \subseteq SessionsIn(add[r])
      BY <1>3 DEF SessionsIn, Still
    <3>2. \A s \in SessionsIn(db') : s \in SessionsIn(db) \/ s \in SessionsIn(add[p])
      BY <1>2 DEF SessionsIn, Visible
    <3>. QED BY <2>0, <3>1, <3>2 DEF CallInv, GoneInv, Gone, Still
  <2>. QED BY <2>5, <2>6, <2>7 DEF CallInv
<1>18. CallInv(p)'
  <2>1. Visible(p)' = db' BY <1>3 DEF Visible
  <2>2. WritesInv(p)' BY <1>3, <1>13, <2>1 DEF WritesInv, TablesInv, SessionsIn
  <2>3. StageInv(p)' BY <1>3, IdleFields DEF StageInv, IdleInv, Clean
  <2>4. GoneInv(p)' BY <1>3, IdleFields DEF GoneInv
  <2>. QED BY <2>2, <2>3, <2>4 DEF CallInv
<1>. QED BY <1>13, <1>14, <1>16, <1>17, <1>18 DEF StoreInv

LEMMA StutterKeeps == ASSUME StoreInv, UNCHANGED vars PROVE StoreInv'
<1>. UNCHANGED <<serial, db, tx, add, rem, clock>> BY DEF vars
<1>1. \A n : Settled(n)' = Settled(n) BY DEF Settled
<1>2. TablesInv' /\ ChildrenInv'
  BY <1>1 DEF StoreInv, TablesInv, ChildrenInv, Ids
<1>3. LocksInv' BY DEF StoreInv, LocksInv, Open, Held
<1>4. ASSUME NEW p \in Writers PROVE CallInv(p)'
  <2>1. CallInv(p) /\ Still(p) BY DEF StoreInv, Still
  <2>2. WritesInv(p)' BY <1>1, <2>1 DEF CallInv, WritesInv, Known, Made, Visible
  <2>3. StageInv(p)' BY <1>1, <2>1, StageKept DEF CallInv
  <2>4. GoneInv(p)' BY <2>1 DEF CallInv, GoneInv, Gone
  <2>. QED BY <2>2, <2>3, <2>4 DEF CallInv
<1>. QED BY <1>2, <1>3, <1>4 DEF StoreInv

\* The calls begin as BeginKeeps wants them.
LEMMA CallsKeep ==
    ASSUME StoreInv, NEW p \in Writers, NEW n \in Names, UNCHANGED serial,
           Create(p, n) \/ Delete(p, n) \/ \E e \in Adk : AppendEvent(p, n, e)
    PROVE  StoreInv'
<1>1. CASE Create(p, n)
  <2>. DEFINE call == [Idle EXCEPT !.op = "create", !.pc = "insert", !.name = n]
  <2>1. call.op = "create" /\ call.pc = "insert" /\ DOMAIN call = Fields
    BY IdleFields DEF Fields
  <2>2. Begin(p, call) BY <1>1 DEF Create
  <2>. HIDE DEF call
  <2>. QED BY <2>1, <2>2, BeginKeeps
<1>2. CASE Delete(p, n)
  <2>. DEFINE call == [Idle EXCEPT !.op = "delete", !.pc = "find", !.name = n]
  <2>1. call.op = "delete" /\ call.pc = "find" /\ DOMAIN call = Fields
    BY IdleFields DEF Fields
  <2>2. Begin(p, call) BY <1>2 DEF Delete
  <2>. HIDE DEF call
  <2>. QED BY <2>1, <2>2, BeginKeeps
<1>3. ASSUME NEW e \in Adk, AppendEvent(p, n, e) PROVE StoreInv'
  <2>. DEFINE call == [Idle EXCEPT !.op = "append", !.pc = "ref", !.name = n, !.adk = e]
  <2>1. call.op = "append" /\ call.pc = "ref" /\ DOMAIN call = Fields
    BY IdleFields DEF Fields
  <2>2. Begin(p, call) BY <1>3 DEF AppendEvent
  <2>. HIDE DEF call
  <2>. QED BY <2>1, <2>2, BeginKeeps
<1>. QED BY <1>1, <1>2, <1>3

LEMMA StoreNext == StoreInv /\ [Next]_vars => StoreInv'
<1>1. ASSUME StoreInv, NEW p \in Writers, Step(p), UNCHANGED serial PROVE StoreInv'
  <2>1. CASE \E n \in Names : \/ Create(p, n) \/ Delete(p, n)
                             \/ \E e \in Adk : AppendEvent(p, n, e)
    BY <1>1, <2>1, CallsKeep
  <2>2. CASE (\E n \in Names : Get(p, n)) \/ GetShared(p) \/ Release(p) \/ Rollback(p)
    BY <1>1, <2>2, ReadsKeep
  <2>3. CASE Progress(p)
    BY <1>1, <2>3, CreateKeeps, RefKeeps, MaxKeeps, InsertKeeps, ChildrenKeeps, TouchKeeps,
       FindKeeps, DeleteStepsKeep, CommitKeeps DEF Progress
  <2>. QED BY <1>1, <2>1, <2>2, <2>3 DEF Step
<1>. QED BY <1>1, StutterKeeps DEF Next

LEMMA StoreInvariant == Spec => []StoreInv
<1>. QED BY InitInv, StoreNext, PTL DEF Spec

-----------------------------------------------------------------------------
(* What follows.                                                           *)

\* However many callers append, retry, delete and fail, and whether their
\* transactions interleave or not, a stored event was stored once: its row, the
\* child rows of one call, and no other row under its key.
THEOREM StoredExactlyOnce == Spec => []AppendedExactlyOnce
<1>1. StoreInv => AppendedExactlyOnce
  BY DEF StoreInv, TablesInv, ChildrenInv, Unique, AppendedExactlyOnce
<1>. QED BY <1>1, StoreInvariant, PTL

\* Only a commit changes the tables.
LEMMA TablesStandStill ==
    ASSUME NEW p \in Writers, Step(p), ~Commit(p) PROVE db' = db
<1>1. \A call : Begin(p, call) => db' = db BY DEF Begin
<1>2. \A del, ins, next : Statement(p, del, ins, next) => db' = db BY DEF Statement
<1>3. \A pc, rows, next : DeleteRows(p, pc, rows, next) => db' = db
  BY <1>2 DEF DeleteRows
<1>4. ASSUME Progress(p) PROVE db' = db
  <2>1. create_session(p) => db' = db BY <1>2 DEF create_session, NewSession
  <2>2. SessionRef(p) \/ append_max(p) => db' = db BY <1>2 DEF SessionRef, append_max
  <2>3. append_insert(p) => db' = db BY <1>2 DEF append_insert, NewEvent
  <2>4. append_children(p) \/ append_touch(p) => db' = db
    BY <1>2 DEF append_children, append_touch, NewState, ItsSession
  <2>5. delete_find(p) => db' = db BY <1>2 DEF delete_find
  <2>6. delete_children(p) \/ delete_events(p) \/ delete_state(p) \/ delete_row(p) => db' = db
    BY <1>3 DEF delete_children, delete_events, delete_state, delete_row, DoomedChildren, ItsSession
  <2>. QED BY <1>4, <2>1, <2>2, <2>3, <2>4, <2>5, <2>6 DEF Progress
<1>5. \A n \in Names : Create(p, n) \/ Delete(p, n) => db' = db BY <1>1 DEF Create, Delete
<1>6. \A n \in Names, e \in Adk : AppendEvent(p, n, e) => db' = db BY <1>1 DEF AppendEvent
<1>7. \A n \in Names : Get(p, n) => db' = db BY DEF Get
<1>8. GetShared(p) \/ Release(p) \/ Rollback(p) => db' = db
  BY DEF GetShared, Release, Rollback
<1>. QED BY <1>4, <1>5, <1>6, <1>7, <1>8 DEF Step

\* A stored event disappears only with the row of its session.
LEMMA EventsLeaveTogether ==
    ASSUME StoreInv, NEW p \in Writers, Step(p)
    PROVE  \A ev \in EventsIn(db) \ EventsIn(db') :
             \A s \in SessionsIn(db') : s.id # ev.sid
<1>1. CASE db' = db BY <1>1
<1>2. CASE Commit(p)
  <2>. SUFFICES ASSUME NEW ev \in EventsIn(db), ev \notin EventsIn(db'),
                       NEW s \in SessionsIn(db')
                PROVE  s.id # ev.sid
    OBVIOUS
  <2>1. db' = Visible(p) /\ tx[p].pc = "commit" BY <1>2 DEF Commit, Visible
  <2>2. ev \in EventsIn(rem[p]) BY <2>1 DEF EventsIn, Visible
  <2>3. StageInv(p) /\ GoneInv(p) BY DEF StoreInv, CallInv
  <2>4. tx[p].op = "delete" /\ DeleteInv(p)
    BY <2>1, <2>2, <2>3 DEF StageInv, IdleInv, CreateInv, AppendInv, Clean, EventsIn
  <2>5. ev.sid = tx[p].sid BY <2>2, <2>4 DEF DeleteInv
  <2>6. Gone(p) BY <2>1, <2>2, <2>3, <2>4 DEF GoneInv
  <2>7. CASE s \in add[p] BY <2>5, <2>6, <2>7 DEF Gone, SessionsIn
  <2>8. CASE s \in db \ rem[p] BY <2>5, <2>6, <2>8 DEF Gone, SessionsIn
  <2>. QED BY <2>1, <2>7, <2>8 DEF SessionsIn, Visible
<1>. QED BY <1>1, <1>2, TablesStandStill

\* However calls interleave, a stored event disappears only together with the
\* row of its session.
THEOREM EventsStay == Spec => EventsKept
<1>. DEFINE Kept == \A ev \in EventsIn(db) \ EventsIn(db') :
                      \A s \in SessionsIn(db') : s.id # ev.sid
<1>1. StoreInv /\ [Next]_vars => [Kept]_vars
  BY EventsLeaveTogether DEF Next
<1>. QED BY <1>1, StoreInvariant, PTL DEF Spec, EventsKept

-----------------------------------------------------------------------------
(* Where transactions run one at a time: no orphans, dense sequences.      *)

\* The rows an append or a create has written belong to a session it sees.
OwnSession(p) ==
    /\ \E s \in SessionsIn(Visible(p)) : s.id = tx[p].sid
    /\ \A r \in EventsIn(add[p]) \cup StateIn(add[p]) : r.sid = tx[p].sid
    /\ \A s \in SessionsIn(rem[p]) : s.id = tx[p].sid

\* What a delete has left behind: no child of the session's events, then no
\* event of it, then no state.
ChildrenGone(p) == \A c \in ChildrenIn(db \ rem[p]) : \A ev \in EventsIn(db) :
                     ev.id = c.ev => ev.sid # tx[p].sid
EventsGone(p) == EventsOf(db \ rem[p], tx[p].sid) = {}
StateGone(p) == StateOf(db \ rem[p], tx[p].sid) = {}

SerialCall(p) ==
    /\ tx[p].op = "create" =>
         \A r \in StateIn(add[p]) : \E s \in SessionsIn(add[p]) : s.id = r.sid
    /\ tx[p].op = "append" =>
         /\ tx[p].pc # "ref" => OwnSession(p)
         /\ tx[p].pc \in {"insert", "children", "touch", "commit"} =>
              tx[p].seq = Cardinality(EventsOf(db, tx[p].sid)) + 1
    /\ tx[p].op = "delete" =>
         /\ \A s \in SessionsIn(rem[p]) : s.id = tx[p].sid
         /\ tx[p].pc \in {"events", "state", "session"} => ChildrenGone(p)
         /\ tx[p].pc \in {"state", "session"} => EventsGone(p)
         /\ tx[p].pc = "session" => StateGone(p)
         /\ tx[p].pc = "commit" =>
              rem[p] = {} \/ (ChildrenGone(p) /\ EventsGone(p) /\ StateGone(p))

Orphanless ==
    /\ \A r \in EventsIn(db) \cup StateIn(db) : \E s \in SessionsIn(db) : s.id = r.sid
    /\ \A c \in ChildrenIn(db) : \E ev \in EventsIn(db) : ev.id = c.ev

Dense ==
    \A s \in SessionsIn(db) :
      /\ IsFiniteSet(EventsOf(db, s.id))
      /\ {ev.seq : ev \in EventsOf(db, s.id)} = 1..Cardinality(EventsOf(db, s.id))

SerialInv == serial =>
    /\ \A p, q \in Writers : Open(p) /\ Open(q) => p = q
    /\ Orphanless /\ Dense
    /\ \A p \in Writers : SerialCall(p)

\* COALESCE(MAX(sequence), 0) + 1 after 1..n.
LEMMA AfterDense == \A n \in Nat : 1 + Max({0} \cup 1..n) = n + 1
<1>. SUFFICES ASSUME NEW n \in Nat PROVE Max({0} \cup 1..n) = n
  OBVIOUS
<1>1. n \in {0} \cup 1..n /\ \A y \in {0} \cup 1..n : n >= y OBVIOUS
<1>2. \A x \in {0} \cup 1..n : (\A y \in {0} \cup 1..n : x >= y) => x = n OBVIOUS
<1>. QED BY <1>1, <1>2 DEF Max

\* A session without events is dense.
LEMMA EmptyDense ==
    ASSUME NEW evs, evs = {}
    PROVE  IsFiniteSet(evs) /\ {ev.seq : ev \in evs} = 1..Cardinality(evs)
<1>1. IsFiniteSet({}) /\ Cardinality({}) = 0 BY FS_EmptySet
<1>2. {ev.seq : ev \in {}} = {} OBVIOUS
<1>3. 1..0 = {} OBVIOUS
<1>. QED BY <1>1, <1>2, <1>3

LEMMA SerialInit == Init => SerialInv
<1>. SUFFICES ASSUME Init PROVE SerialInv OBVIOUS
<1>1. db = {} BY DEF Init
<1>2. Orphanless /\ Dense
  BY <1>1 DEF Orphanless, Dense, EventsIn, StateIn, ChildrenIn, SessionsIn
<1>3. \A p \in Writers : tx[p] = Idle BY DEF Init
<1>4. \A p \in Writers : ~Open(p) /\ SerialCall(p) BY <1>3, IdleFields DEF Open, SerialCall
<1>. QED BY <1>2, <1>4 DEF SerialInv

\* A call of which nothing changes, over tables that do not.
LEMMA SerialStill ==
    ASSUME NEW q \in Writers, SerialCall(q), Still(q), db' = db PROVE SerialCall(q)'
BY DEF SerialCall, Still, OwnSession, ChildrenGone, EventsGone, StateGone, Visible

\* A call without a transaction has nothing to answer for.
LEMMA SerialClosed ==
    ASSUME NEW q \in Writers, StageInv(q), ~Open(q) PROVE tx[q].op \in {"none", "get"}
BY DEF StageInv, CreateInv, AppendInv, DeleteInv

\* A step of p that leaves the tables and the other calls alone.
LEMMA SerialMove ==
    ASSUME SerialInv, NEW p \in Writers, UNCHANGED serial, db' = db,
           \A q \in Writers \ {p} : Still(q),
           serial /\ Open(p)' => \A q \in Writers \ {p} : ~Open(q),
           serial => SerialCall(p)'
    PROVE  SerialInv'
<1>. SUFFICES ASSUME serial PROVE SerialInv' BY DEF SerialInv
<1>1. Orphanless' BY DEF SerialInv, Orphanless
<1>2. Dense' BY DEF SerialInv, Dense
<1>3. \A q \in Writers : SerialCall(q)' BY SerialStill DEF SerialInv
<1>4. \A q, r \in Writers : Open(q)' /\ Open(r)' => q = r
  BY DEF SerialInv, Open, Still
<1>. QED BY <1>1, <1>2, <1>3, <1>4 DEF SerialInv

LEMMA SerialStatement ==
    ASSUME StoreInv, SerialInv, NEW p \in Writers, NEW del, NEW ins, NEW next,
           Statement(p, del, ins, next), UNCHANGED serial, Open(p),
           next.at = tx[p].at, DOMAIN next = Fields, serial => SerialCall(p)'
    PROVE  SerialInv'
<1>1. LocksInv BY DEF StoreInv
<1>2. db' = db /\ tx'[p] = next /\ \A q \in Writers \ {p} : Still(q)
  BY <1>1, StatementFacts
<1>3. serial => \A q \in Writers \ {p} : ~Open(q) BY DEF SerialInv
<1>. QED BY <1>2, <1>3, SerialMove

LEMMA SerialCreate ==
    ASSUME StoreInv, SerialInv, NEW p \in Writers, create_session(p), UNCHANGED serial
    PROVE  SerialInv'
<1>. DEFINE row == SessionRow(tx[p].at, tx[p].name, tx[p].at)
            states == stateDocument(tx[p].at, tx[p].at)
            ins == {row} \cup states
            next == Goto(p, "commit")
<1>1. Statement(p, {}, ins, next) /\ tx[p].op = "create" /\ tx[p].pc = "insert"
  BY DEF create_session, NewSession
<1>2. Open(p) /\ add[p] = {} /\ LocksInv
  BY <1>1 DEF StoreInv, CallInv, StageInv, CreateInv
<1>3. DOMAIN next = Fields /\ next.at = tx[p].at /\ next.op = "create"
  BY <1>1, GotoFields
<1>4. row.tab = "session" /\ row.id = tx[p].at BY DEF SessionRow
<1>5. \A r \in states : r.sid = tx[p].at /\ r.tab = "state" BY DEF stateDocument, StateRow
<1>6. \A r \in StateIn(ins) : \E s \in SessionsIn(ins) : s.id = r.sid
  BY <1>4, <1>5 DEF StateIn, SessionsIn
<1>7. tx'[p] = next /\ add'[p] = ins
  BY <1>1, <1>2, <1>3, StatementFacts
<1>. HIDE DEF row, states, ins, next
<1>8. SerialCall(p)' BY <1>3, <1>6, <1>7 DEF SerialCall
<1>. QED BY <1>1, <1>2, <1>3, <1>8, SerialStatement

\* The appends that have nothing to write: what the call goes on with.
LEMMA SerialAppend ==
    ASSUME StoreInv, SerialInv, NEW p \in Writers, NEW next,
           tx[p].op = "append", tx[p].pc \in {"ref", "max", "insert"},
           Statement(p, {}, {}, next), UNCHANGED serial, DOMAIN next = Fields,
           next.op = "append", next.at = tx[p].at, next.pc \in {"max", "insert", "commit"},
           \E s \in SessionsIn(db) : s.id = next.sid,
           serial /\ next.pc # "max" => next.seq = Cardinality(EventsOf(db, next.sid)) + 1
    PROVE  SerialInv'
<1>1. Open(p) /\ add[p] = {} /\ rem[p] = {} /\ LocksInv
  BY DEF StoreInv, CallInv, StageInv, AppendInv, Clean
<1>2. tx'[p] = next /\ add'[p] = {} /\ rem'[p] = {} /\ db' = db
  BY <1>1, StatementFacts
<1>3. OwnSession(p)'
  BY <1>2 DEF OwnSession, Visible, EventsIn, StateIn, SessionsIn
<1>4. serial => SerialCall(p)' BY <1>2, <1>3 DEF SerialCall
<1>. QED BY <1>1, <1>4, SerialStatement

LEMMA SerialRef ==
    ASSUME StoreInv, SerialInv, NEW p \in Writers, SessionRef(p), UNCHANGED serial
    PROVE  SerialInv'
<1>1. PICK r \in SessionsIn(Visible(p)) :
        Statement(p, {}, {}, [tx[p] EXCEPT !.pc = "max", !.sid = r.id])
  BY DEF SessionRef
<1>2. tx[p].op = "append" /\ tx[p].pc = "ref" BY DEF SessionRef
<1>3. rem[p] = {} /\ add[p] = {} BY <1>2 DEF StoreInv, CallInv, StageInv, AppendInv, Clean
<1>4. r \in SessionsIn(db) BY <1>3 DEF SessionsIn, Visible
<1>. DEFINE next == [tx[p] EXCEPT !.pc = "max", !.sid = r.id]
<1>5. DOMAIN tx[p] = Fields BY DEF StoreInv, LocksInv
<1>6. /\ DOMAIN next = Fields /\ next.op = tx[p].op /\ next.at = tx[p].at
      /\ next.pc = "max" /\ next.sid = r.id
  BY <1>5 DEF Fields
<1>7. Statement(p, {}, {}, next) BY <1>1
<1>. HIDE DEF next
<1>. QED BY <1>2, <1>4, <1>6, <1>7, SerialAppend

LEMMA SerialMax ==
    ASSUME StoreInv, SerialInv, NEW p \in Writers, append_max(p), UNCHANGED serial
    PROVE  SerialInv'
<1>. DEFINE sid == tx[p].sid
            next == [tx[p] EXCEPT !.pc = "insert", !.seq = NextSequence(Visible(p), sid)]
<1>1. tx[p].op = "append" /\ tx[p].pc = "max" /\ Statement(p, {}, {}, next)
  BY DEF append_max
<1>2. rem[p] = {} /\ add[p] = {}
  BY <1>1 DEF StoreInv, CallInv, StageInv, AppendInv, Clean
<1>3. Visible(p) = db BY <1>2 DEF Visible
<1>4. DOMAIN tx[p] = Fields BY DEF StoreInv, LocksInv
<1>5. /\ DOMAIN next = Fields /\ next.op = tx[p].op /\ next.at = tx[p].at
      /\ next.pc = "insert" /\ next.sid = sid /\ next.seq = NextSequence(db, sid)
  BY <1>3, <1>4 DEF Fields
<1>6. ASSUME serial
      PROVE  /\ \E s \in SessionsIn(db) : s.id = sid
             /\ NextSequence(db, sid) = Cardinality(EventsOf(db, sid)) + 1
  <2>1. OwnSession(p) /\ Dense BY <1>1, <1>6 DEF SerialInv, SerialCall
  <2>2. PICK s \in SessionsIn(db) : s.id = sid BY <1>3, <2>1 DEF OwnSession
  <2>3. /\ IsFiniteSet(EventsOf(db, sid))
        /\ {ev.seq : ev \in EventsOf(db, sid)} = 1..Cardinality(EventsOf(db, sid))
    BY <2>1, <2>2 DEF Dense
  <2>4. Cardinality(EventsOf(db, sid)) \in Nat BY <2>3, FS_CardinalityType
  <2>. QED BY <2>2, <2>3, <2>4, AfterDense DEF NextSequence
<1>. HIDE DEF next
<1>7. CASE serial BY <1>1, <1>5, <1>6, <1>7, SerialAppend
<1>8. CASE ~serial BY <1>8 DEF SerialInv
<1>. QED BY <1>7, <1>8

LEMMA SerialInsert ==
    ASSUME StoreInv, SerialInv, NEW p \in Writers, append_insert(p), UNCHANGED serial
    PROVE  SerialInv'
<1>. SUFFICES ASSUME serial PROVE SerialInv' BY DEF SerialInv
<1>. DEFINE row == EventRow(tx[p].at, tx[p].sid, tx[p].adk, tx[p].seq)
            next == Goto(p, "children")
<1>1. /\ tx[p].op = "append" /\ tx[p].pc = "insert"
      /\ IF Stored(p) = {} THEN Statement(p, {}, {row}, next)
         ELSE Statement(p, {}, {}, Goto(p, "commit"))
  BY DEF append_insert, NewEvent
<1>2. Open(p) /\ add[p] = {} /\ rem[p] = {} /\ LocksInv
  BY <1>1 DEF StoreInv, CallInv, StageInv, AppendInv, Clean
<1>3. OwnSession(p) /\ tx[p].seq = Cardinality(EventsOf(db, tx[p].sid)) + 1
  BY <1>1 DEF SerialInv, SerialCall
<1>4. \E s \in SessionsIn(db) : s.id = tx[p].sid
  BY <1>2, <1>3 DEF OwnSession, Visible
<1>5. CASE Stored(p) # {}
  <2>. DEFINE to == Goto(p, "commit")
  <2>1. Statement(p, {}, {}, to) BY <1>1, <1>5
  <2>2. /\ DOMAIN to = Fields /\ to.at = tx[p].at /\ to.op = "append"
        /\ to.pc = "commit" /\ to.sid = tx[p].sid /\ to.seq = tx[p].seq
    BY <1>1, GotoFields
  <2>. HIDE DEF to
  <2>. QED BY <1>1, <1>3, <1>4, <2>1, <2>2, SerialAppend
<1>6. CASE Stored(p) = {}
  <2>1. Statement(p, {}, {row}, next) BY <1>1, <1>6
  <2>2. /\ DOMAIN next = Fields /\ next.at = tx[p].at /\ next.op = "append"
        /\ next.pc = "children" /\ next.sid = tx[p].sid /\ next.seq = tx[p].seq
    BY <1>1, GotoFields
  <2>3. row.tab = "event" /\ row.sid = tx[p].sid BY DEF EventRow
  <2>. HIDE DEF row, next
  <2>4. tx'[p] = next /\ add'[p] = {row} /\ rem'[p] = {} /\ db' = db
    BY <1>2, <2>1, <2>2, StatementFacts
  <2>5. OwnSession(p)'
    BY <1>4, <2>2, <2>3, <2>4 DEF OwnSession, Visible, EventsIn, StateIn, SessionsIn
  <2>6. SerialCall(p)' BY <1>3, <2>2, <2>4, <2>5 DEF SerialCall
  <2>. QED BY <1>2, <2>1, <2>2, <2>6, SerialStatement
<1>. QED BY <1>5, <1>6

LEMMA SerialChildren ==
    ASSUME StoreInv, SerialInv, NEW p \in Writers, append_children(p), UNCHANGED serial
    PROVE  SerialInv'
<1>. SUFFICES ASSUME serial PROVE SerialInv' BY DEF SerialInv
<1>. DEFINE new == {StateRow(tx[p].sid, s, tx[p].at) : s \in Persisted({Delta[tx[p].adk]})}
            old == {r \in StateOf(Visible(p), tx[p].sid) : \E n \in new : RowKey(n) = RowKey(r)}
            next == Goto(p, "touch")
<1>1. tx[p].op = "append" /\ tx[p].pc = "children" BY DEF append_children, NewState
<1>2. PICK ev \in Stored(p) : Statement(p, old, new \cup {ChildRows(ev.id, tx[p].at)}, next)
  BY DEF append_children, NewState
<1>. DEFINE ins == new \cup {ChildRows(ev.id, tx[p].at)}
<1>3. Open(p) /\ LocksInv
  BY <1>1 DEF StoreInv, CallInv, StageInv, AppendInv
<1>4. OwnSession(p) /\ tx[p].seq = Cardinality(EventsOf(db, tx[p].sid)) + 1
  BY <1>1 DEF SerialInv, SerialCall
<1>5. /\ DOMAIN next = Fields /\ next.at = tx[p].at /\ next.op = "append"
      /\ next.pc = "touch" /\ next.sid = tx[p].sid /\ next.seq = tx[p].seq
  BY <1>1, GotoFields
<1>6. \A r \in new : r.tab = "state" /\ r.sid = tx[p].sid BY DEF StateRow
<1>7. ChildRows(ev.id, tx[p].at).tab = "child" BY DEF ChildRows
<1>8. \A r \in old : r.tab = "state" BY DEF StateOf, StateIn
<1>9. \A r \in ins : r.tab = "child" \/ (r.tab = "state" /\ r.sid = tx[p].sid)
  BY <1>6, <1>7
<1>10. Statement(p, old, ins, next) BY <1>2
<1>. HIDE DEF old, ins, next
<1>11. /\ tx'[p] = next /\ db' = db /\ add'[p] = (add[p] \ old) \cup ins
       /\ rem'[p] = rem[p] \cup (old \cap db)
  BY <1>3, <1>5, <1>10, StatementFacts
<1>12. OwnSession(p)'
  <2>1. PICK s \in SessionsIn(Visible(p)) : s.id = tx[p].sid BY <1>4 DEF OwnSession
  <2>2. s \in Visible(p)' BY <1>8, <1>11, <2>1 DEF SessionsIn, Visible
  <2>3. s \in SessionsIn(Visible(p)') BY <2>1, <2>2 DEF SessionsIn
  <2>4. \A r \in EventsIn(add'[p]) \cup StateIn(add'[p]) : r.sid = tx[p].sid
    BY <1>4, <1>9, <1>11 DEF OwnSession, EventsIn, StateIn
  <2>5. \A r \in SessionsIn(rem'[p]) : r.id = tx[p].sid
    BY <1>4, <1>8, <1>11 DEF OwnSession, SessionsIn
  <2>6. tx'[p].sid = tx[p].sid BY <1>5, <1>11
  <2>. QED BY <2>1, <2>3, <2>4, <2>5, <2>6 DEF OwnSession
<1>13. SerialCall(p)' BY <1>4, <1>5, <1>11, <1>12 DEF SerialCall
<1>. QED BY <1>3, <1>5, <1>10, <1>13, SerialStatement

LEMMA SerialTouch ==
    ASSUME StoreInv, SerialInv, NEW p \in Writers, append_touch(p), UNCHANGED serial
    PROVE  SerialInv'
<1>. SUFFICES ASSUME serial PROVE SerialInv' BY DEF SerialInv
<1>. DEFINE old == {r \in SessionsIn(Visible(p)) : r.id = tx[p].sid}
            Touched(r) == SessionRow(r.id, r.name, tx[p].at)
            ins == {Touched(r) : r \in old}
            next == Goto(p, "commit")
<1>1. /\ tx[p].op = "append" /\ tx[p].pc = "touch"
      /\ Statement(p, old, {[r EXCEPT !.upd = tx[p].at] : r \in old}, next)
  BY DEF append_touch, ItsSession
<1>2. Open(p) /\ LocksInv BY <1>1 DEF StoreInv, CallInv, StageInv, AppendInv
<1>3. OwnSession(p) /\ tx[p].seq = Cardinality(EventsOf(db, tx[p].sid)) + 1
  BY <1>1 DEF SerialInv, SerialCall
<1>4. /\ DOMAIN next = Fields /\ next.at = tx[p].at /\ next.op = "append"
      /\ next.pc = "commit" /\ next.sid = tx[p].sid /\ next.seq = tx[p].seq
  BY <1>1, GotoFields
<1>5. \A r \in old : /\ r.tab = "session" /\ r.id = tx[p].sid
                     /\ [r EXCEPT !.upd = tx[p].at] = Touched(r)
  BY SeenRows DEF SessionsIn, RowOK, SessionRow
<1>6. \A r : Touched(r).tab = "session" /\ Touched(r).id = r.id BY DEF SessionRow
<1>7. \A r \in ins : r.tab = "session" /\ r.id = tx[p].sid BY <1>5, <1>6
<1>8. Statement(p, old, ins, next)
  <2>1. {[r EXCEPT !.upd = tx[p].at] : r \in old} = ins BY <1>5
  <2>. QED BY <1>1, <2>1
<1>9. \E r \in ins : r.tab = "session" /\ r.id = tx[p].sid
  BY <1>3, <1>5, <1>6 DEF OwnSession
<1>. HIDE DEF old, ins, next
<1>10. /\ tx'[p] = next /\ db' = db /\ add'[p] = (add[p] \ old) \cup ins
       /\ rem'[p] = rem[p] \cup (old \cap db)
  BY <1>2, <1>4, <1>8, StatementFacts
<1>11. OwnSession(p)'
  <2>1. \E r \in SessionsIn(Visible(p)') : r.id = tx[p].sid
    BY <1>9, <1>10 DEF SessionsIn, Visible
  <2>2. \A r \in EventsIn(add'[p]) \cup StateIn(add'[p]) : r.sid = tx[p].sid
    BY <1>3, <1>7, <1>10 DEF OwnSession, EventsIn, StateIn
  <2>3. \A r \in SessionsIn(rem'[p]) : r.id = tx[p].sid
    BY <1>3, <1>5, <1>10 DEF OwnSession, SessionsIn
  <2>4. tx'[p].sid = tx[p].sid BY <1>4, <1>10
  <2>. QED BY <2>1, <2>2, <2>3, <2>4 DEF OwnSession
<1>12. SerialCall(p)' BY <1>3, <1>4, <1>10, <1>11 DEF SerialCall
<1>. QED BY <1>2, <1>4, <1>8, <1>12, SerialStatement

LEMMA SerialFind ==
    ASSUME StoreInv, SerialInv, NEW p \in Writers, delete_find(p), UNCHANGED serial
    PROVE  SerialInv'
<1>1. tx[p].op = "delete" /\ tx[p].pc = "find" BY DEF delete_find
<1>2. Open(p) /\ rem[p] = {} /\ LocksInv
  BY <1>1 DEF StoreInv, CallInv, StageInv, DeleteInv
<1>3. ASSUME NEW next, Statement(p, {}, {}, next), DOMAIN next = Fields,
             next.op = "delete", next.at = tx[p].at, next.pc \in {"commit", "children"}
      PROVE  SerialInv'
  <2>1. tx'[p] = next /\ rem'[p] = {} BY <1>2, <1>3, StatementFacts
  <2>2. SerialCall(p)' BY <1>3, <2>1 DEF SerialCall, SessionsIn
  <2>. QED BY <1>2, <1>3, <2>2, SerialStatement
<1>4. CASE Statement(p, {}, {}, Goto(p, "commit"))
  <2>. DEFINE next == Goto(p, "commit")
  <2>1. /\ DOMAIN next = Fields /\ next.op = tx[p].op /\ next.at = tx[p].at
        /\ next.pc = "commit"
    BY GotoFields
  <2>2. Statement(p, {}, {}, next) BY <1>4
  <2>. HIDE DEF next
  <2>. QED BY <1>1, <1>3, <2>1, <2>2
<1>5. ASSUME NEW id, Statement(p, {}, {}, [tx[p] EXCEPT !.pc = "children", !.sid = id])
      PROVE  SerialInv'
  <2>. DEFINE next == [tx[p] EXCEPT !.pc = "children", !.sid = id]
  <2>1. DOMAIN tx[p] = Fields BY <1>2 DEF LocksInv
  <2>2. /\ DOMAIN next = Fields /\ next.op = tx[p].op /\ next.at = tx[p].at
        /\ next.pc = "children"
    BY <2>1 DEF Fields
  <2>3. Statement(p, {}, {}, next) BY <1>5
  <2>. HIDE DEF next
  <2>. QED BY <1>1, <1>3, <2>2, <2>3
<1>. QED BY <1>4, <1>5 DEF delete_find

\* What each DELETE statement adds to what is gone.
LEMMA SerialDelete ==
    ASSUME StoreInv, SerialInv, NEW p \in Writers, UNCHANGED serial,
           delete_children(p) \/ delete_events(p) \/ delete_state(p) \/ delete_row(p)
    PROVE  SerialInv'
<1>. SUFFICES ASSUME serial PROVE SerialInv' BY DEF SerialInv
<1>. DEFINE sid == tx[p].sid
            SessionsGone(rows) == \A s \in SessionsIn(rows) : s.id = sid
            OwnChildren(rows) == {c \in ChildrenIn(rows) : \E ev \in EventsOf(rows, sid) : ev.id = c.ev}
<1>1. ASSUME NEW pc, NEW rows, NEW next, DeleteRows(p, pc, rows, next),
             pc \in {"children", "events", "state", "session"},
             next \in {"events", "state", "session", "commit"},
             pc = "children" => rows = OwnChildren(Visible(p)) /\ next = "events",
             pc = "events" => rows = EventsOf(Visible(p), sid) /\ next = "state",
             pc = "state" => rows = StateOf(Visible(p), sid) /\ next = "session",
             pc = "session" => next = "commit",
             SessionsGone(rows)
      PROVE  SerialInv'
  <2>. DEFINE to == Goto(p, next)
  <2>1. tx[p].op = "delete" /\ tx[p].pc = pc /\ Statement(p, rows, {}, to)
    BY <1>1 DEF DeleteRows
  <2>2. Open(p) /\ add[p] = {} /\ LocksInv
    BY <2>1, <1>1 DEF StoreInv, CallInv, StageInv, DeleteInv
  <2>3. SerialCall(p) BY DEF SerialInv
  <2>4. /\ DOMAIN to = Fields /\ to.at = tx[p].at /\ to.op = "delete"
        /\ to.pc = next /\ to.sid = sid
    BY <2>1, GotoFields
  <2>. HIDE DEF to
  <2>5. /\ tx'[p] = to /\ db' = db /\ rem'[p] = rem[p] \cup (rows \cap db)
        /\ tx'[p].sid = sid
    BY <2>1, <2>2, <2>4, StatementFacts
  <2>6. Visible(p) = db \ rem[p] BY <2>2 DEF Visible
  <2>7. db \ rem'[p] = (db \ rem[p]) \ rows BY <2>5
  <2>8. SessionsGone(rem'[p])
    BY <1>1, <2>1, <2>3, <2>5 DEF SerialCall, SessionsIn
  <2>9. ChildrenGone(p)'
    <3>1. CASE pc = "children"
      <4>1. pc = "children" => rem[p] = {}
        BY <2>1 DEF StoreInv, CallInv, StageInv, DeleteInv
      <4>. QED BY <1>1, <2>5, <2>6, <2>7, <3>1, <4>1 DEF ChildrenGone, ChildrenIn, EventsOf, EventsIn
    <3>2. CASE pc # "children"
      <4>1. ChildrenGone(p) BY <1>1, <2>1, <2>3, <3>2 DEF SerialCall
      <4>. QED BY <2>5, <2>7, <4>1 DEF ChildrenGone, ChildrenIn
    <3>. QED BY <3>1, <3>2
  <2>10. pc # "children" => EventsGone(p)'
    <3>1. CASE pc = "events"
      BY <1>1, <2>5, <2>6, <2>7, <3>1 DEF EventsGone, EventsOf, EventsIn
    <3>2. CASE pc \in {"state", "session"}
      <4>1. EventsGone(p) BY <2>1, <2>3, <3>2 DEF SerialCall
      <4>. QED BY <2>5, <2>7, <4>1 DEF EventsGone, EventsOf, EventsIn
    <3>. QED BY <1>1, <3>1, <3>2
  <2>11. pc \in {"state", "session"} => StateGone(p)'
    <3>1. CASE pc = "state"
      BY <1>1, <2>5, <2>6, <2>7, <3>1 DEF StateGone, StateOf, StateIn
    <3>2. CASE pc = "session"
      <4>1. StateGone(p) BY <2>1, <2>3, <3>2 DEF SerialCall
      <4>. QED BY <2>5, <2>7, <4>1 DEF StateGone, StateOf, StateIn
    <3>. QED BY <3>1, <3>2
  <2>12. SerialCall(p)'
    BY <1>1, <2>4, <2>5, <2>8, <2>9, <2>10, <2>11 DEF SerialCall
  <2>. QED BY <2>1, <2>2, <2>4, <2>12, SerialStatement
<1>2. CASE delete_children(p)
  <2>1. SessionsGone(OwnChildren(Visible(p))) BY DEF SessionsIn, ChildrenIn
  <2>2. DeleteRows(p, "children", OwnChildren(Visible(p)), "events") BY <1>2 DEF delete_children, DoomedChildren
  <2>. QED BY <1>1, <2>1, <2>2
<1>3. CASE delete_events(p)
  <2>1. SessionsGone(EventsOf(Visible(p), sid)) BY DEF SessionsIn, EventsOf, EventsIn
  <2>. QED BY <1>1, <1>3, <2>1 DEF delete_events
<1>4. CASE delete_state(p)
  <2>1. SessionsGone(StateOf(Visible(p), sid)) BY DEF SessionsIn, StateOf, StateIn
  <2>. QED BY <1>1, <1>4, <2>1 DEF delete_state
<1>5. CASE delete_row(p)
  <2>1. SessionsGone({r \in SessionsIn(Visible(p)) : r.id = sid}) BY DEF SessionsIn
  <2>. QED BY <1>1, <1>5, <2>1 DEF delete_row, ItsSession
<1>. QED BY <1>2, <1>3, <1>4, <1>5

LEMMA SerialBegin ==
    ASSUME StoreInv, SerialInv, NEW p \in Writers, NEW call, Begin(p, call), UNCHANGED serial,
           DOMAIN call = Fields,
           \/ call.op = "create"
           \/ call.op = "append" /\ call.pc = "ref"
           \/ call.op = "delete" /\ call.pc = "find"
    PROVE  SerialInv'
<1>. DEFINE next == [call EXCEPT !.at = clock + 1]
<1>1. /\ tx[p] = Idle /\ BackendFree(p) /\ tx' = [tx EXCEPT ![p] = next]
      /\ db' = db /\ add' = add /\ rem' = rem
  BY DEF Begin
<1>2. next.op = call.op /\ next.pc = call.pc BY DEF Fields
<1>. HIDE DEF next
<1>3. DOMAIN tx = Writers /\ StageInv(p) BY DEF StoreInv, LocksInv, CallInv
<1>4. tx'[p] = next /\ \A q \in Writers \ {p} : Still(q) BY <1>1, <1>3 DEF Still
<1>5. add'[p] = {} /\ rem'[p] = {}
  BY <1>1, <1>3, IdleFields DEF StageInv, IdleInv, Clean
<1>6. SerialCall(p)' BY <1>2, <1>4, <1>5 DEF SerialCall, StateIn, SessionsIn
<1>. QED BY <1>1, <1>4, <1>6, SerialMove DEF BackendFree

\* A caller left without a transaction: a rollback and the read path.
LEMMA SerialReads ==
    ASSUME StoreInv, StoreInv', SerialInv, NEW p \in Writers, UNCHANGED serial,
           \/ \E n \in Names : Get(p, n)
           \/ GetShared(p) \/ Release(p) \/ Rollback(p)
    PROVE  SerialInv'
<1>1. DOMAIN tx = Writers /\ DOMAIN add = Writers /\ DOMAIN rem = Writers /\ DOMAIN tx[p] = Fields
  BY DEF StoreInv, LocksInv
<1>2. StageInv(p) /\ StageInv(p)' BY DEF StoreInv, CallInv
<1>3. /\ db' = db /\ ~Open(p)' /\ \A q \in Writers \ {p} : Still(q)
  <2>1. CASE Rollback(p)
    BY <2>1, <1>1, IdleFields DEF Rollback, EndTx, Still, Open
  <2>2. CASE Release(p)
    BY <2>2, <1>1, IdleFields DEF Release, Still, Open
  <2>3. CASE GetShared(p)
    <3>1. tx[p].at = 0
      BY <2>3, <1>2 DEF GetShared, StageInv, IdleInv, CreateInv, AppendInv, DeleteInv
    <3>. QED BY <2>3, <1>1, <3>1 DEF GetShared, Still, Open, Fields
  <2>4. ASSUME NEW n \in Names, Get(p, n)
        PROVE  db' = db /\ ~Open(p)' /\ \A q \in Writers \ {p} : Still(q)
    <3>. DEFINE next == [Idle EXCEPT !.op = "get", !.pc = "shared", !.name = n]
    <3>1. tx' = [tx EXCEPT ![p] = next] /\ UNCHANGED <<db, add, rem>> BY <2>4 DEF Get
    <3>2. next.at = 0 BY IdleFields DEF Fields
    <3>. HIDE DEF next
    <3>. QED BY <1>1, <3>1, <3>2 DEF Still, Open
  <2>. QED BY <2>1, <2>2, <2>3, <2>4
<1>4. SerialCall(p)'
  <2>1. tx'[p].op \in {"none", "get"}
    BY <1>2, <1>3 DEF StageInv, CreateInv, AppendInv, DeleteInv
  <2>. QED BY <2>1 DEF SerialCall
<1>. QED BY <1>3, <1>4, SerialMove

\* The commit of an append that wrote: one session has one event more.
LEMMA SerialAppended ==
    ASSUME StoreInv, SerialInv, serial, NEW p \in Writers, Commit(p),
           tx[p].op = "append", Wrote(p)
    PROVE  Orphanless' /\ Dense'
<1>. DEFINE sid == tx[p].sid
            own == NewEvent(p)
<1>1. db' = (db \ rem[p]) \cup add[p] /\ tx[p].pc = "commit" BY DEF Commit
<1>2. /\ Open(p) /\ Settled(sid) /\ WritesInv(p)
      /\ EventsIn(rem[p]) = {} /\ ChildrenIn(rem[p]) = {}
  BY <1>1 DEF StoreInv, CallInv, StageInv, AppendInv
<1>3. /\ OwnSession(p) /\ Orphanless /\ Dense
      /\ tx[p].seq = Cardinality(EventsOf(db, sid)) + 1
  BY <1>1 DEF SerialInv, SerialCall
<1>4. own.tab = "event" /\ own.id = tx[p].at /\ own.sid = sid /\ own.seq = tx[p].seq
  BY DEF NewEvent, EventRow
<1>5. EventsIn(add[p]) = {own} /\ ChildrenIn(add[p]) = {ChildRows(tx[p].at, tx[p].at)}
  BY DEF Wrote
<1>6. ChildRows(tx[p].at, tx[p].at).ev = tx[p].at BY DEF ChildRows
<1>. HIDE DEF own
<1>7. EventsIn(db') = EventsIn(db) \cup {own}
  BY <1>1, <1>2, <1>5 DEF EventsIn
<1>8. PICK mine \in SessionsIn(db') : mine.id = sid
  BY <1>1, <1>3 DEF OwnSession, Visible
<1>9. ASSUME NEW s \in SessionsIn(db) PROVE \E t \in SessionsIn(db') : t.id = s.id
  BY <1>1, <1>3, <1>8 DEF OwnSession, SessionsIn
<1>10. Orphanless'
  <2>1. ASSUME NEW r \in EventsIn(db') \cup StateIn(db')
        PROVE  \E s \in SessionsIn(db') : s.id = r.sid
    <3>1. CASE r \in db BY <1>3, <1>9, <3>1 DEF Orphanless, EventsIn, StateIn
    <3>2. CASE r \in add[p]
      BY <1>3, <1>8, <3>2 DEF OwnSession, EventsIn, StateIn
    <3>. QED BY <1>1, <3>1, <3>2 DEF EventsIn, StateIn
  <2>2. ASSUME NEW c \in ChildrenIn(db') PROVE \E ev \in EventsIn(db') : ev.id = c.ev
    <3>1. CASE c \in db BY <1>3, <1>7, <3>1 DEF Orphanless, ChildrenIn
    <3>2. CASE c \in add[p] BY <1>4, <1>5, <1>6, <1>7, <3>2 DEF ChildrenIn
    <3>. QED BY <1>1, <3>1, <3>2 DEF ChildrenIn
  <2>. QED BY <2>1, <2>2 DEF Orphanless
<1>11. \A ev \in EventsIn(db) : ev.id # tx[p].at /\ ev.sid # tx[p].at
  BY <1>2, Fresh DEF EventsIn, Numbers
<1>12. sid # tx[p].at BY <1>2 DEF Settled
<1>13. \A id : id # sid => EventsOf(db', id) = EventsOf(db, id)
  BY <1>4, <1>7 DEF EventsOf
<1>14. EventsOf(db', sid) = EventsOf(db, sid) \cup {own}
  BY <1>4, <1>7 DEF EventsOf
<1>15. ASSUME NEW s \in SessionsIn(db')
       PROVE  s.id = tx[p].at \/ \E t \in SessionsIn(db) : t.id = s.id
  <2>1. CASE s \in db BY <2>1 DEF SessionsIn
  <2>2. CASE s \in add[p]
    <3>1. Made(p, s) BY <1>2, <2>2 DEF WritesInv, SessionsIn
    <3>. QED BY <1>2, <3>1 DEF Made, WritesInv, SessionsIn
  <2>. QED BY <1>1, <2>1, <2>2 DEF SessionsIn
<1>16. ASSUME NEW s \in SessionsIn(db')
       PROVE  /\ IsFiniteSet(EventsOf(db', s.id))
              /\ {ev.seq : ev \in EventsOf(db', s.id)} = 1..Cardinality(EventsOf(db', s.id))
  <2>1. CASE s.id = tx[p].at
    <3>1. EventsOf(db', s.id) = {} BY <1>11, <1>12, <1>13, <2>1 DEF EventsOf
    <3>. QED BY <3>1, EmptyDense
  <2>2. CASE s.id # tx[p].at /\ s.id # sid
    BY <1>3, <1>13, <1>15, <2>2 DEF Dense
  <2>3. CASE s.id = sid
    <3>. DEFINE evs == EventsOf(db, sid)
                n == Cardinality(evs)
    <3>1. \E t \in SessionsIn(db) : t.id = sid BY <1>12, <1>15, <2>3
    <3>2. IsFiniteSet(evs) /\ {ev.seq : ev \in evs} = 1..n BY <1>3, <3>1 DEF Dense
    <3>3. n \in Nat BY <3>2, FS_CardinalityType
    <3>4. own \notin evs BY <1>4, <1>11 DEF EventsOf
    <3>5. own.seq = n + 1 BY <1>3, <1>4
    <3>. HIDE DEF evs
    <3>6. IsFiniteSet(evs \cup {own}) /\ Cardinality(evs \cup {own}) = n + 1
      BY <3>2, <3>4, FS_AddElement
    <3>7. {ev.seq : ev \in evs \cup {own}} = (1..n) \cup {n + 1} BY <3>2, <3>5
    <3>8. (1..n) \cup {n + 1} = 1..(n + 1) BY <3>3
    <3>9. EventsOf(db', s.id) = evs \cup {own} BY <1>14, <2>3 DEF evs
    <3>. QED BY <3>6, <3>7, <3>8, <3>9
  <2>. QED BY <2>1, <2>2, <2>3
<1>. QED BY <1>10, <1>16 DEF Dense

\* The commit of a create: a session without events.
LEMMA SerialCreated ==
    ASSUME StoreInv, SerialInv, serial, NEW p \in Writers, Commit(p), tx[p].op = "create"
    PROVE  Orphanless' /\ Dense'
<1>1. db' = (db \ rem[p]) \cup add[p] /\ tx[p].pc = "commit" BY DEF Commit
<1>2. /\ Open(p) /\ WritesInv(p) /\ rem[p] = {}
      /\ EventsIn(add[p]) = {} /\ ChildrenIn(add[p]) = {}
  BY <1>1 DEF StoreInv, CallInv, StageInv, CreateInv
<1>3. /\ Orphanless /\ Dense
      /\ \A r \in StateIn(add[p]) : \E s \in SessionsIn(add[p]) : s.id = r.sid
  BY <1>1 DEF SerialInv, SerialCall
<1>4. EventsIn(db') = EventsIn(db) /\ ChildrenIn(db') = ChildrenIn(db)
  BY <1>1, <1>2 DEF EventsIn, ChildrenIn
<1>5. SessionsIn(db') = SessionsIn(db) \cup SessionsIn(add[p])
  BY <1>1, <1>2 DEF SessionsIn
<1>6. StateIn(db') = StateIn(db) \cup StateIn(add[p])
  BY <1>1, <1>2 DEF StateIn
<1>7. Orphanless' BY <1>3, <1>4, <1>5, <1>6 DEF Orphanless
<1>8. \A id : EventsOf(db', id) = EventsOf(db, id) BY <1>4 DEF EventsOf
<1>9. ASSUME NEW s \in SessionsIn(add[p]) PROVE EventsOf(db, s.id) = {}
  <2>1. s.id = tx[p].at BY <1>2 DEF WritesInv, Made, SessionsIn
  <2>. QED BY <1>2, <2>1, Fresh DEF EventsOf, EventsIn, Numbers
<1>10. Dense'
  <2>1. ASSUME NEW s \in SessionsIn(add[p])
        PROVE  /\ IsFiniteSet(EventsOf(db, s.id))
               /\ {ev.seq : ev \in EventsOf(db, s.id)} = 1..Cardinality(EventsOf(db, s.id))
    BY <1>9, EmptyDense
  <2>. QED BY <1>3, <1>5, <1>8, <2>1 DEF Dense
<1>. QED BY <1>7, <1>10

\* The commit of a delete: the session goes with all its rows, or nothing does.
LEMMA SerialDeleted ==
    ASSUME StoreInv, SerialInv, serial, NEW p \in Writers, Commit(p), tx[p].op = "delete"
    PROVE  Orphanless' /\ Dense'
<1>. DEFINE sid == tx[p].sid
<1>1. db' = (db \ rem[p]) \cup add[p] /\ tx[p].pc = "commit" BY DEF Commit
<1>2. add[p] = {} /\ \A ev \in EventsIn(rem[p]) : ev.sid = sid
  BY <1>1 DEF StoreInv, CallInv, StageInv, DeleteInv
<1>3. db' = db \ rem[p] BY <1>1, <1>2
<1>4. /\ Orphanless /\ Dense
      /\ \A s \in SessionsIn(rem[p]) : s.id = sid
      /\ rem[p] = {} \/ (ChildrenGone(p) /\ EventsGone(p) /\ StateGone(p))
  BY <1>1 DEF SerialInv, SerialCall
<1>5. CASE rem[p] = {}
  <2>1. db' = db BY <1>3, <1>5
  <2>. QED BY <1>4, <2>1 DEF Orphanless, Dense
<1>6. CASE ChildrenGone(p) /\ EventsGone(p) /\ StateGone(p)
  <2>1. \A r \in EventsIn(db') \cup StateIn(db') : r.sid # sid
    BY <1>3, <1>6 DEF EventsGone, StateGone, EventsOf, StateOf, EventsIn, StateIn
  <2>2. \A s \in SessionsIn(db) : s.id # sid => s \in SessionsIn(db')
    BY <1>3, <1>4 DEF SessionsIn
  <2>3. \A r \in EventsIn(db') \cup StateIn(db') : r \in EventsIn(db) \cup StateIn(db)
    BY <1>3 DEF EventsIn, StateIn
  <2>4. \A r \in EventsIn(db') \cup StateIn(db') : \E s \in SessionsIn(db') : s.id = r.sid
    BY <1>4, <2>1, <2>2, <2>3 DEF Orphanless
  <2>5. ASSUME NEW c \in ChildrenIn(db') PROVE \E ev \in EventsIn(db') : ev.id = c.ev
    <3>1. c \in ChildrenIn(db) /\ c \in ChildrenIn(db \ rem[p]) BY <1>3 DEF ChildrenIn
    <3>2. PICK ev \in EventsIn(db) : ev.id = c.ev BY <1>4, <3>1 DEF Orphanless
    <3>3. ev.sid # sid BY <1>6, <3>1, <3>2 DEF ChildrenGone
    <3>. QED BY <1>2, <1>3, <3>2, <3>3 DEF EventsIn
  <2>6. \A id : id # sid => EventsOf(db', id) = EventsOf(db, id)
    BY <1>2, <1>3 DEF EventsOf, EventsIn
  <2>7. EventsOf(db', sid) = {} BY <2>1 DEF EventsOf
  <2>8. \A s \in SessionsIn(db') : s \in SessionsIn(db) BY <1>3 DEF SessionsIn
  <2>9. ASSUME NEW s \in SessionsIn(db')
        PROVE  /\ IsFiniteSet(EventsOf(db', s.id))
               /\ {ev.seq : ev \in EventsOf(db', s.id)} = 1..Cardinality(EventsOf(db', s.id))
    <3>1. CASE s.id = sid BY <2>7, <3>1, EmptyDense
    <3>2. CASE s.id # sid BY <1>4, <2>6, <2>8, <3>2 DEF Dense
    <3>. QED BY <3>1, <3>2
  <2>. QED BY <2>4, <2>5, <2>9 DEF Orphanless, Dense
<1>. QED BY <1>4, <1>5, <1>6

LEMMA SerialCommit ==
    ASSUME StoreInv, SerialInv, NEW p \in Writers, Commit(p), UNCHANGED serial
    PROVE  SerialInv'
<1>. SUFFICES ASSUME serial PROVE SerialInv' BY DEF SerialInv
<1>1. /\ db' = (db \ rem[p]) \cup add[p] /\ tx[p].pc = "commit"
      /\ tx' = [tx EXCEPT ![p] = Idle]
      /\ add' = [add EXCEPT ![p] = {}] /\ rem' = [rem EXCEPT ![p] = {}]
  BY DEF Commit, EndTx
<1>2. DOMAIN tx = Writers /\ DOMAIN add = Writers /\ DOMAIN rem = Writers
  BY DEF StoreInv, LocksInv
<1>3. tx'[p] = Idle /\ \A q \in Writers \ {p} : Still(q) BY <1>1, <1>2 DEF Still
<1>4. StageInv(p) /\ Open(p) BY <1>1, CommitsWhat DEF StoreInv, CallInv
<1>5. \A q \in Writers \ {p} : ~Open(q) /\ ~Open(q)'
  BY <1>3, <1>4 DEF SerialInv, Open, Still
<1>6. ~Open(p)' BY <1>3, IdleFields DEF Open
<1>7. ASSUME NEW q \in Writers PROVE SerialCall(q)'
  <2>1. CASE q = p BY <1>3, <2>1, IdleFields DEF SerialCall
  <2>2. CASE q # p
    <3>1. StageInv(q) BY DEF StoreInv, CallInv
    <3>2. tx[q].op \in {"none", "get"} BY <1>5, <2>2, <3>1, SerialClosed
    <3>3. tx'[q].op \in {"none", "get"} BY <1>3, <2>2, <3>2 DEF Still
    <3>. QED BY <3>3 DEF SerialCall
  <2>. QED BY <2>1, <2>2
<1>8. Orphanless' /\ Dense'
  <2>1. CASE tx[p].op = "create" BY <2>1, SerialCreated
  <2>2. CASE tx[p].op = "delete" BY <2>2, SerialDeleted
  <2>3. CASE tx[p].op = "append" /\ Wrote(p) BY <2>3, SerialAppended
  <2>4. CASE tx[p].op = "append" /\ Clean(p)
    <3>1. db' = db BY <1>1, <2>4 DEF Clean
    <3>. QED BY <3>1 DEF SerialInv, Orphanless, Dense
  <2>. QED BY <1>1, <1>4, <2>1, <2>2, <2>3, <2>4 DEF StageInv, IdleInv, AppendInv
<1>. QED BY <1>5, <1>6, <1>7, <1>8 DEF SerialInv

LEMMA SerialCalls ==
    ASSUME StoreInv, SerialInv, NEW p \in Writers, NEW n \in Names, UNCHANGED serial,
           Create(p, n) \/ Delete(p, n) \/ \E e \in Adk : AppendEvent(p, n, e)
    PROVE  SerialInv'
<1>1. CASE Create(p, n)
  <2>. DEFINE call == [Idle EXCEPT !.op = "create", !.pc = "insert", !.name = n]
  <2>1. call.op = "create" /\ DOMAIN call = Fields BY IdleFields DEF Fields
  <2>2. Begin(p, call) BY <1>1 DEF Create
  <2>. HIDE DEF call
  <2>. QED BY <2>1, <2>2, SerialBegin
<1>2. CASE Delete(p, n)
  <2>. DEFINE call == [Idle EXCEPT !.op = "delete", !.pc = "find", !.name = n]
  <2>1. call.op = "delete" /\ call.pc = "find" /\ DOMAIN call = Fields
    BY IdleFields DEF Fields
  <2>2. Begin(p, call) BY <1>2 DEF Delete
  <2>. HIDE DEF call
  <2>. QED BY <2>1, <2>2, SerialBegin
<1>3. ASSUME NEW e \in Adk, AppendEvent(p, n, e) PROVE SerialInv'
  <2>. DEFINE call == [Idle EXCEPT !.op = "append", !.pc = "ref", !.name = n, !.adk = e]
  <2>1. call.op = "append" /\ call.pc = "ref" /\ DOMAIN call = Fields
    BY IdleFields DEF Fields
  <2>2. Begin(p, call) BY <1>3 DEF AppendEvent
  <2>. HIDE DEF call
  <2>. QED BY <2>1, <2>2, SerialBegin
<1>. QED BY <1>1, <1>2, <1>3

LEMMA SerialNext == StoreInv /\ StoreInv' /\ SerialInv /\ [Next]_vars => SerialInv'
<1>1. ASSUME StoreInv, StoreInv', SerialInv, NEW p \in Writers, Step(p), UNCHANGED serial
      PROVE  SerialInv'
  <2>1. CASE \E n \in Names : \/ Create(p, n) \/ Delete(p, n)
                             \/ \E e \in Adk : AppendEvent(p, n, e)
    BY <1>1, <2>1, SerialCalls
  <2>2. CASE (\E n \in Names : Get(p, n)) \/ GetShared(p) \/ Release(p) \/ Rollback(p)
    BY <1>1, <2>2, SerialReads
  <2>3. CASE Progress(p)
    BY <1>1, <2>3, SerialCreate, SerialRef, SerialMax, SerialInsert, SerialChildren,
       SerialTouch, SerialFind, SerialDelete, SerialCommit DEF Progress
  <2>. QED BY <1>1, <2>1, <2>2, <2>3 DEF Step
<1>2. ASSUME SerialInv, UNCHANGED vars PROVE SerialInv'
  <2>. UNCHANGED <<serial, db, tx, add, rem>> BY <1>2 DEF vars
  <2>1. \A q \in Writers : SerialCall(q)' = SerialCall(q)
    BY DEF SerialCall, OwnSession, Visible, ChildrenGone, EventsGone, StateGone
  <2>. QED BY <1>2, <2>1 DEF SerialInv, Open, Orphanless, Dense
<1>. QED BY <1>1, <1>2 DEF Next

LEMMA SerialInvariant == Spec => []SerialInv
<1>. QED BY SerialInit, SerialNext, StoreInvariant, PTL DEF Spec

\* Over PGlite nothing is orphaned: whatever is stored belongs to a session or
\* an event that is stored, however calls fail and are retried.
THEOREM NothingOrphaned == Spec => []NoOrphans
<1>1. SerialInv => NoOrphans BY DEF SerialInv, Orphanless, NoOrphans
<1>. QED BY <1>1, SerialInvariant, PTL

\* Over PGlite the events of a session are numbered 1..n, however many appends
\* of whatever sessions were lost, retried or repeated in between.
THEOREM SequenceStaysDense == Spec => []SequenceDense
<1>1. SerialInv => SequenceDense BY DEF SerialInv, Dense, SequenceDense
<1>. QED BY <1>1, SerialInvariant, PTL

-----------------------------------------------------------------------------
(* Where transactions run one at a time: what Get returns.                 *)

\* Every event's delta is in the session's state, or a later one is.
EventState ==
    \A ev \in EventsIn(db) : Delta[ev.adk] \in Scopes =>
        \E r \in StateOf(db, ev.sid) : r.scope = Delta[ev.adk] /\ r.at >= ev.id

\* A value is the one the session was created with, or that of an event of it.
StateFrom ==
    \A r \in StateIn(db) : r.at = r.sid \/ \E ev \in EventsOf(db, r.sid) : ev.id = r.at

\* The session has one name for as long as it is stored.
OneName == \A a, b \in SessionsIn(db) : a.id = b.id => a.name = b.name

\* The state rows, and the session row, an open call has written and removed.
StateWritten(p) ==
    /\ tx[p].op = "create" =>
         /\ \A r \in StateIn(add[p]) : r.at = tx[p].at /\ r.sid = tx[p].at
         /\ \A s \in SessionsIn(add[p]) : s.name = tx[p].name
    /\ tx[p].op = "append" =>
         /\ \A s \in SessionsIn(add[p]) : s.id = tx[p].sid
         /\ \A r \in StateIn(add[p]) : r.at = tx[p].at /\ r.sid = tx[p].sid
         /\ \A r \in StateIn(rem[p]) : \E n \in StateIn(add[p]) :
              n.sid = r.sid /\ n.scope = r.scope
         /\ tx[p].pc \in {"touch", "commit"} /\ add[p] # {} /\ Delta[tx[p].adk] \in Scopes =>
              StateRow(tx[p].sid, Delta[tx[p].adk], tx[p].at) \in add[p]
    /\ tx[p].op = "delete" => \A r \in StateIn(rem[p]) : r.sid = tx[p].sid

StateInv == serial =>
    /\ \A p \in Writers : Open(p) => tx[p].at = clock
    /\ EventState /\ StateFrom /\ OneName
    /\ \A p \in Writers : StateWritten(p)

LEMMA StateInit == Init => StateInv
<1>. SUFFICES ASSUME Init PROVE StateInv OBVIOUS
<1>1. db = {} BY DEF Init
<1>2. EventState /\ StateFrom /\ OneName
  BY <1>1 DEF EventState, StateFrom, OneName, EventsIn, StateIn, SessionsIn
<1>3. \A p \in Writers : tx[p] = Idle BY DEF Init
<1>4. \A p \in Writers : ~Open(p) /\ StateWritten(p) BY <1>3, IdleFields DEF Open, StateWritten
<1>. QED BY <1>2, <1>4 DEF StateInv

\* A step of p that leaves the tables and the other calls alone.
LEMMA StateMove ==
    ASSUME StateInv, NEW p \in Writers, UNCHANGED serial, db' = db,
           \A q \in Writers \ {p} : Still(q),
           serial => StateWritten(p)',
           serial /\ Open(p)' => tx'[p].at = clock',
           serial => clock' = clock \/ \A q \in Writers \ {p} : ~Open(q)
    PROVE  StateInv'
<1>. SUFFICES ASSUME serial PROVE StateInv' BY DEF StateInv
<1>1. EventState' BY DEF StateInv, EventState
<1>2. StateFrom' /\ OneName' BY DEF StateInv, StateFrom, OneName
<1>3. \A q \in Writers \ {p} : StateWritten(q)'
  BY DEF StateInv, StateWritten, Still
<1>4. \A q \in Writers : Open(q)' => tx'[q].at = clock'
  BY DEF StateInv, Open, Still
<1>. QED BY <1>1, <1>2, <1>3, <1>4 DEF StateInv

LEMMA StateStatement ==
    ASSUME StoreInv, StateInv, NEW p \in Writers, NEW del, NEW ins, NEW next,
           Statement(p, del, ins, next), UNCHANGED serial, Open(p),
           next.at = tx[p].at, DOMAIN next = Fields, serial => StateWritten(p)'
    PROVE  StateInv'
<1>1. LocksInv BY DEF StoreInv
<1>2. /\ db' = db /\ clock' = clock /\ tx'[p] = next
      /\ \A q \in Writers \ {p} : Still(q)
  BY <1>1, StatementFacts
<1>3. serial => tx'[p].at = clock' BY <1>2 DEF StateInv
<1>. QED BY <1>2, <1>3, StateMove

LEMMA StateCreate ==
    ASSUME StoreInv, StateInv, NEW p \in Writers, create_session(p), UNCHANGED serial
    PROVE  StateInv'
<1>. DEFINE row == SessionRow(tx[p].at, tx[p].name, tx[p].at)
            states == stateDocument(tx[p].at, tx[p].at)
            ins == {row} \cup states
            next == Goto(p, "commit")
<1>1. Statement(p, {}, ins, next) /\ tx[p].op = "create" /\ tx[p].pc = "insert"
  BY DEF create_session, NewSession
<1>2. Open(p) /\ add[p] = {} /\ LocksInv
  BY <1>1 DEF StoreInv, CallInv, StageInv, CreateInv
<1>3. /\ DOMAIN next = Fields /\ next.at = tx[p].at /\ next.op = "create"
      /\ next.name = tx[p].name
  BY <1>1, GotoFields
<1>4. row.tab = "session" /\ row.name = tx[p].name BY DEF SessionRow
<1>5. \A r \in states : r.tab = "state" /\ r.sid = tx[p].at /\ r.at = tx[p].at
  BY DEF stateDocument, StateRow
<1>6. tx'[p] = next /\ add'[p] = ins
  BY <1>1, <1>2, <1>3, StatementFacts
<1>. HIDE DEF row, states, next
<1>7. StateWritten(p)' BY <1>3, <1>4, <1>5, <1>6 DEF StateWritten, StateIn, SessionsIn
<1>. HIDE DEF ins
<1>. QED BY <1>1, <1>2, <1>3, <1>7, StateStatement

\* A statement that writes nothing, of a call that has written nothing.
LEMMA StateSilent ==
    ASSUME StoreInv, StateInv, NEW p \in Writers, NEW next,
           tx[p].op \in {"append", "delete"}, Open(p), Clean(p),
           Statement(p, {}, {}, next), UNCHANGED serial,
           DOMAIN next = Fields, next.op = tx[p].op, next.at = tx[p].at
    PROVE  StateInv'
<1>1. LocksInv BY DEF StoreInv
<1>2. tx'[p] = next /\ add'[p] = {} /\ rem'[p] = {}
  BY <1>1, StatementFacts DEF Clean
<1>3. StateWritten(p)' BY <1>2 DEF StateWritten, StateIn, SessionsIn
<1>. QED BY <1>3, StateStatement

LEMMA StateRefMax ==
    ASSUME StoreInv, StateInv, NEW p \in Writers, SessionRef(p) \/ append_max(p), UNCHANGED serial
    PROVE  StateInv'
<1>1. tx[p].op = "append" /\ tx[p].pc \in {"ref", "max"} BY DEF SessionRef, append_max
<1>2. Open(p) /\ Clean(p) /\ DOMAIN tx[p] = Fields
  BY <1>1 DEF StoreInv, CallInv, StageInv, AppendInv, LocksInv
<1>3. ASSUME NEW id, Statement(p, {}, {}, [tx[p] EXCEPT !.pc = "max", !.sid = id])
      PROVE  StateInv'
  <2>. DEFINE next == [tx[p] EXCEPT !.pc = "max", !.sid = id]
  <2>1. DOMAIN next = Fields /\ next.op = tx[p].op /\ next.at = tx[p].at
    BY <1>2 DEF Fields
  <2>2. Statement(p, {}, {}, next) BY <1>3
  <2>. HIDE DEF next
  <2>. QED BY <1>1, <1>2, <2>1, <2>2, StateSilent
<1>4. ASSUME NEW n, Statement(p, {}, {}, [tx[p] EXCEPT !.pc = "insert", !.seq = n])
      PROVE  StateInv'
  <2>. DEFINE next == [tx[p] EXCEPT !.pc = "insert", !.seq = n]
  <2>1. DOMAIN next = Fields /\ next.op = tx[p].op /\ next.at = tx[p].at
    BY <1>2 DEF Fields
  <2>2. Statement(p, {}, {}, next) BY <1>4
  <2>. HIDE DEF next
  <2>. QED BY <1>1, <1>2, <2>1, <2>2, StateSilent
<1>. QED BY <1>3, <1>4 DEF SessionRef, append_max

LEMMA StateInsert ==
    ASSUME StoreInv, StateInv, NEW p \in Writers, append_insert(p), UNCHANGED serial
    PROVE  StateInv'
<1>. DEFINE row == EventRow(tx[p].at, tx[p].sid, tx[p].adk, tx[p].seq)
            next == Goto(p, "children")
            to == Goto(p, "commit")
<1>1. /\ tx[p].op = "append" /\ tx[p].pc = "insert"
      /\ Statement(p, {}, {row}, next) \/ Statement(p, {}, {}, to)
  BY DEF append_insert, NewEvent
<1>2. Open(p) /\ Clean(p) /\ LocksInv
  BY <1>1 DEF StoreInv, CallInv, StageInv, AppendInv
<1>3. /\ DOMAIN next = Fields /\ next.at = tx[p].at /\ next.op = "append"
      /\ next.pc = "children"
      /\ DOMAIN to = Fields /\ to.at = tx[p].at /\ to.op = "append"
  BY <1>1, GotoFields
<1>4. row.tab = "event" BY DEF EventRow
<1>. HIDE DEF row, next, to
<1>5. CASE Statement(p, {}, {}, to) BY <1>1, <1>2, <1>3, <1>5, StateSilent
<1>6. CASE Statement(p, {}, {row}, next)
  <2>1. tx'[p] = next /\ add'[p] = {row} /\ rem'[p] = {}
    BY <1>2, <1>3, <1>6, StatementFacts DEF Clean
  <2>2. StateWritten(p)' BY <1>3, <1>4, <2>1 DEF StateWritten, StateIn, SessionsIn
  <2>. QED BY <1>2, <1>3, <1>6, <2>2, StateStatement
<1>. QED BY <1>1, <1>5, <1>6

\* The deltas of the event take the place of the values they replace.
LEMMA StateChildren ==
    ASSUME StoreInv, StateInv, NEW p \in Writers, append_children(p), UNCHANGED serial
    PROVE  StateInv'
<1>. SUFFICES ASSUME serial PROVE StateInv' BY DEF StateInv
<1>. DEFINE new == {StateRow(tx[p].sid, s, tx[p].at) : s \in Persisted({Delta[tx[p].adk]})}
            old == {r \in StateOf(Visible(p), tx[p].sid) : \E n \in new : RowKey(n) = RowKey(r)}
            next == Goto(p, "touch")
<1>1. tx[p].op = "append" /\ tx[p].pc = "children" BY DEF append_children, NewState
<1>2. PICK ev \in Stored(p) : Statement(p, old, new \cup {ChildRows(ev.id, tx[p].at)}, next)
  BY DEF append_children, NewState
<1>. DEFINE ins == new \cup {ChildRows(ev.id, tx[p].at)}
<1>3. Open(p) /\ LocksInv /\ add[p] = {NewEvent(p)}
  BY <1>1 DEF StoreInv, CallInv, StageInv, AppendInv
<1>4. StateIn(add[p]) = {} /\ SessionsIn(add[p]) = {}
  BY <1>3 DEF StateIn, SessionsIn, NewEvent, EventRow
<1>5. StateIn(rem[p]) = {} BY <1>1, <1>4 DEF StateInv, StateWritten
<1>6. /\ DOMAIN next = Fields /\ next.at = tx[p].at /\ next.op = "append"
      /\ next.pc = "touch" /\ next.sid = tx[p].sid /\ next.adk = tx[p].adk
  BY <1>1, GotoFields
<1>7. \A r \in new : r.tab = "state" /\ r.sid = tx[p].sid /\ r.at = tx[p].at
  BY DEF StateRow
<1>8. ChildRows(ev.id, tx[p].at).tab = "child" BY DEF ChildRows
<1>9. \A r \in old : r.tab = "state" /\ \E n \in new : n.sid = r.sid /\ n.scope = r.scope
  <2>1. \A r \in old : r.tab = "state" BY DEF StateOf, StateIn
  <2>2. \A n \in new, r \in old : RowKey(n) = RowKey(r) => n.sid = r.sid /\ n.scope = r.scope
    BY <1>7, <2>1, KeyFacts DEF Tabs
  <2>. QED BY <2>1, <2>2
<1>10. Delta[tx[p].adk] \in Scopes => StateRow(tx[p].sid, Delta[tx[p].adk], tx[p].at) \in new
  BY DEF Persisted, Scopes
<1>11. Statement(p, old, ins, next) BY <1>2
<1>12. StateIn(ins) = new /\ new \subseteq ins /\ SessionsIn(ins) = {}
  BY <1>7, <1>8 DEF StateIn, SessionsIn
<1>. HIDE DEF old, new, ins, next
<1>13. /\ tx'[p] = next /\ add'[p] = (add[p] \ old) \cup ins
       /\ rem'[p] = rem[p] \cup (old \cap db)
  BY <1>3, <1>6, <1>11, StatementFacts
<1>14. StateIn(add'[p]) = new /\ SessionsIn(add'[p]) = {}
  BY <1>4, <1>12, <1>13 DEF StateIn, SessionsIn
<1>15. StateIn(rem'[p]) \subseteq old BY <1>5, <1>13 DEF StateIn
<1>16. new \subseteq add'[p] BY <1>12, <1>13
<1>17. StateWritten(p)' BY <1>6, <1>7, <1>9, <1>10, <1>13, <1>14, <1>15, <1>16 DEF StateWritten
<1>. QED BY <1>3, <1>6, <1>11, <1>17, StateStatement

\* A statement that only touches rows of other tables.
LEMMA StateTouch ==
    ASSUME StoreInv, StateInv, NEW p \in Writers, append_touch(p), UNCHANGED serial
    PROVE  StateInv'
<1>. SUFFICES ASSUME serial PROVE StateInv' BY DEF StateInv
<1>. DEFINE old == {r \in SessionsIn(Visible(p)) : r.id = tx[p].sid}
            Touched(r) == SessionRow(r.id, r.name, tx[p].at)
            ins == {Touched(r) : r \in old}
            next == Goto(p, "commit")
<1>1. /\ tx[p].op = "append" /\ tx[p].pc = "touch"
      /\ Statement(p, old, {[r EXCEPT !.upd = tx[p].at] : r \in old}, next)
  BY DEF append_touch, ItsSession
<1>2. Open(p) /\ LocksInv /\ Wrote(p)
  BY <1>1 DEF StoreInv, CallInv, StageInv, AppendInv
<1>3. /\ DOMAIN next = Fields /\ next.at = tx[p].at /\ next.op = "append"
      /\ next.pc = "commit" /\ next.sid = tx[p].sid /\ next.adk = tx[p].adk
  BY <1>1, GotoFields
<1>4. \A r \in old : /\ r.tab = "session" /\ r.id = tx[p].sid
                     /\ [r EXCEPT !.upd = tx[p].at] = Touched(r)
  BY SeenRows DEF SessionsIn, RowOK, SessionRow
<1>5. \A r \in ins : r.tab = "session" /\ r.id = tx[p].sid BY <1>4 DEF SessionRow
<1>6. Statement(p, old, ins, next)
  <2>1. {[r EXCEPT !.upd = tx[p].at] : r \in old} = ins BY <1>4
  <2>. QED BY <1>1, <2>1
<1>. HIDE DEF old, ins, next
<1>7. /\ tx'[p] = next /\ add'[p] = (add[p] \ old) \cup ins
      /\ rem'[p] = rem[p] \cup (old \cap db)
  BY <1>2, <1>3, <1>6, StatementFacts
<1>8. StateIn(add'[p]) = StateIn(add[p]) /\ StateIn(rem'[p]) = StateIn(rem[p])
  BY <1>4, <1>5, <1>7 DEF StateIn
<1>9. add[p] # {} BY <1>2 DEF Wrote, EventsIn
<1>10. \A s, n, at : StateRow(s, n, at) \in add[p] => StateRow(s, n, at) \in add'[p]
  BY <1>4, <1>7 DEF StateRow
<1>11. StateWritten(p) BY DEF StateInv
<1>12. StateWritten(p)'
  <2>1. \A r \in StateIn(add'[p]) : r.at = tx[p].at /\ r.sid = tx[p].sid
    BY <1>1, <1>8, <1>11 DEF StateWritten
  <2>2. \A r \in StateIn(rem'[p]) : \E n \in StateIn(add'[p]) :
              n.sid = r.sid /\ n.scope = r.scope
    BY <1>1, <1>8, <1>11 DEF StateWritten
  <2>3. Delta[tx[p].adk] \in Scopes =>
              StateRow(tx[p].sid, Delta[tx[p].adk], tx[p].at) \in add'[p]
    BY <1>1, <1>9, <1>10, <1>11 DEF StateWritten
  <2>4. \A s \in SessionsIn(add'[p]) : s.id = tx[p].sid
    BY <1>1, <1>5, <1>7, <1>11 DEF StateWritten, SessionsIn
  <2>. QED BY <1>3, <1>7, <2>1, <2>2, <2>3, <2>4 DEF StateWritten
<1>. QED BY <1>2, <1>3, <1>6, <1>12, StateStatement

LEMMA StateFind ==
    ASSUME StoreInv, StateInv, NEW p \in Writers, delete_find(p), UNCHANGED serial
    PROVE  StateInv'
<1>1. tx[p].op = "delete" /\ tx[p].pc = "find" BY DEF delete_find
<1>2. Open(p) /\ Clean(p) /\ DOMAIN tx[p] = Fields
  BY <1>1 DEF StoreInv, CallInv, StageInv, DeleteInv, LocksInv, Clean
<1>3. CASE Statement(p, {}, {}, Goto(p, "commit"))
  <2>. DEFINE next == Goto(p, "commit")
  <2>1. DOMAIN next = Fields /\ next.op = tx[p].op /\ next.at = tx[p].at BY GotoFields
  <2>2. Statement(p, {}, {}, next) BY <1>3
  <2>. HIDE DEF next
  <2>. QED BY <1>1, <1>2, <2>1, <2>2, StateSilent
<1>4. ASSUME NEW id, Statement(p, {}, {}, [tx[p] EXCEPT !.pc = "children", !.sid = id])
      PROVE  StateInv'
  <2>. DEFINE next == [tx[p] EXCEPT !.pc = "children", !.sid = id]
  <2>1. DOMAIN next = Fields /\ next.op = tx[p].op /\ next.at = tx[p].at
    BY <1>2 DEF Fields
  <2>2. Statement(p, {}, {}, next) BY <1>4
  <2>. HIDE DEF next
  <2>. QED BY <1>1, <1>2, <2>1, <2>2, StateSilent
<1>. QED BY <1>3, <1>4 DEF delete_find

LEMMA StateDelete ==
    ASSUME StoreInv, StateInv, NEW p \in Writers, UNCHANGED serial,
           delete_children(p) \/ delete_events(p) \/ delete_state(p) \/ delete_row(p)
    PROVE  StateInv'
<1>. SUFFICES ASSUME serial PROVE StateInv' BY DEF StateInv
<1>1. ASSUME NEW pc, NEW rows, NEW next, DeleteRows(p, pc, rows, next),
             \A r \in StateIn(rows) : r.sid = tx[p].sid
      PROVE  StateInv'
  <2>. DEFINE to == Goto(p, next)
  <2>1. tx[p].op = "delete" /\ Statement(p, rows, {}, to) BY <1>1 DEF DeleteRows
  <2>2. Open(p) /\ LocksInv BY <2>1 DEF StoreInv, CallInv, StageInv, DeleteInv
  <2>3. DOMAIN to = Fields /\ to.at = tx[p].at /\ to.op = "delete" /\ to.sid = tx[p].sid
    BY <2>1, GotoFields
  <2>. HIDE DEF to
  <2>4. tx'[p] = to /\ rem'[p] = rem[p] \cup (rows \cap db)
    BY <2>1, <2>2, <2>3, StatementFacts
  <2>5. StateWritten(p) BY DEF StateInv
  <2>6. StateWritten(p)' BY <1>1, <2>1, <2>3, <2>4, <2>5 DEF StateWritten, StateIn
  <2>. QED BY <2>1, <2>2, <2>3, <2>6, StateStatement
<1>. DEFINE sid == tx[p].sid
            Children == {r \in ChildrenIn(Visible(p)) :
                           \E ev \in EventsOf(Visible(p), tx[p].sid) : ev.id = r.ev}
            Sessions == {r \in SessionsIn(Visible(p)) : r.id = tx[p].sid}
<1>2. CASE delete_children(p)
  <2>1. \A r \in StateIn(Children) : r.sid = sid BY DEF StateIn, ChildrenIn
  <2>2. DeleteRows(p, "children", Children, "events") BY <1>2 DEF delete_children, DoomedChildren
  <2>. QED BY <1>1, <2>1, <2>2
<1>3. CASE delete_events(p)
  <2>1. \A r \in StateIn(EventsOf(Visible(p), sid)) : r.sid = sid BY DEF StateIn, EventsOf
  <2>. QED BY <1>1, <1>3, <2>1 DEF delete_events
<1>4. CASE delete_state(p)
  <2>1. \A r \in StateIn(StateOf(Visible(p), sid)) : r.sid = sid BY DEF StateIn, StateOf
  <2>. QED BY <1>1, <1>4, <2>1 DEF delete_state
<1>5. CASE delete_row(p)
  <2>1. \A r \in StateIn(Sessions) : r.sid = sid BY DEF StateIn, SessionsIn
  <2>2. DeleteRows(p, "session", Sessions, "commit") BY <1>5 DEF delete_row, ItsSession
  <2>. QED BY <1>1, <2>1, <2>2
<1>. QED BY <1>2, <1>3, <1>4, <1>5

LEMMA StateBegin ==
    ASSUME StoreInv, StateInv, NEW p \in Writers, NEW call, Begin(p, call), UNCHANGED serial,
           DOMAIN call = Fields
    PROVE  StateInv'
<1>. DEFINE next == [call EXCEPT !.at = clock + 1]
<1>1. /\ tx[p] = Idle /\ BackendFree(p) /\ tx' = [tx EXCEPT ![p] = next]
      /\ db' = db /\ add' = add /\ rem' = rem /\ clock' = clock + 1
  BY DEF Begin
<1>2. next.at = clock' BY <1>1 DEF Fields
<1>. HIDE DEF next
<1>3. DOMAIN tx = Writers /\ StageInv(p) BY DEF StoreInv, LocksInv, CallInv
<1>4. tx'[p] = next /\ \A q \in Writers \ {p} : Still(q) BY <1>1, <1>3 DEF Still
<1>5. add'[p] = {} /\ rem'[p] = {}
  BY <1>1, <1>3, IdleFields DEF StageInv, IdleInv, Clean
<1>6. StateWritten(p)' BY <1>5 DEF StateWritten, StateIn, SessionsIn
<1>. QED BY <1>1, <1>2, <1>4, <1>6, StateMove DEF BackendFree

LEMMA StateCalls ==
    ASSUME StoreInv, StateInv, NEW p \in Writers, NEW n \in Names, UNCHANGED serial,
           Create(p, n) \/ Delete(p, n) \/ \E e \in Adk : AppendEvent(p, n, e)
    PROVE  StateInv'
<1>1. DOMAIN Idle = Fields BY IdleFields
<1>2. CASE Create(p, n)
  <2>. DEFINE call == [Idle EXCEPT !.op = "create", !.pc = "insert", !.name = n]
  <2>1. DOMAIN call = Fields BY <1>1
  <2>2. Begin(p, call) BY <1>2 DEF Create
  <2>. HIDE DEF call
  <2>. QED BY <2>1, <2>2, StateBegin
<1>3. CASE Delete(p, n)
  <2>. DEFINE call == [Idle EXCEPT !.op = "delete", !.pc = "find", !.name = n]
  <2>1. DOMAIN call = Fields BY <1>1
  <2>2. Begin(p, call) BY <1>3 DEF Delete
  <2>. HIDE DEF call
  <2>. QED BY <2>1, <2>2, StateBegin
<1>4. ASSUME NEW e \in Adk, AppendEvent(p, n, e) PROVE StateInv'
  <2>. DEFINE call == [Idle EXCEPT !.op = "append", !.pc = "ref", !.name = n, !.adk = e]
  <2>1. DOMAIN call = Fields BY <1>1
  <2>2. Begin(p, call) BY <1>4 DEF AppendEvent
  <2>. HIDE DEF call
  <2>. QED BY <2>1, <2>2, StateBegin
<1>. QED BY <1>2, <1>3, <1>4

\* A caller left without a transaction: a rollback and the read path.
LEMMA StateReads ==
    ASSUME StoreInv, StoreInv', StateInv, NEW p \in Writers, UNCHANGED serial,
           \/ \E n \in Names : Get(p, n)
           \/ GetShared(p) \/ Release(p) \/ Rollback(p)
    PROVE  StateInv'
<1>1. DOMAIN tx = Writers /\ DOMAIN add = Writers /\ DOMAIN rem = Writers /\ DOMAIN tx[p] = Fields
  BY DEF StoreInv, LocksInv
<1>2. StageInv(p) /\ StageInv(p)' BY DEF StoreInv, CallInv
<1>3. /\ db' = db /\ clock' = clock /\ ~Open(p)' /\ \A q \in Writers \ {p} : Still(q)
  <2>1. CASE Rollback(p)
    BY <2>1, <1>1, IdleFields DEF Rollback, EndTx, Still, Open
  <2>2. CASE Release(p)
    BY <2>2, <1>1, IdleFields DEF Release, Still, Open
  <2>3. CASE GetShared(p)
    <3>1. tx[p].at = 0
      BY <2>3, <1>2 DEF GetShared, StageInv, IdleInv, CreateInv, AppendInv, DeleteInv
    <3>. QED BY <2>3, <1>1, <3>1 DEF GetShared, Still, Open, Fields
  <2>4. ASSUME NEW n \in Names, Get(p, n)
        PROVE  db' = db /\ clock' = clock /\ ~Open(p)' /\ \A q \in Writers \ {p} : Still(q)
    <3>. DEFINE next == [Idle EXCEPT !.op = "get", !.pc = "shared", !.name = n]
    <3>1. tx' = [tx EXCEPT ![p] = next] /\ UNCHANGED <<db, add, rem, clock>> BY <2>4 DEF Get
    <3>2. next.at = 0 BY IdleFields DEF Fields
    <3>. HIDE DEF next
    <3>. QED BY <1>1, <3>1, <3>2 DEF Still, Open
  <2>. QED BY <2>1, <2>2, <2>3, <2>4
<1>4. StateWritten(p)'
  <2>1. tx'[p].op \in {"none", "get"}
    BY <1>2, <1>3 DEF StageInv, CreateInv, AppendInv, DeleteInv
  <2>. QED BY <2>1 DEF StateWritten
<1>. QED BY <1>3, <1>4, StateMove

\* The commit of an append that wrote: its event, and its delta as the state.
LEMMA StateAppended ==
    ASSUME StoreInv, SerialInv, StateInv, serial, NEW p \in Writers, Commit(p),
           tx[p].op = "append", Wrote(p)
    PROVE  EventState' /\ StateFrom'
<1>. DEFINE own == NewEvent(p)
<1>1. db' = (db \ rem[p]) \cup add[p] /\ tx[p].pc = "commit" BY DEF Commit
<1>2. Open(p) /\ rem[p] \subseteq db /\ EventsIn(rem[p]) = {}
  BY <1>1 DEF StoreInv, CallInv, StageInv, AppendInv, WritesInv
<1>3. StateWritten(p) /\ tx[p].at = clock /\ EventState /\ StateFrom
  BY <1>2 DEF StateInv
<1>4. own.tab = "event" /\ own.id = tx[p].at /\ own.sid = tx[p].sid /\ own.adk = tx[p].adk
  BY DEF NewEvent, EventRow
<1>5. EventsIn(add[p]) = {own} BY DEF Wrote
<1>6. clock \in Nat /\ \A ev \in EventsIn(db) : ev.id \in 1..clock
  BY StoreAssumption DEF StoreInv, TablesInv, EventsIn, Numbers, Settled
<1>. HIDE DEF own
<1>7. EventsIn(db') = EventsIn(db) \cup {own}
  BY <1>1, <1>2, <1>5 DEF EventsIn
<1>8. ASSUME NEW ev \in EventsIn(db'), Delta[ev.adk] \in Scopes
      PROVE  \E r \in StateOf(db', ev.sid) : r.scope = Delta[ev.adk] /\ r.at >= ev.id
  <2>1. CASE ev = own
    <3>. DEFINE r == StateRow(tx[p].sid, Delta[tx[p].adk], tx[p].at)
    <3>1. add[p] # {} BY <1>5 DEF EventsIn
    <3>2. r \in add[p] BY <1>1, <1>3, <1>4, <1>8, <2>1, <3>1 DEF StateWritten
    <3>3. r.tab = "state" /\ r.sid = ev.sid /\ r.scope = Delta[ev.adk] /\ r.at >= ev.id
      BY <1>3, <1>4, <1>6, <2>1 DEF StateRow
    <3>. HIDE DEF r
    <3>4. r \in StateOf(db', ev.sid) BY <1>1, <3>2, <3>3 DEF StateOf, StateIn
    <3>. QED BY <3>3, <3>4
  <2>2. CASE ev \in EventsIn(db)
    <3>1. PICK r \in StateOf(db, ev.sid) : r.scope = Delta[ev.adk] /\ r.at >= ev.id
      BY <1>3, <1>8, <2>2 DEF EventState
    <3>2. CASE r \notin rem[p]
      <4>1. r \in StateOf(db', ev.sid) BY <1>1, <3>1, <3>2 DEF StateOf, StateIn
      <4>. QED BY <3>1, <4>1
    <3>3. CASE r \in rem[p]
      <4>1. r \in StateIn(rem[p]) /\ r.sid = ev.sid BY <3>1, <3>3 DEF StateOf, StateIn
      <4>2. PICK n \in StateIn(add[p]) : n.sid = r.sid /\ n.scope = r.scope
        BY <1>3, <4>1 DEF StateWritten
      <4>3. n.at = clock BY <1>3, <4>2 DEF StateWritten
      <4>4. n.at >= ev.id BY <1>6, <2>2, <4>3
      <4>5. n \in StateOf(db', ev.sid) BY <1>1, <4>1, <4>2 DEF StateOf, StateIn
      <4>. QED BY <3>1, <4>2, <4>4, <4>5
    <3>. QED BY <3>2, <3>3
  <2>. QED BY <1>7, <2>1, <2>2
<1>9. ASSUME NEW r \in StateIn(db')
      PROVE  r.at = r.sid \/ \E ev \in EventsOf(db', r.sid) : ev.id = r.at
  <2>1. CASE r \in add[p]
    <3>1. r.at = tx[p].at /\ r.sid = tx[p].sid
      BY <1>3, <2>1, <1>9 DEF StateWritten, StateIn
    <3>2. own \in EventsOf(db', r.sid) BY <1>4, <1>7, <3>1 DEF EventsOf
    <3>. QED BY <1>4, <3>1, <3>2
  <2>2. CASE r \in db
    <3>1. r \in StateIn(db) BY <1>9, <2>2 DEF StateIn
    <3>2. r.at = r.sid \/ \E ev \in EventsOf(db, r.sid) : ev.id = r.at
      BY <1>3, <3>1 DEF StateFrom
    <3>3. EventsOf(db, r.sid) \subseteq EventsOf(db', r.sid) BY <1>7 DEF EventsOf
    <3>. QED BY <3>2, <3>3
  <2>. QED BY <1>1, <1>9, <2>1, <2>2 DEF StateIn
<1>. QED BY <1>8, <1>9 DEF EventState, StateFrom

\* The commit of a create: the session's own initial values.
LEMMA StateCreated ==
    ASSUME StoreInv, StateInv, serial, NEW p \in Writers, Commit(p), tx[p].op = "create"
    PROVE  EventState' /\ StateFrom'
<1>1. db' = (db \ rem[p]) \cup add[p] /\ tx[p].pc = "commit" BY DEF Commit
<1>2. rem[p] = {} /\ EventsIn(add[p]) = {}
  BY <1>1 DEF StoreInv, CallInv, StageInv, CreateInv
<1>3. StateWritten(p) /\ EventState /\ StateFrom BY DEF StateInv
<1>4. EventsIn(db') = EventsIn(db) BY <1>1, <1>2 DEF EventsIn
<1>5. \A id : EventsOf(db', id) = EventsOf(db, id) BY <1>4 DEF EventsOf
<1>6. \A id : StateOf(db, id) \subseteq StateOf(db', id) BY <1>1, <1>2 DEF StateOf, StateIn
<1>7. EventState' BY <1>3, <1>4, <1>6 DEF EventState
<1>8. \A r \in StateIn(db') : r \in StateIn(db) \/ r.at = r.sid
  BY <1>1, <1>3 DEF StateIn, StateWritten
<1>9. StateFrom' BY <1>3, <1>5, <1>8 DEF StateFrom
<1>. QED BY <1>7, <1>9

\* The commit of a delete: the rows of one session, or none.
LEMMA StateDeleted ==
    ASSUME StoreInv, SerialInv, StateInv, serial, NEW p \in Writers, Commit(p),
           tx[p].op = "delete"
    PROVE  EventState' /\ StateFrom'
<1>. DEFINE sid == tx[p].sid
<1>1. db' = (db \ rem[p]) \cup add[p] /\ tx[p].pc = "commit" BY DEF Commit
<1>2. add[p] = {} /\ \A ev \in EventsIn(rem[p]) : ev.sid = sid
  BY <1>1 DEF StoreInv, CallInv, StageInv, DeleteInv
<1>3. db' = db \ rem[p] BY <1>1, <1>2
<1>4. rem[p] = {} \/ (EventsGone(p) /\ StateGone(p)) BY <1>1 DEF SerialInv, SerialCall
<1>5. EventState /\ StateFrom /\ \A r \in StateIn(rem[p]) : r.sid = sid
  BY DEF StateInv, StateWritten
<1>6. CASE rem[p] = {}
  <2>1. db' = db BY <1>3, <1>6
  <2>. QED BY <1>5, <2>1 DEF EventState, StateFrom
<1>7. CASE EventsGone(p) /\ StateGone(p)
  <2>1. \A r \in EventsIn(db') \cup StateIn(db') : r.sid # sid
    BY <1>3, <1>7 DEF EventsGone, StateGone, EventsOf, StateOf, EventsIn, StateIn
  <2>2. \A id : id # sid => /\ EventsOf(db', id) = EventsOf(db, id)
                            /\ StateOf(db', id) = StateOf(db, id)
    BY <1>2, <1>3, <1>5 DEF EventsOf, StateOf, EventsIn, StateIn
  <2>3. EventsIn(db') \subseteq EventsIn(db) /\ StateIn(db') \subseteq StateIn(db)
    BY <1>3 DEF EventsIn, StateIn
  <2>4. EventState' BY <1>5, <2>1, <2>2, <2>3 DEF EventState
  <2>5. StateFrom' BY <1>5, <2>1, <2>2, <2>3 DEF StateFrom
  <2>. QED BY <2>4, <2>5
<1>. QED BY <1>4, <1>6, <1>7

\* A session row is written once, or in the place of one of the same name.
LEMMA NamesCommit ==
    ASSUME StoreInv, StateInv, serial, NEW p \in Writers, Commit(p)
    PROVE  OneName'
<1>1. db' = (db \ rem[p]) \cup add[p] /\ tx[p].pc = "commit" BY DEF Commit
<1>2. /\ OneName /\ StateWritten(p) BY DEF StateInv
<1>3. Open(p) BY <1>1, CommitsWhat
<1>4. StageInv(p) /\ WritesInv(p) BY DEF StoreInv, CallInv
<1>5. \A s \in SessionsIn(db) : s.id # tx[p].at
  BY <1>3, Fresh DEF SessionsIn, Numbers
<1>6. ASSUME NEW s \in SessionsIn(add[p])
      PROVE  \/ s.id = tx[p].at /\ s.name = tx[p].name
             \/ \E r \in SessionsIn(db) : r.id = s.id /\ r.name = s.name
  <2>1. Made(p, s) BY <1>4 DEF WritesInv
  <2>2. CASE tx[p].op = "create"
    BY <1>2, <1>4, <2>1, <2>2 DEF StateWritten, Made, WritesInv, SessionsIn
  <2>3. CASE tx[p].op = "append"
    <3>1. Settled(tx[p].sid) BY <1>1, <1>4, <2>3 DEF StageInv, AppendInv
    <3>2. s.id # tx[p].at BY <1>2, <2>3, <3>1 DEF StateWritten, Settled
    <3>. QED BY <1>4, <2>1, <3>2 DEF Made, WritesInv, SessionsIn
  <2>4. CASE tx[p].op = "delete"
    BY <1>4, <2>4 DEF StageInv, DeleteInv, SessionsIn
  <2>. QED BY <1>1, <1>4, <2>2, <2>3, <2>4 DEF StageInv, IdleInv
<1>7. ASSUME NEW s \in SessionsIn(db')
      PROVE  \/ s.id = tx[p].at /\ s.name = tx[p].name
             \/ \E r \in SessionsIn(db) : r.id = s.id /\ r.name = s.name
  BY <1>1, <1>6 DEF SessionsIn
<1>. QED BY <1>2, <1>5, <1>7 DEF OneName

LEMMA StateCommit ==
    ASSUME StoreInv, SerialInv, StateInv, NEW p \in Writers, Commit(p), UNCHANGED serial
    PROVE  StateInv'
<1>. SUFFICES ASSUME serial PROVE StateInv' BY DEF StateInv
<1>1. /\ db' = (db \ rem[p]) \cup add[p] /\ tx[p].pc = "commit" /\ clock' = clock
      /\ tx' = [tx EXCEPT ![p] = Idle]
      /\ add' = [add EXCEPT ![p] = {}] /\ rem' = [rem EXCEPT ![p] = {}]
  BY DEF Commit, EndTx
<1>2. DOMAIN tx = Writers /\ DOMAIN add = Writers /\ DOMAIN rem = Writers
  BY DEF StoreInv, LocksInv
<1>3. tx'[p] = Idle /\ \A q \in Writers \ {p} : Still(q) BY <1>1, <1>2 DEF Still
<1>4. StageInv(p) BY DEF StoreInv, CallInv
<1>5. \A q \in Writers : Open(q)' => tx'[q].at = clock'
  BY <1>1, <1>3, IdleFields DEF StateInv, Open, Still
<1>6. StateWritten(p)' BY <1>3, IdleFields DEF StateWritten
<1>7. \A q \in Writers \ {p} : StateWritten(q)' BY <1>3 DEF StateInv, StateWritten, Still
<1>8. EventState' /\ StateFrom'
  <2>1. CASE tx[p].op = "create" BY <2>1, StateCreated
  <2>2. CASE tx[p].op = "delete" BY <2>2, StateDeleted
  <2>3. CASE tx[p].op = "append" /\ Wrote(p) BY <2>3, StateAppended
  <2>4. CASE tx[p].op = "append" /\ Clean(p)
    <3>1. db' = db BY <1>1, <2>4 DEF Clean
    <3>. QED BY <3>1 DEF StateInv, EventState, StateFrom
  <2>. QED BY <1>1, <1>4, <2>1, <2>2, <2>3, <2>4 DEF StageInv, IdleInv, AppendInv
<1>. QED BY <1>5, <1>6, <1>7, <1>8, NamesCommit DEF StateInv

LEMMA StateNext == StoreInv /\ StoreInv' /\ SerialInv /\ StateInv /\ [Next]_vars => StateInv'
<1>1. ASSUME StoreInv, StoreInv', SerialInv, StateInv, NEW p \in Writers, Step(p),
             UNCHANGED serial
      PROVE  StateInv'
  <2>1. CASE \E n \in Names : \/ Create(p, n) \/ Delete(p, n)
                             \/ \E e \in Adk : AppendEvent(p, n, e)
    BY <1>1, <2>1, StateCalls
  <2>2. CASE (\E n \in Names : Get(p, n)) \/ GetShared(p) \/ Release(p) \/ Rollback(p)
    BY <1>1, <2>2, StateReads
  <2>3. CASE Progress(p)
    BY <1>1, <2>3, StateCreate, StateRefMax, StateInsert, StateChildren,
       StateTouch, StateFind, StateDelete, StateCommit DEF Progress
  <2>. QED BY <1>1, <2>1, <2>2, <2>3 DEF Step
<1>2. ASSUME StateInv, UNCHANGED vars PROVE StateInv'
  <2>. UNCHANGED <<serial, db, tx, add, rem, clock>> BY <1>2 DEF vars
  <2>1. \A q \in Writers : StateWritten(q)' = StateWritten(q) BY DEF StateWritten
  <2>. QED BY <1>2, <2>1 DEF StateInv, Open, EventState, StateFrom, OneName
<1>. QED BY <1>1, <1>2 DEF Next

LEMMA StateInvariant == Spec => []StateInv
<1>. QED BY StateInit, StateNext, StoreInvariant, SerialInvariant, PTL DEF Spec

\* A set of numbers that has a bound has a greatest.
LEMMA GreatestNumber ==
    ASSUME NEW S, NEW n \in Nat, S \subseteq 0..n, S # {}
    PROVE  Max(S) \in S /\ \A x \in S : Max(S) >= x
<1>0. \A x \in S : x \in Nat /\ n >= x OBVIOUS
<1>. DEFINE Bounds == {b \in Nat : \A x \in S : b >= x}
<1>1. Bounds \subseteq Nat /\ n \in Bounds BY <1>0
<1>2. PICK b \in Bounds : \A c \in Bounds : <<c, b>> \notin OpToRel(<, Nat)
  BY <1>1, NatLessThanWellFounded, WFMin
<1>3. \A c \in Bounds : ~(c < b) BY <1>1, <1>2 DEF OpToRel
<1>4. b \in Nat /\ \A x \in S : x \in Nat /\ b >= x BY <1>0
<1>. HIDE DEF Bounds
<1>5. b \in S
  <2>1. ASSUME b \notin S PROVE FALSE
    <3>1. \A x \in S : b > x BY <1>4, <2>1
    <3>2. PICK x \in S : TRUE OBVIOUS
    <3>3. b - 1 \in Nat /\ \A y \in S : b - 1 >= y BY <1>4, <3>1, <3>2
    <3>4. b - 1 \in Bounds BY <3>3 DEF Bounds
    <3>. QED BY <1>3, <1>4, <3>4
  <2>. QED BY <2>1
<1>. QED BY <1>4, <1>5 DEF Max

\* Newest is the newest value of a scope, and 0 where it has none.
LEMMA NewestFacts ==
    ASSUME NEW rows, NEW n \in Nat, \A r \in rows : r.at \in 1..n, NEW s \in Scopes
    PROVE  /\ Newest(rows)[s] \in Nat
           /\ \A r \in rows : r.scope = s => Newest(rows)[s] >= r.at
           /\ Newest(rows)[s] # 0 => \E r \in rows : r.scope = s /\ r.at = Newest(rows)[s]
<1>. DEFINE S == {0} \cup {r.at : r \in {x \in rows : x.scope = s}}
<1>1. S \subseteq 0..n /\ S # {} /\ \A x \in S : x \in Nat OBVIOUS
<1>2. Newest(rows)[s] = Max(S) BY DEF Newest
<1>3. \A r \in rows : r.scope = s => r.at \in S OBVIOUS
<1>4. \A x \in S : x = 0 \/ \E r \in rows : r.scope = s /\ r.at = x OBVIOUS
<1>. HIDE DEF S
<1>5. Max(S) \in S /\ \A x \in S : Max(S) >= x BY <1>1, GreatestNumber
<1>6. Max(S) \in Nat BY <1>1, <1>5
<1>. QED BY <1>2, <1>3, <1>4, <1>5, <1>6

LEMMA NewestDomain == \A rows : DOMAIN Newest(rows) = Scopes
BY DEF Newest

\* Rows numbered 1..n have different numbers.
LEMMA DenseDiffer ==
    ASSUME NEW evs, IsFiniteSet(evs), {ev.seq : ev \in evs} = 1..Cardinality(evs),
           NEW a \in evs, NEW b \in evs, a.seq = b.seq
    PROVE  a = b
<1>. DEFINE n == Cardinality(evs)
            f == [ev \in evs |-> ev.seq]
<1>1. n \in Nat BY FS_CardinalityType
<1>2. IsFiniteSet(1..n) /\ Cardinality(1..n) = n BY <1>1, FS_Interval
<1>3. f \in Surjection(evs, 1..n)
  <2>1. f \in [evs -> 1..n] OBVIOUS
  <2>2. \A k \in 1..n : \E ev \in evs : f[ev] = k OBVIOUS
  <2>. QED BY <2>1, <2>2 DEF Surjection
<1>4. f \in Injection(evs, 1..n) BY <1>2, <1>3, FS_SurjSameCardinalityImpliesInj
<1>5. f[a] = f[b] OBVIOUS
<1>. HIDE DEF f
<1>. QED BY <1>4, <1>5 DEF Injection, IsInjective

-----------------------------------------------------------------------------
(* What a caller holds after its reads.                                    *)

Reading(p) == tx[p].pc \in {"shared", "loaded"}

ViewType(v) ==
    /\ DOMAIN v = {"id", "name", "events", "state"} /\ DOMAIN v.state = Scopes
    /\ \A s \in Scopes : v.state[s] \in Nat

InOrder(v) == \A i, j \in DOMAIN v.events : i < j => v.events[i].seq < v.events[j].seq

\* The state is no older than the event.
Covers(state, ev) == Delta[ev.adk] \in Scopes => state[Delta[ev.adk]] >= ev.id

\* What has been read is still there.
Backed(v) ==
    /\ \A s \in SessionsIn(db) : s.id = v.id => s.name = v.name
    /\ \A i \in DOMAIN v.events : v.events[i] \in EventsOf(db, v.id) /\ Covers(v.state, v.events[i])
    /\ v.state["session"] # 0 =>
         \/ v.state["session"] = v.id
         \/ \E ev \in EventsOf(db, v.id) : ev.id = v.state["session"]

ViewInv(p) == Reading(p) =>
    /\ ViewType(view[p]) /\ Settled(view[p].id) /\ InOrder(view[p])
    /\ (\E s \in SessionsIn(db) : s.id = view[p].id) => Backed(view[p])

ReadInv ==
    /\ DOMAIN view = Writers
    /\ serial => \A p \in Writers : ViewInv(p)

LEMMA ReadInit == Init => ReadInv
<1>. SUFFICES ASSUME Init PROVE ReadInv OBVIOUS
<1>1. DOMAIN view = Writers BY DEF Init
<1>2. \A p \in Writers : tx[p] = Idle BY DEF Init
<1>3. \A p \in Writers : ~Reading(p) BY <1>2, IdleFields DEF Reading
<1>. QED BY <1>1, <1>3 DEF ReadInv, ViewInv

\* One statement of p, which goes on in its transaction.
Moves(p) ==
    \E del, ins, next : /\ Statement(p, del, ins, next)
                        /\ next.at = tx[p].at /\ DOMAIN next = Fields

\* A step of an open transaction is a statement of it, or its commit.
LEMMA ProgressIsStatement ==
    ASSUME StoreInv, NEW p \in Writers, Progress(p), ~Commit(p)
    PROVE  Open(p) /\ Moves(p)
<1>1. DOMAIN tx[p] = Fields BY DEF StoreInv, LocksInv
<1>2. StageInv(p) BY DEF StoreInv, CallInv
<1>3. tx[p].op \in {"create", "append", "delete"} => Open(p)
  BY <1>2 DEF StageInv, CreateInv, AppendInv, DeleteInv
<1>4. \A pc, del, ins : Statement(p, del, ins, Goto(p, pc)) => Moves(p)
  BY GotoFields DEF Moves
<1>5. \A del, ins, next : Statement(p, del, ins, next) /\ next.at = tx[p].at /\ DOMAIN next = Fields
        => Moves(p)
  BY DEF Moves
<1>6. CASE create_session(p)
  BY <1>3, <1>4, <1>6 DEF create_session, NewSession
<1>7. CASE SessionRef(p)
  <2>1. PICK id : Statement(p, {}, {}, [tx[p] EXCEPT !.pc = "max", !.sid = id])
    BY <1>7 DEF SessionRef
  <2>. DEFINE next == [tx[p] EXCEPT !.pc = "max", !.sid = id]
  <2>2. next.at = tx[p].at /\ DOMAIN next = Fields BY <1>1 DEF Fields
  <2>3. Statement(p, {}, {}, next) BY <2>1
  <2>. HIDE DEF next
  <2>4. tx[p].op = "append" BY <1>7 DEF SessionRef
  <2>. QED BY <1>3, <1>5, <2>2, <2>3, <2>4
<1>8. CASE append_max(p)
  <2>. DEFINE next == [tx[p] EXCEPT !.pc = "insert", !.seq = NextSequence(Visible(p), tx[p].sid)]
  <2>1. tx[p].op = "append" /\ Statement(p, {}, {}, next) BY <1>8 DEF append_max
  <2>2. next.at = tx[p].at /\ DOMAIN next = Fields BY <1>1 DEF Fields
  <2>. HIDE DEF next
  <2>. QED BY <1>3, <1>5, <2>1, <2>2
<1>9. CASE append_insert(p)
  <2>1. tx[p].op = "append" BY <1>9 DEF append_insert, NewEvent
  <2>2. CASE Stored(p) = {} BY <1>3, <1>4, <1>9, <2>1, <2>2 DEF append_insert, NewEvent
  <2>3. CASE Stored(p) # {} BY <1>3, <1>4, <1>9, <2>1, <2>3 DEF append_insert, NewEvent
  <2>. QED BY <2>2, <2>3
<1>10. CASE append_children(p)
  BY <1>3, <1>4, <1>10 DEF append_children, NewState
<1>11. CASE append_touch(p)
  BY <1>3, <1>4, <1>11 DEF append_touch, ItsSession
<1>12. CASE delete_find(p)
  <2>1. tx[p].op = "delete" BY <1>12 DEF delete_find
  <2>2. CASE Statement(p, {}, {}, Goto(p, "commit")) BY <1>3, <1>4, <2>1, <2>2
  <2>3. ASSUME NEW id, Statement(p, {}, {}, [tx[p] EXCEPT !.pc = "children", !.sid = id])
        PROVE  Moves(p)
    <3>. DEFINE next == [tx[p] EXCEPT !.pc = "children", !.sid = id]
    <3>1. next.at = tx[p].at /\ DOMAIN next = Fields BY <1>1 DEF Fields
    <3>2. Statement(p, {}, {}, next) BY <2>3
    <3>. HIDE DEF next
    <3>. QED BY <1>5, <3>1, <3>2
  <2>. QED BY <1>3, <1>12, <2>1, <2>2, <2>3 DEF delete_find
<1>13. ASSUME NEW pc, NEW rows, NEW next, DeleteRows(p, pc, rows, next)
       PROVE  Open(p) /\ Moves(p)
  BY <1>3, <1>4, <1>13 DEF DeleteRows
<1>14. CASE delete_children(p) \/ delete_events(p) \/ delete_state(p) \/ delete_row(p)
  BY <1>13, <1>14 DEF delete_children, delete_events, delete_state, delete_row, DoomedChildren, ItsSession
<1>. QED BY <1>6, <1>7, <1>8, <1>9, <1>10, <1>11, <1>12, <1>14 DEF Progress

\* What a step of p leaves alone, whatever it is.
LEMMA StepFrame ==
    ASSUME StoreInv, StoreInv', DOMAIN view = Writers, NEW p \in Writers, Step(p)
    PROVE  /\ DOMAIN view' = Writers
           /\ \A q \in Writers \ {p} : tx'[q] = tx[q] /\ view'[q] = view[q]
           /\ clock' >= clock /\ tx'[p].at \in {0, tx[p].at, clock + 1}
           /\ (\A n \in Names : ~Get(p, n)) /\ ~GetShared(p) => ~Reading(p)'
<1>1. /\ DOMAIN tx = Writers /\ DOMAIN tx[p] = Fields /\ LocksInv
      /\ StageInv(p) /\ StageInv(p)'
  BY DEF StoreInv, LocksInv, CallInv
<1>2. clock \in Nat BY StoreAssumption DEF StoreInv, TablesInv
<1>3. Open(p)' => ~Reading(p)'
  BY <1>1 DEF StageInv, IdleInv, CreateInv, AppendInv, DeleteInv, Reading, Open
<1>4. ASSUME NEW call, DOMAIN call = Fields, Begin(p, call)
      PROVE  /\ DOMAIN view' = Writers
             /\ \A q \in Writers \ {p} : tx'[q] = tx[q] /\ view'[q] = view[q]
             /\ clock' >= clock /\ tx'[p].at = clock + 1 /\ ~Reading(p)'
  <2>. DEFINE next == [call EXCEPT !.at = clock + 1]
  <2>1. tx' = [tx EXCEPT ![p] = next] /\ view' = view /\ clock' = clock + 1
    BY <1>4 DEF Begin
  <2>2. next.at = clock + 1 BY <1>4 DEF Fields
  <2>. HIDE DEF next
  <2>3. tx'[p] = next /\ \A q \in Writers \ {p} : tx'[q] = tx[q] BY <1>1, <2>1
  <2>4. Open(p)' BY <1>2, <2>2, <2>3 DEF Open
  <2>. QED BY <1>2, <1>3, <2>1, <2>2, <2>3, <2>4
<1>5. ASSUME NEW del, NEW ins, NEW next, Statement(p, del, ins, next), Open(p),
             next.at = tx[p].at, DOMAIN next = Fields
      PROVE  /\ DOMAIN view' = Writers
             /\ \A q \in Writers \ {p} : tx'[q] = tx[q] /\ view'[q] = view[q]
             /\ clock' >= clock /\ tx'[p].at = tx[p].at /\ ~Reading(p)'
  <2>1. view' = view /\ clock' = clock BY <1>5 DEF Statement
  <2>2. tx'[p] = next /\ \A q \in Writers \ {p} : Still(q)
    BY <1>1, <1>5, StatementFacts
  <2>3. Open(p)' BY <1>5, <2>2 DEF Open
  <2>. QED BY <1>2, <1>3, <1>5, <2>1, <2>2, <2>3 DEF Still
<1>6. CASE Commit(p) \/ Rollback(p)
  <2>1. tx' = [tx EXCEPT ![p] = Idle] /\ view' = view /\ clock' = clock
    BY <1>6 DEF Commit, Rollback, EndTx
  <2>2. tx'[p] = Idle /\ \A q \in Writers \ {p} : tx'[q] = tx[q] BY <1>1, <2>1
  <2>. QED BY <1>2, <2>1, <2>2, IdleFields DEF Reading
<1>7. CASE Progress(p) /\ ~Commit(p)
  BY <1>5, <1>7, ProgressIsStatement DEF Moves
<1>8. CASE GetShared(p)
  <2>1. tx' = [tx EXCEPT ![p].pc = "loaded"] /\ clock' = clock
    BY <1>8 DEF GetShared
  <2>2. view' = [view EXCEPT ![p] = mergeSharedState(view[p], db)] BY <1>8 DEF GetShared
  <2>3. tx'[p].at = tx[p].at BY <1>1, <2>1 DEF Fields
  <2>. QED BY <1>1, <1>2, <1>8, <2>1, <2>2, <2>3
<1>9. CASE Release(p)
  <2>1. tx' = [tx EXCEPT ![p] = Idle] /\ clock' = clock /\ view' = [view EXCEPT ![p] = NoView]
    BY <1>9 DEF Release
  <2>2. tx'[p] = Idle BY <1>1, <2>1
  <2>. QED BY <1>1, <1>2, <2>1, <2>2, IdleFields DEF Reading
<1>10. ASSUME NEW n \in Names, Get(p, n)
       PROVE  /\ DOMAIN view' = Writers
              /\ \A q \in Writers \ {p} : tx'[q] = tx[q] /\ view'[q] = view[q]
              /\ clock' >= clock /\ tx'[p].at = 0
  <2>. DEFINE next == [Idle EXCEPT !.op = "get", !.pc = "shared", !.name = n]
  <2>1. tx' = [tx EXCEPT ![p] = next] /\ clock' = clock BY <1>10 DEF Get
  <2>2. PICK v : view' = [view EXCEPT ![p] = v] BY <1>10 DEF Get
  <2>3. next.at = 0 BY IdleFields DEF Fields
  <2>. HIDE DEF next
  <2>. QED BY <1>1, <1>2, <2>1, <2>2, <2>3
<1>11. ASSUME NEW n \in Names, Create(p, n) \/ Delete(p, n) \/ \E e \in Adk : AppendEvent(p, n, e)
       PROVE  \E call : DOMAIN call = Fields /\ Begin(p, call)
  <2>1. DOMAIN Idle = Fields BY IdleFields
  <2>2. CASE Create(p, n)
    <3>. DEFINE call == [Idle EXCEPT !.op = "create", !.pc = "insert", !.name = n]
    <3>1. DOMAIN call = Fields BY <2>1
    <3>2. Begin(p, call) BY <2>2 DEF Create
    <3>. HIDE DEF call
    <3>. QED BY <3>1, <3>2
  <2>3. CASE Delete(p, n)
    <3>. DEFINE call == [Idle EXCEPT !.op = "delete", !.pc = "find", !.name = n]
    <3>1. DOMAIN call = Fields BY <2>1
    <3>2. Begin(p, call) BY <2>3 DEF Delete
    <3>. HIDE DEF call
    <3>. QED BY <3>1, <3>2
  <2>4. ASSUME NEW e \in Adk, AppendEvent(p, n, e)
        PROVE  \E call : DOMAIN call = Fields /\ Begin(p, call)
    <3>. DEFINE call == [Idle EXCEPT !.op = "append", !.pc = "ref", !.name = n, !.adk = e]
    <3>1. DOMAIN call = Fields BY <2>1
    <3>2. Begin(p, call) BY <2>4 DEF AppendEvent
    <3>. HIDE DEF call
    <3>. QED BY <3>1, <3>2
  <2>. QED BY <1>11, <2>2, <2>3, <2>4
<1>. QED BY <1>4, <1>6, <1>7, <1>8, <1>9, <1>10, <1>11 DEF Step

\* The number of an ended transaction is never used again.
LEMMA SettledStays ==
    ASSUME StoreInv, StoreInv', DOMAIN view = Writers, NEW p \in Writers, Step(p)
    PROVE  \A n : Settled(n) => Settled(n)'
<1>1. /\ \A q \in Writers \ {p} : tx'[q] = tx[q]
      /\ clock' >= clock /\ tx'[p].at \in {0, tx[p].at, clock + 1}
  BY StepFrame
<1>2. clock \in Nat /\ clock' \in Nat BY StoreAssumption DEF StoreInv, TablesInv
<1>3. ASSUME NEW n, Settled(n) PROVE Settled(n)'
  <2>1. n \in 1..clock /\ \A q \in Writers : tx[q].at # n BY <1>3 DEF Settled
  <2>2. n \in 1..clock' BY <1>1, <1>2, <2>1
  <2>3. tx'[p].at # n BY <1>1, <1>2, <2>1
  <2>. QED BY <1>1, <2>1, <2>2, <2>3 DEF Settled
<1>. QED BY <1>3

\* A session that is gone does not come back under its id.
LEMMA SessionsStayAway ==
    ASSUME StoreInv, NEW p \in Writers, Step(p), NEW s \in SessionsIn(db'), Settled(s.id)
    PROVE  \E r \in SessionsIn(db) : r.id = s.id /\ r.name = s.name
<1>1. CASE db' = db BY <1>1
<1>2. CASE Commit(p)
  <2>1. db' = (db \ rem[p]) \cup add[p] BY <1>2 DEF Commit
  <2>2. CASE s \in db BY <2>2 DEF SessionsIn
  <2>3. CASE s \in add[p]
    <3>1. WritesInv(p) BY DEF StoreInv, CallInv
    <3>2. Made(p, s) BY <2>3, <3>1 DEF WritesInv, SessionsIn
    <3>3. s.id # tx[p].at BY DEF Settled
    <3>. QED BY <3>1, <3>2, <3>3 DEF Made, WritesInv, SessionsIn
  <2>. QED BY <2>1, <2>2, <2>3 DEF SessionsIn
<1>. QED BY <1>1, <1>2, TablesStandStill

\* What a caller has read stays backed, whatever the others store and delete.
LEMMA ViewStays ==
    ASSUME StoreInv, StoreInv', DOMAIN view = Writers, NEW p \in Writers, Step(p),
           NEW q \in Writers, ViewInv(q), view'[q] = view[q], Reading(q)' => Reading(q)
    PROVE  ViewInv(q)'
<1>. DEFINE v == view[q]
            IsThere == \E s \in SessionsIn(db) : s.id = v.id
<1>. SUFFICES ASSUME Reading(q)' PROVE ViewInv(q)' BY DEF ViewInv
<1>1. /\ ViewType(v) /\ Settled(v.id) /\ InOrder(v) /\ (IsThere => Backed(v))
  BY DEF ViewInv
<1>2. Settled(v.id)' BY <1>1, SettledStays
<1>3. ASSUME NEW s \in SessionsIn(db'), s.id = v.id
      PROVE  /\ \A t \in SessionsIn(db') : t.id = v.id => t.name = v.name
             /\ \A ev \in EventsOf(db, v.id) : ev \in EventsOf(db', v.id)
             /\ Backed(v)
  <2>1. PICK r \in SessionsIn(db) : r.id = v.id BY <1>1, <1>3, SessionsStayAway
  <2>2. Backed(v) BY <1>1, <2>1
  <2>3. ASSUME NEW t \in SessionsIn(db'), t.id = v.id PROVE t.name = v.name
    <3>1. \E u \in SessionsIn(db) : u.id = t.id /\ u.name = t.name
      BY <1>1, <2>3, SessionsStayAway
    <3>. QED BY <2>2, <2>3, <3>1 DEF Backed
  <2>4. \A ev \in EventsOf(db, v.id) : ev \in EventsOf(db', v.id)
    BY <1>3, EventsLeaveTogether DEF EventsOf
  <2>. QED BY <2>2, <2>3, <2>4
<1>4. (\E s \in SessionsIn(db') : s.id = v.id) => Backed(v)'
  <2>. SUFFICES ASSUME NEW s \in SessionsIn(db'), s.id = v.id PROVE Backed(v)'
    OBVIOUS
  <2>1. /\ \A t \in SessionsIn(db') : t.id = v.id => t.name = v.name
        /\ \A ev \in EventsOf(db, v.id) : ev \in EventsOf(db', v.id)
        /\ Backed(v)
    BY <1>3
  <2>2. v' = v OBVIOUS
  <2>. HIDE DEF v
  <2>. QED BY <2>1, <2>2 DEF Backed
<1>5. (ViewType(v) /\ InOrder(v))' BY <1>1 DEF ViewType, InOrder
<1>. QED BY <1>2, <1>4, <1>5 DEF ViewInv

\* The rows of a table in which every value comes from a settled transaction.
LEMMA StateNumbers ==
    ASSUME StoreInv, StateInv, serial
    PROVE  clock \in Nat /\ \A r \in StateIn(db) : r.at \in 1..clock
<1>1. clock \in Nat BY StoreAssumption DEF StoreInv, TablesInv
<1>2. \A r \in StateIn(db) : r.sid \in 1..clock
  BY DEF StoreInv, TablesInv, StateIn, Numbers, Settled
<1>3. \A ev \in EventsIn(db) : ev.id \in 1..clock
  BY DEF StoreInv, TablesInv, EventsIn, Numbers, Settled
<1>. QED BY <1>1, <1>2, <1>3 DEF StateInv, StateFrom, EventsOf

\* The events of a session, in a sequence of which no two are the same, are in
\* the order of their numbers when no number follows a greater one.
LEMMA SortedInOrder ==
    ASSUME SerialInv, serial, NEW s \in SessionsIn(db), NEW evs \in SetToSeqs(EventsOf(db, s.id)),
           \A i, j \in 1..Len(evs) : i < j => evs[i].seq <= evs[j].seq
    PROVE  /\ \A i \in DOMAIN evs : evs[i] \in EventsOf(db, s.id)
           /\ \A i, j \in DOMAIN evs : i < j => evs[i].seq < evs[j].seq
<1>. DEFINE S == EventsOf(db, s.id)
<1>1. IsFiniteSet(S) /\ {ev.seq : ev \in S} = 1..Cardinality(S)
  BY DEF SerialInv, Dense
<1>2. Cardinality(S) \in Nat BY <1>1, FS_CardinalityType
<1>3. /\ evs \in [1..Cardinality(S) -> S]
      /\ \A i, j \in 1..Cardinality(S) : i # j => evs[i] # evs[j]
  BY DEF SetToSeqs
<1>4. \A ev \in S : ev.seq \in 1..Cardinality(S) BY <1>1
<1>. HIDE DEF S
<1>5. Len(evs) = Cardinality(S) /\ DOMAIN evs = 1..Cardinality(S) BY <1>2, <1>3
<1>6. ASSUME NEW i \in DOMAIN evs, NEW j \in DOMAIN evs, i < j
      PROVE  evs[i].seq < evs[j].seq
  <2>1. evs[i] \in S /\ evs[j] \in S /\ evs[i] # evs[j] BY <1>2, <1>3, <1>5, <1>6
  <2>2. evs[i].seq # evs[j].seq BY <1>1, <2>1, DenseDiffer
  <2>3. evs[i].seq <= evs[j].seq BY <1>5, <1>6
  <2>4. evs[i].seq \in Int /\ evs[j].seq \in Int BY <1>4, <2>1
  <2>. QED BY <2>2, <2>3, <2>4
<1>. QED BY <1>3, <1>5, <1>6 DEF S

\* The values of a session cover its events, and are the session's own.
LEMMA OwnState ==
    ASSUME StoreInv, StateInv, serial, NEW id, NEW rows, StateOf(db, id) \subseteq rows,
           rows \subseteq StateIn(db), NEW scope \in Scopes
    PROVE  /\ Newest(rows)[scope] \in Nat
           /\ \A ev \in EventsOf(db, id) : Delta[ev.adk] = scope => Newest(rows)[scope] >= ev.id
<1>1. clock \in Nat /\ \A r \in rows : r.at \in 1..clock BY StateNumbers
<1>2. /\ Newest(rows)[scope] \in Nat
      /\ \A r \in rows : r.scope = scope => Newest(rows)[scope] >= r.at
  BY <1>1, NewestFacts
<1>3. ASSUME NEW ev \in EventsOf(db, id), Delta[ev.adk] = scope
      PROVE  Newest(rows)[scope] >= ev.id
  <2>1. ev \in EventsIn(db) /\ ev.sid = id BY <1>3 DEF EventsOf
  <2>2. PICK r \in StateOf(db, id) : r.scope = scope /\ r.at >= ev.id
    BY <1>3, <2>1 DEF StateInv, EventState
  <2>3. Newest(rows)[scope] >= r.at /\ r.at \in Nat BY <1>1, <1>2, <2>2
  <2>4. ev.id \in Nat BY <2>1 DEF StoreInv, TablesInv, EventsIn, Numbers, Settled
  <2>. QED BY <1>2, <2>2, <2>3, <2>4
<1>. QED BY <1>2, <1>3

LEMMA OwnSource ==
    ASSUME StoreInv, StateInv, serial, NEW id, NEW rows, rows \subseteq StateIn(db),
           \A r \in rows : r.scope = "session" => r.sid = id,
           Newest(rows)["session"] # 0
    PROVE  \/ Newest(rows)["session"] = id
           \/ \E ev \in EventsOf(db, id) : ev.id = Newest(rows)["session"]
<1>1. clock \in Nat /\ \A r \in rows : r.at \in 1..clock BY StateNumbers
<1>2. PICK r \in rows : r.scope = "session" /\ r.at = Newest(rows)["session"]
  BY <1>1, NewestFacts DEF Scopes
<1>3. r \in StateIn(db) /\ r.sid = id BY <1>2
<1>. QED BY <1>2, <1>3 DEF StateInv, StateFrom

\* The first read: the session, its events and its own state in one statement.
LEMMA GetKeeps ==
    ASSUME StoreInv, StoreInv', SerialInv, StateInv, serial, DOMAIN view = Writers,
           NEW p \in Writers, NEW n \in Names, Get(p, n), Step(p)
    PROVE  ViewInv(p)'
<1>1. db' = db BY DEF Get
<1>2. PICK s \in SessionsIn(db) : /\ s.name = n
                                  /\ \E v \in sessionFromRow(db, s.id, n) : view' = [view EXCEPT ![p] = v]
  BY DEF Get
<1>3. PICK evs \in SetToSeqs(EventsOf(db, s.id)) :
        /\ \A i, j \in 1..Len(evs) : i < j => evs[i].seq <= evs[j].seq
        /\ view' = [view EXCEPT ![p] =
             [id |-> s.id, name |-> n, events |-> evs, state |-> Newest(StateOf(db, s.id))]]
  BY <1>2 DEF sessionFromRow
<1>. DEFINE own == Newest(StateOf(db, s.id))
            v == [id |-> s.id, name |-> n, events |-> evs, state |-> own]
<1>4. view'[p] = v BY <1>3
<1>5. StateOf(db, s.id) \subseteq StateIn(db) /\ \A r \in StateOf(db, s.id) : r.sid = s.id
  BY DEF StateOf
<1>6. DOMAIN own = Scopes /\ \A scope \in Scopes : own[scope] \in Nat
  BY <1>5, OwnState, NewestDomain
<1>7. \A i \in DOMAIN evs : evs[i] \in EventsOf(db, s.id) /\ Covers(own, evs[i])
  <2>1. \A i \in DOMAIN evs : evs[i] \in EventsOf(db, s.id) BY <1>3, SortedInOrder
  <2>2. \A ev \in EventsOf(db, s.id) : Covers(own, ev) BY <1>5, OwnState DEF Covers
  <2>. QED BY <2>1, <2>2
<1>8. own["session"] # 0 =>
         \/ own["session"] = s.id
         \/ \E ev \in EventsOf(db, s.id) : ev.id = own["session"]
  BY <1>5, OwnSource
<1>. HIDE DEF own
<1>9. v.id = s.id /\ v.name = n /\ v.events = evs /\ v.state = own
  OBVIOUS
<1>10. ViewType(v) BY <1>6 DEF ViewType
<1>11. InOrder(v) BY <1>3, <1>9, SortedInOrder DEF InOrder
<1>12. Settled(s.id) BY DEF StoreInv, TablesInv, SessionsIn, Numbers
<1>13. Settled(s.id)' BY <1>12, SettledStays
<1>. HIDE DEF v
<1>14. Backed(v)
  <2>1. \A t \in SessionsIn(db) : t.id = v.id => t.name = v.name
    BY <1>2, <1>9 DEF StateInv, OneName
  <2>. QED BY <1>7, <1>8, <1>9, <2>1 DEF Backed
<1>15. (ViewType(view[p]) /\ InOrder(view[p]) /\ Backed(view[p]))'
  BY <1>1, <1>4, <1>10, <1>11, <1>14 DEF ViewType, InOrder, Backed
<1>. QED BY <1>4, <1>9, <1>13, <1>15 DEF ViewInv

\* The second read: the shared values overlay the session's own, and are none
\* older.
LEMMA SharedKeeps ==
    ASSUME StoreInv, StoreInv', StateInv, serial, DOMAIN view = Writers,
           NEW p \in Writers, GetShared(p), Step(p), ViewInv(p)
    PROVE  ViewInv(p)'
<1>. DEFINE v == view[p]
            rows == SharedRows(db, v)
            shared == Newest(rows)
            state == [s \in Scopes |-> IF shared[s] # 0 THEN shared[s] ELSE v.state[s]]
            IsThere == \E s \in SessionsIn(db) : s.id = v.id
<1>1. Reading(p) /\ db' = db BY DEF GetShared, Reading
<1>2. ViewType(v) /\ Settled(v.id) /\ InOrder(v) /\ (IsThere => Backed(v))
  BY <1>1 DEF ViewInv
<1>3. view'[p] = [v EXCEPT !.state = state]
  BY DEF GetShared, mergeSharedState
<1>4. rows \subseteq StateIn(db) /\ \A r \in rows : r.scope = "session" => r.sid = v.id
  BY DEF SharedRows
<1>5. clock \in Nat /\ \A r \in rows : r.at \in 1..clock BY <1>4, StateNumbers
<1>. HIDE DEF rows
<1>6. \A s \in Scopes : shared[s] \in Nat BY <1>5, NewestFacts
<1>. HIDE DEF shared
<1>7. \A s \in Scopes : state[s] = shared[s] \/ (shared[s] = 0 /\ state[s] = v.state[s])
  OBVIOUS
<1>8. DOMAIN state = Scopes /\ \A s \in Scopes : state[s] \in Nat
  BY <1>2, <1>6, <1>7 DEF ViewType
<1>. HIDE DEF state
<1>9. /\ view'[p].id = v.id /\ view'[p].name = v.name /\ view'[p].events = v.events
      /\ view'[p].state = state /\ DOMAIN view'[p] = DOMAIN v
  BY <1>2, <1>3 DEF ViewType
<1>10. Settled(view[p].id)'
  <2>1. \A n : n = v.id => Settled(n)' BY <1>2, SettledStays
  <2>. QED BY <1>9, <2>1 DEF Settled
<1>11. ASSUME IsThere
       PROVE  /\ \A i \in DOMAIN v.events : Covers(state, v.events[i])
              /\ state["session"] # 0 =>
                   \/ state["session"] = v.id
                   \/ \E ev \in EventsOf(db, v.id) : ev.id = state["session"]
  <2>1. Backed(v) BY <1>2, <1>11
  <2>2. PICK s \in SessionsIn(db) : s.id = v.id /\ s.name = v.name
    BY <1>11, <2>1 DEF Backed
  <2>3. ASSUME NEW i \in DOMAIN v.events PROVE Covers(state, v.events[i])
    <3>. DEFINE ev == v.events[i]
                scope == Delta[ev.adk]
    <3>. SUFFICES ASSUME scope \in Scopes PROVE state[scope] >= ev.id BY DEF Covers
    <3>1. ev \in EventsOf(db, v.id) /\ v.state[scope] >= ev.id BY <2>1 DEF Backed, Covers
    <3>2. CASE state[scope] = v.state[scope] BY <3>1, <3>2
    <3>3. CASE state[scope] = shared[scope]
      <4>1. PICK r \in StateOf(db, v.id) : r.scope = scope /\ r.at >= ev.id
        BY <3>1 DEF StateInv, EventState, EventsOf
      <4>2. r \in rows
        BY <2>2, <4>1 DEF rows, SharedRows, StateOf, Scopes
      <4>3. shared[scope] >= r.at BY <1>5, <4>2, <4>1, NewestFacts DEF shared
      <4>4. ev.id \in Nat /\ r.at \in Nat /\ shared[scope] \in Nat
        BY <1>5, <1>6, <3>1, <4>2 DEF StoreInv, TablesInv, EventsOf, EventsIn, Numbers, Settled
      <4>. HIDE DEF ev, scope
      <4>. QED BY <3>3, <4>1, <4>3, <4>4
    <3>. QED BY <1>7, <3>2, <3>3
  <2>4. ASSUME state["session"] # 0
        PROVE  \/ state["session"] = v.id
               \/ \E ev \in EventsOf(db, v.id) : ev.id = state["session"]
    <3>1. "session" \in Scopes BY DEF Scopes
    <3>2. CASE state["session"] = v.state["session"] BY <2>1, <2>4, <3>2 DEF Backed
    <3>3. CASE state["session"] = shared["session"]
      BY <1>4, <2>4, <3>3, OwnSource DEF shared
    <3>. QED BY <1>7, <3>1, <3>2, <3>3
  <2>. QED BY <2>3, <2>4
<1>12. ViewType(view[p])' BY <1>2, <1>8, <1>9 DEF ViewType
<1>13. InOrder(view[p])' BY <1>2, <1>9 DEF InOrder
<1>14. (\E s \in SessionsIn(db') : s.id = view'[p].id) => Backed(view[p])'
  BY <1>1, <1>2, <1>9, <1>11 DEF Backed
<1>. QED BY <1>9, <1>10, <1>12, <1>13, <1>14 DEF ViewInv

LEMMA ReadNext ==
    StoreInv /\ StoreInv' /\ SerialInv /\ StateInv /\ ReadInv /\ [Next]_vars => ReadInv'
<1>1. ASSUME StoreInv, StoreInv', SerialInv, StateInv, ReadInv, NEW p \in Writers, Step(p),
             UNCHANGED serial
      PROVE  ReadInv'
  <2>1. DOMAIN view = Writers BY <1>1 DEF ReadInv
  <2>2. /\ DOMAIN view' = Writers
        /\ \A q \in Writers \ {p} : tx'[q] = tx[q] /\ view'[q] = view[q]
    BY <1>1, <2>1, StepFrame
  <2>3. ASSUME serial, NEW q \in Writers PROVE ViewInv(q)'
    <3>1. ViewInv(q) BY <1>1, <2>3 DEF ReadInv
    <3>2. CASE q # p
      <4>1. Reading(q)' => Reading(q) BY <2>2, <3>2 DEF Reading
      <4>. QED BY <1>1, <2>1, <2>2, <3>1, <3>2, <4>1, ViewStays
    <3>3. CASE q = p /\ \E n \in Names : Get(p, n)
      BY <1>1, <2>1, <2>3, <3>3, GetKeeps
    <3>4. CASE q = p /\ GetShared(p)
      BY <1>1, <2>1, <2>3, <3>1, <3>4, SharedKeeps
    <3>5. CASE q = p /\ (\A n \in Names : ~Get(p, n)) /\ ~GetShared(p)
      <4>1. ~Reading(p)' BY <1>1, <2>1, <3>5, StepFrame
      <4>. QED BY <3>5, <4>1 DEF ViewInv
    <3>. QED BY <3>2, <3>3, <3>4, <3>5
  <2>. QED BY <1>1, <2>2, <2>3 DEF ReadInv
<1>2. ASSUME ReadInv, UNCHANGED vars PROVE ReadInv'
  <2>. UNCHANGED <<serial, db, tx, clock, view>> BY <1>2 DEF vars
  <2>1. \A q \in Writers : ViewInv(q)' = ViewInv(q)
    BY DEF ViewInv, Reading, ViewType, Settled, InOrder, Backed
  <2>. QED BY <1>2, <2>1 DEF ReadInv
<1>. QED BY <1>1, <1>2 DEF Next

LEMMA ReadInvariant == Spec => []ReadInv
<1>. QED BY ReadInit, ReadNext, StoreInvariant, SerialInvariant, StateInvariant, PTL DEF Spec

\* Over PGlite what Get returned is true of the session for as long as it is
\* stored: its events in the order of their sequence, and a state no older than
\* those events, whatever was appended, created and deleted between the two
\* statements and since.
THEOREM LoadedStaysTrue == Spec => []LoadedConsistent
<1>1. ReadInv => LoadedConsistent
  BY DEF ReadInv, ViewInv, Reading, InOrder, Backed, Covers, LoadedConsistent
<1>. QED BY <1>1, ReadInvariant, PTL

-----------------------------------------------------------------------------
(* The order of the locks: no wait goes round.                             *)

\* The tables a call has locked rows of, by how far it has got.
Late(r, t) ==
    /\ r.tab = "session" => t.pc = "commit"
    /\ r.tab = "state" => t.pc \in {"touch", "session", "commit"}
    /\ r.tab = "event" =>
         \/ t.pc \in {"touch", "state", "session", "commit"}
         \/ t.op = "append" /\ t.pc = "children"
    /\ r.tab = "child" => t.pc \in {"touch", "events", "state", "session", "commit"}

OrderInv == \A p \in Writers : \A r \in add[p] \cup rem[p] : Late(r, tx[p])

\* The next statement of a call locks rows of one table; the tables in the
\* order children, events, state, session.
Rank(p) ==
    LET at(op, pc) == tx[p].op = op /\ tx[p].pc = pc
    IN  CASE tx[p].pc = "commit" -> 5
          [] at("create", "insert") \/ tx[p].pc \in {"touch", "session"} -> 4
          [] at("append", "children") \/ tx[p].pc = "state" -> 3
          [] at("append", "insert") \/ tx[p].pc = "events" -> 2
          [] OTHER -> 1

\* A statement keeps the order if what its call held may still be held where it
\* goes on, and so may what it locks.
LEMMA OrderMove ==
    ASSUME StoreInv, OrderInv, NEW p \in Writers, NEW del, NEW ins, NEW next,
           Statement(p, del, ins, next),
           \A r \in add[p] \cup rem[p] : Late(r, tx[p]) => Late(r, next),
           \A r \in del \cup ins : Late(r, next)
    PROVE  OrderInv'
<1>1. DOMAIN tx = Writers /\ DOMAIN add = Writers /\ DOMAIN rem = Writers
  BY DEF StoreInv, LocksInv
<1>2. /\ tx'[p] = next /\ add'[p] = (add[p] \ del) \cup ins
      /\ rem'[p] = rem[p] \cup (del \cap db)
      /\ \A q \in Writers \ {p} : tx'[q] = tx[q] /\ add'[q] = add[q] /\ rem'[q] = rem[q]
  BY <1>1 DEF Statement
<1>3. \A r \in add'[p] \cup rem'[p] : Late(r, tx'[p]) BY <1>2 DEF OrderInv
<1>4. \A q \in Writers \ {p} : \A r \in add'[q] \cup rem'[q] : Late(r, tx'[q])
  BY <1>2 DEF OrderInv
<1>5. \A q \in Writers : \A r : Late(r, tx[q])' = Late(r, tx'[q]) BY DEF Late
<1>. QED BY <1>3, <1>4, <1>5 DEF OrderInv

\* A call that has just begun, or is over, holds nothing.
LEMMA OrderClean ==
    ASSUME StoreInv, OrderInv, NEW p \in Writers, NEW next,
           tx' = [tx EXCEPT ![p] = next], add'[p] = {}, rem'[p] = {},
           \A q \in Writers \ {p} : add'[q] = add[q] /\ rem'[q] = rem[q]
    PROVE  OrderInv'
<1>1. \A q \in Writers \ {p} : tx'[q] = tx[q] BY DEF StoreInv, LocksInv
<1>2. \A q \in Writers : \A r : Late(r, tx[q])' = Late(r, tx'[q]) BY DEF Late
<1>. QED BY <1>1, <1>2 DEF OrderInv

\* The statements of an open transaction lock their rows in order.
LEMMA OrderProgress ==
    ASSUME StoreInv, OrderInv, NEW p \in Writers, Progress(p)
    PROVE  OrderInv'
<1>. StageInv(p) BY DEF StoreInv, CallInv
<1>1. \A pc : Goto(p, pc).pc = pc /\ Goto(p, pc).op = tx[p].op BY GotoFields
<1>2. CASE create_session(p)
  <2>1. tx[p].op = "create" /\ tx[p].pc = "insert" BY <1>2 DEF create_session
  <2>2. PICK ins : Statement(p, {}, ins, Goto(p, "commit")) BY <1>2 DEF create_session
  <2>3. \A r : Late(r, Goto(p, "commit")) BY <1>1 DEF Late
  <2>. QED BY <2>2, <2>3, OrderMove
<1>3. CASE SessionRef(p) \/ append_max(p)
  <2>1. PICK next : Statement(p, {}, {}, next) BY <1>3 DEF SessionRef, append_max
  <2>2. tx[p].pc \in {"ref", "max"} BY <1>3 DEF SessionRef, append_max
  <2>3. add[p] = {} /\ rem[p] = {}
    BY <2>2 DEF StageInv, IdleInv, CreateInv, AppendInv, DeleteInv, Clean
  <2>. QED BY <2>1, <2>3, OrderMove
<1>4. CASE append_insert(p)
  <2>1. tx[p].op = "append" /\ tx[p].pc = "insert" BY <1>4 DEF append_insert
  <2>2. add[p] = {} /\ rem[p] = {} BY <2>1 DEF StageInv, AppendInv, Clean
  <2>3. \/ Statement(p, {}, {NewEvent(p)}, Goto(p, "children"))
        \/ Statement(p, {}, {}, Goto(p, "commit"))
    BY <1>4 DEF append_insert
  <2>4. Late(NewEvent(p), Goto(p, "children")) BY <1>1, <2>1 DEF Late, NewEvent, EventRow
  <2>. QED BY <2>2, <2>3, <2>4, OrderMove
<1>5. CASE append_children(p)
  <2>1. tx[p].op = "append" /\ tx[p].pc = "children" BY <1>5 DEF append_children
  <2>. DEFINE old == {r \in StateOf(Visible(p), tx[p].sid) :
                        \E n \in NewState(p) : RowKey(n) = RowKey(r)}
  <2>2. PICK ev : Statement(p, old, NewState(p) \cup {ChildRows(ev.id, tx[p].at)}, Goto(p, "touch"))
    BY <1>5 DEF append_children
  <2>3. \A r \in old : r.tab = "state" BY DEF StateOf, StateIn
  <2>4. \A r \in NewState(p) : r.tab = "state" BY DEF NewState, StateRow
  <2>5. \A r : r.tab = "state" => Late(r, Goto(p, "touch")) BY <1>1 DEF Late
  <2>6. Late(ChildRows(ev.id, tx[p].at), Goto(p, "touch")) BY <1>1 DEF Late, ChildRows
  <2>7. \A r : Late(r, tx[p]) => Late(r, Goto(p, "touch")) BY <1>1, <2>1 DEF Late
  <2>. HIDE DEF old
  <2>. QED BY <2>2, <2>3, <2>4, <2>5, <2>6, <2>7, OrderMove
<1>6. CASE append_touch(p)
  <2>1. PICK ins : Statement(p, ItsSession(p), ins, Goto(p, "commit"))
    BY <1>6 DEF append_touch
  <2>2. \A r : Late(r, Goto(p, "commit")) BY <1>1 DEF Late
  <2>. QED BY <2>1, <2>2, OrderMove
<1>7. CASE delete_find(p)
  <2>1. tx[p].op = "delete" /\ tx[p].pc = "find" BY <1>7 DEF delete_find
  <2>2. add[p] = {} /\ rem[p] = {} BY <2>1 DEF StageInv, DeleteInv
  <2>3. PICK next : Statement(p, {}, {}, next) BY <1>7 DEF delete_find
  <2>. QED BY <2>2, <2>3, OrderMove
<1>8. CASE delete_children(p)
  <2>1. tx[p].op = "delete" /\ tx[p].pc = "children"
        /\ Statement(p, DoomedChildren(p), {}, Goto(p, "events"))
    BY <1>8 DEF delete_children, DeleteRows
  <2>2. add[p] = {} /\ rem[p] = {} BY <2>1 DEF StageInv, DeleteInv
  <2>3. \A r \in DoomedChildren(p) : Late(r, Goto(p, "events"))
    BY <1>1 DEF Late, DoomedChildren, ChildrenIn
  <2>. QED BY <2>1, <2>2, <2>3, OrderMove
<1>9. CASE delete_events(p)
  <2>1. tx[p].op = "delete" /\ tx[p].pc = "events"
        /\ Statement(p, EventsOf(Visible(p), tx[p].sid), {}, Goto(p, "state"))
    BY <1>9 DEF delete_events, DeleteRows
  <2>2. \A r \in EventsOf(Visible(p), tx[p].sid) : Late(r, Goto(p, "state"))
    BY <1>1 DEF Late, EventsOf, EventsIn
  <2>3. \A r : Late(r, tx[p]) => Late(r, Goto(p, "state")) BY <1>1, <2>1 DEF Late
  <2>. QED BY <2>1, <2>2, <2>3, OrderMove
<1>10. CASE delete_state(p)
  <2>1. tx[p].op = "delete" /\ tx[p].pc = "state"
        /\ Statement(p, StateOf(Visible(p), tx[p].sid), {}, Goto(p, "session"))
    BY <1>10 DEF delete_state, DeleteRows
  <2>2. \A r \in StateOf(Visible(p), tx[p].sid) : Late(r, Goto(p, "session"))
    BY <1>1 DEF Late, StateOf, StateIn
  <2>3. \A r : Late(r, tx[p]) => Late(r, Goto(p, "session")) BY <1>1, <2>1 DEF Late
  <2>. QED BY <2>1, <2>2, <2>3, OrderMove
<1>11. CASE delete_row(p)
  <2>1. Statement(p, ItsSession(p), {}, Goto(p, "commit")) BY <1>11 DEF delete_row, DeleteRows
  <2>2. \A r : Late(r, Goto(p, "commit")) BY <1>1 DEF Late
  <2>. QED BY <2>1, <2>2, OrderMove
<1>12. CASE Commit(p)
  <2>1. EndTx(p) BY <1>12 DEF Commit
  <2>. QED BY <2>1, OrderClean DEF EndTx, StoreInv, LocksInv
<1>. QED
  BY <1>2, <1>3, <1>4, <1>5, <1>6, <1>7, <1>8, <1>9, <1>10, <1>11, <1>12 DEF Progress

LEMMA OrderNext == StoreInv /\ OrderInv /\ [Next]_vars => OrderInv'
<1>1. ASSUME StoreInv, OrderInv, NEW p \in Writers, Step(p) PROVE OrderInv'
  <2>1. StageInv(p) /\ DOMAIN add = Writers /\ DOMAIN rem = Writers
    BY <1>1 DEF StoreInv, CallInv, LocksInv
  <2>2. CASE Progress(p) BY <1>1, <2>2, OrderProgress
  <2>3. CASE Rollback(p) BY <1>1, <2>1, <2>3, OrderClean DEF Rollback, EndTx
  <2>4. CASE \/ \E n \in Names : Create(p, n) \/ Delete(p, n) \/ Get(p, n)
             \/ \E n \in Names, e \in Adk : AppendEvent(p, n, e)
    <3>1. tx[p] = Idle /\ \E next : tx' = [tx EXCEPT ![p] = next]
      BY <2>4 DEF Create, Delete, Get, AppendEvent, Begin
    <3>2. add' = add /\ rem' = rem BY <2>4 DEF Create, Delete, Get, AppendEvent, Begin
    <3>3. add[p] = {} /\ rem[p] = {} BY <2>1, <3>1, IdleFields DEF StageInv, IdleInv, Clean
    <3>. QED BY <1>1, <3>1, <3>2, <3>3, OrderClean
  <2>5. CASE GetShared(p) \/ Release(p)
    <3>1. tx[p].pc \in {"shared", "loaded"} /\ add' = add /\ rem' = rem
      BY <2>5 DEF GetShared, Release
    <3>2. \E next : tx' = [tx EXCEPT ![p] = next] BY <2>5 DEF GetShared, Release
    <3>3. add[p] = {} /\ rem[p] = {}
      BY <2>1, <3>1 DEF StageInv, IdleInv, CreateInv, AppendInv, DeleteInv, Clean
    <3>. QED BY <1>1, <3>1, <3>2, <3>3, OrderClean
  <2>. QED BY <1>1, <2>2, <2>3, <2>4, <2>5 DEF Step
<1>2. ASSUME OrderInv, UNCHANGED vars PROVE OrderInv'
  BY <1>2 DEF OrderInv, Late, vars
<1>. QED BY <1>1, <1>2 DEF Next

LEMMA OrderInvariant == Spec => []OrderInv
<1>1. Init => OrderInv BY DEF Init, OrderInv
<1>. QED BY <1>1, OrderNext, StoreInvariant, PTL DEF Spec

\* Whoever holds a row that p has to lock has got further than p.
LEMMA HoldersAreAhead ==
    ASSUME StoreInv, OrderInv, NEW p \in Writers, NEW q \in Writers,
           NEW r \in NextLocks(p), NEW s \in add[q] \cup rem[q], RowKey(r) = RowKey(s)
    PROVE  Open(q) /\ Rank(q) > Rank(p)
<1>. StageInv(p) /\ StageInv(q) /\ Late(s, tx[q])
  BY DEF StoreInv, CallInv, OrderInv
<1>1. s.tab \in Tabs
  BY DEF StoreInv, TablesInv, CallInv, WritesInv, RowOK
<1>2. \A i \in Visible(p) : i.tab \in Tabs BY SeenRows DEF RowOK
<1>3. Open(q) BY DEF StageInv, IdleInv, CreateInv, AppendInv, DeleteInv, Clean
<1>4. tx[q].op \in {"create", "append", "delete"}
  BY <1>3 DEF StageInv, IdleInv, Open
<1>5. /\ tx[q].pc = "touch" => tx[q].op = "append"
      /\ tx[q].pc \in {"events", "state", "session"} => tx[q].op = "delete"
  BY <1>4 DEF StageInv, CreateInv, AppendInv, DeleteInv, IdleInv
<1>6. CASE tx[p].op = "create" /\ tx[p].pc = "insert"
  <2>1. r.tab = "session" BY <1>6 DEF NextLocks, NewSession, SessionRow
  <2>2. s.tab = "session" BY <1>1, <2>1, KeyFacts DEF Tabs
  <2>. QED BY <1>3, <1>6, <2>2 DEF Late, Rank
<1>7. CASE \/ tx[p].op = "append" /\ tx[p].pc = "touch"
           \/ tx[p].op = "delete" /\ tx[p].pc = "session"
  <2>1. r.tab = "session" BY <1>7 DEF NextLocks, ItsSession, SessionsIn
  <2>2. s.tab = "session" BY <1>1, <2>1, KeyFacts DEF Tabs
  <2>. QED BY <1>3, <1>7, <2>2 DEF Late, Rank
<1>8. CASE \/ tx[p].op = "append" /\ tx[p].pc = "children"
           \/ tx[p].op = "delete" /\ tx[p].pc = "state"
  <2>1. r.tab = "state" BY <1>8 DEF NextLocks, NewState, StateRow, StateOf, StateIn
  <2>2. s.tab = "state" BY <1>1, <2>1, KeyFacts DEF Tabs
  <2>. QED BY <1>3, <1>5, <1>8, <2>2 DEF Late, Rank
<1>9. CASE \/ tx[p].op = "append" /\ tx[p].pc = "insert"
           \/ tx[p].op = "delete" /\ tx[p].pc = "events"
  <2>1. r.tab = "event" BY <1>9 DEF NextLocks, NewEvent, EventRow, EventsOf, EventsIn
  <2>2. s.tab = "event" BY <1>1, <2>1, KeyFacts DEF Tabs
  <2>. QED BY <1>3, <1>5, <1>9, <2>2 DEF Late, Rank
<1>10. CASE tx[p].op = "delete" /\ tx[p].pc = "children"
  <2>1. r.tab = "child" BY <1>10 DEF NextLocks, DoomedChildren, ChildrenIn
  <2>2. s.tab = "child" BY <1>1, <2>1, KeyFacts DEF Tabs
  <2>. QED BY <1>3, <1>5, <1>10, <2>2 DEF Late, Rank
<1>11. CASE NextLocks(p) = {} BY <1>11
<1>. QED BY <1>6, <1>7, <1>8, <1>9, <1>10, <1>11 DEF NextLocks

\* On Postgres too, with any number of callers in any of the three functions,
\* open transactions never wait for each other in a cycle: one that has got
\* furthest waits for nobody, and its next statement runs.
THEOREM WaitsHaveAnEnd == Spec => []NoWaitCycle
<1>1. ASSUME StoreInv, OrderInv PROVE NoWaitCycle
  <2>. DEFINE open == {p \in Writers : Open(p)}
              Refused(p) ==
                \/ tx[p].pc = "ref" /\ \A s \in SessionsIn(db) : s.name # tx[p].name
                \/ tx[p].op = "create" /\ \E s \in SessionsIn(db) : s.name = tx[p].name
  <2>. SUFFICES ASSUME open # {}, \A p \in open : ~Refused(p) /\ ~CanGoOn(p)
                PROVE  FALSE
    BY DEF NoWaitCycle
  <2>1. ASSUME NEW p \in open PROVE \E q \in open : Rank(q) > Rank(p)
    <3>. ~Refused(p) /\ StageInv(p) /\ p \in Writers BY <1>1 DEF StoreInv, CallInv
    <3>1. tx[p].op = "create" /\ tx[p].pc = "insert" =>
            \A r \in SessionsIn(Visible(p)) : r.name # tx[p].name
      BY DEF StageInv, IdleInv, CreateInv, AppendInv, DeleteInv, Visible
    <3>2. tx[p].pc = "ref" => \E r \in SessionsIn(Visible(p)) : r.name = tx[p].name
      BY DEF StageInv, IdleInv, CreateInv, AppendInv, DeleteInv, Clean, Visible
    <3>3. tx[p].op = "append" /\ tx[p].pc = "children" => Stored(p) # {}
      <4>. SUFFICES ASSUME tx[p].op = "append", tx[p].pc = "children" PROVE Stored(p) # {}
        OBVIOUS
      <4>1. NewEvent(p) \in Visible(p) BY DEF StageInv, AppendInv, Visible
      <4>2. /\ NewEvent(p).tab = "event" /\ NewEvent(p).sid = tx[p].sid
            /\ NewEvent(p).adk = tx[p].adk
        BY DEF NewEvent, EventRow
      <4>. QED BY <4>1, <4>2 DEF Stored, EventsOf, EventsIn
    <3>4. ~Free(p, NextLocks(p)) BY <3>1, <3>2, <3>3 DEF CanGoOn
    <3>5. PICK q \in Writers :
             \E r \in NextLocks(p), s \in add[q] \cup rem[q] : RowKey(r) = RowKey(s)
      BY <3>4 DEF Free, Held
    <3>. QED BY <1>1, <3>5, HoldersAreAhead
  <2>2. \A p : Rank(p) \in 1..5 BY DEF Rank
  <2>. HIDE DEF open
  <2>3. \A p \in open : Rank(p) >= 1 BY <2>2
  <2>4. \E p \in open : Rank(p) >= 2 BY <2>1, <2>2
  <2>5. \E p \in open : Rank(p) >= 3 BY <2>1, <2>2, <2>4
  <2>6. \E p \in open : Rank(p) >= 4 BY <2>1, <2>2, <2>5
  <2>7. \E p \in open : Rank(p) >= 5 BY <2>1, <2>2, <2>6
  <2>. QED BY <2>1, <2>2, <2>7
<1>. QED BY <1>1, StoreInvariant, OrderInvariant, PTL

=============================================================================
