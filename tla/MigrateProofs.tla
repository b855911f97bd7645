------------------------------ MODULE MigrateProofs ------------------------------
(***************************************************************************)
(* Proofs about Migrate, for any number of processes that boot at once and *)
(* of deaths.                                                              *)
(***************************************************************************)
EXTENDS Migrate, SequenceTheorems, TLAPS

Place == {"off", "bootstrap", "ledger", "apply", "record", "down", "up", "ready", "failed"}

\* The migrations a boot has behind it.
Behind(p) == {recorded[i] : i \in 1 .. proc[p].at - 1}

Past == {"down", "up", "ready"}

\* A boot has behind it only what the ledger has; the migration it is recording
\* has committed; a boot that got past the loop has them all behind it, and one
\* that began has the schema.
BootOf(p) ==
    /\ proc[p].pc \in {"apply", "record"} => Behind(p) \subseteq ledger
    /\ proc[p].pc = "record" =>
         proc[p].at \in DOMAIN recorded /\ Current(p) \in done
    /\ proc[p].pc \in Past => Recorded \subseteq ledger
    /\ proc[p].pc \in Past \cup {"ledger", "apply", "record"} => schema

BootInv == \A p \in Procs : BootOf(p)

Boots == [pc : Place, applied : SUBSET Recorded,
          at : 1 .. Len(recorded) + 1, why : {"", "duplicate", "missing"}]

ProcTypeOK == proc \in [Procs -> Boots]

\* What excuses a ready process whose graph is missing.
GraphSeen == graph \/ deaths > 0 \/ \E q \in Procs : proc[q].pc = "up"

MigrateInv ==
    /\ MigrateTypeOK /\ ProcTypeOK /\ deaths \in Nat
    /\ BootInv /\ LedgerSound /\ OnlyDuplicates /\ ReadyComplete

-----------------------------------------------------------------------------
(* The histories.                                                          *)

Files == {"tables/0001", "tables/0002", "tables/0003", "tables/0004",
          "sql/0001", "sql/0002", "sql/0003", "sql/0004"}

LEMMA Histories ==
    /\ Tables \in Seq(Files) /\ Len(Tables) = 4
    /\ Own \in Seq(Files) /\ Len(Own) = 4
BY DEF Tables, Own, Files

\* Four files followed by the last three of four others.
LEMMA Spliced ==
    ASSUME NEW t \in Seq(Files), Len(t) = 4, NEW u \in Seq(Files), Len(u) = 4
    PROVE  LET r == t \o Tail(u) IN
             /\ r \in Seq(Files) /\ Len(r) = 7
             /\ r[1] = t[1] /\ r[2] = t[2] /\ r[3] = t[3] /\ r[4] = t[4]
             /\ r[5] = u[2] /\ r[6] = u[3] /\ r[7] = u[4]
<1>1. u # <<>>
  BY EmptySeq
<1>2. Tail(u) \in Seq(Files) /\ Len(Tail(u)) = 3
  BY <1>1
<1>3. Tail(u)[1] = u[2] /\ Tail(u)[2] = u[3] /\ Tail(u)[3] = u[4]
  BY <1>1, <1>2
<1>4. ASSUME NEW w \in Seq(Files), Len(w) = 3
      PROVE  LET r == t \o w IN
               /\ r \in Seq(Files) /\ Len(r) = 7
               /\ r[1] = t[1] /\ r[2] = t[2] /\ r[3] = t[3] /\ r[4] = t[4]
               /\ r[5] = w[1] /\ r[6] = w[2] /\ r[7] = w[3]
  <2>1. /\ t \o w \in Seq(Files) /\ Len(t \o w) = Len(t) + Len(w)
        /\ \A i \in 1..Len(t) + Len(w) :
             (t \o w)[i] = IF i <= Len(t) THEN t[i] ELSE w[i - Len(t)]
    BY <1>4, ConcatProperties, Zenon
  <2> DEFINE r == t \o w
  <2> HIDE DEF r
  <2>2. /\ Len(r) = 7
        /\ \A i \in 1..7 : r[i] = IF i <= 4 THEN t[i] ELSE w[i - 4]
    BY <1>4, <2>1 DEF r
  <2>3. r[1] = t[1] /\ r[2] = t[2] /\ r[3] = t[3] /\ r[4] = t[4]
    BY <2>2
  <2>4. r[5] = w[5 - 4] /\ r[6] = w[6 - 4] /\ r[7] = w[7 - 4]
    BY <2>2
  <2>5. 5 - 4 = 1 /\ 6 - 4 = 2 /\ 7 - 4 = 3
    OBVIOUS
  <2> QED
    BY <2>1, <2>2, <2>3, <2>4, <2>5, Zenon DEF r
<1> QED
  BY <1>2, <1>3, <1>4, Zenon

LEMMA RecordedSequence ==
    /\ recorded \in Seq(Files)
    /\ Len(recorded) = 7
    /\ recorded[1] = "tables/0001" /\ recorded[2] = "tables/0002"
    /\ recorded[3] = "tables/0003" /\ recorded[4] = "tables/0004"
    /\ recorded[5] = "sql/0002" /\ recorded[6] = "sql/0003" /\ recorded[7] = "sql/0004"
<1>1. /\ Tables[1] = "tables/0001" /\ Tables[2] = "tables/0002"
      /\ Tables[3] = "tables/0003" /\ Tables[4] = "tables/0004"
  BY DEF Tables
<1>2. Own[2] = "sql/0002" /\ Own[3] = "sql/0003" /\ Own[4] = "sql/0004"
  BY DEF Own
<1>3. LET r == Tables \o Tail(Own) IN
        /\ r \in Seq(Files) /\ Len(r) = 7
        /\ r[1] = Tables[1] /\ r[2] = Tables[2] /\ r[3] = Tables[3] /\ r[4] = Tables[4]
        /\ r[5] = Own[2] /\ r[6] = Own[3] /\ r[7] = Own[4]
  BY Histories, Spliced, Zenon
<1> QED
  BY <1>1, <1>2, <1>3, Zenon DEF recorded

LEMMA RecordedSet ==
    /\ Recorded = {recorded[i] : i \in 1..7}
    /\ DOMAIN recorded = 1..7
BY RecordedSequence DEF Recorded, ToSet

\* Every migration comes after those whose tables it names, and the graph's
\* tables are among them.
LEMMA OrderRespectsNeeds ==
    /\ \A k \in 1..7 : Needs(recorded[k]) \subseteq {recorded[i] : i \in 1..k - 1}
    /\ GraphNeeds \subseteq Recorded
<1>1. \A k \in 1..7 : Needs(recorded[k]) # {} => k \in {2, 3, 7}
  BY RecordedSequence DEF Needs
<1>2. Needs(recorded[2]) = {recorded[1]} /\ Needs(recorded[3]) = {recorded[1]}
  BY RecordedSequence DEF Needs
<1>3. Needs(recorded[7]) = {recorded[4]}
  BY RecordedSequence DEF Needs
<1>4. GraphNeeds = {recorded[1], recorded[3], recorded[4]}
  BY RecordedSequence DEF GraphNeeds
<1> QED
  BY <1>1, <1>2, <1>3, <1>4, RecordedSet

-----------------------------------------------------------------------------
(* The invariant.                                                          *)

LEMMA ReleasesRecorded == \A old \in Releases : old \subseteq Recorded
<1> SUFFICES ASSUME NEW i \in 1 .. Len(Tables), NEW j \in 1 .. Len(Own)
             PROVE  /\ ToSet(SubSeq(Tables, 1, i)) \subseteq Recorded
                    /\ ToSet(SubSeq(Own, 2, j)) \subseteq Recorded
  BY DEF Releases
<1>1. i \in 1..4 /\ j \in 1..4
  BY Histories
<1>2. \A k \in 1..4 : Tables[k] \in Files /\ Own[k] \in Files
  BY Histories
<1>4. \A k \in 1..4 : Tables[k] \in Recorded
  <2>1. \A k \in 1..4 : k \in 1..7 /\ recorded[k] = Tables[k]
    BY RecordedSequence DEF Tables
  <2> QED
    BY <2>1, RecordedSet
<1>5. \A k \in 2..4 : Own[k] \in Recorded
  <2>1. \A k \in 2..4 : k + 3 \in 1..7 /\ recorded[k + 3] = Own[k]
    BY RecordedSequence DEF Own
  <2> QED
    BY <2>1, RecordedSet
<1>6. ToSet(SubSeq(Tables, 1, i)) \subseteq {Tables[k] : k \in 1..4}
  BY <1>1, Histories DEF ToSet
<1>7. ToSet(SubSeq(Own, 2, j)) \subseteq {Own[k] : k \in 2..4}
  BY <1>1, Histories DEF ToSet
<1> QED
  BY <1>4, <1>5, <1>6, <1>7

LEMMA MigrateInitInv == Init => MigrateInv
<1> SUFFICES ASSUME Init PROVE MigrateInv
  OBVIOUS
<1>1. PICK old \in Releases :
        /\ schema = (old # {}) /\ done = old /\ ledger = old
        /\ graph \in {FALSE, "tables/0003" \in old}
        /\ proc = [p \in Procs |-> Off] /\ deaths = 0
  BY DEF Init
<1>2. old \subseteq Recorded
  BY ReleasesRecorded
<1>3. MigrateTypeOK
  <2>1. schema \in BOOLEAN /\ graph \in BOOLEAN
    <3>1. (old # {}) \in BOOLEAN /\ ("tables/0003" \in old) \in BOOLEAN /\ FALSE \in BOOLEAN
      OBVIOUS
    <3> QED
      BY <1>1, <3>1, Zenon
  <2>2. \A p \in Procs : proc[p].at \in 1 .. Len(recorded) + 1
    <3>1. \A p \in Procs : proc[p].at = 1
      BY <1>1 DEF Off
    <3> QED
      BY <3>1, RecordedSequence
  <2> QED
    BY <1>1, <1>2, <2>1, <2>2 DEF MigrateTypeOK
<1>4. ProcTypeOK
  <2>1. Off \in Boots
    <3>1. 1 \in 1 .. Len(recorded) + 1
      BY RecordedSequence
    <3> QED
      BY <3>1 DEF Off, Place, Boots
  <2> QED
    BY <1>1, <2>1 DEF ProcTypeOK
<1>5. BootInv /\ LedgerSound /\ OnlyDuplicates /\ ReadyComplete
  BY <1>1 DEF BootInv, BootOf, LedgerSound, OnlyDuplicates, ReadyComplete, Off, Past
<1> QED
  BY <1>1, <1>3, <1>4, <1>5 DEF MigrateInv

\* A step of one boot keeps the invariant when it keeps its own part of it and
\* takes nothing from the database but the graph.
LEMMA OneBootSteps ==
    ASSUME MigrateInv, NEW q \in Procs, NEW new \in Boots,
           proc' = [proc EXCEPT ![q] = new],
           schema' \in BOOLEAN, graph' \in BOOLEAN, deaths' \in Nat,
           schema => schema',
           done \subseteq done', ledger \subseteq ledger',
           done' \subseteq Recorded, ledger' \subseteq done',
           new.applied \subseteq ledger', new.why # "missing",
           BootOf(q)',
           GraphSeen => GraphSeen', new.pc = "ready" => GraphSeen'
    PROVE  MigrateInv'
<1> USE DEF MigrateInv
<1>1. /\ proc'[q] = new /\ \A p \in Procs \ {q} : proc'[p] = proc[p]
      /\ proc' \in [Procs -> Boots]
  BY DEF ProcTypeOK
<1>2. ProcTypeOK' /\ deaths' \in Nat
  BY <1>1 DEF ProcTypeOK
<1>3. MigrateTypeOK'
  BY <1>1 DEF MigrateTypeOK, Boots
<1>4. BootInv'
  <2> SUFFICES ASSUME NEW p \in Procs, p # q PROVE BootOf(p)'
    BY DEF BootInv
  <2>1. BootOf(p) /\ proc'[p] = proc[p]
    BY <1>1 DEF BootInv
  <2> QED
    BY <2>1 DEF BootOf, Behind, Current, MigrateTypeOK
<1>5. LedgerSound'
  BY <1>1 DEF LedgerSound
<1>6. OnlyDuplicates'
  BY <1>1 DEF OnlyDuplicates
<1>7. ReadyComplete'
  <2> SUFFICES ASSUME NEW p \in Procs, proc'[p].pc = "ready"
               PROVE  done' = Recorded /\ ledger' = Recorded /\ GraphSeen'
    BY DEF ReadyComplete, GraphSeen
  <2>1. Recorded \subseteq ledger'
    BY <1>4 DEF BootInv, BootOf, Past
  <2>2. GraphSeen'
    BY <1>1 DEF ReadyComplete, GraphSeen
  <2> QED
    BY <2>1, <2>2
<1> QED
  BY <1>2, <1>3, <1>4, <1>5, <1>6, <1>7

\* Where a boot's own record stands after a step.
Moves(q, new) == new \in Boots /\ proc' = [proc EXCEPT ![q] = new] /\ proc'[q] = new

\* The boot q is at pc, for the reason why, and has read and done what it had.
Lands(q, pc, why) ==
    \E new \in Boots :
      /\ Moves(q, new) /\ new.pc = pc /\ new.why = why
      /\ new.applied = proc[q].applied /\ new.at = proc[q].at

LEMMA GotoLands ==
    ASSUME ProcTypeOK, NEW q \in Procs, NEW pc \in Place, Goto(q, pc)
    PROVE  Lands(q, pc, proc[q].why)
<1> DEFINE new == [proc[q] EXCEPT !.pc = pc]
<1>1. Moves(q, new)
  BY DEF ProcTypeOK, Goto, Moves, Boots
<1>2. /\ new.pc = pc /\ new.why = proc[q].why
      /\ new.applied = proc[q].applied /\ new.at = proc[q].at
  BY DEF ProcTypeOK, Boots
<1> HIDE DEF new
<1> QED
  BY <1>1, <1>2 DEF Lands, Moves

LEMMA FailLands ==
    ASSUME ProcTypeOK, NEW q \in Procs, Fail(q, "duplicate")
    PROVE  Lands(q, "failed", "duplicate")
<1> DEFINE new == [proc[q] EXCEPT !.pc = "failed", !.why = "duplicate"]
<1>1. Moves(q, new)
  BY DEF ProcTypeOK, Fail, Moves, Boots, Place
<1>2. /\ new.pc = "failed" /\ new.why = "duplicate"
      /\ new.applied = proc[q].applied /\ new.at = proc[q].at
  BY DEF ProcTypeOK, Boots
<1> HIDE DEF new
<1> QED
  BY <1>1, <1>2 DEF Lands, Moves

\* The boot q has one more migration behind it.
Advances(q) == proc' = [proc EXCEPT ![q].pc = "apply", ![q].at = @ + 1]

LEMMA AdvanceLands ==
    ASSUME ProcTypeOK, NEW q \in Procs, proc[q].at \in 1 .. Len(recorded), Advances(q)
    PROVE  \E new \in Boots :
             /\ Moves(q, new) /\ new.pc = "apply" /\ new.at = proc[q].at + 1
             /\ new.applied = proc[q].applied /\ new.why = proc[q].why
<1> DEFINE new == [proc[q] EXCEPT !.pc = "apply", !.at = @ + 1]
<1>0. Len(recorded) = 7
  BY RecordedSequence
<1>1. proc[q].at + 1 \in 1 .. Len(recorded) + 1
  BY <1>0
<1>2. new \in Boots
  BY <1>1 DEF ProcTypeOK, Boots, Place
<1>3. Moves(q, new)
  BY <1>2 DEF ProcTypeOK, Advances, Moves, Boots
<1>4. /\ new.pc = "apply" /\ new.at = proc[q].at + 1
      /\ new.applied = proc[q].applied /\ new.why = proc[q].why
  BY DEF ProcTypeOK, Boots
<1> HIDE DEF new
<1> QED
  BY <1>2, <1>3, <1>4

\* Leaving any place but the one between the graph's drop and its create takes
\* no excuse away.
LEMMA SeenKept ==
    ASSUME ProcTypeOK, NEW q \in Procs, NEW new, Moves(q, new), proc[q].pc # "up",
           graph' = graph, deaths' = deaths
    PROVE  GraphSeen => GraphSeen'
BY DEF ProcTypeOK, Moves, GraphSeen

\* What the invariant says of the boot q and of the database.
LEMMA BootFacts ==
    ASSUME MigrateInv, NEW q \in Procs
    PROVE  /\ proc[q] \in Boots /\ ProcTypeOK /\ proc[q].why # "missing"
           /\ deaths \in Nat /\ schema \in BOOLEAN /\ graph \in BOOLEAN
           /\ ledger \subseteq done /\ done \subseteq Recorded /\ ledger \subseteq Recorded
           /\ proc[q].applied \subseteq ledger /\ BootOf(q)
BY DEF MigrateInv, ProcTypeOK, MigrateTypeOK, LedgerSound, OnlyDuplicates, BootInv

\* A step before the loop: only the schema may be new.
LEMMA EarlyStep ==
    ASSUME MigrateInv, NEW q \in Procs, NEW new \in Boots, Moves(q, new),
           proc[q].pc # "up", UNCHANGED <<done, ledger, graph, deaths>>,
           schema' \in BOOLEAN, schema => schema',
           new.applied \subseteq ledger, new.why # "missing",
           new.pc \in {"off", "bootstrap", "ledger", "apply"},
           new.pc = "apply" => new.at = 1,
           new.pc \in {"ledger", "apply"} => schema'
    PROVE  MigrateInv'
<1>1. BootOf(q)'
  <2>1. proc'[q] = new
    BY DEF Moves
  <2>2. new.pc = "apply" => Behind(q)' = {}
    BY <2>1 DEF Behind
  <2> QED
    BY <2>1, <2>2 DEF BootOf, Past
<1>2. GraphSeen => GraphSeen'
  BY BootFacts, SeenKept
<1>3. /\ graph' \in BOOLEAN /\ deaths' \in Nat
      /\ done \subseteq done' /\ ledger \subseteq ledger'
      /\ done' \subseteq Recorded /\ ledger' \subseteq done'
      /\ new.applied \subseteq ledger' /\ new.pc # "ready"
      /\ proc' = [proc EXCEPT ![q] = new]
  BY BootFacts DEF Moves
<1> QED
  BY <1>1, <1>2, <1>3, OneBootSteps

\* The steps before the loop and around a failure.
LEMMA OutsideKeepsInv ==
    ASSUME MigrateInv, NEW q \in Procs,
           Boot(q) \/ Bootstrap(q) \/ appliedVersions(q) \/ Retry(q)
    PROVE  MigrateInv'
<1>0. /\ proc[q] \in Boots /\ ProcTypeOK /\ proc[q].why # "missing"
      /\ schema \in BOOLEAN /\ ledger \subseteq Recorded
      /\ proc[q].applied \subseteq ledger /\ BootOf(q)
  BY BootFacts
<1>1. 1 \in 1 .. Len(recorded) + 1
  BY RecordedSequence
<1>2. CASE Boot(q)
  <2>1. PICK new \in Boots : /\ Moves(q, new) /\ new.pc = "bootstrap" /\ new.why = proc[q].why
                             /\ new.applied = proc[q].applied
    BY <1>0, <1>2, GotoLands DEF Boot, Place, Lands
  <2>2. UNCHANGED <<schema, done, ledger, graph, deaths>> /\ proc[q].pc # "up"
    BY <1>2 DEF Boot
  <2> QED
    BY <1>0, <2>1, <2>2, EarlyStep
<1>3. CASE Bootstrap(q)
  <2>1. PICK new \in Boots : /\ Moves(q, new) /\ new.pc = "ledger" /\ new.why = proc[q].why
                             /\ new.applied = proc[q].applied
    BY <1>0, <1>3, GotoLands DEF Bootstrap, Place, Lands
  <2>2. schema' = TRUE /\ UNCHANGED <<done, ledger, graph, deaths>> /\ proc[q].pc # "up"
    BY <1>3 DEF Bootstrap
  <2> QED
    BY <1>0, <2>1, <2>2, EarlyStep
<1>4. CASE appliedVersions(q)
  <2> DEFINE new == [proc[q] EXCEPT !.pc = "apply", !.applied = ledger, !.at = 1]
  <2>1. Moves(q, new)
    BY <1>0, <1>1, <1>4 DEF appliedVersions, Moves, ProcTypeOK, Boots, Place
  <2>2. new.pc = "apply" /\ new.at = 1 /\ new.applied = ledger /\ new.why = proc[q].why
    BY <1>0 DEF Boots
  <2>3. /\ UNCHANGED <<schema, done, ledger, graph, deaths>>
        /\ proc[q].pc # "up" /\ schema
    BY <1>0, <1>4 DEF appliedVersions, BootOf
  <2>4. new \in Boots
    BY <2>1 DEF Moves
  <2> HIDE DEF new
  <2> QED
    BY <1>0, <2>1, <2>2, <2>3, <2>4, EarlyStep
<1>5. CASE Retry(q)
  <2>1. Off \in Boots /\ Off.pc = "off" /\ Off.applied = {} /\ Off.why = ""
    BY <1>1 DEF Off, Boots, Place
  <2>2. Moves(q, Off)
    BY <1>0, <1>5, <2>1 DEF Retry, Moves, ProcTypeOK
  <2>3. UNCHANGED <<schema, done, ledger, graph, deaths>> /\ proc[q].pc # "up"
    BY <1>5 DEF Retry
  <2> QED
    BY <1>0, <2>1, <2>2, <2>3, EarlyStep
<1> QED
  BY <1>2, <1>3, <1>4, <1>5

\* A death takes nothing but the boot, and is an excuse for the graph.
LEMMA DieKeepsInv ==
    ASSUME MigrateInv, NEW q \in Procs, Die(q)
    PROVE  MigrateInv'
<1>0. /\ ProcTypeOK /\ deaths \in Nat /\ schema \in BOOLEAN /\ graph \in BOOLEAN
      /\ ledger \subseteq done /\ done \subseteq Recorded
  BY BootFacts
<1>1. /\ UNCHANGED <<done, ledger, graph, schema>> /\ deaths' = deaths + 1
      /\ proc' = [proc EXCEPT ![q] = Off]
  BY DEF Die
<1>2. Off \in Boots /\ Off.pc = "off" /\ Off.applied = {} /\ Off.why = ""
  BY RecordedSequence DEF Off, Boots, Place
<1>3. proc'[q] = Off
  BY <1>0, <1>1 DEF ProcTypeOK
<1>4. BootOf(q)'
  BY <1>2, <1>3 DEF BootOf, Past
<1>5. GraphSeen'
  BY <1>0, <1>1 DEF GraphSeen
<1>6. /\ deaths' \in Nat /\ schema' \in BOOLEAN /\ graph' \in BOOLEAN
      /\ schema => schema'
  BY <1>0, <1>1
<1>7. /\ done \subseteq done' /\ ledger \subseteq ledger'
      /\ done' \subseteq Recorded /\ ledger' \subseteq done'
      /\ Off.applied \subseteq ledger' /\ Off.why # "missing"
  BY <1>0, <1>1, <1>2
<1> QED
  BY <1>1, <1>2, <1>4, <1>5, <1>6, <1>7, OneBootSteps

\* A step of the loop: nothing is taken away, the graph is left alone.
LEMMA LoopStep ==
    ASSUME MigrateInv, NEW q \in Procs, NEW new \in Boots, Moves(q, new),
           proc[q].pc # "up", UNCHANGED <<schema, graph, deaths>>,
           done \subseteq done', ledger \subseteq ledger',
           done' \subseteq Recorded, ledger' \subseteq done',
           new.applied = proc[q].applied, new.why # "missing",
           new.pc # "ready", BootOf(q)'
    PROVE  MigrateInv'
<1>1. GraphSeen => GraphSeen'
  BY BootFacts, SeenKept
<1>2. /\ schema' \in BOOLEAN /\ graph' \in BOOLEAN /\ deaths' \in Nat /\ (schema => schema')
      /\ new.applied \subseteq ledger'
      /\ proc' = [proc EXCEPT ![q] = new]
  BY BootFacts DEF Moves
<1> QED
  BY <1>1, <1>2, OneBootSteps

\* What a boot in the loop stands on.
LEMMA LoopFacts ==
    ASSUME MigrateInv, NEW q \in Procs, proc[q].pc \in {"apply", "record"}
    PROVE  /\ proc[q].at \in 1..8 /\ Len(recorded) = 7
           /\ Behind(q) \subseteq ledger /\ schema
           /\ \A i \in 1..7 : recorded[i] \in Recorded
           /\ proc[q].pc = "record" => proc[q].at \in 1..7 /\ Current(q) \in done
<1>1. Len(recorded) = 7 /\ DOMAIN recorded = 1..7
  BY RecordedSequence, RecordedSet
<1>2. proc[q].at \in 1 .. Len(recorded) + 1
  BY BootFacts DEF Boots
<1>3. proc[q].at \in 1..8
  BY <1>1, <1>2
<1>4. Behind(q) \subseteq ledger /\ schema
  BY BootFacts DEF BootOf
<1>5. proc[q].pc = "record" => proc[q].at \in 1..7 /\ Current(q) \in done
  BY <1>1, BootFacts DEF BootOf
<1> QED
  BY <1>1, <1>3, <1>4, <1>5, RecordedSet

\* A migration is behind a boot once the ledger has it.
LEMMA AdvanceKeepsInv ==
    ASSUME MigrateInv, NEW q \in Procs, proc[q].pc \in {"apply", "record"},
           proc[q].at \in 1..7, Advances(q), recorded[proc[q].at] \in ledger',
           UNCHANGED <<schema, done, graph, deaths>>, ledger \subseteq ledger', ledger' \subseteq done
    PROVE  MigrateInv'
<1> DEFINE k == proc[q].at
<1>0. Len(recorded) = 7 /\ Behind(q) \subseteq ledger /\ schema
  BY LoopFacts
<1>1. PICK new \in Boots : /\ Moves(q, new) /\ new.pc = "apply" /\ new.at = k + 1
                           /\ new.applied = proc[q].applied /\ new.why = proc[q].why
  BY <1>0, BootFacts, AdvanceLands
<1>2. proc'[q] = new
  BY <1>1 DEF Moves
<1>3. Behind(q)' = Behind(q) \cup {recorded[k]}
  <2>1. 1 .. new.at - 1 = (1 .. k - 1) \cup {k}
    BY <1>1
  <2> QED
    BY <1>2, <2>1 DEF Behind
<1>4. BootOf(q)'
  BY <1>0, <1>1, <1>2, <1>3 DEF BootOf, Past
<1>5. /\ done \subseteq done' /\ done' \subseteq Recorded /\ ledger' \subseteq done'
      /\ new.why # "missing"
  BY <1>1, BootFacts
<1> QED
  BY <1>1, <1>4, <1>5, LoopStep

LEMMA SkipKeepsInv ==
    ASSUME MigrateInv, NEW q \in Procs, Skip(q)
    PROVE  MigrateInv'
<1>0. /\ proc[q].pc = "apply" /\ UNCHANGED <<schema, done, ledger, graph, deaths>>
  BY DEF Skip
<1>1. /\ proc[q].at \in 1..8 /\ Len(recorded) = 7 /\ Behind(q) \subseteq ledger /\ schema
  BY <1>0, LoopFacts
<1>2. CASE proc[q].at = 8
  <2>1. Goto(q, "down")
    BY <1>1, <1>2 DEF Skip
  <2>2. PICK new \in Boots : /\ Moves(q, new) /\ new.pc = "down" /\ new.why = proc[q].why
                             /\ new.applied = proc[q].applied
    BY <2>1, BootFacts, GotoLands DEF Place, Lands
  <2>3. Behind(q) = Recorded
    <3>1. proc[q].at - 1 = 7
      BY <1>2
    <3> QED
      BY <3>1, RecordedSet DEF Behind
  <2>4. BootOf(q)'
    <3>1. proc'[q] = new
      BY <2>2 DEF Moves
    <3> QED
      BY <1>0, <1>1, <2>2, <2>3, <3>1 DEF BootOf, Past
  <2> QED
    BY <1>0, <2>2, <2>4, BootFacts, LoopStep
<1>3. CASE proc[q].at # 8
  <2>1. /\ proc[q].at \in 1..7 /\ ~(proc[q].at > Len(recorded))
    BY <1>1, <1>3
  <2>2. /\ Current(q) \in proc[q].applied
        /\ proc' = [proc EXCEPT ![q].at = @ + 1]
    BY <2>1 DEF Skip
  <2>3. Advances(q)
    <3>1. proc \in [Procs -> Boots] /\ proc[q] \in Boots
      BY BootFacts DEF ProcTypeOK
    <3>2. [proc[q] EXCEPT !.pc = "apply"] = proc[q]
      BY <1>0, <3>1 DEF Boots
    <3>3. [proc EXCEPT ![q] = [proc[q] EXCEPT !.pc = "apply"]] = proc
      BY <3>1, <3>2
    <3> QED
      BY <2>2, <3>3 DEF Advances
  <2>4. recorded[proc[q].at] \in ledger /\ ledger \subseteq done
    BY <2>2, BootFacts DEF Current
  <2> QED
    BY <1>0, <2>1, <2>3, <2>4, AdvanceKeepsInv
<1> QED
  BY <1>2, <1>3

LEMMA RecordKeepsInv ==
    ASSUME MigrateInv, NEW q \in Procs, Record(q)
    PROVE  MigrateInv'
<1>1. /\ proc[q].pc = "record" /\ Advances(q) /\ ledger' = ledger \cup {Current(q)}
      /\ UNCHANGED <<schema, done, graph, deaths>>
  BY DEF Record, Advances
<1>2. proc[q].at \in 1..7 /\ Current(q) \in done
  BY <1>1, LoopFacts
<1>3. recorded[proc[q].at] \in ledger' /\ ledger \subseteq ledger' /\ ledger' \subseteq done
  BY <1>1, <1>2, BootFacts DEF Current
<1> QED
  BY <1>1, <1>2, <1>3, AdvanceKeepsInv

\* A migration finds the tables it names: those that build them are behind it.
LEMMA ExecUpKeepsInv ==
    ASSUME MigrateInv, NEW q \in Procs, ExecUp(q)
    PROVE  MigrateInv'
<1> DEFINE k == proc[q].at
<1>0. /\ proc[q].pc = "apply" /\ k <= Len(recorded)
      /\ UNCHANGED <<schema, ledger, graph, deaths>>
  BY DEF ExecUp
<1>1. /\ k \in 1..7 /\ Behind(q) \subseteq ledger /\ schema /\ Current(q) \in Recorded
      /\ ledger \subseteq done /\ done \subseteq Recorded
  <2>1. /\ k \in 1..8 /\ Len(recorded) = 7 /\ Behind(q) \subseteq ledger /\ schema
        /\ \A i \in 1..7 : recorded[i] \in Recorded
    BY <1>0, LoopFacts
  <2>2. k \in 1..7
    BY <1>0, <2>1
  <2> QED
    BY <2>1, <2>2, BootFacts DEF Current
<1>2. ~Missing(Current(q))
  <2>1. Needs(recorded[k]) \subseteq {recorded[i] : i \in 1..k - 1}
    BY <1>1, OrderRespectsNeeds
  <2> QED
    BY <1>1, <2>1 DEF Current, Behind, Missing
<1>3. CASE Duplicate(Current(q))
  <2>1. Fail(q, "duplicate") /\ done' = done
    BY <1>2, <1>3 DEF ExecUp
  <2>2. PICK new \in Boots : /\ Moves(q, new) /\ new.pc = "failed" /\ new.why = "duplicate"
                             /\ new.applied = proc[q].applied
    BY <2>1, BootFacts, FailLands DEF Lands
  <2>3. BootOf(q)'
    <3>1. proc'[q] = new
      BY <2>2 DEF Moves
    <3> QED
      BY <2>2, <3>1 DEF BootOf, Past
  <2> QED
    BY <1>0, <1>1, <2>1, <2>2, <2>3, LoopStep
<1>4. CASE ~Duplicate(Current(q))
  <2>1. Goto(q, "record") /\ done' = done \cup {Current(q)}
    BY <1>2, <1>4 DEF ExecUp
  <2>2. PICK new \in Boots : /\ Moves(q, new) /\ new.pc = "record" /\ new.why = proc[q].why
                             /\ new.applied = proc[q].applied /\ new.at = k
    BY <2>1, BootFacts, GotoLands DEF Place, Lands
  <2>3. BootOf(q)'
    <3>1. proc'[q] = new
      BY <2>2 DEF Moves
    <3>2. Behind(q)' = Behind(q) /\ Current(q)' = Current(q)
      BY <2>2, <3>1 DEF Behind, Current
    <3>3. DOMAIN recorded = 1..7
      BY RecordedSet
    <3> QED
      BY <1>0, <1>1, <2>1, <2>2, <3>1, <3>2, <3>3 DEF BootOf, Past
  <2>4. done \subseteq done' /\ done' \subseteq Recorded /\ ledger' \subseteq done'
    BY <1>0, <1>1, <2>1
  <2> QED
    BY <1>0, <2>2, <2>3, <2>4, BootFacts, LoopStep
<1> QED
  BY <1>3, <1>4

\* The graph's two steps: its tables are there by then.
LEMMA GraphKeepsInv ==
    ASSUME MigrateInv, NEW q \in Procs, GraphDown(q) \/ GraphUp(q)
    PROVE  MigrateInv'
<1>0. /\ proc[q] \in Boots /\ ProcTypeOK
      /\ Recorded \subseteq ledger /\ ledger \subseteq done /\ schema
      /\ done \subseteq Recorded /\ proc[q].applied \subseteq ledger
      /\ proc[q].why # "missing" /\ graph \in BOOLEAN /\ schema \in BOOLEAN /\ deaths \in Nat
  BY DEF MigrateInv, ProcTypeOK, BootInv, BootOf, Past, LedgerSound, MigrateTypeOK,
     OnlyDuplicates, GraphDown, GraphUp
<1>1. GraphNeeds \subseteq done
  BY <1>0, OrderRespectsNeeds
<1>2. UNCHANGED <<schema, done, ledger, deaths>> /\ graph' \in BOOLEAN
  BY <1>0 DEF GraphDown, GraphUp
<1>3. PICK new \in Boots : /\ Moves(q, new) /\ new.applied = proc[q].applied
                           /\ new.why # "missing"
                           /\ new.pc \in {"up", "ready", "failed"}
                           /\ new.pc = "up" \/ graph'
  <2>1. CASE GraphDown(q)
    <3>1. Goto(q, "up")
      BY <2>1 DEF GraphDown
    <3> QED
      BY <1>0, <3>1, GotoLands DEF Place, Lands
  <2>2. CASE GraphUp(q) /\ graph
    <3>1. Fail(q, "duplicate") /\ graph' = graph
      BY <1>1, <2>2 DEF GraphUp
    <3> QED
      BY <1>0, <2>2, <3>1, FailLands DEF Lands
  <2>3. CASE GraphUp(q) /\ ~graph
    <3>1. Goto(q, "ready") /\ graph' = TRUE
      BY <1>1, <2>3 DEF GraphUp
    <3> QED
      BY <1>0, <3>1, GotoLands DEF Place, Lands
  <2> QED
    BY <2>1, <2>2, <2>3
<1>4. GraphSeen'
  BY <1>3 DEF GraphSeen, Moves
<1>5. BootOf(q)'
  <2>1. proc'[q] = new
    BY <1>3 DEF Moves
  <2> QED
    BY <1>0, <1>2, <1>3, <2>1 DEF BootOf
<1>6. /\ deaths' \in Nat /\ schema' \in BOOLEAN /\ (schema => schema')
      /\ done \subseteq done' /\ ledger \subseteq ledger'
      /\ done' \subseteq Recorded /\ ledger' \subseteq done' /\ new.applied \subseteq ledger'
      /\ proc' = [proc EXCEPT ![q] = new]
  BY <1>0, <1>2, <1>3 DEF Moves
<1> QED
  BY <1>2, <1>3, <1>4, <1>5, <1>6, OneBootSteps

LEMMA MigrateNextInv == MigrateInv /\ [Next]_vars => MigrateInv'
<1> SUFFICES ASSUME MigrateInv, [Next]_vars PROVE MigrateInv'
  OBVIOUS
<1>1. CASE \E p \in Procs : Step(p) \/ Die(p)
  BY <1>1, OutsideKeepsInv, DieKeepsInv, SkipKeepsInv, ExecUpKeepsInv, RecordKeepsInv,
     GraphKeepsInv DEF Step
<1>2. CASE UNCHANGED vars
  BY <1>2 DEF vars, MigrateInv, MigrateTypeOK, ProcTypeOK, BootInv, BootOf, Behind, Current,
     LedgerSound, OnlyDuplicates, ReadyComplete
<1> QED
  BY <1>1, <1>2 DEF Next

-----------------------------------------------------------------------------
\* The database and the boots agree at every moment, also between two Execs.
THEOREM MigrateInvariant == Spec => []MigrateInv
BY MigrateInitInv, MigrateNextInv, PTL DEF Spec

\* The ledger never claims a migration that has not committed.
THEOREM MigrateLedgerSound == Spec => []LedgerSound
BY MigrateInvariant, PTL DEF MigrateInv

\* However many boots race, none runs into a table that is missing.
THEOREM MigrateOnlyDuplicates == Spec => []OnlyDuplicates
BY MigrateInvariant, PTL DEF MigrateInv

\* Whoever is ready has the whole schema; without deaths its graph is missing
\* only while another boot is replacing it.
THEOREM MigrateReadyComplete == Spec => []ReadyComplete
BY MigrateInvariant, PTL DEF MigrateInv
=============================================================================
