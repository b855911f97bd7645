-------------------------------- MODULE Migrate --------------------------------
(***************************************************************************)
(* migrate.Apply: the bootstrap, the recorded histories, the property      *)
(* graph, run by every boot of every process, with no lock, over one       *)
(* database. One Exec is one transaction; two are two. A process can die   *)
(* between any two of them and boot again.                                 *)
(***************************************************************************)
EXTENDS Naturals, Sequences, FiniteSets, SequencesExt

CONSTANTS
    Procs,      \* processes (or tabs) that boot against the database
    MaxDeaths   \* bound: deaths in a behaviour

ASSUME MigrateAssumption == MaxDeaths \in Nat

VARIABLES
    schema,  \* the agentiq schema and its ledger exist
    done,    \* migrations whose Up has committed
    ledger,  \* agentiq.schema_migrations
    graph,   \* the property graph exists
    proc,    \* each process: where it is, what it read, its next migration
    deaths

vars == <<schema, done, ledger, graph, proc, deaths>>

(***************************************************************************)
(* The histories.                                                          *)
(***************************************************************************)
Tables == <<"tables/0001", "tables/0002", "tables/0003", "tables/0004">>
Own == <<"sql/0001", "sql/0002", "sql/0003", "sql/0004">>

\* The hand-written files before the tables they build on.
recorded_OwnFirst == Tail(Own) \o Tables

\* Everything the ledger keeps: the tables, then the rest of sql/.
recorded == Tables \o Tail(Own)

\* CREATE TABLE, or DROP COLUMN: an error the second time. The others replace
\* what they find: tables/0002 drops a constraint and adds it again.
OnlyOnce == {"tables/0001", "tables/0003", "tables/0004"}

\* What a file's statements name at the time they run. The functions are
\* plpgsql and name nothing until they are called.
Needs(m) ==
    CASE m \in {"tables/0002", "tables/0003"} -> {"tables/0001"}
      [] m = "sql/0004"                       -> {"tables/0004"}
      [] OTHER                                -> {}

\* The tables the newest CREATE PROPERTY GRAPH spans.
GraphNeeds == {"tables/0001", "tables/0003", "tables/0004"}

-----------------------------------------------------------------------------
Off == [pc |-> "off", applied |-> {}, at |-> 1, why |-> ""]

\* What a boot of this release or an earlier one has left, {} on a new database:
\* a prefix of each history, and sql/0001 with the first of them.
Releases ==
    {{}} \cup {ToSet(SubSeq(Tables, 1, i)) \cup ToSet(SubSeq(Own, 2, j)) :
                 i \in 1 .. Len(Tables), j \in 1 .. Len(Own)}

\* A database of an earlier release, perhaps without its graph (a boot died
\* between the drop and the create). What the backend says to tables/0003's
\* DROP COLUMN under a graph that names the column is not in the source, so a
\* graph from before it is left out.
Init ==
    \E old \in Releases :
      /\ schema = (old # {}) /\ done = old /\ ledger = old
      /\ graph \in {FALSE, "tables/0003" \in old}
      /\ proc = [p \in Procs |-> Off]
      /\ deaths = 0

Goto(p, pc) == proc' = [proc EXCEPT ![p].pc = pc]

\* Apply returns the error, and with it Open and the boot.
Fail(p, why) == proc' = [proc EXCEPT ![p].pc = "failed", ![p].why = why]

Boot(p) ==
    /\ proc[p].pc = "off"
    /\ Goto(p, "bootstrap")
    /\ UNCHANGED <<schema, done, ledger, graph, deaths>>

\* sql/0001, unconditionally: IF NOT EXISTS on both statements.
Bootstrap(p) ==
    /\ proc[p].pc = "bootstrap"
    /\ schema' = TRUE
    /\ Goto(p, "ledger")
    /\ UNCHANGED <<done, ledger, graph, deaths>>

\* The ledger is read once, before the loop.
appliedVersions(p) ==
    /\ proc[p].pc = "ledger"
    /\ proc' = [proc EXCEPT ![p].pc = "apply", ![p].applied = ledger, ![p].at = 1]
    /\ UNCHANGED <<schema, done, ledger, graph, deaths>>

Current(p) == recorded[proc[p].at]

\* The loop is over, or its next migration is recorded already.
Skip(p) ==
    /\ proc[p].pc = "apply"
    /\ IF proc[p].at > Len(recorded)
         THEN Goto(p, "down")
         ELSE Current(p) \in proc[p].applied /\ proc' = [proc EXCEPT ![p].at = @ + 1]
    /\ UNCHANGED <<schema, done, ledger, graph, deaths>>

Duplicate(m) == m \in done /\ m \in OnlyOnce
Missing(m) == ~schema \/ ~(Needs(m) \subseteq done)

\* The record committed before the migration it records.
ExecUp_RecordFirst(p) ==
    /\ proc[p].pc = "apply" /\ proc[p].at <= Len(recorded)
    /\ Current(p) \notin proc[p].applied
    /\ ledger' = ledger \cup {Current(p)}
    /\ done' \in {done, done \cup {Current(p)}}
    /\ Goto(p, "record")
    /\ UNCHANGED <<schema, graph, deaths>>

\* db.Exec(m.Up): one implicit transaction.
ExecUp(p) ==
    /\ proc[p].pc = "apply" /\ proc[p].at <= Len(recorded)
    /\ Current(p) \notin proc[p].applied
    /\ LET m == Current(p) IN
       \/ /\ Duplicate(m) \/ Missing(m)
          /\ Fail(p, IF Missing(m) THEN "missing" ELSE "duplicate")
          /\ UNCHANGED done
       \/ /\ ~Duplicate(m) /\ ~Missing(m)
          /\ done' = done \cup {m}
          /\ Goto(p, "record")
    /\ UNCHANGED <<schema, ledger, graph, deaths>>

\* db.Exec(ledgerRecord): another transaction.
Record(p) ==
    /\ proc[p].pc = "record"
    /\ ledger' = ledger \cup {Current(p)}
    /\ proc' = [proc EXCEPT ![p].pc = "apply", ![p].at = @ + 1]
    /\ UNCHANGED <<schema, done, graph, deaths>>

\* A bare CREATE.
GraphDown_Skipped(p) ==
    /\ proc[p].pc = "down"
    /\ Goto(p, "up")
    /\ UNCHANGED <<schema, done, ledger, graph, deaths>>

\* ApplyGraph: the newest definition's Down, DROP ... IF EXISTS, ...
GraphDown(p) ==
    /\ proc[p].pc = "down"
    /\ graph' = FALSE
    /\ Goto(p, "up")
    /\ UNCHANGED <<schema, done, ledger, deaths>>

\* ... then its Up, in a transaction of its own.
GraphUp(p) ==
    /\ proc[p].pc = "up"
    /\ \/ /\ graph \/ ~(GraphNeeds \subseteq done)
          /\ Fail(p, IF graph THEN "duplicate" ELSE "missing")
          /\ UNCHANGED graph
       \/ /\ ~graph /\ GraphNeeds \subseteq done
          /\ graph' = TRUE
          /\ Goto(p, "ready")
    /\ UNCHANGED <<schema, done, ledger, deaths>>

Alive == {p \in Procs : proc[p].pc \notin {"off", "failed"}}

\* A killed server, a closed or reloaded tab; ready processes stop too.
Die(p) ==
    /\ p \in Alive /\ deaths < MaxDeaths
    /\ deaths' = deaths + 1
    /\ proc' = [proc EXCEPT ![p] = Off]
    /\ UNCHANGED <<schema, done, ledger, graph>>

\* The boot that failed is tried again: a supervisor's restart, a page load.
Retry(p) ==
    /\ proc[p].pc = "failed"
    /\ proc' = [proc EXCEPT ![p] = Off]
    /\ UNCHANGED <<schema, done, ledger, graph, deaths>>

Step(p) ==
    \/ Boot(p) \/ Bootstrap(p) \/ appliedVersions(p) \/ Skip(p) \/ ExecUp(p)
    \/ Record(p) \/ GraphDown(p) \/ GraphUp(p) \/ Retry(p)

Next == \E p \in Procs : Step(p) \/ Die(p)

Spec == Init /\ [][Next]_vars
FairSpec == Spec /\ \A p \in Procs : WF_vars(Step(p))

-----------------------------------------------------------------------------
Recorded == ToSet(recorded)

\* Type correctness of the database and of the boots.
MigrateTypeOK ==
    /\ schema \in BOOLEAN /\ graph \in BOOLEAN
    /\ done \subseteq Recorded /\ ledger \subseteq Recorded
    /\ \A p \in Procs : proc[p].at \in 1 .. Len(recorded) + 1

\* The ledger never claims a migration that has not committed, whoever died
\* or failed where: a boot that skips one finds its tables.
LedgerSound ==
    /\ ledger \subseteq done
    /\ \A p \in Procs : proc[p].applied \subseteq ledger

\* Boots that race, or follow a death, fail only on an object that is there
\* already; no boot ever runs into a table or a column that is missing.
OnlyDuplicates == \A p \in Procs : proc[p].why # "missing"

\* A process that got through Apply runs on the whole schema, also when it
\* skipped what another process was still recording; its graph is missing only
\* while another boot is between its drop and its create, or died there.
ReadyComplete ==
    \A p \in Procs : proc[p].pc = "ready" =>
      /\ done = Recorded /\ ledger = Recorded
      /\ graph \/ deaths > 0 \/ \E q \in Procs : proc[q].pc = "up"

\* Migrations that committed and were not recorded, with nobody left to do it.
Torn == {m \in (done \ ledger) \cap OnlyOnce :
           \A p \in Alive : ~(proc[p].pc = "record" /\ Current(p) = m)}

\* A boot that keeps being tried gets through, to a database with its graph,
\* whatever it raced with and wherever earlier boots died: between a migration
\* and its record is the one place to die that no later boot recovers from
\* (Apply, ApplyGraph, Run).
BootsUnlessTorn ==
    \A p \in Procs : []<>((proc[p].pc = "ready" /\ graph) \/ Torn # {})
=============================================================================
