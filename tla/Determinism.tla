---------------------------- MODULE Determinism ----------------------------
(***************************************************************************)
(* The determinism analyzer (analyzer/determinism/determinism.go): which   *)
(* operations that a replay cannot reproduce does the body of a registered *)
(* workflow reach without crossing a step boundary?                        *)
(*                                                                         *)
(* The driver runs one pass per package, dependencies first.  A pass first *)
(* computes, as a fixed point over the package's own call graph, what each *)
(* of its functions can reach (exportFacts), and exports that as a fact    *)
(* for the exported ones.  It then walks outward from every registration   *)
(* in the package (reportFromRegistrations), following calls inside the    *)
(* package through their bodies and calls to other packages of the module  *)
(* through their facts.                                                    *)
(*                                                                         *)
(* A body is the sequence of what the syntax walk meets, in order:         *)
(*   go, select, range   the three statements the walk looks at            *)
(*   extern              a call of a function outside the call graph       *)
(*   call                a call that names a function of the call graph    *)
(*   value               a call through a function value                   *)
(*   step                a call of a boundary: its function values (work)  *)
(*                       and what its other arguments evaluate (args)      *)
(* Each carries its position, at.                                          *)
(***************************************************************************)
EXTENDS Naturals, Sequences, SequencesExt

CONSTANTS Packages,     \* the packages the driver visits
          Path,         \* [Packages -> import path, a sequence of segments]
          Hosts,        \* the segments with a dot in them
          ModulePrefix, \* the -module flag, or <<>>
          Functions,    \* the functions declared with a body
          Home,         \* [Functions -> Packages]
          Name,         \* [Functions -> unqualified name]
          Exported,     \* the functions whose name is exported
          Module,       \* [Packages -> the module that declares the package]
          Irreproducible, \* calls whose result a replay cannot reproduce
          Imports,      \* [Packages -> the packages it imports]
          Registers,    \* [Packages -> its RegisterWorkflow arguments, in order]
          Programs,     \* the bodies analysed: a set of [Functions -> Seq(item)]
          NoPkg, NoFunction

VARIABLES source,    \* the function bodies under analysis: constant in a behaviour
          done,      \* the packages whose pass has ended
          pkg,       \* the package of the running pass, or NoPkg
          phase,     \* where that pass is: "idle", "facts" or "report"
          resolved,  \* exportFacts: [Functions -> reasons so far]
          visited,   \* the callers ranged over in this round
          todo,      \* the caller being merged and its callees still to come
          changed,   \* whether this round added a reason
          facts,     \* the exported facts: [Functions -> reasons]
          register,  \* the registration being reported, by index
          stack,     \* reportBody's recursion: bodies still to be walked
          seen,      \* the functions this registration's walk has entered
          reports    \* the diagnostics, with the registration they came from

vars == <<source, done, pkg, phase, resolved, visited, todo, changed, facts,
          register, stack, seen, reports>>

passVars == <<pkg, phase>>
factVars == <<resolved, visited, todo, changed>>
walkVars == <<register, stack, seen>>

-----------------------------------------------------------------------------
\* The forbidden operations

TimeFuncs == {"Now", "Since", "Until", "Sleep", "After", "Tick", "NewTimer",
              "NewTicker", "AfterFunc"}

UuidPkgs == {"github.com/google/uuid", "github.com/gofrs/uuid",
             "github.com/gofrs/uuid/v3", "github.com/gofrs/uuid/v4",
             "github.com/gofrs/uuid/v5", "github.com/satori/go.uuid"}

UuidGenerators == {"New", "NewString", "NewRandom", "NewRandomFromReader",
                   "NewUUID", "NewV1", "NewV4", "NewV6", "NewV7", "NewGen",
                   "NewDCEGroup", "NewDCEPerson", "NewDCESecurity"}

OsFuncs == {"Getenv", "LookupEnv", "Environ", "ExpandEnv", "Open", "OpenFile",
            "Create", "CreateTemp", "ReadFile", "WriteFile", "ReadDir",
            "Remove", "RemoveAll", "Mkdir", "MkdirAll", "MkdirTemp", "Rename",
            "Stat", "Lstat", "Truncate", "Symlink", "Link", "Readlink",
            "Chmod", "Chown", "Getwd", "TempDir", "UserHomeDir",
            "UserCacheDir", "UserConfigDir", "Hostname", "Getpid"}

\* A method carries its receiver's package, so a method of time.Time is not a
\* clock read and a method of os.File is file I/O.
Forbidden(fn) ==
    \/ fn.path = "time" /\ fn.recv = "" /\ fn.name \in TimeFuncs
    \/ fn.path \in {"math/rand", "math/rand/v2", "crypto/rand", "net/http"}
    \/ fn.path \in UuidPkgs /\ fn.name \in UuidGenerators
    \/ fn.path = "os" /\ fn.recv = "" /\ fn.name \in OsFuncs
    \/ fn.path = "os" /\ fn.recv = "File"

\* A range that binds neither key nor value cannot observe the map's order.
CheckRange(item) == item.map /\ item.used

-----------------------------------------------------------------------------
\* The scope of the walk

PrefixFor(path) ==
    IF ModulePrefix # <<>> THEN ModulePrefix
    ELSE IF path[1] \notin Hosts THEN <<path[1]>>
    ELSE IF Len(path) >= 3 THEN SubSeq(path, 1, 3)
    ELSE path

\* Whether a call from package p into package q is followed.
InModule(p, q) == IsPrefix(PrefixFor(Path[p]), Path[q])

-----------------------------------------------------------------------------
\* The syntax walk: what of a body is replayed with the workflow

\* A boundary that prunes the whole call.
CheckCall_WholeCall(item) == IF item.k = "step" THEN <<>> ELSE <<item>>

\* A boundary exempts the function values it is handed; its other arguments
\* are evaluated by the workflow itself.
CheckCall(item) == IF item.k = "step" THEN item.args ELSE <<item>>

Inspect(body) == FlattenSeq([i \in DOMAIN body |-> CheckCall(body[i])])

IsFound(item) ==
    CASE item.k \in {"go", "select"} -> TRUE
      [] item.k = "range"  -> CheckRange(item)
      [] item.k = "extern" -> Forbidden(item)
      [] OTHER -> FALSE

IsCall(item, p) == item.k = "call" /\ InModule(p, Home[item.fn])

\* scan: the operations in a body and the functions it calls, as package p
\* sees them.
Found(body) == {item.at : item \in {i \in ToSet(Inspect(body)) : IsFound(i)}}

Callees(body, p) ==
    LET items == Inspect(body)
    IN  FlattenSeq([i \in DOMAIN items |->
          IF IsCall(items[i], p) THEN <<items[i].fn>> ELSE <<>>])

\* What Go and the driver guarantee of a program: a body is a sequence of items,
\* each at a position; what package p names, in a call or a registration, is a
\* declared function, which in another package is exported and imported.
IsSeq(s) == s \in Seq(ToSet(s))

IsBody(body) ==
    /\ IsSeq(body)
    /\ \A item \in ToSet(body) :
         IF item.k = "step"
           THEN /\ IsSeq(item.work) /\ IsSeq(item.args)
                /\ \A x \in ToSet(item.work) \cup ToSet(item.args) : x.at # ""
           ELSE item.at # ""

MayName(p, g) ==
    /\ g \in Functions
    /\ Home[g] # p => g \in Exported /\ Home[g] \in Imports[p]

IsBodyIn(body, p) ==
    IsBody(body) /\ \A g \in ToSet(Callees(body, p)) : MayName(p, g)

ASSUME ProgramAssumption ==
    /\ Home \in [Functions -> Packages]
    /\ Exported \subseteq Functions
    /\ NoPkg \notin Packages
    /\ \A s \in Programs : \A f \in Functions : IsBodyIn(s[f], Home[f])
    /\ \A p \in Packages :
         /\ IsSeq(Registers[p])
         /\ \A r \in ToSet(Registers[p]) :
              \/ r.k = "value"
              \/ r.k = "named" /\ MayName(p, r.fn) /\ r.at # ""
              \/ r.k = "literal" /\ IsBodyIn(r.body, p)

Direct(f) == Found(source[f])
Calls(f) == Callees(source[f], Home[f])

Bodies(p) == {f \in Functions : Home[f] = p}

-----------------------------------------------------------------------------
\* Reasons: an operation, by its position, and the calls that lead to it

Ats(reasons) == {r.at : r \in reasons}

\* The callee put at the wrong end of the chain.
Via_Appended(f, reasons) ==
    {[at |-> r.at, chain |-> Append(r.chain, f)] : r \in reasons}

Via(f, reasons) ==
    {[at |-> r.at, chain |-> <<f>> \o r.chain] : r \in reasons}

\* addReason keeps the first reason for a position and drops later ones,
\* whatever their chain.
AddReason(old, new) == old \cup {r \in new : r.at \notin Ats(old)}

ReasonsFor(f) == IF Home[f] = pkg THEN resolved[f] ELSE facts[f]

Init ==
    /\ source \in Programs
    /\ done = {}
    /\ pkg = NoPkg
    /\ phase = "idle"
    /\ resolved = [f \in Functions |-> {}]
    /\ visited = {}
    /\ todo = [caller |-> NoFunction, callees |-> <<>>]
    /\ changed = FALSE
    /\ facts = [f \in Functions |-> {}]
    /\ register = 0
    /\ stack = <<>>
    /\ seen = {}
    /\ reports = {}

\* The driver starts a package's pass once its imports have had theirs; the
\* pass scans every body and enters the fixed point.
Run(p) ==
    /\ phase = "idle"
    /\ p \notin done
    /\ Imports[p] \subseteq done
    /\ pkg' = p
    /\ phase' = "facts"
    /\ resolved' = [f \in Functions |->
                      IF Home[f] = p
                      THEN {[at |-> a, chain |-> <<>>] : a \in Direct(f)}
                      ELSE resolved[f]]
    /\ visited' = {}
    /\ todo' = [caller |-> NoFunction, callees |-> <<>>]
    /\ changed' = FALSE
    /\ UNCHANGED <<source, done, facts, walkVars, reports>>

\* A round ranges over a Go map: the callers come in any order.
NextCaller(f) ==
    /\ phase = "facts"
    /\ todo.callees = <<>>
    /\ f \in Bodies(pkg) \ visited
    /\ visited' = visited \cup {f}
    /\ todo' = [caller |-> f, callees |-> Calls(f)]
    /\ UNCHANGED <<source, done, passVars, resolved, changed, facts, walkVars,
                   reports>>

\* A single pass over the callers.
MergeCallee_OnePass ==
    /\ phase = "facts"
    /\ todo.callees # <<>>
    /\ LET f == todo.caller
           callee == Head(todo.callees)
           merged == AddReason(resolved[f], Via(callee, ReasonsFor(callee)))
       IN  resolved' = [resolved EXCEPT ![f] = merged]
    /\ todo' = [todo EXCEPT !.callees = Tail(@)]
    /\ UNCHANGED <<source, done, passVars, visited, changed, facts, walkVars,
                   reports>>

\* Every arrival at a reason taken for a change, the known ones included.
MergeCallee_AlwaysChanged ==
    /\ phase = "facts"
    /\ todo.callees # <<>>
    /\ LET f == todo.caller
           callee == Head(todo.callees)
           merged == AddReason(resolved[f], Via(callee, ReasonsFor(callee)))
       IN  /\ resolved' = [resolved EXCEPT ![f] = merged]
           /\ changed' = (changed \/ ReasonsFor(callee) # {})
    /\ todo' = [todo EXCEPT !.callees = Tail(@)]
    /\ UNCHANGED <<source, done, passVars, visited, facts, walkVars, reports>>

\* The caller takes over its next callee's reasons.
MergeCallee ==
    /\ phase = "facts"
    /\ todo.callees # <<>>
    /\ LET f == todo.caller
           callee == Head(todo.callees)
           merged == AddReason(resolved[f], Via(callee, ReasonsFor(callee)))
       IN  /\ resolved' = [resolved EXCEPT ![f] = merged]
           /\ changed' = (changed \/ merged # resolved[f])
    /\ todo' = [todo EXCEPT !.callees = Tail(@)]
    /\ UNCHANGED <<source, done, passVars, visited, facts, walkVars, reports>>

RoundOver ==
    /\ phase = "facts"
    /\ todo.callees = <<>>
    /\ visited = Bodies(pkg)

\* A round that changed something is followed by another.
NextRound ==
    /\ RoundOver
    /\ changed
    /\ changed' = FALSE
    /\ visited' = {}
    /\ todo' = [caller |-> NoFunction, callees |-> <<>>]
    /\ UNCHANGED <<source, done, passVars, resolved, facts, walkVars, reports>>

\* Only exported functions get a fact: no other package can name the others.
ExportFacts ==
    /\ RoundOver
    /\ ~changed
    /\ facts' = [f \in Functions |->
                   IF Home[f] = pkg /\ f \in Exported THEN resolved[f]
                                                      ELSE facts[f]]
    /\ phase' = "report"
    /\ register' = 0
    /\ stack' = <<>>
    /\ seen' = {}
    /\ UNCHANGED <<source, done, pkg, factVars, reports>>

-----------------------------------------------------------------------------
\* Reporting

Registrations == Registers[pkg]

Report(reasons, site) ==
    {[pkg |-> pkg, register |-> register', at |-> r.at, chain |-> r.chain,
      site |-> IF site = "" THEN r.at ELSE site] : r \in reasons}

\* reportEntry: a literal is walked where it stands, a function of this
\* package through its body, one of another package through its fact, and a
\* function value that names no function is passed over.
ReportEntry ==
    /\ phase = "report"
    /\ stack = <<>>
    /\ register < Len(Registrations)
    /\ register' = register + 1
    /\ LET entry == Registrations[register + 1]
           frame(body) == <<[body |-> body, rest |-> Inspect(body),
                             chain |-> <<>>]>>
       IN  \/ /\ entry.k = "literal"
              /\ stack' = frame(entry.body)
              /\ seen' = {}
              /\ UNCHANGED reports
           \/ /\ entry.k = "named"
              /\ Home[entry.fn] = pkg
              /\ stack' = frame(source[entry.fn])
              /\ seen' = {entry.fn}
              /\ UNCHANGED reports
           \/ /\ entry.k = "named"
              /\ Home[entry.fn] # pkg
              /\ reports' = reports \cup
                   Report(Via(entry.fn, facts[entry.fn]), entry.at)
              /\ UNCHANGED <<stack, seen>>
           \/ /\ entry.k = "value"
              /\ UNCHANGED <<stack, seen, reports>>
    /\ UNCHANGED <<source, done, passVars, factVars, facts>>

\* callSiteOf: the last call in the body, the work of step boundaries
\* included, that is written with the function's unqualified name; a call that
\* spells out its type arguments is not recognised.
CallName(item) ==
    CASE item.k = "call" /\ ~item.instantiated -> Name[item.fn]
      [] item.k \in {"extern", "value"} -> item.name
      [] OTHER -> ""

CallSiteOf(f, body) ==
    LET all == FlattenSeq([i \in DOMAIN body |->
                 IF body[i].k = "step" THEN body[i].work \o body[i].args
                                       ELSE <<body[i]>>])
        named == FlattenSeq([i \in DOMAIN all |->
                   IF CallName(all[i]) = Name[f] THEN <<all[i]>> ELSE <<>>])
    IN  IF named = <<>> THEN "body" ELSE Last(named).at

\* reportBody: one event of the walk.
ReportBody ==
    /\ phase = "report"
    /\ stack # <<>>
    /\ Last(stack).rest # <<>>
    /\ UNCHANGED register
    /\ LET top == Last(stack)
           item == Head(top.rest)
           popped == Append(Front(stack), [top EXCEPT !.rest = Tail(@)])
           next == IF item.k = "call" THEN Append(top.chain, item.fn) ELSE <<>>
       IN  \/ /\ IsFound(item)
              /\ reports' = reports \cup
                   Report({[at |-> item.at, chain |-> top.chain]}, "")
              /\ stack' = popped
              /\ UNCHANGED seen
           \/ /\ ~IsFound(item)
              /\ \/ ~IsCall(item, pkg)
                 \/ IsCall(item, pkg) /\ item.fn \in seen
              /\ stack' = popped
              /\ UNCHANGED <<seen, reports>>
           \/ /\ IsCall(item, pkg) /\ item.fn \notin seen
              /\ Home[item.fn] = pkg
              /\ seen' = seen \cup {item.fn}
              /\ stack' = Append(popped,
                            [body |-> source[item.fn],
                             rest |-> Inspect(source[item.fn]),
                             chain |-> next])
              /\ UNCHANGED reports
           \/ /\ IsCall(item, pkg) /\ item.fn \notin seen
              /\ Home[item.fn] # pkg
              /\ seen' = IF facts[item.fn] = {} THEN seen
                                                ELSE seen \cup {item.fn}
              /\ reports' = reports \cup
                   Report({[at |-> r.at, chain |-> next \o r.chain] :
                             r \in facts[item.fn]},
                          CallSiteOf(item.fn, top.body))
              /\ stack' = popped
    /\ UNCHANGED <<source, done, passVars, factVars, facts>>

ReportBodyReturns ==
    /\ phase = "report"
    /\ stack # <<>>
    /\ Last(stack).rest = <<>>
    /\ stack' = Front(stack)
    /\ UNCHANGED <<source, done, passVars, factVars, facts, register, seen,
                   reports>>

\* The pass ends after the last registration.
PassEnds ==
    /\ phase = "report"
    /\ stack = <<>>
    /\ register = Len(Registrations)
    /\ done' = done \cup {pkg}
    /\ pkg' = NoPkg
    /\ phase' = "idle"
    /\ UNCHANGED <<source, factVars, facts, walkVars, reports>>

Next ==
    \/ \E p \in Packages : Run(p)
    \/ \E f \in Functions : NextCaller(f)
    \/ MergeCallee \/ NextRound \/ ExportFacts
    \/ ReportEntry \/ ReportBody \/ ReportBodyReturns \/ PassEnds

Spec == Init /\ [][Next]_vars /\ WF_vars(Next)

-----------------------------------------------------------------------------
\* What the analyzer is for, stated without its algorithm

\* The functions reachable from fs by the calls that are followed: the least
\* set that contains fs and is closed under calls.
Closed(S) == \A f \in S : ToSet(Calls(f)) \subseteq S

Reachable(fs) == {g \in Functions :
                    \A S \in SUBSET Functions :
                       fs \subseteq S /\ Closed(S) => g \in S}

OpsReachable(fs) == UNION {Direct(g) : g \in Reachable(fs)}

\* The fact of every exported function of every package already analysed names
\* exactly the operations its body can reach by the calls that are followed,
\* through any number of packages, unexported helpers and call cycles, whatever
\* order the map iterations took (exportFacts, reasonsFor, addReason).
FactsExact ==
    phase = "idle" =>
      \A f \in Exported :
         Home[f] \in done => Ats(facts[f]) = OpsReachable({f})

\* What a body evaluates while it is replayed, and which of it a replay cannot
\* reproduce.
Replayed(body) ==
    UNION {IF body[i].k = "step" THEN ToSet(body[i].args) ELSE {body[i]} :
             i \in DOMAIN body}

Unsafe(item) ==
    \/ item.k \in {"go", "select"}
    \/ item.k = "range" /\ item.map /\ item.used
    \/ item.k = "extern" /\ <<item.path, item.recv, item.name>> \in Irreproducible

UnsafeIn(body) == {item.at : item \in {i \in Replayed(body) : Unsafe(i)}}

CalledIn(body, p) ==
    {item.fn : item \in {i \in Replayed(body) :
                            i.k = "call" /\ Module[Home[i.fn]] = Module[p]}}

\* The bodies replayed with a workflow of package p, within p's module.
ReplayedWith(body, p) ==
    LET fs == CalledIn(body, p)
        edge(S) == UNION {CalledIn(source[f], Home[f]) : f \in S}
        within == {S \in SUBSET Functions : fs \cup edge(S) \subseteq S}
    IN  {body} \cup {source[f] : f \in {g \in Functions :
                                              \A S \in within : g \in S}}

Entry(r) == IF r.k = "literal" THEN r.body ELSE source[r.fn]
EntryHome(r, p) == IF r.k = "literal" THEN p ELSE Home[r.fn]

\* The positions in the files of package p: the items of its bodies and of the
\* work its boundaries are handed, the bodies' own, and its registrations.
Positions(body) ==
    {"body"} \cup UNION {IF body[i].k = "step"
                         THEN {x.at : x \in ToSet(body[i].work \o body[i].args)}
                         ELSE {body[i].at} : i \in DOMAIN body}

OwnPositions(p) ==
    UNION ({Positions(source[f]) : f \in Bodies(p)} \cup
           {IF r.k = "literal" THEN Positions(r.body) ELSE {r.at} :
              r \in ToSet(Registers[p])})

\* Whether the analyzer's tables know what the analysed bodies call: the flagged
\* functions are the ones a replay cannot reproduce, and the module prefix marks
\* off the package's own module.
KnownIn(body, p) ==
    \A item \in Replayed(body) :
       /\ item.k = "extern" =>
            (Forbidden(item) <=> <<item.path, item.recv, item.name>> \in Irreproducible)
       /\ item.k = "call" =>
            (InModule(p, Home[item.fn]) <=> Module[Home[item.fn]] = Module[p])

TablesAreRight ==
    /\ \A s \in Programs : \A f \in Functions : KnownIn(s[f], Home[f])
    /\ \A p \in Packages : \A r \in ToSet(Registers[p]) :
         r.k = "literal" => KnownIn(r.body, p)

\* Once a package's pass has ended, the diagnostics of each workflow it
\* registers, as a literal or by name, are exactly the operations that a replay
\* of it evaluates and cannot reproduce: none behind a step boundary, none
\* outside the module, none missed because it is in another package, in an
\* unexported helper, in a cycle, or already visited for another registration;
\* and each stands in a file of that package, where the pass may report it
\* (reportEntry, reportBody, callSiteOf).
ReportsExact ==
    phase = "idle" =>
      \A p \in done :
         /\ \A d \in reports : d.pkg = p => d.site \in OwnPositions(p)
         /\ \A i \in DOMAIN Registers[p] :
              LET r == Registers[p][i]
              IN  r.k # "value" =>
                    {d.at : d \in {x \in reports : x.pkg = p /\ x.register = i}}
                      = UNION {UnsafeIn(b) :
                                 b \in ReplayedWith(Entry(r), EntryHome(r, p))}

\* Whether a chain of calls leads from body, in package p, to the operation at.
IsPath(body, p, chain, at) ==
    LET step(i) == IF i = 0 THEN body ELSE source[chain[i]]
        home(i) == IF i = 0 THEN p ELSE Home[chain[i]]
    IN  /\ \A i \in 1..Len(chain) :
              chain[i] \in ToSet(Callees(step(i - 1), home(i - 1)))
        /\ at \in Found(step(Len(chain)))

\* Every diagnostic explains itself: the chain it prints is a sequence of calls
\* that the code really makes, from the registered workflow (whose own name
\* opens the chain when it lives in another package) to the function that
\* holds the operation, though a reason's chain is fixed by the first path the
\* fixed point happened to find and is stitched across packages.
ChainsArePaths ==
    phase = "idle" =>
      \A d \in reports :
         LET r == Registers[d.pkg][d.register]
             cross == r.k = "named" /\ Home[r.fn] # d.pkg
             chain == IF cross THEN Tail(d.chain) ELSE d.chain
         IN  /\ cross => Head(d.chain) = r.fn
             /\ IsPath(Entry(r), EntryHome(r, d.pkg), chain, d.at)

\* The analysis ends, call cycles included (the loop in exportFacts, the
\* recursion of reportBody).
AnalysisEnds == <>(done = Packages)

=============================================================================
