--------------------------- MODULE MCDeterminism ---------------------------
(***************************************************************************)
(* Three packages: app registers the workflows, helper is another package  *)
(* of its module, and vendor a package of another module whose path starts *)
(* with the letters of app's.                                              *)
(***************************************************************************)
EXTENDS Determinism, TLC

MCPackages == {"app", "helper", "vendor"}
MCPath == "app" :> <<"host", "owner", "repo", "cmd", "app">>
       @@ "helper" :> <<"host", "owner", "repo", "helper">>
       @@ "vendor" :> <<"host", "owner", "repository", "helper">>
MCModule == "app" :> "repo" @@ "helper" :> "repo" @@ "vendor" :> "other"

\* W and h are declared in app, L and l in helper, X in vendor.
MCFunctions == {"W", "h", "L", "l", "X"}
MCHome == "W" :> "app" @@ "h" :> "app" @@ "L" :> "helper" @@ "l" :> "helper"
       @@ "X" :> "vendor"
MCName == "W" :> "Run" @@ "h" :> "step" @@ "L" :> "Load" @@ "l" :> "load"
       @@ "X" :> "Load"
MCModulePrefix == <<>>
MCExported == {"W", "L", "X"}

Extern(path, recv, name, at) ==
    [k |-> "extern", path |-> path, recv |-> recv, name |-> name, at |-> at]
Call(f, at) == [k |-> "call", fn |-> f, instantiated |-> FALSE, at |-> at]

MCIrreproducible == {<<"time", "", "Now">>, <<"os", "File", "WriteString">>,
                     <<"os", "", "Getenv">>, <<"crypto/rand", "", "Read">>,
                     <<"github.com/google/uuid", "", "NewString">>,
                     <<"net/http", "Client", "Do">>}

Now(at) == Extern("time", "", "Now", at)
MapRange(at) == [k |-> "range", map |-> TRUE, used |-> TRUE, at |-> at]

\* A boundary handed the named function h, one handed a literal, and one whose
\* other argument is computed by the workflow.
StepNamed == [k |-> "step", work |-> <<>>, args |-> <<>>, at |-> "s1"]
StepLiteral == [k |-> "step", work |-> <<Now("s2.now"), Call("L", "s2.L")>>,
                args |-> <<>>, at |-> "s2"]
StepBuilt == [k |-> "step", work |-> <<>>, args |-> <<Now("s3.now"), Call("L", "s3.L")>>,
              at |-> "s3"]

UpTo(n, S) == UNION {[1..m -> S] : m \in 0..n}

\* The inline workflow meets every kind of operation once.
Literal ==
    <<[k |-> "range", map |-> TRUE, used |-> FALSE, at |-> "i.count"],
      [k |-> "range", map |-> FALSE, used |-> TRUE, at |-> "i.slice"],
      [k |-> "go", at |-> "i.go"], [k |-> "select", at |-> "i.select"],
      Extern("time", "Time", "After", "i.after"),
      Extern("os", "", "Getenv", "i.env"),
      Extern("os", "File", "WriteString", "i.file"),
      Extern("crypto/rand", "", "Read", "i.rand"),
      Extern("github.com/google/uuid", "", "NewString", "i.uuid"),
      Extern("github.com/google/uuid", "", "Parse", "i.parse"),
      Extern("net/http", "Client", "Do", "i.http"),
      [k |-> "value", name |-> "f", at |-> "i.value"],
      StepLiteral, Call("h", "i.h")>>

MCRegisters ==
    [p \in MCPackages |->
       IF p # "app" THEN <<>>
       ELSE <<[k |-> "named", fn |-> "W", at |-> "r1"],
              [k |-> "named", fn |-> "L", at |-> "r2"],
              [k |-> "value", at |-> "r3"],
              [k |-> "literal", body |-> Literal, at |-> "r4"]>>]

MCImports == "app" :> {"helper"} @@ "helper" :> {"vendor"} @@ "vendor" :> {}

MCPrograms ==
    {"W" :> w @@ "h" :> h @@ "L" :> L @@ "l" :> l @@ "X" :> <<Now("x.now")>> :
        w \in UpTo(2, {MapRange("w.range"), Call("h", "w.h"), Call("L", "w.L"),
                       StepLiteral, StepBuilt}),
        h \in UpTo(1, {[k |-> "go", at |-> "h.go"], Call("W", "h.W"), Call("L", "h.L")}),
        L \in UpTo(2, {Now("L.now"), Call("l", "L.l"), Call("X", "L.X")}),
        l \in UpTo(1, {Extern("os", "File", "WriteString", "l.file"), Call("L", "l.L")})}

\* What the exactness of the reports is proved from.
ASSUME TablesHere == TablesAreRight
=============================================================================
