--------------------------- MODULE MCSessionStore ---------------------------
EXTENDS SessionStore, TLC

\* Two sessions of two users; one event of application state, one of session
\* state.
MCUserOf == [n \in Names |-> ToString(n)]
MCDelta == [e \in Adk |-> IF e = "e1" THEN "app" ELSE "session"]

\* Behaviours on Postgres interleave more, and are shorter.
MCMaxTx == [s \in BOOLEAN |-> IF s THEN 5 ELSE 4]

\* Callers are interchangeable: no row or call names one.
StoreSymmetry == Permutations(Writers)
=============================================================================
