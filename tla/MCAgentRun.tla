----------------------------- MODULE MCAgentRun -----------------------------
EXTENDS AgentRun

\* Every run continues one conversation, as the demo page's do.
MCSessionOf == [w \in Workflows |-> CHOOSE s \in Sessions : TRUE]
\* Bound: a page is unloaded or signed out of once in a behaviour, not both.
OneDisturbance == crashes + signouts <= 1
\* Runs of one session are interchangeable.
RunSymmetry == Permutations(Workflows)
=============================================================================
