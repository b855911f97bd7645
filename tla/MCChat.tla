------------------------------- MODULE MCChat -------------------------------
EXTENDS Chat

CONSTANTS First, Second  \* the runs, in the order they are sent

\* Every run continues one conversation, as the demo page's do.
MCSessionOf == [w \in Workflows |-> CHOOSE s \in Sessions : TRUE]

\* Bound: a second run is sent only in a behaviour with one unloaded page, the
\* one that was left to sign in.
TwoRunsOneUnload ==
    status'[Second] # "NONE" => status'[First] # "NONE" /\ crashes' <= 1 /\ flows' <= 1

MCNext == ChatNext /\ TwoRunsOneUnload

\* The bound never stops a step that is fair.
MCSpec ==
    /\ ChatInit /\ [][MCNext]_pageVars
    /\ WF_pageVars(Load) /\ \A w \in Workflows : WF_pageVars(RunStep(w))
=============================================================================
