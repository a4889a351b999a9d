------------------------- MODULE MCProviderSessions -------------------------
(***************************************************************************)
(* Instances of ProviderSessions: one Claude session with two agents, and  *)
(* one program whose session is older than leases.                         *)
(***************************************************************************)
EXTENDS ProviderSessions, TLC

CONSTANTS claude, tool, c1, c2, a1, a2

OneClaude == {claude}
OneTool == {tool}
ToolFirst == <<tool>>
TwoProcs == {c1, c2}
TwoAgents == {a1, a2}
Interchangeable == Permutations(TwoProcs) \cup Permutations(TwoAgents)
BothOfClaude == [a \in {a1, a2} |-> claude]
=============================================================================
