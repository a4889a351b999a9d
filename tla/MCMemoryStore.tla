--------------------------- MODULE MCMemoryStore ---------------------------
(***************************************************************************)
(* Instances of MemoryStore: two observations, and two retired databases   *)
(* that share one of them: in the first the other has no topic, in the     *)
(* second, where they are of different projects, both have the same.       *)
(***************************************************************************)
EXTENDS MemoryStore

CONSTANTS x, y, topic, none, summary, a, f1, f2

TwoIds == {x, y}
ThreeTopics == {topic, none, summary}
OneAgent == {a}
TwoPaths == {f1, f2}
Row(t, state) == [topic |-> t, state |-> state, text |-> 0, updated |-> 0, pulled |-> FALSE]
OldRows ==
  [path \in TwoPaths |->
     [id \in {x, y} |->
        IF id = y THEN Row(topic, "active")
        ELSE Row(IF path = f1 THEN none ELSE topic, "needs_review")]]
=============================================================================
