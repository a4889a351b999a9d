---------------------------- MODULE MCTransition ----------------------------
(***************************************************************************)
(* An instance of Transition: a project, a note that was updated in the    *)
(* old history, and a reply that refers to the note and was never          *)
(* synchronized.                                                           *)
(***************************************************************************)
EXTENDS Transition

CONSTANTS project, note, reply

Three == {project, note, reply}
NoSession == {}
ThreeNeeds ==
  [r \in Three |-> CASE r = project -> {}
                    [] r = note -> {project}
                    [] r = reply -> {project, note}]
\* A reply sorts before the note it refers to.
ThreeRank == [r \in Three |-> CASE r = project -> 1 [] r = reply -> 2 [] r = note -> 3]
OnlyNote == {note}
OnlyReply == {reply}
None == {}
Others == {"shared", "edited"}
=============================================================================
