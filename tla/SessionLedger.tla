--------------------------- MODULE SessionLedger ---------------------------
(***************************************************************************)
(* What the store promises of provider sessions, without leases, tokens,   *)
(* drafts or clocks: a session is opened once, closed once, and closing it *)
(* as completed appends exactly one summary, which nothing rewrites.       *)
(***************************************************************************)
EXTENDS Naturals, Sequences

CONSTANTS Externals, Texts

VARIABLES
  open,     \* external identifiers of open sessions
  closed,   \* of closed ones
  ledger    \* the summaries in the order they were published

vars == <<open, closed, ledger>>

Init == open \subseteq Externals /\ closed = {} /\ ledger = <<>>

Complete(e, text) ==
  /\ e \in open
  /\ open' = open \ {e} /\ closed' = closed \cup {e}
  /\ ledger' = Append(ledger, [external |-> e, text |-> text])

\* Starting a session also gives up any number of others.
Abandon(gone, new) ==
  /\ gone \subseteq open /\ new \cap (open \cup closed) = {}
  /\ open' = (open \ gone) \cup new /\ closed' = closed \cup gone
  /\ UNCHANGED ledger

Next ==
  \/ \E e \in Externals, text \in Texts : Complete(e, text)
  \/ \E gone \in SUBSET Externals, new \in {{}} \cup {{e} : e \in Externals} : Abandon(gone, new)

Spec == Init /\ [][Next]_vars
=============================================================================
