---------------------------- MODULE SyncHistory ----------------------------
(***************************************************************************)
(* What the synchronization service promises about an owner's history,     *)
(* whatever tables it keeps: one log, written only at its end, in which a  *)
(* mutation of a device is decided at most once, and in which the          *)
(* canonical version of a record moves by exactly one at each accepted     *)
(* entry and never at a conflict.  SyncServer implements it.               *)
(***************************************************************************)
EXTENDS Integers, Sequences

CONSTANTS Devices, MutationIds, Records

VARIABLE log

Kinds == {"create", "update", "archive", "tombstone", "resolve"}
Dispositions == {"accepted", "conflict"}

\* One line of the history: the decision on mutation id of device, and the
\* canonical version the record has after it.
Entry == [device : Devices, id : MutationIds, record : Records, kind : Kinds,
          base : Nat, disposition : Dispositions, version : Nat]

EntriesOf(r) == {i \in DOMAIN log : log[i].record = r}

\* The canonical version of r: what the last entry on r says, 0 before any.
IsCurrent(r, v) ==
  IF EntriesOf(r) = {}
    THEN v = 0
    ELSE \E i \in EntriesOf(r) : /\ \A j \in EntriesOf(r) : j <= i
                                 /\ v = log[i].version

Decided(d, id) == \E i \in DOMAIN log : log[i].device = d /\ log[i].id = id

Deleted(r) ==
  \E i \in EntriesOf(r) : log[i].kind = "tombstone" /\ log[i].disposition = "accepted"

\* An accepted entry is written against the current version and replaces it.
Accept(e) ==
  /\ e.disposition = "accepted"
  /\ IsCurrent(e.record, e.base)
  /\ (e.kind = "create") <=> (e.base = 0)
  /\ e.version = e.base + 1
  /\ ~Deleted(e.record)

\* A conflict is kept beside the canonical version, which stays; on a record
\* that does not exist yet it reserves the identity at version 1.
Conflict(e) ==
  /\ e.disposition = "conflict"
  /\ e.kind \in {"create", "update"}
  /\ IF IsCurrent(e.record, 0)
       THEN e.kind = "create" /\ e.base = 0 /\ e.version = 1
       ELSE e.kind = "update" /\ IsCurrent(e.record, e.version)

Decide(e) ==
  /\ log' = Append(log, e)
  /\ ~Decided(e.device, e.id)
  /\ Accept(e) \/ Conflict(e)

Init == log = << >>

\* A step is the decision on the entry it leaves at the end of the log.
Next ==
  /\ log' # << >>
  /\ log'[Len(log')] \in Entry
  /\ Decide(log'[Len(log')])

Spec == Init /\ [][Next]_log
=============================================================================
