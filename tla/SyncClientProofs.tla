------------------------- MODULE SyncClientProofs -------------------------
(***************************************************************************)
(* Proofs about SyncClient.                                                *)
(*                                                                         *)
(* A device and the service agree although answers get lost and abandoned  *)
(* requests are decided late, because a row that was ever sent is frozen:  *)
(* it stays claimed, the oldest of its record, until its answer is kept.   *)
(* The inductive invariant says so of the late requests, of the batch of   *)
(* the run and of every entry of the log that came from here.  The last    *)
(* sections show that a record that is settled is the service's, and which *)
(* changes a pull cannot apply.                                            *)
(***************************************************************************)
EXTENDS SyncClient, FiniteSetTheorems, WellFoundedInduction, TLAPS

(***************************************************************************)
(* The history: versions move up, an accepted entry by one, and an entry   *)
(* of this device is a create, an update or an archive of its own.         *)
(***************************************************************************)

SoundEntry(i) ==
  /\ log[i].version <= i
  /\ log[i].base <= log[i].version
  /\ log[i].disposition = "accepted" => log[i].version = log[i].base + 1
  /\ log[i].disposition = "conflict" => log[i].kind \in {"create", "update"}
  /\ log[i].kind = "create" <=> log[i].base = 0
  /\ log[i].id # 0 => log[i].kind \in {"create", "update", "archive"}

InOrder(i, j) ==
  i < j /\ log[i].record = log[j].record =>
    /\ log[i].version <= log[j].version
    /\ log[j].disposition = "accepted" => log[i].version <= log[j].base

HistoryInv ==
  /\ \A i \in DOMAIN log : SoundEntry(i)
  /\ \A i, j \in DOMAIN log : InOrder(i, j)
  /\ \A i, j \in DOMAIN log : log[i].id # 0 /\ log[i].id = log[j].id => i = j

(***************************************************************************)
(* The tables of the device.                                               *)
(***************************************************************************)

Answered(id) == \E rec \in receipts : rec.m.id = id

\* What was sent is answered, or its row is claimed and as it was sent.
Sent(m) ==
  Answered(m.id) \/ \E row \in outbox : row.m = m /\ Claimed(row)

SentAs(i) ==
  Answered(log[i].id)
    \/ \E row \in outbox : row.m.id = log[i].id /\ Says(i, row.m) /\ Claimed(row)

\* An answer says what the log says of the mutation; a refusal says nothing.
Tells(a, m) ==
  IF a.disposition \in {"accepted", "conflict"}
    THEN /\ a.seq \in DOMAIN log
         /\ Says(a.seq, m) /\ log[a.seq].id = m.id
         /\ log[a.seq].disposition = a.disposition /\ log[a.seq].version = a.version
    ELSE a.version = 0

RowInv ==
  \A row \in outbox : /\ row.m.id <= writes
                      /\ ~Answered(row.m.id)
                      /\ Claimed(row) => Oldest(row)

ReceiptInv ==
  \A rec \in receipts : /\ rec.m.id <= writes
                        /\ rec.answer.disposition # "retry"
                        /\ Tells(rec.answer, rec.m)

DecidedInv == \A i \in DOMAIN log : log[i].id # 0 => SentAs(i)

\* A record that is not here has nothing here.
AbsentInv ==
  \A r \in Records : ~Present(r) =>
    /\ local[r].version = 0 /\ local[r].content = 0
    /\ \A row \in outbox : row.m.record # r
    /\ \A rec \in receipts : rec.m.record # r

\* The version of a record bounds every acknowledgement, and is one.
Bounds(r) ==
  /\ \A i \in DOMAIN log : i <= position /\ log[i].record = r
                             => log[i].version <= local[r].version
  /\ \A rec \in receipts : rec.m.record = r => rec.answer.version <= local[r].version

Given(r) ==
  \/ local[r].version = 0
  \/ \E i \in DOMAIN log : i <= position /\ log[i].record = r /\ log[i].version = local[r].version
  \/ \E rec \in receipts : rec.m.record = r /\ rec.answer.version = local[r].version

VersionInv == \A r \in Records : Present(r) => Bounds(r) /\ Given(r)

\* The last write of a record is answered, or its newest row.
Newest(row) == \A other \in outbox : other.m.record = row.m.record => other.m.id <= row.m.id

WriteInv ==
  \A r \in Records : local[r].content > 0 =>
    \/ Answered(local[r].content)
    \/ \E row \in outbox : row.m.id = local[r].content /\ row.m.record = r /\ Newest(row)

TableInv ==
  /\ HistoryInv /\ RowInv /\ ReceiptInv /\ DecidedInv
  /\ AbsentInv /\ VersionInv /\ WriteInv

(***************************************************************************)
(* What is on its way: the late requests and the batch of the run.         *)
(***************************************************************************)

\* The service has had version v of record r.
Reached(r, v) == v = 0 \/ \E i \in DOMAIN log : log[i].record = r /\ v <= log[i].version

LateInv == \A m \in late : Sent(m) /\ Reached(m.record, m.base)

BatchInv ==
  IF run.pc \in {"push", "apply"}
    THEN /\ run.claims # << >> /\ Len(run.answers) <= Len(run.claims)
         /\ run.pc = "apply" => Len(run.answers) = Len(run.claims)
         /\ \A i \in DOMAIN run.claims :
              /\ \E row \in outbox : row.m = run.claims[i] /\ Claimed(row)
              /\ local[run.claims[i].record].version = run.claims[i].base
         /\ \A i, j \in DOMAIN run.claims :
              run.claims[i].record = run.claims[j].record => i = j
         /\ \A i \in DOMAIN run.answers : Tells(run.answers[i], run.claims[i])
    ELSE run.claims = << >> /\ run.answers = << >>

PullInv == run.pc = "pull" => \A row \in outbox : ~Claimed(row)

ClientInv == TypeOK /\ TableInv /\ LateInv /\ BatchInv /\ PullInv

----------------------------------------------------------------------------

(***************************************************************************)
(* Types.                                                                  *)
(***************************************************************************)

\* The fields of a mutation, of a row and of an entry are numbers where they
\* are compared.
LEMMA MutationFields ==
  ASSUME NEW m \in Mutation
  PROVE  /\ m.id \in Nat /\ m.id \in 1..MaxWrites /\ m.record \in Records
         /\ m.base \in Nat /\ m.base \in 0..MaxLog /\ m.archived \in BOOLEAN
         /\ Kind(m) \in {"create", "update", "archive"}
         /\ Kind(m) = "create" <=> m.base = 0
  BY ClientAssumption DEF Mutation, Writes, Kind

LEMMA RowFields ==
  ASSUME NEW row \in Row
  PROVE  /\ row.m \in Mutation /\ row.wait \in 0..1 /\ row.lease \in Unclaimed..Lease
         /\ row.m.id \in Nat /\ row.m.record \in Records /\ row.m.base \in Nat
  <1>1. row.m \in Mutation /\ row.wait \in 0..1 /\ row.lease \in Unclaimed..Lease
    BY DEF Row
  <1> QED
    BY <1>1, MutationFields

LEMMA EntryFields ==
  ASSUME NEW e \in Entry
  PROVE  /\ e.id \in Nat /\ e.id \in 0..MaxWrites /\ e.record \in Records
         /\ e.kind \in {"create", "update", "archive", "tombstone", "resolve"}
         /\ e.base \in Nat /\ e.base \in 0..MaxLog
         /\ e.disposition \in {"accepted", "conflict"}
         /\ e.version \in Nat /\ e.version \in 1..MaxLog
  BY ClientAssumption DEF Entry

LEMMA LogFields ==
  ASSUME TypeOK
  PROVE  /\ Len(log) \in Nat /\ DOMAIN log = 1..Len(log)
         /\ \A i \in DOMAIN log :
              /\ i \in Nat /\ i > 0 /\ i <= Len(log)
              /\ log[i] \in Entry
              /\ log[i].id \in Nat /\ log[i].record \in Records
              /\ log[i].base \in Nat /\ log[i].version \in Nat /\ log[i].version > 0
              /\ log[i].version <= MaxLog
              /\ log[i].disposition \in {"accepted", "conflict"}
  <1>1. log \in Seq(Entry)
    BY DEF TypeOK
  <1>2. Len(log) \in Nat /\ DOMAIN log = 1..Len(log)
    BY <1>1
  <1>3. \A i \in DOMAIN log : log[i] \in Entry
    BY <1>1
  <1>4. \A i \in DOMAIN log : /\ log[i].version \in Nat /\ log[i].version > 0
                              /\ log[i].version <= MaxLog
    BY <1>3, EntryFields, ClientAssumption
  <1> QED
    BY <1>2, <1>3, <1>4, EntryFields

LEMMA ReceiptFields ==
  ASSUME NEW rec \in Receipt
  PROVE  /\ rec.m \in Mutation /\ rec.answer \in Answer
         /\ rec.answer.version \in Nat /\ rec.answer.seq \in Nat
         /\ rec.answer.disposition \in {"accepted", "conflict", "rejected", "retry"}
  BY ClientAssumption DEF Receipt, Answer

\* Two rows of one mutation are one row, and so are two receipts.
LEMMA OneRow ==
  ASSUME TypeOK
  PROVE  /\ \A a, b \in outbox : a.m.id = b.m.id => a = b
         /\ \A a, b \in receipts : a.m.id = b.m.id => a = b
         /\ \A row \in outbox : row \in Row
         /\ \A rec \in receipts : rec \in Receipt
  BY DEF TypeOK, RowOf, ReceiptOf

LEMMA LocalFields ==
  ASSUME TypeOK, NEW r \in Records
  PROVE  /\ local[r].state \in {"absent", "active", "archived", "tombstoned"}
         /\ local[r].version \in Nat /\ local[r].version <= MaxLog
         /\ local[r].content \in Int
  BY ClientAssumption DEF TypeOK

----------------------------------------------------------------------------

(***************************************************************************)
(* Maxima and the version of a record.                                     *)
(***************************************************************************)

LEMMA LeastOf ==
  ASSUME NEW S \in SUBSET Nat, S # {}
  PROVE  \E i \in S : \A j \in S : i <= j
  <1> DEFINE Less == OpToRel(<, Nat)
  <1>1. IsWellFoundedOn(Less, Nat)
    BY NatLessThanWellFounded
  <1>2. \A i, j \in Nat : <<j, i>> \in Less <=> j < i
    BY DEF OpToRel
  <1> HIDE DEF Less
  <1>3. PICK i \in S : \A j \in S : ~(<<j, i>> \in Less)
    BY <1>1, WFMin
  <1>4. \A j \in S : j \in Nat
    OBVIOUS
  <1>5. \A j \in S : ~(j < i)
    BY <1>2, <1>3, <1>4
  <1> QED
    BY <1>4, <1>5

LEMMA MaxIs ==
  ASSUME NEW k \in Nat, NEW S \in SUBSET (0..k), S # {}
  PROVE  Max(S) \in S /\ \A j \in S : j <= Max(S)
  <1> DEFINE T == {k - i : i \in S}
  <1>0. \A i \in S : i \in Nat /\ i <= k
    OBVIOUS
  <1>1. T \subseteq Nat /\ T # {}
    <2>1. \A i \in S : k - i \in Nat
      BY <1>0
    <2> QED
      BY <2>1
  <1>2. PICK t \in T : \A u \in T : t <= u
    BY <1>1, LeastOf
  <1>3. PICK i \in S : t = k - i
    BY <1>2
  <1>4. \A j \in S : i >= j
    BY <1>0, <1>2, <1>3
  <1>5. Max(S) \in S /\ \A j \in S : Max(S) >= j
    BY <1>4 DEF Max
  <1> QED
    BY <1>0, <1>5

\* The version of a record is what its last entry says.
LEMMA VersionIs ==
  ASSUME TypeOK, NEW r
  PROVE  \/ EntriesOf(r) = {} /\ Version(r) = 0
         \/ \E i \in EntriesOf(r) : /\ \A j \in EntriesOf(r) : j <= i
                                    /\ Version(r) = log[i].version
  <1>1. CASE EntriesOf(r) = {}
    BY <1>1 DEF Version
  <1>2. CASE EntriesOf(r) # {}
    <2>1. EntriesOf(r) \in SUBSET (0..Len(log)) /\ Len(log) \in Nat
      BY LogFields DEF EntriesOf
    <2> QED
      BY <1>2, <2>1, MaxIs DEF Version
  <1> QED
    BY <1>1, <1>2

LEMMA VersionBounds ==
  ASSUME TypeOK, HistoryInv, NEW r
  PROVE  /\ Version(r) \in Nat /\ Version(r) <= Len(log)
         /\ \A i \in DOMAIN log : log[i].record = r => log[i].version <= Version(r)
  <1>1. CASE EntriesOf(r) = {} /\ Version(r) = 0
    BY <1>1, LogFields DEF EntriesOf
  <1>2. ASSUME NEW i \in EntriesOf(r), \A j \in EntriesOf(r) : j <= i,
               Version(r) = log[i].version
        PROVE  /\ Version(r) \in Nat /\ Version(r) <= Len(log)
               /\ \A j \in DOMAIN log : log[j].record = r => log[j].version <= Version(r)
    <2>1. i \in DOMAIN log /\ i \in Nat /\ log[i].record = r /\ i <= Len(log) /\ Len(log) \in Nat
      BY LogFields DEF EntriesOf
    <2>2. log[i].version \in Nat /\ log[i].version <= i
      BY <2>1, LogFields DEF HistoryInv, SoundEntry
    <2>3. ASSUME NEW j \in DOMAIN log, log[j].record = r
          PROVE  log[j].version <= log[i].version
      <3>1. j <= i /\ j \in Nat
        BY <1>2, <2>3, LogFields DEF EntriesOf
      <3>2. j < i => log[j].version <= log[i].version
        BY <2>1, <2>3 DEF HistoryInv, InOrder
      <3> QED
        BY <2>1, <2>2, <3>1, <3>2
    <2> QED
      BY <1>2, <2>1, <2>2, <2>3
  <1> QED
    BY <1>1, <1>2, VersionIs

\* Once a record has an entry its version is not 0, and the other way round.
LEMMA VersionOfNothing ==
  ASSUME TypeOK, NEW r
  PROVE  Version(r) = 0 <=> EntriesOf(r) = {}
  BY VersionIs, LogFields DEF EntriesOf

----------------------------------------------------------------------------

(***************************************************************************)
(* What the service adds to the log.                                       *)
(***************************************************************************)

\* A mutation of this device that was sent and is not yet decided.
FromHere(e) ==
  /\ e.kind \in {"create", "update", "archive"}
  /\ \A i \in DOMAIN log : log[i].id # e.id
  /\ \/ Answered(e.id)
     \/ \E row \in outbox : /\ row.m.id = e.id /\ row.m.record = e.record
                            /\ row.m.base = e.base /\ Kind(row.m) = e.kind
                            /\ Claimed(row)

AcceptedEntry(e) ==
  /\ e.disposition = "accepted"
  /\ e.base = Version(e.record)
  /\ ~Deleted(e.record)
  /\ e.version = e.base + 1

ConflictEntry(e) ==
  /\ e.disposition = "conflict"
  /\ \/ Version(e.record) = 0 /\ e.kind = "create" /\ e.version = 1
     \/ Version(e.record) # 0 /\ e.kind = "update" /\ e.version = Version(e.record)
  /\ e.base <= e.version

Decision(e) ==
  /\ e \in Entry
  /\ AcceptedEntry(e) \/ ConflictEntry(e)
  /\ e.kind = "create" <=> e.base = 0
  /\ e.id # 0 => FromHere(e)

\* The log after a step: the same, or one decision longer.
Continues == log' = log \/ \E e : Decision(e) /\ log' = Append(log, e)

\* A version that the service has had is at most the current one.
LEMMA ReachedIsBelow ==
  ASSUME TypeOK, HistoryInv, NEW r \in Records, NEW v \in Nat, Reached(r, v)
  PROVE  v <= Version(r)
  <1>1. CASE v = 0
    BY <1>1, VersionBounds
  <1>2. ASSUME NEW i \in DOMAIN log, log[i].record = r, v <= log[i].version
        PROVE  v <= Version(r)
    BY <1>2, VersionBounds, LogFields
  <1> QED
    BY <1>1, <1>2 DEF Reached

\* What Append leaves and adds.
LEMMA Appended ==
  ASSUME TypeOK, NEW e, log' = Append(log, e)
  PROVE  /\ Len(log') = Len(log) + 1
         /\ DOMAIN log' = 1..(Len(log) + 1)
         /\ \A i \in DOMAIN log' : i \in Nat /\ (i \in DOMAIN log \/ i = Len(log) + 1)
         /\ \A i \in DOMAIN log : i \in DOMAIN log' /\ log'[i] = log[i]
         /\ Len(log) + 1 \in DOMAIN log' /\ log'[Len(log) + 1] = e
  <1>1. log \in Seq(Entry) /\ Len(log) \in Nat /\ DOMAIN log = 1..Len(log)
    BY LogFields DEF TypeOK
  <1>2. Len(log') = Len(log) + 1 /\ DOMAIN log' = 1..(Len(log) + 1)
    BY <1>1
  <1>3. \A i \in 1..Len(log) : log'[i] = log[i]
    BY <1>1
  <1>4. log'[Len(log) + 1] = e
    BY <1>1
  <1> QED
    BY <1>1, <1>2, <1>3, <1>4

\* A decision keeps the history in order.
LEMMA DecisionIsSound ==
  ASSUME TypeOK, HistoryInv, NEW e, Decision(e)
  PROVE  /\ e.version \in Nat /\ e.base \in Nat /\ e.version <= Len(log) + 1
         /\ e.base <= e.version
         /\ e.disposition = "accepted" => e.version = e.base + 1
         /\ e.disposition = "conflict" => e.kind \in {"create", "update"}
         /\ \A i \in DOMAIN log : log[i].record = e.record =>
              /\ log[i].version <= e.version
              /\ e.disposition = "accepted" => log[i].version <= e.base
  <1>1. e.base \in Nat /\ e.version \in Nat /\ e.record \in Records /\ e.version > 0
    BY EntryFields, ClientAssumption DEF Decision
  <1>2. /\ Version(e.record) \in Nat /\ Version(e.record) <= Len(log)
        /\ \A i \in DOMAIN log : log[i].record = e.record => log[i].version <= Version(e.record)
    BY VersionBounds
  <1>3. Len(log) \in Nat /\ \A i \in DOMAIN log : log[i].version \in Nat
    BY LogFields
  <1>4. CASE AcceptedEntry(e)
    BY <1>1, <1>2, <1>3, <1>4 DEF AcceptedEntry
  <1>5. CASE ConflictEntry(e)
    <2>1. Version(e.record) <= e.version /\ e.version <= Len(log) + 1
      BY <1>1, <1>2, <1>3, <1>5 DEF ConflictEntry
    <2>2. \A i \in DOMAIN log : log[i].record = e.record => log[i].version <= e.version
      BY <1>1, <1>2, <1>3, <2>1
    <2> QED
      BY <1>1, <1>5, <2>1, <2>2 DEF ConflictEntry
  <1> QED
    BY <1>4, <1>5 DEF Decision

LEMMA HistoryContinues ==
  ASSUME TypeOK, HistoryInv, Continues
  PROVE  HistoryInv'
  <1>1. CASE log' = log
    BY <1>1 DEF HistoryInv, SoundEntry, InOrder
  <1>2. ASSUME NEW e, Decision(e), log' = Append(log, e)
        PROVE  HistoryInv'
    <2>1. /\ \A i \in DOMAIN log' : i \in Nat /\ (i \in DOMAIN log \/ i = Len(log) + 1)
          /\ \A i \in DOMAIN log : log'[i] = log[i]
          /\ log'[Len(log) + 1] = e
      BY <1>2, Appended
    <2>2. Len(log) \in Nat /\ \A i \in DOMAIN log : i \in Nat /\ i <= Len(log)
      BY LogFields
    <2>3. /\ e.version <= Len(log) + 1
          /\ e.base <= e.version
          /\ e.disposition = "accepted" => e.version = e.base + 1
          /\ e.disposition = "conflict" => e.kind \in {"create", "update"}
      BY <1>2, DecisionIsSound
    <2>4. \A i \in DOMAIN log : log[i].record = e.record =>
              /\ log[i].version <= e.version
              /\ e.disposition = "accepted" => log[i].version <= e.base
      BY <1>2, DecisionIsSound
    <2>5. /\ e.kind = "create" <=> e.base = 0
          /\ e.id # 0 => e.kind \in {"create", "update", "archive"}
          /\ e.id # 0 => \A i \in DOMAIN log : log[i].id # e.id
      BY <1>2 DEF Decision, FromHere
    <2>6. ASSUME NEW i \in DOMAIN log'
          PROVE  SoundEntry(i)'
      <3>1. CASE i \in DOMAIN log
        BY <2>1, <3>1 DEF HistoryInv, SoundEntry
      <3>2. CASE i = Len(log) + 1
        BY <2>1, <2>3, <2>5, <3>2 DEF SoundEntry
      <3> QED
        BY <2>1, <3>1, <3>2
    <2>7. ASSUME NEW i \in DOMAIN log', NEW j \in DOMAIN log'
          PROVE  InOrder(i, j)'
      <3>1. CASE i \in DOMAIN log /\ j \in DOMAIN log
        BY <2>1, <3>1 DEF HistoryInv, InOrder
      <3>2. CASE i \in DOMAIN log /\ j = Len(log) + 1
        BY <2>1, <2>4, <3>2 DEF InOrder
      <3>3. CASE i = Len(log) + 1
        <4>1. ~(i < j)
          BY <2>1, <2>2, <3>3
        <4> QED
          BY <4>1 DEF InOrder
      <3> QED
        BY <2>1, <3>1, <3>2, <3>3
    <2>8. ASSUME NEW i \in DOMAIN log', NEW j \in DOMAIN log',
                 log'[i].id # 0, log'[i].id = log'[j].id
          PROVE  i = j
      <3>1. CASE i \in DOMAIN log /\ j \in DOMAIN log
        BY <2>1, <2>8, <3>1 DEF HistoryInv
      <3>2. CASE i = Len(log) + 1 \/ j = Len(log) + 1
        BY <2>1, <2>5, <2>8, <3>2
      <3> QED
        BY <2>1, <3>1, <3>2
    <2> QED
      BY <2>6, <2>7, <2>8 DEF HistoryInv
  <1> QED
    BY <1>1, <1>2 DEF Continues

\* The log keeps what it has, and a new entry is a decision.
LEMMA Kept ==
  ASSUME TypeOK, Continues
  PROVE  \A i \in DOMAIN log : i \in DOMAIN log' /\ log'[i] = log[i]
  BY Appended DEF Continues

LEMMA StillTold ==
  ASSUME TypeOK, Continues, NEW a, NEW m, Tells(a, m)
  PROVE  Tells(a, m)'
  BY Kept DEF Tells, Says, Kind

LEMMA StillReached ==
  ASSUME TypeOK, Continues, NEW r, NEW v, Reached(r, v)
  PROVE  Reached(r, v)'
  BY Kept DEF Reached

LEMMA DecidedContinues ==
  ASSUME TypeOK, DecidedInv, Continues, UNCHANGED <<outbox, receipts>>
  PROVE  DecidedInv'
  <1>1. ASSUME NEW i \in DOMAIN log, log'[i] = log[i], log[i].id # 0
        PROVE  SentAs(i)'
    <2>1. SentAs(i)
      BY <1>1 DEF DecidedInv
    <2> QED
      BY <1>1, <2>1 DEF SentAs, Says, Answered, Claimed, Kind
  <1>2. CASE log' = log
    BY <1>1, <1>2 DEF DecidedInv
  <1>3. ASSUME NEW e, Decision(e), log' = Append(log, e)
        PROVE  DecidedInv'
    <2>1. /\ \A i \in DOMAIN log' : i \in Nat /\ (i \in DOMAIN log \/ i = Len(log) + 1)
          /\ \A i \in DOMAIN log : log'[i] = log[i]
          /\ log'[Len(log) + 1] = e
      BY <1>3, Appended
    <2>2. ASSUME NEW n \in DOMAIN log', log'[n] = e, e.id # 0
          PROVE  SentAs(n)'
      <3>1. \/ Answered(e.id)
            \/ \E row \in outbox : /\ row.m.id = e.id /\ row.m.record = e.record
                                   /\ row.m.base = e.base /\ Kind(row.m) = e.kind
                                   /\ Claimed(row)
        BY <1>3, <2>2 DEF Decision, FromHere
      <3> QED
        BY <2>2, <3>1 DEF SentAs, Says, Answered, Claimed, Kind
    <2>3. ASSUME NEW i \in DOMAIN log', log'[i].id # 0
          PROVE  SentAs(i)'
      <3>1. CASE i \in DOMAIN log
        BY <1>1, <2>1, <2>3, <3>1
      <3>2. CASE log'[i] = e
        BY <2>2, <2>3, <3>2
      <3> QED
        BY <2>1, <3>1, <3>2
    <2> QED
      BY <2>3 DEF DecidedInv
  <1> QED
    BY <1>2, <1>3 DEF Continues

\* A decision leaves the tables of the device as true as they were.
LEMMA TablesContinue ==
  ASSUME TypeOK, TableInv, Continues, UNCHANGED store
  PROVE  TableInv'
  <1> USE DEF store
  <1>1. HistoryInv'
    BY HistoryContinues DEF TableInv
  <1>2. RowInv'
    BY DEF TableInv, RowInv, Answered, Claimed, Oldest, RowsOf
  <1>3. ReceiptInv'
    <2>1. \A rec \in receipts : /\ rec.m.id <= writes
                                /\ rec.answer.disposition # "retry"
                                /\ Tells(rec.answer, rec.m)'
      BY StillTold DEF TableInv, ReceiptInv
    <2> QED
      BY <2>1 DEF ReceiptInv
  <1>4. DecidedInv'
    BY DecidedContinues DEF TableInv
  <1>5. AbsentInv'
    BY DEF TableInv, AbsentInv, Present
  <1>6. VersionInv'
    <2>1. \A i \in DOMAIN log : i \in DOMAIN log' /\ log'[i] = log[i]
      BY Kept
    <2>2. \A i \in DOMAIN log' : i <= position => i \in DOMAIN log
      <3>1. position \in 0..Len(log) /\ Len(log) \in Nat /\ DOMAIN log = 1..Len(log)
        BY LogFields DEF TypeOK
      <3>2. CASE log' = log
        BY <3>2
      <3>3. ASSUME NEW e, log' = Append(log, e)
            PROVE  \A i \in DOMAIN log' : i <= position => i \in DOMAIN log
        BY <3>1, <3>3, Appended
      <3> QED
        BY <3>2, <3>3 DEF Continues
    <2>3. ASSUME NEW r \in Records, Bounds(r) /\ Given(r)
          PROVE  (Bounds(r) /\ Given(r))'
      <3>1. Bounds(r)'
        BY <2>1, <2>2, <2>3 DEF Bounds
      <3>2. Given(r)'
        BY <2>1, <2>3 DEF Given
      <3> QED
        BY <3>1, <3>2
    <2> QED
      BY <2>3 DEF TableInv, VersionInv, Present
  <1>7. WriteInv'
    BY DEF TableInv, WriteInv, Answered, Newest
  <1> QED
    BY <1>1, <1>2, <1>3, <1>4, <1>5, <1>6, <1>7 DEF TableInv

LEMMA LateContinues ==
  ASSUME TypeOK, Continues, UNCHANGED <<outbox, receipts>>,
         NEW m, Sent(m), Reached(m.record, m.base)
  PROVE  (Sent(m) /\ Reached(m.record, m.base))'
  <1>1. Reached(m.record, m.base)'
    BY StillReached
  <1>2. Sent(m)'
    BY DEF Sent, Answered, Claimed
  <1> QED
    BY <1>1, <1>2

RunType == [pc : {"idle", "claim", "push", "apply", "check", "pull"},
            claims : Seq(Mutation), answers : Seq(Answer), blocked : BOOLEAN]

LEMMA TypesContinue ==
  ASSUME TypeOK, Continues, Len(log') <= MaxLog, UNCHANGED store,
         late' \subseteq Mutation, run' \in RunType
  PROVE  TypeOK'
  <1>1. log \in Seq(Entry) /\ Len(log) \in Nat /\ DOMAIN log = 1..Len(log)
    BY LogFields DEF TypeOK
  <1>2. log' \in Seq(Entry) /\ conflicts' \subseteq DOMAIN log' /\ position' \in 0..Len(log')
    <2>1. CASE log' = log
      BY <2>1 DEF TypeOK, store
    <2>2. ASSUME NEW e, Decision(e), log' = Append(log, e)
          PROVE  log' \in Seq(Entry) /\ conflicts' \subseteq DOMAIN log' /\ position' \in 0..Len(log')
      <3>1. log' \in Seq(Entry)
        BY <1>1, <2>2 DEF Decision
      <3>2. Len(log') = Len(log) + 1 /\ \A i \in DOMAIN log : i \in DOMAIN log'
        BY <2>2, Appended
      <3> QED
        BY <1>1, <3>1, <3>2 DEF TypeOK, store
    <2> QED
      BY <2>1, <2>2 DEF Continues
  <1>3. /\ outbox' \subseteq Row /\ \A row \in outbox' : RowOf(row.m.id)' = {row}
        /\ receipts' \subseteq Receipt /\ \A rec \in receipts' : ReceiptOf(rec.m.id)' = {rec}
    BY DEF TypeOK, store, RowOf, ReceiptOf
  <1> QED
    BY <1>2, <1>3 DEF TypeOK, store, RunType

\* An answer with the change it added: what pushOne does for a mutation that
\* this device has sent.
LEMMA AnswerAdds ==
  ASSUME TypeOK, HistoryInv, NEW m \in Mutation, Sent(m), Decided(m.id) = {},
         NEW disposition, NEW version, NEW o, o = Adds(m, disposition, version),
         LET e == NewEntry(m, disposition, version) IN
           e \in Entry /\ (AcceptedEntry(e) \/ ConflictEntry(e)),
         Len(log) + 1 <= MaxLog,
         log' = Append(log, NewEntry(m, disposition, version))
  PROVE  /\ Continues /\ Len(log') <= MaxLog
         /\ o.answer \in Answer /\ Tells(o.answer, m)'
  <1>0. PICK e : e = NewEntry(m, disposition, version)
    OBVIOUS
  <1> DEFINE a == o.answer
  <1>1. /\ e.id = m.id /\ e.record = m.record /\ e.kind = Kind(m) /\ e.base = m.base
        /\ e.disposition = disposition /\ e.version = version
        /\ a.disposition = disposition /\ a.version = version /\ a.seq = Len(log) + 1
        /\ a = [disposition |-> disposition, version |-> version, seq |-> Len(log) + 1]
    BY <1>0 DEF NewEntry, Adds
  <1>2. e \in Entry /\ (AcceptedEntry(e) \/ ConflictEntry(e)) /\ log' = Append(log, e)
    BY <1>0
  <1> HIDE DEF a
  <1>3. Len(log) \in Nat
    BY LogFields
  <1>4. FromHere(e)
    <2>1. \A i \in DOMAIN log : log[i].id # m.id
      BY DEF Decided
    <2>2. Answered(m.id) \/ \E row \in outbox : row.m = m /\ Claimed(row)
      BY DEF Sent
    <2> QED
      BY <1>1, <2>1, <2>2, MutationFields DEF FromHere
  <1>5. Decision(e)
    BY <1>1, <1>2, <1>4, MutationFields DEF Decision
  <1>6. Continues
    BY <1>2, <1>5 DEF Continues
  <1>7. Len(log') = Len(log) + 1 /\ Len(log) + 1 \in DOMAIN log' /\ log'[Len(log) + 1] = e
    BY <1>2, Appended
  <1>8. disposition \in {"accepted", "conflict"} /\ version \in 0..MaxLog
    BY <1>1, <1>2, EntryFields, ClientAssumption
  <1>9. a \in Answer
    BY <1>1, <1>3, <1>8, ClientAssumption DEF Answer
  <1>10. Tells(a, m)'
    BY <1>1, <1>7, <1>8 DEF Tells, Says, Kind
  <1> QED
    BY <1>3, <1>6, <1>7, <1>9, <1>10 DEF a

LEMMA OutcomeIs ==
  ASSUME TypeOK, HistoryInv, NEW m \in Mutation, Sent(m), Reached(m.record, m.base),
         NEW o \in Outcomes(m), Extends(o)
  PROVE  /\ Continues /\ Len(log') <= MaxLog
         /\ o.answer \in Answer /\ Tells(o.answer, m)'
  <1>1. Len(log) \in Nat /\ Len(log) <= MaxLog /\ log \in Seq(Entry)
    BY LogFields DEF TypeOK
  <1>2. ASSUME NEW disposition \in {"rejected", "retry"}, o = Declines(disposition)
        PROVE  /\ Continues /\ Len(log') <= MaxLog
               /\ o.answer \in Answer /\ Tells(o.answer, m)'
    <2>1. /\ o.added = << >>
          /\ o.answer = [disposition |-> disposition, version |-> 0, seq |-> 0]
      BY <1>2 DEF Declines
    <2>2. log' = log
      BY <1>1, <2>1 DEF Extends
    <2>3. o.answer \in Answer
      BY <2>1, ClientAssumption DEF Answer
    <2> QED
      BY <1>1, <2>1, <2>2, <2>3 DEF Continues, Tells
  <1>3. ASSUME NEW i \in Decided(m.id), o = Replay(i, m)
        PROVE  /\ Continues /\ Len(log') <= MaxLog
               /\ o.answer \in Answer /\ Tells(o.answer, m)'
    <2>1. CASE Says(i, m)
      <3>1. /\ o.added = << >>
            /\ o.answer = [disposition |-> log[i].disposition, version |-> log[i].version,
                           seq |-> i]
        BY <1>3, <2>1 DEF Replay
      <3>2. log' = log
        BY <1>1, <3>1 DEF Extends
      <3>3. /\ i \in DOMAIN log /\ i \in 0..MaxLog /\ log[i].id = m.id
            /\ log[i].disposition \in {"accepted", "conflict"} /\ log[i].version \in 0..MaxLog
        BY <1>1, <1>3, LogFields, ClientAssumption DEF Decided
      <3>4. o.answer \in Answer
        BY <3>1, <3>3 DEF Answer
      <3>5. Tells(o.answer, m)
        BY <2>1, <3>1, <3>3 DEF Tells
      <3>6. Tells(o.answer, m)'
        BY <3>2, <3>5 DEF Tells, Says, Kind
      <3> QED
        BY <1>1, <3>2, <3>4, <3>6 DEF Continues
    <2>2. CASE ~Says(i, m)
      BY <1>2, <1>3, <2>2 DEF Replay
    <2> QED
      BY <2>1, <2>2
  <1>4. ASSUME Decided(m.id) = {},
               NEW disposition, NEW version, o = Adds(m, disposition, version),
               LET e == NewEntry(m, disposition, version) IN
                 e \in Entry /\ (AcceptedEntry(e) \/ ConflictEntry(e))
        PROVE  /\ Continues /\ Len(log') <= MaxLog
               /\ o.answer \in Answer /\ Tells(o.answer, m)'
    <2>1. o.added = <<NewEntry(m, disposition, version)>>
      BY <1>4 DEF Adds
    <2>3. ASSUME NEW e
          PROVE  log \o <<e>> = Append(log, e) /\ Len(<<e>>) = 1
      BY <1>1
    <2>2. log' = Append(log, NewEntry(m, disposition, version)) /\ Len(log) + 1 <= MaxLog
      BY <1>1, <2>1, <2>3 DEF Extends
    <2> QED
      BY <1>4, <2>2, AnswerAdds
  <1>5. /\ m.id \in 0..MaxWrites /\ m.record \in Records /\ m.base \in 0..MaxLog /\ m.base \in Nat
        /\ Kind(m) \in {"create", "update", "archive"} /\ (Kind(m) = "create" <=> m.base = 0)
    BY MutationFields, ClientAssumption
  <1>6. /\ Version(m.record) \in Nat /\ Version(m.record) <= Len(log)
        /\ m.base <= Version(m.record)
    BY <1>5, VersionBounds, ReachedIsBelow
  <1>7. ASSUME NEW disposition \in {"accepted", "conflict"}, NEW version \in 1..MaxLog
        PROVE  NewEntry(m, disposition, version) \in Entry
    BY <1>5 DEF NewEntry, Entry
  <1>8. CASE /\ Decided(m.id) = {} /\ Fits(m)
             /\ o = Adds(m, "accepted", m.base + 1)
    <2>1. o.added = <<NewEntry(m, "accepted", m.base + 1)>>
      BY <1>8 DEF Adds
    <2>4. Len(log) + 1 <= MaxLog
      BY <1>1, <2>1 DEF Extends
    <2>2. m.base + 1 \in 1..MaxLog
      BY <1>1, <1>5, <1>6, <2>4, ClientAssumption
    <2>3. AcceptedEntry(NewEntry(m, "accepted", m.base + 1))
      BY <1>8 DEF AcceptedEntry, NewEntry, Fits
    <2> QED
      BY <1>4, <1>7, <1>8, <2>2, <2>3
  <1>9. CASE /\ Decided(m.id) = {} /\ Competes(m)
             /\ o = Adds(m, "conflict", IF m.base = 0 THEN 1 ELSE Version(m.record))
    <2>1. PICK version : version = IF m.base = 0 THEN 1 ELSE Version(m.record)
      OBVIOUS
    <2>2. o = Adds(m, "conflict", version)
      BY <1>9, <2>1
    <2>3. Len(log) + 1 <= MaxLog
      BY <1>1, <2>2 DEF Extends, Adds
    <2>4. \/ Kind(m) = "create" /\ Version(m.record) = 0
          \/ Kind(m) = "update" /\ Version(m.record) # 0
      BY <1>5, <1>6, <1>9 DEF Competes, Fits
    <2>5. version \in 1..MaxLog /\ m.base <= version
      BY <1>1, <1>5, <1>6, <2>1, <2>3, <2>4, ClientAssumption
    <2>6. ConflictEntry(NewEntry(m, "conflict", version))
      BY <1>5, <2>1, <2>4, <2>5 DEF ConflictEntry, NewEntry
    <2> QED
      BY <1>4, <1>7, <1>9, <2>2, <2>5, <2>6
  <1> QED
    <2>1. CASE Decided(m.id) # {}
      BY <1>3, <2>1 DEF Outcomes
    <2>2. CASE Decided(m.id) = {}
      BY <1>2, <1>8, <1>9, <2>2 DEF Outcomes
    <2> QED
      BY <2>1, <2>2

\* What the other devices get decided is a decision.
LEMMA ForeignDecision ==
  ASSUME TypeOK, HistoryInv, Len(log) < MaxLog,
         NEW r \in Records, NEW e \in ForeignEntries(r)
  PROVE  Decision(e)
  <1>1. PICK v : v = Version(r)
    OBVIOUS
  <1>2. v \in Nat /\ v <= Len(log) /\ Len(log) \in Nat
    BY <1>1, VersionBounds, LogFields
  <1>3. ASSUME NEW kind \in {"create", "update", "archive", "tombstone", "resolve"},
               NEW base \in 0..MaxLog, NEW disposition \in {"accepted", "conflict"},
               NEW version \in 1..MaxLog, NEW resolves \in SUBSET (1..MaxLog)
        PROVE  ForeignEntry(r, kind, base, disposition, version, resolves) \in Entry
    BY ClientAssumption DEF ForeignEntry, Entry
  <1>4. /\ {} \in SUBSET (1..MaxLog) /\ 1 \in 1..MaxLog /\ 0 \in 0..MaxLog
        /\ v + 1 \in 1..MaxLog /\ v \in 0..MaxLog
        /\ v > 1 => v - 1 \in 0..MaxLog /\ v \in 1..MaxLog /\ v - 1 # 0 /\ v - 1 <= v
        /\ v > 0 => v # 0
    BY <1>2, ClientAssumption
  <1>5. v = 0 => ~Deleted(r)
    BY <1>1, VersionOfNothing DEF Deleted, Accepted
  <1>6. CASE v = 0 /\ e = ForeignEntry(r, "create", 0, "accepted", 1, {})
    <2>1. e \in Entry
      BY <1>3, <1>4, <1>6
    <2>3. /\ e.record = r /\ e.base = 0 /\ e.version = 1 /\ e.disposition = "accepted"
          /\ Version(r) = 0 /\ ~Deleted(r)
      BY <1>1, <1>5, <1>6 DEF ForeignEntry
    <2>2. AcceptedEntry(e)
      BY <2>3 DEF AcceptedEntry
    <2> QED
      BY <1>6, <2>1, <2>2 DEF Decision, ForeignEntry
  <1>7. CASE v = 0 /\ e = ForeignEntry(r, "create", 0, "conflict", 1, {})
    <2>1. e \in Entry
      BY <1>3, <1>4, <1>7
    <2>3. /\ e.record = r /\ e.base = 0 /\ e.version = 1 /\ e.disposition = "conflict"
          /\ e.kind = "create" /\ Version(r) = 0
      BY <1>1, <1>7 DEF ForeignEntry
    <2>2. ConflictEntry(e)
      BY <2>3 DEF ConflictEntry
    <2> QED
      BY <1>7, <2>1, <2>2 DEF Decision, ForeignEntry
  <1>8. CASE v > 1 /\ e = ForeignEntry(r, "update", v - 1, "conflict", v, {})
    <2>1. e \in Entry
      BY <1>3, <1>4, <1>8
    <2>2. ConflictEntry(e)
      BY <1>1, <1>2, <1>4, <1>8 DEF ConflictEntry, ForeignEntry
    <2> QED
      BY <1>4, <1>8, <2>1, <2>2 DEF Decision, ForeignEntry
  <1>9. ASSUME v > 0, ~Deleted(r), NEW kind \in {"update", "archive", "tombstone", "resolve"},
               NEW resolves \in SUBSET (1..MaxLog),
               e = ForeignEntry(r, kind, v, "accepted", v + 1, resolves)
        PROVE  Decision(e)
    <2>1. e \in Entry
      BY <1>3, <1>4, <1>9
    <2>2. AcceptedEntry(e)
      BY <1>1, <1>9 DEF AcceptedEntry, ForeignEntry
    <2> QED
      BY <1>4, <1>9, <2>1, <2>2 DEF Decision, ForeignEntry
  <1>10. Open(r) \subseteq 1..MaxLog
    <2>1. Len(log) \in Nat /\ Len(log) <= MaxLog /\ DOMAIN log = 1..Len(log)
      BY LogFields DEF TypeOK
    <2>2. DOMAIN log \subseteq 1..MaxLog
      BY <2>1, ClientAssumption
    <2> QED
      BY <2>2 DEF Open, EntriesOf
  <1> QED
    BY <1>1, <1>4, <1>6, <1>7, <1>8, <1>9, <1>10 DEF ForeignEntries

----------------------------------------------------------------------------

(***************************************************************************)
(* The steps of the service.                                               *)
(***************************************************************************)

\* The batch of the run is as true after a decision for somebody else.
LEMMA BatchContinues ==
  ASSUME TypeOK, BatchInv, PullInv, Continues, UNCHANGED <<local, outbox, run>>
  PROVE  BatchInv' /\ PullInv'
  <1>1. ASSUME NEW i \in DOMAIN run.answers, Tells(run.answers[i], run.claims[i])
        PROVE  Tells(run.answers[i], run.claims[i])'
    <2>1. PICK a, c : a = run.answers[i] /\ c = run.claims[i]
      OBVIOUS
    <2>2. Tells(a, c)
      BY <1>1, <2>1
    <2>3. Tells(a, c)'
      BY <2>2, StillTold
    <2> QED
      BY <2>1, <2>3 DEF Tells, Says, Kind
  <1>2. CASE run.pc \in {"push", "apply"}
    BY <1>1, <1>2 DEF BatchInv, PullInv, Claimed
  <1>3. CASE run.pc \notin {"push", "apply"}
    BY <1>3 DEF BatchInv, PullInv, Claimed
  <1> QED
    BY <1>2, <1>3

LEMMA LateStep ==
  ASSUME ClientInv, DecideLate
  PROVE  ClientInv'
  <1> USE DEF ClientInv
  <1>1. PICK m \in late : /\ late' = late \ {m}
                          /\ UNCHANGED log \/ \E o \in Outcomes(m) : Extends(o)
    BY DEF DecideLate
  <1>2. m \in Mutation /\ Sent(m) /\ Reached(m.record, m.base)
    BY DEF TypeOK, LateInv
  <1>3. UNCHANGED store /\ UNCHANGED run
    BY DEF DecideLate
  <1>4. Continues /\ Len(log') <= MaxLog
    BY <1>1, <1>2, OutcomeIs DEF TableInv, Continues, TypeOK
  <1>5. TypeOK'
    <2>1. late' \subseteq Mutation /\ run' \in RunType
      BY <1>1, <1>3 DEF TypeOK, RunType
    <2> QED
      BY <1>3, <1>4, <2>1, TypesContinue
  <1>6. TableInv'
    BY <1>3, <1>4, TablesContinue
  <1>7. LateInv'
    BY <1>1, <1>3, <1>4, LateContinues DEF LateInv, store
  <1>8. BatchInv' /\ PullInv'
    BY <1>3, <1>4, BatchContinues DEF store
  <1> QED
    BY <1>5, <1>6, <1>7, <1>8

LEMMA OtherStep ==
  ASSUME ClientInv, OtherDevice
  PROVE  ClientInv'
  <1> USE DEF ClientInv
  <1>1. PICK r \in Records : \E e \in ForeignEntries(r) : log' = Append(log, e)
    BY DEF OtherDevice
  <1>2. PICK e \in ForeignEntries(r) : log' = Append(log, e)
    BY <1>1
  <1>3. UNCHANGED store /\ UNCHANGED <<late, run>> /\ Len(log) < MaxLog
    BY DEF OtherDevice
  <1>4. Continues
    BY <1>2, <1>3, ForeignDecision DEF TableInv, Continues
  <1>5. TypeOK'
    <2>1. late' \subseteq Mutation /\ run' \in RunType
      BY <1>3 DEF TypeOK, RunType
    <2>2. Len(log') <= MaxLog
      <3>1. Len(log') = Len(log) + 1 /\ Len(log) \in Nat
        BY <1>2, Appended, LogFields
      <3> QED
        BY <1>3, <3>1, ClientAssumption
    <2> QED
      BY <1>3, <1>4, <2>1, <2>2, TypesContinue
  <1>6. TableInv'
    BY <1>3, <1>4, TablesContinue
  <1>7. LateInv'
    BY <1>3, <1>4, LateContinues DEF LateInv, store
  <1>8. BatchInv' /\ PullInv'
    BY <1>3, <1>4, BatchContinues DEF store
  <1> QED
    BY <1>5, <1>6, <1>7, <1>8

\* The version of a record is one that the service has had.
LEMMA VersionWasReached ==
  ASSUME TypeOK, TableInv, NEW r \in Records
  PROVE  Reached(r, local[r].version)
  <1>1. CASE ~Present(r)
    BY <1>1 DEF TableInv, AbsentInv, Reached
  <1>2. CASE local[r].version = 0
    BY <1>2 DEF Reached
  <1>3. ASSUME NEW i \in DOMAIN log, log[i].record = r, log[i].version = local[r].version
        PROVE  Reached(r, local[r].version)
    BY <1>3, LocalFields DEF Reached
  <1>4. ASSUME NEW rec \in receipts, rec.m.record = r, rec.answer.version = local[r].version
        PROVE  Reached(r, local[r].version)
    <2>1. CASE rec.answer.version = 0
      BY <1>4, <2>1, <1>2
    <2>2. CASE rec.answer.version # 0
      <3>1. Tells(rec.answer, rec.m)
        BY DEF TableInv, ReceiptInv
      <3>2. rec.answer.seq \in DOMAIN log /\ log[rec.answer.seq].record = r
              /\ log[rec.answer.seq].version = local[r].version
        BY <1>4, <2>2, <3>1 DEF Tells, Says
      <3> QED
        BY <1>3, <3>2
    <2> QED
      BY <2>1, <2>2
  <1>5. Present(r) => Given(r)
    BY DEF TableInv, VersionInv
  <1> QED
    BY <1>1, <1>2, <1>3, <1>4, <1>5 DEF Given

LEMMA PushStep ==
  ASSUME ClientInv, Push
  PROVE  ClientInv'
  <1> USE DEF ClientInv
  <1>1. PICK n : n = Len(run.answers) + 1
    OBVIOUS
  <1>2. PICK m : m = run.claims[n]
    OBVIOUS
  <1>3. PICK o \in Outcomes(m) : /\ Extends(o)
                                 /\ run' = [run EXCEPT !.answers = Append(@, o.answer)]
    BY <1>1, <1>2 DEF Push
  <1>4. run.pc = "push" /\ UNCHANGED store /\ UNCHANGED late /\ Unanswered # {}
    BY DEF Push
  <1>5. run \in RunType /\ run.claims \in Seq(Mutation) /\ run.answers \in Seq(Answer)
    BY DEF TypeOK, RunType
  <1>6. Len(run.answers) \in Nat /\ Len(run.claims) \in Nat /\ DOMAIN run.claims = 1..Len(run.claims)
        /\ DOMAIN run.answers = 1..Len(run.answers)
    BY <1>5
  <1>7. n \in Nat /\ n \in DOMAIN run.claims /\ n <= Len(run.claims)
    BY <1>1, <1>4, <1>6 DEF Unanswered
  <1>8. m \in Mutation
    BY <1>2, <1>5, <1>7
  <1>9. (\E row \in outbox : row.m = m /\ Claimed(row)) /\ local[m.record].version = m.base
    BY <1>2, <1>4, <1>7 DEF BatchInv
  <1>10. Sent(m) /\ Reached(m.record, m.base)
    BY <1>8, <1>9, VersionWasReached, MutationFields DEF Sent
  <1>11. Continues /\ Len(log') <= MaxLog /\ o.answer \in Answer /\ Tells(o.answer, m)'
    BY <1>3, <1>8, <1>10, OutcomeIs DEF TableInv
  <1>12. /\ run'.pc = "push" /\ run'.claims = run.claims /\ run'.blocked = run.blocked
         /\ run'.answers = Append(run.answers, o.answer)
         /\ run' \in RunType
    BY <1>3, <1>4, <1>5, <1>11 DEF RunType
  <1>13. TypeOK'
    <2>1. late' \subseteq Mutation
      BY <1>4 DEF TypeOK
    <2> QED
      BY <1>4, <1>11, <1>12, <2>1, TypesContinue
  <1>14. TableInv'
    BY <1>4, <1>11, TablesContinue
  <1>15. LateInv'
    BY <1>4, <1>11, LateContinues DEF LateInv, store
  <1>16. BatchInv' /\ PullInv'
    <2>1. /\ Len(run'.answers) = n /\ DOMAIN run'.answers = 1..n
          /\ run'.answers[n] = o.answer
          /\ \A i \in DOMAIN run.answers : run'.answers[i] = run.answers[i]
      BY <1>1, <1>5, <1>6, <1>11, <1>12
    <2>2. ASSUME NEW a, NEW c, Tells(a, c)
          PROVE  Tells(a, c)'
      BY <1>11, <2>2, StillTold
    <2>3. ASSUME NEW i \in DOMAIN run'.answers
          PROVE  Tells(run.answers[i], run.claims[i])'
      <3>1. PICK a, c : a = run'.answers[i] /\ c = run'.claims[i]
        OBVIOUS
      <3>2. CASE i = n
        <4>1. Tells(a, c)'
          BY <1>2, <1>11, <1>12, <2>1, <3>1, <3>2
        <4> QED
          BY <3>1, <4>1 DEF Tells, Says, Kind
      <3>3. CASE i # n
        <4>1. i \in DOMAIN run.answers
          BY <1>1, <1>6, <2>1, <3>3
        <4>2. Tells(a, c)
          BY <1>4, <1>12, <2>1, <3>1, <4>1 DEF BatchInv
        <4>3. Tells(a, c)'
          BY <2>2, <4>2
        <4> QED
          BY <3>1, <4>3 DEF Tells, Says, Kind
      <3> QED
        BY <3>2, <3>3
    <2>4. \A i \in DOMAIN run.claims :
            /\ \E row \in outbox : row.m = run.claims[i] /\ Claimed(row)
            /\ local[run.claims[i].record].version = run.claims[i].base
      BY <1>4 DEF BatchInv
    <2>5. \A i, j \in DOMAIN run.claims : run.claims[i].record = run.claims[j].record => i = j
      BY <1>4 DEF BatchInv
    <2>6. BatchInv'
      BY <1>4, <1>7, <1>12, <2>1, <2>3, <2>4, <2>5 DEF BatchInv, store, Claimed
    <2> QED
      BY <1>12, <2>6 DEF PullInv
  <1> QED
    BY <1>13, <1>14, <1>15, <1>16

----------------------------------------------------------------------------

(***************************************************************************)
(* The steps of the run that leave the tables alone.                       *)
(***************************************************************************)

\* What a run has claimed was sent, or is about to be.
LEMMA ClaimsAreSent ==
  ASSUME ClientInv, run.pc \in {"push", "apply"}, NEW i \in DOMAIN run.claims
  PROVE  /\ run.claims[i] \in Mutation
         /\ Sent(run.claims[i]) /\ Reached(run.claims[i].record, run.claims[i].base)
  <1>1. PICK m : m = run.claims[i]
    OBVIOUS
  <1>2. m \in Mutation
    <2>1. run.claims \in Seq(Mutation)
      BY DEF ClientInv, TypeOK
    <2> QED
      BY <1>1, <2>1
  <1>3. (\E row \in outbox : row.m = m /\ Claimed(row)) /\ local[m.record].version = m.base
    BY <1>1 DEF ClientInv, BatchInv
  <1>4. Sent(m) /\ Reached(m.record, m.base)
    BY <1>2, <1>3, VersionWasReached, MutationFields DEF Sent, ClientInv
  <1> QED
    BY <1>1, <1>2, <1>4

LEMMA UnansweredIsSent ==
  ASSUME ClientInv, run.pc = "push"
  PROVE  \A m \in Unanswered : m \in Mutation /\ Sent(m) /\ Reached(m.record, m.base)
  <1>1. /\ run.claims \in Seq(Mutation) /\ run.answers \in Seq(Answer)
        /\ Len(run.answers) \in Nat /\ Len(run.claims) \in Nat
        /\ DOMAIN run.claims = 1..Len(run.claims)
    BY DEF ClientInv, TypeOK
  <1>2. \A i \in (Len(run.answers) + 1)..Len(run.claims) : i \in DOMAIN run.claims
    BY <1>1
  <1> QED
    BY <1>2, ClaimsAreSent DEF Unanswered

LEMMA QuietStep ==
  ASSUME ClientInv, UNCHANGED <<log, store>>,
         late' = late \/ (run.pc = "push" /\ late' = late \cup Unanswered),
         run' \in RunType, BatchInv', PullInv'
  PROVE  ClientInv'
  <1> USE DEF ClientInv
  <1>1. Continues /\ Len(log') <= MaxLog /\ UNCHANGED store
    BY DEF Continues, TypeOK
  <1>2. \A m \in late' : m \in Mutation /\ Sent(m) /\ Reached(m.record, m.base)
    <2>1. \A m \in late : m \in Mutation /\ Sent(m) /\ Reached(m.record, m.base)
      BY DEF TypeOK, LateInv
    <2> QED
      BY <2>1, UnansweredIsSent
  <1>3. TypeOK'
    <2>1. late' \subseteq Mutation
      BY <1>2
    <2> QED
      BY <1>1, <2>1, TypesContinue
  <1>4. TableInv'
    BY <1>1, TablesContinue
  <1>5. LateInv'
    BY <1>1, <1>2, LateContinues DEF LateInv, store
  <1> QED
    BY <1>3, <1>4, <1>5

\* A run that has nothing in its hands.
LEMMA Empty ==
  ASSUME NEW pc \in {"idle", "claim", "check", "pull"}
  PROVE  /\ [Idle EXCEPT !.pc = pc] \in RunType
         /\ [Idle EXCEPT !.pc = pc].pc = pc
         /\ [Idle EXCEPT !.pc = pc].claims = << >> /\ [Idle EXCEPT !.pc = pc].answers = << >>
         /\ [Idle EXCEPT !.pc = pc].blocked = FALSE
         /\ Idle = [Idle EXCEPT !.pc = "idle"]
  <1>1. << >> \in Seq(Mutation) /\ << >> \in Seq(Answer)
    OBVIOUS
  <1>2. /\ Idle \in RunType /\ Idle.pc = "idle" /\ Idle.claims = << >>
        /\ Idle.answers = << >> /\ Idle.blocked = FALSE
    BY <1>1 DEF Idle, RunType
  <1>3. ASSUME NEW x \in RunType
        PROVE  /\ [x EXCEPT !.pc = pc] \in RunType /\ [x EXCEPT !.pc = pc].pc = pc
               /\ [x EXCEPT !.pc = pc].claims = x.claims
               /\ [x EXCEPT !.pc = pc].answers = x.answers
               /\ [x EXCEPT !.pc = pc].blocked = x.blocked
               /\ x.pc = "idle" => [x EXCEPT !.pc = "idle"] = x
    BY <1>3 DEF RunType
  <1> QED
    BY <1>2, <1>3

LEMMA EmptyRun ==
  ASSUME NEW pc \in {"idle", "claim", "check"}, run' = [Idle EXCEPT !.pc = pc]
  PROVE  run' \in RunType /\ BatchInv' /\ PullInv'
  <1>1. /\ run' \in RunType /\ run'.pc = pc /\ run'.claims = << >> /\ run'.answers = << >>
    BY Empty
  <1>2. pc \notin {"push", "apply", "pull"}
    OBVIOUS
  <1> QED
    BY <1>1, <1>2 DEF BatchInv, PullInv

LEMMA IdleRun ==
  ASSUME run' = Idle
  PROVE  run' \in RunType /\ BatchInv' /\ PullInv'
  <1>1. run' = [Idle EXCEPT !.pc = "idle"]
    BY Empty
  <1> QED
    BY <1>1, EmptyRun

LEMMA StartStep ==
  ASSUME ClientInv, Start
  PROVE  ClientInv'
  <1>1. run' \in RunType /\ BatchInv' /\ PullInv'
    BY EmptyRun DEF Start
  <1> QED
    BY <1>1, QuietStep DEF Start, server

LEMMA StopStep ==
  ASSUME ClientInv, Stop
  PROVE  ClientInv'
  <1>1. run' \in RunType /\ BatchInv' /\ PullInv'
    BY IdleRun DEF Stop
  <1>2. UNCHANGED <<log, store>>
    BY DEF Stop
  <1>3. late' = late \/ (run.pc = "push" /\ late' = late \cup Unanswered)
    BY DEF Stop
  <1> QED
    BY <1>1, <1>2, <1>3, QuietStep

LEMMA PullEndsStep ==
  ASSUME ClientInv, PullEnds
  PROVE  ClientInv'
  <1>1. run' \in RunType /\ BatchInv' /\ PullInv'
    BY IdleRun DEF PullEnds
  <1> QED
    BY <1>1, QuietStep DEF PullEnds, server

\* The run pulls only when nothing is queued.
LEMMA CheckStep ==
  ASSUME ClientInv, CheckQueue
  PROVE  ClientInv'
  <1>0. UNCHANGED <<log, store>> /\ late' = late
    BY DEF CheckQueue, server
  <1>1. run' \in RunType /\ BatchInv' /\ PullInv'
    <2>1. CASE QueueClear
      <3>1. run' = [Idle EXCEPT !.pc = "pull"]
        BY <2>1 DEF CheckQueue
      <3>2. /\ run' \in RunType /\ run'.pc = "pull"
            /\ run'.claims = << >> /\ run'.answers = << >>
        BY <3>1, Empty
      <3>3. outbox' = {}
        BY <1>0, <2>1 DEF QueueClear, store
      <3> QED
        BY <3>2, <3>3 DEF BatchInv, PullInv
    <2>2. CASE ~QueueClear
      BY <2>2, EmptyRun DEF CheckQueue
    <2> QED
      BY <2>1, <2>2
  <1> QED
    BY <1>0, <1>1, QuietStep

\* Every mutation of the batch is answered when the answers are applied.
LEMMA ReceiveStep ==
  ASSUME ClientInv, Receive
  PROVE  ClientInv'
  <1>0. UNCHANGED <<log, store>> /\ late' = late /\ run.pc = "push" /\ Unanswered = {}
        /\ run' = [run EXCEPT !.pc = "apply"]
    BY DEF Receive, server
  <1>1. run \in RunType
    BY DEF ClientInv, TypeOK, RunType
  <1>2. /\ run' \in RunType /\ run'.pc = "apply" /\ run'.claims = run.claims
        /\ run'.answers = run.answers
    BY <1>0, <1>1 DEF RunType
  <1>3. Len(run.answers) = Len(run.claims)
    <2>1. Len(run.answers) \in Nat /\ Len(run.claims) \in Nat /\ Len(run.answers) <= Len(run.claims)
      BY <1>0, <1>1 DEF RunType, ClientInv, BatchInv
    <2>2. ~(Len(run.answers) + 1 <= Len(run.claims))
      <3>1. ASSUME Len(run.answers) + 1 <= Len(run.claims)
            PROVE  FALSE
        <4>1. Len(run.answers) + 1 \in (Len(run.answers) + 1)..Len(run.claims)
          BY <2>1, <3>1
        <4> QED
          BY <1>0, <4>1 DEF Unanswered
      <3> QED
        BY <3>1
    <2> QED
      BY <2>1, <2>2
  <1>4. BatchInv' /\ PullInv'
    <2>1. \A i \in DOMAIN run.answers : Tells(run.answers[i], run.claims[i])'
      BY <1>0, <1>2 DEF ClientInv, BatchInv, Tells, Says, Kind
    <2> QED
      BY <1>0, <1>2, <1>3, <2>1 DEF ClientInv, BatchInv, PullInv, Claimed, store
  <1> QED
    BY <1>0, <1>2, <1>4, QuietStep

LEMMA ResendStep ==
  ASSUME ClientInv, Resend
  PROVE  ClientInv'
  <1>0. UNCHANGED <<log, store>> /\ late' = late \cup Unanswered /\ run.pc = "push"
        /\ run' = [run EXCEPT !.answers = << >>]
    BY DEF Resend
  <1>1. run \in RunType
    BY DEF ClientInv, TypeOK, RunType
  <1>2. /\ run' \in RunType /\ run'.pc = "push" /\ run'.claims = run.claims
        /\ run'.answers = << >>
    <2>1. << >> \in Seq(Answer)
      OBVIOUS
    <2> QED
      BY <1>0, <1>1, <2>1 DEF RunType
  <1>3. BatchInv' /\ PullInv'
    <2>1. Len(<< >>) = 0 /\ DOMAIN << >> = {} /\ Len(run.claims) \in Nat
      BY <1>1 DEF RunType
    <2> QED
      BY <1>0, <1>2, <2>1 DEF ClientInv, BatchInv, PullInv, Claimed, store
  <1> QED
    BY <1>0, <1>2, <1>3, QuietStep

----------------------------------------------------------------------------

(***************************************************************************)
(* The steps that only move leases: every row keeps its mutation, and what *)
(* is claimed stays claimed.                                               *)
(***************************************************************************)

SameRows ==
  /\ \A new \in outbox' : new \in Row
  /\ \A a, b \in outbox' : a.m.id = b.m.id => a = b
  /\ \A row \in outbox : \E new \in outbox' : new.m = row.m /\ (Claimed(row) => Claimed(new))
  /\ \A new \in outbox' : \E row \in outbox :
       new.m = row.m /\ (Claimed(new) => Claimed(row) \/ Oldest(row))

LEMMA SentWithSameRows ==
  ASSUME SameRows, UNCHANGED receipts, NEW m, Sent(m)
  PROVE  Sent(m)'
  BY DEF SameRows, Sent, Answered, Claimed

LEMMA TablesWithSameRows ==
  ASSUME TypeOK, TableInv, SameRows,
         UNCHANGED <<log, writes, local, receipts, conflicts, position>>
  PROVE  TableInv'
  <1>1. HistoryInv'
    BY DEF TableInv, HistoryInv, SoundEntry, InOrder
  <1>2. RowInv'
    <2>1. ASSUME NEW new \in outbox'
          PROVE  /\ new.m.id <= writes
                 /\ ~Answered(new.m.id)
                 /\ Claimed(new) => \A other \in outbox' :
                      other.m.record = new.m.record => new.m.id <= other.m.id
      <3>1. PICK row \in outbox : /\ new.m = row.m
                                  /\ Claimed(new) => Claimed(row) \/ Oldest(row)
        BY <2>1 DEF SameRows
      <3>2. row.m.id <= writes /\ ~Answered(row.m.id) /\ (Claimed(row) => Oldest(row))
        BY DEF TableInv, RowInv
      <3>3. ASSUME Claimed(new), NEW other \in outbox', other.m.record = new.m.record
            PROVE  new.m.id <= other.m.id
        <4>1. PICK old \in outbox : old.m = other.m
          BY <3>3 DEF SameRows
        <4>2. Oldest(row)
          BY <3>1, <3>2, <3>3
        <4> QED
          BY <3>1, <3>3, <4>1, <4>2 DEF Oldest, RowsOf
      <3> QED
        BY <3>1, <3>2, <3>3
    <2> QED
      BY <2>1 DEF RowInv, Answered, Claimed, Oldest, RowsOf
  <1>3. ReceiptInv'
    BY DEF TableInv, ReceiptInv, Tells, Says, Kind
  <1>4. DecidedInv'
    <2>1. ASSUME NEW i \in DOMAIN log, log[i].id # 0
          PROVE  SentAs(i)'
      <3>1. SentAs(i)
        BY <2>1 DEF TableInv, DecidedInv
      <3>2. CASE Answered(log[i].id)
        BY <3>2 DEF SentAs, Answered
      <3>3. ASSUME NEW row \in outbox, row.m.id = log[i].id, Says(i, row.m), Claimed(row)
            PROVE  SentAs(i)'
        <4>1. PICK new \in outbox' : new.m = row.m /\ Claimed(new)
          BY <3>3 DEF SameRows
        <4> QED
          BY <3>3, <4>1 DEF SentAs, Says, Kind, Claimed
      <3> QED
        BY <3>1, <3>2, <3>3 DEF SentAs
    <2> QED
      BY <2>1 DEF DecidedInv
  <1>5. AbsentInv'
    BY DEF TableInv, AbsentInv, Present, SameRows
  <1>6. VersionInv'
    BY DEF TableInv, VersionInv, Present, Bounds, Given
  <1>7. WriteInv'
    <2>1. ASSUME NEW r \in Records, local[r].content > 0, ~Answered(local[r].content)
          PROVE  \E new \in outbox' : /\ new.m.id = local[r].content /\ new.m.record = r
                                      /\ \A other \in outbox' :
                                           other.m.record = new.m.record
                                             => other.m.id <= new.m.id
      <3>1. PICK row \in outbox : row.m.id = local[r].content /\ row.m.record = r /\ Newest(row)
        BY <2>1 DEF TableInv, WriteInv
      <3>2. PICK new \in outbox' : new.m = row.m
        BY DEF SameRows
      <3>3. ASSUME NEW other \in outbox', other.m.record = new.m.record
            PROVE  other.m.id <= new.m.id
        <4>1. PICK old \in outbox : old.m = other.m
          BY DEF SameRows
        <4> QED
          BY <3>1, <3>2, <3>3, <4>1 DEF Newest
      <3> QED
        BY <3>1, <3>2, <3>3
    <2> QED
      BY <2>1 DEF WriteInv, Answered, Newest
  <1> QED
    BY <1>1, <1>2, <1>3, <1>4, <1>5, <1>6, <1>7 DEF TableInv

LEMMA TypesWithSameRows ==
  ASSUME TypeOK, SameRows, late' \subseteq Mutation, run' \in RunType,
         UNCHANGED <<log, writes, local, receipts, conflicts, position>>
  PROVE  TypeOK'
  <1>1. outbox' \subseteq Row /\ \A row \in outbox' : RowOf(row.m.id)' = {row}
    BY DEF SameRows, RowOf
  <1>2. receipts' \subseteq Receipt /\ \A rec \in receipts' : ReceiptOf(rec.m.id)' = {rec}
    BY DEF TypeOK, ReceiptOf
  <1> QED
    BY <1>1, <1>2 DEF TypeOK, RunType

\* What becomes of the invariant when leases move: the batch and the pull are
\* what is left to show.
LEMMA LeaseStep ==
  ASSUME ClientInv, SameRows, UNCHANGED <<log, writes, local, receipts, conflicts, position>>,
         late' = late \/ (run.pc = "push" /\ late' = late \cup Unanswered),
         run' \in RunType, BatchInv', PullInv'
  PROVE  ClientInv'
  <1> USE DEF ClientInv
  <1>1. \A m \in late' : m \in Mutation /\ Sent(m) /\ Reached(m.record, m.base)
    <2>1. \A m \in late : m \in Mutation /\ Sent(m) /\ Reached(m.record, m.base)
      BY DEF TypeOK, LateInv
    <2> QED
      BY <2>1, UnansweredIsSent
  <1>2. TypeOK'
    <2>1. late' \subseteq Mutation
      BY <1>1
    <2> QED
      BY <2>1, TypesWithSameRows
  <1>3. TableInv'
    BY TablesWithSameRows
  <1>4. LateInv'
    <2>1. \A m \in late' : Sent(m)'
      BY <1>1, SentWithSameRows
    <2>2. \A m \in late' : Reached(m.record, m.base)'
      BY <1>1 DEF Reached
    <2> QED
      BY <2>1, <2>2 DEF LateInv
  <1> QED
    BY <1>2, <1>3, <1>4

\* MarkSyncOutboxRetry keeps every row and every claim.
LEMMA RetriedRows ==
  ASSUME TypeOK, NEW ms, NEW wait \in 0..1, outbox' = Retried(ms, wait)
  PROVE  /\ SameRows
         /\ \A new \in outbox' : \E row \in outbox :
              new.m = row.m /\ (Claimed(new) <=> Claimed(row))
  <1> DEFINE F(row) == IF row.m \in ms /\ Held(row)
                         THEN [row EXCEPT !.wait = wait, !.lease = 0] ELSE row
  <1>1. ASSUME NEW row \in Row
        PROVE  F(row) \in Row /\ F(row).m = row.m /\ (Claimed(F(row)) <=> Claimed(row))
    <2>1. 0 \in Unclaimed..Lease /\ 0 # Unclaimed
      BY ClientAssumption DEF Unclaimed
    <2>2. [row EXCEPT !.wait = wait, !.lease = 0] \in Row
            /\ [row EXCEPT !.wait = wait, !.lease = 0].m = row.m
            /\ [row EXCEPT !.wait = wait, !.lease = 0].lease = 0
      BY <1>1, <2>1 DEF Row
    <2>3. Held(row) => row.lease # Unclaimed
      BY ClientAssumption, RowFields DEF Held, Unclaimed
    <2> QED
      BY <2>1, <2>2, <2>3 DEF Claimed
  <1> HIDE DEF F
  <1>2. outbox' = {F(row) : row \in outbox}
    BY DEF Retried, F
  <1>3. \A row \in outbox : row \in Row
    BY OneRow
  <1>4. \A a, b \in outbox' : a.m.id = b.m.id => a = b
    BY <1>1, <1>2, <1>3, OneRow
  <1> QED
    BY <1>1, <1>2, <1>3, <1>4 DEF SameRows

LEMMA LoseStep ==
  ASSUME ClientInv, LoseAnswers
  PROVE  ClientInv'
  <1>1. SameRows
    BY RetriedRows DEF LoseAnswers, ClientInv
  <1>2. run' \in RunType /\ BatchInv' /\ PullInv'
    BY IdleRun DEF LoseAnswers
  <1> QED
    BY <1>1, <1>2, LeaseStep DEF LoseAnswers

LEMMA GiveUpStep ==
  ASSUME ClientInv, GiveUp
  PROVE  ClientInv'
  <1>1. SameRows
    BY RetriedRows DEF GiveUp, ClientInv
  <1>2. run' \in RunType /\ BatchInv' /\ PullInv'
    BY IdleRun DEF GiveUp
  <1> QED
    BY <1>1, <1>2, LeaseStep DEF GiveUp, server

LEMMA TickStep ==
  ASSUME ClientInv, Tick
  PROVE  ClientInv'
  <1> DEFINE F(row) == [row EXCEPT !.wait = 0,
                                   !.lease = IF Held(row) THEN row.lease - 1 ELSE row.lease]
  <1>1. ASSUME NEW row \in Row
        PROVE  F(row) \in Row /\ F(row).m = row.m /\ (Claimed(F(row)) <=> Claimed(row))
    <2>1. PICK left : left = IF Held(row) THEN row.lease - 1 ELSE row.lease
      OBVIOUS
    <2>2. left \in Unclaimed..Lease /\ (left # Unclaimed <=> row.lease # Unclaimed)
      BY <2>1, ClientAssumption, RowFields DEF Held, Unclaimed
    <2>3. PICK wait \in 0..1 : wait = 0
      OBVIOUS
    <2>4. F(row) = [row EXCEPT !.wait = wait, !.lease = left]
      BY <2>1, <2>3
    <2>5. [row EXCEPT !.wait = wait, !.lease = left] \in Row
            /\ [row EXCEPT !.wait = wait, !.lease = left].m = row.m
            /\ [row EXCEPT !.wait = wait, !.lease = left].lease = left
      BY <1>1, <2>2 DEF Row
    <2> QED
      BY <2>2, <2>4, <2>5 DEF Claimed
  <1> HIDE DEF F
  <1>2. outbox' = {F(row) : row \in outbox}
    BY DEF Tick, F
  <1>3. TypeOK /\ \A row \in outbox : row \in Row
    BY OneRow DEF ClientInv
  <1>4. SameRows /\ \A new \in outbox' : \E row \in outbox : Claimed(new) <=> Claimed(row)
    <2>1. \A a, b \in outbox' : a.m.id = b.m.id => a = b
      BY <1>1, <1>2, <1>3, OneRow
    <2> QED
      BY <1>1, <1>2, <1>3, <2>1 DEF SameRows
  <1>5. UNCHANGED <<log, late, writes, local, receipts, conflicts, position, run>>
    BY DEF Tick, server
  <1>6. run' \in RunType
    BY <1>3, <1>5 DEF TypeOK, RunType
  <1>7. BatchInv'
    <2>1. \A m : (\E row \in outbox : row.m = m /\ Claimed(row))
            => \E row \in outbox' : row.m = m /\ Claimed(row)
      BY <1>4 DEF SameRows
    <2>2. BatchInv
      BY DEF ClientInv
    <2>3. CASE run.pc \in {"push", "apply"}
      <3>1. \A i \in DOMAIN run.answers : Tells(run.answers[i], run.claims[i])'
        BY <1>5, <2>2, <2>3 DEF BatchInv, Tells, Says, Kind
      <3>2. \A i \in DOMAIN run.claims :
              /\ \E row \in outbox' : row.m = run.claims[i] /\ Claimed(row)
              /\ local[run.claims[i].record].version = run.claims[i].base
        BY <2>1, <2>2, <2>3 DEF BatchInv
      <3> QED
        BY <1>5, <2>2, <2>3, <3>1, <3>2 DEF BatchInv, Claimed
    <2>4. CASE run.pc \notin {"push", "apply"}
      BY <1>5, <2>2, <2>4 DEF BatchInv
    <2> QED
      BY <2>3, <2>4
  <1>8. PullInv'
    BY <1>4, <1>5 DEF ClientInv, PullInv, Claimed
  <1> QED
    BY <1>4, <1>5, <1>6, <1>7, <1>8, LeaseStep

----------------------------------------------------------------------------

(***************************************************************************)
(* The claim.                                                              *)
(***************************************************************************)

\* Of mutations with their own ids, every rank below their number is taken.
LEMMA RankTaken ==
  ASSUME NEW ms \in SUBSET Mutation, IsFiniteSet(ms),
         \A a, b \in ms : a.id = b.id => a = b,
         NEW k \in Nat, k < Cardinality(ms)
  PROVE  \E m \in ms : Rank(m, ms) = k
  <1> DEFINE Before(m) == {other \in ms : other.id < m.id}
             ranks == 0..(Cardinality(ms) - 1)
             f == [m \in ms |-> Rank(m, ms)]
  <1>1. \A m \in ms : m.id \in Nat
    BY MutationFields
  <1>2. Cardinality(ms) \in Nat
    BY FS_CardinalityType
  <1>3. \A m \in ms : /\ Rank(m, ms) = Cardinality(Before(m))
                      /\ IsFiniteSet(Before(m)) /\ Cardinality(Before(m)) \in Nat
    BY FS_Subset, FS_CardinalityType DEF Rank
  <1>4. ASSUME NEW m \in ms
        PROVE  Rank(m, ms) \in ranks
    <2>1. Before(m) \subseteq ms /\ m \notin Before(m)
      BY <1>1, <1>4
    <2>2. Before(m) # ms
      BY <1>4, <2>1
    <2>3. Cardinality(Before(m)) <= Cardinality(ms) /\ Cardinality(Before(m)) # Cardinality(ms)
      BY <2>1, <2>2, FS_Subset
    <2> QED
      BY <1>2, <1>3, <1>4, <2>3
  <1>5. ASSUME NEW a \in ms, NEW b \in ms, a.id < b.id
        PROVE  Rank(a, ms) # Rank(b, ms)
    <2>1. Before(a) \subseteq Before(b)
      <3>1. \A x \in ms : x.id < a.id => x.id < b.id
        BY <1>1, <1>5
      <3> QED
        BY <3>1
    <2>2. a \in Before(b) /\ a \notin Before(a)
      BY <1>1, <1>5
    <2>3. Cardinality(Before(a)) # Cardinality(Before(b))
      BY <1>3, <1>5, <2>1, <2>2, FS_Subset
    <2> QED
      BY <1>3, <1>5, <2>3
  <1>6. f \in Injection(ms, ranks)
    <2>1. f \in [ms -> ranks]
      BY <1>4
    <2>2. ASSUME NEW a \in ms, NEW b \in ms, f[a] = f[b]
          PROVE  a = b
      <3>1. Rank(a, ms) = Rank(b, ms)
        BY <2>2
      <3>2. ~(a.id < b.id) /\ ~(b.id < a.id)
        BY <1>5, <3>1
      <3>3. a.id \in Nat /\ b.id \in Nat
        BY <1>1
      <3> QED
        BY <3>2, <3>3
    <2> QED
      BY <2>1, <2>2 DEF Injection, IsInjective
  <1>7. IsFiniteSet(ranks) /\ Cardinality(ranks) = Cardinality(ms)
    <2>1. 0 \in Int /\ Cardinality(ms) - 1 \in Int
      BY <1>2
    <2>2. /\ IsFiniteSet(0..(Cardinality(ms) - 1))
          /\ Cardinality(0..(Cardinality(ms) - 1))
               = IF 0 > Cardinality(ms) - 1 THEN 0 ELSE Cardinality(ms) - 1 - 0 + 1
      BY <2>1, FS_Interval
    <2> QED
      BY <1>2, <2>2
  <1>8. f \in Surjection(ms, ranks)
    BY <1>6, <1>7, FS_Injection
  <1>9. k \in ranks
    BY <1>2
  <1>10. PICK m \in ms : f[m] = k
    BY <1>8, <1>9 DEF Surjection
  <1> QED
    BY <1>10

LEMMA FirstOfIs ==
  ASSUME NEW ms \in SUBSET Mutation, IsFiniteSet(ms),
         \A a, b \in ms : a.id = b.id => a = b
  PROVE  /\ FirstOf(ms) \in Seq(Mutation)
         /\ \A i \in DOMAIN FirstOf(ms) : FirstOf(ms)[i] \in ms
         /\ \A i, j \in DOMAIN FirstOf(ms) : FirstOf(ms)[i] = FirstOf(ms)[j] => i = j
  <1>1. PICK n : n = IF Cardinality(ms) < BatchSize THEN Cardinality(ms) ELSE BatchSize
    OBVIOUS
  <1>2. n \in Nat /\ n <= Cardinality(ms) /\ Cardinality(ms) \in Nat
    BY <1>1, FS_CardinalityType, ClientAssumption
  <1>3. FirstOf(ms) = [i \in 1..n |-> CHOOSE m \in ms : Rank(m, ms) = i - 1]
    BY <1>1 DEF FirstOf
  <1>4. ASSUME NEW i \in 1..n
        PROVE  FirstOf(ms)[i] \in ms /\ Rank(FirstOf(ms)[i], ms) = i - 1
    <2>1. i - 1 \in Nat /\ i - 1 < Cardinality(ms)
      BY <1>2, <1>4
    <2>2. \E m \in ms : Rank(m, ms) = i - 1
      BY <2>1, RankTaken
    <2>3. FirstOf(ms)[i] = CHOOSE m \in ms : Rank(m, ms) = i - 1
      BY <1>3, <1>4
    <2> QED
      BY <2>2, <2>3
  <1>5. DOMAIN FirstOf(ms) = 1..n
    BY <1>3
  <1>6. FirstOf(ms) \in Seq(Mutation)
    <2>1. FirstOf(ms) \in [1..n -> Mutation]
      <3>1. \A i \in 1..n : (CHOOSE m \in ms : Rank(m, ms) = i - 1) \in Mutation
        BY <1>3, <1>4
      <3> QED
        BY <1>3, <3>1
    <2> QED
      BY <1>2, <2>1
  <1>7. ASSUME NEW i \in 1..n, NEW j \in 1..n, FirstOf(ms)[i] = FirstOf(ms)[j]
        PROVE  i = j
    <2>1. i - 1 = j - 1
      BY <1>4, <1>7
    <2> QED
      BY <1>7, <2>1
  <1> QED
    BY <1>4, <1>5, <1>6, <1>7

\* There are at most as many mutations as there were writes.
LEMMA MutationsAreFinite ==
  ASSUME TypeOK, NEW rows \in SUBSET outbox
  PROVE  IsFiniteSet({row.m : row \in rows})
  <1> DEFINE ms == {row.m : row \in rows}
             f == [m \in ms |-> m.id]
  <1>1. ms \subseteq Mutation /\ \A m \in ms : m.id \in 1..MaxWrites
    BY OneRow, RowFields, MutationFields
  <1>2. \A a, b \in ms : a.id = b.id => a = b
    BY OneRow
  <1> HIDE DEF ms
  <1>3. f \in Injection(ms, 1..MaxWrites)
    <2>1. f \in [ms -> 1..MaxWrites]
      BY <1>1
    <2>2. \A a, b \in ms : f[a] = f[b] => a = b
      BY <1>2
    <2> QED
      BY <2>1, <2>2 DEF Injection, IsInjective
  <1>4. IsFiniteSet(1..MaxWrites)
    BY FS_Interval, ClientAssumption
  <1>5. IsFiniteSet(ms)
    BY <1>3, <1>4, FS_Injection
  <1> QED
    BY <1>5 DEF ms

LEMMA ClaimStep ==
  ASSUME ClientInv, ClaimDueSyncOutbox
  PROVE  ClientInv'
  <1>1. PICK due : due = {row \in outbox : Claimable(row)}
    OBVIOUS
  <1>2. PICK claims : claims = FirstOf({row.m : row \in due})
    OBVIOUS
  <1>3. PICK taken : taken = {row \in due : \E i \in DOMAIN claims : claims[i] = row.m}
    OBVIOUS
  <1>4. /\ outbox' = (outbox \ taken) \cup {[row EXCEPT !.lease = Lease] : row \in taken}
        /\ run' = [Idle EXCEPT !.pc = IF claims = << >> THEN "check" ELSE "push",
                               !.claims = claims]
        /\ UNCHANGED <<log, late, writes, local, receipts, conflicts, position>>
    BY <1>1, <1>2, <1>3 DEF ClaimDueSyncOutbox, server
  <1>5. TypeOK
    BY DEF ClientInv
  <1>6. \A row \in due : /\ row \in outbox /\ row \in Row /\ Oldest(row)
                         /\ row.m.base = local[row.m.record].version
    BY <1>1, <1>5, OneRow DEF Claimable
  <1>7. /\ claims \in Seq(Mutation)
        /\ \A i \in DOMAIN claims : \E row \in due : row.m = claims[i]
        /\ \A i, j \in DOMAIN claims : claims[i] = claims[j] => i = j
    <2>1. PICK ms : ms = {row.m : row \in due}
      OBVIOUS
    <2>2. ms \in SUBSET Mutation /\ IsFiniteSet(ms)
      BY <1>5, <1>6, <2>1, RowFields, MutationsAreFinite
    <2>3. \A a, b \in ms : a.id = b.id => a = b
      BY <1>5, <1>6, <2>1, OneRow
    <2>4. claims = FirstOf(ms)
      BY <1>2, <2>1
    <2>5. /\ claims \in Seq(Mutation)
          /\ \A i \in DOMAIN claims : claims[i] \in ms
          /\ \A i, j \in DOMAIN claims : claims[i] = claims[j] => i = j
      BY <2>2, <2>3, <2>4, FirstOfIs
    <2> QED
      BY <2>1, <2>5
  <1>8. ASSUME NEW row \in Row
        PROVE  /\ [row EXCEPT !.lease = Lease] \in Row
               /\ [row EXCEPT !.lease = Lease].m = row.m
               /\ Claimed([row EXCEPT !.lease = Lease])
    <2>1. Lease \in Unclaimed..Lease /\ Lease # Unclaimed
      BY ClientAssumption DEF Unclaimed
    <2>2. /\ [row EXCEPT !.lease = Lease] \in Row
          /\ [row EXCEPT !.lease = Lease].m = row.m
          /\ [row EXCEPT !.lease = Lease].lease = Lease
      BY <1>8, <2>1 DEF Row
    <2> QED
      BY <2>1, <2>2 DEF Claimed
  <1>9. taken \subseteq due
    BY <1>3
  <1>10. SameRows
    <2>1. ASSUME NEW new \in outbox'
          PROVE  /\ new \in Row
                 /\ \E row \in outbox : /\ new.m = row.m
                                        /\ row \in taken \/ new = row
                                        /\ Claimed(new) => Claimed(row) \/ Oldest(row)
      <3>1. CASE new \in outbox \ taken
        BY <1>5, <3>1, OneRow
      <3>2. ASSUME NEW row \in taken, new = [row EXCEPT !.lease = Lease]
            PROVE  /\ new \in Row
                   /\ \E old \in outbox : /\ new.m = old.m
                                          /\ old \in taken \/ new = old
                                          /\ Claimed(new) => Claimed(old) \/ Oldest(old)
        BY <1>6, <1>8, <1>9, <3>2
      <3> QED
        BY <1>4, <2>1, <3>1, <3>2
    <2>2. ASSUME NEW a \in outbox', NEW b \in outbox', a.m.id = b.m.id
          PROVE  a = b
      <3>1. CASE a \in outbox \ taken /\ b \in outbox \ taken
        BY <1>5, <2>2, <3>1, OneRow
      <3>2. ASSUME NEW x \in taken, NEW y \in outbox \ taken
            PROVE  [x EXCEPT !.lease = Lease].m.id # y.m.id
        <4>1. x \in Row /\ x \in outbox /\ x # y
          BY <1>6, <1>9, <3>2
        <4>2. [x EXCEPT !.lease = Lease].m = x.m
          BY <1>8, <4>1
        <4> QED
          BY <1>5, <3>2, <4>1, <4>2, OneRow
      <3>3. ASSUME NEW x \in taken, NEW y \in taken,
                   [x EXCEPT !.lease = Lease].m.id = [y EXCEPT !.lease = Lease].m.id
            PROVE  x = y
        <4>1. x \in Row /\ x \in outbox /\ y \in Row /\ y \in outbox
          BY <1>6, <1>9, <3>3
        <4>2. [x EXCEPT !.lease = Lease].m = x.m /\ [y EXCEPT !.lease = Lease].m = y.m
          BY <1>8, <4>1
        <4> QED
          BY <1>5, <3>3, <4>1, <4>2, OneRow
      <3> QED
        BY <1>4, <2>2, <3>1, <3>2, <3>3
    <2>3. ASSUME NEW row \in outbox
          PROVE  \E new \in outbox' : new.m = row.m /\ (Claimed(row) => Claimed(new))
      <3>1. CASE row \in taken
        <4>1. [row EXCEPT !.lease = Lease] \in outbox'
          BY <1>4, <3>1
        <4> QED
          BY <1>5, <1>8, <4>1, OneRow
      <3>2. CASE row \notin taken
        BY <1>4, <3>2
      <3> QED
        BY <3>1, <3>2
    <2> QED
      BY <2>1, <2>2, <2>3 DEF SameRows
  <1>11. run' \in RunType /\ BatchInv' /\ PullInv'
    <2>1. CASE claims = << >>
      <3>1. ASSUME NEW x \in RunType, x.claims = << >>
            PROVE  [x EXCEPT !.pc = "check", !.claims = << >>] = [x EXCEPT !.pc = "check"]
        BY <3>1 DEF RunType
      <3>2. Idle \in RunType /\ Idle.claims = << >>
        <4>1. << >> \in Seq(Mutation) /\ << >> \in Seq(Answer)
          OBVIOUS
        <4> QED
          BY <4>1 DEF Idle, RunType
      <3>3. run' = [Idle EXCEPT !.pc = "check"]
        BY <1>4, <2>1, <3>1, <3>2
      <3> QED
        BY <3>3, EmptyRun
    <2>2. CASE claims # << >>
      <3>1. /\ run' \in RunType /\ run'.pc = "push" /\ run'.claims = claims
            /\ run'.answers = << >>
        <4>1. /\ Idle \in RunType /\ Idle.answers = << >>
          <5>1. << >> \in Seq(Mutation) /\ << >> \in Seq(Answer)
            OBVIOUS
          <5> QED
            BY <5>1 DEF Idle, RunType
        <4>2. ASSUME NEW x \in RunType
              PROVE  /\ [x EXCEPT !.pc = "push", !.claims = claims] \in RunType
                     /\ [x EXCEPT !.pc = "push", !.claims = claims].pc = "push"
                     /\ [x EXCEPT !.pc = "push", !.claims = claims].claims = claims
                     /\ [x EXCEPT !.pc = "push", !.claims = claims].answers = x.answers
          BY <1>7, <4>2 DEF RunType
        <4>3. run' = [Idle EXCEPT !.pc = "push", !.claims = claims]
          BY <1>4, <2>2
        <4> QED
          BY <4>1, <4>2, <4>3
      <3>2. ASSUME NEW i \in DOMAIN claims
            PROVE  /\ \E row \in outbox' : row.m = claims[i] /\ Claimed(row)
                   /\ local[claims[i].record].version = claims[i].base
        <4>1. PICK row \in due : row.m = claims[i]
          BY <1>7
        <4>2. row \in taken
          BY <1>3, <4>1
        <4>3. [row EXCEPT !.lease = Lease] \in outbox'
          BY <1>4, <4>2
        <4> QED
          BY <1>6, <1>8, <4>1, <4>3
      <3>3. ASSUME NEW i \in DOMAIN claims, NEW j \in DOMAIN claims,
                   claims[i].record = claims[j].record
            PROVE  i = j
        <4>1. PICK a \in due : a.m = claims[i]
          BY <1>7
        <4>2. PICK b \in due : b.m = claims[j]
          BY <1>7
        <4>3. a.m.id <= b.m.id /\ b.m.id <= a.m.id
          BY <1>6, <3>3, <4>1, <4>2 DEF Oldest, RowsOf
        <4>4. a.m.id = b.m.id
          BY <1>6, <4>3, RowFields
        <4>5. a = b
          BY <1>5, <1>6, <4>4, OneRow
        <4> QED
          BY <1>7, <4>1, <4>2, <4>5
      <3>4. Len(run'.answers) <= Len(claims) /\ DOMAIN run'.answers = {}
        <4>1. Len(<< >>) = 0 /\ DOMAIN << >> = {} /\ Len(claims) \in Nat
          BY <1>7
        <4> QED
          BY <3>1, <4>1
      <3>5. \A i \in DOMAIN run'.claims :
              /\ \E row \in outbox' : row.m = run'.claims[i] /\ Claimed(row)
              /\ local'[run'.claims[i].record].version = run'.claims[i].base
        BY <1>4, <3>1, <3>2
      <3>6. BatchInv'
        BY <2>2, <3>1, <3>3, <3>4, <3>5 DEF BatchInv, Claimed
      <3> QED
        BY <3>1, <3>6 DEF PullInv
    <2> QED
      BY <2>1, <2>2
  <1> QED
    BY <1>4, <1>10, <1>11, LeaseStep

----------------------------------------------------------------------------

(***************************************************************************)
(* The local writes.                                                       *)
(***************************************************************************)

LEMMA EnqueueStep ==
  ASSUME ClientInv, NEW r \in Records, NEW archived \in BOOLEAN,
         writes < MaxWrites, ~Present(r) => EntriesOf(r) = {}, Enqueue(r, archived)
  PROVE  ClientInv'
  <1>1. PICK id : id = writes + 1
    OBVIOUS
  <1>2. PICK v : v = IF Present(r) THEN local[r].version ELSE 0
    OBVIOUS
  <1>3. PICK m : m = [id |-> id, record |-> r, base |-> v, archived |-> archived]
    OBVIOUS
  <1>4. PICK new : new = [m |-> m, wait |-> 0, lease |-> Unclaimed]
    OBVIOUS
  <1>5. PICK state \in {"active", "archived"} : state = IF archived THEN "archived" ELSE "active"
    OBVIOUS
  <1>6. PICK here : here = [state |-> state, version |-> v, content |-> id]
    OBVIOUS
  <1>7. /\ writes' = id /\ outbox' = outbox \cup {new} /\ local' = [local EXCEPT ![r] = here]
        /\ UNCHANGED <<log, late, receipts, conflicts, position, run>>
    BY <1>1, <1>2, <1>3, <1>4, <1>5, <1>6 DEF Enqueue, server
  <1>8. TypeOK /\ TableInv /\ LateInv /\ BatchInv /\ PullInv
    BY DEF ClientInv
  <1>9. /\ writes \in Nat /\ id \in Nat /\ id \in 1..MaxWrites /\ id > writes /\ id > 0
    BY <1>1, <1>8, ClientAssumption DEF TypeOK
  <1>10. v = local[r].version /\ v \in 0..MaxLog /\ v \in Nat
    BY <1>2, <1>8, LocalFields, ClientAssumption DEF TableInv, AbsentInv
  <1>11. /\ m \in Mutation /\ m.id = id /\ m.record = r /\ m.base = v
    BY <1>3, <1>9, <1>10 DEF Mutation, Writes
  <1>12. /\ new \in Row /\ new.m = m /\ ~Claimed(new)
    <2>1. Unclaimed \in Unclaimed..Lease
      BY ClientAssumption DEF Unclaimed
    <2> QED
      BY <1>4, <1>11, <2>1 DEF Row, Claimed
  <1>13. /\ \A row \in outbox : /\ row \in Row /\ row.m.id \in Nat /\ row.m.id <= writes
                                /\ row.m.id < id /\ ~Answered(row.m.id)
         /\ \A rec \in receipts : rec \in Receipt /\ rec.m.id \in Nat /\ rec.m.id <= writes
                                  /\ rec.m.id < id
    <2>1. \A row \in outbox : row \in Row /\ row.m.id \in Nat /\ row.m.id <= writes
      BY <1>8, OneRow, RowFields DEF TableInv, RowInv
    <2>2. \A rec \in receipts : rec \in Receipt /\ rec.m.id \in Nat /\ rec.m.id <= writes
      BY <1>8, OneRow, ReceiptFields, MutationFields DEF TableInv, ReceiptInv
    <2> QED
      BY <1>8, <1>9, <2>1, <2>2 DEF TableInv, RowInv
  <1>14. ~Answered(id)
    BY <1>9, <1>13 DEF Answered
  <1>15. /\ local'[r] = here /\ here.state = state /\ here.version = v /\ here.content = id
         /\ \A s \in Records : s # r => local'[s] = local[s]
         /\ \A s \in Records : local'[s].version = local[s].version
    <2>1. here.state = state /\ here.version = v /\ here.content = id
      BY <1>6
    <2>2. local'[r] = here /\ \A s \in Records : s # r => local'[s] = local[s]
      BY <1>7, <1>8 DEF TypeOK
    <2> QED
      BY <1>10, <2>1, <2>2
  <1>16. TypeOK'
    <2>1. local' \in [Records -> [state : {"absent", "active", "archived", "tombstoned"},
                                  version : 0..MaxLog, content : -MaxLog..MaxWrites]]
      <3>1. here \in [state : {"absent", "active", "archived", "tombstoned"},
                      version : 0..MaxLog, content : -MaxLog..MaxWrites]
        <4>1. id \in -MaxLog..MaxWrites
          BY <1>9, ClientAssumption
        <4> QED
          BY <1>6, <1>10, <4>1
      <3> QED
        BY <1>7, <1>8, <3>1 DEF TypeOK
    <2>2. outbox' \subseteq Row /\ \A row \in outbox' : RowOf(row.m.id)' = {row}
      <3>1. \A a, b \in outbox' : a.m.id = b.m.id => a = b
        BY <1>7, <1>8, <1>9, <1>11, <1>12, <1>13, OneRow
      <3> QED
        BY <1>7, <1>12, <1>13, <3>1 DEF RowOf
    <2>3. receipts' \subseteq Receipt /\ \A rec \in receipts' : ReceiptOf(rec.m.id)' = {rec}
      BY <1>7, <1>8 DEF TypeOK, ReceiptOf
    <2>4. writes' \in 0..MaxWrites
      BY <1>7, <1>9
    <2> QED
      BY <1>7, <1>8, <2>1, <2>2, <2>3, <2>4 DEF TypeOK
  <1>17. HistoryInv'
    BY <1>7, <1>8 DEF TableInv, HistoryInv, SoundEntry, InOrder
  <1>18. RowInv'
    <2>1. ASSUME NEW row \in outbox, Claimed(row)
          PROVE  \A other \in outbox' : other.m.record = row.m.record => row.m.id <= other.m.id
      <3>1. Oldest(row)
        BY <1>8, <2>1 DEF TableInv, RowInv
      <3> QED
        BY <1>7, <1>9, <1>11, <1>12, <1>13, <3>1 DEF Oldest, RowsOf
    <2>2. \A row \in outbox' : row.m.id <= id /\ ~Answered(row.m.id)
      BY <1>7, <1>9, <1>11, <1>12, <1>13, <1>14
    <2> QED
      BY <1>7, <1>12, <2>1, <2>2 DEF RowInv, Oldest, RowsOf, Answered, Claimed
  <1>19. ReceiptInv'
    BY <1>7, <1>8, <1>13, <1>9 DEF TableInv, ReceiptInv, Tells, Says, Kind
  <1>20. DecidedInv'
    <2>1. ASSUME NEW i \in DOMAIN log, SentAs(i)
          PROVE  SentAs(i)'
      BY <1>7, <2>1 DEF SentAs, Answered, Says, Kind, Claimed
    <2> QED
      BY <1>7, <1>8, <2>1 DEF TableInv, DecidedInv
  <1>21. AbsentInv'
    <2>1. Present(r)'
      BY <1>15 DEF Present
    <2> QED
      BY <1>7, <1>8, <1>11, <1>12, <1>15, <2>1 DEF TableInv, AbsentInv, Present
  <1>22. VersionInv'
    <2>1. ASSUME NEW s \in Records, Bounds(s) /\ Given(s)
          PROVE  (Bounds(s) /\ Given(s))'
      BY <1>7, <1>15, <2>1 DEF Bounds, Given
    <2>2. CASE Present(r)
      BY <1>8, <1>15, <2>1, <2>2 DEF TableInv, VersionInv, Present
    <2>3. CASE ~Present(r)
      <3>1. \A i \in DOMAIN log : log[i].record # r
        BY <2>3 DEF EntriesOf
      <3>2. local[r].version = 0 /\ \A rec \in receipts : rec.m.record # r
        BY <1>8, <2>3 DEF TableInv, AbsentInv
      <3>3. Bounds(r) /\ Given(r)
        BY <3>1, <3>2 DEF Bounds, Given
      <3> QED
        BY <1>8, <1>15, <2>1, <3>3 DEF TableInv, VersionInv, Present
    <2> QED
      BY <2>2, <2>3
  <1>23. WriteInv'
    <2>1. ASSUME NEW s \in Records, s # r, local[s].content > 0, ~Answered(local[s].content)
          PROVE  \E row \in outbox' : /\ row.m.id = local[s].content /\ row.m.record = s
                                      /\ \A other \in outbox' :
                                           other.m.record = row.m.record
                                             => other.m.id <= row.m.id
      <3>1. PICK row \in outbox : row.m.id = local[s].content /\ row.m.record = s /\ Newest(row)
        BY <1>8, <2>1 DEF TableInv, WriteInv
      <3> QED
        BY <1>7, <1>11, <1>12, <2>1, <3>1 DEF Newest
    <2>2. /\ new \in outbox' /\ new.m.id = here.content /\ new.m.record = r
          /\ \A other \in outbox' : other.m.id <= new.m.id
      BY <1>7, <1>9, <1>11, <1>12, <1>13, <1>15
    <2>3. ASSUME NEW s \in Records, local'[s].content > 0
          PROVE  \/ Answered(local[s].content)'
                 \/ \E row \in outbox' : /\ row.m.id = local'[s].content /\ row.m.record = s
                                         /\ Newest(row)'
      <3>1. CASE s = r
        BY <1>15, <2>2, <3>1 DEF Newest
      <3>2. CASE s # r
        BY <1>7, <1>15, <2>1, <2>3, <3>2 DEF Newest, Answered
      <3> QED
        BY <3>1, <3>2
    <2> QED
      BY <2>3 DEF WriteInv
  <1>24. LateInv'
    BY <1>7, <1>8 DEF LateInv, Sent, Answered, Claimed, Reached
  <1>25. BatchInv' /\ PullInv'
    <2>1. \A n : (\E row \in outbox : row.m = n /\ Claimed(row))
                   => \E row \in outbox' : row.m = n /\ Claimed(row)
      BY <1>7
    <2>2. CASE run.pc \in {"push", "apply"}
      <3>1. \A i \in DOMAIN run.answers : Tells(run.answers[i], run.claims[i])'
        BY <1>7, <1>8, <2>2 DEF BatchInv, Tells, Says, Kind
      <3>2. \A i \in DOMAIN run.claims :
              /\ \E row \in outbox' : row.m = run.claims[i] /\ Claimed(row)
              /\ local'[run.claims[i].record].version = run.claims[i].base
        <4>1. \A i \in DOMAIN run.claims : run.claims[i].record \in Records
          BY <1>8, MutationFields DEF TypeOK
        <4> QED
          BY <1>8, <1>15, <2>1, <2>2, <4>1 DEF BatchInv
      <3> QED
        BY <1>7, <1>8, <2>2, <3>1, <3>2 DEF BatchInv, PullInv, Claimed
    <2>3. CASE run.pc \notin {"push", "apply"}
      BY <1>7, <1>8, <1>12, <2>3 DEF BatchInv, PullInv, Claimed
    <2> QED
      BY <2>2, <2>3
  <1> QED
    BY <1>16, <1>17, <1>18, <1>19, <1>20, <1>21, <1>22, <1>23, <1>24, <1>25
    DEF ClientInv, TableInv

LEMMA SaveStep ==
  ASSUME ClientInv, NEW r \in Records, Save(r)
  PROVE  ClientInv'
  BY EnqueueStep DEF Save

LEMMA ForgetStep ==
  ASSUME ClientInv, NEW r \in Records, Forget(r)
  PROVE  ClientInv'
  <1>1. Present(r)
    BY DEF Forget, Present
  <1> QED
    BY <1>1, EnqueueStep DEF Forget

----------------------------------------------------------------------------

(***************************************************************************)
(* The steps that take rows away: an answer, or a pulled resolution.       *)
(***************************************************************************)

Kin(a, b) == a.m.id = b.m.id /\ a.m.record = b.m.record

\* Rows go when they are answered or stood for by a newer one, which may get
\* another base; what is claimed is not touched.
FewerRows ==
  /\ \A rec \in receipts : rec \in receipts'
  /\ \A new \in outbox' :
       /\ new \in Row
       /\ \A rec \in receipts' : rec.m.id # new.m.id
       /\ \E row \in outbox : Kin(row, new) /\ (Claimed(new) => new = row)
  /\ \A a, b \in outbox' : a.m.id = b.m.id => a = b
  /\ \A row \in outbox : Claimed(row) =>
       row \in outbox' \/ \E rec \in receipts' : rec.m.id = row.m.id
  /\ \A row \in outbox : Newest(row) =>
       \/ \E new \in outbox' : Kin(row, new)
       \/ \E rec \in receipts' : rec.m.id = row.m.id

LEMMA SentWithFewerRows ==
  ASSUME FewerRows, NEW m, Sent(m)
  PROVE  Sent(m)'
  <1>1. CASE Answered(m.id)
    BY <1>1 DEF FewerRows, Sent, Answered
  <1>2. ASSUME NEW row \in outbox, row.m = m, Claimed(row)
        PROVE  Sent(m)'
    BY <1>2 DEF FewerRows, Sent, Answered, Claimed
  <1> QED
    BY <1>1, <1>2 DEF Sent

LEMMA LateWithFewerRows ==
  ASSUME LateInv, FewerRows, UNCHANGED <<log, late>>
  PROVE  LateInv'
  <1>1. \A m \in late : Sent(m)'
    BY SentWithFewerRows DEF LateInv
  <1>2. \A m \in late : Reached(m.record, m.base)'
    BY DEF LateInv, Reached
  <1> QED
    BY <1>1, <1>2 DEF LateInv

LEMMA RowsWithFewerRows ==
  ASSUME TypeOK, RowInv, FewerRows, UNCHANGED writes
  PROVE  RowInv'
  <1>1. ASSUME NEW new \in outbox'
        PROVE  /\ new.m.id <= writes
               /\ Claimed(new) => \A other \in outbox' :
                    other.m.record = new.m.record => new.m.id <= other.m.id
    <2>1. PICK row \in outbox : Kin(row, new) /\ (Claimed(new) => new = row)
      BY <1>1 DEF FewerRows
    <2>2. row.m.id <= writes /\ (Claimed(row) => Oldest(row))
      BY DEF RowInv
    <2>3. ASSUME Claimed(new), NEW other \in outbox', other.m.record = new.m.record
          PROVE  new.m.id <= other.m.id
      <3>1. PICK old \in outbox : Kin(old, other)
        BY <2>3 DEF FewerRows
      <3>2. Oldest(row)
        BY <2>1, <2>2, <2>3
      <3> QED
        BY <2>1, <2>3, <3>1, <3>2 DEF Oldest, RowsOf, Kin
    <2> QED
      BY <2>1, <2>2, <2>3 DEF Kin
  <1>2. \A new \in outbox' : ~Answered(new.m.id)'
    BY DEF FewerRows, Answered
  <1> QED
    BY <1>1, <1>2 DEF RowInv, Answered, Claimed, Oldest, RowsOf

LEMMA DecidedWithFewerRows ==
  ASSUME DecidedInv, FewerRows, UNCHANGED log
  PROVE  DecidedInv'
  <1>1. ASSUME NEW i \in DOMAIN log, log[i].id # 0
        PROVE  SentAs(i)'
    <2>1. SentAs(i)
      BY <1>1 DEF DecidedInv
    <2>2. CASE Answered(log[i].id)
      BY <2>2 DEF FewerRows, SentAs, Answered
    <2>3. ASSUME NEW row \in outbox, row.m.id = log[i].id, Says(i, row.m), Claimed(row)
          PROVE  SentAs(i)'
      <3>1. row \in outbox' \/ \E rec \in receipts' : rec.m.id = row.m.id
        BY <2>3 DEF FewerRows
      <3> QED
        BY <2>3, <3>1 DEF SentAs, Says, Kind, Claimed, Answered
    <2> QED
      BY <2>1, <2>2, <2>3 DEF SentAs
  <1> QED
    BY <1>1 DEF DecidedInv

\* A record whose content stays is still answered, or queued by its newest.
LEMMA WriteWithFewerRows ==
  ASSUME WriteInv, FewerRows, NEW r \in Records, local[r].content > 0
  PROVE  \/ \E rec \in receipts' : rec.m.id = local[r].content
         \/ \E row \in outbox' : /\ row.m.id = local[r].content /\ row.m.record = r
                                 /\ \A other \in outbox' :
                                      other.m.record = row.m.record => other.m.id <= row.m.id
  <1>1. CASE Answered(local[r].content)
    BY <1>1 DEF FewerRows, Answered
  <1>2. ASSUME NEW row \in outbox, row.m.id = local[r].content, row.m.record = r, Newest(row)
        PROVE  \/ \E rec \in receipts' : rec.m.id = local[r].content
               \/ \E new \in outbox' : /\ new.m.id = local[r].content /\ new.m.record = r
                                       /\ \A other \in outbox' :
                                            other.m.record = new.m.record
                                              => other.m.id <= new.m.id
    <2>1. CASE \E rec \in receipts' : rec.m.id = row.m.id
      BY <1>2, <2>1
    <2>2. ASSUME NEW new \in outbox', Kin(row, new)
          PROVE  \A other \in outbox' : other.m.record = new.m.record => other.m.id <= new.m.id
      <3>1. ASSUME NEW other \in outbox', other.m.record = new.m.record
            PROVE  other.m.id <= new.m.id
        <4>1. PICK old \in outbox : Kin(old, other)
          BY <3>1 DEF FewerRows
        <4> QED
          BY <1>2, <2>2, <3>1, <4>1 DEF Kin, Newest
      <3> QED
        BY <3>1
    <2> QED
      BY <1>2, <2>1, <2>2 DEF FewerRows, Kin
  <1> QED
    BY <1>1, <1>2 DEF WriteInv

\* The newest of the rows stands for all of them, with another base.
LEMMA RebasedIs ==
  ASSUME TypeOK, NEW rows \in SUBSET outbox, NEW version \in 0..MaxLog
  PROVE  /\ \A new \in Rebased(rows, version) :
              /\ new \in Row
              /\ \E row \in rows : Kin(row, new) /\ (Claimed(new) <=> Claimed(row))
         /\ \A a, b \in Rebased(rows, version) : a = b
         /\ \A row \in rows : (\A other \in rows : other.m.id <= row.m.id)
              => \E new \in Rebased(rows, version) : Kin(row, new)
  <1> DEFINE F(row) == [row EXCEPT !.m.base = version]
             last == {row \in rows : \A other \in rows : other.m.id <= row.m.id}
  <1>1. ASSUME NEW row \in Row
        PROVE  F(row) \in Row /\ Kin(row, F(row)) /\ (Claimed(F(row)) <=> Claimed(row))
    <2>1. F(row) \in Row /\ F(row).m.id = row.m.id /\ F(row).m.record = row.m.record
            /\ F(row).lease = row.lease
      BY <1>1 DEF Row, Mutation
    <2> QED
      BY <2>1 DEF Kin, Claimed
  <1>2. Rebased(rows, version) = {F(row) : row \in last}
    BY DEF Rebased
  <1> HIDE DEF F
  <1>3. \A row \in rows : row \in Row /\ row.m.id \in Nat
    BY OneRow, RowFields
  <1>4. \A a, b \in last : a = b
    <2>1. ASSUME NEW a \in last, NEW b \in last
          PROVE  a = b
      <3>1. a.m.id = b.m.id
        BY <1>3
      <3> QED
        BY <3>1, OneRow
    <2> QED
      BY <2>1
  <1> QED
    BY <1>1, <1>2, <1>3, <1>4

\* Rows of one record, none of them claimed, give way to the newest of them;
\* other rows go because they are answered.
LEMMA FoldIs ==
  ASSUME TypeOK, RowInv, NEW r, NEW gone \in SUBSET outbox, NEW rows \in SUBSET outbox,
         NEW version \in 0..MaxLog,
         outbox' = (outbox \ (gone \cup rows)) \cup Rebased(rows, version),
         gone \cap rows = {},
         \A rec \in receipts : rec \in receipts',
         \A rec \in receipts' : rec \in receipts \/ \E row \in gone : row.m.id = rec.m.id,
         \A row \in gone : \E rec \in receipts' : rec.m.id = row.m.id,
         \A row \in rows : row.m.record = r /\ ~Claimed(row)
  PROVE  FewerRows
  <1> DEFINE new0 == Rebased(rows, version)
  <1>1. /\ \A new \in new0 : /\ new \in Row
                             /\ \E row \in rows : Kin(row, new) /\ (Claimed(new) <=> Claimed(row))
        /\ \A a, b \in new0 : a = b
        /\ \A row \in rows : (\A other \in rows : other.m.id <= row.m.id)
             => \E new \in new0 : Kin(row, new)
    BY RebasedIs
  <1>2. outbox' = (outbox \ (gone \cup rows)) \cup new0
    OBVIOUS
  <1> HIDE DEF new0
  <1>3. /\ \A a, b \in outbox : a.m.id = b.m.id => a = b
        /\ \A row \in outbox : row \in Row /\ \A rec \in receipts : rec.m.id # row.m.id
    BY OneRow DEF RowInv, Answered
  <1>4. ASSUME NEW row \in outbox, row \notin gone
        PROVE  \A rec \in receipts' : rec.m.id # row.m.id
    BY <1>3, <1>4
  <1>5. ASSUME NEW new \in outbox'
        PROVE  /\ new \in Row
               /\ \A rec \in receipts' : rec.m.id # new.m.id
               /\ \E row \in outbox : Kin(row, new) /\ (Claimed(new) => new = row)
    <2>1. CASE new \in outbox \ (gone \cup rows)
      BY <1>3, <1>4, <2>1 DEF Kin
    <2>2. CASE new \in new0
      <3>1. PICK row \in rows : Kin(row, new) /\ (Claimed(new) <=> Claimed(row))
        BY <1>1, <2>2
      <3>2. ~Claimed(new) /\ row \in outbox /\ row \notin gone
        BY <3>1
      <3>3. new.m.id = row.m.id
        BY <3>1 DEF Kin
      <3> QED
        BY <1>1, <1>4, <2>2, <3>1, <3>2, <3>3
    <2> QED
      BY <1>2, <1>5, <2>1, <2>2
  <1>6. ASSUME NEW a \in outbox', NEW b \in outbox', a.m.id = b.m.id
        PROVE  a = b
    <2>1. CASE a \in new0 /\ b \in new0
      BY <1>1, <2>1
    <2>2. CASE a \in outbox \ (gone \cup rows) /\ b \in outbox \ (gone \cup rows)
      BY <1>3, <1>6, <2>2
    <2>3. ASSUME NEW x \in new0, NEW y \in outbox \ (gone \cup rows)
          PROVE  x.m.id # y.m.id
      <3>1. PICK row \in rows : Kin(row, x)
        BY <1>1
      <3>2. row \in outbox /\ row # y
        BY <3>1
      <3> QED
        BY <1>3, <3>1, <3>2 DEF Kin
    <2> QED
      BY <1>2, <1>6, <2>1, <2>2, <2>3
  <1>7. ASSUME NEW row \in outbox, Claimed(row)
        PROVE  row \in outbox' \/ \E rec \in receipts' : rec.m.id = row.m.id
    BY <1>2, <1>7
  <1>8. ASSUME NEW row \in outbox, Newest(row)
        PROVE  \/ \E new \in outbox' : Kin(row, new)
               \/ \E rec \in receipts' : rec.m.id = row.m.id
    <2>1. CASE row \in gone
      BY <2>1
    <2>2. CASE row \in rows
      <3>1. \A other \in rows : other.m.id <= row.m.id
        BY <1>8, <2>2 DEF Newest
      <3> QED
        BY <1>1, <1>2, <2>2, <3>1
    <2>3. CASE row \notin gone \cup rows
      BY <1>2, <2>3 DEF Kin
    <2> QED
      BY <2>1, <2>2, <2>3
  <1> QED
    BY <1>5, <1>6, <1>7, <1>8 DEF FewerRows

\* What Complete does to the tables.
LEMMA CompleteRows ==
  ASSUME TypeOK, RowInv, NEW m \in Mutation, NEW a \in Answer, Complete(m, a),
         \E row \in outbox : row.m = m,
         \A row \in Later(m) : a.disposition = "accepted" => ~Claimed(row)
  PROVE  FewerRows /\ \A row \in outbox' : row.m.id # m.id
  <1>1. PICK row0 \in outbox : row0.m = m
    OBVIOUS
  <1>2. RowOf(m.id) = {row0}
    BY <1>1 DEF TypeOK, RowOf
  <1>3. PICK later : later = IF a.disposition = "accepted" THEN Later(m) ELSE {}
    OBVIOUS
  <1>4. outbox' = (outbox \ ({row0} \cup later)) \cup Rebased(later, a.version)
    BY <1>2, <1>3 DEF Complete
  <1>5. m.id \in Nat
    BY MutationFields
  <1>6. /\ later \in SUBSET outbox /\ {row0} \cap later = {}
        /\ \A row \in later : row.m.record = m.record /\ ~Claimed(row)
    BY <1>1, <1>3, <1>5 DEF Later, RowsOf
  <1>7. a.version \in 0..MaxLog
    BY DEF Answer
  <1>8. receipts' = receipts \cup {[m |-> m, answer |-> a]}
    BY DEF Complete
  <1>9. PICK rec0 : rec0 = [m |-> m, answer |-> a]
    OBVIOUS
  <1>10. rec0.m.id = row0.m.id /\ receipts' = receipts \cup {rec0}
    BY <1>1, <1>8, <1>9
  <1>11. FewerRows
    <2>1. PICK gone : gone = {row0}
      OBVIOUS
    <2>2. PICK r : r = m.record
      OBVIOUS
    <2>3. outbox' = (outbox \ (gone \cup later)) \cup Rebased(later, a.version)
      BY <1>4, <2>1
    <2>4. /\ gone \in SUBSET outbox /\ gone \cap later = {}
          /\ \A rec \in receipts : rec \in receipts'
          /\ \A rec \in receipts' : rec \in receipts \/ \E row \in gone : row.m.id = rec.m.id
          /\ \A row \in gone : \E rec \in receipts' : rec.m.id = row.m.id
          /\ \A row \in later : row.m.record = r /\ ~Claimed(row)
      BY <1>1, <1>6, <1>10, <2>1, <2>2
    <2> QED
      BY <1>6, <1>7, <2>3, <2>4, FoldIs
  <1>12. \A row \in outbox' : row.m.id # m.id
    BY <1>1, <1>10, <1>11 DEF FewerRows
  <1> QED
    BY <1>11, <1>12

\* The first claim and its answer: what the service said, and it can be
\* recorded, for the version of a claimed record stays and its row is the
\* oldest.
LEMMA HeadIs ==
  ASSUME ClientInv, run.pc = "apply",
         NEW m, m = Head(run.claims), NEW a, a = Head(run.answers)
  PROVE  /\ m \in Mutation /\ a \in Answer /\ Tells(a, m)
         /\ \E row \in outbox : row.m = m /\ Claimed(row)
         /\ local[m.record].version = m.base
         /\ Len(run.claims) \in Nat /\ Len(run.claims) > 0
         /\ Len(run.answers) = Len(run.claims)
         /\ m = run.claims[1] /\ a = run.answers[1]
         /\ run.claims \in Seq(Mutation) /\ run.answers \in Seq(Answer)
  <1>1. run.claims \in Seq(Mutation) /\ run.answers \in Seq(Answer)
    BY DEF ClientInv, TypeOK
  <1>2. run.claims # << >> /\ Len(run.answers) = Len(run.claims)
    BY DEF ClientInv, BatchInv
  <1>3. Len(run.claims) \in Nat /\ Len(run.claims) > 0 /\ 1 \in DOMAIN run.claims
          /\ 1 \in DOMAIN run.answers
    BY <1>1, <1>2
  <1>4. m = run.claims[1] /\ a = run.answers[1] /\ m \in Mutation /\ a \in Answer
    BY <1>1, <1>2, <1>3
  <1>5. Tells(run.answers[1], run.claims[1])
    BY <1>3 DEF ClientInv, BatchInv
  <1>6. (\E row \in outbox : row.m = m /\ Claimed(row)) /\ local[m.record].version = m.base
    BY <1>3, <1>4 DEF ClientInv, BatchInv
  <1> QED
    BY <1>1, <1>2, <1>3, <1>4, <1>5, <1>6

LEMMA AnswerFields ==
  ASSUME NEW a \in Answer
  PROVE  /\ a.disposition \in {"accepted", "conflict", "rejected", "retry"}
         /\ a.version \in Nat /\ a.version \in 0..MaxLog /\ a.seq \in Nat
  BY ClientAssumption DEF Answer

LEMMA HeadSettles ==
  ASSUME ClientInv, run.pc = "apply",
         NEW m, m = Head(run.claims), NEW a, a = Head(run.answers)
  PROVE  /\ a.disposition = "retry" \/ Settles(m, a)
         /\ \A row \in Later(m) : ~Claimed(row)
  <1>1. /\ m \in Mutation /\ a \in Answer /\ Tells(a, m)
        /\ local[m.record].version = m.base
    BY HeadIs
  <1>2. PICK row0 \in outbox : row0.m = m /\ Claimed(row0)
    BY HeadIs
  <1>3. a.disposition = "retry" \/ Settles(m, a)
    <2>1. CASE a.disposition = "rejected"
      BY <2>1 DEF Settles
    <2>2. CASE a.disposition \in {"accepted", "conflict"}
      <3>1. /\ a.seq \in DOMAIN log /\ log[a.seq].base = m.base
            /\ log[a.seq].disposition = a.disposition /\ log[a.seq].version = a.version
        BY <1>1, <2>2 DEF Tells, Says
      <3>2. SoundEntry(a.seq)
        BY <3>1 DEF ClientInv, TableInv, HistoryInv
      <3>3. /\ m.base <= a.version
            /\ a.disposition = "accepted" => a.version = m.base + 1
        BY <3>1, <3>2 DEF SoundEntry
      <3> QED
        BY <1>1, <2>2, <3>3, AnswerFields, MutationFields DEF Settles
    <2> QED
      BY <1>1, <2>1, <2>2, AnswerFields
  <1>4. ASSUME NEW row \in Later(m), Claimed(row)
        PROVE  FALSE
    <2>1. row \in outbox /\ row.m.record = m.record /\ row.m.id > m.id
      BY DEF Later, RowsOf
    <2>2. Oldest(row)
      BY <1>4, <2>1 DEF ClientInv, TableInv, RowInv
    <2>3. row.m.id <= m.id
      BY <1>2, <2>1, <2>2 DEF Oldest, RowsOf
    <2>4. row.m.id \in Nat /\ m.id \in Nat
      BY <1>1, <2>1, OneRow, RowFields, MutationFields DEF ClientInv
    <2> QED
      BY <2>1, <2>3, <2>4
  <1> QED
    BY <1>3, <1>4

\* The rest of the batch is as it was.
LEMMA RestIs ==
  ASSUME ClientInv, run.pc = "apply", NEW m, m = Head(run.claims),
         NEW blocked \in BOOLEAN,
         \/ Len(run.claims) > 1
              /\ run' = [run EXCEPT !.claims = Tail(@), !.answers = Tail(@), !.blocked = blocked]
         \/ run' = Idle
         \/ run' = [Idle EXCEPT !.pc = "claim"],
         UNCHANGED log,
         \A s \in Records : s # m.record => local'[s] = local[s],
         \A row \in outbox : Claimed(row) /\ row.m.record # m.record
           => \E new \in outbox' : new.m = row.m /\ Claimed(new)
  PROVE  run' \in RunType /\ BatchInv' /\ PullInv'
  <1>1. CASE run' = Idle \/ run' = [Idle EXCEPT !.pc = "claim"]
    BY <1>1, IdleRun, EmptyRun
  <1>2. CASE Len(run.claims) > 1
               /\ run' = [run EXCEPT !.claims = Tail(@), !.answers = Tail(@), !.blocked = blocked]
    <2>1. PICK a : a = Head(run.answers)
      OBVIOUS
    <2>2. /\ run.claims \in Seq(Mutation) /\ run.answers \in Seq(Answer)
          /\ Len(run.claims) \in Nat /\ Len(run.answers) = Len(run.claims) /\ m = run.claims[1]
      BY <2>1, HeadIs
    <2>3. PICK claims : claims = Tail(run.claims)
      OBVIOUS
    <2>4. PICK answers : answers = Tail(run.answers)
      OBVIOUS
    <2>5. /\ claims \in Seq(Mutation) /\ answers \in Seq(Answer)
          /\ Len(claims) = Len(run.claims) - 1 /\ Len(answers) = Len(run.claims) - 1
      BY <1>2, <2>2, <2>3, <2>4
    <2>6. /\ DOMAIN claims = 1..(Len(run.claims) - 1) /\ DOMAIN answers = 1..(Len(run.claims) - 1)
          /\ \A i \in DOMAIN claims : /\ i + 1 \in DOMAIN run.claims /\ i + 1 # 1 /\ i \in Nat
                                      /\ claims[i] = run.claims[i + 1]
                                      /\ i + 1 \in DOMAIN run.answers
                                      /\ answers[i] = run.answers[i + 1]
      BY <1>2, <2>2, <2>3, <2>4, <2>5
    <2>7. run \in RunType
      BY DEF ClientInv, TypeOK, RunType
    <2>8. /\ run' \in RunType /\ run'.pc = "apply" /\ run'.claims = claims
          /\ run'.answers = answers
      BY <1>2, <2>3, <2>4, <2>5, <2>7 DEF RunType
    <2>9. claims # << >> /\ 1 \in DOMAIN run.claims
      BY <1>2, <2>2, <2>5
    <2>10. ASSUME NEW i \in DOMAIN claims
           PROVE  /\ \E row \in outbox' : row.m = claims[i] /\ Claimed(row)
                  /\ local'[claims[i].record].version = claims[i].base
      <3>1. claims[i] \in Mutation /\ claims[i].record \in Records
        BY <2>5, MutationFields
      <3>2. claims[i].record # m.record
        BY <2>2, <2>6, <2>9 DEF ClientInv, BatchInv
      <3>3. (\E row \in outbox : row.m = claims[i] /\ Claimed(row))
              /\ local[claims[i].record].version = claims[i].base
        BY <2>6 DEF ClientInv, BatchInv
      <3> QED
        BY <3>1, <3>2, <3>3
    <2>11. ASSUME NEW i \in DOMAIN claims, NEW j \in DOMAIN claims,
                  claims[i].record = claims[j].record
           PROVE  i = j
      <3>1. i + 1 = j + 1
        BY <2>6, <2>11 DEF ClientInv, BatchInv
      <3> QED
        BY <2>6, <3>1
    <2>12. ASSUME NEW i \in DOMAIN answers
           PROVE  Tells(answers[i], claims[i])
      BY <2>6 DEF ClientInv, BatchInv
    <2>13. \A i \in DOMAIN answers : Tells(answers[i], claims[i])'
      <3>1. ASSUME NEW b, NEW c, Tells(b, c)
            PROVE  Tells(b, c)'
        BY <3>1 DEF Tells, Says, Kind
      <3> QED
        BY <2>12, <3>1
    <2>14. /\ run'.claims # << >> /\ Len(run'.answers) <= Len(run'.claims)
           /\ Len(run'.answers) = Len(run'.claims)
      BY <2>2, <2>5, <2>8, <2>9
    <2>15. BatchInv'
      BY <2>8, <2>10, <2>11, <2>13, <2>14 DEF BatchInv, Claimed, Tells, Says, Kind
    <2> QED
      BY <2>8, <2>15 DEF PullInv
  <1> QED
    BY <1>1, <1>2

LEMMA CompleteTables ==
  ASSUME ClientInv, run.pc = "apply",
         NEW m, m = Head(run.claims), NEW a, a = Head(run.answers),
         a.disposition # "retry", Settles(m, a), Complete(m, a),
         UNCHANGED <<log, late, writes, conflicts, position>>, run' \in RunType
  PROVE  /\ TypeOK' /\ TableInv' /\ LateInv'
         /\ \A s \in Records : s # m.record => local'[s] = local[s]
         /\ \A row \in outbox : Claimed(row) /\ row.m.record # m.record => row \in outbox'
  <1>1. /\ m \in Mutation /\ a \in Answer /\ Tells(a, m)
        /\ local[m.record].version = m.base
    BY HeadIs
  <1>2. PICK row0 \in outbox : row0.m = m /\ Claimed(row0)
    BY HeadIs
  <1>3. TypeOK /\ TableInv /\ LateInv
    BY DEF ClientInv
  <1>4. FewerRows /\ \A row \in outbox' : row.m.id # m.id
    BY <1>1, <1>2, <1>3, HeadSettles, CompleteRows DEF TableInv
  <1>5. PICK version : version = VersionAfter(m, a)
    OBVIOUS
  <1>6. /\ m.id \in Nat /\ m.record \in Records /\ m.base \in Nat
        /\ a.version \in Nat /\ a.version \in 0..MaxLog
        /\ a.disposition \in {"accepted", "conflict", "rejected"}
    BY <1>1, AnswerFields, MutationFields
  <1>7. /\ version \in 0..MaxLog /\ version \in Nat /\ m.base <= version /\ a.version <= version
        /\ version = m.base \/ version = a.version
    <2>1. CASE a.disposition = "rejected"
      <3>1. version = m.base /\ a.version = 0
        BY <1>1, <1>5, <2>1 DEF VersionAfter, Tells
      <3> QED
        BY <1>1, <1>6, <3>1, MutationFields
    <2>2. CASE a.disposition # "rejected"
      <3>1. version = a.version
        BY <1>5, <2>2 DEF VersionAfter
      <3>2. m.base <= a.version
        BY <1>6, <2>2 DEF Settles
      <3> QED
        BY <1>6, <3>1, <3>2
    <2> QED
      BY <2>1, <2>2
  <1>8. PICK rec0 : rec0 = [m |-> m, answer |-> a]
    OBVIOUS
  <1>9. /\ receipts' = receipts \cup {rec0}
        /\ local' = [local EXCEPT ![m.record].version = version]
    BY <1>5, <1>8 DEF Complete
  <1>10. rec0 \in Receipt /\ rec0.m = m /\ rec0.answer = a
    BY <1>1, <1>8 DEF Receipt
  <1>11. /\ local'[m.record].version = version
         /\ local'[m.record].state = local[m.record].state
         /\ local'[m.record].content = local[m.record].content
         /\ \A s \in Records : s # m.record => local'[s] = local[s]
         /\ local' \in [Records -> [state : {"absent", "active", "archived", "tombstoned"},
                                    version : 0..MaxLog, content : -MaxLog..MaxWrites]]
    BY <1>3, <1>6, <1>7, <1>9 DEF TypeOK
  <1>12. /\ row0.m.id <= writes /\ ~Answered(m.id) /\ Present(m.record)
    BY <1>2, <1>3, <1>6 DEF TableInv, RowInv, AbsentInv
  <1>13. TypeOK'
    <2>1. outbox' \subseteq Row /\ \A row \in outbox' : RowOf(row.m.id)' = {row}
      BY <1>4 DEF FewerRows, RowOf
    <2>2. receipts' \subseteq Receipt /\ \A rec \in receipts' : ReceiptOf(rec.m.id)' = {rec}
      <3>1. \A x, y \in receipts' : x.m.id = y.m.id => x = y
        BY <1>3, <1>9, <1>10, <1>12, OneRow DEF Answered
      <3>2. receipts' \subseteq Receipt
        BY <1>3, <1>9, <1>10, OneRow
      <3> QED
        BY <3>1, <3>2 DEF ReceiptOf
    <2> QED
      BY <1>3, <1>11, <2>1, <2>2 DEF TypeOK, RunType
  <1>14. HistoryInv'
    BY <1>3 DEF TableInv, HistoryInv, SoundEntry, InOrder
  <1>15. RowInv' /\ DecidedInv' /\ LateInv'
    BY <1>3, <1>4, RowsWithFewerRows, DecidedWithFewerRows, LateWithFewerRows DEF TableInv
  <1>16. ReceiptInv'
    <2>1. ASSUME NEW rec \in receipts'
          PROVE  /\ rec.m.id <= writes
                 /\ rec.answer.disposition # "retry"
                 /\ Tells(rec.answer, rec.m)
      <3>1. CASE rec \in receipts
        BY <1>3, <3>1 DEF TableInv, ReceiptInv
      <3>2. CASE rec = rec0
        BY <1>1, <1>2, <1>10, <1>12, <3>2
      <3> QED
        BY <1>9, <3>1, <3>2
    <2> QED
      BY <2>1 DEF ReceiptInv, Tells, Says, Kind
  <1>17. AbsentInv'
    <2>1. ASSUME NEW r \in Records, local'[r].state = "absent"
          PROVE  /\ r # m.record /\ local[r].state = "absent" /\ local'[r] = local[r]
      BY <1>11, <1>12, <2>1 DEF Present
    <2>2. ASSUME NEW r \in Records, local'[r].state = "absent"
          PROVE  /\ local'[r].version = 0 /\ local'[r].content = 0
                 /\ \A row \in outbox' : row.m.record # r
                 /\ \A rec \in receipts' : rec.m.record # r
      <3>1. /\ local[r].version = 0 /\ local[r].content = 0
            /\ \A row \in outbox : row.m.record # r
            /\ \A rec \in receipts : rec.m.record # r
        BY <1>3, <2>1, <2>2 DEF TableInv, AbsentInv, Present
      <3>2. \A row \in outbox' : row.m.record # r
        BY <1>4, <3>1 DEF FewerRows, Kin
      <3> QED
        BY <1>9, <1>10, <2>1, <2>2, <3>1, <3>2
    <2> QED
      BY <2>2 DEF AbsentInv, Present
  <1>18. VersionInv'
    <2>1. ASSUME NEW r \in Records, r # m.record, Present(r)'
          PROVE  (Bounds(r) /\ Given(r))'
      <3>1. Bounds(r) /\ Given(r) /\ local'[r] = local[r]
        BY <1>3, <1>11, <2>1 DEF TableInv, VersionInv, Present
      <3>2. \A rec \in receipts' : rec.m.record = r => rec \in receipts
        BY <1>9, <1>10, <2>1
      <3>3. Bounds(r)'
        BY <3>1, <3>2 DEF Bounds
      <3>4. Given(r)'
        BY <1>9, <3>1 DEF Given
      <3> QED
        BY <3>3, <3>4
    <2>2. PICK r : r = m.record
      OBVIOUS
    <2>3. Bounds(r) /\ Given(r) /\ local[r].version = m.base
      BY <1>1, <1>3, <1>6, <1>12, <2>2 DEF TableInv, VersionInv
    <2>4. Bounds(r)'
      <3>1. \A i \in DOMAIN log : i <= position /\ log[i].record = r => log[i].version <= version
        <4>1. \A i \in DOMAIN log : log[i].version \in Nat
          BY <1>3, LogFields
        <4> QED
          BY <1>6, <1>7, <2>3, <4>1 DEF Bounds
      <3>2. \A rec \in receipts' : rec.m.record = r => rec.answer.version <= version
        <4>1. \A rec \in receipts : rec.answer.version \in Nat
          BY <1>3, OneRow, ReceiptFields
        <4> QED
          BY <1>6, <1>7, <1>9, <1>10, <2>3, <4>1 DEF Bounds
      <3> QED
        BY <1>11, <2>2, <3>1, <3>2 DEF Bounds
    <2>5. Given(r)'
      <3>1. CASE version = m.base
        BY <1>9, <1>11, <2>2, <2>3, <3>1 DEF Given
      <3>2. CASE version = a.version
        <4>1. rec0 \in receipts' /\ rec0.m.record = r /\ rec0.answer.version = local'[r].version
          BY <1>9, <1>10, <1>11, <2>2, <3>2
        <4> QED
          BY <4>1 DEF Given
      <3> QED
        BY <1>7, <3>1, <3>2
    <2>6. ASSUME NEW s \in Records, Present(s)'
          PROVE  (Bounds(s) /\ Given(s))'
      <3>1. CASE s = r
        BY <2>4, <2>5, <3>1 DEF Bounds, Given
      <3>2. CASE s # r
        BY <2>1, <2>2, <2>6, <3>2
      <3> QED
        BY <3>1, <3>2
    <2> QED
      BY <2>6 DEF VersionInv
  <1>19. WriteInv'
    <2>1. \A r \in Records : local'[r].content = local[r].content
      BY <1>6, <1>11
    <2>2. WriteInv
      BY <1>3 DEF TableInv
    <2> QED
      BY <1>4, <2>1, <2>2, WriteWithFewerRows DEF WriteInv, Answered, Newest
  <1>20. ASSUME NEW row \in outbox, Claimed(row), row.m.record # m.record
         PROVE  row \in outbox'
    <2>1. row.m.id # m.id
      BY <1>2, <1>3, <1>20, OneRow
    <2>2. \A rec \in receipts' : rec.m.id # row.m.id
      BY <1>3, <1>9, <1>10, <1>20, <2>1 DEF TableInv, RowInv, Answered
    <2> QED
      BY <1>4, <1>20, <2>2 DEF FewerRows
  <1> QED
    BY <1>11, <1>13, <1>14, <1>15, <1>16, <1>17, <1>18, <1>19, <1>20 DEF TableInv

LEMMA ApplyStep ==
  ASSUME ClientInv, ApplySyncPushResult
  PROVE  ClientInv'
  <1>1. PICK m : m = Head(run.claims)
    OBVIOUS
  <1>2. PICK a : a = Head(run.answers)
    OBVIOUS
  <1>3. PICK blocked \in BOOLEAN : blocked = (run.blocked \/ a.disposition # "accepted")
    OBVIOUS
  <1>4. /\ run.pc = "apply" /\ Applicable(m, a)
        /\ UNCHANGED <<log, late, writes, conflicts, position>>
    BY <1>1, <1>2 DEF ApplySyncPushResult, server
  <1>5. \/ Len(run.claims) > 1
             /\ run' = [run EXCEPT !.claims = Tail(@), !.answers = Tail(@), !.blocked = blocked]
        \/ run' = Idle
        \/ run' = [Idle EXCEPT !.pc = "claim"]
    BY <1>2, <1>3 DEF ApplySyncPushResult
  <1>6. \/ a.disposition = "retry" /\ outbox' = Retried({m}, 0) /\ UNCHANGED <<receipts, local>>
        \/ a.disposition # "retry" /\ Complete(m, a)
    BY <1>1, <1>2 DEF ApplySyncPushResult
  <1>7. TypeOK
    BY DEF ClientInv
  <1>8. CASE outbox' = Retried({m}, 0) /\ UNCHANGED <<receipts, local>>
    <2>1. SameRows
      BY <1>7, <1>8, RetriedRows
    <2>2. \A row \in outbox : Claimed(row) /\ row.m.record # m.record
            => \E new \in outbox' : new.m = row.m /\ Claimed(new)
      BY <2>1 DEF SameRows
    <2>3. run' \in RunType /\ BatchInv' /\ PullInv'
      BY <1>1, <1>4, <1>5, <1>8, <2>2, RestIs
    <2> QED
      BY <1>4, <1>8, <2>1, <2>3, LeaseStep
  <1>9. CASE a.disposition # "retry" /\ Complete(m, a)
    <2>1. Settles(m, a)
      BY <1>4, <1>9 DEF Applicable
    <2>2. run' \in RunType
      <3>1. CASE run' = Idle \/ run' = [Idle EXCEPT !.pc = "claim"]
        BY <3>1, IdleRun, EmptyRun
      <3>2. CASE Len(run.claims) > 1
                   /\ run' = [run EXCEPT !.claims = Tail(@), !.answers = Tail(@),
                                         !.blocked = blocked]
        <4>1. /\ run.claims \in Seq(Mutation) /\ run.answers \in Seq(Answer)
              /\ Len(run.claims) \in Nat /\ Len(run.answers) = Len(run.claims)
          BY <1>1, <1>2, <1>4, HeadIs
        <4>2. Tail(run.claims) \in Seq(Mutation) /\ Tail(run.answers) \in Seq(Answer)
          BY <3>2, <4>1
        <4>3. run \in RunType
          BY <1>7 DEF TypeOK, RunType
        <4> QED
          BY <3>2, <4>2, <4>3 DEF RunType
      <3> QED
        BY <1>5, <3>1, <3>2
    <2>3. /\ TypeOK' /\ TableInv' /\ LateInv'
          /\ \A s \in Records : s # m.record => local'[s] = local[s]
          /\ \A row \in outbox : Claimed(row) /\ row.m.record # m.record => row \in outbox'
      BY <1>1, <1>2, <1>4, <1>9, <2>1, <2>2, CompleteTables
    <2>4. \A row \in outbox : Claimed(row) /\ row.m.record # m.record
            => \E new \in outbox' : new.m = row.m /\ Claimed(new)
      BY <2>3
    <2>6. run.pc = "apply" /\ UNCHANGED log /\ \A s \in Records : s # m.record => local'[s] = local[s]
      BY <1>4, <2>3
    <2>5. run' \in RunType /\ BatchInv' /\ PullInv'
      BY <1>1, <1>5, <2>4, <2>6, RestIs, ZenonT(60)
    <2> QED
      BY <2>3, <2>5 DEF ClientInv
  <1> QED
    BY <1>6, <1>8, <1>9

----------------------------------------------------------------------------

(***************************************************************************)
(* The pull.                                                               *)
(***************************************************************************)

LocalType == [Records -> [state : {"absent", "active", "archived", "tombstoned"},
                          version : 0..MaxLog, content : -MaxLog..MaxWrites]]

LEMMA SameOutbox ==
  ASSUME TypeOK, RowInv, UNCHANGED <<outbox, receipts>>
  PROVE  FewerRows
  BY OneRow DEF RowInv, FewerRows, Answered, Kin

\* What a pulled change does not touch: the versions and what is stored are
\* left to show.
LEMMA PulledStep ==
  ASSUME ClientInv, run.pc = "pull", position < Len(log), FewerRows,
         UNCHANGED <<log, late, writes, receipts, run>>,
         position' = position + 1, conflicts' \subseteq DOMAIN log, local' \in LocalType,
         \A row \in outbox' : ~Claimed(row), VersionInv',
         \A s \in Records :
           \/ local'[s] = local[s]
           \/ local'[s].state # "absent"
                /\ (local'[s].content > 0 => Answered(local'[s].content))
  PROVE  ClientInv'
  <1>1. TypeOK /\ TableInv /\ LateInv /\ BatchInv
    BY DEF ClientInv
  <1>2. TypeOK'
    <2>1. outbox' \subseteq Row /\ \A row \in outbox' : RowOf(row.m.id)' = {row}
      BY DEF FewerRows, RowOf
    <2>2. receipts' \subseteq Receipt /\ \A rec \in receipts' : ReceiptOf(rec.m.id)' = {rec}
      BY <1>1 DEF TypeOK, ReceiptOf
    <2>3. position' \in 0..Len(log')
      BY <1>1 DEF TypeOK
    <2> QED
      BY <1>1, <2>1, <2>2, <2>3 DEF TypeOK, LocalType
  <1>3. HistoryInv'
    BY <1>1 DEF TableInv, HistoryInv, SoundEntry, InOrder
  <1>4. RowInv' /\ DecidedInv' /\ LateInv'
    BY <1>1, RowsWithFewerRows, DecidedWithFewerRows, LateWithFewerRows DEF TableInv
  <1>5. ReceiptInv'
    BY <1>1 DEF TableInv, ReceiptInv, Tells, Says, Kind
  <1>6. AbsentInv'
    <2>1. ASSUME NEW s \in Records, local'[s].state = "absent"
          PROVE  /\ local'[s].version = 0 /\ local'[s].content = 0
                 /\ \A row \in outbox' : row.m.record # s
                 /\ \A rec \in receipts' : rec.m.record # s
      <3>1. local'[s] = local[s]
        BY <2>1
      <3>2. /\ local[s].version = 0 /\ local[s].content = 0
            /\ \A row \in outbox : row.m.record # s
            /\ \A rec \in receipts : rec.m.record # s
        BY <1>1, <2>1, <3>1 DEF TableInv, AbsentInv, Present
      <3> QED
        BY <3>1, <3>2 DEF FewerRows, Kin
    <2> QED
      BY <2>1 DEF AbsentInv, Present
  <1>7. WriteInv'
    <2>1. ASSUME NEW s \in Records, local'[s].content > 0
          PROVE  \/ \E rec \in receipts' : rec.m.id = local'[s].content
                 \/ \E row \in outbox' : /\ row.m.id = local'[s].content /\ row.m.record = s
                                         /\ \A other \in outbox' :
                                              other.m.record = row.m.record
                                                => other.m.id <= row.m.id
      <3>1. CASE local'[s] = local[s]
        BY <1>1, <2>1, <3>1, WriteWithFewerRows DEF TableInv
      <3>2. CASE local'[s] # local[s]
        BY <2>1, <3>2 DEF Answered
      <3> QED
        BY <3>1, <3>2
    <2> QED
      BY <2>1 DEF WriteInv, Answered, Newest
  <1>8. BatchInv' /\ PullInv'
    BY <1>1 DEF BatchInv, PullInv, Claimed
  <1> QED
    BY <1>1, <1>2, <1>3, <1>4, <1>5, <1>6, <1>7, <1>8 DEF ClientInv, TableInv

\* The next change, and what it may leave here.
LEMMA ChangeIs ==
  ASSUME ClientInv, Pulling, NEW n, n = position + 1, NEW e, e = log[n]
  PROVE  /\ n \in DOMAIN log /\ n \in Nat /\ n > 0 /\ n <= MaxLog /\ position \in Nat
         /\ e \in Entry /\ e.record \in Records /\ e.base \in Nat
         /\ e.version \in 0..MaxLog /\ e.version \in Nat
         /\ e.id \in Nat /\ e.id <= MaxWrites
         /\ e.disposition = "accepted" => e.version = e.base + 1
         /\ e.kind = "create" <=> e.base = 0
         /\ \A row \in outbox : ~Claimed(row)
         /\ Change = e /\ Content = IF e.id = 0 THEN -n ELSE e.id
         /\ Content \in -MaxLog..MaxWrites
         /\ Content > 0 => Answered(Content)
  <1>1. TypeOK /\ TableInv /\ PullInv
    BY DEF ClientInv
  <1>2. position \in Nat /\ Len(log) \in Nat /\ position < Len(log) /\ Len(log) <= MaxLog
    BY <1>1, LogFields DEF TypeOK, Pulling
  <1>3. n \in DOMAIN log /\ n \in Nat /\ n > 0 /\ n <= MaxLog
    BY <1>1, <1>2, LogFields, ClientAssumption
  <1>4. e \in Entry
    BY <1>1, <1>3, LogFields
  <1>5. /\ e.record \in Records /\ e.base \in Nat
        /\ e.version \in 0..MaxLog /\ e.version \in Nat
        /\ e.id \in Nat /\ e.id <= MaxWrites
    BY <1>4, EntryFields, ClientAssumption
  <1>6. SoundEntry(n)
    BY <1>1, <1>3 DEF TableInv, HistoryInv
  <1>7. /\ e.disposition = "accepted" => e.version = e.base + 1
        /\ e.kind = "create" <=> e.base = 0
    BY <1>6 DEF SoundEntry
  <1>8. \A row \in outbox : ~Claimed(row)
    BY <1>1 DEF PullInv, Pulling
  <1>9. Change = e /\ Content = IF e.id = 0 THEN -n ELSE e.id
    BY DEF Change, Content
  <1>10. Content \in -MaxLog..MaxWrites
    BY <1>3, <1>5, <1>9, ClientAssumption
  <1>11. Content > 0 => Answered(Content)
    <2>1. ASSUME e.id # 0
          PROVE  Answered(e.id)
      <3>1. SentAs(n)
        BY <1>1, <1>3, <2>1 DEF TableInv, DecidedInv
      <3> QED
        BY <1>8, <3>1 DEF SentAs
    <2> QED
      BY <1>3, <1>9, <2>1
  <1> QED
    BY <1>2, <1>3, <1>4, <1>5, <1>7, <1>8, <1>9, <1>10, <1>11

\* A change that is stored brings its version.
LEMMA StoredStep ==
  ASSUME ClientInv, Pulling, NEW n, n = position + 1, NEW e, e = log[n],
         NEW state \in {"active", "archived", "tombstoned"},
         Store(e.record, [state |-> state, version |-> e.version, content |-> Content]),
         FewerRows, UNCHANGED <<log, late, writes, receipts, run>>, position' = position + 1,
         conflicts' \subseteq DOMAIN log, \A row \in outbox' : ~Claimed(row),
         e.disposition = "accepted",
         local[e.record].version = e.base
  PROVE  ClientInv'
  <1>1. TypeOK /\ TableInv
    BY DEF ClientInv
  <1>2. PICK r \in Records : r = e.record
    BY ChangeIs
  <1>3. PICK here : here = [state |-> state, version |-> e.version, content |-> Content]
    OBVIOUS
  <1>4. here \in [state : {"absent", "active", "archived", "tombstoned"},
                  version : 0..MaxLog, content : -MaxLog..MaxWrites]
    <2>1. e.version \in 0..MaxLog /\ Content \in -MaxLog..MaxWrites
      BY ChangeIs
    <2> QED
      BY <1>3, <2>1
  <1>5. here.state # "absent" /\ here.version = e.version /\ here.content = Content
    BY <1>3
  <1>6. /\ local' = [local EXCEPT ![r] = here]
        /\ local'[r] = here /\ \A s \in Records : s # r => local'[s] = local[s]
    BY <1>1, <1>2, <1>3 DEF Store, TypeOK
  <1>7. local' \in LocalType
    BY <1>1, <1>4, <1>6 DEF TypeOK, LocalType
  <1>8. /\ e.version \in Nat /\ e.base \in Nat /\ e.version = e.base + 1
        /\ n \in DOMAIN log /\ n \in Nat /\ position \in Nat
        /\ Content > 0 => Answered(Content)
    BY ChangeIs
  <1>9. ASSUME NEW i \in DOMAIN log, i <= n, log[i].record = r
        PROVE  log[i].version <= e.version
    <2>1. i \in Nat /\ log[i].version \in Nat
      BY <1>1, LogFields
    <2>2. CASE i = n
      BY <1>8, <2>2
    <2>3. CASE i < n
      <3>1. log[i].version <= log[n].version
        BY <1>1, <1>2, <1>8, <1>9, <2>3 DEF TableInv, HistoryInv, InOrder
      <3> QED
        BY <3>1
    <2> QED
      BY <1>8, <1>9, <2>1, <2>2, <2>3
  <1>10. ASSUME NEW rec \in receipts, rec.m.record = r
         PROVE  rec.answer.version <= e.version
    <2>1. Bounds(r)
      BY <1>1, <1>10 DEF TableInv, VersionInv, AbsentInv
    <2>2. rec.answer.version <= e.base /\ rec.answer.version \in Nat
      BY <1>1, <1>2, <1>10, <2>1, OneRow, ReceiptFields DEF Bounds
    <2> QED
      BY <1>8, <2>2
  <1>11. VersionInv'
    <2>1. ASSUME NEW s \in Records, s # r, Present(s)'
          PROVE  (Bounds(s) /\ Given(s))'
      <3>1. Bounds(s) /\ Given(s) /\ local'[s] = local[s]
        BY <1>1, <1>6, <2>1 DEF TableInv, VersionInv, Present
      <3>2. \A i \in DOMAIN log : i <= position' /\ log[i].record = s => i <= position
        <4>1. \A i \in DOMAIN log : i \in Nat
          BY <1>1, LogFields
        <4> QED
          BY <1>2, <1>8, <2>1, <4>1
      <3>3. \A i \in DOMAIN log : i <= position => i <= position'
        <4>1. \A i \in DOMAIN log : i \in Nat
          BY <1>1, LogFields
        <4> QED
          BY <1>8, <4>1
      <3>4. Bounds(s)'
        BY <3>1, <3>2 DEF Bounds
      <3>5. Given(s)'
        BY <3>1, <3>3 DEF Given
      <3> QED
        BY <3>4, <3>5
    <2>2. (Bounds(r) /\ Given(r))'
      <3>1. Bounds(r)'
        BY <1>5, <1>6, <1>9, <1>10 DEF Bounds
      <3>2. n <= position' /\ log[n].record = r /\ log[n].version = local'[r].version
        BY <1>2, <1>5, <1>6, <1>8
      <3>3. Given(r)'
        BY <1>8, <3>2 DEF Given
      <3> QED
        BY <3>1, <3>3
    <2>3. ASSUME NEW s \in Records, Present(s)'
          PROVE  (Bounds(s) /\ Given(s))'
      <3>1. CASE s = r
        BY <2>2, <3>1 DEF Bounds, Given
      <3>2. CASE s # r
        BY <2>1, <2>3, <3>2
      <3> QED
        BY <3>1, <3>2
    <2> QED
      BY <2>3 DEF VersionInv
  <1>12. \A s \in Records :
           \/ local'[s] = local[s]
           \/ local'[s].state # "absent"
                /\ (local'[s].content > 0 => Answered(local'[s].content))
    BY <1>5, <1>6, <1>8
  <1>13. run.pc = "pull" /\ position < Len(log)
    BY DEF Pulling
  <1> QED
    BY <1>7, <1>11, <1>12, <1>13, PulledStep

\* A change that is not stored brings nothing new.
LEMMA UnstoredStep ==
  ASSUME ClientInv, Pulling, NEW n, n = position + 1, NEW e, e = log[n],
         UNCHANGED <<log, late, writes, local, outbox, receipts, run>>, position' = position + 1,
         conflicts' \subseteq DOMAIN log,
         Present(e.record) => e.version <= local[e.record].version
  PROVE  ClientInv'
  <1>1. TypeOK /\ TableInv
    BY DEF ClientInv
  <1>2. /\ n \in DOMAIN log /\ n \in Nat /\ position \in Nat /\ e.record \in Records
        /\ \A row \in outbox : ~Claimed(row)
    BY ChangeIs
  <1>3. FewerRows
    BY <1>1, SameOutbox DEF TableInv
  <1>4. local' \in LocalType
    BY <1>1 DEF TypeOK, LocalType
  <1>5. VersionInv'
    <2>1. ASSUME NEW s \in Records, Present(s)
          PROVE  (Bounds(s) /\ Given(s))'
      <3>1. Bounds(s) /\ Given(s)
        BY <1>1, <2>1 DEF TableInv, VersionInv
      <3>2. \A i \in DOMAIN log : i \in Nat
        BY <1>1, LogFields
      <3>3. \A i \in DOMAIN log : i <= position' => i <= position \/ i = n
        BY <1>2, <3>2
      <3>4. \A i \in DOMAIN log : i <= position => i <= position'
        BY <1>2, <3>2
      <3>5. \A i \in DOMAIN log : i <= position' /\ log[i].record = s
                                    => log[i].version <= local[s].version
        BY <1>2, <2>1, <3>1, <3>3 DEF Bounds
      <3>6. Bounds(s)'
        BY <3>1, <3>5 DEF Bounds
      <3>7. Given(s)'
        BY <3>1, <3>4 DEF Given
      <3> QED
        BY <3>6, <3>7
    <2> QED
      BY <2>1 DEF VersionInv, Present
  <1>6. \A s \in Records : local'[s] = local[s]
    OBVIOUS
  <1>7. run.pc = "pull" /\ position < Len(log)
    BY DEF Pulling
  <1> QED
    BY <1>2, <1>3, <1>4, <1>5, <1>6, <1>7, PulledStep

LEMMA PullStep ==
  ASSUME ClientInv, ApplyProjectPulledPage
  PROVE  ClientInv'
  <1>1. PICK n : n = position + 1
    OBVIOUS
  <1>2. PICK e : e = log[n]
    OBVIOUS
  <1>3. /\ Pulling /\ position' = position + 1
        /\ UNCHANGED <<log, late, writes, receipts, run>>
    BY DEF ApplyProjectPulledPage, server
  <1>4. /\ n \in DOMAIN log /\ e \in Entry /\ e.record \in Records /\ e.base \in Nat
        /\ e.version \in 0..MaxLog
        /\ e.disposition = "accepted" => e.version = e.base + 1
        /\ e.kind = "create" <=> e.base = 0
        /\ \A row \in outbox : ~Claimed(row)
        /\ Change = e
    BY <1>1, <1>2, <1>3, ChangeIs
  <1>5. TypeOK /\ TableInv
    BY DEF ClientInv
  <1>6. conflicts \subseteq DOMAIN log
    BY <1>5 DEF TypeOK
  <1>7. CASE ApplyEcho
    <2>1. PICK rec \in receipts : Matches(rec, n)
      BY <1>1, <1>7 DEF ApplyEcho, Echo, Own, OwnMatches, ReceiptOf
    <2>2. rec.m.record = e.record
      BY <1>2, <2>1 DEF Matches, Says
    <2>3. PICK a : a = rec.answer
      OBVIOUS
    <2>4. a.version = e.version
      <3>1. a = [disposition |-> log[n].disposition, version |-> log[n].version, seq |-> n]
        BY <2>1, <2>3 DEF Matches
      <3> QED
        BY <1>2, <3>1
    <2>5. Present(e.record) => e.version <= local[e.record].version
      <3>1. Present(e.record) => Bounds(e.record)
        BY <1>4, <1>5 DEF TableInv, VersionInv
      <3> QED
        BY <2>2, <2>3, <2>4, <3>1 DEF Bounds
    <2> QED
      BY <1>1, <1>2, <1>3, <1>6, <1>7, <2>5, UnstoredStep DEF ApplyEcho
  <1>8. CASE ApplyConflict
    <2>1. Present(e.record) => e.version <= local[e.record].version
      BY <1>4, <1>5, <1>8, LocalFields DEF ApplyConflict, ConflictFits
    <2>2. conflicts' \subseteq DOMAIN log
      BY <1>1, <1>4, <1>6, <1>8 DEF ApplyConflict, ConflictFits
    <2> QED
      BY <1>1, <1>2, <1>3, <1>8, <2>1, <2>2, UnstoredStep DEF ApplyConflict, ConflictFits
  <1>9. ASSUME UNCHANGED <<outbox, conflicts>>
        PROVE  /\ FewerRows /\ conflicts' \subseteq DOMAIN log
               /\ \A row \in outbox' : ~Claimed(row)
    BY <1>3, <1>4, <1>5, <1>6, <1>9, SameOutbox DEF TableInv
  <1>10. CASE e.disposition = "accepted" /\ ApplyCreate
    <2>1. Store(e.record, [state |-> "active", version |-> 1, content |-> Content])
      BY <1>4, <1>10 DEF ApplyCreate, CreateFits
    <2>2. e.base = 0 /\ e.version = 1
      BY <1>4, <1>10 DEF ApplyCreate, CreateFits
    <2>3. PICK state \in {"active", "archived", "tombstoned"} : state = "active"
      OBVIOUS
    <2>4. Store(e.record, [state |-> state, version |-> e.version, content |-> Content])
      BY <2>1, <2>2, <2>3
    <2>5. local[e.record].version = e.base
      BY <1>4, <1>5, <1>10, <2>2 DEF ApplyCreate, CreateFits, TableInv, AbsentInv
    <2>6. UNCHANGED <<outbox, conflicts>>
      BY <1>10 DEF ApplyCreate, CreateFits
    <2> QED
      BY <1>1, <1>2, <1>3, <1>9, <1>10, <2>4, <2>5, <2>6, StoredStep
  <1>11. CASE e.disposition = "accepted" /\ ApplyUpdate
    <2>1. PICK state \in {"active", "archived", "tombstoned"} :
            state = IF Change.kind = "archive" THEN "archived" ELSE "active"
      OBVIOUS
    <2>2. Store(e.record, [state |-> state, version |-> e.version, content |-> Content])
      BY <1>4, <1>11, <2>1 DEF ApplyUpdate, UpdateFits, Editable
    <2>3. local[e.record].version = e.base
      BY <1>4, <1>11 DEF ApplyUpdate, UpdateFits, Editable, Follows
    <2>4. UNCHANGED <<outbox, conflicts>>
      BY <1>11 DEF ApplyUpdate, UpdateFits, Editable
    <2> QED
      BY <1>1, <1>2, <1>3, <1>9, <1>11, <2>2, <2>3, <2>4, StoredStep
  <1>12. CASE e.disposition = "accepted" /\ ApplyTombstone
    <2>1. PICK state \in {"active", "archived", "tombstoned"} : state = "tombstoned"
      OBVIOUS
    <2>2. Store(e.record, [state |-> state, version |-> e.version, content |-> Content])
      BY <1>4, <1>12, <2>1 DEF ApplyTombstone, TombstoneFits
    <2>3. local[e.record].version = e.base
      BY <1>4, <1>12 DEF ApplyTombstone, TombstoneFits, Follows
    <2>4. UNCHANGED <<outbox, conflicts>>
      BY <1>12 DEF ApplyTombstone, TombstoneFits
    <2> QED
      BY <1>1, <1>2, <1>3, <1>9, <1>12, <2>2, <2>3, <2>4, StoredStep
  <1>13. CASE e.disposition = "accepted" /\ ApplyResolve
    <2>1. PICK state \in {"active", "archived", "tombstoned"} : state = "active"
      OBVIOUS
    <2>2. Store(e.record, [state |-> state, version |-> e.version, content |-> Content])
      BY <1>4, <1>13, <2>1 DEF ApplyResolve, ResolveFits, Editable
    <2>3. local[e.record].version = e.base
      BY <1>4, <1>13 DEF ApplyResolve, ResolveFits, Editable, Follows
    <2>4. PICK rows : rows = RowsOf(e.record)
      OBVIOUS
    <2>5. /\ rows \in SUBSET outbox
          /\ \A row \in rows : row.m.record = e.record /\ ~Claimed(row)
      BY <1>4, <2>4 DEF RowsOf
    <2>6. outbox' = (outbox \ rows) \cup Rebased(rows, e.version)
      BY <1>4, <1>13, <2>4 DEF ApplyResolve, ResolveFits, Editable
    <2>7. FewerRows
      <3>1. PICK gone : gone = {}
        OBVIOUS
      <3>2. outbox' = (outbox \ (gone \cup rows)) \cup Rebased(rows, e.version)
        BY <2>6, <3>1
      <3>3. PICK r, version : r = e.record /\ version = e.version
        OBVIOUS
      <3>4. /\ gone \in SUBSET outbox /\ gone \cap rows = {} /\ version \in 0..MaxLog
            /\ outbox' = (outbox \ (gone \cup rows)) \cup Rebased(rows, version)
            /\ \A rec \in receipts : rec \in receipts'
            /\ \A rec \in receipts' : rec \in receipts \/ \E row \in gone : row.m.id = rec.m.id
            /\ \A row \in gone : \E rec \in receipts' : rec.m.id = row.m.id
            /\ \A row \in rows : row.m.record = r /\ ~Claimed(row)
        BY <1>3, <1>4, <2>5, <3>1, <3>2, <3>3
      <3> QED
        BY <1>5, <2>5, <3>4, FoldIs DEF TableInv
    <2>8. \A row \in outbox' : ~Claimed(row)
      BY <1>4, <2>7 DEF FewerRows
    <2>9. conflicts' \subseteq DOMAIN log
      BY <1>6, <1>13 DEF ApplyResolve, ResolveFits, Editable
    <2> QED
      BY <1>1, <1>2, <1>3, <1>13, <2>2, <2>3, <2>7, <2>8, <2>9, StoredStep
  <1> QED
    BY <1>4, <1>7, <1>8, <1>10, <1>11, <1>12, <1>13 DEF ApplyProjectPulledPage, ApplyChange

----------------------------------------------------------------------------

(***************************************************************************)
(* The invariant.                                                          *)
(***************************************************************************)

LEMMA InitClient == Init => ClientInv
  <1> SUFFICES ASSUME Init PROVE ClientInv
    OBVIOUS
  <1> USE DEF Init
  <1>1. log \in Seq(Entry) /\ Len(log) = 0 /\ DOMAIN log = {}
    OBVIOUS
  <1>2. run = [Idle EXCEPT !.pc = "idle"] /\ run \in RunType /\ run.pc = "idle"
          /\ run.claims = << >> /\ run.answers = << >>
    BY Empty
  <1>3. \A r \in Records : local[r].state = "absent" /\ local[r].version = 0 /\ local[r].content = 0
    OBVIOUS
  <1>4. local \in LocalType
    <2>1. 0 \in 0..MaxLog /\ 0 \in -MaxLog..MaxWrites
      BY ClientAssumption
    <2> QED
      BY <2>1 DEF LocalType
  <1>5. TypeOK
    <2>1. 0 \in 0..MaxWrites /\ 0 <= MaxLog /\ 0 \in 0..0
      BY ClientAssumption
    <2> QED
      BY <1>1, <1>2, <1>4, <2>1 DEF TypeOK, LocalType, RunType
  <1>6. TableInv
    BY <1>1, <1>3 DEF TableInv, HistoryInv, RowInv, ReceiptInv, DecidedInv, AbsentInv,
                      VersionInv, WriteInv, Present
  <1>7. LateInv /\ BatchInv /\ PullInv
    BY <1>2 DEF LateInv, BatchInv, PullInv
  <1> QED
    BY <1>5, <1>6, <1>7 DEF ClientInv

LEMMA NextClient == ClientInv /\ [Next]_vars => ClientInv'
  <1> SUFFICES ASSUME ClientInv, [Next]_vars
               PROVE  ClientInv'
    OBVIOUS
  <1>1. ASSUME NEW r \in Records, Save(r) PROVE ClientInv'
    BY <1>1, SaveStep
  <1>2. ASSUME NEW r \in Records, Forget(r) PROVE ClientInv'
    BY <1>2, ForgetStep
  <1>3. CASE Start
    BY <1>3, StartStep
  <1>4. CASE ClaimDueSyncOutbox
    BY <1>4, ClaimStep
  <1>5. CASE CheckQueue
    BY <1>5, CheckStep
  <1>6. CASE Push
    BY <1>6, PushStep
  <1>7. CASE Receive
    BY <1>7, ReceiveStep
  <1>8. CASE ApplySyncPushResult
    BY <1>8, ApplyStep
  <1>9. CASE GiveUp
    BY <1>9, GiveUpStep
  <1>10. CASE ApplyProjectPulledPage
    BY <1>10, PullStep
  <1>11. CASE PullEnds
    BY <1>11, PullEndsStep
  <1>12. CASE Stop
    BY <1>12, StopStep
  <1>13. CASE Resend
    BY <1>13, ResendStep
  <1>14. CASE LoseAnswers
    BY <1>14, LoseStep
  <1>15. CASE DecideLate
    BY <1>15, LateStep
  <1>16. CASE OtherDevice
    BY <1>16, OtherStep
  <1>17. CASE Tick
    BY <1>17, TickStep
  <1>18. CASE UNCHANGED vars
    <2>1. run' \in RunType
      BY <1>18 DEF ClientInv, TypeOK, RunType, vars
    <2>2. BatchInv' /\ PullInv'
      BY <1>18 DEF ClientInv, BatchInv, PullInv, Tells, Says, Kind, Claimed,
                   vars, server, store
    <2> QED
      BY <1>18, <2>1, <2>2, QuietStep DEF vars, server
  <1> QED
    BY <1>1, <1>2, <1>3, <1>4, <1>5, <1>6, <1>7, <1>8, <1>9, <1>10, <1>11, <1>12, <1>13,
       <1>14, <1>15, <1>16, <1>17, <1>18
    DEF Next, Run, Faults

\* A row that was ever sent is frozen until its answer is kept: it stays claimed, the oldest
\* of its record and as it was sent, so what the service decides of a late or repeated request
\* is about the row that is still here.
THEOREM SentStaysFrozen == Spec => []ClientInv
  BY InitClient, NextClient, PTL DEF Spec

\* Neither a crash, a lost answer nor a pull loses a write: the last write of every record is
\* queued in sync_outbox or answered in sync_push_results.
THEOREM WritesAreKept == Spec => []NoWriteIsLost
  <1>1. ClientInv => NoWriteIsLost
    BY DEF ClientInv, TableInv, WriteInv, NoWriteIsLost, RowOf, ReceiptOf, Answered
  <1> QED
    BY <1>1, SentStaysFrozen, PTL

\* ApplySyncPushResult never meets an answer it must refuse: while the lease of a claim lasts,
\* the version it was made of is still the local one and no later row of the record is claimed.
THEOREM AnswersAreApplied == Spec => []AnswersApply
  <1>1. ClientInv => AnswersApply
    <2> SUFFICES ASSUME ClientInv, run.pc = "apply",
                        \E row \in RowOf(Head(run.claims).id) : Held(row)
                 PROVE  Applicable(Head(run.claims), Head(run.answers))
      BY DEF AnswersApply
    <2>1. PICK m : m = Head(run.claims)
      OBVIOUS
    <2>2. PICK a : a = Head(run.answers)
      OBVIOUS
    <2>3. /\ a.disposition = "retry" \/ Settles(m, a)
          /\ \A row \in Later(m) : ~Claimed(row)
      BY <2>1, <2>2, HeadSettles
    <2> QED
      BY <2>1, <2>2, <2>3 DEF Applicable
  <1> QED
    BY <1>1, SentStaysFrozen, PTL

\* The version of a record is the largest one acknowledged.
LEMMA VersionIsMax ==
  ASSUME TypeOK, TableInv
  PROVE  VersionIsAcknowledged
  <1> SUFFICES ASSUME NEW r \in Records, Present(r)
               PROVE  local[r].version =
                        Max({0} \cup {log[i].version : i \in {j \in EntriesOf(r) : j <= position}}
                                \cup {rec.answer.version : rec \in {x \in receipts : x.m.record = r}})
    BY DEF VersionIsAcknowledged
  <1> DEFINE S == {0} \cup {log[i].version : i \in {j \in EntriesOf(r) : j <= position}}
                      \cup {rec.answer.version : rec \in {x \in receipts : x.m.record = r}}
  <1>1. Bounds(r) /\ Given(r)
    BY DEF TableInv, VersionInv
  <1>2. local[r].version \in Nat
    BY LocalFields
  <1>3. \A v \in S : v \in Nat /\ v <= local[r].version
    <2>1. \A i \in DOMAIN log : log[i].version \in Nat
      BY LogFields
    <2>2. \A rec \in receipts : rec.answer.version \in Nat
      BY OneRow, ReceiptFields
    <2> QED
      BY <1>1, <1>2, <2>1, <2>2 DEF Bounds, EntriesOf
  <1>4. local[r].version \in S
    BY <1>1 DEF Given, EntriesOf
  <1> HIDE DEF S
  <1>5. S \in SUBSET (0..local[r].version) /\ S # {}
    BY <1>2, <1>3, <1>4
  <1>6. Max(S) \in S /\ \A v \in S : v <= Max(S)
    BY <1>2, <1>5, MaxIs
  <1>7. local[r].version = Max(S)
    BY <1>2, <1>3, <1>4, <1>6
  <1> QED
    BY <1>7 DEF S

\* What the device believes of the service is so: sync_version is the last version it was told,
\* and a queued row the service has decided is still the mutation it decided.
THEOREM BeliefsAreTrue == Spec => []VersionsHold
  <1>1. ClientInv => VersionsHold
    <2> SUFFICES ASSUME ClientInv PROVE VersionsHold
      OBVIOUS
    <2>1. TypeOK /\ TableInv
      BY DEF ClientInv
    <2>2. ASSUME NEW row \in outbox, NEW i \in Decided(row.m.id)
          PROVE  Says(i, row.m)
      <3>1. i \in DOMAIN log /\ log[i].id = row.m.id
        BY DEF Decided
      <3>2. log[i].id # 0
        <4>1. row.m \in Mutation
          BY <2>1, OneRow, RowFields
        <4>2. row.m.id \in 1..MaxWrites
          BY <4>1, MutationFields
        <4> QED
          BY <3>1, <4>2, ClientAssumption
      <3>3. ~Answered(row.m.id)
        BY <2>1 DEF TableInv, RowInv
      <3>4. PICK other \in outbox : other.m.id = log[i].id /\ Says(i, other.m)
        BY <2>1, <3>1, <3>2, <3>3 DEF TableInv, DecidedInv, SentAs
      <3> QED
        BY <2>1, <3>1, <3>4, OneRow
    <2> QED
      BY <2>1, <2>2, VersionIsMax DEF VersionsHold, DecidedIsStable
  <1> QED
    BY <1>1, SentStaysFrozen, PTL

----------------------------------------------------------------------------

(***************************************************************************)
(* The service as the client sees it keeps a history.                      *)
(***************************************************************************)

\* Every step leaves the log, or adds one decision to it.
LEMMA NextContinues ==
  ASSUME ClientInv, [Next]_vars
  PROVE  Continues
  <1>1. CASE DecideLate
    <2>1. PICK m \in late : UNCHANGED log \/ \E o \in Outcomes(m) : Extends(o)
      BY <1>1 DEF DecideLate
    <2>2. m \in Mutation /\ Sent(m) /\ Reached(m.record, m.base)
      BY DEF ClientInv, TypeOK, LateInv
    <2> QED
      BY <2>1, <2>2, OutcomeIs DEF ClientInv, TableInv, Continues
  <1>2. CASE OtherDevice
    <2>1. PICK r \in Records : \E e \in ForeignEntries(r) : log' = Append(log, e)
      BY <1>2 DEF OtherDevice
    <2>2. PICK e \in ForeignEntries(r) : log' = Append(log, e)
      BY <2>1
    <2>3. Len(log) < MaxLog
      BY <1>2 DEF OtherDevice
    <2> QED
      BY <2>2, <2>3, ForeignDecision DEF ClientInv, TableInv, Continues
  <1>3. CASE Push
    <2>1. PICK n : n = Len(run.answers) + 1
      OBVIOUS
    <2>2. PICK o \in Outcomes(run.claims[n]) : Extends(o)
      BY <1>3, <2>1 DEF Push
    <2>3. run.pc = "push" /\ Unanswered # {}
      BY <1>3 DEF Push
    <2>4. n \in DOMAIN run.claims
      <3>1. /\ run.claims \in Seq(Mutation) /\ run.answers \in Seq(Answer)
            /\ Len(run.answers) \in Nat /\ Len(run.claims) \in Nat
            /\ DOMAIN run.claims = 1..Len(run.claims)
        BY DEF ClientInv, TypeOK
      <3> QED
        BY <2>1, <2>3, <3>1 DEF Unanswered
    <2>5. PICK m : m = run.claims[n]
      OBVIOUS
    <2>6. m \in Mutation /\ Sent(m) /\ Reached(m.record, m.base)
      BY <2>3, <2>4, <2>5, ClaimsAreSent
    <2> QED
      BY <2>2, <2>5, <2>6, OutcomeIs DEF ClientInv, TableInv
  <1>4. CASE UNCHANGED log
    BY <1>4 DEF Continues
  <1> QED
    BY <1>1, <1>2, <1>3, <1>4
    DEF Next, Run, Faults, Save, Forget, Enqueue, Start, ClaimDueSyncOutbox, CheckQueue,
        Receive, ApplySyncPushResult, GiveUp, ApplyProjectPulledPage, PullEnds, Stop, Resend,
        LoseAnswers, Tick, vars, server

LEMMA PublishedFields ==
  ASSUME NEW i
  PROVE  /\ Published(i).record = log[i].record /\ Published(i).kind = log[i].kind
         /\ Published(i).base = log[i].base /\ Published(i).version = log[i].version
         /\ Published(i).disposition = log[i].disposition
  BY DEF Published

LEMMA CurrentIsVersion ==
  ASSUME TypeOK, NEW r, NEW v
  PROVE  H!IsCurrent(r, v) <=> v = Version(r)
  <1>1. H!EntriesOf(r) = EntriesOf(r)
    BY PublishedFields DEF H!EntriesOf, EntriesOf, PublishedLog
  <1>2. \A i \in EntriesOf(r) : i \in Nat /\ PublishedLog[i].version = log[i].version
    BY LogFields, PublishedFields DEF EntriesOf, PublishedLog
  <1>3. CASE EntriesOf(r) = {} /\ Version(r) = 0
    BY <1>1, <1>3 DEF H!IsCurrent
  <1>4. ASSUME NEW i \in EntriesOf(r), \A j \in EntriesOf(r) : j <= i, Version(r) = log[i].version
        PROVE  H!IsCurrent(r, v) <=> v = Version(r)
    <2>1. \A k \in EntriesOf(r) : (\A j \in EntriesOf(r) : j <= k) => k = i
      BY <1>2, <1>4
    <2> QED
      BY <1>1, <1>2, <1>4, <2>1 DEF H!IsCurrent
  <1> QED
    BY <1>3, <1>4, VersionIs

LEMMA DeletedIsDeleted ==
  ASSUME TypeOK, NEW r, ~Deleted(r)
  PROVE  ~H!Deleted(r)
  BY PublishedFields DEF H!Deleted, H!EntriesOf, Deleted, Accepted, EntriesOf, PublishedLog

\* A decision is a step of the history.
LEMMA DecisionIsStep ==
  ASSUME ClientInv, ClientInv', NEW e, Decision(e), log' = Append(log, e)
  PROVE  H!Next
  <1>1. TypeOK /\ TypeOK'
    BY DEF ClientInv
  <1>2. PICK n : n = Len(log) + 1
    OBVIOUS
  <1>3. /\ Len(log) \in Nat /\ n \in Nat /\ n > 0 /\ DOMAIN log = 1..(n - 1) /\ n - 1 = Len(log)
        /\ DOMAIN log' = 1..n /\ n <= MaxLog
    <2>1. Len(log) \in Nat /\ DOMAIN log = 1..Len(log)
      BY <1>1, LogFields
    <2>2. Len(log') = Len(log) + 1 /\ DOMAIN log' = 1..(Len(log) + 1)
      BY <1>1, Appended
    <2>3. Len(log') <= MaxLog
      BY <1>1 DEF TypeOK
    <2> QED
      BY <1>2, <2>1, <2>2, <2>3
  <1>4. (\A i \in 1..(n - 1) : log'[i] = log[i]) /\ log'[n] = e
    BY <1>1, <1>2, <1>3, Appended
  <1>5. PICK p : p = [device |-> IF e.id = 0 THEN "other" ELSE "this",
                      id |-> IF e.id = 0 THEN MaxWrites + n ELSE e.id,
                      record |-> e.record, kind |-> e.kind, base |-> e.base,
                      disposition |-> e.disposition, version |-> e.version]
    OBVIOUS
  <1>6. /\ p.record = e.record /\ p.kind = e.kind /\ p.base = e.base
        /\ p.disposition = e.disposition /\ p.version = e.version
        /\ e.id = 0 => p.device = "other" /\ p.id = MaxWrites + n
        /\ e.id # 0 => p.device = "this" /\ p.id = e.id
    BY <1>5
  <1>7. p \in H!Entry
    <2>1. /\ e.record \in Records /\ e.kind \in H!Kinds /\ e.base \in Nat /\ e.version \in Nat
          /\ e.disposition \in H!Dispositions /\ e.id \in Nat /\ e.id <= MaxWrites
      BY EntryFields, ClientAssumption DEF Decision, H!Kinds, H!Dispositions
    <2>2. (IF e.id = 0 THEN MaxWrites + n ELSE e.id) \in 1..(MaxWrites + MaxLog)
      BY <1>3, <2>1, ClientAssumption
    <2> QED
      BY <1>5, <2>1, <2>2 DEF H!Entry
  <1>8. PublishedLog' = Append(PublishedLog, p) /\ Len(PublishedLog') = n
          /\ PublishedLog'[n] = p /\ PublishedLog' # << >>
    <2>1. PublishedLog = [i \in 1..(n - 1) |-> Published(i)]
      BY <1>3 DEF PublishedLog
    <2>2. ASSUME NEW i \in 1..n
          PROVE  PublishedLog'[i] = IF i = n THEN p ELSE PublishedLog[i]
      <3>1. CASE i = n
        BY <1>3, <1>4, <1>5, <3>1 DEF PublishedLog, Published
      <3>2. CASE i # n
        <4>1. i \in 1..(n - 1)
          BY <1>3, <3>2
        <4> QED
          BY <1>3, <1>4, <3>2, <4>1 DEF PublishedLog, Published
      <3> QED
        BY <3>1, <3>2
    <2> DEFINE S == {PublishedLog'[i] : i \in 1..n}
    <2>3. PublishedLog' \in [1..n -> S] /\ PublishedLog \in [1..(n - 1) -> S] /\ p \in S
      <3>1. DOMAIN PublishedLog' = 1..n /\ PublishedLog' = [i \in 1..n |-> PublishedLog'[i]]
        BY <1>3 DEF PublishedLog
      <3>2. \A i \in 1..(n - 1) : i \in 1..n /\ i # n
        BY <1>3
      <3>3. n \in 1..n
        BY <1>3
      <3> QED
        BY <2>1, <2>2, <3>1, <3>2, <3>3
    <2> HIDE DEF S
    <2>4. /\ PublishedLog' \in Seq(S) /\ PublishedLog \in Seq(S)
          /\ Len(PublishedLog') = n /\ Len(PublishedLog) = n - 1
      BY <1>3, <2>3
    <2>5. PublishedLog' = Append(PublishedLog, p)
      BY <1>3, <2>2, <2>3, <2>4
    <2>6. PublishedLog'[n] = p /\ PublishedLog' # << >>
      BY <1>3, <2>2, <2>4
    <2> QED
      BY <2>4, <2>5, <2>6
  <1>9. ~H!Decided(p.device, p.id)
    <2> SUFFICES ASSUME NEW i \in DOMAIN log, Published(i).device = p.device, Published(i).id = p.id
                 PROVE  FALSE
      BY DEF H!Decided, PublishedLog
    <2>1. /\ log[i].id = 0 => Published(i).device = "other" /\ Published(i).id = MaxWrites + i
          /\ log[i].id # 0 => Published(i).device = "this" /\ Published(i).id = log[i].id
      BY DEF Published
    <2>2. CASE e.id = 0
      <3>1. MaxWrites + i = MaxWrites + n
        BY <1>6, <2>1, <2>2
      <3> QED
        BY <1>3, <3>1, ClientAssumption
    <2>3. CASE e.id # 0
      <3>1. log[i].id = e.id
        BY <1>6, <2>1, <2>3
      <3> QED
        BY <2>3, <3>1 DEF Decision, FromHere
    <2> QED
      BY <2>2, <2>3
  <1>10. H!Accept(p) \/ H!Conflict(p)
    <2>1. CASE AcceptedEntry(e)
      BY <1>1, <1>6, <2>1, CurrentIsVersion, DeletedIsDeleted DEF AcceptedEntry, Decision, H!Accept
    <2>2. CASE ConflictEntry(e)
      <3>1. /\ H!IsCurrent(p.record, 0) <=> Version(e.record) = 0
            /\ H!IsCurrent(p.record, p.version) <=> p.version = Version(e.record)
        BY <1>1, <1>6, CurrentIsVersion
      <3> QED
        BY <1>6, <2>2, <3>1 DEF ConflictEntry, Decision, H!Conflict
    <2> QED
      BY <2>1, <2>2 DEF Decision
  <1> QED
    BY <1>7, <1>8, <1>9, <1>10 DEF H!Next, H!Decide

\* No retry, resend, crash or late request makes the service decide a mutation twice: what it
\* keeps, seen from this device, is a history in which the version of a record moves by one.
THEOREM ServiceKeepsHistory == Spec => ServiceIsHistory
  <1>1. Init => H!Init
    BY DEF Init, H!Init, PublishedLog
  <1>2. ClientInv /\ ClientInv' /\ [Next]_vars => [H!Next]_PublishedLog
    <2> SUFFICES ASSUME ClientInv, ClientInv', [Next]_vars
                 PROVE  H!Next \/ PublishedLog' = PublishedLog
      BY DEF PublishedLog
    <2>1. CASE log' = log
      BY <2>1 DEF PublishedLog, Published
    <2>2. ASSUME NEW e, Decision(e), log' = Append(log, e)
          PROVE  H!Next
      BY <2>2, DecisionIsStep
    <2> QED
      BY <2>1, <2>2, NextContinues DEF Continues
  <1> QED
    BY <1>1, <1>2, InitClient, NextClient, PTL DEF Spec, ServiceIsHistory, H!Spec

----------------------------------------------------------------------------

(***************************************************************************)
(* What is settled is equal.  The invariant speaks of records without      *)
(* contests, resolutions and refusals, which once had one never lose it:   *)
(* their rows were made at versions that went up, and where none of them   *)
(* is behind, the device shows the newest of them, or, when nothing is     *)
(* queued, the change its version came with.                               *)
(***************************************************************************)

Plain(r) ==
  /\ \A i \in EntriesOf(r) : log[i].disposition = "accepted" /\ log[i].kind # "resolve"
  /\ \A rec \in receipts : rec.m.record = r => rec.answer.disposition # "rejected"

Queue(r) == {row.m : row \in RowsOf(r)}
NewestOf(m, ms) == \A other \in ms : other.id <= m.id

\* The content of change i: the write it came from, or what another device wrote.
Standing(i) == IF log[i].id = 0 THEN -i ELSE log[i].id

InStep(r) ==
  /\ \A a, b \in Queue(r) : a.id <= b.id => a.base <= b.base
  /\ \A m \in Queue(r) : m.base <= local[r].version

Shows(r) ==
  (\A m \in Queue(r) : m.base = local[r].version) =>
    IF Queue(r) = {}
      THEN \E i \in EntriesOf(r) : /\ log[i].version = local[r].version
                                   /\ local[r].content = Standing(i)
      ELSE \A m \in Queue(r) : NewestOf(m, Queue(r)) => local[r].content = m.id

ResolvesInv == \A i \in DOMAIN log : log[i].kind # "resolve" => log[i].resolves = {}

ContentInv == \A r \in Records : Present(r) /\ Plain(r) => InStep(r) /\ Shows(r)

SettledInv == ResolvesInv /\ ContentInv

LEMMA QueueFields ==
  ASSUME TypeOK, NEW r, NEW m \in Queue(r)
  PROVE  /\ m \in Mutation /\ m.id \in Nat /\ m.base \in Nat /\ m.record = r
         /\ \E row \in outbox : row.m = m
  <1>1. PICK row \in outbox : row.m = m /\ row.m.record = r
    BY DEF Queue, RowsOf
  <1>2. row \in Row
    BY OneRow
  <1> QED
    BY <1>1, <1>2, RowFields

\* What the service adds for a mutation settles no conflict.
LEMMA AddedSettlesNothing ==
  ASSUME NEW m, NEW o \in Outcomes(m)
  PROVE  \/ o.added = << >>
         \/ \E e : o.added = <<e>> /\ e.resolves = {} /\ e.id = m.id /\ e.kind = Kind(m)
  <1>1. ASSUME NEW disposition, o = Declines(disposition)
        PROVE  o.added = << >>
    BY <1>1 DEF Declines
  <1>2. ASSUME NEW i, o = Replay(i, m)
        PROVE  o.added = << >>
    <2>1. CASE Says(i, m)
      BY <1>2, <2>1 DEF Replay
    <2>2. CASE ~Says(i, m)
      BY <1>1, <1>2, <2>2 DEF Replay
    <2> QED
      BY <2>1, <2>2
  <1>3. ASSUME NEW disposition, NEW version, o = Adds(m, disposition, version)
        PROVE  \E e : o.added = <<e>> /\ e.resolves = {} /\ e.id = m.id /\ e.kind = Kind(m)
    <2>1. PICK e : e = NewEntry(m, disposition, version)
      OBVIOUS
    <2>3. e.resolves = {} /\ e.id = m.id /\ e.kind = Kind(m)
      BY <2>1 DEF NewEntry
    <2>2. o.added = <<e>>
      BY <1>3, <2>1 DEF Adds
    <2> QED
      BY <2>2, <2>3
  <1>4. \/ \E i : o = Replay(i, m)
        \/ \E disposition : o = Declines(disposition)
        \/ \E disposition, version : o = Adds(m, disposition, version)
    BY DEF Outcomes
  <1> QED
    BY <1>1, <1>2, <1>3, <1>4

\* An entry that the service adds: a resolution settles what is open, and nobody
\* else creates a record of this device.
Grows(e) ==
  /\ Decision(e)
  /\ IF e.kind = "resolve"
       THEN e.disposition = "accepted" /\ e.resolves \subseteq Open(e.record)
       ELSE e.resolves = {}
  /\ e.id = 0 /\ Present(e.record) => EntriesOf(e.record) # {}

LEMMA NextGrows ==
  ASSUME ClientInv, [Next]_vars
  PROVE  log' = log \/ (UNCHANGED store /\ \E e : Grows(e) /\ log' = Append(log, e))
  <1>1. TypeOK /\ log \in Seq(Entry) /\ Continues
    BY NextContinues DEF ClientInv, TypeOK
  <1>2. ASSUME NEW e, log' = Append(log, e),
               IF e.kind = "resolve"
                 THEN e.disposition = "accepted" /\ e.resolves \subseteq Open(e.record)
                 ELSE e.resolves = {},
               e.id = 0 /\ Present(e.record) => EntriesOf(e.record) # {}
        PROVE  Grows(e)
    <2>1. Len(log) + 1 \in DOMAIN log' /\ log'[Len(log) + 1] = e /\ Len(log') = Len(log) + 1
      BY <1>1, <1>2, Appended
    <2>2. log' # log
      BY <1>1, <2>1, LogFields
    <2>3. PICK d : Decision(d) /\ log' = Append(log, d)
      BY <1>1, <2>2 DEF Continues
    <2>4. d = e
      BY <1>1, <2>1, <2>3, Appended
    <2> QED
      BY <1>2, <2>3, <2>4 DEF Grows
  <1>3. ASSUME NEW m \in Mutation, NEW o \in Outcomes(m), Extends(o)
        PROVE  log' = log \/ \E e : Grows(e) /\ log' = Append(log, e)
    <2>1. log' = log \o o.added
      BY <1>3 DEF Extends
    <2>2. CASE o.added = << >>
      BY <1>1, <2>1, <2>2
    <2>3. ASSUME NEW e, o.added = <<e>>, e.resolves = {}, e.id = m.id, e.kind = Kind(m)
          PROVE  \E x : Grows(x) /\ log' = Append(log, x)
      <3>1. log \o <<e>> = Append(log, e)
        BY <1>1
      <3>2. e.id # 0 /\ e.kind # "resolve"
        BY <2>3, MutationFields
      <3> QED
        BY <1>2, <2>1, <2>3, <3>1, <3>2
    <2> QED
      BY <1>3, <2>2, <2>3, AddedSettlesNothing
  <1>4. ASSUME NEW r \in Records, NEW e \in ForeignEntries(r), log' = Append(log, e)
        PROVE  Grows(e)
    <2>1. PICK v : v = Version(r)
      OBVIOUS
    <2>2. v = 0 <=> EntriesOf(r) = {}
      BY <1>1, <2>1, VersionOfNothing
    <2>3. \E kind, base, disposition, version, resolves :
            /\ e = ForeignEntry(r, kind, base, disposition, version, resolves)
            /\ IF kind = "resolve"
                 THEN disposition = "accepted" /\ resolves \subseteq Open(r)
                 ELSE resolves = {}
            /\ Present(r) => v # 0
      BY <1>1, <1>4, <2>1, VersionBounds DEF ForeignEntries
    <2>4. PICK kind, base, disposition, version, resolves :
            /\ e = ForeignEntry(r, kind, base, disposition, version, resolves)
            /\ IF kind = "resolve"
                 THEN disposition = "accepted" /\ resolves \subseteq Open(r)
                 ELSE resolves = {}
            /\ Present(r) => v # 0
      BY <2>3
    <2>5. /\ e.kind = kind /\ e.resolves = resolves /\ e.disposition = disposition
          /\ e.record = r
      BY <2>4 DEF ForeignEntry
    <2> QED
      BY <1>2, <1>4, <2>2, <2>4, <2>5
  <1>5. CASE DecideLate
    <2>1. UNCHANGED store /\ late \subseteq Mutation
      BY <1>1, <1>5 DEF DecideLate, TypeOK
    <2> QED
      BY <1>3, <1>5, <2>1 DEF DecideLate
  <1>6. CASE OtherDevice
    BY <1>4, <1>6 DEF OtherDevice
  <1>7. CASE Push
    <2>1. PICK n : n = Len(run.answers) + 1
      OBVIOUS
    <2>2. PICK o \in Outcomes(run.claims[n]) : Extends(o)
      BY <1>7, <2>1 DEF Push
    <2>3. run.pc = "push" /\ Unanswered # {} /\ UNCHANGED store
      BY <1>7 DEF Push
    <2>4. n \in DOMAIN run.claims
      <3>1. /\ run.claims \in Seq(Mutation) /\ run.answers \in Seq(Answer)
            /\ Len(run.answers) \in Nat /\ Len(run.claims) \in Nat
            /\ DOMAIN run.claims = 1..Len(run.claims)
        BY <1>1 DEF TypeOK
      <3> QED
        BY <2>1, <2>3, <3>1 DEF Unanswered
    <2>5. run.claims[n] \in Mutation
      BY <2>3, <2>4, ClaimsAreSent
    <2> QED
      BY <1>3, <2>2, <2>3, <2>5
  <1>8. DecideLate \/ OtherDevice \/ Push \/ log' = log
    <2>1. ASSUME NEW r \in Records, Save(r) \/ Forget(r)
          PROVE  log' = log
      BY <2>1 DEF Save, Forget, Enqueue, server
    <2>2. Start \/ CheckQueue \/ Receive \/ PullEnds \/ Stop \/ Resend => log' = log
      BY DEF Start, CheckQueue, Receive, PullEnds, Stop, Resend, server
    <2>3. GiveUp \/ LoseAnswers => log' = log
      BY DEF GiveUp, LoseAnswers, server
    <2>4. ApplySyncPushResult \/ ApplyProjectPulledPage => log' = log
      BY DEF ApplySyncPushResult, ApplyProjectPulledPage, server
    <2>5. ClaimDueSyncOutbox => UNCHANGED server
      BY Zenon DEF ClaimDueSyncOutbox
    <2>6. Tick => UNCHANGED server
      BY Zenon DEF Tick
    <2>7. UNCHANGED vars \/ UNCHANGED server => log' = log
      BY DEF vars, server
    <2> QED
      BY <2>1, <2>2, <2>3, <2>4, <2>5, <2>6, <2>7 DEF Next, Run, Faults
  <1> QED
    BY <1>5, <1>6, <1>7, <1>8

\* Only a resolution settles conflicts.
LEMMA ResolvesStep ==
  ASSUME ClientInv, ResolvesInv, [Next]_vars
  PROVE  ResolvesInv'
  <1>1. TypeOK
    BY DEF ClientInv
  <1>2. CASE log' = log
    BY <1>2 DEF ResolvesInv
  <1>3. ASSUME NEW e, Grows(e), log' = Append(log, e)
        PROVE  ResolvesInv'
    BY <1>1, <1>3, Appended DEF ResolvesInv, Grows
  <1> QED
    BY <1>2, <1>3, NextGrows

\* Contests, resolutions and refusals stay.
LEMMA PlainBefore ==
  ASSUME TypeOK, Continues, \A rec \in receipts : rec \in receipts', NEW r, Plain(r)'
  PROVE  Plain(r)
  BY Kept DEF Plain, EntriesOf

\* A record whose row and queue stay shows what it did.
LEMMA QuietRecord ==
  ASSUME TypeOK, Continues, NEW r \in Records, InStep(r), Shows(r),
         local'[r] = local[r], Queue(r)' = Queue(r)
  PROVE  (InStep(r) /\ Shows(r))'
  <1>1. InStep(r)'
    BY DEF InStep
  <1>2. ASSUME NEW i \in EntriesOf(r)
        PROVE  i \in EntriesOf(r)' /\ log'[i] = log[i] /\ Standing(i)' = Standing(i)
    BY <1>2, Kept DEF EntriesOf, Standing
  <1>3. Shows(r)'
    <2>1. CASE Queue(r) = {}
      BY <1>2, <2>1 DEF Shows
    <2>2. CASE Queue(r) # {}
      BY <2>2 DEF Shows, NewestOf
    <2> QED
      BY <2>1, <2>2
  <1> QED
    BY <1>1, <1>3

\* The steps that move leases keep what is queued.
LEMMA SameQueue ==
  ASSUME SameRows, NEW r
  PROVE  Queue(r)' = Queue(r)
  <1>1. \A row \in outbox : \E new \in outbox' : new.m = row.m
    BY DEF SameRows
  <1>2. \A new \in outbox' : \E row \in outbox : new.m = row.m
    BY DEF SameRows
  <1> QED
    BY <1>1, <1>2 DEF Queue, RowsOf

\* A step that moves rows of r only keeps the queues of the others.
LEMMA OtherQueue ==
  ASSUME NEW r, NEW s, s # r,
         \A row \in outbox : row.m.record = s => row \in outbox',
         \A row \in outbox' : row.m.record = s => row \in outbox
  PROVE  Queue(s)' = Queue(s)
  BY DEF Queue, RowsOf

LEMMA ClaimKeepsQueue ==
  ASSUME ClientInv, ClaimDueSyncOutbox, NEW r
  PROVE  Queue(r)' = Queue(r)
  <1>1. PICK taken \in SUBSET outbox :
          outbox' = (outbox \ taken) \cup {[row EXCEPT !.lease = Lease] : row \in taken}
    BY DEF ClaimDueSyncOutbox
  <1>2. \A row \in taken : row \in Row
    BY OneRow DEF ClientInv
  <1>3. \A row \in Row : [row EXCEPT !.lease = Lease].m = row.m
    BY DEF Row
  <1>4. \A row \in outbox : \E new \in outbox' : new.m = row.m
    BY <1>1, <1>2, <1>3
  <1>5. \A new \in outbox' : \E row \in outbox : new.m = row.m
    BY <1>1, <1>2, <1>3
  <1> QED
    BY <1>4, <1>5 DEF Queue, RowsOf

LEMMA TickKeepsQueue ==
  ASSUME ClientInv, Tick, NEW r
  PROVE  Queue(r)' = Queue(r)
  <1> DEFINE F(row) == [row EXCEPT !.wait = 0,
                                   !.lease = IF Held(row) THEN row.lease - 1 ELSE row.lease]
  <1>1. \A row \in Row : F(row).m = row.m
    BY DEF Row
  <1>2. outbox' = {F(row) : row \in outbox}
    BY DEF Tick
  <1> HIDE DEF F
  <1>3. \A row \in outbox : row \in Row
    BY OneRow DEF ClientInv
  <1>4. \A row \in outbox : \E new \in outbox' : new.m = row.m
    BY <1>1, <1>2, <1>3
  <1>5. \A new \in outbox' : \E row \in outbox : new.m = row.m
    BY <1>1, <1>2, <1>3
  <1> QED
    BY <1>4, <1>5 DEF Queue, RowsOf

\* A write is the newest of its record, at the version it was made of.
LEMMA WriteShows ==
  ASSUME ClientInv, NEW s \in Records, NEW archived \in BOOLEAN, Enqueue(s, archived),
         NEW r \in Records, Present(r) => InStep(r) /\ Shows(r), Present(r)'
  PROVE  (InStep(r) /\ Shows(r))'
  <1>1. PICK id : id = writes + 1
    OBVIOUS
  <1>2. PICK v : v = IF Present(s) THEN local[s].version ELSE 0
    OBVIOUS
  <1>3. PICK m : m = [id |-> id, record |-> s, base |-> v, archived |-> archived]
    OBVIOUS
  <1>4. PICK new : new = [m |-> m, wait |-> 0, lease |-> Unclaimed]
    OBVIOUS
  <1>5. PICK here : here = [state |-> IF archived THEN "archived" ELSE "active",
                            version |-> v, content |-> id]
    OBVIOUS
  <1>6. /\ outbox' = outbox \cup {new} /\ local' = [local EXCEPT ![s] = here]
        /\ log' = log
    BY <1>1, <1>2, <1>3, <1>4, <1>5 DEF Enqueue, server
  <1>7. TypeOK /\ TableInv /\ Continues
    BY <1>6 DEF ClientInv, Continues
  <1>8. writes \in Nat /\ id \in Nat /\ id > writes /\ DOMAIN local = Records
    BY <1>1, <1>7, ClientAssumption DEF TypeOK
  <1>9. v = local[s].version /\ v \in Nat
    BY <1>2, <1>7, LocalFields DEF TableInv, AbsentInv
  <1>10. new.m = m /\ m.id = id /\ m.record = s /\ m.base = v
    BY <1>3, <1>4
  <1>11. here.version = v /\ here.content = id
    BY <1>5
  <1>12. CASE r # s
    <2>1. local'[r] = local[r]
      BY <1>6, <1>8, <1>12
    <2>2. Queue(r)' = Queue(r)
      BY <1>6, <1>10, <1>12 DEF Queue, RowsOf
    <2>3. Present(r)
      BY <2>1 DEF Present
    <2> QED
      BY <1>7, <2>1, <2>2, <2>3, QuietRecord
  <1>13. CASE r = s
    <2>1. local'[r] = here
      BY <1>6, <1>8, <1>13
    <2>2. Queue(r)' = Queue(r) \cup {m}
      BY <1>6, <1>10, <1>13 DEF Queue, RowsOf
    <2>3. \A x \in Queue(r) : x.id \in Nat /\ x.base \in Nat /\ x.id < id
      <3>1. ASSUME NEW x \in Queue(r)
            PROVE  x.id <= writes
        <4>1. PICK row \in outbox : row.m = x
          BY <3>1, <1>7, QueueFields
        <4> QED
          BY <1>7, <4>1 DEF TableInv, RowInv
      <3> QED
        BY <1>7, <1>8, <3>1, QueueFields
    <2>4. \A x \in Queue(r) : x.base <= v
      <3>1. CASE Present(r)
        BY <1>9, <1>13, <3>1 DEF InStep
      <3>2. CASE ~Present(r)
        <4>1. \A row \in outbox : row.m.record # r
          BY <1>7, <3>2 DEF TableInv, AbsentInv
        <4> QED
          BY <4>1 DEF Queue, RowsOf
      <3> QED
        BY <3>1, <3>2
    <2>5. \A a, b \in Queue(r) : a.id <= b.id => a.base <= b.base
      <3>1. CASE Present(r)
        BY <3>1 DEF InStep
      <3>2. CASE ~Present(r)
        <4>1. \A row \in outbox : row.m.record # r
          BY <1>7, <3>2 DEF TableInv, AbsentInv
        <4> QED
          BY <4>1 DEF Queue, RowsOf
      <3> QED
        BY <3>1, <3>2
    <2>6. InStep(r)'
      <3>1. \A x \in Queue(r)' : x.base <= local'[r].version
        BY <1>9, <1>10, <1>11, <2>1, <2>2, <2>4
      <3>2. ASSUME NEW a \in Queue(r)', NEW b \in Queue(r)', a.id <= b.id
            PROVE  a.base <= b.base
        <4>1. CASE b = m
          BY <1>9, <1>10, <2>2, <2>4, <4>1
        <4>2. CASE b # m
          <5>1. b \in Queue(r) /\ a # m
            BY <1>8, <1>10, <2>2, <2>3, <3>2, <4>2
          <5> QED
            BY <2>2, <2>5, <3>2, <5>1
        <4> QED
          BY <4>1, <4>2
      <3> QED
        BY <3>1, <3>2 DEF InStep
    <2>7. ASSUME NEW x \in Queue(r)', NewestOf(x, Queue(r)')
          PROVE  x = m
      BY <1>8, <1>10, <2>2, <2>3, <2>7 DEF NewestOf
    <2>8. Shows(r)'
      <3>1. \A x \in Queue(r)' : NewestOf(x, Queue(r)') => local'[r].content = x.id
        BY <1>10, <1>11, <2>1, <2>7
      <3> QED
        BY <2>2, <3>1 DEF Shows, NewestOf
    <2> QED
      BY <2>6, <2>8
  <1> QED
    BY <1>12, <1>13

\* A pulled change is what the device shows, or what is queued is behind it.
LEMMA PullShows ==
  ASSUME ClientInv, ApplyProjectPulledPage,
         NEW r \in Records, Present(r) => InStep(r) /\ Shows(r), Present(r)', Plain(r)
  PROVE  (InStep(r) /\ Shows(r))'
  <1>1. PICK n : n = position + 1
    OBVIOUS
  <1>2. PICK e : e = log[n]
    OBVIOUS
  <1>3. Pulling /\ UNCHANGED log
    BY DEF ApplyProjectPulledPage, server
  <1>4. /\ n \in DOMAIN log /\ e.record \in Records /\ e.base \in Nat /\ e.version \in Nat
        /\ e.disposition = "accepted" => e.version = e.base + 1
        /\ e.kind = "create" <=> e.base = 0
        /\ Change = e /\ Content = IF e.id = 0 THEN -n ELSE e.id
    BY <1>1, <1>2, <1>3, ChangeIs
  <1>5. TypeOK /\ TableInv /\ Continues /\ DOMAIN local = Records
    BY <1>3 DEF ClientInv, Continues, TypeOK
  <1>6. CASE UNCHANGED <<local, outbox>>
    <2>1. Queue(r)' = Queue(r) /\ local'[r] = local[r]
      BY <1>6 DEF Queue, RowsOf
    <2>2. Present(r)
      BY <2>1 DEF Present
    <2> QED
      BY <1>5, <2>1, <2>2, QuietRecord
  <1>7. ASSUME NEW state, UNCHANGED outbox, e.disposition = "accepted",
               Store(e.record, [state |-> state, version |-> e.version, content |-> Content]),
               local[e.record].version = e.base
        PROVE  (InStep(r) /\ Shows(r))'
    <2>1. PICK here : here = [state |-> state, version |-> e.version, content |-> Content]
      OBVIOUS
    <2>2. here.version = e.version /\ here.content = Content
      BY <2>1
    <2>3. local' = [local EXCEPT ![e.record] = here]
      BY <1>7, <2>1 DEF Store
    <2>4. Queue(r)' = Queue(r)
      BY <1>7 DEF Queue, RowsOf
    <2>5. CASE r # e.record
      <3>1. local'[r] = local[r]
        BY <1>5, <2>3, <2>5
      <3>2. Present(r)
        BY <3>1 DEF Present
      <3> QED
        BY <1>5, <2>4, <3>1, <3>2, QuietRecord
    <2>6. CASE r = e.record
      <3>1. local'[r].version = e.version /\ local'[r].content = Content
        BY <1>5, <2>2, <2>3, <2>6
      <3>2. /\ \A x \in Queue(r) : x.base \in Nat /\ x.base <= e.base
            /\ \A a, b \in Queue(r) : a.id <= b.id => a.base <= b.base
        <4>1. CASE Present(r)
          BY <1>5, <1>7, <2>6, <4>1, QueueFields DEF InStep
        <4>2. CASE ~Present(r)
          <5>1. \A row \in outbox : row.m.record # r
            BY <1>5, <4>2 DEF TableInv, AbsentInv
          <5> QED
            BY <5>1 DEF Queue, RowsOf
        <4> QED
          BY <4>1, <4>2
      <3>3. e.version = e.base + 1
        BY <1>4, <1>7
      <3>4. InStep(r)'
        <4>1. \A x \in Queue(r) : x.base <= e.version
          BY <1>4, <3>2, <3>3
        <4> QED
          BY <2>4, <3>1, <3>2, <4>1 DEF InStep
      <3>5. Shows(r)'
        <4>1. CASE Queue(r) = {}
          <5>1. n \in EntriesOf(r)' /\ log'[n] = e
            BY <1>2, <1>3, <1>4, <2>6 DEF EntriesOf
          <5>2. Standing(n)' = Content
            BY <1>4, <5>1 DEF Standing
          <5> QED
            BY <2>4, <3>1, <4>1, <5>1, <5>2 DEF Shows
        <4>2. CASE Queue(r) # {}
          <5>1. PICK x \in Queue(r) : TRUE
            BY <4>2
          <5>2. x.base # e.version
            BY <1>4, <3>2, <3>3, <5>1
          <5> QED
            BY <2>4, <3>1, <5>1, <5>2 DEF Shows
        <4> QED
          BY <4>1, <4>2
      <3> QED
        BY <3>4, <3>5
    <2> QED
      BY <2>5, <2>6
  <1>8. CASE ApplyEcho \/ ApplyConflict
    BY <1>6, <1>8 DEF ApplyEcho, ApplyConflict, ConflictFits
  <1>9. CASE e.disposition = "accepted" /\ ApplyCreate
    <2>1. e.base = 0 /\ e.version = 1
      BY <1>4, <1>9 DEF ApplyCreate, CreateFits
    <2>2. Store(e.record, [state |-> "active", version |-> e.version, content |-> Content])
      BY <1>4, <1>9, <2>1 DEF ApplyCreate, CreateFits
    <2>3. local[e.record].version = e.base /\ UNCHANGED outbox
      BY <1>4, <1>5, <1>9, <2>1 DEF ApplyCreate, CreateFits, TableInv, AbsentInv
    <2> QED
      BY <1>7, <1>9, <2>2, <2>3
  <1>10. CASE e.disposition = "accepted" /\ ApplyUpdate
    <2>1. PICK state : state = IF e.kind = "archive" THEN "archived" ELSE "active"
      OBVIOUS
    <2>2. Store(e.record, [state |-> state, version |-> e.version, content |-> Content])
      BY <1>4, <1>10, <2>1 DEF ApplyUpdate, UpdateFits, Editable
    <2>3. local[e.record].version = e.base /\ UNCHANGED outbox
      BY <1>4, <1>10 DEF ApplyUpdate, UpdateFits, Editable, Follows
    <2> QED
      BY <1>7, <1>10, <2>2, <2>3
  <1>11. CASE e.disposition = "accepted" /\ ApplyTombstone
    <2>1. Store(e.record, [state |-> "tombstoned", version |-> e.version, content |-> Content])
      BY <1>4, <1>11 DEF ApplyTombstone, TombstoneFits
    <2>2. local[e.record].version = e.base /\ UNCHANGED outbox
      BY <1>4, <1>11 DEF ApplyTombstone, TombstoneFits, Follows
    <2> QED
      BY <1>7, <1>11, <2>1, <2>2
  <1>12. CASE ApplyResolve
    <2>1. e.kind = "resolve"
      BY <1>4, <1>12 DEF ApplyResolve, ResolveFits, Editable
    <2>2. r # e.record
      BY <1>2, <1>4, <2>1 DEF Plain, EntriesOf
    <2>3. PICK here : local' = [local EXCEPT ![e.record] = here]
      BY <1>4, <1>12 DEF ApplyResolve, ResolveFits, Editable, Store
    <2>4. local'[r] = local[r]
      BY <1>5, <2>2, <2>3
    <2>5. PICK rows : rows = RowsOf(e.record)
      OBVIOUS
    <2>6. outbox' = (outbox \ rows) \cup Rebased(rows, e.version)
      BY <1>4, <1>12, <2>5 DEF ApplyResolve, ResolveFits, Editable
    <2>7. \A row \in Rebased(rows, e.version) : row.m.record = e.record
      <3>1. \A row \in rows : row \in Row /\ row.m.record = e.record
        BY <1>5, <2>5, OneRow DEF RowsOf
      <3>2. \A row \in Row : [row EXCEPT !.m.base = e.version].m.record = row.m.record
        BY DEF Row, Mutation
      <3> QED
        BY <3>1, <3>2 DEF Rebased
    <2>8. Queue(r)' = Queue(r)
      <3>1. \A row \in outbox : row.m.record = r => row \in outbox'
        BY <2>2, <2>5, <2>6 DEF RowsOf
      <3>2. \A row \in outbox' : row.m.record = r => row \in outbox
        BY <2>2, <2>6, <2>7
      <3> QED
        BY <2>2, <3>1, <3>2, OtherQueue
    <2>9. Present(r)
      BY <2>4 DEF Present
    <2> QED
      BY <1>5, <2>4, <2>8, <2>9, QuietRecord
  <1> QED
    BY <1>4, <1>8, <1>9, <1>10, <1>11, <1>12 DEF ApplyProjectPulledPage, ApplyChange

\* The one row that a rebase leaves is the newest, at the new version.
LEMMA RebasedRows ==
  ASSUME TypeOK, NEW rows \in SUBSET outbox, NEW version
  PROVE  /\ \A new \in Rebased(rows, version) :
              /\ new.m.base = version
              /\ \E row \in rows : /\ new.m.id = row.m.id /\ new.m.record = row.m.record
                                   /\ \A other \in rows : other.m.id <= row.m.id
         /\ rows = {} => Rebased(rows, version) = {}
         /\ rows # {} => Rebased(rows, version) # {}
  <1> DEFINE F(row) == [row EXCEPT !.m.base = version]
             last == {row \in rows : \A other \in rows : other.m.id <= row.m.id}
  <1>1. \A row \in Row : /\ F(row).m.base = version /\ F(row).m.id = row.m.id
                         /\ F(row).m.record = row.m.record
    BY DEF Row, Mutation
  <1>2. Rebased(rows, version) = {F(row) : row \in last}
    BY DEF Rebased
  <1> HIDE DEF F
  <1>3. \A row \in rows : row \in Row /\ row.m.id \in 0..MaxWrites
    BY OneRow, RowFields, MutationFields, ClientAssumption
  <1>4. ASSUME rows # {}
        PROVE  last # {}
    <2>1. PICK ids : ids = {row.m.id : row \in rows}
      OBVIOUS
    <2>2. ids \in SUBSET (0..MaxWrites) /\ ids # {}
      BY <1>3, <1>4, <2>1
    <2>3. PICK top \in ids : \A id \in ids : id <= top
      BY <2>2, MaxIs, ClientAssumption
    <2> QED
      BY <2>1, <2>3
  <1> QED
    BY <1>1, <1>2, <1>3, <1>4

\* An answer that is recorded is about the oldest row at the local version, so
\* no row is behind and the device shows the newest: the answered write itself,
\* or the one that stands for all later ones.
LEMMA AnswerShows ==
  ASSUME ClientInv, run.pc = "apply", UNCHANGED log,
         NEW m, m = Head(run.claims), NEW a, a = Head(run.answers), Complete(m, a),
         a.disposition # "retry",
         NEW r \in Records, Present(r) => InStep(r) /\ Shows(r), Present(r)', Plain(r), Plain(r)'
  PROVE  (InStep(r) /\ Shows(r))'
  <1>1. TypeOK /\ TableInv /\ Continues /\ DOMAIN local = Records
    BY DEF ClientInv, Continues, TypeOK
  <1>2. /\ m \in Mutation /\ a \in Answer /\ Tells(a, m) /\ local[m.record].version = m.base
    BY HeadIs
  <1>3. PICK row0 \in outbox : row0.m = m /\ Claimed(row0)
    BY HeadIs
  <1>4. a.disposition = "retry" \/ Settles(m, a)
    BY HeadSettles
  <1>5. m.record \in Records /\ m.id \in Nat /\ m.base \in Nat
    BY <1>2, MutationFields
  <1>6. PICK later : later = IF a.disposition = "accepted" THEN Later(m) ELSE {}
    OBVIOUS
  <1>7. RowOf(m.id) = {row0}
    BY <1>1, <1>3 DEF TypeOK, RowOf
  <1>8. /\ outbox' = (outbox \ ({row0} \cup later)) \cup Rebased(later, a.version)
        /\ local' = [local EXCEPT ![m.record].version = VersionAfter(m, a)]
    BY <1>6, <1>7 DEF Complete
  <1>9. /\ later \in SUBSET outbox
        /\ \A row \in later : row.m.record = m.record
    BY <1>6 DEF Later, RowsOf
  <1>10. /\ \A new \in Rebased(later, a.version) :
              /\ new.m.base = a.version
              /\ \E row \in later : /\ new.m.id = row.m.id /\ new.m.record = row.m.record
                                    /\ \A other \in later : other.m.id <= row.m.id
         /\ later = {} => Rebased(later, a.version) = {}
         /\ later # {} => Rebased(later, a.version) # {}
    BY <1>1, <1>9, RebasedRows
  <1>11. CASE r # m.record
    <2>1. local'[r] = local[r]
      BY <1>1, <1>8, <1>11
    <2>2. Queue(r)' = Queue(r)
      <3>1. \A row \in outbox : row.m.record = r => row \in outbox'
        BY <1>3, <1>8, <1>9, <1>11
      <3>2. \A row \in outbox' : row.m.record = r => row \in outbox
        BY <1>8, <1>9, <1>10, <1>11
      <3> QED
        BY <1>11, <3>1, <3>2, OtherQueue
    <2>3. Present(r)
      BY <2>1 DEF Present
    <2> QED
      BY <1>1, <2>1, <2>2, <2>3, QuietRecord
  <1>12. CASE r = m.record
    <2>1. a.disposition = "accepted"
      <3>1. PICK rec : rec = [m |-> m, answer |-> a]
        OBVIOUS
      <3>2. rec \in receipts' /\ rec.m = m /\ rec.answer = a
        BY <3>1 DEF Complete
      <3>3. a.disposition # "rejected"
        BY <1>12, <3>2 DEF Plain
      <3>4. ASSUME a.disposition = "conflict"
            PROVE  FALSE
        BY <1>2, <1>12, <3>4 DEF Tells, Says, Plain, EntriesOf
      <3> QED
        BY <1>2, <3>3, <3>4, AnswerFields
    <2>2. a.version = m.base + 1
      BY <1>4, <2>1 DEF Settles
    <2>3. later = Later(m)
      BY <1>6, <2>1
    <2>4. local'[r].version = a.version /\ local'[r].content = local[r].content
      <3>1. local[r] \in [state : {"absent", "active", "archived", "tombstoned"},
                          version : 0..MaxLog, content : -MaxLog..MaxWrites]
        BY <1>1 DEF TypeOK
      <3>2. local'[r] = [local[r] EXCEPT !.version = VersionAfter(m, a)]
        BY <1>1, <1>8, <1>12
      <3>3. VersionAfter(m, a) = a.version
        BY <2>1 DEF VersionAfter
      <3> QED
        BY <3>1, <3>2, <3>3
    <2>5. Present(r)
      BY <1>1, <1>3, <1>12 DEF TableInv, AbsentInv
    <2>6. InStep(r) /\ Shows(r)
      BY <2>5
    <2>7. m \in Queue(r)
      BY <1>3, <1>12 DEF Queue, RowsOf
    <2>8. Oldest(row0)
      BY <1>1, <1>3 DEF TableInv, RowInv
    <2>9. \A row \in outbox : row.m.record = r => row.m.id \in Nat /\ m.id <= row.m.id
      BY <1>1, <1>3, <1>12, <2>8, OneRow, RowFields DEF Oldest, RowsOf
    <2>10. \A x \in Queue(r) : x.base = local[r].version
      <3>1. ASSUME NEW x \in Queue(r)
            PROVE  x.base = local[r].version
        <4>1. m.id <= x.id
          BY <2>9, <3>1 DEF Queue, RowsOf
        <4>2. m.base <= x.base /\ x.base <= local[r].version
          BY <2>6, <2>7, <3>1, <4>1 DEF InStep
        <4>3. x.base \in Nat
          BY <1>1, <3>1, QueueFields
        <4> QED
          BY <1>2, <1>5, <1>12, <4>2, <4>3
      <3> QED
        BY <3>1
    <2>11. \A x \in Queue(r) : NewestOf(x, Queue(r)) => local[r].content = x.id
      BY <2>6, <2>7, <2>10 DEF Shows
    <2>12. \A row \in outbox : row.m.record = r => row = row0 \/ row \in later
      <3>1. \A row \in outbox : row.m.id = m.id => row = row0
        BY <1>1, <1>3, OneRow
      <3>2. \A row \in outbox : row.m.record = r => row.m.id = m.id \/ row.m.id > m.id
        BY <1>5, <2>9
      <3> QED
        BY <1>12, <2>3, <3>1, <3>2 DEF Later, RowsOf
    <2>13. \A row \in outbox' : row.m.record = r => row \in Rebased(later, a.version)
      BY <1>8, <2>12
    <2>14. \A x \in Queue(r)' : x.base = a.version
      BY <1>10, <2>13 DEF Queue, RowsOf
    <2>15. a.version \in Nat
      BY <1>5, <2>2
    <2>16. InStep(r)'
      BY <2>4, <2>14, <2>15 DEF InStep
    <2>17. CASE later = {}
      <3>1. Queue(r)' = {}
        BY <1>10, <2>13, <2>17 DEF Queue, RowsOf
      <3>2. Queue(r) = {m}
        BY <1>3, <2>7, <2>12, <2>17 DEF Queue, RowsOf
      <3>3. local[r].content = m.id
        BY <1>5, <2>7, <2>11, <3>2 DEF NewestOf
      <3>4. PICK i : i = a.seq
        OBVIOUS
      <3>5. /\ i \in DOMAIN log /\ log[i].record = r /\ log[i].id = m.id
            /\ log[i].version = a.version
        BY <1>2, <1>12, <2>1, <3>4 DEF Tells, Says
      <3>6. m.id # 0
        BY <1>2, MutationFields, ClientAssumption
      <3>7. i \in EntriesOf(r)' /\ log'[i].version = a.version /\ Standing(i)' = m.id
        BY <3>5, <3>6 DEF EntriesOf, Standing
      <3>8. Shows(r)'
        BY <2>4, <3>1, <3>3, <3>7 DEF Shows
      <3> QED
        BY <2>16, <3>8
    <2>18. CASE later # {}
      <3>1. ASSUME NEW x \in Queue(r)'
            PROVE  local[r].content = x.id
        <4>1. PICK new \in Rebased(later, a.version) : new.m = x
          BY <2>13, <3>1 DEF Queue, RowsOf
        <4>2. PICK row \in later : new.m.id = row.m.id /\ \A other \in later : other.m.id <= row.m.id
          BY <1>10, <4>1
        <4>3. row \in outbox /\ row.m.record = r /\ m.id <= row.m.id
          BY <1>9, <1>12, <2>9, <4>2
        <4>4. \A other \in outbox : other.m.record = r => other.m.id <= row.m.id
          BY <1>3, <2>12, <4>2, <4>3
        <4>5. row.m \in Queue(r) /\ NewestOf(row.m, Queue(r))
          BY <4>3, <4>4 DEF Queue, RowsOf, NewestOf
        <4> QED
          BY <2>11, <4>1, <4>2, <4>5
      <3>2. Queue(r)' # {}
        <4>1. PICK new \in Rebased(later, a.version) : TRUE
          BY <1>10, <2>18
        <4>2. new \in outbox' /\ new.m.record = r
          BY <1>8, <1>9, <1>10, <1>12, <4>1
        <4> QED
          BY <4>2 DEF Queue, RowsOf
      <3>3. Shows(r)'
        BY <2>4, <3>1, <3>2 DEF Shows
      <3> QED
        BY <2>16, <3>3
    <2> QED
      BY <2>17, <2>18
  <1> QED
    BY <1>11, <1>12

\* Receipts are never withdrawn.
LEMMA ReceiptsStay ==
  ASSUME [Next]_vars
  PROVE  \A rec \in receipts : rec \in receipts'
  <1>1. CASE ApplySyncPushResult
    BY <1>1 DEF ApplySyncPushResult, Complete
  <1>2. CASE UNCHANGED receipts
    BY <1>2
  <1> QED
    BY <1>1, <1>2
    DEF Next, Run, Faults, Save, Forget, Enqueue, Start, ClaimDueSyncOutbox, CheckQueue, Push,
        Receive, GiveUp, ApplyProjectPulledPage, PullEnds, Stop, Resend, LoseAnswers, Tick,
        DecideLate, OtherDevice, vars, server, store

LEMMA ContentStep ==
  ASSUME ClientInv, ContentInv, [Next]_vars
  PROVE  ContentInv'
  <1>1. TypeOK /\ Continues /\ \A rec \in receipts : rec \in receipts'
    BY NextContinues, ReceiptsStay DEF ClientInv
  <1>2. SUFFICES ASSUME NEW r \in Records, Present(r)', Plain(r)'
                 PROVE  (InStep(r) /\ Shows(r))'
    BY DEF ContentInv
  <1>3. Plain(r) /\ (Present(r) => InStep(r) /\ Shows(r))
    <2>1. Plain(r)
      BY <1>1, <1>2, PlainBefore
    <2> QED
      BY <2>1 DEF ContentInv
  <1>4. ASSUME local' = local, Queue(r)' = Queue(r)
        PROVE  (InStep(r) /\ Shows(r))'
    <2>1. Present(r)
      BY <1>2, <1>4 DEF Present
    <2> QED
      BY <1>1, <1>3, <1>4, <2>1, QuietRecord
  <1>5. CASE UNCHANGED <<local, outbox>>
    BY <1>4, <1>5 DEF Queue, RowsOf
  <1>6. ASSUME NEW ms, NEW wait \in 0..1, outbox' = Retried(ms, wait), UNCHANGED local
        PROVE  (InStep(r) /\ Shows(r))'
    BY <1>1, <1>4, <1>6, RetriedRows, SameQueue
  <1>7. ASSUME NEW s \in Records, Save(s) \/ Forget(s)
        PROVE  (InStep(r) /\ Shows(r))'
    <2>1. PICK archived \in BOOLEAN : Enqueue(s, archived)
      BY <1>7 DEF Save, Forget
    <2> QED
      BY <1>2, <1>3, <2>1, WriteShows
  <1>8. CASE ClaimDueSyncOutbox
    BY <1>4, <1>8, ClaimKeepsQueue DEF ClaimDueSyncOutbox
  <1>9. CASE Tick
    BY <1>4, <1>9, TickKeepsQueue DEF Tick
  <1>10. CASE LoseAnswers \/ GiveUp
    BY <1>6, <1>10 DEF LoseAnswers, GiveUp
  <1>11. CASE ApplySyncPushResult
    <2>1. PICK m : m = Head(run.claims)
      OBVIOUS
    <2>2. PICK a : a = Head(run.answers)
      OBVIOUS
    <2>3. /\ run.pc = "apply" /\ UNCHANGED log
          /\ \/ outbox' = Retried({m}, 0) /\ UNCHANGED local
             \/ a.disposition # "retry" /\ Complete(m, a)
      BY <1>11, <2>1, <2>2 DEF ApplySyncPushResult, server
    <2>4. CASE a.disposition # "retry" /\ Complete(m, a)
      BY <1>2, <1>3, <2>1, <2>2, <2>3, <2>4, AnswerShows
    <2> QED
      BY <1>6, <2>3, <2>4
  <1>12. CASE ApplyProjectPulledPage
    BY <1>2, <1>3, <1>12, PullShows
  <1> QED
    BY <1>5, <1>7, <1>8, <1>9, <1>10, <1>11, <1>12
    DEF Next, Run, Faults, Start, CheckQueue, Push, Receive, PullEnds, Stop, Resend,
        DecideLate, OtherDevice, vars, server, store

\* Where nothing is contested and no resolution was accepted, nothing was ever contested.
LEMMA SettledIsPlain ==
  ASSUME TypeOK, ResolvesInv, NEW r, Open(r) = {},
         \A rec \in receipts : rec.m.record = r => rec.answer.disposition # "rejected",
         \A i \in Accepted(r) : log[i].kind # "resolve"
  PROVE  Plain(r) /\ EntriesOf(r) = Accepted(r)
  <1>1. ASSUME NEW i \in EntriesOf(r), log[i].disposition # "accepted"
        PROVE  FALSE
    <2>1. log[i].disposition = "conflict"
      BY <1>1, LogFields DEF EntriesOf
    <2>2. PICK j \in Accepted(r) : i \in log[j].resolves
      BY <1>1, <2>1 DEF Open
    <2>3. log[j].resolves = {}
      BY <2>2 DEF ResolvesInv, Accepted, EntriesOf
    <2> QED
      BY <2>2, <2>3
  <1> QED
    BY <1>1 DEF Plain, Accepted

\* The change the local version came with is the last one accepted.
LEMMA SettledShowsLast ==
  ASSUME ClientInv, SettledInv
  PROVE  SettledIsEqual
  <1>1. TypeOK /\ TableInv /\ ResolvesInv /\ ContentInv
    BY DEF ClientInv, SettledInv
  <1>2. SUFFICES ASSUME NEW r \in Records,
                        Present(r), RowsOf(r) = {}, position = Len(log), Open(r) = {},
                        \A rec \in receipts : rec.m.record = r
                          => rec.answer.disposition # "rejected",
                        Accepted(r) # {}, \A i \in Accepted(r) : log[i].kind # "resolve"
                 PROVE  LET last == Max(Accepted(r)) IN
                          /\ local[r].version = log[last].version
                          /\ local[r].content = IF log[last].id = 0 THEN -last ELSE log[last].id
    BY DEF SettledIsEqual
  <1>3. Plain(r) /\ EntriesOf(r) = Accepted(r)
    BY <1>1, <1>2, SettledIsPlain
  <1>4. PICK i \in EntriesOf(r) : /\ log[i].version = local[r].version
                                  /\ local[r].content = Standing(i)
    <2>1. Queue(r) = {}
      BY <1>2 DEF Queue
    <2>2. Shows(r)
      BY <1>1, <1>2, <1>3 DEF ContentInv
    <2> QED
      BY <2>1, <2>2 DEF Shows
  <1>5. PICK last : last = Max(Accepted(r))
    OBVIOUS
  <1>6. last \in Accepted(r) /\ \A j \in Accepted(r) : j <= last
    <2>1. Len(log) \in Nat /\ Accepted(r) \in SUBSET (0..Len(log))
      BY <1>1, LogFields DEF Accepted, EntriesOf
    <2> QED
      BY <1>2, <1>5, <2>1, MaxIs
  <1>7. /\ i \in DOMAIN log /\ last \in DOMAIN log /\ i <= last
        /\ log[i].record = r /\ log[last].record = r /\ log[last].disposition = "accepted"
    BY <1>3, <1>4, <1>6 DEF Accepted, EntriesOf
  <1>8. /\ i \in Nat /\ last \in Nat /\ last <= Len(log)
        /\ log[i].version \in Nat /\ log[last].version \in Nat /\ log[last].base \in Nat
    BY <1>1, <1>7, LogFields
  <1>9. log[last].version <= local[r].version
    BY <1>1, <1>2, <1>7, <1>8 DEF TableInv, VersionInv, Bounds
  <1>10. i = last
    <2>1. ASSUME i < last
          PROVE  FALSE
      <3>1. log[i].version <= log[last].base /\ log[last].version = log[last].base + 1
        BY <1>1, <1>7, <2>1 DEF TableInv, HistoryInv, InOrder, SoundEntry
      <3> QED
        BY <1>4, <1>8, <1>9, <3>1
    <2> QED
      BY <1>7, <1>8, <2>1
  <1> QED
    BY <1>4, <1>5, <1>10 DEF Standing

\* Once nothing of a record is queued, contested or refused and the history is pulled, the
\* device shows what the service has, whatever was lost, late, rebased or collapsed on the way.
THEOREM SettledAreEqual == Spec => []SettledIsEqual
  <1>1. Init => SettledInv
    BY DEF Init, SettledInv, ResolvesInv, ContentInv, Present
  <1>2. ClientInv /\ SettledInv /\ [Next]_vars => SettledInv'
    BY ResolvesStep, ContentStep DEF SettledInv
  <1> QED
    BY <1>1, <1>2, InitClient, NextClient, SettledShowsLast, PTL DEF Spec

----------------------------------------------------------------------------

(***************************************************************************)
(* What stops a pull.  The service contests and accepts what follows from  *)
(* its own history, in which a tombstone is the last accepted change and a *)
(* conflict is settled once.  The device has what it has pulled: whoever   *)
(* has a record has its first change or made it, and where an answer took  *)
(* the record past a change that is still to come, the answer was to a     *)
(* write that was contested, whose conflict is still to come as well.      *)
(***************************************************************************)

First(i) == \A j \in DOMAIN log : j < i => log[j].record # log[i].record

\* The version a change was decided at.
Ground(i) == IF log[i].disposition = "accepted" THEN log[i].base ELSE log[i].version

Grounded(i) ==
  \/ \E j \in DOMAIN log : /\ j < i /\ log[j].record = log[i].record
                           /\ log[j].version = Ground(i)
  \/ First(i) /\ (log[i].disposition = "accepted" => log[i].base = 0)

Final(i, j) ==
  i < j /\ log[i].record = log[j].record
    /\ log[i].disposition = "accepted" /\ log[j].disposition = "accepted"
      => log[i].kind # "tombstone"

SettlesOpen(j) ==
  \A i \in log[j].resolves :
    /\ i \in DOMAIN log /\ i < j /\ log[i].record = log[j].record
    /\ log[i].disposition = "conflict" /\ log[j].disposition = "accepted"
    /\ \A k \in DOMAIN log : k < j => i \notin log[k].resolves

GroundInv ==
  /\ \A i \in DOMAIN log : Grounded(i)
  /\ \A i \in DOMAIN log : SettlesOpen(i)
  /\ \A i, j \in DOMAIN log : Final(i, j)

\* The first change of a record that is here is pulled, or came from here.
NewcomerInv ==
  \A r \in Records : Present(r) =>
    \A i \in EntriesOf(r) : position < i /\ First(i) => log[i].id # 0

TombstoneInv ==
  \A r \in Records : local[r].state = "tombstoned" =>
    \E i \in Accepted(r) : i <= position /\ log[i].kind = "tombstone"

\* A conflict that was pulled is open here, or its resolution was pulled.
PulledConflictInv ==
  \A i \in DOMAIN log : i <= position /\ log[i].disposition = "conflict" =>
    i \in conflicts \/ \E k \in DOMAIN log : k <= position /\ i \in log[k].resolves

\* A change of the others that the record is already past.
Overtaken(r) ==
  \E i \in Accepted(r) : /\ position < i /\ log[i].id = 0
                         /\ log[i].version <= local[r].version

ContestAhead(r) ==
  \E rec \in receipts : /\ rec.m.record = r /\ rec.answer.disposition = "conflict"
                        /\ rec.answer.seq > position

AheadInv == \A r \in Records : Present(r) /\ Overtaken(r) => ContestAhead(r)

PageInv == NewcomerInv /\ TombstoneInv /\ PulledConflictInv /\ AheadInv

\* What an added entry was decided at.
LEMMA GrowsIs ==
  ASSUME TypeOK, GroundInv, NEW e, Grows(e)
  PROVE  /\ e \in Entry
         /\ \/ \E j \in DOMAIN log :
                 /\ log[j].record = e.record
                 /\ log[j].version = IF e.disposition = "accepted" THEN e.base ELSE e.version
            \/ /\ \A j \in DOMAIN log : log[j].record # e.record
               /\ e.disposition = "accepted" => e.base = 0
         /\ e.disposition = "accepted" =>
              \A i \in DOMAIN log : log[i].record = e.record /\ log[i].disposition = "accepted"
                => log[i].kind # "tombstone"
         /\ \A i \in e.resolves :
              /\ i \in DOMAIN log /\ log[i].record = e.record
              /\ log[i].disposition = "conflict" /\ e.disposition = "accepted"
              /\ \A k \in DOMAIN log : i \notin log[k].resolves
  <1>1. Decision(e) /\ e \in Entry
    BY DEF Grows, Decision
  <1>2. PICK v : v = Version(e.record)
    OBVIOUS
  <1>3. IF e.disposition = "accepted" THEN e.base = v ELSE v = 0 \/ e.version = v
    BY <1>1, <1>2 DEF Decision, AcceptedEntry, ConflictEntry
  <1>4. \/ (\A j \in DOMAIN log : log[j].record # e.record) /\ v = 0
        \/ \E j \in DOMAIN log : log[j].record = e.record /\ log[j].version = v /\ v # 0
    <2>1. \A j \in DOMAIN log : log[j].version # 0
      BY LogFields
    <2> QED
      BY <1>2, <2>1, VersionIs DEF EntriesOf
  <1>5. \/ \E j \in DOMAIN log :
             /\ log[j].record = e.record
             /\ log[j].version = IF e.disposition = "accepted" THEN e.base ELSE e.version
        \/ /\ \A j \in DOMAIN log : log[j].record # e.record
           /\ e.disposition = "accepted" => e.base = 0
    BY <1>3, <1>4
  <1>6. ASSUME e.disposition = "accepted", NEW i \in DOMAIN log,
               log[i].record = e.record, log[i].disposition = "accepted"
        PROVE  log[i].kind # "tombstone"
    <2>1. ~Deleted(e.record)
      BY <1>1, <1>6 DEF Decision, AcceptedEntry, ConflictEntry
    <2> QED
      BY <1>6, <2>1 DEF Deleted, Accepted, EntriesOf
  <1>7. ASSUME NEW i \in e.resolves
        PROVE  /\ i \in DOMAIN log /\ log[i].record = e.record
               /\ log[i].disposition = "conflict" /\ e.disposition = "accepted"
               /\ \A k \in DOMAIN log : i \notin log[k].resolves
    <2>1. i \in Open(e.record) /\ e.disposition = "accepted"
      BY <1>7 DEF Grows
    <2>2. /\ i \in DOMAIN log /\ log[i].record = e.record /\ log[i].disposition = "conflict"
          /\ \A j \in Accepted(e.record) : i \notin log[j].resolves
      BY <2>1 DEF Open, EntriesOf
    <2>3. ASSUME NEW k \in DOMAIN log, i \in log[k].resolves
          PROVE  FALSE
      <3>1. log[k].record = log[i].record /\ log[k].disposition = "accepted"
        BY <2>3 DEF GroundInv, SettlesOpen
      <3> QED
        BY <2>2, <2>3, <3>1 DEF Accepted, EntriesOf
    <2> QED
      BY <2>1, <2>2, <2>3
  <1> QED
    BY <1>1, <1>5, <1>6, <1>7

LEMMA GroundStep ==
  ASSUME ClientInv, GroundInv, [Next]_vars
  PROVE  GroundInv'
  <1>1. TypeOK
    BY DEF ClientInv
  <1>2. CASE log' = log
    BY <1>2 DEF GroundInv, Grounded, First, Ground, SettlesOpen, Final
  <1>3. ASSUME NEW e, Grows(e), log' = Append(log, e)
        PROVE  GroundInv'
    <2>1. PICK n : n = Len(log) + 1
      OBVIOUS
    <2>2. /\ \A i \in DOMAIN log' : i \in Nat /\ (i \in DOMAIN log \/ i = n)
          /\ \A i \in DOMAIN log : i \in DOMAIN log' /\ log'[i] = log[i]
          /\ n \in DOMAIN log' /\ log'[n] = e
      BY <1>1, <1>3, <2>1, Appended
    <2>3. n \in Nat /\ \A i \in DOMAIN log : i \in Nat /\ i < n
      BY <1>1, <2>1, LogFields
    <2>4. \A i, j \in DOMAIN log' : i < j => i \in DOMAIN log
      BY <2>2, <2>3
    <2>5. /\ \/ \E j \in DOMAIN log :
                  /\ log[j].record = e.record
                  /\ log[j].version = IF e.disposition = "accepted" THEN e.base ELSE e.version
             \/ /\ \A j \in DOMAIN log : log[j].record # e.record
                /\ e.disposition = "accepted" => e.base = 0
      BY <1>1, <1>3, GrowsIs
    <2>6. e.disposition = "accepted" =>
            \A i \in DOMAIN log : log[i].record = e.record /\ log[i].disposition = "accepted"
              => log[i].kind # "tombstone"
      BY <1>1, <1>3, GrowsIs
    <2>7. \A i \in e.resolves :
            /\ i \in DOMAIN log /\ log[i].record = e.record
            /\ log[i].disposition = "conflict" /\ e.disposition = "accepted"
            /\ \A k \in DOMAIN log : i \notin log[k].resolves
      BY <1>1, <1>3, GrowsIs
    <2>8. ASSUME NEW i \in DOMAIN log'
          PROVE  Grounded(i)'
      <3>1. CASE i \in DOMAIN log
        <4>1. Grounded(i)
          BY <3>1 DEF GroundInv
        <4>2. First(i) => First(i)'
          BY <2>2, <2>4, <3>1 DEF First
        <4> QED
          BY <2>2, <3>1, <4>1, <4>2 DEF Grounded, Ground
      <3>2. CASE i = n
        <4>1. (\A j \in DOMAIN log : log[j].record # e.record) => First(n)'
          BY <2>2, <2>4 DEF First
        <4>2. Ground(n)' = IF e.disposition = "accepted" THEN e.base ELSE e.version
          BY <2>2 DEF Ground
        <4> QED
          BY <2>2, <2>3, <2>5, <3>2, <4>1, <4>2 DEF Grounded
      <3> QED
        BY <2>2, <3>1, <3>2
    <2>9. ASSUME NEW j \in DOMAIN log'
          PROVE  SettlesOpen(j)'
      <3>1. CASE j \in DOMAIN log
        <4>1. SettlesOpen(j)
          BY <3>1 DEF GroundInv
        <4>2. \A k \in DOMAIN log' : k < j => k \in DOMAIN log
          BY <2>4
        <4> QED
          BY <2>2, <3>1, <4>1, <4>2 DEF SettlesOpen
      <3>2. CASE j = n
        <4>1. \A k \in DOMAIN log' : k < j => k \in DOMAIN log
          BY <2>4
        <4> QED
          BY <2>2, <2>3, <2>7, <3>2, <4>1 DEF SettlesOpen
      <3> QED
        BY <2>2, <3>1, <3>2
    <2>10. ASSUME NEW i \in DOMAIN log', NEW j \in DOMAIN log'
           PROVE  Final(i, j)'
      <3>1. CASE i < j /\ j \in DOMAIN log
        BY <2>2, <2>4, <3>1 DEF GroundInv, Final
      <3>2. CASE i < j /\ j = n
        BY <2>2, <2>4, <2>6, <3>2 DEF Final
      <3> QED
        BY <2>2, <3>1, <3>2 DEF Final
    <2> QED
      BY <2>8, <2>9, <2>10 DEF GroundInv
  <1> QED
    BY <1>2, <1>3, NextGrows

\* The service moves on: what is added is above every version a device has, and
\* the first change of a record that is here comes from here.
LEMMA PageGrows ==
  ASSUME ClientInv, PageInv, NEW e, Grows(e), log' = Append(log, e), UNCHANGED store
  PROVE  PageInv'
  <1>1. TypeOK /\ TableInv /\ HistoryInv
    BY DEF ClientInv, TableInv
  <1>2. PICK n : n = Len(log) + 1
    OBVIOUS
  <1>3. /\ \A i \in DOMAIN log' : i \in Nat /\ (i \in DOMAIN log \/ i = n)
        /\ \A i \in DOMAIN log : i \in DOMAIN log' /\ log'[i] = log[i]
        /\ n \in DOMAIN log' /\ log'[n] = e
    BY <1>1, <1>2, Appended
  <1>4. /\ n \in Nat /\ position \in Nat /\ position < n
        /\ \A i \in DOMAIN log : i \in Nat /\ i < n
    <2>1. position \in 0..Len(log) /\ Len(log) \in Nat
      BY <1>1, LogFields DEF TypeOK
    <2> QED
      BY <1>1, <1>2, <2>1, LogFields
  <1>5. UNCHANGED <<local, receipts, conflicts, position>>
    BY DEF store
  <1>6. NewcomerInv'
    <2>1. SUFFICES ASSUME NEW r \in Records, Present(r)', NEW i \in EntriesOf(r)',
                          position' < i, First(i)'
                   PROVE  log'[i].id # 0
      BY DEF NewcomerInv
    <2>2. Present(r)
      BY <1>5, <2>1 DEF Present
    <2>3. i \in DOMAIN log' /\ log'[i].record = r
      BY DEF EntriesOf
    <2>4. CASE i \in DOMAIN log
      <3>1. i \in EntriesOf(r) /\ First(i)
        BY <1>3, <2>1, <2>3, <2>4 DEF EntriesOf, First
      <3> QED
        BY <1>3, <1>5, <2>1, <2>2, <2>4, <3>1 DEF PageInv, NewcomerInv
    <2>5. CASE i = n
      <3>1. EntriesOf(r) = {}
        BY <1>3, <1>4, <2>1, <2>3, <2>5 DEF EntriesOf, First
      <3> QED
        BY <1>3, <2>2, <2>3, <2>5, <3>1 DEF Grows
    <2> QED
      BY <1>3, <2>3, <2>4, <2>5
  <1>7. TombstoneInv'
    <2>1. \A r : \A i \in Accepted(r) : i \in Accepted(r)' /\ log'[i] = log[i]
      BY <1>3 DEF Accepted, EntriesOf
    <2> QED
      BY <1>5, <2>1 DEF PageInv, TombstoneInv
  <1>8. PulledConflictInv'
    <2>1. SUFFICES ASSUME NEW i \in DOMAIN log', i <= position', log'[i].disposition = "conflict"
                   PROVE  i \in conflicts' \/ \E k \in DOMAIN log' : k <= position'
                                                                     /\ i \in log'[k].resolves
      BY DEF PulledConflictInv
    <2>2. i \in DOMAIN log
      BY <1>3, <1>4, <1>5, <2>1
    <2> QED
      BY <1>3, <1>5, <2>1, <2>2 DEF PageInv, PulledConflictInv
  <1>9. AheadInv'
    <2>1. SUFFICES ASSUME NEW r \in Records, Present(r)', Overtaken(r)'
                   PROVE  ContestAhead(r)'
      BY DEF AheadInv
    <2>2. PICK i \in Accepted(r)' : /\ position' < i /\ log'[i].id = 0
                                    /\ log'[i].version <= local'[r].version
      BY <2>1 DEF Overtaken
    <2>3. i \in DOMAIN log' /\ log'[i].record = r /\ log'[i].disposition = "accepted"
      BY DEF Accepted, EntriesOf
    <2>4. CASE i \in DOMAIN log
      <3>1. Overtaken(r)
        BY <1>3, <1>5, <2>2, <2>3, <2>4 DEF Overtaken, Accepted, EntriesOf
      <3>2. ContestAhead(r)
        BY <1>5, <2>1, <3>1 DEF PageInv, AheadInv, Present
      <3> QED
        BY <1>5, <3>2 DEF ContestAhead
    <2>5. CASE i = n
      <3>1. PICK v : v = Version(r)
        OBVIOUS
      <3>2. e.record = r /\ e.version = v + 1
        BY <1>3, <2>3, <2>5, <3>1 DEF Grows, Decision, AcceptedEntry, ConflictEntry
      <3>3. local[r].version <= v /\ local[r].version \in Nat /\ v \in Nat
        BY <1>1, <3>1, VersionWasReached, ReachedIsBelow, LocalFields, VersionBounds
      <3>4. v + 1 <= local[r].version
        BY <1>3, <1>5, <2>2, <2>5, <3>2
      <3> QED
        BY <3>3, <3>4
    <2> QED
      BY <1>3, <2>3, <2>4, <2>5
  <1> QED
    BY <1>6, <1>7, <1>8, <1>9 DEF PageInv

\* A write is to a record that is here, at the version it has, or to one that
\* nobody has.
LEMMA PageWritten ==
  ASSUME ClientInv, PageInv, NEW r \in Records, Save(r) \/ Forget(r)
  PROVE  PageInv'
  <1>1. PICK archived \in BOOLEAN : Enqueue(r, archived)
    BY DEF Save, Forget
  <1>2. /\ Present(r) => local[r].state # "tombstoned"
        /\ ~Present(r) => EntriesOf(r) = {}
    BY DEF Save, Forget, Present
  <1>3. UNCHANGED <<log, receipts, conflicts, position>>
    BY <1>1 DEF Enqueue, server
  <1>4. PICK v : v = IF Present(r) THEN local[r].version ELSE 0
    OBVIOUS
  <1>5. PICK here : here = [state |-> IF archived THEN "archived" ELSE "active",
                            version |-> v, content |-> writes + 1]
    OBVIOUS
  <1>6. local' = [local EXCEPT ![r] = here]
    BY <1>1, <1>4, <1>5 DEF Enqueue
  <1>7. here.state # "tombstoned" /\ here.version = v
    BY <1>5
  <1>8. /\ local'[r] = here
        /\ \A s \in Records : s # r => local'[s] = local[s]
    BY <1>6 DEF ClientInv, TypeOK
  <1>9. ASSUME NEW s \in Records, Present(s)', EntriesOf(s) # {}
        PROVE  Present(s) /\ local'[s].version = local[s].version
    BY <1>2, <1>4, <1>7, <1>8, <1>9 DEF Present
  <1>10. \A s \in Records : EntriesOf(s)' = EntriesOf(s) /\ Accepted(s)' = Accepted(s)
    BY <1>3 DEF EntriesOf, Accepted
  <1>11. NewcomerInv'
    BY <1>3, <1>9, <1>10 DEF PageInv, NewcomerInv, First
  <1>12. TombstoneInv'
    BY <1>3, <1>7, <1>8, <1>10 DEF PageInv, TombstoneInv
  <1>13. PulledConflictInv'
    BY <1>3 DEF PageInv, PulledConflictInv
  <1>14. AheadInv'
    <2>1. SUFFICES ASSUME NEW s \in Records, Present(s)', Overtaken(s)'
                   PROVE  ContestAhead(s)'
      BY DEF AheadInv
    <2>2. EntriesOf(s) # {}
      BY <1>10, <2>1 DEF Overtaken, Accepted
    <2>3. Present(s) /\ Overtaken(s)
      BY <1>3, <1>9, <1>10, <2>1, <2>2 DEF Overtaken
    <2> QED
      BY <1>3, <2>3 DEF PageInv, AheadInv, ContestAhead
  <1> QED
    BY <1>11, <1>12, <1>13, <1>14 DEF PageInv

\* An answer takes a record past the changes of the others only where its own
\* conflict is one of those that are still to come.
LEMMA PageAnswered ==
  ASSUME ClientInv, PageInv, run.pc = "apply", UNCHANGED <<log, conflicts, position>>,
         NEW m, m = Head(run.claims), NEW a, a = Head(run.answers), Complete(m, a),
         a.disposition # "retry"
  PROVE  PageInv'
  <1>1. TypeOK /\ TableInv /\ HistoryInv
    BY DEF ClientInv, TableInv
  <1>2. /\ m \in Mutation /\ a \in Answer /\ Tells(a, m) /\ local[m.record].version = m.base
    BY HeadIs
  <1>3. PICK r \in Records : r = m.record
    BY <1>2, MutationFields
  <1>4. PICK v : v = VersionAfter(m, a)
    OBVIOUS
  <1>5. local' = [local EXCEPT ![r].version = v]
    BY <1>3, <1>4 DEF Complete
  <1>6. /\ \A s \in Records : local'[s].state = local[s].state
        /\ \A s \in Records : s # r => local'[s] = local[s]
        /\ local'[r].version = v
    BY <1>5, <1>1 DEF TypeOK
  <1>7. \A s : EntriesOf(s)' = EntriesOf(s) /\ Accepted(s)' = Accepted(s)
    BY DEF EntriesOf, Accepted
  <1>8. /\ [m |-> m, answer |-> a] \in receipts'
        /\ \A rec \in receipts : rec \in receipts'
    BY DEF Complete
  <1>9. NewcomerInv'
    BY <1>6, <1>7 DEF PageInv, NewcomerInv, First, Present
  <1>10. TombstoneInv'
    BY <1>6, <1>7 DEF PageInv, TombstoneInv
  <1>11. PulledConflictInv'
    BY DEF PageInv, PulledConflictInv
  <1>12. AheadInv'
    <2>1. SUFFICES ASSUME NEW s \in Records, Present(s)', Overtaken(s)'
                   PROVE  ContestAhead(s)'
      BY DEF AheadInv
    <2>2. ASSUME Overtaken(s)
          PROVE  ContestAhead(s)'
      <3>1. ContestAhead(s)
        BY <1>6, <2>1, <2>2 DEF PageInv, AheadInv, Present
      <3> QED
        BY <1>8, <3>1 DEF ContestAhead
    <2>3. CASE s # r \/ v = local[r].version
      <3>1. local'[s].version = local[s].version
        BY <1>6, <2>3
      <3> QED
        BY <1>7, <2>1, <2>2, <3>1 DEF Overtaken
    <2>4. CASE s = r /\ a.disposition = "accepted"
      <3>1. PICK i \in Accepted(r) : /\ position < i /\ log[i].id = 0 /\ log[i].version <= v
        BY <1>6, <1>7, <2>1, <2>4 DEF Overtaken
      <3>2. PICK n : n = a.seq
        OBVIOUS
      <3>3. /\ n \in DOMAIN log /\ log[n].id = m.id /\ log[n].record = r
            /\ log[n].base = m.base /\ log[n].disposition = "accepted" /\ log[n].version = v
        BY <1>2, <1>3, <1>4, <2>4, <3>2 DEF Tells, Says, VersionAfter
      <3>4. i \in DOMAIN log /\ log[i].record = r /\ log[i].disposition = "accepted"
        BY <3>1 DEF Accepted, EntriesOf
      <3>5. /\ log[n].version = log[n].base + 1 /\ log[i].version = log[i].base + 1
            /\ InOrder(i, n) /\ InOrder(n, i)
        BY <1>1, <3>3, <3>4 DEF HistoryInv, SoundEntry
      <3>6. /\ i \in Nat /\ n \in Nat /\ log[n].base \in Nat /\ log[i].base \in Nat
            /\ log[i].version \in Nat /\ log[n].version \in Nat
        BY <1>1, <3>3, <3>4, LogFields
      <3>7. m.id # 0
        BY <1>2, MutationFields
      <3>8. i # n
        BY <3>1, <3>3, <3>7
      <3>9. ~(n < i)
        BY <3>1, <3>3, <3>4, <3>5, <3>6 DEF InOrder
      <3>10. log[i].version <= m.base
        BY <3>3, <3>4, <3>5, <3>6, <3>8, <3>9 DEF InOrder
      <3>11. Overtaken(r)
        BY <1>2, <1>3, <3>1, <3>10 DEF Overtaken
      <3> QED
        BY <2>2, <2>4, <3>11
    <2>5. CASE s = r /\ a.disposition = "conflict"
      <3>1. PICK n : n = a.seq
        OBVIOUS
      <3>2. n \in DOMAIN log /\ log[n].record = r /\ log[n].version = a.version /\ v = a.version
        BY <1>2, <1>3, <1>4, <2>5, <3>1 DEF Tells, Says, VersionAfter
      <3>3. CASE n > position
        <4>1. PICK rec : rec = [m |-> m, answer |-> a]
          OBVIOUS
        <4>2. /\ rec \in receipts' /\ rec.m.record = r /\ rec.answer.disposition = "conflict"
              /\ rec.answer.seq > position'
          BY <1>3, <1>8, <2>5, <3>1, <3>3, <4>1
        <4> QED
          BY <2>5, <4>2 DEF ContestAhead
      <3>4. CASE ~(n > position)
        <4>1. n <= position
          BY <1>1, <3>2, <3>4, LogFields DEF TypeOK
        <4>2. Present(r)
          BY <1>6, <2>1, <2>5 DEF Present
        <4>3. v <= local[r].version
          BY <1>1, <3>2, <4>1, <4>2 DEF TableInv, VersionInv, Bounds
        <4>4. a.disposition = "retry" \/ Settles(m, a)
          BY HeadSettles
        <4>5. a.version >= m.base
          BY <2>5, <4>4 DEF Settles
        <4>6. v = local[r].version
          BY <1>2, <1>3, <3>2, <4>3, <4>5, AnswerFields, MutationFields
        <4> QED
          BY <2>3, <4>6
      <3> QED
        BY <3>3, <3>4
    <2>6. CASE a.disposition = "rejected"
      <3>1. v = local[r].version
        BY <1>3, <1>4, <2>6 DEF VersionAfter
      <3> QED
        BY <2>3, <3>1
    <2> QED
      BY <1>2, <2>3, <2>4, <2>5, <2>6, AnswerFields
  <1> QED
    BY <1>9, <1>10, <1>11, <1>12 DEF PageInv

\* What a pulled change does to the device: a contest is noted, an echo changes
\* nothing, and what is stored brings its version and settles what it names.
LEMMA PulledIs ==
  ASSUME ClientInv, ApplyProjectPulledPage, NEW n, n = position + 1, NEW e, e = log[n]
  PROVE  /\ Pulling /\ UNCHANGED <<log, receipts>> /\ position' = n
         /\ \/ /\ e.disposition = "conflict" /\ UNCHANGED local
               /\ conflicts' = conflicts \cup {n}
               /\ Present(e.record) => local[e.record].version = e.version
            \/ e.disposition = "accepted" /\ UNCHANGED <<local, conflicts>>
            \/ /\ e.disposition = "accepted"
               /\ local'[e.record].version = e.version
               /\ local'[e.record].state = "tombstoned" => e.kind = "tombstone"
               /\ \A s \in Records : s # e.record => local'[s] = local[s]
               /\ \A i \in conflicts : i \in conflicts' \/ i \in e.resolves
  <1>1. Pulling /\ UNCHANGED <<log, receipts>> /\ position' = n
    BY DEF ApplyProjectPulledPage, server
  <1>2. /\ e.record \in Records
        /\ e.disposition = "accepted" => e.version = e.base + 1
        /\ e.kind = "create" <=> e.base = 0
        /\ Change = e
    BY <1>1, ChangeIs
  <1>3. DOMAIN local = Records
    BY DEF ClientInv, TypeOK
  <1>4. ASSUME NEW state, Store(e.record, [state |-> state, version |-> e.version,
                                           content |-> Content])
        PROVE  /\ local'[e.record].version = e.version
               /\ local'[e.record].state = state
               /\ \A s \in Records : s # e.record => local'[s] = local[s]
    <2>1. PICK here : here = [state |-> state, version |-> e.version, content |-> Content]
      OBVIOUS
    <2>2. local' = [local EXCEPT ![e.record] = here]
      BY <1>4, <2>1 DEF Store
    <2>3. here.state = state /\ here.version = e.version
      BY <2>1
    <2> QED
      BY <1>2, <1>3, <2>2, <2>3
  <1>5. CASE ApplyEcho
    BY <1>1, <1>2, <1>5 DEF ApplyEcho, Echo
  <1>6. CASE ApplyConflict
    BY <1>1, <1>2, <1>6 DEF ApplyConflict, ConflictFits
  <1>7. CASE e.disposition = "accepted" /\ ApplyCreate
    <2>1. e.version = 1 /\ UNCHANGED conflicts
      BY <1>2, <1>7 DEF ApplyCreate, CreateFits
    <2>2. Store(e.record, [state |-> "active", version |-> e.version, content |-> Content])
      BY <1>2, <1>7, <2>1 DEF ApplyCreate
    <2> QED
      BY <1>1, <1>4, <1>7, <2>1, <2>2
  <1>8. CASE e.disposition = "accepted" /\ ApplyUpdate
    <2>1. PICK state : state = IF e.kind = "archive" THEN "archived" ELSE "active"
      OBVIOUS
    <2>2. /\ Store(e.record, [state |-> state, version |-> e.version, content |-> Content])
          /\ UNCHANGED conflicts
      BY <1>2, <1>8, <2>1 DEF ApplyUpdate
    <2>3. state # "tombstoned"
      BY <2>1
    <2> QED
      BY <1>1, <1>4, <1>8, <2>2, <2>3
  <1>9. CASE e.disposition = "accepted" /\ ApplyTombstone
    <2>1. /\ Store(e.record, [state |-> "tombstoned", version |-> e.version,
                              content |-> Content])
          /\ e.kind = "tombstone" /\ UNCHANGED conflicts
      BY <1>2, <1>9 DEF ApplyTombstone, TombstoneFits
    <2> QED
      BY <1>1, <1>4, <1>9, <2>1
  <1>10. CASE e.disposition = "accepted" /\ ApplyResolve
    <2>1. /\ Store(e.record, [state |-> "active", version |-> e.version, content |-> Content])
          /\ conflicts' = conflicts \ e.resolves
      BY <1>2, <1>10 DEF ApplyResolve
    <2> QED
      BY <1>1, <1>4, <1>10, <2>1
  <1> QED
    BY <1>2, <1>5, <1>6, <1>7, <1>8, <1>9, <1>10 DEF ApplyProjectPulledPage, ApplyChange

LEMMA PagePulled ==
  ASSUME ClientInv, PageInv, ApplyProjectPulledPage
  PROVE  PageInv'
  <1>1. TypeOK /\ TableInv /\ HistoryInv
    BY DEF ClientInv, TableInv
  <1>2. PICK n : n = position + 1
    OBVIOUS
  <1>3. PICK e : e = log[n]
    OBVIOUS
  <1>4. Pulling /\ UNCHANGED <<log, receipts>> /\ position' = n
    BY <1>2, <1>3, PulledIs
  <1>5. /\ n \in DOMAIN log /\ n \in Nat /\ position \in Nat /\ e.record \in Records
        /\ e.version \in Nat /\ \A i \in DOMAIN log : i \in Nat
    BY <1>1, <1>2, <1>3, <1>4, ChangeIs, LogFields
  <1>6. \A i \in DOMAIN log : /\ i <= position' => i <= position \/ i = n
                              /\ i <= position => i <= position'
                              /\ position' < i => position < i /\ n < i
    BY <1>2, <1>4, <1>5
  <1>7. \A s : EntriesOf(s)' = EntriesOf(s) /\ Accepted(s)' = Accepted(s)
    BY <1>4 DEF EntriesOf, Accepted
  <1>8. /\ \A s : \A i \in EntriesOf(s) : i \in DOMAIN log /\ log[i].record = s
        /\ \A s : \A i \in Accepted(s) :
             i \in DOMAIN log /\ log[i].record = s /\ log[i].disposition = "accepted"
    BY DEF EntriesOf, Accepted
  <1>9. \A s \in Records : s # e.record => local'[s] = local[s]
    BY <1>2, <1>3, PulledIs
  <1>10. NewcomerInv'
    <2>1. SUFFICES ASSUME NEW s \in Records, Present(s)', NEW i \in EntriesOf(s),
                          position' < i, First(i)'
                   PROVE  log[i].id # 0
      BY <1>4, <1>7 DEF NewcomerInv
    <2>2. n < i /\ position < i /\ log[i].record = s /\ First(i)
      BY <1>4, <1>6, <1>8, <2>1 DEF First
    <2>3. s # e.record
      BY <1>3, <1>5, <2>2 DEF First
    <2>4. Present(s)
      BY <1>9, <2>1, <2>3 DEF Present
    <2> QED
      BY <2>2, <2>4 DEF PageInv, NewcomerInv
  <1>11. TombstoneInv'
    <2>1. SUFFICES ASSUME NEW s \in Records, local'[s].state = "tombstoned"
                   PROVE  \E i \in Accepted(s) : i <= position' /\ log[i].kind = "tombstone"
      BY <1>4, <1>7 DEF TombstoneInv
    <2>2. CASE local[s].state = "tombstoned"
      BY <1>6, <1>8, <2>2 DEF PageInv, TombstoneInv
    <2>3. CASE local[s].state # "tombstoned"
      <3>1. s = e.record /\ e.disposition = "accepted" /\ e.kind = "tombstone"
        BY <1>2, <1>3, <2>1, <2>3, PulledIs
      <3>2. n \in Accepted(s)
        BY <1>3, <1>5, <3>1 DEF Accepted, EntriesOf
      <3> QED
        BY <1>3, <1>4, <1>5, <3>1, <3>2
    <2> QED
      BY <2>2, <2>3
  <1>12. PulledConflictInv'
    <2>1. SUFFICES ASSUME NEW i \in DOMAIN log, i <= position', log[i].disposition = "conflict"
                   PROVE  i \in conflicts' \/ \E k \in DOMAIN log : k <= position'
                                                                    /\ i \in log[k].resolves
      BY <1>4 DEF PulledConflictInv
    <2>2. CASE i = n
      BY <1>2, <1>3, <2>1, <2>2, PulledIs
    <2>3. CASE i <= position
      <3>1. i \in conflicts \/ \E k \in DOMAIN log : k <= position /\ i \in log[k].resolves
        BY <2>1, <2>3 DEF PageInv, PulledConflictInv
      <3>2. CASE \E k \in DOMAIN log : k <= position /\ i \in log[k].resolves
        BY <1>6, <3>2
      <3>3. CASE i \in conflicts
        <4>1. i \in conflicts' \/ i \in e.resolves
          BY <1>2, <1>3, <3>3, PulledIs
        <4>2. n <= position'
          BY <1>4, <1>5
        <4> QED
          BY <1>3, <1>5, <4>1, <4>2
      <3> QED
        BY <3>1, <3>2, <3>3
    <2> QED
      BY <1>6, <2>1, <2>2, <2>3
  <1>13. AheadInv'
    <2>1. SUFFICES ASSUME NEW s \in Records, Present(s)', Overtaken(s)'
                   PROVE  ContestAhead(s)'
      BY DEF AheadInv
    <2>2. PICK i \in Accepted(s) : /\ position' < i /\ log[i].id = 0
                                   /\ log[i].version <= local'[s].version
      BY <1>4, <1>7, <2>1 DEF Overtaken
    <2>3. /\ i \in DOMAIN log /\ log[i].record = s /\ log[i].disposition = "accepted"
          /\ n < i /\ position < i
      BY <1>6, <1>8, <2>2
    <2>4. ~(s = e.record /\ local'[s].version = e.version)
      <3>1. SUFFICES ASSUME s = e.record, local'[s].version = e.version
                     PROVE  FALSE
        OBVIOUS
      <3>2. InOrder(n, i) /\ log[i].version = log[i].base + 1
        BY <1>1, <1>5, <2>3 DEF HistoryInv, SoundEntry
      <3>3. e.version <= log[i].base
        BY <1>3, <2>3, <3>1, <3>2 DEF InOrder
      <3>4. log[i].base \in Nat
        BY <1>1, <2>3, LogFields
      <3> QED
        BY <1>5, <2>2, <3>1, <3>2, <3>3, <3>4
    <2>5. /\ local'[s] = local[s]
          /\ s = e.record => e.disposition = "accepted"
      <3>1. CASE s # e.record
        BY <1>9, <3>1
      <3>2. CASE s = e.record
        <4>1. Present(s) => Present(s)'
          BY <2>1
        <4>2. e.disposition # "conflict"
          <5>1. SUFFICES ASSUME e.disposition = "conflict"
                         PROVE  FALSE
            OBVIOUS
          <5>2. UNCHANGED local /\ (Present(s) => local[s].version = e.version)
            BY <1>2, <1>3, <3>2, <5>1, PulledIs
          <5> QED
            BY <2>1, <2>4, <3>2, <5>2 DEF Present
        <4> QED
          BY <1>2, <1>3, <2>4, <3>2, <4>2, PulledIs
      <3> QED
        BY <3>1, <3>2
    <2>6. Present(s) /\ Overtaken(s)
      BY <2>1, <2>2, <2>3, <2>5 DEF Present, Overtaken
    <2>7. PICK rec \in receipts : /\ rec.m.record = s /\ rec.answer.disposition = "conflict"
                                  /\ rec.answer.seq > position
      BY <2>6 DEF PageInv, AheadInv, ContestAhead
    <2>8. PICK k : k = rec.answer.seq
      OBVIOUS
    <2>9. Tells(rec.answer, rec.m)
      BY <1>1 DEF TableInv, ReceiptInv
    <2>10. k \in DOMAIN log /\ log[k].record = s /\ log[k].disposition = "conflict"
      BY <2>7, <2>8, <2>9 DEF Tells, Says
    <2>11. k # n
      BY <1>3, <2>5, <2>10
    <2>12. k > position'
      BY <1>2, <1>4, <1>5, <2>7, <2>8, <2>10, <2>11
    <2> QED
      BY <1>4, <2>7, <2>8, <2>12 DEF ContestAhead
  <1> QED
    BY <1>10, <1>11, <1>12, <1>13 DEF PageInv

LEMMA PageStep ==
  ASSUME ClientInv, PageInv, [Next]_vars
  PROVE  PageInv'
  <1>1. CASE UNCHANGED <<log, local, receipts, conflicts, position>>
    <2>1. \A s : EntriesOf(s)' = EntriesOf(s) /\ Accepted(s)' = Accepted(s)
      BY <1>1 DEF EntriesOf, Accepted
    <2> QED
      BY <1>1, <2>1
      DEF PageInv, NewcomerInv, TombstoneInv, PulledConflictInv, AheadInv, Present, First,
          Overtaken, ContestAhead
  <1>2. CASE UNCHANGED store
    <2>1. CASE log' = log
      BY <1>1, <1>2, <2>1 DEF store
    <2>2. ASSUME NEW e, Grows(e), log' = Append(log, e)
          PROVE  PageInv'
      BY <1>2, <2>2, PageGrows
    <2> QED
      BY <2>1, <2>2, NextGrows
  <1>3. ASSUME NEW r \in Records, Save(r) \/ Forget(r)
        PROVE  PageInv'
    BY <1>3, PageWritten
  <1>4. CASE ApplySyncPushResult
    <2>1. PICK m : m = Head(run.claims)
      OBVIOUS
    <2>2. PICK a : a = Head(run.answers)
      OBVIOUS
    <2>3. /\ run.pc = "apply" /\ UNCHANGED <<log, conflicts, position>>
          /\ \/ outbox' = Retried({m}, 0) /\ UNCHANGED <<receipts, local>>
             \/ a.disposition # "retry" /\ Complete(m, a)
      BY <1>4, <2>1, <2>2 DEF ApplySyncPushResult, server
    <2>4. CASE UNCHANGED <<receipts, local>>
      BY <1>1, <2>3, <2>4
    <2>5. CASE a.disposition # "retry" /\ Complete(m, a)
      BY <2>1, <2>2, <2>3, <2>5, PageAnswered
    <2> QED
      BY <2>3, <2>4, <2>5
  <1>5. CASE ApplyProjectPulledPage
    BY <1>5, PagePulled
  <1>6. CASE ClaimDueSyncOutbox
    <2>1. UNCHANGED <<server, writes, local, receipts, conflicts, position>>
      BY <1>6, Zenon DEF ClaimDueSyncOutbox
    <2> QED
      BY <1>1, <2>1 DEF server
  <1>7. CASE Tick
    <2>1. UNCHANGED <<server, writes, local, receipts, conflicts, position, run>>
      BY <1>7, Zenon DEF Tick
    <2> QED
      BY <1>1, <2>1 DEF server
  <1>8. CASE LoseAnswers \/ GiveUp
    BY <1>1, <1>8 DEF LoseAnswers, GiveUp, server
  <1>9. CASE Start \/ CheckQueue \/ Push \/ Receive \/ PullEnds \/ Stop \/ Resend
    BY <1>2, <1>9 DEF Start, CheckQueue, Push, Receive, PullEnds, Stop, Resend
  <1>10. CASE DecideLate \/ OtherDevice \/ UNCHANGED vars
    BY <1>2, <1>10 DEF DecideLate, OtherDevice, vars
  <1> QED
    BY <1>3, <1>4, <1>5, <1>6, <1>7, <1>8, <1>9, <1>10 DEF Next, Run, Faults

\* Where none of the five causes is met, the appliers' demands are: the change
\* follows from one that was pulled before, and the record has not passed it.
LEMMA PullApplies ==
  ASSUME ClientInv, GroundInv, PageInv, Pulling, ~StopsPull
  PROVE  Applies
  <1>1. TypeOK /\ TableInv /\ HistoryInv
    BY DEF ClientInv, TableInv
  <1>2. PICK n : n = position + 1
    OBVIOUS
  <1>3. PICK e : e = log[n]
    OBVIOUS
  <1>4. PICK r : r = e.record
    OBVIOUS
  <1>5. /\ n \in DOMAIN log /\ n \in Nat /\ position \in Nat /\ r \in Records
        /\ e \in Entry /\ e.base \in Nat /\ e.version \in Nat /\ e.id \in Nat
        /\ e.disposition = "accepted" => e.version = e.base + 1
        /\ e.kind = "create" <=> e.base = 0
        /\ \A row \in outbox : ~Claimed(row)
        /\ Change = e
    BY <1>2, <1>3, <1>4, ChangeIs
  <1>6. /\ e.kind = "archive" => ReceiptOf(e.id) = {}
        /\ ~ContestAhead(r)
        /\ e.disposition = "conflict" => ~(local[r].version > e.version)
        /\ Present(r) \/ e.kind = "create"
        /\ \A rec \in ReceiptOf(e.id) : rec.answer.disposition # "rejected"
    BY <1>4, <1>5 DEF StopsPull, ContestAhead
  <1>7. local[r].version \in Nat
    BY <1>1, <1>5, LocalFields
  <1>8. e.disposition \in {"accepted", "conflict"}
        /\ e.kind \in {"create", "update", "archive", "tombstone", "resolve"}
    BY <1>5 DEF Entry
  <1>9. ASSUME NEW rec \in ReceiptOf(e.id)
        PROVE  Matches(rec, n)
    <2>1. rec \in receipts /\ rec \in Receipt /\ rec.m.id = e.id
      BY <1>1, OneRow DEF ReceiptOf
    <2>2. rec.answer.disposition \in {"accepted", "conflict"}
      BY <1>1, <1>6, <2>1, ReceiptFields DEF TableInv, ReceiptInv
    <2>3. PICK k : k = rec.answer.seq
      OBVIOUS
    <2>4. /\ k \in DOMAIN log /\ Says(k, rec.m) /\ log[k].id = e.id
          /\ log[k].disposition = rec.answer.disposition
          /\ log[k].version = rec.answer.version
      BY <1>1, <2>1, <2>2, <2>3 DEF TableInv, ReceiptInv, Tells
    <2>5. e.id # 0
      BY <2>1, ReceiptFields, MutationFields
    <2>6. k = n
      BY <1>1, <1>3, <1>5, <2>4, <2>5 DEF HistoryInv
    <2>7. PICK told : told = rec.answer
      OBVIOUS
    <2>8. told \in Answer
      BY <2>1, <2>7, ReceiptFields
    <2>9. told = [disposition |-> log[n].disposition, version |-> log[n].version, seq |-> n]
      BY <2>3, <2>4, <2>6, <2>7, <2>8 DEF Answer
    <2> QED
      BY <2>4, <2>6, <2>7, <2>9 DEF Matches
  <1>10. Own => OwnMatches
    BY <1>2, <1>5, <1>9 DEF OwnMatches
  <1>11. CASE e.id # 0
    <2>1. PICK rec \in receipts : rec.m.id = e.id
      <3>1. SentAs(n)
        BY <1>1, <1>3, <1>5, <1>11 DEF TableInv, DecidedInv
      <3>2. Answered(e.id)
        BY <1>3, <1>5, <3>1 DEF SentAs
      <3> QED
        BY <3>2 DEF Answered
    <2>2. rec \in ReceiptOf(e.id) /\ Matches(rec, n)
      BY <1>9, <2>1 DEF ReceiptOf
    <2>3. e.kind \in {"create", "update"}
      <3>1. e.kind \in {"create", "update", "archive"}
        BY <1>1, <1>3, <1>5, <1>11 DEF HistoryInv, SoundEntry
      <3> QED
        BY <1>6, <2>2, <3>1
    <2>4. e.disposition # "conflict"
      <3>1. SUFFICES ASSUME e.disposition = "conflict"
                     PROVE  FALSE
        OBVIOUS
      <3>2. PICK told : told = rec.answer
        OBVIOUS
      <3>3. /\ rec.m.record = r
            /\ told = [disposition |-> log[n].disposition, version |-> log[n].version, seq |-> n]
        BY <1>3, <1>4, <2>2, <3>2 DEF Matches, Says
      <3>4. told.disposition = "conflict" /\ told.seq = n
        BY <1>3, <3>1, <3>3
      <3>5. n > position
        BY <1>2, <1>5
      <3> QED
        BY <1>6, <2>1, <3>2, <3>3, <3>4, <3>5 DEF ContestAhead
    <2>5. Own
      BY <1>5, <2>2, <2>3 DEF Own, LookedUp
    <2>6. Echo
      BY <1>5, <1>8, <1>10, <2>4, <2>5 DEF Echo
    <2> QED
      BY <1>10, <2>6 DEF Applies
  <1>12. CASE e.id = 0
    <2>1. PICK ground : ground = IF e.disposition = "accepted" THEN e.base ELSE e.version
      OBVIOUS
    <2>2. \/ \E j \in DOMAIN log : j < n /\ log[j].record = r /\ log[j].version = ground
          \/ First(n) /\ (e.disposition = "accepted" => e.base = 0)
      BY <1>3, <1>4, <1>5, <2>1 DEF GroundInv, Grounded, Ground
    <2>3. Present(r) => ~First(n)
      <3>1. n \in EntriesOf(r) /\ position < n
        BY <1>2, <1>3, <1>4, <1>5 DEF EntriesOf
      <3> QED
        BY <1>3, <1>5, <1>12, <3>1 DEF PageInv, NewcomerInv
    <2>4. Present(r) => /\ ground <= local[r].version
                        /\ \E j \in DOMAIN log : log[j].version = ground
      <3>1. SUFFICES ASSUME Present(r)
                     PROVE  /\ ground <= local[r].version
                            /\ \E j \in DOMAIN log : log[j].version = ground
        OBVIOUS
      <3>2. PICK j \in DOMAIN log : j < n /\ log[j].record = r /\ log[j].version = ground
        BY <2>2, <2>3, <3>1
      <3>3. j <= position
        BY <1>1, <1>2, <1>5, <3>2, LogFields
      <3> QED
        BY <1>1, <1>5, <3>1, <3>2, <3>3 DEF TableInv, VersionInv, Bounds
    <2>5. CASE e.disposition = "conflict"
      <3>1. Present(r) => local[r].version = e.version
        BY <1>5, <1>6, <1>7, <2>1, <2>4, <2>5
      <3> QED
        BY <1>4, <1>5, <1>10, <2>5, <3>1 DEF Applies, ConflictFits
    <2>6. CASE e.disposition = "accepted"
      <3>1. CASE e.kind = "create"
        <4>1. \A j \in DOMAIN log : log[j].version # 0
          BY <1>1, LogFields
        <4>2. ~Present(r)
          BY <1>5, <2>1, <2>4, <2>6, <3>1, <4>1
        <4> QED
          BY <1>4, <1>5, <1>10, <2>6, <3>1, <4>2 DEF Applies, CreateFits
      <3>2. CASE e.kind # "create"
        <4>1. Present(r)
          BY <1>6, <3>2
        <4>2. n \in Accepted(r) /\ position < n
          BY <1>2, <1>3, <1>4, <1>5, <2>6 DEF Accepted, EntriesOf
        <4>3. local[r].version = e.base
          <5>1. SUFFICES ASSUME local[r].version # e.base
                         PROVE  FALSE
            OBVIOUS
          <5>2. e.version <= local[r].version
            BY <1>5, <1>7, <2>1, <2>4, <2>6, <4>1, <5>1
          <5>3. Overtaken(r)
            BY <1>3, <1>12, <4>2, <5>2 DEF Overtaken
          <5> QED
            BY <1>5, <1>6, <4>1, <5>3 DEF PageInv, AheadInv
        <4>4. local[r].state # "tombstoned"
          <5>1. SUFFICES ASSUME local[r].state = "tombstoned"
                         PROVE  FALSE
            OBVIOUS
          <5>2. PICK i \in Accepted(r) : i <= position /\ log[i].kind = "tombstone"
            BY <1>5, <5>1 DEF PageInv, TombstoneInv
          <5>3. /\ i \in DOMAIN log /\ log[i].record = r /\ log[i].disposition = "accepted"
                /\ i < n
            BY <1>1, <1>2, <1>5, <5>2, LogFields DEF Accepted, EntriesOf
          <5> QED
            BY <1>3, <1>4, <1>5, <2>6, <5>2, <5>3 DEF GroundInv, Final
        <4>5. Follows(r) /\ Editable(r)
          BY <1>5, <4>1, <4>3, <4>4 DEF Follows, Editable
        <4>6. CASE e.kind \in {"update", "archive"}
          BY <1>4, <1>5, <1>10, <2>6, <4>5, <4>6 DEF Applies, UpdateFits
        <4>7. CASE e.kind = "tombstone"
          BY <1>4, <1>5, <1>10, <2>6, <4>5, <4>7 DEF Applies, TombstoneFits
        <4>8. CASE e.kind = "resolve"
          <5>1. ASSUME NEW i \in e.resolves
                PROVE  i \in conflicts /\ log[i].record = r
            <6>1. /\ i \in DOMAIN log /\ i < n /\ log[i].record = r
                  /\ log[i].disposition = "conflict"
                  /\ \A k \in DOMAIN log : k < n => i \notin log[k].resolves
              BY <1>3, <1>4, <1>5, <5>1 DEF GroundInv, SettlesOpen
            <6>2. \A k \in DOMAIN log : k <= position <=> k < n
              BY <1>1, <1>2, <1>5, LogFields
            <6> QED
              BY <6>1, <6>2 DEF PageInv, PulledConflictInv
          <5>2. \A row \in RowsOf(r) : ~Held(row)
            <6>1. ASSUME NEW row \in RowsOf(r)
                  PROVE  ~Held(row)
              <7>1. row \in outbox /\ ~Claimed(row)
                BY <1>5 DEF RowsOf
              <7> QED
                BY <7>1 DEF Held, Claimed, Unclaimed
            <6> QED
              BY <6>1
          <5>3. ResolveFits
            BY <1>4, <1>5, <4>5, <4>8, <5>1, <5>2 DEF ResolveFits
          <5> QED
            BY <1>5, <1>10, <2>6, <5>3 DEF Applies
        <4> QED
          BY <1>8, <3>2, <4>6, <4>7, <4>8
      <3> QED
        BY <3>1, <3>2
    <2> QED
      BY <1>8, <2>5, <2>6
  <1> QED
    BY <1>11, <1>12

\* A page fails on no change the service publishes, in no order of writes, answers, conflicts
\* and resolutions of any number of devices, but for the five causes that StopsPull names.
THEOREM PullsStopOnlyThere == Spec => []PullStopsOnlyThere
  <1>1. Init => GroundInv /\ PageInv
    BY DEF Init, GroundInv, PageInv, NewcomerInv, TombstoneInv, PulledConflictInv, AheadInv,
           Present
  <1>2. ClientInv /\ GroundInv /\ PageInv /\ [Next]_vars => GroundInv' /\ PageInv'
    BY GroundStep, PageStep
  <1>3. ClientInv /\ GroundInv /\ PageInv => PullStopsOnlyThere
    BY PullApplies DEF PullStopsOnlyThere
  <1> QED
    BY <1>1, <1>2, <1>3, InitClient, NextClient, PTL DEF Spec

=============================================================================
