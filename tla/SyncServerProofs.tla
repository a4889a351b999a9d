------------------------- MODULE SyncServerProofs --------------------------
(***************************************************************************)
(* Theorems of SyncServer and of the readers of its history, for every     *)
(* owner: any devices, records, topics, bounds, page limits and pages.     *)
(***************************************************************************)
EXTENDS SyncReaders, FiniteSetTheorems, SequenceTheorems, WellFoundedInduction, TLAPS

(***************************************************************************)
(* Mutations.                                                              *)
(***************************************************************************)

\* What push knows of a mutation before it reads the database.
LEMMA MutationType ==
  ASSUME NEW m \in Mutations
  PROVE  /\ m.id \in MutationIds
         /\ m.kind \in {"create", "update", "archive", "tombstone", "resolve"}
         /\ m.record \in Records
         /\ m.base \in 0..MaxVersion
         /\ m.payload \in Payload
         /\ m.resolves \subseteq 1..MaxSeq
         /\ m.record \in Sessions => m.payload.project \in Projects
         /\ m.kind \in {"archive", "tombstone", "resolve"} => m.record \in Observations
         /\ m.kind # "resolve" => m.resolves = {}
         /\ (m.kind = "create") <=> (m.base = 0)
  <1>1. NoPayload \in Payload
    BY DEF NoPayload, Payload
  <1>2. SessionPayloads \subseteq Payload /\ ObservationPayloads \subseteq Payload
    BY <1>1 DEF SessionPayloads, ObservationPayloads, Payload
  <1>3. \A p \in SessionPayloads : p.project \in Projects
    BY <1>1 DEF SessionPayloads, Payload
  <1>4. CASE m \in PlainMutations
    BY <1>1, <1>2, <1>3, <1>4, ConstantsAssumption
    DEF PlainMutations, Mutation, ValidBase, Records
  <1>5. CASE m \in Resolutions(1..MaxSeq)
    BY <1>2, <1>5, ConstantsAssumption DEF Resolutions, Mutation, ValidBase, Records
  <1> QED
    BY <1>4, <1>5 DEF Mutations

\* The mutations of a step are mutations: a pushed resolution names conflicts,
\* and a conflict has the sequence number it was reported at.
LEMMA PushedMutation ==
  ASSUME TypeOK, NEW m \in PlainMutations \cup Resolutions({c.id : c \in conflicts})
  PROVE  m \in Mutations
  <1>1. {c.id : c \in conflicts} \subseteq 1..MaxSeq
    BY DEF TypeOK, ConflictRow
  <1>2. Resolutions({c.id : c \in conflicts}) \subseteq Resolutions(1..MaxSeq)
    BY <1>1 DEF Resolutions, Mutation
  <1> QED
    BY <1>2 DEF Mutations

(***************************************************************************)
(* Type correctness.                                                       *)
(***************************************************************************)

LEMMA VersionType ==
  ASSUME TypeOK, NEW r \in Records
  PROVE  Version(r) \in 0..MaxVersion
  BY DEF TypeOK, Version, Records, ObservationRow

\* An accepted mutation leaves room for the version it makes.
LEMMA AcceptedBase ==
  ASSUME NEW d \in Devices, NEW m \in Mutations, Verdict(d, m) = "accepted"
  PROVE  m.base + 1 \in 1..MaxVersion
  <1>1. ~InvalidBase(m)
    BY DEF Verdict
  <1> QED
    BY <1>1, MutationType, ConstantsAssumption DEF InvalidBase, Exhausted

LEMMA ConflictBase ==
  ASSUME TypeOK, NEW d \in Devices, NEW m \in Mutations, Verdict(d, m) = "conflict"
  PROVE  /\ m.record \in Observations
         /\ m.base + 1 \in 1..MaxVersion
         /\ Exists(m.record) => Version(m.record) \in 1..MaxVersion
  <1>1. ~InvalidBase(m) /\ Competes(m)
    BY DEF Verdict
  <1>2. m.record \in Observations
    BY <1>1 DEF Competes
  <1>3. m.base + 1 \in 1..MaxVersion
    BY <1>1, MutationType, ConstantsAssumption DEF InvalidBase, Exhausted
  <1>4. Exists(m.record) => Version(m.record) \in 1..MaxVersion
    BY VersionType, MutationType, ConstantsAssumption DEF Exists
  <1> QED
    BY <1>2, <1>3, <1>4

\* The history tables after a decision.
LEMMA RecordType ==
  ASSUME TypeOK, NEW d \in Devices, NEW m \in Mutations,
         NEW disposition \in {"accepted", "conflict"},
         NEW version \in 1..MaxVersion, m.base + 1 \in 1..MaxVersion,
         Contiguous, Record(d, m, disposition, version)
  PROVE  /\ nextSeq' \in 1..(MaxSeq + 1)
         /\ mutations' \subseteq Receipt
         /\ versions' \in Seq(VersionRow)
         /\ changes' \in Seq(ChangeRow)
         /\ nextSeq \in 1..MaxSeq
         /\ Len(versions) + 1 \in 1..MaxSeq
  <1>1. nextSeq \in 1..MaxSeq
    BY ConstantsAssumption DEF TypeOK, Record
  <1>2. Len(versions) + 1 \in 1..MaxSeq
    BY <1>1 DEF TypeOK, Contiguous
  <1>3. nextSeq' \in 1..(MaxSeq + 1)
    BY <1>1, ConstantsAssumption DEF Record
  <1>4. [device |-> d, mutation |-> m, disposition |-> disposition,
         seq |-> nextSeq, version |-> version] \in Receipt
    BY <1>1 DEF Receipt
  <1>5. mutations' \subseteq Receipt
    BY <1>4 DEF TypeOK, Record
  <1>6. [record |-> m.record, version |-> m.base + 1, device |-> d, id |-> m.id,
         base |-> m.base, disposition |-> disposition, snapshot |-> m.payload] \in VersionRow
    BY MutationType DEF VersionRow
  <1>7. versions' \in Seq(VersionRow)
    BY <1>6 DEF TypeOK, Record
  <1>8. [device |-> d, id |-> m.id, kind |-> disposition, record |-> m.record,
         version |-> version, row |-> Len(versions) + 1] \in ChangeRow
    BY <1>2, MutationType DEF ChangeRow
  <1>9. changes' \in Seq(ChangeRow)
    BY <1>8 DEF TypeOK, Record
  <1> QED
    BY <1>1, <1>2, <1>3, <1>5, <1>7, <1>9

\* The canonical tables after an accepted mutation.
LEMMA CanonicalType ==
  ASSUME TypeOK, NEW m \in Mutations, m.base + 1 \in 1..MaxVersion,
         Len(versions) + 1 \in 1..MaxSeq, WriteCanonical(m)
  PROVE  /\ projects' \in [Projects -> 0..MaxVersion]
         /\ sessions' \in [Sessions -> [project : Projects \cup {None}, version : 0..MaxVersion]]
         /\ observations' \in [Observations -> ObservationRow]
         /\ tombstones' \in [Observations -> 0..MaxSeq]
  <1>0. m.base + 1 \in 0..MaxVersion
    BY ConstantsAssumption
  <1>1. m.record \in Observations => Rewritten(m) \in ObservationRow
    BY <1>0, MutationType DEF Rewritten, ObservationRow
  <1>2. m.record \in Observations => Erased(m) \in ObservationRow
    <2>1. \A p \in Payload : [p EXCEPT !.topic = None, !.refs = {}] \in Payload
      BY DEF Payload
    <2>2. m.record \in Observations => observations[m.record].payload \in Payload
      BY DEF TypeOK, ObservationRow
    <2> QED
      BY <1>0, <2>1, <2>2 DEF Erased, ObservationRow
  <1>3. CASE m.record \in Projects
    <2>1. m.record \notin Sessions /\ m.record \notin Observations
      BY <1>3, ConstantsAssumption
    <2> QED
      BY <1>0, <1>3, <2>1 DEF WriteCanonical, TypeOK
  <1>4. CASE m.record \in Sessions
    <2>1. m.record \notin Projects /\ m.record \notin Observations
      BY <1>4, ConstantsAssumption
    <2>2. [project |-> m.payload.project, version |-> m.base + 1] \in
            [project : Projects \cup {None}, version : 0..MaxVersion]
      BY <1>0, <1>4, MutationType
    <2>3. /\ sessions' = [sessions EXCEPT ![m.record] =
                            [project |-> m.payload.project, version |-> m.base + 1]]
          /\ UNCHANGED <<projects, observations, tombstones>>
      BY <2>1 DEF WriteCanonical
    <2> QED
      BY <1>4, <2>2, <2>3 DEF TypeOK
  <1>5. CASE m.record \in Observations
    <2>1. m.record \notin Projects /\ m.record \notin Sessions
      BY <1>5, ConstantsAssumption
    <2>2. Len(versions) + 1 \in 0..MaxSeq
      BY ConstantsAssumption
    <2>3. /\ UNCHANGED <<projects, sessions>>
          /\ \E row \in ObservationRow : observations' = [observations EXCEPT ![m.record] = row]
          /\ \/ tombstones' = tombstones
             \/ tombstones' = [tombstones EXCEPT ![m.record] = Len(versions) + 1]
      BY <1>1, <1>2, <1>5, <2>1 DEF WriteCanonical
    <2>4. observations' \in [Observations -> ObservationRow]
      BY <2>3 DEF TypeOK
    <2>5. tombstones' \in [Observations -> 0..MaxSeq]
      BY <2>2, <2>3 DEF TypeOK
    <2> QED
      BY <2>3, <2>4, <2>5 DEF TypeOK
  <1> QED
    BY <1>3, <1>4, <1>5, MutationType DEF Records

\* TypeOK needs the log to be as long as the sequence says: it is what keeps
\* the row numbers of versions within their bound.
TypeInv == TypeOK /\ Contiguous

LEMMA PushAcceptType ==
  ASSUME TypeInv, NEW d \in Devices, NEW m \in Mutations, PushAccept(d, m)
  PROVE  TypeInv'
  <1>1. m.base + 1 \in 1..MaxVersion
    BY AcceptedBase DEF PushAccept
  <1>2. /\ nextSeq' \in 1..(MaxSeq + 1)
        /\ mutations' \subseteq Receipt
        /\ versions' \in Seq(VersionRow)
        /\ changes' \in Seq(ChangeRow)
        /\ nextSeq \in 1..MaxSeq
        /\ Len(versions) + 1 \in 1..MaxSeq
    BY <1>1, RecordType DEF PushAccept, TypeInv
  <1>3. /\ projects' \in [Projects -> 0..MaxVersion]
        /\ sessions' \in [Sessions -> [project : Projects \cup {None}, version : 0..MaxVersion]]
        /\ observations' \in [Observations -> ObservationRow]
        /\ tombstones' \in [Observations -> 0..MaxSeq]
    BY <1>1, <1>2, CanonicalType DEF PushAccept, TypeInv
  <1>4. conflicts' \subseteq ConflictRow
    <2>1. ASSUME NEW c \in ConflictRow PROVE Resolved(c) \in ConflictRow
      <3>1. \A n \in 0..MaxSeq : [c EXCEPT !.status = "resolved", !.resolvedSeq = n] \in ConflictRow
        BY DEF ConflictRow
      <3>2. nextSeq \in 0..MaxSeq
        BY <1>2, ConstantsAssumption
      <3> QED
        BY <3>1, <3>2 DEF Resolved
    <2>2. conflicts \subseteq ConflictRow /\ Named(m) \subseteq conflicts
      BY DEF TypeInv, TypeOK, Named
    <2> QED
      BY <2>1, <2>2 DEF PushAccept, Settle
  <1>5. Contiguous'
    BY DEF PushAccept, Record, Contiguous, TypeInv, TypeOK
  <1> QED
    BY <1>2, <1>3, <1>4, <1>5 DEF PushAccept, TypeInv, TypeOK

LEMMA PushConflictType ==
  ASSUME TypeInv, NEW d \in Devices, NEW m \in Mutations, PushConflict(d, m)
  PROVE  TypeInv'
  <1> DEFINE version == IF Exists(m.record) THEN Version(m.record) ELSE m.base + 1
  <1>1. m.record \in Observations /\ m.base + 1 \in 1..MaxVersion /\ version \in 1..MaxVersion
    BY ConflictBase DEF PushConflict, TypeInv
  <1>2. Record(d, m, "conflict", version)
    BY DEF PushConflict
  <1> HIDE DEF version
  <1>3. /\ nextSeq' \in 1..(MaxSeq + 1)
        /\ mutations' \subseteq Receipt
        /\ versions' \in Seq(VersionRow)
        /\ changes' \in Seq(ChangeRow)
        /\ nextSeq \in 1..MaxSeq
        /\ Len(versions) + 1 \in 1..MaxSeq
    BY <1>1, <1>2, RecordType DEF TypeInv
  <1>4. Contested(m) \in ObservationRow
    <2>1. [payload |-> m.payload, lifecycle |-> "archived",
           review |-> "needs_review", version |-> m.base + 1] \in ObservationRow
      BY <1>1, MutationType, ConstantsAssumption DEF ObservationRow
    <2>2. \A row \in ObservationRow : [row EXCEPT !.review = "needs_review"] \in ObservationRow
      BY DEF ObservationRow
    <2>3. observations[m.record] \in ObservationRow
      BY <1>1 DEF TypeInv, TypeOK
    <2> QED
      BY <2>1, <2>2, <2>3 DEF Contested
  <1>5. observations' \in [Observations -> ObservationRow]
    BY <1>1, <1>4 DEF PushConflict, TypeInv, TypeOK
  <1>6. [id |-> nextSeq, observation |-> m.record, version |-> version,
         row |-> Len(versions) + 1, status |-> "unresolved", resolvedSeq |-> 0] \in ConflictRow
    BY <1>1, <1>3, ConstantsAssumption DEF ConflictRow
  <1>7. conflicts' \subseteq ConflictRow
    BY <1>6 DEF PushConflict, TypeInv, TypeOK, version
  <1>8. Contiguous'
    BY <1>2 DEF Record, Contiguous, TypeInv, TypeOK
  <1> QED
    BY <1>3, <1>5, <1>7, <1>8 DEF PushConflict, TypeInv, TypeOK

LEMMA InitType == Init => TypeInv
  <1> SUFFICES ASSUME Init PROVE TypeInv
    OBVIOUS
  <1>1. NoPayload \in Payload
    BY DEF NoPayload, Payload
  <1>2. observations \in [Observations -> ObservationRow]
    BY <1>1, ConstantsAssumption DEF Init, ObservationRow
  <1>3. changes \in Seq(ChangeRow) /\ versions \in Seq(VersionRow) /\ Contiguous
    BY DEF Init, Contiguous
  <1> QED
    BY <1>2, <1>3, ConstantsAssumption DEF Init, TypeInv, TypeOK

LEMMA NextType == TypeInv /\ [Next]_vars => TypeInv'
  <1> SUFFICES ASSUME TypeInv, [Next]_vars PROVE TypeInv'
    OBVIOUS
  <1>1. ASSUME NEW d \in Devices, IssueDevice(d) PROVE TypeInv'
    BY <1>1 DEF IssueDevice, TypeInv, TypeOK, Contiguous, canonical, history
  <1>2. ASSUME NEW d \in Devices, RevokeDevice(d) PROVE TypeInv'
    BY <1>2 DEF RevokeDevice, TypeInv, TypeOK, Contiguous, canonical, history
  <1>3. ASSUME NEW d \in Devices, AuthenticateDevice(d) PROVE TypeInv'
    BY <1>3 DEF AuthenticateDevice, TypeInv, TypeOK, Contiguous, canonical, history
  <1>4. ASSUME NEW d \in Devices, EndRequest(d) PROVE TypeInv'
    BY <1>4 DEF EndRequest, TypeInv, TypeOK, Contiguous, canonical, history
  <1>5. ASSUME NEW d \in Devices, Push(d) PROVE TypeInv'
    BY <1>5, PushedMutation, PushAcceptType, PushConflictType DEF Push, TypeInv, Mutations
  <1>6. CASE UNCHANGED vars
    BY <1>6 DEF TypeInv, TypeOK, Contiguous, vars, canonical, history
  <1> QED
    BY <1>1, <1>2, <1>3, <1>4, <1>5, <1>6 DEF Next

\* The columns keep their types; no version leaves the int64 range.
THEOREM TypeCorrect == Spec => []TypeOK
  <1>1. TypeInv => TypeOK
    BY DEF TypeInv
  <1> QED
    BY <1>1, InitType, NextType, PTL DEF Spec

(***************************************************************************)
(* The recovery check.  RecoveryVerifies is not inductive: a receipt must  *)
(* be the only one of its mutation, a change must point at the version     *)
(* written with it, and a conflict that has not been resolved must carry   *)
(* no resolving sequence.                                                  *)
(***************************************************************************)

OneReceipt ==
  \A r1, r2 \in mutations :
    r1.device = r2.device /\ r1.mutation.id = r2.mutation.id => r1 = r2
RowsInStep == \A i \in DOMAIN changes : changes[i].row = i
ConflictsBefore ==
  \A c \in conflicts : /\ c.id < nextSeq /\ c.resolvedSeq < nextSeq
                       /\ c.status = "unresolved" => c.resolvedSeq = 0

LogLinked == OneReceipt /\ RowsInStep /\ ChangesLinked /\ ReceiptsLinked
RecoveryInv ==
  /\ TypeInv /\ LogLinked
  /\ TombstonesLinked /\ ConflictsBefore /\ ResolutionsLinked

\* The checks an accepted mutation, or a conflict, has passed.
LEMMA DecidedFacts ==
  ASSUME NEW d, NEW m, Verdict(d, m) \in {"accepted", "conflict"}
  PROVE  /\ device[d] # "absent" /\ device[d] # "revoked"
         /\ Receipts(d, m.id) = {}
         /\ ~InvalidBase(m)
         /\ ~InvalidPrerequisite(m)
  BY DEF Verdict, Revoked

LEMMA AcceptedFacts ==
  ASSUME NEW d, NEW m, Verdict(d, m) = "accepted"
  PROVE  /\ ~Competes(m)
         /\ m.kind # "create" => Version(m.record) = m.base
         /\ ~Unresolvable(m)
         /\ m.kind = "tombstone" => tombstones[m.record] = 0
  BY DEF Verdict, KeyTaken

\* What the decision leaves in the history tables.
LEMMA RecordAppends ==
  ASSUME TypeInv, NEW d, NEW m, NEW disposition, NEW version,
         Record(d, m, disposition, version)
  PROVE  /\ Len(changes) = nextSeq - 1 /\ Len(versions) = nextSeq - 1
         /\ nextSeq \in Nat \ {0} /\ nextSeq' = nextSeq + 1
         /\ DOMAIN changes = 1..(nextSeq - 1) /\ DOMAIN changes' = 1..nextSeq
         /\ DOMAIN versions = 1..(nextSeq - 1) /\ DOMAIN versions' = 1..nextSeq
         /\ \A i \in DOMAIN changes : changes'[i] = changes[i]
         /\ \A i \in DOMAIN versions : versions'[i] = versions[i]
         /\ changes'[nextSeq] =
              [device |-> d, id |-> m.id, kind |-> disposition, record |-> m.record,
               version |-> version, row |-> nextSeq]
         /\ versions'[nextSeq] =
              [record |-> m.record, version |-> m.base + 1, device |-> d, id |-> m.id,
               base |-> m.base, disposition |-> disposition, snapshot |-> m.payload]
         /\ mutations' = mutations \cup
              {[device |-> d, mutation |-> m, disposition |-> disposition,
                seq |-> nextSeq, version |-> version]}
  <1>1. changes \in Seq(ChangeRow) /\ versions \in Seq(VersionRow) /\ nextSeq \in Nat \ {0}
    BY ConstantsAssumption DEF TypeInv, TypeOK
  <1>2. Len(changes) = nextSeq - 1 /\ Len(versions) = nextSeq - 1
    BY <1>1 DEF TypeInv, Contiguous
  <1>3. DOMAIN changes = 1..(nextSeq - 1) /\ DOMAIN versions = 1..(nextSeq - 1)
    BY <1>1, <1>2
  <1> QED
    BY <1>1, <1>2, <1>3 DEF Record

\* One more receipt, version and change, which say the same, keep the log linked.
LEMMA RecordLinked ==
  ASSUME TypeInv, LogLinked, NEW d \in Devices, NEW m \in Mutations,
         NEW disposition \in {"accepted", "conflict"}, NEW version,
         disposition = "accepted" => version = m.base + 1,
         Receipts(d, m.id) = {}, Record(d, m, disposition, version)
  PROVE  LogLinked'
  <1> DEFINE new == [device |-> d, mutation |-> m, disposition |-> disposition,
                     seq |-> nextSeq, version |-> version]
  <1>1. /\ nextSeq \in Nat \ {0}
        /\ DOMAIN changes = 1..(nextSeq - 1) /\ DOMAIN changes' = 1..nextSeq
        /\ DOMAIN versions = 1..(nextSeq - 1) /\ DOMAIN versions' = 1..nextSeq
        /\ \A i \in DOMAIN changes : changes'[i] = changes[i]
        /\ \A i \in DOMAIN versions : versions'[i] = versions[i]
        /\ changes'[nextSeq] =
             [device |-> d, id |-> m.id, kind |-> disposition, record |-> m.record,
              version |-> version, row |-> nextSeq]
        /\ versions'[nextSeq] =
             [record |-> m.record, version |-> m.base + 1, device |-> d, id |-> m.id,
              base |-> m.base, disposition |-> disposition, snapshot |-> m.payload]
        /\ mutations' = mutations \cup {new}
    BY RecordAppends
  <1>2. /\ new.device = d /\ new.mutation = m /\ new.seq = nextSeq
        /\ new.disposition = disposition /\ new.version = version
    OBVIOUS
  <1> HIDE DEF new
  <1>3. OneReceipt'
    <2>1. \A row \in mutations : ~(row.device = d /\ row.mutation.id = m.id)
      BY DEF Receipts
    <2> QED
      BY <1>1, <1>2, <2>1 DEF OneReceipt, LogLinked
  <1>4. RowsInStep'
    BY <1>1 DEF RowsInStep, LogLinked
  <1>5. ChangesLinked'
    <2> SUFFICES ASSUME NEW i \in 1..nextSeq
                 PROVE  LET c == changes'[i]
                            v == versions'[i]
                        IN /\ v.record = c.record /\ v.device = c.device /\ v.id = c.id
                           /\ v.disposition = c.kind
                           /\ c.kind = "accepted" => v.version = c.version
                           /\ \E row \in mutations' :
                                /\ ReceiptOf(c, row) /\ row.seq = i
                                /\ row.mutation.record = c.record
                                /\ row.disposition = c.kind /\ row.version = c.version
                                /\ v.base = row.mutation.base
                                /\ v.version = row.mutation.base + 1
      BY <1>1, <1>4 DEF ChangesLinked, RowsInStep, ReceiptOf
    <2>1. CASE i \in DOMAIN changes
      BY <1>1, <2>1 DEF ChangesLinked, LogLinked, RowsInStep, ReceiptOf
    <2>2. CASE i = nextSeq
      BY <1>1, <1>2, <2>2 DEF ReceiptOf
    <2> QED
      BY <1>1, <2>1, <2>2
  <1>6. ReceiptsLinked'
    <2> SUFFICES ASSUME NEW row \in mutations'
                 PROVE  /\ row.seq \in DOMAIN changes'
                        /\ ReceiptOf(changes'[row.seq], row)
                        /\ changes'[row.seq].kind = row.disposition
                        /\ changes'[row.seq].version = row.version
      BY DEF ReceiptsLinked, ReceiptOf
    <2>1. CASE row \in mutations
      BY <1>1, <2>1 DEF ReceiptsLinked, LogLinked, ReceiptOf
    <2>2. CASE row = new
      BY <1>1, <1>2, <2>2 DEF ReceiptOf
    <2> QED
      BY <1>1, <2>1, <2>2
  <1> QED
    BY <1>3, <1>4, <1>5, <1>6 DEF LogLinked

\* What an accepted mutation does to the row of an observation.
LEMMA CanonicalRow ==
  ASSUME TypeInv, NEW m \in Mutations, WriteCanonical(m), NEW o \in Observations
  PROVE  /\ o # m.record => observations'[o] = observations[o] /\ tombstones'[o] = tombstones[o]
         /\ o = m.record /\ m.kind # "tombstone" =>
              observations'[o] = Rewritten(m) /\ tombstones'[o] = tombstones[o]
         /\ o = m.record /\ m.kind = "tombstone" =>
              observations'[o] = Erased(m) /\ tombstones'[o] = Len(versions) + 1
  <1>1. observations \in [Observations -> ObservationRow] /\ tombstones \in [Observations -> 0..MaxSeq]
    BY DEF TypeInv, TypeOK
  <1>2. CASE m.record \in Observations
    <2>1. m.record \notin Projects /\ m.record \notin Sessions
      BY <1>2, ConstantsAssumption
    <2> QED
      BY <1>1, <1>2, <2>1 DEF WriteCanonical
  <1>3. CASE m.record \notin Observations
    BY <1>1, <1>3 DEF WriteCanonical
  <1> QED
    BY <1>2, <1>3

\* A tombstoned row has a version: its tombstone's.
LEMMA TombstonedExists ==
  ASSUME RecoveryInv, NEW o \in Observations, Tombstoned(o)
  PROVE  Exists(o)
  <1>1. PICK row \in mutations : /\ changes[row.seq].row = tombstones[o]
                                 /\ versions[tombstones[o]].version = observations[o].version
    BY DEF RecoveryInv, TombstonesLinked
  <1>2. row.seq \in DOMAIN changes
    BY DEF RecoveryInv, LogLinked, ReceiptsLinked
  <1>3. tombstones[o] \in DOMAIN versions
    BY <1>1, <1>2 DEF RecoveryInv, LogLinked, ChangesLinked
  <1>4. versions \in Seq(VersionRow)
    BY DEF RecoveryInv, TypeInv, TypeOK
  <1>5. versions[tombstones[o]] \in VersionRow
    BY <1>3, <1>4
  <1>6. observations[o].version # 0
    BY <1>1, <1>5, ConstantsAssumption DEF VersionRow
  <1> QED
    BY <1>6, ConstantsAssumption DEF Exists, Version

\* A tombstone row keeps its links when the log grows.
LEMMA TombstoneKept ==
  ASSUME RecoveryInv, NEW d, NEW m, NEW disposition, NEW version,
         Record(d, m, disposition, version), NEW o \in Observations,
         Tombstoned(o), observations'[o] = observations[o], tombstones'[o] = tombstones[o]
  PROVE  \E row \in mutations' :
           /\ row.mutation.kind = "tombstone" /\ row.mutation.record = o
           /\ row.disposition = "accepted"
           /\ changes'[row.seq].row = tombstones'[o]
           /\ versions'[tombstones'[o]].version = observations'[o].version
  <1>1. PICK row \in mutations :
          /\ row.mutation.kind = "tombstone" /\ row.mutation.record = o
          /\ row.disposition = "accepted"
          /\ changes[row.seq].row = tombstones[o]
          /\ versions[tombstones[o]].version = observations[o].version
    BY DEF RecoveryInv, TombstonesLinked
  <1>2. row.seq \in DOMAIN changes
    BY DEF RecoveryInv, LogLinked, ReceiptsLinked
  <1>3. tombstones[o] \in DOMAIN versions
    BY <1>1, <1>2 DEF RecoveryInv, LogLinked, ChangesLinked
  <1>4. /\ row \in mutations'
        /\ changes'[row.seq] = changes[row.seq]
        /\ versions'[tombstones[o]] = versions[tombstones[o]]
    BY <1>2, <1>3, RecordAppends DEF RecoveryInv
  <1> QED
    BY <1>1, <1>4

LEMMA AcceptTombstones ==
  ASSUME RecoveryInv, NEW d \in Devices, NEW m \in Mutations, PushAccept(d, m)
  PROVE  TombstonesLinked'
  <1> DEFINE new == [device |-> d, mutation |-> m, disposition |-> "accepted",
                     seq |-> nextSeq, version |-> m.base + 1]
  <1> SUFFICES ASSUME NEW o \in Observations
               PROVE  /\ observations'[o].lifecycle = "tombstoned" <=> tombstones'[o] # 0
                      /\ observations'[o].lifecycle = "tombstoned" =>
                           \E row \in mutations' :
                             /\ row.mutation.kind = "tombstone" /\ row.mutation.record = o
                             /\ row.disposition = "accepted"
                             /\ changes'[row.seq].row = tombstones'[o]
                             /\ versions'[tombstones'[o]].version = observations'[o].version
    BY DEF TombstonesLinked, Tombstoned
  <1>1. Record(d, m, "accepted", m.base + 1) /\ WriteCanonical(m)
    BY DEF PushAccept
  <1>2. Tombstoned(o) <=> tombstones[o] # 0
    BY DEF RecoveryInv, TombstonesLinked
  <1>3. CASE o # m.record
    <2>1. observations'[o] = observations[o] /\ tombstones'[o] = tombstones[o]
      BY <1>1, <1>3, CanonicalRow DEF RecoveryInv
    <2> QED
      BY <1>1, <1>2, <2>1, TombstoneKept DEF Tombstoned
  <1>4. CASE o = m.record /\ m.kind # "tombstone"
    <2>1. observations'[o] = Rewritten(m) /\ tombstones'[o] = tombstones[o]
      BY <1>1, <1>4, CanonicalRow DEF RecoveryInv
    <2>2. ~InvalidBase(m) /\ (m.kind # "create" => Version(m.record) = m.base)
      BY DecidedFacts, AcceptedFacts DEF PushAccept
    <2>3. ~Tombstoned(o)
      BY <1>4, <2>2, TombstonedExists DEF InvalidBase, Revives
    <2>4. observations'[o].lifecycle # "tombstoned"
      BY <2>1 DEF Rewritten
    <2> QED
      BY <1>2, <2>1, <2>3, <2>4
  <1>5. CASE o = m.record /\ m.kind = "tombstone"
    <2>1. observations'[o] = Erased(m) /\ tombstones'[o] = Len(versions) + 1
      BY <1>1, <1>5, CanonicalRow DEF RecoveryInv
    <2>2. observations'[o].lifecycle = "tombstoned" /\ observations'[o].version = m.base + 1
      BY <2>1 DEF Erased
    <2>3. /\ nextSeq \in Nat \ {0} /\ Len(versions) = nextSeq - 1
          /\ changes'[nextSeq] =
               [device |-> d, id |-> m.id, kind |-> "accepted", record |-> m.record,
                version |-> m.base + 1, row |-> nextSeq]
          /\ versions'[nextSeq] =
               [record |-> m.record, version |-> m.base + 1, device |-> d, id |-> m.id,
                base |-> m.base, disposition |-> "accepted", snapshot |-> m.payload]
          /\ mutations' = mutations \cup {new}
      BY <1>1, RecordAppends DEF RecoveryInv
    <2>4. /\ tombstones'[o] = nextSeq
          /\ new \in mutations' /\ new.seq = nextSeq
          /\ new.mutation = m /\ new.disposition = "accepted"
      BY <2>1, <2>3
    <2> HIDE DEF new
    <2> QED
      BY <1>5, <2>2, <2>3, <2>4
  <1> QED
    BY <1>3, <1>4, <1>5

LEMMA ConflictTombstones ==
  ASSUME RecoveryInv, NEW d \in Devices, NEW m \in Mutations, PushConflict(d, m)
  PROVE  TombstonesLinked'
  <1> SUFFICES ASSUME NEW o \in Observations
               PROVE  /\ observations'[o].lifecycle = "tombstoned" <=> tombstones'[o] # 0
                      /\ observations'[o].lifecycle = "tombstoned" =>
                           \E row \in mutations' :
                             /\ row.mutation.kind = "tombstone" /\ row.mutation.record = o
                             /\ row.disposition = "accepted"
                             /\ changes'[row.seq].row = tombstones'[o]
                             /\ versions'[tombstones'[o]].version = observations'[o].version
    BY DEF TombstonesLinked, Tombstoned
  <1>1. PICK version : Record(d, m, "conflict", version)
    BY DEF PushConflict
  <1>2. Tombstoned(o) <=> tombstones[o] # 0
    BY DEF RecoveryInv, TombstonesLinked
  <1>3. tombstones'[o] = tombstones[o]
    BY DEF PushConflict
  <1>4. observations'[o] = IF o = m.record THEN Contested(m) ELSE observations[o]
    BY DEF PushConflict, RecoveryInv, TypeInv, TypeOK
  <1>5. CASE Tombstoned(o)
    <2>1. observations'[o] = observations[o]
      BY <1>4, <1>5, TombstonedExists DEF Contested
    <2> QED
      BY <1>1, <1>2, <1>3, <1>5, <2>1, TombstoneKept DEF Tombstoned
  <1>6. CASE ~Tombstoned(o)
    <2>1. observations[o] \in ObservationRow
      BY DEF RecoveryInv, TypeInv, TypeOK
    <2>2. [observations[o] EXCEPT !.review = "needs_review"].lifecycle = observations[o].lifecycle
      BY <2>1 DEF ObservationRow
    <2>3. observations'[o].lifecycle # "tombstoned"
      BY <1>4, <1>6, <2>2 DEF Contested, Tombstoned
    <2> QED
      BY <1>2, <1>3, <1>6, <2>3
  <1> QED
    BY <1>5, <1>6

\* Settle keeps every conflict's identity and dates what it resolves now.
LEMMA SettleEffect ==
  ASSUME TypeInv, NEW m \in Mutations, Settle(m)
  PROVE  /\ \A c \in conflicts \ Named(m) : c \in conflicts'
         /\ \A c \in Named(m) :
              /\ Resolved(c) \in conflicts'
              /\ Resolved(c).id = c.id /\ Resolved(c).observation = c.observation
              /\ Resolved(c).resolvedSeq = nextSeq /\ Resolved(c).status = "resolved"
         /\ \A c \in conflicts' :
              c \in conflicts \ Named(m) \/ \E x \in Named(m) : c = Resolved(x)
  <1>1. \A c \in ConflictRow :
          /\ Resolved(c).id = c.id /\ Resolved(c).observation = c.observation
          /\ Resolved(c).resolvedSeq = nextSeq /\ Resolved(c).status = "resolved"
    BY DEF Resolved, ConflictRow
  <1>2. Named(m) \subseteq ConflictRow
    BY DEF Named, TypeInv, TypeOK
  <1> QED
    BY <1>1, <1>2 DEF Settle

LEMMA AcceptConflicts ==
  ASSUME RecoveryInv, NEW d \in Devices, NEW m \in Mutations, PushAccept(d, m)
  PROVE  ConflictsBefore'
  <1>1. nextSeq \in Nat \ {0} /\ nextSeq' = nextSeq + 1
    BY RecordAppends DEF PushAccept, RecoveryInv
  <1>2. Settle(m) /\ TypeInv
    BY DEF PushAccept, RecoveryInv
  <1> SUFFICES ASSUME NEW c \in conflicts'
               PROVE  /\ c.id < nextSeq + 1 /\ c.resolvedSeq < nextSeq + 1
                      /\ c.status = "unresolved" => c.resolvedSeq = 0
    BY <1>1 DEF ConflictsBefore
  <1>3. \A x \in conflicts : /\ x.id \in Nat /\ x.resolvedSeq \in Nat
                             /\ x.id < nextSeq /\ x.resolvedSeq < nextSeq
                             /\ x.status = "unresolved" => x.resolvedSeq = 0
    BY ConstantsAssumption DEF RecoveryInv, ConflictsBefore, TypeInv, TypeOK, ConflictRow
  <1>4. CASE c \in conflicts \ Named(m)
    BY <1>1, <1>3, <1>4
  <1>5. ASSUME NEW x \in Named(m), c = Resolved(x)
        PROVE  /\ c.id < nextSeq + 1 /\ c.resolvedSeq < nextSeq + 1
               /\ c.status = "unresolved" => c.resolvedSeq = 0
    <2>1. c.id = x.id /\ c.resolvedSeq = nextSeq /\ c.status = "resolved" /\ x \in conflicts
      BY <1>2, <1>5, SettleEffect DEF Named
    <2> QED
      BY <1>1, <1>3, <2>1
  <1> QED
    BY <1>2, <1>4, <1>5, SettleEffect

\* The conflicts an accepted resolution names are the ones it settles.
LEMMA ResolutionNames ==
  ASSUME NEW d, NEW m, PushAccept(d, m), m.kind = "resolve"
  PROVE  {c.id : c \in Named(m)} = m.resolves
  <1>1. m.resolves \subseteq Unresolved(m.record)
    BY AcceptedFacts DEF PushAccept, Unresolvable
  <1> QED
    BY <1>1 DEF Unresolved, ConflictsOf, Named

LEMMA AcceptResolutions ==
  ASSUME RecoveryInv, NEW d \in Devices, NEW m \in Mutations, PushAccept(d, m)
  PROVE  ResolutionsLinked'
  <1> DEFINE new == [device |-> d, mutation |-> m, disposition |-> "accepted",
                     seq |-> nextSeq, version |-> m.base + 1]
  <1>1. /\ nextSeq \in Nat \ {0} /\ mutations' = mutations \cup {new}
        /\ DOMAIN changes = 1..(nextSeq - 1)
    BY RecordAppends DEF PushAccept, RecoveryInv
  <1>2. Settle(m) /\ TypeInv
    BY DEF PushAccept, RecoveryInv
  <1>3. new.mutation = m /\ new.seq = nextSeq
    OBVIOUS
  <1> HIDE DEF new
  <1>4. \A c \in conflicts : /\ c.resolvedSeq < nextSeq /\ c.resolvedSeq \in Nat
                             /\ c.status = "unresolved" => c.resolvedSeq = 0
    BY ConstantsAssumption DEF RecoveryInv, ConflictsBefore, TypeInv, TypeOK, ConflictRow
  <1> SUFFICES ASSUME NEW row \in mutations', row.mutation.kind = "resolve"
               PROVE  {c.id : c \in {x \in conflicts' : /\ x.observation = row.mutation.record
                                                        /\ x.resolvedSeq = row.seq}}
                        = row.mutation.resolves
    BY DEF ResolutionsLinked, ConflictsOf
  <1>5. CASE row \in mutations
    <2>1. row.seq < nextSeq /\ row.seq \in Nat \ {0}
      BY <1>1, <1>5 DEF RecoveryInv, LogLinked, ReceiptsLinked
    <2>2. \A c : (c \in conflicts' /\ c.resolvedSeq = row.seq)
                   <=> (c \in conflicts /\ c.resolvedSeq = row.seq)
      <3>1. \A c \in Named(m) : c \in conflicts /\ c.resolvedSeq = 0
        BY <1>4 DEF Named
      <3> QED
        BY <1>1, <1>2, <2>1, <3>1, SettleEffect
    <2>3. {x \in conflicts' : x.observation = row.mutation.record /\ x.resolvedSeq = row.seq}
            = {x \in conflicts : x.observation = row.mutation.record /\ x.resolvedSeq = row.seq}
      BY <2>2
    <2>4. {c.id : c \in {x \in conflicts : /\ x.observation = row.mutation.record
                                           /\ x.resolvedSeq = row.seq}}
            = row.mutation.resolves
      BY <1>5 DEF RecoveryInv, ResolutionsLinked, ConflictsOf
    <2> QED
      BY <2>3, <2>4
  <1>6. CASE row = new
    <2>1. {x \in conflicts' : x.observation = m.record /\ x.resolvedSeq = nextSeq}
            = {Resolved(c) : c \in Named(m)}
      <3>1. \A c \in conflicts : c.resolvedSeq # nextSeq
        BY <1>1, <1>4
      <3>2. \A c \in Named(m) : c.observation = m.record
        BY DEF Named
      <3> QED
        BY <1>2, <3>1, <3>2, SettleEffect
    <2>2. {c.id : c \in {Resolved(x) : x \in Named(m)}} = {c.id : c \in Named(m)}
      BY <1>2, SettleEffect
    <2>3. {c.id : c \in Named(m)} = m.resolves
      BY <1>3, <1>6, ResolutionNames
    <2> QED
      BY <1>3, <1>6, <2>1, <2>2, <2>3
  <1> QED
    BY <1>1, <1>5, <1>6

LEMMA ConflictKind ==
  ASSUME NEW d, NEW m, Verdict(d, m) = "conflict"
  PROVE  m.kind \in {"create", "update"}
  <1>1. Competes(m) /\ ~InvalidPrerequisite(m)
    BY DEF Verdict
  <1> QED
    BY <1>1 DEF Competes, InvalidPrerequisite

LEMMA ConflictResolutions ==
  ASSUME RecoveryInv, NEW d \in Devices, NEW m \in Mutations, PushConflict(d, m)
  PROVE  ConflictsBefore' /\ ResolutionsLinked'
  <1> DEFINE version == IF Exists(m.record) THEN Version(m.record) ELSE m.base + 1
  <1> DEFINE new == [device |-> d, mutation |-> m, disposition |-> "conflict",
                     seq |-> nextSeq, version |-> version]
  <1> DEFINE added == [id |-> nextSeq, observation |-> m.record, version |-> version,
                       row |-> Len(versions) + 1, status |-> "unresolved", resolvedSeq |-> 0]
  <1>1. Record(d, m, "conflict", version) /\ conflicts' = conflicts \cup {added}
    BY DEF PushConflict
  <1> HIDE DEF version
  <1>2. /\ nextSeq \in Nat \ {0} /\ nextSeq' = nextSeq + 1 /\ mutations' = mutations \cup {new}
        /\ DOMAIN changes = 1..(nextSeq - 1)
    BY <1>1, RecordAppends DEF RecoveryInv
  <1>3. /\ new.mutation = m
        /\ added.id = nextSeq /\ added.resolvedSeq = 0 /\ added.status = "unresolved"
    OBVIOUS
  <1> HIDE DEF new, added
  <1>4. ConflictsBefore'
    <2>1. \A c \in conflicts : /\ c.id \in Nat /\ c.resolvedSeq \in Nat
                               /\ c.id < nextSeq /\ c.resolvedSeq < nextSeq
                               /\ c.status = "unresolved" => c.resolvedSeq = 0
      BY ConstantsAssumption DEF RecoveryInv, ConflictsBefore, TypeInv, TypeOK, ConflictRow
    <2> QED
      BY <1>1, <1>2, <1>3, <2>1 DEF ConflictsBefore
  <1>5. ResolutionsLinked'
    <2> SUFFICES ASSUME NEW row \in mutations', row.mutation.kind = "resolve"
                 PROVE  {c.id : c \in {x \in conflicts' : /\ x.observation = row.mutation.record
                                                          /\ x.resolvedSeq = row.seq}}
                          = row.mutation.resolves
      BY DEF ResolutionsLinked, ConflictsOf
    <2>1. row \in mutations
      BY <1>2, <1>3, ConflictKind DEF PushConflict
    <2>2. row.seq # 0
      BY <1>2, <2>1 DEF RecoveryInv, LogLinked, ReceiptsLinked
    <2>3. {x \in conflicts' : x.observation = row.mutation.record /\ x.resolvedSeq = row.seq}
            = {x \in conflicts : x.observation = row.mutation.record /\ x.resolvedSeq = row.seq}
      BY <1>1, <1>3, <2>2
    <2>4. {c.id : c \in {x \in conflicts : /\ x.observation = row.mutation.record
                                           /\ x.resolvedSeq = row.seq}}
            = row.mutation.resolves
      BY <2>1 DEF RecoveryInv, ResolutionsLinked, ConflictsOf
    <2> QED
      BY <2>3, <2>4
  <1> QED
    BY <1>4, <1>5

LEMMA PushRecovery ==
  ASSUME RecoveryInv, NEW d \in Devices, NEW m \in Mutations,
         PushAccept(d, m) \/ PushConflict(d, m)
  PROVE  RecoveryInv'
  <1>1. CASE PushAccept(d, m)
    <2>1. TypeInv'
      BY <1>1, PushAcceptType DEF RecoveryInv
    <2>2. LogLinked'
      BY <1>1, RecordLinked, DecidedFacts DEF RecoveryInv, PushAccept
    <2> QED
      BY <1>1, <2>1, <2>2, AcceptTombstones, AcceptConflicts, AcceptResolutions DEF RecoveryInv
  <1>2. CASE PushConflict(d, m)
    <2>1. TypeInv'
      BY <1>2, PushConflictType DEF RecoveryInv
    <2>2. LogLinked'
      BY <1>2, RecordLinked, DecidedFacts DEF RecoveryInv, PushConflict
    <2> QED
      BY <1>2, <2>1, <2>2, ConflictTombstones, ConflictResolutions DEF RecoveryInv
  <1> QED
    BY <1>1, <1>2

\* Devices and requests are not what the recovery check reads.
LEMMA FrameRecovery ==
  RecoveryInv /\ UNCHANGED <<canonical, history>> /\ TypeInv' => RecoveryInv'
  BY DEF RecoveryInv, LogLinked, OneReceipt, RowsInStep, ChangesLinked, ReceiptsLinked,
         TombstonesLinked, ConflictsBefore, ResolutionsLinked, ConflictsOf, Tombstoned,
         ReceiptOf, canonical, history

LEMMA InitRecovery == Init => RecoveryInv
  <1> SUFFICES ASSUME Init PROVE RecoveryInv
    OBVIOUS
  <1>1. TypeInv
    BY InitType
  <1>2. LogLinked /\ ResolutionsLinked /\ ConflictsBefore
    BY DEF Init, LogLinked, OneReceipt, RowsInStep, ChangesLinked, ReceiptsLinked,
           ResolutionsLinked, ConflictsBefore
  <1>3. TombstonesLinked
    BY DEF Init, TombstonesLinked, Tombstoned
  <1> QED
    BY <1>1, <1>2, <1>3 DEF RecoveryInv

LEMMA NextRecovery == RecoveryInv /\ [Next]_vars => RecoveryInv'
  <1> SUFFICES ASSUME RecoveryInv, [Next]_vars PROVE RecoveryInv'
    OBVIOUS
  <1>1. TypeInv'
    BY NextType DEF RecoveryInv
  <1>2. ASSUME NEW d \in Devices,
               IssueDevice(d) \/ RevokeDevice(d) \/ AuthenticateDevice(d) \/ EndRequest(d)
        PROVE  RecoveryInv'
    BY <1>1, <1>2, FrameRecovery
    DEF IssueDevice, RevokeDevice, AuthenticateDevice, EndRequest
  <1>3. ASSUME NEW d \in Devices, Push(d) PROVE RecoveryInv'
    <2>1. PICK m \in PlainMutations \cup Resolutions({c.id : c \in conflicts}) :
            PushAccept(d, m) \/ PushConflict(d, m)
      BY <1>3 DEF Push
    <2>2. m \in Mutations
      BY PushedMutation DEF RecoveryInv, TypeInv
    <2> QED
      BY <2>1, <2>2, PushRecovery
  <1>4. CASE UNCHANGED vars
    BY <1>1, <1>4, FrameRecovery DEF vars
  <1> QED
    BY <1>2, <1>3, <1>4 DEF Next

\* A backup taken after any transaction passes the recovery check.
THEOREM RecoveryAlwaysVerifies == Spec => []RecoveryVerifies
  <1>1. RecoveryInv => RecoveryVerifies
    BY DEF RecoveryInv, TypeInv, LogLinked, RecoveryVerifies
  <1> QED
    BY <1>1, InitRecovery, NextRecovery, PTL DEF Spec

(***************************************************************************)
(* What a step may never do.                                               *)
(***************************************************************************)

\* A push of a device that is revoked does not change the log.
THEOREM RevokedNeverWrites == Spec => RevokedIsSilent
  <1>1. TypeInv /\ [Next]_vars =>
          [\A d \in Devices : device[d] = "revoked" => ~PushedBy(d)]_vars
    <2> SUFFICES ASSUME TypeInv, Next, NEW d \in Devices, device[d] = "revoked", PushedBy(d)
                 PROVE  FALSE
      BY DEF vars
    <2>1. ASSUME NEW e \in Devices, Push(e) PROVE FALSE
      <3>1. PICK m \in PlainMutations \cup Resolutions({c.id : c \in conflicts}) :
              PushAccept(e, m) \/ PushConflict(e, m)
        BY <2>1 DEF Push
      <3>2. PICK disposition, version : Record(e, m, disposition, version)
        BY <3>1 DEF PushAccept, PushConflict
      <3>3. device[e] # "revoked"
        BY <3>1, DecidedFacts DEF PushAccept, PushConflict
      <3>4. changes \in Seq(ChangeRow) /\ Len(changes) = nextSeq - 1 /\ nextSeq \in Nat
        BY <3>2, RecordAppends DEF TypeInv, TypeOK
      <3>5. Len(changes') = nextSeq
        BY <3>2, <3>4 DEF Record
      <3>6. changes'[nextSeq].device = e
        BY <3>2, <3>4 DEF Record
      <3> QED
        BY <3>3, <3>5, <3>6 DEF PushedBy
    <2>2. CASE changes' = changes
      BY <2>2 DEF PushedBy
    <2> QED
      BY <2>1, <2>2 DEF Next, IssueDevice, RevokeDevice, AuthenticateDevice, EndRequest, history
  <1> QED
    BY <1>1, InitType, NextType, PTL DEF Spec, RevokedIsSilent

\* An erased observation keeps its row and its tombstone through every push.
THEOREM DeletedStaysDeleted == Spec => DeletionIsFinal
  <1>1. RecoveryInv /\ [Next]_vars =>
          [\A o \in Observations :
             Tombstoned(o) => /\ observations'[o] = observations[o]
                              /\ tombstones'[o] = tombstones[o]]_vars
    <2> SUFFICES ASSUME RecoveryInv, Next, NEW o \in Observations, Tombstoned(o)
                 PROVE  observations'[o] = observations[o] /\ tombstones'[o] = tombstones[o]
      BY DEF vars
    <2>1. Exists(o) /\ tombstones[o] # 0 /\ TypeInv
      BY TombstonedExists DEF RecoveryInv, TombstonesLinked
    <2>2. ASSUME NEW d \in Devices, NEW m \in Mutations, PushAccept(d, m)
          PROVE  observations'[o] = observations[o] /\ tombstones'[o] = tombstones[o]
      <3>1. ~InvalidBase(m)
        BY <2>2, DecidedFacts DEF PushAccept
      <3>2. /\ m.kind # "create" => Version(m.record) = m.base
            /\ m.kind = "tombstone" => tombstones[m.record] = 0
        BY <2>2, AcceptedFacts DEF PushAccept
      <3>3. o # m.record
        BY <2>1, <3>1, <3>2 DEF InvalidBase, Revives
      <3> QED
        BY <2>1, <2>2, <3>3, CanonicalRow DEF PushAccept
    <2>3. ASSUME NEW d \in Devices, NEW m \in Mutations, PushConflict(d, m)
          PROVE  observations'[o] = observations[o] /\ tombstones'[o] = tombstones[o]
      BY <2>1, <2>3 DEF PushConflict, Contested, TypeInv, TypeOK
    <2>4. ASSUME NEW d \in Devices, Push(d)
          PROVE  observations'[o] = observations[o] /\ tombstones'[o] = tombstones[o]
      BY <2>1, <2>2, <2>3, <2>4, PushedMutation DEF Push, TypeInv, Mutations
    <2> QED
      BY <2>4 DEF Next, IssueDevice, RevokeDevice, AuthenticateDevice, EndRequest, canonical
  <1> QED
    BY <1>1, InitRecovery, NextRecovery, PTL DEF Spec, DeletionIsFinal

\* A conflict changes once, when an accepted resolution pushed later names it.
THEOREM ConflictsSettleOnce == Spec => SettledOnce
  <1>1. RecoveryInv /\ [Next]_vars =>
          [\A c \in conflicts :
             \/ c \in conflicts'
             \/ /\ c.status = "unresolved" /\ c.id < nextSeq
                /\ Resolved(c) \in conflicts'
                /\ nextSeq' = nextSeq + 1]_vars
    <2> SUFFICES ASSUME RecoveryInv, Next, NEW c \in conflicts, c \notin conflicts'
                 PROVE  /\ c.status = "unresolved" /\ c.id < nextSeq
                        /\ Resolved(c) \in conflicts'
                        /\ nextSeq' = nextSeq + 1
      BY DEF vars
    <2>1. PICK d \in Devices : Push(d)
      BY DEF Next, IssueDevice, RevokeDevice, AuthenticateDevice, EndRequest, history
    <2>2. PICK m \in PlainMutations \cup Resolutions({x.id : x \in conflicts}) : PushAccept(d, m)
      BY <2>1 DEF Push, PushConflict
    <2>3. m \in Mutations
      BY PushedMutation DEF RecoveryInv, TypeInv
    <2>4. c \in Named(m) /\ Resolved(c) \in conflicts'
      BY <2>2, <2>3, SettleEffect DEF PushAccept, RecoveryInv
    <2>5. nextSeq' = nextSeq + 1
      BY <2>2 DEF PushAccept, Record
    <2> QED
      BY <2>4, <2>5 DEF Named, RecoveryInv, ConflictsBefore
  <1> QED
    BY <1>1, InitRecovery, NextRecovery, PTL DEF Spec, SettledOnce

(***************************************************************************)
(* The tables.  What the rows say of one another and of the log, and that  *)
(* the repository implements SyncHistory.  TablesAgree needs two facts     *)
(* beside RecoveryInv: a record with an accepted version exists, and a row *)
(* that exists names a project.  The refinement needs two more: the        *)
(* version of a row is the one its last change says, and what an accepted  *)
(* tombstone erased is still erased.                                       *)
(***************************************************************************)

AcceptedExist == \A r \in Records : AcceptedRows(r) # {} => Exists(r)

ProjectsNamed ==
  /\ \A s \in Sessions : IF Exists(s) THEN sessions[s].project \in Projects
                         ELSE sessions[s].project = None
  /\ \A o \in Observations : Exists(o) => observations[o].payload.project \in Projects

TablesInv == RecoveryInv /\ TablesAgree /\ AcceptedExist /\ ProjectsNamed

\* Every mutation of an observation but a tombstone names a project.
LEMMA NamesProject ==
  ASSUME NEW m \in Mutations, m.record \in Observations, m.kind # "tombstone"
  PROVE  m.payload.project \in Projects
  <1>1. \A p \in ObservationPayloads : p.project \in Projects
    BY DEF ObservationPayloads, Payload
  <1>2. m.record \notin Projects /\ m.record \notin Sessions
    BY ConstantsAssumption
  <1>3. CASE m \in PlainMutations
    BY <1>1, <1>2, <1>3 DEF PlainMutations, Mutation
  <1>4. CASE m \in Resolutions(1..MaxSeq)
    BY <1>1, <1>4 DEF Resolutions, Mutation
  <1> QED
    BY <1>3, <1>4 DEF Mutations

\* A decided mutation that names a project found it, and the session it names in it.
LEMMA Prerequisites ==
  ASSUME NEW d, NEW m, Verdict(d, m) \in {"accepted", "conflict"}, m.payload.project # None
  PROVE  /\ Exists(m.payload.project)
         /\ m.payload.session # None =>
              sessions[m.payload.session].project = m.payload.project
         /\ m.record \in Sessions /\ m.kind = "update" => SessionDependents(m) = {}
  BY DecidedFacts DEF InvalidPrerequisite, MissingPrerequisite

\* The three kinds of records are disjoint.
LEMMA Disjoint ==
  /\ \A p \in Projects : p \notin Sessions /\ p \notin Observations /\ p # None
  /\ \A s \in Sessions : s \notin Projects /\ s \notin Observations /\ s # None
  /\ \A o \in Observations : o \notin Projects /\ o \notin Sessions /\ o # None
  BY ConstantsAssumption DEF Records

\* The accepted versions of a record after a decision.
LEMMA RowsAfter ==
  ASSUME TypeInv, NEW d, NEW m, NEW disposition, NEW version,
         Record(d, m, disposition, version), NEW r
  PROVE  /\ AcceptedRows(r) \subseteq 1..(nextSeq - 1)
         /\ \A i \in AcceptedRows(r) : versions'[i] = versions[i]
         /\ r # m.record \/ disposition # "accepted" => AcceptedRows(r)' = AcceptedRows(r)
         /\ r = m.record /\ disposition = "accepted" =>
              AcceptedRows(r)' = AcceptedRows(r) \cup {nextSeq}
  <1>1. /\ nextSeq \in Nat \ {0}
        /\ DOMAIN versions = 1..(nextSeq - 1) /\ DOMAIN versions' = 1..nextSeq
        /\ \A i \in DOMAIN versions : versions'[i] = versions[i]
        /\ versions'[nextSeq] =
             [record |-> m.record, version |-> m.base + 1, device |-> d, id |-> m.id,
              base |-> m.base, disposition |-> disposition, snapshot |-> m.payload]
    BY RecordAppends
  <1>2. versions'[nextSeq].record = m.record /\ versions'[nextSeq].disposition = disposition
    BY <1>1
  <1> QED
    BY <1>1, <1>2 DEF AcceptedRows

\* The rows after an accepted mutation.
LEMMA CanonicalRows ==
  ASSUME TypeInv, NEW m \in Mutations, WriteCanonical(m)
  PROVE  /\ \A r \in Records : Version(r)' = IF r = m.record THEN m.base + 1 ELSE Version(r)
         /\ \A s \in Sessions :
              sessions'[s] = IF s = m.record
                             THEN [project |-> m.payload.project, version |-> m.base + 1]
                             ELSE sessions[s]
  <1>1. /\ projects \in [Projects -> 0..MaxVersion]
        /\ sessions \in [Sessions -> [project : Projects \cup {None}, version : 0..MaxVersion]]
    BY DEF TypeInv, TypeOK
  <1>2. CASE m.record \in Projects
    BY <1>1, <1>2, Disjoint DEF WriteCanonical, Version, Records
  <1>3. CASE m.record \in Sessions
    BY <1>1, <1>3, Disjoint DEF WriteCanonical, Version, Records
  <1>4. CASE m.record \in Observations
    <2>1. UNCHANGED <<projects, sessions>>
      BY <1>4, Disjoint DEF WriteCanonical
    <2>2. \A o \in Observations : o # m.record => observations'[o] = observations[o]
      BY CanonicalRow
    <2>3. observations'[m.record].version = m.base + 1
      <3>1. observations'[m.record] = IF m.kind = "tombstone" THEN Erased(m) ELSE Rewritten(m)
        BY <1>4, CanonicalRow
      <3>2. Erased(m).version = m.base + 1 /\ Rewritten(m).version = m.base + 1
        BY DEF Rewritten, Erased
      <3> QED
        BY <3>1, <3>2
    <2> QED
      BY <1>4, <2>1, <2>2, <2>3, Disjoint DEF Version, Records
  <1> QED
    BY <1>2, <1>3, <1>4 DEF WriteCanonical

\* The rows after a conflict.
LEMMA ContestedRows ==
  ASSUME TypeInv, NEW d \in Devices, NEW m \in Mutations, PushConflict(d, m)
  PROVE  /\ m.record \in Observations /\ UNCHANGED <<projects, sessions, tombstones>>
         /\ \A o \in Observations :
              observations'[o] = IF o = m.record THEN Contested(m) ELSE observations[o]
         /\ \A r \in Records :
              Version(r)' = IF r = m.record /\ ~Exists(r) THEN m.base + 1 ELSE Version(r)
         /\ ~Exists(m.record) => m.kind = "create" /\ m.base = 0
  <1>1. m.record \in Observations
    BY ConflictBase DEF PushConflict, TypeInv
  <1>2. observations \in [Observations -> ObservationRow]
    BY DEF TypeInv, TypeOK
  <1>3. \A o \in Observations :
          observations'[o] = IF o = m.record THEN Contested(m) ELSE observations[o]
    BY <1>1, <1>2 DEF PushConflict
  <1>4. UNCHANGED <<projects, sessions, tombstones>>
    BY DEF PushConflict
  <1>5. Contested(m).version = IF Exists(m.record) THEN Version(m.record) ELSE m.base + 1
    BY <1>1, <1>2, Disjoint DEF Contested, Version, ObservationRow
  <1>6. \A r \in Records :
          Version(r)' = IF r = m.record /\ ~Exists(r) THEN m.base + 1 ELSE Version(r)
    BY <1>1, <1>3, <1>4, <1>5, Disjoint DEF Version, Records
  <1>7. ~Exists(m.record) => m.kind = "create" /\ m.base = 0
    BY DecidedFacts, MutationType DEF PushConflict, InvalidBase
  <1> QED
    BY <1>1, <1>3, <1>4, <1>6, <1>7

----------------------------------------------------------------------------

(* Topics, projects and sessions. *)

LEMMA AcceptTopics ==
  ASSUME TablesInv, NEW d \in Devices, NEW m \in Mutations, PushAccept(d, m)
  PROVE  TopicHeldOnce'
  <1>1. TypeInv /\ WriteCanonical(m) /\ TopicHeldOnce
    BY DEF TablesInv, RecoveryInv, PushAccept, TablesAgree
  <1>2. \A o \in Observations : o # m.record => observations'[o] = observations[o]
    BY <1>1, CanonicalRow
  <1>3. ASSUME m.record \in Observations, Active(m.record)'
        PROVE  /\ observations'[m.record].payload = m.payload
               /\ m.payload.topic # None => TopicHolders(m) = {}
    <2>1. observations'[m.record] = IF m.kind = "tombstone" THEN Erased(m) ELSE Rewritten(m)
      BY <1>1, <1>3, CanonicalRow
    <2>2. m.kind # "tombstone" /\ observations'[m.record].payload = m.payload
      BY <1>3, <2>1 DEF Erased, Rewritten, Active
    <2>3. ~TopicCollision(m)
      BY AcceptedFacts, <1>3 DEF PushAccept, Competes
    <2> QED
      BY <1>3, <2>2, <2>3 DEF TopicCollision
  <1> SUFFICES ASSUME NEW o1 \in Observations, NEW o2 \in Observations, o1 # o2,
                      Active(o1)', Active(o2)',
                      observations'[o1].payload.project = observations'[o2].payload.project,
                      observations'[o1].payload.topic # None,
                      observations'[o1].payload.topic = observations'[o2].payload.topic
               PROVE  FALSE
    BY DEF TopicHeldOnce
  <1>4. ASSUME NEW o \in Observations, o # m.record, Active(o)', m.record \in Observations,
               Active(m.record)', observations'[m.record].payload.topic # None,
               observations'[o].payload.project = observations'[m.record].payload.project,
               observations'[o].payload.topic = observations'[m.record].payload.topic
        PROVE  FALSE
    <2>1. Active(o) /\ observations'[o] = observations[o]
      BY <1>2, <1>4 DEF Active
    <2> QED
      BY <1>3, <1>4, <2>1 DEF TopicHolders
  <1>5. CASE o1 = m.record
    BY <1>4, <1>5
  <1>6. CASE o2 = m.record
    BY <1>4, <1>6
  <1>7. CASE o1 # m.record /\ o2 # m.record
    BY <1>1, <1>2, <1>7 DEF TopicHeldOnce, Active
  <1> QED
    BY <1>5, <1>6, <1>7

LEMMA ConflictTopics ==
  ASSUME TablesInv, NEW d \in Devices, NEW m \in Mutations, PushConflict(d, m)
  PROVE  TopicHeldOnce'
  <1>1. TypeInv /\ TopicHeldOnce
    BY DEF TablesInv, RecoveryInv, TablesAgree
  <1>2. \A o \in Observations :
          Active(o)' => Active(o) /\ observations'[o].payload = observations[o].payload
    <2> TAKE o \in Observations
    <2>1. observations[o] \in ObservationRow
      BY <1>1 DEF TypeInv, TypeOK
    <2>2. CASE o # m.record
      BY <1>1, <2>2, ContestedRows DEF Active
    <2>3. CASE o = m.record
      <3>1. observations'[o] = Contested(m)
        BY <1>1, <2>3, ContestedRows
      <3>2. CASE ~Exists(m.record)
        <4>1. Contested(m).lifecycle = "archived"
          BY <3>2 DEF Contested
        <4> QED
          BY <3>1, <4>1 DEF Active
      <3>3. CASE Exists(m.record) /\ Tombstoned(m.record)
        BY <2>3, <3>1, <3>3 DEF Contested, Active
      <3>4. CASE Exists(m.record) /\ ~Tombstoned(m.record)
        <4>1. Contested(m) = [observations[o] EXCEPT !.review = "needs_review"]
          BY <2>3, <3>4 DEF Contested
        <4> QED
          BY <2>1, <3>1, <4>1 DEF Active, ObservationRow
      <3> QED
        BY <3>2, <3>3, <3>4
    <2> QED
      BY <2>2, <2>3
  <1> QED
    BY <1>1, <1>2 DEF TopicHeldOnce

LEMMA AcceptProjects ==
  ASSUME TablesInv, NEW d \in Devices, NEW m \in Mutations, PushAccept(d, m)
  PROVE  DependentsStayInProject' /\ ProjectsNamed'
  <1>1. TypeInv /\ WriteCanonical(m) /\ DependentsStayInProject /\ ProjectsNamed
        /\ Verdict(d, m) = "accepted" /\ ~InvalidBase(m)
    BY DecidedFacts DEF TablesInv, RecoveryInv, PushAccept, TablesAgree
  <1>2. m.base + 1 # 0 /\ m.base \in Nat
    BY MutationType, ConstantsAssumption
  <1>3. \A r \in Records : Version(r)' = IF r = m.record THEN m.base + 1 ELSE Version(r)
    BY <1>1, CanonicalRows
  <1>4. \A r \in Records : Exists(r) => Exists(r)'
    BY <1>2, <1>3 DEF Exists
  <1>5. \A s \in Sessions :
          sessions'[s] = IF s = m.record
                         THEN [project |-> m.payload.project, version |-> m.base + 1]
                         ELSE sessions[s]
    BY <1>1, CanonicalRows
  <1>6. ASSUME NEW s \in Sessions
        PROVE  /\ IF Exists(s)' THEN sessions'[s].project \in Projects
                  ELSE sessions'[s].project = None
               /\ Exists(s)' => projects'[sessions'[s].project] # 0
    <2>1. CASE s = m.record
      <3>1. sessions'[s].project = m.payload.project /\ m.payload.project \in Projects
        BY <1>5, <2>1, MutationType
      <3>2. Exists(m.payload.project) /\ Exists(s)'
        BY <1>1, <1>2, <1>3, <2>1, <3>1, Disjoint, Prerequisites DEF Exists, Records
      <3>3. Exists(m.payload.project)'
        BY <1>4, <3>1, <3>2 DEF Records
      <3>4. projects'[m.payload.project] # 0
        BY <3>1, <3>3 DEF Exists, Version
      <3> QED
        BY <3>1, <3>2, <3>4
    <2>2. CASE s # m.record
      <3>1. Exists(s)' <=> Exists(s)
        BY <1>3, <2>2 DEF Exists, Records
      <3>2. sessions'[s] = sessions[s]
        BY <1>5, <2>2
      <3>3. Exists(s) => sessions[s].project \in Projects /\ Exists(sessions[s].project)
        BY <1>1 DEF ProjectsNamed, DependentsStayInProject
      <3>4. \A p \in Projects : Exists(p) => Exists(p)'
        BY <1>4 DEF Records
      <3>5. \A p \in Projects : Exists(p)' <=> projects'[p] # 0
        BY DEF Exists, Version
      <3>6. Exists(s) => projects'[sessions'[s].project] # 0
        BY <3>2, <3>3, <3>4, <3>5
      <3> QED
        BY <1>1, <3>1, <3>2, <3>3, <3>6 DEF ProjectsNamed
    <2> QED
      BY <2>1, <2>2
  <1>7. ASSUME NEW o \in Observations, Exists(o)'
        PROVE  /\ observations'[o].payload.project \in Projects
               /\ projects'[observations'[o].payload.project] # 0
               /\ observations'[o].payload.session # None =>
                    sessions'[observations'[o].payload.session].project
                      = observations'[o].payload.project
    <2> DEFINE p == observations[o].payload
               q == observations'[o].payload
    <2>1. CASE o = m.record /\ m.kind # "tombstone"
      <3>1. q = m.payload /\ m.payload.project \in Projects
        <4>1. observations'[o] = Rewritten(m)
          BY <1>1, <2>1, CanonicalRow
        <4>2. Rewritten(m).payload = m.payload
          BY DEF Rewritten
        <4>3. m.payload.project \in Projects
          BY <2>1, NamesProject
        <4> QED
          BY <4>1, <4>2, <4>3
      <3>2. /\ Exists(m.payload.project)
            /\ m.payload.session # None =>
                 sessions[m.payload.session].project = m.payload.project
        BY <1>1, <3>1, Disjoint, Prerequisites
      <3>3. UNCHANGED <<projects, sessions>>
        BY <1>1, <2>1, Disjoint DEF WriteCanonical
      <3> QED
        BY <3>1, <3>2, <3>3, Disjoint DEF Exists, Version
    <2>2. CASE o = m.record /\ m.kind = "tombstone"
      <3>1. observations[o] \in ObservationRow
        BY <1>1 DEF TypeInv, TypeOK
      <3>2. q.project = p.project /\ q.session = p.session
        <4>1. observations'[o] = Erased(m)
          BY <1>1, <2>2, CanonicalRow
        <4>2. Erased(m).payload = [p EXCEPT !.topic = None, !.refs = {}] /\ p \in Payload
          BY <2>2, <3>1 DEF Erased, ObservationRow
        <4>3. /\ [p EXCEPT !.topic = None, !.refs = {}].project = p.project
              /\ [p EXCEPT !.topic = None, !.refs = {}].session = p.session
          BY <4>2 DEF Payload
        <4> QED
          BY <4>1, <4>2, <4>3
      <3>3. Exists(o)
        BY <1>1, <2>2 DEF InvalidBase
      <3>4. /\ p.project \in Projects /\ Exists(p.project)
            /\ p.session # None => sessions[p.session].project = p.project
        BY <1>1, <3>3 DEF ProjectsNamed, DependentsStayInProject
      <3>5. UNCHANGED <<projects, sessions>>
        BY <1>1, <2>2, Disjoint DEF WriteCanonical
      <3> QED
        BY <3>2, <3>4, <3>5, Disjoint DEF Exists, Version
    <2>3. CASE o # m.record
      <3>1. observations'[o] = observations[o] /\ observations[o] \in ObservationRow
        BY <1>1, <2>3, CanonicalRow DEF TypeInv, TypeOK
      <3>2. Exists(o)
        BY <1>3, <1>7, <2>3 DEF Exists, Records
      <3>3. /\ p.project \in Projects /\ Exists(p.project)
            /\ p.session # None => sessions[p.session].project = p.project
            /\ p.session \in Sessions \cup {None}
        BY <1>1, <3>1, <3>2 DEF ProjectsNamed, DependentsStayInProject, ObservationRow, Payload
      <3>4. projects'[p.project] # 0
        BY <1>4, <3>3 DEF Exists, Version, Records
      <3>5. ASSUME p.session # None PROVE sessions'[p.session].project = p.project
        <4>1. CASE p.session # m.record
          BY <1>5, <3>3, <3>5, <4>1
        <4>2. CASE p.session = m.record
          <5>1. m.record \in Sessions /\ m.payload.project \in Projects
            BY <3>3, <3>5, <4>2, MutationType
          <5>2. Exists(m.record)
            BY <1>1, <3>3, <3>5, <4>2, <5>1, Disjoint DEF ProjectsNamed
          <5>3. m.kind # "create"
            BY <1>1, <5>2 DEF InvalidBase
          <5>4. m.kind = "update"
            BY <5>1, <5>3, MutationType, Disjoint
          <5>5. SessionDependents(m) = {}
            BY <1>1, <5>1, <5>4, Disjoint, Prerequisites
          <5>6. p.project = m.payload.project
            BY <4>2, <5>5 DEF SessionDependents
          <5> QED
            BY <1>5, <3>3, <4>2, <5>1, <5>6
        <4> QED
          BY <4>1, <4>2
      <3> QED
        BY <3>1, <3>3, <3>4, <3>5
    <2> QED
      BY <2>1, <2>2, <2>3
  <1>8. ProjectsNamed'
    BY <1>6, <1>7 DEF ProjectsNamed
  <1>9. DependentsStayInProject'
    <2>1. \A o \in Observations : Exists(o)' => Exists(observations[o].payload.project)'
      <3> TAKE o \in Observations
      <3> HAVE Exists(o)'
      <3>1. observations'[o].payload.project \in Projects
            /\ projects'[observations'[o].payload.project] # 0
        BY <1>7
      <3> QED
        BY <3>1 DEF Exists, Version
    <2>2. \A s \in Sessions : Exists(s)' => Exists(sessions[s].project)'
      <3> TAKE s \in Sessions
      <3> HAVE Exists(s)'
      <3>1. sessions'[s].project \in Projects /\ projects'[sessions'[s].project] # 0
        BY <1>6
      <3> QED
        BY <3>1 DEF Exists, Version
    <2> QED
      BY <1>7, <2>1, <2>2 DEF DependentsStayInProject
  <1> QED
    BY <1>8, <1>9

LEMMA ConflictProjects ==
  ASSUME TablesInv, NEW d \in Devices, NEW m \in Mutations, PushConflict(d, m)
  PROVE  DependentsStayInProject' /\ ProjectsNamed'
  <1>1. TypeInv /\ DependentsStayInProject /\ ProjectsNamed /\ Verdict(d, m) = "conflict"
    BY DEF TablesInv, RecoveryInv, PushConflict, TablesAgree
  <1>2. m.record \in Observations /\ UNCHANGED <<projects, sessions>>
    BY <1>1, ContestedRows
  <1>3. \A s \in Sessions : Exists(s)' <=> Exists(s)
    BY <1>2, Disjoint DEF Exists, Version
  <1>4. ASSUME NEW o \in Observations, Exists(o)'
        PROVE  /\ observations'[o].payload.project \in Projects
               /\ projects[observations'[o].payload.project] # 0
               /\ observations'[o].payload.session # None =>
                    sessions[observations'[o].payload.session].project
                      = observations'[o].payload.project
    <2>1. CASE Exists(o)
      <3>1. observations'[o].payload = observations[o].payload
        <4>1. observations[o] \in ObservationRow
          BY <1>1 DEF TypeInv, TypeOK
        <4>2. observations'[o] \in {observations[o],
                                    [observations[o] EXCEPT !.review = "needs_review"]}
          BY <1>1, <2>1, ContestedRows DEF Contested
        <4> QED
          BY <4>1, <4>2 DEF ObservationRow
      <3>2. /\ observations[o].payload.project \in Projects
            /\ Exists(observations[o].payload.project)
            /\ observations[o].payload.session # None =>
                 sessions[observations[o].payload.session].project
                   = observations[o].payload.project
        BY <1>1, <2>1 DEF ProjectsNamed, DependentsStayInProject
      <3> QED
        BY <3>1, <3>2 DEF Exists, Version
    <2>2. CASE ~Exists(o)
      <3>1. o = m.record /\ m.kind = "create"
        <4>1. o = m.record
          BY <1>1, <1>4, <2>2, ContestedRows DEF Exists, Records
        <4> QED
          BY <1>1, <2>2, <4>1, ContestedRows
      <3>2. observations'[o].payload = m.payload
        <4>1. observations'[o] = Contested(m)
          BY <1>1, <3>1, ContestedRows
        <4>2. Contested(m).payload = m.payload
          BY <2>2, <3>1 DEF Contested
        <4> QED
          BY <4>1, <4>2
      <3>3. m.payload.project \in Projects
        BY <3>1, NamesProject
      <3>4. /\ Exists(m.payload.project)
            /\ m.payload.session # None =>
                 sessions[m.payload.session].project = m.payload.project
        BY <1>1, <3>3, Disjoint, Prerequisites
      <3> QED
        BY <3>2, <3>3, <3>4 DEF Exists, Version
    <2> QED
      BY <2>1, <2>2
  <1>5. ProjectsNamed'
    BY <1>1, <1>2, <1>3, <1>4 DEF ProjectsNamed
  <1>6. \A o \in Observations : Exists(o)' => Exists(observations[o].payload.project)'
    <2> TAKE o \in Observations
    <2> HAVE Exists(o)'
    <2>1. observations'[o].payload.project \in Projects
          /\ projects'[observations'[o].payload.project] # 0
      BY <1>2, <1>4
    <2> QED
      BY <2>1 DEF Exists, Version
  <1>7. \A s \in Sessions : Exists(s)' => Exists(sessions[s].project)'
    <2> TAKE s \in Sessions
    <2> HAVE Exists(s)'
    <2>1. sessions[s].project \in Projects /\ Exists(sessions[s].project)
      BY <1>1, <1>3 DEF ProjectsNamed, DependentsStayInProject
    <2>2. sessions'[s].project \in Projects /\ projects'[sessions'[s].project] # 0
      BY <1>2, <2>1 DEF Exists, Version
    <2> QED
      BY <2>2 DEF Exists, Version
  <1> QED
    BY <1>2, <1>4, <1>5, <1>6, <1>7 DEF DependentsStayInProject

----------------------------------------------------------------------------

(* The row of a record is its last accepted version. *)

LEMMA AcceptRows ==
  ASSUME TablesInv, NEW d \in Devices, NEW m \in Mutations, PushAccept(d, m)
  PROVE  RowIsLastAccepted' /\ AcceptedExist'
  <1>1. /\ TypeInv /\ WriteCanonical(m) /\ Record(d, m, "accepted", m.base + 1)
        /\ RowIsLastAccepted /\ AcceptedExist
    BY DEF TablesInv, RecoveryInv, PushAccept, TablesAgree
  <1>2. m.base + 1 # 0 /\ nextSeq \in Nat \ {0}
        /\ versions'[nextSeq] =
             [record |-> m.record, version |-> m.base + 1, device |-> d, id |-> m.id,
              base |-> m.base, disposition |-> "accepted", snapshot |-> m.payload]
    <2>1. m.base + 1 # 0
      BY MutationType, ConstantsAssumption
    <2> QED
      BY <1>1, <2>1, RecordAppends
  <1>3. \A r \in Records : Version(r)' = IF r = m.record THEN m.base + 1 ELSE Version(r)
    BY <1>1, CanonicalRows
  <1>4. \A r \in Records :
          /\ AcceptedRows(r) \subseteq 1..(nextSeq - 1)
          /\ \A i \in AcceptedRows(r) : versions'[i] = versions[i]
          /\ r # m.record => AcceptedRows(r)' = AcceptedRows(r)
          /\ r = m.record => AcceptedRows(r)' = AcceptedRows(r) \cup {nextSeq}
    BY <1>1, RowsAfter
  <1>5. \A o \in Observations \ {m.record} : observations'[o] = observations[o]
    BY <1>1, CanonicalRow
  <1>6. AcceptedExist'
    BY <1>1, <1>2, <1>3, <1>4 DEF AcceptedExist, Exists
  <1>7. ASSUME NEW r \in Records, NEW i \in AcceptedRows(r)', \A j \in AcceptedRows(r)' : j <= i
        PROVE  /\ Version(r)' = versions'[i].version
               /\ r \in Sessions => sessions'[r].project = versions'[i].snapshot.project
               /\ r \in Observations /\ ~Tombstoned(r)' =>
                    observations'[r].payload = versions'[i].snapshot
    <2>1. CASE r # m.record
      <3>1. /\ AcceptedRows(r)' = AcceptedRows(r) /\ versions'[i] = versions[i]
            /\ Version(r)' = Version(r)
        BY <1>3, <1>4, <1>7, <2>1
      <3>2. r \in Sessions => sessions'[r] = sessions[r]
        BY <1>1, <2>1, CanonicalRows
      <3>3. r \in Observations => observations'[r] = observations[r]
        BY <1>5, <2>1
      <3> QED
        BY <1>1, <1>7, <3>1, <3>2, <3>3 DEF RowIsLastAccepted, Tombstoned
    <2>2. CASE r = m.record
      <3>1. i = nextSeq
        BY <1>2, <1>4, <1>7, <2>2
      <3>2. versions'[i].version = m.base + 1 /\ versions'[i].snapshot = m.payload
        BY <1>2, <3>1
      <3>3. Version(r)' = m.base + 1
        BY <1>3, <2>2
      <3>4. ASSUME r \in Sessions PROVE sessions'[r].project = m.payload.project
        <4>1. sessions'[r] = [project |-> m.payload.project, version |-> m.base + 1]
          BY <1>1, <2>2, <3>4, CanonicalRows
        <4> QED
          BY <4>1
      <3>5. ASSUME r \in Observations, ~Tombstoned(r)'
            PROVE  observations'[r].payload = m.payload
        <4>1. observations'[r] = IF m.kind = "tombstone" THEN Erased(m) ELSE Rewritten(m)
          BY <1>1, <2>2, <3>5, CanonicalRow
        <4>2. /\ Erased(m).lifecycle = "tombstoned"
              /\ Rewritten(m).payload = m.payload
          BY DEF Erased, Rewritten
        <4> QED
          BY <3>5, <4>1, <4>2 DEF Tombstoned
      <3> QED
        BY <3>2, <3>3, <3>4, <3>5
    <2> QED
      BY <2>1, <2>2
  <1>8. ASSUME NEW o \in Observations, Exists(o)', AcceptedRows(o)' = {}
        PROVE  /\ observations'[o].lifecycle = "archived"
               /\ observations'[o].review = "needs_review"
               /\ Version(o)' = 1
    <2>1. o \in Records
      BY DEF Records
    <2>2. o # m.record /\ AcceptedRows(o) = {} /\ Version(o)' = Version(o) /\ Exists(o)
      BY <1>3, <1>4, <1>8, <2>1 DEF Exists
    <2> QED
      BY <1>1, <1>5, <2>2 DEF RowIsLastAccepted
  <1> QED
    BY <1>6, <1>7, <1>8 DEF RowIsLastAccepted

LEMMA ConflictRows ==
  ASSUME TablesInv, NEW d \in Devices, NEW m \in Mutations, PushConflict(d, m)
  PROVE  RowIsLastAccepted' /\ AcceptedExist'
  <1>1. TypeInv /\ RowIsLastAccepted /\ AcceptedExist
    BY DEF TablesInv, RecoveryInv, TablesAgree
  <1>2. \E version : Record(d, m, "conflict", version)
    BY DEF PushConflict
  <1>3. \A r \in Records : /\ AcceptedRows(r)' = AcceptedRows(r)
                            /\ \A i \in AcceptedRows(r) : versions'[i] = versions[i]
    BY <1>1, <1>2, RowsAfter
  <1>4. /\ m.record \in Observations /\ UNCHANGED sessions
        /\ \A o \in Observations :
             observations'[o] = IF o = m.record THEN Contested(m) ELSE observations[o]
        /\ \A r \in Records :
             Version(r)' = IF r = m.record /\ ~Exists(r) THEN m.base + 1 ELSE Version(r)
        /\ ~Exists(m.record) => m.base = 0
    BY <1>1, ContestedRows
  <1>5. ASSUME NEW o \in Observations, Exists(o)
        PROVE  /\ Version(o)' = Version(o)
               /\ observations'[o].payload = observations[o].payload
               /\ observations'[o].lifecycle = observations[o].lifecycle
               /\ observations'[o].review = observations[o].review
                  \/ observations'[o].review = "needs_review"
    <2>1. observations[o] \in ObservationRow
      BY <1>1 DEF TypeInv, TypeOK
    <2>2. observations'[o] \in {observations[o],
                                [observations[o] EXCEPT !.review = "needs_review"]}
      BY <1>4, <1>5 DEF Contested
    <2>3. Version(o)' = Version(o)
      BY <1>4, <1>5 DEF Records
    <2> QED
      BY <2>1, <2>2, <2>3 DEF ObservationRow
  <1>6. AcceptedExist'
    <2>1. \A r \in Records : Exists(r) => Exists(r)'
      BY <1>4 DEF Exists
    <2> QED
      BY <1>1, <1>3, <2>1 DEF AcceptedExist
  <1>7. ASSUME NEW r \in Records, NEW i \in AcceptedRows(r)', \A j \in AcceptedRows(r)' : j <= i
        PROVE  /\ Version(r)' = versions'[i].version
               /\ r \in Sessions => sessions'[r].project = versions'[i].snapshot.project
               /\ r \in Observations /\ ~Tombstoned(r)' =>
                    observations'[r].payload = versions'[i].snapshot
    <2>1. /\ AcceptedRows(r)' = AcceptedRows(r) /\ versions'[i] = versions[i]
          /\ Exists(r)
      BY <1>1, <1>3, <1>7 DEF AcceptedExist
    <2>2. Version(r)' = Version(r)
      BY <1>4, <2>1
    <2>3. r \in Observations => /\ observations'[r].payload = observations[r].payload
                                /\ Tombstoned(r)' <=> Tombstoned(r)
      BY <1>5, <2>1 DEF Tombstoned
    <2> QED
      BY <1>1, <1>4, <1>7, <2>1, <2>2, <2>3 DEF RowIsLastAccepted
  <1>8. ASSUME NEW o \in Observations, Exists(o)', AcceptedRows(o)' = {}
        PROVE  /\ observations'[o].lifecycle = "archived"
               /\ observations'[o].review = "needs_review"
               /\ Version(o)' = 1
    <2>1. o \in Records /\ AcceptedRows(o) = {}
      BY <1>3, <1>8 DEF Records
    <2>2. CASE Exists(o)
      BY <1>1, <1>5, <2>1, <2>2 DEF RowIsLastAccepted
    <2>3. CASE ~Exists(o)
      <3>1. o = m.record /\ Version(o)' = 1
        BY <1>4, <1>8, <2>1, <2>3 DEF Exists
      <3>2. Contested(m).lifecycle = "archived" /\ Contested(m).review = "needs_review"
        BY <2>3, <3>1 DEF Contested
      <3> QED
        BY <1>4, <3>1, <3>2
    <2> QED
      BY <2>2, <2>3
  <1> QED
    BY <1>6, <1>7, <1>8 DEF RowIsLastAccepted

----------------------------------------------------------------------------

LEMMA InitTables == Init => TablesInv
  <1> SUFFICES ASSUME Init PROVE TablesInv
    OBVIOUS
  <1>1. \A r \in Records : AcceptedRows(r) = {} /\ ~Exists(r)
    BY Disjoint DEF Init, AcceptedRows, Exists, Version, Records
  <1>2. TopicHeldOnce /\ RowIsLastAccepted /\ AcceptedExist
    BY <1>1 DEF Init, TopicHeldOnce, Active, RowIsLastAccepted, AcceptedExist, Records
  <1>3. DependentsStayInProject /\ ProjectsNamed
    BY <1>1 DEF Init, DependentsStayInProject, ProjectsNamed, Records
  <1> QED
    BY <1>2, <1>3, InitRecovery DEF TablesInv, TablesAgree

LEMMA FrameTables ==
  TablesInv /\ UNCHANGED <<canonical, history>> /\ RecoveryInv' => TablesInv'
  <1> SUFFICES ASSUME TablesInv, UNCHANGED <<canonical, history>>, RecoveryInv' PROVE TablesInv'
    OBVIOUS
  <1>1. UNCHANGED <<projects, sessions, observations, versions>>
    BY DEF canonical, history
  <1>2. \A r : Version(r)' = Version(r) /\ AcceptedRows(r)' = AcceptedRows(r)
    BY <1>1 DEF Version, AcceptedRows
  <1>3. TopicHeldOnce' /\ DependentsStayInProject' /\ ProjectsNamed' /\ AcceptedExist'
    BY <1>1, <1>2
    DEF TablesInv, TablesAgree, TopicHeldOnce, Active, DependentsStayInProject, ProjectsNamed,
        AcceptedExist, Exists, Version
  <1>4. RowIsLastAccepted'
    BY <1>1, <1>2 DEF TablesInv, TablesAgree, RowIsLastAccepted, Exists, Tombstoned
  <1> QED
    BY <1>3, <1>4 DEF TablesInv, TablesAgree

LEMMA NextTables == TablesInv /\ [Next]_vars => TablesInv'
  <1> SUFFICES ASSUME TablesInv, [Next]_vars PROVE TablesInv'
    OBVIOUS
  <1>1. RecoveryInv'
    BY NextRecovery DEF TablesInv
  <1>2. ASSUME NEW d \in Devices,
               IssueDevice(d) \/ RevokeDevice(d) \/ AuthenticateDevice(d) \/ EndRequest(d)
        PROVE  TablesInv'
    BY <1>1, <1>2, FrameTables
    DEF IssueDevice, RevokeDevice, AuthenticateDevice, EndRequest
  <1>3. ASSUME NEW d \in Devices, Push(d) PROVE TablesInv'
    <2>1. PICK m \in PlainMutations \cup Resolutions({c.id : c \in conflicts}) :
            PushAccept(d, m) \/ PushConflict(d, m)
      BY <1>3 DEF Push
    <2>2. m \in Mutations
      BY PushedMutation DEF TablesInv, RecoveryInv, TypeInv
    <2> QED
      BY <1>1, <2>1, <2>2, AcceptTopics, ConflictTopics, AcceptProjects, ConflictProjects,
         AcceptRows, ConflictRows
      DEF TablesInv, TablesAgree
  <1>4. CASE UNCHANGED vars
    BY <1>1, <1>4, FrameTables DEF vars
  <1> QED
    BY <1>2, <1>3, <1>4 DEF Next

\* Whatever competes, moves, is archived and made active again: topics are held once, the
\* canonical row is the one last accepted, and sessions stay with their observations.
THEOREM TablesAlwaysAgree == Spec => []TablesAgree
  <1>1. TablesInv => TablesAgree
    BY DEF TablesInv
  <1> QED
    BY <1>1, InitTables, NextTables, PTL DEF Spec

----------------------------------------------------------------------------

(***************************************************************************)
(* The refinement.  An entry of the history is a change with its receipt,  *)
(* the only one it has; the version an entry leaves is the row's; and an   *)
(* accepted tombstone of the history is a tombstone of the tables.         *)
(***************************************************************************)

Mine(r) == {i \in DOMAIN changes : changes[i].record = r}

LastIsRow ==
  \A r \in Records :
    /\ Mine(r) = {} => ~Exists(r)
    /\ Mine(r) # {} => \E i \in Mine(r) : /\ \A j \in Mine(r) : j <= i
                                          /\ changes[i].version = Version(r)

Buried ==
  \A row \in mutations :
    row.mutation.kind = "tombstone" /\ row.disposition = "accepted" =>
      Tombstoned(row.mutation.record)

HistoryInv == TablesInv /\ LastIsRow /\ Buried

\* An entry is its change and its receipt.
LEMMA EntryIs ==
  ASSUME LogLinked, NEW i \in DOMAIN changes, NEW row \in mutations, ReceiptOf(changes[i], row)
  PROVE  EntryOf(i) =
           [device |-> changes[i].device, id |-> changes[i].id, record |-> changes[i].record,
            kind |-> row.mutation.kind, base |-> row.mutation.base,
            disposition |-> changes[i].kind, version |-> changes[i].version]
  <1>1. \A x \in mutations : ReceiptOf(changes[i], x) => x = row
    BY DEF LogLinked, OneReceipt, ReceiptOf
  <1>2. (CHOOSE x \in mutations : ReceiptOf(changes[i], x)) = row
    BY <1>1
  <1> QED
    BY <1>2 DEF EntryOf

\* Every change has one.
LEMMA HasReceipt ==
  ASSUME LogLinked, NEW i \in DOMAIN changes
  PROVE  \E row \in mutations :
           /\ ReceiptOf(changes[i], row) /\ row.seq = i
           /\ row.mutation.record = changes[i].record /\ row.disposition = changes[i].kind
  BY DEF LogLinked, ChangesLinked

\* What a decision leaves in the change table and among the receipts.
LEMMA ChangesAfter ==
  ASSUME TypeInv, NEW d, NEW m, NEW disposition, NEW version,
         Record(d, m, disposition, version), NEW n, n = nextSeq
  PROVE  /\ n \in Nat \ {0}
         /\ DOMAIN changes = 1..(n - 1) /\ DOMAIN changes' = 1..n
         /\ changes' = Append(changes, changes'[n])
         /\ \A i \in DOMAIN changes : changes'[i] = changes[i]
         /\ /\ changes'[n].device = d /\ changes'[n].id = m.id
            /\ changes'[n].record = m.record /\ changes'[n].kind = disposition
            /\ changes'[n].version = version
         /\ \E new : /\ new.device = d /\ new.mutation = m /\ new.disposition = disposition
                     /\ new.seq = n /\ mutations' = mutations \cup {new}
  <1> DEFINE last == [device |-> d, id |-> m.id, kind |-> disposition, record |-> m.record,
                      version |-> version, row |-> Len(versions) + 1]
  <1> DEFINE new == [device |-> d, mutation |-> m, disposition |-> disposition,
                     seq |-> nextSeq, version |-> version]
  <1>1. changes' = Append(changes, last) /\ mutations' = mutations \cup {new}
    BY DEF Record
  <1>2. /\ last.device = d /\ last.id = m.id /\ last.record = m.record
        /\ last.kind = disposition /\ last.version = version
    OBVIOUS
  <1>3. new.device = d /\ new.mutation = m /\ new.disposition = disposition /\ new.seq = n
    OBVIOUS
  <1> HIDE DEF last, new
  <1>4. changes \in Seq(ChangeRow) /\ n \in Nat \ {0} /\ Len(changes) = n - 1
    BY ConstantsAssumption DEF TypeInv, TypeOK, Contiguous
  <1>5. /\ DOMAIN changes = 1..(n - 1) /\ DOMAIN changes' = 1..n
        /\ changes'[n] = last
        /\ \A i \in DOMAIN changes : changes'[i] = changes[i]
    BY <1>1, <1>4
  <1> QED
    BY <1>1, <1>2, <1>3, <1>4, <1>5

\* A decision leaves the entries there are and adds its own.
LEMMA EntriesAfter ==
  ASSUME RecoveryInv, RecoveryInv', NEW d \in Devices, NEW m \in Mutations, NEW disposition,
         NEW version, Record(d, m, disposition, version), NEW n, n = nextSeq
  PROVE  /\ \A i \in 1..(n - 1) : EntryOf(i)' = EntryOf(i)
         /\ EntryOf(n)' =
              [device |-> d, id |-> m.id, record |-> m.record, kind |-> m.kind,
               base |-> m.base, disposition |-> disposition, version |-> version]
  <1>1. /\ n \in Nat \ {0}
        /\ DOMAIN changes = 1..(n - 1) /\ DOMAIN changes' = 1..n
        /\ \A i \in DOMAIN changes : changes'[i] = changes[i]
        /\ /\ changes'[n].device = d /\ changes'[n].id = m.id
           /\ changes'[n].record = m.record /\ changes'[n].kind = disposition
           /\ changes'[n].version = version
        /\ \E new : /\ new.device = d /\ new.mutation = m /\ new.disposition = disposition
                    /\ new.seq = n /\ mutations' = mutations \cup {new}
    BY ChangesAfter DEF RecoveryInv
  <1>2. LogLinked /\ LogLinked'
    BY DEF RecoveryInv
  <1>3. ASSUME NEW i \in DOMAIN changes', NEW row \in mutations', ReceiptOf(changes'[i], row)
        PROVE  EntryOf(i)' =
                 [device |-> changes'[i].device, id |-> changes'[i].id,
                  record |-> changes'[i].record,
                  kind |-> row.mutation.kind, base |-> row.mutation.base,
                  disposition |-> changes'[i].kind, version |-> changes'[i].version]
    <2>1. \A x \in mutations' : ReceiptOf(changes'[i], x) => x = row
      BY <1>2, <1>3 DEF LogLinked, OneReceipt, ReceiptOf
    <2>2. (CHOOSE x \in mutations' : ReceiptOf(changes'[i], x)) = row
      BY <1>3, <2>1
    <2> QED
      BY <2>2 DEF EntryOf, ReceiptOf
  <1>4. ASSUME NEW i \in 1..(n - 1) PROVE EntryOf(i)' = EntryOf(i)
    <2>1. PICK row \in mutations : ReceiptOf(changes[i], row)
      BY <1>1, <1>2, <1>4, HasReceipt
    <2>2. row \in mutations' /\ ReceiptOf(changes'[i], row) /\ i \in DOMAIN changes'
      BY <1>1, <1>4, <2>1
    <2>3. changes'[i] = changes[i] /\ i \in DOMAIN changes
      BY <1>1, <1>4
    <2>4. EntryOf(i) =
            [device |-> changes[i].device, id |-> changes[i].id, record |-> changes[i].record,
             kind |-> row.mutation.kind, base |-> row.mutation.base,
             disposition |-> changes[i].kind, version |-> changes[i].version]
      BY <1>2, <2>1, <2>3, EntryIs
    <2> QED
      BY <1>3, <2>2, <2>3, <2>4
  <1>5. EntryOf(n)' =
          [device |-> d, id |-> m.id, record |-> m.record, kind |-> m.kind,
           base |-> m.base, disposition |-> disposition, version |-> version]
    <2>1. PICK new : /\ new.device = d /\ new.mutation = m
                     /\ mutations' = mutations \cup {new}
      BY <1>1
    <2>2. new \in mutations' /\ ReceiptOf(changes'[n], new) /\ n \in DOMAIN changes'
      BY <1>1, <2>1 DEF ReceiptOf
    <2>3. EntryOf(n)' =
            [device |-> changes'[n].device, id |-> changes'[n].id,
             record |-> changes'[n].record,
             kind |-> new.mutation.kind, base |-> new.mutation.base,
             disposition |-> changes'[n].kind, version |-> changes'[n].version]
      BY <1>3, <2>2
    <2> QED
      BY <1>1, <2>1, <2>3
  <1> QED
    BY <1>4, <1>5

\* The version a decision leaves is the one its change says.
LEMMA DecidedVersions ==
  ASSUME TypeInv, NEW d \in Devices, NEW m \in Mutations,
         PushAccept(d, m) \/ PushConflict(d, m)
  PROVE  \E disposition, version :
           /\ Record(d, m, disposition, version)
           /\ \A r \in Records : Version(r)' = IF r = m.record THEN version ELSE Version(r)
  <1>1. CASE PushAccept(d, m)
    <2>1. Record(d, m, "accepted", m.base + 1)
      BY <1>1 DEF PushAccept
    <2>2. \A r \in Records : Version(r)' = IF r = m.record THEN m.base + 1 ELSE Version(r)
      BY <1>1, CanonicalRows DEF PushAccept
    <2> QED
      BY <2>1, <2>2
  <1>2. CASE PushConflict(d, m)
    <2> DEFINE v == IF Exists(m.record) THEN Version(m.record) ELSE m.base + 1
    <2>1. Record(d, m, "conflict", v)
      BY <1>2 DEF PushConflict
    <2>2. \A r \in Records : Version(r)' = IF r = m.record THEN v ELSE Version(r)
      BY <1>2, ContestedRows
    <2> QED
      BY <2>1, <2>2
  <1> QED
    BY <1>1, <1>2

LEMMA LastAfter ==
  ASSUME HistoryInv, NEW d \in Devices, NEW m \in Mutations,
         PushAccept(d, m) \/ PushConflict(d, m)
  PROVE  LastIsRow'
  <1>1. TypeInv /\ LastIsRow
    BY DEF HistoryInv, TablesInv, RecoveryInv
  <1>2. PICK disposition, version :
          /\ Record(d, m, disposition, version)
          /\ \A r \in Records : Version(r)' = IF r = m.record THEN version ELSE Version(r)
    BY <1>1, DecidedVersions
  <1>n. PICK n : n = nextSeq
    OBVIOUS
  <1>3. /\ n \in Nat \ {0}
        /\ DOMAIN changes = 1..(n - 1) /\ DOMAIN changes' = 1..n
        /\ \A i \in DOMAIN changes : changes'[i] = changes[i]
        /\ changes'[n].record = m.record /\ changes'[n].version = version
    <2>1. TypeInv /\ Record(d, m, disposition, version) /\ n = nextSeq
      BY <1>1, <1>2, <1>n
    <2> QED
      BY <2>1, ChangesAfter
  <1>5. ASSUME NEW r \in Records, r # m.record
        PROVE  /\ Mine(r)' = {} => ~Exists(r)'
               /\ Mine(r)' # {} => \E i \in Mine(r)' : /\ \A j \in Mine(r)' : j <= i
                                                      /\ changes'[i].version = Version(r)'
    <2>1. Mine(r)' = Mine(r)
      BY <1>3, <1>5 DEF Mine
    <2>2. \A i \in Mine(r) : changes'[i] = changes[i]
      BY <1>3 DEF Mine
    <2>3. Version(r)' = Version(r)
      BY <1>2, <1>5
    <2> QED
      BY <1>1, <2>1, <2>2, <2>3 DEF LastIsRow, Exists
  <1>6. n \in Mine(m.record)' /\ (\A j \in Mine(m.record)' : j <= n)
    BY <1>3 DEF Mine
  <1>7. changes'[n].version = Version(m.record)'
    BY <1>2, <1>3, MutationType
  <1> QED
    BY <1>5, <1>6, <1>7 DEF LastIsRow

\* A tombstoned observation is not decided upon but by a conflict, which leaves its row.
LEMMA ErasedStays ==
  ASSUME RecoveryInv, NEW d \in Devices, NEW m \in Mutations,
         PushAccept(d, m) \/ PushConflict(d, m), NEW o \in Observations, Tombstoned(o)
  PROVE  observations'[o] = observations[o] /\ (PushAccept(d, m) => o # m.record)
  <1>1. Exists(o) /\ tombstones[o] # 0 /\ TypeInv
    BY TombstonedExists DEF RecoveryInv, TombstonesLinked
  <1>2. CASE PushAccept(d, m)
    <2>1. ~InvalidBase(m)
      BY <1>2, DecidedFacts DEF PushAccept
    <2>2. /\ m.kind # "create" => Version(m.record) = m.base
          /\ m.kind = "tombstone" => tombstones[m.record] = 0
      BY <1>2, AcceptedFacts DEF PushAccept
    <2>3. o # m.record
      BY <1>1, <2>1, <2>2 DEF InvalidBase, Revives
    <2> QED
      BY <1>1, <1>2, <2>3, CanonicalRow DEF PushAccept
  <1>3. CASE PushConflict(d, m) /\ ~PushAccept(d, m)
    BY <1>1, <1>3 DEF PushConflict, Contested, TypeInv, TypeOK
  <1> QED
    BY <1>2, <1>3

LEMMA BuriedAfter ==
  ASSUME HistoryInv, NEW d \in Devices, NEW m \in Mutations,
         PushAccept(d, m) \/ PushConflict(d, m)
  PROVE  Buried'
  <1>1. RecoveryInv /\ TypeInv /\ Buried
    BY DEF HistoryInv, TablesInv, RecoveryInv
  <1>2. SUFFICES ASSUME NEW row \in mutations', row.mutation.kind = "tombstone",
                        row.disposition = "accepted"
                 PROVE  observations'[row.mutation.record].lifecycle = "tombstoned"
    BY DEF Buried, Tombstoned
  <1>3. CASE row \in mutations
    <2>1. row.mutation \in Mutations
      BY <1>1, <1>3 DEF TypeInv, TypeOK, Receipt
    <2>2. row.mutation.record \in Observations
      BY <1>2, <2>1, MutationType
    <2>3. Tombstoned(row.mutation.record)
      BY <1>1, <1>2, <1>3 DEF Buried
    <2> QED
      BY <1>1, <2>2, <2>3, ErasedStays DEF Tombstoned
  <1>4. CASE row \notin mutations
    <2>1. PICK disposition, version :
            /\ Record(d, m, disposition, version)
            /\ disposition = "accepted" => PushAccept(d, m)
      BY DEF PushAccept, PushConflict
    <2>2. \E new : /\ new.mutation = m /\ new.disposition = disposition
                   /\ mutations' = mutations \cup {new}
      <3>1. PICK n : n = nextSeq
        OBVIOUS
      <3>2. TypeInv /\ Record(d, m, disposition, version)
        BY <1>1, <2>1
      <3> QED
        BY <3>1, <3>2, ChangesAfter
    <2>3. row.mutation = m /\ row.disposition = disposition
      BY <1>2, <1>4, <2>2
    <2>4. PushAccept(d, m) /\ m.kind = "tombstone" /\ m.record \in Observations
      BY <1>2, <2>1, <2>3, MutationType
    <2>5. observations'[m.record] = Erased(m)
      BY <1>1, <2>4, CanonicalRow DEF PushAccept
    <2> QED
      BY <2>3, <2>5 DEF Erased
  <1> QED
    BY <1>3, <1>4

LEMMA InitHistory == Init => HistoryInv
  <1> SUFFICES ASSUME Init PROVE HistoryInv
    OBVIOUS
  <1>1. \A r \in Records : ~Exists(r)
    BY Disjoint DEF Init, Exists, Version, Records
  <1>2. LastIsRow /\ Buried
    BY <1>1 DEF Init, LastIsRow, Mine, Buried
  <1> QED
    BY <1>2, InitTables DEF HistoryInv

LEMMA FrameHistory == HistoryInv /\ UNCHANGED <<canonical, history>> /\ TablesInv' => HistoryInv'
  <1> SUFFICES ASSUME HistoryInv, UNCHANGED <<canonical, history>>, TablesInv' PROVE HistoryInv'
    OBVIOUS
  <1>1. UNCHANGED <<projects, sessions, observations, mutations, changes>>
    BY DEF canonical, history
  <1>2. \A r : Version(r)' = Version(r) /\ Mine(r)' = Mine(r)
    BY <1>1 DEF Version, Mine
  <1>3. LastIsRow'
    BY <1>1, <1>2 DEF HistoryInv, LastIsRow, Exists
  <1>4. Buried'
    BY <1>1 DEF HistoryInv, Buried, Tombstoned
  <1> QED
    BY <1>3, <1>4 DEF HistoryInv

LEMMA NextHistory == HistoryInv /\ [Next]_vars => HistoryInv'
  <1> SUFFICES ASSUME HistoryInv, [Next]_vars PROVE HistoryInv'
    OBVIOUS
  <1>1. TablesInv'
    BY NextTables DEF HistoryInv
  <1>2. ASSUME NEW d \in Devices,
               IssueDevice(d) \/ RevokeDevice(d) \/ AuthenticateDevice(d) \/ EndRequest(d)
        PROVE  HistoryInv'
    BY <1>1, <1>2, FrameHistory
    DEF IssueDevice, RevokeDevice, AuthenticateDevice, EndRequest
  <1>3. ASSUME NEW d \in Devices, Push(d) PROVE HistoryInv'
    <2>1. PICK m \in PlainMutations \cup Resolutions({c.id : c \in conflicts}) :
            PushAccept(d, m) \/ PushConflict(d, m)
      BY <1>3 DEF Push
    <2>2. m \in Mutations
      BY PushedMutation DEF HistoryInv, TablesInv, RecoveryInv, TypeInv
    <2> QED
      BY <1>1, <2>1, <2>2, LastAfter, BuriedAfter DEF HistoryInv
  <1>4. CASE UNCHANGED vars
    BY <1>1, <1>4, FrameHistory DEF vars
  <1> QED
    BY <1>2, <1>3, <1>4 DEF Next

----------------------------------------------------------------------------

(* The log of the history, read from the tables. *)

Log == [i \in DOMAIN changes |-> EntryOf(i)]

LEMMA EntryFields ==
  ASSUME LogLinked, NEW i \in DOMAIN changes
  PROVE  /\ Log[i].device = changes[i].device /\ Log[i].id = changes[i].id
         /\ Log[i].record = changes[i].record /\ Log[i].version = changes[i].version
         /\ Log[i].disposition = changes[i].kind
         /\ \E row \in mutations :
              /\ ReceiptOf(changes[i], row)
              /\ row.mutation.record = changes[i].record
              /\ row.disposition = changes[i].kind
              /\ Log[i].kind = row.mutation.kind
  <1>1. PICK row \in mutations :
          /\ ReceiptOf(changes[i], row)
          /\ row.mutation.record = changes[i].record /\ row.disposition = changes[i].kind
    BY HasReceipt
  <1>2. Log[i] =
          [device |-> changes[i].device, id |-> changes[i].id, record |-> changes[i].record,
           kind |-> row.mutation.kind, base |-> row.mutation.base,
           disposition |-> changes[i].kind, version |-> changes[i].version]
    BY <1>1, EntryIs DEF Log
  <1> QED
    BY <1>1, <1>2

\* The current version of the history is the version of the row.
LEMMA CurrentIsRow ==
  ASSUME HistoryInv, NEW r \in Records, NEW v
  PROVE  Abstract!IsCurrent(r, v) <=> v = Version(r)
  <1>1. LogLinked /\ LastIsRow /\ DOMAIN Log = DOMAIN changes
    BY DEF HistoryInv, TablesInv, RecoveryInv, Log
  <1>2. \A i \in DOMAIN changes : /\ Log[i].record = changes[i].record
                                  /\ Log[i].version = changes[i].version
    BY <1>1, EntryFields
  <1>3. Abstract!EntriesOf(r) = Mine(r)
    BY <1>1, <1>2 DEF Abstract!EntriesOf, Mine, Log
  <1>4. DOMAIN changes \subseteq Nat
    BY DEF HistoryInv, TablesInv, RecoveryInv, TypeInv, TypeOK
  <1>5. Mine(r) \subseteq DOMAIN changes
    BY DEF Mine
  <1>6. CASE Mine(r) = {}
    BY <1>1, <1>3, <1>6 DEF Abstract!IsCurrent, LastIsRow, Exists
  <1>7. CASE Mine(r) # {}
    <2>1. PICK i \in Mine(r) : (\A j \in Mine(r) : j <= i) /\ changes[i].version = Version(r)
      BY <1>1, <1>7 DEF LastIsRow
    <2>2. \A k \in Mine(r) : (\A j \in Mine(r) : j <= k) => k = i
      BY <1>4, <1>5, <2>1
    <2>3. Abstract!IsCurrent(r, v) <=>
            \E k \in Mine(r) : /\ \A j \in Mine(r) : j <= k
                               /\ v = Log[k].version
      BY <1>3, <1>7 DEF Abstract!IsCurrent, Log
    <2>4. Log[i].version = Version(r)
      BY <1>2, <1>5, <2>1
    <2> QED
      BY <2>1, <2>2, <2>3, <2>4
  <1> QED
    BY <1>6, <1>7

\* What the history has decided has a receipt.
LEMMA DecidedHasReceipt ==
  ASSUME LogLinked, NEW d, NEW id, Receipts(d, id) = {}
  PROVE  ~Abstract!Decided(d, id)
  <1> SUFFICES ASSUME NEW i \in DOMAIN changes, Log[i].device = d, Log[i].id = id
               PROVE  FALSE
    BY DEF Abstract!Decided, Log
  <1>1. changes[i].device = d /\ changes[i].id = id
    BY EntryFields
  <1> QED
    BY <1>1, HasReceipt DEF ReceiptOf, Receipts

\* What the history has deleted is a tombstone.
LEMMA DeletedIsTombstone ==
  ASSUME HistoryInv, NEW r, Abstract!Deleted(r)
  PROVE  r \in Observations /\ Tombstoned(r)
  <1>1. LogLinked /\ Buried /\ mutations \subseteq Receipt
    BY DEF HistoryInv, TablesInv, RecoveryInv, TypeInv, TypeOK
  <1>2. PICK i \in DOMAIN changes : /\ Log[i].record = r /\ Log[i].kind = "tombstone"
                                    /\ Log[i].disposition = "accepted"
    BY DEF Abstract!Deleted, Abstract!EntriesOf, Log
  <1>3. PICK row \in mutations :
          /\ row.mutation.record = changes[i].record /\ row.disposition = changes[i].kind
          /\ Log[i].kind = row.mutation.kind
    BY <1>1, EntryFields
  <1>4. changes[i].record = r /\ changes[i].kind = "accepted"
    BY <1>1, <1>2, EntryFields
  <1>5. row.mutation \in Mutations
    BY <1>1 DEF Receipt
  <1> QED
    BY <1>1, <1>2, <1>3, <1>4, <1>5, MutationType DEF Buried

\* An accepted mutation is an accepted entry of the history.
LEMMA AcceptIsAccept ==
  ASSUME HistoryInv, NEW d \in Devices, NEW m \in Mutations, PushAccept(d, m), NEW e,
         e.record = m.record, e.kind = m.kind, e.base = m.base,
         e.disposition = "accepted", e.version = m.base + 1
  PROVE  Abstract!Accept(e)
  <1>1. RecoveryInv /\ m.record \in Records /\ ((m.kind = "create") <=> (m.base = 0))
    BY MutationType DEF HistoryInv, TablesInv
  <1>2. Version(m.record) = m.base
    <2>1. /\ m.kind # "create" => Version(m.record) = m.base
          /\ m.kind = "create" => ~Exists(m.record)
      BY AcceptedFacts, DecidedFacts DEF PushAccept, InvalidBase
    <2> QED
      BY <1>1, <2>1 DEF Exists
  <1>3. Abstract!IsCurrent(e.record, e.base)
    BY <1>1, <1>2, CurrentIsRow
  <1>4. ~Abstract!Deleted(e.record)
    BY <1>1, DeletedIsTombstone, ErasedStays
  <1> QED
    BY <1>1, <1>3, <1>4 DEF Abstract!Accept

\* A competing one is a conflict of the history.
LEMMA ConflictIsConflict ==
  ASSUME HistoryInv, NEW d \in Devices, NEW m \in Mutations, PushConflict(d, m), NEW e,
         e.record = m.record, e.kind = m.kind, e.base = m.base, e.disposition = "conflict",
         e.version = IF Exists(m.record) THEN Version(m.record) ELSE m.base + 1
  PROVE  Abstract!Conflict(e)
  <1>1. m.record \in Records /\ m.kind \in {"create", "update"}
    BY MutationType, ConflictKind DEF PushConflict
  <1>2. ~Exists(m.record) => m.kind = "create" /\ m.base = 0
    BY ContestedRows DEF HistoryInv, TablesInv, RecoveryInv
  <1>3. Exists(m.record) => m.kind # "create"
    BY DecidedFacts DEF PushConflict, InvalidBase
  <1>4. /\ Abstract!IsCurrent(e.record, 0) <=> ~Exists(m.record)
        /\ Exists(m.record) => Abstract!IsCurrent(e.record, e.version)
    BY <1>1, CurrentIsRow DEF Exists
  <1>5. CASE Exists(m.record)
    BY <1>1, <1>3, <1>4, <1>5 DEF Abstract!Conflict
  <1>6. CASE ~Exists(m.record)
    BY <1>2, <1>4, <1>6 DEF Abstract!Conflict
  <1> QED
    BY <1>5, <1>6

\* A sequence with one more element.
LEMMA Grown ==
  ASSUME NEW S, NEW n \in Nat \ {0}, NEW old \in [1..(n - 1) -> S], NEW now \in [1..n -> S],
         NEW e \in S, \A i \in 1..(n - 1) : now[i] = old[i], now[n] = e
  PROVE  now = Append(old, e) /\ Len(now) = n /\ now # << >>
  <1>1. old \in Seq(S) /\ Len(old) = n - 1
    BY SeqDef, LenProperties
  <1>2. now \in Seq(S) /\ Len(now) = n
    BY SeqDef, LenProperties
  <1>3. /\ Append(old, e) \in Seq(S) /\ Len(Append(old, e)) = n
        /\ \A i \in 1..(n - 1) : Append(old, e)[i] = old[i]
        /\ Append(old, e)[n] = e
    BY <1>1, AppendProperties
  <1>4. \A i \in 1..n : now[i] = Append(old, e)[i]
    BY <1>3
  <1>5. now = Append(old, e)
    BY <1>2, <1>3, <1>4, SeqEqual
  <1> QED
    BY <1>2, <1>5

\* The decision on a mutation is a step of the history.
LEMMA PushIsDecision ==
  ASSUME HistoryInv, HistoryInv', NEW d \in Devices, NEW m \in Mutations,
         PushAccept(d, m) \/ PushConflict(d, m)
  PROVE  Abstract!Next
  <1>1. RecoveryInv /\ RecoveryInv' /\ TypeInv
    BY DEF HistoryInv, TablesInv, RecoveryInv
  <1>2. PICK disposition, version :
          /\ Record(d, m, disposition, version)
          /\ \/ /\ PushAccept(d, m)
                /\ disposition = "accepted" /\ version = m.base + 1
             \/ /\ PushConflict(d, m)
                /\ disposition = "conflict"
                /\ version = IF Exists(m.record) THEN Version(m.record) ELSE m.base + 1
    BY DEF PushAccept, PushConflict
  <1>3. PICK n : n = nextSeq
    OBVIOUS
  <1> DEFINE e == [device |-> d, id |-> m.id, record |-> m.record, kind |-> m.kind,
                   base |-> m.base, disposition |-> disposition, version |-> version]
  <1>4. /\ n \in Nat \ {0}
        /\ DOMAIN changes = 1..(n - 1) /\ DOMAIN changes' = 1..n
    <2>1. TypeInv /\ Record(d, m, disposition, version)
      BY <1>1, <1>2
    <2> QED
      BY <1>3, <2>1, ChangesAfter
  <1>5. (\A i \in 1..(n - 1) : EntryOf(i)' = EntryOf(i)) /\ EntryOf(n)' = e
    <2>1. RecoveryInv /\ RecoveryInv' /\ Record(d, m, disposition, version)
      BY <1>1, <1>2
    <2> QED
      BY <1>3, <2>1, EntriesAfter
  <1>6. /\ e.device = d /\ e.id = m.id /\ e.record = m.record /\ e.kind = m.kind
        /\ e.base = m.base /\ e.disposition = disposition /\ e.version = version
    OBVIOUS
  <1>7. e \in Abstract!Entry
    <2>1. m.base \in Nat /\ m.base + 1 \in Nat /\ m.record \in Records /\ m.id \in MutationIds
      BY MutationType, ConstantsAssumption
    <2>2. m.kind \in Abstract!Kinds
      BY MutationType DEF Abstract!Kinds
    <2>3. Version(m.record) \in Nat
      BY <1>1, <2>1, VersionType, ConstantsAssumption DEF TypeInv
    <2>4. disposition \in Abstract!Dispositions /\ version \in Nat
      BY <1>2, <2>1, <2>3 DEF Abstract!Dispositions
    <2> QED
      BY <2>1, <2>2, <2>4 DEF Abstract!Entry
  <1> HIDE DEF e
  <1>8. Log' = Append(Log, e) /\ Len(Log') = n /\ Log'[n] = e /\ Log' # << >>
    <2>1. Log = [i \in 1..(n - 1) |-> EntryOf(i)] /\ Log' = [i \in 1..n |-> EntryOf(i)']
      BY <1>4 DEF Log
    <2>2. \A i \in 1..(n - 1) : Log'[i] = Log[i]
      BY <1>4, <1>5, <2>1
    <2>3. Log'[n] = e
      BY <1>4, <1>5, <2>1
    <2> DEFINE S == {Log'[i] : i \in 1..n}
    <2>4. Log' \in [1..n -> S] /\ Log \in [1..(n - 1) -> S] /\ e \in S
      <3>1. \A i \in 1..n : Log'[i] \in S
        OBVIOUS
      <3>2. Log' \in [1..n -> S]
        BY <2>1, <3>1
      <3>3. 1..(n - 1) \subseteq 1..n /\ n \in 1..n
        BY <1>4
      <3>4. Log \in [1..(n - 1) -> S]
        <4>1. \A i \in 1..(n - 1) : Log[i] \in S
          BY <2>2, <3>1, <3>3
        <4> QED
          BY <2>1, <4>1
      <3>5. e \in S
        BY <2>3, <3>1, <3>3
      <3> QED
        BY <3>2, <3>4, <3>5
    <2> HIDE DEF S
    <2>5. Log' = Append(Log, e) /\ Len(Log') = n /\ Log' # << >>
      BY <1>4, <2>2, <2>3, <2>4, Grown
    <2> QED
      BY <2>3, <2>5
  <1>9. ~Abstract!Decided(e.device, e.id)
    <2>1. Receipts(d, m.id) = {}
      <3>1. Verdict(d, m) \in {"accepted", "conflict"}
        BY DEF PushAccept, PushConflict
      <3> QED
        BY <3>1, DecidedFacts
    <2>2. LogLinked
      BY <1>1 DEF RecoveryInv
    <2> QED
      BY <1>6, <2>1, <2>2, DecidedHasReceipt
  <1>10. Abstract!Accept(e) \/ Abstract!Conflict(e)
    BY <1>2, <1>6, AcceptIsAccept, ConflictIsConflict
  <1> QED
    BY <1>7, <1>8, <1>9, <1>10 DEF Abstract!Next, Abstract!Decide, Log

\* Whatever tables the repository keeps, its log is a history: written only at its end, each
\* mutation decided once, a record's version moved by one at each accepted entry only.
THEOREM HistoryIsImplemented == Spec => ImplementsHistory
  <1>1. Init => Abstract!Init
    BY DEF Init, Abstract!Init
  <1>2. HistoryInv /\ HistoryInv' /\ [Next]_vars => [Abstract!Next]_Log
    <2> SUFFICES ASSUME HistoryInv, HistoryInv', [Next]_vars
                 PROVE  Abstract!Next \/ Log' = Log
      BY DEF Log
    <2>1. ASSUME NEW d \in Devices, Push(d) PROVE Abstract!Next
      <3>1. PICK m \in PlainMutations \cup Resolutions({c.id : c \in conflicts}) :
              PushAccept(d, m) \/ PushConflict(d, m)
        BY <2>1 DEF Push
      <3>2. m \in Mutations
        BY PushedMutation DEF HistoryInv, TablesInv, RecoveryInv, TypeInv
      <3> QED
        BY <3>1, <3>2, PushIsDecision
    <2>2. CASE UNCHANGED <<mutations, changes>>
      BY <2>2 DEF Log, EntryOf, ReceiptOf
    <2> QED
      BY <2>1, <2>2
      DEF Next, IssueDevice, RevokeDevice, AuthenticateDevice, EndRequest, vars, history
  <1> QED
    BY <1>1, <1>2, InitHistory, NextHistory, PTL DEF Spec, ImplementsHistory, Abstract!Spec, Log

(***************************************************************************)
(* The readers of the history.  What is served is settled because a change *)
(* has one receipt, a deleted record takes no further accepted version,    *)
(* and a reported conflict keeps all but its status; a page is an initial  *)
(* part of what is left to see, and its end is the cursor.                 *)
(***************************************************************************)

\* A conflict that the service reports is one change of kind conflict, and the
\* other way round; a tombstone is accepted, and its row is the one it wrote.
OneConflict == \A c1, c2 \in conflicts : c1.id = c2.id => c1 = c2
ConflictsAreChanges ==
  \A c \in conflicts : /\ c.id \in DOMAIN changes
                       /\ changes[c.id].kind = "conflict"
                       /\ c \in Reported(c.id)
ChangesAreConflicts == \A i \in DOMAIN changes : changes[i].kind = "conflict" => Reported(i) # {}
TombstonesInPlace ==
  \A row \in mutations :
    row.mutation.kind = "tombstone" =>
      row.disposition = "accepted" /\ tombstones[row.mutation.record] = row.seq

ServedInv ==
  /\ HistoryInv
  /\ OneConflict /\ ConflictsAreChanges /\ ChangesAreConflicts
  /\ TombstonesInPlace

ReaderType ==
  reader \in [Devices -> [project : Projects \cup {None}, position : Nat, watermark : Nat,
                          seen : SUBSET Nat]]

ReaderInv == ServedInv /\ ReaderType /\ PagesAreExact

----------------------------------------------------------------------------

(***************************************************************************)
(* Pages.                                                                  *)
(***************************************************************************)

\* A set of natural numbers has a least member, and a bounded one a greatest.
LEMMA LeastOf ==
  ASSUME NEW S \in SUBSET Nat, S # {}
  PROVE  \E i \in S : \A j \in S : i <= j
  <1> DEFINE Less == OpToRel(<, Nat)
  <1>1. IsWellFoundedOn(Less, Nat)
    BY NatLessThanWellFounded
  <1>2. \A i, j \in Nat : <<j, i>> \in Less <=> j < i
    BY DEF OpToRel
  <1> HIDE DEF Less
  <1>3. PICK i \in S : \A j \in S : ~(<<j, i>> \in Less)
    BY <1>1, WFMin
  <1>4. \A j \in S : j \in Nat
    OBVIOUS
  <1>5. \A j \in S : ~(j < i)
    BY <1>2, <1>3, <1>4
  <1> QED
    BY <1>4, <1>5

LEMMA LastIs ==
  ASSUME NEW k \in Nat, NEW S \in SUBSET (1..k), S # {}
  PROVE  Last(S) \in S /\ \A j \in S : j <= Last(S)
  <1> DEFINE T == {k - i : i \in S}
  <1>0. \A i \in S : i \in Nat /\ i <= k
    OBVIOUS
  <1>1. T \subseteq Nat /\ T # {}
    <2>1. \A i \in S : k - i \in Nat
      BY <1>0
    <2> QED
      BY <2>1
  <1>2. PICK t \in T : \A u \in T : t <= u
    BY <1>1, LeastOf
  <1>3. PICK i \in S : t = k - i
    BY <1>2
  <1>4. \A j \in S : j <= i
    BY <1>0, <1>2, <1>3
  <1> QED
    BY <1>4 DEF Last

\* The first n of a set are an initial part of it, and some if there are any.
LEMMA FirstOfIs ==
  ASSUME NEW k \in Nat, NEW S \in SUBSET (1..k), NEW n \in Nat, n > 0
  PROVE  /\ FirstOf(S, n) \subseteq S
         /\ \A i \in FirstOf(S, n), j \in S : j <= i => j \in FirstOf(S, n)
         /\ S # {} => FirstOf(S, n) # {}
  <1> DEFINE Before(i) == {j \in S : j < i}
  <1>0. \A i \in S : i \in Nat
    OBVIOUS
  <1>1. \A i \in S : IsFiniteSet(Before(i)) /\ Cardinality(Before(i)) \in Nat
    <2>1. IsFiniteSet(S)
      <3>1. IsFiniteSet(1..k)
        BY FS_Interval
      <3> QED
        BY <3>1, FS_Subset
    <2> QED
      BY <2>1, FS_Subset, FS_CardinalityType
  <1>2. ASSUME NEW i \in FirstOf(S, n), NEW j \in S, j <= i
        PROVE  j \in FirstOf(S, n)
    <2>1. i \in S /\ Cardinality(Before(i)) < n
      BY <1>2 DEF FirstOf
    <2>2. Before(j) \subseteq Before(i)
      <3>1. \A x \in S : x < j => x < i
        BY <1>0, <1>2, <2>1
      <3> QED
        BY <3>1
    <2>3. Cardinality(Before(j)) <= Cardinality(Before(i))
      BY <1>1, <2>1, <2>2, FS_Subset
    <2>4. Cardinality(Before(j)) < n
      BY <1>1, <2>1, <2>3
    <2> QED
      BY <2>4 DEF FirstOf
  <1>3. ASSUME S # {} PROVE FirstOf(S, n) # {}
    <2>1. PICK i \in S : \A j \in S : i <= j
      BY <1>3, LeastOf
    <2>2. Before(i) = {}
      <3>1. \A j \in S : ~(j < i)
        BY <1>0, <2>1
      <3> QED
        BY <3>1
    <2>3. Cardinality(Before(i)) < n
      BY <2>2, FS_EmptySet
    <2> QED
      BY <2>3 DEF FirstOf
  <1> QED
    BY <1>2, <1>3 DEF FirstOf

\* A page is empty only if nothing is left to see.
LEMMA EmptyPage ==
  ASSUME NEW watermark \in Nat, NEW visible \in SUBSET (1..watermark),
         NEW n \in Nat, n > 0, FirstOf(visible, n) = {}
  PROVE  visible = {}
  BY FirstOfIs

\* Up to the last change of a page, nothing that is visible is left out.
LEMMA LastOfPage ==
  ASSUME NEW watermark \in Nat, NEW visible \in SUBSET (1..watermark),
         NEW n \in Nat, n > 0, FirstOf(visible, n) # {}
  PROVE  \E last \in visible :
           /\ last = Last(FirstOf(visible, n))
           /\ \A i \in visible : i \in FirstOf(visible, n) <=> i <= last
  <1> DEFINE first == FirstOf(visible, n)
  <1>1. /\ first \subseteq visible
        /\ \A i \in first, j \in visible : j <= i => j \in first
    BY FirstOfIs
  <1>2. Last(first) \in first /\ \A i \in first : i <= Last(first)
    BY <1>1, LastIs
  <1> QED
    BY <1>1, <1>2

----------------------------------------------------------------------------

(***************************************************************************)
(* What a push leaves of the changes there are.                            *)
(***************************************************************************)

\* A push writes one change, accepted or a conflict.
LEMMA PushRecords ==
  ASSUME NEW d, NEW m, PushAccept(d, m) \/ PushConflict(d, m)
  PROVE  \E disposition, version :
           /\ Record(d, m, disposition, version)
           /\ \/ disposition = "accepted" /\ PushAccept(d, m)
              \/ disposition = "conflict" /\ PushConflict(d, m)
  BY DEF PushAccept, PushConflict

\* The receipt of a change stays the one it has.
LEMMA ReceiptKept ==
  ASSUME RecoveryInv, RecoveryInv', NEW d \in Devices, NEW m \in Mutations,
         PushAccept(d, m) \/ PushConflict(d, m), NEW i \in DOMAIN changes
  PROVE  /\ i \in DOMAIN changes' /\ changes'[i] = changes[i]
         /\ ChangeReceipt(i)' = ChangeReceipt(i)
         /\ ChangeReceipt(i) \in mutations /\ ReceiptOf(changes[i], ChangeReceipt(i))
         /\ ChangeReceipt(i).seq = i /\ ChangeReceipt(i).mutation.record = changes[i].record
         /\ ChangeReceipt(i).disposition = changes[i].kind
  <1>1. PICK disposition, version : Record(d, m, disposition, version)
    BY PushRecords
  <1>n. PICK n : n = nextSeq
    OBVIOUS
  <1>2. TypeInv /\ LogLinked /\ LogLinked'
    BY DEF RecoveryInv
  <1>3. /\ i \in DOMAIN changes' /\ changes'[i] = changes[i]
        /\ mutations \subseteq mutations'
    <2>1. /\ n \in Nat \ {0}
          /\ DOMAIN changes = 1..(n - 1) /\ DOMAIN changes' = 1..n
          /\ \A j \in DOMAIN changes : changes'[j] = changes[j]
          /\ \E new : mutations' = mutations \cup {new}
      <3>1. TypeInv /\ Record(d, m, disposition, version) /\ n = nextSeq
        BY <1>1, <1>2, <1>n
      <3> QED
        BY <3>1, ChangesAfter
    <2> QED
      BY <2>1
  <1>4. PICK row \in mutations :
          /\ ReceiptOf(changes[i], row) /\ row.seq = i
          /\ row.mutation.record = changes[i].record /\ row.disposition = changes[i].kind
    BY <1>2, HasReceipt
  <1>5. ChangeReceipt(i) = row
    <2>1. \A x \in mutations : ReceiptOf(changes[i], x) => x = row
      BY <1>2, <1>4 DEF LogLinked, OneReceipt, ReceiptOf
    <2> QED
      BY <1>4, <2>1 DEF ChangeReceipt
  <1>6. ChangeReceipt(i)' = row
    <2>1. \A x \in mutations' : ReceiptOf(changes'[i], x) => x = row
      BY <1>2, <1>3, <1>4 DEF LogLinked, OneReceipt, ReceiptOf
    <2>2. row \in mutations' /\ ReceiptOf(changes'[i], row)
      BY <1>3, <1>4
    <2>3. (CHOOSE x \in mutations' : ReceiptOf(changes'[i], x)) = row
      BY <2>1, <2>2
    <2> QED
      BY <2>3 DEF ChangeReceipt, ReceiptOf
  <1> QED
    BY <1>3, <1>4, <1>5, <1>6

\* The project of a change is never told otherwise: its version stays, and a
\* deleted record gets no accepted version that a tombstone could take for its
\* predecessor's.
LEMMA FiledOnce ==
  ASSUME ServedInv, HistoryInv', NEW d \in Devices, NEW m \in Mutations,
         PushAccept(d, m) \/ PushConflict(d, m), NEW i \in DOMAIN changes
  PROVE  Membership(i)' = Membership(i) /\ (IsTombstone(i)' <=> IsTombstone(i))
  <1>1. /\ RecoveryInv /\ RecoveryInv' /\ TypeInv /\ LogLinked /\ Buried /\ TombstonesInPlace
    BY DEF ServedInv, HistoryInv, TablesInv, RecoveryInv
  <1>2. PICK disposition, version :
          /\ Record(d, m, disposition, version)
          /\ \/ disposition = "accepted" /\ PushAccept(d, m)
             \/ disposition = "conflict" /\ PushConflict(d, m)
    BY PushRecords
  <1>3. /\ i \in DOMAIN changes' /\ changes'[i] = changes[i]
        /\ ChangeReceipt(i)' = ChangeReceipt(i)
        /\ ChangeReceipt(i) \in mutations
        /\ ChangeReceipt(i).mutation.record = changes[i].record
        /\ ChangeReceipt(i).disposition = changes[i].kind
    BY <1>1, ReceiptKept
  <1>4. IsTombstone(i)' <=> IsTombstone(i)
    BY <1>3 DEF IsTombstone
  <1>n. PICK n : n = nextSeq
    OBVIOUS
  <1>5. /\ n \in Nat \ {0}
        /\ DOMAIN versions = 1..(n - 1) /\ DOMAIN versions' = 1..n
        /\ \A j \in DOMAIN versions : versions'[j] = versions[j]
        /\ versions'[n].record = m.record /\ versions'[n].disposition = disposition
        /\ DOMAIN changes = 1..(n - 1)
    <2>1. /\ nextSeq \in Nat \ {0}
          /\ DOMAIN versions = 1..(nextSeq - 1) /\ DOMAIN versions' = 1..nextSeq
          /\ \A j \in DOMAIN versions : versions'[j] = versions[j]
          /\ versions'[nextSeq] =
               [record |-> m.record, version |-> m.base + 1, device |-> d, id |-> m.id,
                base |-> m.base, disposition |-> disposition, snapshot |-> m.payload]
          /\ DOMAIN changes = 1..(nextSeq - 1)
      BY <1>1, <1>2, RecordAppends
    <2>2. versions'[nextSeq].record = m.record /\ versions'[nextSeq].disposition = disposition
      BY <2>1
    <2> QED
      BY <1>n, <2>1, <2>2
  <1>6. versions'[changes[i].row] = versions[changes[i].row]
    <2>1. changes[i].row = i
      BY <1>1 DEF LogLinked, RowsInStep
    <2> QED
      BY <1>5, <2>1
  <1>7. ASSUME IsTombstone(i) PROVE Previous(i)' = Previous(i)
    <2>1. /\ ChangeReceipt(i).mutation.kind = "tombstone"
          /\ ChangeReceipt(i).disposition = "accepted"
      BY <1>1, <1>3, <1>7 DEF IsTombstone, TombstonesInPlace
    <2>2. changes[i].record \in Observations
      <3>1. ChangeReceipt(i).mutation \in Mutations
        BY <1>1, <1>3 DEF TypeInv, TypeOK, Receipt
      <3> QED
        BY <1>3, <2>1, <3>1, MutationType
    <2>3. Tombstoned(changes[i].record)
      BY <1>1, <1>3, <2>1 DEF Buried
    <2>4. disposition = "accepted" => changes[i].record # m.record
      BY <1>1, <1>2, <2>2, <2>3, ErasedStays
    <2>5. Previous(i)' = {v \in {versions'[j] : j \in 1..n} :
                            /\ v.record = changes[i].record
                            /\ v.version = ChangeReceipt(i).mutation.base
                            /\ v.disposition = "accepted"}
      BY <1>3, <1>5 DEF Previous
    <2>6. ~(/\ versions'[n].record = changes[i].record
            /\ versions'[n].disposition = "accepted")
      BY <1>5, <2>4
    <2>7. \A j \in 1..n : j # n => j \in DOMAIN versions /\ versions'[j] = versions[j]
      BY <1>5
    <2>8. \A j \in DOMAIN versions : j \in 1..n /\ versions'[j] = versions[j]
      BY <1>5
    <2> QED
      BY <2>5, <2>6, <2>7, <2>8 DEF Previous
  <1> QED
    BY <1>3, <1>4, <1>6, <1>7 DEF Membership

\* A settled conflict is told by the same id, and is reported at the same change.
LEMMA SettleKeeps ==
  ASSUME TypeInv, NEW m \in Mutations, Settle(m)
  PROVE  /\ \A c \in conflicts : \E x \in conflicts' :
              /\ x.id = c.id /\ x.observation = c.observation
              /\ x.row = c.row /\ x.version = c.version
              /\ x = IF c \in Named(m) THEN Resolved(c) ELSE c
         /\ \A x \in conflicts' : \E c \in conflicts :
              /\ x.id = c.id /\ x.observation = c.observation
              /\ x.row = c.row /\ x.version = c.version
              /\ x = IF c \in Named(m) THEN Resolved(c) ELSE c
  <1>1. \A c \in conflicts :
          /\ Resolved(c).id = c.id /\ Resolved(c).observation = c.observation
          /\ Resolved(c).row = c.row /\ Resolved(c).version = c.version
    BY DEF Resolved, ConflictRow, TypeInv, TypeOK
  <1>2. Named(m) \subseteq conflicts
    BY DEF Named
  <1> QED
    BY <1>1, <1>2 DEF Settle

LEMMA AcceptReports ==
  ASSUME ServedInv, NEW d \in Devices, NEW m \in Mutations, PushAccept(d, m)
  PROVE  OneConflict' /\ ConflictsAreChanges' /\ ChangesAreConflicts'
  <1>1. TypeInv /\ OneConflict /\ ConflictsAreChanges /\ ChangesAreConflicts
    BY DEF ServedInv, HistoryInv, TablesInv, RecoveryInv
  <1>2. Settle(m) /\ Record(d, m, "accepted", m.base + 1)
    BY DEF PushAccept
  <1>n. PICK n : n = nextSeq
    OBVIOUS
  <1>3. /\ n \in Nat \ {0}
        /\ DOMAIN changes = 1..(n - 1) /\ DOMAIN changes' = 1..n
        /\ \A i \in DOMAIN changes : changes'[i] = changes[i]
        /\ changes'[n].kind = "accepted"
    BY <1>1, <1>2, <1>n, ChangesAfter
  <1>4. /\ \A c \in conflicts : \E x \in conflicts' :
              /\ x.id = c.id /\ x.observation = c.observation
              /\ x.row = c.row /\ x.version = c.version
        /\ \A x \in conflicts' : \E c \in conflicts :
              /\ x.id = c.id /\ x.observation = c.observation
              /\ x.row = c.row /\ x.version = c.version
              /\ x = IF c \in Named(m) THEN Resolved(c) ELSE c
    BY <1>1, <1>2, SettleKeeps
  <1>5. OneConflict'
    BY <1>1, <1>4 DEF OneConflict
  <1>6. ConflictsAreChanges'
    <2> SUFFICES ASSUME NEW x \in conflicts'
                 PROVE  /\ x.id \in DOMAIN changes'
                        /\ changes'[x.id].kind = "conflict"
                        /\ x.observation = changes'[x.id].record
                        /\ x.row = changes'[x.id].row /\ x.version = changes'[x.id].version
      BY DEF ConflictsAreChanges, Reported
    <2>1. PICK c \in conflicts : /\ x.id = c.id /\ x.observation = c.observation
                                 /\ x.row = c.row /\ x.version = c.version
      BY <1>4
    <2>2. /\ c.id \in DOMAIN changes /\ changes[c.id].kind = "conflict"
          /\ c.observation = changes[c.id].record
          /\ c.row = changes[c.id].row /\ c.version = changes[c.id].version
      BY <1>1 DEF ConflictsAreChanges, Reported
    <2> QED
      BY <1>3, <2>1, <2>2
  <1>7. ChangesAreConflicts'
    <2> SUFFICES ASSUME NEW i \in DOMAIN changes', changes'[i].kind = "conflict"
                 PROVE  \E x \in conflicts' :
                          /\ x.id = i /\ x.observation = changes'[i].record
                          /\ x.row = changes'[i].row /\ x.version = changes'[i].version
      BY DEF ChangesAreConflicts, Reported
    <2>1. i \in DOMAIN changes /\ changes'[i] = changes[i]
      BY <1>3
    <2>2. PICK c \in conflicts : /\ c.id = i /\ c.observation = changes[i].record
                                 /\ c.row = changes[i].row /\ c.version = changes[i].version
      BY <1>1, <2>1 DEF ChangesAreConflicts, Reported
    <2> QED
      BY <1>4, <2>1, <2>2
  <1> QED
    BY <1>5, <1>6, <1>7

LEMMA ConflictReports ==
  ASSUME ServedInv, NEW d \in Devices, NEW m \in Mutations, PushConflict(d, m)
  PROVE  OneConflict' /\ ConflictsAreChanges' /\ ChangesAreConflicts'
  <1>1. TypeInv /\ OneConflict /\ ConflictsAreChanges /\ ChangesAreConflicts
    BY DEF ServedInv, HistoryInv, TablesInv, RecoveryInv
  <1>2. PICK version :
          /\ Record(d, m, "conflict", version)
          /\ conflicts' = conflicts \cup
               {[id |-> nextSeq, observation |-> m.record, version |-> version,
                 row |-> Len(versions) + 1, status |-> "unresolved", resolvedSeq |-> 0]}
    BY DEF PushConflict
  <1> DEFINE added ==
        [id |-> nextSeq, observation |-> m.record, version |-> version,
         row |-> Len(versions) + 1, status |-> "unresolved", resolvedSeq |-> 0]
  <1>n. PICK n : n = nextSeq
    OBVIOUS
  <1>3. /\ n \in Nat \ {0}
        /\ DOMAIN changes = 1..(n - 1) /\ DOMAIN changes' = 1..n
        /\ \A i \in DOMAIN changes : changes'[i] = changes[i]
        /\ changes'[n].kind = "conflict" /\ changes'[n].record = m.record
        /\ changes'[n].version = version
    BY <1>1, <1>2, <1>n, ChangesAfter
  <1>4. changes'[n].row = n /\ Len(versions) + 1 = n
    <2>0. TypeInv /\ Record(d, m, "conflict", version)
      BY <1>1, <1>2
    <2>1. nextSeq \in Nat \ {0} /\ Len(versions) = nextSeq - 1
      BY <2>0, RecordAppends
    <2>3. changes' = Append(changes,
            [device |-> d, id |-> m.id, kind |-> "conflict", record |-> m.record,
             version |-> version, row |-> Len(versions) + 1])
      BY <2>0 DEF Record
    <2>4. changes \in Seq(ChangeRow) /\ Len(changes) = nextSeq - 1
      BY <1>1 DEF TypeInv, TypeOK, Contiguous
    <2>5. changes'[nextSeq] =
            [device |-> d, id |-> m.id, kind |-> "conflict", record |-> m.record,
             version |-> version, row |-> Len(versions) + 1]
      BY <2>1, <2>3, <2>4
    <2>2. changes'[nextSeq].row = nextSeq
      BY <2>1, <2>5
    <2> QED
      BY <1>n, <2>1, <2>2
  <1>5. /\ conflicts' = conflicts \cup {added}
        /\ added.id = n /\ added.observation = m.record
        /\ added.version = version /\ added.row = n
    BY <1>2, <1>4, <1>n
  <1> HIDE DEF added
  <1>6. \A c \in conflicts :
          /\ c.id \in DOMAIN changes /\ changes[c.id].kind = "conflict"
          /\ c.observation = changes[c.id].record
          /\ c.row = changes[c.id].row /\ c.version = changes[c.id].version
    BY <1>1 DEF ConflictsAreChanges, Reported
  <1>7. \A c \in conflicts : c.id # n
    BY <1>3, <1>6
  <1>8. OneConflict'
    BY <1>1, <1>5, <1>7 DEF OneConflict
  <1>9. ConflictsAreChanges'
    <2> SUFFICES ASSUME NEW x \in conflicts'
                 PROVE  /\ x.id \in DOMAIN changes'
                        /\ changes'[x.id].kind = "conflict"
                        /\ x.observation = changes'[x.id].record
                        /\ x.row = changes'[x.id].row /\ x.version = changes'[x.id].version
      BY DEF ConflictsAreChanges, Reported
    <2>1. CASE x \in conflicts
      BY <1>3, <1>6, <2>1
    <2>2. CASE x = added
      BY <1>3, <1>4, <1>5, <2>2
    <2> QED
      BY <1>5, <2>1, <2>2
  <1>10. ChangesAreConflicts'
    <2> SUFFICES ASSUME NEW i \in DOMAIN changes', changes'[i].kind = "conflict"
                 PROVE  \E x \in conflicts' :
                          /\ x.id = i /\ x.observation = changes'[i].record
                          /\ x.row = changes'[i].row /\ x.version = changes'[i].version
      BY DEF ChangesAreConflicts, Reported
    <2>1. CASE i = n
      BY <1>3, <1>4, <1>5, <2>1
    <2>2. CASE i # n
      <3>1. i \in DOMAIN changes /\ changes'[i] = changes[i]
        BY <1>3, <2>2
      <3>2. PICK c \in conflicts : /\ c.id = i /\ c.observation = changes[i].record
                                   /\ c.row = changes[i].row /\ c.version = changes[i].version
        BY <1>1, <3>1 DEF ChangesAreConflicts, Reported
      <3> QED
        BY <1>5, <3>1, <3>2
    <2> QED
      BY <2>1, <2>2
  <1> QED
    BY <1>8, <1>9, <1>10

\* A tombstone is never contested, and the row it wrote is not written again.
LEMMA PushTombstones ==
  ASSUME ServedInv, NEW d \in Devices, NEW m \in Mutations,
         PushAccept(d, m) \/ PushConflict(d, m)
  PROVE  TombstonesInPlace'
  <1>1. RecoveryInv /\ TypeInv /\ TombstonesInPlace /\ Buried /\ LogLinked
    BY DEF ServedInv, HistoryInv, TablesInv, RecoveryInv
  <1>2. PICK disposition, version :
          /\ Record(d, m, disposition, version)
          /\ \/ disposition = "accepted" /\ PushAccept(d, m)
             \/ disposition = "conflict" /\ PushConflict(d, m)
    BY PushRecords
  <1>n. PICK n : n = nextSeq
    OBVIOUS
  <1>3. PICK new : /\ new.mutation = m /\ new.disposition = disposition /\ new.seq = n
                   /\ mutations' = mutations \cup {new}
    BY <1>1, <1>2, <1>n, ChangesAfter
  <1>4. SUFFICES ASSUME NEW row \in mutations', row.mutation.kind = "tombstone"
                 PROVE  /\ row.disposition = "accepted"
                        /\ tombstones'[row.mutation.record] = row.seq
    BY DEF TombstonesInPlace
  <1>5. CASE row \in mutations
    <2>1. row.disposition = "accepted" /\ tombstones[row.mutation.record] = row.seq
      BY <1>1, <1>4, <1>5 DEF TombstonesInPlace
    <2>2. row.mutation.record \in Observations
      <3>1. row.mutation \in Mutations
        BY <1>1, <1>5 DEF TypeInv, TypeOK, Receipt
      <3> QED
        BY <1>4, <3>1, MutationType
    <2>3. Tombstoned(row.mutation.record)
      BY <1>1, <1>4, <1>5, <2>1 DEF Buried
    <2>4. PushAccept(d, m) => row.mutation.record # m.record
      BY <1>1, <2>2, <2>3, ErasedStays
    <2>5. tombstones'[row.mutation.record] = tombstones[row.mutation.record]
      <3>1. CASE PushAccept(d, m)
        BY <1>1, <2>2, <2>4, <3>1, CanonicalRow DEF PushAccept
      <3>2. CASE PushConflict(d, m)
        BY <3>2 DEF PushConflict
      <3> QED
        BY <3>1, <3>2
    <2> QED
      BY <2>1, <2>5
  <1>6. CASE row = new
    <2>1. m.kind = "tombstone" /\ m.record \in Observations
      BY <1>3, <1>4, <1>6, MutationType
    <2>2. disposition = "accepted" /\ PushAccept(d, m)
      BY <1>2, <2>1, ConflictKind DEF PushConflict
    <2>3. tombstones'[m.record] = Len(versions) + 1
      BY <1>1, <2>1, <2>2, CanonicalRow DEF PushAccept
    <2>4. Len(versions) + 1 = n
      <3>1. Len(versions) = nextSeq - 1 /\ nextSeq \in Nat \ {0}
        BY <1>1, <1>2, RecordAppends
      <3> QED
        BY <1>n, <3>1
    <2> QED
      BY <1>3, <1>6, <2>2, <2>3, <2>4
  <1> QED
    BY <1>3, <1>5, <1>6

----------------------------------------------------------------------------

\* What may be served: everything but a tombstone without an accepted predecessor.
ServedWhenFiled ==
  \A i \in DOMAIN changes : Encodable(i) <=> (IsTombstone(i) => ~Unfiled(i))

LEMMA EncodableIs == ServedInv => ServedWhenFiled
  <1> SUFFICES ASSUME ServedInv, NEW i \in DOMAIN changes
               PROVE  Encodable(i) <=> (IsTombstone(i) => ~Unfiled(i))
    BY DEF ServedWhenFiled
  <1>1. LogLinked /\ OneConflict /\ ConflictsAreChanges /\ ChangesAreConflicts
        /\ TombstonesInPlace
    BY DEF ServedInv, HistoryInv, TablesInv, RecoveryInv
  <1>2. IsTombstone(i) => tombstones[changes[i].record] = changes[i].row
    <2>1. PICK row \in mutations :
            /\ ReceiptOf(changes[i], row) /\ row.seq = i
            /\ row.mutation.record = changes[i].record
      BY <1>1, HasReceipt
    <2>2. ChangeReceipt(i) = row
      <3>1. \A x \in mutations : ReceiptOf(changes[i], x) => x = row
        BY <1>1, <2>1 DEF LogLinked, OneReceipt, ReceiptOf
      <3> QED
        BY <2>1, <3>1 DEF ChangeReceipt
    <2>3. changes[i].row = i
      BY <1>1 DEF LogLinked, RowsInStep
    <2> QED
      BY <1>1, <2>1, <2>2, <2>3 DEF IsTombstone, TombstonesInPlace
  <1>3. CASE changes[i].kind = "conflict"
    <2>1. PICK c : c \in Reported(i)
      BY <1>1, <1>3 DEF ChangesAreConflicts
    <2>2. Reported(i) = {c}
      BY <1>1, <2>1 DEF OneConflict, Reported
    <2>3. Cardinality(Reported(i)) = 1
      BY <2>2, FS_Singleton
    <2> QED
      BY <1>2, <1>3, <2>3 DEF Encodable
  <1>4. CASE changes[i].kind # "conflict"
    <2>1. Reported(i) = {}
      BY <1>1, <1>4 DEF ConflictsAreChanges, Reported
    <2> QED
      BY <1>2, <1>4, <2>1 DEF Encodable
  <1> QED
    BY <1>3, <1>4

LEMMA InitServed == Init => ServedInv
  BY InitHistory
  DEF Init, ServedInv, OneConflict, ConflictsAreChanges, ChangesAreConflicts, TombstonesInPlace

\* A step that pushes nothing leaves everything a reader reads.
LEMMA FrameServed ==
  ASSUME UNCHANGED <<canonical, history>>
  PROVE  /\ UNCHANGED <<changes, versions, mutations, conflicts, tombstones, nextSeq>>
         /\ \A i : /\ ChangeReceipt(i)' = ChangeReceipt(i)
                   /\ IsTombstone(i)' = IsTombstone(i)
                   /\ Previous(i)' = Previous(i)
                   /\ Reported(i)' = Reported(i)
                   /\ Membership(i)' = Membership(i)
  <1>1. UNCHANGED <<changes, versions, mutations, conflicts, tombstones, nextSeq>>
    BY DEF canonical, history
  <1>2. \A i : ChangeReceipt(i)' = ChangeReceipt(i)
    BY <1>1 DEF ChangeReceipt, ReceiptOf
  <1>3. \A i : Previous(i)' = Previous(i) /\ IsTombstone(i)' = IsTombstone(i)
               /\ Reported(i)' = Reported(i)
    BY <1>1, <1>2 DEF Previous, IsTombstone, Reported
  <1>4. \A i : Membership(i)' = Membership(i)
    BY <1>1, <1>3 DEF Membership
  <1> QED
    BY <1>1, <1>2, <1>3, <1>4

\* A step of the service pushes one mutation, or nothing.
LEMMA StepPushes ==
  ASSUME TypeInv, [Next]_vars
  PROVE  \/ UNCHANGED <<canonical, history>>
         \/ \E d \in Devices, m \in Mutations : PushAccept(d, m) \/ PushConflict(d, m)
  <1>1. ASSUME NEW d \in Devices,
               IssueDevice(d) \/ RevokeDevice(d) \/ AuthenticateDevice(d) \/ EndRequest(d)
        PROVE  UNCHANGED <<canonical, history>>
    BY <1>1 DEF IssueDevice, RevokeDevice, AuthenticateDevice, EndRequest
  <1>2. ASSUME NEW d \in Devices, Push(d)
        PROVE  \E m \in Mutations : PushAccept(d, m) \/ PushConflict(d, m)
    <2>1. PICK m \in PlainMutations \cup Resolutions({c.id : c \in conflicts}) :
            PushAccept(d, m) \/ PushConflict(d, m)
      BY <1>2 DEF Push
    <2>2. TypeOK
      BY DEF TypeInv
    <2>3. m \in Mutations
      BY <2>2, PushedMutation
    <2> QED
      BY <2>1, <2>3
  <1>3. CASE UNCHANGED vars
    BY <1>3 DEF vars
  <1> QED
    BY <1>1, <1>2, <1>3 DEF Next

LEMMA NextServed == ServedInv /\ [Next]_vars => ServedInv'
  <1> SUFFICES ASSUME ServedInv, [Next]_vars PROVE ServedInv'
    OBVIOUS
  <1>1. HistoryInv /\ TypeInv /\ HistoryInv'
    BY NextHistory DEF ServedInv, HistoryInv, TablesInv, RecoveryInv
  <1>2. ASSUME NEW d \in Devices, NEW m \in Mutations, PushAccept(d, m) \/ PushConflict(d, m)
        PROVE  ServedInv'
    BY <1>1, <1>2, AcceptReports, ConflictReports, PushTombstones DEF ServedInv
  <1>3. CASE UNCHANGED <<canonical, history>>
    <2>1. /\ UNCHANGED <<changes, versions, mutations, conflicts, tombstones>>
          /\ \A i : Reported(i)' = Reported(i)
      BY <1>3, FrameServed
    <2> QED
      BY <1>1, <2>1
      DEF ServedInv, OneConflict, ConflictsAreChanges, ChangesAreConflicts, TombstonesInPlace
  <1> QED
    BY <1>1, <1>2, <1>3, StepPushes

\* Once served, a change keeps its project and may be served again.
LEMMA StepSettled ==
  ASSUME ServedInv, ServedInv', ServedWhenFiled, ServedWhenFiled', [Next]_vars,
         NEW i \in DOMAIN changes
  PROVE  /\ i \in DOMAIN changes'
         /\ Membership(i)' = Membership(i)
         /\ Encodable(i) => Encodable(i)'
  <1>1. TypeInv /\ RecoveryInv /\ RecoveryInv' /\ HistoryInv'
    BY DEF ServedInv, HistoryInv, TablesInv, RecoveryInv
  <1>2. /\ i \in DOMAIN changes'
        /\ Membership(i)' = Membership(i) /\ (IsTombstone(i)' <=> IsTombstone(i))
    <2>1. ASSUME NEW d \in Devices, NEW m \in Mutations, PushAccept(d, m) \/ PushConflict(d, m)
          PROVE  /\ i \in DOMAIN changes'
                 /\ Membership(i)' = Membership(i) /\ (IsTombstone(i)' <=> IsTombstone(i))
      BY <1>1, <2>1, ReceiptKept, FiledOnce
    <2>2. CASE UNCHANGED <<canonical, history>>
      BY <2>2, FrameServed
    <2> QED
      BY <1>1, <2>1, <2>2, StepPushes
  <1>3. ASSUME Encodable(i) PROVE Encodable(i)'
    <2>1. IsTombstone(i) => ~Unfiled(i)
      BY <1>3 DEF ServedWhenFiled
    <2>2. IsTombstone(i)' => ~Unfiled(i)'
      BY <1>2, <2>1 DEF Unfiled
    <2>3. Encodable(i)' <=> (IsTombstone(i)' => ~Unfiled(i)')
      BY <1>2 DEF ServedWhenFiled
    <2> QED
      BY <2>2, <2>3
  <1> QED
    BY <1>2, <1>3

\* Readers only read: what the service keeps, it keeps whoever reads.
LEMMA ReadersOnlyRead == ReaderSpec => Spec
  <1>1. ReaderInit => Init
    BY DEF ReaderInit
  <1>2. [ReaderNext]_readerVars => [Next]_vars
    BY DEF ReaderNext, PullPage, readerVars
  <1> QED
    BY <1>1, <1>2, PTL DEF ReaderSpec, Spec

\* No push changes what was served: a change stays filed where it was, and what
\* could be encoded can be encoded again, whatever became of its record.
THEOREM ServedStaysSettled == ReaderSpec => ServedIsSettled
  <1>1. ServedInv /\ ServedInv' /\ ServedWhenFiled /\ ServedWhenFiled' /\ [Next]_vars
          => [\A i \in DOMAIN changes :
                Membership(i)' = Membership(i) /\ (Encodable(i) => Encodable(i)')]_vars
    BY StepSettled
  <1> QED
    BY <1>1, InitServed, NextServed, EncodableIs, ReadersOnlyRead, PTL
    DEF Spec, ServedIsSettled

----------------------------------------------------------------------------

\* A step of the service adds changes beyond those a reader was given.
LEMMA StepExact ==
  ASSUME ReaderInv, ServedInv', ServedWhenFiled, ServedWhenFiled', [Next]_vars, UNCHANGED reader
  PROVE  ReaderInv'
  <1>1. ServedInv /\ ReaderType /\ PagesAreExact /\ TypeInv /\ TypeInv'
    BY DEF ReaderInv, ServedInv, HistoryInv, TablesInv, RecoveryInv
  <1>2. nextSeq \in Nat /\ nextSeq > 0 /\ LogHead \in Nat /\ DOMAIN changes = 1..LogHead
    BY <1>1, ConstantsAssumption DEF TypeInv, TypeOK, Contiguous, LogHead
  <1>3. \A i \in DOMAIN changes : i \in DOMAIN changes' /\ Membership(i)' = Membership(i)
    BY <1>1, StepSettled
  <1>4. LogHead' = LogHead \/ LogHead' = LogHead + 1
    <2>1. ASSUME NEW d \in Devices, NEW m \in Mutations, PushAccept(d, m) \/ PushConflict(d, m)
          PROVE  nextSeq' = nextSeq + 1
      BY <2>1, PushRecords DEF Record
    <2>2. nextSeq' = nextSeq \/ nextSeq' = nextSeq + 1
      BY <1>1, <2>1, StepPushes DEF history
    <2> QED
      BY <1>2, <2>2 DEF LogHead
  <1>5. PagesAreExact'
    <2> SUFFICES ASSUME NEW d \in Devices
                 PROVE  (/\ reader[d].position <= LogHead
                         /\ reader[d].seen =
                              Visible(reader[d].project, 0, reader[d].position))'
      BY DEF PagesAreExact
    <2>1. reader'[d] = reader[d]
      OBVIOUS
    <2>2. /\ reader[d].position \in Nat /\ reader[d].position <= LogHead
          /\ reader[d].seen = Visible(reader[d].project, 0, reader[d].position)
      BY <1>1 DEF ReaderType, PagesAreExact
    <2>3. \A i \in 1..reader[d].position : Membership(i)' = Membership(i)
      BY <1>2, <1>3, <2>2 DEF LogHead
    <2>4. Visible(reader[d].project, 0, reader[d].position)' =
            Visible(reader[d].project, 0, reader[d].position)
      BY <2>1, <2>3 DEF Visible
    <2>5. reader'[d].position <= LogHead'
      BY <1>2, <1>4, <2>1, <2>2 DEF LogHead
    <2> QED
      BY <2>1, <2>2, <2>4, <2>5
  <1> QED
    BY <1>1, <1>5 DEF ReaderInv, ReaderType

\* What a reader has seen and a page together are what it sees up to the page's end.
LEMMA PullExact ==
  ASSUME ReaderInv, NEW d \in Devices, NEW limit \in 1..MaxLimit, NEW n \in 1..limit,
         PullPage(d, limit, n)
  PROVE  ReaderType' /\ PagesAreExact'
  <1> DEFINE r == reader[d]
             watermark == WatermarkOf(r)
             page == Page(r.project, r.position, watermark, n)
             visible == Visible(r.project, r.position, watermark)
             next == [project |-> r.project, position |-> page.position,
                      watermark |-> IF page.hasMore THEN page.watermark ELSE 0,
                      seen |-> r.seen \cup page.changes]
  <1>1. ServedInv /\ ReaderType /\ PagesAreExact /\ TypeInv
    BY DEF ReaderInv, ServedInv, HistoryInv, TablesInv, RecoveryInv
  <1>2. LogHead \in Nat
    BY <1>1, ConstantsAssumption DEF TypeInv, TypeOK, LogHead
  <1>3. /\ r.project \in Projects \cup {None} /\ r.position \in Nat /\ r.watermark \in Nat
        /\ r.seen \in SUBSET Nat
        /\ r.seen = Visible(r.project, 0, r.position)
    BY <1>1 DEF ReaderType, PagesAreExact
  <1>4. watermark \in Nat
    BY <1>2, <1>3 DEF WatermarkOf
  <1>5. /\ r.position <= watermark /\ watermark <= LogHead
        /\ reader' = [reader EXCEPT ![d] = next] /\ UNCHANGED vars
    BY DEF PullPage, Servable
  <1>6. n \in Nat /\ n > 0
    BY LimitAssumption
  <1>7. /\ page.position \in r.position..watermark /\ page.watermark = watermark
        /\ page.changes = {i \in visible : i <= page.position}
    <2>1. PICK position, first, end :
            /\ position = r.position /\ first = FirstOf(visible, n)
            /\ end = EndOf(r.project, position, watermark, first, visible # first)
      OBVIOUS
    <2>2. page.changes = first /\ page.watermark = watermark /\ page.position = end
      BY <2>1 DEF Page
    <2>3. position \in Nat /\ position <= watermark
      BY <1>3, <1>5, <2>1
    <2>4. visible \in SUBSET (1..watermark) /\ \A i \in visible : position < i
      BY <2>1, <2>3 DEF Visible
    <2> HIDE DEF r, watermark, page, visible
    <2>5. first \subseteq visible
      BY <2>1 DEF FirstOf
    <2>6. \/ end = watermark /\ first = visible
          \/ end = position /\ first = {} /\ visible = {}
          \/ end = Last(first) /\ first # {}
      <3>1. first = {} => visible = {}
        BY <1>4, <1>6, <2>1, <2>3, <2>4, EmptyPage
      <3> QED
        BY <2>1, <3>1 DEF EndOf
    <2>7. /\ end \in Nat /\ position <= end /\ end <= watermark
          /\ \A i : i \in first <=> i \in visible /\ i <= end
      <3>0. \A i \in visible : i \in Nat /\ position < i /\ i <= watermark
        BY <1>4, <2>3, <2>4
      <3>1. CASE end = watermark /\ first = visible
        BY <1>4, <2>3, <3>0, <3>1
      <3>2. CASE end = position /\ first = {} /\ visible = {}
        BY <1>4, <2>3, <3>2
      <3>3. CASE end = Last(first) /\ first # {}
        <4>1. n \in Nat /\ n > 0 /\ watermark \in Nat /\ FirstOf(visible, n) # {}
          BY <1>4, <1>6, <2>1, <3>3
        <4>2. visible \in SUBSET (1..watermark)
          BY <2>4
        <4>3. PICK last \in visible :
                /\ last = Last(FirstOf(visible, n))
                /\ \A i \in visible : i \in FirstOf(visible, n) <=> i <= last
          BY <4>1, <4>2, LastOfPage
        <4>4. end = last /\ \A i \in visible : i \in first <=> i <= last
          BY <2>1, <3>3, <4>3
        <4> QED
          BY <1>4, <2>3, <2>5, <3>0, <4>4
      <3> QED
        BY <2>6, <3>1, <3>2, <3>3
    <2> QED
      BY <1>4, <2>1, <2>2, <2>3, <2>7
  <1>8. page.changes \subseteq Nat
    BY <1>3, <1>4, <1>7 DEF Visible
  <1>9. /\ next.project = r.project /\ next.position = page.position
        /\ next.seen = r.seen \cup page.changes
        /\ next \in [project : Projects \cup {None}, position : Nat, watermark : Nat,
                     seen : SUBSET Nat]
    <2> HIDE DEF r, page
    <2>1. page.position \in Nat /\ page.watermark \in Nat /\ page.changes \in SUBSET Nat
      BY <1>3, <1>4, <1>7, <1>8
    <2> QED
      BY <1>3, <2>1
  <1>10. ReaderType'
    <2> HIDE DEF next
    <2> QED
      BY <1>1, <1>5, <1>9 DEF ReaderType
  <1>11. next.seen = Visible(r.project, 0, page.position)
    <2> HIDE DEF next, page, r
    <2>1. \A i \in Nat : i \in visible <=>
                           /\ r.position < i /\ i <= watermark
                           /\ r.project = None \/ r.project \in Membership(i)
      BY <1>3, <1>4 DEF Visible
    <2>2. \A i : i \in Visible(r.project, 0, page.position) <=>
                   /\ i \in Nat /\ 0 < i /\ i <= page.position
                   /\ r.project = None \/ r.project \in Membership(i)
      BY <1>3, <1>4, <1>7 DEF Visible
    <2>3. \A i : i \in r.seen <=>
                   /\ i \in Nat /\ 0 < i /\ i <= r.position
                   /\ r.project = None \/ r.project \in Membership(i)
      BY <1>3 DEF Visible
    <2>4. \A i : i \in page.changes <=>
                   /\ i \in Nat /\ r.position < i /\ i <= page.position
                   /\ r.project = None \/ r.project \in Membership(i)
      BY <1>3, <1>4, <1>7, <1>8, <2>1
    <2>5. \A i : i \in next.seen <=> i \in Visible(r.project, 0, page.position)
      BY <1>3, <1>4, <1>7, <1>9, <2>2, <2>3, <2>4
    <2> QED
      BY <2>5
  <1>12. PagesAreExact'
    <2> SUFFICES ASSUME NEW e \in Devices
                 PROVE  (/\ reader[e].position <= LogHead
                         /\ reader[e].seen =
                              Visible(reader[e].project, 0, reader[e].position))'
      BY DEF PagesAreExact
    <2>1. LogHead' = LogHead
      BY <1>5 DEF vars, history, LogHead
    <2>2. \A i : Membership(i)' = Membership(i)
      <3>1. UNCHANGED <<canonical, history>>
        BY <1>5 DEF vars
      <3> QED
        BY <3>1, FrameServed
    <2>3. CASE e = d
      <3> HIDE DEF next, page, r
      <3>1. reader'[e] = next
        BY <1>1, <1>5, <2>3 DEF ReaderType
      <3>2. page.position <= LogHead
        BY <1>2, <1>3, <1>4, <1>5, <1>7
      <3>3. reader'[e].seen = Visible(reader[e].project, 0, reader[e].position)'
        BY <1>9, <1>11, <2>2, <3>1 DEF Visible
      <3> QED
        BY <1>9, <2>1, <3>1, <3>2, <3>3
    <2>4. CASE e # d
      <3> HIDE DEF next, page, r
      <3>1. reader'[e] = reader[e]
        BY <1>1, <1>5, <2>4 DEF ReaderType
      <3>2. /\ reader[e].position <= LogHead
            /\ reader[e].seen = Visible(reader[e].project, 0, reader[e].position)
        BY <1>1 DEF PagesAreExact
      <3>3. reader'[e].seen = Visible(reader[e].project, 0, reader[e].position)'
        BY <2>2, <3>1, <3>2 DEF Visible
      <3> QED
        BY <2>1, <3>1, <3>2, <3>3
    <2> QED
      BY <2>3, <2>4
  <1> QED
    BY <1>10, <1>12

LEMMA InitReader == ReaderInit => ReaderInv
  <1> SUFFICES ASSUME ReaderInit PROVE ReaderInv
    OBVIOUS
  <1>1. ServedInv
    BY InitServed DEF ReaderInit
  <1>2. /\ nextSeq = 1
        /\ reader \in [Devices -> [project : Projects \cup {None}, position : {0},
                                   watermark : {0}, seen : {{}}]]
    BY DEF ReaderInit, Init
  <1>3. ReaderType
    BY <1>2 DEF ReaderType
  <1>4. \A d \in Devices : reader[d].position = 0 /\ reader[d].seen = {}
    BY <1>2
  <1>5. \A project : Visible(project, 0, 0) = {}
    BY DEF Visible
  <1>6. PagesAreExact
    BY <1>2, <1>4, <1>5 DEF PagesAreExact, LogHead
  <1> QED
    BY <1>1, <1>3, <1>6 DEF ReaderInv

LEMMA NextReader ==
  ReaderInv /\ ServedWhenFiled /\ ServedWhenFiled' /\ [ReaderNext]_readerVars => ReaderInv'
  <1> SUFFICES ASSUME ReaderInv, ServedWhenFiled, ServedWhenFiled', [ReaderNext]_readerVars
               PROVE  ReaderInv'
    OBVIOUS
  <1>1. [Next]_vars
    BY DEF ReaderNext, PullPage, readerVars
  <1>2. ServedInv'
    BY <1>1, NextServed DEF ReaderInv
  <1>3. CASE UNCHANGED reader
    BY <1>1, <1>2, <1>3, StepExact
  <1>4. CASE \E d \in Devices, limit \in 1..MaxLimit : \E n \in 1..limit : PullPage(d, limit, n)
    BY <1>2, <1>4, PullExact DEF ReaderInv
  <1> QED
    BY <1>3, <1>4 DEF ReaderNext, readerVars

\* The pages of a reader add up to exactly what its scope holds up to its cursor,
\* whatever the limits, the page boundaries, and the pushes between the pages.
THEOREM PagesStayExact == ReaderSpec => []PagesAreExact
  <1>1. ReaderInv => ServedInv /\ PagesAreExact
    BY DEF ReaderInv
  <1> QED
    BY <1>1, InitReader, NextReader, EncodableIs, InitServed, NextServed, ReadersOnlyRead, PTL
    DEF ReaderSpec, Spec

\* Every page is taken by the client, and by the store save the last page of a
\* project that ends beyond its changes.
LEMMA PageIsTaken ==
  ASSUME NEW project, NEW position \in Nat, NEW watermark \in Nat, position <= watermark,
         NEW n \in Nat, n > 0, NEW page, page = Page(project, position, watermark, n)
  PROVE  /\ ClientTakes(project, position, page)
         /\ project # None => StoreTakes(page) \/ EndsBeyondItsChanges(page)
  <1>1. PICK visible, first :
          visible = Visible(project, position, watermark) /\ first = FirstOf(visible, n)
    OBVIOUS
  <1>2. /\ page.changes = first /\ page.hasMore = (visible # first)
        /\ page.watermark = watermark
        /\ page.position = EndOf(project, position, watermark, first, visible # first)
    BY <1>1 DEF Page
  <1>3. /\ visible \in SUBSET (1..watermark) /\ \A i \in visible : position < i
        /\ project = None => visible = (position + 1)..watermark
    BY <1>1 DEF Visible
  <1>4. first \subseteq visible
    BY <1>1 DEF FirstOf
  <1>5. CASE first = {}
    <2>1. visible = {}
      BY <1>1, <1>3, <1>5, EmptyPage
    <2>2. /\ page.changes = {} /\ page.hasMore = FALSE
          /\ page.position = IF project # None THEN watermark ELSE position
      BY <1>2, <1>5, <2>1 DEF EndOf
    <2>3. ClientTakes(project, position, page)
      BY <1>2, <2>2 DEF ClientTakes
    <2>4. project # None => StoreTakes(page)
      BY <1>2, <2>2 DEF StoreTakes
    <2> QED
      BY <2>3, <2>4
  <1>6. CASE first # {}
    <2>1. PICK last \in visible :
            last = Last(first) /\ \A i \in visible : i \in first <=> i <= last
      <3>1. FirstOf(visible, n) # {} /\ visible \in SUBSET (1..watermark)
        BY <1>1, <1>3, <1>6
      <3>2. PICK last \in visible :
              /\ last = Last(FirstOf(visible, n))
              /\ \A i \in visible : i \in FirstOf(visible, n) <=> i <= last
        BY <3>1, LastOfPage
      <3> QED
        BY <1>1, <3>2
    <2>2. last \in Nat /\ position < last /\ last <= watermark /\ last \in first
      BY <1>3, <2>1
    <2>3. project = None => first = (position + 1)..last
      <3> SUFFICES ASSUME project = None PROVE first = (position + 1)..last
        OBVIOUS
      <3>1. visible = (position + 1)..watermark
        BY <1>3
      <3>2. \A i \in first : i \in (position + 1)..last
        BY <1>4, <2>1, <2>2, <3>1
      <3>3. \A i \in (position + 1)..last : i \in first
        <4>1. \A i \in (position + 1)..last : i \in visible /\ i <= last
          BY <2>2, <3>1
        <4> QED
          BY <2>1, <4>1
      <3> QED
        BY <3>2, <3>3
    <2>4. CASE visible = first
      <3>1. /\ page.changes = first /\ page.hasMore = FALSE
            /\ page.position = IF project # None THEN watermark ELSE last
        BY <1>2, <1>6, <2>1, <2>4 DEF EndOf
      <3>2. ClientTakes(project, position, page)
        BY <1>2, <1>6, <2>1, <2>2, <2>3, <3>1 DEF ClientTakes
      <3>3. CASE last = watermark
        <4>1. project # None => StoreTakes(page)
          BY <1>2, <1>6, <2>1, <2>2, <3>1, <3>3 DEF StoreTakes
        <4> QED
          BY <3>2, <4>1
      <3>4. CASE last # watermark
        <4>1. last < watermark
          BY <2>2, <3>4
        <4>2. EndsBeyondItsChanges(page)
          BY <1>2, <1>6, <2>1, <3>1, <4>1 DEF EndsBeyondItsChanges
        <4> QED
          BY <3>2, <4>2
      <3> QED
        BY <3>3, <3>4
    <2>5. CASE visible # first
      <3>1. page.changes = first /\ page.hasMore = TRUE /\ page.position = last
        BY <1>2, <1>6, <2>1, <2>5 DEF EndOf
      <3>2. last < watermark
        <4>1. PICK i \in visible : i \notin first
          BY <1>4, <2>5
        <4>2. i \in Nat /\ i <= watermark /\ ~(i <= last)
          BY <1>3, <2>1, <4>1
        <4> QED
          BY <2>2, <4>2
      <3>3. ClientTakes(project, position, page)
        BY <1>2, <1>6, <2>1, <2>2, <2>3, <3>1 DEF ClientTakes
      <3>4. StoreTakes(page)
        BY <1>2, <1>6, <2>1, <3>1, <3>2 DEF StoreTakes
      <3> QED
        BY <3>3, <3>4
    <2> QED
      BY <2>4, <2>5
  <1> QED
    BY <1>5, <1>6

LEMMA NotStuck == ReaderInv => ReadersAreNotStuck
  <1> SUFFICES ASSUME ReaderInv, NEW d \in Devices, NEW limit \in 1..MaxLimit,
                      Servable(reader[d].project, reader[d].position,
                               WatermarkOf(reader[d]), limit),
                      NEW page, page = Page(reader[d].project, reader[d].position,
                                            WatermarkOf(reader[d]), limit)
               PROVE  /\ ClientTakes(reader[d].project, reader[d].position, page)
                      /\ reader[d].project # None =>
                           StoreTakes(page) \/ EndsBeyondItsChanges(page)
    BY DEF ReadersAreNotStuck
  <1>1. reader[d].position \in Nat /\ reader[d].watermark \in Nat
    BY DEF ReaderInv, ReaderType
  <1>2. LogHead \in Nat
    BY ConstantsAssumption
    DEF ReaderInv, ServedInv, HistoryInv, TablesInv, RecoveryInv, TypeInv, TypeOK, LogHead
  <1>3. PICK project, position, watermark :
          /\ project = reader[d].project /\ position = reader[d].position
          /\ watermark = WatermarkOf(reader[d])
    OBVIOUS
  <1>4. /\ position \in Nat /\ watermark \in Nat /\ position <= watermark
        /\ limit \in Nat /\ limit > 0
    BY <1>1, <1>2, <1>3, LimitAssumption DEF WatermarkOf, Servable
  <1>5. page = Page(project, position, watermark, limit)
    BY <1>3
  <1>6. /\ ClientTakes(project, position, page)
        /\ project # None => StoreTakes(page) \/ EndsBeyondItsChanges(page)
    BY <1>4, <1>5, PageIsTaken
  <1> QED
    BY <1>3, <1>6

\* A reader of a live device can always go on: whatever page the service serves
\* it at its cursor, of any limit, the client takes it, and so does its store but
\* for the last page of a project that other projects' changes follow.
THEOREM ReadersGoOn == ReaderSpec => []ReadersAreNotStuck
  <1>1. ReaderInv => ServedInv
    BY DEF ReaderInv
  <1> QED
    BY <1>1, InitReader, NextReader, NotStuck, EncodableIs, InitServed, NextServed,
       ReadersOnlyRead, PTL
    DEF ReaderSpec, Spec
=============================================================================
