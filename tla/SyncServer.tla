---------------------------- MODULE SyncServer -----------------------------
(***************************************************************************)
(* The PostgreSQL repository of the synchronization service                *)
(* (internal/syncpg): an owner's devices, canonical records, mutation      *)
(* receipts, version snapshots, conflicts, tombstones and change log.      *)
(*                                                                         *)
(* Every push runs one transaction that locks the owner's row first, so    *)
(* a push is one step; the requests that carry the pushes, and the         *)
(* revocation of a device, interleave with them.                           *)
(*                                                                         *)
(* Data: a topic stands for a (scope, topic_key) pair, a request hash for  *)
(* the mutation it digests, a conflict id (a random UUID) for the sequence *)
(* that created it.  Title, content, provenance and timestamps are left    *)
(* out: no decision of the repository reads them.                          *)
(***************************************************************************)
EXTENDS Integers, Sequences, FiniteSets

CONSTANTS
  Devices,       \* device ids an operator may issue
  MutationIds,   \* mutation ids a device may use
  Projects,      \* project record ids
  Sessions,      \* session record ids
  Observations,  \* observation record ids
  Topics,        \* (scope, topic_key) pairs
  None,          \* no session, no topic, no project
  MaxVersion,    \* the largest record version (math.MaxInt64 in the code)
  MaxReferences, \* the references an observation may carry (128 in the code)
  MaxSeq         \* bound: the history holds at most MaxSeq changes

Records == Projects \cup Sessions \cup Observations

ASSUME ConstantsAssumption ==
  /\ MaxVersion \in Nat /\ MaxVersion > 1
  /\ MaxSeq \in Nat /\ MaxReferences \in Nat
  /\ Projects \cap Sessions = {}
  /\ Projects \cap Observations = {}
  /\ Sessions \cap Observations = {}
  /\ None \notin Records \cup Topics

VARIABLES
  device,        \* devices: "absent", "active" or "revoked"
  request,       \* whether an authenticated push request of the device is open
  nextSeq,       \* owner_sync_state.next_seq
  projects,      \* projects.version, 0 when there is no row
  sessions,      \* sessions.project_id and version
  observations,  \* observations, with their outgoing observation_references
  mutations,     \* mutations: the receipts
  versions,      \* record_versions: the row id is the index
  changes,       \* changes: the sequence number is the index
  conflicts,     \* observation_conflicts
  tombstones     \* tombstones.version_id of an observation, 0 when no row

canonical == <<projects, sessions, observations, tombstones>>
history == <<nextSeq, mutations, versions, changes, conflicts>>
vars == <<device, request, canonical, history>>

(***************************************************************************)
(* Mutations.                                                              *)
(***************************************************************************)

Payload == [project : Projects \cup {None}, session : Sessions \cup {None},
            topic : Topics \cup {None}, refs : SUBSET Observations]

\* What a project or a tombstone carries: no membership at all.
NoPayload == [project |-> None, session |-> None, topic |-> None, refs |-> {}]

Mutation(kinds, records, payloads, resolved) ==
  [id : MutationIds, kind : kinds, record : records, base : 0..MaxVersion,
   payload : payloads, resolves : resolved]

\* validBaseVersion: a create has base 0 and nothing else has.
ValidBase(m) == (m.kind = "create") <=> (m.base = 0)

SessionPayloads == {[NoPayload EXCEPT !.project = p] : p \in Projects}
ObservationPayloads ==
  {p \in Payload : p.project # None /\ Cardinality(p.refs) <= MaxReferences}

\* ValidateMutation and acceptedMutation: the mutations push gets to decide.
PlainMutations ==
  {m \in Mutation({"create", "update"}, Projects, {NoPayload}, {{}})
         \cup Mutation({"create", "update"}, Sessions, SessionPayloads, {{}})
         \cup Mutation({"create", "update", "archive"}, Observations,
                       ObservationPayloads, {{}})
         \cup Mutation({"tombstone"}, Observations, {NoPayload}, {{}})
     : ValidBase(m)}
Resolutions(ids) ==
  {m \in Mutation({"resolve"}, Observations, ObservationPayloads, (SUBSET ids) \ {{}})
     : ValidBase(m)}

Mutations == PlainMutations \cup Resolutions(1..MaxSeq)

(***************************************************************************)
(* What the decision reads.                                                *)
(***************************************************************************)

Version(r) ==
  IF r \in Projects THEN projects[r]
  ELSE IF r \in Sessions THEN sessions[r].version
  ELSE observations[r].version

Exists(r) == Version(r) # 0

\* Mutant: only accepted mutations are looked up.
AcceptedReceipts(d, id) ==
  {row \in mutations : /\ row.device = d /\ row.mutation.id = id
                       /\ row.disposition = "accepted"}

Receipts(d, id) == {row \in mutations : row.device = d /\ row.mutation.id = id}

Tombstoned(o) == observations[o].lifecycle = "tombstoned"
Active(o) == observations[o].lifecycle = "active"

ConflictsOf(o) == {c \in conflicts : c.observation = o}
Unresolved(o) == {c.id : c \in {x \in ConflictsOf(o) : x.status = "unresolved"}}

\* Mutant: the revocation is checked when the request is authenticated only.
NeverRevoked(d) == FALSE

Revoked(d) == device[d] = "revoked"

Exhausted(m) == m.base = MaxVersion

\* Mutant: an archive revives a tombstone.
RevivesByUpdate(m) ==
  m.record \in Observations /\ m.kind = "update" /\ Tombstoned(m.record)

\* A mutation of a tombstone's own version.
Revives(m) ==
  /\ m.record \in Observations
  /\ m.kind # "tombstone"
  /\ Exists(m.record)
  /\ Version(m.record) = m.base
  /\ Tombstoned(m.record)

InvalidBase(m) ==
  \/ m.kind = "create" /\ Exists(m.record)
  \/ m.kind # "create" /\ (~Exists(m.record) \/ Exhausted(m))
  \/ Revives(m)

\* resolveIDsExist
UnknownConflict(m) == ~(m.resolves \subseteq {c.id : c \in ConflictsOf(m.record)})

\* Rows other than the mutation's record that would be left in another project.
IncomingReferences(m) ==
  {o \in Observations : /\ m.record \in observations[o].payload.refs
                        /\ observations[o].payload.project # m.payload.project}

SessionDependents(m) ==
  {o \in Observations : /\ observations[o].payload.session = m.record
                        /\ observations[o].payload.project # m.payload.project}

\* validatePrerequisites of a mutation that names a project.
MissingPrerequisite(m) ==
  LET p == m.payload IN
    /\ p.project # None
    /\ \/ ~Exists(p.project)
       \/ p.session # None /\ ~(Exists(p.session) /\ sessions[p.session].project = p.project)
       \/ /\ m.record \in Observations
          /\ m.kind = "update"
          /\ IncomingReferences(m) # {}
       \/ \E o \in p.refs : \/ o = m.record
                            \/ ~Exists(o)
                            \/ observations[o].payload.project # p.project
       \/ m.record \in Sessions /\ m.kind = "update" /\ SessionDependents(m) # {}

\* lockTopic: another active observation of the project holds the topic.
TopicHolders(m) ==
  {o \in Observations \ {m.record} :
     /\ Active(o)
     /\ observations[o].payload.project = m.payload.project
     /\ observations[o].payload.topic = m.payload.topic}

TopicCollision(m) ==
  m.record \in Observations /\ m.payload.topic # None /\ TopicHolders(m) # {}

InvalidPrerequisite(m) ==
  \/ m.kind = "resolve" /\ UnknownConflict(m)
  \/ MissingPrerequisite(m)
  \/ TopicCollision(m) /\ m.kind \notin {"create", "update"}

Competes(m) ==
  /\ m.record \in Observations
  /\ \/ m.kind = "update" /\ Version(m.record) # m.base
     \/ TopicCollision(m)

Unresolvable(m) ==
  /\ m.kind = "resolve"
  /\ ~(Active(m.record) /\ m.resolves \subseteq Unresolved(m.record))

\* The two keys an insert can fail on: a tombstone of a tombstone, and a version
\* with the mutation id of another device's version (record_versions is unique
\* by record, version and mutation id, without the device).
KeyTaken(m) ==
  \/ \E i \in DOMAIN versions : /\ versions[i].record = m.record
                                /\ versions[i].version = m.base + 1
                                /\ versions[i].id = m.id
  \/ m.kind = "tombstone" /\ tombstones[m.record] # 0

\* The order of pushOne's checks.  On "error" the transaction rolls back and
\* Push returns an error.
Verdict(d, m) ==
  IF device[d] = "absent" THEN "invalid_device"
  ELSE IF Revoked(d) THEN "revoked"
  ELSE IF Receipts(d, m.id) # {}
    THEN IF \E row \in Receipts(d, m.id) : row.mutation = m
           THEN "replay" ELSE "mutation_id_hash_mismatch"
  ELSE IF InvalidBase(m) THEN "invalid_base"
  ELSE IF InvalidPrerequisite(m) THEN "invalid_prerequisite"
  ELSE IF Competes(m) THEN IF KeyTaken(m) THEN "error" ELSE "conflict"
  ELSE IF m.kind # "create" /\ Version(m.record) # m.base THEN "stale_base"
  ELSE IF Unresolvable(m) THEN "invalid_prerequisite"
  ELSE IF KeyTaken(m) THEN "error"
  ELSE "accepted"

(***************************************************************************)
(* The writes of a decided mutation.  Each appends one receipt, one        *)
(* version and one change under the sequence number it takes.              *)
(***************************************************************************)

Record(d, m, disposition, version) ==
  LET row == Len(versions) + 1 IN
    /\ nextSeq <= MaxSeq
    /\ mutations' = mutations \cup
         {[device |-> d, mutation |-> m, disposition |-> disposition,
           seq |-> nextSeq, version |-> version]}
    /\ versions' = Append(versions,
         [record |-> m.record, version |-> m.base + 1, device |-> d, id |-> m.id,
          base |-> m.base, disposition |-> disposition, snapshot |-> m.payload])
    /\ changes' = Append(changes,
         [device |-> d, id |-> m.id, kind |-> disposition, record |-> m.record,
          version |-> version, row |-> row])
    /\ nextSeq' = nextSeq + 1

\* writeCanonical: an update or a resolution makes the observation active and
\* clear, whatever it was.
Rewritten(m) ==
  [payload |-> m.payload,
   lifecycle |-> IF m.kind = "archive" THEN "archived" ELSE "active",
   review |-> "clear", version |-> m.base + 1]

\* writeTombstone: project and session stay, topic and references go.
Erased(m) ==
  [payload |-> [observations[m.record].payload EXCEPT !.topic = None, !.refs = {}],
   lifecycle |-> "tombstoned", review |-> "clear", version |-> m.base + 1]

WriteCanonical(m) ==
  \/ /\ m.record \in Projects
     /\ projects' = [projects EXCEPT ![m.record] = m.base + 1]
     /\ UNCHANGED <<sessions, observations, tombstones>>
  \/ /\ m.record \in Sessions
     /\ sessions' = [sessions EXCEPT ![m.record] =
                       [project |-> m.payload.project, version |-> m.base + 1]]
     /\ UNCHANGED <<projects, observations, tombstones>>
  \/ /\ m.record \in Observations /\ m.kind # "tombstone"
     /\ observations' = [observations EXCEPT ![m.record] = Rewritten(m)]
     /\ UNCHANGED <<projects, sessions, tombstones>>
  \/ /\ m.record \in Observations /\ m.kind = "tombstone"
     /\ observations' = [observations EXCEPT ![m.record] = Erased(m)]
     /\ tombstones' = [tombstones EXCEPT ![m.record] = Len(versions) + 1]
     /\ UNCHANGED <<projects, sessions>>

Resolved(c) == [c EXCEPT !.status = "resolved", !.resolvedSeq = nextSeq]

\* Mutant: a resolution settles every conflict of its record.
NamedByRecord(m) == {c \in conflicts : c.observation = m.record /\ m.kind = "resolve"}

Named(m) ==
  {c \in conflicts : /\ c.observation = m.record
                     /\ c.status = "unresolved"
                     /\ c.id \in m.resolves}

\* Mutant: the conflicts are deleted.
SettleByDelete(m) == conflicts' = conflicts \ Named(m)

Settle(m) ==
  conflicts' = (conflicts \ Named(m)) \cup {Resolved(c) : c \in Named(m)}

\* pushOne, the mutation accepted.
PushAccept(d, m) ==
  /\ Verdict(d, m) = "accepted"
  /\ Record(d, m, "accepted", m.base + 1)
  /\ WriteCanonical(m)
  /\ Settle(m)
  /\ UNCHANGED <<device, request>>

\* Mutant: the competing version overwrites the row.
LastWriterWins(m) ==
  [payload |-> m.payload, lifecycle |-> "active", review |-> "needs_review",
   version |-> m.base + 1]

\* The observation after writeConflict: a record that did not exist is
\* reserved, archived and under review; a live one goes under review.
Contested(m) ==
  LET row == observations[m.record] IN
    IF ~Exists(m.record)
      THEN [payload |-> m.payload, lifecycle |-> "archived",
            review |-> "needs_review", version |-> m.base + 1]
    ELSE IF Tombstoned(m.record) THEN row
    ELSE [row EXCEPT !.review = "needs_review"]

\* writeConflict: the competing version is kept, the canonical one stays.
PushConflict(d, m) ==
  LET version == IF Exists(m.record) THEN Version(m.record) ELSE m.base + 1 IN
    /\ Verdict(d, m) = "conflict"
    /\ Record(d, m, "conflict", version)
    /\ observations' = [observations EXCEPT ![m.record] = Contested(m)]
    /\ conflicts' = conflicts \cup
         {[id |-> nextSeq, observation |-> m.record, version |-> version,
           row |-> Len(versions) + 1, status |-> "unresolved", resolvedSeq |-> 0]}
    /\ UNCHANGED <<device, request, projects, sessions, tombstones>>

(***************************************************************************)
(* Devices and the requests that carry their pushes.  A request is let in  *)
(* by AuthenticateDevice, in a transaction of its own; its mutations are   *)
(* then pushed one transaction each, so the device may be revoked between. *)
(* A refusal, a replay or an error of a push changes no table.             *)
(***************************************************************************)

IssueDevice(d) ==
  /\ device[d] = "absent"
  /\ device' = [device EXCEPT ![d] = "active"]
  /\ UNCHANGED <<request, canonical, history>>

RevokeDevice(d) ==
  /\ device[d] = "active"
  /\ device' = [device EXCEPT ![d] = "revoked"]
  /\ UNCHANGED <<request, canonical, history>>

AuthenticateDevice(d) ==
  /\ ~request[d]
  /\ device[d] = "active"
  /\ request' = [request EXCEPT ![d] = TRUE]
  /\ UNCHANGED <<device, canonical, history>>

\* The batch is done, an error aborted it, or the client went away.
EndRequest(d) ==
  /\ request[d]
  /\ request' = [request EXCEPT ![d] = FALSE]
  /\ UNCHANGED <<device, canonical, history>>

\* Resolutions that name an unknown conflict are refused, so only those that
\* name reported ones are tried.
Push(d) ==
  /\ request[d]
  /\ \/ \E m \in PlainMutations : PushAccept(d, m) \/ PushConflict(d, m)
     \/ \E m \in Resolutions({c.id : c \in conflicts}) : PushAccept(d, m)

\* EnsureOwner has created the owner and an empty history.
Init ==
  /\ device = [d \in Devices |-> "absent"]
  /\ request = [d \in Devices |-> FALSE]
  /\ projects = [p \in Projects |-> 0]
  /\ sessions = [s \in Sessions |-> [project |-> None, version |-> 0]]
  /\ observations = [o \in Observations |->
       [payload |-> NoPayload, lifecycle |-> "absent", review |-> "clear", version |-> 0]]
  /\ tombstones = [o \in Observations |-> 0]
  /\ nextSeq = 1
  /\ mutations = {}
  /\ versions = << >>
  /\ changes = << >>
  /\ conflicts = {}

Next ==
  \E d \in Devices : \/ IssueDevice(d)
                     \/ RevokeDevice(d)
                     \/ AuthenticateDevice(d)
                     \/ EndRequest(d)
                     \/ Push(d)

Spec == Init /\ [][Next]_vars

(***************************************************************************)
(* Properties.                                                             *)
(***************************************************************************)

ObservationRow ==
  [payload : Payload, lifecycle : {"absent", "active", "archived", "tombstoned"},
   review : {"clear", "needs_review"}, version : 0..MaxVersion]
Receipt == [device : Devices, mutation : Mutations,
            disposition : {"accepted", "conflict"}, seq : 1..MaxSeq, version : 1..MaxVersion]
VersionRow == [record : Records, version : 1..MaxVersion, device : Devices,
               id : MutationIds, base : 0..MaxVersion,
               disposition : {"accepted", "conflict"}, snapshot : Payload]
ChangeRow == [device : Devices, id : MutationIds, kind : {"accepted", "conflict"},
              record : Records, version : 1..MaxVersion, row : 1..MaxSeq]
ConflictRow == [id : 1..MaxSeq, observation : Observations, version : 1..MaxVersion,
                row : 1..MaxSeq, status : {"unresolved", "resolved"}, resolvedSeq : 0..MaxSeq]

\* The columns keep their types; in particular no version leaves the range of
\* an int64, whatever base version a mutation carries.
TypeOK ==
  /\ device \in [Devices -> {"absent", "active", "revoked"}]
  /\ request \in [Devices -> BOOLEAN]
  /\ nextSeq \in 1..(MaxSeq + 1)
  /\ projects \in [Projects -> 0..MaxVersion]
  /\ sessions \in [Sessions -> [project : Projects \cup {None}, version : 0..MaxVersion]]
  /\ observations \in [Observations -> ObservationRow]
  /\ mutations \subseteq Receipt
  /\ versions \in Seq(VersionRow)
  /\ changes \in Seq(ChangeRow)
  /\ conflicts \subseteq ConflictRow
  /\ tombstones \in [Observations -> 0..MaxSeq]

\* The receipt of a change.
ReceiptOf(c, row) == row.device = c.device /\ row.mutation.id = c.id

\* The log is 1..nextSeq-1, without a gap.
Contiguous == nextSeq = Len(changes) + 1 /\ Len(versions) = Len(changes)

\* Every change has one receipt and one version, which say the same.
ChangesLinked ==
  \A i \in DOMAIN changes :
    LET c == changes[i]
        v == versions[c.row]
    IN /\ c.row \in DOMAIN versions
       /\ v.record = c.record /\ v.device = c.device /\ v.id = c.id /\ v.disposition = c.kind
       /\ c.kind = "accepted" => v.version = c.version
       /\ \E row \in mutations :
            /\ ReceiptOf(c, row) /\ row.seq = i /\ row.mutation.record = c.record
            /\ row.disposition = c.kind /\ row.version = c.version
            /\ v.base = row.mutation.base /\ v.version = row.mutation.base + 1

ReceiptsLinked ==
  \A row \in mutations :
    /\ row.seq \in DOMAIN changes
    /\ ReceiptOf(changes[row.seq], row)
    /\ changes[row.seq].kind = row.disposition
    /\ changes[row.seq].version = row.version

TombstonesLinked ==
  \A o \in Observations :
    /\ Tombstoned(o) <=> tombstones[o] # 0
    /\ Tombstoned(o) =>
         \E row \in mutations :
           /\ row.mutation.kind = "tombstone" /\ row.mutation.record = o
           /\ row.disposition = "accepted"
           /\ changes[row.seq].row = tombstones[o]
           /\ versions[tombstones[o]].version = observations[o].version

\* resolveArraysValid: an accepted resolution settled exactly what it names.
ResolutionsLinked ==
  \A row \in mutations :
    row.mutation.kind = "resolve" =>
      {c.id : c \in {x \in ConflictsOf(row.mutation.record) : x.resolvedSeq = row.seq}}
        = row.mutation.resolves

\* VerifyRecovery accepts the database after every transaction: a restored
\* backup is refused when a column has left its range or the tables disagree.
RecoveryVerifies ==
  /\ TypeOK
  /\ Contiguous
  /\ ChangesLinked
  /\ ReceiptsLinked
  /\ TombstonesLinked
  /\ ResolutionsLinked

\* At most one active observation of a project holds a topic, although
\* archived and contested ones keep theirs and may be made active again: the
\* unique index observations_topic_identity never fails a push.
TopicHeldOnce ==
  \A o1, o2 \in Observations :
    /\ o1 # o2 /\ Active(o1) /\ Active(o2)
    /\ observations[o1].payload.project = observations[o2].payload.project
    => observations[o1].payload.topic = None
       \/ observations[o1].payload.topic # observations[o2].payload.topic

\* The foreign keys hold although sessions and observations move between
\* projects: an observation's session is a session of its own project.
DependentsStayInProject ==
  /\ \A s \in Sessions : Exists(s) => Exists(sessions[s].project)
  /\ \A o \in Observations :
       LET p == observations[o].payload IN
         Exists(o) => /\ Exists(p.project)
                      /\ p.session # None => sessions[p.session].project = p.project

AcceptedRows(r) ==
  {i \in DOMAIN versions : versions[i].record = r /\ versions[i].disposition = "accepted"}

\* A device that replays the log rebuilds the rows the service answers from:
\* the row of a record is its last accepted snapshot, or, when every version
\* competes, the archived reservation made by the first.
RowIsLastAccepted ==
  /\ \A r \in Records : \A i \in AcceptedRows(r) :
       (\A j \in AcceptedRows(r) : j <= i) =>
         /\ Version(r) = versions[i].version
         /\ r \in Sessions => sessions[r].project = versions[i].snapshot.project
         /\ r \in Observations /\ ~Tombstoned(r) =>
              observations[r].payload = versions[i].snapshot
  /\ \A o \in Observations :
       Exists(o) /\ AcceptedRows(o) = {} =>
         /\ observations[o].lifecycle = "archived" /\ observations[o].review = "needs_review"
         /\ Version(o) = 1

\* What the rows of the service say of one another and of the log: topics are
\* not shared, sessions stay with their observations, and the canonical row is
\* the one last accepted, whatever competes with it.
TablesAgree ==
  /\ TopicHeldOnce
  /\ RowIsLastAccepted
  /\ DependentsStayInProject

\* Whether a push by the device is what changed the log.
PushedBy(d) == changes' # changes /\ changes'[Len(changes')].device = d

\* A revoked device writes nothing more, not even from a batch that was
\* authenticated before the revocation.
RevokedIsSilent == [][\A d \in Devices : device[d] = "revoked" => ~PushedBy(d)]_vars

\* A deleted observation stays deleted and erased: no update, archive,
\* resolution or second tombstone, however stale its base, touches its row.
DeletionIsFinal ==
  [][\A o \in Observations :
       Tombstoned(o) => /\ observations'[o] = observations[o]
                        /\ tombstones'[o] = tombstones[o]]_vars

\* A conflict is settled once, by an accepted resolution pushed after it was
\* reported, and stays settled by that one.
SettledOnce ==
  [][\A c \in conflicts :
       \/ c \in conflicts'
       \/ /\ c.status = "unresolved" /\ c.id < nextSeq
          /\ Resolved(c) \in conflicts'
          /\ nextSeq' = nextSeq + 1]_vars

(***************************************************************************)
(* The repository implements SyncHistory: the log is the change table read *)
(* with the receipt each change points to.                                 *)
(***************************************************************************)

EntryOf(i) ==
  LET row == CHOOSE x \in mutations : ReceiptOf(changes[i], x) IN
    [device |-> changes[i].device, id |-> changes[i].id, record |-> changes[i].record,
     kind |-> row.mutation.kind, base |-> row.mutation.base,
     disposition |-> changes[i].kind, version |-> changes[i].version]

Abstract == INSTANCE SyncHistory WITH
  log <- [i \in DOMAIN changes |-> EntryOf(i)]

ImplementsHistory == Abstract!Spec
=============================================================================
