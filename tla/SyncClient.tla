----------------------------- MODULE SyncClient -----------------------------
(***************************************************************************)
(* One device: its observations, its outbox (internal/memory/sync.go) and  *)
(* the foreground synchronization of one project                           *)
(* (runForegroundProjectSync, internal/app/runtime/runtime.go), against    *)
(* the service and the other devices.                                      *)
(*                                                                         *)
(* A run holds the lock of the storage root, so there is one at a time and *)
(* claim tokens always match; the local writer takes no part in the lock   *)
(* and its transactions fall between any two of the run's.  The service is *)
(* its log: SyncHistory, which SyncServer implements.                      *)
(*                                                                         *)
(* Data: a local write is its number, in the order of created_at, and the  *)
(* content it leaves; the content of a foreign change is the change's      *)
(* sequence number, negated.  Times are what is left of them.              *)
(***************************************************************************)
EXTENDS Integers, Sequences, SequencesExt, FiniteSets, FiniteSetsExt

CONSTANTS
  Records,     \* observations of the project
  LocalKinds,  \* what this device does: a subset of {"save", "forget"}
  Foreign,     \* what the other devices get accepted or contested: a subset
               \* of {"create", "update", "archive", "tombstone", "resolve", "contest"}
  Answers,     \* how the service may refuse: a subset of {"reject", "collide", "revoke"}
  BatchSize,   \* mutations of one push (16 in the code)
  Lease,       \* ticks a claim is held (foregroundSyncLease)
  MaxWrites,   \* bound: local writes
  MaxLog       \* bound: changes of the history

ASSUME ClientAssumption ==
  /\ BatchSize \in Nat \ {0} /\ Lease \in Nat \ {0}
  /\ MaxWrites \in Nat /\ MaxLog \in Nat

VARIABLES
  log,       \* the service's history; the index is the sequence number
  late,      \* mutations of abandoned requests the service may still decide
  writes,    \* how many local writes there were
  local,     \* observations: state (needs_review is active), sync_version, content
  outbox,    \* sync_outbox and sync_outbox_claims
  receipts,  \* sync_push_results
  conflicts, \* sync_conflicts that are unresolved: their sequence numbers
  position,  \* sync_project_cursor.position
  run        \* the foreground run: where it is, its claims, what it heard

server == <<log, late>>
store == <<writes, local, outbox, receipts, conflicts, position>>
vars == <<server, store, run>>

Writes == 1..MaxWrites
Unclaimed == -1

Mutation == [id : Writes, record : Records, base : 0..MaxLog, archived : BOOLEAN]
Row == [m : Mutation, wait : 0..1, lease : Unclaimed..Lease]
Entry == [id : 0..MaxWrites, record : Records,
          kind : {"create", "update", "archive", "tombstone", "resolve"},
          base : 0..MaxLog, disposition : {"accepted", "conflict"},
          version : 1..MaxLog, resolves : SUBSET (1..MaxLog)]
Answer == [disposition : {"accepted", "conflict", "rejected", "retry"},
           version : 0..MaxLog, seq : 0..MaxLog]
Receipt == [m : Mutation, answer : Answer]

\* enqueueLocalWrite and rebaseSyncOutboxEntries: version 0 makes a create.
Kind(m) == IF m.base = 0 THEN "create" ELSE IF m.archived THEN "archive" ELSE "update"

Present(r) == local[r].state # "absent"
RowsOf(r) == {row \in outbox : row.m.record = r}
RowOf(id) == {row \in outbox : row.m.id = id}
ReceiptOf(id) == {rec \in receipts : rec.m.id = id}
Claimed(row) == row.lease # Unclaimed
Held(row) == row.lease > 0

(***************************************************************************)
(* The service.                                                            *)
(***************************************************************************)

EntriesOf(r) == {i \in DOMAIN log : log[i].record = r}
Accepted(r) == {i \in EntriesOf(r) : log[i].disposition = "accepted"}
Version(r) == IF EntriesOf(r) = {} THEN 0 ELSE log[Max(EntriesOf(r))].version
Deleted(r) == \E i \in Accepted(r) : log[i].kind = "tombstone"

\* Mutant: a conflict is not remembered.
AcceptedOnce(id) == {i \in DOMAIN log : log[i].id = id /\ log[i].disposition = "accepted"}

Decided(id) == {i \in DOMAIN log : log[i].id = id}

\* The conflicts of r no accepted resolution names.
Open(r) ==
  {i \in EntriesOf(r) : /\ log[i].disposition = "conflict"
                        /\ \A j \in Accepted(r) : i \notin log[j].resolves}

Says(i, m) ==
  /\ log[i].record = m.record
  /\ log[i].kind = Kind(m)
  /\ log[i].base = m.base

NewEntry(m, disposition, version) ==
  [id |-> m.id, record |-> m.record, kind |-> Kind(m), base |-> m.base,
   disposition |-> disposition, version |-> version, resolves |-> {}]

(***************************************************************************)
(* What pushOne may do with m: the change it adds, if any, and its answer. *)
(***************************************************************************)

Adds(m, disposition, version) ==
  [added |-> <<NewEntry(m, disposition, version)>>,
   answer |-> [disposition |-> disposition, version |-> version, seq |-> Len(log) + 1]]
Declines(disposition) ==
  [added |-> << >>, answer |-> [disposition |-> disposition, version |-> 0, seq |-> 0]]

Fits(m) == Version(m.record) = m.base /\ ~Deleted(m.record)

\* An update of another version competes; so does a create or an update
\* whose topic another observation holds.
Competes(m) ==
  \/ Kind(m) = "update" /\ Version(m.record) \notin {0, m.base}
  \/ Kind(m) # "archive" /\ Fits(m) /\ "collide" \in Answers

\* A create of what exists, a stale archive, a mutation of a deleted version;
\* a missing prerequisite.
Refuses(m) ==
  \/ ~Fits(m) /\ (Kind(m) # "update" \/ Version(m.record) \in {0, m.base})
  \/ "reject" \in Answers

\* The answer to a mutation decided before is the answer it got.
Replay(i, m) ==
  IF Says(i, m)
    THEN [added |-> << >>, answer |-> [disposition |-> log[i].disposition,
                                       version |-> log[i].version, seq |-> i]]
    ELSE Declines("rejected")

Outcomes(m) ==
  IF Decided(m.id) # {}
    THEN {Replay(i, m) : i \in Decided(m.id)}
    ELSE {o \in {Adds(m, "accepted", m.base + 1)} : Fits(m)}
         \cup {o \in {Adds(m, "conflict", IF m.base = 0 THEN 1 ELSE Version(m.record))} :
                 Competes(m)}
         \cup {o \in {Declines("rejected")} : Refuses(m)}
         \cup {o \in {Declines("retry")} : "revoke" \in Answers}

Extends(o) == Len(log) + Len(o.added) <= MaxLog /\ log' = log \o o.added

\* The service gets to an abandoned request, or never does.
DecideLate ==
  /\ \E m \in late : /\ late' = late \ {m}
                     /\ \/ UNCHANGED log
                        \/ \E o \in Outcomes(m) : Extends(o)
  /\ UNCHANGED <<store, run>>

\* What the repository accepts from the other devices or holds against them.
\* Their records are their own until this device has pulled them.
ForeignEntry(r, kind, base, disposition, version, resolves) ==
  [id |-> 0, record |-> r, kind |-> kind, base |-> base,
   disposition |-> disposition, version |-> version, resolves |-> resolves]

ForeignEntries(r) ==
  LET v == Version(r)
      new == v = 0 /\ ~Present(r)
      live == v > 0 /\ ~Deleted(r)
      active == live /\ Accepted(r) # {} /\ log[Max(Accepted(r))].kind # "archive"
  IN {e \in {ForeignEntry(r, "create", 0, "accepted", 1, {})} : new}
     \cup {e \in {ForeignEntry(r, "create", 0, "conflict", 1, {})} : new}
     \cup {e \in {ForeignEntry(r, "update", v - 1, "conflict", v, {})} : v > 1}
     \cup {e \in {ForeignEntry(r, kind, v, "accepted", v + 1, {}) :
                    kind \in {"update", "archive", "tombstone"}} : live}
     \cup {e \in {ForeignEntry(r, "resolve", v, "accepted", v + 1, ids) :
                    ids \in (SUBSET Open(r)) \ {{}}} : active}

OtherDevice ==
  /\ Len(log) < MaxLog
  /\ \E r \in Records :
       \E e \in ForeignEntries(r) :
          /\ (IF e.disposition = "conflict" THEN "contest" ELSE e.kind) \in Foreign
          /\ log' = Append(log, e)
  /\ UNCHANGED <<late, store, run>>

(***************************************************************************)
(* Local writes: Save, Update and Forget, with the row they enqueue.       *)
(***************************************************************************)

Enqueue(r, archived) ==
  LET id == writes + 1
      version == IF Present(r) THEN local[r].version ELSE 0
  IN /\ writes' = id
     /\ outbox' = outbox \cup
          {[m |-> [id |-> id, record |-> r, base |-> version, archived |-> archived],
            wait |-> 0, lease |-> Unclaimed]}
     /\ local' = [local EXCEPT ![r] =
          [state |-> IF archived THEN "archived" ELSE "active",
           version |-> version, content |-> id]]
     /\ UNCHANGED <<server, receipts, conflicts, position, run>>

\* A new observation has an id nobody has used; an archived or a deleted one
\* is not updated.
Save(r) ==
  /\ "save" \in LocalKinds
  /\ writes < MaxWrites
  /\ Present(r) => local[r].state = "active"
  /\ ~Present(r) => EntriesOf(r) = {}
  /\ Enqueue(r, FALSE)

\* An archived observation may be forgotten again, or edited where it is
\* (UpdateObservation): its row is an archive either way.
Forget(r) ==
  /\ "forget" \in LocalKinds
  /\ writes < MaxWrites
  /\ local[r].state \in {"active", "archived"}
  /\ Enqueue(r, TRUE)

(***************************************************************************)
(* A run: claim a batch, push it, apply the answers, until nothing can be  *)
(* claimed; then, if nothing is queued, pull.                              *)
(***************************************************************************)

Idle == [pc |-> "idle", claims |-> << >>, answers |-> << >>, blocked |-> FALSE]

Start ==
  /\ run.pc = "idle"
  /\ run' = [Idle EXCEPT !.pc = "claim"]
  /\ UNCHANGED <<server, store>>

\* A cancelled or killed run, an unauthorized answer, a failed request of the
\* pull, or the end of the batches (foregroundSyncBatches).  What it claimed
\* stays claimed, and a request on its way may still be decided.
Unanswered == {run.claims[i] : i \in (Len(run.answers) + 1)..Len(run.claims)}

Stop ==
  /\ run.pc # "idle"
  /\ run' = Idle
  /\ late' = IF run.pc = "push" THEN late \cup Unanswered ELSE late
  /\ UNCHANGED <<log, store>>

\* claimDueSyncOutboxForTransition, for one row.
\* Mutant: any row of the record may be claimed.
AnyOfRecord(row) == TRUE

Oldest(row) == \A other \in RowsOf(row.m.record) : row.m.id <= other.m.id
Contested(r) == \E i \in conflicts : log[i].record = r

\* Mutant: an old claim keeps its row.
NeverClaimed(row) ==
  /\ row.wait = 0
  /\ ~Claimed(row)
  /\ Oldest(row)
  /\ row.m.base = local[row.m.record].version

Claimable(row) ==
  /\ row.wait = 0
  /\ ~Held(row)
  /\ Oldest(row)
  /\ ~Contested(row.m.record)
  /\ row.m.base = local[row.m.record].version

\* The first of them, oldest first.
Rank(m, ms) == Cardinality({other \in ms : other.id < m.id})
FirstOf(ms) ==
  [i \in 1..(IF Cardinality(ms) < BatchSize THEN Cardinality(ms) ELSE BatchSize) |->
     CHOOSE m \in ms : Rank(m, ms) = i - 1]

ClaimDueSyncOutbox ==
  LET due == {row \in outbox : Claimable(row)}
      claims == FirstOf({row.m : row \in due})
      taken == {row \in due : \E i \in DOMAIN claims : claims[i] = row.m}
  IN /\ run.pc = "claim"
     /\ outbox' = (outbox \ taken) \cup {[row EXCEPT !.lease = Lease] : row \in taken}
     /\ run' = [Idle EXCEPT !.pc = IF claims = << >> THEN "check" ELSE "push",
                            !.claims = claims]
     /\ UNCHANGED <<server, writes, local, receipts, conflicts, position>>

\* SyncQueueSummaryForProject, in a transaction of its own.  What belongs to the
\* project has a row there: a conflict of a record that is not here is not seen.
\* Mutant: only conflicts keep a run from pulling.
NoConflicts == \A i \in conflicts : ~Present(log[i].record)

QueueClear == outbox = {} /\ \A i \in conflicts : ~Present(log[i].record)

CheckQueue ==
  /\ run.pc = "check"
  /\ run' = [Idle EXCEPT !.pc = IF QueueClear THEN "pull" ELSE "idle"]
  /\ UNCHANGED <<server, store>>

\* Push: the service decides the batch one mutation after the other, and the
\* answer comes back whole.
Push ==
  /\ run.pc = "push"
  /\ Unanswered # {}
  /\ \E o \in Outcomes(run.claims[Len(run.answers) + 1]) :
       /\ Extends(o)
       /\ run' = [run EXCEPT !.answers = Append(@, o.answer)]
  /\ UNCHANGED <<late, store>>

Receive ==
  /\ run.pc = "push"
  /\ Unanswered = {}
  /\ run' = [run EXCEPT !.pc = "apply"]
  /\ UNCHANGED <<server, store>>

\* syncclient.Push sends the batch again when its first attempt broke (once; a
\* later run may send it again).
Resend ==
  /\ run.pc = "push"
  /\ run.answers # << >>
  /\ run' = [run EXCEPT !.answers = << >>]
  /\ late' = late \cup Unanswered
  /\ UNCHANGED <<log, store>>

\* MarkSyncOutboxRetry of the claims; a lease that ran out is not marked.
Retried(ms, wait) ==
  {IF row.m \in ms /\ Held(row) THEN [row EXCEPT !.wait = wait, !.lease = 0] ELSE row :
     row \in outbox}

LoseAnswers ==
  /\ run.pc = "push"
  /\ outbox' = Retried(ToSet(run.claims), 1)
  /\ late' = late \cup Unanswered
  /\ run' = Idle
  /\ UNCHANGED <<log, writes, local, receipts, conflicts, position>>

\* applyResultVersion: what an answer makes of the local version.
Settles(m, a) ==
  LET current == local[m.record].version IN
    \/ a.disposition = "rejected"
    \/ a.disposition = "conflict" /\ a.version >= m.base /\ current \in {a.version, m.base}
    \/ a.disposition = "accepted" /\ a.version = m.base + 1 /\ current = m.base

VersionAfter(m, a) ==
  IF a.disposition = "rejected" THEN local[m.record].version ELSE a.version

Later(m) == {row \in RowsOf(m.record) : row.m.id > m.id}

\* Mutant: the first of the rows is kept.
RebasedToFirst(rows, version) ==
  {[row EXCEPT !.m.base = version] :
     row \in {first \in rows : \A other \in rows : first.m.id <= other.m.id}}

\* rebaseSyncOutboxEntries: the newest snapshot stands for all of them.
Rebased(rows, version) ==
  {[row EXCEPT !.m.base = version] :
     row \in {last \in rows : \A other \in rows : other.m.id <= last.m.id}}

Applicable(m, a) ==
  /\ \E row \in RowOf(m.id) : Held(row)
  /\ \/ a.disposition = "retry"
     \/ /\ Settles(m, a)
        /\ a.disposition = "accepted" => \A row \in Later(m) : ~Claimed(row)

\* ApplySyncPushResult of a terminal answer.
Complete(m, a) ==
  LET later == IF a.disposition = "accepted" THEN Later(m) ELSE {} IN
    /\ receipts' = receipts \cup {[m |-> m, answer |-> a]}
    /\ outbox' = (outbox \ (RowOf(m.id) \cup later)) \cup Rebased(later, a.version)
    /\ local' = [local EXCEPT ![m.record].version = VersionAfter(m, a)]

ApplySyncPushResult ==
  LET m == Head(run.claims)
      a == Head(run.answers)
      blocked == run.blocked \/ a.disposition # "accepted"
      rest == [run EXCEPT !.claims = Tail(@), !.answers = Tail(@), !.blocked = blocked]
  IN /\ run.pc = "apply"
     /\ Applicable(m, a)
     /\ IF a.disposition = "retry"
          THEN outbox' = Retried({m}, 0) /\ UNCHANGED <<receipts, local>>
          ELSE Complete(m, a)
     /\ run' = IF Len(run.claims) > 1 THEN rest
               ELSE IF blocked THEN Idle
               ELSE [Idle EXCEPT !.pc = "claim"]
     /\ UNCHANGED <<server, writes, conflicts, position>>

\* An answer that cannot be applied gives up the rest of the batch.
GiveUp ==
  /\ run.pc = "apply"
  /\ ~Applicable(Head(run.claims), Head(run.answers))
  /\ outbox' = Retried(ToSet(run.claims), 1)
  /\ run' = Idle
  /\ UNCHANGED <<server, writes, local, receipts, conflicts, position>>

(***************************************************************************)
(* The pull.  A page is applied change by change in one transaction; as    *)
(* the pages are consecutive parts of the history, a page of many changes  *)
(* is as many pages of one, or no page at all.                             *)
(***************************************************************************)

Pulling == run.pc = "pull" /\ position < Len(log)
Change == log[position + 1]

\* ownPulledReceipt: the receipt of the change, if there is one.
Matches(rec, i) ==
  /\ Says(i, rec.m)
  /\ rec.answer = [disposition |-> log[i].disposition, version |-> log[i].version, seq |-> i]
LookedUp == Change.kind \in {"create", "update"}
Own == LookedUp /\ ReceiptOf(Change.id) # {}
OwnMatches == \A rec \in ReceiptOf(Change.id) : Matches(rec, position + 1)

\* Mutant: every own change is an echo.
AnyOwn == Own /\ OwnMatches

\* What was pushed from here is here already.
Echo == Own /\ OwnMatches /\ Change.disposition = "accepted"

Store(r, row) == local' = [local EXCEPT ![r] = row]

ApplyEcho == Echo /\ UNCHANGED <<local, outbox, conflicts>>

\* What the appliers of a change demand of the record; a demand that is not met
\* fails the page.
ConflictFits ==
  LET r == Change.record IN
    /\ Change.disposition = "conflict"
    /\ Present(r) => local[r].version = Change.version

\* applyPulledObservation of a record that is here, and applyPulledTombstone.
Follows(r) == Present(r) /\ local[r].version = Change.base
Editable(r) == Follows(r) /\ local[r].state # "tombstoned"

CreateFits == Change.kind = "create" /\ ~Present(Change.record)
UpdateFits == Change.kind \in {"update", "archive"} /\ Editable(Change.record)
TombstoneFits == Change.kind = "tombstone" /\ Follows(Change.record)
ResolveFits ==
  LET r == Change.record IN
    /\ Change.kind = "resolve" /\ Editable(r)
    /\ Change.resolves \subseteq {i \in conflicts : log[i].record = r}
    /\ \A row \in RowsOf(r) : ~Held(row)

Applies ==
  /\ Own => OwnMatches
  /\ \/ Echo
     \/ ConflictFits
     \/ /\ Change.disposition = "accepted"
        /\ CreateFits \/ UpdateFits \/ TombstoneFits \/ ResolveFits

Content == IF Change.id = 0 THEN -(position + 1) ELSE Change.id

ApplyConflict ==
  /\ ConflictFits
  /\ conflicts' = conflicts \cup {position + 1}
  /\ UNCHANGED <<local, outbox>>

ApplyCreate ==
  /\ CreateFits
  /\ Store(Change.record, [state |-> "active", version |-> 1, content |-> Content])
  /\ UNCHANGED <<outbox, conflicts>>

ApplyUpdate ==
  /\ UpdateFits
  /\ Store(Change.record, [state |-> IF Change.kind = "archive" THEN "archived" ELSE "active",
                           version |-> Change.version, content |-> Content])
  /\ UNCHANGED <<outbox, conflicts>>

ApplyTombstone ==
  /\ TombstoneFits
  /\ Store(Change.record,
           [state |-> "tombstoned", version |-> Change.version, content |-> Content])
  /\ UNCHANGED <<outbox, conflicts>>

\* The winner is stored, its conflicts are settled, and what is queued for the
\* record is rebased (rebasePendingConflictOutbox).
ApplyResolve ==
  LET r == Change.record IN
    /\ ResolveFits
    /\ Store(r, [state |-> "active", version |-> Change.version, content |-> Content])
    /\ conflicts' = conflicts \ Change.resolves
    /\ outbox' = (outbox \ RowsOf(r)) \cup Rebased(RowsOf(r), Change.version)

ApplyChange ==
  /\ Applies
  /\ \/ ApplyEcho
     \/ /\ ~Echo
        /\ \/ ApplyConflict
           \/ /\ Change.disposition = "accepted"
              /\ ApplyCreate \/ ApplyUpdate \/ ApplyTombstone \/ ApplyResolve

ApplyProjectPulledPage ==
  /\ Pulling
  /\ ApplyChange
  /\ position' = position + 1
  /\ UNCHANGED <<server, writes, receipts, run>>

\* The last page was applied.
PullEnds ==
  /\ run.pc = "pull"
  /\ position = Len(log)
  /\ run' = Idle
  /\ UNCHANGED <<server, store>>

(***************************************************************************)
(* Time.                                                                   *)
(***************************************************************************)

Tick ==
  /\ \E row \in outbox : row.wait > 0 \/ Held(row)
  /\ outbox' = {[row EXCEPT !.wait = 0,
                            !.lease = IF Held(row) THEN row.lease - 1 ELSE row.lease] :
                  row \in outbox}
  /\ UNCHANGED <<server, writes, local, receipts, conflicts, position, run>>

Init ==
  /\ log = << >>
  /\ late = {}
  /\ writes = 0
  /\ local = [r \in Records |-> [state |-> "absent", version |-> 0, content |-> 0]]
  /\ outbox = {}
  /\ receipts = {}
  /\ conflicts = {}
  /\ position = 0
  /\ run = Idle

Run ==
  \/ Start
  \/ ClaimDueSyncOutbox
  \/ CheckQueue
  \/ Push
  \/ Receive
  \/ ApplySyncPushResult
  \/ GiveUp
  \/ ApplyProjectPulledPage
  \/ PullEnds

Faults == Stop \/ Resend \/ LoseAnswers

Next ==
  \/ \E r \in Records : Save(r) \/ Forget(r)
  \/ Run
  \/ Faults
  \/ DecideLate
  \/ OtherDevice
  \/ Tick

Spec == Init /\ [][Next]_vars

\* What the code and its user grant for progress: the clock runs, syncs are
\* started again and again, not every one of them is killed, loses its answers
\* or fails, and a run that is alive answers within its lease (the capability
\* check and the push, both attempts of it, end within foregroundSyncTimeout
\* each: half the lease).
Prompt ==
  run.pc \in {"push", "apply"} =>
    \A row \in outbox' : row.m \in ToSet(run.claims) => Held(row)

Fairness ==
  /\ WF_vars(Tick) /\ WF_vars(Start)
  /\ SF_vars(ClaimDueSyncOutbox) /\ SF_vars(CheckQueue)
  /\ SF_vars(Push) /\ SF_vars(Receive) /\ SF_vars(ApplySyncPushResult)
  /\ SF_vars(ApplyProjectPulledPage) /\ WF_vars(PullEnds)

FairSpec == Init /\ [][Next /\ (Tick => Prompt)]_vars /\ Fairness

(***************************************************************************)
(* Properties.                                                             *)
(***************************************************************************)

\* Every column keeps its type and every table its key.
TypeOK ==
  /\ log \in Seq(Entry) /\ Len(log) <= MaxLog
  /\ late \subseteq Mutation
  /\ writes \in 0..MaxWrites
  /\ local \in [Records -> [state : {"absent", "active", "archived", "tombstoned"},
                            version : 0..MaxLog, content : -MaxLog..MaxWrites]]
  /\ outbox \subseteq Row /\ \A row \in outbox : RowOf(row.m.id) = {row}
  /\ receipts \subseteq Receipt /\ \A rec \in receipts : ReceiptOf(rec.m.id) = {rec}
  /\ conflicts \subseteq DOMAIN log
  /\ position \in 0..Len(log)
  /\ run \in [pc : {"idle", "claim", "push", "apply", "check", "pull"},
              claims : Seq(Mutation), answers : Seq(Answer), blocked : BOOLEAN]

\* A mutation the service has decided, whose answer got lost, is still queued
\* the way it was decided, however often it is sent: it is never rebased or
\* replaced, which would make the service refuse it as another mutation.
DecidedIsStable ==
  \A row \in outbox : \A i \in Decided(row.m.id) : Says(i, row.m)

\* While its lease lasts, a run can record every answer it gets: the version
\* moved as the answer says, and no later row of the record is claimed.
AnswersApply ==
  (run.pc = "apply" /\ \E row \in RowOf(Head(run.claims).id) : Held(row))
    => Applicable(Head(run.claims), Head(run.answers))

\* sync_version is what the answers and the pulled changes add up to: the
\* device never claims a version the service did not give to it.
VersionIsAcknowledged ==
  \A r \in Records : Present(r) =>
    local[r].version = Max({0} \cup {log[i].version : i \in {j \in EntriesOf(r) : j <= position}}
                               \cup {rec.answer.version : rec \in {x \in receipts : x.m.record = r}})

\* What a device believes of the service is so: neither its version of a record
\* nor a row that is still queued contradicts what the service decided.
VersionsHold == TypeOK /\ DecidedIsStable /\ VersionIsAcknowledged

\* Every table keeps its types and its key, and what the user wrote last is
\* queued, or the service answered it.
NoWriteIsLost ==
  /\ TypeOK
  /\ \A r \in Records : local[r].content > 0 =>
       RowOf(local[r].content) # {} \/ ReceiptOf(local[r].content) # {}

\* A record that has nothing queued, no open conflict and no refused write is,
\* once the history is pulled, what the service has.  A resolution is left out:
\* one that is pulled over a write of this device rebases its row and leaves
\* the winner here, whose replacement is an echo, and is never applied.
SettledIsEqual ==
  \A r \in Records :
    (/\ Present(r) /\ RowsOf(r) = {} /\ position = Len(log) /\ Open(r) = {}
     /\ \A rec \in receipts : rec.m.record = r => rec.answer.disposition # "rejected"
     /\ Accepted(r) # {} /\ \A i \in Accepted(r) : log[i].kind # "resolve")
      => LET last == Max(Accepted(r)) IN
           /\ local[r].version = log[last].version
           /\ local[r].content = IF log[last].id = 0 THEN -last ELSE log[last].id

\* The log as a history has it: who sent a mutation, and what was decided.
Published(i) ==
  [device |-> IF log[i].id = 0 THEN "other" ELSE "this",
   id |-> IF log[i].id = 0 THEN MaxWrites + i ELSE log[i].id,
   record |-> log[i].record, kind |-> log[i].kind, base |-> log[i].base,
   disposition |-> log[i].disposition, version |-> log[i].version]

PublishedLog == [i \in DOMAIN log |-> Published(i)]

\* The service as the client sees it is a history that SyncServer keeps.
H == INSTANCE SyncHistory WITH
       Devices <- {"this", "other"},
       MutationIds <- 1..(MaxWrites + MaxLog),
       log <- PublishedLog

\* No retry, resend, crash or late request makes the service decide twice.
ServiceIsHistory == H!Spec

\* A pull that meets a change it cannot apply meets one of these: an archive
\* pushed from here; a record with a conflict pushed from here still ahead; a
\* conflict over a version replaced from here; a record that exists only as
\* the reservation of a contested create; a mutation refused here and accepted
\* from a late request.
StopsPull ==
  \/ Change.kind = "archive" /\ ReceiptOf(Change.id) # {}
  \/ \E rec \in receipts : /\ rec.m.record = Change.record
                           /\ rec.answer.seq > position
                           /\ rec.answer.disposition = "conflict"
  \/ Change.disposition = "conflict" /\ local[Change.record].version > Change.version
  \/ ~Present(Change.record) /\ Change.kind # "create"
  \/ \E rec \in ReceiptOf(Change.id) : rec.answer.disposition = "rejected"
PullStopsOnlyThere == Pulling /\ ~Applies => StopsPull

\* Everything written here is answered and the whole history arrives.
Quiesces == <>[](outbox = {} /\ position = Len(log))
=============================================================================
