----------------------------- MODULE Transition -----------------------------
(***************************************************************************)
(* Reseed and rejoin: how one device moves a project to a history that     *)
(* starts anew (internal/memory/sync.go, internal/app/runtime/runtime.go). *)
(*                                                                         *)
(* The device has synchronized with a history that is gone: its records    *)
(* have versions, its cursor and its queue belong to that history.  A      *)
(* transition backs the store up, takes a snapshot of the project, and     *)
(* either publishes all of it (reseed) or first pulls what others have     *)
(* published and then publishes the rest (rejoin).  Commands hold the      *)
(* enrollment lock; the local writer and the backfill do not.  A process   *)
(* may be killed between any two transactions or requests.                 *)
(*                                                                         *)
(* Data: the content of a record is 0 (absent), 1 (what all devices had in *)
(* the old history), 2 (edited here) or 3 (edited elsewhere); a payload    *)
(* hash is the content it was taken of.  The identity of a transition is   *)
(* left out: the commands only prepare one where there is none, and so a   *)
(* project has at most one.                                                *)
(***************************************************************************)
EXTENDS Naturals, Sequences, SequencesExt, FiniteSets, FiniteSetsExt

CONSTANTS
  Records,      \* the project, its sessions and its observations
  Project,      \* the record of the project itself
  Sessions,     \* the records that are sessions
  Needs,        \* what a create of the record refers to
  Rank,         \* the order of the identifiers within a kind, sessions first
  Local,        \* what this device has at first
  Unsynced,     \* of these, what has no version and was never queued
  Queued,       \* of these, what has an update queued for the old history
  Revised,      \* of these, what was updated in the old history
  Contested,    \* of these, what has an unresolved conflict of the old history
  Foreign,      \* what others publish: a subset of {"shared", "edited", "update"}
  BatchSize,    \* mutations of one push (16 in the code)
  PageSize,     \* changes of one page (100 in the code)
  MaxEdits,     \* bound: local writes
  MaxKills,     \* bound: processes killed, requests lost, backups that fail
  MaxHistory,   \* bound: the histories, the first being that after the one that is gone
  MaxForeign,   \* bound: changes others make in a history
  MaxEvents     \* bound: these together

Observations == Records \ (Sessions \cup {Project})

ASSUME TransitionAssumption ==
  /\ IsFiniteSet(Records)
  /\ Project \in Records \ Sessions
  /\ Sessions \subseteq Records
  /\ Needs \in [Records -> SUBSET Records]
  /\ \A r \in Records : Needs[r] = (IF r = Project THEN {} ELSE Needs[r] \cup {Project})
  /\ \A s \in Sessions : Needs[s] = {Project}
  /\ Rank \in [Records -> Nat]
  /\ \A r, q \in Records : r # q => Rank[r] # Rank[q]
  /\ Local \subseteq Records /\ Project \in Local
  /\ \A r \in Local : Needs[r] \subseteq Local
  /\ Unsynced \subseteq Local /\ Queued \subseteq (Local \cap Observations) \ Unsynced
  /\ Contested \subseteq (Local \cap Observations) \ (Unsynced \cup Queued)
  /\ Foreign \subseteq {"shared", "edited", "update"}
  /\ BatchSize \in Nat \ {0} /\ PageSize \in Nat \ {0}
  /\ Revised \subseteq Local \ Unsynced
  /\ {MaxEdits, MaxKills, MaxForeign, MaxEvents} \subseteq Nat /\ MaxHistory \in Nat \ {0}

VARIABLES
  history,     \* the history the service has now; 0 is the one that is gone
  log,         \* its changes of this project
  late,        \* mutations of abandoned requests the service may still decide
  local,       \* content and sync_version of each record
  outbox,      \* sync_outbox in the order of created_at, with its claims
  receipts,    \* sync_push_results of creates
  issued,      \* mutation identifiers used, by record
  repair,      \* sync_project_repairs
  cursor,      \* sync_project_cursor
  intent,      \* sync_project_backup_intents
  backup,      \* the file at the intent's path
  transition,  \* sync_project_transitions
  snapshot,    \* sync_project_transition_records; hash 0 is no row
  run,         \* the command that holds the lock and where it is
  edits, kills \* how many there were

cloud == <<history, log, late>>
queue == <<outbox, receipts, issued, repair>>
moving == <<cursor, intent, backup, transition, snapshot>>
vars == <<cloud, local, queue, moving, run, edits, kills>>

Modes == {"reseed", "rejoin"}
Shared == 1
Here == 2
Elsewhere == 3

Id == [record : Records, n : Nat]
Mutation == [id : Id, base : Nat, content : Shared..Elsewhere]
\* A claim is never made, held, run out, or given back to be tried again, which
\* it is not before next_attempt_at.
Row == [m : Mutation, claim : {"never", "held", "expired", "waiting", "retry"}]
Entry == [m : Mutation, own : BOOLEAN, version : Nat \ {0}, accepted : BOOLEAN]
Answer == [disposition : {"accepted", "conflict", "invalid_base", "invalid_prerequisite"},
           version : Nat]
Receipt == [id : Id, disposition : {"accepted", "conflict", "invalid_base", "invalid_prerequisite"}]

Present(r) == local[r].content # 0
Write(m) == [id |-> m.id, content |-> m.content]
RowsOf(r) == {i \in DOMAIN outbox : outbox[i].m.id.record = r}
CreatesOf(r) == {i \in RowsOf(r) : outbox[i].m.base = 0}
References(r) == Needs[r] \cap Observations
Snapshot == {r \in Records : snapshot[r].hash # 0}
\* Mutant: an accepted receipt counts as seen.
UnseenOrUnanswered ==
  {r \in Snapshot : /\ ~snapshot[r].seen
                    /\ \A rec \in receipts : rec.id.record = r => rec.disposition # "accepted"}
Unseen == {r \in Snapshot : ~snapshot[r].seen}

Active == transition.status \in {"pulling", "publishing"}
Completed == transition.status = "completed"
RepairPending == repair.status = "pending"
Intended == intent.mode # "none"
\* Bound: nothing goes on when the transition has completed.
Over == Completed

(***************************************************************************)
(* The service: a history of changes, and what it makes of a mutation      *)
(* (SyncServer).                                                           *)
(***************************************************************************)

Accepted(r) == {i \in DOMAIN log : log[i].m.id.record = r /\ log[i].accepted}
Version(r) == IF Accepted(r) = {} THEN 0 ELSE log[Max(Accepted(r))].version
Published(r) == Accepted(r) # {}

Decided(m) == {i \in DOMAIN log : log[i].own /\ log[i].m.id = m.id}

AnswerTo(m) ==
  LET r == m.id.record
      says(disposition, version) == [disposition |-> disposition, version |-> version]
  IN IF Decided(m) # {}
       THEN LET e == log[Max(Decided(m))]
            IN IF e.m = m THEN says(IF e.accepted THEN "accepted" ELSE "conflict", e.version)
                          ELSE says("invalid_base", 0)
     ELSE IF m.base = Version(r)
       THEN IF \A q \in Needs[r] : Published(q) THEN says("accepted", m.base + 1)
                                                ELSE says("invalid_prerequisite", 0)
     ELSE IF m.base > 0 /\ Published(r) THEN says("conflict", Version(r))
     ELSE says("invalid_base", 0)

\* What the log becomes when the service decides m.
Decide(m) ==
  LET a == AnswerTo(m)
  IN log' = IF Decided(m) = {} /\ a.version > 0
              THEN Append(log, [m |-> m, own |-> TRUE, version |-> a.version,
                                accepted |-> a.disposition = "accepted"])
              ELSE log

\* The service gets to an abandoned request, or never does: no fairness asks for it.
DecideLate ==
  /\ ~Over
  /\ \E m \in late : late' = late \ {m} /\ Decide(m)
  /\ UNCHANGED <<history, local, queue, moving, run, edits, kills>>

Foreigns == Cardinality({i \in DOMAIN log : ~log[i].own})
\* Bound: what may happen beside the commands.
Room == edits + kills + (history - 1) + Foreigns < MaxEvents

\* Another device publishes a record it had, as it was or edited, or updates one.
OtherDevice ==
  /\ ~Over
  /\ Foreigns < MaxForeign /\ Room
  /\ \E r \in Records, content \in {Shared, Elsewhere} :
       LET e == [m |-> [id |-> [record |-> r, n |-> 0], base |-> Version(r), content |-> content],
                 own |-> FALSE, version |-> Version(r) + 1, accepted |-> TRUE]
       IN /\ \/ ~Published(r) /\ content = Shared /\ "shared" \in Foreign
             \/ ~Published(r) /\ content = Elsewhere /\ "edited" \in Foreign /\ r # Project
             \/ Published(r) /\ content = Elsewhere /\ "update" \in Foreign /\ r \in Observations
          /\ \A q \in Needs[r] : Published(q)
          /\ log' = Append(log, e)
  /\ UNCHANGED <<history, late, local, queue, moving, run, edits, kills>>

ResetCloud ==
  /\ ~Over
  /\ history < MaxHistory /\ Room
  /\ history' = history + 1
  /\ log' = << >>
  /\ UNCHANGED <<late, local, queue, moving, run, edits, kills>>

(***************************************************************************)
(* What the local writer and the backfill queue.                           *)
(***************************************************************************)

\* enqueueSyncOutbox: a new row at the end of the queue, under a fresh id.
NewRow(r, base, content) ==
  [m |-> [id |-> [record |-> r, n |-> issued[r] + 1], base |-> base, content |-> content],
   claim |-> "never"]

\* What is in S, by the least key first.
Sorted(S, key) ==
  [n \in 1..Cardinality(S) |-> CHOOSE x \in S : Cardinality({y \in S : key[y] < key[x]}) = n - 1]

Creates(rs) == [i \in DOMAIN rs |-> NewRow(rs[i], 0, local[rs[i]].content)]

Issue(S) == issued' = [r \in Records |-> IF r \in S THEN issued[r] + 1 ELSE issued[r]]

\* activeProjectTransitionForLocalProject.
\* Mutant: an intent without a transition does not block.
BlockedByTransition == Active
Blocked == Active \/ Intended

\* Save and Update of an observation: enqueueLocalWrite, enqueueIdentity.
EnqueueLocalWrite ==
  /\ ~Over
  /\ edits < MaxEdits /\ Room
  /\ ~Blocked
  /\ \E r \in Observations :
       LET identities == {q \in {Project} \cup (Needs[r] \cap Sessions) :
                            local[q].version = 0 /\ CreatesOf(q) = {}}
       IN /\ \A q \in Needs[r] : Present(q)
          /\ outbox' = outbox \o Creates(Sorted(identities, Rank)) \o <<NewRow(r, local[r].version, Here)>>
          /\ local' = [local EXCEPT ![r].content = Here]
          /\ Issue(identities \cup {r})
  /\ edits' = edits + 1
  /\ UNCHANGED <<cloud, receipts, repair, moving, run, kills>>

\* BackfillSyncProject: what has no version and no create queued is queued
\* under an id derived from the record; a create that nobody has claimed gets
\* the content of today (enqueueBackfillMutation).  The limit is not reached.
BackfillSyncProject ==
  LET legacy == {r \in Records : Present(r) /\ local[r].version = 0}
      missing == {r \in legacy : CreatesOf(r) = {}}
      ordered == Sorted(missing, Rank)
      first == {Min(CreatesOf(r)) : r \in legacy \ missing}
      current(i) == local[outbox[i].m.id.record].content
      added == [i \in DOMAIN ordered |->
                  [m |-> [id |-> [record |-> ordered[i], n |-> 0], base |-> 0,
                          content |-> local[ordered[i]].content], claim |-> "never"]]
  IN /\ ~Over /\ ~Blocked
     /\ legacy # {}
     /\ \A i \in first : /\ outbox[i].claim \notin {"waiting", "retry"}
                         /\ outbox[i].m.content # current(i) => outbox[i].claim = "never"
     /\ \A r \in missing : [record |-> r, n |-> 0] \notin {rec.id : rec \in receipts}
     /\ outbox' = [i \in DOMAIN outbox |->
                     IF i \in first THEN [outbox[i] EXCEPT !.m.content = current(i)]
                                    ELSE outbox[i]] \o added
     /\ UNCHANGED <<cloud, local, receipts, issued, repair, moving, run, edits, kills>>

(***************************************************************************)
(* Commands: one at a time, under the enrollment lock.                     *)
(***************************************************************************)

Idle == [command |-> "idle", pc |-> "idle", claims |-> << >>, answers |-> << >>,
         blocking |-> FALSE, pulling |-> 0]
At(pc) == [run EXCEPT !.pc = pc]
Fail == run' = Idle

Start(command) ==
  /\ ~Over /\ run = Idle
  /\ run' = [Idle EXCEPT !.command = command, !.pc = "open"]
  /\ UNCHANGED <<cloud, local, queue, moving, edits, kills>>

\* PlanSyncProject, for a bound workspace: what the topology of the store and
\* the state of the remote project recommend.  AutoSyncProject dispatches it
\* later, and the command it starts reads the transition again.
PlanSyncProject ==
  IF Active THEN transition.mode
  ELSE IF ~Published(Project) \/ (cursor.exists /\ cursor.history # history) THEN "blocked"
  ELSE "sync"

AutoSyncProject == PlanSyncProject # "blocked" /\ Start(PlanSyncProject)

\* Sync refuses while a transition is active.
OpenSync ==
  /\ run.command = "sync" /\ run.pc = "open"
  /\ run' = IF Active THEN Idle ELSE At("claim")
  /\ UNCHANGED <<cloud, local, queue, moving, edits, kills>>

\* runSyncProjectTransition, up to the backup intent.
OpenTransition ==
  /\ run.command \in Modes /\ run.pc = "open"
  /\ run' = CASE transition.mode = run.command -> At("continue")
              [] transition.mode = "none" -> At(IF run.command = "reseed" THEN "probe" ELSE "intent")
              [] OTHER -> Idle
  /\ UNCHANGED <<cloud, local, queue, moving, edits, kills>>

ProbeEmptyProject ==
  /\ run.pc = "probe"
  /\ run' = IF log = << >> THEN At("intent") ELSE Idle
  /\ UNCHANGED <<cloud, local, queue, moving, edits, kills>>

\* One intent per project: a retry gets the one there is, with its path.
EnsureSyncProjectBackupIntent ==
  /\ run.pc = "intent"
  /\ \/ /\ ~Intended
        /\ intent' = [mode |-> run.command, sealed |-> FALSE]
        /\ run' = At("backup")
     \/ /\ Intended
        /\ run' = IF intent.mode = run.command THEN At("backup") ELSE Idle
        /\ UNCHANGED intent
  /\ UNCHANGED <<cloud, local, queue, cursor, backup, transition, snapshot, edits, kills>>

\* CreateSQLiteBackup reserves the file, then fills it; when that fails the
\* file stays, empty (scrubSQLiteBackupOutput).
ReserveBackup ==
  /\ run.pc = "backup" /\ backup.state = "absent"
  /\ backup' = [backup EXCEPT !.state = "partial"]
  /\ run' = At("write")
  /\ UNCHANGED <<cloud, local, queue, cursor, intent, transition, snapshot, edits, kills>>

CreateSQLiteBackup ==
  /\ run.pc = "write"
  /\ backup' = [state |-> "whole", rows |-> {Write(outbox[i].m) : i \in DOMAIN outbox},
                content |-> [r \in Records |-> local[r].content]]
  /\ run' = At("seal")
  /\ UNCHANGED <<cloud, local, queue, cursor, intent, transition, snapshot, edits, kills>>

\* VerifySQLiteBackup and its digest: a file that is not all of it is refused.
Verified == backup.state = "whole"

\* An extant file is verified and digested; a sealed intent names its digest.
ReuseBackup ==
  /\ run.pc = "backup" /\ backup.state # "absent"
  /\ run' = IF ~Verified THEN Idle ELSE At(IF intent.sealed THEN "prepare" ELSE "seal")
  /\ UNCHANGED <<cloud, local, queue, moving, edits, kills>>

SealSyncProjectBackupIntent ==
  /\ run.pc = "seal"
  /\ intent' = [intent EXCEPT !.sealed = TRUE]
  /\ run' = At("prepare")
  /\ UNCHANGED <<cloud, local, queue, cursor, backup, transition, snapshot, edits, kills>>

\* orderProjectTransitionObservations, after the project and the sessions: each
\* record is that of least identifier among those that need none of the rest.
DependencyOrder(S) ==
  CHOOSE s \in [1..Cardinality(S) -> S] :
    \A n \in DOMAIN s :
      LET rest == S \ {s[k] : k \in 1..n - 1}
          ready == {r \in rest : Needs[r] \cap rest = {}}
      IN s[n] \in ready /\ \A r \in ready : Rank[s[n]] <= Rank[r]

\* It has no order for references that go round.
Acyclic(S) == \A T \in SUBSET S : T # {} => \E r \in T : Needs[r] \cap T = {}

PresentRecords == {r \in Records : Present(r)}

\* prepareSyncProjectTransition refuses a pending repair, a claim that has not
\* run out, and references that go round; none of them is to a missing record.
CanPrepare ==
  /\ ~RepairPending /\ Acyclic(PresentRecords)
  /\ \A i \in DOMAIN outbox : outbox[i].claim # "held"

\* clearProjectTransitionSyncState, up to the queue itself.
ClearSyncState ==
  /\ cursor' = [exists |-> FALSE, history |-> 0, position |-> 0, watermark |-> 0]
  /\ repair' = [status |-> "none", n |-> 0]
  /\ receipts' = {}

PrepareSyncProjectTransition ==
  /\ run.pc = "prepare" /\ CanPrepare
  /\ transition' = [mode |-> run.command,
                    status |-> IF run.command = "reseed" THEN "publishing" ELSE "pulling"]
  /\ intent' = [mode |-> "none", sealed |-> FALSE]
  /\ snapshot' = [r \in Records |-> [hash |-> local[r].content, seen |-> FALSE]]
  /\ ClearSyncState
  /\ \/ /\ run.command = "rejoin"
        /\ outbox' = << >>
        /\ UNCHANGED <<local, issued>>
     \/ /\ run.command = "reseed"
        /\ outbox' = Creates(DependencyOrder(PresentRecords))
        /\ local' = [r \in Records |-> [local[r] EXCEPT !.version = 0]]
        /\ Issue(PresentRecords)
  /\ run' = At("continue")
  /\ UNCHANGED <<cloud, backup, edits, kills>>

RefuseToPrepare ==
  /\ run.pc = "prepare" /\ ~CanPrepare
  /\ Fail
  /\ UNCHANGED <<cloud, local, queue, moving, edits, kills>>

\* continueSyncProjectTransition.
Continue ==
  /\ run.pc = "continue"
  /\ run' = CASE transition.status = "completed" -> Idle
              [] transition.status = "pulling" -> At("discover")
              [] transition.status = "publishing" ->
                   At(IF transition.mode = "rejoin" THEN "finalize" ELSE "claim")
  /\ UNCHANGED <<cloud, local, queue, moving, edits, kills>>

(***************************************************************************)
(* Claim, push, apply (runForegroundProjectSync).                          *)
(***************************************************************************)

IsRepair(m) == RepairPending /\ m.id = [record |-> Project, n |-> repair.n]

\* Mutant: a repair does not hold back the rest of the project.
ClaimableBeforeRepair(i) ==
  LET m == outbox[i].m
      r == m.id.record
  IN /\ outbox[i].claim \notin {"held", "waiting"}
     /\ r \notin Contested
     /\ IsRepair(m) \/ (i = Min(RowsOf(r)) /\ m.base = local[r].version)
     /\ r \in Observations /\ m.base = 0 =>
          \A q \in References(r) : local[q].version > 0 \/ CreatesOf(q) = {}

\* claimDueSyncOutboxForTransition, for the row at i.
Claimable(i) ==
  LET m == outbox[i].m
      r == m.id.record
  IN /\ outbox[i].claim \notin {"held", "waiting"}
     /\ r \notin Contested
     /\ RepairPending => IsRepair(m)
     /\ IsRepair(m) \/ (i = Min(RowsOf(r)) /\ m.base = local[r].version)
     /\ r \in Observations /\ m.base = 0 =>
          \A q \in References(r) : local[q].version > 0 \/ CreatesOf(q) = {}

\* claimableSyncOutboxEntries: an unsynced reference that nobody will create.
Orphaned(m) ==
  /\ m.id.record \in Observations /\ m.base = 0
  /\ \E q \in References(m.id.record) : local[q].version = 0 /\ CreatesOf(q) = {}

FirstClaims ==
  LET places == {i \in DOMAIN outbox : Claimable(i)}
      due == Sorted(places, [i \in DOMAIN outbox |-> i])
  IN SubSeq(due, 1, IF Len(due) < BatchSize THEN Len(due) ELSE BatchSize)

ClaimDueSyncOutbox ==
  LET claims == FirstClaims
      taken == ToSet(claims)
      fails == \/ \E i \in taken : Orphaned(outbox[i].m)
               \/ RepairPending /\ claims = << >>
  IN /\ run.pc = "claim"
     /\ \/ fails /\ Fail /\ UNCHANGED outbox
        \/ /\ ~fails
           /\ outbox' = [i \in DOMAIN outbox |->
                IF i \in taken THEN [outbox[i] EXCEPT !.claim = "held"] ELSE outbox[i]]
           /\ run' = [At(IF claims = << >> THEN "check" ELSE "push") EXCEPT
                        !.claims = [i \in DOMAIN claims |-> outbox[claims[i]].m],
                        !.answers = << >>, !.blocking = FALSE]
     /\ UNCHANGED <<cloud, local, receipts, issued, repair, moving, edits, kills>>

\* A sync pulls when nothing is queued or contested (SyncQueueSummaryForProject).
\* The store of a transition cannot tell (transitionProjectStore has no such
\* method), so that its run pulls with whatever could not be claimed.
CheckQueue ==
  /\ run.pc = "check"
  /\ run' = IF run.command \in Modes \/ (outbox = << >> /\ Contested = {})
              THEN At("discover") ELSE Idle
  /\ UNCHANGED <<cloud, local, queue, moving, edits, kills>>

Unanswered == {run.claims[i] : i \in (Len(run.answers) + 1)..Len(run.claims)}

Push ==
  /\ run.pc = "push" /\ Unanswered # {}
  /\ LET m == run.claims[Len(run.answers) + 1]
     IN /\ Decide(m)
        /\ run' = [run EXCEPT !.answers = Append(@, AnswerTo(m))]
  /\ UNCHANGED <<history, late, local, queue, moving, edits, kills>>

Receive ==
  /\ run.pc = "push" /\ Unanswered = {}
  /\ run' = At("apply")
  /\ UNCHANGED <<cloud, local, queue, moving, edits, kills>>

\* applyResultVersion, applyProjectRepairResultVersion.
Settles(m, a) ==
  LET current == local[m.id.record].version
  IN \/ a.disposition \notin {"accepted", "conflict"}
     \/ IsRepair(m) /\ (a.disposition = "accepted" => a.version = 1 /\ current = 1)
     \/ ~IsRepair(m) /\ a.disposition = "accepted" /\ a.version = m.base + 1 /\ current = m.base
     \/ ~IsRepair(m) /\ a.disposition = "conflict" /\ m.id.record \in Observations
          /\ a.version >= m.base /\ current \in {a.version, m.base}

RowsWithout(m, a) ==
  LET rest == RemoveAt(outbox, CHOOSE i \in DOMAIN outbox : outbox[i].m = m)
  IN [i \in DOMAIN rest |->
        IF rest[i].m.id.record = m.id.record /\ a.disposition = "accepted"
          THEN [rest[i] EXCEPT !.m.base = a.version] ELSE rest[i]]

\* ApplySyncPushResult: the version, the receipt, the repair, the rows behind
\* (rebaseFollowingSyncOutbox) and the row itself, in one transaction.
ApplySyncPushResult ==
  LET m == Head(run.claims)
      a == Head(run.answers)
      blocking == run.blocking \/ a.disposition # "accepted"
      last == Len(run.claims) = 1
  IN /\ run.pc = "apply" /\ Settles(m, a)
     /\ local' = IF a.version > 0 /\ ~IsRepair(m)
                   THEN [local EXCEPT ![m.id.record].version = a.version] ELSE local
     /\ receipts' = IF m.base = 0
                      THEN receipts \cup {[id |-> m.id, disposition |-> a.disposition]}
                      ELSE receipts
     /\ repair' = IF IsRepair(m)
                    THEN [repair EXCEPT !.status =
                            IF a.disposition = "accepted" THEN "completed" ELSE "rejected"]
                    ELSE repair
     /\ outbox' = RowsWithout(m, a)
     /\ run' = IF last /\ blocking THEN Idle
               ELSE [run EXCEPT !.claims = Tail(@), !.answers = Tail(@), !.blocking = blocking,
                                !.pc = IF last THEN "claim" ELSE "apply"]
     /\ UNCHANGED <<cloud, issued, moving, edits, kills>>

\* markClaimsRetry, for the claims that are left: due in a second.
Retried(ms) ==
  [i \in DOMAIN outbox |->
     IF outbox[i].m \in ms THEN [outbox[i] EXCEPT !.claim = "waiting"] ELSE outbox[i]]

GiveUp ==
  /\ run.pc = "apply" /\ ~Settles(Head(run.claims), Head(run.answers))
  /\ outbox' = Retried(ToSet(run.claims))
  /\ Fail
  /\ UNCHANGED <<cloud, local, receipts, issued, repair, moving, edits, kills>>

\* A request that breaks gives the claims back; a killed process keeps them.
\* Either way the service may still get to what it was sent.
Abandon ==
  /\ run # Idle
  /\ kills < MaxKills /\ Room
  /\ kills' = kills + 1
  /\ late' = IF run.pc = "push" THEN late \cup Unanswered ELSE late
  /\ outbox' \in {outbox} \cup (IF run.pc = "push" THEN {Retried(ToSet(run.claims))} ELSE {})
  /\ Fail
  /\ UNCHANGED <<history, log, local, receipts, issued, repair, moving, edits>>

\* Mutant: only a lease that was given back ends.
NothingExpires == FALSE /\ UNCHANGED vars

\* Time passes where a command, or the repair, is about to read what is due.
Passes(old, new) ==
  /\ run.pc \in {"idle", "prepare", "claim"}
  /\ \E i \in DOMAIN outbox : outbox[i].claim = old
  /\ outbox' = [i \in DOMAIN outbox |->
       IF outbox[i].claim = old THEN [outbox[i] EXCEPT !.claim = new] ELSE outbox[i]]
  /\ UNCHANGED <<cloud, local, receipts, issued, repair, moving, run, edits, kills>>

\* The lease of a process that is gone runs out, while another may be at work.
ClaimsExpire == Passes("held", "expired")

RetriesFallDue == Passes("waiting", "retry")

\* RepairBoundProjectCreate: the project is created again, under a new id.
RepairSyncProject ==
  LET accepted == {rec \in receipts : rec.id.record = Project /\ rec.disposition = "accepted"}
  IN /\ ~Over /\ run = Idle
     /\ repair.status = "none"
     /\ ~Blocked
     /\ local[Project].version = 1 /\ Cardinality(accepted) = 1
     /\ \A i \in DOMAIN outbox : outbox[i].claim # "held"
     /\ outbox' = Append(outbox, NewRow(Project, 0, local[Project].content))
     /\ repair' = [status |-> "pending", n |-> issued[Project] + 1]
     /\ Issue({Project})
     /\ UNCHANGED <<cloud, local, receipts, moving, run, edits, kills>>

(***************************************************************************)
(* Pull (runForegroundProjectPull, applyProjectPulledPage).                *)
(***************************************************************************)

\* The cursor of another history is corrupt (projectPulledCursor).
Discover ==
  /\ run.pc = "discover"
  /\ run' = IF RepairPending \/ (cursor.exists /\ cursor.history # history)
              THEN Idle ELSE [At("page") EXCEPT !.pulling = history]
  /\ UNCHANGED <<cloud, local, queue, moving, edits, kills>>

\* Mutant: the payload is not compared.
DivergesInVersion(e) ==
  snapshot[e.m.id.record].hash # 0 /\ ~(e.m.base = 0 /\ e.version = 1)

\* applyProjectTransitionPulledMutation: a record of the snapshot is taken only
\* as the create of what the snapshot says.
Diverges(e) ==
  LET hash == snapshot[e.m.id.record].hash
  IN hash # 0 /\ ~(e.m.base = 0 /\ e.version = 1 /\ e.m.content = hash)

\* Position and watermark of the next page.
PageFrom == cursor.position
PageOf == IF cursor.position < cursor.watermark THEN cursor.watermark ELSE Len(log)
PageTo == IF PageFrom + PageSize < PageOf THEN PageFrom + PageSize ELSE PageOf

ApplyProjectPulledPage ==
  LET page == PageFrom + 1..PageTo
      changed == {log[i].m.id.record : i \in page}
      latest(r) == log[Max({i \in page : log[i].m.id.record = r})]
      takes == run.pulling = history /\ \A i \in page : ~Diverges(log[i])
  IN /\ run.pc = "page"
     /\ \/ ~takes /\ Fail /\ UNCHANGED <<local, snapshot, cursor>>
        \/ /\ takes
           /\ local' = [r \in Records |->
                IF r \notin changed THEN local[r]
                ELSE [content |-> latest(r).m.content, version |-> latest(r).version]]
           /\ snapshot' = [r \in Records |->
                [snapshot[r] EXCEPT !.seen = @ \/ r \in changed \cap Snapshot]]
           /\ cursor' = [exists |-> TRUE, history |-> history,
                         position |-> PageTo, watermark |-> PageOf]
           /\ run' = IF PageTo < PageOf THEN run
                     ELSE At(IF transition.status = "pulling" THEN "finalize" ELSE "last")
     /\ UNCHANGED <<cloud, queue, intent, backup, transition, edits, kills>>

(***************************************************************************)
(* finalizeSyncProjectTransition.                                          *)
(***************************************************************************)

Changed(r) == local[r].content # snapshot[r].hash

\* Everything not seen remotely is queued, and publishing starts.
CanPublish == snapshot[Project].seen /\ \A r \in Unseen : ~Changed(r)

\* recoverRejectedProjectTransitionObservations.
ReceiptsOf(r) == {rec \in receipts : rec.id.record = r}
Dropped == {r \in Unseen \cap Observations :
              /\ RowsOf(r) = {}
              /\ \A rec \in ReceiptsOf(r) : rec.disposition # "accepted"}

Recoverable(r) ==
  /\ ~Changed(r)
  /\ \E rec \in ReceiptsOf(r) : ReceiptsOf(r) = {rec} /\ rec.disposition = "invalid_prerequisite"
  /\ local[r].version = 0
  /\ \A s \in Needs[r] \cap Sessions : local[s].version > 0
  /\ \A q \in References(r) : local[q].version > 0 \/ CreatesOf(q) # {} \/ q \in Dropped

\* What it queues: on the way to publishing the unseen records, later the
\* creates that came before their prerequisites.
ToQueue ==
  IF transition.status = "pulling" THEN Unseen
  ELSE IF transition.mode = "rejoin" THEN Dropped ELSE {}

FinalizeRefuses ==
  \/ ~cursor.exists
  \/ cursor.position < cursor.watermark
  \/ transition.status = "pulling" /\ ~CanPublish
  \/ transition.status = "publishing" /\ \E r \in ToQueue : ~Recoverable(r)

\* With pages left to pull, a rejoin that publishes goes on as it is.
Postponed ==
  /\ cursor.exists /\ cursor.position < cursor.watermark
  /\ transition = [mode |-> "rejoin", status |-> "publishing"]

FinalizeSyncProjectTransition ==
  LET queued == outbox \o Creates(DependencyOrder(ToQueue))
      completes == Unseen = {} /\ queued = << >>
      next == IF run.pc = "finalize" THEN At("claim") ELSE Idle
  IN /\ run.pc \in {"finalize", "last"}
     /\ \/ /\ Postponed
           /\ run' = next
           /\ UNCHANGED <<outbox, local, issued, transition>>
        \/ /\ ~Postponed /\ FinalizeRefuses
           /\ Fail
           /\ UNCHANGED <<outbox, local, issued, transition>>
        \/ /\ ~FinalizeRefuses
           /\ outbox' = queued
           /\ Issue(ToQueue)
           /\ local' = [r \in Records |->
                IF r \in ToQueue THEN [local[r] EXCEPT !.version = 0] ELSE local[r]]
           /\ transition' = [transition EXCEPT !.status =
                               IF completes THEN "completed" ELSE "publishing"]
           /\ run' = IF completes THEN Idle ELSE next
     /\ UNCHANGED <<cloud, receipts, repair, cursor, intent, backup, snapshot, edits, kills>>

(***************************************************************************)
(* The specification: one project, up to the end of its transition (a      *)
(* completed one is never replaced, so that there is no other).            *)
(***************************************************************************)

Init ==
  /\ history = 1 /\ log = << >> /\ late = {}
  /\ local = [r \in Records |->
                [content |-> IF r \notin Local THEN 0 ELSE IF r \in Queued THEN Here ELSE Shared,
                 version |-> IF r \notin Local \ Unsynced THEN 0 ELSE IF r \in Revised THEN 2 ELSE 1]]
  /\ LET ordered == Sorted(Queued, Rank)
     IN outbox = [i \in DOMAIN ordered |->
          [m |-> [id |-> [record |-> ordered[i], n |-> 1], base |-> local[ordered[i]].version, content |-> Here],
           claim |-> "never"]]
  /\ issued = [r \in Records |-> IF r \in Queued \cup ({Project} \ Unsynced) THEN 1 ELSE 0]
  /\ receipts = IF Project \in Unsynced THEN {}
                ELSE {[id |-> [record |-> Project, n |-> 1], disposition |-> "accepted"]}
  /\ repair = [status |-> "none", n |-> 0]
  /\ cursor = [exists |-> TRUE, history |-> 0, position |-> 0, watermark |-> 0]
  /\ intent = [mode |-> "none", sealed |-> FALSE]
  /\ backup = [state |-> "absent", rows |-> {}, content |-> [r \in Records |-> 0]]
  /\ transition = [mode |-> "none", status |-> "none"]
  /\ snapshot = [r \in Records |-> [hash |-> 0, seen |-> FALSE]]
  /\ run = Idle
  /\ edits = 0 /\ kills = 0

\* What a command does next, whatever it finds.
Proceed ==
  \/ OpenSync \/ OpenTransition \/ ProbeEmptyProject \/ EnsureSyncProjectBackupIntent
  \/ ReserveBackup \/ CreateSQLiteBackup \/ ReuseBackup \/ SealSyncProjectBackupIntent
  \/ PrepareSyncProjectTransition \/ RefuseToPrepare \/ Continue
  \/ ClaimDueSyncOutbox \/ CheckQueue \/ Push \/ Receive \/ ApplySyncPushResult \/ GiveUp
  \/ Discover \/ ApplyProjectPulledPage \/ FinalizeSyncProjectTransition

Done == Completed /\ UNCHANGED vars

Next ==
  \/ \E command \in Modes \cup {"sync"} : Start(command)
  \/ AutoSyncProject \/ Proceed \/ Abandon \/ ClaimsExpire \/ RetriesFallDue
  \/ EnqueueLocalWrite \/ BackfillSyncProject \/ RepairSyncProject
  \/ DecideLate \/ OtherDevice \/ ResetCloud
  \/ Done

Spec == Init /\ [][Next]_vars

\* The command of the transition under way is given again.
TryAgain ==
  \E command \in Modes :
    (intent.mode = command \/ transition.mode = command) /\ Start(command)

\* A command runs to its end unless it is killed; the operator tries sync, and
\* the command of the transition, again and again; leases run out.
Fairness ==
  /\ WF_vars(Proceed)
  /\ SF_vars(ClaimsExpire)
  /\ SF_vars(RetriesFallDue)
  /\ SF_vars(Start("sync"))
  /\ SF_vars(TryAgain)

FairSpec == Spec /\ Fairness

(***************************************************************************)
(* Properties                                                              *)
(***************************************************************************)

Points == {"idle", "open", "probe", "intent", "backup", "write", "seal", "prepare", "continue",
           "claim", "check", "push", "apply", "discover", "page", "finalize", "last"}

TypeOK ==
  /\ history \in 0..MaxHistory /\ log \in Seq(Entry) /\ late \subseteq Mutation
  /\ local \in [Records -> [content : 0..Elsewhere, version : Nat]]
  /\ outbox \in Seq(Row) /\ receipts \subseteq Receipt /\ issued \in [Records -> Nat]
  /\ \A i, j \in DOMAIN outbox : outbox[i].m.id = outbox[j].m.id => i = j
  /\ repair \in [status : {"none", "pending", "completed", "rejected"}, n : Nat]
  /\ cursor \in [exists : BOOLEAN, history : 0..MaxHistory, position : Nat, watermark : Nat]
  /\ cursor.position <= cursor.watermark
  /\ intent \in [mode : Modes \cup {"none"}, sealed : BOOLEAN]
  /\ backup \in [state : {"absent", "partial", "whole"},
                 rows : SUBSET [id : Id, content : Shared..Elsewhere],
                 content : [Records -> 0..Elsewhere]]
  /\ transition \in [mode : Modes \cup {"none"},
                     status : {"none", "pulling", "publishing", "completed"}]
  /\ snapshot \in [Records -> [hash : 0..Elsewhere, seen : BOOLEAN]]
  /\ run \in [command : Modes \cup {"idle", "sync"}, pc : Points, claims : Seq(Mutation),
              answers : Seq(Answer), blocking : BOOLEAN, pulling : 0..MaxHistory]
  /\ Len(run.answers) <= Len(run.claims)
  /\ edits \in 0..MaxEdits /\ kills \in 0..MaxKills

\* What the transition drops is in the backup it names: every queued write,
\* and the content of every record.  The backup is taken, verified and sealed
\* in transactions of their own, under a lock local writers do not take; the
\* intent must keep them out from before it is taken.
BackupHoldsQueue ==
  [][~Active /\ Active' => /\ backup.state = "whole" /\ intent.sealed
                          /\ {Write(outbox[i].m) : i \in DOMAIN outbox} \subseteq backup.rows
                          /\ \A r \in Records : local[r].content = backup.content[r]]_vars

\* Every table keeps its columns, and until a transition ends the project is
\* what its snapshot says, whatever was pulled; and what is queued is one create
\* of each of its records, as the snapshot has it, no write of the old history
\* and nothing the user wrote in between.  A run pulls with rows still queued:
\* where a row does not fit the version of its record, the record was seen.
SnapshotStaysTrue ==
  /\ TypeOK
  /\ Active => /\ \A r \in Snapshot : local[r].content = snapshot[r].hash
               /\ \A i \in DOMAIN outbox :
                    LET m == outbox[i].m
                    IN /\ m.base = 0 /\ m.content = snapshot[m.id.record].hash
                       /\ m.id.record \in Snapshot
                       /\ RowsOf(m.id.record) = {i}
                       /\ local[m.id.record].version = 0 \/ snapshot[m.id.record].seen

\* A transition that completes has merged the two sides: each record of the
\* snapshot is in the history the cursor belongs to, created with the content
\* it has here and at the version it has here, and nothing is left to publish.
CompletedIsShared ==
  Completed /\ cursor.history = history =>
    /\ outbox = << >>
    /\ \A r \in Snapshot :
         /\ local[r] = [content |-> snapshot[r].hash, version |-> 1]
         /\ \E i \in 1..cursor.position :
              log[i].m.id.record = r /\ log[i].m.base = 0
                /\ log[i].m.content = snapshot[r].hash /\ log[i].accepted

\* While a repair is pending nothing but the create it asks for is claimed, so
\* that no write of the project overtakes it; and a repair that completed did
\* create the project, unless the cloud was reset again since.
RepairGoesFirst ==
  /\ RepairPending =>
       \A i \in DOMAIN outbox : outbox[i].claim = "held" => IsRepair(outbox[i].m)
  /\ repair.status = "completed" /\ history = 1 => Published(Project)

(***************************************************************************)
(* What a retry cannot mend.                                               *)
(***************************************************************************)

\* The file of a backup that was interrupted fails its verification.
BackupIsPartial == Intended /\ backup.state = "partial"
\* Somebody has published to the project that a reseed meant to fill.
ReseedIsLate == intent.mode = "reseed" /\ log # << >>
\* A command for the other mode refuses, whatever the mode wanted is.
CursorIsOld == Active /\ cursor.exists /\ cursor.history # history
\* A rejoin waits for somebody to publish the project.
NobodyToJoin == transition.status = "pulling" /\ ~Published(Project)
\* What was published of a record is not what the snapshot says.
HistoryDiverges ==
  Active /\ \E i \in DOMAIN log : i > cursor.position /\ Diverges(log[i])
\* A conflict of the old history outlives the transition, which then never
\* claims the record; and no resolution of it is accepted any more.
ConflictRemains == Active /\ Contested # {}
\* A rejoin that had a create refused, for anything but its prerequisites:
\* finalizing fails before the pull that might show who published the record.
CreateIsLost ==
  /\ transition = [mode |-> "rejoin", status |-> "publishing"]
  /\ \E r \in Dropped : ~Recoverable(r)
\* A reseed whose create was refused, or was accepted by a history that is gone:
\* nothing queues it again, and what refers to it makes every claim fail.
CreateIsRefused ==
  /\ Active /\ transition.mode = "reseed"
  /\ \E r \in Unseen : /\ RowsOf(r) = {}
                       /\ ~Published(r) \/ \E i \in DOMAIN outbox : Orphaned(outbox[i].m)

\* A pull has taken a record whose create is still queued, held by a process
\* that is gone, to be retried, or behind one that is: the create of another
\* device, or its own that the service had decided.  The row fits no version of
\* the record from then on, is never claimed, and never leaves the queue.
CreateIsOvertaken ==
  Active /\ \E i \in DOMAIN outbox : snapshot[outbox[i].m.id.record].seen

Stuck ==
  \/ BackupIsPartial \/ ReseedIsLate \/ CursorIsOld \/ NobodyToJoin
  \/ HistoryDiverges \/ ConflictRemains \/ CreateIsLost \/ CreateIsRefused
  \/ CreateIsOvertaken

\* A transition that was started ends, whatever was killed or lost on the way,
\* if its command is tried again; the exceptions are the ones named above.
Resumes == Intended \/ Active ~> Completed \/ Stuck
=============================================================================
