# Verification of vgxness

vgxness gives coding agents a durable memory: a local SQLite store with
full-text search, sessions of the agents that write to it, and an optional
synchronization of a project's memories through a PostgreSQL service. A device
pushes the mutations it queued, the service decides each of them once, and every
device pulls the history the service keeps.

This directory models the system in TLA+: what the service promises, how its
tables keep the promise, what its readers are served, what a device does with
its queue, its leases, lost answers and pulled changes, how a project moves to a
new history, how sessions, memories, credentials and identities are kept on a
device, and how the service admits requests and is operated. TLC checks the
models on small instances; TLAPS proves the main invariants of the service, of
the sessions, of the memory store and of a device's setup for every value of the
constants. Paths below are relative to the repository's root.

## 1. The system

### Components

| component | state it keeps | operations | modelled in |
|---|---|---|---|
| Push of the service (`internal/syncpg/repository.go`) | `changes`, `mutation_receipts`, `record_versions`, `projects`, `sessions`, `observations`, `observation_refs`, `conflicts`, `tombstones` | `Push`: one transaction per mutation | SyncHistory, SyncServer |
| Pull of the service (same file) | none of its own; reads the above | `Pull`, `PullProject` | SyncReaders |
| Read-only state of the service | none | `OwnerState`, `Discover`, `ProjectState` | no: projections |
| Devices (`internal/syncpg/devices.go`) | `devices`, `device_audit_events` | issue, authenticate, revoke | SyncServer (as they gate pushes), SyncConsole (delivery and commit), Admission (against a request under way) |
| Recovery verification (`internal/syncpg/verify.go`) | none | `VerifyRecovery` | SyncServer: the invariant `RecoveryVerifies` |
| Mutation validation (`internal/syncservice`) | none | `ValidateMutation` | SyncServer: the set of mutations |
| Client outbox (`internal/memory/sync.go`) | `sync_outbox`, `sync_outbox_claims`, `sync_push_results`, every `sync_version` | enqueue, claim, retry, apply a result, rebase, backfill | SyncClient, Transition |
| Client pull (same file) | `sync_project_cursor`, `sync_project_inbox`, `sync_conflicts`, `sync_tombstones` | apply a page of a project | SyncReaders, SyncClient, Transition, MemoryStore |
| Foreground synchronization (`internal/app/runtime/runtime.go`) | the claims and answers of one run | `Sync` | SyncClient, Transition, DeviceSetup |
| HTTP client (`internal/syncclient/client.go`) | none | push with one retry, pull with a check of the page | SyncClient, SyncReaders |
| Project transition (`sync.go`, `runtime.go`, `backup.go`) | `sync_project_transitions`, its records, backup intents, repairs, the backup file | reseed, rejoin, repair, finalize | Transition |
| Provider sessions (`internal/memory/provider_session.go`, `internal/cli/claudecode.go`) | sessions with a lease and a token, drafts, summaries | start, renew, context, draft, end, reconcile | ProviderSessions, SessionLedger |
| Local memory (`sqlite.go`, `service.go`, `forget.go`, `import.go`) | `observations`, the FTS index, tombstones, imports | remember, recall, update, forget, import | MemoryStore; SyncClient: the rows they queue |
| Enrollment (`runtime.go`, `sync_enrollment_lock.go`, `internal/secrets`) | two keyring slots, `sync_profiles` with a recovery marker, a lock file | configure, recover, compensate | Enrollment, DeviceSetup |
| Workspace identity (`identity.go`, `sqlite.go`) | the marker `.vgxness/project-id`, `project_roots`, `portable_project_identities` | resolve, initialise, bind, publish | ProjectIdentity, DeviceSetup |
| HTTP API and admission (`internal/syncapi/http.go`) | slots, permits, counters of fixed windows | admit, authenticate, serve, release | Admission |
| Service process (`cmd/vgxness-syncd/main.go`) | servers and their shutdown | serve, issue, revoke | Admission, SyncConsole |
| Admin console (`internal/syncadmin`) | one session, one confirmation | login, issue, confirm, revoke | SyncConsole |
| Migrations, storage configuration, argument parsing, MCP framing, TUI, inspection | the schema version; presentation | | no: see section 5 |

### How they interact

A local write commits the observation, its index entry and a row of
`sync_outbox` in one SQLite transaction. `Memory.Sync` takes the file lock
`.sync-enrollment.lock`, which enrollment, transitions and repairs take too, so
one of them at a time runs per storage root; local writers, the hooks of an
agent, and initialisations of a workspace do not take it. A run claims due rows
under a lease of one minute, pushes them in a request of up to 16, and applies
the answers one by one: each answer removes its row, leaves a receipt, moves the
record's `sync_version` and rebases the rows behind it. When nothing can be
claimed it checks in another transaction that nothing is queued, and then pulls
the project's changes page by page, each page in a transaction that moves the
cursor.

At the service a request takes a slot of the process, is counted against the
bearers checked, authenticated in PostgreSQL, counted against its device, given
one of the device's permits, and reaches the repository, where the transaction
of each mutation checks the device again. The console and the commands of the
operator issue and revoke devices in the same database.

A transition of a project takes a backup, drops the queue and the cursor of the
old history, and uses the same claims, pushes and pages until a snapshot of the
project is published. Agents reach the store through hooks, each a process of
its own, and through the MCP server; the two meet in the rows of a session.

Commands reach only the project flow. The owner-global flow of the same files
(`runForegroundSync`, `BootstrapSync`, `BootstrapOwnConflict`,
`PullConflictResolutions`, `RenewSyncOutboxClaim`), `AutoSyncProject`,
`Store.Update` and `ImportLegacy` have no caller outside the tests; the last
three are modelled all the same, as entry points of their components.

### What is hard

- Two devices push against the same version, or give one topic to two
  observations; deletions, resolutions and archives meet stale devices.
- An answer is lost after the decision. The mutation is pushed again, in the
  same request's retry, a later run, or after a crash; a copy of the abandoned
  request may be decided later still.
- A lease runs out while its run is alive; a killed run leaves its claims.
- The user writes the same record again while its earlier write is on its way,
  or between two transactions of a run or of a transition.
- A device pulls its own changes and other devices' changes in the service's
  order, which is not the order in which it learned of its own.
- Each decided mutation writes four to six tables that must agree for a backup
  to be restorable.
- Pages are cut by count and by size while the history grows and records move
  between projects.
- A transition is killed between its backup, its snapshot and its completion,
  other devices publish meanwhile, and the cloud may be emptied once more.
- Hooks of one session run together, repeat calls and die; the lease of one is
  taken over by the next while the clock stands still or is set back.
- Rows, the search index and topics are kept in step by eight operations, of
  agents, of a pull and of imports, that were each written on their own.
- The keyring, the database and the file system share no transaction; a command
  may stop after any call of either.
- Requests stall between a limiter's clock and its lock, a permit's entry is
  deleted while another request takes it, and a shutdown has a deadline.
- Pages of the console are lost or posted again; a credential is delivered
  before the transaction that creates it commits.

`PROJECT.json` lists these hazards one by one with their lines and the
properties aimed at each.

## 2. The modules

| module | models | instantiated by |
|---|---|---|
| SyncHistory | the abstract promise: an append-only log in which a mutation of a device is decided once, accepted versions of a record grow by one, and a conflict holds the version it lost to | refinement in SyncServer and SyncClient |
| SyncServer | the service's tables and everything `Push` does to them; issue, authentication and revocation of devices | MCSyncServer |
| SyncReaders | SyncServer with readers that pull page by page, and the checks of the client and of the store on a page; EXTENDS SyncServer | MCSyncReaders |
| SyncClient | one device with its local writer, its run, the clock, the other devices and a service that is a SyncHistory | MCSyncClient |
| Transition | reseed, rejoin and repair of a project on one device, with the service, other devices and the operator | MCTransition |
| SessionLedger | the abstract promise of provider sessions: opened once, closed once, summarised once | refinement in ProviderSessions |
| ProviderSessions | sessions, leases, tokens and drafts, with the processes and agents that use them | MCProviderSessions |
| MemoryStore | the rows of a store, the search index, tombstones and imports | MCMemoryStore |
| Enrollment | the credential of a device: keyring, profile, marker and lock | by DeviceSetup |
| ProjectIdentity | the markers of workspaces and their bindings in storages | by DeviceSetup |
| DeviceSetup | commands that enrol, initialise and sync, side by side; EXTENDS Enrollment and ProjectIdentity | MCDeviceSetup |
| Admission | requests on their way through the limits of the service, and its shutdown | MCAdmission |
| SyncConsole | the console, the device commands, and the credentials they issue | MCSyncConsole |
| SyncServerProofs, SyncClientProofs, TransitionProofs, ProviderSessionsProofs, MemoryStoreProofs, DeviceSetupProofs, AdmissionProofs, SyncConsoleProofs | theorems about these; SyncServerProofs also holds those of SyncReaders, DeviceSetupProofs the lemmas of ProjectIdentity | |

SyncServer and SyncClient meet in SyncHistory: `ImplementsHistory` shows that
the tables are such a log, and SyncClient starts from the log.
`ServiceIsHistory` shows that the service as SyncClient writes it, with its
repeated and late requests, is one too.

### SyncServer

Variables are the tables, named as in
`internal/syncpg/migrations/001_initial.sql`. `Verdict` is the chain of checks
of `pushOne` in the code's order: replayed receipt, base version, prerequisites,
conflict ids, topic, competition. Its outcomes are the actions: `PushAccept`
writes the change, the receipt, the version, the canonical row, the tombstone
and the settled conflicts (`pushOne`, `writeCanonical`, `writeTombstone`);
`PushConflict` is `writeConflict`, which reserves a record that does not exist
yet. A refusal leaves every table alone. A request is authenticated first and
then pushes mutation by mutation, so that a revocation may fall in between;
`EndRequest` may end it anywhere, which is also the loss of the answer.
Mutations are what `ValidateMutation` lets through, up to the data the decisions
read: record, kind, base, project, session, topic, lifecycle, references,
conflict ids. Titles, contents and hashes are left out; two different mutations
with one id differ in what is modelled.

### SyncReaders

A reader has a cursor (position, watermark) and the changes it was served.
`Page` follows `pull`: the watermark of the first page, the filter of a project
by what the change and its predecessor say, the order, the cut by limit or by
size (at any change), and the cursor of the last page. `ClientTakes` is
`pullMatches`, `StoreTakes` is `validateProjectPulledPage`.

### SyncClient

A local write is its number; `outbox` rows hold the mutation, whether they wait
for their next attempt, and what is left of their lease (`sync_outbox` joined
with `sync_outbox_claims`). `run.pc` is where `runForegroundProjectSync` stands
between two of its transactions or requests:

| pc | next step in the code |
|---|---|
| claim | `ClaimDueSyncOutboxForProject`: due, not leased, oldest of its record, record not in conflict, base equal to the local version |
| push | the request; the service decides mutation by mutation (`Push`), the answer arrives whole (`Receive`), the client sends again (`Resend`), or everything is lost (`LoseAnswers`, with `markClaimsRetry`) |
| apply | `ApplySyncPushResult`, or `GiveUp` when an answer cannot be applied |
| check | `SyncQueueSummaryForProject` |
| pull | `ApplyProjectPulledPage`, until `PullEnds` |

`Stop` ends a run anywhere: a kill, a cancellation, an unauthorized answer, a
failed request of the pull, or the last of its batches. What was on its way
joins `late`, from which the service may decide it at any time or never.
`OtherDevice` appends what the service lets other devices do. The refusals that
depend on data the model leaves out (a topic held elsewhere, a missing
prerequisite, a revoked device) are nondeterministic, chosen by `Answers`.

Abstractions: only observations are synchronized (the identity rows of projects
and sessions, and references between creates, only delay a claim); a page holds
one change, as pages are consecutive parts of the history applied atomically, so
a larger page is several of these or none; the watermark and page filter are
SyncReaders' subject; claim tokens are dropped because the lock lets one run
live at a time; writes are ordered as a clock that never steps back orders them;
the service's check of other devices' writes is reduced to what the history
requires.

### Transition

One project of one device, from the moment the history it knew is gone to the
end of its transition. A completed row of `sync_project_transitions` is never
replaced, so there is no second transition and the model stops there (`Done`).
Variables are the tables of the store that the commands touch, the file of the
backup, the log of the service, and `run`, the command that holds the lock and
where it is between two transactions, requests or file operations.

| step of `run.pc` | code |
|---|---|
| open, probe | `OpenSync`, `OpenTransition`, `ProbeEmptyProject` |
| intent, backup, write, seal | `EnsureSyncProjectBackupIntent`, `ReserveBackup`, `CreateSQLiteBackup` or `ReuseBackup`, `SealSyncProjectBackupIntent` |
| prepare, continue | `PrepareSyncProjectTransition` drops the old queue and takes the snapshot; `Continue` is `continueSyncProjectTransition` |
| claim, push, apply, check | as in SyncClient, with the order between projects, sessions and observations, the rows that refer to a record without a create (`Orphaned`), and the repair that goes first; a transition does not check the queue before it pulls (`CheckQueue`): its store, `transitionProjectStore`, lacks the method `runtime.go:1048` asks for |
| discover, page | `Discover` of the service's history, pages of several changes |
| finalize, last | `FinalizeSyncProjectTransition`: checks that nothing changed, queues what is still to publish, recovers creates refused for their prerequisites, completes |

Beside it go the local writer (`EnqueueLocalWrite`, which `Blocked` keeps out
while an intent or a transition is active), the backfill, the repair of a
project's create, late decisions, other devices, and a reset of the cloud. The
content of a record is one of four values: absent, shared, edited here, edited
elsewhere; a hash is the content it was taken of. References that go round have
no dependency order, and the transition is refused (`Acyclic`); it is the
assumption under which an order exists, and `CanPrepare` checks it as the code
does. The lock of a transition is
the enrollment's. Left out: the audit of a plan, the identity row of a
transition (there is at most one), and `checkpoint` files of SQLite.

### ProviderSessions

Sessions of one project, their drafts and the summaries they leave, and three
kinds of users: hooks of Claude Code, each a process that holds a session only
between two transactions; programs that call the store directly and may repeat a
call or die between two; agents that write drafts over MCP with the time they
expect. `TakeOver`, `InsertSession` and `FindClosed` are the branches of
`StartProviderSession`; a start first reconciles (`Reconciled`) the sessions
whose lease ran out, in the order and up to the limit of the query. The clock
may stand still, run and be set back; `Monotonic` pushes a time past the row's.

Named behaviours of the code that the model keeps: a forgotten summary is still
handed over to the next session; an agent that lost the answer of a draft cannot
write another; after `Retries` completed successors a session identifier cannot
be started; ending a session fails while the clock is before its creation; the
draft of a session whose hook never came is lost when its lease runs out
(docs/claude-code.md:44-60); pre-compact takes a session over and leaves it. A
hook reads its event once the session is active. The column `checkpointed` is
left out, as nothing reads it; a failing queue ends a transaction like `Stop`.

### MemoryStore

The rows of one project, scope and producer, the FTS index beside them,
tombstones and the ledger of imports. Every operation of the store is one
transaction and one action; `Get` and `UpdateObservation` are an agent's reading
and its update, with anything in between. Pulled changes write what
`applyPulledObservation`, `applyPulledConflict` and `applyPulledTombstone`
write. `clock` may be set to any time; writers that stamp the bare clock may
give a row no later time, which `rewound` records.

Named behaviours: `ImportLegacy` folds the projects of a retired file into one,
and of the rows of one topic that a version 3 file may then hold (003:66-68
makes topics unique within a project and scope) it inserts the first and ignores
the others without a word (`Folds`, import.go:154-164), while the file is
recorded as imported: `ImportMerges` says that this is all that is left out.
Active rows of a retired file are taken to be in its index. Imported rows that
await review are not indexed; a deleted row may enter the index again by an import but is never found; the topic of an
archived observation stays taken until its tombstone; an agent can remember
under the topic reserved for a session's summary, which then blocks the close of
that session; an MCP save checks its session and saves in two transactions.
References are SyncServer's subject; ranking and capture are left out.

### Enrollment, ProjectIdentity, DeviceSetup

Enrollment is `ConfigureSync`: one step per call of the keyring or statement of
the database, each of which may fail with or without its effect, and may be the
last. A profile names the slot of its bearer and, while the other slot may hold
an old bearer, a marker for it. The lock is the `flock` of
`.sync-enrollment.lock`, which goes with its process. ProjectIdentity is
`InitializeProject` and what it calls: resolve the project of a workspace in a
storage, make the folder, publish the marker by link, sync the two directories,
bind. It has no lock. `kept` and `folder` are what a loss of power leaves.
DeviceSetup runs both in several processes, with `Memory.sync` beside them: it
takes the lock, reads profile, credential and identity, and relies on them until
it ends.

Named behaviours: a profile statement that commits without an acknowledgement is
followed by a compensation that deletes the bearer that is now active (`unsure`;
docs/sync.md:262-265 say that the previous credential stays intact); references
of the older format are never removed; the marker is redundant for slots, as the
next enrolment clears the inactive one anyway; a status or a plan reads profile
and credential without the lock and may report a credential missing in the
middle of an enrolment (`runtime.go:551`); a marker copied with its workspace
makes later initialisations conflict. File formats, symlink and permission
checks, and the contents of credential files are left out.

### Admission

A request goes `counting` (global window), `authenticating` (PostgreSQL),
`metering` (device window), `admitted`, `serving` (with a permit), `working`
(the backend found the device active), `leaving`, `answered`. A limiter reads its clock before its lock, so `read` may
be older than `now`. Windows are fixed; the limiter remembers `MaxDevices`
devices and evicts by the order of the code, which may forget a window that
still runs although an expired one could go: `RatesHold` accounts for that with
`evicted`. Capabilities are answered without asking for the device again
(`AnswerAlone`). Everything else looks at it in `ServeSync`: a pull, a discovery
and a project's state in a read-only snapshot without a lock
(`repository.go:273-288`), a push under the lock of each mutation's transaction,
which answers a revoked device 200 with all of it rejected. What was found or
decided goes out in `AnswerSync`; the device may be revoked in between, and
`late` counts these answers. `BeginShutdown`,
`Drained`, `Deadline` and `Exit` are the end of the process. docs/sync.md:33-38
say that the limit of a device is applied before PostgreSQL is asked;
`authenticate` (`http.go:431-464`) asks PostgreSQL first, as it must know the
device. `/healthz`, startup and the connections themselves are left out.

### SyncConsole

One operator session and one confirmation, as the handler keeps them, the
browsers with every page they were ever sent, the devices, and the commands that
issue and revoke beside the console. A commit may be unacknowledged, a page or a
bearer not written. `shown` is a bearer the service believes delivered; `unsure`
is a device whose operator was told, or can tell, that its state is unknown: a
killed command, an unacknowledged commit, a bearer that could not be written.
The audit, the form's syntax, the origin check and the contents of the overview
are left out.

## 3. What is checked

Every run passes, and every property is broken by a mutant in `PROJECT.json`: a
plausible error in the mapped code, such as a dropped prefix of a key, a rebase
onto the first row, a check made once instead of again. One type invariant per
module is part of an invariant of its runs.

| run | instance | shows |
|---|---|---|
| server_devices | 2 devices, either revoked at any time, replays; 2 observations that may refer to each other, 2 projects | `RevokedIsSilent`: no change of a revoked device after its revocation, even in the middle of a batch; `ImplementsHistory` |
| server_conflicts | 2 observations, a topic, a session, 2 projects, all kinds | `RecoveryVerifies`: all tables keep their types and agree as a restore demands; `TablesAgree`: one active observation per topic, the canonical row is the last accepted mutation's, no foreign key breaks when sessions and observations move; `DeletionIsFinal`; `SettledOnce`: a conflict is settled by one resolution, for good |
| readers | a history that grows under a paging reader, owner or project scope | `PagesAreExact`: each change of the scope once, in order; `ReadersAreNotStuck`: client and store take what the service serves, with one named exception; `ServedIsSettled`: what was served does not change |
| client_writes | 1 device, 2 observations, saves and forgets, lost answers, late and repeated requests, leases that run out, kills | `NoWriteIsLost`: the last write of a record is queued or answered; `AnswersApply`: a run whose lease holds can record its answer; `ServiceIsHistory` |
| client_devices | 1 observation, 3 local writes, every foreign change, refusals | `VersionsHold`: a decided mutation whose answer was lost stays queued exactly as it was decided, and `sync_version` is what the answers and the pulled changes add up to; `PullStopsOnlyThere`: a pull stops only at the five kinds of change `StopsPull` names; `SettledIsEqual`: when nothing is queued, open or refused and the history is pulled, the device holds what the service holds |
| client_settles | fairness, no foreign changes, no refusals | `Quiesces`: all writes are answered and their echoes pulled |
| transition | fairness; a project, a note updated in the old history and an unsynchronized reply to it; any two of a local write, a kill or loss, one more reset, a foreign change | `BackupHoldsQueue`: what the transition drops is in its backup; `SnapshotStaysTrue`: project and queue stay what the snapshot says; `CompletedIsShared`: completion means both sides are merged; `RepairGoesFirst`; `Resumes`: a command tried again ends what was started, except in the nine situations of `Stuck` |
| sessions | 2 processes, 2 agents, a Claude session and a program whose session is older than leases | `OutcomeIsOne`: a session is completed exactly when it has one summary, and its lease is held once; `LiveLeaseKept`: only a lease that ran out is interrupted by another's start; `DraftIsKept`: a draft is replaced by its author only; `ImplementsLedger` |
| memory | 2 observations, a topic, a summary's topic, an agent, 2 retired databases | `RecallIsExact`: search and listing agree; `SettledStays`: what was forgotten or closed is not written again here; `NoLostUpdate`: an agent replaces only what it read; `ImportMerges`: a recorded import leaves out only rows whose topic its file has twice |
| setup | 2 processes, 2 workspaces, 2 storages, 4 commands, losses of power | `ActiveIsUsable`, `BearersAreAccounted`: profile and keyring after any end of an enrolment; `IdentityIsOne`: those that bound a workspace bound the same identity, which survives; `SyncKeepsItsOwn`: nothing is replaced under a sync |
| admission | 3 requests, 2 devices of which the limiter remembers one, strangers | `PermitsBalance`: what a request takes is given back, and permits count their holders; `RatesHold`; `RevocationIsFelt`: a revoked device is still answered no more than its permits allow; `CleanEndLosesNothing` |
| console | 2 devices, 4 tokens, 2 renderings at a time | `SessionIsHeld`: the session is one a browser holds; `ConfirmedOnce`; `CredentialsAreAccounted`: no device is active whose bearer nobody has, unless its issue ended openly badly |

### Bounds

`MaxSeq`/`MaxLog` bound the history, `MaxWrites` the local writes. The server
instances need a create, a competing write, a resolution or deletion, and a
stale request after it: four or five changes. References between observations
multiply the requests and are in server_devices. On the client three writes make
a row that is collapsed, a row that is rebased and a row in flight; four foreign
or own changes make an update, a contest over it, its resolution and one more
write. The lease is one or two ticks: what matters is whether it ended before
the answer. Batches hold one or two mutations, enough for an answer that cannot
be applied to leave another behind it.

Transition allows one local edit, one kill or loss, one more reset and one
foreign change (`MaxEdits`, `MaxKills`, `MaxHistory`, `MaxForeign`), and two
of them together (`MaxEvents`): each may fall between any two of the twenty
steps. With three the safety properties hold as well (571 thousand states), but
liveness takes too long. The note has version 2, so that the new history can answer its update
with an older version; the reply sorts before the note it needs. A session would
be one more record between the project and the reply, created like the project;
with it (226 thousand states) the safety properties hold as well. In sessions a lease lasts one tick of a clock of three that may be set
back once: a lease ends, is taken over and ends again. Two texts tell a draft
from the one that replaced it, three tokens a holder from the one before it. In
memory two times and two texts are an old and a new one. In setup two enrolments
with an initialisation and a sync beside them need four commands; with five the
properties hold as well (4.26 million states), at a cost too large for a run
kept with the others. In admission `GlobalPerWindow` = 2, `DevicePerWindow` = 1
and `Slots` = 2 are below the number of requests, so that every limit is met;
time covers two windows. (With windows of two
ticks instead of three the properties hold as well, on 4.6 million states.) In console four tokens make a session, the one that
replaces it and confirmations in each.

Symmetry is used where identifiers are only compared with one another and the
properties do not name them; the two liveness runs have none.

### Fairness

`FairSpec` of SyncClient assumes that the clock runs and syncs are started again
(weak fairness of `Tick`, `Start`, `PullEnds`), and that a step of a run that is
possible again and again is taken at some time (strong fairness: kills and lost
answers may interrupt any run, not all of them). Time does not pass a live run's
lease: the capability check and the push are bounded by `foregroundSyncTimeout`,
15 s each, and `foregroundSyncLease` is 60 s. The user is not obliged to write,
the network may lose any answer, and nothing is assumed of `DecideLate`.

`FairSpec` of Transition assumes that a command that runs takes its next step
unless it is killed (weak fairness of `Proceed`: the steps are those of one
process, of which one is possible at a time), that leases run out and retries
fall due (strong fairness of `ClaimsExpire` and `RetriesFallDue`, which a run
that claims again may disable), and that
the operator tries again and again a sync, and the command of the transition
under way (strong fairness of `Start("sync")` and `TryAgain`, possible whenever
no other command holds the lock). Each case of `Stuck` is there because without
it a retry fails for ever; the conflict of the old history does not occur in the
instance, whose `Contested` is empty.

### Where code and documentation part

The properties name these as exceptions; the code is modelled as it is.

- docs/sync.md:254 has retries resume a transition. One kill is enough for a
  reseed that nothing else disturbs: the service accepts the create of a record
  and the process dies before it has applied the answer. A retry within the
  lease of 60 s can claim nothing, does not check the queue (`runtime.go:1048`),
  and pulls that create: the record has `sync_version` 1 and is seen
  (`sync.go:3687-3705`). The row, whose base is 0, is never claimed again
  (`sync.go:2789`), so the queue never empties and the transition, which keeps
  the project closed to local writes, never completes. A retry after the lease,
  which sends the row again and gets the same answer, completes. `Resumes`
  excepts this as `CreateIsOvertaken`; `SnapshotStaysTrue` says what still holds.

- A referenced observation may leave its project by an archive or a resolution
  (`repository.go:871` checks incoming references for updates only), although
  `TestRepositoryPushRejectsPrerequisitesAndMoves` expects the move to be
  refused. `DependentsStayInProject` speaks of sessions and projects only.
- A tombstone of an observation that only a contested create reserved is
  accepted, and `pullMutation` (`repository.go:430`) then fails every page that
  holds it. `Encodable` is part of `Servable`; the reader properties speak of the
  pages that are served.
- The service ends a project's last page at the watermark (`repository.go:407`);
  the store demands that it end at its last change (`sync.go:3787`).
  `EndsBeyondItsChanges` is the exception of `ReadersAreNotStuck`.
- The echo of an own archive is not recognised (`sync.go:3960`) and its version
  check fails at every retry: first case of `StopsPull`.
  docs/architecture/project-scoped-memory-sync.md:23 has a retry resume.
- The answer of an own conflict moves the local version before the content of
  that version is pulled; the change with that content, and the conflict behind
  it, are never reached, although docs/sync.md:239 has them materialized: second
  case.
- A conflict another device pushed over a version this device has since replaced
  cannot be applied (`sync.go:4440`): third case.
- A write made after a conflict was answered, and before that conflict is
  pulled, is accepted over content this device never saw (`sync.go:2788`).
- A write that lands between the check of the queue and a page
  (`runtime.go:1048`) is overwritten locally, and its row keeps a base no claim
  matches.
- A write that lands between that check and a pulled resolution is rebased and
  published, and its own device keeps showing the winner, although
  docs/sync.md:233 says that what is echoed is in place: the exception of
  `SettledIsEqual`.
- docs/sync.md:262-265 and docs/sync.md:33-38: see DeviceSetup and Admission.

## 4. What is proved

Each theorem holds for every value of the constants that satisfies the module's
assumption, the bounds included.

| module | theorem | property |
|---|---|---|
| SyncServerProofs | TypeCorrect | `[]TypeOK` |
| | RecoveryAlwaysVerifies | `[]RecoveryVerifies` |
| | RevokedNeverWrites | `RevokedIsSilent` |
| | DeletedStaysDeleted | `DeletionIsFinal` |
| | ConflictsSettleOnce | `SettledOnce` |
| | TablesAlwaysAgree | `[]TablesAgree` |
| | HistoryIsImplemented | `ImplementsHistory`, by the refinement mapping |
| | ServedStaysSettled | `ServedIsSettled` (SyncReaders) |
| | PagesStayExact | `[]PagesAreExact` (SyncReaders) |
| | ReadersGoOn | `[]ReadersAreNotStuck` (SyncReaders) |
| SyncClientProofs | SentStaysFrozen | `[]ClientInv`, the inductive invariant |
| | WritesAreKept | `[]NoWriteIsLost` |
| | AnswersAreApplied | `[]AnswersApply` |
| | BeliefsAreTrue | `[]VersionsHold` |
| | ServiceKeepsHistory | `ServiceIsHistory`, by the refinement mapping |
| | SettledAreEqual | `[]SettledIsEqual` |
| | PullsStopOnlyThere | `[]PullStopsOnlyThere` |
| TransitionProofs | BackupKeepsQueue | `[]BackupHoldsQueue` |
| | SnapshotHolds | `[]SnapshotStaysTrue` |
| | CompletionIsShared | `[]CompletedIsShared` |
| | RepairIsFirst | `[]RepairGoesFirst` |
| ProviderSessionsProofs | OutcomesAreOne | `[]OutcomeIsOne` |
| | LiveLeasesAreKept | `LiveLeaseKept` |
| | DraftsAreKept | `DraftIsKept` |
| | LedgerIsImplemented | `ImplementsLedger`, by the refinement mapping |
| MemoryStoreProofs | RecallIsAlwaysExact | `[]RecallIsExact` |
| | SettledRowsStay | `SettledStays` |
| | NoUpdateIsLost | `NoLostUpdate` |
| | ImportsMerge | `ImportMerges` |
| DeviceSetupProofs | ActiveAlwaysUsable | `[]ActiveIsUsable` |
| | BearersAlwaysAccounted | `[]BearersAreAccounted` |
| | IdentityAlwaysOne | `[]IdentityIsOne` |
| | SyncAlwaysKeepsItsOwn | `[]SyncKeepsItsOwn` |
| AdmissionProofs | PermitsAlwaysBalance | `[]PermitsBalance` |
| | CleanEndNeverLoses | `[]CleanEndLosesNothing` |
| | RatesAlwaysHold | `[]RatesHold` |
| | RevocationIsAlwaysFelt | `[]RevocationIsFelt` |
| SyncConsoleProofs | SessionAlwaysHeld | `[]SessionIsHeld` |
| | CredentialsAlwaysAccounted | `[]CredentialsAreAccounted` |
| | ConfirmsOnce | `ConfirmedOnce` |

**SyncServer.** `RecoveryVerifies` is not inductive. A receipt that repeats an
id, a row that is not in step with the newest version, or a conflict that is not
before the head of the history would let a legal push break it. The inductive
invariant `RecoveryInv` is the type invariant, the links of the log
(`LogLinked`: one receipt per device and id, rows in step with their newest
versions, changes and receipts in both directions), `TombstonesLinked`,
`ConflictsBefore` (a conflict belongs to an earlier change) and
`ResolutionsLinked`. Each action is a step of the proof, with one step below it
per conjunct it can disturb. The action properties follow from the actions and
the parts of the invariant they cite. The bounds on versions and sequence are
proved too, so no arithmetic of the service leaves its range.

`TablesAgree` is proved from `RecoveryInv` and two facts
that make it inductive: a record with an accepted version exists
(`AcceptedExist`), and a row that exists names a project (`ProjectsNamed`).
The refinement needs two more. The version of a row is the one its record's last
change says (`LastIsRow`), which is the current version of the history. And
what an accepted tombstone erased is still erased (`Buried`), so that the
history accepts nothing on a deleted record. An entry is a change with its only
receipt; a decided push leaves the entries there are and adds one (`EntriesAfter`)
that the history accepts or keeps as a conflict, as its receipt says.

**SyncReaders.** What a page holds depends on what later pushes do not touch.
`ServedInv` is the invariant of the refinement with the links a served change is
read through: a conflict belongs to one change and the other way round, and an
accepted tombstone is the change its table names. From it every push, whatever
its verdict, leaves the project of each change and what can be encoded as they
were (`ServedStaysSettled`). `PagesAreExact` is inductive beside it: a page ends
at a change of its scope or at the watermark, and what lies between is not of
the scope, so no change is passed over. That client and store take every page
is then a fact about one page of a settled history.

**SyncClient.** The properties rest on one idea: a row that was ever sent is
frozen. It stays claimed, the oldest of its record and as it was sent, until its
answer is kept (`Sent`), because saves only add newer rows, a rebase only
replaces rows that no run claimed, a pull only starts when nothing is claimed
(`PullInv`), and a claim takes the oldest row only. So each late request and each
entry of the log that came from here is answered or speaks of a row that is
still queued as it was (`LateInv`, `DecidedInv`), what is in the hands of the run
has the version it was claimed at (`BatchInv`), an answer says what the log says
(`Tells`), and the local version bounds and is one of the acknowledgements
(`Bounds`, `Given`). `ClientInv` is their conjunction with the order of the
history: versions move up, an accepted entry by one. The refinement is that a
step adds at most one entry, and that this entry is a `Decision` of the history
as it stands.

`SettledIsEqual` needs one more invariant, of the records that no contest, no
resolution and no refusal has met (`Plain`; once one has, for good). The bases
of their queued rows go up with their ids and never pass the local version
(`InStep`); and unless a row is behind that version, the device shows the newest
row, or, when nothing is queued, the change its version came with (`Shows`). A
pulled change over a queued write leaves that row behind for good, and no claim
takes it; an answer is recorded for the oldest row at the local version, so then
none is behind. A settled record is `Plain`, because only a resolution closes a
contest.

`PullStopsOnlyThere` says that a change no cause of `StopsPull` accounts for meets
what its applier demands: `Applies` is the guard of the page's action, and TLC
agrees that it is when the action is ENABLED. `GroundInv` is about the history:
each change was decided at the version of one before it, or is the first of its
record; a tombstone is the last accepted change; a resolution names conflicts
that no other one settled. `PageInv` is about the device: who has a record has
pulled its first change or made it (`NewcomerInv`), a deletion and a conflict it
knows were pulled (`TombstoneInv`, `PulledConflictInv`), and only the answer to a
contested write takes a record past changes of the others that are still to come,
whose own conflict is then still to come as well (`AheadInv`). So the next change
finds the version it was decided at.

**Transition.** `TransInv` follows the transition. While the intent is there,
local writers are kept out, so a whole backup has the content of each record and
each queued write (`BackupInv`), up to the step that drops the queue. From then
on the project stands still: each record of the snapshot has the snapshot's
content, and a queued row is a create with that content, once per record; its
record has no version yet or was seen, since pages are pulled with rows still
queued (`ActiveInv`). A run only holds rows of records that were not seen
(`BatchInv`): what it claims fits the version of its record, which stands still
while the run lasts. A record counts as seen only when it is
here with version 1, and, while the history of the cursor lives, in that history
at or before the cursor as an accepted create of the content (`SeenInv`); the
bounds on cursors and watermarks are `CursorInv`. Completion then says that the
queue is empty and everything is seen. `PlaceInv` and `BatchInv` say what holds
where a command stands, among it that what an answer accepted was published in
the first history, which is what a completed repair promises.

**ProviderSessions.** `OutcomeIsOne` needs two facts it does not say, and with
them is inductive: an external identifier has one row (`IdentityOnce`), and a
lease lasts `TTL` from the last time its row was written (`LeaseFollowsUse`),
from which `LiveLeaseKept` follows with the choice of the rows that ran out. `DraftIsKept` needs what agents know (`AgentsKnow`): the time an agent expects
is never ahead of the draft's, equals it only when the draft is its own, and is
0 while there is none. The
refinement is proved step by step: every action is a start, a completion, a
closing without a summary, or leaves what the ledger sees alone.

**MemoryStore.** All operations but three write one row and what the index has
of it; `Writing` says what they have in common, and the invariant is proved once
for it. Beyond types and topics it says that the index is beside the rows
(`Exact`: an active row is indexed by its text, nothing archived or deleted is
found), and of what an agent has read that the row is still the same, has a
later time, or was rewound (`Remembered`), which is why comparing times is
enough.

**DeviceSetup.** The lemmas of the identity come first, then those of the
credential, then the theorems. `SetupInv` is the
conjunction of: `CredentialInv`, what the keyring, the profile and the marker
are at each step of the command that holds the lock, and that commands without
it are idle; `IdInv`, that a caller past a point of `ensureProjectID` holds the
marker's id and knows what it synced, unless others meddled with the workspace,
and that bindings are one to one; `OneCommand`, that a process does one thing;
`RunningIsBound`, that a running sync goes by a binding, which holds because no
step changes a binding that is there (`BoundStays`).

**Admission.** `PermitsBalance` says which requests each counter counts; with
it, what is proved by induction is that only authenticated devices come past the
first limiter, and that a process that closes connections has given up a clean
end. The rates go by the pace of a limiter (`Paced`): what it let through is at
most the allowance of its open window, plus a full allowance for each window
begun before it since the first request, and as much again as all windows so far
allow for each time the device was forgotten.
A request that reads its clock early and takes the lock late keeps it, because
a window only begins at a time at least one window later. `RevocationIsFelt`
needs `Felt`: what a revoked device was answered since, with the requests of it
the backend still works on, is at most its permits. None joins them, as the
backend looks at the device before it takes a request (`OnlyTheBackendTakes`);
each holds a permit, and each is answered once.

**SyncConsole.** Two facts make the properties inductive (`Pages`): the page of
the open confirmation has not been accepted, and no page holds a token that is
still to be drawn. The first is why a page counts once, the second why a new
confirmation is not met by an old page.

**Model-checked only.** What is out of the prover's reach: liveness under
fairness (`Quiesces`, `Resumes`), that the guard `Applies` is what ENABLED says,
and induction over data. For the last reason orders are not computed by
recursion: `FirstOf` and `Sorted` choose for each place the element with that
many before it, `DependencyOrder` is chosen by what each of its places is, and
that such choices exist is proved by counting. No module declares a RECURSIVE
operator.

## 5. Not modelled

- Text: titles, contents, hashes, normalization, ranking, capture, formatting.
- The owner-global synchronization, which no command calls.
- Encodings and size limits of HTTP, except the cut of a page by size.
- `OwnerState`, `Discover` and `ProjectState` as answers to a reader: read-only
  projections. Transition uses what `Discover` says of the history.
- Migrations: ordered, checksummed scripts, each applied once in the transaction
  that records it; what serialises them is the database's lock.
- Storage configuration, argument parsing, MCP framing, TUI and inspection:
  presentation and delegation to what is modelled.
- The audit of devices and its trimming, which decide nothing.
- A device that enrols again and pushes old mutations under its new id against
  the keys of `record_versions`: the product of DeviceSetup and SyncServer is
  beyond TLC. Likewise several SyncClient devices over one SyncServer; the two
  meet in SyncHistory instead.
- A clock that steps back under the outbox. Sessions, rows and admission have
  clocks that stand still, and the first two clocks that are set back.
