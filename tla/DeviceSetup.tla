----------------------------- MODULE DeviceSetup -----------------------------
(***************************************************************************)
(* The commands that set a device up, and the sync that relies on what     *)
(* they leave: a process enrols a credential (Enrollment), initialises a   *)
(* workspace (ProjectIdentity), or syncs (Memory.sync,                     *)
(* internal/app/runtime/runtime.go), one at a time.  A sync holds the lock *)
(* of the enrolment from before it reads the profile until it ends.        *)
(***************************************************************************)
EXTENDS Enrollment, ProjectIdentity

CONSTANTS
  Home,        \* the storage whose credential is enrolled
  MaxCommands  \* bound: commands started, and events beside them

ASSUME SetupAssumption ==
  Callers = Procs /\ Home \in Storages /\ MaxCommands \in Nat

VARIABLES
  started,  \* commands started, and events beside them, so far
  sync      \* what each process's memory sync is doing: the profile and the project it goes by

vars == <<enrollment, identity, started, sync>>

NotSyncing == [at |-> "idle", profile |-> NoProfile, id |-> NoId, project |-> NoProject]

Syncing(p, at) == sync[p].at = at
SyncIs(p, at) == sync' = [sync EXCEPT ![p].at = at]

\* Mutant: a sync does not wait for an enrolment.
NoWait == TRUE
LockIsFree == lock = Nobody

BeginSync(p) ==
  /\ LockIsFree
  /\ profile # NoProfile
  /\ lock' = p
  /\ sync' = [sync EXCEPT ![p] = [NotSyncing EXCEPT !.at = "profile", !.profile = profile]]
  /\ UNCHANGED <<profile, keyring, command, enrolled, unsure, clean, identity>>

Stored(x) == x.ref \in Refs => keyring[x.ref] = x.bearer

\* The bearer is read, from the keyring or from the file, and is one of the profile's device.
ReadCredential(p) ==
  /\ Syncing(p, "profile")
  /\ Stored(sync[p].profile)
  /\ SyncIs(p, "credential")
  /\ UNCHANGED <<enrollment, identity, started>>

\* The marker is read, then its binding, then the project the workspace resolves to.
ReadIdentity(p, w) ==
  /\ Syncing(p, "credential")
  /\ marker[w] # NoId
  /\ bound[Home][w].id = marker[w]
  /\ root[Home][w] = bound[Home][w].project
  /\ sync' = [sync EXCEPT ![p].at = "running", ![p].id = marker[w], ![p].project = root[Home][w]]
  /\ UNCHANGED <<enrollment, identity, started>>

\* The sync is over, something it needs is not there, or the process ends.
EndSync(p) ==
  /\ ~Syncing(p, "idle")
  /\ sync' = [sync EXCEPT ![p] = NotSyncing]
  /\ lock' = Nobody
  /\ UNCHANGED <<profile, keyring, command, enrolled, unsure, clean, identity, started>>

Init ==
  /\ EnrollmentInit /\ IdentityInit
  /\ started = 0
  /\ sync = [p \in Procs |-> NotSyncing]

\* A process runs one command.
Free(p) == Doing(p, "idle") /\ Calls(p, "idle") /\ Syncing(p, "idle")

Starts ==
  /\ started < MaxCommands
  /\ started' = started + 1

StartConfigure(p) ==
  /\ Starts /\ Free(p)
  /\ Begin(p) \/ ConfigureFile(p)
  /\ UNCHANGED <<identity, sync>>

StartInitialize(p, s, w) ==
  /\ Starts /\ Free(p)
  /\ InitializeProject(p, s, w)
  /\ UNCHANGED <<enrollment, sync>>

StartSync(p) ==
  /\ Starts /\ Free(p)
  /\ BeginSync(p)

\* What loses power has stopped: a command that holds the lock ends before.
Next ==
  \/ \E p \in Procs : StartConfigure(p)
  \/ \E p \in Procs, s \in Storages, w \in Workspaces : StartInitialize(p, s, w)
  \/ \E p \in Procs : StartSync(p)
  \/ \E p \in Procs : Enrols(p) /\ UNCHANGED <<identity, started, sync>>
  \/ \E p \in Procs : Initializes(p) /\ UNCHANGED <<enrollment, started, sync>>
  \/ Starts /\ LosePower /\ LockIsFree /\ UNCHANGED <<enrollment, sync>>
  \/ Starts /\ HappensBeside /\ UNCHANGED <<enrollment, sync>>
  \/ \E p \in Procs : ReadCredential(p)
  \/ \E p \in Procs, w \in Workspaces : ReadIdentity(p, w)
  \/ \E p \in Procs : EndSync(p)

Spec == Init /\ [][Next]_vars

----------------------------------------------------------------------------
(* Properties *)

\* Every variable keeps its shape, a process runs one command at a time, and a sync under
\* way holds the lock.
SyncTypeOK ==
  /\ started \in 0 .. MaxCommands
  /\ \A p \in Procs :
       /\ ~Syncing(p, "idle") => Doing(p, "idle") /\ Calls(p, "idle") /\ lock = p
       /\ ~Doing(p, "idle") => Calls(p, "idle") /\ lock = p
       /\ sync[p].at \in {"idle", "profile", "credential", "running"}
       /\ sync[p].id \in Ids /\ sync[p].project \in Projects \cup {NoProject}

\* While a sync runs, the credential it took stays the enrolled one and in its place, and
\* the project it sends and receives stays the one bound to the identity it names.
SyncKeepsItsOwn ==
  /\ SyncTypeOK
  /\ \A p \in Procs :
       /\ ~Syncing(p, "idle") => sync[p].profile = profile
       /\ sync[p].at \in {"credential", "running"} => Stored(sync[p].profile)
       /\ Syncing(p, "running") =>
            \E w \in Workspaces :
              bound[Home][w] = [id |-> sync[p].id, project |-> sync[p].project]
=============================================================================
