----------------------------- MODULE Enrollment -----------------------------
(***************************************************************************)
(* The credential of a device: memory sync configure                       *)
(* (ConfigureSync and configureSyncFile, internal/app/runtime/runtime.go), *)
(* which stores a bearer in the keyring of the operating system, points    *)
(* the profile of the local database at it, and removes the bearer before  *)
(* it.  The keyring and the database share no transaction.  A file lock    *)
(* serialises the commands, and goes with a process that ends.             *)
(*                                                                         *)
(* Each call of the keyring and each statement of the database is a step,  *)
(* and a command may end after any of them: an error returned by a call    *)
(* (whether or not the call had its effect), a deadline and the end of the *)
(* process leave the same behind.  A bearer is a number, in the order they *)
(* are enrolled, and each is of a device of its own.                       *)
(***************************************************************************)
EXTENDS Naturals

CONSTANTS
  Procs,      \* processes that use the local storage
  MaxBearers  \* bound: bearers enrolled

\* The lock of no process.
Nobody == "nobody"

ASSUME EnrollmentAssumption == MaxBearers \in Nat /\ Nobody \notin Procs

VARIABLES
  profile,   \* the row of sync_profiles
  keyring,   \* the bearer stored under each reference, 0 when there is none
  lock,      \* who holds .sync-enrollment.lock
  command,   \* what each process's memory sync configure is doing
  enrolled,  \* bearers enrolled so far
  unsure,    \* history: a profile was written and its writer was told that it was not
  clean      \* history: the last enrolment ended well

enrollment == <<profile, keyring, lock, command, enrolled, unsure, clean>>

Missing == 0
NoRef == "none"
Slots == {"first", "second"}
\* A reference of an earlier version, and the marker of a credential kept in a file.
Legacy == "legacy"
File == "file"
Refs == Slots \cup {Legacy}

NoProfile == [ref |-> NoRef, bearer |-> Missing, previous |-> NoRef]
Idle == [at |-> "idle", bearer |-> Missing, old |-> NoRef]

\* The deterministic slots of the storage: the one that is not in use.
Inactive(ref) == IF ref = "first" THEN "second" ELSE "first"

\* The reference a new profile remembers, for a command that ends before it is removed.
Remembers(ref) == IF ref \in Slots THEN ref ELSE NoRef

Removed(ref) == [keyring EXCEPT ![ref] = Missing]

Doing(p, at) == command[p].at = at
Goes(p, at) == command' = [command EXCEPT ![p].at = at]
Ends(p) == command' = [command EXCEPT ![p] = Idle] /\ lock' = Nobody

----------------------------------------------------------------------------
(* ConfigureSync *)

\* The lock is taken and the profile read; a marker of an interrupted enrolment comes first.
Begin(p) ==
  /\ lock = Nobody /\ Doing(p, "idle")
  /\ enrolled < MaxBearers
  /\ enrolled' = enrolled + 1
  /\ lock' = p
  /\ command' = [command EXCEPT ![p] =
       [at |-> IF profile.previous = NoRef THEN "begun" ELSE "recovering",
        bearer |-> enrolled + 1, old |-> profile.ref]]
  /\ clean' = FALSE
  /\ UNCHANGED <<profile, keyring, unsure>>

\* reconcileSyncEnrollment: the bearer before the active one is removed, then the marker.
Recover(p) ==
  /\ Doing(p, "recovering")
  /\ keyring' = Removed(profile.previous)
  /\ Goes(p, "recovered")
  /\ UNCHANGED <<profile, lock, enrolled, unsure, clean>>

Unmark(p) ==
  /\ Doing(p, "recovered")
  /\ profile' = [profile EXCEPT !.previous = NoRef]
  /\ Goes(p, "begun")
  /\ UNCHANGED <<keyring, lock, enrolled, unsure, clean>>

Target(p) == Inactive(command[p].old)

\* Whatever an interrupted enrolment left in the inactive slot is removed.
Clear(p) ==
  /\ Doing(p, "begun")
  /\ keyring' = Removed(Target(p))
  /\ Goes(p, "cleared")
  /\ UNCHANGED <<profile, lock, enrolled, unsure, clean>>

Put(p) ==
  /\ Doing(p, "cleared")
  /\ keyring' = [keyring EXCEPT ![Target(p)] = command[p].bearer]
  /\ Goes(p, "put")
  /\ UNCHANGED <<profile, lock, enrolled, unsure, clean>>

NewProfile(p) == [ref |-> Target(p), bearer |-> command[p].bearer,
                  previous |-> Remembers(command[p].old)]

\* The statement that changes the profile commits, is refused, or commits unacknowledged:
\* its row is returned before the end of the statement, and a deadline may pass between.
Configure(p) ==
  /\ Doing(p, "put")
  /\ \/ /\ profile' = NewProfile(p)
        /\ Goes(p, "configured")
        /\ UNCHANGED unsure
     \/ /\ Goes(p, "refused")
        /\ UNCHANGED <<profile, unsure>>
     \/ /\ profile' = NewProfile(p)
        /\ Goes(p, "refused")
        /\ unsure' = TRUE
  /\ UNCHANGED <<keyring, lock, enrolled, clean>>

\* The bearer just stored is removed again.
\* Mutant: the one before it is.
CompensatesOld(p) == IF command[p].old \in Slots THEN command[p].old ELSE Target(p)
Compensates(p) == Target(p)

Compensate(p) ==
  /\ Doing(p, "refused")
  /\ keyring' = Removed(Compensates(p))
  /\ Ends(p)
  /\ UNCHANGED <<profile, enrolled, unsure, clean>>

\* priorWasSlot: there is a bearer to remove; one under an earlier version's reference stays.
\* Mutant: the bearer before stays.
NeverHadSlot(p) == FALSE
HadSlot(p) == command[p].old \in Slots

RemoveOld(p) ==
  /\ Doing(p, "configured")
  /\ HadSlot(p)
  /\ keyring' = Removed(command[p].old)
  /\ Goes(p, "removed")
  /\ UNCHANGED <<profile, lock, enrolled, unsure, clean>>

Finish(p) ==
  /\ \/ /\ Doing(p, "removed")
        /\ profile' = [profile EXCEPT !.previous = NoRef]
     \/ /\ Doing(p, "configured") /\ ~HadSlot(p)
        /\ UNCHANGED profile
  /\ clean' = TRUE /\ unsure' = FALSE
  /\ Ends(p)
  /\ UNCHANGED <<keyring, enrolled>>

\* A call fails, a deadline passes, or the process ends.
Stop(p) ==
  /\ ~Doing(p, "idle")
  /\ Ends(p)
  /\ UNCHANGED <<profile, keyring, enrolled, unsure, clean>>

----------------------------------------------------------------------------

\* configureSyncFile: the file's own bearer is only checked, and no other reference replaced.
ConfigureFile(p) ==
  /\ lock = Nobody /\ Doing(p, "idle")
  /\ enrolled < MaxBearers
  /\ profile.ref \in {NoRef, File} /\ profile.previous = NoRef
  /\ enrolled' = enrolled + 1
  /\ profile' = [ref |-> File, bearer |-> enrolled + 1, previous |-> NoRef]
  /\ UNCHANGED <<keyring, lock, command, unsure, clean>>

\* A storage not yet enrolled, or enrolled by a version before the slots.
EnrollmentInit ==
  /\ \/ /\ profile = NoProfile
        /\ keyring = [ref \in Refs |-> Missing]
        /\ enrolled = 0
     \/ /\ profile = [ref |-> Legacy, bearer |-> 1, previous |-> NoRef]
        /\ keyring = [ref \in Refs |-> IF ref = Legacy THEN 1 ELSE Missing]
        /\ enrolled = 1
  /\ lock = Nobody
  /\ command = [p \in Procs |-> Idle]
  /\ unsure = FALSE /\ clean = FALSE

\* What a command that began goes on with.
Enrols(p) ==
  \/ Recover(p) \/ Unmark(p) \/ Clear(p) \/ Put(p) \/ Configure(p) \/ Compensate(p)
  \/ RemoveOld(p) \/ Finish(p) \/ Stop(p)

----------------------------------------------------------------------------
(* Properties *)

Bearers == 0 .. MaxBearers + 1
States == {"idle", "recovering", "recovered", "begun", "cleared", "put", "configured", "refused",
           "removed"}

\* Every variable keeps its shape, and a command under way holds the lock, so that the
\* profile it read is the one that is.
EnrollmentTypeOK ==
  /\ profile \in [ref : Refs \cup {File, NoRef}, bearer : Bearers, previous : Slots \cup {NoRef}]
  /\ keyring \in [Refs -> Bearers]
  /\ lock \in Procs \cup {Nobody}
  /\ command \in [Procs -> [at : States, bearer : Bearers, old : Refs \cup {File, NoRef}]]
  /\ enrolled \in Bearers
  /\ unsure \in BOOLEAN /\ clean \in BOOLEAN

\* Whenever a command ends, the reference in the profile is that of the bearer it was
\* enrolled with; the exception is a profile that was written although its command was
\* told otherwise, and therefore removed the bearer.
ActiveIsUsable ==
  profile.ref \in Refs => \/ keyring[profile.ref] = profile.bearer
                          \/ unsure

\* A marker names the other slot, so that no enrolment stops for want of a valid one.
MarkerIsOther ==
  profile.previous # NoRef => profile.ref \in Slots /\ profile.previous = Inactive(profile.ref)

\* A bearer in a slot is the active one, or in the slot the next enrolment clears first, as
\* is the one that a marker names; and only the active one after an enrolment that ended well.
BearersAreAccounted ==
  /\ EnrollmentTypeOK
  /\ MarkerIsOther
  /\ \A s \in Slots : keyring[s] # Missing /\ s # profile.ref =>
       s = Inactive(profile.ref) /\ ~clean
=============================================================================
