--------------------------- MODULE ProjectIdentity ---------------------------
(***************************************************************************)
(* The identity of a workspace: the project it stands for in each local    *)
(* storage (ResolveProject, internal/memory/sqlite.go), the marker file    *)
(* .vgxness/project-id that travels with the workspace                     *)
(* (internal/memory/identity.go), and the binding of the two by memory     *)
(* project init (InitializeProject, internal/app/runtime/runtime.go).      *)
(*                                                                         *)
(* No lock covers an initialisation: those of several processes, with one  *)
(* storage or with several, interleave at every transaction of the         *)
(* database and every operation of the file system, and each may end after *)
(* any of them.  A directory entry survives a loss of power once its       *)
(* directory was synced; the databases keep what they committed.  Markers  *)
(* are also removed, or copied with a workspace, by others.  The database  *)
(* holds at most one root per workspace and project, and one binding per   *)
(* workspace and portable id.                                              *)
(***************************************************************************)
EXTENDS Naturals

CONSTANTS
  Callers,    \* processes that initialise workspaces
  Workspaces, \* directories of one base name, the id of an earlier version's project
  Storages,   \* local storages that share the workspaces
  MaxIds      \* bound: portable ids drawn

NoProject == "none"
\* The project an earlier version named by the directory alone.
LegacyProject == "legacy"

ASSUME IdentityAssumption ==
  MaxIds \in Nat /\ NoProject \notin Workspaces /\ LegacyProject \notin Workspaces

VARIABLES
  projects,  \* the projects of each storage
  root,      \* project_roots of each storage
  bound,     \* portable_project_identities of each storage, by workspace
  marker,    \* the portable id in the marker of each workspace, 0 when there is none
  folder,    \* .vgxness of each workspace: absent, made, or kept in case of a power loss
  kept,      \* the marker a loss of power would leave, if the folder stays
  caller,    \* what each process's memory project init is doing
  ids,       \* portable ids drawn
  meddled    \* history: workspaces whose marker was placed or removed by others

identity == <<projects, root, bound, marker, folder, kept, caller, ids, meddled>>
disk == <<marker, folder, kept>>
storage == <<projects, root, bound>>

NoId == 0
Unbound == [id |-> NoId, project |-> NoProject]
NotCalling == [at |-> "idle", storage |-> NoProject, workspace |-> NoProject,
               known |-> NoId, id |-> NoId]

Calls(c, at) == caller[c].at = at
At(c) == caller[c].workspace
In(c) == caller[c].storage
Turns(c, at) == caller' = [caller EXCEPT ![c].at = at]

----------------------------------------------------------------------------
(* ResolveProject *)

Rooted(s, project) == \E w \in Workspaces : root[s][w] = project

\* The legacy project goes to the first workspace of its name, any other gets its own.
Resolved(s, w) ==
  IF root[s][w] # NoProject THEN root[s][w]
  ELSE IF LegacyProject \in projects[s] /\ ~Rooted(s, LegacyProject) THEN LegacyProject
  ELSE w

ResolveProject(s, w) ==
  /\ projects' = [projects EXCEPT ![s] = @ \cup {Resolved(s, w)}]
  /\ root' = [root EXCEPT ![s][w] = Resolved(s, w)]

\* Some other command resolves the workspace, or an import brings the legacy project.
Resolve(s, w) ==
  /\ root[s][w] = NoProject
  /\ ResolveProject(s, w)
  /\ UNCHANGED <<bound, disk, caller, ids, meddled>>

ImportLegacyProject(s) ==
  /\ LegacyProject \notin projects[s]
  /\ projects' = [projects EXCEPT ![s] = @ \cup {LegacyProject}]
  /\ UNCHANGED <<root, bound, disk, caller, ids, meddled>>

----------------------------------------------------------------------------
(* InitializeProject *)

InitializeProject(c, s, w) ==
  /\ Calls(c, "idle")
  /\ ResolveProject(s, w)
  /\ caller' = [caller EXCEPT ![c] =
       [at |-> "resolved", storage |-> s, workspace |-> w, known |-> NoId, id |-> NoId]]
  /\ UNCHANGED <<bound, disk, ids, meddled>>

PortableProjectID(c) ==
  /\ Calls(c, "resolved")
  /\ caller' = [caller EXCEPT ![c].at = "looked", ![c].known = bound[In(c)][At(c)].id]
  /\ UNCHANGED <<storage, disk, ids, meddled>>

\* Nothing is written over: a marker that is not the one the storage knows is a conflict.
Agrees(c) == caller[c].known \in {NoId, marker[At(c)]}

Takes(c, at) ==
  caller' = [caller EXCEPT ![c] =
    IF Agrees(c) THEN [@ EXCEPT !.at = at, !.id = marker[At(c)]] ELSE NotCalling]

\* ensureProjectID: the marker is read; if there is none, the folder is made if need be.
ReadMarker(c) ==
  /\ Calls(c, "looked")
  /\ \/ /\ marker[At(c)] # NoId
        /\ Takes(c, "found")
     \/ /\ marker[At(c)] = NoId
        /\ Turns(c, "missing")
  /\ UNCHANGED <<storage, disk, ids, meddled>>

MakeFolder(c) ==
  /\ Calls(c, "missing")
  /\ folder' = [folder EXCEPT ![At(c)] = IF @ = "absent" THEN "made" ELSE @]
  /\ Turns(c, "made")
  /\ UNCHANGED <<storage, marker, kept, ids, meddled>>

\* syncProjectMarkerParent
SyncParent(c) ==
  /\ \/ Calls(c, "made") /\ Turns(c, "ready")
     \/ Calls(c, "found") /\ Turns(c, "published")
  /\ folder' = [folder EXCEPT ![At(c)] = "kept"]
  /\ UNCHANGED <<storage, marker, kept, ids, meddled>>

\* Mutant: the marker is renamed into place, over another one.
AlwaysVacant(c) == TRUE
Vacant(c) == marker[At(c)] = NoId

\* The marker is written beside its place and linked into it, which fails if there is one;
\* then that one is taken, if it is not another than the storage knows.
Publish(c) ==
  /\ Calls(c, "ready")
  /\ \/ /\ Vacant(c)
        /\ \E id \in 1 .. MaxIds :
             /\ IF caller[c].known # NoId
                THEN id = caller[c].known /\ UNCHANGED ids
                ELSE id = ids + 1 /\ ids' = id
             /\ marker' = [marker EXCEPT ![At(c)] = id]
             /\ caller' = [caller EXCEPT ![c].at = "published", ![c].id = id]
     \/ /\ ~Vacant(c)
        /\ Takes(c, "published")
        /\ UNCHANGED <<marker, ids>>
  /\ UNCHANGED <<storage, folder, kept, meddled>>

\* syncProjectMarkerDir
SyncFolder(c) ==
  /\ Calls(c, "published")
  /\ kept' = [kept EXCEPT ![At(c)] = marker[At(c)]]
  /\ Turns(c, "synced")
  /\ UNCHANGED <<storage, marker, folder, ids, meddled>>

\* BindPortableProjectID
Binding(c) == [id |-> caller[c].id, project |-> Resolved(In(c), At(c))]
Bindable(c) ==
  \A w \in Workspaces :
    \/ bound[In(c)][w] \in {Unbound, Binding(c)}
    \/ w # At(c) /\ bound[In(c)][w].id # caller[c].id

BindPortableProject(c) ==
  /\ Calls(c, "synced")
  /\ bound' = IF Bindable(c) THEN [bound EXCEPT ![In(c)][At(c)] = Binding(c)] ELSE bound
  /\ caller' = [caller EXCEPT ![c] = NotCalling]
  /\ UNCHANGED <<projects, root, disk, ids, meddled>>

\* A call fails, a deadline passes, or the process ends.
GiveUp(c) ==
  /\ ~Calls(c, "idle")
  /\ caller' = [caller EXCEPT ![c] = NotCalling]
  /\ UNCHANGED <<storage, disk, ids, meddled>>

----------------------------------------------------------------------------
(* The file system, and those who change it. *)

LosePower ==
  /\ folder' = [w \in Workspaces |-> IF folder[w] = "kept" THEN "kept" ELSE "absent"]
  /\ marker' = [w \in Workspaces |-> IF folder[w] = "kept" THEN kept[w] ELSE NoId]
  /\ kept' = marker'
  /\ caller' = [c \in Callers |-> NotCalling]
  /\ UNCHANGED <<storage, ids, meddled>>

\* A workspace is copied, with its marker, to one that had none; or a marker is removed.
CopyMarker(w, copy) ==
  /\ marker[w] # NoId /\ marker[copy] = NoId
  /\ marker' = [marker EXCEPT ![copy] = marker[w]]
  /\ folder' = [folder EXCEPT ![copy] = "kept"]
  /\ kept' = [kept EXCEPT ![copy] = marker[w]]
  /\ meddled' = meddled \cup {copy}
  /\ UNCHANGED <<storage, caller, ids>>

RemoveMarker(w) ==
  /\ marker[w] # NoId
  /\ marker' = [marker EXCEPT ![w] = NoId]
  /\ kept' = [kept EXCEPT ![w] = NoId]
  /\ meddled' = meddled \cup {w}
  /\ UNCHANGED <<storage, folder, caller, ids>>

----------------------------------------------------------------------------

IdentityInit ==
  /\ projects = [s \in Storages |-> {}]
  /\ root = [s \in Storages |-> [w \in Workspaces |-> NoProject]]
  /\ bound = [s \in Storages |-> [w \in Workspaces |-> Unbound]]
  /\ marker = [w \in Workspaces |-> NoId]
  /\ folder = [w \in Workspaces |-> "absent"]
  /\ kept = [w \in Workspaces |-> NoId]
  /\ caller = [c \in Callers |-> NotCalling]
  /\ ids = 0
  /\ meddled = {}

\* What a process goes on with, and what happens beside it.
Initializes(c) ==
  \/ PortableProjectID(c) \/ ReadMarker(c) \/ MakeFolder(c) \/ SyncParent(c)
  \/ Publish(c) \/ SyncFolder(c) \/ BindPortableProject(c) \/ GiveUp(c)

HappensBeside ==
  \/ \E s \in Storages, w \in Workspaces : Resolve(s, w)
  \/ \E s \in Storages : ImportLegacyProject(s)
  \/ \E w, copy \in Workspaces : CopyMarker(w, copy)
  \/ \E w \in Workspaces : RemoveMarker(w)

----------------------------------------------------------------------------
(* Properties *)

Ids == 0 .. MaxIds
Projects == Workspaces \cup {LegacyProject}
CallStates == {"idle", "resolved", "looked", "found", "missing", "made", "ready", "published",
               "synced"}

\* Every variable keeps its shape.
IdentityTypeOK ==
  /\ projects \in [Storages -> SUBSET Projects]
  /\ root \in [Storages -> [Workspaces -> Projects \cup {NoProject}]]
  /\ bound \in [Storages -> [Workspaces -> [id : Ids, project : Projects \cup {NoProject}]]]
  /\ marker \in [Workspaces -> Ids]
  /\ folder \in [Workspaces -> {"absent", "made", "kept"}]
  /\ kept \in [Workspaces -> Ids]
  /\ caller \in [Callers -> [at : CallStates, storage : Storages \cup {NoProject},
                            workspace : Workspaces \cup {NoProject}, known : Ids, id : Ids]]
  /\ ids \in Ids
  /\ meddled \subseteq Workspaces

\* In a storage, a project belongs to one workspace, and a portable id is bound to one
\* workspace and to the project that workspace resolves to, wherever its marker is copied.
BindingsAreOwn ==
  \A s \in Storages, w \in Workspaces :
    /\ root[s][w] # NoProject =>
         root[s][w] \in projects[s] /\ \A v \in Workspaces \ {w} : root[s][v] # root[s][w]
    /\ bound[s][w] # Unbound =>
         /\ bound[s][w].project = root[s][w]
         /\ \A v \in Workspaces \ {w} : bound[s][v].id # bound[s][w].id

\* Whatever processes initialise a workspace at a time, with whatever storages: unless others
\* placed or removed its marker, those that bound it bound the same id, which the marker
\* holds, and would after a loss of power.
IdentityIsOne ==
  /\ IdentityTypeOK /\ BindingsAreOwn
  /\ \A s \in Storages, w \in Workspaces \ meddled :
       bound[s][w] # Unbound =>
         /\ marker[w] = bound[s][w].id
         /\ kept[w] = bound[s][w].id /\ folder[w] = "kept"
=============================================================================
