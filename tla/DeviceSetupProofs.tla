-------------------------- MODULE DeviceSetupProofs --------------------------
(***************************************************************************)
(* Theorems about the set-up of a device, for any number of processes,     *)
(* bearers, workspaces, storages and ids.  The invariant has a part for    *)
(* the credential, one for the identities, and one for the sync that       *)
(* relies on both.                                                         *)
(***************************************************************************)
EXTENDS DeviceSetup, TLAPS

(***************************************************************************)
(* The identities.  What every step of ProjectIdentity keeps.  IdentityIs- *)
(* One alone is not inductive: a caller on its way to a binding must       *)
(* already hold the id that the marker holds, and what it has synced must  *)
(* be what a loss of power leaves.                                         *)
(***************************************************************************)

CallRows ==
  [at : CallStates, storage : Storages \cup {NoProject},
   workspace : Workspaces \cup {NoProject}, known : Ids, id : Ids]
BoundRows == [id : Ids, project : Projects \cup {NoProject}]

\* A workspace stands for its own project, or for the one of an earlier version.
RootsAreNamed ==
  \A s \in Storages, w \in Workspaces : root[s][w] \in {NoProject, LegacyProject, w}

BindingsAreWhole ==
  \A s \in Storages, w \in Workspaces :
    bound[s][w] # Unbound => bound[s][w].id # NoId /\ bound[s][w].project # NoProject

CallersAreRooted ==
  \A c \in Callers : ~Calls(c, "idle") =>
    In(c) \in Storages /\ At(c) \in Workspaces /\ root[In(c)][At(c)] # NoProject

Holding == {"found", "published", "synced"}
CallersHold == \A c \in Callers : caller[c].at \in Holding => caller[c].id # NoId

\* What a caller goes by, in a workspace whose marker was left alone.
CallersAgree ==
  \A c \in Callers : At(c) \notin meddled =>
    /\ caller[c].at \in Holding => caller[c].id = marker[At(c)]
    /\ caller[c].at \in {"ready", "published", "synced"} => folder[At(c)] = "kept"
    /\ Calls(c, "synced") => kept[At(c)] = marker[At(c)]

BindingsAgree ==
  \A s \in Storages, w \in Workspaces \ meddled :
    bound[s][w] # Unbound =>
      marker[w] = bound[s][w].id /\ kept[w] = bound[s][w].id /\ folder[w] = "kept"

IdInv ==
  /\ IdentityTypeOK
  /\ RootsAreNamed /\ BindingsAreOwn /\ BindingsAreWhole
  /\ CallersAreRooted /\ CallersHold
  /\ CallersAgree /\ BindingsAgree

\* A row that is bound stays as it is.
BoundStays ==
  \A s \in Storages, w \in Workspaces : bound[s][w] # Unbound => bound'[s][w] = bound[s][w]

\* Ids are numbers, and drawing one of them leaves another.
LEMMA IdsAreNumbers ==
  /\ NoId \in Ids /\ Ids \subseteq Nat /\ 1 .. MaxIds \subseteq Ids
  /\ \A id \in 1 .. MaxIds : id # NoId
  BY IdentityAssumption DEF Ids, NoId

\* An idle caller goes by nothing.
LEMMA IdleCaller ==
  /\ NotCalling \in CallRows /\ NotCalling.at = "idle"
  /\ NotCalling.id = NoId /\ NotCalling.workspace = NoProject
  BY IdsAreNumbers DEF NotCalling, CallRows, CallStates

LEMMA InitIdentity == IdentityInit => IdInv
  <1> SUFFICES ASSUME IdentityInit PROVE IdInv
    OBVIOUS
  <1>1. IdentityTypeOK
    <2>1. caller \in [Callers -> CallRows] /\ ids \in Ids
      BY IdsAreNumbers, IdleCaller DEF IdentityInit, NoId
    <2>2. Unbound \in BoundRows
      BY IdsAreNumbers DEF Unbound, BoundRows
    <2>3. bound \in [Storages -> [Workspaces -> BoundRows]]
      BY <2>2 DEF IdentityInit
    <2>4. /\ root \in [Storages -> [Workspaces -> Projects \cup {NoProject}]]
          /\ projects \in [Storages -> SUBSET Projects]
      BY DEF IdentityInit
    <2>5. marker \in [Workspaces -> Ids] /\ kept \in [Workspaces -> Ids]
      BY IdsAreNumbers DEF IdentityInit
    <2>6. folder \in [Workspaces -> {"absent", "made", "kept"}] /\ meddled \subseteq Workspaces
      BY DEF IdentityInit
    <2> QED
      BY <2>1, <2>3, <2>4, <2>5, <2>6 DEF IdentityTypeOK, CallRows, BoundRows
  <1>2. RootsAreNamed /\ BindingsAreOwn /\ BindingsAreWhole /\ BindingsAgree
    BY DEF IdentityInit, RootsAreNamed, BindingsAreOwn, BindingsAreWhole, BindingsAgree
  <1>3. \A c \in Callers : caller[c].at = "idle"
    BY IdleCaller DEF IdentityInit
  <1>4. CallersAreRooted /\ CallersHold /\ CallersAgree
    BY <1>3 DEF CallersAreRooted, CallersHold, CallersAgree, Calls, Holding
  <1> QED
    BY <1>1, <1>2, <1>4 DEF IdInv

----------------------------------------------------------------------------

\* The storages and the workspaces are as they were, or were only resolved: what remains is
\* the caller that took the step.
LEMMA CallerStep ==
  ASSUME IdInv, NEW c \in Callers, ~Calls(c, "idle"), UNCHANGED <<storage, disk, meddled>>,
         ids' \in Ids,
         \A d \in Callers \ {c} : caller'[d] = caller[d],
         caller' \in [Callers -> CallRows],
         \/ caller'[c].at = "idle"
         \/ /\ In(c)' = In(c) /\ At(c)' = At(c)
            /\ caller'[c].at \in Holding => caller'[c].id # NoId
            /\ At(c) \notin meddled =>
                 /\ caller'[c].at \in Holding => caller'[c].id = marker[At(c)]
                 /\ caller'[c].at \in {"ready", "published", "synced"} => folder[At(c)] = "kept"
                 /\ caller'[c].at = "synced" => kept[At(c)] = marker[At(c)]
  PROVE  IdInv' /\ BoundStays
  <1>1. IdentityTypeOK'
    BY DEF IdInv, IdentityTypeOK, storage, disk, CallRows
  <1>2. RootsAreNamed' /\ BindingsAreOwn' /\ BindingsAreWhole' /\ BindingsAgree' /\ BoundStays
    BY DEF IdInv, RootsAreNamed, BindingsAreOwn, BindingsAreWhole, BindingsAgree, BoundStays, storage, disk
  <1>3. root' = root /\ marker' = marker /\ folder' = folder /\ kept' = kept /\ meddled' = meddled
    BY DEF storage, disk
  <1>4. CallersAreRooted'
    BY <1>3 DEF IdInv, CallersAreRooted, Calls, In, At
  <1>5. CallersHold'
    BY DEF IdInv, CallersHold, Holding
  <1>6. CallersAgree'
    BY <1>3 DEF IdInv, CallersAgree, Calls, In, At, Holding
  <1> QED
    BY <1>1, <1>2, <1>4, <1>5, <1>6 DEF IdInv

\* A call that ends leaves what it has done.
LEMMA GiveUpKeeps ==
  ASSUME IdInv, NEW c \in Callers, GiveUp(c)
  PROVE  IdInv' /\ BoundStays
  <1>1. /\ \A d \in Callers \ {c} : caller'[d] = caller[d]
        /\ caller' \in [Callers -> CallRows] /\ caller'[c].at = "idle"
    BY IdleCaller DEF IdInv, IdentityTypeOK, CallRows, GiveUp
  <1> QED
    BY <1>1, CallerStep DEF GiveUp, IdInv, IdentityTypeOK

LEMMA PortableProjectIDKeeps ==
  ASSUME IdInv, NEW c \in Callers, PortableProjectID(c)
  PROVE  IdInv' /\ BoundStays
  <1>1. ~Calls(c, "idle")
    BY DEF PortableProjectID, Calls
  <1>2. In(c) \in Storages /\ At(c) \in Workspaces
    BY <1>1 DEF IdInv, CallersAreRooted
  <1>3. bound[In(c)][At(c)].id \in Ids
    BY <1>2 DEF IdInv, IdentityTypeOK
  <1>4. caller \in [Callers -> CallRows]
    BY DEF IdInv, IdentityTypeOK, CallRows
  <1>5. caller' = [caller EXCEPT ![c].at = "looked", ![c].known = bound[In(c)][At(c)].id]
    BY DEF PortableProjectID
  <1>6. /\ \A d \in Callers \ {c} : caller'[d] = caller[d]
        /\ caller' \in [Callers -> CallRows] /\ caller'[c].at = "looked"
        /\ In(c)' = In(c) /\ At(c)' = At(c)
    BY <1>3, <1>4, <1>5 DEF CallRows, CallStates, In, At
  <1> QED
    BY <1>1, <1>6, CallerStep DEF PortableProjectID, IdInv, IdentityTypeOK, Holding

\* What is known of a caller under way.
LEMMA Under ==
  ASSUME IdInv, NEW c \in Callers, ~Calls(c, "idle")
  PROVE  /\ In(c) \in Storages /\ At(c) \in Workspaces /\ root[In(c)][At(c)] # NoProject
         /\ caller \in [Callers -> CallRows] /\ caller[c] \in CallRows
         /\ marker[At(c)] \in Ids /\ kept[At(c)] \in Ids /\ ids \in Ids
         /\ folder[At(c)] \in {"absent", "made", "kept"}
  BY DEF IdInv, CallersAreRooted, IdentityTypeOK, CallRows

\* A caller that goes on keeps the rest of what it goes by.
LEMMA Turned ==
  ASSUME IdInv, NEW c \in Callers, ~Calls(c, "idle"), NEW at \in CallStates, Turns(c, at)
  PROVE  /\ \A d \in Callers \ {c} : caller'[d] = caller[d]
         /\ caller' \in [Callers -> CallRows]
         /\ caller'[c].at = at /\ caller'[c].id = caller[c].id
         /\ In(c)' = In(c) /\ At(c)' = At(c)
  BY Under DEF Turns, CallRows, In, At

\* A caller that takes the marker it found holds its id, or ends.
LEMMA Took ==
  ASSUME IdInv, NEW c \in Callers, ~Calls(c, "idle"), NEW at \in CallStates, Takes(c, at)
  PROVE  /\ \A d \in Callers \ {c} : caller'[d] = caller[d]
         /\ caller' \in [Callers -> CallRows]
         /\ \/ caller'[c].at = "idle" /\ caller'[c].workspace = NoProject
            \/ /\ caller'[c].at = at /\ caller'[c].id = marker[At(c)]
               /\ In(c)' = In(c) /\ At(c)' = At(c)
  <1>1. caller \in [Callers -> CallRows] /\ caller[c] \in CallRows /\ marker[At(c)] \in Ids
    BY Under
  <1>2. CASE Agrees(c)
    <2>1. caller' = [caller EXCEPT ![c] = [@ EXCEPT !.at = at, !.id = marker[At(c)]]]
      BY <1>2 DEF Takes
    <2>2. [caller[c] EXCEPT !.at = at, !.id = marker[At(c)]] \in CallRows
      BY <1>1 DEF CallRows
    <2> QED
      BY <1>1, <2>1, <2>2 DEF CallRows, In, At
  <1>3. CASE ~Agrees(c)
    <2>1. caller' = [caller EXCEPT ![c] = NotCalling]
      BY <1>3 DEF Takes
    <2> QED
      BY <1>1, <2>1, IdleCaller
  <1> QED
    BY <1>2, <1>3

LEMMA ReadMarkerKeeps ==
  ASSUME IdInv, NEW c \in Callers, ReadMarker(c)
  PROVE  IdInv' /\ BoundStays
  <1>1. ~Calls(c, "idle") /\ UNCHANGED <<storage, disk, meddled>> /\ ids' \in Ids
    BY DEF ReadMarker, Calls, IdInv, IdentityTypeOK
  <1>2. CASE marker[At(c)] # NoId /\ Takes(c, "found")
    BY <1>1, <1>2, Took, CallerStep DEF CallStates
  <1>3. CASE Turns(c, "missing")
    BY <1>1, <1>3, Turned, CallerStep DEF CallStates, Holding
  <1> QED
    BY <1>2, <1>3 DEF ReadMarker

\* Steps that only add to what a folder keeps.
LEMMA FolderStep ==
  ASSUME IdInv, NEW c \in Callers, ~Calls(c, "idle"), NEW at \in CallStates, Turns(c, at),
         UNCHANGED <<storage, marker, kept, ids, meddled>>,
         folder' \in [Workspaces -> {"absent", "made", "kept"}],
         \A w \in Workspaces : folder[w] = "kept" => folder'[w] = "kept",
         at # "synced", at \in Holding => caller[c].at \in Holding,
         at \in {"ready", "published"} => folder'[At(c)] = "kept"
  PROVE  IdInv' /\ BoundStays
  <1>1. /\ \A d \in Callers \ {c} : caller'[d] = caller[d]
        /\ caller' \in [Callers -> CallRows]
        /\ caller'[c].at = at /\ caller'[c].id = caller[c].id
        /\ caller'[c].storage = caller[c].storage /\ caller'[c].workspace = caller[c].workspace
    BY Turned DEF In, At
  <1>2. IdentityTypeOK'
    BY <1>1 DEF IdInv, IdentityTypeOK, storage, CallRows
  <1>3. RootsAreNamed' /\ BindingsAreOwn' /\ BindingsAreWhole' /\ BoundStays
    BY DEF IdInv, RootsAreNamed, BindingsAreOwn, BindingsAreWhole, BoundStays, storage
  <1>4. BindingsAgree'
    BY DEF IdInv, BindingsAgree, storage
  <1>5. CallersAreRooted'
    BY <1>1 DEF IdInv, CallersAreRooted, Calls, In, At, storage
  <1>6. CallersHold'
    BY <1>1 DEF IdInv, CallersHold
  <1>7. CallersAgree'
    <2> SUFFICES ASSUME NEW d \in Callers, caller'[d].workspace \notin meddled,
                        caller'[d].at # "idle"
                 PROVE  /\ caller'[d].at \in Holding => caller'[d].id = marker[caller'[d].workspace]
                        /\ caller'[d].at \in {"ready", "published", "synced"} =>
                             folder'[caller'[d].workspace] = "kept"
                        /\ caller'[d].at = "synced" =>
                             kept[caller'[d].workspace] = marker[caller'[d].workspace]
      BY DEF CallersAgree, At, Calls, Holding
    <2>1. CASE d = c
      BY <1>1, <2>1 DEF IdInv, CallersAgree, At, Holding
    <2>2. CASE d # c
      <3>1. caller'[d] = caller[d] /\ At(d) \in Workspaces
        BY <1>1, <2>2, Under DEF Calls
      <3> QED
        BY <3>1 DEF IdInv, CallersAgree, At, Calls
    <2> QED
      BY <2>1, <2>2
  <1> QED
    BY <1>2, <1>3, <1>4, <1>5, <1>6, <1>7 DEF IdInv

LEMMA MakeFolderKeeps ==
  ASSUME IdInv, NEW c \in Callers, MakeFolder(c)
  PROVE  IdInv' /\ BoundStays
  <1>1. ~Calls(c, "idle")
    BY DEF MakeFolder, Calls
  <1>2. /\ folder' \in [Workspaces -> {"absent", "made", "kept"}]
        /\ \A w \in Workspaces : folder[w] = "kept" => folder'[w] = "kept"
    BY DEF MakeFolder, IdInv, IdentityTypeOK
  <1> QED
    BY <1>1, <1>2, FolderStep DEF MakeFolder, CallStates, Holding

LEMMA SyncParentKeeps ==
  ASSUME IdInv, NEW c \in Callers, SyncParent(c)
  PROVE  IdInv' /\ BoundStays
  <1>1. ~Calls(c, "idle")
    BY DEF SyncParent, Calls
  <1>2. /\ folder' \in [Workspaces -> {"absent", "made", "kept"}]
        /\ \A w \in Workspaces : folder[w] = "kept" => folder'[w] = "kept"
        /\ folder'[At(c)] = "kept"
    BY <1>1, Under DEF SyncParent, IdInv, IdentityTypeOK
  <1>3. CASE Calls(c, "made") /\ Turns(c, "ready")
    BY <1>1, <1>2, <1>3, FolderStep DEF SyncParent, CallStates, Holding
  <1>4. CASE Calls(c, "found") /\ Turns(c, "published")
    BY <1>1, <1>2, <1>4, FolderStep DEF SyncParent, CallStates, Holding, Calls
  <1> QED
    BY <1>3, <1>4 DEF SyncParent

\* The marker is linked into a vacant place: nobody there holds an id, and nothing is bound,
\* unless others removed the marker before.
LEMMA NewMarkerKeeps ==
  ASSUME IdInv, NEW c \in Callers, Calls(c, "ready"), Vacant(c), NEW id \in 1 .. MaxIds,
         ids' \in Ids, marker' = [marker EXCEPT ![At(c)] = id],
         caller' = [caller EXCEPT ![c].at = "published", ![c].id = id],
         UNCHANGED <<storage, folder, kept, meddled>>
  PROVE  IdInv' /\ BoundStays
  <1>1. ~Calls(c, "idle") /\ id \in Ids /\ id # NoId
    BY IdsAreNumbers DEF Calls
  <1>2. /\ \A d \in Callers \ {c} : caller'[d] = caller[d]
        /\ caller' \in [Callers -> CallRows]
        /\ caller'[c].at = "published" /\ caller'[c].id = id
        /\ caller'[c].storage = caller[c].storage /\ caller'[c].workspace = caller[c].workspace
    BY <1>1, Under DEF CallRows, CallStates
  <1>3. /\ marker \in [Workspaces -> Ids] /\ marker' \in [Workspaces -> Ids]
        /\ At(c) \in Workspaces /\ marker[At(c)] = NoId /\ marker'[At(c)] = id
        /\ \A w \in Workspaces \ {At(c)} : marker'[w] = marker[w]
    BY <1>1, Under DEF IdInv, IdentityTypeOK, Vacant
  <1>4. IdentityTypeOK'
    BY <1>2, <1>3 DEF IdInv, IdentityTypeOK, storage, CallRows
  <1>5. RootsAreNamed' /\ BindingsAreOwn' /\ BindingsAreWhole' /\ BoundStays
    BY DEF IdInv, RootsAreNamed, BindingsAreOwn, BindingsAreWhole, BoundStays, storage
  <1>6. BindingsAgree'
    <2> SUFFICES ASSUME NEW s \in Storages, NEW w \in Workspaces \ meddled, bound[s][w] # Unbound
                 PROVE  /\ marker'[w] = bound[s][w].id
                        /\ kept[w] = bound[s][w].id /\ folder[w] = "kept"
      BY DEF BindingsAgree, storage
    <2>1. marker[w] = bound[s][w].id /\ bound[s][w].id # NoId
      BY DEF IdInv, BindingsAgree, BindingsAreWhole
    <2> QED
      BY <1>3, <2>1 DEF IdInv, BindingsAgree
  <1>7. CallersAreRooted'
    BY <1>1, <1>2 DEF IdInv, CallersAreRooted, Calls, In, At, storage
  <1>8. CallersHold'
    BY <1>1, <1>2 DEF IdInv, CallersHold
  <1>9. CallersAgree'
    <2> SUFFICES ASSUME NEW d \in Callers, caller'[d].workspace \notin meddled,
                        caller'[d].at # "idle"
                 PROVE  /\ caller'[d].at \in Holding => caller'[d].id = marker'[caller'[d].workspace]
                        /\ caller'[d].at \in {"ready", "published", "synced"} =>
                             folder[caller'[d].workspace] = "kept"
                        /\ caller'[d].at = "synced" =>
                             kept[caller'[d].workspace] = marker'[caller'[d].workspace]
      BY DEF CallersAgree, At, Calls, Holding
    <2>1. CASE d = c
      BY <1>2, <1>3, <2>1 DEF IdInv, CallersAgree, At, Calls
    <2>2. CASE d # c
      <3>1. caller'[d] = caller[d] /\ At(d) \in Workspaces /\ At(d) \notin meddled
        BY <1>2, <2>2, Under DEF Calls, At
      <3>2. caller[d].at \in Holding => caller[d].id = marker[At(d)] /\ caller[d].id # NoId
        BY <3>1 DEF IdInv, CallersAgree, CallersHold
      <3>3. caller[d].at \in Holding => At(d) # At(c)
        BY <1>3, <3>2
      <3>4. /\ caller[d].at \in {"ready", "published", "synced"} => folder[At(d)] = "kept"
            /\ caller[d].at = "synced" => kept[At(d)] = marker[At(d)] /\ "synced" \in Holding
        BY <3>1 DEF IdInv, CallersAgree, Calls, Holding
      <3> QED
        BY <1>3, <3>1, <3>2, <3>3, <3>4 DEF At
    <2> QED
      BY <2>1, <2>2
  <1> QED
    BY <1>4, <1>5, <1>6, <1>7, <1>8, <1>9 DEF IdInv

LEMMA PublishKeeps ==
  ASSUME IdInv, NEW c \in Callers, Publish(c)
  PROVE  IdInv' /\ BoundStays
  <1>1. ~Calls(c, "idle") /\ Calls(c, "ready") /\ UNCHANGED <<storage, folder, kept, meddled>>
    BY DEF Publish, Calls
  <1>2. CASE Vacant(c) /\ \E id \in 1 .. MaxIds :
             /\ IF caller[c].known # NoId
                THEN id = caller[c].known /\ UNCHANGED ids
                ELSE id = ids + 1 /\ ids' = id
             /\ marker' = [marker EXCEPT ![At(c)] = id]
             /\ caller' = [caller EXCEPT ![c].at = "published", ![c].id = id]
    <2>1. PICK id \in 1 .. MaxIds :
             /\ IF caller[c].known # NoId
                THEN id = caller[c].known /\ UNCHANGED ids
                ELSE id = ids + 1 /\ ids' = id
             /\ marker' = [marker EXCEPT ![At(c)] = id]
             /\ caller' = [caller EXCEPT ![c].at = "published", ![c].id = id]
      BY <1>2
    <2>2. ids' \in Ids
      BY <1>1, <2>1, Under, IdsAreNumbers
    <2> QED
      BY <1>1, <1>2, <2>1, <2>2, NewMarkerKeeps
  <1>3. CASE ~Vacant(c) /\ Takes(c, "published") /\ UNCHANGED <<marker, ids>>
    <2>1. marker[At(c)] # NoId /\ UNCHANGED <<storage, disk, meddled>> /\ ids' \in Ids
      BY <1>1, <1>3, Under DEF Vacant, disk
    <2>2. At(c) \notin meddled => folder[At(c)] = "kept"
      BY <1>1 DEF IdInv, CallersAgree, Calls
    <2> QED
      BY <1>1, <1>3, <2>1, <2>2, Took, CallerStep DEF CallStates
  <1> QED
    BY <1>2, <1>3 DEF Publish

\* What the marker holds is what a loss of power leaves.
LEMMA SyncFolderKeeps ==
  ASSUME IdInv, NEW c \in Callers, SyncFolder(c)
  PROVE  IdInv' /\ BoundStays
  <1>1. ~Calls(c, "idle") /\ Calls(c, "published") /\ Turns(c, "synced") /\ "synced" \in CallStates
    BY DEF SyncFolder, Calls, CallStates
  <1>2. /\ \A d \in Callers \ {c} : caller'[d] = caller[d]
        /\ caller' \in [Callers -> CallRows]
        /\ caller'[c].at = "synced" /\ caller'[c].id = caller[c].id
        /\ caller'[c].storage = caller[c].storage /\ caller'[c].workspace = caller[c].workspace
    BY <1>1, Turned DEF In, At
  <1>3. /\ kept' \in [Workspaces -> Ids] /\ At(c) \in Workspaces
        /\ kept'[At(c)] = marker[At(c)]
        /\ \A w \in Workspaces \ {At(c)} : kept'[w] = kept[w]
    BY <1>1, Under DEF SyncFolder, IdInv, IdentityTypeOK
  <1>4. UNCHANGED <<storage, marker, folder, ids, meddled>>
    BY DEF SyncFolder
  <1>5. IdentityTypeOK'
    BY <1>2, <1>3, <1>4 DEF IdInv, IdentityTypeOK, storage, CallRows
  <1>6. RootsAreNamed' /\ BindingsAreOwn' /\ BindingsAreWhole' /\ BoundStays
    BY <1>4 DEF IdInv, RootsAreNamed, BindingsAreOwn, BindingsAreWhole, BoundStays, storage
  <1>7. BindingsAgree'
    BY <1>3, <1>4 DEF IdInv, BindingsAgree, storage
  <1>8. CallersAreRooted'
    BY <1>1, <1>2, <1>4 DEF IdInv, CallersAreRooted, Calls, In, At, storage
  <1>9. CallersHold'
    BY <1>1, <1>2 DEF IdInv, CallersHold, Calls, Holding
  <1>10. CallersAgree'
    <2> SUFFICES ASSUME NEW d \in Callers, caller'[d].workspace \notin meddled,
                        caller'[d].at # "idle"
                 PROVE  /\ caller'[d].at \in Holding => caller'[d].id = marker[caller'[d].workspace]
                        /\ caller'[d].at \in {"ready", "published", "synced"} =>
                             folder[caller'[d].workspace] = "kept"
                        /\ caller'[d].at = "synced" =>
                             kept'[caller'[d].workspace] = marker[caller'[d].workspace]
      BY <1>4 DEF CallersAgree, At, Calls, Holding
    <2>1. CASE d = c
      BY <1>1, <1>2, <1>3, <2>1 DEF IdInv, CallersAgree, At, Calls, Holding
    <2>2. CASE d # c
      <3>1. caller'[d] = caller[d] /\ At(d) \in Workspaces
        BY <1>2, <2>2, Under DEF Calls
      <3> QED
        BY <1>3, <3>1 DEF IdInv, CallersAgree, At, Calls
    <2> QED
      BY <2>1, <2>2
  <1> QED
    BY <1>5, <1>6, <1>7, <1>8, <1>9, <1>10 DEF IdInv

\* The binding names the root of the caller's workspace, and an id that no other has.
LEMMA BindingIsNew ==
  ASSUME IdInv, NEW c \in Callers, Calls(c, "synced"), Bindable(c)
  PROVE  /\ Binding(c) \in BoundRows /\ Binding(c).id = caller[c].id /\ caller[c].id # NoId
         /\ Binding(c).project = root[In(c)][At(c)] /\ Binding(c).project # NoProject
         /\ bound[In(c)][At(c)] \in {Unbound, Binding(c)}
         /\ \A w \in Workspaces \ {At(c)} : bound[In(c)][w].id # caller[c].id
  <1>1. ~Calls(c, "idle")
    BY DEF Calls
  <1>2. /\ In(c) \in Storages /\ At(c) \in Workspaces /\ root[In(c)][At(c)] # NoProject
        /\ caller[c].id \in Ids /\ caller[c].id # NoId
        /\ root[In(c)][At(c)] \in Projects \cup {NoProject}
    <2>1. caller[c].id \in Ids
      BY <1>1, Under DEF CallRows
    <2>2. caller[c].id # NoId
      BY DEF IdInv, CallersHold, Calls, Holding
    <2> QED
      BY <1>1, <2>1, <2>2, Under DEF IdInv, IdentityTypeOK
  <1>3. /\ Binding(c) = [id |-> caller[c].id, project |-> root[In(c)][At(c)]]
        /\ Binding(c) \in BoundRows
    BY <1>2 DEF Binding, Resolved, BoundRows
  <1>4. bound[In(c)][At(c)] \in {Unbound, Binding(c)}
    BY <1>2 DEF Bindable
  <1>5. ASSUME NEW w \in Workspaces \ {At(c)} PROVE bound[In(c)][w].id # caller[c].id
    <2>1. CASE bound[In(c)][w] = Unbound
      BY <1>2, <2>1 DEF Unbound
    <2>2. CASE bound[In(c)][w] # Unbound /\ bound[In(c)][w] = Binding(c)
      <3>1. root[In(c)][w] = root[In(c)][At(c)]
        BY <1>2, <1>3, <2>2 DEF IdInv, BindingsAreOwn
      <3> QED
        BY <1>2, <3>1 DEF IdInv, BindingsAreOwn
    <2> QED
      BY <2>1, <2>2 DEF Bindable
  <1> QED
    BY <1>2, <1>3, <1>4, <1>5

LEMMA BindPortableProjectKeeps ==
  ASSUME IdInv, NEW c \in Callers, BindPortableProject(c)
  PROVE  IdInv' /\ BoundStays
  <1>1. /\ ~Calls(c, "idle") /\ Calls(c, "synced") /\ UNCHANGED <<projects, root, disk, ids, meddled>>
        /\ caller' = [caller EXCEPT ![c] = NotCalling]
    BY DEF BindPortableProject, Calls
  <1>2. /\ \A d \in Callers \ {c} : caller'[d] = caller[d]
        /\ caller' \in [Callers -> CallRows] /\ caller'[c] = NotCalling
    BY <1>1, Under, IdleCaller
  <1>3. CASE ~Bindable(c)
    <2>1. UNCHANGED <<storage, disk, meddled>> /\ ids' \in Ids
      BY <1>1, <1>3, Under DEF BindPortableProject, storage
    <2> QED
      BY <1>1, <1>2, <2>1, IdleCaller, CallerStep
  <1>4. CASE Bindable(c)
    <2> DEFINE S == In(c)
               W == At(c)
    <2>1. /\ S \in Storages /\ W \in Workspaces
          /\ bound \in [Storages -> [Workspaces -> BoundRows]]
      BY <1>1, Under DEF IdInv, IdentityTypeOK, BoundRows
    <2>2. /\ Binding(c) \in BoundRows /\ Binding(c).id = caller[c].id /\ caller[c].id # NoId
          /\ Binding(c).project = root[S][W] /\ Binding(c).project # NoProject
          /\ bound[S][W] \in {Unbound, Binding(c)}
          /\ \A w \in Workspaces \ {W} : bound[S][w].id # caller[c].id
      BY <1>1, <1>4, BindingIsNew
    <2>3. /\ bound' \in [Storages -> [Workspaces -> BoundRows]]
          /\ bound'[S][W] = Binding(c)
          /\ \A w \in Workspaces \ {W} : bound'[S][w] = bound[S][w]
          /\ \A s \in Storages \ {S} : bound'[s] = bound[s]
      BY <1>4, <2>1, <2>2 DEF BindPortableProject
    <2> HIDE DEF S, W
    <2>4. IdentityTypeOK'
      BY <1>1, <1>2, <2>3 DEF IdInv, IdentityTypeOK, disk, CallRows, BoundRows
    <2>5. RootsAreNamed'
      BY <1>1 DEF IdInv, RootsAreNamed
    <2>6. BindingsAreWhole'
      BY <2>2, <2>3 DEF IdInv, BindingsAreWhole
    <2>7. BoundStays
      BY <2>2, <2>3 DEF BoundStays
    <2>8. BindingsAreOwn'
      <3> SUFFICES ASSUME NEW s \in Storages, NEW w \in Workspaces
                   PROVE  /\ root[s][w] # NoProject =>
                               root[s][w] \in projects[s] /\ \A v \in Workspaces \ {w} : root[s][v] # root[s][w]
                          /\ bound'[s][w] # Unbound =>
                               /\ bound'[s][w].project = root[s][w]
                               /\ \A v \in Workspaces \ {w} : bound'[s][v].id # bound'[s][w].id
        BY <1>1 DEF BindingsAreOwn
      <3>1. /\ root[s][w] # NoProject =>
                 root[s][w] \in projects[s] /\ \A v \in Workspaces \ {w} : root[s][v] # root[s][w]
            /\ bound[s][w] # Unbound =>
                 /\ bound[s][w].project = root[s][w]
                 /\ \A v \in Workspaces \ {w} : bound[s][v].id # bound[s][w].id
        BY DEF IdInv, BindingsAreOwn
      <3>2. CASE s # S
        BY <2>3, <3>1, <3>2
      <3>3. CASE s = S /\ w = W
        BY <2>2, <2>3, <3>1, <3>3
      <3>4. CASE s = S /\ w # W
        <4>1. bound'[s][w] = bound[s][w] /\ bound'[s][W].id # bound[s][w].id
          BY <2>1, <2>2, <2>3, <3>4
        <4>2. \A v \in Workspaces \ {W} : bound'[s][v] = bound[s][v]
          BY <2>3, <3>4
        <4> QED
          BY <3>1, <4>1, <4>2
      <3> QED
        BY <3>2, <3>3, <3>4
    <2>9. BindingsAgree'
      <3>1. W \notin meddled =>
              marker[W] = caller[c].id /\ kept[W] = caller[c].id /\ folder[W] = "kept"
        BY <1>1 DEF IdInv, CallersAgree, Calls, Holding, W
      <3> QED
        BY <1>1, <2>1, <2>2, <2>3, <3>1 DEF IdInv, BindingsAgree, disk
    <2>10. CallersAreRooted' /\ CallersHold' /\ CallersAgree'
      BY <1>1, <1>2, IdleCaller
      DEF IdInv, CallersAreRooted, CallersHold, CallersAgree, Calls, In, At, disk, Holding
    <2> QED
      BY <2>4, <2>5, <2>6, <2>7, <2>8, <2>9, <2>10 DEF IdInv
  <1> QED
    BY <1>3, <1>4

----------------------------------------------------------------------------

\* A workspace resolves to a project of its own, and stays with it.
LEMMA ResolvedIsOwn ==
  ASSUME IdInv, NEW s \in Storages, NEW w \in Workspaces
  PROVE  /\ Resolved(s, w) \in {LegacyProject, w} /\ Resolved(s, w) # NoProject
         /\ root[s][w] # NoProject => Resolved(s, w) = root[s][w]
         /\ \A v \in Workspaces \ {w} : root[s][v] # Resolved(s, w)
         /\ LegacyProject # NoProject
  <1>1. LegacyProject # NoProject
    BY DEF LegacyProject, NoProject
  <1>2. NoProject \notin Workspaces /\ LegacyProject \notin Workspaces
    BY IdentityAssumption
  <1>3. \A v \in Workspaces : root[s][v] \in {NoProject, LegacyProject, v}
    BY DEF IdInv, RootsAreNamed
  <1>4. CASE root[s][w] # NoProject
    BY <1>1, <1>3, <1>4 DEF Resolved, IdInv, BindingsAreOwn
  <1>5. CASE root[s][w] = NoProject /\ LegacyProject \in projects[s] /\ ~Rooted(s, LegacyProject)
    BY <1>1, <1>5 DEF Resolved, Rooted
  <1>6. CASE root[s][w] = NoProject /\ ~(LegacyProject \in projects[s] /\ ~Rooted(s, LegacyProject))
    <2>1. Resolved(s, w) = w
      BY <1>6 DEF Resolved
    <2> QED
      BY <1>1, <1>2, <1>3, <1>6, <2>1
  <1> QED
    BY <1>4, <1>5, <1>6

LEMMA ResolveKeeps ==
  ASSUME IdInv, NEW s \in Storages, NEW w \in Workspaces, ResolveProject(s, w), UNCHANGED bound
  PROVE  /\ RootsAreNamed' /\ BindingsAreOwn' /\ BindingsAreWhole' /\ BoundStays
         /\ projects' \in [Storages -> SUBSET Projects]
         /\ root' \in [Storages -> [Workspaces -> Projects \cup {NoProject}]]
         /\ root'[s][w] # NoProject
         /\ \A t \in Storages, v \in Workspaces : root[t][v] # NoProject => root'[t][v] = root[t][v]
  <1>1. /\ Resolved(s, w) \in {LegacyProject, w} /\ Resolved(s, w) # NoProject
        /\ root[s][w] # NoProject => Resolved(s, w) = root[s][w]
        /\ \A v \in Workspaces \ {w} : root[s][v] # Resolved(s, w)
    BY ResolvedIsOwn
  <1>2. /\ projects \in [Storages -> SUBSET Projects]
        /\ root \in [Storages -> [Workspaces -> Projects \cup {NoProject}]]
        /\ Resolved(s, w) \in Projects
    BY <1>1 DEF IdInv, IdentityTypeOK, Projects
  <1>3. /\ projects' \in [Storages -> SUBSET Projects]
        /\ projects'[s] = projects[s] \cup {Resolved(s, w)}
        /\ \A t \in Storages \ {s} : projects'[t] = projects[t]
    BY <1>2 DEF ResolveProject
  <1>4. /\ root' \in [Storages -> [Workspaces -> Projects \cup {NoProject}]]
        /\ root'[s][w] = Resolved(s, w)
        /\ \A v \in Workspaces \ {w} : root'[s][v] = root[s][v]
        /\ \A t \in Storages \ {s} : root'[t] = root[t]
    BY <1>2 DEF ResolveProject
  <1>5. RootsAreNamed'
    BY <1>1, <1>4 DEF IdInv, RootsAreNamed
  <1>6. BindingsAreWhole' /\ BoundStays
    BY DEF IdInv, BindingsAreWhole, BoundStays
  <1>7. \A t \in Storages, v \in Workspaces : root[t][v] # NoProject => root'[t][v] = root[t][v]
    BY <1>1, <1>4
  <1>8. BindingsAreOwn'
    <2> SUFFICES ASSUME NEW t \in Storages, NEW v \in Workspaces
                 PROVE  /\ root'[t][v] # NoProject =>
                             root'[t][v] \in projects'[t] /\ \A u \in Workspaces \ {v} : root'[t][u] # root'[t][v]
                        /\ bound[t][v] # Unbound =>
                             /\ bound[t][v].project = root'[t][v]
                             /\ \A u \in Workspaces \ {v} : bound[t][u].id # bound[t][v].id
      BY DEF BindingsAreOwn
    <2>1. bound[t][v] # Unbound =>
             /\ bound[t][v].project = root'[t][v]
             /\ \A u \in Workspaces \ {v} : bound[t][u].id # bound[t][v].id
      BY <1>7 DEF IdInv, BindingsAreOwn, BindingsAreWhole
    <2>2. root[t][v] # NoProject =>
             root[t][v] \in projects[t] /\ \A u \in Workspaces \ {v} : root[t][u] # root[t][v]
      BY DEF IdInv, BindingsAreOwn
    <2>3. CASE t # s
      BY <1>3, <1>4, <2>1, <2>2, <2>3
    <2>4. CASE t = s /\ v = w
      BY <1>1, <1>3, <1>4, <2>1, <2>4
    <2>5. CASE t = s /\ v # w
      BY <1>1, <1>3, <1>4, <2>1, <2>2, <2>5
    <2> QED
      BY <2>3, <2>4, <2>5
  <1> QED
    BY <1>1, <1>3, <1>4, <1>5, <1>6, <1>7, <1>8

LEMMA ResolveActionKeeps ==
  ASSUME IdInv, NEW s \in Storages, NEW w \in Workspaces, Resolve(s, w)
  PROVE  IdInv' /\ BoundStays
  <1>1. ResolveProject(s, w) /\ UNCHANGED <<bound, disk, caller, ids, meddled>>
    BY DEF Resolve
  <1>2. /\ RootsAreNamed' /\ BindingsAreOwn' /\ BindingsAreWhole' /\ BoundStays
        /\ projects' \in [Storages -> SUBSET Projects]
        /\ root' \in [Storages -> [Workspaces -> Projects \cup {NoProject}]]
        /\ \A t \in Storages, v \in Workspaces : root[t][v] # NoProject => root'[t][v] = root[t][v]
    BY <1>1, ResolveKeeps
  <1>3. IdentityTypeOK'
    BY <1>1, <1>2 DEF IdInv, IdentityTypeOK, disk
  <1>4. CallersAreRooted'
    BY <1>1, <1>2 DEF IdInv, CallersAreRooted, Calls, In, At
  <1>5. CallersHold' /\ CallersAgree' /\ BindingsAgree'
    BY <1>1 DEF IdInv, CallersHold, CallersAgree, BindingsAgree, Calls, At, disk
  <1> QED
    BY <1>2, <1>3, <1>4, <1>5 DEF IdInv

LEMMA ImportLegacyProjectKeeps ==
  ASSUME IdInv, NEW s \in Storages, ImportLegacyProject(s)
  PROVE  IdInv' /\ BoundStays
  <1>1. UNCHANGED <<root, bound, disk, caller, ids, meddled>>
    BY DEF ImportLegacyProject
  <1>2. /\ projects' \in [Storages -> SUBSET Projects]
        /\ \A t \in Storages : projects[t] \subseteq projects'[t]
    BY DEF ImportLegacyProject, IdInv, IdentityTypeOK, Projects
  <1>3. IdentityTypeOK'
    BY <1>1, <1>2 DEF IdInv, IdentityTypeOK, disk
  <1>4. BindingsAreOwn'
    BY <1>1, <1>2 DEF IdInv, BindingsAreOwn
  <1>5. RootsAreNamed' /\ BindingsAreWhole' /\ BoundStays
    BY <1>1 DEF IdInv, RootsAreNamed, BindingsAreWhole, BoundStays
  <1>6. CallersAreRooted' /\ CallersHold' /\ CallersAgree' /\ BindingsAgree'
    BY <1>1
    DEF IdInv, CallersAreRooted, CallersHold, CallersAgree, BindingsAgree, Calls, In, At, disk
  <1> QED
    BY <1>3, <1>4, <1>5, <1>6 DEF IdInv

LEMMA InitializeProjectKeeps ==
  ASSUME IdInv, NEW c \in Callers, NEW s \in Storages, NEW w \in Workspaces,
         InitializeProject(c, s, w)
  PROVE  IdInv' /\ BoundStays
  <1> DEFINE new == [at |-> "resolved", storage |-> s, workspace |-> w, known |-> NoId, id |-> NoId]
  <1>1. ResolveProject(s, w) /\ UNCHANGED <<bound, disk, ids, meddled>>
    BY DEF InitializeProject
  <1>2. /\ RootsAreNamed' /\ BindingsAreOwn' /\ BindingsAreWhole' /\ BoundStays
        /\ projects' \in [Storages -> SUBSET Projects]
        /\ root' \in [Storages -> [Workspaces -> Projects \cup {NoProject}]]
        /\ root'[s][w] # NoProject
        /\ \A t \in Storages, v \in Workspaces : root[t][v] # NoProject => root'[t][v] = root[t][v]
    BY <1>1, ResolveKeeps
  <1>3. /\ new \in CallRows /\ new.at = "resolved" /\ new.storage = s /\ new.workspace = w
        /\ new.at \notin Holding
    BY IdsAreNumbers DEF CallRows, CallStates, Holding
  <1>4. caller' = [caller EXCEPT ![c] = new] /\ caller \in [Callers -> CallRows]
    BY DEF InitializeProject, IdInv, IdentityTypeOK, CallRows
  <1> HIDE DEF new
  <1>5. /\ \A d \in Callers \ {c} : caller'[d] = caller[d]
        /\ caller' \in [Callers -> CallRows] /\ caller'[c] = new
    BY <1>3, <1>4
  <1>6. IdentityTypeOK'
    BY <1>1, <1>2, <1>5 DEF IdInv, IdentityTypeOK, disk, CallRows
  <1>7. CallersAreRooted'
    BY <1>2, <1>3, <1>5 DEF IdInv, CallersAreRooted, Calls, In, At
  <1>8. CallersHold'
    BY <1>3, <1>5 DEF IdInv, CallersHold
  <1>9. CallersAgree'
    BY <1>1, <1>3, <1>5 DEF IdInv, CallersAgree, Calls, At, disk
  <1>10. BindingsAgree'
    BY <1>1 DEF IdInv, BindingsAgree, disk
  <1> QED
    BY <1>2, <1>6, <1>7, <1>8, <1>9, <1>10 DEF IdInv

\* What was synced is what stays, and every caller has ended.
LEMMA LosePowerKeeps ==
  ASSUME IdInv, LosePower
  PROVE  IdInv' /\ BoundStays
  <1>1. UNCHANGED <<storage, ids, meddled>>
    BY DEF LosePower
  <1>2. /\ folder' = [w \in Workspaces |-> IF folder[w] = "kept" THEN "kept" ELSE "absent"]
        /\ marker' = [w \in Workspaces |-> IF folder[w] = "kept" THEN kept[w] ELSE NoId]
        /\ kept' = marker' /\ caller' = [c \in Callers |-> NotCalling]
    BY DEF LosePower
  <1>3. /\ folder' \in [Workspaces -> {"absent", "made", "kept"}]
        /\ marker' \in [Workspaces -> Ids] /\ kept' \in [Workspaces -> Ids]
    BY <1>2, IdsAreNumbers DEF IdInv, IdentityTypeOK
  <1>4. caller' \in [Callers -> CallRows] /\ \A c \in Callers : caller'[c].at = "idle"
    BY <1>2, IdleCaller
  <1>5. IdentityTypeOK'
    BY <1>1, <1>3, <1>4 DEF IdInv, IdentityTypeOK, storage, CallRows
  <1>6. RootsAreNamed' /\ BindingsAreOwn' /\ BindingsAreWhole' /\ BoundStays
    BY <1>1 DEF IdInv, RootsAreNamed, BindingsAreOwn, BindingsAreWhole, BoundStays, storage
  <1>7. CallersAreRooted' /\ CallersHold' /\ CallersAgree'
    BY <1>4 DEF CallersAreRooted, CallersHold, CallersAgree, Calls, Holding
  <1>8. BindingsAgree'
    BY <1>1, <1>2 DEF IdInv, BindingsAgree, storage
  <1> QED
    BY <1>5, <1>6, <1>7, <1>8 DEF IdInv

\* What others do to a marker concerns its workspace alone.
LEMMA MeddledStep ==
  ASSUME IdInv, NEW w \in Workspaces, meddled' = meddled \cup {w},
         UNCHANGED <<storage, caller, ids>>,
         marker' \in [Workspaces -> Ids], kept' \in [Workspaces -> Ids],
         folder' \in [Workspaces -> {"absent", "made", "kept"}],
         \A v \in Workspaces \ {w} :
           marker'[v] = marker[v] /\ kept'[v] = kept[v] /\ folder'[v] = folder[v]
  PROVE  IdInv' /\ BoundStays
  <1>1. IdentityTypeOK'
    BY DEF IdInv, IdentityTypeOK, storage
  <1>2. RootsAreNamed' /\ BindingsAreOwn' /\ BindingsAreWhole' /\ BoundStays
    BY DEF IdInv, RootsAreNamed, BindingsAreOwn, BindingsAreWhole, BoundStays, storage
  <1>3. CallersAreRooted' /\ CallersHold'
    BY DEF IdInv, CallersAreRooted, CallersHold, Calls, In, At, storage
  <1>4. CallersAgree'
    <2> SUFFICES ASSUME NEW d \in Callers, At(d) \notin meddled', caller[d].at # "idle"
                 PROVE  /\ caller[d].at \in Holding => caller[d].id = marker'[At(d)]
                        /\ caller[d].at \in {"ready", "published", "synced"} => folder'[At(d)] = "kept"
                        /\ caller[d].at = "synced" => kept'[At(d)] = marker'[At(d)]
      BY DEF CallersAgree, At, Calls, Holding
    <2>1. At(d) \in Workspaces \ {w} /\ At(d) \notin meddled
      BY Under DEF Calls
    <2> QED
      BY <2>1 DEF IdInv, CallersAgree, Calls
  <1>5. BindingsAgree'
    BY DEF IdInv, BindingsAgree, storage
  <1> QED
    BY <1>1, <1>2, <1>3, <1>4, <1>5 DEF IdInv

LEMMA CopyMarkerKeeps ==
  ASSUME IdInv, NEW w \in Workspaces, NEW copy \in Workspaces, CopyMarker(w, copy)
  PROVE  IdInv' /\ BoundStays
  <1>1. marker[w] \in Ids
    BY DEF IdInv, IdentityTypeOK
  <1>2. /\ marker' \in [Workspaces -> Ids] /\ kept' \in [Workspaces -> Ids]
        /\ folder' \in [Workspaces -> {"absent", "made", "kept"}]
        /\ \A v \in Workspaces \ {copy} :
             marker'[v] = marker[v] /\ kept'[v] = kept[v] /\ folder'[v] = folder[v]
    BY <1>1 DEF CopyMarker, IdInv, IdentityTypeOK
  <1> QED
    BY <1>2, MeddledStep DEF CopyMarker

LEMMA RemoveMarkerKeeps ==
  ASSUME IdInv, NEW w \in Workspaces, RemoveMarker(w)
  PROVE  IdInv' /\ BoundStays
  <1>1. /\ marker' \in [Workspaces -> Ids] /\ kept' \in [Workspaces -> Ids]
        /\ folder' \in [Workspaces -> {"absent", "made", "kept"}]
        /\ \A v \in Workspaces \ {w} :
             marker'[v] = marker[v] /\ kept'[v] = kept[v] /\ folder'[v] = folder[v]
    BY IdsAreNumbers DEF RemoveMarker, IdInv, IdentityTypeOK
  <1> QED
    BY <1>1, MeddledStep DEF RemoveMarker

----------------------------------------------------------------------------

LEMMA InitializesKeeps ==
  ASSUME IdInv, NEW c \in Callers, Initializes(c)
  PROVE  IdInv' /\ BoundStays
  <1>1. CASE PortableProjectID(c)
    BY <1>1, PortableProjectIDKeeps
  <1>2. CASE ReadMarker(c)
    BY <1>2, ReadMarkerKeeps
  <1>3. CASE MakeFolder(c)
    BY <1>3, MakeFolderKeeps
  <1>4. CASE SyncParent(c)
    BY <1>4, SyncParentKeeps
  <1>5. CASE Publish(c)
    BY <1>5, PublishKeeps
  <1>6. CASE SyncFolder(c)
    BY <1>6, SyncFolderKeeps
  <1>7. CASE BindPortableProject(c)
    BY <1>7, BindPortableProjectKeeps
  <1>8. CASE GiveUp(c)
    BY <1>8, GiveUpKeeps
  <1> QED
    BY <1>1, <1>2, <1>3, <1>4, <1>5, <1>6, <1>7, <1>8 DEF Initializes

LEMMA HappensBesideKeeps ==
  ASSUME IdInv, HappensBeside
  PROVE  IdInv' /\ BoundStays
  BY ResolveActionKeeps, ImportLegacyProjectKeeps, CopyMarkerKeeps, RemoveMarkerKeeps
  DEF HappensBeside

\* A step of one caller's initialisation leaves the others as they are.
LEMMA InitializesAlone ==
  ASSUME IdInv, NEW c \in Callers, Initializes(c)
  PROVE  ~Calls(c, "idle") /\ \A d \in Callers \ {c} : caller'[d] = caller[d]
  <1>1. ~Calls(c, "idle")
    BY DEF Initializes, PortableProjectID, ReadMarker, MakeFolder, SyncParent, Publish, SyncFolder,
           BindPortableProject, GiveUp, Calls
  <1>2. \A d \in Callers \ {c} : caller'[d] = caller[d]
    BY DEF IdInv, IdentityTypeOK, Initializes, PortableProjectID, ReadMarker, MakeFolder, SyncParent,
           Publish, SyncFolder, BindPortableProject, GiveUp, Takes, Turns
  <1> QED
    BY <1>1, <1>2

\* The invariant says what a binding must satisfy.
LEMMA InvIsOne == IdInv => IdentityIsOne
  BY DEF IdInv, IdentityIsOne, BindingsAgree

(***************************************************************************)
(* The credential.  The lock makes the profile a command has read the one  *)
(* that is; what a command has already done to the keyring and to the      *)
(* profile is its Progress.                                                *)
(***************************************************************************)

ProfileRows ==
  [ref : Refs \cup {File, NoRef}, bearer : Bearers, previous : Slots \cup {NoRef}]

SyncTyped ==
  sync \in [Procs -> [at : {"idle", "profile", "credential", "running"}, profile : ProfileRows,
                      id : Ids, project : Projects \cup {NoProject}]]

Exclusive ==
  \A p \in Procs : \/ Doing(p, "idle") /\ Syncing(p, "idle")
                   \/ lock = p /\ (Doing(p, "idle") \/ Syncing(p, "idle"))

Stray ==
  \A s \in Slots : keyring[s] # Missing /\ s # profile.ref => s = Inactive(profile.ref)

CleanIsClean ==
  clean => /\ profile.ref \in Slots /\ keyring[Inactive(profile.ref)] = Missing
           /\ \A p \in Procs : Doing(p, "idle")

Progress(p) ==
  /\ command[p].at \in {"begun", "cleared", "put"} =>
       profile.ref = command[p].old /\ profile.previous = NoRef
  /\ command[p].at \in {"recovering", "recovered"} =>
       profile.ref = command[p].old /\ profile.previous \in Slots
  /\ command[p].at \in {"put", "configured", "removed"} =>
       keyring[Target(p)] = command[p].bearer
  /\ command[p].at \in {"configured", "removed"} => profile = NewProfile(p)
  /\ Doing(p, "configured") /\ ~HadSlot(p) => keyring[Inactive(Target(p))] = Missing
  /\ Doing(p, "removed") => HadSlot(p) /\ keyring[command[p].old] = Missing
  /\ Doing(p, "refused") => \/ profile.ref = command[p].old /\ profile.previous = NoRef
                            \/ unsure /\ profile = NewProfile(p)

AllProgress == \A p \in Procs : Progress(p)

\* A sync goes by the profile and the bearer that are.
Taken(p) ==
  /\ ~Syncing(p, "idle") => sync[p].profile = profile
  /\ sync[p].at \in {"credential", "running"} => Stored(profile)

AllTaken == \A p \in Procs : Taken(p)

CredentialInv ==
  /\ EnrollmentTypeOK /\ SyncTyped
  /\ Exclusive
  /\ MarkerIsOther /\ ActiveIsUsable /\ Stray /\ CleanIsClean
  /\ AllProgress
  /\ AllTaken

\* The two slots are each other's.
LEMMA Slotted ==
  /\ \A r : Inactive(r) \in Slots /\ Inactive(r) # r /\ Inactive(r) \in Refs
  /\ \A s \in Slots : Inactive(Inactive(s)) = s /\ s \in Refs /\ s # NoRef
  /\ \A s, r \in Slots : s # r => s = Inactive(r)
  /\ NoRef \notin Refs /\ File \notin Refs /\ File # NoRef
  /\ Legacy \in Refs /\ Legacy \notin Slots
  BY DEF Inactive, Slots, Refs, NoRef, File, Legacy

\* Bearers are numbers, the missing one among them.
LEMMA Numbered == Missing \in Bearers /\ Bearers \subseteq Nat /\ NoProfile \in ProfileRows
  BY EnrollmentAssumption DEF Missing, Bearers, NoProfile, ProfileRows, Refs, NoRef

\* When a process does something, all others do nothing.
LEMMA OthersAreIdle ==
  ASSUME Exclusive, NEW p \in Procs, lock \in {p, Nobody}, NEW q \in Procs, q # p
  PROVE  Doing(q, "idle") /\ Syncing(q, "idle")
  BY EnrollmentAssumption DEF Exclusive

LEMMA InitCredential == Init => CredentialInv
  <1> SUFFICES ASSUME Init PROVE CredentialInv
    OBVIOUS
  <1>1. EnrollmentTypeOK
    <2>1. 0 \in Bearers /\ 1 \in Bearers
      BY EnrollmentAssumption DEF Bearers
    <2>2. profile \in ProfileRows
      BY <2>1, Numbered DEF Init, EnrollmentInit, ProfileRows, Refs, NoRef
    <2>3. keyring \in [Refs -> Bearers]
      BY <2>1 DEF Init, EnrollmentInit, Missing
    <2>4. command \in [Procs -> [at : States, bearer : Bearers, old : Refs \cup {File, NoRef}]]
      BY <2>1 DEF Init, EnrollmentInit, Idle, States, Missing
    <2>5. lock \in Procs \cup {Nobody} /\ enrolled \in Bearers /\ unsure \in BOOLEAN /\ clean \in BOOLEAN
      BY <2>1 DEF Init, EnrollmentInit
    <2> QED
      BY <2>2, <2>3, <2>4, <2>5 DEF EnrollmentTypeOK, ProfileRows
  <1>2. SyncTyped
    BY IdentityAssumption, Numbered DEF Init, SyncTyped, NotSyncing, Ids, NoId, Projects
  <1>3. \A p \in Procs : Doing(p, "idle") /\ Syncing(p, "idle")
    BY DEF Init, EnrollmentInit, Doing, Syncing, Idle, NotSyncing
  <1>4. Exclusive /\ AllProgress /\ AllTaken
    BY <1>3 DEF Exclusive, AllProgress, Progress, Doing, AllTaken, Taken, Syncing
  <1>5. MarkerIsOther /\ ActiveIsUsable /\ Stray /\ CleanIsClean
    BY Slotted
    DEF Init, EnrollmentInit, MarkerIsOther, ActiveIsUsable, Stray, CleanIsClean, NoProfile, NoRef,
        Legacy, Missing, Slots, Refs
  <1> QED
    BY <1>1, <1>2, <1>4, <1>5 DEF CredentialInv

\* What a step of one process's enrolment leaves to show.
LEMMA EnrolStep ==
  ASSUME CredentialInv, NEW p \in Procs, ~Doing(p, "idle"), UNCHANGED sync,
         \A q \in Procs \ {p} : command'[q] = command[q],
         lock' = lock \/ (lock' = Nobody /\ command'[p].at = "idle"),
         EnrollmentTypeOK', AllProgress', MarkerIsOther', ActiveIsUsable', Stray', CleanIsClean'
  PROVE  CredentialInv'
  <1>1. lock = p /\ Syncing(p, "idle")
    BY DEF CredentialInv, Exclusive
  <1>2. \A q \in Procs \ {p} : Doing(q, "idle")' /\ Syncing(q, "idle")'
    BY <1>1, OthersAreIdle DEF CredentialInv, Doing, Syncing
  <1>3. Syncing(p, "idle")'
    BY <1>1 DEF Syncing
  <1>4. SyncTyped'
    BY DEF CredentialInv, SyncTyped
  <1>5. Exclusive'
    BY <1>1, <1>2, <1>3 DEF Exclusive, Doing
  <1>6. AllTaken'
    BY <1>2, <1>3 DEF Syncing, AllTaken, Taken
  <1> QED
    BY <1>4, <1>5, <1>6 DEF CredentialInv

\* An enrolment under way leaves no clean mark, and its process is p.
LEMMA UnderWay ==
  ASSUME CredentialInv, NEW p \in Procs, ~Doing(p, "idle")
  PROVE  /\ lock = p /\ clean = FALSE /\ Progress(p)
         /\ \A q \in Procs \ {p} : command[q].at = "idle"
         /\ profile \in ProfileRows /\ keyring \in [Refs -> Bearers]
         /\ command[p] \in [at : States, bearer : Bearers, old : Refs \cup {File, NoRef}]
  BY EnrollmentAssumption
  DEF CredentialInv, CleanIsClean, Exclusive, Doing, AllProgress, EnrollmentTypeOK, ProfileRows

\* A bearer that is removed is not the active one's.
LEMMA RemovedKeeps ==
  ASSUME CredentialInv, NEW ref \in Refs, ref # profile.ref, keyring' = Removed(ref),
         UNCHANGED <<profile, unsure>>
  PROVE  /\ keyring' \in [Refs -> Bearers]
         /\ ActiveIsUsable' /\ Stray' /\ MarkerIsOther'
         /\ \A r \in Refs \ {ref} : keyring'[r] = keyring[r]
         /\ keyring'[ref] = Missing
  <1>1. keyring \in [Refs -> Bearers] /\ Missing \in Bearers
    BY Numbered DEF CredentialInv, EnrollmentTypeOK
  <1>2. /\ \A r \in Refs \ {ref} : keyring'[r] = keyring[r]
        /\ keyring'[ref] = Missing /\ keyring' \in [Refs -> Bearers]
    BY <1>1 DEF Removed
  <1>3. ActiveIsUsable'
    BY <1>2 DEF CredentialInv, ActiveIsUsable
  <1>4. Stray'
    BY <1>2, Slotted DEF CredentialInv, Stray
  <1>5. MarkerIsOther'
    BY DEF CredentialInv, MarkerIsOther
  <1> QED
    BY <1>2, <1>3, <1>4, <1>5

LEMMA RecoverKeeps ==
  ASSUME CredentialInv, NEW p \in Procs, Recover(p), UNCHANGED sync
  PROVE  CredentialInv'
  <1>1. ~Doing(p, "idle")
    BY DEF Recover, Doing
  <1>2. profile.previous \in Slots /\ profile.ref = command[p].old
    BY <1>1, UnderWay DEF Recover, Doing, Progress
  <1>3. profile.previous # profile.ref
    BY <1>2, Slotted DEF CredentialInv, MarkerIsOther
  <1>4. /\ keyring' \in [Refs -> Bearers]
        /\ ActiveIsUsable' /\ Stray' /\ MarkerIsOther'
    BY <1>2, <1>3, Slotted, RemovedKeeps DEF Recover
  <1>5. /\ \A q \in Procs \ {p} : command'[q] = command[q]
        /\ command'[p] = [command[p] EXCEPT !.at = "recovered"]
        /\ command' \in [Procs -> [at : States, bearer : Bearers, old : Refs \cup {File, NoRef}]]
    BY DEF CredentialInv, EnrollmentTypeOK, Recover, Goes, States
  <1>6. EnrollmentTypeOK'
    BY <1>4, <1>5 DEF CredentialInv, EnrollmentTypeOK, Recover
  <1>7. AllProgress'
    <2>1. command'[p].at = "recovered" /\ command'[p].old = command[p].old
      BY <1>1, <1>5, UnderWay
    <2>2. \A q \in Procs \ {p} : command'[q].at = "idle"
      BY <1>1, <1>5, UnderWay
    <2> QED
      BY <1>2, <2>1, <2>2 DEF AllProgress, Progress, Recover, Doing
  <1>8. CleanIsClean'
    BY <1>1, UnderWay DEF CleanIsClean, Recover
  <1>9. lock' = lock
    BY DEF Recover
  <1> QED
    BY <1>1, <1>4, <1>5, <1>6, <1>7, <1>8, <1>9, EnrolStep

LEMMA UnmarkKeeps ==
  ASSUME CredentialInv, NEW p \in Procs, Unmark(p), UNCHANGED sync
  PROVE  CredentialInv'
  <1>1. ~Doing(p, "idle")
    BY DEF Unmark, Doing
  <1>2. profile \in ProfileRows /\ profile.ref = command[p].old
    BY <1>1, UnderWay DEF Unmark, Doing, Progress
  <1>3. /\ profile' \in ProfileRows /\ profile'.ref = profile.ref
        /\ profile'.bearer = profile.bearer /\ profile'.previous = NoRef
    BY <1>2 DEF Unmark, ProfileRows
  <1>4. ActiveIsUsable' /\ Stray' /\ MarkerIsOther'
    BY <1>3 DEF CredentialInv, ActiveIsUsable, Stray, MarkerIsOther, Unmark
  <1>5. /\ \A q \in Procs \ {p} : command'[q] = command[q]
        /\ command'[p] = [command[p] EXCEPT !.at = "begun"]
        /\ command' \in [Procs -> [at : States, bearer : Bearers, old : Refs \cup {File, NoRef}]]
    BY DEF CredentialInv, EnrollmentTypeOK, Unmark, Goes, States
  <1>6. EnrollmentTypeOK'
    BY <1>3, <1>5 DEF CredentialInv, EnrollmentTypeOK, Unmark, ProfileRows
  <1>7. AllProgress'
    <2>1. command'[p].at = "begun" /\ command'[p].old = command[p].old
      BY <1>1, <1>5, UnderWay
    <2>2. \A q \in Procs \ {p} : command'[q].at = "idle"
      BY <1>1, <1>5, UnderWay
    <2> QED
      BY <1>2, <1>3, <2>1, <2>2 DEF AllProgress, Progress, Unmark, Doing
  <1>8. CleanIsClean'
    BY <1>1, UnderWay DEF CleanIsClean, Unmark
  <1>9. lock' = lock
    BY DEF Unmark
  <1> QED
    BY <1>1, <1>4, <1>5, <1>6, <1>7, <1>8, <1>9, EnrolStep

LEMMA ClearKeeps ==
  ASSUME CredentialInv, NEW p \in Procs, Clear(p), UNCHANGED sync
  PROVE  CredentialInv'
  <1>1. ~Doing(p, "idle")
    BY DEF Clear, Doing
  <1>2. profile.ref = command[p].old /\ profile.previous = NoRef
    BY <1>1, UnderWay DEF Clear, Doing, Progress
  <1>3. Target(p) \in Refs /\ Target(p) # profile.ref
    BY <1>2, Slotted DEF Target
  <1>4. /\ keyring' \in [Refs -> Bearers]
        /\ ActiveIsUsable' /\ Stray' /\ MarkerIsOther'
    BY <1>3, RemovedKeeps DEF Clear
  <1>5. /\ \A q \in Procs \ {p} : command'[q] = command[q]
        /\ command'[p] = [command[p] EXCEPT !.at = "cleared"]
        /\ command' \in [Procs -> [at : States, bearer : Bearers, old : Refs \cup {File, NoRef}]]
    BY DEF CredentialInv, EnrollmentTypeOK, Clear, Goes, States
  <1>6. EnrollmentTypeOK'
    BY <1>4, <1>5 DEF CredentialInv, EnrollmentTypeOK, Clear
  <1>7. AllProgress'
    <2>1. command'[p].at = "cleared" /\ command'[p].old = command[p].old
      BY <1>1, <1>5, UnderWay
    <2>2. \A q \in Procs \ {p} : command'[q].at = "idle"
      BY <1>1, <1>5, UnderWay
    <2> QED
      BY <1>2, <2>1, <2>2 DEF AllProgress, Progress, Clear, Doing
  <1>8. CleanIsClean'
    BY <1>1, UnderWay DEF CleanIsClean, Clear
  <1>9. lock' = lock
    BY DEF Clear
  <1> QED
    BY <1>1, <1>4, <1>5, <1>6, <1>7, <1>8, <1>9, EnrolStep

\* What is left of a command that goes on, or ends.
LEMMA CommandGoes ==
  ASSUME CredentialInv, NEW p \in Procs, ~Doing(p, "idle"), NEW at \in States, Goes(p, at)
  PROVE  /\ \A q \in Procs \ {p} : command'[q] = command[q] /\ command'[q].at = "idle"
         /\ command'[p].at = at /\ command'[p].old = command[p].old
         /\ command'[p].bearer = command[p].bearer
         /\ command' \in [Procs -> [at : States, bearer : Bearers, old : Refs \cup {File, NoRef}]]
  BY UnderWay DEF CredentialInv, EnrollmentTypeOK, Goes

LEMMA CommandEnds ==
  ASSUME CredentialInv, NEW p \in Procs, ~Doing(p, "idle"), Ends(p)
  PROVE  /\ \A q \in Procs \ {p} : command'[q] = command[q] /\ command'[q].at = "idle"
         /\ command'[p].at = "idle" /\ lock' = Nobody
         /\ command' \in [Procs -> [at : States, bearer : Bearers, old : Refs \cup {File, NoRef}]]
         /\ AllProgress'
  <1>1. Idle \in [at : States, bearer : Bearers, old : Refs \cup {File, NoRef}] /\ Idle.at = "idle"
    BY Numbered DEF Idle, States
  <1>2. command' \in [Procs -> [at : States, bearer : Bearers, old : Refs \cup {File, NoRef}]]
    BY <1>1 DEF CredentialInv, EnrollmentTypeOK, Ends
  <1>3. /\ \A q \in Procs \ {p} : command'[q] = command[q] /\ command'[q].at = "idle"
        /\ command'[p].at = "idle" /\ lock' = Nobody
    BY <1>1, UnderWay DEF CredentialInv, EnrollmentTypeOK, Ends
  <1>4. AllProgress'
    BY <1>3 DEF AllProgress, Progress, Doing
  <1> QED
    BY <1>2, <1>3, <1>4

LEMMA PutKeeps ==
  ASSUME CredentialInv, NEW p \in Procs, Put(p), UNCHANGED sync
  PROVE  CredentialInv'
  <1>1. ~Doing(p, "idle")
    BY DEF Put, Doing
  <1>2. profile.ref = command[p].old /\ profile.previous = NoRef
    BY <1>1, UnderWay DEF Put, Doing, Progress
  <1>3. Target(p) \in Slots /\ Target(p) \in Refs /\ Target(p) # profile.ref
    BY <1>2, Slotted DEF Target
  <1>4. /\ keyring' \in [Refs -> Bearers] /\ keyring'[Target(p)] = command[p].bearer
        /\ \A r \in Refs \ {Target(p)} : keyring'[r] = keyring[r]
    BY <1>1, <1>3, UnderWay DEF Put
  <1>5. ActiveIsUsable' /\ MarkerIsOther'
    BY <1>3, <1>4 DEF CredentialInv, ActiveIsUsable, MarkerIsOther, Put
  <1>6. Stray'
    BY <1>2, <1>3, <1>4, Slotted DEF CredentialInv, Stray, Put, Target
  <1>7. /\ \A q \in Procs \ {p} : command'[q] = command[q] /\ command'[q].at = "idle"
        /\ command'[p].at = "put" /\ command'[p].old = command[p].old
        /\ command'[p].bearer = command[p].bearer
        /\ command' \in [Procs -> [at : States, bearer : Bearers, old : Refs \cup {File, NoRef}]]
    BY <1>1, CommandGoes DEF Put, States
  <1>8. EnrollmentTypeOK'
    BY <1>4, <1>7 DEF CredentialInv, EnrollmentTypeOK, Put
  <1>9. AllProgress'
    BY <1>2, <1>4, <1>7 DEF AllProgress, Progress, Doing, Target, Put
  <1>10. CleanIsClean'
    BY <1>1, UnderWay DEF CleanIsClean, Put
  <1>11. lock' = lock
    BY DEF Put
  <1> QED
    BY <1>1, <1>5, <1>6, <1>7, <1>8, <1>9, <1>10, <1>11, EnrolStep

\* The profile that is written names the slot of the bearer just stored.
LEMMA NewProfileKeeps ==
  ASSUME CredentialInv, NEW p \in Procs, Doing(p, "put"), profile' = NewProfile(p), UNCHANGED keyring
  PROVE  /\ profile' \in ProfileRows
         /\ ActiveIsUsable' /\ Stray' /\ MarkerIsOther'
         /\ HadSlot(p) \/ keyring[Inactive(Target(p))] = Missing
  <1>1. ~Doing(p, "idle")
    BY DEF Doing
  <1>2. /\ command[p].old = profile.ref /\ keyring[Target(p)] = command[p].bearer
        /\ command[p].bearer \in Bearers /\ command[p].old \in Refs \cup {File, NoRef}
    BY <1>1, UnderWay DEF Progress, Doing
  <1>3. Target(p) \in Slots /\ Target(p) \in Refs /\ Target(p) = Inactive(command[p].old)
    BY Slotted DEF Target
  <1>4. profile' \in ProfileRows /\ profile'.ref = Target(p) /\ profile'.bearer = command[p].bearer
    BY <1>2, <1>3 DEF NewProfile, Remembers, ProfileRows
  <1>5. profile'.previous # NoRef => command[p].old \in Slots /\ profile'.previous = command[p].old
    BY DEF NewProfile, Remembers
  <1>6. ActiveIsUsable'
    BY <1>2, <1>4 DEF ActiveIsUsable
  <1>7. Stray'
    BY <1>3, <1>4, Slotted DEF Stray
  <1>8. MarkerIsOther'
    BY <1>3, <1>4, <1>5, Slotted DEF MarkerIsOther
  <1>9. HadSlot(p) \/ keyring[Inactive(Target(p))] = Missing
    BY <1>2, <1>3, Slotted DEF HadSlot, CredentialInv, Stray
  <1> QED
    BY <1>4, <1>6, <1>7, <1>8, <1>9

LEMMA ConfigureKeeps ==
  ASSUME CredentialInv, NEW p \in Procs, Configure(p), UNCHANGED sync
  PROVE  CredentialInv'
  <1>1. ~Doing(p, "idle") /\ Doing(p, "put")
    BY DEF Configure, Doing
  <1>2. /\ profile.ref = command[p].old /\ profile.previous = NoRef
        /\ keyring[Target(p)] = command[p].bearer
        /\ profile \in ProfileRows /\ unsure \in BOOLEAN
    BY <1>1, UnderWay DEF Doing, Progress, CredentialInv, EnrollmentTypeOK
  <1>3. lock' = lock /\ clean' = FALSE /\ keyring' = keyring
    BY <1>1, UnderWay DEF Configure
  <1>4. PICK at \in {"configured", "refused"} : Goes(p, at)
    BY DEF Configure
  <1>5. /\ \A q \in Procs \ {p} : command'[q] = command[q] /\ command'[q].at = "idle"
        /\ command'[p].at = at /\ command'[p].old = command[p].old
        /\ command'[p].bearer = command[p].bearer
        /\ command' \in [Procs -> [at : States, bearer : Bearers, old : Refs \cup {File, NoRef}]]
    BY <1>1, <1>4, CommandGoes DEF States
  <1>6. CleanIsClean'
    BY <1>3 DEF CleanIsClean
  <1>7. Target(p)' = Target(p) /\ HadSlot(p)' = HadSlot(p) /\ NewProfile(p)' = NewProfile(p)
    BY <1>5 DEF Target, HadSlot, NewProfile
  <1>8. CASE profile' = NewProfile(p) /\ (Goes(p, "configured") \/ unsure')
    <2>1. /\ profile' \in ProfileRows
          /\ ActiveIsUsable' /\ Stray' /\ MarkerIsOther'
          /\ HadSlot(p) \/ keyring[Inactive(Target(p))] = Missing
      BY <1>1, <1>3, <1>8, NewProfileKeeps
    <2>2. EnrollmentTypeOK'
      BY <1>3, <1>5, <2>1 DEF CredentialInv, EnrollmentTypeOK, ProfileRows, Configure
    <2>3. at = "refused" => unsure'
      BY <1>1, <1>5, <1>8, CommandGoes DEF States
    <2>4. AllProgress'
      BY <1>2, <1>3, <1>5, <1>7, <1>8, <2>1, <2>3 DEF AllProgress, Progress, Doing
    <2> QED
      BY <1>1, <1>3, <1>5, <1>6, <2>1, <2>2, <2>4, EnrolStep
  <1>9. CASE profile' = profile /\ Goes(p, "refused") /\ unsure' = unsure
    <2>1. ActiveIsUsable' /\ Stray' /\ MarkerIsOther'
      BY <1>3, <1>9 DEF CredentialInv, ActiveIsUsable, Stray, MarkerIsOther
    <2>2. EnrollmentTypeOK'
      BY <1>3, <1>5, <1>9 DEF CredentialInv, EnrollmentTypeOK, Configure
    <2>3. command'[p].at = "refused"
      BY <1>1, <1>9, CommandGoes DEF States
    <2>4. AllProgress'
      BY <1>2, <1>5, <1>9, <2>3 DEF AllProgress, Progress, Doing
    <2> QED
      BY <1>1, <1>3, <1>5, <1>6, <2>1, <2>2, <2>4, EnrolStep
  <1> QED
    BY <1>8, <1>9 DEF Configure

\* The bearer just stored is not the active one's, unless its writer was not sure.
LEMMA CompensateKeeps ==
  ASSUME CredentialInv, NEW p \in Procs, Compensate(p), UNCHANGED sync
  PROVE  CredentialInv'
  <1>1. ~Doing(p, "idle") /\ Doing(p, "refused")
    BY DEF Compensate, Doing
  <1>2. \/ profile.ref = command[p].old
        \/ unsure /\ profile = NewProfile(p)
    BY <1>1, UnderWay DEF Progress
  <1>3. Target(p) \in Slots /\ Target(p) \in Refs /\ Target(p) = Inactive(command[p].old)
    BY Slotted DEF Target
  <1>4. keyring' = Removed(Target(p)) /\ profile' = profile /\ unsure' = unsure /\ clean' = clean
    BY DEF Compensate, Compensates
  <1>5. keyring \in [Refs -> Bearers] /\ keyring' \in [Refs -> Bearers] /\ keyring'[Target(p)] = Missing
    BY <1>1, <1>3, <1>4, UnderWay, Numbered DEF Removed
  <1>6. ActiveIsUsable' /\ Stray' /\ MarkerIsOther'
    <2>1. CASE Target(p) # profile.ref
      BY <1>3, <1>4, <2>1, RemovedKeeps
    <2>2. CASE Target(p) = profile.ref
      <3>1. unsure
        BY <1>2, <1>3, <2>2, Slotted
      <3>2. Stray' /\ MarkerIsOther'
        BY <1>3, <1>4, <2>2, Slotted DEF CredentialInv, Stray, MarkerIsOther
      <3> QED
        BY <1>4, <3>1, <3>2 DEF ActiveIsUsable
    <2> QED
      BY <2>1, <2>2
  <1>7. /\ \A q \in Procs \ {p} : command'[q] = command[q]
        /\ command'[p].at = "idle" /\ lock' = Nobody /\ AllProgress'
        /\ command' \in [Procs -> [at : States, bearer : Bearers, old : Refs \cup {File, NoRef}]]
    BY <1>1, CommandEnds DEF Compensate
  <1>8. EnrollmentTypeOK'
    BY <1>5, <1>7 DEF CredentialInv, EnrollmentTypeOK, Compensate
  <1>9. CleanIsClean'
    BY <1>1, <1>4, UnderWay DEF CleanIsClean
  <1> QED
    BY <1>1, <1>6, <1>7, <1>8, <1>9, EnrolStep

LEMMA RemoveOldKeeps ==
  ASSUME CredentialInv, NEW p \in Procs, RemoveOld(p), UNCHANGED sync
  PROVE  CredentialInv'
  <1>1. ~Doing(p, "idle") /\ Doing(p, "configured")
    BY DEF RemoveOld, Doing
  <1>2. profile = NewProfile(p) /\ keyring[Target(p)] = command[p].bearer
    BY <1>1, UnderWay DEF Progress, Doing
  <1>3. /\ command[p].old \in Slots /\ command[p].old \in Refs
        /\ Target(p) # command[p].old /\ profile.ref = Target(p)
    BY <1>2, Slotted DEF RemoveOld, HadSlot, Target, NewProfile
  <1>4. /\ keyring' \in [Refs -> Bearers]
        /\ ActiveIsUsable' /\ Stray' /\ MarkerIsOther'
        /\ \A r \in Refs \ {command[p].old} : keyring'[r] = keyring[r]
        /\ keyring'[command[p].old] = Missing
    BY <1>3, RemovedKeeps DEF RemoveOld
  <1>5. /\ \A q \in Procs \ {p} : command'[q] = command[q] /\ command'[q].at = "idle"
        /\ command'[p].at = "removed" /\ command'[p].old = command[p].old
        /\ command'[p].bearer = command[p].bearer
        /\ command' \in [Procs -> [at : States, bearer : Bearers, old : Refs \cup {File, NoRef}]]
    BY <1>1, CommandGoes DEF RemoveOld, States
  <1>6. EnrollmentTypeOK'
    BY <1>4, <1>5 DEF CredentialInv, EnrollmentTypeOK, RemoveOld
  <1>7. Target(p)' = Target(p) /\ HadSlot(p)' = HadSlot(p) /\ NewProfile(p)' = NewProfile(p)
    BY <1>5 DEF Target, HadSlot, NewProfile
  <1>8. keyring'[Target(p)] = command[p].bearer /\ HadSlot(p) /\ profile' = profile
    BY <1>2, <1>3, <1>4, Slotted DEF RemoveOld, Target
  <1>9. AllProgress'
    BY <1>2, <1>4, <1>5, <1>7, <1>8 DEF AllProgress, Progress, Doing
  <1>10. CleanIsClean' /\ lock' = lock
    BY <1>1, UnderWay DEF CleanIsClean, RemoveOld
  <1> QED
    BY <1>1, <1>4, <1>5, <1>6, <1>9, <1>10, EnrolStep

\* An enrolment that ends well leaves the active bearer alone in the slots.
LEMMA FinishKeeps ==
  ASSUME CredentialInv, NEW p \in Procs, Finish(p), UNCHANGED sync
  PROVE  CredentialInv'
  <1>1. ~Doing(p, "idle")
    BY DEF Finish, Doing
  <1>2. profile = NewProfile(p) /\ keyring[Target(p)] = command[p].bearer
    BY <1>1, UnderWay DEF Finish, Progress, Doing
  <1>3. /\ Target(p) \in Slots /\ Target(p) \in Refs
        /\ profile.ref = Target(p) /\ profile.bearer = command[p].bearer
    BY <1>2, Slotted DEF Target, NewProfile
  <1>4. keyring[Inactive(Target(p))] = Missing
    <2>1. CASE Doing(p, "removed")
      <3>1. HadSlot(p) /\ keyring[command[p].old] = Missing
        BY <1>1, <2>1, UnderWay DEF Progress
      <3> QED
        BY <3>1, Slotted DEF HadSlot, Target
    <2>2. CASE Doing(p, "configured") /\ ~HadSlot(p)
      BY <1>1, <2>2, UnderWay DEF Progress
    <2> QED
      BY <2>1, <2>2 DEF Finish
  <1>5. profile \in ProfileRows /\ keyring \in [Refs -> Bearers]
    BY <1>1, UnderWay
  <1>6. /\ profile' \in ProfileRows /\ profile'.ref = profile.ref
        /\ profile'.bearer = profile.bearer /\ profile'.previous \in {profile.previous, NoRef}
    BY <1>5 DEF Finish, ProfileRows
  <1>7. keyring' = keyring /\ clean' = TRUE /\ unsure' = FALSE /\ enrolled' = enrolled
    BY DEF Finish
  <1>8. ActiveIsUsable'
    BY <1>2, <1>3, <1>6, <1>7 DEF ActiveIsUsable
  <1>9. Stray' /\ MarkerIsOther'
    BY <1>6, <1>7 DEF CredentialInv, Stray, MarkerIsOther
  <1>10. /\ \A q \in Procs \ {p} : command'[q] = command[q] /\ command'[q].at = "idle"
         /\ command'[p].at = "idle" /\ lock' = Nobody /\ AllProgress'
         /\ command' \in [Procs -> [at : States, bearer : Bearers, old : Refs \cup {File, NoRef}]]
    BY <1>1, CommandEnds DEF Finish
  <1>11. EnrollmentTypeOK'
    BY <1>5, <1>6, <1>7, <1>10 DEF CredentialInv, EnrollmentTypeOK, ProfileRows
  <1>12. CleanIsClean'
    BY <1>3, <1>4, <1>6, <1>7, <1>10 DEF CleanIsClean, Doing
  <1> QED
    BY <1>1, <1>8, <1>9, <1>10, <1>11, <1>12, EnrolStep

LEMMA StopKeeps ==
  ASSUME CredentialInv, NEW p \in Procs, Stop(p), UNCHANGED sync
  PROVE  CredentialInv'
  <1>1. ~Doing(p, "idle")
    BY DEF Stop
  <1>2. /\ \A q \in Procs \ {p} : command'[q] = command[q]
        /\ command'[p].at = "idle" /\ lock' = Nobody /\ AllProgress'
        /\ command' \in [Procs -> [at : States, bearer : Bearers, old : Refs \cup {File, NoRef}]]
    BY <1>1, CommandEnds DEF Stop
  <1>3. EnrollmentTypeOK'
    BY <1>2 DEF CredentialInv, EnrollmentTypeOK, Stop
  <1>4. ActiveIsUsable' /\ Stray' /\ MarkerIsOther'
    BY DEF CredentialInv, ActiveIsUsable, Stray, MarkerIsOther, Stop
  <1>5. CleanIsClean'
    BY <1>1, UnderWay DEF CleanIsClean, Stop
  <1> QED
    BY <1>1, <1>2, <1>3, <1>4, <1>5, EnrolStep

----------------------------------------------------------------------------
(* Steps at whose start nobody holds the lock, and those of a sync. *)

\* While nobody holds the lock, nothing is under way.
LEMMA NobodyWorks ==
  ASSUME CredentialInv, lock = Nobody
  PROVE  \A q \in Procs : Doing(q, "idle") /\ Syncing(q, "idle")
  BY EnrollmentAssumption DEF CredentialInv, Exclusive

LEMMA BeginKeeps ==
  ASSUME CredentialInv, NEW p \in Procs, Begin(p), UNCHANGED sync
  PROVE  CredentialInv'
  <1> DEFINE new == [at |-> IF profile.previous = NoRef THEN "begun" ELSE "recovering",
                     bearer |-> enrolled + 1, old |-> profile.ref]
  <1>1. \A q \in Procs : command[q].at = "idle" /\ sync[q].at = "idle"
    BY NobodyWorks DEF Begin, Doing, Syncing
  <1>2. profile \in ProfileRows /\ enrolled + 1 \in Bearers
    BY EnrollmentAssumption DEF CredentialInv, EnrollmentTypeOK, ProfileRows, Begin, Bearers
  <1>3. new \in [at : States, bearer : Bearers, old : Refs \cup {File, NoRef}]
    BY <1>2 DEF ProfileRows, States
  <1>4. command' = [command EXCEPT ![p] = new] /\ lock' = p /\ clean' = FALSE
    BY DEF Begin
  <1>5. UNCHANGED <<profile, keyring, unsure>> /\ enrolled' = enrolled + 1
    BY DEF Begin
  <1>6. /\ \/ new.at = "begun" /\ profile.previous = NoRef
           \/ new.at = "recovering" /\ profile.previous \in Slots
        /\ new.old = profile.ref
    <2>1. profile.previous \in Slots \cup {NoRef}
      BY <1>2 DEF ProfileRows
    <2>2. new.at = IF profile.previous = NoRef THEN "begun" ELSE "recovering"
      OBVIOUS
    <2>3. new.old = profile.ref
      OBVIOUS
    <2> HIDE DEF new
    <2> QED
      BY <2>1, <2>2, <2>3
  <1> HIDE DEF new
  <1>7. /\ \A q \in Procs \ {p} : command'[q].at = "idle"
        /\ command'[p] = new
        /\ command' \in [Procs -> [at : States, bearer : Bearers, old : Refs \cup {File, NoRef}]]
    BY <1>1, <1>3, <1>4 DEF CredentialInv, EnrollmentTypeOK
  <1>8. EnrollmentTypeOK'
    BY <1>2, <1>4, <1>5, <1>7 DEF CredentialInv, EnrollmentTypeOK
  <1>9. SyncTyped' /\ MarkerIsOther' /\ ActiveIsUsable' /\ Stray' /\ CleanIsClean'
    BY <1>4, <1>5
    DEF CredentialInv, SyncTyped, MarkerIsOther, ActiveIsUsable, Stray, CleanIsClean
  <1>10. Exclusive'
    BY <1>1, <1>4, <1>7 DEF Exclusive, Doing, Syncing
  <1>11. AllProgress'
    BY <1>5, <1>6, <1>7 DEF AllProgress, Progress, Doing
  <1>12. AllTaken'
    BY <1>1 DEF AllTaken, Taken, Syncing
  <1> QED
    BY <1>8, <1>9, <1>10, <1>11, <1>12 DEF CredentialInv

LEMMA ConfigureFileKeeps ==
  ASSUME CredentialInv, NEW p \in Procs, ConfigureFile(p), UNCHANGED sync
  PROVE  CredentialInv'
  <1>1. \A q \in Procs : command[q].at = "idle" /\ sync[q].at = "idle"
    BY NobodyWorks DEF ConfigureFile, Doing, Syncing
  <1>2. enrolled + 1 \in Bearers /\ enrolled' = enrolled + 1
    BY EnrollmentAssumption DEF CredentialInv, EnrollmentTypeOK, ConfigureFile, Bearers
  <1>3. /\ profile' \in ProfileRows /\ profile'.ref = File /\ profile'.previous = NoRef
        /\ profile.ref \notin Slots
        /\ Inactive(profile'.ref) = Inactive(profile.ref)
    BY <1>2, Slotted DEF ConfigureFile, ProfileRows, Inactive, File, NoRef, Slots
  <1>4. UNCHANGED <<keyring, lock, command, unsure, clean>>
    BY DEF ConfigureFile
  <1>5. EnrollmentTypeOK' /\ SyncTyped'
    BY <1>2, <1>3, <1>4 DEF CredentialInv, EnrollmentTypeOK, ProfileRows, SyncTyped
  <1>6. Exclusive' /\ AllProgress' /\ AllTaken'
    BY <1>1, <1>4 DEF Exclusive, AllProgress, Progress, AllTaken, Taken, Doing, Syncing
  <1>7. MarkerIsOther' /\ ActiveIsUsable'
    BY <1>3, Slotted DEF MarkerIsOther, ActiveIsUsable
  <1>8. Stray' /\ CleanIsClean'
    BY <1>3, <1>4 DEF CredentialInv, Stray, CleanIsClean
  <1> QED
    BY <1>5, <1>6, <1>7, <1>8 DEF CredentialInv

\* A sync changes nothing of the credential but who holds the lock.
LEMMA SyncStep ==
  ASSUME CredentialInv, NEW p \in Procs, Doing(p, "idle"), lock \in {p, Nobody},
         UNCHANGED <<profile, keyring, command, unsure, clean, enrolled>>,
         \A q \in Procs \ {p} : sync'[q] = sync[q],
         SyncTyped',
         \/ sync'[p].at = "idle" /\ lock' = Nobody
         \/ /\ lock' = p /\ sync'[p].profile = profile
            /\ sync'[p].at \in {"credential", "running"} => Stored(profile)
  PROVE  CredentialInv'
  <1>1. \A q \in Procs \ {p} : command[q].at = "idle" /\ sync[q].at = "idle"
    BY OthersAreIdle DEF CredentialInv, Doing, Syncing
  <1>2. EnrollmentTypeOK'
    BY EnrollmentAssumption DEF CredentialInv, EnrollmentTypeOK
  <1>3. MarkerIsOther' /\ ActiveIsUsable' /\ Stray'
    BY DEF CredentialInv, MarkerIsOther, ActiveIsUsable, Stray
  <1>4. CleanIsClean'
    BY DEF CredentialInv, CleanIsClean, Doing
  <1>5. AllProgress'
    BY <1>1 DEF AllProgress, Progress, Doing
  <1>6. Exclusive'
    BY <1>1 DEF Exclusive, Doing, Syncing
  <1>7. AllTaken'
    BY <1>1 DEF AllTaken, Taken, Syncing, Stored
  <1> QED
    BY <1>2, <1>3, <1>4, <1>5, <1>6, <1>7 DEF CredentialInv

LEMMA BeginSyncKeeps ==
  ASSUME CredentialInv, NEW p \in Procs, BeginSync(p)
  PROVE  CredentialInv'
  <1> DEFINE new == [NotSyncing EXCEPT !.at = "profile", !.profile = profile]
  <1>1. lock = Nobody /\ lock' = p /\ sync' = [sync EXCEPT ![p] = new]
    BY DEF BeginSync, LockIsFree
  <1>2. profile \in ProfileRows /\ NoId \in Ids
    BY IdsAreNumbers DEF CredentialInv, EnrollmentTypeOK, ProfileRows
  <1>3. /\ new \in [at : {"idle", "profile", "credential", "running"}, profile : ProfileRows,
                    id : Ids, project : Projects \cup {NoProject}]
        /\ new.at = "profile" /\ new.profile = profile
    BY <1>2 DEF NotSyncing
  <1> HIDE DEF new
  <1>4. SyncTyped' /\ sync'[p] = new /\ \A q \in Procs \ {p} : sync'[q] = sync[q]
    BY <1>1, <1>3 DEF CredentialInv, SyncTyped
  <1>5. Doing(p, "idle")
    BY <1>1, NobodyWorks
  <1> QED
    BY <1>1, <1>3, <1>4, <1>5, SyncStep DEF BeginSync

\* A process in the middle of a sync holds the lock, and goes by the profile that is.
LEMMA SyncUnderWay ==
  ASSUME CredentialInv, NEW p \in Procs, ~Syncing(p, "idle")
  PROVE  Doing(p, "idle") /\ lock = p /\ sync[p].profile = profile
  BY DEF CredentialInv, Exclusive, AllTaken, Taken

LEMMA ReadCredentialKeeps ==
  ASSUME CredentialInv, NEW p \in Procs, ReadCredential(p)
  PROVE  CredentialInv'
  <1>1. ~Syncing(p, "idle") /\ UNCHANGED enrollment
    BY DEF ReadCredential, Syncing
  <1>2. Doing(p, "idle") /\ lock = p /\ sync[p].profile = profile /\ Stored(profile)
    BY <1>1, SyncUnderWay DEF ReadCredential
  <1>3. /\ SyncTyped' /\ sync'[p].profile = sync[p].profile
        /\ \A q \in Procs \ {p} : sync'[q] = sync[q]
    BY DEF ReadCredential, SyncIs, CredentialInv, SyncTyped
  <1> QED
    BY <1>1, <1>2, <1>3, SyncStep DEF enrollment

LEMMA ReadIdentityKeeps ==
  ASSUME CredentialInv, IdInv, NEW p \in Procs, NEW w \in Workspaces, ReadIdentity(p, w)
  PROVE  CredentialInv'
  <1>1. ~Syncing(p, "idle") /\ Syncing(p, "credential") /\ UNCHANGED enrollment
    BY DEF ReadIdentity, Syncing
  <1>2. Doing(p, "idle") /\ lock = p /\ sync[p].profile = profile
    BY <1>1, SyncUnderWay
  <1>3. Stored(profile)
    BY <1>1, <1>2 DEF CredentialInv, AllTaken, Taken, Syncing
  <1>4. marker[w] \in Ids /\ root[Home][w] \in Projects \cup {NoProject}
    BY SetupAssumption DEF IdInv, IdentityTypeOK
  <1>5. /\ SyncTyped' /\ sync'[p].profile = sync[p].profile
        /\ \A q \in Procs \ {p} : sync'[q] = sync[q]
    BY <1>4 DEF ReadIdentity, CredentialInv, SyncTyped
  <1> QED
    BY <1>1, <1>2, <1>3, <1>5, SyncStep DEF enrollment

LEMMA EndSyncKeeps ==
  ASSUME CredentialInv, NEW p \in Procs, EndSync(p)
  PROVE  CredentialInv'
  <1>1. ~Syncing(p, "idle") /\ lock' = Nobody
    BY DEF EndSync
  <1>2. Doing(p, "idle") /\ lock = p
    BY <1>1, SyncUnderWay
  <1>3. /\ NotSyncing \in [at : {"idle", "profile", "credential", "running"}, profile : ProfileRows,
                           id : Ids, project : Projects \cup {NoProject}]
        /\ NotSyncing.at = "idle"
    BY IdsAreNumbers, Numbered DEF NotSyncing
  <1>4. SyncTyped' /\ sync'[p].at = "idle" /\ \A q \in Procs \ {p} : sync'[q] = sync[q]
    BY <1>3 DEF EndSync, CredentialInv, SyncTyped
  <1> QED
    BY <1>1, <1>2, <1>4, SyncStep DEF EndSync

\* A step that touches neither the credential nor a sync.
LEMMA ElsewhereKeeps ==
  ASSUME CredentialInv, UNCHANGED <<enrollment, sync>>
  PROVE  CredentialInv'
  <1>1. /\ UNCHANGED <<profile, keyring, lock, command, enrolled, unsure, clean>> /\ sync' = sync
    BY DEF enrollment
  <1>2. EnrollmentTypeOK' /\ SyncTyped' /\ MarkerIsOther' /\ ActiveIsUsable' /\ Stray'
    BY <1>1 DEF CredentialInv, EnrollmentTypeOK, SyncTyped, MarkerIsOther, ActiveIsUsable, Stray
  <1>3. Exclusive' /\ CleanIsClean' /\ AllTaken'
    BY <1>1 DEF CredentialInv, Exclusive, CleanIsClean, AllTaken, Taken, Doing, Syncing, Stored
  <1>4. AllProgress'
    BY <1>1 DEF CredentialInv, AllProgress, Progress, Doing, Target, HadSlot, NewProfile
  <1> QED
    BY <1>2, <1>3, <1>4 DEF CredentialInv

LEMMA EnrolsKeeps ==
  ASSUME CredentialInv, NEW p \in Procs, Enrols(p), UNCHANGED sync
  PROVE  CredentialInv'
  <1>1. CASE Recover(p)
    BY <1>1, RecoverKeeps
  <1>2. CASE Unmark(p)
    BY <1>2, UnmarkKeeps
  <1>3. CASE Clear(p)
    BY <1>3, ClearKeeps
  <1>4. CASE Put(p)
    BY <1>4, PutKeeps
  <1>5. CASE Configure(p)
    BY <1>5, ConfigureKeeps
  <1>6. CASE Compensate(p)
    BY <1>6, CompensateKeeps
  <1>7. CASE RemoveOld(p)
    BY <1>7, RemoveOldKeeps
  <1>8. CASE Finish(p)
    BY <1>8, FinishKeeps
  <1>9. CASE Stop(p)
    BY <1>9, StopKeeps
  <1> QED
    BY <1>1, <1>2, <1>3, <1>4, <1>5, <1>6, <1>7, <1>8, <1>9 DEF Enrols

----------------------------------------------------------------------------
(* The commands together. *)

\* A process runs one command.
OneCommand == \A p \in Procs : (Doing(p, "idle") /\ Syncing(p, "idle")) \/ Calls(p, "idle")

\* A sync goes by a project that is bound.
RunningIsBound ==
  \A p \in Procs : Syncing(p, "running") =>
    /\ sync[p].id # NoId
    /\ \E w \in Workspaces : bound[Home][w] = [id |-> sync[p].id, project |-> sync[p].project]

SetupInv ==
  /\ CredentialInv /\ IdInv
  /\ OneCommand /\ RunningIsBound
  /\ started \in 0 .. MaxCommands

LEMMA InitSetup == Init => SetupInv
  <1> SUFFICES ASSUME Init PROVE SetupInv
    OBVIOUS
  <1>1. CredentialInv /\ IdInv
    BY InitCredential, InitIdentity DEF Init
  <1>2. \A p \in Procs : Doing(p, "idle") /\ Syncing(p, "idle")
    BY DEF Init, EnrollmentInit, Doing, Syncing, Idle, NotSyncing
  <1>3. OneCommand /\ RunningIsBound
    BY <1>2 DEF OneCommand, RunningIsBound, Syncing
  <1>4. started \in 0 .. MaxCommands
    BY SetupAssumption DEF Init
  <1> QED
    BY <1>1, <1>3, <1>4 DEF SetupInv

\* What is bound stays, so a sync that runs is not disturbed by an initialisation.
LEMMA RunningStays ==
  ASSUME SetupInv, BoundStays, UNCHANGED sync
  PROVE  RunningIsBound'
  <1> SUFFICES ASSUME NEW p \in Procs, Syncing(p, "running")
               PROVE  /\ sync[p].id # NoId
                      /\ \E w \in Workspaces :
                           bound'[Home][w] = [id |-> sync[p].id, project |-> sync[p].project]
    BY DEF RunningIsBound, Syncing
  <1>1. PICK w \in Workspaces : bound[Home][w] = [id |-> sync[p].id, project |-> sync[p].project]
    BY DEF SetupInv, RunningIsBound
  <1>2. sync[p].id # NoId
    BY DEF SetupInv, RunningIsBound
  <1>3. bound[Home][w] # Unbound
    BY <1>1, <1>2 DEF Unbound
  <1> QED
    BY <1>1, <1>2, <1>3, SetupAssumption DEF BoundStays

\* An identity that nothing changes, and what is bound in it.
LEMMA IdentityStays ==
  ASSUME IdInv, UNCHANGED identity
  PROVE  IdInv' /\ BoundStays
  <1>1. UNCHANGED <<projects, root, bound, marker, folder, kept, caller, ids, meddled>>
    BY DEF identity
  <1>2. IdentityTypeOK'
    BY <1>1 DEF IdInv, IdentityTypeOK
  <1>3. RootsAreNamed' /\ BindingsAreOwn' /\ BindingsAreWhole' /\ BindingsAgree' /\ BoundStays
    BY <1>1 DEF IdInv, RootsAreNamed, BindingsAreOwn, BindingsAreWhole, BindingsAgree, BoundStays
  <1>4. CallersAreRooted' /\ CallersHold' /\ CallersAgree'
    BY <1>1 DEF IdInv, CallersAreRooted, CallersHold, CallersAgree, Calls, In, At
  <1> QED
    BY <1>2, <1>3, <1>4 DEF IdInv

LEMMA StartsCounts ==
  ASSUME SetupInv, Starts
  PROVE  started' \in 0 .. MaxCommands
  BY SetupAssumption DEF SetupInv, Starts

LEMMA StartConfigureKeeps ==
  ASSUME SetupInv, NEW p \in Procs, StartConfigure(p)
  PROVE  SetupInv'
  <1>1. CredentialInv'
    BY BeginKeeps, ConfigureFileKeeps DEF SetupInv, StartConfigure
  <1>2. IdInv' /\ BoundStays
    BY IdentityStays DEF SetupInv, StartConfigure
  <1>3. RunningIsBound' /\ started' \in 0 .. MaxCommands
    BY <1>2, RunningStays, StartsCounts DEF StartConfigure
  <1>4. OneCommand'
    <2>1. \A q \in Procs \ {p} : command'[q] = command[q]
      BY DEF StartConfigure, Begin, ConfigureFile, SetupInv, CredentialInv, EnrollmentTypeOK
    <2>2. caller' = caller /\ sync' = sync /\ caller[p].at = "idle"
      BY DEF StartConfigure, identity, Free, Calls
    <2> QED
      BY <2>1, <2>2 DEF SetupInv, OneCommand, Doing, Syncing, Calls
  <1> QED
    BY <1>1, <1>2, <1>3, <1>4 DEF SetupInv

LEMMA StartInitializeKeeps ==
  ASSUME SetupInv, NEW p \in Procs, NEW s \in Storages, NEW w \in Workspaces,
         StartInitialize(p, s, w)
  PROVE  SetupInv'
  <1>1. CredentialInv'
    BY ElsewhereKeeps DEF SetupInv, StartInitialize
  <1>2. p \in Callers /\ IdInv' /\ BoundStays
    BY SetupAssumption, InitializeProjectKeeps DEF SetupInv, StartInitialize
  <1>3. RunningIsBound' /\ started' \in 0 .. MaxCommands
    BY <1>2, RunningStays, StartsCounts DEF StartInitialize
  <1>4. OneCommand'
    <2>1. \A q \in Procs \ {p} : caller'[q] = caller[q]
      BY SetupAssumption DEF StartInitialize, InitializeProject, SetupInv, IdInv, IdentityTypeOK
    <2>2. /\ command' = command /\ sync' = sync
          /\ command[p].at = "idle" /\ sync[p].at = "idle"
      BY DEF StartInitialize, enrollment, Free, Doing, Syncing
    <2> QED
      BY <2>1, <2>2 DEF SetupInv, OneCommand, Doing, Syncing, Calls
  <1> QED
    BY <1>1, <1>2, <1>3, <1>4 DEF SetupInv

LEMMA StartSyncKeeps ==
  ASSUME SetupInv, NEW p \in Procs, StartSync(p)
  PROVE  SetupInv'
  <1>1. CredentialInv'
    BY BeginSyncKeeps DEF SetupInv, StartSync
  <1>2. IdInv' /\ UNCHANGED bound /\ caller' = caller
    BY IdentityStays DEF SetupInv, StartSync, BeginSync, identity
  <1>3. /\ started' \in 0 .. MaxCommands
        /\ \A q \in Procs \ {p} : sync'[q] = sync[q]
        /\ sync'[p].at = "profile"
    BY StartsCounts DEF StartSync, BeginSync, NotSyncing, SetupInv, CredentialInv, SyncTyped
  <1>4. RunningIsBound'
    BY <1>2, <1>3 DEF SetupInv, RunningIsBound, Syncing
  <1>5. OneCommand'
    <2>1. command' = command /\ caller[p].at = "idle"
      BY DEF StartSync, BeginSync, Free, Calls
    <2> QED
      BY <1>2, <1>3, <2>1 DEF SetupInv, OneCommand, Doing, Syncing, Calls
  <1> QED
    BY <1>1, <1>2, <1>3, <1>4, <1>5 DEF SetupInv

LEMMA EnrolsStepKeeps ==
  ASSUME SetupInv, NEW p \in Procs, Enrols(p), UNCHANGED <<identity, started, sync>>
  PROVE  SetupInv'
  <1>1. CredentialInv'
    BY EnrolsKeeps DEF SetupInv
  <1>2. IdInv' /\ BoundStays
    BY IdentityStays DEF SetupInv
  <1>3. RunningIsBound' /\ started' \in 0 .. MaxCommands
    BY <1>2, RunningStays DEF SetupInv
  <1>4. OneCommand'
    <2>1. ~Doing(p, "idle")
      BY DEF Enrols, Recover, Unmark, Clear, Put, Configure, Compensate, RemoveOld, Finish, Stop, Doing
    <2>2. \A q \in Procs \ {p} : command'[q] = command[q]
      BY DEF Enrols, Recover, Unmark, Clear, Put, Configure, Compensate, RemoveOld, Finish, Stop,
             Goes, Ends, SetupInv, CredentialInv, EnrollmentTypeOK
    <2>3. caller' = caller /\ sync' = sync
      BY DEF identity
    <2> QED
      BY <2>1, <2>2, <2>3 DEF SetupInv, OneCommand, Doing, Syncing, Calls
  <1> QED
    BY <1>1, <1>2, <1>3, <1>4 DEF SetupInv

LEMMA InitializesStepKeeps ==
  ASSUME SetupInv, NEW p \in Procs, Initializes(p), UNCHANGED <<enrollment, started, sync>>
  PROVE  SetupInv'
  <1>1. CredentialInv'
    BY ElsewhereKeeps DEF SetupInv
  <1>2. p \in Callers /\ IdInv' /\ BoundStays
    BY SetupAssumption, InitializesKeeps DEF SetupInv
  <1>3. RunningIsBound' /\ started' \in 0 .. MaxCommands
    BY <1>2, RunningStays DEF SetupInv
  <1>4. OneCommand'
    <2>1. ~Calls(p, "idle") /\ \A q \in Procs \ {p} : caller'[q] = caller[q]
      BY SetupAssumption, InitializesAlone DEF SetupInv
    <2>2. command' = command /\ sync' = sync
      BY DEF enrollment
    <2> QED
      BY <2>1, <2>2 DEF SetupInv, OneCommand, Doing, Syncing, Calls
  <1> QED
    BY <1>1, <1>2, <1>3, <1>4 DEF SetupInv

LEMMA LosePowerStepKeeps ==
  ASSUME SetupInv, Starts, LosePower, UNCHANGED <<enrollment, sync>>
  PROVE  SetupInv'
  <1>1. CredentialInv' /\ IdInv' /\ BoundStays
    BY ElsewhereKeeps, LosePowerKeeps DEF SetupInv
  <1>2. RunningIsBound' /\ started' \in 0 .. MaxCommands
    BY <1>1, RunningStays, StartsCounts
  <1>3. OneCommand'
    BY SetupAssumption, IdleCaller DEF LosePower, OneCommand, Calls
  <1> QED
    BY <1>1, <1>2, <1>3 DEF SetupInv

LEMMA HappensBesideStepKeeps ==
  ASSUME SetupInv, Starts, HappensBeside, UNCHANGED <<enrollment, sync>>
  PROVE  SetupInv'
  <1>1. CredentialInv' /\ IdInv' /\ BoundStays
    BY ElsewhereKeeps, HappensBesideKeeps DEF SetupInv
  <1>2. RunningIsBound' /\ started' \in 0 .. MaxCommands
    BY <1>1, RunningStays, StartsCounts
  <1>3. caller' = caller /\ command' = command /\ sync' = sync
    BY DEF HappensBeside, Resolve, ImportLegacyProject, CopyMarker, RemoveMarker, enrollment
  <1>4. OneCommand'
    BY <1>3 DEF SetupInv, OneCommand, Doing, Syncing, Calls
  <1> QED
    BY <1>1, <1>2, <1>4 DEF SetupInv

\* What the steps of a sync leave to show: what its process then runs by.
LEMMA SyncsKeeps ==
  ASSUME SetupInv, NEW p \in Procs, ~Syncing(p, "idle"), CredentialInv',
         UNCHANGED <<identity, started, command>>,
         \A q \in Procs \ {p} : sync'[q] = sync[q],
         sync'[p].at = "running" =>
           /\ sync'[p].id # NoId
           /\ \E w \in Workspaces :
                bound[Home][w] = [id |-> sync'[p].id, project |-> sync'[p].project]
  PROVE  SetupInv'
  <1>1. IdInv' /\ caller' = caller /\ bound' = bound
    BY IdentityStays DEF SetupInv, identity
  <1>2. OneCommand'
    BY <1>1 DEF SetupInv, OneCommand, Doing, Syncing, Calls
  <1>3. RunningIsBound'
    BY <1>1 DEF SetupInv, RunningIsBound, Syncing
  <1> QED
    BY <1>1, <1>2, <1>3 DEF SetupInv

LEMMA SyncStepsKeep ==
  ASSUME SetupInv, NEW p \in Procs,
         ReadCredential(p) \/ (\E w \in Workspaces : ReadIdentity(p, w)) \/ EndSync(p)
  PROVE  SetupInv'
  <1>1. ~Syncing(p, "idle")
    BY DEF ReadCredential, ReadIdentity, EndSync, Syncing
  <1>2. CASE ReadCredential(p)
    <2>1. /\ \A q \in Procs \ {p} : sync'[q] = sync[q]
          /\ sync'[p].at = "credential"
      BY <1>2 DEF ReadCredential, SyncIs, SetupInv, CredentialInv, SyncTyped
    <2>2. CredentialInv' /\ UNCHANGED <<identity, started, command>>
      BY <1>2, ReadCredentialKeeps DEF SetupInv, ReadCredential, enrollment
    <2> QED
      BY <1>1, <2>1, <2>2, SyncsKeeps
  <1>3. ASSUME NEW w \in Workspaces, ReadIdentity(p, w) PROVE SetupInv'
    <2>1. /\ \A q \in Procs \ {p} : sync'[q] = sync[q]
          /\ sync'[p].id = marker[w] /\ sync'[p].project = root[Home][w]
      BY <1>3 DEF ReadIdentity, SetupInv, CredentialInv, SyncTyped
    <2>2. CredentialInv' /\ UNCHANGED <<identity, started, command>>
      BY <1>3, ReadIdentityKeeps DEF SetupInv, ReadIdentity, enrollment
    <2>3. bound[Home][w] \in BoundRows
      BY SetupAssumption DEF SetupInv, IdInv, IdentityTypeOK, BoundRows
    <2>4. bound[Home][w] = [id |-> sync'[p].id, project |-> sync'[p].project] /\ sync'[p].id # NoId
      BY <1>3, <2>1, <2>3 DEF ReadIdentity, BoundRows
    <2> QED
      BY <1>1, <2>1, <2>2, <2>4, SyncsKeeps
  <1>4. CASE EndSync(p)
    <2>1. /\ \A q \in Procs \ {p} : sync'[q] = sync[q]
          /\ sync'[p].at = "idle"
      BY <1>4 DEF EndSync, NotSyncing, SetupInv, CredentialInv, SyncTyped
    <2>2. CredentialInv' /\ UNCHANGED <<identity, started, command>>
      BY <1>4, EndSyncKeeps DEF SetupInv, EndSync
    <2> QED
      BY <1>1, <2>1, <2>2, SyncsKeeps
  <1> QED
    BY <1>2, <1>3, <1>4

LEMMA SetupStep == SetupInv /\ [Next]_vars => SetupInv'
  <1> SUFFICES ASSUME SetupInv, [Next]_vars PROVE SetupInv'
    OBVIOUS
  <1>1. CASE \E p \in Procs : StartConfigure(p)
    BY <1>1, StartConfigureKeeps
  <1>2. CASE \E p \in Procs, s \in Storages, w \in Workspaces : StartInitialize(p, s, w)
    BY <1>2, StartInitializeKeeps
  <1>3. CASE \E p \in Procs : StartSync(p)
    BY <1>3, StartSyncKeeps
  <1>4. CASE \E p \in Procs : Enrols(p) /\ UNCHANGED <<identity, started, sync>>
    BY <1>4, EnrolsStepKeeps
  <1>5. CASE \E p \in Procs : Initializes(p) /\ UNCHANGED <<enrollment, started, sync>>
    BY <1>5, InitializesStepKeeps
  <1>6. CASE Starts /\ LosePower /\ LockIsFree /\ UNCHANGED <<enrollment, sync>>
    BY <1>6, LosePowerStepKeeps
  <1>7. CASE Starts /\ HappensBeside /\ UNCHANGED <<enrollment, sync>>
    BY <1>7, HappensBesideStepKeeps
  <1>8. CASE \E p \in Procs : ReadCredential(p)
    BY <1>8, SyncStepsKeep
  <1>9. CASE \E p \in Procs, w \in Workspaces : ReadIdentity(p, w)
    BY <1>9, SyncStepsKeep
  <1>10. CASE \E p \in Procs : EndSync(p)
    BY <1>10, SyncStepsKeep
  <1>11. CASE UNCHANGED vars
    <2>1. UNCHANGED <<enrollment, identity, started, sync>>
      BY <1>11 DEF vars
    <2>2. CredentialInv' /\ IdInv' /\ BoundStays
      BY <2>1, ElsewhereKeeps, IdentityStays DEF SetupInv
    <2>3. RunningIsBound'
      BY <2>1, <2>2, RunningStays
    <2>4. command' = command /\ caller' = caller
      BY <2>1 DEF enrollment, identity
    <2> QED
      BY <2>1, <2>2, <2>3, <2>4 DEF SetupInv, OneCommand, Doing, Syncing, Calls
  <1> QED
    BY <1>1, <1>2, <1>3, <1>4, <1>5, <1>6, <1>7, <1>8, <1>9, <1>10, <1>11 DEF Next

LEMMA SetupAlways == Spec => []SetupInv
  BY InitSetup, SetupStep, PTL DEF Spec

LEMMA SyncKeeps == SetupInv => SyncKeepsItsOwn
  <1> SUFFICES ASSUME SetupInv PROVE SyncKeepsItsOwn
    OBVIOUS
  <1>1. SyncTypeOK
    BY DEF SetupInv, CredentialInv, SyncTyped, Exclusive, OneCommand, SyncTypeOK, Doing, Syncing
  <1>2. \A p \in Procs : ~Syncing(p, "idle") => sync[p].profile = profile
    BY DEF SetupInv, CredentialInv, AllTaken, Taken
  <1>3. \A p \in Procs : sync[p].at \in {"credential", "running"} => Stored(sync[p].profile)
    BY <1>2 DEF SetupInv, CredentialInv, AllTaken, Taken, Syncing
  <1> QED
    BY <1>1, <1>2, <1>3 DEF SyncKeepsItsOwn, SetupInv, RunningIsBound

\* Wherever an enrolment is interrupted, the profile names a stored bearer, its own, unless
\* its statement was committed without an answer (ConfigureSync).
THEOREM ActiveAlwaysUsable == Spec => []ActiveIsUsable
  BY SetupAlways, PTL DEF SetupInv, CredentialInv

\* No enrolment leaves a bearer where the next would not remove it, and a marker always
\* names the other slot (reconcileSyncEnrollment).
THEOREM BearersAlwaysAccounted == Spec => []BearersAreAccounted
  <1>1. SetupInv => BearersAreAccounted
    BY DEF SetupInv, CredentialInv, Stray, CleanIsClean, BearersAreAccounted
  <1> QED
    BY <1>1, SetupAlways, PTL

\* However initialisations interleave and stop, a workspace left alone has one identity, in
\* its marker, on its disk and in every storage that bound it (InitializeProject).
THEOREM IdentityAlwaysOne == Spec => []IdentityIsOne
  <1>1. SetupInv => IdentityIsOne
    BY InvIsOne DEF SetupInv
  <1> QED
    BY <1>1, SetupAlways, PTL

\* No enrolment and no initialisation changes the credential, or the project, that a sync
\* under way goes by (Memory.sync).
THEOREM SyncAlwaysKeepsItsOwn == Spec => []SyncKeepsItsOwn
  BY SyncKeeps, SetupAlways, PTL
==============================================================================
