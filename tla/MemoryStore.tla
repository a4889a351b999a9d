---------------------------- MODULE MemoryStore ----------------------------
(***************************************************************************)
(* The observations of one store (internal/memory/sqlite.go, forget.go,    *)
(* import.go, provider_session.go and the pulled changes of sync.go):      *)
(* their rows, the full-text index beside them, the tombstones that hide   *)
(* them and the ledger of imports.  Every operation is one transaction,    *)
(* so it is one step; agents that read an observation and update it later  *)
(* (internal/mcp/server.go) remember what they read in between.            *)
(*                                                                         *)
(* Data: one project, scope and producer, the rows of others are refused   *)
(* at the boundary; a text stands for title, type and content, which are   *)
(* written and indexed together; references are left to SyncServer.        *)
(***************************************************************************)
EXTENDS Naturals, FiniteSets, Functions

CONSTANTS
  Ids,        \* identifiers of observations
  Topics,     \* topic keys, two of which are
  NoTopic,    \* ... none at all, and
  Summary,    \* ... that of a provider session's summary
  Agents,     \* who reads an observation and updates it later
  Paths,      \* where retired project-local databases are
  Legacy,     \* the rows of each
  MaxTime,    \* bound: the clock and every time written
  MaxTexts    \* bound: texts written

ASSUME StoreAssumption ==
  /\ {NoTopic, Summary} \subseteq Topics /\ NoTopic # Summary /\ NoTopic \notin Ids
  /\ DOMAIN Legacy = Paths
  /\ \A path \in Paths :
       /\ DOMAIN Legacy[path] \subseteq Ids
       /\ \A id \in DOMAIN Legacy[path] :
            Legacy[path][id] \in
              [topic : Topics \ {Summary}, state : {"active", "needs_review", "archived"},
               text : {0}, updated : {0}, pulled : {FALSE}]
  /\ MaxTime \in Nat \ {0} /\ MaxTexts \in Nat

VARIABLES
  rows,        \* observations; `pulled`, which no code reads, is whether a pull wrote the row last
  index,       \* observations_fts: the text each identifier is found by
  tombstones,  \* sync_tombstones
  imports,     \* legacy_imports
  clock,       \* the wall clock; it may stand still and be set back
  written,     \* texts written so far
  seen,        \* what each agent read last
  rewound      \* observations another writer than UpdateObservation gave no later time

vars == <<rows, index, tombstones, imports, clock, written, seen, rewound>>

States == {"active", "needs_review", "archived"}
Present == DOMAIN rows
Times == 0 .. MaxTime
NextText == written + 1
NothingSeen == [id |-> NoTopic, text |-> 0, updated |-> 0]

With(f, id, value) == [i \in DOMAIN f \cup {id} |-> IF i = id THEN value ELSE f[i]]
Without(f, id) == Restrict(f, DOMAIN f \ {id})

Holders(topic) == {id \in Present : rows[id].topic = topic} \ {id \in Present : topic = NoTopic}
IsSummary(row) == row.topic = Summary

\* The index once a row was written as a whole: archived rows leave it.
\* Mutant: an archived row stays.
IndexedAlways(id, row) == With(index, id, row.text)
Indexed(id, row) ==
  IF row.state = "archived" THEN Without(index, id) ELSE With(index, id, row.text)

Rewinds(id, at) == IF id \in Present /\ at <= rows[id].updated THEN rewound \cup {id} ELSE rewound

-----------------------------------------------------------------------------
(* What a search and a listing find, by state.  A search goes through the  *)
(* index; both leave tombstones out.                                       *)

Search(states) == {id \in Present \cap DOMAIN index : id \notin tombstones /\ rows[id].state \in states}
Recent(states) == {id \in Present : id \notin tombstones /\ rows[id].state \in states}

-----------------------------------------------------------------------------
(* Local writes.                                                           *)

Insert(id, row) ==
  /\ id \notin Present
  /\ rows' = With(rows, id, row)
  /\ index' = With(index, id, row.text)

\* Which states a row may be given.
LegalState(from, to) ==
  /\ from # "archived"
  /\ from = to \/ from = "active" \/ to \in {"active", "archived"}

\* Mutant: a forgotten observation is written again.
UpdatesForgotten(id, state) ==
  ~IsSummary(rows[id]) /\ id \notin tombstones
MayUpdate(id, state) ==
  /\ ~IsSummary(rows[id])
  /\ id \notin tombstones
  /\ LegalState(rows[id].state, state)

UpdateTx(id, topic, state) ==
  LET row == [topic |-> topic, state |-> state, text |-> NextText, updated |-> clock,
              pulled |-> FALSE]
  IN  /\ MayUpdate(id, state)
      /\ topic # NoTopic => Holders(topic) \subseteq {id}
      /\ rows' = With(rows, id, row)
      /\ index' = Indexed(id, row)
      /\ rewound' = Rewinds(id, clock)

Writes == written < MaxTexts /\ written' = NextText

\* Remember: the holder of the topic is written again, whatever identifier a new one had got.
SaveByTopic(id, topic, state) ==
  /\ Writes /\ state # "archived"
  /\ id \in Holders(topic)
  /\ UpdateTx(id, topic, state)
  /\ UNCHANGED <<tombstones, imports, clock, seen>>

SaveNew(id, topic, state) ==
  /\ Writes /\ state # "archived"
  /\ Holders(topic) = {}
  /\ Insert(id, [topic |-> topic, state |-> state, text |-> NextText, updated |-> clock,
                 pulled |-> FALSE])
  /\ UNCHANGED <<tombstones, imports, clock, seen, rewound>>

\* By identifier, with any state.
Update(id, topic, state) ==
  /\ Writes /\ id \in Present
  /\ UpdateTx(id, topic, state)
  /\ UNCHANGED <<tombstones, imports, clock, seen>>

\* The end of a provider session leaves its summary, once.
EndProviderSession(id) ==
  /\ Writes
  /\ Holders(Summary) = {}
  /\ Insert(id, [topic |-> Summary, state |-> "active", text |-> NextText, updated |-> clock,
                 pulled |-> FALSE])
  /\ UNCHANGED <<tombstones, imports, clock, seen, rewound>>

\* To forget what is archived only takes it from the index again.
Forget(id) ==
  /\ id \in Present \ tombstones
  /\ rows' = IF rows[id].state = "archived" THEN rows
             ELSE [rows EXCEPT ![id].state = "archived", ![id].updated = clock, ![id].pulled = FALSE]
  /\ rewound' = IF rows[id].state = "archived" THEN rewound ELSE Rewinds(id, clock)
  /\ index' = Without(index, id)
  /\ UNCHANGED <<tombstones, imports, clock, written, seen>>

-----------------------------------------------------------------------------
(* An agent reads an observation and replaces its content later, if it has *)
(* not changed: what it compares is the time of the row.                   *)

Get(a, id) ==
  /\ id \in Present \ tombstones
  /\ seen' = [seen EXCEPT ![a] = [id |-> id, text |-> rows[id].text, updated |-> rows[id].updated]]
  /\ UNCHANGED <<rows, index, tombstones, imports, clock, written, rewound>>

\* Mutant: an update is stamped with the clock.
ByTheClock(now, previous) == now
Later(now, previous) == IF now > previous THEN now ELSE previous + 1

UpdateObservation(a) ==
  LET id == seen[a].id
      at == Later(clock, rows[id].updated)
  IN  /\ Writes /\ id \in Present \ tombstones
      /\ ~IsSummary(rows[id])
      /\ rows[id].updated = seen[a].updated
      /\ at \in Times
      /\ rows' = [rows EXCEPT ![id].text = NextText, ![id].updated = at, ![id].pulled = FALSE]
      /\ index' = IF id \in DOMAIN index THEN With(index, id, NextText) ELSE index
      /\ UNCHANGED <<tombstones, imports, clock, seen, rewound>>

-----------------------------------------------------------------------------
(* What a pull brings.  Versions are left to SyncClient: any change that   *)
(* the row allows may come, stamped by the clock of another device.        *)

PulledObservation(id, topic, state, at) ==
  LET row == [topic |-> topic, state |-> state, text |-> NextText, updated |-> at,
              pulled |-> TRUE]
  IN  /\ Writes /\ id \notin tombstones
      /\ topic # NoTopic => Holders(topic) \subseteq {id}
      /\ rows' = With(rows, id, row)
      /\ index' = Indexed(id, row)
      /\ rewound' = Rewinds(id, at)
      /\ UNCHANGED <<tombstones, imports, clock, seen>>

\* A contested observation is taken to review, as it is indexed.
PulledConflict(id) ==
  /\ id \in Present /\ rows[id].state = "active"
  /\ rows' = [rows EXCEPT ![id].state = "needs_review"]
  /\ UNCHANGED <<index, tombstones, imports, clock, written, seen, rewound>>

PulledTombstone(id) ==
  /\ id \in Present \ tombstones
  /\ tombstones' = tombstones \cup {id}
  /\ rows' = [rows EXCEPT ![id].topic = NoTopic]
  /\ index' = Without(index, id)
  /\ UNCHANGED <<imports, clock, written, seen, rewound>>

-----------------------------------------------------------------------------
(* The import of a retired database: everything or nothing, and once for   *)
(* each path.                                                              *)

\* Mutant: rows with a known identifier are passed over, whatever they say.
CollidesInTopic(old) ==
  \E id \in DOMAIN old : Holders(old[id].topic) \ {id} # {}
Collides(old) ==
  \/ \E id \in Present \cap DOMAIN old : rows[id] # old[id]
  \/ \E id \in DOMAIN old : Holders(old[id].topic) \ {id} # {}

\* The projects of the file become one, and of its rows of one topic the first is inserted;
\* the others are ignored.
Folds(old) ==
  {kept \in SUBSET DOMAIN old :
     \A id \in DOMAIN old :
       id \in kept <=> \A other \in kept :
         other = id \/ old[id].topic = NoTopic \/ old[other].topic # old[id].topic}

\* Insert the rows `kept` of `old` that are not there, and index them.
Merge(old, kept) ==
  LET found == {id \in kept : old[id].state = "active"}
  IN  /\ rows' = [id \in Present \cup kept |-> IF id \in Present THEN rows[id] ELSE old[id]]
      /\ index' = [id \in DOMAIN index \cup found |->
                     IF id \in DOMAIN index THEN index[id] ELSE old[id].text]

ImportLegacy(path) ==
  /\ path \notin imports
  /\ ~Collides(Legacy[path])
  /\ imports' = imports \cup {path}
  /\ \E kept \in Folds(Legacy[path]) : Merge(Legacy[path], kept)
  /\ UNCHANGED <<tombstones, clock, written, seen, rewound>>

-----------------------------------------------------------------------------
\* The wall clock shows another time.
SetClock(at) ==
  /\ at # clock /\ clock' = at
  /\ UNCHANGED <<rows, index, tombstones, imports, written, seen, rewound>>

Init ==
  /\ rows = [id \in {} |-> 0] /\ index = [id \in {} |-> 0]
  /\ tombstones = {} /\ imports = {}
  /\ clock = 1 /\ written = 0
  /\ seen = [a \in Agents |-> NothingSeen]
  /\ rewound = {}

Next ==
  \/ \E id \in Ids, t \in Topics, s \in States : SaveByTopic(id, t, s)
  \/ \E id \in Ids, t \in Topics, s \in States : SaveNew(id, t, s)
  \/ \E id \in Ids, t \in Topics, s \in States : Update(id, t, s)
  \/ \E id \in Ids : EndProviderSession(id)
  \/ \E id \in Ids : Forget(id)
  \/ \E a \in Agents, id \in Ids : Get(a, id)
  \/ \E a \in Agents : UpdateObservation(a)
  \/ \E id \in Ids, t \in Topics, s \in States, at \in Times :
       PulledObservation(id, t, s, at)
  \/ \E id \in Ids : PulledConflict(id)
  \/ \E id \in Ids : PulledTombstone(id)
  \/ \E path \in Paths : ImportLegacy(path)
  \/ \E at \in Times : SetClock(at)

Spec == Init /\ [][Next]_vars

-----------------------------------------------------------------------------
Rows == [topic : Topics, state : States, text : 0 .. MaxTexts, updated : Times, pulled : BOOLEAN]

\* Every table holds rows of its columns, no topic has two holders, and what is indexed or
\* deleted is there.
TypeOK ==
  /\ Present \subseteq Ids /\ \A id \in Present : rows[id] \in Rows
  /\ \A topic \in Topics : \A i, j \in Holders(topic) : i = j
  /\ DOMAIN index \subseteq Present /\ \A id \in DOMAIN index : index[id] \in 0 .. MaxTexts
  /\ tombstones \subseteq Present /\ rewound \subseteq Present /\ imports \subseteq Paths
  /\ clock \in Times /\ written \in 0 .. MaxTexts
  /\ seen \in [Agents -> [id : Ids \cup {NoTopic}, text : 0 .. MaxTexts, updated : Times]]

\* A search finds every active observation a listing shows, by the text it has now, and
\* nothing that was forgotten, whichever states it asks for: eight operations keep the
\* index beside the rows, each in its own way.
RecallIsExact ==
  /\ TypeOK
  /\ Search({"active"}) = Recent({"active"})
  /\ \A id \in Search(States) : rows[id].state # "archived" /\ index[id] = rows[id].text

Forgotten == tombstones \cup {id \in Present : rows[id].state = "archived"}
\* What was forgotten or deleted stays so: no write by topic, no update and no second
\* import brings it back; only another device may still un-archive it.
ForgottenStays ==
  [][\A id \in Forgotten :
       id \in Forgotten' \/ (id \notin tombstones /\ rows'[id].pulled)]_vars

\* The summary a provider session left is not rewritten on this device, by topic, by
\* identifier or by an agent that read it.
SummaryStays ==
  [][\A id \in Present \ tombstones :
       IsSummary(rows[id]) => rows'[id].text = rows[id].text \/ rows'[id].pulled]_vars

\* What was put aside, by forgetting it or by closing a session with it, is not written
\* again on this device.
SettledStays == ForgottenStays /\ SummaryStays

\* An agent replaces only what it has read: its update is refused when the content changed
\* since, unless a writer that stamps the bare clock met one that stood still or was set back.
NoLostUpdate ==
  [][\A a \in Agents : UpdateObservation(a) =>
       rows[seen[a].id].text = seen[a].text \/ seen[a].id \in rewound]_vars

\* The rows of a file that are there as they were once it is imported.
Brought(path) ==
  {id \in DOMAIN Legacy[path] \cap Present' : rows'[id] = Legacy[path][id]}

\* An import that is recorded left out no row but those whose topic another row of the same
\* file has taken, brought the others as they were, and changed none that was there.
ImportMerges ==
  [][\A path \in imports' \ imports :
       /\ \A id \in DOMAIN Legacy[path] \ Brought(path) :
            /\ Legacy[path][id].topic # NoTopic
            /\ \E other \in Brought(path) : Legacy[path][other].topic = Legacy[path][id].topic
       /\ Present \subseteq Present' /\ \A id \in Present : rows'[id] = rows[id]
       /\ DOMAIN index \subseteq DOMAIN index' /\ \A id \in DOMAIN index : index'[id] = index[id]]_vars
=============================================================================
