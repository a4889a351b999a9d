------------------------- MODULE MemoryStoreProofs -------------------------
(***************************************************************************)
(* Theorems of MemoryStore, for any identifiers, topics, agents, retired   *)
(* databases and bounds.                                                   *)
(*                                                                         *)
(* All operations but three write one row and what the index has of it;    *)
(* Writing says what they have in common.  The inductive invariant keeps   *)
(* the index beside the rows (Exact) and says of what an agent has read    *)
(* that the row is the same, later, or was rewound (Remembered).           *)
(***************************************************************************)
EXTENDS MemoryStore, TLAPS

RowsTyped == Present \subseteq Ids /\ \A id \in Present : rows[id] \in Rows

TopicsHeld ==
  \A i, j \in Present : rows[i].topic = rows[j].topic /\ rows[i].topic # NoTopic => i = j

IndexTyped ==
  DOMAIN index \subseteq Present /\ \A id \in DOMAIN index : index[id] \in 0 .. MaxTexts

Rest ==
  /\ tombstones \subseteq Present /\ rewound \subseteq Present /\ imports \subseteq Paths
  /\ clock \in Times /\ written \in 0 .. MaxTexts
  /\ seen \in [Agents -> [id : Ids \cup {NoTopic}, text : 0 .. MaxTexts, updated : Times]]

Exact ==
  \A id \in Present \ tombstones :
    /\ rows[id].state = "active" => id \in DOMAIN index
    /\ id \in DOMAIN index => rows[id].state # "archived" /\ index[id] = rows[id].text

Same(a) ==
  LET row == rows[seen[a].id]
  IN  \/ seen[a].updated < row.updated
      \/ (seen[a].updated = row.updated /\ seen[a].text = row.text)
Remembered ==
  \A a \in Agents : \/ seen[a].id = NoTopic
                    \/ seen[a].id \in Present /\ (seen[a].id \in rewound \/ Same(a))

Inv == RowsTyped /\ TopicsHeld /\ IndexTyped /\ Rest /\ Exact /\ Remembered

LEMMA InvImpliesTypeOK == Inv => TypeOK
  BY DEF Inv, RowsTyped, TopicsHeld, IndexTyped, Rest, TypeOK, Holders, Present

LEMMA InvImpliesRecall == Inv => RecallIsExact
  <1> SUFFICES ASSUME Inv PROVE RecallIsExact
    OBVIOUS
  <1>1. Search({"active"}) = Recent({"active"})
    BY DEF Inv, Exact, Search, Recent, Present
  <1>2. \A id \in Search(States) : rows[id].state # "archived" /\ index[id] = rows[id].text
    BY DEF Inv, Exact, Search, Present
  <1> QED
    BY <1>1, <1>2, InvImpliesTypeOK DEF RecallIsExact

(***************************************************************************)
(* Steps that write one row.                                               *)
(***************************************************************************)

IndexStep(id, row) ==
  /\ DOMAIN index' \subseteq DOMAIN index \cup {id}
  /\ \A j \in DOMAIN index \ {id} : j \in DOMAIN index' /\ index'[j] = index[j]
  /\ id \in DOMAIN index' => index'[id] \in 0 .. MaxTexts
  /\ id \notin tombstones' =>
       /\ row.state = "active" => id \in DOMAIN index'
       /\ id \in DOMAIN index' => row.state # "archived" /\ index'[id] = row.text

LaterStep(id, row) ==
  id \in Present =>
    \/ id \in rewound'
    \/ rows[id].updated < row.updated
    \/ (rows[id].updated = row.updated /\ rows[id].text = row.text)

KeepStep(id, row) ==
  id \in Present \ tombstones =>
    /\ rows[id].state = "archived" => row.state = "archived" \/ row.pulled
    /\ IsSummary(rows[id]) => row.text = rows[id].text \/ row.pulled

Writing(id, row) ==
  /\ id \in Ids /\ row \in Rows
  /\ row.topic # NoTopic => \A j \in Present : rows[j].topic = row.topic => j = id
  /\ rows' = With(rows, id, row)
  /\ IndexStep(id, row) /\ LaterStep(id, row) /\ KeepStep(id, row)
  /\ tombstones' \in {tombstones, tombstones \cup {id}}
  /\ rewound' \in {rewound, rewound \cup {id}}
  /\ UNCHANGED <<imports, clock, seen>> /\ written' \in 0 .. MaxTexts

\* A written row leaves every other as it was.
LEMMA WrittenRow ==
  ASSUME NEW id, NEW row, rows' = With(rows, id, row)
  PROVE  /\ Present' = Present \cup {id}
         /\ rows'[id] = row
         /\ \A j \in Present \ {id} : rows'[j] = rows[j]
  BY DEF With, Present

LEMMA WritingKeepsInv ==
  ASSUME Inv, NEW id, NEW row, Writing(id, row)
  PROVE  Inv'
  <1>1. /\ Present' = Present \cup {id} /\ rows'[id] = row
        /\ \A j \in Present \ {id} : rows'[j] = rows[j]
    BY WrittenRow DEF Writing
  <1>2. RowsTyped'
    BY <1>1 DEF Inv, RowsTyped, Writing, Rows
  <1>3. TopicsHeld'
    <2> SUFFICES ASSUME NEW i \in Present', NEW j \in Present',
                        rows'[i].topic = rows'[j].topic, rows'[i].topic # NoTopic
                 PROVE  i = j
      BY DEF TopicsHeld
    <2>1. CASE i = id /\ j # id
      BY <1>1, <2>1 DEF Writing
    <2>2. CASE j = id /\ i # id
      BY <1>1, <2>2 DEF Writing
    <2>3. CASE i # id /\ j # id
      BY <1>1, <2>3 DEF Inv, TopicsHeld
    <2> QED
      BY <2>1, <2>2, <2>3
  <1>4. IndexTyped'
    BY <1>1 DEF Inv, IndexTyped, Writing, IndexStep
  <1>5. Rest'
    BY <1>1 DEF Inv, Rest, Writing, Times
  <1>6. Exact'
    <2> SUFFICES ASSUME NEW j \in Present' \ tombstones'
                 PROVE  /\ rows'[j].state = "active" => j \in DOMAIN index'
                        /\ j \in DOMAIN index' => rows'[j].state # "archived" /\ index'[j] = rows'[j].text
      BY DEF Exact
    <2>1. CASE j = id
      BY <1>1, <2>1 DEF Writing, IndexStep
    <2>2. CASE j # id
      <3>1. j \in Present \ tombstones
        BY <1>1, <2>2 DEF Writing
      <3> QED
        BY <1>1, <2>2, <3>1 DEF Inv, Exact, Writing, IndexStep
    <2> QED
      BY <2>1, <2>2
  <1>7. Remembered'
    <2> SUFFICES ASSUME NEW a \in Agents, seen[a].id # NoTopic
                 PROVE  seen[a].id \in Present' /\ (seen[a].id \in rewound' \/ Same(a)')
      BY DEF Remembered, Writing
    <2>1. seen[a].id \in Present /\ (seen[a].id \in rewound \/ Same(a))
      BY DEF Inv, Remembered
    <2>2. seen' = seen /\ rewound \subseteq rewound' /\ seen[a].id \in Present'
      BY <1>1, <2>1 DEF Writing
    <2>3. seen[a].updated \in Nat /\ rows[seen[a].id].updated \in Nat /\ row.updated \in Nat
      BY <2>1 DEF Inv, RowsTyped, Rows, Rest, Times, Writing
    <2>4. CASE seen[a].id = id
      BY <1>1, <2>1, <2>2, <2>3, <2>4 DEF Writing, LaterStep, Same
    <2>5. CASE seen[a].id # id
      BY <1>1, <2>1, <2>2, <2>5 DEF Same
    <2> QED
      BY <2>2, <2>4, <2>5
  <1> QED
    BY <1>2, <1>3, <1>4, <1>5, <1>6, <1>7 DEF Inv

(***************************************************************************)
(* Each operation writes one row.                                          *)
(***************************************************************************)

LEMMA WholeRow ==
  ASSUME Inv, NEW id \in Ids, NEW row \in Rows, id \notin tombstones,
         row.topic # NoTopic => Holders(row.topic) \subseteq {id},
         rows' = With(rows, id, row), index' = Indexed(id, row), rewound' = Rewinds(id, row.updated),
         KeepStep(id, row), UNCHANGED <<tombstones, imports, clock, seen>>, Writes
  PROVE  Writing(id, row)
  <1>1. row.topic # NoTopic => \A j \in Present : rows[j].topic = row.topic => j = id
    BY DEF Holders
  <1>2. IndexStep(id, row)
    <2>1. row.text \in 0 .. MaxTexts /\ row.state \in States
      BY DEF Rows
    <2>2. CASE row.state = "archived"
      BY <2>1, <2>2 DEF IndexStep, Indexed, Without, Restrict
    <2>3. CASE row.state # "archived"
      BY <2>1, <2>3 DEF IndexStep, Indexed, With
    <2> QED
      BY <2>2, <2>3
  <1>3. LaterStep(id, row) /\ rewound' \in {rewound, rewound \cup {id}}
    <2>1. id \in Present => rows[id].updated \in Nat /\ row.updated \in Nat
      BY DEF Inv, RowsTyped, Rows, Times
    <2> QED
      BY <2>1 DEF LaterStep, Rewinds
  <1>4. written' \in 0 .. MaxTexts
    BY StoreAssumption DEF Writes, NextText, Inv, Rest
  <1> QED
    BY <1>1, <1>2, <1>3, <1>4 DEF Writing

\* What is written anew is a row of the table.
LEMMA RowType ==
  ASSUME Inv, Writes, NEW t \in Topics, NEW s \in States, NEW at \in Times, NEW p \in BOOLEAN
  PROVE  [topic |-> t, state |-> s, text |-> NextText, updated |-> at, pulled |-> p] \in Rows
  <1>1. NextText \in 0 .. MaxTexts
    BY StoreAssumption DEF Writes, NextText, Inv, Rest
  <1> QED
    BY <1>1 DEF Rows

Row(t, s, at, p) == [topic |-> t, state |-> s, text |-> NextText, updated |-> at, pulled |-> p]

LEMMA UpdateTxWrites ==
  ASSUME Inv, NEW id \in Present, NEW t \in Topics, NEW s \in States, Writes, UpdateTx(id, t, s),
         UNCHANGED <<tombstones, imports, clock, seen>>
  PROVE  Writing(id, Row(t, s, clock, FALSE))
  <1> DEFINE row == Row(t, s, clock, FALSE)
  <1>1. row \in Rows /\ id \in Ids
    BY RowType DEF Row, Inv, Rest, RowsTyped
  <1>2. KeepStep(id, row)
    BY DEF KeepStep, UpdateTx, MayUpdate, LegalState
  <1>3. row.topic = t /\ row.updated = clock
    BY DEF Row
  <1>4. rows' = With(rows, id, row) /\ index' = Indexed(id, row) /\ rewound' = Rewinds(id, clock)
    BY DEF UpdateTx, Row
  <1>5. id \notin tombstones /\ (t # NoTopic => Holders(t) \subseteq {id})
    BY DEF UpdateTx, MayUpdate
  <1> HIDE DEF row
  <1>6. Writing(id, row)
    BY <1>1, <1>2, <1>3, <1>4, <1>5, WholeRow
  <1> QED
    BY <1>6 DEF row

LEMMA InsertWrites ==
  ASSUME Inv, NEW id \in Ids, NEW t \in Topics, NEW s \in States, s # "archived", Writes,
         Holders(t) = {}, Insert(id, Row(t, s, clock, FALSE)),
         UNCHANGED <<tombstones, imports, clock, seen, rewound>>
  PROVE  Writing(id, Row(t, s, clock, FALSE))
  <1> DEFINE row == Row(t, s, clock, FALSE)
  <1>1. row \in Rows
    BY RowType DEF Row, Inv, Rest
  <1>2. row.topic = t /\ row.updated = clock /\ row.state = s
    BY DEF Row
  <1>3. id \notin Present /\ id \notin tombstones
    BY DEF Insert, Inv, Rest
  <1>4. KeepStep(id, row) /\ rewound' = Rewinds(id, clock)
    BY <1>3 DEF KeepStep, Rewinds
  <1>5. rows' = With(rows, id, row) /\ index' = Indexed(id, row)
    BY <1>2 DEF Insert, Indexed
  <1> HIDE DEF row
  <1>6. Writing(id, row)
    BY <1>1, <1>2, <1>3, <1>4, <1>5, WholeRow
  <1> QED
    BY <1>6 DEF row

LEMMA ForgetWrites ==
  ASSUME Inv, NEW id \in Ids, Forget(id), rows[id].state # "archived"
  PROVE  \E row : Writing(id, row)
  <1> DEFINE row == [rows[id] EXCEPT !.state = "archived", !.updated = clock, !.pulled = FALSE]
  <1>1. id \in Present \ tombstones /\ rows[id] \in Rows
    BY DEF Forget, Inv, RowsTyped
  <1>2. row \in Rows /\ row.topic = rows[id].topic /\ row.text = rows[id].text
        /\ row.state = "archived" /\ row.updated = clock
    BY <1>1 DEF Rows, States, Inv, Rest
  <1>3. rows' = With(rows, id, row)
    BY <1>1 DEF Forget, With, Present
  <1> HIDE DEF row
  <1>4. rewound' = Rewinds(id, clock) /\ index' = Without(index, id)
    BY DEF Forget
  <1>5. IndexStep(id, row)
    BY <1>2, <1>4 DEF IndexStep, Without, Restrict
  <1>6. rows[id].updated \in Nat /\ clock \in Nat
    BY <1>1 DEF Rows, Times, Inv, Rest
  <1>7. LaterStep(id, row) /\ rewound' \in {rewound, rewound \cup {id}}
    BY <1>1, <1>2, <1>4, <1>6 DEF LaterStep, Rewinds
  <1>8. KeepStep(id, row)
    BY <1>2 DEF KeepStep
  <1>9. row.topic # NoTopic => \A j \in Present : rows[j].topic = row.topic => j = id
    BY <1>1, <1>2 DEF Inv, TopicsHeld
  <1>10. UNCHANGED <<tombstones, imports, clock, seen>> /\ written' \in 0 .. MaxTexts
    BY DEF Forget, Inv, Rest
  <1>11. Writing(id, row)
    BY <1>2, <1>3, <1>5, <1>7, <1>8, <1>9, <1>10 DEF Writing
  <1> QED
    BY <1>11

LEMMA UpdateObservationWrites ==
  ASSUME Inv, NEW a \in Agents, UpdateObservation(a)
  PROVE  \E row : Writing(seen[a].id, row)
  <1> DEFINE id == seen[a].id
             at == Later(clock, rows[id].updated)
             row == [rows[id] EXCEPT !.text = NextText, !.updated = at, !.pulled = FALSE]
  <1>1. id \in Present \ tombstones /\ rows[id] \in Rows /\ id \in Ids
    BY DEF UpdateObservation, Inv, RowsTyped
  <1>2. NextText \in 0 .. MaxTexts /\ written' = NextText /\ at \in Times
    BY StoreAssumption DEF UpdateObservation, Writes, NextText, Inv, Rest
  <1>3. rows[id].updated \in Nat /\ clock \in Nat
    BY <1>1 DEF Rows, Times, Inv, Rest
  <1>4. rows[id].updated < at
    BY <1>3 DEF Later
  <1>5. rows' = [rows EXCEPT ![id].text = NextText, ![id].updated = at, ![id].pulled = FALSE]
    BY DEF UpdateObservation
  <1>6. index' = IF id \in DOMAIN index THEN With(index, id, NextText) ELSE index
    BY DEF UpdateObservation
  <1>7. ~IsSummary(rows[id]) /\ UNCHANGED <<tombstones, imports, clock, seen, rewound>>
    BY DEF UpdateObservation
  <1> HIDE DEF id, at
  <1>8. row \in Rows /\ row.topic = rows[id].topic /\ row.state = rows[id].state
        /\ row.updated = at /\ row.text = NextText
    BY <1>1, <1>2 DEF Rows
  <1>9. rows' = With(rows, id, row)
    BY <1>1, <1>5 DEF With, Present
  <1> HIDE DEF row
  <1>10. IndexStep(id, row)
    BY <1>1, <1>2, <1>6, <1>7, <1>8 DEF IndexStep, With, Inv, Exact
  <1>11. LaterStep(id, row) /\ KeepStep(id, row)
    BY <1>4, <1>7, <1>8 DEF LaterStep, KeepStep
  <1>12. row.topic # NoTopic => \A j \in Present : rows[j].topic = row.topic => j = id
    BY <1>1, <1>8 DEF Inv, TopicsHeld
  <1>13. Writing(id, row)
    BY <1>1, <1>2, <1>7, <1>8, <1>9, <1>10, <1>11, <1>12 DEF Writing
  <1> QED
    BY <1>13 DEF id

LEMMA PulledConflictWrites ==
  ASSUME Inv, NEW id \in Ids, PulledConflict(id)
  PROVE  \E row : Writing(id, row)
  <1> DEFINE row == [rows[id] EXCEPT !.state = "needs_review"]
  <1>1. id \in Present /\ rows[id] \in Rows /\ rows[id].state = "active"
    BY DEF PulledConflict, Inv, RowsTyped
  <1>2. row \in Rows /\ row.topic = rows[id].topic /\ row.text = rows[id].text
        /\ row.state = "needs_review" /\ row.updated = rows[id].updated
    BY <1>1 DEF Rows, States
  <1>3. rows' = With(rows, id, row)
    BY <1>1 DEF PulledConflict, With, Present
  <1> HIDE DEF row
  <1>4. UNCHANGED <<index, tombstones, imports, clock, written, seen, rewound>>
    BY DEF PulledConflict
  <1>5. IndexStep(id, row)
    BY <1>1, <1>2, <1>4 DEF IndexStep, Inv, IndexTyped, Exact
  <1>6. LaterStep(id, row) /\ KeepStep(id, row)
    BY <1>1, <1>2 DEF LaterStep, KeepStep
  <1>7. row.topic # NoTopic => \A j \in Present : rows[j].topic = row.topic => j = id
    BY <1>1, <1>2 DEF Inv, TopicsHeld
  <1>8. Writing(id, row)
    BY <1>2, <1>3, <1>4, <1>5, <1>6, <1>7 DEF Writing, Inv, Rest
  <1> QED
    BY <1>8

LEMMA PulledTombstoneWrites ==
  ASSUME Inv, NEW id \in Ids, PulledTombstone(id)
  PROVE  \E row : Writing(id, row)
  <1> DEFINE row == [rows[id] EXCEPT !.topic = NoTopic]
  <1>1. id \in Present \ tombstones /\ rows[id] \in Rows
    BY DEF PulledTombstone, Inv, RowsTyped
  <1>2. row \in Rows /\ row.topic = NoTopic /\ row.text = rows[id].text
        /\ row.state = rows[id].state /\ row.updated = rows[id].updated
    BY <1>1, StoreAssumption DEF Rows
  <1>3. rows' = With(rows, id, row)
    BY <1>1 DEF PulledTombstone, With, Present
  <1> HIDE DEF row
  <1>4. /\ tombstones' = tombstones \cup {id} /\ index' = Without(index, id)
        /\ UNCHANGED <<imports, clock, written, seen, rewound>>
    BY DEF PulledTombstone
  <1>5. IndexStep(id, row)
    BY <1>4 DEF IndexStep, Without, Restrict
  <1>6. LaterStep(id, row) /\ KeepStep(id, row)
    BY <1>1, <1>2 DEF LaterStep, KeepStep
  <1>7. Writing(id, row)
    BY <1>2, <1>3, <1>4, <1>5, <1>6 DEF Writing, Inv, Rest
  <1> QED
    BY <1>7

LEMMA PulledObservationWrites ==
  ASSUME Inv, NEW id \in Ids, NEW t \in Topics, NEW s \in States, NEW at \in Times,
         PulledObservation(id, t, s, at)
  PROVE  Writing(id, Row(t, s, at, TRUE))
  <1> DEFINE row == Row(t, s, at, TRUE)
  <1>1. Writes /\ id \notin tombstones /\ (t # NoTopic => Holders(t) \subseteq {id})
    BY DEF PulledObservation
  <1>2. row \in Rows
    BY <1>1, RowType DEF Row
  <1>3. row.topic = t /\ row.updated = at /\ row.pulled = TRUE
    BY DEF Row
  <1>4. rows' = With(rows, id, row) /\ index' = Indexed(id, row) /\ rewound' = Rewinds(id, at)
    BY DEF PulledObservation, Row
  <1>5. KeepStep(id, row)
    BY <1>3 DEF KeepStep
  <1>6. UNCHANGED <<tombstones, imports, clock, seen>>
    BY DEF PulledObservation
  <1> HIDE DEF row
  <1>7. Writing(id, row)
    BY <1>1, <1>2, <1>3, <1>4, <1>5, <1>6, WholeRow
  <1> QED
    BY <1>7 DEF row

(***************************************************************************)
(* Every step writes one row, imports, or leaves the rows alone.           *)
(***************************************************************************)

\* What is left: reads, the clock and the forgetting of what is archived.
Reading ==
  /\ UNCHANGED <<rows, tombstones, imports, written, rewound>>
  /\ clock' \in Times
  /\ \/ index' = index
     \/ \E id \in Present : rows[id].state = "archived" /\ index' = Without(index, id)
  /\ \A a \in Agents :
       \/ seen'[a] = seen[a]
       \/ \E id \in Present :
            seen'[a] = [id |-> id, text |-> rows[id].text, updated |-> rows[id].updated]
  /\ seen' \in [Agents -> [id : Ids \cup {NoTopic}, text : 0 .. MaxTexts, updated : Times]]

LEMMA EveryStep ==
  ASSUME Inv, [Next]_vars
  PROVE  \/ \E id, row : Writing(id, row)
         \/ \E path \in Paths : ImportLegacy(path)
         \/ Reading
  <1> USE DEF Inv
  <1>1. ASSUME NEW id \in Ids, NEW t \in Topics, NEW s \in States, SaveByTopic(id, t, s)
        PROVE  \E row : Writing(id, row)
    <2>1. id \in Present /\ Writes /\ UpdateTx(id, t, s) /\ UNCHANGED <<tombstones, imports, clock, seen>>
      BY <1>1 DEF SaveByTopic, Holders
    <2> QED
      BY <2>1, UpdateTxWrites
  <1>2. ASSUME NEW id \in Ids, NEW t \in Topics, NEW s \in States, SaveNew(id, t, s)
        PROVE  \E row : Writing(id, row)
    <2>1. /\ s # "archived" /\ Writes /\ Holders(t) = {} /\ Insert(id, Row(t, s, clock, FALSE))
          /\ UNCHANGED <<tombstones, imports, clock, seen, rewound>>
      BY <1>2 DEF SaveNew, Row
    <2> QED
      BY <2>1, InsertWrites
  <1>3. ASSUME NEW id \in Ids, NEW t \in Topics, NEW s \in States, Update(id, t, s)
        PROVE  \E row : Writing(id, row)
    <2>1. id \in Present /\ Writes /\ UpdateTx(id, t, s) /\ UNCHANGED <<tombstones, imports, clock, seen>>
      BY <1>3 DEF Update
    <2> QED
      BY <2>1, UpdateTxWrites
  <1>4. ASSUME NEW id \in Ids, EndProviderSession(id)
        PROVE  \E row : Writing(id, row)
    <2>1. /\ Writes /\ Holders(Summary) = {} /\ Insert(id, Row(Summary, "active", clock, FALSE))
          /\ UNCHANGED <<tombstones, imports, clock, seen, rewound>>
      BY <1>4 DEF EndProviderSession, Row
    <2>2. Summary \in Topics /\ "active" \in States
      BY StoreAssumption DEF States
    <2> QED
      BY <2>1, <2>2, InsertWrites
  <1>5. ASSUME NEW id \in Ids, Forget(id)
        PROVE  Reading \/ \E row : Writing(id, row)
    <2>1. CASE rows[id].state = "archived"
      BY <1>5, <2>1 DEF Forget, Reading, Rest
    <2> QED
      BY <1>5, <2>1, ForgetWrites
  <1>6. ASSUME NEW a \in Agents, NEW id \in Ids, Get(a, id)
        PROVE  Reading
    <2>1. id \in Present /\ rows[id] \in Rows
      BY <1>6 DEF Get, RowsTyped
    <2>2. [id |-> id, text |-> rows[id].text, updated |-> rows[id].updated]
            \in [id : Ids \cup {NoTopic}, text : 0 .. MaxTexts, updated : Times]
      BY <2>1 DEF Rows
    <2> HIDE DEF Inv
    <2>3. /\ seen' = [seen EXCEPT ![a] = [id |-> id, text |-> rows[id].text, updated |-> rows[id].updated]]
          /\ UNCHANGED <<rows, index, tombstones, imports, clock, written, rewound>>
      BY <1>6 DEF Get
    <2>4. clock \in Times /\ seen \in [Agents -> [id : Ids \cup {NoTopic}, text : 0 .. MaxTexts, updated : Times]]
      BY DEF Inv, Rest
    <2> QED
      BY <2>1, <2>2, <2>3, <2>4 DEF Reading
  <1>7. ASSUME NEW a \in Agents, UpdateObservation(a)
        PROVE  \E row : Writing(seen[a].id, row)
    BY <1>7, UpdateObservationWrites
  <1>8. ASSUME NEW id \in Ids, NEW t \in Topics, NEW s \in States, NEW at \in Times,
               PulledObservation(id, t, s, at)
        PROVE  \E row : Writing(id, row)
    BY <1>8, PulledObservationWrites
  <1>9. ASSUME NEW id \in Ids, PulledConflict(id) PROVE \E row : Writing(id, row)
    BY <1>9, PulledConflictWrites
  <1>10. ASSUME NEW id \in Ids, PulledTombstone(id) PROVE \E row : Writing(id, row)
    BY <1>10, PulledTombstoneWrites
  <1>11. ASSUME NEW at \in Times, SetClock(at) PROVE Reading
    BY <1>11 DEF SetClock, Reading, Rest
  <1>12. ASSUME UNCHANGED vars PROVE Reading
    BY <1>12 DEF vars, Reading, Rest
  <1> HIDE DEF Inv
  <1> QED
    BY <1>1, <1>2, <1>3, <1>4, <1>5, <1>6, <1>7, <1>8, <1>9, <1>10, <1>11, <1>12 DEF Next

LEMMA ReadingKeepsInv ==
  ASSUME Inv, Reading
  PROVE  Inv'
  <1>1. RowsTyped' /\ TopicsHeld'
    BY DEF Inv, RowsTyped, TopicsHeld, Reading, Present
  <1>2. Rest'
    BY DEF Inv, Rest, Reading, Present
  <1>3. IndexTyped' /\ Exact'
    BY DEF Inv, IndexTyped, Exact, Reading, Present, Without, Restrict
  <1>4. Remembered'
    <2> SUFFICES ASSUME NEW a \in Agents
                 PROVE  (\/ seen[a].id = NoTopic
                         \/ seen[a].id \in Present /\ (seen[a].id \in rewound \/ Same(a)))'
      BY DEF Remembered
    <2>1. CASE seen'[a] = seen[a]
      BY <2>1 DEF Inv, Remembered, Same, Reading, Present
    <2>2. CASE \E id \in Present :
                 seen'[a] = [id |-> id, text |-> rows[id].text, updated |-> rows[id].updated]
      BY <2>2 DEF Reading, Same, Present
    <2> QED
      BY <2>1, <2>2 DEF Reading
  <1> QED
    BY <1>1, <1>2, <1>3, <1>4 DEF Inv

\* What an import of a file brings: of its rows, `kept`.
Imported(path, kept) ==
  /\ kept \in Folds(Legacy[path])
  /\ imports' = imports \cup {path}
  /\ UNCHANGED <<tombstones, clock, written, seen, rewound>>
  /\ Present' = Present \cup kept
  /\ \A id \in Present : rows'[id] = rows[id]
  /\ \A id \in kept : rows'[id] = Legacy[path][id]
  /\ DOMAIN index' = DOMAIN index \cup {i \in kept : Legacy[path][i].state = "active"}
  /\ \A id \in DOMAIN index : index'[id] = index[id]
  /\ \A id \in DOMAIN index' \ DOMAIN index : index'[id] = Legacy[path][id].text

LEMMA ImportAdds ==
  ASSUME NEW path \in Paths, ImportLegacy(path)
  PROVE  /\ \E kept : Imported(path, kept)
         /\ \A id \in DOMAIN Legacy[path] : Legacy[path][id].topic # NoTopic =>
              \A j \in Present : rows[j].topic = Legacy[path][id].topic => j = id
  <1>1. PICK kept \in Folds(Legacy[path]) : Merge(Legacy[path], kept)
    BY DEF ImportLegacy
  <1>2. kept \subseteq DOMAIN Legacy[path]
    BY <1>1 DEF Folds
  <1>3. \A id \in Present \cap kept : rows[id] = Legacy[path][id]
    BY <1>2 DEF ImportLegacy, Collides
  <1>4. Imported(path, kept)
    BY <1>1, <1>3 DEF ImportLegacy, Imported, Merge, Present
  <1> QED
    BY <1>4 DEF ImportLegacy, Collides, Holders, Present

\* The rows kept of a file have topics of their own, and the others theirs.
LEMMA FoldedRows ==
  ASSUME NEW old, NEW kept \in Folds(old)
  PROVE  /\ kept \subseteq DOMAIN old
         /\ \A i, j \in kept : old[i].topic = old[j].topic => i = j \/ old[i].topic = NoTopic
         /\ \A id \in DOMAIN old \ kept :
              old[id].topic # NoTopic /\ \E other \in kept : old[other].topic = old[id].topic
  BY DEF Folds

LEMMA LegacyRows ==
  ASSUME NEW path \in Paths
  PROVE  /\ DOMAIN Legacy[path] \subseteq Ids
         /\ \A id \in DOMAIN Legacy[path] : Legacy[path][id] \in Rows /\ Legacy[path][id].text = 0
  <1>1. 0 \in Times /\ 0 \in 0 .. MaxTexts
    BY StoreAssumption DEF Times
  <1>2. ASSUME NEW id \in DOMAIN Legacy[path]
        PROVE  Legacy[path][id] \in Rows /\ Legacy[path][id].text = 0
    BY <1>1, <1>2, StoreAssumption DEF Rows, States
  <1> QED
    BY <1>2, StoreAssumption

LEMMA ImportKeepsInv ==
  ASSUME Inv, NEW path \in Paths, ImportLegacy(path)
  PROVE  Inv'
  <1> DEFINE old == Legacy[path]
  <1>0. PICK kept : Imported(path, kept)
    BY ImportAdds
  <1>1. /\ Present' = Present \cup kept
        /\ \A id \in Present : rows'[id] = rows[id]
        /\ \A id \in kept : rows'[id] = old[id]
    BY <1>0 DEF Imported
  <1>2. /\ DOMAIN index' = DOMAIN index \cup {i \in kept : old[i].state = "active"}
        /\ \A id \in DOMAIN index : index'[id] = index[id]
        /\ \A id \in DOMAIN index' \ DOMAIN index : index'[id] = old[id].text
    BY <1>0 DEF Imported
  <1>3. \A id \in DOMAIN old : old[id].topic # NoTopic =>
          \A j \in Present : rows[j].topic = old[id].topic => j = id
    BY ImportAdds
  <1>4. /\ kept \subseteq DOMAIN old /\ kept \subseteq Ids
        /\ \A id \in kept : old[id] \in Rows /\ old[id].text = 0
        /\ \A i, j \in kept : old[i].topic = old[j].topic => i = j \/ old[i].topic = NoTopic
    <2>1. kept \in Folds(old)
      BY <1>0 DEF Imported
    <2> QED
      BY <2>1, FoldedRows, LegacyRows
  <1>5. imports' \subseteq Paths /\ UNCHANGED <<tombstones, clock, written, seen, rewound>>
    BY <1>0 DEF Imported, Inv, Rest
  <1>6. 0 \in 0 .. MaxTexts
    BY StoreAssumption
  <1> HIDE DEF old
  <1>7. RowsTyped'
    BY <1>1, <1>4 DEF Inv, RowsTyped
  <1>8. TopicsHeld'
    BY <1>1, <1>3, <1>4 DEF Inv, TopicsHeld
  <1>9. IndexTyped'
    BY <1>1, <1>2, <1>4, <1>6 DEF Inv, IndexTyped
  <1>10. Rest'
    BY <1>1, <1>5 DEF Inv, Rest
  <1>11. Exact'
    <2> SUFFICES ASSUME NEW id \in Present' \ tombstones'
                 PROVE  /\ rows'[id].state = "active" => id \in DOMAIN index'
                        /\ id \in DOMAIN index' => rows'[id].state # "archived" /\ index'[id] = rows'[id].text
      BY DEF Exact
    <2>1. CASE id \in Present
      BY <1>1, <1>2, <1>5, <2>1 DEF Inv, Exact
    <2>2. CASE id \notin Present
      BY <1>1, <1>2, <2>2 DEF Inv, IndexTyped
    <2> QED
      BY <2>1, <2>2
  <1>12. Remembered'
    BY <1>1, <1>5 DEF Inv, Remembered, Same
  <1> QED
    BY <1>7, <1>8, <1>9, <1>10, <1>11, <1>12 DEF Inv

(***************************************************************************)
(* The theorems.                                                           *)
(***************************************************************************)

LEMMA InitInv == Init => Inv
  <1> SUFFICES ASSUME Init PROVE Inv
    OBVIOUS
  <1>1. NoTopic \in Ids \cup {NoTopic} /\ 0 \in 0 .. MaxTexts /\ 0 \in Times /\ 1 \in Times
    BY StoreAssumption DEF Times
  <1>2. Rest
    BY <1>1 DEF Init, Rest, NothingSeen, Present
  <1>3. Remembered
    BY DEF Init, Remembered, NothingSeen
  <1> QED
    BY <1>2, <1>3 DEF Init, Inv, RowsTyped, TopicsHeld, IndexTyped, Exact, Present

LEMMA StepInv == Inv /\ [Next]_vars => Inv'
  BY EveryStep, WritingKeepsInv, ImportKeepsInv, ReadingKeepsInv

\* The invariant holds in every state, for any constants.
THEOREM Invariance == Spec => []Inv
  BY InitInv, StepInv, PTL DEF Spec

\* Every table of the store holds rows of its columns.
THEOREM TypeCorrect == Spec => []TypeOK
  BY Invariance, InvImpliesTypeOK, PTL

\* Searches and listings agree, whatever wrote the rows and the index.
THEOREM RecallIsAlwaysExact == Spec => []RecallIsExact
  BY Invariance, InvImpliesRecall, PTL

\* What was forgotten or deleted is not brought back on this device.
THEOREM ForgottenIsGone == Spec => ForgottenStays
  <1> DEFINE Stays ==
        \A id \in Forgotten : id \in Forgotten' \/ (id \notin tombstones /\ rows'[id].pulled)
  <1>1. Inv /\ [Next]_vars => Stays
    <2> SUFFICES ASSUME Inv, [Next]_vars, NEW id \in Forgotten
                 PROVE  id \in Forgotten' \/ (id \notin tombstones /\ rows'[id].pulled)
      OBVIOUS
    <2>1. ASSUME NEW k, NEW row, Writing(k, row)
          PROVE  id \in Forgotten' \/ (id \notin tombstones /\ rows'[id].pulled)
      <3>1. /\ Present' = Present \cup {k} /\ rows'[k] = row
            /\ \A j \in Present \ {k} : rows'[j] = rows[j]
        BY <2>1, WrittenRow DEF Writing
      <3> QED
        BY <2>1, <3>1 DEF Forgotten, Writing, KeepStep
    <2>2. ASSUME NEW path \in Paths, ImportLegacy(path)
          PROVE  id \in Forgotten'
      <3>1. /\ Present \subseteq Present' /\ \A j \in Present : rows'[j] = rows[j]
            /\ tombstones' = tombstones
        BY <2>2, ImportAdds DEF Imported
      <3> QED
        BY <3>1 DEF Forgotten
    <2>3. CASE Reading
      BY <2>3 DEF Reading, Forgotten, Present
    <2> QED
      BY <2>1, <2>2, <2>3, EveryStep
  <1> QED
    BY <1>1, Invariance, PTL DEF Spec, ForgottenStays

\* The summaries of provider sessions are not rewritten on this device.
THEOREM SummariesStay == Spec => SummaryStays
  <1> DEFINE Stays ==
        \A id \in Present \ tombstones :
          IsSummary(rows[id]) => rows'[id].text = rows[id].text \/ rows'[id].pulled
  <1>1. Inv /\ [Next]_vars => Stays
    <2> SUFFICES ASSUME Inv, [Next]_vars, NEW id \in Present \ tombstones, IsSummary(rows[id])
                 PROVE  rows'[id].text = rows[id].text \/ rows'[id].pulled
      OBVIOUS
    <2>1. ASSUME NEW k, NEW row, Writing(k, row)
          PROVE  rows'[id].text = rows[id].text \/ rows'[id].pulled
      <3>1. rows'[k] = row /\ \A j \in Present \ {k} : rows'[j] = rows[j]
        BY <2>1, WrittenRow DEF Writing
      <3> QED
        BY <2>1, <3>1 DEF Writing, KeepStep
    <2>2. ASSUME NEW path \in Paths, ImportLegacy(path)
          PROVE  rows'[id].text = rows[id].text
      BY <2>2, ImportAdds DEF Imported
    <2>3. CASE Reading
      BY <2>3 DEF Reading
    <2> QED
      BY <2>1, <2>2, <2>3, EveryStep
  <1> QED
    BY <1>1, Invariance, PTL DEF Spec, SummaryStays

\* What was forgotten stays so, and what a session left is not rewritten.
THEOREM SettledRowsStay == Spec => SettledStays
  BY ForgottenIsGone, SummariesStay DEF SettledStays

\* An update of an agent is refused when another was made since it read.
THEOREM NoUpdateIsLost == Spec => NoLostUpdate
  <1> DEFINE Kept ==
        \A a \in Agents : UpdateObservation(a) =>
          rows[seen[a].id].text = seen[a].text \/ seen[a].id \in rewound
  <1>1. Inv => Kept
    <2> SUFFICES ASSUME Inv, NEW a \in Agents, UpdateObservation(a)
                 PROVE  rows[seen[a].id].text = seen[a].text \/ seen[a].id \in rewound
      OBVIOUS
    <2>1. seen[a].id \in Present /\ rows[seen[a].id].updated = seen[a].updated
      BY DEF UpdateObservation
    <2>2. seen[a].id # NoTopic
      BY <2>1, StoreAssumption DEF Inv, RowsTyped
    <2>3. seen[a].id \in rewound \/ Same(a)
      BY <2>2 DEF Inv, Remembered
    <2>4. rows[seen[a].id].updated \in Nat
      BY <2>1 DEF Inv, RowsTyped, Rows, Times
    <2> QED
      BY <2>1, <2>3, <2>4 DEF Same
  <1> QED
    BY <1>1, Invariance, PTL DEF NoLostUpdate

\* A recorded import left out only rows whose topic the file has twice, and changed nothing.
THEOREM ImportsMerge == Spec => ImportMerges
  <1> DEFINE Merges(path) ==
        /\ \A id \in DOMAIN Legacy[path] \ Brought(path) :
             /\ Legacy[path][id].topic # NoTopic
             /\ \E other \in Brought(path) : Legacy[path][other].topic = Legacy[path][id].topic
        /\ Present \subseteq Present' /\ \A id \in Present : rows'[id] = rows[id]
        /\ DOMAIN index \subseteq DOMAIN index' /\ \A id \in DOMAIN index : index'[id] = index[id]
  <1>1. Inv /\ [Next]_vars => \A path \in imports' \ imports : Merges(path)
    <2> SUFFICES ASSUME Inv, [Next]_vars, NEW path \in imports' \ imports
                 PROVE  Merges(path)
      OBVIOUS
    <2>1. ~ \E k, row : Writing(k, row)
      BY DEF Writing
    <2>2. ~ Reading
      BY DEF Reading
    <2>3. PICK other \in Paths : ImportLegacy(other)
      BY <2>1, <2>2, EveryStep
    <2>4. other = path
      BY <2>3 DEF ImportLegacy
    <2>5. PICK kept : Imported(path, kept)
      BY <2>3, <2>4, ImportAdds
    <2>6. /\ kept \subseteq DOMAIN Legacy[path]
          /\ \A id \in DOMAIN Legacy[path] \ kept :
               /\ Legacy[path][id].topic # NoTopic
               /\ \E i \in kept : Legacy[path][i].topic = Legacy[path][id].topic
      BY <2>5, FoldedRows DEF Imported
    <2>7. kept \subseteq Brought(path)
      BY <2>5, <2>6 DEF Imported, Brought
    <2>8. /\ Present \subseteq Present' /\ \A id \in Present : rows'[id] = rows[id]
          /\ DOMAIN index \subseteq DOMAIN index' /\ \A id \in DOMAIN index : index'[id] = index[id]
      BY <2>5 DEF Imported
    <2> QED
      BY <2>6, <2>7, <2>8
  <1> QED
    BY <1>1, Invariance, PTL DEF Spec, ImportMerges
=============================================================================
