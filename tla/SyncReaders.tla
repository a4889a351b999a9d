---------------------------- MODULE SyncReaders ----------------------------
(***************************************************************************)
(* SyncServer with the devices that read its history.  Pull and            *)
(* PullProject are read-only transactions on a snapshot, so a page is one  *)
(* step; pushes and revocations come between the pages of a reader.        *)
(***************************************************************************)
EXTENDS SyncServer

CONSTANT MaxLimit   \* the page limit of a request (25 in the code)

ASSUME LimitAssumption == MaxLimit \in Nat \ {0}

VARIABLE reader     \* the cursor of a device, and the sequences it was given

readerVars == <<vars, reader>>

LogHead == nextSeq - 1

ChangeReceipt(i) == CHOOSE row \in mutations : ReceiptOf(changes[i], row)
IsTombstone(i) == ChangeReceipt(i).mutation.kind = "tombstone"

\* The lateral join "previous": the accepted version a tombstone was based on.
Previous(i) ==
  {v \in {versions[j] : j \in DOMAIN versions} :
     /\ v.record = changes[i].record
     /\ v.version = ChangeReceipt(i).mutation.base
     /\ v.disposition = "accepted"}

\* Mutant: a change is filed where its record is now.
MembershipNow(i) ==
  LET r == changes[i].record IN
    IF r \in Projects THEN {r}
    ELSE {IF r \in Sessions THEN sessions[r].project ELSE observations[r].payload.project}

\* The projects a change is filed under: one, or none when it cannot be told.
Membership(i) ==
  LET r == changes[i].record IN
    IF r \in Projects THEN {r}
    ELSE IF IsTombstone(i) THEN {v.snapshot.project : v \in Previous(i)}
    ELSE {versions[changes[i].row].snapshot.project}

Unfiled(i) == Membership(i) \subseteq {None}

Reported(i) == {c \in conflicts : /\ c.id = i /\ c.observation = changes[i].record
                                  /\ c.row = changes[i].row /\ c.version = changes[i].version}

\* pullMutation and the checks of a row: a tombstone needs its predecessor's
\* project and its own row, a conflict exactly one reported conflict.
Encodable(i) ==
  /\ IsTombstone(i) => ~Unfiled(i) /\ tombstones[changes[i].record] = changes[i].row
  /\ IF changes[i].kind = "conflict" THEN Cardinality(Reported(i)) = 1 ELSE Reported(i) = {}

\* The sequences of (position, watermark] that a reader of project sees; the
\* reader of None sees the whole history.
Visible(project, position, watermark) ==
  {i \in (position + 1)..watermark : project = None \/ project \in Membership(i)}

\* Mutant: the rows come in descending order.
LastOf(S, n) == {i \in S : Cardinality({j \in S : j > i}) < n}

\* The first n of a set of sequences.
FirstOf(S, n) == {i \in S : Cardinality({j \in S : j < i}) < n}
Last(S) == CHOOSE i \in S : \A j \in S : j <= i

\* The rows the page loop examines must be encodable, and a project pull
\* refuses a window with a change it cannot file.
Servable(project, position, watermark, examined) ==
  /\ position <= watermark /\ watermark <= LogHead
  /\ project # None => \A i \in (position + 1)..watermark : ~Unfiled(i)
  /\ \A i \in FirstOf(Visible(project, position, watermark), examined) : Encodable(i)

\* Mutant: the last page of a project ends at its last change.
EndAtLast(project, position, watermark, page, hasMore) ==
  IF page = {} THEN position ELSE Last(page)

\* Where a page leaves the cursor: the last page of a project jumps to the
\* watermark, over the changes of other projects.
EndOf(project, position, watermark, page, hasMore) ==
  IF project # None /\ ~hasMore THEN watermark
  ELSE IF page = {} THEN position ELSE Last(page)

\* The page of n changes: n is the limit, or less when the response would grow
\* too large.
Page(project, position, watermark, n) ==
  LET visible == Visible(project, position, watermark)
      page == FirstOf(visible, n)
      hasMore == visible # page
  IN [changes |-> page, hasMore |-> hasMore, watermark |-> watermark,
      position |-> EndOf(project, position, watermark, page, hasMore)]

\* pullMatches: the page the HTTP client takes as an answer to its request.
ClientTakes(project, position, page) ==
  /\ position <= page.position
  /\ page.changes = {} =>
       /\ ~page.hasMore
       /\ page.position = IF project = None THEN position ELSE page.watermark
  /\ page.changes # {} =>
       /\ project = None => page.changes = (position + 1)..Last(page.changes)
       /\ page.position = IF project # None /\ ~page.hasMore THEN page.watermark
                          ELSE Last(page.changes)

\* validateProjectPulledPage: the page the store takes from the client.
StoreTakes(page) ==
  /\ page.hasMore <=> page.position < page.watermark
  /\ page.changes = {} => ~page.hasMore /\ page.position = page.watermark
  /\ page.changes # {} => Last(page.changes) = page.position

\* One request of a reader.  Its cursor is durable, so a lost answer or a
\* restart repeats the request; watermark 0 asks for the present head.
WatermarkOf(r) == IF r.watermark = 0 THEN LogHead ELSE r.watermark

PullPage(d, limit, n) ==
  LET r == reader[d]
      page == Page(r.project, r.position, WatermarkOf(r), n)
  IN /\ device[d] = "active"
     /\ Servable(r.project, r.position, WatermarkOf(r), IF n < limit THEN n + 1 ELSE n)
     /\ ClientTakes(r.project, r.position, page)
     /\ reader' = [reader EXCEPT ![d] =
          [project |-> r.project, position |-> page.position,
           watermark |-> IF page.hasMore THEN page.watermark ELSE 0,
           seen |-> r.seen \cup page.changes]]
     /\ UNCHANGED vars

ReaderInit ==
  /\ Init
  /\ reader \in [Devices -> [project : Projects \cup {None}, position : {0},
                             watermark : {0}, seen : {{}}]]

ReaderNext ==
  \/ Next /\ UNCHANGED reader
  \/ \E d \in Devices, limit \in 1..MaxLimit : \E n \in 1..limit : PullPage(d, limit, n)

ReaderSpec == ReaderInit /\ [][ReaderNext]_readerVars

\* A reader has been given exactly the changes of its scope up to its position:
\* no page boundary, moved record, deletion or push that lands between two
\* pages makes it skip a change or see one of another project.
PagesAreExact ==
  \A d \in Devices :
    /\ reader[d].position <= LogHead
    /\ reader[d].seen = Visible(reader[d].project, 0, reader[d].position)

\* What a reader was given is settled: no later push changes the project a
\* change is filed under or makes a served change unservable.
ServedIsSettled ==
  [][\A i \in DOMAIN changes :
       Membership(i)' = Membership(i) /\ (Encodable(i) => Encodable(i)')]_vars

\* The last page of a project, when its last change is not the last of the
\* history: the service ends it at the watermark, the store wants it to end at
\* its change.
EndsBeyondItsChanges(page) ==
  page.changes # {} /\ ~page.hasMore /\ Last(page.changes) < page.watermark

\* No page that the service serves is refused by its client, nor by its store
\* save in the case above: the reader of a live device can always go on.
ReadersAreNotStuck ==
  \A d \in Devices, limit \in 1..MaxLimit :
    LET r == reader[d]
        page == Page(r.project, r.position, WatermarkOf(r), limit)
    IN Servable(r.project, r.position, WatermarkOf(r), limit) =>
         /\ ClientTakes(r.project, r.position, page)
         /\ r.project # None => StoreTakes(page) \/ EndsBeyondItsChanges(page)
=============================================================================
