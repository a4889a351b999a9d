------------------------- MODULE TransitionProofs -------------------------
(***************************************************************************)
(* Theorems about Transition, for any records and references, any queue of *)
(* the old history, any batches and pages, and any bounds.  Until a        *)
(* transition begins the backup holds what it will drop, because the       *)
(* intent keeps local writers out; from then on the project stands still,  *)
(* and a record counts as seen only where the history has it as the        *)
(* snapshot says.                                                          *)
(***************************************************************************)
EXTENDS Transition, FiniteSetTheorems, SequenceTheorems, WellFoundedInduction, TLAPS

RunType ==
  [command : Modes \cup {"idle", "sync"}, pc : Points, claims : Seq(Mutation),
   answers : Seq(Answer), blocking : BOOLEAN, pulling : 0..MaxHistory]

\* A create is never kept as a conflict.
LogInv == \A i \in DOMAIN log : log[i].m.base = 0 => log[i].accepted

\* Rows have identifiers that were issued, and a row with a base is of a record
\* with a version: what has none has nothing but creates.
QueueInv ==
  /\ Present(Project)
  /\ \A i \in DOMAIN outbox :
       LET m == outbox[i].m
       IN /\ m.id.n <= issued[m.id.record]
          /\ m.base > 0 => local[m.id.record].version > 0

\* Where a command may be.
PlaceInv ==
  /\ run.pc = "idle" => run = Idle
  /\ run.pc \in {"probe", "intent", "backup", "write", "seal", "prepare"} =>
       transition.mode = "none" /\ run.command \in Modes
  /\ run.pc \in {"backup", "write", "seal", "prepare"} => Intended
  /\ run.pc = "seal" => backup.state = "whole"
  /\ run.pc = "prepare" => intent.sealed
  /\ run.pc \in {"continue", "page", "finalize", "last"} => Active
  /\ run.pc = "page" /\ cursor.exists => cursor.history = run.pulling
  /\ Completed => run = Idle

Batch == run.pc \in {"push", "apply"}

\* What a run has claimed is queued, held, of different records, and not seen by
\* the transition there is; what was accepted in the first history is there.
BatchInv ==
  Batch =>
    /\ run.claims # << >>
    /\ \A k \in DOMAIN run.claims :
         \E i \in DOMAIN outbox : outbox[i].m = run.claims[k] /\ outbox[i].claim = "held"
    /\ \A j, k \in DOMAIN run.claims : run.claims[j].id.record = run.claims[k].id.record => j = k
    /\ Active => \A k \in DOMAIN run.claims : run.claims[k].id.record \in Unseen
    /\ run.pc = "apply" => Len(run.answers) = Len(run.claims)
    /\ history = 1 => \A k \in DOMAIN run.answers :
                        run.answers[k].disposition = "accepted" => Published(run.claims[k].id.record)

\* Until the transition begins a whole backup has what there is.
BackupInv ==
  /\ intent.sealed => Intended /\ backup.state = "whole"
  /\ Intended => transition.mode = "none"
  /\ ~Intended /\ transition.mode = "none" => backup.state = "absent"
  /\ Intended /\ backup.state = "whole" =>
       /\ \A i \in DOMAIN outbox : Write(outbox[i].m) \in backup.rows
       /\ \A r \in Records : local[r].content = backup.content[r]

\* A device without a transition keeps the cursor of the history that is gone.
CursorInv ==
  /\ history >= 1
  /\ transition.mode = "none" <=> transition.status = "none"
  /\ transition.mode = "none" => cursor.exists /\ cursor.history = 0
  /\ ~cursor.exists => cursor.history = 0 /\ cursor.position = 0 /\ cursor.watermark = 0
  /\ cursor.history <= history
  /\ cursor.history = history => cursor.watermark <= Len(log)

\* The project stands still, and what is queued is not published or was seen.
ActiveInv ==
  /\ Active =>
       /\ Acyclic(Snapshot)
       /\ \A r \in Snapshot : local[r].content = snapshot[r].hash
       /\ \A i \in DOMAIN outbox :
            LET m == outbox[i].m
            IN /\ m.base = 0 /\ m.content = snapshot[m.id.record].hash
               /\ m.id.record \in Snapshot
               /\ local[m.id.record].version = 0 \/ snapshot[m.id.record].seen
       /\ \A i, j \in DOMAIN outbox : outbox[i].m.id.record = outbox[j].m.id.record => i = j
       /\ transition.status = "pulling" => outbox = << >>
       /\ ~RepairPending
  /\ Completed => outbox = << >> /\ Unseen = {}
  /\ transition.mode = "none" => Snapshot = {}

CreatedAs(e, r) ==
  e.m.id.record = r /\ e.m.base = 0 /\ e.m.content = snapshot[r].hash /\ e.accepted

\* A record that was seen is here and in the history as the snapshot says.
SeenInv ==
  \A r \in Snapshot : snapshot[r].seen =>
    /\ local[r] = [content |-> snapshot[r].hash, version |-> 1]
    /\ cursor.exists
    /\ cursor.history = history => \E i \in 1..cursor.position : CreatedAs(log[i], r)

TransInv ==
  /\ TypeOK /\ LogInv /\ QueueInv /\ PlaceInv /\ BatchInv
  /\ BackupInv /\ CursorInv /\ ActiveInv /\ SeenInv /\ RepairGoesFirst

----------------------------------------------------------------------------

(***************************************************************************)
(* Data.                                                                   *)
(***************************************************************************)

LEMMA MutationFields ==
  ASSUME NEW m \in Mutation
  PROVE  /\ m.id \in Id /\ m.id.record \in Records /\ m.id.n \in Nat
         /\ m.base \in Nat /\ m.content \in 0..Elsewhere /\ m.content # 0
         /\ Write(m) \in [id : Id, content : Shared..Elsewhere]
  BY DEF Mutation, Id, Write, Shared, Elsewhere

LEMMA RowFields ==
  ASSUME NEW row \in Row
  PROVE  /\ row.m \in Mutation /\ row.claim \in {"never", "held", "expired", "waiting", "retry"}
         /\ row = [m |-> row.m, claim |-> row.claim]
  BY DEF Row

LEMMA EntryFields ==
  ASSUME NEW e \in Entry
  PROVE  /\ e.m \in Mutation /\ e.own \in BOOLEAN /\ e.version \in Nat /\ e.version > 0
         /\ e.accepted \in BOOLEAN
  BY DEF Entry

LEMMA OutboxFields ==
  ASSUME TypeOK
  PROVE  /\ outbox \in Seq(Row) /\ Len(outbox) \in Nat /\ DOMAIN outbox = 1..Len(outbox)
         /\ \A i \in DOMAIN outbox :
              /\ i \in Nat /\ outbox[i] \in Row /\ outbox[i].m \in Mutation
              /\ outbox[i].m.id \in Id
              /\ outbox[i].m.id.record \in Records /\ outbox[i].m.id.n \in Nat
              /\ outbox[i].m.base \in Nat
         /\ \A i, j \in DOMAIN outbox : outbox[i].m.id = outbox[j].m.id => i = j
  <1>1. outbox \in Seq(Row) /\ \A i, j \in DOMAIN outbox : outbox[i].m.id = outbox[j].m.id => i = j
    BY DEF TypeOK
  <1>2. Len(outbox) \in Nat /\ DOMAIN outbox = 1..Len(outbox)
          /\ \A i \in DOMAIN outbox : i \in Nat /\ outbox[i] \in Row
    BY <1>1
  <1> QED
    BY <1>1, <1>2, RowFields, MutationFields

LEMMA LogFields ==
  ASSUME TypeOK
  PROVE  /\ log \in Seq(Entry) /\ Len(log) \in Nat /\ DOMAIN log = 1..Len(log)
         /\ \A i \in DOMAIN log :
              /\ i \in Nat /\ log[i] \in Entry /\ log[i].m \in Mutation
              /\ log[i].m.id.record \in Records /\ log[i].m.base \in Nat
              /\ log[i].version \in Nat /\ log[i].version > 0 /\ log[i].accepted \in BOOLEAN
  <1>1. log \in Seq(Entry)
    BY DEF TypeOK
  <1>2. Len(log) \in Nat /\ DOMAIN log = 1..Len(log) /\ \A i \in DOMAIN log : i \in Nat /\ log[i] \in Entry
    BY <1>1
  <1> QED
    BY <1>1, <1>2, EntryFields, MutationFields

LEMMA LocalFields ==
  ASSUME TypeOK, NEW r \in Records
  PROVE  /\ local[r] \in [content : 0..Elsewhere, version : Nat]
         /\ local[r].content \in 0..Elsewhere /\ local[r].version \in Nat
         /\ snapshot[r] \in [hash : 0..Elsewhere, seen : BOOLEAN]
         /\ snapshot[r].hash \in 0..Elsewhere /\ snapshot[r].seen \in BOOLEAN
         /\ issued[r] \in Nat
  BY DEF TypeOK

LEMMA RunFields ==
  ASSUME TypeOK
  PROVE  /\ run \in RunType /\ run.pc \in Points /\ run.command \in Modes \cup {"idle", "sync"}
         /\ run.claims \in Seq(Mutation) /\ run.answers \in Seq(Answer)
         /\ Len(run.claims) \in Nat /\ Len(run.answers) \in Nat
         /\ Len(run.answers) <= Len(run.claims)
         /\ DOMAIN run.claims = 1..Len(run.claims) /\ DOMAIN run.answers = 1..Len(run.answers)
  <1>1. run \in RunType /\ Len(run.answers) <= Len(run.claims)
    BY DEF TypeOK, RunType
  <1>2. run.pc \in Points /\ run.command \in Modes \cup {"idle", "sync"}
          /\ run.claims \in Seq(Mutation) /\ run.answers \in Seq(Answer)
    BY <1>1 DEF RunType
  <1> QED
    BY <1>1, <1>2

LEMMA LeastOf ==
  ASSUME NEW S \in SUBSET Nat, S # {}
  PROVE  \E i \in S : \A j \in S : i <= j
  <1> DEFINE Less == OpToRel(<, Nat)
  <1>1. IsWellFoundedOn(Less, Nat)
    BY NatLessThanWellFounded
  <1>2. \A i, j \in Nat : <<j, i>> \in Less <=> j < i
    BY DEF OpToRel
  <1> HIDE DEF Less
  <1>3. PICK i \in S : \A j \in S : ~(<<j, i>> \in Less)
    BY <1>1, WFMin
  <1>4. \A j \in S : j \in Nat
    OBVIOUS
  <1>5. \A j \in S : ~(j < i)
    BY <1>2, <1>3, <1>4
  <1> QED
    BY <1>4, <1>5

LEMMA MinIs ==
  ASSUME NEW S \in SUBSET Nat, S # {}
  PROVE  Min(S) \in S /\ \A j \in S : Min(S) <= j
  <1>1. PICK i \in S : \A j \in S : i <= j
    BY LeastOf
  <1> QED
    BY <1>1 DEF Min

LEMMA MaxIs ==
  ASSUME NEW k \in Nat, NEW S \in SUBSET (0..k), S # {}
  PROVE  Max(S) \in S /\ \A j \in S : j <= Max(S)
  <1> DEFINE T == {k - i : i \in S}
  <1>0. \A i \in S : i \in Nat /\ i <= k
    OBVIOUS
  <1>1. T \subseteq Nat /\ T # {}
    <2>1. \A i \in S : k - i \in Nat
      BY <1>0
    <2> QED
      BY <2>1
  <1>2. PICK t \in T : \A u \in T : t <= u
    BY <1>1, LeastOf
  <1>3. PICK i \in S : t = k - i
    BY <1>2
  <1>4. \A j \in S : i >= j
    BY <1>0, <1>2, <1>3
  <1>5. Max(S) \in S /\ \A j \in S : Max(S) >= j
    BY <1>4 DEF Max
  <1> QED
    BY <1>0, <1>5

----------------------------------------------------------------------------

(***************************************************************************)
(* Orders.                                                                 *)
(***************************************************************************)

\* Of things with different keys, every place below their number is taken.
LEMMA PlaceTaken ==
  ASSUME NEW S, IsFiniteSet(S), NEW key, \A x \in S : key[x] \in Nat,
         \A x, y \in S : key[x] = key[y] => x = y,
         NEW k \in Nat, k < Cardinality(S)
  PROVE  \E x \in S : Cardinality({y \in S : key[y] < key[x]}) = k
  <1> DEFINE Before(x) == {y \in S : key[y] < key[x]}
             ranks == 0..(Cardinality(S) - 1)
             f == [x \in S |-> Cardinality(Before(x))]
  <1>2. Cardinality(S) \in Nat
    BY FS_CardinalityType
  <1>3. \A x \in S : IsFiniteSet(Before(x)) /\ Cardinality(Before(x)) \in Nat
    BY FS_Subset, FS_CardinalityType
  <1>4. ASSUME NEW x \in S
        PROVE  Cardinality(Before(x)) \in ranks
    <2>1. Before(x) \subseteq S /\ x \notin Before(x)
      BY <1>4
    <2>2. Before(x) # S
      BY <1>4, <2>1
    <2>3. Cardinality(Before(x)) <= Cardinality(S) /\ Cardinality(Before(x)) # Cardinality(S)
      BY <2>1, <2>2, FS_Subset
    <2> QED
      BY <1>2, <1>3, <1>4, <2>3
  <1>5. ASSUME NEW a \in S, NEW b \in S, key[a] < key[b]
        PROVE  Cardinality(Before(a)) # Cardinality(Before(b))
    <2>1. Before(a) \subseteq Before(b)
      <3>1. \A x \in S : key[x] < key[a] => key[x] < key[b]
        BY <1>5
      <3> QED
        BY <3>1
    <2>2. a \in Before(b) /\ a \notin Before(a)
      BY <1>5
    <2> QED
      BY <1>3, <1>5, <2>1, <2>2, FS_Subset
  <1>6. f \in Injection(S, ranks)
    <2>1. f \in [S -> ranks]
      BY <1>4
    <2>2. ASSUME NEW a \in S, NEW b \in S, f[a] = f[b]
          PROVE  a = b
      <3>1. Cardinality(Before(a)) = Cardinality(Before(b))
        BY <2>2
      <3>2. ~(key[a] < key[b]) /\ ~(key[b] < key[a])
        BY <1>5, <3>1
      <3>3. key[a] = key[b]
        BY <3>2
      <3> QED
        BY <3>3
    <2> QED
      BY <2>1, <2>2 DEF Injection, IsInjective
  <1>7. IsFiniteSet(ranks) /\ Cardinality(ranks) = Cardinality(S)
    <2>1. 0 \in Int /\ Cardinality(S) - 1 \in Int
      BY <1>2
    <2>2. /\ IsFiniteSet(0..(Cardinality(S) - 1))
          /\ Cardinality(0..(Cardinality(S) - 1))
               = IF 0 > Cardinality(S) - 1 THEN 0 ELSE Cardinality(S) - 1 - 0 + 1
      BY <2>1, FS_Interval
    <2> QED
      BY <1>2, <2>2
  <1>8. f \in Surjection(S, ranks)
    BY <1>6, <1>7, FS_Injection
  <1>9. k \in ranks
    BY <1>2
  <1>10. PICK x \in S : f[x] = k
    BY <1>8, <1>9 DEF Surjection
  <1> QED
    BY <1>10

\* Sorting lists what there is, once.
LEMMA SortedIs ==
  ASSUME NEW S, IsFiniteSet(S), NEW key, \A x \in S : key[x] \in Nat,
         \A x, y \in S : key[x] = key[y] => x = y
  PROVE  /\ Sorted(S, key) \in Seq(S)
         /\ \A i \in DOMAIN Sorted(S, key) : Sorted(S, key)[i] \in S
         /\ \A i, j \in DOMAIN Sorted(S, key) : Sorted(S, key)[i] = Sorted(S, key)[j] => i = j
  <1>1. Cardinality(S) \in Nat
    BY FS_CardinalityType
  <1> DEFINE Place(x) == Cardinality({y \in S : key[y] < key[x]})
  <1>2. Sorted(S, key) = [n \in 1..Cardinality(S) |-> CHOOSE x \in S : Place(x) = n - 1]
    BY DEF Sorted
  <1>3. \A k \in Nat : k < Cardinality(S) => \E x \in S : Place(x) = k
    BY PlaceTaken
  <1> HIDE DEF Place
  <1>4. ASSUME NEW n \in 1..Cardinality(S)
        PROVE  Sorted(S, key)[n] \in S /\ Place(Sorted(S, key)[n]) = n - 1
    <2>1. n - 1 \in Nat /\ n - 1 < Cardinality(S)
      BY <1>1, <1>4
    <2>2. \E x \in S : Place(x) = n - 1
      BY <1>3, <2>1
    <2>3. Sorted(S, key)[n] = CHOOSE x \in S : Place(x) = n - 1
      BY <1>2, <1>4
    <2> QED
      BY <2>2, <2>3
  <1>5. DOMAIN Sorted(S, key) = 1..Cardinality(S)
    BY <1>2
  <1>6. Sorted(S, key) \in [1..Cardinality(S) -> S]
    BY <1>2, <1>4, <1>5
  <1>7. ASSUME NEW i \in 1..Cardinality(S), NEW j \in 1..Cardinality(S),
               Sorted(S, key)[i] = Sorted(S, key)[j]
        PROVE  i = j
    <2>1. i - 1 = j - 1
      BY <1>4, <1>7
    <2> QED
      BY <1>7, <2>1
  <1> QED
    BY <1>1, <1>4, <1>5, <1>6, <1>7

\* Identifiers differ within a kind, and sessions come before observations.
LEMMA SortedRecords ==
  ASSUME NEW S \in SUBSET Records
  PROVE  /\ Sorted(S, Rank) \in Seq(S)
         /\ \A i \in DOMAIN Sorted(S, Rank) : Sorted(S, Rank)[i] \in S
         /\ \A i, j \in DOMAIN Sorted(S, Rank) : Sorted(S, Rank)[i] = Sorted(S, Rank)[j] => i = j
  <1>1. IsFiniteSet(S)
    BY FS_Subset, TransitionAssumption
  <1>2. \A x \in S : Rank[x] \in Nat
    BY TransitionAssumption
  <1>3. \A x, y \in S : Rank[x] = Rank[y] => x = y
    BY TransitionAssumption
  <1> QED
    BY <1>1, <1>2, <1>3, SortedIs

Rest(s, n, S) == S \ {s[k] : k \in 1..n - 1}
IsNext(r, rest) ==
  /\ r \in rest /\ Needs[r] \cap rest = {}
  /\ \A q \in rest : Needs[q] \cap rest = {} => Rank[r] <= Rank[q]
InOrder(s, n, S) == \A i \in 1..n : IsNext(s[i], Rest(s, i, S))

\* Where references do not go round something always comes next.
LEMMA SomethingIsNext ==
  ASSUME NEW S \in SUBSET Records, S # {}, \E r \in S : Needs[r] \cap S = {}
  PROVE  \E r \in S : IsNext(r, S)
  <1> DEFINE ready == {r \in S : Needs[r] \cap S = {}}
             ranks == {Rank[r] : r \in ready}
  <1>1. \A r \in ready : Rank[r] \in Nat
    BY TransitionAssumption
  <1>2. ranks \in SUBSET Nat /\ ranks # {}
    BY <1>1
  <1> HIDE DEF ranks
  <1>3. PICK k \in ranks : \A j \in ranks : k <= j
    BY <1>2, LeastOf
  <1>4. PICK r \in ready : k = Rank[r]
    BY <1>3 DEF ranks
  <1>5. \A q \in ready : Rank[r] <= Rank[q]
    BY <1>3, <1>4 DEF ranks
  <1> QED
    BY <1>4, <1>5 DEF IsNext

\* One more.
LEMMA OneMoreInOrder ==
  ASSUME NEW S \in SUBSET Records, Acyclic(S), NEW n \in Nat, n > 0, n <= Cardinality(S),
         NEW s \in [1..n - 1 -> S], InOrder(s, n - 1, S)
  PROVE  \E t \in [1..n -> S] : InOrder(t, n, S)
  <1>1. Rest(s, n, S) # {}
    <2> SUFFICES ASSUME Rest(s, n, S) = {}
                 PROVE  FALSE
      OBVIOUS
    <2>1. \A x \in S : \E k \in 1..n - 1 : s[k] = x
      BY DEF Rest
    <2>2. s \in Surjection(1..n - 1, S)
      BY <2>1 DEF Surjection
    <2>3. n - 1 \in Nat /\ ExistsSurjection(1..n - 1, S)
      BY <2>2 DEF ExistsSurjection
    <2>4. Cardinality(S) <= n - 1
      BY <2>3, FS_SurjCardinalityBound
    <2>5. Cardinality(S) \in Nat
      BY FS_CardinalityType, FS_Subset, TransitionAssumption
    <2> QED
      BY <2>4, <2>5
  <1>2. Rest(s, n, S) \subseteq S
    BY DEF Rest
  <1>3. \E r \in Rest(s, n, S) : Needs[r] \cap Rest(s, n, S) = {}
    BY <1>1, <1>2 DEF Acyclic
  <1>4. PICK x \in Rest(s, n, S) : IsNext(x, Rest(s, n, S))
    BY <1>1, <1>2, <1>3, SomethingIsNext
  <1> DEFINE t == [i \in 1..n |-> IF i = n THEN x ELSE s[i]]
  <1>5. t \in [1..n -> S] /\ t[n] = x /\ \A i \in 1..n - 1 : t[i] = s[i]
    <2>1. \A i \in 1..n : i # n => i \in 1..n - 1
      OBVIOUS
    <2>2. n \in 1..n /\ \A i \in 1..n - 1 : i \in 1..n /\ i # n
      OBVIOUS
    <2> QED
      BY <1>2, <2>1, <2>2
  <1> HIDE DEF t
  <1>6. ASSUME NEW i \in 1..n
        PROVE  Rest(t, i, S) = Rest(s, i, S)
    <2>1. \A k \in 1..i - 1 : k \in 1..n - 1
      BY <1>6
    <2>2. \A k \in 1..i - 1 : t[k] = s[k]
      BY <1>5, <2>1
    <2> QED
      BY <2>2 DEF Rest
  <1>7. ASSUME NEW i \in 1..n
        PROVE  IsNext(t[i], Rest(t, i, S))
    <2>1. CASE i = n
      BY <1>4, <1>5, <1>6, <1>7, <2>1
    <2>2. CASE i # n
      <3>1. i \in 1..n - 1
        BY <1>7, <2>2
      <3> QED
        BY <1>5, <1>6, <1>7, <3>1 DEF InOrder
    <2> QED
      BY <2>1, <2>2
  <1> QED
    BY <1>5, <1>7 DEF InOrder

\* The order of dependency lists what there is, once, and what a record needs before it.
LEMMA DependencyOrderIs ==
  ASSUME NEW S \in SUBSET Records, Acyclic(S)
  PROVE  /\ DependencyOrder(S) \in Seq(S)
         /\ \A i \in DOMAIN DependencyOrder(S) : DependencyOrder(S)[i] \in S
         /\ \A i, j \in DOMAIN DependencyOrder(S) :
              DependencyOrder(S)[i] = DependencyOrder(S)[j] => i = j
         /\ \A i, j \in DOMAIN DependencyOrder(S) :
              DependencyOrder(S)[j] \in Needs[DependencyOrder(S)[i]] => j < i
  <1>1. Cardinality(S) \in Nat
    BY FS_CardinalityType, FS_Subset, TransitionAssumption
  <1> DEFINE Bad == {n \in Nat : n <= Cardinality(S) /\ ~\E s \in [1..n -> S] : InOrder(s, n, S)}
  <1>2. Bad = {}
    <2> SUFFICES ASSUME Bad # {}
                 PROVE  FALSE
      OBVIOUS
    <2>1. PICK n \in Bad : \A k \in Bad : n <= k
      BY LeastOf
    <2>2. n # 0
      <3>1. [i \in 1..0 |-> {}] \in [1..0 -> S] /\ InOrder([i \in 1..0 |-> {}], 0, S)
        BY DEF InOrder
      <3> QED
        BY <2>1, <3>1
    <2>3. n - 1 \in Nat /\ n - 1 <= Cardinality(S) /\ n - 1 \notin Bad
      BY <1>1, <2>1, <2>2
    <2>4. PICK s \in [1..n - 1 -> S] : InOrder(s, n - 1, S)
      BY <2>3
    <2>5. \E t \in [1..n -> S] : InOrder(t, n, S)
      BY <2>1, <2>2, <2>4, OneMoreInOrder
    <2> QED
      BY <2>1, <2>5
  <1>3. PICK s \in [1..Cardinality(S) -> S] : InOrder(s, Cardinality(S), S)
    BY <1>1, <1>2
  <1> HIDE DEF Bad
  <1>4. PICK N : N = Cardinality(S)
    OBVIOUS
  <1>5. DependencyOrder(S) = CHOOSE f \in [1..N -> S] :
           \A n \in DOMAIN f :
             LET rest == S \ {f[k] : k \in 1..n - 1}
                 ready == {r \in rest : Needs[r] \cap rest = {}}
             IN f[n] \in ready /\ \A r \in ready : Rank[f[n]] <= Rank[r]
    BY <1>4 DEF DependencyOrder
  <1>6. \A f \in [1..N -> S] :
           (\A n \in DOMAIN f :
             LET rest == S \ {f[k] : k \in 1..n - 1}
                 ready == {r \in rest : Needs[r] \cap rest = {}}
             IN f[n] \in ready /\ \A r \in ready : Rank[f[n]] <= Rank[r])
           <=> InOrder(f, N, S)
    BY DEF InOrder, IsNext, Rest
  <1>7. PICK f : f = DependencyOrder(S)
    OBVIOUS
  <1>8. f \in [1..N -> S] /\ InOrder(f, N, S)
    BY <1>3, <1>4, <1>5, <1>6, <1>7
  <1>9. ASSUME NEW i \in 1..N, NEW j \in 1..N, j < i
        PROVE  f[i] # f[j] /\ f[i] \notin Needs[f[j]]
    <2>1. j \in 1..i - 1
      BY <1>1, <1>4, <1>9
    <2>2. f[i] \in Rest(f, i, S)
      BY <1>8 DEF InOrder, IsNext
    <2>3. f[i] # f[j]
      BY <2>1, <2>2 DEF Rest
    <2>4. f[i] \in Rest(f, j, S)
      <3>1. \A k \in 1..j - 1 : k \in 1..i - 1
        BY <1>1, <1>4, <1>9
      <3> QED
        BY <2>2, <3>1 DEF Rest
    <2>5. Needs[f[j]] \cap Rest(f, j, S) = {}
      BY <1>8 DEF InOrder, IsNext
    <2> QED
      BY <2>3, <2>4, <2>5
  <1>10. ASSUME NEW i \in 1..N
         PROVE  f[i] \notin Needs[f[i]]
    BY <1>8, <1>10 DEF InOrder, IsNext
  <1>11. \A i, j \in 1..N : i = j \/ i < j \/ j < i
    BY <1>1, <1>4
  <1>12. DOMAIN f = 1..N /\ f \in Seq(S)
    BY <1>1, <1>4, <1>8
  <1> QED
    BY <1>7, <1>8, <1>9, <1>10, <1>11, <1>12

----------------------------------------------------------------------------

(***************************************************************************)
(* The service.                                                            *)
(***************************************************************************)

LEMMA VersionType ==
  ASSUME TypeOK, NEW r
  PROVE  Version(r) \in Nat /\ (Published(r) => Version(r) > 0)
  <1>1. CASE Accepted(r) = {}
    BY <1>1 DEF Version, Published
  <1>2. CASE Accepted(r) # {}
    <2>1. Accepted(r) \in SUBSET (0..Len(log)) /\ Len(log) \in Nat
      BY LogFields DEF Accepted
    <2>2. Max(Accepted(r)) \in DOMAIN log
      BY <1>2, <2>1, MaxIs DEF Accepted
    <2> QED
      BY <1>2, <2>2, LogFields DEF Version
  <1> QED
    BY <1>1, <1>2

\* What may come to the log.
Sound(e) == e \in Entry /\ (e.m.base = 0 => e.accepted)
Grows == log' = log \/ \E e : Sound(e) /\ log' = Append(log, e)

LEMMA Appended ==
  ASSUME TypeOK, NEW e \in Entry, log' = Append(log, e)
  PROVE  /\ log' \in Seq(Entry) /\ Len(log') = Len(log) + 1
         /\ DOMAIN log' = 1..(Len(log) + 1)
         /\ \A i \in DOMAIN log' : i \in Nat /\ (i \in DOMAIN log \/ i = Len(log) + 1)
         /\ \A i \in DOMAIN log : i \in DOMAIN log' /\ log'[i] = log[i]
         /\ Len(log) + 1 \in DOMAIN log' /\ log'[Len(log) + 1] = e
  <1>1. log \in Seq(Entry) /\ Len(log) \in Nat /\ DOMAIN log = 1..Len(log)
    BY LogFields DEF TypeOK
  <1>2. log' \in Seq(Entry) /\ Len(log') = Len(log) + 1 /\ DOMAIN log' = 1..(Len(log) + 1)
    BY <1>1
  <1>3. \A i \in 1..Len(log) : log'[i] = log[i]
    BY <1>1
  <1>4. log'[Len(log) + 1] = e
    BY <1>1
  <1> QED
    BY <1>1, <1>2, <1>3, <1>4

\* What growing leaves.
LEMMA GrowsIs ==
  ASSUME TypeOK, LogInv, Grows
  PROVE  /\ log' \in Seq(Entry) /\ LogInv'
         /\ Len(log') \in Nat /\ Len(log) \in Nat /\ Len(log) <= Len(log')
         /\ \A i \in DOMAIN log : i \in DOMAIN log' /\ log'[i] = log[i]
         /\ \A r : Published(r) => Published(r)'
  <1>1. CASE log' = log
    BY <1>1, LogFields DEF LogInv, Published, Accepted
  <1>2. ASSUME NEW e, Sound(e), log' = Append(log, e)
        PROVE  /\ log' \in Seq(Entry) /\ LogInv'
               /\ Len(log') \in Nat /\ Len(log) \in Nat /\ Len(log) <= Len(log')
               /\ \A i \in DOMAIN log : i \in DOMAIN log' /\ log'[i] = log[i]
               /\ \A r : Published(r) => Published(r)'
    <2>1. /\ log' \in Seq(Entry) /\ Len(log') = Len(log) + 1
          /\ \A i \in DOMAIN log' : i \in Nat /\ (i \in DOMAIN log \/ i = Len(log) + 1)
          /\ \A i \in DOMAIN log : i \in DOMAIN log' /\ log'[i] = log[i]
          /\ Len(log) + 1 \in DOMAIN log' /\ log'[Len(log) + 1] = e
      BY <1>2, Appended DEF Sound
    <2>2. LogInv'
      BY <1>2, <2>1 DEF LogInv, Sound
    <2>3. ASSUME NEW r, Published(r)
          PROVE  Published(r)'
      <3>1. PICK i \in DOMAIN log : log[i].m.id.record = r /\ log[i].accepted
        BY <2>3 DEF Published, Accepted
      <3> QED
        BY <2>1, <3>1 DEF Published, Accepted
    <2> QED
      BY <2>1, <2>2, <2>3, LogFields
  <1> QED
    BY <1>1, <1>2 DEF Grows

\* The service answers a mutation, and accepts nothing that is not published then.
LEMMA DecideIs ==
  ASSUME TypeOK, LogInv, NEW m \in Mutation, Decide(m)
  PROVE  /\ AnswerTo(m) \in Answer /\ Grows
         /\ AnswerTo(m).disposition = "accepted" => Published(m.id.record)'
  <1> DEFINE r == m.id.record
  <1>1. m.base \in Nat
    BY MutationFields
  <1>2. Version(r) \in Nat /\ (Published(r) => Version(r) > 0)
    BY VersionType
  <1>3. PICK a : a = AnswerTo(m)
    OBVIOUS
  <1>4. CASE Decided(m) # {}
    <2>1. PICK i : i = Max(Decided(m))
      OBVIOUS
    <2>2. i \in DOMAIN log /\ log[i].m.id = m.id
      <3>1. Decided(m) \in SUBSET (0..Len(log)) /\ Len(log) \in Nat
        BY LogFields DEF Decided
      <3> QED
        BY <1>4, <2>1, <3>1, MaxIs DEF Decided
    <2>3. a = IF log[i].m = m
                THEN [disposition |-> IF log[i].accepted THEN "accepted" ELSE "conflict",
                      version |-> log[i].version]
                ELSE [disposition |-> "invalid_base", version |-> 0]
      BY <1>3, <1>4, <2>1 DEF AnswerTo
    <2>4. log' = log
      BY <1>4 DEF Decide
    <2>5. a \in Answer /\ (a.disposition = "accepted" => log[i].accepted)
      <3>1. log[i].version \in Nat /\ log[i].accepted \in BOOLEAN
        BY <2>2, LogFields
      <3> QED
        BY <2>3, <3>1 DEF Answer
    <2>6. a.disposition = "accepted" => Published(r)'
      BY <2>2, <2>4, <2>5 DEF Published, Accepted
    <2> QED
      BY <1>3, <2>4, <2>5, <2>6 DEF Grows
  <1>5. CASE Decided(m) = {}
    <2>1. PICK version : version = Version(r)
      OBVIOUS
    <2>2. \/ /\ a = [disposition |-> "accepted", version |-> m.base + 1]
          \/ /\ a = [disposition |-> "conflict", version |-> version]
             /\ m.base > 0 /\ version > 0
          \/ a = [disposition |-> "invalid_prerequisite", version |-> 0]
          \/ a = [disposition |-> "invalid_base", version |-> 0]
      BY <1>2, <1>3, <1>5, <2>1 DEF AnswerTo
    <2>3. a \in Answer /\ a.version \in Nat
      BY <1>1, <1>2, <2>1, <2>2 DEF Answer
    <2>4. PICK e : e = [m |-> m, own |-> TRUE, version |-> a.version,
                        accepted |-> a.disposition = "accepted"]
      OBVIOUS
    <2>5. log' = IF a.version > 0 THEN Append(log, e) ELSE log
      BY <1>3, <1>5, <2>4 DEF Decide
    <2>6. a.version > 0 => Sound(e)
      <3>1. (a.disposition = "accepted") \in BOOLEAN
        OBVIOUS
      <3>2. a.version > 0 => e \in Entry
        BY <2>3, <2>4, <3>1 DEF Entry
      <3>3. a.version > 0 => (e.m.base = 0 => e.accepted)
        <4>1. a.version > 0 /\ m.base = 0 => a.disposition = "accepted"
          BY <2>2
        <4>2. e.m = m /\ e.accepted = (a.disposition = "accepted")
          BY <2>4
        <4> QED
          BY <4>1, <4>2
      <3> QED
        BY <3>2, <3>3 DEF Sound
    <2>7. a.disposition = "accepted" => Published(r)'
      <3> SUFFICES ASSUME a.disposition = "accepted"
                   PROVE  Published(r)'
        OBVIOUS
      <3>1. a.version > 0
        BY <1>1, <2>2
      <3>2. Len(log) + 1 \in DOMAIN log' /\ log'[Len(log) + 1] = e
        BY <2>5, <2>6, <3>1, Appended DEF Sound
      <3>3. e.m.id.record = r /\ e.accepted
        BY <2>4
      <3>4. PICK n : n = Len(log) + 1
        OBVIOUS
      <3> QED
        BY <3>2, <3>3, <3>4 DEF Published, Accepted
    <2> QED
      BY <1>3, <2>3, <2>5, <2>6, <2>7 DEF Grows
  <1> QED
    BY <1>4, <1>5

----------------------------------------------------------------------------

(***************************************************************************)
(* Steps of the command that change nothing else but the log.              *)
(***************************************************************************)

RunSound == run' \in RunType /\ Len(run'.answers) <= Len(run'.claims)
Tables == <<local, queue, moving, edits, kills>>

LEMMA CloudStep ==
  ASSUME TransInv, Grows, history' = history, late' \subseteq Mutation,
         UNCHANGED Tables, RunSound, PlaceInv', BatchInv'
  PROVE  TransInv'
  <1>1. /\ log' \in Seq(Entry) /\ LogInv'
        /\ Len(log') \in Nat /\ Len(log) \in Nat /\ Len(log) <= Len(log')
        /\ \A i \in DOMAIN log : i \in DOMAIN log' /\ log'[i] = log[i]
        /\ \A r : Published(r) => Published(r)'
    BY GrowsIs DEF TransInv
  <1>2. TypeOK'
    BY <1>1 DEF TransInv, TypeOK, Tables, queue, moving, RunSound, RunType
  <1>3. QueueInv' /\ BackupInv'
    BY DEF TransInv, QueueInv, Present, BackupInv, Intended, Tables, queue, moving
  <1>4. CursorInv'
    <2>1. cursor.watermark \in Nat /\ CursorInv
      BY DEF TransInv, TypeOK
    <2> QED
      BY <1>1, <2>1 DEF CursorInv, Tables, moving
  <1>5. ActiveInv'
    BY DEF TransInv, ActiveInv, Active, Completed, Snapshot, Unseen, RepairPending, Tables, queue,
           moving
  <1>6. SeenInv'
    <2> SUFFICES ASSUME NEW r \in Snapshot', snapshot'[r].seen
                 PROVE  /\ local'[r] = [content |-> snapshot'[r].hash, version |-> 1]
                        /\ cursor'.exists
                        /\ cursor'.history = history' =>
                             \E i \in 1..cursor'.position : CreatedAs(log[i], r)'
      BY DEF SeenInv
    <2>1. r \in Snapshot /\ snapshot[r].seen /\ SeenInv
      BY DEF Snapshot, Tables, moving, TransInv
    <2>2. local' = local /\ cursor' = cursor /\ snapshot' = snapshot
      BY DEF Tables, moving
    <2>3. ASSUME cursor.history = history, NEW i \in 1..cursor.position, CreatedAs(log[i], r)
          PROVE  CreatedAs(log[i], r)'
      <3>1. i \in DOMAIN log
        <4>1. cursor.position \in Nat /\ cursor.watermark \in Nat /\ cursor.position <= cursor.watermark
          BY DEF TransInv, TypeOK
        <4>2. cursor.watermark <= Len(log)
          BY <2>3 DEF TransInv, CursorInv
        <4> QED
          BY <1>1, <2>3, <4>1, <4>2, LogFields DEF TransInv
      <3> QED
        BY <1>1, <2>2, <2>3, <3>1 DEF CreatedAs
    <2> QED
      BY <2>1, <2>2, <2>3 DEF SeenInv
  <1>7. RepairGoesFirst'
    BY <1>1 DEF TransInv, RepairGoesFirst, RepairPending, IsRepair, Tables, queue
  <1> QED
    BY <1>1, <1>2, <1>3, <1>4, <1>5, <1>6, <1>7 DEF TransInv

LEMMA AtIs ==
  ASSUME TypeOK, NEW pc \in Points, run' = At(pc)
  PROVE  /\ RunSound /\ run'.pc = pc /\ run'.command = run.command /\ run'.claims = run.claims
         /\ run'.answers = run.answers /\ run'.pulling = run.pulling
  <1>1. run \in RunType /\ Len(run.answers) <= Len(run.claims)
    BY RunFields
  <1>2. ASSUME NEW x \in RunType
        PROVE  /\ [x EXCEPT !.pc = pc] \in RunType /\ [x EXCEPT !.pc = pc].pc = pc
               /\ [x EXCEPT !.pc = pc].command = x.command /\ [x EXCEPT !.pc = pc].claims = x.claims
               /\ [x EXCEPT !.pc = pc].answers = x.answers /\ [x EXCEPT !.pc = pc].pulling = x.pulling
    BY DEF RunType
  <1> QED
    BY <1>1, <1>2 DEF At, RunSound

LEMMA IdleIs ==
  /\ Idle \in RunType /\ Idle.pc = "idle" /\ Idle.claims = << >> /\ Idle.answers = << >>
  /\ Len(Idle.answers) <= Len(Idle.claims)
  <1>1. << >> \in Seq(Mutation) /\ << >> \in Seq(Answer) /\ 0 \in 0..MaxHistory
    BY TransitionAssumption
  <1>2. ASSUME NEW claims \in Seq(Mutation), NEW answers \in Seq(Answer)
        PROVE  [command |-> "idle", pc |-> "idle", claims |-> claims, answers |-> answers,
                blocking |-> FALSE, pulling |-> 0] \in RunType
    BY <1>1 DEF RunType, Points
  <1>3. Idle \in RunType
    BY <1>1, <1>2 DEF Idle
  <1> QED
    BY <1>3 DEF Idle

\* A command is never between its places.
LEMMA OutsidePlaces ==
  ASSUME run' = Idle
  PROVE  PlaceInv' /\ BatchInv'
  BY IdleIs DEF PlaceInv, BatchInv, Batch

LEMMA StopStep ==
  ASSUME TransInv, run' = Idle, UNCHANGED <<cloud, Tables>>
  PROVE  TransInv'
  <1>1. Grows /\ history' = history /\ late' \subseteq Mutation /\ UNCHANGED Tables
    BY DEF Grows, cloud, TransInv, TypeOK
  <1>2. RunSound /\ PlaceInv' /\ BatchInv'
    BY IdleIs, OutsidePlaces DEF RunSound
  <1> QED
    BY <1>1, <1>2, CloudStep

\* The command moves on, outside of a push.
LEMMA MoveStep ==
  ASSUME TransInv, UNCHANGED <<cloud, Tables>>, NEW pc \in Points \ {"push", "apply"},
         run' = At(pc), PlaceInv'
  PROVE  TransInv'
  <1>1. Grows /\ history' = history /\ late' \subseteq Mutation /\ UNCHANGED Tables
    BY DEF Grows, cloud, TransInv, TypeOK
  <1>2. RunSound /\ run'.pc = pc
    BY AtIs DEF TransInv
  <1>3. BatchInv'
    BY <1>2 DEF BatchInv, Batch
  <1> QED
    BY <1>1, <1>2, <1>3, CloudStep

LEMMA StartStep ==
  ASSUME TransInv, NEW command \in Modes \cup {"sync"}, Start(command)
  PROVE  TransInv'
  <1>1. Grows /\ history' = history /\ late' \subseteq Mutation /\ UNCHANGED Tables
    BY DEF Grows, cloud, Tables, TransInv, TypeOK, Start
  <1>2. run' = [Idle EXCEPT !.command = command, !.pc = "open"]
    BY DEF Start
  <1>3. ASSUME NEW x \in RunType
        PROVE  LET y == [x EXCEPT !.command = command, !.pc = "open"]
               IN y \in RunType /\ y.claims = x.claims /\ y.answers = x.answers /\ y.pc = "open"
    BY DEF RunType, Points
  <1>4. RunSound /\ run'.pc = "open"
    BY <1>2, <1>3, IdleIs DEF RunSound
  <1>5. ~Completed
    BY DEF Start, Over
  <1>6. PlaceInv' /\ BatchInv'
    BY <1>1, <1>4, <1>5 DEF PlaceInv, BatchInv, Batch, Completed, Tables, moving
  <1> QED
    BY <1>1, <1>4, <1>6, CloudStep

LEMMA OpenStep ==
  ASSUME TransInv, OpenSync \/ OpenTransition \/ ProbeEmptyProject
  PROVE  TransInv'
  <1>1. UNCHANGED <<cloud, Tables>>
    BY DEF OpenSync, OpenTransition, ProbeEmptyProject, Tables
  <1>2. CASE run' = Idle
    BY <1>1, <1>2, StopStep
  <1>3. ASSUME NEW pc \in {"claim", "continue", "probe", "intent"}, run' = At(pc),
               pc = "continue" => transition.mode \in Modes,
               pc \in {"probe", "intent"} => transition.mode = "none" /\ run.command \in Modes,
               run # Idle
        PROVE  TransInv'
    <2>1. pc \in Points \ {"push", "apply"}
      BY DEF Points
    <2>2. run'.pc = pc /\ run'.command = run.command
      BY <1>3, <2>1, AtIs DEF TransInv
    <2>3. ~Completed
      BY <1>3 DEF TransInv, PlaceInv
    <2>4. pc = "continue" => Active
      <3>1. transition.mode = "none" <=> transition.status = "none"
        BY DEF TransInv, CursorInv
      <3>2. transition.status \in {"none", "pulling", "publishing", "completed"}
        BY DEF TransInv, TypeOK
      <3> QED
        BY <1>3, <2>3, <3>1, <3>2 DEF Active, Completed, Modes
    <2>5. PlaceInv'
      BY <1>1, <1>3, <2>2, <2>3, <2>4 DEF PlaceInv, Active, Completed, Intended, Tables, moving
    <2> QED
      BY <1>1, <1>3, <2>1, <2>5, MoveStep
  <1>4. run # Idle
    BY IdleIs DEF OpenSync, OpenTransition, ProbeEmptyProject, Idle, Modes
  <1>5. CASE OpenSync
    BY <1>2, <1>3, <1>4, <1>5 DEF OpenSync
  <1>6. CASE OpenTransition
    <2>1. \/ transition.mode = run.command /\ run' = At("continue")
          \/ transition.mode = "none" /\ \E pc \in {"probe", "intent"} : run' = At(pc)
          \/ run' = Idle
      BY <1>6 DEF OpenTransition
    <2> QED
      BY <1>2, <1>3, <1>4, <1>6, <2>1 DEF OpenTransition
  <1>7. CASE ProbeEmptyProject
    <2>1. transition.mode = "none" /\ run.command \in Modes
      BY <1>7 DEF ProbeEmptyProject, TransInv, PlaceInv
    <2> QED
      BY <1>2, <1>3, <1>4, <1>7, <2>1 DEF ProbeEmptyProject
  <1> QED
    BY <1>5, <1>6, <1>7

\* A backup that is reused, a refusal, and what a transition under way goes on with.
LEMMA ContinueStep ==
  ASSUME TransInv, ReuseBackup \/ RefuseToPrepare \/ Continue
  PROVE  TransInv'
  <1>1. UNCHANGED <<cloud, Tables>>
    BY DEF ReuseBackup, RefuseToPrepare, Continue, Tables
  <1>2. CASE run' = Idle
    BY <1>1, <1>2, StopStep
  <1>3. CASE RefuseToPrepare
    BY <1>2, <1>3 DEF RefuseToPrepare, Fail
  <1>4. ~Completed
    BY IdleIs DEF ReuseBackup, RefuseToPrepare, Continue, TransInv, PlaceInv
  <1>5. CASE ReuseBackup /\ run' # Idle
    <2>1. PICK pc \in {"prepare", "seal"} :
            run' = At(pc) /\ (pc = "prepare" => intent.sealed) /\ backup.state = "whole"
      BY <1>5 DEF ReuseBackup, Verified
    <2>2. pc \in Points \ {"push", "apply"}
      BY DEF Points
    <2>3. run'.pc = pc /\ run'.command = run.command
      BY <2>1, <2>2, AtIs DEF TransInv
    <2>4. transition.mode = "none" /\ run.command \in Modes /\ Intended
      BY <1>5 DEF ReuseBackup, TransInv, PlaceInv
    <2>5. PlaceInv'
      BY <1>1, <1>4, <2>1, <2>3, <2>4 DEF PlaceInv, Active, Completed, Intended, Tables, moving
    <2> QED
      BY <1>1, <2>1, <2>2, <2>5, MoveStep
  <1>6. CASE Continue
    <2>1. Active
      BY <1>6 DEF Continue, TransInv, PlaceInv
    <2>2. PICK pc \in {"discover", "finalize", "claim"} :
            run' = At(pc) /\ (pc = "discover" => transition.status = "pulling")
      BY <1>6, <2>1 DEF Continue, Active
    <2>3. pc \in Points \ {"push", "apply"}
      BY DEF Points
    <2>4. run'.pc = pc
      BY <2>2, <2>3, AtIs DEF TransInv
    <2>5. pc = "discover" => outbox = << >>
      BY <2>1, <2>2 DEF TransInv, ActiveInv
    <2>6. PlaceInv'
      BY <1>1, <1>4, <2>1, <2>4, <2>5 DEF PlaceInv, Active, Completed, Tables, moving, queue
    <2> QED
      BY <1>1, <2>2, <2>3, <2>6, MoveStep
  <1> QED
    BY <1>2, <1>3, <1>5, <1>6

LEMMA CheckStep ==
  ASSUME TransInv, CheckQueue
  PROVE  TransInv'
  <1>1. UNCHANGED <<cloud, Tables>>
    BY DEF CheckQueue, Tables
  <1>2. CASE run' = Idle
    BY <1>1, <1>2, StopStep
  <1>3. CASE run' # Idle
    <2>1. run' = At("discover") /\ "discover" \in Points \ {"push", "apply"}
      BY <1>3 DEF CheckQueue, Points
    <2>2. run'.pc = "discover"
      BY <2>1, AtIs DEF TransInv
    <2>3. ~Completed
      BY IdleIs DEF CheckQueue, TransInv, PlaceInv
    <2>4. PlaceInv'
      BY <1>1, <2>1, <2>2, <2>3 DEF PlaceInv, Completed, Tables, moving, queue
    <2> QED
      BY <1>1, <2>1, <2>4, MoveStep
  <1> QED
    BY <1>2, <1>3

\* Only a transition under way gets to pull: before it the cursor is that of
\* the history that is gone.
LEMMA DiscoverStep ==
  ASSUME TransInv, Discover
  PROVE  TransInv'
  <1>1. UNCHANGED <<cloud, Tables>>
    BY DEF Discover, Tables
  <1>2. CASE run' = Idle
    BY <1>1, <1>2, StopStep
  <1>3. CASE run' # Idle
    <2>1. /\ run' = [At("page") EXCEPT !.pulling = history]
          /\ cursor.exists => cursor.history = history
          /\ "page" \in Points
      BY <1>3 DEF Discover, Points
    <2>2. history \in 0..MaxHistory /\ history >= 1 /\ run \in RunType
            /\ Len(run.answers) <= Len(run.claims)
      BY RunFields DEF TransInv, TypeOK, CursorInv
    <2>3. ASSUME NEW x \in RunType, NEW h \in 0..MaxHistory
          PROVE  LET y == [[x EXCEPT !.pc = "page"] EXCEPT !.pulling = h]
                 IN /\ y \in RunType /\ y.claims = x.claims /\ y.answers = x.answers
                    /\ y.pc = "page" /\ y.pulling = h
      BY <2>1 DEF RunType
    <2>4. RunSound /\ run'.pc = "page" /\ run'.pulling = history
      BY <2>1, <2>2, <2>3 DEF RunSound, At
    <2>5. ~Completed
      BY IdleIs DEF Discover, TransInv, PlaceInv
    <2>6. Active
      <3>1. transition.mode = "none" => cursor.exists /\ cursor.history = 0
        BY DEF TransInv, CursorInv
      <3>2. transition.mode = "none" <=> transition.status = "none"
        BY DEF TransInv, CursorInv
      <3>3. transition.status \in {"none", "pulling", "publishing", "completed"}
        BY DEF TransInv, TypeOK
      <3> QED
        BY <2>1, <2>2, <2>5, <3>1, <3>2, <3>3 DEF Active, Completed
    <2>7. PlaceInv' /\ BatchInv'
      BY <1>1, <2>1, <2>4, <2>5, <2>6
         DEF PlaceInv, BatchInv, Batch, Active, Completed, Tables, moving, queue
    <2>8. Grows /\ history' = history /\ late' \subseteq Mutation /\ UNCHANGED Tables
      BY <1>1 DEF Grows, cloud, TransInv, TypeOK
    <2> QED
      BY <2>4, <2>7, <2>8, CloudStep
  <1> QED
    BY <1>2, <1>3

LEMMA ReceiveStep ==
  ASSUME TransInv, Receive
  PROVE  TransInv'
  <1>1. UNCHANGED <<cloud, Tables>> /\ run' = At("apply") /\ "apply" \in Points /\ run.pc = "push"
    BY DEF Receive, Tables, Points
  <1>2. RunSound /\ run'.pc = "apply" /\ run'.claims = run.claims /\ run'.answers = run.answers
    BY <1>1, AtIs DEF TransInv
  <1>3. Len(run.answers) = Len(run.claims)
    <2>1. Len(run.answers) \in Nat /\ Len(run.claims) \in Nat /\ Len(run.answers) <= Len(run.claims)
      BY RunFields DEF TransInv
    <2>2. \A i \in (Len(run.answers) + 1)..Len(run.claims) : run.claims[i] \in Unanswered
      BY DEF Unanswered
    <2>3. Unanswered = {}
      BY DEF Receive
    <2>4. Len(run.claims) \notin (Len(run.answers) + 1)..Len(run.claims)
      BY <2>2, <2>3
    <2> QED
      BY <2>1, <2>4
  <1>4. PlaceInv'
    <2>1. ~Completed
      BY <1>1, IdleIs DEF TransInv, PlaceInv
    <2> QED
      BY <1>1, <1>2, <2>1 DEF PlaceInv, Completed, Tables, moving
  <1>5. BatchInv'
    <2>1. BatchInv /\ Batch
      BY <1>1 DEF TransInv, Batch
    <2> QED
      BY <1>1, <1>2, <1>3, <2>1
         DEF BatchInv, Batch, Published, Accepted, Active, Unseen, Snapshot, cloud, Tables, queue, moving
  <1>6. Grows /\ history' = history /\ late' \subseteq Mutation /\ UNCHANGED Tables
    BY <1>1 DEF Grows, cloud, TransInv, TypeOK
  <1> QED
    BY <1>2, <1>4, <1>5, <1>6, CloudStep

----------------------------------------------------------------------------

(***************************************************************************)
(* The cloud.                                                              *)
(***************************************************************************)

\* A run that does not move keeps its claims and its place.
LEMMA StillThere ==
  ASSUME TransInv, Grows, history' = history, UNCHANGED <<Tables, run>>
  PROVE  RunSound /\ PlaceInv' /\ BatchInv'
  <1>1. RunSound
    BY RunFields DEF TransInv, RunSound
  <1>2. PlaceInv'
    BY DEF TransInv, PlaceInv, Active, Completed, Intended, Tables, moving, queue
  <1>3. \A r : Published(r) => Published(r)'
    BY GrowsIs DEF TransInv
  <1>4. BatchInv'
    BY <1>3 DEF TransInv, BatchInv, Batch, Active, Unseen, Snapshot, Tables, queue, moving
  <1> QED
    BY <1>1, <1>2, <1>4

LEMMA LateStep ==
  ASSUME TransInv, DecideLate
  PROVE  TransInv'
  <1>1. PICK m \in late : late' = late \ {m} /\ Decide(m)
    BY DEF DecideLate
  <1>2. late \subseteq Mutation /\ m \in Mutation
    BY <1>1 DEF TransInv, TypeOK
  <1>3. Grows
    BY <1>1, <1>2, DecideIs DEF TransInv
  <1>4. history' = history /\ late' \subseteq Mutation /\ UNCHANGED <<Tables, run>>
    BY <1>1, <1>2 DEF DecideLate, Tables
  <1> QED
    BY <1>3, <1>4, StillThere, CloudStep

LEMMA OtherStep ==
  ASSUME TransInv, OtherDevice
  PROVE  TransInv'
  <1>1. PICK r \in Records, content \in {Shared, Elsewhere} :
          log' = Append(log, [m |-> [id |-> [record |-> r, n |-> 0], base |-> Version(r), content |-> content],
                              own |-> FALSE, version |-> Version(r) + 1, accepted |-> TRUE])
    BY DEF OtherDevice
  <1>2. PICK version : version = Version(r)
    OBVIOUS
  <1>3. version \in Nat /\ version + 1 \in Nat /\ version + 1 # 0
    BY <1>2, VersionType DEF TransInv
  <1>4. PICK e : e = [m |-> [id |-> [record |-> r, n |-> 0], base |-> version, content |-> content],
                      own |-> FALSE, version |-> version + 1, accepted |-> TRUE]
    OBVIOUS
  <1>5. Sound(e)
    BY <1>3, <1>4 DEF Sound, Entry, Mutation, Id, Shared, Elsewhere
  <1>6. Grows
    BY <1>1, <1>2, <1>4, <1>5 DEF Grows
  <1>7. history' = history /\ late' \subseteq Mutation /\ UNCHANGED <<Tables, run>>
    BY DEF OtherDevice, Tables, TransInv, TypeOK
  <1> QED
    BY <1>6, <1>7, StillThere, CloudStep

\* A new history has nothing that a cursor, a repair or an answer speaks of.
LEMMA ResetStep ==
  ASSUME TransInv, ResetCloud
  PROVE  TransInv'
  <1>1. /\ history' = history + 1 /\ history < MaxHistory /\ history \in Nat /\ MaxHistory \in Nat
        /\ history >= 1 /\ log' = << >> /\ UNCHANGED <<late, Tables, run>>
    BY TransitionAssumption DEF ResetCloud, Tables, TransInv, TypeOK, CursorInv
  <1>2. TypeOK'
    <2>1. << >> \in Seq(Entry)
      OBVIOUS
    <2>2. history' \in 0..MaxHistory
      BY <1>1
    <2> QED
      BY <1>1, <2>1, <2>2 DEF TransInv, TypeOK, Tables, queue, moving
  <1>3. LogInv' /\ QueueInv' /\ BackupInv'
    BY <1>1 DEF TransInv, LogInv, QueueInv, Present, BackupInv, Intended, Tables, queue, moving
  <1>4. PlaceInv' /\ BatchInv'
    <2>1. history' # 1
      BY <1>1
    <2> QED
      BY <1>1, <2>1 DEF TransInv, PlaceInv, BatchInv, Batch, Active, Completed, Intended, Unseen,
                        Snapshot, Tables, queue, moving
  <1>5. cursor'.history # history' /\ cursor'.history <= history'
    <2>1. cursor.history \in Nat /\ cursor.history <= history
      BY DEF TransInv, TypeOK, CursorInv
    <2> QED
      BY <1>1, <2>1 DEF Tables, moving
  <1>6. CursorInv'
    BY <1>1, <1>5 DEF TransInv, CursorInv, Tables, moving
  <1>7. ActiveInv'
    BY <1>1 DEF TransInv, ActiveInv, Active, Completed, Snapshot, Unseen, RepairPending, Tables,
                queue, moving
  <1>8. SeenInv'
    BY <1>1, <1>5 DEF TransInv, SeenInv, Snapshot, Tables, moving
  <1>9. RepairGoesFirst'
    <2>1. history' # 1
      BY <1>1
    <2> QED
      BY <1>1, <2>1 DEF TransInv, RepairGoesFirst, RepairPending, IsRepair, Tables, queue
  <1> QED
    BY <1>2, <1>3, <1>4, <1>6, <1>7, <1>8, <1>9 DEF TransInv

LEMMA PushStep ==
  ASSUME TransInv, Push
  PROVE  TransInv'
  <1>1. PICK n : n = Len(run.answers) + 1
    OBVIOUS
  <1>2. PICK m : m = run.claims[n]
    OBVIOUS
  <1>3. /\ run \in RunType /\ run.claims \in Seq(Mutation) /\ run.answers \in Seq(Answer)
        /\ Len(run.claims) \in Nat /\ Len(run.answers) \in Nat
        /\ DOMAIN run.claims = 1..Len(run.claims) /\ DOMAIN run.answers = 1..Len(run.answers)
    BY RunFields DEF TransInv
  <1>4. n \in DOMAIN run.claims
    <2>1. PICK i \in (Len(run.answers) + 1)..Len(run.claims) : TRUE
      BY DEF Push, Unanswered
    <2> QED
      BY <1>1, <1>3, <2>1
  <1>5. m \in Mutation
    BY <1>2, <1>3, <1>4
  <1>6. Decide(m)
    BY <1>1, <1>2 DEF Push
  <1>7. PICK a : a = AnswerTo(m)
    OBVIOUS
  <1>8. a \in Answer /\ Grows /\ (a.disposition = "accepted" => Published(m.id.record)')
    BY <1>5, <1>6, <1>7, DecideIs DEF TransInv
  <1>9. run' = [run EXCEPT !.answers = Append(run.answers, a)]
    BY <1>1, <1>2, <1>7 DEF Push
  <1>10. PICK answers : answers = Append(run.answers, a)
    OBVIOUS
  <1>11. /\ answers \in Seq(Answer) /\ Len(answers) = n /\ DOMAIN answers = 1..n
         /\ \A k \in DOMAIN answers : k \in DOMAIN run.answers \/ k = n
         /\ \A k \in DOMAIN run.answers : answers[k] = run.answers[k]
         /\ answers[n] = a
    BY <1>1, <1>3, <1>8, <1>10
  <1>12. ASSUME NEW x \in RunType
         PROVE  LET y == [x EXCEPT !.answers = answers]
                IN y \in RunType /\ y.claims = x.claims /\ y.answers = answers /\ y.pc = x.pc
                     /\ y.pulling = x.pulling /\ y.command = x.command
    BY <1>11 DEF RunType
  <1>13. /\ run' \in RunType /\ run'.claims = run.claims /\ run'.answers = answers
         /\ run'.pc = "push" /\ run.pc = "push"
    BY <1>3, <1>9, <1>10, <1>12 DEF Push
  <1>14. RunSound
    BY <1>3, <1>4, <1>11, <1>13 DEF RunSound
  <1>15. history' = history /\ late' \subseteq Mutation /\ UNCHANGED Tables
    BY DEF Push, Tables, TransInv, TypeOK
  <1>16. PlaceInv'
    <2>1. ~Completed
      BY <1>13, IdleIs DEF TransInv, PlaceInv
    <2> QED
      BY <1>13, <1>15, <2>1 DEF PlaceInv, Completed, Tables, moving
  <1>17. BatchInv'
    <2>1. BatchInv /\ Batch
      BY <1>13 DEF TransInv, Batch
    <2>2. \A r : Published(r) => Published(r)'
      BY <1>8, GrowsIs DEF TransInv
    <2>3. ASSUME history' = 1, NEW k \in DOMAIN answers, answers[k].disposition = "accepted",
                 NEW r, r = run.claims[k].id.record
          PROVE  Published(r)'
      <3>1. CASE k = n
        <4>1. a.disposition = "accepted" /\ r = m.id.record
          BY <1>2, <1>11, <2>3, <3>1
        <4> QED
          BY <1>8, <4>1
      <3>2. CASE k \in DOMAIN run.answers
        <4>1. Published(r)
          BY <1>11, <1>15, <2>1, <2>3, <3>2 DEF BatchInv
        <4> QED
          BY <2>2, <4>1
      <3> QED
        BY <1>11, <2>3, <3>1, <3>2
    <2>4. outbox' = outbox
      BY <1>15 DEF Tables, queue
    <2>5. history' = 1 => \A k \in DOMAIN run'.answers :
                            run'.answers[k].disposition = "accepted" => Published(run.claims[k].id.record)'
      BY <1>13, <2>3 DEF Published, Accepted
    <2>6. /\ run'.claims # << >>
          /\ \A k \in DOMAIN run'.claims :
               \E i \in DOMAIN outbox' : outbox'[i].m = run'.claims[k] /\ outbox'[i].claim = "held"
          /\ \A j, k \in DOMAIN run'.claims : run'.claims[j].id.record = run'.claims[k].id.record => j = k
          /\ Active' => \A k \in DOMAIN run'.claims : run'.claims[k].id.record \in Unseen'
          /\ run'.pc # "apply"
      BY <1>13, <1>15, <2>1, <2>4 DEF BatchInv, Active, Unseen, Snapshot, Tables, moving
    <2> QED
      BY <2>5, <2>6 DEF BatchInv
  <1> QED
    BY <1>8, <1>14, <1>15, <1>16, <1>17, CloudStep

----------------------------------------------------------------------------

(***************************************************************************)
(* Claims.                                                                 *)
(***************************************************************************)

Settings == <<history, log, local, receipts, issued, repair, moving>>

SameRows ==
  /\ outbox' \in Seq(Row) /\ DOMAIN outbox' = DOMAIN outbox
  /\ \A i \in DOMAIN outbox : outbox'[i].m = outbox[i].m
  /\ RepairPending => \A i \in DOMAIN outbox :
                        outbox'[i].claim = "held" => outbox[i].claim = "held" \/ IsRepair(outbox[i].m)

LEMMA SameRowsStep ==
  ASSUME TransInv, SameRows, UNCHANGED Settings, late' \subseteq Mutation,
         edits' \in 0..MaxEdits, kills' \in 0..MaxKills, RunSound, PlaceInv', BatchInv'
  PROVE  TransInv'
  <1>1. /\ history' = history /\ log' = log /\ local' = local /\ receipts' = receipts
        /\ issued' = issued /\ repair' = repair /\ cursor' = cursor /\ intent' = intent
        /\ backup' = backup /\ transition' = transition /\ snapshot' = snapshot
    BY DEF Settings, moving
  <1>2. TypeOK'
    <2>1. \A i, j \in DOMAIN outbox' : outbox'[i].m.id = outbox'[j].m.id => i = j
      BY OutboxFields DEF SameRows, TransInv
    <2> QED
      BY <1>1, <2>1 DEF SameRows, RunSound, RunType, TransInv, TypeOK
  <1>3. LogInv' /\ CursorInv' /\ SeenInv'
    BY <1>1 DEF TransInv, LogInv, CursorInv, SeenInv, Snapshot, CreatedAs
  <1>4. QueueInv' /\ BackupInv'
    BY <1>1 DEF SameRows, TransInv, QueueInv, Present, BackupInv, Intended
  <1>5. ActiveInv'
    <2>1. outbox = << >> => outbox' = << >>
      BY DEF SameRows
    <2> QED
      BY <1>1, <2>1 DEF SameRows, TransInv, ActiveInv, Active, Completed, Snapshot, Unseen,
                        RepairPending
  <1>6. RepairGoesFirst'
    BY <1>1 DEF SameRows, TransInv, RepairGoesFirst, RepairPending, IsRepair, Published, Accepted
  <1> QED
    BY <1>2, <1>3, <1>4, <1>5, <1>6 DEF TransInv

\* A row keeps its mutation whatever becomes of its claim.
LEMMA Reclaimed ==
  ASSUME NEW row \in Row, NEW claim \in {"never", "held", "expired", "waiting", "retry"}
  PROVE  /\ [row EXCEPT !.claim = claim] \in Row /\ [row EXCEPT !.claim = claim].m = row.m
         /\ [row EXCEPT !.claim = claim].claim = claim
  BY DEF Row

LEMMA PassesStep ==
  ASSUME TransInv, NEW old \in {"held", "waiting"}, NEW new \in {"expired", "retry"},
         Passes(old, new)
  PROVE  TransInv'
  <1> DEFINE F(row) == IF row.claim = old THEN [row EXCEPT !.claim = new] ELSE row
  <1>1. \A row \in Row : F(row) \in Row /\ F(row).m = row.m
                          /\ (F(row).claim = "held" => row.claim = "held")
    <2> SUFFICES ASSUME NEW row \in Row
                 PROVE  F(row) \in Row /\ F(row).m = row.m
                        /\ (F(row).claim = "held" => row.claim = "held")
      OBVIOUS
    <2>1. new \in {"never", "held", "expired", "waiting", "retry"} /\ new # "held"
      OBVIOUS
    <2>2. /\ [row EXCEPT !.claim = new] \in Row /\ [row EXCEPT !.claim = new].m = row.m
          /\ [row EXCEPT !.claim = new].claim = new
      BY <2>1, Reclaimed
    <2> QED
      BY <2>1, <2>2
  <1>2. outbox' = [i \in DOMAIN outbox |-> F(outbox[i])]
    BY DEF Passes
  <1> HIDE DEF F
  <1>3. /\ outbox \in Seq(Row) /\ Len(outbox) \in Nat /\ DOMAIN outbox = 1..Len(outbox)
        /\ \A i \in DOMAIN outbox : outbox[i] \in Row
    BY OutboxFields DEF TransInv
  <1>4. outbox' \in [1..Len(outbox) -> Row]
    BY <1>1, <1>2, <1>3
  <1>5. SameRows
    BY <1>1, <1>2, <1>3, <1>4 DEF SameRows
  <1>6. /\ UNCHANGED Settings /\ late' \subseteq Mutation /\ edits' \in 0..MaxEdits
        /\ kills' \in 0..MaxKills /\ run' = run /\ ~Batch'
    BY DEF Passes, Batch, Settings, cloud, moving, TransInv, TypeOK
  <1>7. RunSound /\ BatchInv'
    BY <1>6 DEF RunSound, RunType, BatchInv, TransInv, TypeOK
  <1>8. PlaceInv'
    BY <1>6 DEF TransInv, PlaceInv, Settings, moving, Idle, Intended, Active, Completed
  <1> QED
    BY <1>5, <1>6, <1>7, <1>8, SameRowsStep

LEMMA RetriedIs ==
  ASSUME TransInv, NEW ms, outbox' = Retried(ms)
  PROVE  SameRows
  <1>1. /\ outbox \in Seq(Row) /\ Len(outbox) \in Nat /\ DOMAIN outbox = 1..Len(outbox)
        /\ \A i \in DOMAIN outbox : outbox[i] \in Row
    BY OutboxFields DEF TransInv
  <1> DEFINE F(row) == IF row.m \in ms THEN [row EXCEPT !.claim = "waiting"] ELSE row
  <1>2. outbox' = [i \in DOMAIN outbox |-> F(outbox[i])]
    BY DEF Retried
  <1>3. \A row \in Row : F(row) \in Row /\ F(row).m = row.m /\ (F(row).claim = "held" => row.claim = "held")
    BY Reclaimed
  <1> HIDE DEF F
  <1>4. outbox' \in [1..Len(outbox) -> Row]
    BY <1>1, <1>2, <1>3
  <1> QED
    BY <1>1, <1>2, <1>3, <1>4 DEF SameRows

LEMMA GiveUpStep ==
  ASSUME TransInv, GiveUp
  PROVE  TransInv'
  <1>1. SameRows
    BY RetriedIs DEF GiveUp
  <1>2. /\ UNCHANGED Settings /\ late' \subseteq Mutation /\ edits' \in 0..MaxEdits
        /\ kills' \in 0..MaxKills /\ run' = Idle
    BY DEF GiveUp, Fail, Settings, cloud, moving, TransInv, TypeOK
  <1>3. RunSound /\ PlaceInv' /\ BatchInv'
    BY <1>2, IdleIs, OutsidePlaces DEF RunSound
  <1> QED
    BY <1>1, <1>2, <1>3, SameRowsStep

LEMMA AbandonStep ==
  ASSUME TransInv, Abandon
  PROVE  TransInv'
  <1>1. SameRows
    <2>1. CASE outbox' = outbox
      BY <2>1, OutboxFields DEF SameRows, TransInv
    <2>2. CASE outbox' = Retried(ToSet(run.claims))
      BY <2>2, RetriedIs
    <2> QED
      BY <2>1, <2>2 DEF Abandon
  <1>2. late' \subseteq Mutation
    <2>1. Unanswered \subseteq Mutation
      <3>1. run.claims \in Seq(Mutation) /\ Len(run.claims) \in Nat /\ Len(run.answers) \in Nat
        BY RunFields DEF TransInv
      <3>2. \A i \in (Len(run.answers) + 1)..Len(run.claims) : i \in 1..Len(run.claims)
        BY <3>1
      <3>3. \A i \in 1..Len(run.claims) : run.claims[i] \in Mutation
        BY <3>1
      <3> QED
        BY <3>2, <3>3 DEF Unanswered
    <2> QED
      BY <2>1 DEF Abandon, TransInv, TypeOK
  <1>3. UNCHANGED Settings /\ edits' \in 0..MaxEdits /\ run' = Idle
    BY DEF Abandon, Fail, Settings, moving, TransInv, TypeOK
  <1>4. kills' \in 0..MaxKills
    <2>1. kills' = kills + 1 /\ kills < MaxKills /\ kills \in 0..MaxKills /\ MaxKills \in Nat
      BY TransitionAssumption DEF Abandon, TransInv, TypeOK
    <2> QED
      BY <2>1
  <1>5. RunSound /\ PlaceInv' /\ BatchInv'
    BY <1>3, IdleIs, OutsidePlaces DEF RunSound
  <1> QED
    BY <1>1, <1>2, <1>3, <1>4, <1>5, SameRowsStep

\* Of a record one row is claimed at a time.
LEMMA ClaimableOnce ==
  ASSUME TransInv, NEW i \in DOMAIN outbox, NEW j \in DOMAIN outbox, Claimable(i), Claimable(j),
         outbox[i].m.id.record = outbox[j].m.id.record
  PROVE  i = j
  <1>1. CASE RepairPending
    <2>1. IsRepair(outbox[i].m) /\ IsRepair(outbox[j].m)
      BY <1>1 DEF Claimable
    <2>2. outbox[i].m.id = outbox[j].m.id
      BY <2>1 DEF IsRepair
    <2> QED
      BY <2>2, OutboxFields DEF TransInv
  <1>2. CASE ~RepairPending
    BY <1>2 DEF Claimable, IsRepair
  <1> QED
    BY <1>1, <1>2

LEMMA FirstClaimsIs ==
  ASSUME TransInv
  PROVE  /\ FirstClaims \in Seq(DOMAIN outbox)
         /\ \A k \in DOMAIN FirstClaims : FirstClaims[k] \in DOMAIN outbox /\ Claimable(FirstClaims[k])
         /\ \A j, k \in DOMAIN FirstClaims : FirstClaims[j] = FirstClaims[k] => j = k
  <1>1. PICK places : places = {i \in DOMAIN outbox : Claimable(i)}
    OBVIOUS
  <1>2. PICK key : key = [i \in DOMAIN outbox |-> i]
    OBVIOUS
  <1>3. PICK due : due = Sorted(places, key)
    OBVIOUS
  <1>4. PICK n : n = IF Len(due) < BatchSize THEN Len(due) ELSE BatchSize
    OBVIOUS
  <1>5. FirstClaims = SubSeq(due, 1, n)
    BY <1>1, <1>2, <1>3, <1>4 DEF FirstClaims
  <1>6. /\ Len(outbox) \in Nat /\ DOMAIN outbox = 1..Len(outbox)
        /\ places \subseteq DOMAIN outbox /\ \A i \in places : Claimable(i)
    BY <1>1, OutboxFields DEF TransInv
  <1>7. IsFiniteSet(places)
    <2>1. IsFiniteSet(1..Len(outbox))
      BY <1>6, FS_Interval
    <2> QED
      BY <1>6, <2>1, FS_Subset
  <1>8. /\ \A x \in places : key[x] \in Nat
        /\ \A x, y \in places : key[x] = key[y] => x = y
    BY <1>2, <1>6
  <1>9. /\ due \in Seq(places)
        /\ \A i, j \in DOMAIN due : due[i] = due[j] => i = j
    BY <1>3, <1>7, <1>8, SortedIs
  <1>10. n \in Nat /\ n <= Len(due) /\ Len(due) \in Nat
    BY <1>4, <1>9, TransitionAssumption
  <1>11. /\ SubSeq(due, 1, n) \in Seq(places) /\ DOMAIN SubSeq(due, 1, n) = 1..n
         /\ \A k \in 1..n : SubSeq(due, 1, n)[k] = due[k] /\ k \in DOMAIN due /\ due[k] \in places
    BY <1>9, <1>10
  <1> QED
    BY <1>5, <1>6, <1>9, <1>11

LEMMA ClaimStep ==
  ASSUME TransInv, ClaimDueSyncOutbox
  PROVE  TransInv'
  <1>1. PICK claims : claims = FirstClaims
    OBVIOUS
  <1>2. PICK taken : taken = ToSet(claims)
    OBVIOUS
  <1>3. UNCHANGED <<cloud, local, receipts, issued, repair, moving, edits, kills>> /\ run.pc = "claim"
    BY DEF ClaimDueSyncOutbox
  <1>4. /\ outbox \in Seq(Row) /\ Len(outbox) \in Nat /\ DOMAIN outbox = 1..Len(outbox)
        /\ \A i \in DOMAIN outbox : outbox[i] \in Row /\ outbox[i].m \in Mutation
        /\ \A i, j \in DOMAIN outbox : outbox[i].m.id = outbox[j].m.id => i = j
    BY OutboxFields DEF TransInv
  <1>5. /\ claims \in Seq(DOMAIN outbox)
        /\ \A k \in DOMAIN claims : claims[k] \in DOMAIN outbox /\ Claimable(claims[k])
        /\ \A j, k \in DOMAIN claims : claims[j] = claims[k] => j = k
    BY <1>1, FirstClaimsIs
  <1>6. \A i : i \in taken <=> \E k \in DOMAIN claims : i = claims[k]
    BY <1>2 DEF ToSet
  <1>7. ~Completed
    BY <1>3, IdleIs DEF TransInv, PlaceInv
  <1>8. CASE run' = Idle /\ outbox' = outbox
    BY <1>3, <1>8, StopStep DEF Tables, queue
  <1> DEFINE F(i) == IF i \in taken THEN [outbox[i] EXCEPT !.claim = "held"] ELSE outbox[i]
  <1>9. PICK ms : ms = [k \in DOMAIN claims |-> outbox[claims[k]].m]
    OBVIOUS
  <1>10. CASE /\ outbox' = [i \in DOMAIN outbox |-> F(i)]
              /\ run' = [At(IF claims = << >> THEN "check" ELSE "push") EXCEPT
                           !.claims = ms, !.answers = << >>, !.blocking = FALSE]
    <2>1. ASSUME NEW i \in DOMAIN outbox
          PROVE  /\ F(i) \in Row /\ F(i).m = outbox[i].m /\ (i \in taken => F(i).claim = "held")
                 /\ i \notin taken => F(i) = outbox[i]
      BY <1>4, <2>1, Reclaimed
    <2> HIDE DEF F
    <2>2. outbox' \in [1..Len(outbox) -> Row]
      BY <1>4, <1>10, <2>1
    <2>3. SameRows
      <3>1. RepairPending => \A i \in DOMAIN outbox :
               outbox'[i].claim = "held" => outbox[i].claim = "held" \/ IsRepair(outbox[i].m)
        <4> SUFFICES ASSUME RepairPending, NEW i \in DOMAIN outbox, outbox'[i].claim = "held"
                     PROVE  outbox[i].claim = "held" \/ IsRepair(outbox[i].m)
          OBVIOUS
        <4>1. CASE i \in taken
          <5>1. Claimable(i)
            BY <1>5, <1>6, <4>1
          <5> QED
            BY <5>1 DEF Claimable
        <4>2. CASE i \notin taken
          BY <1>10, <2>1, <4>2
        <4> QED
          BY <4>1, <4>2
      <3>2. outbox' \in Seq(Row) /\ DOMAIN outbox' = DOMAIN outbox
        BY <1>4, <2>2
      <3> QED
        BY <1>10, <2>1, <3>1, <3>2 DEF SameRows
    <2>4. /\ ms \in Seq(Mutation) /\ DOMAIN ms = DOMAIN claims
          /\ \A k \in DOMAIN claims : ms[k] = outbox[claims[k]].m
      BY <1>4, <1>5, <1>9
    <2>5. PICK pc : pc = IF claims = << >> THEN "check" ELSE "push"
      OBVIOUS
    <2>6. run \in RunType /\ pc \in Points
      BY <2>5, RunFields DEF TransInv, Points
    <2>7. << >> \in Seq(Answer) /\ Len(<< >>) = 0
      OBVIOUS
    <2>8. ASSUME NEW x \in RunType, NEW as \in Seq(Answer)
          PROVE  LET y == [[x EXCEPT !.pc = pc] EXCEPT !.claims = ms, !.answers = as, !.blocking = FALSE]
                 IN y \in RunType /\ y.claims = ms /\ y.answers = as /\ y.pc = pc
      BY <2>4, <2>6 DEF RunType
    <2>9. run' \in RunType /\ run'.claims = ms /\ run'.answers = << >> /\ run'.pc = pc
      <3>1. PICK as \in Seq(Answer) : as = << >>
        BY <2>7
      <3>2. run' = [[run EXCEPT !.pc = pc] EXCEPT !.claims = ms, !.answers = as, !.blocking = FALSE]
        BY <1>10, <2>5, <3>1 DEF At
      <3>3. run' \in RunType /\ run'.claims = ms /\ run'.answers = as /\ run'.pc = pc
        BY <2>6, <2>8, <3>2
      <3> QED
        BY <3>1, <3>3
    <2>10. RunSound
      BY <2>4, <2>7, <2>9 DEF RunSound
    <2>11. PlaceInv'
      BY <1>3, <1>7, <2>5, <2>9 DEF PlaceInv, Completed, moving
    <2>12. BatchInv'
      <3> SUFFICES ASSUME pc = "push"
                   PROVE  /\ run'.claims # << >>
                          /\ \A k \in DOMAIN run'.claims :
                               \E i \in DOMAIN outbox' :
                                  outbox'[i].m = run'.claims[k] /\ outbox'[i].claim = "held"
                          /\ \A j, k \in DOMAIN run'.claims :
                               run'.claims[j].id.record = run'.claims[k].id.record => j = k
                          /\ Active => \A k \in DOMAIN run'.claims :
                                          run'.claims[k].id.record \in Unseen
        BY <1>3, <2>5, <2>7, <2>9 DEF BatchInv, Batch, Active, Unseen, Snapshot, moving
      <3>1. ms # << >>
        <4>1. claims # << >>
          BY <2>5
        <4>2. DOMAIN claims # {}
          BY <1>5, <4>1
        <4> QED
          BY <2>4, <4>2
      <3>2. ASSUME NEW k \in DOMAIN claims
            PROVE  \E i \in DOMAIN outbox' : outbox'[i].m = ms[k] /\ outbox'[i].claim = "held"
        <4>1. claims[k] \in DOMAIN outbox /\ claims[k] \in taken
          BY <1>5, <1>6, <3>2
        <4>2. outbox'[claims[k]] = F(claims[k]) /\ claims[k] \in DOMAIN outbox'
          BY <1>10, <4>1
        <4> QED
          BY <2>1, <2>4, <3>2, <4>1, <4>2
      <3>3. ASSUME NEW j \in DOMAIN claims, NEW k \in DOMAIN claims,
                   ms[j].id.record = ms[k].id.record
            PROVE  j = k
        <4>1. claims[j] = claims[k]
          BY <1>5, <2>4, <3>3, ClaimableOnce
        <4> QED
          BY <1>5, <3>3, <4>1
      <3>4. ASSUME Active, NEW k \in DOMAIN claims
            PROVE  ms[k].id.record \in Unseen
        <4>1. PICK i \in DOMAIN outbox : i = claims[k] /\ Claimable(i)
          BY <1>5, <3>4
        <4>2. PICK r : r = outbox[i].m.id.record
          OBVIOUS
        <4>3. outbox[i].m.base = 0 /\ r \in Snapshot /\ ~RepairPending
          BY <3>4, <4>1, <4>2 DEF TransInv, ActiveInv
        <4>4. local[r].version = 0
          BY <4>1, <4>2, <4>3 DEF Claimable, IsRepair
        <4>5. ~snapshot[r].seen
          <5>1. snapshot[r].seen => local[r] = [content |-> snapshot[r].hash, version |-> 1]
            BY <4>3 DEF TransInv, SeenInv
          <5>2. [content |-> snapshot[r].hash, version |-> 1].version = 1
            OBVIOUS
          <5> QED
            BY <4>4, <5>1, <5>2
        <4> QED
          BY <2>4, <3>4, <4>1, <4>2, <4>3, <4>5 DEF Unseen
      <3> QED
        BY <2>4, <2>9, <3>1, <3>2, <3>3, <3>4
    <2>13. /\ UNCHANGED Settings /\ late' \subseteq Mutation /\ edits' \in 0..MaxEdits
           /\ kills' \in 0..MaxKills
      BY <1>3 DEF cloud, Settings, moving, TransInv, TypeOK
    <2> QED
      BY <2>3, <2>10, <2>11, <2>12, <2>13, SameRowsStep
  <1> QED
    BY <1>1, <1>2, <1>8, <1>9, <1>10 DEF ClaimDueSyncOutbox, Fail

----------------------------------------------------------------------------

(***************************************************************************)
(* What is queued.                                                         *)
(***************************************************************************)

LEMMA NewRowIs ==
  ASSUME TypeOK, NEW r \in Records, NEW base \in Nat, NEW content \in 0..Elsewhere, content # 0
  PROVE  /\ NewRow(r, base, content) \in Row
         /\ NewRow(r, base, content).m.id = [record |-> r, n |-> issued[r] + 1]
         /\ NewRow(r, base, content).m.id.record = r
         /\ NewRow(r, base, content).m.id.n = issued[r] + 1
         /\ NewRow(r, base, content).m.base = base
         /\ NewRow(r, base, content).m.content = content
         /\ NewRow(r, base, content).claim = "never"
  <1>1. issued[r] + 1 \in Nat /\ content \in Shared..Elsewhere
    BY LocalFields DEF Shared, Elsewhere
  <1> QED
    BY <1>1 DEF NewRow, Row, Mutation, Id

LEMMA CreatesIs ==
  ASSUME TypeOK, NEW S \in SUBSET Records, \A r \in S : Present(r), NEW rs \in Seq(S)
  PROVE  /\ Creates(rs) \in Seq(Row) /\ DOMAIN Creates(rs) = DOMAIN rs /\ Len(Creates(rs)) = Len(rs)
         /\ \A k \in DOMAIN rs :
              /\ rs[k] \in S
              /\ Creates(rs)[k].m.id = [record |-> rs[k], n |-> issued[rs[k]] + 1]
              /\ Creates(rs)[k].m.id.record = rs[k]
              /\ Creates(rs)[k].m.id.n = issued[rs[k]] + 1
              /\ Creates(rs)[k].m.base = 0
              /\ Creates(rs)[k].m.content = local[rs[k]].content
              /\ Creates(rs)[k].claim = "never"
  <1>1. Len(rs) \in Nat /\ DOMAIN rs = 1..Len(rs) /\ \A k \in DOMAIN rs : rs[k] \in S
    OBVIOUS
  <1>2. ASSUME NEW k \in DOMAIN rs
        PROVE  /\ NewRow(rs[k], 0, local[rs[k]].content) \in Row
               /\ NewRow(rs[k], 0, local[rs[k]].content).m.id = [record |-> rs[k], n |-> issued[rs[k]] + 1]
               /\ NewRow(rs[k], 0, local[rs[k]].content).m.id.record = rs[k]
               /\ NewRow(rs[k], 0, local[rs[k]].content).m.id.n = issued[rs[k]] + 1
               /\ NewRow(rs[k], 0, local[rs[k]].content).m.base = 0
               /\ NewRow(rs[k], 0, local[rs[k]].content).m.content = local[rs[k]].content
               /\ NewRow(rs[k], 0, local[rs[k]].content).claim = "never"
    <2>1. rs[k] \in Records /\ local[rs[k]].content # 0 /\ 0 \in Nat
            /\ local[rs[k]].content \in 0..Elsewhere
      BY <1>1, LocalFields DEF Present
    <2> QED
      BY <2>1, NewRowIs
  <1>3. Creates(rs) = [k \in 1..Len(rs) |-> NewRow(rs[k], 0, local[rs[k]].content)]
    BY <1>1 DEF Creates
  <1>4. Creates(rs) \in [1..Len(rs) -> Row]
    BY <1>1, <1>2, <1>3
  <1> QED
    BY <1>1, <1>2, <1>3, <1>4

\* Rows that keep their identifiers and bases, and new ones behind them.
LEMMA AddedRows ==
  ASSUME TransInv, NEW q \in Seq(Row), NEW a \in Seq(Row), outbox' = q \o a,
         DOMAIN q = DOMAIN outbox,
         \A i \in DOMAIN outbox :
           /\ q[i].m.id = outbox[i].m.id /\ q[i].m.base = outbox[i].m.base
           /\ q[i].claim = outbox[i].claim
           /\ outbox[i].claim = "held" => q[i] = outbox[i],
         \A k \in DOMAIN a :
           a[k].claim = "never" /\ \A i \in DOMAIN outbox : outbox[i].m.id # a[k].m.id,
         \A j, k \in DOMAIN a : a[j].m.id = a[k].m.id => j = k
  PROVE  /\ outbox' \in Seq(Row)
         /\ \A i, j \in DOMAIN outbox' : outbox'[i].m.id = outbox'[j].m.id => i = j
         /\ \A i \in DOMAIN outbox' :
              \/ i \in DOMAIN outbox /\ outbox'[i] = q[i]
              \/ \E k \in DOMAIN a : outbox'[i] = a[k]
         /\ \A i \in DOMAIN outbox' :
              outbox'[i].claim = "held" => i \in DOMAIN outbox /\ outbox'[i] = outbox[i]
         /\ \A i \in DOMAIN outbox :
              outbox[i].claim = "held" => i \in DOMAIN outbox' /\ outbox'[i] = outbox[i]
  <1>1. /\ Len(outbox) \in Nat /\ DOMAIN outbox = 1..Len(outbox)
        /\ \A i, j \in DOMAIN outbox : outbox[i].m.id = outbox[j].m.id => i = j
    BY OutboxFields DEF TransInv
  <1>2. PICK n : n = Len(outbox)
    OBVIOUS
  <1>3. Len(q) = n /\ Len(a) \in Nat /\ DOMAIN a = 1..Len(a) /\ DOMAIN q = 1..n /\ n \in Nat
    <2>1. Len(q) \in Nat /\ DOMAIN q = 1..Len(q)
      OBVIOUS
    <2>2. 1..Len(q) = 1..n
      BY <1>1, <1>2, <2>1
    <2> QED
      BY <1>1, <1>2, <2>1, <2>2
  <1>4. PICK m : m = Len(a)
    OBVIOUS
  <1>5. /\ outbox' \in Seq(Row) /\ Len(outbox') = n + m /\ DOMAIN outbox' = 1..(n + m)
        /\ \A i \in 1..(n + m) : outbox'[i] = IF i <= n THEN q[i] ELSE a[i - n]
    <2>1. /\ q \o a \in Seq(Row) /\ Len(q \o a) = Len(q) + Len(a)
          /\ \A i \in 1..Len(q) + Len(a) :
               (q \o a)[i] = IF i <= Len(q) THEN q[i] ELSE a[i - Len(q)]
      BY ConcatProperties
    <2>2. DOMAIN (q \o a) = 1..(n + m)
      BY <1>3, <1>4, <2>1
    <2> QED
      BY <1>3, <1>4, <2>1, <2>2
  <1>6. ASSUME NEW i \in DOMAIN outbox'
        PROVE  \/ i \in DOMAIN outbox /\ outbox'[i] = q[i]
               \/ i - n \in DOMAIN a /\ outbox'[i] = a[i - n]
    BY <1>1, <1>2, <1>3, <1>4, <1>5, <1>6
  <1>7. ASSUME NEW i \in DOMAIN outbox', NEW j \in DOMAIN outbox',
               outbox'[i].m.id = outbox'[j].m.id
        PROVE  i = j
    <2>1. CASE i \in DOMAIN outbox /\ outbox'[i] = q[i]
      <3>1. ASSUME j - n \in DOMAIN a, outbox'[j] = a[j - n]
            PROVE  FALSE
        <4>1. a[j - n].m.id = outbox[i].m.id
          BY <1>7, <2>1, <3>1
        <4> QED
          BY <2>1, <3>1, <4>1
      <3>2. CASE j \in DOMAIN outbox /\ outbox'[j] = q[j]
        BY <1>1, <1>7, <2>1, <3>2
      <3> QED
        BY <1>6, <3>1, <3>2
    <2>2. CASE i - n \in DOMAIN a /\ outbox'[i] = a[i - n]
      <3>1. ASSUME j \in DOMAIN outbox, outbox'[j] = q[j]
            PROVE  FALSE
        <4>1. a[i - n].m.id = outbox[j].m.id
          BY <1>7, <2>2, <3>1
        <4> QED
          BY <2>2, <3>1, <4>1
      <3>2. CASE j - n \in DOMAIN a /\ outbox'[j] = a[j - n]
        <4>1. i - n = j - n
          BY <1>7, <2>2, <3>2
        <4> QED
          BY <1>3, <1>5, <4>1
      <3> QED
        BY <1>6, <3>1, <3>2
    <2> QED
      BY <1>6, <2>1, <2>2
  <1>8. ASSUME NEW i \in DOMAIN outbox
        PROVE  i \in DOMAIN outbox' /\ outbox'[i] = q[i]
    BY <1>1, <1>2, <1>3, <1>4, <1>5, <1>8
  <1>9. ASSUME NEW i \in DOMAIN outbox', outbox'[i].claim = "held"
        PROVE  i \in DOMAIN outbox /\ outbox'[i] = outbox[i]
    <2>1. i \in DOMAIN outbox /\ outbox'[i] = q[i]
      BY <1>6, <1>9
    <2> QED
      BY <1>9, <2>1
  <1> QED
    BY <1>5, <1>6, <1>7, <1>8, <1>9

\* What a local writer leaves to the queue: everything held stays held.
NewQueue ==
  /\ outbox' \in Seq(Row)
  /\ \A i, j \in DOMAIN outbox' : outbox'[i].m.id = outbox'[j].m.id => i = j
  /\ \A i \in DOMAIN outbox' :
       outbox'[i].claim = "held" => i \in DOMAIN outbox /\ outbox'[i] = outbox[i]
  /\ \A i \in DOMAIN outbox :
       outbox[i].claim = "held" => i \in DOMAIN outbox' /\ outbox'[i] = outbox[i]

\* A local writer, with no transition on its way.
LEMMA LocalStep ==
  ASSUME TransInv, ~Blocked, ~Completed, NewQueue, QueueInv',
         UNCHANGED <<cloud, receipts, moving, run, kills>>,
         local' \in [Records -> [content : 0..Elsewhere, version : Nat]],
         issued' \in [Records -> Nat], edits' \in 0..MaxEdits,
         repair' \in [status : {"none", "pending", "completed", "rejected"}, n : Nat],
         \/ repair' = repair
         \/ repair'.status = "pending" /\ \A i \in DOMAIN outbox : outbox[i].claim # "held"
  PROVE  TransInv'
  <1>1. /\ history' = history /\ log' = log /\ late' = late /\ receipts' = receipts
        /\ cursor' = cursor /\ intent' = intent /\ backup' = backup /\ transition' = transition
        /\ snapshot' = snapshot /\ run' = run /\ kills' = kills
    BY DEF cloud, moving
  <1>2. ~Active /\ ~Completed /\ ~Intended
    BY DEF Blocked
  <1>3. transition.mode = "none" /\ Snapshot = {}
    <2>1. transition.status \in {"none", "pulling", "publishing", "completed"}
      BY DEF TransInv, TypeOK
    <2> QED
      BY <1>2, <2>1 DEF Active, Completed, TransInv, CursorInv, ActiveInv
  <1>4. TypeOK'
    BY <1>1 DEF NewQueue, TransInv, TypeOK
  <1>5. LogInv' /\ CursorInv'
    BY <1>1 DEF TransInv, LogInv, CursorInv
  <1>6. PlaceInv'
    BY <1>1, <1>2 DEF TransInv, PlaceInv, Active, Completed, Intended
  <1>7. BatchInv'
    <2> SUFFICES ASSUME Batch
                 PROVE  \A k \in DOMAIN run.claims :
                          \E i \in DOMAIN outbox' : outbox'[i].m = run.claims[k] /\ outbox'[i].claim = "held"
      BY <1>1, <1>2 DEF TransInv, BatchInv, Batch, Published, Accepted, Active
    <2>1. \A k \in DOMAIN run.claims :
             \E i \in DOMAIN outbox : outbox[i].m = run.claims[k] /\ outbox[i].claim = "held"
      BY DEF TransInv, BatchInv
    <2> QED
      BY <2>1 DEF NewQueue
  <1>8. BackupInv'
    BY <1>1, <1>2 DEF TransInv, BackupInv, Intended
  <1>9. ActiveInv'
    BY <1>1, <1>2, <1>3 DEF ActiveInv, Active, Completed, Snapshot
  <1>10. SeenInv'
    BY <1>1, <1>3 DEF SeenInv, Snapshot
  <1>11. RepairGoesFirst'
    <2>1. CASE repair' = repair
      BY <1>1, <2>1 DEF NewQueue, TransInv, RepairGoesFirst, RepairPending, IsRepair, Published, Accepted
    <2>2. CASE repair'.status = "pending" /\ \A i \in DOMAIN outbox : outbox[i].claim # "held"
      BY <2>2 DEF NewQueue, RepairGoesFirst
    <2> QED
      BY <2>1, <2>2
  <1> QED
    BY <1>4, <1>5, <1>6, <1>7, <1>8, <1>9, <1>10, <1>11 DEF TransInv

LEMMA RepairStep ==
  ASSUME TransInv, RepairSyncProject
  PROVE  TransInv'
  <1>1. TypeOK /\ QueueInv /\ Project \in Records /\ Present(Project)
    BY TransitionAssumption DEF TransInv, QueueInv
  <1>2. /\ outbox \in Seq(Row) /\ Len(outbox) \in Nat
        /\ \A i \in DOMAIN outbox :
             /\ outbox[i].m.id \in Id /\ outbox[i].m.id.record \in Records
             /\ outbox[i].m.id.n \in Nat /\ outbox[i].m.id.n <= issued[outbox[i].m.id.record]
    BY <1>1, OutboxFields DEF QueueInv
  <1>3. PICK row : row = NewRow(Project, 0, local[Project].content)
    OBVIOUS
  <1>4. /\ row \in Row /\ row.m.id = [record |-> Project, n |-> issued[Project] + 1]
        /\ row.m.id.record = Project /\ row.m.id.n = issued[Project] + 1
        /\ row.m.base = 0 /\ row.claim = "never" /\ issued[Project] \in Nat
    <2>1. local[Project].content \in 0..Elsewhere /\ local[Project].content # 0 /\ issued[Project] \in Nat
      BY <1>1, LocalFields DEF Present
    <2> QED
      BY <1>1, <1>3, <2>1, NewRowIs
  <1>5. /\ ~Over /\ ~Blocked /\ run = Idle /\ UNCHANGED <<cloud, local, receipts, moving, run, edits, kills>>
        /\ \A i \in DOMAIN outbox : outbox[i].claim # "held"
        /\ outbox' = Append(outbox, row) /\ Issue({Project})
        /\ repair' = [status |-> "pending", n |-> issued[Project] + 1]
    BY <1>3 DEF RepairSyncProject
  <1>6. PICK a : a = <<row>>
    OBVIOUS
  <1>7. a \in Seq(Row) /\ DOMAIN a = {1} /\ a[1] = row
    BY <1>4, <1>6
  <1>8. outbox' = outbox \o a
    BY <1>2, <1>4, <1>5, <1>6, AppendIsConcat
  <1>9. \A i \in DOMAIN outbox : outbox[i].m.id # row.m.id
    <2> SUFFICES ASSUME NEW i \in DOMAIN outbox, outbox[i].m.id = row.m.id
                 PROVE  FALSE
      OBVIOUS
    <2>1. outbox[i].m.id.record = Project /\ outbox[i].m.id.n = issued[Project] + 1
      BY <1>4
    <2>2. outbox[i].m.id.n <= issued[Project]
      BY <1>2, <2>1
    <2> QED
      BY <1>4, <2>1, <2>2
  <1>10. /\ outbox' \in Seq(Row)
         /\ \A i, j \in DOMAIN outbox' : outbox'[i].m.id = outbox'[j].m.id => i = j
         /\ \A i \in DOMAIN outbox' :
              \/ i \in DOMAIN outbox /\ outbox'[i] = outbox[i]
              \/ \E k \in DOMAIN a : outbox'[i] = a[k]
         /\ \A i \in DOMAIN outbox' :
              outbox'[i].claim = "held" => i \in DOMAIN outbox /\ outbox'[i] = outbox[i]
         /\ \A i \in DOMAIN outbox :
              outbox[i].claim = "held" => i \in DOMAIN outbox' /\ outbox'[i] = outbox[i]
    <2>1. \A k \in DOMAIN a :
             a[k].claim = "never" /\ \A i \in DOMAIN outbox : outbox[i].m.id # a[k].m.id
      BY <1>4, <1>7, <1>9
    <2>2. \A j, k \in DOMAIN a : a[j].m.id = a[k].m.id => j = k
      BY <1>7
    <2> QED
      BY <1>2, <1>7, <1>8, <2>1, <2>2, AddedRows
  <1>11. /\ issued' \in [Records -> Nat] /\ issued'[Project] = issued[Project] + 1
         /\ \A r \in Records : issued[r] <= issued'[r]
    <2>1. \A r \in Records : issued[r] \in Nat
      BY <1>1, LocalFields
    <2> QED
      BY <1>1, <1>5, <2>1 DEF Issue
  <1>12. QueueInv'
    <2>1. local' = local
      BY <1>5
    <2>2. ASSUME NEW i \in DOMAIN outbox'
          PROVE  /\ outbox'[i].m.id.n <= issued'[outbox'[i].m.id.record]
                 /\ outbox'[i].m.base > 0 => local'[outbox'[i].m.id.record].version > 0
      <3>1. CASE i \in DOMAIN outbox /\ outbox'[i] = outbox[i]
        <4>1. outbox[i].m.id.record \in Records /\ outbox[i].m.id.n \in Nat
                /\ outbox[i].m.id.n <= issued[outbox[i].m.id.record]
                /\ issued[outbox[i].m.id.record] \in Nat /\ issued'[outbox[i].m.id.record] \in Nat
          BY <1>1, <1>2, <1>11, <3>1, LocalFields
        <4> QED
          BY <1>1, <1>11, <2>1, <3>1, <4>1 DEF QueueInv
      <3>2. CASE outbox'[i] = row
        <4>1. outbox'[i].m.id.record = Project /\ outbox'[i].m.id.n = issued[Project] + 1
                /\ outbox'[i].m.base = 0
          BY <1>4, <3>2
        <4>2. issued'[Project] = issued[Project] + 1 /\ issued[Project] + 1 <= issued[Project] + 1
          BY <1>4, <1>11
        <4> QED
          BY <4>1, <4>2
      <3> QED
        BY <1>7, <1>10, <2>2, <3>1, <3>2
    <2>3. Present(Project)'
      BY <1>1, <2>1 DEF Present
    <2> QED
      BY <2>2, <2>3 DEF QueueInv
  <1>13. issued[Project] + 1 \in Nat
    BY <1>4
  <1>14. /\ ~Completed /\ NewQueue /\ UNCHANGED <<cloud, receipts, moving, run, kills>>
         /\ local' \in [Records -> [content : 0..Elsewhere, version : Nat]]
         /\ edits' \in 0..MaxEdits
         /\ repair' \in [status : {"none", "pending", "completed", "rejected"}, n : Nat]
         /\ repair'.status = "pending"
    BY <1>5, <1>10, <1>13 DEF NewQueue, Over, TransInv, TypeOK
  <1> QED
    BY <1>5, <1>11, <1>12, <1>14, LocalStep

\* A local writer that puts rows behind those there are.
LEMMA AddStep ==
  ASSUME TransInv, ~Blocked, ~Completed,
         NEW q \in Seq(Row), NEW a \in Seq(Row), outbox' = q \o a,
         DOMAIN q = DOMAIN outbox,
         \A i \in DOMAIN outbox :
           /\ q[i].m.id = outbox[i].m.id /\ q[i].m.base = outbox[i].m.base
           /\ q[i].claim = outbox[i].claim
           /\ outbox[i].claim = "held" => q[i] = outbox[i],
         \A k \in DOMAIN a :
           a[k].claim = "never" /\ \A i \in DOMAIN outbox : outbox[i].m.id # a[k].m.id,
         \A j, k \in DOMAIN a : a[j].m.id = a[k].m.id => j = k,
         \A k \in DOMAIN a :
           /\ a[k].m.id.n <= issued'[a[k].m.id.record]
           /\ a[k].m.base > 0 => local'[a[k].m.id.record].version > 0,
         \A r \in Records : issued[r] <= issued'[r] /\ local'[r].version = local[r].version,
         Present(Project)',
         UNCHANGED <<cloud, receipts, repair, moving, run, kills>>,
         local' \in [Records -> [content : 0..Elsewhere, version : Nat]],
         issued' \in [Records -> Nat], edits' \in 0..MaxEdits
  PROVE  TransInv'
  <1>1. /\ outbox' \in Seq(Row)
        /\ \A i, j \in DOMAIN outbox' : outbox'[i].m.id = outbox'[j].m.id => i = j
        /\ \A i \in DOMAIN outbox' :
             \/ i \in DOMAIN outbox /\ outbox'[i] = q[i]
             \/ \E k \in DOMAIN a : outbox'[i] = a[k]
        /\ \A i \in DOMAIN outbox' :
             outbox'[i].claim = "held" => i \in DOMAIN outbox /\ outbox'[i] = outbox[i]
        /\ \A i \in DOMAIN outbox :
             outbox[i].claim = "held" => i \in DOMAIN outbox' /\ outbox'[i] = outbox[i]
    BY AddedRows
  <1>2. ASSUME NEW i \in DOMAIN outbox
        PROVE  /\ q[i].m.id.n <= issued'[q[i].m.id.record]
               /\ q[i].m.base > 0 => local'[q[i].m.id.record].version > 0
    <2>1. PICK r : r = outbox[i].m.id.record
      OBVIOUS
    <2>2. /\ r \in Records /\ outbox[i].m.id.n \in Nat /\ issued[r] \in Nat /\ issued'[r] \in Nat
          /\ outbox[i].m.id.n <= issued[r] /\ (outbox[i].m.base > 0 => local[r].version > 0)
      BY <2>1, OutboxFields, LocalFields DEF TransInv, QueueInv
    <2>3. q[i].m.id.record = r /\ q[i].m.id.n = outbox[i].m.id.n /\ q[i].m.base = outbox[i].m.base
      BY <2>1
    <2>4. issued[r] <= issued'[r] /\ local'[r].version = local[r].version
      BY <2>2
    <2> QED
      BY <2>2, <2>3, <2>4
  <1>3. \A i \in DOMAIN outbox' :
          /\ outbox'[i].m.id.n <= issued'[outbox'[i].m.id.record]
          /\ outbox'[i].m.base > 0 => local'[outbox'[i].m.id.record].version > 0
    BY <1>1, <1>2
  <1>4. QueueInv'
    BY <1>3 DEF QueueInv
  <1>5. NewQueue
    BY <1>1 DEF NewQueue
  <1>6. /\ repair' = repair
        /\ repair' \in [status : {"none", "pending", "completed", "rejected"}, n : Nat]
        /\ UNCHANGED <<cloud, receipts, moving, run, kills>>
    BY DEF TransInv, TypeOK
  <1> QED
    BY <1>4, <1>5, <1>6, LocalStep

LEMMA EnqueueStep ==
  ASSUME TransInv, EnqueueLocalWrite
  PROVE  TransInv'
  <1>1. TypeOK /\ QueueInv /\ Project \in Records /\ Present(Project)
    BY TransitionAssumption DEF TransInv, QueueInv
  <1>2. PICK r \in Observations :
          LET identities == {q \in {Project} \cup (Needs[r] \cap Sessions) :
                               local[q].version = 0 /\ CreatesOf(q) = {}}
          IN /\ \A q \in Needs[r] : Present(q)
             /\ outbox' = outbox \o Creates(Sorted(identities, Rank)) \o <<NewRow(r, local[r].version, Here)>>
             /\ local' = [local EXCEPT ![r].content = Here]
             /\ Issue(identities \cup {r})
    BY DEF EnqueueLocalWrite
  <1>3. PICK S : S = {q \in {Project} \cup (Needs[r] \cap Sessions) :
                        local[q].version = 0 /\ CreatesOf(q) = {}}
    OBVIOUS
  <1>4. /\ S \subseteq Records /\ r \in Records /\ r \notin S /\ r # Project
        /\ \A q \in S : Present(q)
    BY <1>1, <1>2, <1>3, TransitionAssumption DEF Observations
  <1>5. PICK rs : rs = Sorted(S, Rank)
    OBVIOUS
  <1>6. /\ rs \in Seq(S) /\ Len(rs) \in Nat /\ DOMAIN rs = 1..Len(rs)
        /\ \A i \in DOMAIN rs : rs[i] \in S
        /\ \A i, j \in DOMAIN rs : rs[i] = rs[j] => i = j
    <2>1. rs \in Seq(S) /\ \A i, j \in DOMAIN rs : rs[i] = rs[j] => i = j
      BY <1>4, <1>5, SortedRecords
    <2> QED
      BY <2>1
  <1>7. PICK cs : cs = Creates(rs)
    OBVIOUS
  <1>8. /\ cs \in Seq(Row) /\ DOMAIN cs = DOMAIN rs /\ Len(cs) = Len(rs)
        /\ \A k \in DOMAIN rs :
             /\ rs[k] \in S
             /\ cs[k].m.id = [record |-> rs[k], n |-> issued[rs[k]] + 1]
             /\ cs[k].m.id.record = rs[k] /\ cs[k].m.id.n = issued[rs[k]] + 1
             /\ cs[k].m.base = 0 /\ cs[k].claim = "never"
    BY <1>1, <1>4, <1>6, <1>7, CreatesIs
  <1>9. PICK row : row = NewRow(r, local[r].version, Here)
    OBVIOUS
  <1>10. /\ row \in Row /\ row.m.id = [record |-> r, n |-> issued[r] + 1]
         /\ row.m.id.record = r /\ row.m.id.n = issued[r] + 1
         /\ row.m.base = local[r].version /\ row.claim = "never" /\ local[r].version \in Nat
    <2>1. local[r].version \in Nat /\ Here \in 0..Elsewhere /\ Here # 0
      BY <1>1, <1>4, LocalFields DEF Here, Elsewhere
    <2> QED
      BY <1>1, <1>4, <1>9, <2>1, NewRowIs
  <1>11. PICK a : a = cs \o <<row>>
    OBVIOUS
  <1>12. PICK one : one = <<row>>
    OBVIOUS
  <1>23. one \in Seq(Row) /\ Len(one) = 1 /\ one[1] = row
    BY <1>10, <1>12
  <1>13. outbox \in Seq(Row) /\ outbox' = outbox \o a
    <2>1. outbox \in Seq(Row)
      BY <1>1, OutboxFields
    <2>2. outbox' = (outbox \o cs) \o one
      BY <1>2, <1>3, <1>5, <1>7, <1>9, <1>12
    <2>3. (outbox \o cs) \o one = outbox \o (cs \o one)
      BY <1>8, <1>23, <2>1, ConcatAssociative
    <2>4. cs \o one = a
      BY <1>11, <1>12
    <2> QED
      BY <2>1, <2>2, <2>3, <2>4, Zenon
  <1>14. /\ a \in Seq(Row) /\ Len(a) = Len(rs) + 1
         /\ \A k \in DOMAIN a : \/ k \in DOMAIN rs /\ a[k] = cs[k]
                                \/ k = Len(rs) + 1 /\ a[k] = row
    <2>1. /\ cs \o one \in Seq(Row) /\ Len(cs \o one) = Len(cs) + Len(one)
          /\ \A i \in 1..Len(cs) + Len(one) :
               (cs \o one)[i] = IF i <= Len(cs) THEN cs[i] ELSE one[i - Len(cs)]
      BY <1>8, <1>23, ConcatProperties
    <2>2. a \in Seq(Row) /\ Len(a) = Len(rs) + 1
      BY <1>8, <1>11, <1>12, <1>23, <2>1
    <2>3. ASSUME NEW k \in DOMAIN a
          PROVE  \/ k \in DOMAIN rs /\ a[k] = cs[k]
                 \/ k = Len(rs) + 1 /\ a[k] = row
      <3>1. k \in 1..Len(rs) + 1
        BY <2>2
      <3>2. a[k] = IF k <= Len(rs) THEN cs[k] ELSE one[k - Len(rs)]
        BY <1>8, <1>11, <1>12, <2>1, <3>1
      <3>3. CASE k <= Len(rs)
        BY <1>6, <3>1, <3>2, <3>3
      <3>4. CASE ~(k <= Len(rs))
        <4>1. k = Len(rs) + 1 /\ k - Len(rs) = 1
          BY <1>6, <3>1, <3>4
        <4> QED
          BY <1>23, <3>2, <3>4, <4>1
      <3> QED
        BY <3>3, <3>4
    <2> QED
      BY <2>2, <2>3
  <1>15. /\ \A k \in DOMAIN a : a[k].claim = "never"
         /\ \A k \in DOMAIN a : /\ a[k].m.id.record \in S \cup {r}
                                /\ a[k].m.id.n = issued[a[k].m.id.record] + 1
                                /\ a[k].m.base > 0 => local[a[k].m.id.record].version > 0
    <2>1. \A k \in DOMAIN rs : /\ cs[k].claim = "never" /\ cs[k].m.id.record \in S
                               /\ cs[k].m.id.n = issued[cs[k].m.id.record] + 1
                               /\ ~(cs[k].m.base > 0)
      <3> SUFFICES ASSUME NEW k \in DOMAIN rs
                   PROVE  /\ cs[k].claim = "never" /\ cs[k].m.id.record \in S
                          /\ cs[k].m.id.n = issued[cs[k].m.id.record] + 1
                          /\ ~(cs[k].m.base > 0)
        OBVIOUS
      <3>1. /\ rs[k] \in S /\ cs[k].m.id.record = rs[k] /\ cs[k].m.id.n = issued[rs[k]] + 1
            /\ cs[k].m.base = 0 /\ cs[k].claim = "never"
        BY <1>8
      <3> QED
        BY <3>1
    <2>2. /\ row.claim = "never" /\ row.m.id.record = r /\ row.m.id.n = issued[row.m.id.record] + 1
          /\ row.m.base > 0 => local[row.m.id.record].version > 0
      BY <1>10
    <2> QED
      BY <1>14, <2>1, <2>2
  <1>16. ASSUME NEW j \in DOMAIN a, NEW k \in DOMAIN a, a[j].m.id = a[k].m.id
         PROVE  j = k
    <2>1. a[j].m.id.record = a[k].m.id.record
      BY <1>16
    <2>2. CASE j \in DOMAIN rs /\ a[j] = cs[j]
      <3>1. a[j].m.id.record = rs[j] /\ rs[j] \in S
        BY <1>8, <2>2
      <3>2. k \in DOMAIN rs /\ a[k] = cs[k]
        BY <1>4, <1>10, <1>14, <2>1, <3>1
      <3>3. a[k].m.id.record = rs[k]
        BY <1>8, <3>2
      <3> QED
        BY <1>6, <2>1, <2>2, <3>1, <3>2, <3>3
    <2>3. CASE j = Len(rs) + 1 /\ a[j] = row
      <3>1. ~(k \in DOMAIN rs /\ a[k] = cs[k])
        <4> SUFFICES ASSUME k \in DOMAIN rs, a[k] = cs[k]
                     PROVE  FALSE
          OBVIOUS
        <4>1. a[k].m.id.record = rs[k] /\ rs[k] \in S
          BY <1>8
        <4> QED
          BY <1>4, <1>10, <2>1, <2>3, <4>1
      <3> QED
        BY <1>14, <2>3, <3>1
    <2> QED
      BY <1>14, <2>2, <2>3
  <1>17. ASSUME NEW k \in DOMAIN a, NEW i \in DOMAIN outbox, outbox[i].m.id = a[k].m.id
         PROVE  FALSE
    <2>1. PICK x : x = a[k].m.id.record
      OBVIOUS
    <2>2. x \in Records /\ issued[x] \in Nat
      BY <1>1, <1>4, <1>15, <2>1, LocalFields
    <2>3. outbox[i].m.id.record = x /\ outbox[i].m.id.n = issued[x] + 1
      BY <1>15, <1>17, <2>1
    <2>4. outbox[i].m.id.n <= issued[x]
      BY <1>1, <2>3 DEF QueueInv
    <2> QED
      BY <2>2, <2>3, <2>4
  <1>18. /\ issued' \in [Records -> Nat] /\ \A x \in Records : issued[x] <= issued'[x]
         /\ \A x \in S \cup {r} : issued'[x] = issued[x] + 1
    <2>1. issued' = [x \in Records |-> IF x \in S \cup {r} THEN issued[x] + 1 ELSE issued[x]]
      BY <1>2, <1>3 DEF Issue
    <2>2. \A x \in Records : issued[x] \in Nat
      BY <1>1, LocalFields
    <2> QED
      BY <1>4, <2>1, <2>2
  <1>19. /\ local' \in [Records -> [content : 0..Elsewhere, version : Nat]]
         /\ \A x \in Records : local'[x].version = local[x].version
         /\ Present(Project)'
    <2>1. local \in [Records -> [content : 0..Elsewhere, version : Nat]]
      BY <1>1 DEF TypeOK
    <2>2. local' = [local EXCEPT ![r] = [local[r] EXCEPT !.content = Here]] /\ Here \in 0..Elsewhere
      BY <1>2 DEF Here, Elsewhere
    <2>3. \A y \in [content : 0..Elsewhere, version : Nat] :
             /\ [y EXCEPT !.content = Here] \in [content : 0..Elsewhere, version : Nat]
             /\ [y EXCEPT !.content = Here].version = y.version
      BY <2>2
    <2>4. local'[Project] = local[Project]
      BY <1>1, <1>4, <2>1, <2>2
    <2> QED
      BY <1>1, <1>4, <2>1, <2>2, <2>3, <2>4 DEF Present
  <1>20. /\ \A k \in DOMAIN a :
              /\ a[k].m.id.n <= issued'[a[k].m.id.record]
              /\ a[k].m.base > 0 => local'[a[k].m.id.record].version > 0
    <2> SUFFICES ASSUME NEW k \in DOMAIN a
                 PROVE  /\ a[k].m.id.n <= issued'[a[k].m.id.record]
                        /\ a[k].m.base > 0 => local'[a[k].m.id.record].version > 0
      OBVIOUS
    <2>1. PICK x : x = a[k].m.id.record
      OBVIOUS
    <2>2. x \in S \cup {r} /\ x \in Records /\ a[k].m.id.n = issued[x] + 1
            /\ (a[k].m.base > 0 => local[x].version > 0)
      BY <1>4, <1>15, <2>1
    <2>3. issued'[x] = issued[x] + 1 /\ issued[x] \in Nat /\ local'[x].version = local[x].version
      BY <1>1, <1>18, <1>19, <2>2, LocalFields
    <2> QED
      BY <2>1, <2>2, <2>3
  <1>21. ~Completed /\ ~Blocked /\ UNCHANGED <<cloud, receipts, repair, moving, run, kills>>
           /\ edits' \in 0..MaxEdits
    <2>1. edits \in 0..MaxEdits /\ edits < MaxEdits /\ edits' = edits + 1 /\ MaxEdits \in Nat
      BY <1>1, TransitionAssumption DEF EnqueueLocalWrite, TypeOK
    <2> QED
      BY <2>1 DEF EnqueueLocalWrite, Over
  <1>22. \A k \in DOMAIN a :
            a[k].claim = "never" /\ \A i \in DOMAIN outbox : outbox[i].m.id # a[k].m.id
    BY <1>15, <1>17
  <1> QED
    BY <1>13, <1>14, <1>16, <1>18, <1>19, <1>20, <1>21, <1>22, AddStep

LEMMA BackfillStep ==
  ASSUME TransInv, BackfillSyncProject
  PROVE  TransInv'
  <1>1. TypeOK /\ QueueInv /\ Project \in Records /\ Present(Project)
    BY TransitionAssumption DEF TransInv, QueueInv
  <1>2. PICK legacy : legacy = {r \in Records : Present(r) /\ local[r].version = 0}
    OBVIOUS
  <1>3. PICK S : S = {r \in legacy : CreatesOf(r) = {}}
    OBVIOUS
  <1>4. PICK rs : rs = Sorted(S, Rank)
    OBVIOUS
  <1>5. PICK first : first = {Min(CreatesOf(r)) : r \in legacy \ S}
    OBVIOUS
  <1> DEFINE Current(i) == local[outbox[i].m.id.record].content
             Q(i) == IF i \in first THEN [outbox[i] EXCEPT !.m.content = Current(i)] ELSE outbox[i]
             A(k) == [m |-> [id |-> [record |-> rs[k], n |-> 0], base |-> 0,
                             content |-> local[rs[k]].content], claim |-> "never"]
  <1>6. PICK q : q = [i \in DOMAIN outbox |-> Q(i)]
    OBVIOUS
  <1>7. PICK a : a = [k \in DOMAIN rs |-> A(k)]
    OBVIOUS
  <1>8. /\ ~Over /\ ~Blocked
        /\ \A i \in first : outbox[i].m.content # Current(i) => outbox[i].claim = "never"
        /\ outbox' = q \o a
        /\ UNCHANGED <<cloud, local, receipts, issued, repair, moving, run, edits, kills>>
    BY <1>2, <1>3, <1>4, <1>5, <1>6, <1>7 DEF BackfillSyncProject
  <1>9. /\ outbox \in Seq(Row) /\ Len(outbox) \in Nat /\ DOMAIN outbox = 1..Len(outbox)
        /\ \A i \in DOMAIN outbox :
             /\ i \in Nat /\ outbox[i] \in Row /\ outbox[i].m \in Mutation
             /\ outbox[i].m.id \in Id /\ outbox[i].m.id.record \in Records
             /\ outbox[i].m.base \in Nat
    BY <1>1, OutboxFields
  <1>10. \A r \in Records : CreatesOf(r) \subseteq DOMAIN outbox
                            /\ \A i \in CreatesOf(r) : outbox[i].m.id.record = r
    BY DEF CreatesOf, RowsOf
  <1>11. \A i \in first : i \in DOMAIN outbox /\ outbox[i].m.id.record \in legacy
    <2> SUFFICES ASSUME NEW r \in legacy \ S
                 PROVE  /\ Min(CreatesOf(r)) \in DOMAIN outbox
                        /\ outbox[Min(CreatesOf(r))].m.id.record \in legacy
      BY <1>5
    <2>1. r \in Records /\ CreatesOf(r) # {}
      BY <1>2, <1>3
    <2>2. CreatesOf(r) \in SUBSET Nat
      BY <1>9, <1>10, <2>1
    <2>3. Min(CreatesOf(r)) \in CreatesOf(r)
      BY <2>1, <2>2, MinIs
    <2> QED
      BY <1>10, <2>1, <2>3
  <1>12. \A r \in legacy : r \in Records /\ local[r].content \in Shared..Elsewhere
    <2> SUFFICES ASSUME NEW r \in legacy
                 PROVE  r \in Records /\ local[r].content \in Shared..Elsewhere
      OBVIOUS
    <2>1. r \in Records /\ local[r].content # 0
      BY <1>2 DEF Present
    <2>2. local[r].content \in 0..Elsewhere
      BY <1>1, <2>1, LocalFields
    <2> QED
      BY <2>1, <2>2 DEF Shared, Elsewhere
  <1>13. ASSUME NEW i \in DOMAIN outbox
         PROVE  /\ Q(i) \in Row
                /\ Q(i).m.id = outbox[i].m.id /\ Q(i).m.base = outbox[i].m.base
                /\ Q(i).claim = outbox[i].claim
                /\ outbox[i].claim = "held" => Q(i) = outbox[i]
    <2>1. \A row \in Row, content \in Shared..Elsewhere :
             /\ [row EXCEPT !.m.content = content] \in Row
             /\ [row EXCEPT !.m.content = content].m.id = row.m.id
             /\ [row EXCEPT !.m.content = content].m.base = row.m.base
             /\ [row EXCEPT !.m.content = content].claim = row.claim
             /\ row.m.content = content => [row EXCEPT !.m.content = content] = row
      BY DEF Row, Mutation
    <2>2. CASE i \in first
      <3>1. PICK content \in Shared..Elsewhere : content = Current(i)
        BY <1>11, <1>12, <2>2
      <3>2. PICK b : b = [outbox[i] EXCEPT !.m.content = content]
        OBVIOUS
      <3>3. Q(i) = b
        BY <2>2, <3>1, <3>2
      <3>4. outbox[i].claim = "held" => outbox[i].m.content = content
        BY <1>8, <2>2, <3>1
      <3>5. /\ b \in Row /\ b.m.id = outbox[i].m.id /\ b.m.base = outbox[i].m.base
            /\ b.claim = outbox[i].claim
            /\ outbox[i].m.content = content => b = outbox[i]
        BY <1>9, <2>1, <3>2
      <3> HIDE DEF Q
      <3> QED
        BY <3>3, <3>4, <3>5
    <2>3. CASE i \notin first
      BY <1>9, <2>3
    <2> QED
      BY <2>2, <2>3
  <1>14. /\ S \in SUBSET Records /\ \A r \in S : r \in legacy
         /\ \A r \in S : CreatesOf(r) = {} /\ local[r].version = 0
    BY <1>2, <1>3
  <1>15. /\ Len(rs) \in Nat /\ DOMAIN rs = 1..Len(rs)
         /\ \A k \in DOMAIN rs : rs[k] \in S
         /\ \A j, k \in DOMAIN rs : rs[j] = rs[k] => j = k
    <2>1. rs \in Seq(S) /\ \A j, k \in DOMAIN rs : rs[j] = rs[k] => j = k
      BY <1>4, <1>14, SortedRecords
    <2> QED
      BY <2>1
  <1>16. ASSUME NEW k \in DOMAIN rs
         PROVE  /\ A(k) \in Row /\ A(k).claim = "never" /\ A(k).m.base = 0
                /\ A(k).m.id.record = rs[k] /\ A(k).m.id.n = 0
    <2>1. rs[k] \in Records /\ local[rs[k]].content \in Shared..Elsewhere
      BY <1>12, <1>14, <1>15
    <2> QED
      BY <2>1 DEF Row, Mutation, Id
  <1> HIDE DEF Q, A
  <1>17. q \in [1..Len(outbox) -> Row] /\ a \in [1..Len(rs) -> Row]
    <2>1. q \in [DOMAIN outbox -> Row]
      BY <1>6, <1>13
    <2>2. a \in [DOMAIN rs -> Row]
      BY <1>7, <1>16
    <2> QED
      BY <1>9, <1>15, <2>1, <2>2
  <1>18. q \in Seq(Row) /\ a \in Seq(Row) /\ DOMAIN q = DOMAIN outbox /\ DOMAIN a = DOMAIN rs
    <2>1. \A n \in Nat : \A f \in [1..n -> Row] : f \in Seq(Row) /\ DOMAIN f = 1..n
      OBVIOUS
    <2> QED
      BY <1>9, <1>15, <1>17, <2>1
  <1>19. \A i \in DOMAIN outbox :
           /\ q[i].m.id = outbox[i].m.id /\ q[i].m.base = outbox[i].m.base
           /\ q[i].claim = outbox[i].claim
           /\ outbox[i].claim = "held" => q[i] = outbox[i]
    BY <1>6, <1>13
  <1>20. \A k \in DOMAIN a : /\ a[k].claim = "never" /\ a[k].m.base = 0
                             /\ a[k].m.id.record = rs[k] /\ a[k].m.id.n = 0 /\ k \in DOMAIN rs
    BY <1>7, <1>16, <1>18
  <1>21. ASSUME NEW k \in DOMAIN a, NEW i \in DOMAIN outbox, outbox[i].m.id = a[k].m.id
         PROVE  FALSE
    <2>1. rs[k] \in S /\ outbox[i].m.id.record = rs[k]
      BY <1>15, <1>20, <1>21
    <2>2. CreatesOf(rs[k]) = {} /\ local[rs[k]].version = 0
      BY <1>14, <2>1
    <2>3. outbox[i].m.base # 0
      BY <2>1, <2>2 DEF CreatesOf, RowsOf
    <2>4. outbox[i].m.base > 0
      BY <1>9, <2>3
    <2> QED
      BY <1>1, <2>1, <2>2, <2>4 DEF QueueInv
  <1>22. \A k \in DOMAIN a :
           a[k].claim = "never" /\ \A i \in DOMAIN outbox : outbox[i].m.id # a[k].m.id
    BY <1>20, <1>21
  <1>23. ASSUME NEW j \in DOMAIN a, NEW k \in DOMAIN a, a[j].m.id = a[k].m.id
         PROVE  j = k
    <2>1. rs[j] = rs[k]
      BY <1>20, <1>23
    <2> QED
      BY <1>15, <1>20, <2>1
  <1>24. /\ \A r \in Records : issued[r] <= issued'[r] /\ local'[r].version = local[r].version
         /\ Present(Project)' /\ ~Completed /\ edits' \in 0..MaxEdits
         /\ local' \in [Records -> [content : 0..Elsewhere, version : Nat]]
         /\ issued' \in [Records -> Nat]
         /\ UNCHANGED <<cloud, receipts, repair, moving, run, kills>>
    <2>1. local' = local /\ issued' = issued /\ edits' = edits
      BY <1>8
    <2>2. \A r \in Records : issued[r] \in Nat
      BY <1>1, LocalFields
    <2>3. local \in [Records -> [content : 0..Elsewhere, version : Nat]] /\ issued \in [Records -> Nat]
            /\ edits \in 0..MaxEdits
      BY <1>1 DEF TypeOK
    <2>4. UNCHANGED <<cloud, receipts, repair, moving, run, kills>> /\ ~Completed
      BY <1>8 DEF Over
    <2> QED
      BY <1>1, <2>1, <2>2, <2>3, <2>4 DEF Present
  <1>25. \A k \in DOMAIN a :
           /\ a[k].m.id.n <= issued'[a[k].m.id.record]
           /\ a[k].m.base > 0 => local'[a[k].m.id.record].version > 0
    <2> SUFFICES ASSUME NEW k \in DOMAIN a
                 PROVE  /\ a[k].m.id.n <= issued'[a[k].m.id.record]
                        /\ a[k].m.base > 0 => local'[a[k].m.id.record].version > 0
      OBVIOUS
    <2>1. rs[k] \in Records
      BY <1>14, <1>15, <1>20
    <2>2. issued'[rs[k]] \in Nat
      BY <1>24, <2>1
    <2> QED
      BY <1>20, <2>2
  <1> QED
    BY <1>8, <1>18, <1>19, <1>22, <1>23, <1>24, <1>25, AddStep

----------------------------------------------------------------------------

(***************************************************************************)
(* The intent and its backup.                                              *)
(***************************************************************************)

LEMMA FileStep ==
  ASSUME TransInv, UNCHANGED <<cloud, local, queue, cursor, transition, snapshot, edits, kills>>,
         NEW pc \in Points \ {"push", "apply"}, run' = At(pc),
         intent' \in [mode : Modes \cup {"none"}, sealed : BOOLEAN],
         backup' \in [state : {"absent", "partial", "whole"},
                      rows : SUBSET [id : Id, content : Shared..Elsewhere],
                      content : [Records -> 0..Elsewhere]],
         PlaceInv', BackupInv'
  PROVE  TransInv'
  <1>1. /\ history' = history /\ log' = log /\ late' = late /\ receipts' = receipts
        /\ local' = local /\ outbox' = outbox /\ issued' = issued /\ repair' = repair
        /\ cursor' = cursor /\ transition' = transition
        /\ snapshot' = snapshot /\ edits' = edits /\ kills' = kills
    BY DEF cloud, queue
  <1>2. RunSound /\ run'.pc = pc
    BY AtIs DEF TransInv
  <1>3. TypeOK'
    BY <1>1, <1>2 DEF RunSound, RunType, TransInv, TypeOK
  <1>4. LogInv' /\ CursorInv' /\ QueueInv'
    BY <1>1 DEF TransInv, LogInv, CursorInv, QueueInv, Present
  <1>5. BatchInv'
    BY <1>2 DEF BatchInv, Batch
  <1>6. ActiveInv'
    BY <1>1 DEF TransInv, ActiveInv, Active, Completed, Snapshot, Unseen, RepairPending
  <1>7. SeenInv'
    BY <1>1 DEF TransInv, SeenInv, Snapshot, CreatedAs
  <1>8. RepairGoesFirst'
    BY <1>1 DEF TransInv, RepairGoesFirst, RepairPending, IsRepair, Published, Accepted
  <1> QED
    BY <1>3, <1>4, <1>5, <1>6, <1>7, <1>8 DEF TransInv

LEMMA IntentStep ==
  ASSUME TransInv, EnsureSyncProjectBackupIntent
  PROVE  TransInv'
  <1>1. /\ transition.mode = "none" /\ run.command \in Modes /\ run # Idle /\ run.pc = "intent"
        /\ UNCHANGED <<cloud, local, queue, cursor, backup, transition, snapshot, edits, kills>>
    BY IdleIs DEF EnsureSyncProjectBackupIntent, TransInv, PlaceInv
  <1>2. ~Completed /\ ~Active
    BY <1>1 DEF TransInv, PlaceInv, CursorInv, Active
  <1>3. CASE run' = Idle /\ intent' = intent
    BY <1>1, <1>3, StopStep DEF Tables, moving
  <1>4. CASE /\ run' = At("backup")
             /\ \/ Intended /\ intent' = intent
                \/ ~Intended /\ intent' = [mode |-> run.command, sealed |-> FALSE]
    <2>1. "backup" \in Points \ {"push", "apply"}
      BY DEF Points
    <2>2. run'.pc = "backup" /\ run'.command = run.command
      BY <1>4, <2>1, AtIs DEF TransInv
    <2>3. Intended' /\ intent'.mode \in Modes /\ intent' \in [mode : Modes \cup {"none"}, sealed : BOOLEAN]
      <3>1. CASE Intended /\ intent' = intent
        BY <3>1 DEF Intended, TransInv, TypeOK
      <3>2. CASE ~Intended /\ intent' = [mode |-> run.command, sealed |-> FALSE]
        BY <1>1, <3>2 DEF Intended, Modes
      <3> QED
        BY <1>4, <3>1, <3>2
    <2>4. PlaceInv'
      BY <1>1, <1>2, <2>2, <2>3 DEF PlaceInv, Active, Completed
    <2>5. BackupInv'
      <3>1. CASE intent' = intent /\ Intended
        BY <1>1, <3>1 DEF queue, TransInv, BackupInv, Intended
      <3>2. CASE ~Intended /\ intent' = [mode |-> run.command, sealed |-> FALSE]
        <4>1. backup'.state = "absent" /\ ~intent'.sealed /\ transition'.mode = "none"
          BY <1>1, <3>2 DEF TransInv, BackupInv
        <4> QED
          BY <2>3, <4>1 DEF BackupInv
      <3> QED
        BY <1>4, <3>1, <3>2
    <2>6. backup' \in [state : {"absent", "partial", "whole"},
                       rows : SUBSET [id : Id, content : Shared..Elsewhere],
                       content : [Records -> 0..Elsewhere]]
      BY <1>1 DEF TransInv, TypeOK
    <2>7. UNCHANGED <<cloud, local, queue, cursor, transition, snapshot, edits, kills>>
      BY <1>1
    <2> QED
      BY <1>4, <2>1, <2>3, <2>4, <2>5, <2>6, <2>7, FileStep
  <1>5. \/ ~Intended /\ intent' = [mode |-> run.command, sealed |-> FALSE] /\ run' = At("backup")
        \/ /\ Intended /\ intent' = intent
           /\ run' = IF intent.mode = run.command THEN At("backup") ELSE Idle
    BY DEF EnsureSyncProjectBackupIntent
  <1>6. \/ ~Intended /\ intent' = [mode |-> run.command, sealed |-> FALSE] /\ run' = At("backup")
        \/ Intended /\ intent' = intent /\ run' = At("backup")
        \/ run' = Idle /\ intent' = intent
    BY <1>5, Zenon
  <1> QED
    BY <1>3, <1>4, <1>6

LEMMA ReserveStep ==
  ASSUME TransInv, ReserveBackup
  PROVE  TransInv'
  <1>1. /\ transition.mode = "none" /\ run.command \in Modes /\ run # Idle /\ Intended
        /\ run.pc = "backup" /\ backup.state = "absent" /\ backup' = [backup EXCEPT !.state = "partial"]
        /\ run' = At("write")
        /\ UNCHANGED <<cloud, local, queue, cursor, intent, transition, snapshot, edits, kills>>
    BY IdleIs DEF ReserveBackup, TransInv, PlaceInv
  <1>2. ~Completed /\ ~Active
    BY <1>1 DEF TransInv, PlaceInv, CursorInv, Active
  <1>3. /\ backup' \in [state : {"absent", "partial", "whole"},
                        rows : SUBSET [id : Id, content : Shared..Elsewhere],
                        content : [Records -> 0..Elsewhere]]
        /\ backup'.state = "partial"
    BY <1>1 DEF TransInv, TypeOK
  <1>4. "write" \in Points \ {"push", "apply"}
    BY DEF Points
  <1>5. run'.pc = "write" /\ run'.command = run.command
    BY <1>1, <1>4, AtIs DEF TransInv
  <1>6. PlaceInv'
    BY <1>1, <1>2, <1>5 DEF PlaceInv, Active, Completed, Intended
  <1>7. BackupInv'
    BY <1>1, <1>3 DEF TransInv, BackupInv, Intended
  <1>8. intent' \in [mode : Modes \cup {"none"}, sealed : BOOLEAN]
    BY <1>1 DEF TransInv, TypeOK
  <1>9. UNCHANGED <<cloud, local, queue, cursor, transition, snapshot, edits, kills>>
    BY <1>1
  <1> QED
    BY <1>1, <1>3, <1>4, <1>6, <1>7, <1>8, <1>9, FileStep

LEMMA BackupStep ==
  ASSUME TransInv, CreateSQLiteBackup
  PROVE  TransInv'
  <1>1. /\ transition.mode = "none" /\ run.command \in Modes /\ run # Idle /\ Intended
        /\ run' = At("seal")
        /\ UNCHANGED <<cloud, local, queue, cursor, intent, transition, snapshot, edits, kills>>
    BY IdleIs DEF CreateSQLiteBackup, TransInv, PlaceInv
  <1>2. ~Completed /\ ~Active
    BY <1>1 DEF TransInv, PlaceInv, CursorInv, Active
  <1>3. PICK rows : rows = {Write(outbox[i].m) : i \in DOMAIN outbox}
    OBVIOUS
  <1>4. PICK content : content = [r \in Records |-> local[r].content]
    OBVIOUS
  <1>5. backup' = [state |-> "whole", rows |-> rows, content |-> content]
    BY <1>3, <1>4 DEF CreateSQLiteBackup
  <1>6. rows \subseteq [id : Id, content : Shared..Elsewhere]
    <2>1. \A i \in DOMAIN outbox : Write(outbox[i].m) \in [id : Id, content : Shared..Elsewhere]
      BY OutboxFields, MutationFields DEF TransInv
    <2> QED
      BY <1>3, <2>1
  <1>7. content \in [Records -> 0..Elsewhere]
    <2>1. \A r \in Records : local[r].content \in 0..Elsewhere
      BY LocalFields DEF TransInv
    <2> QED
      BY <1>4, <2>1
  <1>8. /\ backup' \in [state : {"absent", "partial", "whole"},
                        rows : SUBSET [id : Id, content : Shared..Elsewhere],
                        content : [Records -> 0..Elsewhere]]
        /\ backup'.state = "whole" /\ backup'.rows = rows /\ backup'.content = content
    BY <1>5, <1>6, <1>7
  <1>9. "seal" \in Points \ {"push", "apply"}
    BY DEF Points
  <1>10. run'.pc = "seal" /\ run'.command = run.command
    BY <1>1, <1>9, AtIs DEF TransInv
  <1>11. PlaceInv'
    BY <1>1, <1>2, <1>8, <1>10 DEF PlaceInv, Active, Completed, Intended
  <1>12. BackupInv'
    <2>1. outbox' = outbox /\ local' = local /\ transition' = transition /\ intent' = intent
      BY <1>1 DEF queue
    <2>2. \A i \in DOMAIN outbox : Write(outbox[i].m) \in rows
      BY <1>3
    <2>3. \A r \in Records : local[r].content = content[r]
      BY <1>4
    <2> QED
      BY <1>1, <1>8, <2>1, <2>2, <2>3 DEF TransInv, BackupInv, Intended
  <1>13. intent' \in [mode : Modes \cup {"none"}, sealed : BOOLEAN]
    BY <1>1 DEF TransInv, TypeOK
  <1>14. UNCHANGED <<cloud, local, queue, cursor, transition, snapshot, edits, kills>>
    BY <1>1
  <1> QED
    BY <1>1, <1>8, <1>9, <1>11, <1>12, <1>13, <1>14, FileStep

LEMMA SealStep ==
  ASSUME TransInv, SealSyncProjectBackupIntent
  PROVE  TransInv'
  <1>1. /\ transition.mode = "none" /\ run.command \in Modes /\ run # Idle /\ Intended
        /\ backup.state = "whole" /\ intent' = [intent EXCEPT !.sealed = TRUE]
        /\ run' = At("prepare")
        /\ UNCHANGED <<cloud, local, queue, cursor, backup, transition, snapshot, edits, kills>>
    BY IdleIs DEF SealSyncProjectBackupIntent, TransInv, PlaceInv
  <1>2. ~Completed /\ ~Active
    BY <1>1 DEF TransInv, PlaceInv, CursorInv, Active
  <1>3. intent' \in [mode : Modes \cup {"none"}, sealed : BOOLEAN] /\ intent'.sealed /\ Intended'
    <2>1. intent \in [mode : Modes \cup {"none"}, sealed : BOOLEAN]
      BY DEF TransInv, TypeOK
    <2>2. \A x \in [mode : Modes \cup {"none"}, sealed : BOOLEAN] :
             /\ [x EXCEPT !.sealed = TRUE] \in [mode : Modes \cup {"none"}, sealed : BOOLEAN]
             /\ [x EXCEPT !.sealed = TRUE].sealed = TRUE
             /\ [x EXCEPT !.sealed = TRUE].mode = x.mode
      OBVIOUS
    <2> QED
      BY <1>1, <2>1, <2>2 DEF Intended
  <1>4. "prepare" \in Points \ {"push", "apply"}
    BY DEF Points
  <1>5. run'.pc = "prepare" /\ run'.command = run.command
    BY <1>1, <1>4, AtIs DEF TransInv
  <1>6. PlaceInv'
    BY <1>1, <1>2, <1>3, <1>5 DEF PlaceInv, Active, Completed
  <1>7. BackupInv'
    BY <1>1, <1>3 DEF queue, TransInv, BackupInv, Intended
  <1>8. backup' \in [state : {"absent", "partial", "whole"},
                     rows : SUBSET [id : Id, content : Shared..Elsewhere],
                     content : [Records -> 0..Elsewhere]]
    BY <1>1 DEF TransInv, TypeOK
  <1>9. UNCHANGED <<cloud, local, queue, cursor, transition, snapshot, edits, kills>>
    BY <1>1
  <1> QED
    BY <1>1, <1>3, <1>4, <1>6, <1>7, <1>8, <1>9, FileStep

----------------------------------------------------------------------------

(***************************************************************************)
(* The transition begins.                                                  *)
(***************************************************************************)

\* The creates of records in the order of dependency.
LEMMA OrderedCreates ==
  ASSUME TypeOK, NEW S \in SUBSET Records, \A r \in S : Present(r), Acyclic(S),
         NEW a, a = Creates(DependencyOrder(S))
  PROVE  /\ a \in Seq(Row)
         /\ \A k \in DOMAIN a :
              /\ a[k].m.id.record \in S
              /\ a[k].m.id.n = issued[a[k].m.id.record] + 1
              /\ a[k].m.base = 0
              /\ a[k].m.content = local[a[k].m.id.record].content
              /\ a[k].claim = "never"
         /\ \A j, k \in DOMAIN a : a[j].m.id.record = a[k].m.id.record => j = k
         /\ S = {} => a = << >>
  <1>1. PICK rs : rs = DependencyOrder(S)
    OBVIOUS
  <1>2. rs \in Seq(S) /\ \A i, j \in DOMAIN rs : rs[i] = rs[j] => i = j
    BY <1>1, DependencyOrderIs
  <1>3. /\ a \in Seq(Row) /\ DOMAIN a = DOMAIN rs /\ Len(a) = Len(rs)
        /\ \A k \in DOMAIN rs :
             /\ rs[k] \in S
             /\ a[k].m.id = [record |-> rs[k], n |-> issued[rs[k]] + 1]
             /\ a[k].m.id.record = rs[k]
             /\ a[k].m.id.n = issued[rs[k]] + 1
             /\ a[k].m.base = 0
             /\ a[k].m.content = local[rs[k]].content
             /\ a[k].claim = "never"
    BY <1>1, <1>2, CreatesIs
  <1>4. S = {} => a = << >>
    <2> SUFFICES ASSUME S = {}
                 PROVE  a = << >>
      OBVIOUS
    <2>1. DOMAIN rs = {}
      BY <1>3
    <2>2. Len(rs) = 0
      BY <1>2, <2>1
    <2> QED
      BY <1>3, <2>2, EmptySeq
  <1>5. \A j, k \in DOMAIN a : a[j].m.id.record = a[k].m.id.record => j = k
    <2> SUFFICES ASSUME NEW j \in DOMAIN a, NEW k \in DOMAIN a,
                        a[j].m.id.record = a[k].m.id.record
                 PROVE  j = k
      OBVIOUS
    <2>1. rs[j] = rs[k] /\ j \in DOMAIN rs /\ k \in DOMAIN rs
      BY <1>3
    <2> QED
      BY <1>2, <2>1
  <1>6. ASSUME NEW k \in DOMAIN a
        PROVE  /\ a[k].m.id.record \in S
               /\ a[k].m.id.n = issued[a[k].m.id.record] + 1
               /\ a[k].m.base = 0
               /\ a[k].m.content = local[a[k].m.id.record].content
               /\ a[k].claim = "never"
    <2>1. /\ rs[k] \in S /\ a[k].m.id.record = rs[k] /\ a[k].m.id.n = issued[rs[k]] + 1
          /\ a[k].m.base = 0 /\ a[k].m.content = local[rs[k]].content /\ a[k].claim = "never"
      BY <1>3, <1>6
    <2> QED
      BY <2>1
  <1> QED
    BY <1>3, <1>4, <1>5, <1>6

LEMMA PrepareStep ==
  ASSUME TransInv, PrepareSyncProjectTransition
  PROVE  TransInv'
  <1>1. /\ transition.mode = "none" /\ run.command \in Modes /\ Intended /\ CanPrepare
        /\ UNCHANGED <<cloud, backup, edits, kills>> /\ run' = At("continue")
        /\ intent' = [mode |-> "none", sealed |-> FALSE]
        /\ transition' = [mode |-> run.command,
                          status |-> IF run.command = "reseed" THEN "publishing" ELSE "pulling"]
        /\ snapshot' = [r \in Records |-> [hash |-> local[r].content, seen |-> FALSE]]
        /\ ClearSyncState
    BY DEF PrepareSyncProjectTransition, TransInv, PlaceInv
  <1>2. \/ run.command = "rejoin" /\ outbox' = << >> /\ UNCHANGED <<local, issued>>
        \/ /\ run.command = "reseed" /\ outbox' = Creates(DependencyOrder(PresentRecords))
           /\ local' = [r \in Records |-> [local[r] EXCEPT !.version = 0]]
           /\ Issue(PresentRecords)
    BY DEF PrepareSyncProjectTransition
  <1>3. TypeOK /\ PresentRecords \in SUBSET Records /\ \A r \in PresentRecords : Present(r)
    BY DEF PresentRecords, TransInv
  <1>4. Acyclic(PresentRecords)
    BY <1>1 DEF CanPrepare
  <1>5. \A r \in Records : /\ local[r] \in [content : 0..Elsewhere, version : Nat]
                           /\ local[r].content \in 0..Elsewhere /\ issued[r] \in Nat
    BY <1>3, LocalFields
  <1>6. /\ local' \in [Records -> [content : 0..Elsewhere, version : Nat]]
        /\ \A r \in Records : local'[r].content = local[r].content
    <2>1. \A y \in [content : 0..Elsewhere, version : Nat] :
             /\ [y EXCEPT !.version = 0] \in [content : 0..Elsewhere, version : Nat]
             /\ [y EXCEPT !.version = 0].content = y.content
      OBVIOUS
    <2>2. CASE local' = local
      BY <1>3, <2>2 DEF TypeOK
    <2>3. CASE local' = [r \in Records |-> [local[r] EXCEPT !.version = 0]]
      BY <1>5, <2>1, <2>3
    <2> QED
      BY <1>2, <2>2, <2>3
  <1>7. issued' \in [Records -> Nat] /\ \A r \in Records : issued'[r] \in Nat
    <2>1. CASE issued' = issued
      BY <1>3, <2>1 DEF TypeOK
    <2>2. CASE Issue(PresentRecords)
      BY <1>5, <2>2 DEF Issue
    <2> QED
      BY <1>2, <2>1, <2>2
  <1>8. /\ outbox' \in Seq(Row)
        /\ run.command = "rejoin" => outbox' = << >>
        /\ \A k \in DOMAIN outbox' :
             /\ outbox'[k].m.id.record \in PresentRecords
             /\ outbox'[k].m.id.n = issued'[outbox'[k].m.id.record]
             /\ outbox'[k].m.base = 0
             /\ outbox'[k].m.content = local[outbox'[k].m.id.record].content
        /\ \A j, k \in DOMAIN outbox' : outbox'[j].m.id.record = outbox'[k].m.id.record => j = k
    <2>1. CASE outbox' = << >>
      BY <2>1
    <2>2. ASSUME run.command = "reseed", outbox' = Creates(DependencyOrder(PresentRecords)),
                 Issue(PresentRecords)
          PROVE  /\ outbox' \in Seq(Row)
                 /\ \A k \in DOMAIN outbox' :
                      /\ outbox'[k].m.id.record \in PresentRecords
                      /\ outbox'[k].m.id.n = issued'[outbox'[k].m.id.record]
                      /\ outbox'[k].m.base = 0
                      /\ outbox'[k].m.content = local[outbox'[k].m.id.record].content
                 /\ \A j, k \in DOMAIN outbox' : outbox'[j].m.id.record = outbox'[k].m.id.record => j = k
      <3>1. PICK a : a = Creates(DependencyOrder(PresentRecords))
        OBVIOUS
      <3>2. /\ a \in Seq(Row)
            /\ \A k \in DOMAIN a :
                 /\ a[k].m.id.record \in PresentRecords
                 /\ a[k].m.id.n = issued[a[k].m.id.record] + 1
                 /\ a[k].m.base = 0
                 /\ a[k].m.content = local[a[k].m.id.record].content
            /\ \A j, k \in DOMAIN a : a[j].m.id.record = a[k].m.id.record => j = k
        BY <1>3, <1>4, <3>1, OrderedCreates
      <3>3. \A r \in PresentRecords : issued'[r] = issued[r] + 1
        BY <1>3, <2>2 DEF Issue
      <3>4. outbox' = a
        BY <2>2, <3>1
      <3> QED
        BY <3>2, <3>3, <3>4
    <2> QED
      BY <1>2, <2>1, <2>2
  <1>9. /\ \A i, j \in DOMAIN outbox' : outbox'[i].m.id = outbox'[j].m.id => i = j
    BY <1>8
  <1>10. /\ snapshot' \in [Records -> [hash : 0..Elsewhere, seen : BOOLEAN]]
         /\ \A r \in Records : snapshot'[r].hash = local[r].content /\ snapshot'[r].seen = FALSE
         /\ Snapshot' = PresentRecords /\ Unseen' = PresentRecords
    <2>1. \A r \in Records : snapshot'[r] = [hash |-> local[r].content, seen |-> FALSE]
      BY <1>1
    <2>2. snapshot' \in [Records -> [hash : 0..Elsewhere, seen : BOOLEAN]]
      BY <1>1, <1>5
    <2> QED
      BY <2>1, <2>2 DEF Snapshot, Unseen, PresentRecords, Present
  <1>11. /\ transition' \in [mode : Modes \cup {"none"},
                             status : {"none", "pulling", "publishing", "completed"}]
         /\ transition'.mode = run.command /\ transition'.mode # "none"
         /\ transition'.status \in {"pulling", "publishing"}
         /\ transition'.status = "pulling" => run.command = "rejoin"
    BY <1>1 DEF Modes
  <1>12. /\ intent' \in [mode : Modes \cup {"none"}, sealed : BOOLEAN]
         /\ intent'.mode = "none" /\ ~intent'.sealed
    BY <1>1
  <1>13. /\ cursor' \in [exists : BOOLEAN, history : 0..MaxHistory, position : Nat, watermark : Nat]
         /\ ~cursor'.exists /\ cursor'.history = 0 /\ cursor'.position = 0 /\ cursor'.watermark = 0
         /\ repair' \in [status : {"none", "pending", "completed", "rejected"}, n : Nat]
         /\ repair'.status = "none" /\ receipts' = {}
    <2>1. 0 \in 0..MaxHistory
      BY TransitionAssumption
    <2>2. /\ cursor' = [exists |-> FALSE, history |-> 0, position |-> 0, watermark |-> 0]
          /\ repair' = [status |-> "none", n |-> 0] /\ receipts' = {}
      BY <1>1 DEF ClearSyncState
    <2> QED
      BY <2>1, <2>2
  <1>14. /\ history' = history /\ log' = log /\ late' = late /\ backup' = backup
         /\ edits' = edits /\ kills' = kills
    BY <1>1 DEF cloud
  <1>15. "continue" \in Points
    BY DEF Points
  <1>16. RunSound /\ run'.pc = "continue"
    BY <1>1, <1>15, AtIs DEF TransInv
  <1>17. TypeOK'
    <2>1. cursor'.position <= cursor'.watermark
      BY <1>13
    <2>2. receipts' \subseteq Receipt
      BY <1>13
    <2>3. run' \in RunType /\ Len(run'.answers) <= Len(run'.claims)
      BY <1>16 DEF RunSound
    <2> QED
      BY <1>3, <1>6, <1>7, <1>8, <1>9, <1>10, <1>11, <1>12, <1>13, <1>14, <2>1, <2>2, <2>3
         DEF TypeOK, RunType
  <1>18. LogInv'
    BY <1>14 DEF TransInv, LogInv
  <1>19. QueueInv'
    <2>1. Present(Project)'
      BY <1>6, TransitionAssumption DEF TransInv, QueueInv, Present
    <2>2. \A k \in DOMAIN outbox' : /\ outbox'[k].m.id.n <= issued'[outbox'[k].m.id.record]
                                    /\ ~(outbox'[k].m.base > 0)
      BY <1>3, <1>7, <1>8
    <2> QED
      BY <2>1, <2>2 DEF QueueInv
  <1>20. Active' /\ ~Completed'
    BY <1>11 DEF Active, Completed
  <1>21. PlaceInv' /\ BatchInv'
    BY <1>16, <1>20 DEF PlaceInv, BatchInv, Batch
  <1>22. BackupInv'
    BY <1>11, <1>12 DEF BackupInv, Intended
  <1>23. CursorInv'
    <2>1. history \in Nat /\ history >= 1
      BY DEF TransInv, TypeOK, CursorInv
    <2> QED
      BY <1>11, <1>13, <1>14, <2>1 DEF CursorInv
  <1>24. ActiveInv'
    <2>1. \A r \in Records : local'[r].content = snapshot'[r].hash
      BY <1>6, <1>10
    <2>2. ASSUME NEW k \in DOMAIN outbox'
          PROVE  /\ outbox'[k].m.base = 0
                 /\ outbox'[k].m.content = snapshot'[outbox'[k].m.id.record].hash
                 /\ outbox'[k].m.id.record \in Snapshot'
      BY <1>3, <1>8, <1>10, <2>2
    <2>3. Acyclic(Snapshot')
      BY <1>4, <1>10
    <2>4. \A r \in Snapshot' : r \in Records
      BY <1>3, <1>10
    <2>5. transition'.status = "pulling" => outbox' = << >>
      BY <1>8, <1>11
    <2>6. ASSUME NEW k \in DOMAIN outbox'
          PROVE  local'[outbox'[k].m.id.record].version = 0
      <3>1. outbox' # << >>
        BY <2>6
      <3>2. local' = [r \in Records |-> [local[r] EXCEPT !.version = 0]]
        BY <1>2, <3>1
      <3>3. outbox'[k].m.id.record \in Records
        BY <1>3, <1>8, <2>6
      <3> QED
        BY <1>5, <3>2, <3>3
    <2>7. ~RepairPending'
      BY <1>13 DEF RepairPending
    <2> QED
      BY <1>8, <1>11, <1>20, <2>1, <2>2, <2>3, <2>4, <2>5, <2>6, <2>7 DEF ActiveInv
  <1>25. SeenInv'
    BY <1>3, <1>10 DEF SeenInv
  <1>26. RepairGoesFirst'
    BY <1>13 DEF RepairGoesFirst, RepairPending
  <1> QED
    BY <1>17, <1>18, <1>19, <1>21, <1>22, <1>23, <1>24, <1>25, <1>26 DEF TransInv

----------------------------------------------------------------------------

(***************************************************************************)
(* A result is applied.                                                    *)
(***************************************************************************)

\* f says where what is left was.
Places(f, rest, s, i) ==
  /\ f \in [DOMAIN rest -> DOMAIN s \ {i}]
  /\ \A j, k \in DOMAIN rest : f[j] = f[k] => j = k
  /\ \A j \in DOMAIN s \ {i} : \E k \in DOMAIN rest : f[k] = j

LEMMA RemovedIs ==
  ASSUME NEW s \in Seq(Row), NEW i \in DOMAIN s, NEW rest, rest = RemoveAt(s, i)
  PROVE  /\ rest \in Seq(Row)
         /\ \E f : Places(f, rest, s, i) /\ \A k \in DOMAIN rest : rest[k] = s[f[k]]
  <1>1. PICK n \in Nat : Len(s) = n /\ DOMAIN s = 1..n
    OBVIOUS
  <1>2. i \in 1..n /\ \A k \in 1..n : s[k] \in Row
    BY <1>1
  <1>3. PICK u : u = SubSeq(s, 1, i - 1)
    OBVIOUS
  <1>4. PICK v : v = SubSeq(s, i + 1, n)
    OBVIOUS
  <1>5. /\ u \in Seq(Row) /\ Len(u) = i - 1
        /\ \A k \in 1..i - 1 : u[k] = s[k]
    <2>1. 1 \in Int /\ i - 1 \in Int /\ \A k \in 1..i - 1 : s[k] \in Row
      BY <1>2
    <2>2. /\ SubSeq(s, 1, i - 1) \in Seq(Row)
          /\ Len(SubSeq(s, 1, i - 1)) = IF 1 <= i - 1 THEN i - 1 - 1 + 1 ELSE 0
          /\ \A k \in 1..i - 1 - 1 + 1 : SubSeq(s, 1, i - 1)[k] = s[1 + k - 1]
      BY <2>1, SubSeqProperties
    <2>3. i - 1 - 1 + 1 = i - 1 /\ (~(1 <= i - 1) => i - 1 = 0) /\ \A k \in 1..i - 1 : 1 + k - 1 = k
      BY <1>2
    <2>4. \A k \in 1..i - 1 : u[k] = s[k]
      BY <1>3, <2>2, <2>3
    <2> QED
      BY <1>3, <2>2, <2>3, <2>4
  <1>6. /\ v \in Seq(Row) /\ Len(v) = n - i
        /\ \A k \in 1..n - i : v[k] = s[i + k]
    <2>1. i + 1 \in Int /\ n \in Int /\ \A k \in i + 1..n : s[k] \in Row
      BY <1>1, <1>2
    <2>2. /\ SubSeq(s, i + 1, n) \in Seq(Row)
          /\ Len(SubSeq(s, i + 1, n)) = IF i + 1 <= n THEN n - (i + 1) + 1 ELSE 0
          /\ \A k \in 1..n - (i + 1) + 1 : SubSeq(s, i + 1, n)[k] = s[i + 1 + k - 1]
      BY <2>1, SubSeqProperties
    <2>3. n - (i + 1) + 1 = n - i /\ (~(i + 1 <= n) => n - i = 0) /\ \A k \in 1..n - i : i + 1 + k - 1 = i + k
      BY <1>1, <1>2
    <2>4. \A k \in 1..n - i : v[k] = s[i + k]
      BY <1>4, <2>2, <2>3
    <2> QED
      BY <1>4, <2>2, <2>3, <2>4
  <1>7. rest = u \o v
    BY <1>1, <1>3, <1>4 DEF RemoveAt
  <1>8. /\ rest \in Seq(Row) /\ Len(rest) = n - 1
        /\ \A k \in 1..n - 1 : rest[k] = IF k <= i - 1 THEN u[k] ELSE v[k - (i - 1)]
    <2>1. /\ u \o v \in Seq(Row) /\ Len(u \o v) = Len(u) + Len(v)
          /\ \A k \in 1..Len(u) + Len(v) : (u \o v)[k] = IF k <= Len(u) THEN u[k] ELSE v[k - Len(u)]
      BY <1>5, <1>6, ConcatProperties
    <2>2. Len(u) + Len(v) = n - 1
      BY <1>1, <1>2, <1>5, <1>6
    <2> QED
      BY <1>5, <1>7, <2>1, <2>2
  <1>9. DOMAIN rest = 1..n - 1
    BY <1>8
  <1> DEFINE F(k) == IF k <= i - 1 THEN k ELSE k + 1
  <1>10. ASSUME NEW k \in 1..n - 1
         PROVE  F(k) \in 1..n /\ F(k) # i /\ rest[k] = s[F(k)]
    <2>1. CASE k <= i - 1
      <3>1. k \in 1..i - 1
        BY <1>2, <1>10, <2>1
      <3>2. rest[k] = s[k]
        BY <1>5, <1>8, <1>10, <2>1, <3>1
      <3> QED
        BY <1>1, <1>2, <1>10, <2>1, <3>2
    <2>2. CASE ~(k <= i - 1)
      <3>1. k - (i - 1) \in 1..n - i /\ i + (k - (i - 1)) = k + 1
        BY <1>1, <1>2, <1>10, <2>2
      <3>2. rest[k] = s[k + 1]
        BY <1>6, <1>8, <1>10, <2>2, <3>1
      <3> QED
        BY <1>1, <1>2, <1>10, <2>2, <3>2
    <2> QED
      BY <2>1, <2>2
  <1>11. \A j, k \in 1..n - 1 : F(j) = F(k) => j = k
    BY <1>1, <1>2
  <1>12. \A j \in 1..n : j # i => \E k \in 1..n - 1 : F(k) = j
    <2> SUFFICES ASSUME NEW j \in 1..n, j # i
                 PROVE  \E k \in 1..n - 1 : F(k) = j
      OBVIOUS
    <2>1. CASE j < i
      BY <1>1, <1>2, <2>1
    <2>2. CASE j > i
      <3>1. j - 1 \in 1..n - 1 /\ F(j - 1) = j
        BY <1>1, <1>2, <2>2
      <3> QED
        BY <3>1
    <2> QED
      BY <1>1, <1>2, <2>1, <2>2
  <1> HIDE DEF F
  <1>13. PICK f : f = [k \in 1..n - 1 |-> F(k)]
    OBVIOUS
  <1>14. f \in [DOMAIN rest -> DOMAIN s \ {i}]
    BY <1>1, <1>9, <1>10, <1>13
  <1>15. /\ \A k \in DOMAIN rest : rest[k] = s[f[k]]
         /\ \A j, k \in DOMAIN rest : f[j] = f[k] => j = k
         /\ \A j \in DOMAIN s \ {i} : \E k \in DOMAIN rest : f[k] = j
    BY <1>1, <1>9, <1>10, <1>11, <1>12, <1>13
  <1> QED
    BY <1>8, <1>14, <1>15 DEF Places

\* A row behind an accepted mutation of its record is based on it.
Follows(row, old, m, a) ==
  /\ row \in Row /\ row.m.id = old.m.id /\ row.m.content = old.m.content /\ row.claim = old.claim
  /\ \/ row = old
     \/ old.m.id.record = m.id.record /\ a.disposition = "accepted" /\ row.m.base = a.version

LEMMA WithoutIs ==
  ASSUME TypeOK, NEW m \in Mutation, NEW a \in Answer, NEW i \in DOMAIN outbox, outbox[i].m = m,
         NEW q, q = RowsWithout(m, a)
  PROVE  /\ q \in Seq(Row)
         /\ \E f : Places(f, q, outbox, i) /\ \A k \in DOMAIN q : Follows(q[k], outbox[f[k]], m, a)
  <1>1. /\ outbox \in Seq(Row) /\ \A j \in DOMAIN outbox : outbox[j] \in Row
        /\ \A j, k \in DOMAIN outbox : outbox[j].m.id = outbox[k].m.id => j = k
    BY OutboxFields
  <1>2. i = CHOOSE j \in DOMAIN outbox : outbox[j].m = m
    <2>1. \A j \in DOMAIN outbox : outbox[j].m = m => j = i
      BY <1>1
    <2> QED
      BY <2>1
  <1>3. PICK rest : rest = RemoveAt(outbox, i)
    OBVIOUS
  <1>4. rest \in Seq(Row)
    BY <1>1, <1>3, RemovedIs
  <1>5. PICK f : Places(f, rest, outbox, i) /\ \A k \in DOMAIN rest : rest[k] = outbox[f[k]]
    BY <1>1, <1>3, RemovedIs
  <1> DEFINE F(row) == IF row.m.id.record = m.id.record /\ a.disposition = "accepted"
                         THEN [row EXCEPT !.m.base = a.version] ELSE row
  <1>6. q = [k \in DOMAIN rest |-> F(rest[k])]
    BY <1>2, <1>3 DEF RowsWithout
  <1>7. ASSUME NEW row \in Row
        PROVE  Follows(F(row), row, m, a)
    <2>1. a.version \in Nat
      BY DEF Answer
    <2>2. \A x \in Row, base \in Nat :
             /\ [x EXCEPT !.m.base = base] \in Row
             /\ [x EXCEPT !.m.base = base].m.id = x.m.id
             /\ [x EXCEPT !.m.base = base].m.base = base
             /\ [x EXCEPT !.m.base = base].m.content = x.m.content
             /\ [x EXCEPT !.m.base = base].claim = x.claim
      BY DEF Row, Mutation
    <2>3. PICK b : b = [row EXCEPT !.m.base = a.version]
      OBVIOUS
    <2>4. /\ b \in Row /\ b.m.id = row.m.id /\ b.m.base = a.version
          /\ b.m.content = row.m.content /\ b.claim = row.claim
      BY <2>1, <2>2, <2>3
    <2>5. CASE row.m.id.record = m.id.record /\ a.disposition = "accepted"
      <3>1. F(row) = b
        BY <2>3, <2>5
      <3> HIDE DEF F
      <3> QED
        BY <2>4, <2>5, <3>1 DEF Follows
    <2>6. CASE ~(row.m.id.record = m.id.record /\ a.disposition = "accepted")
      <3>1. F(row) = row
        BY <2>6
      <3> HIDE DEF F
      <3> QED
        BY <3>1 DEF Follows
    <2> QED
      BY <2>5, <2>6
  <1> HIDE DEF F
  <1>8. PICK n \in Nat : DOMAIN rest = 1..n /\ \A k \in 1..n : rest[k] \in Row
    BY <1>4
  <1>9. \A k \in DOMAIN rest : F(rest[k]) \in Row
    BY <1>7, <1>8 DEF Follows
  <1>10. q \in [1..n -> Row] /\ DOMAIN q = DOMAIN rest
    BY <1>6, <1>8, <1>9
  <1>11. q \in Seq(Row)
    BY <1>10
  <1>12. \A k \in DOMAIN q : Follows(q[k], outbox[f[k]], m, a)
    <2> SUFFICES ASSUME NEW k \in DOMAIN q
                 PROVE  Follows(q[k], outbox[f[k]], m, a)
      OBVIOUS
    <2>1. q[k] = F(rest[k]) /\ rest[k] = outbox[f[k]] /\ rest[k] \in Row
      BY <1>5, <1>6, <1>8, <1>10
    <2>2. Follows(F(rest[k]), rest[k], m, a)
      BY <1>7, <2>1
    <2> QED
      BY <2>1, <2>2
  <1>13. Places(f, q, outbox, i)
    BY <1>5, <1>10 DEF Places
  <1> QED
    BY <1>11, <1>12, <1>13

LEMMA ApplyStep ==
  ASSUME TransInv, ApplySyncPushResult
  PROVE  TransInv'
  <1>1. PICK m : m = Head(run.claims)
    OBVIOUS
  <1>2. PICK a : a = Head(run.answers)
    OBVIOUS
  <1>3. TypeOK /\ run.pc = "apply" /\ Batch /\ run \in RunType
    BY RunFields DEF ApplySyncPushResult, Batch, TransInv
  <1>4. /\ run.claims \in Seq(Mutation) /\ run.answers \in Seq(Answer) /\ run.claims # << >>
        /\ Len(run.claims) \in Nat /\ Len(run.answers) = Len(run.claims)
        /\ DOMAIN run.claims = 1..Len(run.claims) /\ Len(run.claims) > 0
    <2>1. /\ run.claims \in Seq(Mutation) /\ run.answers \in Seq(Answer) /\ run.claims # << >>
          /\ Len(run.claims) \in Nat /\ Len(run.answers) = Len(run.claims)
          /\ DOMAIN run.claims = 1..Len(run.claims)
      BY <1>3, RunFields DEF TransInv, BatchInv
    <2>2. Len(run.claims) # 0
      BY <2>1, EmptySeq
    <2> QED
      BY <2>1, <2>2
  <1>5. m = run.claims[1] /\ m \in Mutation /\ 1 \in DOMAIN run.claims
    BY <1>1, <1>4
  <1>6. a = run.answers[1] /\ a \in Answer /\ 1 \in DOMAIN run.answers
    BY <1>2, <1>4
  <1>7. a.disposition \in {"accepted", "conflict", "invalid_base", "invalid_prerequisite"}
          /\ a.version \in Nat
    BY <1>6 DEF Answer
  <1>8. /\ m.id \in Id /\ m.id.record \in Records /\ m.base \in Nat
    BY <1>5, MutationFields
  <1>9. PICK i \in DOMAIN outbox : outbox[i].m = m /\ outbox[i].claim = "held"
    BY <1>3, <1>5 DEF TransInv, BatchInv
  <1>10. /\ Settles(m, a) /\ outbox' = RowsWithout(m, a)
         /\ local' = IF a.version > 0 /\ ~IsRepair(m)
                       THEN [local EXCEPT ![m.id.record].version = a.version] ELSE local
         /\ receipts' = IF m.base = 0
                          THEN receipts \cup {[id |-> m.id, disposition |-> a.disposition]}
                          ELSE receipts
         /\ repair' = IF IsRepair(m)
                        THEN [repair EXCEPT !.status =
                                IF a.disposition = "accepted" THEN "completed" ELSE "rejected"]
                        ELSE repair
         /\ UNCHANGED <<cloud, issued, moving, edits, kills>>
    BY <1>1, <1>2 DEF ApplySyncPushResult
  <1>11. PICK blocking : blocking = (run.blocking \/ a.disposition # "accepted")
    OBVIOUS
  <1>12. PICK last \in BOOLEAN : last <=> Len(run.claims) = 1
    OBVIOUS
  <1>13. run' = IF last /\ blocking THEN Idle
                ELSE [run EXCEPT !.claims = Tail(@), !.answers = Tail(@), !.blocking = blocking,
                                 !.pc = IF last THEN "claim" ELSE "apply"]
    BY <1>2, <1>11, <1>12 DEF ApplySyncPushResult
  <1>14. /\ history' = history /\ log' = log /\ late' = late /\ issued' = issued
         /\ cursor' = cursor /\ intent' = intent /\ backup' = backup /\ transition' = transition
         /\ snapshot' = snapshot /\ edits' = edits /\ kills' = kills
    BY <1>10 DEF cloud, moving
  <1>15. PICK f : /\ Places(f, outbox', outbox, i)
                  /\ \A k \in DOMAIN outbox' : Follows(outbox'[k], outbox[f[k]], m, a)
    BY <1>3, <1>5, <1>6, <1>9, <1>10, WithoutIs
  <1>16. outbox' \in Seq(Row)
    BY <1>3, <1>5, <1>6, <1>9, <1>10, WithoutIs
  <1>17. \A k \in DOMAIN outbox' : f[k] \in DOMAIN outbox /\ f[k] # i
    BY <1>15 DEF Places
  <1>18. \A k \in DOMAIN outbox' :
           /\ outbox'[k].m.id = outbox[f[k]].m.id /\ outbox'[k].m.content = outbox[f[k]].m.content
           /\ outbox'[k].claim = outbox[f[k]].claim
           /\ \/ outbox'[k] = outbox[f[k]]
              \/ /\ outbox[f[k]].m.id.record = m.id.record /\ a.disposition = "accepted"
                 /\ outbox'[k].m.base = a.version
    BY <1>15 DEF Follows
  <1>19. ~Completed
    BY <1>3, IdleIs DEF TransInv, PlaceInv, Batch
  <1>20. /\ local' \in [Records -> [content : 0..Elsewhere, version : Nat]]
         /\ \A r \in Records : local'[r].content = local[r].content
         /\ \A r \in Records : local[r].version > 0 => local'[r].version > 0
         /\ \A r \in Records : r # m.id.record => local'[r] = local[r]
         /\ a.disposition = "accepted" /\ a.version > 0 => local'[m.id.record].version > 0
    <2>1. \A r \in Records : local[r] \in [content : 0..Elsewhere, version : Nat]
      BY <1>3, LocalFields
    <2>2. local \in [Records -> [content : 0..Elsewhere, version : Nat]]
      BY <1>3 DEF TypeOK
    <2>3. CASE a.version > 0 /\ ~IsRepair(m)
      <3>1. \A y \in [content : 0..Elsewhere, version : Nat] :
               /\ [y EXCEPT !.version = a.version] \in [content : 0..Elsewhere, version : Nat]
               /\ [y EXCEPT !.version = a.version].content = y.content
               /\ [y EXCEPT !.version = a.version].version = a.version
        BY <1>7
      <3>2. local' = [local EXCEPT ![m.id.record] = [local[m.id.record] EXCEPT !.version = a.version]]
        BY <1>10, <2>3
      <3>3. local'[m.id.record] = [local[m.id.record] EXCEPT !.version = a.version]
        BY <1>8, <2>2, <3>2
      <3>4. /\ local'[m.id.record] \in [content : 0..Elsewhere, version : Nat]
            /\ local'[m.id.record].content = local[m.id.record].content
            /\ local'[m.id.record].version = a.version
        BY <1>8, <2>1, <3>1, <3>3
      <3>5. \A r \in Records : r # m.id.record => local'[r] = local[r]
        BY <2>2, <3>2
      <3>6. local' \in [Records -> [content : 0..Elsewhere, version : Nat]]
        BY <2>1, <2>2, <3>2, <3>3, <3>4
      <3> QED
        BY <2>3, <3>4, <3>5, <3>6
    <2>4. CASE ~(a.version > 0 /\ ~IsRepair(m))
      <3>1. local' = local
        BY <1>10, <2>4
      <3>2. a.disposition = "accepted" /\ a.version > 0 => local[m.id.record].version > 0
        <4> SUFFICES ASSUME a.disposition = "accepted", a.version > 0
                     PROVE  local[m.id.record].version > 0
          OBVIOUS
        <4>1. IsRepair(m)
          BY <2>4
        <4>2. local[m.id.record].version = 1
          BY <1>10, <4>1 DEF Settles
        <4> QED
          BY <4>2
      <3> QED
        BY <2>2, <3>1, <3>2
    <2> QED
      BY <2>3, <2>4
  <1>21. /\ repair' \in [status : {"none", "pending", "completed", "rejected"}, n : Nat]
         /\ RepairPending' => repair' = repair
         /\ repair'.status = "completed" => \/ repair' = repair
                                            \/ IsRepair(m) /\ a.disposition = "accepted"
    <2>1. repair \in [status : {"none", "pending", "completed", "rejected"}, n : Nat]
      BY <1>3 DEF TypeOK
    <2>2. CASE IsRepair(m)
      <3>1. PICK status \in {"completed", "rejected"} :
              status = (IF a.disposition = "accepted" THEN "completed" ELSE "rejected")
        OBVIOUS
      <3>2. repair' = [repair EXCEPT !.status = status]
        BY <1>10, <2>2, <3>1
      <3>3. repair' \in [status : {"none", "pending", "completed", "rejected"}, n : Nat]
              /\ repair'.status = status
        BY <2>1, <3>2
      <3> QED
        BY <2>2, <3>1, <3>3 DEF RepairPending
    <2>3. CASE ~IsRepair(m)
      BY <1>10, <2>1, <2>3
    <2> QED
      BY <2>2, <2>3
  <1>22. receipts' \subseteq Receipt
    <2>1. receipts \subseteq Receipt
      BY <1>3 DEF TypeOK
    <2>2. [id |-> m.id, disposition |-> a.disposition] \in Receipt
      BY <1>7, <1>8 DEF Receipt
    <2> QED
      BY <1>10, <2>1, <2>2
  <1>23. \A j, k \in DOMAIN outbox' : outbox'[j].m.id = outbox'[k].m.id => j = k
    <2> SUFFICES ASSUME NEW j \in DOMAIN outbox', NEW k \in DOMAIN outbox',
                        outbox'[j].m.id = outbox'[k].m.id
                 PROVE  j = k
      OBVIOUS
    <2>1. outbox[f[j]].m.id = outbox[f[k]].m.id /\ f[j] \in DOMAIN outbox /\ f[k] \in DOMAIN outbox
      BY <1>17, <1>18
    <2>2. f[j] = f[k]
      BY <1>3, <2>1, OutboxFields
    <2> QED
      BY <1>15, <2>2 DEF Places
  <1>24. /\ RunSound
         /\ \/ run' = Idle
            \/ run'.pc = "claim"
            \/ /\ run'.pc = "apply" /\ ~last
               /\ run'.claims = Tail(run.claims) /\ run'.answers = Tail(run.answers)
    <2>1. CASE last /\ blocking
      <3>1. run' = Idle
        BY <1>13, <2>1
      <3> QED
        BY <3>1, IdleIs DEF RunSound
    <2>2. CASE ~(last /\ blocking)
      <3>1. PICK pc \in Points : pc = (IF last THEN "claim" ELSE "apply")
        BY DEF Points
      <3>2. PICK b \in BOOLEAN : b = blocking
        BY <1>11
      <3>3. PICK cs \in Seq(Mutation) : cs = Tail(run.claims) /\ Len(cs) = Len(run.claims) - 1
        BY <1>4, HeadTailProperties
      <3>4. run.answers # << >>
        BY <1>4
      <3>5. PICK as \in Seq(Answer) : as = Tail(run.answers) /\ Len(as) = Len(run.answers) - 1
        BY <1>4, <3>4, HeadTailProperties
      <3>6. run' = [run EXCEPT !.claims = cs, !.answers = as, !.blocking = b, !.pc = pc]
        BY <1>13, <2>2, <3>1, <3>2, <3>3, <3>5
      <3>7. ASSUME NEW x \in RunType
            PROVE  LET y == [x EXCEPT !.claims = cs, !.answers = as, !.blocking = b, !.pc = pc]
                   IN y \in RunType /\ y.claims = cs /\ y.answers = as /\ y.pc = pc
        BY DEF RunType
      <3>8. run' \in RunType /\ run'.claims = cs /\ run'.answers = as /\ run'.pc = pc
        BY <1>3, <3>6, <3>7
      <3>9. Len(as) <= Len(cs)
        BY <1>4, <3>3, <3>5
      <3>10. RunSound
        BY <3>8, <3>9 DEF RunSound
      <3> QED
        BY <3>1, <3>3, <3>5, <3>8, <3>10
    <2> QED
      BY <2>1, <2>2
  <1>25. TypeOK'
    <2>1. run' \in RunType /\ Len(run'.answers) <= Len(run'.claims)
      BY <1>24 DEF RunSound
    <2> QED
      BY <1>3, <1>14, <1>16, <1>20, <1>21, <1>22, <1>23, <2>1 DEF TypeOK, RunType
  <1>26. LogInv' /\ CursorInv'
    BY <1>14 DEF TransInv, LogInv, CursorInv
  <1>27. QueueInv'
    <2>1. Present(Project)'
      BY <1>20, TransitionAssumption DEF TransInv, QueueInv, Present
    <2>2. ASSUME NEW k \in DOMAIN outbox'
          PROVE  /\ outbox'[k].m.id.n <= issued'[outbox'[k].m.id.record]
                 /\ outbox'[k].m.base > 0 => local'[outbox'[k].m.id.record].version > 0
      <3>1. PICK old : old = outbox[f[k]]
        OBVIOUS
      <3>2. /\ old.m.id.n <= issued[old.m.id.record] /\ old.m.id.record \in Records
            /\ old.m.base > 0 => local[old.m.id.record].version > 0
        BY <1>3, <1>17, <3>1, OutboxFields DEF TransInv, QueueInv
      <3>3. outbox'[k].m.id.n <= issued'[outbox'[k].m.id.record]
        BY <1>14, <1>18, <3>1, <3>2
      <3>4. CASE outbox'[k] = old
        BY <1>20, <3>2, <3>3, <3>4
      <3>5. CASE /\ old.m.id.record = m.id.record /\ a.disposition = "accepted"
                 /\ outbox'[k].m.base = a.version
        <4>1. outbox'[k].m.id.record = m.id.record
          BY <1>18, <3>1, <3>5
        <4> QED
          BY <1>20, <3>3, <3>5, <4>1
      <3> QED
        BY <1>18, <3>1, <3>4, <3>5
    <2> QED
      BY <2>1, <2>2 DEF QueueInv
  <1>28. PlaceInv'
    BY <1>14, <1>19, <1>24, OutsidePlaces DEF PlaceInv, Completed
  <1>29. BatchInv'
    <2>1. CASE run' = Idle
      BY <2>1, OutsidePlaces
    <2>2. CASE run'.pc = "claim"
      BY <2>2 DEF BatchInv, Batch
    <2>3. CASE /\ run'.pc = "apply" /\ ~last
               /\ run'.claims = Tail(run.claims) /\ run'.answers = Tail(run.answers)
      <3>1. PICK n \in Nat : n = Len(run.claims) - 1 /\ n > 0
        <4>1. Len(run.claims) # 1
          BY <1>12, <2>3
        <4>3. \A l \in Nat : l > 0 /\ l # 1 => l - 1 \in Nat /\ l - 1 > 0
          OBVIOUS
        <4>2. Len(run.claims) - 1 \in Nat /\ Len(run.claims) - 1 > 0
          BY <1>4, <4>1, <4>3
        <4> QED
          BY <4>2
      <3>2. PICK cs \in Seq(Mutation) : cs = Tail(run.claims)
        BY <1>4, HeadTailProperties
      <3>3. Len(cs) = n /\ DOMAIN cs = 1..n /\ \A k \in 1..n : cs[k] = run.claims[k + 1]
        <4>1. Len(cs) = n /\ \A k \in 1..Len(cs) : cs[k] = run.claims[k + 1]
          BY <1>4, <3>1, <3>2, HeadTailProperties
        <4> QED
          BY <4>1
      <3>4. run.answers # << >>
        BY <1>4
      <3>5. PICK as \in Seq(Answer) : as = Tail(run.answers)
        BY <1>4, <3>4, HeadTailProperties
      <3>6. Len(as) = n /\ DOMAIN as = 1..n /\ \A k \in 1..n : as[k] = run.answers[k + 1]
        <4>1. /\ Len(Tail(run.answers)) = Len(run.answers) - 1
              /\ \A k \in 1..Len(Tail(run.answers)) : Tail(run.answers)[k] = run.answers[k + 1]
          BY <1>4, <3>4, HeadTailProperties
        <4>3. Len(as) = n
          BY <1>4, <3>1, <3>5, <4>1
        <4>2. Len(as) = n /\ \A k \in 1..n : as[k] = run.answers[k + 1]
          BY <3>5, <4>1, <4>3
        <4> QED
          BY <3>5, <4>2
      <3>7. \A k \in 1..n : k + 1 \in DOMAIN run.claims /\ k + 1 \in DOMAIN run.answers /\ k + 1 # 1
        BY <1>4, <3>1
      <3>8. cs # << >>
        BY <3>1, <3>3
      <3>9. ASSUME NEW k \in 1..n
            PROVE  \E j \in DOMAIN outbox' : outbox'[j].m = cs[k] /\ outbox'[j].claim = "held"
        <4>1. PICK j \in DOMAIN outbox : outbox[j].m = run.claims[k + 1] /\ outbox[j].claim = "held"
          BY <1>3, <3>7 DEF TransInv, BatchInv
        <4>2. run.claims[k + 1].id.record # m.id.record
          BY <1>3, <1>5, <3>7 DEF TransInv, BatchInv
        <4>3. j # i
          BY <1>9, <4>1, <4>2
        <4>4. PICK l \in DOMAIN outbox' : f[l] = j
          BY <1>15, <4>3 DEF Places
        <4>5. outbox'[l] = outbox[j]
          BY <1>18, <4>1, <4>2, <4>4
        <4> QED
          BY <3>3, <4>1, <4>4, <4>5
      <3>10. ASSUME NEW j \in 1..n, NEW k \in 1..n, cs[j].id.record = cs[k].id.record
             PROVE  j = k
        <4>1. run.claims[j + 1].id.record = run.claims[k + 1].id.record
          BY <3>3, <3>10
        <4>2. j + 1 = k + 1
          BY <1>3, <3>7, <4>1 DEF TransInv, BatchInv
        <4> QED
          BY <4>2
      <3>11. ASSUME history = 1, NEW k \in 1..n, as[k].disposition = "accepted"
             PROVE  Published(cs[k].id.record)
        <4>1. as[k] = run.answers[k + 1] /\ cs[k] = run.claims[k + 1] /\ k + 1 \in DOMAIN run.answers
          BY <3>3, <3>6, <3>7
        <4> QED
          BY <1>3, <3>11, <4>1 DEF TransInv, BatchInv
      <3>12. \A r : Published(r)' <=> Published(r)
        BY <1>14 DEF Published, Accepted
      <3>13. history' = 1 => \A k \in 1..n : as[k].disposition = "accepted" => Published(cs[k].id.record)'
        BY <1>14, <3>11, <3>12
      <3>14. run'.claims = cs /\ run'.answers = as
        BY <2>3, <3>2, <3>5
      <3>15. Unseen' = Unseen /\ (Active' <=> Active)
        BY <1>14 DEF Snapshot, Unseen, Active
      <3>16. Active => \A k \in DOMAIN run.claims : run.claims[k].id.record \in Unseen
        BY <1>3 DEF TransInv, BatchInv
      <3>17. Active' => \A k \in 1..n : cs[k].id.record \in Unseen'
        BY <3>3, <3>7, <3>15, <3>16
      <3> QED
        BY <3>3, <3>6, <3>8, <3>9, <3>10, <3>13, <3>14, <3>17 DEF BatchInv
    <2> QED
      BY <1>24, <2>1, <2>2, <2>3
  <1>30. BackupInv'
    <2>1. \A k \in DOMAIN outbox' : Write(outbox'[k].m) = Write(outbox[f[k]].m)
      BY <1>18 DEF Write
    <2> QED
      BY <1>14, <1>17, <1>20, <2>1 DEF TransInv, BackupInv, Intended
  <1>31. ActiveInv'
    <2>1. Snapshot' = Snapshot /\ Unseen' = Unseen /\ (Active' <=> Active) /\ ~Completed'
      BY <1>14, <1>19 DEF Snapshot, Unseen, Active, Completed
    <2>2. Active => /\ Acyclic(Snapshot)
                    /\ \A r \in Snapshot : local'[r].content = snapshot[r].hash
                    /\ transition.status # "pulling"
      <3>1. \A r \in Snapshot : r \in Records
        BY DEF Snapshot
      <3>2. outbox # << >>
        BY <1>9
      <3> QED
        BY <1>20, <3>1, <3>2 DEF TransInv, ActiveInv
    <2>3. ASSUME Active, NEW k \in DOMAIN outbox'
          PROVE  /\ outbox'[k] = outbox[f[k]]
                 /\ outbox'[k].m.base = 0 /\ outbox'[k].m.content = snapshot[outbox'[k].m.id.record].hash
                 /\ outbox'[k].m.id.record \in Snapshot
                 /\ \/ local'[outbox'[k].m.id.record].version = 0
                    \/ snapshot[outbox'[k].m.id.record].seen
      <3>1. outbox[f[k]].m.id.record # outbox[i].m.id.record
        BY <1>9, <1>17, <2>3 DEF TransInv, ActiveInv
      <3>2. outbox'[k] = outbox[f[k]]
        BY <1>9, <1>18, <2>3, <3>1
      <3>3. PICK r : r = outbox[f[k]].m.id.record
        OBVIOUS
      <3>4. /\ outbox[f[k]].m.base = 0 /\ outbox[f[k]].m.content = snapshot[r].hash
            /\ r \in Snapshot
            /\ local[r].version = 0 \/ snapshot[r].seen
        BY <1>17, <2>3, <3>3 DEF TransInv, ActiveInv
      <3>5. local'[r] = local[r]
        BY <1>9, <1>20, <3>1, <3>3, <3>4 DEF Snapshot
      <3> QED
        BY <3>2, <3>3, <3>4, <3>5
    <2>4. ASSUME Active, NEW j \in DOMAIN outbox', NEW k \in DOMAIN outbox',
                 outbox'[j].m.id.record = outbox'[k].m.id.record
          PROVE  j = k
      <3>1. f[j] = f[k]
        BY <1>17, <2>3, <2>4 DEF TransInv, ActiveInv
      <3> QED
        BY <1>15, <2>4, <3>1 DEF Places
    <2>5. transition.mode = "none" => Snapshot = {}
      BY DEF TransInv, ActiveInv
    <2>6. Active => ~RepairPending'
      BY <1>21 DEF TransInv, ActiveInv, RepairPending
    <2> QED
      BY <1>14, <2>1, <2>2, <2>3, <2>4, <2>5, <2>6 DEF ActiveInv
  <1>32. SeenInv'
    <2> SUFFICES ASSUME NEW r \in Snapshot', snapshot'[r].seen
                 PROVE  /\ local'[r] = [content |-> snapshot'[r].hash, version |-> 1]
                        /\ cursor'.exists
                        /\ cursor'.history = history' =>
                             \E k \in 1..cursor'.position : CreatedAs(log[k], r)'
      BY DEF SeenInv
    <2>1. r \in Snapshot /\ snapshot[r].seen /\ r \in Records
      BY <1>14 DEF Snapshot
    <2>2. Active
      <3>1. transition.mode # "none"
        BY <2>1 DEF TransInv, ActiveInv
      <3>2. transition.status \in {"none", "pulling", "publishing", "completed"}
        BY <1>3 DEF TypeOK
      <3> QED
        BY <1>19, <3>1, <3>2 DEF TransInv, CursorInv, Active, Completed
    <2>3. m.id.record \in Unseen
      BY <1>3, <1>5, <2>2 DEF TransInv, BatchInv
    <2>4. r # m.id.record
      BY <2>1, <2>3 DEF Unseen
    <2>5. local'[r] = local[r]
      BY <1>20, <2>1, <2>4
    <2>6. /\ local[r] = [content |-> snapshot[r].hash, version |-> 1]
          /\ cursor.exists
          /\ cursor.history = history => \E k \in 1..cursor.position : CreatedAs(log[k], r)
      BY <2>1 DEF TransInv, SeenInv
    <2>7. \A k : CreatedAs(log[k], r) => CreatedAs(log[k], r)'
      BY <1>14 DEF CreatedAs
    <2> QED
      BY <1>14, <2>5, <2>6, <2>7
  <1>33. RepairGoesFirst'
    <2>1. RepairPending' => \A k \in DOMAIN outbox' : outbox'[k].claim = "held" => IsRepair(outbox[k].m)'
      <3> SUFFICES ASSUME RepairPending', NEW k \in DOMAIN outbox', outbox'[k].claim = "held"
                   PROVE  IsRepair(outbox[k].m)'
        OBVIOUS
      <3>1. repair' = repair /\ RepairPending
        BY <1>21 DEF RepairPending
      <3>2. IsRepair(outbox[f[k]].m)
        BY <1>17, <1>18, <3>1 DEF TransInv, RepairGoesFirst
      <3> QED
        BY <1>18, <3>1, <3>2 DEF IsRepair, RepairPending
    <2>2. repair'.status = "completed" /\ history' = 1 => Published(Project)'
      <3> SUFFICES ASSUME repair'.status = "completed", history = 1
                   PROVE  Published(Project)'
        BY <1>14
      <3>1. Published(Project)
        <4>1. CASE repair' = repair
          BY <4>1 DEF TransInv, RepairGoesFirst
        <4>2. CASE IsRepair(m) /\ a.disposition = "accepted"
          <5>1. m.id.record = Project
            BY <4>2 DEF IsRepair
          <5>2. Published(run.claims[1].id.record)
            BY <1>3, <1>6, <4>2 DEF TransInv, BatchInv
          <5> QED
            BY <1>5, <5>1, <5>2
        <4> QED
          BY <1>21, <4>1, <4>2
      <3> QED
        BY <1>14, <3>1 DEF Published, Accepted
    <2> QED
      BY <2>1, <2>2 DEF RepairGoesFirst
  <1> QED
    BY <1>25, <1>26, <1>27, <1>28, <1>29, <1>30, <1>31, <1>32, <1>33 DEF TransInv

----------------------------------------------------------------------------

(***************************************************************************)
(* A page is pulled.                                                       *)
(***************************************************************************)

\* A page lies between the cursor and what the history has.
LEMMA PageIs ==
  ASSUME TransInv, cursor.exists => cursor.history = history
  PROVE  /\ PageFrom \in Nat /\ PageTo \in Nat /\ PageOf \in Nat
         /\ PageFrom <= PageTo /\ PageTo <= PageOf /\ PageOf <= Len(log)
  <1>1. PICK p, w, l : p = cursor.position /\ w = cursor.watermark /\ l = Len(log)
    OBVIOUS
  <1>2. p \in Nat /\ w \in Nat /\ l \in Nat /\ p <= w /\ PageSize \in Nat
    BY <1>1, TransitionAssumption, LogFields DEF TransInv, TypeOK
  <1>3. w <= l
    <2>1. cursor.exists \in BOOLEAN
      BY DEF TransInv, TypeOK
    <2>2. CASE cursor.exists
      BY <1>1, <2>2 DEF TransInv, CursorInv
    <2>3. CASE ~cursor.exists
      BY <1>1, <1>2, <2>3 DEF TransInv, CursorInv
    <2> QED
      BY <2>1, <2>2, <2>3
  <1>4. PageFrom = p /\ PageOf = IF p < w THEN w ELSE l
    BY <1>1 DEF PageFrom, PageOf
  <1>5. PageOf \in Nat /\ p <= PageOf /\ PageOf <= l
    BY <1>2, <1>3, <1>4
  <1>6. PageTo = IF p + PageSize < PageOf THEN p + PageSize ELSE PageOf
    BY <1>4 DEF PageTo
  <1>7. PageTo \in Nat /\ p <= PageTo /\ PageTo <= PageOf
    BY <1>2, <1>5, <1>6
  <1> QED
    BY <1>1, <1>2, <1>4, <1>5, <1>7

LEMMA PageStep ==
  ASSUME TransInv, ApplyProjectPulledPage
  PROVE  TransInv'
  <1>1. PICK from, to, of : from = PageFrom /\ to = PageTo /\ of = PageOf
    OBVIOUS
  <1>2. PICK page : page = from + 1..to
    OBVIOUS
  <1>3. PICK changed : changed = {log[i].m.id.record : i \in page}
    OBVIOUS
  <1> DEFINE LastOf(r) == Max({i \in page : log[i].m.id.record = r})
  <1>4. /\ run.pc = "page"
        /\ UNCHANGED <<cloud, queue, intent, backup, transition, edits, kills>>
        /\ \/ run' = Idle /\ UNCHANGED <<local, snapshot, cursor>>
           \/ /\ run.pulling = history /\ \A i \in page : ~Diverges(log[i])
              /\ local' = [r \in Records |->
                   IF r \notin changed THEN local[r]
                   ELSE [content |-> log[LastOf(r)].m.content, version |-> log[LastOf(r)].version]]
              /\ snapshot' = [r \in Records |->
                   [snapshot[r] EXCEPT !.seen = @ \/ r \in changed \cap Snapshot]]
              /\ cursor' = [exists |-> TRUE, history |-> history, position |-> to, watermark |-> of]
              /\ run' = IF to < of THEN run
                        ELSE At(IF transition.status = "pulling" THEN "finalize" ELSE "last")
    BY <1>1, <1>2, <1>3 DEF ApplyProjectPulledPage, Fail
  <1> HIDE DEF LastOf
  <1>5. CASE run' = Idle /\ UNCHANGED <<local, snapshot, cursor>>
    BY <1>4, <1>5, StopStep DEF Tables, moving
  <1>6. CASE /\ run.pulling = history /\ \A i \in page : ~Diverges(log[i])
             /\ local' = [r \in Records |->
                  IF r \notin changed THEN local[r]
                  ELSE [content |-> log[LastOf(r)].m.content, version |-> log[LastOf(r)].version]]
             /\ snapshot' = [r \in Records |->
                  [snapshot[r] EXCEPT !.seen = @ \/ r \in changed \cap Snapshot]]
             /\ cursor' = [exists |-> TRUE, history |-> history, position |-> to, watermark |-> of]
             /\ run' = IF to < of THEN run
                       ELSE At(IF transition.status = "pulling" THEN "finalize" ELSE "last")
    <2>1. Active /\ TypeOK /\ (cursor.exists => cursor.history = history)
      BY <1>4, <1>6 DEF TransInv, PlaceInv
    <2>2. /\ from \in Nat /\ to \in Nat /\ of \in Nat /\ from <= to /\ to <= of /\ of <= Len(log)
          /\ from = cursor.position
      BY <1>1, <2>1, PageIs DEF PageFrom
    <2>3. page \subseteq DOMAIN log /\ page \subseteq 1..to /\ page \subseteq 0..Len(log) /\ Len(log) \in Nat
      <3>1. Len(log) \in Nat /\ DOMAIN log = 1..Len(log)
        BY <2>1, LogFields
      <3> QED
        BY <1>2, <2>2, <3>1
    <2>4. ASSUME NEW r \in changed
          PROVE  LastOf(r) \in page /\ log[LastOf(r)].m.id.record = r
      <3>1. PICK S : S = {i \in page : log[i].m.id.record = r}
        OBVIOUS
      <3>2. S \in SUBSET (0..Len(log)) /\ S # {} /\ Len(log) \in Nat
        BY <1>3, <2>3, <2>4, <3>1
      <3>3. Max(S) \in S
        BY <3>2, MaxIs
      <3> QED
        BY <3>1, <3>3 DEF LastOf
    <2>5. ASSUME NEW r \in changed
          PROVE  /\ r \in Records /\ local'[r].content # 0
                 /\ local'[r] = [content |-> log[LastOf(r)].m.content, version |-> log[LastOf(r)].version]
                 /\ local'[r] \in [content : 0..Elsewhere, version : Nat]
      <3>1. /\ LastOf(r) \in DOMAIN log /\ log[LastOf(r)] \in Entry /\ log[LastOf(r)].m \in Mutation
            /\ log[LastOf(r)].m.id.record \in Records /\ log[LastOf(r)].version \in Nat
        BY <2>1, <2>3, <2>4, <2>5, LogFields
      <3>2. log[LastOf(r)].m.content \in 0..Elsewhere /\ log[LastOf(r)].m.content # 0
        BY <3>1, MutationFields
      <3>3. r \in Records
        BY <2>4, <2>5, <3>1
      <3>4. local'[r] = [content |-> log[LastOf(r)].m.content, version |-> log[LastOf(r)].version]
        BY <1>6, <2>5, <3>3
      <3> QED
        BY <3>1, <3>2, <3>3, <3>4
    <2>6. \A r \in Records \ changed : local'[r] = local[r]
      BY <1>6
    <2>7. local' \in [Records -> [content : 0..Elsewhere, version : Nat]]
      <3>1. \A r \in Records : local'[r] \in [content : 0..Elsewhere, version : Nat]
        BY <2>1, <2>5, <2>6, LocalFields
      <3>2. DOMAIN local' = Records /\ local' = [r \in Records |-> local'[r]]
        BY <1>6
      <3> QED
        BY <3>1, <3>2
    <2>8. /\ snapshot' \in [Records -> [hash : 0..Elsewhere, seen : BOOLEAN]]
          /\ \A r \in Records : /\ snapshot'[r].hash = snapshot[r].hash
                                /\ snapshot'[r].seen => snapshot[r].seen \/ r \in changed \cap Snapshot
                                /\ snapshot[r].seen => snapshot'[r].seen
                                /\ r \in changed \cap Snapshot => snapshot'[r].seen
      <3>1. \A y \in [hash : 0..Elsewhere, seen : BOOLEAN], b \in BOOLEAN :
               /\ [y EXCEPT !.seen = b] \in [hash : 0..Elsewhere, seen : BOOLEAN]
               /\ [y EXCEPT !.seen = b].hash = y.hash
               /\ [y EXCEPT !.seen = b].seen = b
        OBVIOUS
      <3>2. ASSUME NEW r \in Records
            PROVE  /\ snapshot'[r] \in [hash : 0..Elsewhere, seen : BOOLEAN]
                   /\ snapshot'[r].hash = snapshot[r].hash
                   /\ snapshot'[r].seen => snapshot[r].seen \/ r \in changed \cap Snapshot
                   /\ snapshot[r].seen => snapshot'[r].seen
                   /\ r \in changed \cap Snapshot => snapshot'[r].seen
        <4>1. snapshot[r] \in [hash : 0..Elsewhere, seen : BOOLEAN] /\ snapshot[r].seen \in BOOLEAN
          BY <2>1, LocalFields
        <4>2. PICK b \in BOOLEAN : b = (snapshot[r].seen \/ r \in changed \cap Snapshot)
          OBVIOUS
        <4>3. b <=> (snapshot[r].seen \/ r \in changed \cap Snapshot)
          BY <4>2
        <4>4. snapshot'[r] = [snapshot[r] EXCEPT !.seen = b]
          BY <1>6, <4>2
        <4>5. /\ snapshot'[r] \in [hash : 0..Elsewhere, seen : BOOLEAN]
              /\ snapshot'[r].hash = snapshot[r].hash /\ snapshot'[r].seen = b
          BY <3>1, <4>1, <4>4
        <4> QED
          BY <4>3, <4>5
      <3>3. DOMAIN snapshot' = Records /\ snapshot' = [r \in Records |-> snapshot'[r]]
        BY <1>6
      <3>4. snapshot' \in [Records -> [hash : 0..Elsewhere, seen : BOOLEAN]]
        BY <3>2, <3>3
      <3> QED
        BY <3>2, <3>4
    <2>9. Snapshot' = Snapshot
      BY <2>8 DEF Snapshot
    <2>10. /\ cursor' \in [exists : BOOLEAN, history : 0..MaxHistory, position : Nat, watermark : Nat]
           /\ cursor'.exists = TRUE /\ cursor'.history = history /\ cursor'.position = to
           /\ cursor'.watermark = of /\ history \in Nat /\ history >= 1 /\ history <= history
      <3>1. history \in 0..MaxHistory /\ history \in Nat /\ history >= 1
        BY <2>1 DEF TypeOK, TransInv, CursorInv
      <3> QED
        BY <1>6, <2>2, <3>1
    <2>11. /\ history' = history /\ log' = log /\ late' = late /\ outbox' = outbox
           /\ receipts' = receipts /\ issued' = issued /\ repair' = repair
           /\ intent' = intent /\ backup' = backup /\ transition' = transition
           /\ edits' = edits /\ kills' = kills
      BY <1>4 DEF cloud, queue
    <2>12. ~Completed /\ ~Intended /\ transition.mode # "none"
      <3>1. ~Completed
        BY <2>1 DEF Active, Completed
      <3>2. transition.mode # "none"
        BY <2>1 DEF TransInv, CursorInv, Active
      <3> QED
        BY <3>1, <3>2 DEF TransInv, BackupInv
    <2>13. RunSound /\ (run' = run \/ run'.pc \in {"finalize", "last"})
      <3>1. CASE to < of
        BY <1>6, <2>1, <3>1, RunFields DEF RunSound
      <3>2. CASE ~(to < of)
        <4>1. PICK pc \in {"finalize", "last"} : run' = At(pc)
          BY <1>6, <3>2
        <4>2. pc \in Points
          BY <4>1 DEF Points
        <4> QED
          BY <2>1, <4>1, <4>2, AtIs
      <3> QED
        BY <3>1, <3>2
    <2>14. TypeOK'
      <3>1. cursor'.position <= cursor'.watermark
        BY <2>2, <2>10
      <3> QED
        BY <2>1, <2>7, <2>8, <2>10, <2>11, <2>13, <3>1 DEF RunSound, RunType, TypeOK
    <2>15. LogInv' /\ BackupInv'
      BY <2>11, <2>12 DEF TransInv, LogInv, BackupInv, Intended
    <2>16. QueueInv'
      <3>1. Present(Project)'
        <4>1. Project \in Records /\ local[Project].content # 0
          BY TransitionAssumption DEF TransInv, QueueInv, Present
        <4> QED
          BY <2>5, <2>6, <4>1 DEF Present
      <3>2. \A i \in DOMAIN outbox : /\ outbox[i].m.id.n <= issued[outbox[i].m.id.record]
                                     /\ ~(outbox[i].m.base > 0)
        BY <2>1 DEF TransInv, QueueInv, ActiveInv
      <3> QED
        BY <2>11, <3>1, <3>2 DEF QueueInv
    <2>17. PlaceInv'
      <3>1. Active' /\ ~Completed'
        BY <2>1, <2>11, <2>12 DEF Active, Completed
      <3>2. run' = run => run'.pc = "page" /\ run'.pulling = history
        BY <1>4, <1>6
      <3> QED
        BY <2>10, <2>13, <3>1, <3>2 DEF PlaceInv
    <2>18. BatchInv'
      BY <1>4, <2>13 DEF BatchInv, Batch
    <2>19. CursorInv'
      BY <2>2, <2>10, <2>11, <2>12 DEF TransInv, CursorInv
    <2>20. ASSUME NEW r \in changed \cap Snapshot
           PROVE  /\ local'[r] = [content |-> snapshot[r].hash, version |-> 1]
                  /\ CreatedAs(log[LastOf(r)], r) /\ LastOf(r) \in 1..to
      <3>1. PICK e : e = log[LastOf(r)]
        OBVIOUS
      <3>2. e.m.id.record = r /\ ~Diverges(e) /\ LastOf(r) \in DOMAIN log /\ LastOf(r) \in 1..to
        BY <1>6, <2>3, <2>4, <3>1
      <3>3. snapshot[r].hash # 0
        BY DEF Snapshot
      <3>4. e.m.base = 0 /\ e.version = 1 /\ e.m.content = snapshot[r].hash
        BY <3>2, <3>3 DEF Diverges
      <3>5. e.accepted
        BY <3>1, <3>2, <3>4 DEF TransInv, LogInv
      <3>6. local'[r] = [content |-> e.m.content, version |-> e.version]
        BY <2>5, <3>1
      <3> QED
        BY <3>1, <3>2, <3>4, <3>5, <3>6 DEF CreatedAs
    <2>21. ActiveInv'
      <3>1. Acyclic(Snapshot) /\ \A r \in Snapshot : local[r].content = snapshot[r].hash
        BY <2>1 DEF TransInv, ActiveInv
      <3>2. \A r \in Snapshot : local'[r].content = snapshot'[r].hash
        <4> SUFFICES ASSUME NEW r \in Snapshot
                     PROVE  local'[r].content = snapshot'[r].hash
          OBVIOUS
        <4>1. r \in Records
          BY DEF Snapshot
        <4>2. CASE r \in changed
          <5>1. r \in changed \cap Snapshot
            BY <4>2
          <5>2. local'[r] = [content |-> snapshot[r].hash, version |-> 1]
            BY <2>20, <5>1
          <5>3. local'[r].content = snapshot[r].hash
            BY <5>2
          <5> QED
            BY <2>8, <4>1, <5>3
        <4>3. CASE r \notin changed
          BY <2>6, <2>8, <3>1, <4>1, <4>3
        <4> QED
          BY <4>2, <4>3
      <3>3. ASSUME NEW i \in DOMAIN outbox
            PROVE  LET m == outbox[i].m
                   IN /\ m.base = 0 /\ m.content = snapshot'[m.id.record].hash
                      /\ m.id.record \in Snapshot
                      /\ local'[m.id.record].version = 0 \/ snapshot'[m.id.record].seen
        <4>1. PICK m : m = outbox[i].m
          OBVIOUS
        <4>2. /\ m.base = 0 /\ m.content = snapshot[m.id.record].hash /\ m.id.record \in Snapshot
              /\ local[m.id.record].version = 0 \/ snapshot[m.id.record].seen
          BY <2>1, <3>3, <4>1 DEF TransInv, ActiveInv
        <4>3. m.id.record \in Records /\ snapshot'[m.id.record].hash = snapshot[m.id.record].hash
          BY <2>8, <4>2 DEF Snapshot
        <4>4. local'[m.id.record].version = 0 \/ snapshot'[m.id.record].seen
          BY <2>6, <2>8, <4>2, <4>3
        <4> QED
          BY <4>1, <4>2, <4>3, <4>4
      <3>4. /\ \A i, j \in DOMAIN outbox : outbox[i].m.id.record = outbox[j].m.id.record => i = j
            /\ transition.status = "pulling" => outbox = << >>
            /\ ~RepairPending
        BY <2>1 DEF TransInv, ActiveInv
      <3>5. ~RepairPending'
        BY <2>11, <3>4 DEF RepairPending
      <3>6. transition'.mode # "none" /\ ~Completed'
        BY <2>11, <2>12 DEF Completed
      <3> QED
        BY <2>9, <2>11, <3>1, <3>2, <3>3, <3>4, <3>5, <3>6 DEF ActiveInv
    <2>22. SeenInv'
      <3> SUFFICES ASSUME NEW r \in Snapshot, snapshot'[r].seen
                   PROVE  /\ local'[r] = [content |-> snapshot'[r].hash, version |-> 1]
                          /\ \E k \in 1..to : CreatedAs(log[k], r)'
        BY <2>9, <2>10 DEF SeenInv
      <3>1. r \in Records /\ snapshot'[r].hash = snapshot[r].hash
        BY <2>8 DEF Snapshot
      <3>2. \A k : CreatedAs(log[k], r) => CreatedAs(log[k], r)'
        BY <2>11, <3>1 DEF CreatedAs
      <3>3. CASE r \in changed
        BY <2>20, <3>1, <3>2, <3>3
      <3>4. CASE r \notin changed
        <4>1. snapshot[r].seen
          BY <2>8, <3>1, <3>4
        <4>2. /\ local[r] = [content |-> snapshot[r].hash, version |-> 1]
              /\ cursor.exists
              /\ cursor.history = history => \E k \in 1..cursor.position : CreatedAs(log[k], r)
          BY <4>1 DEF TransInv, SeenInv
        <4>3. PICK k \in 1..cursor.position : CreatedAs(log[k], r)
          BY <2>1, <4>2
        <4>4. k \in 1..to
          BY <2>2, <4>3
        <4> QED
          BY <2>6, <3>1, <3>2, <3>4, <4>2, <4>3, <4>4
      <3> QED
        BY <3>3, <3>4
    <2>23. RepairGoesFirst'
      BY <2>1, <2>11 DEF TransInv, RepairGoesFirst, RepairPending, IsRepair, Published, Accepted
    <2> QED
      BY <2>14, <2>15, <2>16, <2>17, <2>18, <2>19, <2>21, <2>22, <2>23 DEF TransInv
  <1> QED
    BY <1>4, <1>5, <1>6

----------------------------------------------------------------------------

(***************************************************************************)
(* Finalizing.                                                             *)
(***************************************************************************)

\* What is queued stands still, is not seen, and has no row.
LEMMA ToQueueIs ==
  ASSUME TransInv, Active, ~FinalizeRefuses
  PROVE  /\ ToQueue \subseteq Unseen /\ ToQueue \in SUBSET Records
         /\ Acyclic(ToQueue)
         /\ \A r \in ToQueue : /\ Present(r) /\ local[r].content = snapshot[r].hash
                               /\ \A i \in DOMAIN outbox : outbox[i].m.id.record # r
  <1>1. ToQueue \subseteq Unseen
    BY DEF ToQueue, Dropped
  <1>2. Unseen \subseteq Snapshot /\ Snapshot \subseteq Records
    BY DEF Unseen, Snapshot
  <1>3. Acyclic(Snapshot) /\ \A r \in Snapshot : local[r].content = snapshot[r].hash
    BY DEF TransInv, ActiveInv
  <1>4. Acyclic(ToQueue)
    BY <1>1, <1>2, <1>3 DEF Acyclic
  <1>5. ASSUME NEW r \in ToQueue
        PROVE  \A i \in DOMAIN outbox : outbox[i].m.id.record # r
    <2>1. CASE transition.status = "pulling"
      BY <2>1 DEF TransInv, ActiveInv
    <2>2. CASE transition.status # "pulling"
      <3>1. RowsOf(r) = {}
        BY <1>5, <2>2 DEF ToQueue, Dropped
      <3> QED
        BY <3>1 DEF RowsOf
    <2> QED
      BY <2>1, <2>2
  <1>6. \A r \in ToQueue : Present(r) /\ local[r].content = snapshot[r].hash
    BY <1>1, <1>2, <1>3 DEF Present, Snapshot
  <1> QED
    BY <1>1, <1>2, <1>4, <1>5, <1>6

LEMMA FinalizeStep ==
  ASSUME TransInv, FinalizeSyncProjectTransition
  PROVE  TransInv'
  <1>1. PICK queued : queued = outbox \o Creates(DependencyOrder(ToQueue))
    OBVIOUS
  <1>2. PICK completes \in BOOLEAN : completes <=> Unseen = {} /\ queued = << >>
    OBVIOUS
  <1>3. /\ run.pc \in {"finalize", "last"}
        /\ UNCHANGED <<cloud, receipts, repair, cursor, intent, backup, snapshot, edits, kills>>
    BY DEF FinalizeSyncProjectTransition
  <1>4. \/ /\ run' \in {At("claim"), Idle} /\ UNCHANGED <<outbox, local, issued, transition>>
        \/ /\ ~FinalizeRefuses /\ outbox' = queued /\ Issue(ToQueue)
           /\ local' = [r \in Records |->
                IF r \in ToQueue THEN [local[r] EXCEPT !.version = 0] ELSE local[r]]
           /\ transition' = [transition EXCEPT !.status = IF completes THEN "completed" ELSE "publishing"]
           /\ run' \in {At("claim"), Idle} /\ (completes => run' = Idle)
    BY <1>1, <1>2 DEF FinalizeSyncProjectTransition, Fail
  <1>5. TypeOK /\ Active /\ ~Completed /\ transition.mode # "none" /\ ~Intended
    BY <1>3 DEF TransInv, PlaceInv, Active, Completed, CursorInv, BackupInv
  <1>6. "claim" \in Points \ {"push", "apply"}
    BY DEF Points
  <1>7. CASE run' \in {At("claim"), Idle} /\ UNCHANGED <<outbox, local, issued, transition>>
    <2>1. UNCHANGED <<cloud, Tables>>
      BY <1>3, <1>7 DEF Tables, queue, moving
    <2>2. CASE run' = Idle
      BY <2>1, <2>2, StopStep
    <2>3. CASE run' = At("claim")
      <3>1. run'.pc = "claim"
        BY <1>6, <2>3, AtIs DEF TransInv
      <3>2. PlaceInv'
        BY <1>5, <2>1, <3>1 DEF PlaceInv, Completed, Tables, moving
      <3> QED
        BY <1>6, <2>1, <2>3, <3>2, MoveStep
    <2> QED
      BY <1>7, <2>2, <2>3
  <1>8. CASE /\ ~FinalizeRefuses /\ outbox' = queued /\ Issue(ToQueue)
             /\ local' = [r \in Records |->
                  IF r \in ToQueue THEN [local[r] EXCEPT !.version = 0] ELSE local[r]]
             /\ transition' = [transition EXCEPT !.status = IF completes THEN "completed" ELSE "publishing"]
             /\ run' \in {At("claim"), Idle} /\ (completes => run' = Idle)
    <2>1. /\ ToQueue \subseteq Unseen /\ ToQueue \in SUBSET Records /\ Acyclic(ToQueue)
          /\ \A r \in ToQueue : /\ Present(r) /\ local[r].content = snapshot[r].hash
                                /\ \A i \in DOMAIN outbox : outbox[i].m.id.record # r
      BY <1>5, <1>8, ToQueueIs
    <2>2. PICK a : a = Creates(DependencyOrder(ToQueue))
      OBVIOUS
    <2>3. /\ a \in Seq(Row)
          /\ \A k \in DOMAIN a :
               /\ a[k].m.id.record \in ToQueue
               /\ a[k].m.id.n = issued[a[k].m.id.record] + 1
               /\ a[k].m.base = 0
               /\ a[k].m.content = local[a[k].m.id.record].content
               /\ a[k].claim = "never"
          /\ \A j, k \in DOMAIN a : a[j].m.id.record = a[k].m.id.record => j = k
          /\ ToQueue = {} => a = << >>
      BY <1>5, <2>1, <2>2, OrderedCreates
    <2>4. outbox \in Seq(Row) /\ outbox' = outbox \o a
      BY <1>1, <1>5, <1>8, <2>2, OutboxFields
    <2>5. /\ outbox' \in Seq(Row)
          /\ \A i, j \in DOMAIN outbox' : outbox'[i].m.id = outbox'[j].m.id => i = j
          /\ \A i \in DOMAIN outbox' :
               \/ i \in DOMAIN outbox /\ outbox'[i] = outbox[i]
               \/ \E k \in DOMAIN a : outbox'[i] = a[k]
          /\ \A i \in DOMAIN outbox' :
               outbox'[i].claim = "held" => i \in DOMAIN outbox /\ outbox'[i] = outbox[i]
      <3>1. \A k \in DOMAIN a :
              a[k].claim = "never" /\ \A i \in DOMAIN outbox : outbox[i].m.id # a[k].m.id
        BY <2>1, <2>3
      <3>2. \A j, k \in DOMAIN a : a[j].m.id = a[k].m.id => j = k
        BY <2>3
      <3> QED
        BY <2>3, <2>4, <3>1, <3>2, AddedRows
    <2>6. /\ \A r \in Records : /\ local[r] \in [content : 0..Elsewhere, version : Nat]
                                /\ issued[r] \in Nat
      BY <1>5, LocalFields
    <2>7. /\ local' \in [Records -> [content : 0..Elsewhere, version : Nat]]
          /\ \A r \in Records : local'[r].content = local[r].content
          /\ \A r \in Records \ ToQueue : local'[r] = local[r]
      <3>1. \A y \in [content : 0..Elsewhere, version : Nat] :
               /\ [y EXCEPT !.version = 0] \in [content : 0..Elsewhere, version : Nat]
               /\ [y EXCEPT !.version = 0].content = y.content
        OBVIOUS
      <3> QED
        BY <1>8, <2>6, <3>1
    <2>8. /\ issued' \in [Records -> Nat]
          /\ \A r \in Records : issued[r] <= issued'[r] /\ issued'[r] \in Nat
          /\ \A r \in ToQueue : issued'[r] = issued[r] + 1
      BY <1>8, <2>1, <2>6 DEF Issue
    <2>9. /\ transition' \in [mode : Modes \cup {"none"},
                              status : {"none", "pulling", "publishing", "completed"}]
          /\ transition'.mode = transition.mode
          /\ transition'.status = IF completes THEN "completed" ELSE "publishing"
      <3>1. PICK status \in {"publishing", "completed"} :
              status = (IF completes THEN "completed" ELSE "publishing")
        OBVIOUS
      <3>2. transition \in [mode : Modes \cup {"none"},
                            status : {"none", "pulling", "publishing", "completed"}]
        BY <1>5 DEF TypeOK
      <3>3. transition' = [transition EXCEPT !.status = status]
        BY <1>8, <3>1
      <3> QED
        BY <3>1, <3>2, <3>3
    <2>10. /\ history' = history /\ log' = log /\ late' = late /\ receipts' = receipts
           /\ repair' = repair /\ cursor' = cursor /\ intent' = intent /\ backup' = backup
           /\ snapshot' = snapshot /\ edits' = edits /\ kills' = kills
      BY <1>3 DEF cloud
    <2>11. RunSound /\ (run' = Idle \/ run'.pc = "claim")
      <3>1. CASE run' = Idle
        BY <3>1, IdleIs DEF RunSound
      <3>2. CASE run' = At("claim")
        BY <1>5, <1>6, <3>2, AtIs
      <3> QED
        BY <1>8, <3>1, <3>2
    <2>12. TypeOK'
      <3>1. run' \in RunType /\ Len(run'.answers) <= Len(run'.claims)
        BY <2>11 DEF RunSound
      <3> QED
        BY <1>5, <2>5, <2>7, <2>8, <2>9, <2>10, <3>1 DEF TypeOK, RunType
    <2>13. LogInv'
      BY <2>10 DEF TransInv, LogInv
    <2>14. ASSUME NEW i \in DOMAIN outbox'
           PROVE  /\ outbox'[i].m.id.n <= issued'[outbox'[i].m.id.record]
                  /\ outbox'[i].m.base = 0
                  /\ outbox'[i].m.content = snapshot[outbox'[i].m.id.record].hash
                  /\ outbox'[i].m.id.record \in Snapshot
                  /\ \/ local'[outbox'[i].m.id.record].version = 0
                     \/ snapshot[outbox'[i].m.id.record].seen
      <3>1. CASE i \in DOMAIN outbox /\ outbox'[i] = outbox[i]
        <4>1. PICK r \in Records : r = outbox[i].m.id.record
          BY <1>5, <3>1, OutboxFields
        <4>2. outbox[i].m.id.n <= issued[r] /\ outbox[i].m.id.n \in Nat
          BY <1>5, <3>1, <4>1, OutboxFields DEF TransInv, QueueInv
        <4>3. issued[r] \in Nat /\ issued'[r] \in Nat /\ issued[r] <= issued'[r]
          BY <2>6, <2>8, <4>1
        <4>4. outbox[i].m.id.n <= issued'[r]
          BY <4>2, <4>3
        <4>5. /\ outbox[i].m.base = 0 /\ outbox[i].m.content = snapshot[r].hash
              /\ r \in Snapshot
              /\ local[r].version = 0 \/ snapshot[r].seen
          BY <1>5, <3>1, <4>1 DEF TransInv, ActiveInv
        <4>6. local'[r] = local[r]
          BY <2>1, <2>7, <3>1, <4>1
        <4> QED
          BY <3>1, <4>1, <4>4, <4>5, <4>6
      <3>2. ASSUME NEW k \in DOMAIN a, outbox'[i] = a[k]
            PROVE  /\ a[k].m.id.n <= issued'[a[k].m.id.record]
                   /\ a[k].m.base = 0
                   /\ a[k].m.content = snapshot[a[k].m.id.record].hash
                   /\ a[k].m.id.record \in Snapshot
                   /\ local'[a[k].m.id.record].version = 0
        <4>1. PICK r \in ToQueue : r = a[k].m.id.record
          BY <2>3
        <4>2. a[k].m.id.n = issued'[r] /\ issued'[r] \in Nat
          BY <2>1, <2>3, <2>8, <4>1
        <4>3. r \in Snapshot
          BY <2>1, <4>1 DEF Unseen
        <4>4. local'[r].version = 0
          BY <1>8, <2>1, <2>6, <4>1
        <4> QED
          BY <2>1, <2>3, <4>1, <4>2, <4>3, <4>4
      <3> QED
        BY <2>5, <2>14, <3>1, <3>2
    <2>15. QueueInv'
      <3>1. Present(Project)'
        BY <2>7, TransitionAssumption DEF TransInv, QueueInv, Present
      <3>2. \A i \in DOMAIN outbox' : /\ outbox'[i].m.id.n <= issued'[outbox'[i].m.id.record]
                                      /\ ~(outbox'[i].m.base > 0)
        BY <2>14
      <3> QED
        BY <3>1, <3>2 DEF QueueInv
    <2>16. Completed' <=> completes
      BY <2>9 DEF Completed
    <2>17. PlaceInv'
      <3>1. CASE run' = Idle
        BY <3>1, OutsidePlaces
      <3>2. CASE run'.pc = "claim"
        <4>1. ~completes
          BY <1>8, <3>2, IdleIs
        <4> QED
          BY <2>16, <3>2, <4>1 DEF PlaceInv
      <3> QED
        BY <2>11, <3>1, <3>2
    <2>18. BatchInv'
      BY <2>11, IdleIs DEF BatchInv, Batch
    <2>19. BackupInv'
      BY <1>5, <2>9, <2>10 DEF TransInv, BackupInv, Intended
    <2>20. CursorInv'
      BY <1>5, <2>9, <2>10 DEF TransInv, CursorInv
    <2>21. Snapshot' = Snapshot /\ Unseen' = Unseen
      BY <2>10 DEF Snapshot, Unseen
    <2>22. \A i, j \in DOMAIN outbox' : outbox'[i].m.id.record = outbox'[j].m.id.record => i = j
      <3> SUFFICES ASSUME NEW i \in DOMAIN outbox', NEW j \in DOMAIN outbox',
                          outbox'[i].m.id.record = outbox'[j].m.id.record
                   PROVE  i = j
        OBVIOUS
      <3>1. CASE i \in DOMAIN outbox /\ outbox'[i] = outbox[i]
        <4>1. CASE j \in DOMAIN outbox /\ outbox'[j] = outbox[j]
          BY <1>5, <3>1, <4>1 DEF TransInv, ActiveInv
        <4>2. ASSUME NEW k \in DOMAIN a, outbox'[j] = a[k]
              PROVE  FALSE
          <5>1. a[k].m.id.record \in ToQueue /\ outbox[i].m.id.record = a[k].m.id.record
            BY <2>3, <3>1, <4>2
          <5> QED
            BY <2>1, <3>1, <5>1
        <4> QED
          BY <2>5, <4>1, <4>2
      <3>2. ASSUME NEW k \in DOMAIN a, outbox'[i] = a[k]
            PROVE  i = j
        <4>1. ASSUME j \in DOMAIN outbox, outbox'[j] = outbox[j]
              PROVE  FALSE
          <5>1. a[k].m.id.record \in ToQueue /\ outbox[j].m.id.record = a[k].m.id.record
            BY <2>3, <3>2, <4>1
          <5> QED
            BY <2>1, <4>1, <5>1
        <4>2. ASSUME NEW l \in DOMAIN a, outbox'[j] = a[l]
              PROVE  i = j
          <5>1. k = l
            BY <2>3, <3>2, <4>2
          <5>2. outbox'[i].m.id = outbox'[j].m.id
            BY <3>2, <4>2, <5>1
          <5> QED
            BY <2>5, <5>2
        <4> QED
          BY <2>5, <4>1, <4>2
      <3> QED
        BY <2>5, <3>1, <3>2
    <2>23. ActiveInv'
      <3>1. Acyclic(Snapshot) /\ \A r \in Snapshot : local'[r].content = snapshot[r].hash
        <4>1. \A r \in Snapshot : r \in Records
          BY DEF Snapshot
        <4> QED
          BY <1>5, <2>7, <4>1 DEF TransInv, ActiveInv
      <3>2. Completed' => outbox' = << >> /\ Unseen = {}
        BY <1>2, <1>8, <2>16
      <3>3. transition'.status # "pulling" /\ transition'.mode # "none"
        BY <1>5, <2>9
      <3>4. ~RepairPending'
        BY <1>5, <2>10 DEF TransInv, ActiveInv, RepairPending
      <3> QED
        BY <2>10, <2>14, <2>21, <2>22, <3>1, <3>2, <3>3, <3>4 DEF ActiveInv
    <2>24. SeenInv'
      <3> SUFFICES ASSUME NEW r \in Snapshot, snapshot[r].seen
                   PROVE  /\ local'[r] = [content |-> snapshot[r].hash, version |-> 1]
                          /\ cursor.exists
                          /\ cursor.history = history =>
                               \E k \in 1..cursor.position : CreatedAs(log[k], r)'
        BY <2>10, <2>21 DEF SeenInv
      <3>1. r \in Records \ ToQueue
        BY <2>1 DEF Snapshot, Unseen
      <3>2. /\ local[r] = [content |-> snapshot[r].hash, version |-> 1]
            /\ cursor.exists
            /\ cursor.history = history => \E k \in 1..cursor.position : CreatedAs(log[k], r)
        BY DEF TransInv, SeenInv
      <3>3. \A k : CreatedAs(log[k], r) => CreatedAs(log[k], r)'
        BY <2>10 DEF CreatedAs
      <3> QED
        BY <2>7, <3>1, <3>2, <3>3
    <2>25. RepairGoesFirst'
      BY <2>5, <2>10 DEF TransInv, RepairGoesFirst, RepairPending, IsRepair, Published, Accepted
    <2> QED
      BY <2>12, <2>13, <2>15, <2>17, <2>18, <2>19, <2>20, <2>23, <2>24, <2>25 DEF TransInv
  <1> QED
    BY <1>4, <1>7, <1>8

LEMMA StutterStep ==
  ASSUME TransInv, UNCHANGED vars
  PROVE  TransInv'
  <1>1. history' = history /\ UNCHANGED <<log, late, Tables, run>>
    BY DEF vars, cloud, Tables
  <1>2. Grows /\ late' \subseteq Mutation
    BY <1>1 DEF Grows, TransInv, TypeOK
  <1> QED
    BY <1>1, <1>2, StillThere, CloudStep

----------------------------------------------------------------------------

(***************************************************************************)
(* The specification.                                                      *)
(***************************************************************************)

LEMMA InitTransition ==
  ASSUME Init
  PROVE  TransInv
  <1>1. /\ history = 1 /\ log = << >> /\ late = {} /\ run = Idle /\ edits = 0 /\ kills = 0
        /\ repair = [status |-> "none", n |-> 0]
        /\ cursor = [exists |-> TRUE, history |-> 0, position |-> 0, watermark |-> 0]
        /\ intent = [mode |-> "none", sealed |-> FALSE]
        /\ backup = [state |-> "absent", rows |-> {}, content |-> [r \in Records |-> 0]]
        /\ transition = [mode |-> "none", status |-> "none"]
        /\ snapshot = [r \in Records |-> [hash |-> 0, seen |-> FALSE]]
    BY DEF Init
  <1>2. Queued \subseteq Local \ Unsynced /\ Queued \subseteq Records /\ Project \notin Queued
          /\ Project \in Local /\ Project \in Records
    BY TransitionAssumption DEF Observations
  <1>3. /\ local \in [Records -> [content : 0..Elsewhere, version : Nat]]
        /\ local[Project].content # 0 /\ \A r \in Queued : local[r].version > 0
    <2>1. local = [r \in Records |->
            [content |-> IF r \notin Local THEN 0 ELSE IF r \in Queued THEN Here ELSE Shared,
             version |-> IF r \notin Local \ Unsynced THEN 0 ELSE IF r \in Revised THEN 2 ELSE 1]]
      BY DEF Init
    <2>2. \A r \in Records :
            [content |-> IF r \notin Local THEN 0 ELSE IF r \in Queued THEN Here ELSE Shared,
             version |-> IF r \notin Local \ Unsynced THEN 0 ELSE IF r \in Revised THEN 2 ELSE 1]
            \in [content : 0..Elsewhere, version : Nat]
      BY DEF Shared, Here, Elsewhere
    <2>3. local[Project].content # 0
      BY <1>2, <2>1 DEF Shared
    <2>4. \A r \in Queued : local[r].version > 0
      BY <1>2, <2>1
    <2> QED
      BY <2>1, <2>2, <2>3, <2>4
  <1>4. PICK rs : rs = Sorted(Queued, Rank)
    OBVIOUS
  <1>5. /\ Len(rs) \in Nat /\ DOMAIN rs = 1..Len(rs)
        /\ \A k \in DOMAIN rs : rs[k] \in Queued
        /\ \A j, k \in DOMAIN rs : rs[j] = rs[k] => j = k
    <2>1. rs \in Seq(Queued) /\ \A j, k \in DOMAIN rs : rs[j] = rs[k] => j = k
      BY <1>2, <1>4, SortedRecords
    <2> QED
      BY <2>1
  <1> DEFINE R(k) == [m |-> [id |-> [record |-> rs[k], n |-> 1], base |-> local[rs[k]].version,
                             content |-> Here], claim |-> "never"]
  <1>6. outbox = [k \in DOMAIN rs |-> R(k)]
    BY <1>4 DEF Init
  <1>7. ASSUME NEW k \in DOMAIN rs
        PROVE  /\ R(k) \in Row /\ R(k).m.id.record = rs[k] /\ R(k).m.id.n = 1
               /\ R(k).claim = "never"
    <2>1. rs[k] \in Records /\ local[rs[k]].version \in Nat
      BY <1>2, <1>3, <1>5
    <2> QED
      BY <2>1 DEF Row, Mutation, Id, Shared, Here, Elsewhere
  <1> HIDE DEF R
  <1>8. /\ outbox \in Seq(Row) /\ DOMAIN outbox = DOMAIN rs
        /\ \A k \in DOMAIN outbox :
             /\ k \in DOMAIN rs /\ outbox[k].m.id.record = rs[k] /\ outbox[k].m.id.n = 1
             /\ outbox[k].claim = "never"
    <2>1. outbox \in [1..Len(rs) -> Row]
      BY <1>5, <1>6, <1>7
    <2> QED
      BY <1>5, <1>6, <1>7, <2>1
  <1>9. issued \in [Records -> Nat] /\ \A r \in Queued : issued[r] = 1
    BY <1>2 DEF Init
  <1>10. receipts \subseteq Receipt
    <2>1. [id |-> [record |-> Project, n |-> 1], disposition |-> "accepted"] \in Receipt
      BY <1>2 DEF Receipt, Id
    <2> QED
      BY <2>1 DEF Init
  <1>11. \A i, j \in DOMAIN outbox : outbox[i].m.id = outbox[j].m.id => i = j
    <2> SUFFICES ASSUME NEW i \in DOMAIN outbox, NEW j \in DOMAIN outbox,
                        outbox[i].m.id = outbox[j].m.id
                 PROVE  i = j
      OBVIOUS
    <2>1. rs[i] = rs[j]
      BY <1>8
    <2> QED
      BY <1>5, <1>8, <2>1
  <1>12. TypeOK
    <2>1. history \in 0..MaxHistory /\ 0 \in 0..MaxHistory /\ 0 \in 0..MaxEdits /\ 0 \in 0..MaxKills
      BY <1>1, TransitionAssumption
    <2>2. log \in Seq(Entry) /\ late \subseteq Mutation
      BY <1>1
    <2>3. repair \in [status : {"none", "pending", "completed", "rejected"}, n : Nat]
      BY <1>1
    <2>4. /\ cursor \in [exists : BOOLEAN, history : 0..MaxHistory, position : Nat, watermark : Nat]
          /\ cursor.position <= cursor.watermark
      BY <1>1, <2>1
    <2>5. intent \in [mode : Modes \cup {"none"}, sealed : BOOLEAN]
      BY <1>1
    <2>6. backup \in [state : {"absent", "partial", "whole"},
                      rows : SUBSET [id : Id, content : Shared..Elsewhere],
                      content : [Records -> 0..Elsewhere]]
      <3>1. [r \in Records |-> 0] \in [Records -> 0..Elsewhere]
        BY DEF Elsewhere
      <3> QED
        BY <1>1, <3>1
    <2>7. transition \in [mode : Modes \cup {"none"},
                          status : {"none", "pulling", "publishing", "completed"}]
      BY <1>1
    <2>8. snapshot \in [Records -> [hash : 0..Elsewhere, seen : BOOLEAN]]
      BY <1>1 DEF Elsewhere
    <2>9. run \in RunType /\ Len(run.answers) <= Len(run.claims)
      BY <1>1, IdleIs
    <2> QED
      BY <1>1, <1>3, <1>8, <1>9, <1>10, <1>11, <2>1, <2>2, <2>3, <2>4, <2>5, <2>6, <2>7, <2>8, <2>9
         DEF TypeOK, RunType
  <1>13. LogInv
    BY <1>1 DEF LogInv
  <1>14. QueueInv
    <2>1. \A k \in DOMAIN outbox : /\ outbox[k].m.id.n <= issued[outbox[k].m.id.record]
                                   /\ local[outbox[k].m.id.record].version > 0
      BY <1>3, <1>5, <1>8, <1>9
    <2> QED
      BY <1>3, <2>1 DEF QueueInv, Present
  <1>15. ~Active /\ ~Completed /\ ~Intended
    BY <1>1 DEF Active, Completed, Intended
  <1>16. PlaceInv /\ BatchInv
    BY <1>1, <1>15, IdleIs DEF PlaceInv, BatchInv, Batch
  <1>17. BackupInv /\ CursorInv
    BY <1>1, <1>15 DEF BackupInv, CursorInv
  <1>18. Snapshot = {}
    BY <1>1 DEF Snapshot
  <1>19. ActiveInv /\ SeenInv
    BY <1>15, <1>18 DEF ActiveInv, SeenInv
  <1>20. RepairGoesFirst
    BY <1>1 DEF RepairGoesFirst, RepairPending
  <1> QED
    BY <1>12, <1>13, <1>14, <1>16, <1>17, <1>19, <1>20 DEF TransInv

LEMMA NextTransition ==
  ASSUME TransInv, [Next]_vars
  PROVE  TransInv'
  <1>1. CASE UNCHANGED vars
    BY <1>1, StutterStep
  <1>2. ASSUME NEW command \in Modes \cup {"sync"}, Start(command)
        PROVE  TransInv'
    BY <1>2, StartStep
  <1>3. CASE AutoSyncProject
    <2>1. Start(PlanSyncProject) /\ PlanSyncProject # "blocked"
      BY <1>3 DEF AutoSyncProject
    <2>2. PlanSyncProject \in Modes \cup {"sync"}
      <3>1. CASE Active
        <4>1. transition.mode \in Modes \cup {"none"} /\ transition.mode # "none"
          BY <3>1 DEF TransInv, TypeOK, CursorInv, Active
        <4> QED
          BY <3>1, <4>1 DEF PlanSyncProject
      <3>2. CASE ~Active
        BY <2>1, <3>2 DEF PlanSyncProject
      <3> QED
        BY <3>1, <3>2
    <2> QED
      BY <2>1, <2>2, StartStep
  <1>4. CASE Proceed
    <2>1. CASE OpenSync \/ OpenTransition \/ ProbeEmptyProject
      BY <2>1, OpenStep
    <2>2. CASE EnsureSyncProjectBackupIntent
      BY <2>2, IntentStep
    <2>3. CASE ReserveBackup
      BY <2>3, ReserveStep
    <2>4. CASE CreateSQLiteBackup
      BY <2>4, BackupStep
    <2>5. CASE ReuseBackup \/ RefuseToPrepare \/ Continue
      BY <2>5, ContinueStep
    <2>6. CASE SealSyncProjectBackupIntent
      BY <2>6, SealStep
    <2>7. CASE PrepareSyncProjectTransition
      BY <2>7, PrepareStep
    <2>8. CASE ClaimDueSyncOutbox
      BY <2>8, ClaimStep
    <2>9. CASE CheckQueue
      BY <2>9, CheckStep
    <2>10. CASE Push
      BY <2>10, PushStep
    <2>11. CASE Receive
      BY <2>11, ReceiveStep
    <2>12. CASE ApplySyncPushResult
      BY <2>12, ApplyStep
    <2>13. CASE GiveUp
      BY <2>13, GiveUpStep
    <2>14. CASE Discover
      BY <2>14, DiscoverStep
    <2>15. CASE ApplyProjectPulledPage
      BY <2>15, PageStep
    <2>16. CASE FinalizeSyncProjectTransition
      BY <2>16, FinalizeStep
    <2> QED
      BY <1>4, <2>1, <2>2, <2>3, <2>4, <2>5, <2>6, <2>7, <2>8, <2>9, <2>10, <2>11, <2>12,
         <2>13, <2>14, <2>15, <2>16 DEF Proceed
  <1>5. CASE Abandon
    BY <1>5, AbandonStep
  <1>6. CASE ClaimsExpire \/ RetriesFallDue
    BY <1>6, PassesStep DEF ClaimsExpire, RetriesFallDue
  <1>7. CASE EnqueueLocalWrite
    BY <1>7, EnqueueStep
  <1>8. CASE BackfillSyncProject
    BY <1>8, BackfillStep
  <1>9. CASE RepairSyncProject
    BY <1>9, RepairStep
  <1>10. CASE DecideLate
    BY <1>10, LateStep
  <1>11. CASE OtherDevice
    BY <1>11, OtherStep
  <1>12. CASE ResetCloud
    BY <1>12, ResetStep
  <1>13. CASE Done
    BY <1>13, StutterStep DEF Done
  <1> QED
    BY <1>1, <1>2, <1>3, <1>4, <1>5, <1>6, <1>7, <1>8, <1>9, <1>10, <1>11, <1>12, <1>13 DEF Next

LEMMA TransitionInvariant == Spec => []TransInv
  <1>1. Init => TransInv
    BY InitTransition
  <1>2. TransInv /\ [Next]_vars => TransInv'
    BY NextTransition
  <1> QED
    BY <1>1, <1>2, PTL DEF Spec

\* Only what prepares a transition begins one.
LEMMA OnlyPrepareBegins ==
  ASSUME TransInv, [Next]_vars, ~Active, Active'
  PROVE  PrepareSyncProjectTransition
  <1> SUFFICES ASSUME ~PrepareSyncProjectTransition
               PROVE  FALSE
    OBVIOUS
  <1>1. transition' # transition
    BY DEF Active
  <1>2. ~(UNCHANGED moving)
    BY <1>1 DEF moving
  <1>3. ~(UNCHANGED vars) /\ ~Done
    BY <1>2 DEF vars, Done
  <1>4. \A command : ~Start(command)
    BY <1>2 DEF Start
  <1>5. ~AutoSyncProject
    BY <1>4 DEF AutoSyncProject
  <1>6. ~Proceed
    <2>1. ~OpenSync /\ ~OpenTransition /\ ~ProbeEmptyProject
      BY <1>2 DEF OpenSync, OpenTransition, ProbeEmptyProject
    <2>2. ~EnsureSyncProjectBackupIntent /\ ~ReserveBackup /\ ~CreateSQLiteBackup
            /\ ~SealSyncProjectBackupIntent
      BY <1>1 DEF EnsureSyncProjectBackupIntent, ReserveBackup, CreateSQLiteBackup,
                  SealSyncProjectBackupIntent
    <2>3. ~ReuseBackup /\ ~RefuseToPrepare /\ ~Continue
      BY <1>2 DEF ReuseBackup, RefuseToPrepare, Continue
    <2>4. ~ClaimDueSyncOutbox /\ ~CheckQueue
      BY <1>2 DEF ClaimDueSyncOutbox, CheckQueue
    <2>5. ~Push /\ ~Receive
      BY <1>2 DEF Push, Receive
    <2>6. ~ApplySyncPushResult /\ ~GiveUp
      BY <1>2 DEF ApplySyncPushResult, GiveUp
    <2>7. ~Discover
      BY <1>2 DEF Discover
    <2>8. ~ApplyProjectPulledPage
      BY <1>1 DEF ApplyProjectPulledPage
    <2>9. ~FinalizeSyncProjectTransition
      BY DEF FinalizeSyncProjectTransition, TransInv, PlaceInv
    <2> QED
      BY <2>1, <2>2, <2>3, <2>4, <2>5, <2>6, <2>7, <2>8, <2>9 DEF Proceed
  <1>7. ~Abandon /\ ~ClaimsExpire /\ ~RetriesFallDue
    BY <1>2 DEF Abandon, ClaimsExpire, RetriesFallDue, Passes
  <1>8. ~EnqueueLocalWrite /\ ~RepairSyncProject
    BY <1>2 DEF EnqueueLocalWrite, RepairSyncProject
  <1>9. ~BackfillSyncProject
    BY <1>2 DEF BackfillSyncProject
  <1>10. ~DecideLate /\ ~OtherDevice /\ ~ResetCloud
    BY <1>2 DEF DecideLate, OtherDevice, ResetCloud
  <1> QED
    BY <1>3, <1>4, <1>5, <1>6, <1>7, <1>8, <1>9, <1>10 DEF Next

\* What a transition drops is in the backup it was prepared with, whatever the
\* local writer does between the backup, its seal and the transition: the
\* intent keeps writers out from before the file is filled.
THEOREM BackupKeepsQueue == Spec => BackupHoldsQueue
  <1>1. TransInv /\ [Next]_vars =>
          [~Active /\ Active' => /\ backup.state = "whole" /\ intent.sealed
                                 /\ {Write(outbox[i].m) : i \in DOMAIN outbox} \subseteq backup.rows
                                 /\ \A r \in Records : local[r].content = backup.content[r]]_vars
    <2> SUFFICES ASSUME TransInv, [Next]_vars, ~Active, Active'
                 PROVE  /\ backup.state = "whole" /\ intent.sealed
                        /\ {Write(outbox[i].m) : i \in DOMAIN outbox} \subseteq backup.rows
                        /\ \A r \in Records : local[r].content = backup.content[r]
      OBVIOUS
    <2>1. PrepareSyncProjectTransition
      BY OnlyPrepareBegins
    <2>2. intent.sealed /\ Intended
      BY <2>1 DEF PrepareSyncProjectTransition, TransInv, PlaceInv
    <2> QED
      BY <2>2 DEF TransInv, BackupInv
  <1> QED
    BY <1>1, TransitionInvariant, PTL DEF Spec, BackupHoldsQueue

\* The project stands still until its transition ends: each record has the
\* content the snapshot took, and all that is queued is one create of a record
\* of the snapshot, as the snapshot has it, whoever writes, publishes, is
\* killed or resets the cloud in between.  A run pulls with rows still queued;
\* a create that no longer fits the version of its record is of one that was
\* seen in the history meanwhile.
THEOREM SnapshotHolds == Spec => []SnapshotStaysTrue
  <1>1. TransInv => SnapshotStaysTrue
    <2> SUFFICES ASSUME TransInv
                 PROVE  SnapshotStaysTrue
      OBVIOUS
    <2>1. TypeOK
      BY DEF TransInv
    <2>2. ASSUME Active, NEW i \in DOMAIN outbox
          PROVE  LET m == outbox[i].m
                 IN /\ m.base = 0 /\ m.content = snapshot[m.id.record].hash
                    /\ m.id.record \in Snapshot
                    /\ RowsOf(m.id.record) = {i}
                    /\ local[m.id.record].version = 0 \/ snapshot[m.id.record].seen
      <3>1. RowsOf(outbox[i].m.id.record) = {i}
        BY <2>2 DEF TransInv, ActiveInv, RowsOf
      <3> QED
        BY <2>2, <3>1 DEF TransInv, ActiveInv
    <2>3. Active => \A r \in Snapshot : local[r].content = snapshot[r].hash
      BY DEF TransInv, ActiveInv
    <2> QED
      BY <2>1, <2>2, <2>3 DEF SnapshotStaysTrue
  <1> QED
    BY <1>1, TransitionInvariant, PTL

\* A transition completes only when both sides agree, although its runs pull and
\* finalize with rows still queued: with nothing left to publish, each record of the snapshot is in the history, up to the cursor,
\* as a create of what is here, and has that version here.
THEOREM CompletionIsShared == Spec => []CompletedIsShared
  <1>1. TransInv => CompletedIsShared
    <2> SUFFICES ASSUME TransInv, Completed, cursor.history = history
                 PROVE  /\ outbox = << >>
                        /\ \A r \in Snapshot :
                             /\ local[r] = [content |-> snapshot[r].hash, version |-> 1]
                             /\ \E i \in 1..cursor.position :
                                  log[i].m.id.record = r /\ log[i].m.base = 0
                                    /\ log[i].m.content = snapshot[r].hash /\ log[i].accepted
      BY DEF CompletedIsShared
    <2>1. outbox = << >> /\ Unseen = {}
      BY DEF TransInv, ActiveInv
    <2>2. \A r \in Snapshot : snapshot[r].seen
      BY <2>1 DEF Unseen
    <2> QED
      BY <2>1, <2>2 DEF TransInv, SeenInv, CreatedAs
  <1> QED
    BY <1>1, TransitionInvariant, PTL

\* While a repair is pending nothing but its create is ever held by a run, and
\* a repair that completed did create the project in a history that is not
\* gone, whatever was claimed, lost, retried or expired on the way.
THEOREM RepairIsFirst == Spec => []RepairGoesFirst
  <1>1. TransInv => RepairGoesFirst
    BY DEF TransInv
  <1> QED
    BY <1>1, TransitionInvariant, PTL

=============================================================================
