------------------------------ MODULE DumpProofs ------------------------------
(* Proofs about dumps on their way out and in: DatabaseExporter::run() and  *)
(* its PageQueue, for any size of the index, of a page and of the queue;    *)
(* and imports with their resume point, for any paths and dumps.            *)
EXTENDS DatabaseExport, DatabaseImport, FiniteSetTheorems, WellFoundedInduction, TLAPS

-----------------------------------------------------------------------------
(* Exports *)
(* The rows in the file, and those on their way to it.                      *)
Elems(s) == {s[i] : i \in 1..Len(s)}
Written == Elems(dump)
Queued == UNION Elems(pages)
Held == Written \union writing \union Queued \union page

Before(A, B) == \A a \in A, b \in B : a < b

(* The rows in hand form one chain: the file, the page being written, the   *)
(* pages in the queue, the page just read, and the cursor at its end.       *)
ChainInv ==
  /\ InOrder
  /\ Before(Written, writing) /\ Before(Written \union writing, Queued)
  /\ Before(Written \union writing \union Queued, page)
  /\ \A j, k \in 1..Len(pages) : j < k => Before(pages[j], pages[k])
  /\ \A r \in Held : r <= afterId

(* Where the two threads are says what they hold and why they left.         *)
ThreadsInv ==
  /\ page # {} => reader \in {"push", "parked"}
  /\ writing # {} => writer = "write" \/ writeFailed
  /\ writeFailed <=> writing # {} /\ writer \in {"close", "exited"}
  /\ writer = "close" => writeFailed
  /\ finished <=> reader \in {"close", "join", "returned"}
  /\ closed => cancel \/ writeFailed
  /\ closed => pages = <<>>
  /\ writer = "exited" => pages = <<>> /\ (closed \/ finished)
  /\ reader = "returned" => writer = "exited"
  /\ outcome # "none" <=> reader = "returned"
  /\ outcome = "ok" => ~cancel /\ ~writeFailed

(* A thread is parked only while its condition is false, so a notification  *)
(* is never lost: the queue is full for the reader, empty and still open    *)
(* for the writer.                                                          *)
NoWakeupIsLost ==
  /\ reader = "parked" => Len(pages) >= ReadAhead /\ ~closed
  /\ writer = "parked" => pages = <<>> /\ ~finished /\ ~closed

(* Until somebody gives up, the sweep has missed no row that stayed: those  *)
(* behind the cursor are held, and the reader leaves with none ahead.       *)
Undisturbed == ~cancel /\ ~writeFailed /\ ~readFailed
SweepInv ==
  Undisturbed =>
    /\ \A r \in stayed : r <= afterId => r \in Held
    /\ reader \in {"finish", "close", "join", "returned"} => \A r \in stayed : r <= afterId

ExportInv == TypeOK /\ ThreadsInv /\ NoWakeupIsLost /\ ChainInv /\ SweepInv
-----------------------------------------------------------------------------
(* A set of naturals that is not empty has a least member.                  *)
LEMMA HasLeast ==
  ASSUME NEW S \in SUBSET Nat, S # {}
  PROVE  \E r \in S : \A q \in S : r <= q
<1> DEFINE R == OpToRel(<, Nat)
<1>1. \A x, y \in Nat : x < y => <<x, y>> \in R
  BY DEF OpToRel
<1>2. IsWellFoundedOn(R, Nat)
  BY NatLessThanWellFounded
<1> HIDE DEF R
<1>3. PICK r \in S : \A q \in S : <<q, r>> \notin R
  BY <1>2, WFMin
<1>4. \A q \in S : ~(q < r)
  BY <1>1, <1>3
<1>5. QED
  BY <1>4

(* The last and the first row of a page are the ends of its order.          *)
LEMMA LastIdFacts ==
  ASSUME NEW S \in SUBSET Rows, S # {}
  PROVE  LastId(S) \in S /\ \A q \in S : q <= LastId(S)
<1> DEFINE T == {MaxRow - r : r \in S}
<1>0. MaxRow \in Nat
  BY ExportAssumption
<1>1. T \in SUBSET Nat /\ T # {}
  <2>1. \A r \in Rows : MaxRow - r \in Nat
    BY <1>0 DEF Rows
  <2>2. \A r \in S : MaxRow - r \in Nat
    BY <2>1
  <2>3. QED
    BY <2>2, Zenon
<1>2. PICK t \in T : \A q \in T : t <= q
  BY <1>1, HasLeast
<1>3. PICK r \in S : t = MaxRow - r
  OBVIOUS
<1>4. \A q \in S : q <= r
  <2> SUFFICES ASSUME NEW q \in S PROVE q <= r
    OBVIOUS
  <2>1. q \in Nat /\ r \in Nat /\ MaxRow - r <= MaxRow - q
    BY <1>2, <1>3 DEF Rows
  <2>2. QED
    BY <1>0, <2>1
<1>5. QED
  BY <1>4 DEF LastId

LEMMA FirstOfFacts ==
  ASSUME NEW S \in SUBSET Rows, S # {}
  PROVE  FirstOf(S) \in S /\ \A q \in S : FirstOf(S) <= q
<1>1. PICK r \in S : \A q \in S : r <= q
  BY HasLeast DEF Rows
<1>2. QED
  BY <1>1 DEF FirstOf

(* A page holds rows ahead of the cursor, none if there are none, and every *)
(* row up to its last one.                                                  *)
LEMMA SomePageFacts ==
  ASSUME index \in SUBSET Rows, NEW cursor \in Nat
  PROVE  /\ SomePage(cursor) \in SUBSET Ahead(cursor)
         /\ Ahead(cursor) # {} => SomePage(cursor) # {}
         /\ SomePage(cursor) # {} =>
              \A r \in Ahead(cursor) : r <= LastId(SomePage(cursor)) => r \in SomePage(cursor)
<1> DEFINE Below(r) == {q \in Ahead(cursor) : q < r}
<1>0. Ahead(cursor) \in SUBSET Rows /\ SomePage(cursor) \in SUBSET Ahead(cursor)
  BY DEF Ahead, SomePage
<1>1. \A r \in Rows : IsFiniteSet(Below(r)) /\ Cardinality(Below(r)) \in Nat
  <2>1. IsFiniteSet(Rows)
    BY ExportAssumption, FS_Interval DEF Rows
  <2>2. \A r \in Rows : Below(r) \in SUBSET Rows
    BY <1>0
  <2>3. QED
    BY <2>1, <2>2, FS_Subset, FS_CardinalityType
<1>2. ASSUME Ahead(cursor) # {} PROVE SomePage(cursor) # {}
  <2>1. PICK r \in Ahead(cursor) : \A q \in Ahead(cursor) : r <= q
    BY <1>0, <1>2, HasLeast DEF Rows
  <2>2. Below(r) = {}
    BY <2>1, <1>0 DEF Rows
  <2>3. Cardinality(Below(r)) < PageSize
    BY <2>2, FS_EmptySet, ExportAssumption
  <2>4. QED
    BY <2>3 DEF SomePage
<1>3. ASSUME SomePage(cursor) # {}, NEW r \in Ahead(cursor), r <= LastId(SomePage(cursor))
      PROVE  r \in SomePage(cursor)
  <2> DEFINE last == LastId(SomePage(cursor))
  <2>1. last \in SomePage(cursor)
    BY <1>0, <1>3, LastIdFacts
  <2>2. Cardinality(Below(last)) < PageSize /\ last \in Rows
    BY <1>0, <2>1 DEF SomePage
  <2> HIDE DEF last
  <2>3. Below(r) \in SUBSET Below(last)
    BY <1>0, <1>3, <2>2 DEF Rows, last
  <2>4. Cardinality(Below(r)) <= Cardinality(Below(last))
    BY <1>1, <2>2, <2>3, FS_Subset
  <2>5. Cardinality(Below(r)) < PageSize
    BY <1>0, <1>1, <2>2, <2>4, ExportAssumption
  <2>6. QED
    BY <2>5 DEF SomePage
<1>4. QED
  BY <1>0, <1>2, <1>3

LEMMA ElemsAppend ==
  ASSUME NEW S, NEW s \in Seq(S), NEW e \in S
  PROVE  Elems(Append(s, e)) = Elems(s) \union {e}
<1>1. Len(Append(s, e)) = Len(s) + 1 /\ Len(s) \in Nat
  OBVIOUS
<1>2. /\ \A i \in 1..Len(s) : Append(s, e)[i] = s[i]
      /\ Append(s, e)[Len(s) + 1] = e
  OBVIOUS
<1>3. 1..Len(s) + 1 = 1..Len(s) \union {Len(s) + 1}
  BY <1>1
<1>4. QED
  BY <1>1, <1>2, <1>3 DEF Elems

LEMMA ElemsTail ==
  ASSUME NEW S, NEW s \in Seq(S), s # <<>>
  PROVE  /\ Head(s) = s[1] /\ Tail(s) \in Seq(S) /\ Len(Tail(s)) = Len(s) - 1
         /\ \A i \in 1..Len(Tail(s)) : Tail(s)[i] = s[i + 1]
         /\ Elems(s) = Elems(Tail(s)) \union {Head(s)}
<1>1. Head(s) = s[1] /\ Tail(s) \in Seq(S) /\ Len(Tail(s)) = Len(s) - 1 /\ Len(s) \in Nat \ {0}
  OBVIOUS
<1>2. \A i \in 1..Len(Tail(s)) : Tail(s)[i] = s[i + 1]
  OBVIOUS
<1>3. \A i \in 1..Len(s) : i = 1 \/ (i - 1 \in 1..Len(Tail(s)) /\ Tail(s)[i - 1] = s[i])
  BY <1>1, <1>2
<1>4. Elems(s) \subseteq Elems(Tail(s)) \union {Head(s)}
  BY <1>1, <1>3 DEF Elems
<1>5. Elems(Tail(s)) \union {Head(s)} \subseteq Elems(s)
  <2>1. \A i \in 1..Len(Tail(s)) : i + 1 \in 1..Len(s)
    BY <1>1
  <2>2. 1 \in 1..Len(s)
    BY <1>1
  <2>3. QED
    BY <1>1, <1>2, <2>1, <2>2 DEF Elems
<1>6. QED
  BY <1>1, <1>2, <1>4, <1>5

LEMMA ElemsEmpty == Elems(<<>>) = {}
BY DEF Elems

-----------------------------------------------------------------------------
(* Every step keeps the types and the queue within its bound.               *)
LEMMA TypeStep ==
  ASSUME TypeOK, ThreadsInv, [Next]_vars
  PROVE  TypeOK'
<1> USE DEF TypeOK, Queue, Output, Woken
<1>1. CASE CheckStop
  BY <1>1 DEF CheckStop
<1>2. ASSUME NEW fails \in BOOLEAN, Query(fails) PROVE TypeOK'
  <2>1. SomePage(afterId) \in SUBSET Rows
    BY SomePageFacts DEF Ahead
  <2>2. page' \in SUBSET Rows
    BY <1>2, <2>1 DEF Query
  <2>3. afterId' \in Nat
    BY <1>2, <2>1, LastIdFacts DEF Query, Rows
  <2>4. QED
    BY <1>2, <2>2, <2>3 DEF Query
<1>3. ASSUME NEW fails \in BOOLEAN, Decide(fails) PROVE TypeOK'
  BY <1>3 DEF Decide
<1>4. CASE Push
  <2>1. CASE closed
    BY <1>4, <2>1 DEF Push
  <2>2. CASE ~closed /\ Len(pages) < ReadAhead
    <3>1. pages' = Append(pages, page) /\ page' = {}
      BY <1>4, <2>2, ExportAssumption DEF Push
    <3>2. pages' \in Seq(SUBSET Rows) /\ Len(pages') = Len(pages) + 1
      BY <3>1
    <3>3. Len(pages') <= ReadAhead
      BY <2>2, <3>2, ExportAssumption
    <3>4. QED
      BY <1>4, <2>2, <3>1, <3>2, <3>3 DEF Push
  <2>3. CASE ~closed /\ ~(Len(pages) < ReadAhead)
    BY <1>4, <2>3 DEF Push
  <2>4. QED
    BY <2>1, <2>2, <2>3
<1>5. CASE Finish
  BY <1>5 DEF Finish
<1>6. CASE CloseIfCancelled
  <2>0. pages' \in {pages, <<>>}
    BY <1>6 DEF CloseIfCancelled
  <2>1. pages' \in Seq(SUBSET Rows) /\ Len(pages') <= ReadAhead
    <3>1. 0 <= ReadAhead /\ Len(<<>>) = 0 /\ <<>> \in Seq(SUBSET Rows)
      BY ExportAssumption
    <3>2. QED
      BY <2>0, <3>1
  <2>2. closed' \in BOOLEAN /\ writer' \in {"pop", "write", "parked", "close", "exited"}
    BY <1>6 DEF CloseIfCancelled
  <2>3. QED
    BY <1>6, <2>1, <2>2 DEF CloseIfCancelled
<1>7. CASE Pop
  <2>1. CASE pages # <<>>
    <3>1. Head(pages) \in SUBSET Rows /\ Tail(pages) \in Seq(SUBSET Rows)
          /\ Len(Tail(pages)) = Len(pages) - 1 /\ Len(pages) \in Nat
      BY <2>1
    <3>2. Len(Tail(pages)) <= ReadAhead
      BY <3>1, ExportAssumption
    <3>3. QED
      BY <1>7, <2>1, <3>1, <3>2 DEF Pop
  <2>2. CASE pages = <<>>
    BY <1>7, <2>2 DEF Pop
  <2>3. QED
    BY <2>1, <2>2
<1>8. ASSUME NEW fails \in BOOLEAN, Write(fails) PROVE TypeOK'
  <2>1. writing # {} => FirstOf(writing) \in Rows
    BY FirstOfFacts
  <2>2. dump' \in Seq(Rows)
    BY <1>8, <2>1 DEF Write
  <2>3. writer' \in {"pop", "write", "parked", "close", "exited"} /\ writeFailed' \in BOOLEAN
    BY <1>8 DEF Write
  <2>4. writing' \subseteq Rows /\ faults' \in Nat
    BY <1>8 DEF Write
  <2>5. QED
    BY <1>8, <2>2, <2>3, <2>4 DEF Write
<1>9. CASE CloseAfterFailure
  BY <1>9, ExportAssumption DEF CloseAfterFailure
<1>10. CASE IndexChanges
  BY <1>10 DEF IndexChanges
<1>11. CASE Cancel
  BY <1>11 DEF Cancel
<1>12. CASE UNCHANGED vars
  BY <1>12 DEF vars
<1>13. QED
  BY <1>1, <1>2, <1>3, <1>4, <1>5, <1>6, <1>7, <1>8, <1>9, <1>10, <1>11, <1>12
     DEF Next, ReaderStep, WriterStep

(* Every step keeps what the positions of the threads say.                  *)
LEMMA ThreadsStep ==
  ASSUME TypeOK, ThreadsInv, [Next]_vars
  PROVE  ThreadsInv'
<1> USE DEF TypeOK, ThreadsInv, Queue, Output, Woken
<1>1. CASE CheckStop
  BY <1>1 DEF CheckStop
<1>2. ASSUME NEW fails \in BOOLEAN, Query(fails) PROVE ThreadsInv'
  BY <1>2 DEF Query
<1>3. ASSUME NEW fails \in BOOLEAN, Decide(fails) PROVE ThreadsInv'
  BY <1>3 DEF Decide
<1>4. CASE Push
  BY <1>4 DEF Push
<1>5. CASE Finish
  BY <1>5 DEF Finish
<1>6. CASE CloseIfCancelled
  BY <1>6 DEF CloseIfCancelled
<1>7. CASE Pop
  BY <1>7 DEF Pop
<1>8. ASSUME NEW fails \in BOOLEAN, Write(fails) PROVE ThreadsInv'
  BY <1>8 DEF Write
<1>9. CASE CloseAfterFailure
  BY <1>9 DEF CloseAfterFailure
<1>10. CASE IndexChanges
  BY <1>10 DEF IndexChanges
<1>11. CASE Cancel
  BY <1>11 DEF Cancel
<1>12. CASE UNCHANGED vars
  BY <1>12 DEF vars
<1>13. QED
  BY <1>1, <1>2, <1>3, <1>4, <1>5, <1>6, <1>7, <1>8, <1>9, <1>10, <1>11, <1>12
     DEF Next, ReaderStep, WriterStep

(* Every step that makes a parked thread's condition true wakes it.         *)
LEMMA WakeupStep ==
  ASSUME TypeOK, ThreadsInv, NoWakeupIsLost, [Next]_vars
  PROVE  NoWakeupIsLost'
<1> USE DEF NoWakeupIsLost, Queue, Output, Woken
<1>1. CASE CheckStop
  BY <1>1 DEF CheckStop
<1>2. ASSUME NEW fails \in BOOLEAN, Query(fails) PROVE NoWakeupIsLost'
  BY <1>2 DEF Query
<1>3. ASSUME NEW fails \in BOOLEAN, Decide(fails) PROVE NoWakeupIsLost'
  BY <1>3 DEF Decide
<1>4. CASE Push
  BY <1>4 DEF Push
<1>5. CASE Finish
  BY <1>5 DEF Finish
<1>6. CASE CloseIfCancelled
  BY <1>6 DEF CloseIfCancelled
<1>7. CASE Pop
  BY <1>7 DEF Pop
<1>8. ASSUME NEW fails \in BOOLEAN, Write(fails) PROVE NoWakeupIsLost'
  BY <1>8 DEF Write
<1>9. CASE CloseAfterFailure
  BY <1>9 DEF CloseAfterFailure
<1>10. CASE IndexChanges
  BY <1>10 DEF IndexChanges
<1>11. CASE Cancel
  BY <1>11 DEF Cancel
<1>12. CASE UNCHANGED vars
  BY <1>12 DEF vars
<1>13. QED
  BY <1>1, <1>2, <1>3, <1>4, <1>5, <1>6, <1>7, <1>8, <1>9, <1>10, <1>11, <1>12
     DEF Next, ReaderStep, WriterStep

-----------------------------------------------------------------------------
(* A step that only takes rows out of the chain keeps it.                   *)
LEMMA ChainKept ==
  ASSUME ChainInv, UNCHANGED <<dump, writing, afterId>>,
         pages' \in {pages, <<>>}, page' \in {page, {}}
  PROVE  ChainInv'
<1>1. Queued' \subseteq Queued /\ Written' = Written /\ Held' \subseteq Held
  BY ElemsEmpty DEF Queued, Written, Held
<1>2. \A j, k \in 1..Len(pages') : j < k => Before(pages'[j], pages'[k])
  BY DEF ChainInv
<1>3. QED
  BY <1>1, <1>2 DEF ChainInv, Before, InOrder

(* The page just read goes behind all that is held.                         *)
LEMMA ChainQuery ==
  ASSUME TypeOK, ThreadsInv, ChainInv, NEW fails \in BOOLEAN, Query(fails)
  PROVE  ChainInv'
<1>1. page = {} /\ UNCHANGED <<dump, writing, pages>>
  BY DEF Query, ThreadsInv, Queue, Output
<1>2. CASE page' = {}
  BY <1>1, <1>2, ChainKept DEF Query
<1>3. CASE page' # {}
  <2>1. page' = SomePage(afterId) /\ afterId' = LastId(SomePage(afterId))
    BY <1>3 DEF Query
  <2>2. SomePage(afterId) \in SUBSET Ahead(afterId) /\ Ahead(afterId) \in SUBSET Rows
    BY SomePageFacts DEF TypeOK, Ahead
  <2>3. \A r \in page' : afterId < r /\ r <= afterId' /\ r \in Nat
    BY <1>3, <2>1, <2>2, LastIdFacts DEF Ahead, Rows
  <2>4. afterId < afterId' /\ afterId \in Nat /\ afterId' \in Nat
    BY <1>3, <2>1, <2>2, LastIdFacts DEF Ahead, Rows, TypeOK
  <2>5. Held' = Held \union page' /\ Written' = Written /\ Queued' = Queued
    BY <1>1 DEF Held, Written, Queued
  <2>6. \A r \in Held : r \in Nat /\ r <= afterId
    <3>1. Held \subseteq Rows
      BY <1>1 DEF Held, Written, Queued, Elems, TypeOK
    <3>2. \A r \in Rows : r \in Nat
      BY DEF Rows
    <3>3. \A r \in Held : r <= afterId
      BY DEF ChainInv
    <3>4. QED
      BY <3>1, <3>2, <3>3
  <2>7. Before(Written \union writing \union Queued, page')
    BY <2>3, <2>4, <2>6 DEF Before, Held
  <2>8. \A r \in Held' : r <= afterId'
    BY <2>3, <2>4, <2>5, <2>6
  <2>9. QED
    BY <1>1, <2>5, <2>7, <2>8 DEF ChainInv, InOrder
<1>4. QED
  BY <1>2, <1>3

(* The page in hand becomes the last of the queue.                          *)
LEMMA ChainPush ==
  ASSUME TypeOK, ChainInv, Push
  PROVE  ChainInv' /\ (~closed => Held' = Held)
<1>1. UNCHANGED <<dump, writing, afterId>>
  BY DEF Push, Output
<1>2. CASE pages' = pages
  <2>1. ~closed => page' = page
    <3>1. Len(Append(pages, page)) = Len(pages) + 1 /\ Len(pages) \in Nat
      BY DEF TypeOK
    <3>2. QED
      BY <1>2, <3>1 DEF Push
  <2>2. page' \in {page, {}}
    BY DEF Push
  <2>3. QED
    BY <1>1, <1>2, <2>1, <2>2, ChainKept DEF Held, Written, Queued
<1>3. CASE pages' # pages
  <2>1. pages' = Append(pages, page) /\ page' = {}
    BY <1>3 DEF Push
  <2>2. pages \in Seq(SUBSET Rows) /\ page \in SUBSET Rows /\ Len(pages) \in Nat
    BY DEF TypeOK
  <2>3. Queued' = Queued \union page /\ Held' = Held /\ Written' = Written
    <3>1. Elems(pages') = Elems(pages) \union {page}
      BY <2>1, <2>2, ElemsAppend
    <3>2. QED
      BY <1>1, <2>1, <3>1 DEF Queued, Held, Written
  <2>4. \A j, k \in 1..Len(pages') : j < k => Before(pages'[j], pages'[k])
    <3> SUFFICES ASSUME NEW j \in 1..Len(pages'), NEW k \in 1..Len(pages'), j < k
                 PROVE  Before(pages'[j], pages'[k])
      OBVIOUS
    <3>1. Len(pages') = Len(pages) + 1 /\ j \in 1..Len(pages) /\ pages'[j] = pages[j]
      BY <2>1, <2>2
    <3>2. CASE k \in 1..Len(pages)
      BY <2>1, <2>2, <3>1, <3>2 DEF ChainInv
    <3>3. CASE k = Len(pages) + 1
      <4>1. pages'[k] = page
        BY <2>1, <2>2, <3>3
      <4>2. pages[j] \subseteq Queued
        BY <3>1 DEF Queued, Elems
      <4>3. QED
        BY <3>1, <4>1, <4>2 DEF ChainInv, Before
    <3>4. QED
      BY <2>2, <3>1, <3>2, <3>3
  <2>5. QED
    BY <1>1, <2>1, <2>3, <2>4 DEF ChainInv, Before, InOrder
<1>4. QED
  BY <1>2, <1>3

(* The first page of the queue goes to the writer, whose hands are empty.   *)
LEMMA ChainPop ==
  ASSUME TypeOK, ThreadsInv, ChainInv, Pop
  PROVE  ChainInv' /\ Held' = Held
<1>1. UNCHANGED <<dump, afterId, page>> /\ Written' = Written
  BY DEF Pop, Written
<1>2. CASE pages = <<>>
  BY <1>1, <1>2, ChainKept DEF Pop, Held, Queued
<1>3. CASE pages # <<>>
  <2>1. pages' = Tail(pages) /\ writing' = Head(pages) /\ writing = {} /\ pages \in Seq(SUBSET Rows)
    BY <1>3 DEF Pop, ThreadsInv, TypeOK
  <2>2. /\ writing' = pages[1] /\ Len(pages') = Len(pages) - 1 /\ Len(pages) \in Nat \ {0}
        /\ \A i \in 1..Len(pages') : pages'[i] = pages[i + 1]
        /\ Elems(pages) = Elems(pages') \union {writing'}
    BY <1>3, <2>1, ElemsTail
  <2>3. Queued = Queued' \union writing' /\ Held' = Held
    BY <1>1, <2>1, <2>2 DEF Queued, Held
  <2>4. Before(writing', Queued')
    <3> SUFFICES ASSUME NEW a \in writing', NEW i \in 1..Len(pages'), NEW b \in pages'[i] PROVE a < b
      BY DEF Before, Queued, Elems
    <3>1. i + 1 \in 1..Len(pages) /\ 1 \in 1..Len(pages) /\ 1 < i + 1 /\ b \in pages[i + 1]
      BY <2>2
    <3>2. QED
      BY <2>2, <3>1 DEF ChainInv, Before
  <2>5. \A j, k \in 1..Len(pages') : j < k => Before(pages'[j], pages'[k])
    <3> SUFFICES ASSUME NEW j \in 1..Len(pages'), NEW k \in 1..Len(pages'), j < k
                 PROVE  Before(pages'[j], pages'[k])
      OBVIOUS
    <3>1. j + 1 \in 1..Len(pages) /\ k + 1 \in 1..Len(pages) /\ j + 1 < k + 1
      BY <2>2
    <3>2. QED
      BY <2>2, <3>1 DEF ChainInv
  <2>6. QED
    BY <1>1, <2>1, <2>3, <2>4, <2>5 DEF ChainInv, Before, InOrder
<1>4. QED
  BY <1>2, <1>3

(* The first row of the page being written goes to the end of the file.     *)
LEMMA ChainWrite ==
  ASSUME TypeOK, ChainInv, NEW fails \in BOOLEAN, Write(fails)
  PROVE  ChainInv' /\ Held' = Held
<1>1. UNCHANGED <<pages, page, afterId>>
  BY DEF Write, Queue
<1>2. CASE dump' = dump
  <2>1. UNCHANGED <<writing, dump>>
    <3>1. Len(Append(dump, FirstOf(writing))) = Len(dump) + 1 /\ Len(dump) \in Nat
      BY DEF TypeOK
    <3>2. QED
      BY <1>2, <3>1 DEF Write, Output
  <2>2. QED
    BY <1>1, <2>1, ChainKept DEF Held, Written, Queued
<1>3. CASE dump' # dump
  <2> DEFINE first == FirstOf(writing)
  <2>1. dump' = Append(dump, first) /\ writing' = writing \ {first} /\ writing # {}
    BY <1>3 DEF Write, Output
  <2>2. first \in writing /\ (\A q \in writing : first <= q) /\ writing \subseteq Rows
    BY <2>1, FirstOfFacts DEF TypeOK
  <2>3. dump \in Seq(Rows) /\ first \in Rows /\ Len(dump) \in Nat
    BY <2>2 DEF TypeOK
  <2> HIDE DEF first
  <2>4. Written' = Written \union {first} /\ Queued' = Queued
    BY <1>1, <2>1, <2>3, ElemsAppend DEF Written, Queued
  <2>5. Held' = Held /\ Written' \union writing' = Written \union writing
    BY <1>1, <2>1, <2>2, <2>4 DEF Held
  <2>6. InOrder'
    <3> SUFFICES ASSUME NEW i \in 1..Len(dump'), NEW j \in 1..Len(dump'), i < j PROVE dump'[i] < dump'[j]
      BY DEF InOrder
    <3>1. Len(dump') = Len(dump) + 1 /\ i \in 1..Len(dump) /\ dump'[i] = dump[i]
      BY <2>1, <2>3
    <3>2. CASE j \in 1..Len(dump)
      BY <2>1, <2>3, <3>1, <3>2 DEF ChainInv, InOrder
    <3>3. CASE j = Len(dump) + 1
      <4>1. dump'[j] = first /\ dump[i] \in Written
        BY <2>1, <2>3, <3>1, <3>3 DEF Written, Elems
      <4>2. QED
        BY <2>2, <3>1, <4>1 DEF ChainInv, Before
    <3>4. QED
      BY <2>3, <3>1, <3>2, <3>3
  <2>7. Before(Written', writing')
    <3>1. \A q \in writing' : first < q
      BY <2>1, <2>2, <2>3 DEF Rows
    <3>2. QED
      BY <2>1, <2>4, <3>1 DEF ChainInv, Before
  <2>8. QED
    BY <1>1, <2>1, <2>4, <2>5, <2>6, <2>7 DEF ChainInv, Before
<1>4. QED
  BY <1>2, <1>3

LEMMA ChainStep ==
  ASSUME TypeOK, ThreadsInv, ChainInv, [Next]_vars
  PROVE  ChainInv'
<1> USE ChainKept DEF Queue, Output
<1>1. CASE CheckStop
  BY <1>1 DEF CheckStop
<1>2. ASSUME NEW fails \in BOOLEAN, Query(fails) PROVE ChainInv'
  BY <1>2, ChainQuery
<1>3. ASSUME NEW fails \in BOOLEAN, Decide(fails) PROVE ChainInv'
  BY <1>3 DEF Decide
<1>4. CASE Push
  BY <1>4, ChainPush
<1>5. CASE Finish
  BY <1>5 DEF Finish
<1>6. CASE CloseIfCancelled
  BY <1>6 DEF CloseIfCancelled
<1>7. CASE Pop
  BY <1>7, ChainPop
<1>8. ASSUME NEW fails \in BOOLEAN, Write(fails) PROVE ChainInv'
  BY <1>8, ChainWrite
<1>9. CASE CloseAfterFailure
  BY <1>9 DEF CloseAfterFailure
<1>10. CASE IndexChanges
  BY <1>10 DEF IndexChanges
<1>11. CASE Cancel
  BY <1>11 DEF Cancel
<1>12. CASE UNCHANGED vars
  BY <1>12 DEF vars
<1>13. QED
  BY <1>1, <1>2, <1>3, <1>4, <1>5, <1>6, <1>7, <1>8, <1>9, <1>10, <1>11, <1>12
     DEF Next, ReaderStep, WriterStep

-----------------------------------------------------------------------------
(* A step that reads nothing, keeps the rows in hand and does not send the  *)
(* reader out of its loop misses no row.                                    *)
LEMMA SweepKept ==
  ASSUME SweepInv, Undisturbed' => Undisturbed, stayed' \subseteq stayed, afterId' = afterId,
         Undisturbed' => Held' = Held,
         Undisturbed' => (reader' \in {"finish", "close", "join", "returned"}
                            => reader \in {"finish", "close", "join", "returned"})
  PROVE  SweepInv'
BY DEF SweepInv

(* A page goes on where the last one ended, and an empty one is the end.    *)
LEMMA SweepQuery ==
  ASSUME TypeOK, ThreadsInv, SweepInv, NEW fails \in BOOLEAN, Query(fails)
  PROVE  SweepInv'
<1> SUFFICES ASSUME Undisturbed', NEW r \in stayed'
             PROVE  /\ r <= afterId' => r \in Held'
                    /\ reader' \in {"finish", "close", "join", "returned"} => r <= afterId'
  BY DEF SweepInv
<1>1. Undisturbed /\ ~fails /\ r \in stayed /\ r \in index /\ r \in Nat /\ afterId \in Nat
  BY DEF Query, Undisturbed, TypeOK, Output, Rows
<1>2. page = {} /\ page' = SomePage(afterId) /\ UNCHANGED <<dump, writing, pages>>
  BY <1>1 DEF Query, ThreadsInv, Output, Queue
<1>3. Held \subseteq Held' /\ page' \subseteq Held'
  BY <1>2 DEF Held, Written, Queued
<1>4. r > afterId => r \in Ahead(afterId)
  BY <1>1 DEF Ahead
<1>5. CASE page' = {}
  <2>0. Ahead(afterId) = {}
    BY <1>1, <1>2, <1>5, SomePageFacts DEF TypeOK
  <2>1. r <= afterId
    BY <1>1, <1>4, <2>0
  <2>2. afterId' = afterId
    BY <1>1, <1>2, <1>5 DEF Query
  <2>3. QED
    BY <1>1, <1>3, <2>1, <2>2 DEF SweepInv
<1>6. CASE page' # {}
  <2>1. afterId' = LastId(SomePage(afterId)) /\ reader' = "push"
    BY <1>1, <1>2, <1>6 DEF Query
  <2>2. r > afterId /\ r <= afterId' => r \in page'
    BY <1>2, <1>4, <1>6, <2>1, SomePageFacts DEF TypeOK
  <2>3. r <= afterId => r \in Held
    BY <1>1 DEF SweepInv
  <2>4. QED
    BY <1>1, <1>3, <2>1, <2>2, <2>3
<1>7. QED
  BY <1>5, <1>6

LEMMA SweepStep ==
  ASSUME TypeOK, ThreadsInv, ChainInv, SweepInv, [Next]_vars
  PROVE  SweepInv'
<1> USE DEF Queue, Output
<1>1. CASE CheckStop
  BY <1>1, SweepKept DEF CheckStop, Undisturbed, Held, Written, Queued
<1>2. ASSUME NEW fails \in BOOLEAN, Query(fails) PROVE SweepInv'
  BY <1>2, SweepQuery
<1>3. ASSUME NEW fails \in BOOLEAN, Decide(fails) PROVE SweepInv'
  BY <1>3, SweepKept DEF Decide, Undisturbed, Held, Written, Queued
<1>4. CASE Push
  <2>1. Undisturbed' => Undisturbed /\ ~closed
    BY <1>4 DEF Push, Undisturbed, ThreadsInv
  <2>2. QED
    BY <1>4, <2>1, ChainPush, SweepKept DEF Push
<1>5. CASE Finish
  BY <1>5, SweepKept DEF Finish, Undisturbed, Held, Written, Queued
<1>6. CASE CloseIfCancelled
  BY <1>6, SweepKept DEF CloseIfCancelled, Undisturbed, Held, Written, Queued
<1>7. CASE Pop
  <2>1. reader' \in {"finish", "close", "join", "returned"} => reader' = reader
    BY <1>7 DEF Pop, Woken
  <2>2. QED
    BY <1>7, <2>1, ChainPop, SweepKept DEF Pop, Undisturbed
<1>8. ASSUME NEW fails \in BOOLEAN, Write(fails) PROVE SweepInv'
  <2>1. Undisturbed' => Undisturbed
    BY <1>8 DEF Write, Undisturbed
  <2>2. QED
    BY <1>8, <2>1, ChainWrite, SweepKept DEF Write
<1>9. CASE CloseAfterFailure
  <2>1. ~Undisturbed'
    BY <1>9 DEF CloseAfterFailure, Undisturbed, ThreadsInv
  <2>2. QED
    BY <2>1 DEF SweepInv
<1>10. CASE IndexChanges
  BY <1>10, SweepKept DEF IndexChanges, Undisturbed, Held, Written, Queued
<1>11. CASE Cancel
  BY <1>11 DEF Cancel, SweepInv, Undisturbed
<1>12. CASE UNCHANGED vars
  BY <1>12, SweepKept DEF vars, Undisturbed, Held, Written, Queued
<1>13. QED
  BY <1>1, <1>2, <1>3, <1>4, <1>5, <1>6, <1>7, <1>8, <1>9, <1>10, <1>11, <1>12
     DEF Next, ReaderStep, WriterStep

-----------------------------------------------------------------------------
LEMMA ExportInitInv == Init => ExportInv
<1> SUFFICES ASSUME Init PROVE ExportInv
  OBVIOUS
<1>1. TypeOK
  <2>1. <<>> \in Seq(SUBSET Rows) /\ Len(<<>>) = 0 /\ <<>> \in Seq(Rows)
    OBVIOUS
  <2>2. 0 <= ReadAhead
    BY ExportAssumption
  <2>3. pages = <<>> /\ pages \in Seq(SUBSET Rows) /\ Len(pages) <= ReadAhead /\ dump \in Seq(Rows)
    BY <2>1, <2>2 DEF Init
  <2>4. QED
    BY <2>3 DEF Init, TypeOK
<1>2. Held = {}
  BY ElemsEmpty DEF Init, Held, Written, Queued
<1>3. ThreadsInv
  BY DEF Init, ThreadsInv
<1>4. ChainInv
  BY <1>2 DEF Init, ChainInv, InOrder, Before, Held
<1>5. SweepInv
  BY <1>1 DEF Init, SweepInv, TypeOK, Rows
<1>6. NoWakeupIsLost
  BY DEF Init, NoWakeupIsLost
<1>7. QED
  BY <1>1, <1>3, <1>4, <1>5, <1>6 DEF ExportInv

THEOREM ExportInvariant == Spec => []ExportInv
<1>1. ExportInv /\ [Next]_vars => ExportInv'
  BY TypeStep, ThreadsStep, WakeupStep, ChainStep, SweepStep DEF ExportInv
<1>2. QED
  BY <1>1, ExportInitInv, PTL DEF Spec

(* Types are kept, and the queue never holds more pages than it may.        *)
THEOREM ExportTypes == Spec => []TypeOK
<1>1. ExportInv => TypeOK
  BY DEF ExportInv
<1>2. QED
  BY <1>1, ExportInvariant, PTL

(* However the threads interleave, whatever is added and removed meanwhile  *)
(* and whenever it is cancelled: the dump is in the order of the ids, with  *)
(* no row twice, and an export that reports success holds every row that    *)
(* was there throughout.                                                    *)
THEOREM ExportIsRight == Spec => []DumpIsRight
<1>1. ExportInv => DumpIsRight
  <2> SUFFICES ASSUME ExportInv PROVE DumpIsRight
    OBVIOUS
  <2> USE DEF ExportInv
  <2>1. InOrder
    BY DEF ChainInv
  <2>2. ASSUME outcome = "ok", ~readFailed, NEW r \in stayed PROVE \E i \in 1..Len(dump) : dump[i] = r
    <3>1. Undisturbed /\ reader = "returned" /\ writer = "exited" /\ pages = <<>>
      BY <2>2 DEF ThreadsInv, Undisturbed
    <3>2. page = {} /\ writing = {}
      BY <3>1 DEF ThreadsInv, Undisturbed
    <3>3. r \in Held
      BY <2>2, <3>1 DEF SweepInv
    <3>4. r \in Written
      BY <3>1, <3>2, <3>3, ElemsEmpty DEF Held, Queued
    <3>5. QED
      BY <3>4 DEF Written, Elems
  <2>3. QED
    BY <2>1, <2>2 DEF DumpIsRight, OkIsWhole
<1>2. QED
  BY <1>1, ExportInvariant, PTL

(* The safety half of ExportReturns: no thread sleeps through the event it  *)
(* waits for, and the two never wait for each other.                        *)
THEOREM ExportNeverDeadlocks == Spec => [](NoWakeupIsLost /\ ~(reader = "parked" /\ writer = "parked"))
<1>1. ExportInv => NoWakeupIsLost /\ ~(reader = "parked" /\ writer = "parked")
  <2> SUFFICES ASSUME ExportInv, reader = "parked", writer = "parked" PROVE FALSE
    BY DEF ExportInv
  <2>1. Len(pages) >= ReadAhead /\ Len(pages) = 0
    BY DEF ExportInv, NoWakeupIsLost
  <2>2. QED
    BY <2>1, ExportAssumption
<1>2. QED
  BY <1>1, ExportInvariant, PTL

-----------------------------------------------------------------------------
(* Imports *)
(* The frames before d's frame n + 1 are in the index, or their write       *)
(* failed.                                                                  *)
Covered(d, n) == FramesOf(d, n) \subseteq merged \union lost

(* The worker has dealt with every frame before its offset, and has left    *)
(* the loop at the first frame it cannot read unless it was cancelled; a    *)
(* good result means that it has.                                           *)
WorkerInv ==
  worker # Idle =>
    /\ worker.dump \notin mistaken => Covered(worker.dump, worker.offset)
    /\ worker.at = "insert" => worker.offset < Good[worker.dump]
    /\ worker.at = "save" => worker.offset \in 1..Good[worker.dump]
    /\ worker.at = "end" /\ ~worker.cancel => Good[worker.dump] <= worker.offset
    /\ worker.at = "ok" => Good[worker.dump] <= worker.offset

ImportInv == ImportTypeOK /\ WorkerInv /\ ResumePointIsCovered /\ ImportedIsMerged

LEMMA FramesOfIn ==
  ASSUME NEW d, NEW n \in Nat, NEW m \in Nat, m <= n
  PROVE  FramesOf(d, m) \subseteq FramesOf(d, n)
BY DEF FramesOf

LEMMA NextFrame ==
  ASSUME NEW d, NEW n \in Nat
  PROVE  FramesOf(d, n + 1) = FramesOf(d, n) \union {<<d, n + 1>>}
<1>1. \A f : f \in 1..(n + 1) <=> f \in 1..n \/ f = n + 1
  OBVIOUS
<1>2. QED
  BY <1>1 DEF FramesOf

LEMMA ImportInitInv == ImportInit => ImportInv
BY DEF ImportInit, ImportInv, ImportTypeOK, WorkerInv, ResumePointIsCovered, ImportedIsMerged

(* A step that only adds to what was dealt with, lost or mistaken, and      *)
(* leaves the resume point and the reports alone.                           *)
LEMMA CoverageGrows ==
  ASSUME ImportInv, UNCHANGED <<saved, imported>>,
         merged \subseteq merged', lost \subseteq lost', mistaken \subseteq mistaken'
  PROVE  ResumePointIsCovered' /\ ImportedIsMerged'
BY DEF ImportInv, ResumePointIsCovered, ImportedIsMerged, FramesOf

LEMMA StartInv ==
  ASSUME ImportInv, NEW p \in Paths, NEW resume \in BOOLEAN, NEW remove \in BOOLEAN,
         Start(p, resume, remove)
  PROVE  ImportInv'
<1> DEFINE d == file[p]
           o == IF resume THEN ResumeOffset(p, d) ELSE 0
<1>1. /\ d \in Dumps
      /\ worker' = [at |-> IF d \in Headless THEN "unreadable" ELSE "read", path |-> p, dump |-> d, offset |-> o, cancel |-> FALSE, remove |-> remove]
      /\ mistaken' = IF o > 0 /\ saved.dump # d /\ saved.size = Size[d] THEN mistaken \union {d} ELSE mistaken
      /\ UNCHANGED <<file, saved, merged, badWrites, lost, imported>>
  BY DEF Start, ImportInv, ImportTypeOK
<1>2. o \in Nat /\ (o > 0 => saved # NoState /\ saved.size = Size[d] /\ o = saved.offset)
  BY ImportAssumption, <1>1 DEF ResumeOffset, ImportInv, ImportTypeOK, NoState
<1>3. d \notin mistaken' => Covered(d, o)
  <2>1. CASE o > 0 /\ saved.dump = d
    BY <1>1, <1>2, <2>1 DEF ImportInv, ResumePointIsCovered, Covered
  <2>2. CASE o = 0
    BY <2>2 DEF Covered, FramesOf
  <2>3. CASE o > 0 /\ saved.dump # d
    BY <1>1, <1>2, <2>3
  <2>4. QED
    BY <1>2, <2>1, <2>2, <2>3
<1> HIDE DEF d, o
<1>4. /\ worker'.at \in {"read", "unreadable"} /\ worker'.path = p /\ worker'.dump = d /\ worker'.offset = o
      /\ worker'.cancel = FALSE /\ worker'.remove = remove
  BY <1>1
<1>5. ImportTypeOK'
  BY <1>1, <1>2, <1>4 DEF ImportInv, ImportTypeOK
<1>6. WorkerInv'
  BY <1>1, <1>3, <1>4 DEF WorkerInv, Covered, FramesOf
<1>7. ResumePointIsCovered' /\ ImportedIsMerged'
  BY <1>1, CoverageGrows
<1>8. QED
  BY <1>5, <1>6, <1>7 DEF ImportInv

LEMMA ReadBatchInv ==
  ASSUME ImportInv, ReadBatch
  PROVE  ImportInv'
<1>1. /\ worker # Idle /\ worker.at = "read" /\ worker.dump \in Dumps /\ worker.path \in Paths
      /\ worker.offset \in Nat /\ worker.cancel \in BOOLEAN /\ worker.remove \in BOOLEAN
      /\ Good[worker.dump] \in Nat
  BY ImportAssumption DEF ReadBatch, Idle, ImportInv, ImportTypeOK
<1>2. /\ worker'.dump = worker.dump /\ worker'.path = worker.path /\ worker'.offset = worker.offset
      /\ worker'.cancel = worker.cancel /\ worker'.remove = worker.remove
      /\ worker'.at = IF ~worker.cancel /\ worker.offset < Good[worker.dump] THEN "insert" ELSE "end"
      /\ UNCHANGED <<file, saved, merged, badWrites, lost, mistaken, imported>>
  BY <1>1 DEF ReadBatch, ImportInv, ImportTypeOK
<1>3. ImportTypeOK'
  BY <1>1, <1>2 DEF ImportInv, ImportTypeOK
<1>4. WorkerInv'
  BY <1>1, <1>2 DEF ImportInv, WorkerInv, Covered
<1>5. ResumePointIsCovered' /\ ImportedIsMerged'
  BY <1>2, CoverageGrows
<1>6. QED
  BY <1>3, <1>4, <1>5 DEF ImportInv

LEMMA InsertBatchInv ==
  ASSUME ImportInv, NEW fails \in BOOLEAN, InsertBatch(fails)
  PROVE  ImportInv'
<1> DEFINE f == <<worker.dump, worker.offset + 1>>
<1>1. /\ worker # Idle /\ worker.at = "insert" /\ worker.dump \in Dumps /\ worker.path \in Paths
      /\ worker.offset \in Nat /\ worker.cancel \in BOOLEAN /\ worker.remove \in BOOLEAN
      /\ worker.offset < Good[worker.dump]
      /\ Good[worker.dump] \in Nat /\ Frames[worker.dump] \in Nat
      /\ Good[worker.dump] <= Frames[worker.dump]
  BY ImportAssumption DEF InsertBatch, Idle, ImportInv, ImportTypeOK, WorkerInv
<1>2. /\ worker'.at = "save" /\ worker'.offset = worker.offset + 1
      /\ worker'.dump = worker.dump /\ worker'.path = worker.path
      /\ worker'.cancel = worker.cancel /\ worker'.remove = worker.remove
      /\ merged' = IF fails THEN merged ELSE merged \union {f}
      /\ lost' = IF fails THEN lost \union {f} ELSE lost
      /\ badWrites' = IF fails THEN badWrites + 1 ELSE badWrites
      /\ UNCHANGED <<file, saved, mistaken, imported>>
  BY <1>1 DEF InsertBatch, ImportInv, ImportTypeOK
<1>3. f \in FramesOf(worker.dump, Frames[worker.dump])
  BY <1>1 DEF FramesOf
<1>4. ImportTypeOK'
  BY <1>1, <1>2, <1>3 DEF ImportInv, ImportTypeOK
<1>5. worker.dump \notin mistaken =>
        FramesOf(worker.dump, worker.offset + 1) \subseteq merged' \union lost'
  BY <1>1, <1>2, NextFrame DEF ImportInv, WorkerInv, Covered
<1>6. WorkerInv'
  <2>1. (worker.dump \notin mistaken => Covered(worker.dump, worker.offset))'
    BY <1>2, <1>5 DEF Covered
  <2>2. worker'.offset \in 1..Good[worker'.dump]
    BY <1>1, <1>2
  <2>3. QED
    BY <1>2, <2>1, <2>2 DEF WorkerInv
<1>7. ResumePointIsCovered' /\ ImportedIsMerged'
  BY <1>2, CoverageGrows
<1>8. QED
  BY <1>4, <1>6, <1>7 DEF ImportInv

LEMMA SaveResumeStateInv ==
  ASSUME ImportInv, NEW fails \in BOOLEAN, SaveResumeState(fails)
  PROVE  ImportInv'
<1>1. /\ worker # Idle /\ worker.at = "save" /\ worker.dump \in Dumps /\ worker.path \in Paths
      /\ worker.cancel \in BOOLEAN /\ worker.remove \in BOOLEAN
      /\ worker.offset \in 1..Good[worker.dump] /\ worker.offset \in Nat
      /\ Good[worker.dump] \in Nat /\ Frames[worker.dump] \in Nat
      /\ Good[worker.dump] <= Frames[worker.dump]
  BY ImportAssumption DEF SaveResumeState, Idle, ImportInv, ImportTypeOK, WorkerInv
<1>2. /\ worker'.at = "read" /\ worker'.offset = worker.offset
      /\ worker'.dump = worker.dump /\ worker'.path = worker.path
      /\ worker'.cancel = worker.cancel /\ worker'.remove = worker.remove
      /\ saved' = IF fails THEN saved ELSE StateOf(worker)
      /\ badWrites' = IF fails THEN badWrites + 1 ELSE badWrites
      /\ UNCHANGED <<file, merged, lost, mistaken, imported>>
  BY <1>1 DEF SaveResumeState, ImportInv, ImportTypeOK
<1>3. /\ StateOf(worker).path = worker.path /\ StateOf(worker).size = Size[worker.dump]
      /\ StateOf(worker).offset = worker.offset /\ StateOf(worker).dump = worker.dump
  BY DEF StateOf
<1>4. worker.offset \in 1..Frames[worker.dump]
  BY <1>1
<1>5. ImportTypeOK'
  BY <1>1, <1>2, <1>3, <1>4 DEF ImportInv, ImportTypeOK
<1>6. WorkerInv'
  BY <1>1, <1>2 DEF ImportInv, WorkerInv, Covered
<1>7. ResumePointIsCovered'
  BY <1>1, <1>2, <1>3 DEF ImportInv, WorkerInv, Covered, ResumePointIsCovered
<1>8. ImportedIsMerged'
  BY <1>2 DEF ImportInv, ImportedIsMerged
<1>9. QED
  BY <1>5, <1>6, <1>7, <1>8 DEF ImportInv

LEMMA RunReturnsInv ==
  ASSUME ImportInv, RunReturns
  PROVE  ImportInv'
<1>1. /\ worker # Idle /\ worker.at \in {"end", "unreadable"}
      /\ worker.dump \in Dumps /\ worker.path \in Paths /\ worker.offset \in Nat
      /\ worker.cancel \in BOOLEAN /\ worker.remove \in BOOLEAN
  BY DEF RunReturns, Idle, ImportInv, ImportTypeOK
<1>2. /\ worker'.at = IF worker.at = "unreadable" THEN "failed"
                      ELSE IF worker.cancel THEN "cancelled" ELSE "ok"
      /\ worker'.dump = worker.dump /\ worker'.path = worker.path /\ worker'.offset = worker.offset
      /\ worker'.cancel = worker.cancel /\ worker'.remove = worker.remove
      /\ saved' = saved \/ saved' = NoState
      /\ UNCHANGED <<file, merged, badWrites, lost, mistaken, imported>>
  BY <1>1 DEF RunReturns, ImportInv, ImportTypeOK
<1>3. ImportTypeOK'
  BY <1>1, <1>2 DEF ImportInv, ImportTypeOK
<1>4. worker'.at = "ok" => Good[worker.dump] <= worker.offset
  BY <1>1, <1>2 DEF ImportInv, WorkerInv
<1>5. WorkerInv'
  BY <1>1, <1>2, <1>4 DEF ImportInv, WorkerInv, Covered
<1>6. ResumePointIsCovered' /\ ImportedIsMerged'
  BY <1>2 DEF ImportInv, ResumePointIsCovered, ImportedIsMerged
<1>7. QED
  BY <1>3, <1>5, <1>6 DEF ImportInv

LEMMA CompletedInv ==
  ASSUME ImportInv, Completed
  PROVE  ImportInv'
<1>1. /\ worker # Idle /\ worker.dump \in Dumps /\ worker.path \in Paths
      /\ worker.offset \in Nat /\ Good[worker.dump] \in Nat
  BY ImportAssumption DEF Completed, Idle, ImportInv, ImportTypeOK
<1>2. worker' = Idle /\ UNCHANGED <<saved, merged, badWrites, lost, mistaken>>
  BY DEF Completed
<1>3. file' \in [Paths -> Dumps \union {NoDump}]
  BY DEF Completed, ImportInv, ImportTypeOK
<1>4. ImportTypeOK'
  BY <1>2, <1>3 DEF ImportInv, ImportTypeOK
<1>5. WorkerInv' /\ ResumePointIsCovered'
  BY <1>2 DEF ImportInv, WorkerInv, ResumePointIsCovered
<1>6. ImportedIsMerged'
  <2>1. CASE worker.at # "ok"
    BY <1>2, <2>1 DEF Completed, ImportInv, ImportedIsMerged
  <2>2. CASE worker.at = "ok"
    <3>1. Good[worker.dump] <= worker.offset
      BY <1>1, <2>2 DEF ImportInv, WorkerInv
    <3>2. FramesOf(worker.dump, Good[worker.dump]) \subseteq FramesOf(worker.dump, worker.offset)
      BY <1>1, <3>1, FramesOfIn
    <3>3. worker.dump \notin mistaken => FramesOf(worker.dump, Good[worker.dump]) \subseteq merged \union lost
      BY <1>1, <3>2 DEF ImportInv, WorkerInv, Covered
    <3>4. imported' = imported \union {worker.dump}
      BY <2>2 DEF Completed
    <3>5. QED
      BY <1>2, <3>3, <3>4 DEF ImportInv, ImportedIsMerged
  <2>3. QED
    BY <2>1, <2>2
<1>7. QED
  BY <1>4, <1>5, <1>6 DEF ImportInv

LEMMA CancelInv ==
  ASSUME ImportInv, CancelImport
  PROVE  ImportInv'
<1>1. /\ worker # Idle /\ worker.dump \in Dumps /\ worker.path \in Paths /\ worker.offset \in Nat
      /\ worker.at \in {"read", "insert", "save", "end", "unreadable", "ok", "cancelled", "failed"}
      /\ worker.remove \in BOOLEAN
  BY DEF CancelImport, ImportInv, ImportTypeOK
<1>2. /\ worker'.cancel = TRUE /\ worker'.at = worker.at /\ worker'.offset = worker.offset
      /\ worker'.dump = worker.dump /\ worker'.path = worker.path /\ worker'.remove = worker.remove
      /\ UNCHANGED <<file, saved, merged, badWrites, lost, mistaken, imported>>
  BY <1>1 DEF CancelImport, ImportInv, ImportTypeOK
<1>3. ImportTypeOK'
  BY <1>1, <1>2 DEF ImportInv, ImportTypeOK
<1>4. WorkerInv'
  BY <1>1, <1>2 DEF ImportInv, WorkerInv, Covered
<1>5. ResumePointIsCovered' /\ ImportedIsMerged'
  BY <1>2, CoverageGrows
<1>6. QED
  BY <1>3, <1>4, <1>5 DEF ImportInv

LEMMA ReplaceInv ==
  ASSUME ImportInv, NEW p \in Paths, NEW d \in Dumps, Replace(p, d)
  PROVE  ImportInv'
<1>1. /\ file' \in [Paths -> Dumps \union {NoDump}]
      /\ UNCHANGED <<saved, worker, merged, badWrites, lost, mistaken, imported>>
  BY DEF Replace, ImportInv, ImportTypeOK
<1>2. QED
  BY <1>1 DEF ImportInv, ImportTypeOK, WorkerInv, Covered, ResumePointIsCovered, ImportedIsMerged

LEMMA RestartInv ==
  ASSUME ImportInv, NEW torn \in BOOLEAN, NEW old \in SUBSET Paths, Restart(torn, old)
  PROVE  ImportInv'
<1>1. /\ file' \in [Paths -> Dumps \union {NoDump}] /\ worker' = Idle
      /\ saved' = saved \/ saved' = NoState
      /\ UNCHANGED <<merged, badWrites, lost, mistaken, imported>>
  BY DEF Restart, ImportInv, ImportTypeOK
<1>2. QED
  BY <1>1 DEF ImportInv, ImportTypeOK, WorkerInv, ResumePointIsCovered, ImportedIsMerged

-----------------------------------------------------------------------------
(* Every step keeps the invariant, one case per action.                     *)
LEMMA ImportNextInv == ImportInv /\ [ImportNext]_importVars => ImportInv'
<1> SUFFICES ASSUME ImportInv, [ImportNext]_importVars PROVE ImportInv'
  OBVIOUS
<1>1. CASE UNCHANGED importVars
  BY <1>1 DEF importVars, ImportInv, ImportTypeOK, WorkerInv, Covered, ResumePointIsCovered, ImportedIsMerged
<1>2. CASE ImportNext
  BY <1>2, StartInv, ReadBatchInv, InsertBatchInv, SaveResumeStateInv, RunReturnsInv,
     CompletedInv, CancelInv,
     ReplaceInv, RestartInv
  DEF ImportNext
<1>3. QED
  BY <1>1, <1>2

(* The inductive invariant holds in every reachable state of an import.     *)
THEOREM ImportInvariant == ImportSpec => []ImportInv
BY ImportInitInv, ImportNextInv, PTL DEF ImportSpec

(* Type correctness.                                                        *)
THEOREM ImportTypeCorrect == ImportSpec => []ImportTypeOK
BY ImportInvariant, PTL DEF ImportInv

(* saveResumeState() never writes a point past a frame that was not dealt   *)
(* with, through any cancels, crashes and imports of other dumps.           *)
THEOREM ResumeSkipsNothing == ImportSpec => []ResumePointIsCovered
BY ImportInvariant, PTL DEF ImportInv

(* A dump runImport() reports as imported, and removes, has been dealt with *)
(* in full.                                                                 *)
THEOREM ReportedImportsAreMerged == ImportSpec => []ImportedIsMerged
BY ImportInvariant, PTL DEF ImportInv

(* No frame is skipped by an import, whether it is resumed or reported.     *)
THEOREM ImportsSkipNothing == ImportSpec => []NothingIsSkipped
BY ResumeSkipsNothing, ReportedImportsAreMerged, PTL DEF NothingIsSkipped
=============================================================================
