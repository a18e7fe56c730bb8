---------------------------- MODULE DiscoveryProofs ----------------------------
(* Proofs about how torrents enter the index and are kept up, for any       *)
(* hashes, collisions, votes, limits and queues.                            *)
EXTENDS Discovery, FiniteSetTheorems, SequenceTheorems, WellFoundedInduction, TLAPS

(* Every row is under the id of its hash.                                   *)
TableOK(f) == \A i \in DOMAIN f : f[i] \in Row /\ RowIdOf[f[i].hash] = i /\ i # 0

RowIds == {RowIdOf[h] : h \in Hashes}
SeenOK == seen \in [Threads -> SUBSET RowIds]

(* What a thread is in the middle of is for one torrent with a slot, and    *)
(* what it carries and what it read belong to that torrent.                 *)
TaskOK(w) ==
  /\ w \in Tasks
  /\ w.op = "none" => w = Idle
  /\ w.op # "none" => w.hash \in Hashes /\ Usable(w.hash)
  /\ w.op \in {"insert", "merge", "heal"} => w.t \in Offered /\ w.t.hash = w.hash
  /\ w.op \in {"merge", "heal", "update", "replace", "vote"} => w.row \in Row /\ w.row.hash = w.hash
  /\ w.op = "vote" => w.row.good < MaxVotes

(* The tasks whose next step writes the table.                              *)
Writing(w) == w.op \in {"heal", "replace", "info", "remove"} \/ (w.op = "insert" /\ w.row = NoRow)

(* Another torrent's row in the slot of h is none of those in s.            *)
Spared(f, s, h) == RowIdOf[h] \in DOMAIN f /\ f[RowIdOf[h]].hash # h => RowIdOf[h] \notin s
MaySpoil(w, f, s) == Writing(w) => Spared(f, s, w.hash)

MainInv == TaskOK(reading) /\ MaySpoil(reading, torrents, seen["main"])

(* A torrent of the batch is known, or was marked, or its slot was free when *)
(* the lookup looked; whoever came there since has not been seen.            *)
Unsettled(t) == ~Known(t) /\ t.hash \notin batch.taken
BatchInv ==
  /\ batch \in [phase : {"none", "merge", "add"}, incoming : SUBSET Offered,
                found : SUBSET Row, taken : SUBSET Hashes, work : Tasks]
  /\ \A t \in batch.incoming : Usable(t.hash)
  /\ \A r \in batch.found : Usable(r.hash)
  /\ TaskOK(batch.work) /\ MaySpoil(batch.work, torrents, seen["import"])
  /\ batch.work.op # "none" => batch.phase = "merge" /\ \E r \in batch.found : r.hash = batch.work.hash
  /\ \A r \in batch.found, t \in batch.incoming :
        RowIdOf[t.hash] = RowIdOf[r.hash] => t.hash = r.hash \/ t.hash \in batch.taken
  /\ \A t \in batch.incoming : Unsettled(t) => Spared(torrents, seen["import"], t.hash)
  /\ batch.phase = "add" => \A t \in batch.incoming : Unsettled(t)

IndexInv == TableOK(torrents) /\ refused \in BOOLEAN /\ SeenOK /\ MainInv /\ BatchInv

-----------------------------------------------------------------------------
LEMMA OfferedFacts ==
  ASSUME NEW t \in Offered
  PROVE  /\ t.hash \in Hashes /\ t.files \in BOOLEAN /\ t.good \in 0..MaxVotes /\ t.info = FALSE
         /\ t \in Row
<1>1. t \in [hash : Hashes, files : BOOLEAN, good : 0..MaxVotes, info : {FALSE}]
  BY OfferedAreTorrents
<1>2. QED
  BY <1>1 DEF Row

LEMMA NoRowFacts == NoRow.hash = 0 /\ NoRow \notin Row /\ \A h \in Hashes : h # 0 /\ h \in Nat
BY HashesAreNumbers DEF NoRow, Row

(* The slot of a hash is free or holds a row that maps there.               *)
LEMMA SlotFacts ==
  ASSUME TableOK(torrents), NEW h \in Hashes
  PROVE  /\ Slot(h) = NoRow \/ Slot(h) \in Row
         /\ Slot(h) = NoRow => RowIdOf[h] \notin DOMAIN torrents
         /\ Slot(h) \in Row => /\ RowIdOf[h] \in DOMAIN torrents /\ Slot(h) = torrents[RowIdOf[h]]
                               /\ RowIdOf[Slot(h).hash] = RowIdOf[h] /\ Usable(h) /\ Usable(Slot(h).hash)
         /\ Ours(h) => Slot(h) \in Row
BY NoRowFacts DEF TableOK, Slot, Ours, Usable

(* Who is met in a slot that is not another one's is spared.                *)
LEMMA OwnSlot ==
  ASSUME TableOK(torrents), NEW h \in Hashes, ~Collided(h), NEW s
  PROVE  Spared(torrents, s, h)
BY NoRowFacts, SlotFacts DEF Collided, Ours, Spared

LEMMA IdleFacts ==
  /\ TaskOK(Idle) /\ ~Writing(Idle) /\ Idle.op = "none" /\ NoBatch.work = Idle
  /\ NoBatch \in [phase : {"none", "merge", "add"}, incoming : SUBSET Offered,
                  found : SUBSET Row, taken : SUBSET Hashes, work : Tasks]
<1>1. Idle \in Tasks /\ Idle.op = "none" /\ Idle.row = NoRow
  BY DEF Idle, Task, Tasks, Ops
<1>2. TaskOK(Idle) /\ ~Writing(Idle)
  BY <1>1 DEF TaskOK, Writing
<1>3. QED
  BY <1>1, <1>2 DEF NoBatch

(* A statement leaves every row that is not in its task's slot alone.       *)
LEMMA StatementFacts ==
  ASSUME TableOK(torrents), NEW w, TaskOK(w)
  PROVE  /\ TableOK(Statement(w))
         /\ \A i \in DOMAIN torrents : i # RowIdOf[w.hash] => i \in DOMAIN Statement(w) /\ Statement(w)[i] = torrents[i]
         /\ ~Writing(w) => Statement(w) = torrents
<1> DEFINE i == RowIdOf[w.hash]
<1>1. ASSUME NEW r, NEW g, i \in DOMAIN torrents, g = [torrents EXCEPT ![i] = r],
             r = [torrents[i] EXCEPT !.files = TRUE] \/ r = [torrents[i] EXCEPT !.info = TRUE]
      PROVE  TableOK(g) /\ \A x \in DOMAIN torrents : x # i => x \in DOMAIN g /\ g[x] = torrents[x]
  <2>1. torrents[i] \in Row
    BY <1>1 DEF TableOK
  <2>2. r \in Row /\ r.hash = torrents[i].hash
    BY <1>1, <2>1 DEF Row
  <2>3. DOMAIN g = DOMAIN torrents /\ g[i] = r /\ \A x \in DOMAIN torrents : x # i => g[x] = torrents[x]
    BY <1>1
  <2>4. QED
    BY <2>2, <2>3 DEF TableOK
<1>2. CASE w.op \in {"heal", "info"} /\ i \in DOMAIN torrents
  <2>1. \/ Statement(w) = [torrents EXCEPT ![i] = [torrents[i] EXCEPT !.files = TRUE]]
        \/ Statement(w) = [torrents EXCEPT ![i] = [torrents[i] EXCEPT !.info = TRUE]]
    BY <1>2 DEF Statement
  <2>2. Writing(w)
    BY <1>2 DEF Writing
  <2>3. QED
    BY <1>1, <1>2, <2>1, <2>2
<1>3. CASE w.op = "replace"
  <2>1. Statement(w) = Put(torrents, i, w.row) /\ Writing(w)
    BY <1>3 DEF Statement, Writing
  <2>2. w.row \in Row /\ w.row.hash = w.hash /\ Usable(w.hash)
    BY <1>3 DEF TaskOK
  <2>3. /\ DOMAIN Put(torrents, i, w.row) = DOMAIN torrents \union {i} /\ Put(torrents, i, w.row)[i] = w.row
        /\ \A x \in DOMAIN torrents : x # i => Put(torrents, i, w.row)[x] = torrents[x]
    BY DEF Put
  <2>4. QED
    BY <2>1, <2>2, <2>3 DEF TableOK, Usable
<1>4. CASE w.op = "remove"
  <2>1. Statement(w) = Without(torrents, i) /\ Writing(w)
    BY <1>4 DEF Statement, Writing
  <2>2. QED
    BY <2>1 DEF Without, TableOK
<1>5. CASE ~(w.op \in {"heal", "info"} /\ i \in DOMAIN torrents) /\ w.op \notin {"replace", "remove"}
  <2>1. Statement(w) = torrents
    BY <1>5 DEF Statement
  <2>2. QED
    BY <2>1
<1>6. QED
  BY <1>2, <1>3, <1>4, <1>5

LEMMA CountedFacts ==
  ASSUME NEW w, TaskOK(w), w.op \in {"merge", "heal"}, NEW row \in Row, row.hash = w.hash
  PROVE  /\ TaskOK(Counted(w, row)) /\ ~Writing(Counted(w, row)) /\ Counted(w, row).op \in {"none", "update"}
         /\ Counted(w, row).op # "none" => Counted(w, row).hash = w.hash
<1> DEFINE counted == [row EXCEPT !.good = w.t.good]
<1>1. w.t.good \in 0..MaxVotes /\ w.hash \in Hashes /\ Usable(w.hash)
  BY OfferedFacts DEF TaskOK
<1>2. counted \in Row /\ counted.hash = w.hash
  BY <1>1 DEF Row
<1> HIDE DEF counted
<1>3. CASE w.t.good > row.good
  <2>1. Counted(w, row) = [op |-> "update", hash |-> w.hash, t |-> NoRow, row |-> counted]
    BY <1>3 DEF Counted, counted, Task
  <2>2. QED
    BY <1>1, <1>2, <2>1 DEF TaskOK, Tasks, Ops, Writing
<1>4. CASE ~(w.t.good > row.good)
  BY <1>4, IdleFacts DEF Counted
<1>5. QED
  BY <1>3, <1>4

(* A task goes on for the same torrent; it comes to a write only after it   *)
(* looked at the slot and found no other torrent there.                     *)
LEMMA AfterFacts ==
  ASSUME TableOK(torrents), NEW w, TaskOK(w)
  PROVE  /\ TaskOK(After(w)) /\ After(w).op # "vote"
         /\ After(w).op # "none" => After(w).hash = w.hash /\ w.op # "none"
         /\ Writing(After(w)) => ~Collided(w.hash) /\ ~Writing(w)
         /\ LookedUp(w) \subseteq {RowIdOf[w.hash]} /\ (LookedUp(w) # {} => w.op \in {"merge", "update"})
<1>0. LookedUp(w) \subseteq {RowIdOf[w.hash]} /\ (LookedUp(w) # {} => w.op \in {"merge", "update"})
  BY DEF LookedUp, AsksForFiles
<1>1. CASE w.op = "merge" /\ CanHeal(w)
  <2>1. After(w) = [w EXCEPT !.op = "heal"]
    BY <1>1 DEF After
  <2>2. TaskOK([w EXCEPT !.op = "heal"])
    BY <1>1 DEF TaskOK, Tasks, Ops
  <2>3. [w EXCEPT !.op = "heal"].op = "heal" /\ [w EXCEPT !.op = "heal"].hash = w.hash
    BY DEF TaskOK, Tasks
  <2>4. ~Collided(w.hash) /\ ~Writing(w)
    BY <1>1 DEF CanHeal, Collided, Writing
  <2>5. QED
    BY <1>0, <1>1, <2>1, <2>2, <2>3, <2>4
<1>2. CASE w.op = "merge" /\ ~CanHeal(w)
  <2>1. After(w) = Counted(w, w.row)
    BY <1>2 DEF After
  <2>2. w.row \in Row /\ w.row.hash = w.hash
    BY <1>2 DEF TaskOK
  <2>3. QED
    BY <1>0, <1>2, <2>1, <2>2, CountedFacts
<1>3. CASE w.op = "heal"
  <2> DEFINE row == [w.row EXCEPT !.files = TRUE]
  <2>1. After(w) = Counted(w, row)
    BY <1>3 DEF After
  <2>2. row \in Row /\ row.hash = w.hash
    BY <1>3 DEF TaskOK, Row
  <2> HIDE DEF row
  <2>3. QED
    BY <1>0, <1>3, <2>1, <2>2, CountedFacts
<1>4. CASE w.op = "update" /\ ~Collided(w.hash)
  <2>1. After(w) = [w EXCEPT !.op = "replace"]
    BY <1>4 DEF After
  <2>2. TaskOK([w EXCEPT !.op = "replace"])
    BY <1>4 DEF TaskOK, Tasks, Ops
  <2>3. [w EXCEPT !.op = "replace"].op = "replace" /\ [w EXCEPT !.op = "replace"].hash = w.hash
    BY DEF TaskOK, Tasks
  <2>4. ~Writing(w)
    BY <1>4 DEF Writing
  <2>5. QED
    BY <1>0, <1>4, <2>1, <2>2, <2>3, <2>4
<1>5. CASE w.op \notin {"merge", "heal"} /\ ~(w.op = "update" /\ ~Collided(w.hash))
  <2>1. After(w) = Idle
    BY <1>5 DEF After
  <2>2. QED
    BY <1>0, <2>1, IdleFacts
<1>6. QED
  BY <1>1, <1>2, <1>3, <1>4, <1>5

-----------------------------------------------------------------------------
(* What the threads have seen.                                              *)
LEMMA SeenStays ==
  ASSUME SeenOK, NEW y \in Threads, NEW ids \in SUBSET RowIds, Sees(y, ids)
  PROVE  SeenOK'
BY DEF SeenOK, Sees

LEMMA SparedStays ==
  ASSUME TableOK(torrents), TableOK(torrents'), NEW y \in Threads, NEW ids, Sees(y, ids),
         NEW x \in Threads, NEW h \in Hashes, Spared(torrents, seen[x], h), x = y => RowIdOf[h] \notin ids
  PROVE  Spared(torrents', seen'[x], h)
<1> DEFINE i == RowIdOf[h]
<1> SUFFICES ASSUME i \in DOMAIN torrents', torrents'[i].hash # h, i \in seen'[x] PROVE FALSE
  BY DEF Spared
<1>1. i \in seen[x] /\ Owner(i)' = Owner(i)
  BY DEF Sees
<1>2. torrents'[i].hash # 0
  BY NoRowFacts DEF TableOK, Row
<1>3. i \in DOMAIN torrents /\ torrents[i].hash = torrents'[i].hash
  BY <1>1, <1>2 DEF Owner
<1>4. QED
  BY <1>1, <1>3 DEF Spared

(* What the other thread does leaves a thread's own part as it is.          *)
LEMMA MainStays ==
  ASSUME IndexInv, TableOK(torrents'), reading' = reading,
         UNCHANGED <<torrents, seen>> \/ \E ids : Sees("import", ids)
  PROVE  MainInv'
<1>1. TaskOK(reading) /\ MaySpoil(reading, torrents, seen["main"])
  BY DEF IndexInv, MainInv
<1>2. ASSUME NEW ids, Sees("import", ids) PROVE MaySpoil(reading, torrents', seen'["main"])
  <2>1. CASE Writing(reading)
    <3>1. reading.hash \in Hashes
      BY <1>1, <2>1 DEF TaskOK, Writing
    <3>2. Spared(torrents, seen["main"], reading.hash)
      BY <1>1, <2>1 DEF MaySpoil
    <3>3. Spared(torrents', seen'["main"], reading.hash)
      BY <1>2, <3>1, <3>2, SparedStays DEF IndexInv, Threads
    <3>4. QED
      BY <3>3 DEF MaySpoil
  <2>2. QED
    BY <2>1 DEF MaySpoil
<1>3. MaySpoil(reading, torrents', seen'["main"])
  BY <1>1, <1>2
<1>4. QED
  BY <1>1, <1>3 DEF MainInv

(* No candidate of the batch loses its claim to go unseen.                  *)
LEMMA BatchStays ==
  ASSUME IndexInv, TableOK(torrents'), batch' = batch,
         UNCHANGED <<torrents, seen>> \/ \E ids : Sees("main", ids)
  PROVE  BatchInv'
<1>1. /\ \A t \in batch.incoming : t.hash \in Hashes
      /\ TaskOK(batch.work) /\ MaySpoil(batch.work, torrents, seen["import"])
      /\ \A t \in batch.incoming : Unsettled(t) => Spared(torrents, seen["import"], t.hash)
  BY OfferedFacts DEF IndexInv, BatchInv
<1>2. ASSUME NEW h \in Hashes, Spared(torrents, seen["import"], h) PROVE Spared(torrents', seen'["import"], h)
  <2>1. ASSUME NEW ids, Sees("main", ids) PROVE Spared(torrents', seen'["import"], h)
    BY <1>2, <2>1, SparedStays DEF IndexInv, Threads
  <2>2. QED
    BY <1>2, <2>1
<1>3. MaySpoil(batch.work, torrents', seen'["import"])
  BY <1>1, <1>2 DEF MaySpoil, Writing, TaskOK
<1>4. \A t \in batch.incoming : Unsettled(t) => Spared(torrents', seen'["import"], t.hash)
  BY <1>1, <1>2
<1>5. QED
  BY <1>1, <1>3, <1>4 DEF IndexInv, BatchInv, Unsettled, Known

LEMMA ThreadsAre == "main" \in Threads /\ "import" \in Threads /\ Threads = {"main", "import"}
BY DEF Threads

(* One step of a task, on either thread.                                    *)
LEMMA TaskStep ==
  ASSUME TableOK(torrents), SeenOK, NEW w, TaskOK(w), NEW x \in Threads, MaySpoil(w, torrents, seen[x]),
         torrents' = Statement(w), Sees(x, LookedUp(w))
  PROVE  /\ TableOK(torrents') /\ SeenOK'
         /\ TaskOK(After(w)) /\ MaySpoil(After(w), torrents', seen'[x])
         /\ \A i \in DOMAIN torrents : Touched(i) /\ torrents[i].hash # w.hash => i \notin seen[x]
<1>1. TableOK(torrents') /\ TaskOK(After(w))
  BY StatementFacts, AfterFacts
<1>2. LookedUp(w) \in SUBSET RowIds
  <2>1. LookedUp(w) # {} => w.hash \in Hashes
    BY AfterFacts DEF TaskOK
  <2>2. QED
    BY <2>1, AfterFacts DEF RowIds
<1>3. SeenOK'
  BY <1>2, SeenStays
<1>4. MaySpoil(After(w), torrents', seen'[x])
  <2>1. CASE Writing(After(w))
    <3>1. After(w).op # "none"
      BY <2>1 DEF Writing
    <3>2. After(w).hash = w.hash /\ ~Collided(w.hash) /\ ~Writing(w) /\ w.hash \in Hashes
      BY <2>1, <3>1, AfterFacts DEF TaskOK
    <3>3. torrents' = torrents
      BY <3>2, StatementFacts
    <3>4. Spared(torrents', seen'[x], w.hash)
      BY <3>2, <3>3, OwnSlot
    <3>5. QED
      BY <3>2, <3>4 DEF MaySpoil
  <2>2. QED
    BY <2>1 DEF MaySpoil
<1>5. ASSUME NEW i \in DOMAIN torrents, Touched(i), torrents[i].hash # w.hash PROVE i \notin seen[x]
  <2>1. i = RowIdOf[w.hash] /\ Writing(w)
    BY <1>5, StatementFacts DEF Touched
  <2>2. QED
    BY <1>5, <2>1 DEF MaySpoil, Spared
<1>6. QED
  BY <1>1, <1>3, <1>4, <1>5

-----------------------------------------------------------------------------
(* What a step may do to the row of another torrent: the property's body.   *)
TakenUnseen ==
  \A i \in DOMAIN torrents : Touched(i) =>
     /\ reading' # reading /\ torrents[i].hash # reading.hash => i \notin seen["main"]
     /\ batch' # batch /\ torrents[i].hash # ImportWritesFor(i) => i \notin seen["import"]

LEMMA SameTable == torrents' = torrents => TakenUnseen
BY DEF TakenUnseen, Touched

(* A task is begun, by what the main thread finds in a slot.                *)
LEMMA BeginsStep ==
  ASSUME IndexInv, NEW op \in Ops \ {"none"}, NEW h \in Hashes, NEW t \in Offered \union {NoRow}, Begins(op, h, t),
         Usable(h), op \in {"merge", "heal", "info"} => Ours(h), op = "remove" => ~Collided(h),
         op \in {"insert", "merge", "heal"} => t \in Offered /\ t.hash = h,
         op \notin {"update", "replace"}, op = "vote" => Ours(h) /\ Slot(h).good < MaxVotes
  PROVE  IndexInv' /\ TakenUnseen
<1> DEFINE w == [op |-> op, hash |-> h, t |-> t, row |-> Slot(h)]
<1>1. reading' = w /\ UNCHANGED <<torrents, refused, batch>> /\ Sees("main", {RowIdOf[h]})
  BY DEF Begins, Task
<1>2. TableOK(torrents) /\ SeenOK
  BY DEF IndexInv
<1>3. /\ Slot(h) \in Row \union {NoRow}
      /\ Ours(h) => Slot(h) \in Row /\ Slot(h).hash = h
  BY <1>2, SlotFacts DEF Ours
<1>4. TaskOK(w)
  <2>1. w \in Tasks
    BY <1>3 DEF Tasks
  <2>2. QED
    BY <1>3, <2>1 DEF TaskOK
<1>5. Writing(w) => ~Collided(h)
  BY NoRowFacts DEF Writing, Collided
<1>6. MaySpoil(w, torrents', seen'["main"])
  <2>1. CASE Writing(w)
    BY <1>1, <1>2, <1>5, <2>1, OwnSlot DEF MaySpoil
  <2>2. QED
    BY <2>1 DEF MaySpoil
<1> HIDE DEF w
<1>7. MainInv'
  BY <1>1, <1>4, <1>6 DEF MainInv
<1>8. SeenOK'
  BY <1>1, <1>2, SeenStays, ThreadsAre DEF RowIds
<1>9. BatchInv'
  BY <1>1, <1>2, BatchStays
<1>10. QED
  BY <1>1, <1>2, <1>7, <1>8, <1>9, SameTable DEF IndexInv

LEMMA ReadsStep ==
  ASSUME IndexInv,
         (\E t \in Offered : InsertReads(t)) \/ (\E h \in Hashes : InfoReads(h) \/ RemoveReads(h))
  PROVE  IndexInv' /\ TakenUnseen
<1>1. TableOK(torrents)
  BY DEF IndexInv
<1>2. ASSUME NEW t \in Offered, InsertReads(t) PROVE IndexInv' /\ TakenUnseen
  <2>1. t.hash \in Hashes /\ Usable(t.hash)
    BY <1>2, OfferedFacts DEF InsertReads
  <2>2. CASE Ours(t.hash)
    <3>1. Begins("merge", t.hash, t)
      BY <1>2, <2>2 DEF InsertReads
    <3>2. QED
      BY <2>1, <2>2, <3>1, BeginsStep DEF Ops
  <2>3. CASE ~Ours(t.hash)
    <3>1. Begins("insert", t.hash, t)
      BY <1>2, <2>3 DEF InsertReads
    <3>2. QED
      BY <2>1, <3>1, BeginsStep DEF Ops
  <2>4. QED
    BY <2>2, <2>3
<1>3. ASSUME NEW h \in Hashes, InfoReads(h) PROVE IndexInv' /\ TakenUnseen
  <2>1. Ours(h) /\ Begins("info", h, NoRow) /\ Usable(h)
    BY <1>1, <1>3, SlotFacts DEF InfoReads
  <2>2. QED
    BY <2>1, BeginsStep DEF Ops
<1>4. ASSUME NEW h \in Hashes, RemoveReads(h) PROVE IndexInv' /\ TakenUnseen
  <2>1. Usable(h) /\ ~Collided(h) /\ Begins("remove", h, NoRow)
    BY <1>4 DEF RemoveReads
  <2>2. QED
    BY <2>1, BeginsStep DEF Ops
<1>5. QED
  BY <1>2, <1>3, <1>4

LEMMA MainWorksStep ==
  ASSUME IndexInv, MainWorks
  PROVE  IndexInv' /\ TakenUnseen /\ reading'.op # "vote"
<1>1. /\ torrents' = Statement(reading) /\ reading' = After(reading)
      /\ UNCHANGED <<refused, batch>> /\ Sees("main", LookedUp(reading))
  BY DEF MainWorks
<1>2. TableOK(torrents) /\ SeenOK /\ TaskOK(reading) /\ MaySpoil(reading, torrents, seen["main"])
  BY DEF IndexInv, MainInv
<1>3. /\ TableOK(torrents') /\ SeenOK'
      /\ TaskOK(After(reading)) /\ MaySpoil(After(reading), torrents', seen'["main"])
      /\ \A i \in DOMAIN torrents : Touched(i) /\ torrents[i].hash # reading.hash => i \notin seen["main"]
  BY <1>1, <1>2, TaskStep, ThreadsAre
<1>4. MainInv'
  BY <1>1, <1>3 DEF MainInv
<1>5. BatchInv'
  BY <1>1, <1>3, BatchStays
<1>6. reading'.op # "vote"
  BY <1>1, <1>2, AfterFacts
<1>7. QED
  BY <1>1, <1>3, <1>4, <1>5, <1>6 DEF IndexInv, TakenUnseen

LEMMA InsertEndsStep ==
  ASSUME IndexInv, InsertAdds \/ InsertFails
  PROVE  IndexInv' /\ TakenUnseen /\ reading'.op # "vote" /\ reading.hash \in Hashes
<1>1. reading' = Idle /\ refused' = refused /\ batch' = batch /\ reading.op = "insert"
  BY DEF InsertAdds, InsertFails, FreeForInsert
<1>2. TableOK(torrents) /\ SeenOK /\ TaskOK(reading) /\ MaySpoil(reading, torrents, seen["main"])
  BY DEF IndexInv, MainInv
<1>3. reading.t \in Offered /\ reading.t.hash = reading.hash /\ reading.hash \in Hashes /\ Usable(reading.hash)
  BY <1>1, <1>2 DEF TaskOK
<1>4. MainInv' /\ reading'.op # "vote"
  BY <1>1, IdleFacts DEF MainInv, MaySpoil
<1>5. CASE InsertAdds
  <2> DEFINE i == RowIdOf[reading.hash]
  <2>1. torrents' = Put(torrents, i, reading.t) /\ reading.row = NoRow /\ Sees("main", {})
    BY <1>5 DEF InsertAdds, FreeForInsert
  <2>2. reading.t \in Row
    BY <1>3, OfferedFacts
  <2>3. TableOK(torrents')
    BY <1>2, <1>3, <2>1, <2>2 DEF TableOK, Put, Usable
  <2>4. Spared(torrents, seen["main"], reading.hash)
    BY <1>1, <1>2, <2>1 DEF MaySpoil, Writing
  <2>5. \A x \in DOMAIN torrents : Touched(x) => x = i
    BY <2>1 DEF Touched, Put
  <2>6. TakenUnseen
    BY <1>1, <2>4, <2>5 DEF TakenUnseen, Spared
  <2>7. SeenOK' /\ BatchInv'
    BY <1>1, <1>2, <2>1, <2>3, SeenStays, BatchStays, ThreadsAre
  <2>8. QED
    BY <1>1, <1>3, <1>4, <2>3, <2>6, <2>7 DEF IndexInv
<1>6. CASE InsertFails
  <2>1. UNCHANGED <<torrents, seen>>
    BY <1>6 DEF InsertFails
  <2>2. SeenOK' /\ BatchInv'
    BY <1>1, <1>2, <2>1, BatchStays DEF SeenOK
  <2>3. QED
    BY <1>1, <1>2, <1>3, <1>4, <2>1, <2>2, SameTable DEF IndexInv
<1>7. QED
  BY <1>5, <1>6

-----------------------------------------------------------------------------
(* An import's batch.                                                       *)
LEMMA NoBatchInv == batch' = NoBatch => BatchInv'
<1> SUFFICES ASSUME batch' = NoBatch PROVE BatchInv'
  OBVIOUS
<1>1. batch'.phase = "none" /\ batch'.incoming = {} /\ batch'.found = {} /\ batch'.work = Idle
  BY DEF NoBatch
<1>2. QED
  BY <1>1, IdleFacts DEF BatchInv, MaySpoil

LEMMA BatchLooksUpStep ==
  ASSUME IndexInv, NEW ts \in Batches, BatchLooksUp(ts)
  PROVE  IndexInv' /\ TakenUnseen
<1> DEFINE found == {[Slot(t.hash) EXCEPT !.info = FALSE] : t \in {u \in ts : Ours(u.hash)}}
           taken == {t.hash : t \in {u \in ts : Collided(u.hash)}}
<1>1. batch' = [phase |-> "merge", incoming |-> ts, found |-> found, taken |-> taken, work |-> Idle]
      /\ UNCHANGED <<torrents, refused, reading>> /\ Sees("import", {RowIdOf[t.hash] : t \in ts})
  BY DEF BatchLooksUp
<1>2. ts \in SUBSET Offered /\ (\A t \in ts : Usable(t.hash) /\ t.hash \in Hashes) /\ TableOK(torrents) /\ SeenOK
  BY OfferedFacts DEF Batches, IndexInv
<1>3. ASSUME NEW t \in ts, Ours(t.hash)
      PROVE  /\ [Slot(t.hash) EXCEPT !.info = FALSE] \in Row
             /\ [Slot(t.hash) EXCEPT !.info = FALSE].hash = t.hash
  <2>1. Slot(t.hash) \in Row /\ Slot(t.hash).hash = t.hash
    BY <1>2, <1>3, SlotFacts DEF Ours
  <2>2. QED
    BY <2>1 DEF Row
<1>4. found \in SUBSET Row /\ (\A r \in found : Usable(r.hash)) /\ taken \in SUBSET Hashes
  BY <1>2, <1>3
<1>5. ASSUME NEW r \in found, NEW t \in ts, RowIdOf[t.hash] = RowIdOf[r.hash]
      PROVE  t.hash = r.hash \/ t.hash \in taken
  <2>1. PICK u \in ts : Ours(u.hash) /\ r.hash = u.hash
    BY <1>3, <1>5
  <2>2. Slot(t.hash) = Slot(u.hash) /\ Slot(u.hash) \in Row /\ Slot(u.hash).hash = r.hash
    BY <1>2, <1>5, <2>1, SlotFacts DEF Slot, Ours
  <2>3. t.hash # r.hash => Collided(t.hash)
    BY <2>2, NoRowFacts DEF Collided, Ours
  <2>4. QED
    BY <2>3
<1>6. ASSUME NEW t \in ts, ~(\E r \in found : r.hash = t.hash), t.hash \notin taken
      PROVE  Spared(torrents', seen'["import"], t.hash)
  <2>1. ~Collided(t.hash)
    BY <1>6
  <2>2. QED
    BY <1>1, <1>2, <2>1, OwnSlot
<1> HIDE DEF found, taken
<1>7. BatchInv'
  <2>1. batch' \in [phase : {"none", "merge", "add"}, incoming : SUBSET Offered,
                    found : SUBSET Row, taken : SUBSET Hashes, work : Tasks]
    BY <1>1, <1>2, <1>4, IdleFacts DEF TaskOK
  <2>2. /\ batch'.phase = "merge" /\ batch'.incoming = ts /\ batch'.found = found /\ batch'.taken = taken
        /\ batch'.work = Idle
    BY <1>1
  <2>3. TaskOK(Idle) /\ MaySpoil(Idle, torrents', seen'["import"]) /\ Idle.op = "none"
    BY IdleFacts DEF MaySpoil
  <2>4. QED
    BY <1>2, <1>4, <1>5, <1>6, <2>1, <2>2, <2>3 DEF BatchInv, Unsettled, Known
<1>8. SeenOK'
  <2>1. {RowIdOf[t.hash] : t \in ts} \in SUBSET RowIds
    BY <1>2 DEF RowIds
  <2>2. QED
    BY <1>1, <1>2, <2>1, SeenStays, ThreadsAre
<1>9. MainInv'
  BY <1>1, <1>2, MainStays
<1>10. QED
  BY <1>1, <1>2, <1>7, <1>8, <1>9, SameTable DEF IndexInv

LEMMA BatchMergesStep ==
  ASSUME IndexInv, NEW t \in Offered, BatchMerges(t)
  PROVE  IndexInv' /\ TakenUnseen
<1>1. batch.phase = "merge" /\ t \in batch.incoming /\ UNCHANGED <<torrents, refused, reading, seen>>
  BY DEF BatchMerges
<1>2. PICK r \in batch.found :
         /\ r.hash = t.hash
         /\ batch' = [batch EXCEPT !.incoming = @ \ {t},
                                   !.work = [op |-> "merge", hash |-> t.hash, t |-> t, row |-> r]]
  BY DEF BatchMerges, Task
<1> DEFINE w == [op |-> "merge", hash |-> t.hash, t |-> t, row |-> r]
<1>3. r \in Row /\ Usable(t.hash) /\ t.hash \in Hashes
  BY <1>1, <1>2, OfferedFacts DEF IndexInv, BatchInv
<1>4. TaskOK(w) /\ ~Writing(w) /\ w.op = "merge" /\ w.hash = t.hash
  BY <1>2, <1>3 DEF TaskOK, Tasks, Ops, Writing
<1> HIDE DEF w
<1>5. /\ batch'.phase = "merge" /\ batch'.incoming = batch.incoming \ {t} /\ batch'.found = batch.found
      /\ batch'.taken = batch.taken /\ batch'.work = w
      /\ batch' \in [phase : {"none", "merge", "add"}, incoming : SUBSET Offered,
                     found : SUBSET Row, taken : SUBSET Hashes, work : Tasks]
  <2>1. batch' = [batch EXCEPT !.incoming = @ \ {t}, !.work = w]
    BY <1>2 DEF w
  <2>2. w \in Tasks
    BY <1>4 DEF TaskOK
  <2>3. QED
    BY <1>1, <2>1, <2>2 DEF IndexInv, BatchInv
<1>6. BatchInv'
  BY <1>1, <1>2, <1>4, <1>5 DEF IndexInv, BatchInv, MaySpoil, Unsettled, Known
<1>7. MainInv' /\ SeenOK'
  BY <1>1, MainStays DEF IndexInv, SeenOK
<1>8. QED
  BY <1>1, <1>6, <1>7, SameTable DEF IndexInv

LEMMA BatchWorksStep ==
  ASSUME IndexInv, BatchWorks
  PROVE  IndexInv' /\ TakenUnseen
<1> DEFINE w == batch.work
<1>1. /\ torrents' = Statement(w) /\ batch' = [batch EXCEPT !.work = After(w)] /\ w # Idle
      /\ UNCHANGED <<refused, reading>> /\ Sees("import", LookedUp(w))
  BY DEF BatchWorks
<1>2. TableOK(torrents) /\ SeenOK /\ TaskOK(w) /\ MaySpoil(w, torrents, seen["import"])
  BY DEF IndexInv, BatchInv
<1>3. w.op # "none" /\ batch.phase = "merge" /\ \E r \in batch.found : r.hash = w.hash
  BY <1>1, <1>2 DEF TaskOK, IndexInv, BatchInv
<1>4. /\ TableOK(torrents') /\ SeenOK'
      /\ TaskOK(After(w)) /\ MaySpoil(After(w), torrents', seen'["import"])
      /\ \A i \in DOMAIN torrents : Touched(i) /\ torrents[i].hash # w.hash => i \notin seen["import"]
  BY <1>1, <1>2, TaskStep, ThreadsAre
<1>5. LookedUp(w) \subseteq {RowIdOf[w.hash]} /\ (After(w).op # "none" => After(w).hash = w.hash)
  BY <1>2, AfterFacts
<1>6. ASSUME NEW t \in batch.incoming, Unsettled(t) PROVE Spared(torrents', seen'["import"], t.hash)
  <2>1. RowIdOf[t.hash] # RowIdOf[w.hash]
    BY <1>3, <1>6 DEF IndexInv, BatchInv, Unsettled, Known
  <2>2. t.hash \in Hashes /\ Spared(torrents, seen["import"], t.hash)
    BY <1>6, OfferedFacts DEF IndexInv, BatchInv
  <2>3. QED
    BY <1>1, <1>2, <1>4, <1>5, <2>1, <2>2, SparedStays, ThreadsAre
<1>7. BatchInv'
  <2>1. After(w) \in Tasks
    BY <1>4 DEF TaskOK
  <2>2. /\ batch'.phase = batch.phase /\ batch'.incoming = batch.incoming /\ batch'.found = batch.found
        /\ batch'.taken = batch.taken /\ batch'.work = After(w)
        /\ batch' \in [phase : {"none", "merge", "add"}, incoming : SUBSET Offered,
                       found : SUBSET Row, taken : SUBSET Hashes, work : Tasks]
    BY <1>1, <2>1 DEF IndexInv, BatchInv
  <2> HIDE DEF w
  <2>3. QED
    BY <1>3, <1>4, <1>5, <1>6, <2>2 DEF IndexInv, BatchInv, Unsettled, Known
<1>8. MainInv'
  BY <1>1, <1>4, MainStays
<1>9. TakenUnseen
  BY <1>1, <1>3, <1>4 DEF TakenUnseen, ImportWritesFor
<1>10. QED
  BY <1>1, <1>4, <1>7, <1>8, <1>9 DEF IndexInv

LEMMA BatchJudgesStep ==
  ASSUME IndexInv, BatchJudges
  PROVE  IndexInv' /\ TakenUnseen
<1>1. /\ batch.phase = "merge" /\ batch.work = Idle /\ batch' = [batch EXCEPT !.phase = "add", !.incoming = Fresh]
      /\ UNCHANGED <<torrents, refused, reading, seen>>
  BY DEF BatchJudges
<1>2. \A t \in Fresh : t \in batch.incoming /\ Unsettled(t)
  BY DEF Fresh, Unsettled
<1>3. /\ batch'.phase = "add" /\ batch'.incoming = Fresh /\ batch'.found = batch.found
      /\ batch'.taken = batch.taken /\ batch'.work = batch.work
      /\ batch' \in [phase : {"none", "merge", "add"}, incoming : SUBSET Offered,
                     found : SUBSET Row, taken : SUBSET Hashes, work : Tasks]
  BY <1>1, <1>2 DEF IndexInv, BatchInv
<1>4. BatchInv'
  BY <1>1, <1>2, <1>3, IdleFacts DEF IndexInv, BatchInv, MaySpoil, Unsettled, Known
<1>5. MainInv' /\ SeenOK'
  BY <1>1, MainStays DEF IndexInv, SeenOK
<1>6. QED
  BY <1>1, <1>4, <1>5, SameTable DEF IndexInv

LEMMA BatchAddsStep ==
  ASSUME IndexInv, NEW claims \in SUBSET batch.incoming, NEW written \in SUBSET claims, BatchAdds(claims, written)
  PROVE  IndexInv' /\ TakenUnseen
<1> DEFINE ids == {RowIdOf[t.hash] : t \in written}
           At(i) == CHOOSE t \in written : RowIdOf[t.hash] = i
<1>1. /\ batch.phase = "add" /\ batch' = NoBatch /\ UNCHANGED <<refused, reading>> /\ Sees("import", {})
      /\ torrents' = [i \in DOMAIN torrents \union ids |-> IF i \in ids THEN At(i) ELSE torrents[i]]
  BY DEF BatchAdds
<1>2. ASSUME NEW i \in ids PROVE At(i) \in written /\ RowIdOf[At(i).hash] = i
  BY <1>2
<1> HIDE DEF At
<1>3. ASSUME NEW t \in written
      PROVE  t \in Row /\ Usable(t.hash) /\ Spared(torrents, seen["import"], t.hash)
  <2>1. t \in Offered /\ t \in batch.incoming
    BY DEF IndexInv, BatchInv
  <2>2. QED
    BY <1>1, <2>1, OfferedFacts DEF IndexInv, BatchInv
<1>4. \A i \in ids : i # 0 /\ At(i) \in Row /\ RowIdOf[At(i).hash] = i /\ Spared(torrents, seen["import"], At(i).hash)
  BY <1>2, <1>3 DEF Usable
<1>5. TableOK(torrents')
  BY <1>1, <1>4 DEF IndexInv, TableOK
<1>6. TakenUnseen
  <2>1. ASSUME NEW i \in DOMAIN torrents, Touched(i), torrents[i].hash # torrents'[i].hash PROVE i \notin seen["import"]
    BY <1>1, <1>4, <2>1 DEF Touched, Spared
  <2>2. QED
    BY <1>1, <2>1 DEF TakenUnseen, ImportWritesFor
<1>7. SeenOK' /\ MainInv' /\ BatchInv'
  BY <1>1, <1>5, SeenStays, MainStays, NoBatchInv, ThreadsAre DEF IndexInv
<1>8. QED
  BY <1>1, <1>5, <1>6, <1>7 DEF IndexInv

LEMMA ImportStep ==
  ASSUME IndexInv, ImportMoves
  PROVE  IndexInv' /\ TakenUnseen
BY BatchLooksUpStep, BatchMergesStep, BatchWorksStep, BatchJudgesStep, BatchAddsStep DEF ImportMoves

LEMMA IndexRests ==
  ASSUME IndexInv, UNCHANGED indexVars
  PROVE  IndexInv' /\ TakenUnseen /\ (reading'.op = "vote" => reading' = reading)
<1>1. UNCHANGED <<torrents, refused, reading, batch, seen>>
  BY DEF indexVars
<1>2. TableOK(torrents) /\ refused \in BOOLEAN /\ SeenOK
  BY DEF IndexInv
<1>3. MainInv' /\ BatchInv' /\ SeenOK'
  BY <1>1, <1>2, MainStays, BatchStays DEF SeenOK
<1>4. QED
  BY <1>1, <1>2, <1>3, SameTable DEF IndexInv

LEMMA IndexStep ==
  ASSUME IndexInv, IndexNext
  PROVE  IndexInv' /\ TakenUnseen
<1>1. CASE SetFilter
  <2>1. /\ UNCHANGED <<torrents, reading, batch, seen>> /\ refused' \in BOOLEAN
        /\ TableOK(torrents) /\ SeenOK
    BY <1>1 DEF SetFilter, IndexInv
  <2>2. MainInv' /\ BatchInv' /\ SeenOK'
    BY <2>1, MainStays, BatchStays DEF SeenOK
  <2>3. QED
    BY <2>1, <2>2, SameTable DEF IndexInv
<1>2. QED
  BY <1>1, ReadsStep, MainWorksStep, InsertEndsStep, ImportStep DEF IndexNext

-----------------------------------------------------------------------------
(* The votes. One that is being cast has not been cast, a vote that could   *)
(* not be recorded is remembered for the session, and the count is right.   *)
VoteInv ==
  /\ session \in 1..MaxSessions /\ storage \in BOOLEAN /\ callback \in BOOLEAN
  /\ records \subseteq Hashes \X (Peers \union {Us}) /\ announced \subseteq records /\ IsFiniteSet(records)
  /\ selfVoted \subseteq Hashes /\ unstored \subseteq Hashes \X (1..MaxSessions)
  /\ mine \in [Hashes -> Nat]
  /\ reading.op = "vote" => ~AlreadyVoted(reading.hash)
  /\ \A u \in unstored : u[2] <= session
  /\ \A h \in Hashes : <<h, session>> \in unstored => h \in selfVoted
  /\ VotesCountOnce

(* The sessions that counted a vote for h without the store.                *)
Unstored(h) == {s \in 1..MaxSessions : <<h, s>> \in unstored}

LEMMA UnstoredFacts ==
  ASSUME NEW h \in Hashes
  PROVE  /\ IsFiniteSet(Unstored(h)) /\ Cardinality(Unstored(h)) \in Nat
         /\ \A s \in 1..MaxSessions : <<h, s>> \notin unstored =>
              Cardinality(Unstored(h) \union {s}) = Cardinality(Unstored(h)) + 1
<1>1. IsFiniteSet(1..MaxSessions)
  BY VotersAreOthers, FS_Interval
<1>2. IsFiniteSet(Unstored(h)) /\ Cardinality(Unstored(h)) \in Nat
  BY <1>1, FS_Subset, FS_CardinalityType DEF Unstored
<1>3. QED
  BY <1>2, FS_AddElement DEF Unstored

(* A count for one hash is right when it went up by what was added.         *)
LEMMA VoteCounted ==
  ASSUME VoteInv, IndexInv, NEW stored \in BOOLEAN, VoteStores(stored)
  PROVE  VotesCountOnce'
<1> DEFINE k == reading.hash
<1>1. k \in Hashes /\ ~AlreadyVoted(k) /\ (stored => storage)
  BY DEF VoteStores, IndexInv, MainInv, TaskOK, VoteInv
<1>2. /\ records' = IF stored THEN records \union {<<k, Us>>} ELSE records
      /\ mine' = [mine EXCEPT ![k] = @ + 1]
      /\ unstored' = IF stored THEN unstored ELSE unstored \union {<<k, session>>}
  BY DEF VoteStores
<1>3. k \notin selfVoted /\ <<k, session>> \notin unstored /\ session \in 1..MaxSessions /\ (stored => ~Has(k))
  BY <1>1 DEF AlreadyVoted, VoteInv
<1> HIDE DEF k
<1>4. ASSUME NEW h \in Hashes
      PROVE  mine'[h] = Cardinality(Unstored(h)') + IF Has(h)' THEN 1 ELSE 0
  <2>1. mine[h] = Cardinality(Unstored(h)) + IF Has(h) THEN 1 ELSE 0
    BY DEF VoteInv, VotesCountOnce, Unstored
  <2>2. mine[h] \in Nat /\ Cardinality(Unstored(h)) \in Nat
    BY UnstoredFacts DEF VoteInv
  <2>3. CASE h # k
    <3>1. mine'[h] = mine[h]
      BY <1>1, <1>2, <2>3 DEF VoteInv
    <3>2. Unstored(h)' = Unstored(h)
      BY <1>2, <2>3 DEF Unstored
    <3>3. Has(h)' <=> Has(h)
      BY <1>2, <2>3 DEF Has
    <3>4. QED
      BY <2>1, <3>1, <3>2, <3>3
  <2>4. CASE h = k
    <3>1. mine'[h] = mine[h] + 1
      BY <1>1, <1>2, <2>4 DEF VoteInv
    <3>2. CASE stored
      <4>1. Unstored(h)' = Unstored(h) /\ ~Has(h) /\ Has(h)'
        BY <1>2, <1>3, <2>4, <3>2 DEF Unstored, Has
      <4>2. QED
        BY <2>1, <2>2, <3>1, <4>1
    <3>3. CASE ~stored
      <4>1. Unstored(h)' = Unstored(h) \union {session}
        BY <1>2, <1>3, <2>4, <3>3 DEF Unstored
      <4>2. Cardinality(Unstored(h)') = Cardinality(Unstored(h)) + 1
        BY <1>3, <2>4, <4>1, UnstoredFacts
      <4>3. Has(h)' <=> Has(h)
        BY <1>2, <3>3 DEF Has
      <4>4. QED
        BY <2>1, <2>2, <3>1, <4>2, <4>3
    <3>4. QED
      BY <3>2, <3>3
  <2>5. QED
    BY <2>3, <2>4
<1>5. QED
  BY <1>4 DEF VotesCountOnce, Unstored

LEMMA VoteStoresStep ==
  ASSUME VoteInv, IndexInv, NEW stored \in BOOLEAN, VoteStores(stored)
  PROVE  VoteInv' /\ IndexInv' /\ TakenUnseen
<1> DEFINE k == reading.hash
           r == [reading.row EXCEPT !.good = @ + 1]
           w == [op |-> "update", hash |-> k, t |-> NoRow, row |-> r]
<1>1. k \in Hashes /\ reading.row \in Row /\ reading.row.hash = k /\ Usable(k) /\ reading.row.good < MaxVotes
  BY DEF VoteStores, IndexInv, MainInv, TaskOK
<1>2. r \in Row /\ r.hash = k
  <2>1. reading.row.good + 1 \in 0..MaxVotes
    BY <1>1, OfferedAreTorrents DEF Row
  <2>2. QED
    BY <1>1, <2>1 DEF Row
<1>3. /\ records' = IF stored THEN records \union {<<k, Us>>} ELSE records
      /\ announced' = IF stored THEN announced \union {<<k, Us>>} ELSE announced
      /\ selfVoted' = selfVoted \union {k}
      /\ mine' = [mine EXCEPT ![k] = @ + 1]
      /\ unstored' = IF stored THEN unstored ELSE unstored \union {<<k, session>>}
      /\ reading' = w /\ UNCHANGED <<torrents, refused, batch, seen, session, storage, callback>>
  BY DEF VoteStores, Task
<1> HIDE DEF k, r
<1>4. TaskOK(w) /\ ~Writing(w) /\ w.op = "update"
  BY <1>1, <1>2 DEF TaskOK, Tasks, Ops, Writing
<1> HIDE DEF w
<1>5. IndexInv' /\ TakenUnseen
  <2>1. TableOK(torrents) /\ refused \in BOOLEAN /\ SeenOK
    BY DEF IndexInv
  <2>2. MainInv'
    BY <1>3, <1>4 DEF MainInv, MaySpoil
  <2>3. BatchInv' /\ SeenOK'
    BY <1>3, <2>1, BatchStays DEF SeenOK
  <2>4. QED
    BY <1>3, <2>1, <2>2, <2>3, SameTable DEF IndexInv
<1>6. VotesCountOnce'
  BY VoteCounted
<1>7. reading'.op # "vote"
  BY <1>3, <1>4
<1>8. mine' \in [Hashes -> Nat]
  BY <1>1, <1>3 DEF VoteInv
<1>9. /\ records' \subseteq Hashes \X (Peers \union {Us}) /\ announced' \subseteq records' /\ IsFiniteSet(records')
      /\ selfVoted' \subseteq Hashes /\ unstored' \subseteq Hashes \X (1..MaxSessions)
  <2>1. IsFiniteSet(records \union {<<k, Us>>})
    BY FS_AddElement DEF VoteInv
  <2>2. IsFiniteSet(records')
    BY <1>3, <2>1 DEF VoteInv
  <2>3. <<k, Us>> \in Hashes \X (Peers \union {Us}) /\ <<k, session>> \in Hashes \X (1..MaxSessions)
    BY <1>1 DEF VoteInv
  <2>4. records' \subseteq Hashes \X (Peers \union {Us}) /\ announced' \subseteq records'
    BY <1>3, <2>3 DEF VoteInv
  <2>5. selfVoted' \subseteq Hashes /\ unstored' \subseteq Hashes \X (1..MaxSessions)
    BY <1>1, <1>3, <2>3 DEF VoteInv
  <2>6. QED
    BY <2>2, <2>4, <2>5
<1>10. /\ \A u \in unstored' : u[2] <= session'
       /\ \A h \in Hashes : <<h, session'>> \in unstored' => h \in selfVoted'
  BY <1>3, VotersAreOthers DEF VoteInv
<1>11. QED
  BY <1>3, <1>5, <1>6, <1>7, <1>8, <1>9, <1>10 DEF VoteInv

(* What a peer's record does: the row is read, to take the count over.      *)
LEMMA RemoteVoteStep ==
  ASSUME VoteInv, IndexInv, NEW h \in Hashes, NEW p \in Peers, RemoteVote(h, p)
  PROVE  VoteInv' /\ IndexInv' /\ TakenUnseen
<1> DEFINE n == Aggregate(h) + 1
           w == Task("update", h, NoRow, [Slot(h) EXCEPT !.good = n])
<1>1. /\ records' = records \union {<<h, p>>} /\ Aggregate(h) < MaxVotes /\ reading = Idle
      /\ announced' = IF callback THEN announced \union {<<h, p>>} ELSE announced
      /\ reading' = IF callback /\ Mirrors(h, n) THEN w ELSE reading
      /\ UNCHANGED <<torrents, refused, batch, session, storage, callback, selfVoted, mine, unstored>>
      /\ Sees("main", IF callback THEN {RowIdOf[h]} ELSE {})
  BY DEF RemoteVote, Mirroring
<1>2. n \in 0..MaxVotes
  <2>1. Aggregate(h) \in Nat
    BY FS_Subset, FS_CardinalityType DEF Aggregate, VoteInv
  <2>2. QED
    BY <1>1, <2>1, OfferedAreTorrents
<1>3. TableOK(torrents) /\ refused \in BOOLEAN /\ SeenOK
  BY DEF IndexInv
<1> HIDE DEF n
<1>4. ASSUME Mirrors(h, n) PROVE TaskOK(w) /\ ~Writing(w) /\ w.op # "vote"
  <2>1. Slot(h) \in Row /\ Usable(h) /\ Slot(h).hash = h
    BY <1>3, <1>4, SlotFacts DEF Mirrors, Ours
  <2>2. [Slot(h) EXCEPT !.good = n] \in Row /\ [Slot(h) EXCEPT !.good = n].hash = h
    BY <1>2, <2>1 DEF Row
  <2>3. QED
    BY <2>1, <2>2 DEF TaskOK, Task, Tasks, Ops, Writing
<1> HIDE DEF w
<1>5. TaskOK(reading') /\ ~Writing(reading') /\ reading'.op # "vote"
  BY <1>1, <1>4, IdleFacts
<1>6. IndexInv' /\ TakenUnseen
  <2>1. MainInv'
    BY <1>5 DEF MainInv, MaySpoil
  <2>2. (IF callback THEN {RowIdOf[h]} ELSE {}) \in SUBSET RowIds
    BY DEF RowIds
  <2>3. BatchInv' /\ SeenOK'
    BY <1>1, <1>3, <2>2, BatchStays, SeenStays, ThreadsAre
  <2>4. QED
    BY <1>1, <1>3, <2>1, <2>3, SameTable DEF IndexInv
<1>7. \A g : Has(g)' <=> Has(g)
  BY <1>1, VotersAreOthers DEF Has
<1>8. VotesCountOnce'
  BY <1>1, <1>7 DEF VoteInv, VotesCountOnce
<1>9. records' \subseteq Hashes \X (Peers \union {Us}) /\ announced' \subseteq records' /\ IsFiniteSet(records')
  <2>1. IsFiniteSet(records \union {<<h, p>>})
    BY FS_AddElement DEF VoteInv
  <2>2. <<h, p>> \in Hashes \X (Peers \union {Us})
    OBVIOUS
  <2>3. QED
    BY <1>1, <2>1, <2>2 DEF VoteInv
<1>10. QED
  BY <1>1, <1>5, <1>6, <1>8, <1>9 DEF VoteInv

(* The program and the transport start; a vote is asked for.                *)
LEMMA VotesBeginStep ==
  ASSUME VoteInv, IndexInv, TransportStarts \/ NextSession \/ \E h \in Hashes : VoteReads(h)
  PROVE  VoteInv' /\ IndexInv' /\ TakenUnseen
<1>1. CASE TransportStarts
  <2>1. reading.op # "vote" /\ storage' = TRUE
        /\ UNCHANGED <<indexVars, session, callback, records, announced, selfVoted, mine, unstored>>
    BY <1>1, IdleFacts DEF TransportStarts
  <2>2. IndexInv' /\ TakenUnseen
    BY <2>1, IndexRests
  <2>3. VotesCountOnce'
    BY <2>1 DEF VoteInv, VotesCountOnce, Has
  <2>4. QED
    BY <2>1, <2>2, <2>3 DEF VoteInv, indexVars
<1>2. CASE NextSession
  <2>1. /\ session' = session + 1 /\ storage' = FALSE /\ callback' = FALSE /\ selfVoted' = {}
        /\ reading' = Idle /\ batch' = NoBatch /\ session < MaxSessions
        /\ seen' = [x \in Threads |-> {}]
        /\ UNCHANGED <<torrents, refused, records, announced, mine, unstored>>
    BY <1>2 DEF NextSession, Constructed
  <2>2. IndexInv' /\ TakenUnseen
    <3>1. MainInv' /\ BatchInv'
      BY <2>1, IdleFacts, NoBatchInv DEF MainInv, MaySpoil
    <3>2. SeenOK'
      BY <2>1 DEF SeenOK
    <3>3. QED
      BY <2>1, <3>1, <3>2, SameTable DEF IndexInv
  <2>3. VotesCountOnce'
    BY <2>1 DEF VoteInv, VotesCountOnce, Has
  <2>4. session' \in 1..MaxSessions
    BY <2>1, VotersAreOthers DEF VoteInv
  <2>5. /\ \A u \in unstored' : u[2] <= session'
        /\ \A h \in Hashes : <<h, session'>> \notin unstored'
    <3>1. session \in Nat /\ \A u \in unstored : u[2] \in Nat /\ u[2] <= session
      BY VotersAreOthers DEF VoteInv
    <3>2. QED
      BY <2>1, <3>1
  <2>6. reading'.op # "vote"
    BY <2>1, IdleFacts
  <2>7. QED
    BY <2>1, <2>2, <2>3, <2>4, <2>5, <2>6 DEF VoteInv
<1>3. ASSUME NEW h \in Hashes, VoteReads(h) PROVE VoteInv' /\ IndexInv' /\ TakenUnseen
  <2>1. /\ Ours(h) /\ ~AlreadyVoted(h) /\ Slot(h).good < MaxVotes
        /\ Begins("vote", h, NoRow) /\ UNCHANGED votingVars
    BY <1>3 DEF VoteReads
  <2>2. Usable(h)
    BY <2>1, SlotFacts DEF IndexInv
  <2>3. IndexInv' /\ TakenUnseen
    BY <2>1, <2>2, BeginsStep DEF Ops
  <2>4. VotesCountOnce'
    BY <2>1 DEF votingVars, VoteInv, VotesCountOnce, Has
  <2>5. reading'.hash = h
    BY <2>1 DEF Begins, Task
  <2>6. ~AlreadyVoted(reading.hash)'
    BY <2>1, <2>5 DEF votingVars, AlreadyVoted, Has
  <2>7. QED
    BY <2>1, <2>3, <2>4, <2>6 DEF votingVars, VoteInv
<1>4. QED
  BY <1>1, <1>2, <1>3

(* The other parts cast no vote.                                            *)
LEMMA VotesAlone ==
  ASSUME VoteInv, UNCHANGED votingVars, reading'.op = "vote" => reading' = reading
  PROVE  VoteInv'
<1>1. VotesCountOnce'
  BY DEF votingVars, VoteInv, VotesCountOnce, Has
<1>2. reading'.op = "vote" => ~AlreadyVoted(reading.hash)'
  BY DEF votingVars, VoteInv, AlreadyVoted, Has
<1>3. QED
  BY <1>1, <1>2 DEF votingVars, VoteInv

LEMMA VotingStep ==
  ASSUME VoteInv, IndexInv, VotingNext
  PROVE  VoteInv' /\ IndexInv' /\ TakenUnseen
<1>1. CASE VoteIsMirrored
  <2>1. MainWorks /\ UNCHANGED votingVars
    BY <1>1 DEF VoteIsMirrored
  <2>2. QED
    BY <2>1, MainWorksStep, VotesAlone
<1>2. QED
  BY <1>1, VotesBeginStep, VoteStoresStep, RemoteVoteStep DEF VotingNext

LEMMA NoVoteIsRead ==
  ASSUME IndexInv, IndexNext
  PROVE  reading'.op = "vote" => reading' = reading
<1>1. CASE ImportMoves \/ SetFilter
  BY <1>1 DEF ImportMoves, BatchLooksUp, BatchMerges, BatchWorks, BatchJudges, BatchAdds, SetFilter
<1>2. CASE InsertAdds \/ InsertFails \/ MainWorks
  BY <1>2, InsertEndsStep, MainWorksStep
<1>3. CASE (\E t \in Offered : InsertReads(t)) \/ \E h \in Hashes : InfoReads(h) \/ RemoveReads(h)
  <2>1. \A op, h, t : Begins(op, h, t) => reading'.op = op
    BY DEF Begins, Task
  <2>2. QED
    BY <1>3, <2>1 DEF InsertReads, InfoReads, RemoveReads
<1>4. QED
  BY <1>1, <1>2, <1>3 DEF IndexNext

-----------------------------------------------------------------------------
(* The crawler. What librats owes beyond the count is what the stops left.  *)
CrawlInv ==
  /\ crawling \in BOOLEAN /\ stops \in 0..MaxStops
  /\ announces \subseteq Hashes /\ arrived \subseteq Offered /\ lost \subseteq Hashes
  /\ recent \subseteq Hashes /\ IsFiniteSet(recent) /\ Cardinality(recent) <= MaxRecent
  /\ queue \in Seq(Hashes)
  /\ fetching \in [Hashes -> Nat] /\ IsFiniteSet(UnderWay)
  /\ activeFetches \in Int /\ activeFetches <= MaxFetches
  /\ activeFetches <= InFlight
  /\ stops = 0 => activeFetches = InFlight
  /\ InFlight - activeFetches <= MaxFetches * stops

LEMMA HasLeast ==
  ASSUME NEW S \in SUBSET Nat, S # {}
  PROVE  \E r \in S : \A q \in S : r <= q
<1> DEFINE R == OpToRel(<, Nat)
<1>1. \A x, y \in Nat : x < y => <<x, y>> \in R
  BY DEF OpToRel
<1>2. IsWellFoundedOn(R, Nat)
  BY NatLessThanWellFounded
<1> HIDE DEF R
<1>3. PICK r \in S : \A q \in S : <<q, r>> \notin R
  BY <1>2, WFMin
<1>4. \A q \in S : ~(q < r)
  BY <1>1, <1>3
<1>5. QED
  BY <1>4

LEMMA HalfFacts == \A n \in Nat : n >= 2 => n \div 2 >= 1 /\ ~(0 >= n \div 2)
OBVIOUS

(* Trimming a set that is one too large drops its least hash at least.      *)
LEMMA TrimmedFacts ==
  ASSUME NEW S \in SUBSET Hashes, IsFiniteSet(S), Cardinality(S) <= MaxRecent + 1
  PROVE  Trimmed(S) \subseteq S /\ IsFiniteSet(Trimmed(S)) /\ Cardinality(Trimmed(S)) <= MaxRecent
<1>1. Cardinality(S) \in Nat /\ MaxRecent \in Nat \ {0}
  BY FS_CardinalityType, CrawlLimits
<1>2. CASE Cardinality(S) <= MaxRecent
  BY <1>2 DEF Trimmed
<1>3. CASE ~(Cardinality(S) <= MaxRecent)
  <2>1. Cardinality(S) >= 2
    BY <1>1, <1>3
  <2>2. S \in SUBSET Nat /\ S # {}
    BY <2>1, HashesAreNumbers, FS_EmptySet
  <2>3. PICK m \in S : \A q \in S : m <= q
    BY <2>2, HasLeast
  <2>4. {g \in S : g < m} = {}
    <3>1. \A g \in S : ~(g < m)
      BY <2>2, <2>3
    <3>2. QED
      BY <3>1
  <2>5. Cardinality({g \in S : g < m}) = 0
    BY <2>4, FS_EmptySet
  <2>6. ~(Cardinality({g \in S : g < m}) >= Cardinality(S) \div 2)
    BY <1>1, <2>1, <2>5, HalfFacts
  <2>7. Trimmed(S) \subseteq S \ {m}
    BY <1>3, <2>6 DEF Trimmed
  <2>8. IsFiniteSet(S \ {m}) /\ Cardinality(S \ {m}) = Cardinality(S) - 1
    BY FS_RemoveElement
  <2>9. IsFiniteSet(Trimmed(S)) /\ Cardinality(Trimmed(S)) <= Cardinality(S \ {m})
    BY <2>7, <2>8, FS_Subset
  <2>10. Cardinality(Trimmed(S)) \in Nat
    BY <2>9, FS_CardinalityType
  <2>11. QED
    BY <1>1, <2>7, <2>8, <2>9, <2>10
<1>4. QED
  BY <1>2, <1>3

LEMMA UnderWayIs == UnderWay = {x \in Hashes \X Nat : x[2] \in 1..fetching[x[1]]}
BY DEF UnderWay

LEMMA InFlightFacts ==
  ASSUME CrawlInv
  PROVE  InFlight \in Nat /\ stops \in Nat /\ MaxFetches \in Nat /\ activeFetches \in Int
BY FS_CardinalityType, CrawlLimits DEF CrawlInv, InFlight

(* One fetch more, and one less.                                            *)
LEMMA FetchBegins ==
  ASSUME CrawlInv, NEW h \in Hashes, fetching' = [fetching EXCEPT ![h] = @ + 1]
  PROVE  fetching' \in [Hashes -> Nat] /\ IsFiniteSet(UnderWay') /\ InFlight' = InFlight + 1
<1>1. fetching \in [Hashes -> Nat] /\ fetching' \in [Hashes -> Nat] /\ fetching[h] \in Nat
  BY DEF CrawlInv
<1>2. UnderWay' = {x \in Hashes \X Nat : x[2] \in 1..fetching'[x[1]]}
  BY DEF UnderWay
<1>3. \A g \in Hashes : fetching'[g] = IF g = h THEN fetching[h] + 1 ELSE fetching[g]
  BY <1>1
<1>4. \A n, m \in Nat : m \in 1..(n + 1) <=> m \in 1..n \/ m = n + 1
  OBVIOUS
<1>5. UnderWay' = UnderWay \union {<<h, fetching[h] + 1>>} /\ <<h, fetching[h] + 1>> \notin UnderWay
  BY <1>1, <1>2, <1>3, <1>4, UnderWayIs
<1>6. QED
  BY <1>1, <1>5, FS_AddElement DEF CrawlInv, InFlight

LEMMA FetchEnds ==
  ASSUME CrawlInv, NEW h \in Hashes, fetching[h] > 0, fetching' = [fetching EXCEPT ![h] = @ - 1]
  PROVE  fetching' \in [Hashes -> Nat] /\ IsFiniteSet(UnderWay') /\ InFlight' = InFlight - 1
<1>1. fetching \in [Hashes -> Nat] /\ fetching[h] \in Nat /\ fetching' \in [Hashes -> Nat]
  BY DEF CrawlInv
<1>2. UnderWay' = {x \in Hashes \X Nat : x[2] \in 1..fetching'[x[1]]}
  BY DEF UnderWay
<1>3. \A g \in Hashes : fetching'[g] = IF g = h THEN fetching[h] - 1 ELSE fetching[g]
  BY <1>1
<1>4. \A n, m \in Nat : n > 0 => (m \in 1..(n - 1) <=> m \in 1..n /\ m # n)
  OBVIOUS
<1>5. UnderWay' = UnderWay \ {<<h, fetching[h]>>} /\ <<h, fetching[h]>> \in UnderWay
  BY <1>1, <1>2, <1>3, <1>4, UnderWayIs
<1>6. QED
  BY <1>1, <1>5, FS_RemoveElement DEF CrawlInv, InFlight

LEMMA LimitFacts ==
  \A s, limit \in Nat : limit * s \in Nat /\ limit * (s + 1) = limit * s + limit
OBVIOUS

(* Steps of the crawler that fetch nothing.                                 *)
LEMMA CrawlRests ==
  ASSUME CrawlInv, UNCHANGED <<fetching, activeFetches, stops>>,
         crawling' \in BOOLEAN, announces' \subseteq Hashes, arrived' \subseteq Offered, lost' \subseteq Hashes,
         recent' \subseteq Hashes, IsFiniteSet(recent'), Cardinality(recent') <= MaxRecent, queue' \in Seq(Hashes)
  PROVE  CrawlInv'
<1>1. UnderWay' = UnderWay /\ InFlight' = InFlight
  BY DEF UnderWay, InFlight
<1>2. QED
  BY <1>1 DEF CrawlInv

LEMMA CrawlStep ==
  ASSUME IndexInv, CrawlInv, CrawlNext
  PROVE  CrawlInv' /\ IndexInv' /\ TakenUnseen
<1>1. ASSUME UNCHANGED indexVars PROVE IndexInv' /\ TakenUnseen
  BY <1>1, IndexRests
<1>2. \A h \in Heard : h \in Hashes
  BY CrawlLimits
<1>3. CASE StartCrawler
  BY <1>1, <1>3, CrawlRests DEF StartCrawler, CrawlInv
<1>4. CASE StopCrawler
  <2>1. /\ stops < MaxStops /\ stops' = stops + 1 /\ activeFetches' = 0 /\ crawling' = FALSE
        /\ UNCHANGED <<indexVars, announces, recent, queue, fetching, arrived, lost>>
    BY <1>4 DEF StopCrawler
  <2>2. UnderWay' = UnderWay /\ InFlight' = InFlight
    BY <2>1 DEF UnderWay, InFlight
  <2>3. stops' \in 0..MaxStops /\ stops' # 0
    BY <2>1, CrawlLimits DEF CrawlInv
  <2>4. MaxFetches * stops' = MaxFetches * stops + MaxFetches /\ MaxFetches * stops \in Nat
    BY <2>1, InFlightFacts, LimitFacts
  <2>5. InFlight - 0 <= MaxFetches * stops'
    BY <2>4, InFlightFacts DEF CrawlInv
  <2>6. /\ InFlight' - activeFetches' <= MaxFetches * stops'
        /\ activeFetches' \in Int /\ activeFetches' <= MaxFetches /\ activeFetches' <= InFlight'
    BY <2>1, <2>2, <2>5, InFlightFacts
  <2>7. CrawlInv'
    BY <2>1, <2>2, <2>3, <2>6 DEF CrawlInv
  <2>8. QED
    BY <1>1, <2>1, <2>7
<1>5. ASSUME NEW h \in Heard, SpiderHears(h) PROVE CrawlInv' /\ IndexInv' /\ TakenUnseen
  <2>1. /\ announces' = announces \union {h}
        /\ UNCHANGED <<indexVars, crawling, stops, recent, queue, activeFetches, fetching, arrived, lost>>
    BY <1>5 DEF SpiderHears
  <2>2. QED
    BY <1>1, <1>2, <2>1, CrawlRests DEF CrawlInv
<1>6. ASSUME NEW h \in Heard, OnAnnounce(h) PROVE CrawlInv' /\ IndexInv' /\ TakenUnseen
  <2>1. /\ announces' = announces \ {h} /\ recent' = Trimmed(recent \union {h})
        /\ queue' \in {queue, Append(queue, h)} /\ lost' \in {lost, lost \ {h}}
        /\ UNCHANGED <<indexVars, crawling, stops, activeFetches, fetching, arrived>>
    BY <1>6 DEF OnAnnounce
  <2>2. /\ (recent \union {h}) \in SUBSET Hashes /\ IsFiniteSet(recent \union {h})
        /\ Cardinality(recent \union {h}) <= MaxRecent + 1
    <3>1. Cardinality(recent) \in Nat /\ MaxRecent \in Nat
      BY FS_CardinalityType, CrawlLimits DEF CrawlInv
    <3>2. IsFiniteSet(recent \union {h})
          /\ (Cardinality(recent \union {h}) = Cardinality(recent) \/ Cardinality(recent \union {h}) = Cardinality(recent) + 1)
      BY FS_AddElement DEF CrawlInv
    <3>3. QED
      BY <1>2, <3>1, <3>2 DEF CrawlInv
  <2>3. recent' \subseteq Hashes /\ IsFiniteSet(recent') /\ Cardinality(recent') <= MaxRecent
    BY <2>1, <2>2, TrimmedFacts
  <2>4. queue' \in Seq(Hashes)
    BY <1>2, <2>1, AppendProperties DEF CrawlInv
  <2>5. QED
    BY <1>1, <2>1, <2>3, <2>4, CrawlRests DEF CrawlInv
<1>7. CASE FetchNext
  <2>1. /\ queue # <<>> /\ activeFetches < MaxFetches /\ queue' = Tail(queue)
        /\ activeFetches' = activeFetches + 1
        /\ fetching' = [fetching EXCEPT ![Head(queue)] = @ + 1]
        /\ UNCHANGED <<indexVars, crawling, stops, announces, recent, arrived, lost>>
    BY <1>7 DEF FetchNext
  <2>2. Head(queue) \in Hashes /\ queue' \in Seq(Hashes)
    BY <2>1, HeadTailProperties DEF CrawlInv
  <2>3. fetching' \in [Hashes -> Nat] /\ IsFiniteSet(UnderWay') /\ InFlight' = InFlight + 1
    BY <2>1, <2>2, FetchBegins
  <2>4. /\ activeFetches' \in Int /\ activeFetches' <= MaxFetches /\ activeFetches' <= InFlight'
        /\ InFlight' - activeFetches' <= MaxFetches * stops'
        /\ (stops' = 0 => activeFetches' = InFlight')
    <3>1. InFlight' - activeFetches' = InFlight - activeFetches
      BY <2>1, <2>3, InFlightFacts
    <3>2. QED
      BY <2>1, <2>3, <3>1, InFlightFacts DEF CrawlInv
  <2>5. QED
    BY <1>1, <2>1, <2>2, <2>3, <2>4 DEF CrawlInv
<1>8. ASSUME NEW h \in Heard, NEW f \in Found(h), FetchAnswers(h, f) PROVE CrawlInv' /\ IndexInv' /\ TakenUnseen
  <2>1. /\ fetching[h] > 0 /\ fetching' = [fetching EXCEPT ![h] = @ - 1]
        /\ activeFetches' = activeFetches - 1 /\ arrived' = arrived \union f
        /\ lost' \in {lost, lost \union {h}}
        /\ UNCHANGED <<indexVars, crawling, stops, announces, recent, queue>>
    BY <1>8 DEF FetchAnswers, Released
  <2>2. h \in Hashes /\ f \subseteq Offered
    BY <1>2 DEF Found
  <2>3. fetching' \in [Hashes -> Nat] /\ IsFiniteSet(UnderWay') /\ InFlight' = InFlight - 1
    BY <2>1, <2>2, FetchEnds
  <2>4. /\ activeFetches' \in Int /\ activeFetches' <= MaxFetches /\ activeFetches' <= InFlight'
        /\ InFlight' - activeFetches' <= MaxFetches * stops'
        /\ (stops' = 0 => activeFetches' = InFlight')
    <3>1. InFlight' - activeFetches' = InFlight - activeFetches
      BY <2>1, <2>3, InFlightFacts
    <3>2. QED
      BY <2>1, <2>3, <3>1, InFlightFacts DEF CrawlInv
  <2>5. QED
    BY <1>1, <2>1, <2>2, <2>3, <2>4 DEF CrawlInv
<1>9. ASSUME NEW t \in Offered, Discovered(t) PROVE CrawlInv' /\ IndexInv' /\ TakenUnseen
  <2>1. /\ InsertReads(t) /\ arrived' = arrived \ {t}
        /\ UNCHANGED <<crawling, stops, announces, recent, queue, activeFetches, fetching, lost>>
    BY <1>9 DEF Discovered
  <2>2. IndexInv' /\ TakenUnseen
    BY <2>1, ReadsStep
  <2>3. QED
    BY <2>1, <2>2, CrawlRests DEF CrawlInv
<1>10. CASE Inserted
  <2>1. /\ InsertAdds \/ InsertFails \/ MainWorks
        /\ lost' = IF reading.op = "insert" /\ torrents' = torrents THEN lost \union {reading.hash} ELSE lost
        /\ UNCHANGED <<crawling, stops, announces, recent, queue, activeFetches, fetching, arrived>>
    BY <1>10 DEF Inserted
  <2>2. reading.op = "insert" => reading.hash \in Hashes
    BY DEF IndexInv, MainInv, TaskOK
  <2>3. lost' \subseteq Hashes
    BY <2>1, <2>2 DEF CrawlInv
  <2>4. IndexInv' /\ TakenUnseen
    BY <2>1, InsertEndsStep, MainWorksStep
  <2>5. QED
    BY <2>1, <2>3, <2>4, CrawlRests DEF CrawlInv
<1>11. QED
  BY <1>3, <1>4, <1>5, <1>6, <1>7, <1>8, <1>9, <1>10 DEF CrawlNext

LEMMA NoVoteIsCrawled ==
  ASSUME IndexInv, CrawlNext
  PROVE  reading'.op = "vote" => reading' = reading
<1>1. CASE Inserted
  BY <1>1, InsertEndsStep, MainWorksStep DEF Inserted
<1>2. CASE \E t \in Offered : Discovered(t)
  BY <1>2 DEF Discovered, InsertReads, Begins, Task
<1>3. CASE StartCrawler \/ StopCrawler \/ FetchNext
           \/ \E h \in Heard : SpiderHears(h) \/ OnAnnounce(h) \/ \E f \in Found(h) : FetchAnswers(h, f)
  BY <1>3 DEF StartCrawler, StopCrawler, FetchNext, SpiderHears, OnAnnounce, FetchAnswers, indexVars
<1>4. QED
  BY <1>1, <1>2, <1>3 DEF CrawlNext

LEMMA SlotsAreSound ==
  ASSUME CrawlInv
  PROVE  FetchSlotsAreSound
<1>1. MaxFetches * (stops + 1) = MaxFetches * stops + MaxFetches /\ MaxFetches * stops \in Nat
  BY InFlightFacts, LimitFacts
<1>2. QED
  BY <1>1, InFlightFacts DEF CrawlInv, FetchSlotsAreSound

-----------------------------------------------------------------------------
(* Queues of hashes.  No hash is queued twice.                              *)
Line == {s \in Seq(Hashes) : IsInjective(s)}

LEMMA LineFacts ==
  ASSUME NEW s \in Line
  PROVE  /\ s \in Seq(Hashes) /\ Len(s) \in Nat /\ DOMAIN s = 1..Len(s)
         /\ \A i \in 1..Len(s) : s[i] \in Hashes
         /\ \A i, j \in 1..Len(s) : s[i] = s[j] => i = j
         /\ In(s) \subseteq Hashes /\ IsFiniteSet(In(s)) /\ Cardinality(In(s)) = Len(s)
         /\ s = <<>> <=> Len(s) = 0
<1>1. /\ s \in Seq(Hashes) /\ Len(s) \in Nat /\ DOMAIN s = 1..Len(s)
      /\ \A i \in 1..Len(s) : s[i] \in Hashes
      /\ \A i, j \in 1..Len(s) : s[i] = s[j] => i = j
  <2>1. s \in Seq(Hashes) /\ IsInjective(s)
    BY DEF Line
  <2>2. QED
    BY <2>1, LenProperties, ElementOfSeq DEF IsInjective
<1>2. In(s) \subseteq Hashes
  BY <1>1 DEF In
<1>3. s \in Bijection(1..Len(s), In(s))
  <2>1. s \in [1..Len(s) -> In(s)]
    BY <1>1 DEF In
  <2>2. s \in Injection(1..Len(s), In(s))
    BY <1>1, <2>1 DEF Injection, IsInjective
  <2>3. s \in Surjection(1..Len(s), In(s))
    BY <1>1, <2>1 DEF Surjection, In
  <2>4. QED
    BY <2>2, <2>3 DEF Bijection
<1>4. IsFiniteSet(1..Len(s)) /\ Cardinality(1..Len(s)) = Len(s)
  <2>1. IsFiniteSet(1..Len(s)) /\ Cardinality(1..Len(s)) = IF 1 > Len(s) THEN 0 ELSE Len(s) - 1 + 1
    BY <1>1, FS_Interval
  <2>2. QED
    BY <1>1, <2>1
<1>5. IsFiniteSet(In(s)) /\ Cardinality(In(s)) = Len(s)
  BY <1>3, <1>4, FS_Bijection DEF ExistsBijection
<1>6. s = <<>> <=> Len(s) = 0
  BY <1>1, EmptySeq
<1>7. QED
  BY <1>1, <1>2, <1>5, <1>6

(* The first n of a queue and the others.                                   *)
LEMMA SplitFacts ==
  ASSUME NEW s \in Line, NEW n \in 0..Len(s)
  PROVE  /\ SubSeq(s, 1, n) \in Line /\ Len(SubSeq(s, 1, n)) = n
         /\ SubSeq(s, n + 1, Len(s)) \in Line /\ Len(SubSeq(s, n + 1, Len(s))) = Len(s) - n
         /\ In(s) = In(SubSeq(s, 1, n)) \union In(SubSeq(s, n + 1, Len(s)))
         /\ In(SubSeq(s, 1, n)) \intersect In(SubSeq(s, n + 1, Len(s))) = {}
<1> DEFINE a == SubSeq(s, 1, n)
           b == SubSeq(s, n + 1, Len(s))
<1>1. /\ Len(s) \in Nat /\ n \in Nat /\ n <= Len(s)
      /\ \A i \in 1..Len(s) : s[i] \in Hashes
      /\ \A i, j \in 1..Len(s) : s[i] = s[j] => i = j
      /\ DOMAIN s = 1..Len(s)
  BY LineFacts
<1>2. a \in Seq(Hashes) /\ Len(a) = n /\ \A i \in 1..n : a[i] = s[i]
  <2>1. \A i \in 1..n : s[i] \in Hashes
    BY <1>1
  <2>2. /\ a \in Seq(Hashes) /\ Len(a) = IF 1 <= n THEN n - 1 + 1 ELSE 0
        /\ \A i \in 1..(n - 1 + 1) : a[i] = s[1 + i - 1]
    BY <1>1, <2>1, SubSeqProperties
  <2>3. QED
    BY <1>1, <2>2
<1>3. b \in Seq(Hashes) /\ Len(b) = Len(s) - n /\ \A i \in 1..(Len(s) - n) : b[i] = s[n + i]
  <2>1. \A i \in (n + 1)..Len(s) : s[i] \in Hashes
    BY <1>1
  <2>2. n + 1 \in Int /\ Len(s) \in Int
    BY <1>1
  <2>3. /\ b \in Seq(Hashes) /\ Len(b) = IF n + 1 <= Len(s) THEN Len(s) - (n + 1) + 1 ELSE 0
        /\ \A i \in 1..(Len(s) - (n + 1) + 1) : b[i] = s[n + 1 + i - 1]
    BY <2>1, <2>2, SubSeqProperties
  <2>4. QED
    BY <1>1, <2>3
<1>4. DOMAIN a = 1..n /\ DOMAIN b = 1..(Len(s) - n)
  BY <1>2, <1>3, LenProperties
<1> HIDE DEF a, b
<1>5. IsInjective(a) /\ IsInjective(b)
  <2>1. \A i, j \in 1..n : a[i] = a[j] => i = j
    BY <1>1, <1>2
  <2>2. \A i, j \in 1..(Len(s) - n) : b[i] = b[j] => n + i = n + j
    BY <1>1, <1>3
  <2>3. \A i, j \in 1..(Len(s) - n) : b[i] = b[j] => i = j
    BY <1>1, <2>2
  <2>4. QED
    BY <1>4, <2>1, <2>3 DEF IsInjective
<1>6. \A x : x \in In(a) <=> \E i \in 1..n : x = s[i]
  BY <1>2, <1>4 DEF In
<1>7. \A x : x \in In(b) <=> \E i \in (n + 1)..Len(s) : x = s[i]
  <2>1. \A i \in 1..(Len(s) - n) : n + i \in (n + 1)..Len(s)
    BY <1>1
  <2>2. \A i \in (n + 1)..Len(s) : i - n \in 1..(Len(s) - n) /\ n + (i - n) = i
    BY <1>1
  <2>3. ASSUME NEW x, x \in In(b) PROVE \E i \in (n + 1)..Len(s) : x = s[i]
    BY <1>3, <1>4, <2>1, <2>3 DEF In
  <2>4. ASSUME NEW i \in (n + 1)..Len(s) PROVE s[i] \in In(b)
    <3>1. b[i - n] = s[i] /\ i - n \in DOMAIN b
      BY <1>3, <1>4, <2>2
    <3>2. QED
      BY <3>1 DEF In
  <2>5. QED
    BY <2>3, <2>4
<1>8. \A x : x \in In(s) <=> \E i \in 1..Len(s) : x = s[i]
  BY <1>1 DEF In
<1>9. \A i \in 1..Len(s) : i \in 1..n \/ i \in (n + 1)..Len(s)
  BY <1>1
<1>10. (\A i \in 1..n : i \in 1..Len(s)) /\ \A i \in (n + 1)..Len(s) : i \in 1..Len(s) /\ i \notin 1..n
  BY <1>1
<1>11. In(s) = In(a) \union In(b)
  BY <1>6, <1>7, <1>8, <1>9, <1>10
<1>12. In(a) \intersect In(b) = {}
  BY <1>1, <1>6, <1>7, <1>10
<1>13. QED
  BY <1>2, <1>3, <1>5, <1>11, <1>12 DEF Line, a, b

LEMMA AppendFacts ==
  ASSUME NEW s \in Line, NEW h \in Hashes, h \notin In(s)
  PROVE  /\ Append(s, h) \in Line /\ Len(Append(s, h)) = Len(s) + 1
         /\ In(Append(s, h)) = In(s) \union {h}
<1> DEFINE t == Append(s, h)
<1>1. /\ s \in Seq(Hashes) /\ Len(s) \in Nat /\ DOMAIN s = 1..Len(s)
      /\ \A i, j \in 1..Len(s) : s[i] = s[j] => i = j
  BY LineFacts
<1>2. /\ t \in Seq(Hashes) /\ Len(t) = Len(s) + 1
      /\ \A i \in 1..Len(s) : t[i] = s[i] /\ t[Len(s) + 1] = h
  BY <1>1, AppendProperties
<1>3. DOMAIN t = 1..(Len(s) + 1) /\ t[Len(s) + 1] = h
  BY <1>1, <1>2, LenProperties, AppendProperties
<1> HIDE DEF t
<1>4. \A i \in 1..(Len(s) + 1) : i \in 1..Len(s) \/ i = Len(s) + 1
  BY <1>1
<1>5. \A i \in 1..Len(s) : t[i] = s[i] /\ t[i] # h
  BY <1>1, <1>2 DEF In
<1>6. IsInjective(t)
  BY <1>1, <1>3, <1>4, <1>5 DEF IsInjective
<1>7. \A i \in 1..Len(s) : i \in 1..(Len(s) + 1)
  BY <1>1
<1>8. In(t) = In(s) \union {h}
  <2>1. \A x \in In(t) : x \in In(s) \union {h}
    BY <1>1, <1>3, <1>4, <1>5 DEF In
  <2>2. \A x \in In(s) : x \in In(t)
    BY <1>1, <1>3, <1>5, <1>7 DEF In
  <2>3. Len(s) + 1 \in 1..(Len(s) + 1)
    BY <1>1
  <2>4. h \in In(t)
    BY <1>3, <2>3 DEF In
  <2>5. QED
    BY <2>1, <2>2, <2>4
<1>9. QED
  BY <1>2, <1>6, <1>8 DEF Line, t

(* removeOne() takes out the hash when it is there.                         *)
LEMMA RemovedFacts ==
  ASSUME NEW s \in Line, NEW h \in Hashes
  PROVE  /\ RemoveFirst(s, h) \in Line /\ In(RemoveFirst(s, h)) = In(s) \ {h}
         /\ Len(RemoveFirst(s, h)) <= Len(s)
<1>1. /\ s \in Seq(Hashes) /\ Len(s) \in Nat /\ DOMAIN s = 1..Len(s)
      /\ \A i \in 1..Len(s) : s[i] \in Hashes
      /\ \A i, j \in 1..Len(s) : s[i] = s[j] => i = j
  BY LineFacts
<1>2. CASE h \notin In(s)
  <2>1. ~ \E i \in 1..Len(s) : s[i] = h
    BY <1>1, <1>2 DEF In
  <2>2. RemoveFirst(s, h) = s
    BY <2>1 DEF RemoveFirst
  <2>3. QED
    BY <1>1, <1>2, <2>2
<1>3. CASE h \in In(s)
  <2>1. PICK k \in 1..Len(s) : s[k] = h
    BY <1>1, <1>3 DEF In
  <2>2. SelectInSeq(s, LAMBDA v : v = h) = k
    <3>1. {i \in 1..Len(s) : s[i] = h} = {k}
      BY <1>1, <2>1
    <3>2. Min({k}) = k
      BY <2>1 DEF Min
    <3>3. QED
      BY <3>1, <3>2 DEF SelectInSeq
  <2>3. RemoveFirst(s, h) = RemoveAt(s, k)
    BY <2>1, <2>2 DEF RemoveFirst
  <2> DEFINE a == SubSeq(s, 1, k - 1)
             b == SubSeq(s, k + 1, Len(s))
             t == a \o b
  <2>4. RemoveFirst(s, h) = t
    BY <2>3 DEF RemoveAt
  <2>5. k - 1 \in 0..Len(s) /\ k \in 0..Len(s) /\ k \in Nat /\ k <= Len(s) /\ k >= 1
    BY <1>1, <2>1
  <2>6. /\ a \in Line /\ Len(a) = k - 1
        /\ In(s) = In(a) \union In(SubSeq(s, k - 1 + 1, Len(s))) /\ In(a) \intersect In(SubSeq(s, k - 1 + 1, Len(s))) = {}
    BY <2>5, SplitFacts
  <2>7. b \in Line /\ Len(b) = Len(s) - k
    BY <2>5, SplitFacts
  <2>8. \A i \in 1..(k - 1) : a[i] = s[i]
    <3>1. \A i \in 1..(k - 1) : s[i] \in Hashes
      BY <1>1, <2>5
    <3>2. \A i \in 1..(k - 1 - 1 + 1) : a[i] = s[1 + i - 1]
      BY <2>5, <3>1, SubSeqProperties
    <3>3. QED
      BY <2>5, <3>2
  <2>9. \A i \in 1..(Len(s) - k) : b[i] = s[k + i]
    <3>1. \A i \in (k + 1)..Len(s) : s[i] \in Hashes
      BY <1>1, <2>5
    <3>2. \A i \in 1..(Len(s) - (k + 1) + 1) : b[i] = s[k + 1 + i - 1]
      BY <1>1, <2>5, <3>1, SubSeqProperties
    <3>3. QED
      BY <1>1, <2>5, <3>2
  <2>10. a \in Seq(Hashes) /\ b \in Seq(Hashes)
    BY <2>6, <2>7, LineFacts
  <2> HIDE DEF a, b
  <2>11. /\ t \in Seq(Hashes) /\ Len(t) = Len(s) - 1
         /\ \A i \in 1..(Len(s) - 1) : t[i] = IF i < k THEN s[i] ELSE s[i + 1]
    <3>1. /\ t \in Seq(Hashes) /\ Len(t) = Len(a) + Len(b)
          /\ \A i \in 1..Len(a) + Len(b) : t[i] = IF i <= Len(a) THEN a[i] ELSE b[i - Len(a)]
      BY <2>10, ConcatProperties
    <3>2. Len(a) + Len(b) = Len(s) - 1
      BY <1>1, <2>5, <2>6, <2>7
    <3>3. ASSUME NEW i \in 1..(Len(s) - 1) PROVE t[i] = IF i < k THEN s[i] ELSE s[i + 1]
      <4>1. CASE i < k
        <5>1. i \in 1..(k - 1) /\ i <= Len(a) /\ i \in 1..Len(a) + Len(b)
          BY <1>1, <2>5, <2>6, <3>2, <4>1
        <5>2. QED
          BY <2>8, <3>1, <4>1, <5>1
      <4>2. CASE ~(i < k)
        <5>1. i - (k - 1) \in 1..(Len(s) - k) /\ ~(i <= Len(a)) /\ i \in 1..Len(a) + Len(b)
              /\ k + (i - (k - 1)) = i + 1 /\ i - Len(a) = i - (k - 1)
          BY <1>1, <2>5, <2>6, <3>2, <4>2
        <5>2. t[i] = b[i - (k - 1)]
          BY <3>1, <5>1
        <5>3. b[i - (k - 1)] = s[i + 1]
          BY <2>9, <5>1
        <5>4. QED
          BY <4>2, <5>2, <5>3
      <4>3. QED
        BY <4>1, <4>2
    <3>4. QED
      BY <3>1, <3>2, <3>3
  <2>12. DOMAIN t = 1..(Len(s) - 1)
    BY <2>11, LenProperties
  <2> HIDE DEF t
  <2>13. IsInjective(t)
    <3>1. ASSUME NEW i \in 1..(Len(s) - 1), NEW j \in 1..(Len(s) - 1), t[i] = t[j] PROVE i = j
      <4>1. /\ i \in 1..Len(s) /\ i + 1 \in 1..Len(s) /\ j \in 1..Len(s) /\ j + 1 \in 1..Len(s)
            /\ i \in Int /\ j \in Int
        BY <1>1
      <4>2. (IF i < k THEN i ELSE i + 1) = (IF j < k THEN j ELSE j + 1)
        BY <1>1, <2>11, <3>1, <4>1
      <4>3. QED
        BY <2>5, <4>1, <4>2
    <3>2. QED
      BY <2>12, <3>1 DEF IsInjective
  <2>14. In(t) = In(s) \ {h}
    <3>1. ASSUME NEW i \in 1..(Len(s) - 1) PROVE t[i] \in In(s) \ {h}
      <4>1. i \in 1..Len(s) /\ i + 1 \in 1..Len(s) /\ (i < k => i # k) /\ (~(i < k) => i + 1 # k)
        BY <1>1, <2>5
      <4>2. QED
        BY <1>1, <2>1, <2>11, <4>1 DEF In
    <3>2. ASSUME NEW i \in 1..Len(s), i # k PROVE s[i] \in In(t)
      <4>1. CASE i < k
        <5>1. i \in 1..(Len(s) - 1)
          BY <1>1, <2>5, <4>1
        <5>2. QED
          BY <2>11, <2>12, <4>1, <5>1 DEF In
      <4>2. CASE ~(i < k)
        <5>1. i - 1 \in 1..(Len(s) - 1) /\ ~(i - 1 < k) /\ i - 1 + 1 = i
          BY <1>1, <2>5, <3>2, <4>2
        <5>2. t[i - 1] = s[i]
          BY <2>11, <5>1
        <5>3. QED
          BY <2>12, <5>1, <5>2 DEF In
      <4>3. QED
        BY <4>1, <4>2
    <3>3. \A x \in In(t) : x \in In(s) \ {h}
      BY <2>12, <3>1 DEF In
    <3>4. \A x \in In(s) \ {h} : x \in In(t)
      BY <1>1, <2>1, <3>2 DEF In
    <3>5. QED
      BY <3>3, <3>4
  <2>15. QED
    BY <1>1, <2>4, <2>11, <2>13, <2>14 DEF Line
<1>4. QED
  BY <1>2, <1>3

-----------------------------------------------------------------------------
(* A queue that holds a hash in one place, and one that leaves no slot idle *)
(* besides while a request waits for it.                                    *)
Queues == [running : SUBSET Hashes, interactive : Line, background : Line, quiet : SUBSET Hashes]
QueueBase(q) ==
  /\ q \in Queues /\ IsFiniteSet(q.running)
  /\ Len(q.background) <= MaxQueued
  /\ q.running \intersect In(q.interactive) = {} /\ q.running \intersect In(q.background) = {}
  /\ In(q.interactive) \intersect In(q.background) = {}
QueueOK(q) ==
  /\ QueueBase(q)
  /\ q.background # <<>> => ~HasFreeSlot(q, "background")
  /\ q.interactive # <<>> => ~HasFreeSlot(q, "interactive")

LEMMA CapacityFacts == \A p : Capacity(p) \in Nat
BY LimitsAreNat DEF Capacity

LEMMA QueueSound ==
  ASSUME NEW q, QueueOK(q)
  PROVE  QueueIsSound(q)
<1> DEFINE R == q.running
           I == In(q.interactive)
           B == In(q.background)
<1>1. /\ IsFiniteSet(R) /\ IsFiniteSet(I) /\ IsFiniteSet(B)
      /\ Cardinality(I) = Len(q.interactive) /\ Cardinality(B) = Len(q.background)
  <2>1. q.interactive \in Line /\ q.background \in Line /\ IsFiniteSet(R)
    BY DEF QueueOK, QueueBase, Queues
  <2>2. QED
    BY <2>1, LineFacts
<1>2. R \intersect I = {} /\ (R \union I) \intersect B = {}
  BY DEF QueueOK, QueueBase
<1>3. QueueOK(q)
  OBVIOUS
<1> HIDE DEF R, I, B
<1>4. Cardinality(R \intersect I) = 0 /\ Cardinality((R \union I) \intersect B) = 0
  BY <1>2, FS_EmptySet
<1>5. /\ IsFiniteSet(R \union I)
      /\ Cardinality(R \union I) = Cardinality(R) + Cardinality(I) - Cardinality(R \intersect I)
  BY <1>1, FS_Union
<1>6. Cardinality((R \union I) \union B)
        = Cardinality(R \union I) + Cardinality(B) - Cardinality((R \union I) \intersect B)
  BY <1>1, <1>5, FS_Union
<1>7. Cardinality(R) \in Nat /\ Cardinality(I) \in Nat /\ Cardinality(B) \in Nat
  BY <1>1, FS_CardinalityType
<1>8. Cardinality(R \union I \union B) = Cardinality(R) + Len(q.interactive) + Len(q.background)
  BY <1>1, <1>4, <1>5, <1>6, <1>7
<1>9. QED
  BY <1>3, <1>8 DEF QueueOK, QueueBase, QueueIsSound, R, I, B

(* With more running there is no more room.                                 *)
LEMMA RoomShrinks ==
  ASSUME NEW q, NEW g, IsFiniteSet(g.running), q.running \subseteq g.running, NEW p, ~HasFreeSlot(q, p)
  PROVE  ~HasFreeSlot(g, p)
<1>1. IsFiniteSet(q.running) /\ Cardinality(q.running) <= Cardinality(g.running)
  BY FS_Subset
<1>2. Cardinality(q.running) \in Nat /\ Cardinality(g.running) \in Nat
  BY <1>1, FS_CardinalityType
<1>3. QED
  BY <1>1, <1>2, CapacityFacts DEF HasFreeSlot

LEMMA BoundedFacts ==
  ASSUME NEW s \in Line
  PROVE  Bounded(s) \in Line /\ Len(Bounded(s)) <= MaxQueued /\ In(Bounded(s)) \subseteq In(s)
<1> DEFINE n == IF Len(s) > MaxQueued THEN Len(s) - MaxQueued ELSE 0
<1>1. Len(s) \in Nat /\ MaxQueued \in Nat
  BY LineFacts, LimitsAreNat
<1>2. n \in 0..Len(s) /\ Len(s) - n <= MaxQueued /\ n \in Nat
  BY <1>1
<1> HIDE DEF n
<1>3. /\ SubSeq(s, n + 1, Len(s)) \in Line /\ Len(SubSeq(s, n + 1, Len(s))) = Len(s) - n
      /\ In(SubSeq(s, n + 1, Len(s))) \subseteq In(s)
  BY <1>2, SplitFacts
<1>4. n + 1 = 1 + n
  BY <1>2
<1>5. Bounded(s) = SubSeq(s, n + 1, Len(s))
  BY <1>4 DEF Bounded, n
<1>6. QED
  BY <1>2, <1>3, <1>5

(* submit() keeps a queue sound, and takes no slot from anybody.            *)
LEMMA SubmittedFacts ==
  ASSUME NEW q, QueueOK(q), NEW h \in Hashes, NEW p \in Priorities
  PROVE  QueueOK(Submitted(q, h, p)) /\ q.running \subseteq Submitted(q, h, p).running
<1> DEFINE g == Submitted(q, h, p)
           promoted == IF p = "interactive" THEN [q EXCEPT !.background = RemoveFirst(@, h)] ELSE q
<1>1. /\ q \in Queues /\ IsFiniteSet(q.running) /\ q.interactive \in Line /\ q.background \in Line
      /\ q.running \subseteq Hashes
  BY DEF QueueOK, QueueBase, Queues
<1>2. /\ promoted \in Queues /\ promoted.running = q.running /\ promoted.interactive = q.interactive
      /\ promoted.quiet = q.quiet
      /\ In(promoted.background) \subseteq In(q.background)
      /\ p = "interactive" => h \notin In(promoted.background)
      /\ p # "interactive" => promoted = q
      /\ Len(promoted.background) <= Len(q.background)
  <2>1. CASE p = "interactive"
    <3>1. /\ RemoveFirst(q.background, h) \in Line /\ In(RemoveFirst(q.background, h)) = In(q.background) \ {h}
          /\ Len(RemoveFirst(q.background, h)) <= Len(q.background)
      BY <1>1, RemovedFacts
    <3>2. QED
      BY <1>1, <2>1, <3>1 DEF Queues
  <2>2. CASE p # "interactive"
    BY <1>1, <2>2, LineFacts
  <2>3. QED
    BY <2>1, <2>2
<1>3. promoted.background \in Line /\ promoted.interactive \in Line
  BY <1>2 DEF Queues
<1>4. promoted.background # <<>> => q.background # <<>>
  BY <1>1, <1>2, <1>3, LineFacts
<1>5. QueueBase(promoted)
  <2>1. Len(promoted.background) <= MaxQueued
    BY <1>1, <1>2, <1>3, LineFacts, LimitsAreNat DEF QueueOK, QueueBase
  <2>2. QED
    BY <1>1, <1>2, <2>1 DEF QueueOK, QueueBase
<1>6. g = CASE Outcome(q, h, p) = "started" -> [promoted EXCEPT !.running = @ \union {h}]
            [] Outcome(q, h, p) = "append" /\ p = "interactive" -> [promoted EXCEPT !.interactive = Append(@, h)]
            [] Outcome(q, h, p) = "append" /\ p = "background" ->
                 [promoted EXCEPT !.background = Bounded(Append(@, h))]
            [] OTHER -> q
  BY DEF Submitted
<1> HIDE DEF g, promoted
<1>7. CASE Outcome(q, h, p) = "started"
  <2>1. h \notin In(q.interactive) /\ (p = "background" => h \notin In(q.background))
    BY <1>7 DEF Outcome
  <2>2. h \notin In(promoted.background)
    BY <1>2, <2>1 DEF Priorities
  <2>3. g = [promoted EXCEPT !.running = @ \union {h}]
    BY <1>6, <1>7
  <2>4. /\ g \in Queues /\ g.running = q.running \union {h} /\ g.interactive = q.interactive
        /\ g.background = promoted.background
    BY <1>2, <2>3 DEF Queues
  <2>5. IsFiniteSet(g.running) /\ q.running \subseteq g.running
    BY <1>1, <2>4, FS_AddElement
  <2>6. QueueBase(g)
    BY <1>2, <1>5, <2>1, <2>2, <2>4, <2>5 DEF QueueBase
  <2>7. /\ g.background # <<>> => ~HasFreeSlot(g, "background")
        /\ g.interactive # <<>> => ~HasFreeSlot(g, "interactive")
    BY <1>4, <2>4, <2>5, RoomShrinks DEF QueueOK
  <2>8. QED
    BY <2>5, <2>6, <2>7 DEF QueueOK, g
<1>8. CASE Outcome(q, h, p) = "append" /\ p = "interactive"
  <2>1. h \notin q.running /\ h \notin In(q.interactive) /\ ~HasFreeSlot(q, "interactive")
    BY <1>8 DEF Outcome
  <2>2. Append(q.interactive, h) \in Line /\ In(Append(q.interactive, h)) = In(q.interactive) \union {h}
    BY <1>1, <2>1, AppendFacts
  <2>3. g = [promoted EXCEPT !.interactive = Append(@, h)]
    BY <1>6, <1>8
  <2>4. /\ g \in Queues /\ g.running = q.running /\ g.interactive = Append(q.interactive, h)
        /\ g.background = promoted.background
    BY <1>2, <2>2, <2>3 DEF Queues
  <2>5. QueueBase(g)
    BY <1>2, <1>5, <1>8, <2>1, <2>2, <2>4 DEF QueueBase
  <2>6. \A pr : HasFreeSlot(g, pr) <=> HasFreeSlot(q, pr)
    BY <2>4 DEF HasFreeSlot
  <2>7. QED
    BY <1>4, <2>1, <2>4, <2>5, <2>6 DEF QueueOK, g
<1>9. CASE Outcome(q, h, p) = "append" /\ p = "background"
  <2>1. /\ h \notin q.running /\ h \notin In(q.interactive) /\ h \notin In(q.background)
        /\ ~HasFreeSlot(q, "background")
    BY <1>9 DEF Outcome
  <2>2. Append(q.background, h) \in Line /\ In(Append(q.background, h)) = In(q.background) \union {h}
    BY <1>1, <2>1, AppendFacts
  <2> DEFINE b == Bounded(Append(q.background, h))
  <2>3. b \in Line /\ Len(b) <= MaxQueued /\ In(b) \subseteq In(q.background) \union {h}
    BY <2>2, BoundedFacts
  <2>4. promoted = q
    BY <1>2, <1>9
  <2>5. g = [q EXCEPT !.background = b]
    BY <1>6, <1>9, <2>4
  <2> HIDE DEF b
  <2>6. g \in Queues /\ g.running = q.running /\ g.interactive = q.interactive /\ g.background = b
    BY <1>1, <2>3, <2>5 DEF Queues
  <2>7. QueueBase(g)
    BY <1>1, <2>1, <2>3, <2>6 DEF QueueOK, QueueBase
  <2>8. \A pr : HasFreeSlot(g, pr) <=> HasFreeSlot(q, pr)
    BY <2>6 DEF HasFreeSlot
  <2>9. QED
    BY <2>1, <2>6, <2>7, <2>8 DEF QueueOK, g
<1>10. CASE Outcome(q, h, p) \notin {"started", "append"}
  BY <1>6, <1>10 DEF g
<1>11. QED
  BY <1>7, <1>8, <1>9, <1>10 DEF Priorities

(* How many of a line take the slots that are left.                         *)
Turns(q, p, s) == IF Free(q, p) < Len(s) THEN Free(q, p) ELSE Len(s)

(* Handing slots to a line fills them, or empties the line.                 *)
LEMMA TurnFacts ==
  ASSUME NEW q, IsFiniteSet(q.running), NEW s \in Line, q.running \intersect In(s) = {}, NEW p,
         NEW n, n = Turns(q, p, s), NEW g, g.running = q.running \union In(SubSeq(s, 1, n))
  PROVE  /\ n \in 0..Len(s) /\ IsFiniteSet(g.running)
         /\ SubSeq(s, n + 1, Len(s)) # <<>> => ~HasFreeSlot(g, p)
<1>1. Len(s) \in Nat /\ Capacity(p) \in Nat /\ Cardinality(q.running) \in Nat
  BY LineFacts, CapacityFacts, FS_CardinalityType
<1>2. Free(q, p) \in Nat /\ Free(q, p) >= Capacity(p) - Cardinality(q.running)
  BY <1>1 DEF Free
<1>3. n \in 0..Len(s) /\ n \in Nat /\ (n = Free(q, p) \/ n = Len(s))
  BY <1>1, <1>2 DEF Turns
<1> DEFINE a == SubSeq(s, 1, n)
           b == SubSeq(s, n + 1, Len(s))
<1>4. /\ a \in Line /\ Len(a) = n /\ b \in Line /\ Len(b) = Len(s) - n
      /\ In(a) \subseteq In(s)
  BY <1>3, SplitFacts
<1>5. IsFiniteSet(In(a)) /\ Cardinality(In(a)) = n
  BY <1>4, LineFacts
<1>6. b # <<>> => n = Free(q, p)
  BY <1>1, <1>3, <1>4, LineFacts
<1> HIDE DEF a, b
<1>7. q.running \intersect In(a) = {}
  BY <1>4
<1>8. Cardinality(q.running \intersect In(a)) = 0
  BY <1>7, FS_EmptySet
<1>9. /\ IsFiniteSet(q.running \union In(a))
      /\ Cardinality(q.running \union In(a)) = Cardinality(q.running) + Cardinality(In(a)) - Cardinality(q.running \intersect In(a))
  BY <1>5, FS_Union
<1>10. g.running = q.running \union In(a)
  BY DEF a
<1>11. IsFiniteSet(g.running) /\ Cardinality(g.running) = Cardinality(q.running) + n
  <2>1. IsFiniteSet(g.running)
    BY <1>9, <1>10
  <2>2. Cardinality(g.running) = Cardinality(q.running) + n - 0
    BY <1>5, <1>8, <1>9, <1>10
  <2>3. QED
    BY <1>1, <1>3, <2>1, <2>2
<1>12. b # <<>> => ~(Cardinality(g.running) < Capacity(p))
  BY <1>1, <1>2, <1>3, <1>6, <1>11
<1>13. QED
  BY <1>3, <1>11, <1>12 DEF HasFreeSlot, b

LEMMA QueueWith ==
  ASSUME NEW q \in Queues, NEW A \in SUBSET Hashes, NEW s \in Line
  PROVE  /\ [q EXCEPT !.running = A, !["interactive"] = s] \in Queues
         /\ [q EXCEPT !.running = A, !["background"] = s] \in Queues
<1>1. [q EXCEPT !.running = A, !["interactive"] = s] \in Queues
  BY DEF Queues
<1>2. [q EXCEPT !.running = A, !["background"] = s] \in Queues
  BY DEF Queues
<1>3. QED
  BY <1>1, <1>2

LEMMA HandedFields ==
  ASSUME NEW q \in Queues
  PROVE  /\ LET g == Handed(q, "interactive", "interactive")
                s == q.interactive
                n == Turns(q, "interactive", s)
            IN  /\ g.running = q.running \union In(SubSeq(s, 1, n))
                /\ g.interactive = SubSeq(s, n + 1, Len(s))
                /\ g.background = q.background /\ g.quiet = q.quiet
                /\ In(SubSeq(s, 1, n)) \subseteq Hashes /\ SubSeq(s, n + 1, Len(s)) \in Line => g \in Queues
         /\ LET g == Handed(q, "background", "background")
                s == q.background
                n == Turns(q, "background", s)
            IN  /\ g.running = q.running \union In(SubSeq(s, 1, n))
                /\ g.background = SubSeq(s, n + 1, Len(s))
                /\ g.interactive = q.interactive /\ g.quiet = q.quiet
                /\ In(SubSeq(s, 1, n)) \subseteq Hashes /\ SubSeq(s, n + 1, Len(s)) \in Line => g \in Queues
<1> USE DEF Handed, Turns
<1>1. q = [running |-> q.running, interactive |-> q.interactive, background |-> q.background, quiet |-> q.quiet]
  BY DEF Queues
<1>2. Handed(q, "interactive", "interactive").running
        = q.running \union In(SubSeq(q.interactive, 1, Turns(q, "interactive", q.interactive)))
  BY DEF Queues
<1>3. Handed(q, "interactive", "interactive").interactive
        = SubSeq(q.interactive, Turns(q, "interactive", q.interactive) + 1, Len(q.interactive))
  BY DEF Queues
<1>4. /\ Handed(q, "interactive", "interactive").background = q.background
      /\ Handed(q, "interactive", "interactive").quiet = q.quiet
  BY DEF Queues
<1>5. Handed(q, "background", "background").running
        = q.running \union In(SubSeq(q.background, 1, Turns(q, "background", q.background)))
  BY DEF Queues
<1>6. Handed(q, "background", "background").background
        = SubSeq(q.background, Turns(q, "background", q.background) + 1, Len(q.background))
  BY DEF Queues
<1>7. /\ Handed(q, "background", "background").interactive = q.interactive
      /\ Handed(q, "background", "background").quiet = q.quiet
  BY DEF Queues
<1>8. LET s == q.interactive
          n == Turns(q, "interactive", s)
      IN  In(SubSeq(s, 1, n)) \subseteq Hashes /\ SubSeq(s, n + 1, Len(s)) \in Line
            => Handed(q, "interactive", "interactive") \in Queues
  <2> DEFINE s == q.interactive
             n == Turns(q, "interactive", s)
  <2> SUFFICES ASSUME In(SubSeq(s, 1, n)) \subseteq Hashes, SubSeq(s, n + 1, Len(s)) \in Line
               PROVE  Handed(q, "interactive", "interactive") \in Queues
    OBVIOUS
  <2>1. Handed(q, "interactive", "interactive")
          = [q EXCEPT !.running = q.running \union In(SubSeq(s, 1, n)), !["interactive"] = SubSeq(s, n + 1, Len(s))]
    OBVIOUS
  <2> HIDE DEF Handed, Turns, n
  <2>2. q.running \union In(SubSeq(s, 1, n)) \in SUBSET Hashes
    BY DEF Queues
  <2>3. QED
    BY <2>1, <2>2, QueueWith
<1>9. LET s == q.background
          n == Turns(q, "background", s)
      IN  In(SubSeq(s, 1, n)) \subseteq Hashes /\ SubSeq(s, n + 1, Len(s)) \in Line
            => Handed(q, "background", "background") \in Queues
  <2> DEFINE s == q.background
             n == Turns(q, "background", s)
  <2> SUFFICES ASSUME In(SubSeq(s, 1, n)) \subseteq Hashes, SubSeq(s, n + 1, Len(s)) \in Line
               PROVE  Handed(q, "background", "background") \in Queues
    OBVIOUS
  <2>1. Handed(q, "background", "background")
          = [q EXCEPT !.running = q.running \union In(SubSeq(s, 1, n)), !["background"] = SubSeq(s, n + 1, Len(s))]
    OBVIOUS
  <2> HIDE DEF Handed, Turns, n
  <2>2. q.running \union In(SubSeq(s, 1, n)) \in SUBSET Hashes
    BY DEF Queues
  <2>3. QED
    BY <2>1, <2>2, QueueWith
<1> HIDE DEF Handed, Turns
<1>10. QED
  BY <1>2, <1>3, <1>4, <1>5, <1>6, <1>7, <1>8, <1>9

LEMMA HandedInteractive ==
  ASSUME NEW q, QueueBase(q)
  PROVE  LET g == Handed(q, "interactive", "interactive")
         IN  /\ QueueBase(g) /\ q.running \subseteq g.running
             /\ g.running \subseteq q.running \union In(q.interactive)
             /\ In(g.background) = In(q.background)
             /\ g.interactive # <<>> => ~HasFreeSlot(g, "interactive")
<1> DEFINE g == Handed(q, "interactive", "interactive")
           s == q.interactive
           n == Turns(q, "interactive", s)
           a == SubSeq(s, 1, n)
           b == SubSeq(s, n + 1, Len(s))
<1>1. q \in Queues /\ s \in Line /\ IsFiniteSet(q.running) /\ q.running \intersect In(s) = {}
  BY DEF QueueBase, Queues
<1>2. /\ g.running = q.running \union In(a) /\ g.interactive = b
      /\ g.background = q.background /\ g.quiet = q.quiet
      /\ In(a) \subseteq Hashes /\ b \in Line => g \in Queues
  BY <1>1, HandedFields
<1> HIDE DEF g, n
<1>3. n \in 0..Len(s) /\ IsFiniteSet(g.running) /\ (b # <<>> => ~HasFreeSlot(g, "interactive"))
  BY <1>1, <1>2, TurnFacts DEF n
<1>4. /\ a \in Line /\ b \in Line /\ In(s) = In(a) \union In(b) /\ In(a) \intersect In(b) = {}
  BY <1>1, <1>3, SplitFacts
<1>5. In(a) \subseteq Hashes
  BY <1>4, LineFacts
<1> HIDE DEF s, a, b
<1>6. g \in Queues
  BY <1>1, <1>2, <1>4, <1>5 DEF Queues
<1>7. QueueBase(g)
  BY <1>2, <1>3, <1>4, <1>6 DEF QueueBase, s
<1>8. QED
  BY <1>2, <1>3, <1>4, <1>7 DEF g, s

LEMMA HandedBackground ==
  ASSUME NEW q, QueueBase(q), q.interactive # <<>> => ~HasFreeSlot(q, "interactive")
  PROVE  LET g == Handed(q, "background", "background")
         IN  /\ QueueOK(g) /\ q.running \subseteq g.running
             /\ g.running \subseteq q.running \union In(q.background)
<1> DEFINE g == Handed(q, "background", "background")
           s == q.background
           n == Turns(q, "background", s)
           a == SubSeq(s, 1, n)
           b == SubSeq(s, n + 1, Len(s))
<1>1. q \in Queues /\ s \in Line /\ IsFiniteSet(q.running) /\ q.running \intersect In(s) = {}
      /\ Len(s) <= MaxQueued
  BY DEF QueueBase, Queues
<1>2. /\ g.running = q.running \union In(a) /\ g.background = b
      /\ g.interactive = q.interactive /\ g.quiet = q.quiet
      /\ In(a) \subseteq Hashes /\ b \in Line => g \in Queues
  BY <1>1, HandedFields
<1> HIDE DEF g, n
<1>3. n \in 0..Len(s) /\ IsFiniteSet(g.running) /\ (b # <<>> => ~HasFreeSlot(g, "background"))
  BY <1>1, <1>2, TurnFacts DEF n
<1>4. /\ a \in Line /\ b \in Line /\ Len(b) = Len(s) - n
      /\ In(s) = In(a) \union In(b) /\ In(a) \intersect In(b) = {}
  BY <1>1, <1>3, SplitFacts
<1>5. In(a) \subseteq Hashes
  BY <1>4, LineFacts
<1>6. Len(b) <= MaxQueued
  BY <1>1, <1>3, <1>4, LineFacts, LimitsAreNat
<1> HIDE DEF s, a, b
<1>7. g \in Queues
  BY <1>1, <1>2, <1>4, <1>5 DEF Queues
<1>8. QueueBase(g)
  BY <1>2, <1>3, <1>4, <1>6, <1>7 DEF QueueBase, s
<1>9. g.interactive # <<>> => ~HasFreeSlot(g, "interactive")
  BY <1>2, <1>3, RoomShrinks
<1>10. QED
  BY <1>2, <1>3, <1>4, <1>8, <1>9 DEF QueueOK, g, s

(* finish() gives back the one slot and hands on what is free.              *)
LEMMA FinishedFacts ==
  ASSUME NEW q, QueueOK(q), NEW h \in Hashes
  PROVE  /\ QueueOK(Finished(q, h))
         /\ q.running \ {h} \subseteq Finished(q, h).running
         /\ h \in q.running => h \notin Finished(q, h).running
<1> DEFINE r == [q EXCEPT !.running = @ \ {h}, !.quiet = IF h \in q.running THEN @ \union {h} ELSE @]
           f == Handed(r, "interactive", "interactive")
           g == Handed(f, "background", "background")
<1>1. q \in Queues /\ IsFiniteSet(q.running)
  BY DEF QueueOK, QueueBase
<1>2. /\ r \in Queues /\ r.running = q.running \ {h}
      /\ r.interactive = q.interactive /\ r.background = q.background
  BY <1>1 DEF Queues
<1>3. Finished(q, h) = g
  BY DEF Finished, HandedOn
<1> HIDE DEF r
<1>4. QueueBase(r)
  <2>1. IsFiniteSet(r.running)
    BY <1>1, <1>2, FS_Subset
  <2>2. QED
    BY <1>2, <2>1 DEF QueueOK, QueueBase
<1>5. /\ QueueBase(f) /\ r.running \subseteq f.running
      /\ f.running \subseteq r.running \union In(r.interactive)
      /\ In(f.background) = In(r.background)
      /\ f.interactive # <<>> => ~HasFreeSlot(f, "interactive")
  BY <1>4, HandedInteractive
<1> HIDE DEF f
<1>6. QueueOK(g) /\ f.running \subseteq g.running /\ g.running \subseteq f.running \union In(f.background)
  BY <1>5, HandedBackground
<1>7. h \in q.running => h \notin In(q.interactive) /\ h \notin In(q.background)
  BY DEF QueueOK, QueueBase
<1> HIDE DEF g
<1>8. QED
  BY <1>2, <1>3, <1>5, <1>6, <1>7

LEMMA EmptyQueueFacts == QueueOK(EmptyQueue) /\ EmptyQueue.running = {}
<1>1. <<>> \in Seq(Hashes) /\ Len(<<>>) = 0
  BY EmptySeq
<1>2. DOMAIN <<>> = {}
  OBVIOUS
<1>3. <<>> \in Line /\ In(<<>>) = {}
  BY <1>1, <1>2 DEF Line, In, IsInjective
<1>4. EmptyQueue \in Queues
  BY <1>3 DEF EmptyQueue, Queues
<1>5. QED
  BY <1>1, <1>3, <1>4, FS_EmptySet, LimitsAreNat DEF EmptyQueue, QueueOK, QueueBase

LEMMA QuietFacts ==
  ASSUME NEW q, QueueOK(q), NEW h
  PROVE  LET g == [q EXCEPT !.quiet = @ \ {h}] IN QueueOK(g) /\ g.running = q.running
<1> DEFINE g == [q EXCEPT !.quiet = @ \ {h}]
<1>1. q \in Queues
  BY DEF QueueOK, QueueBase
<1>2. /\ g \in Queues /\ g.running = q.running
      /\ g.interactive = q.interactive /\ g.background = q.background
  BY <1>1 DEF Queues
<1> HIDE DEF g
<1>3. QED
  BY <1>2 DEF QueueOK, QueueBase, HasFreeSlot, g

-----------------------------------------------------------------------------
(* The scrapers, while the service runs. A hash has a slot of the swarm's   *)
(* queue while announces of it are out or its report is on its way, never   *)
(* both, and one of the sites' while a reply of a strategy is owed: nyaa's  *)
(* by its search or by its page, not by both.                               *)
SwarmInv ==
  /\ QueueOK(swarm)
  /\ swarm.running = DOMAIN tasks \union reports /\ DOMAIN tasks \intersect reports = {}

Replies == Strategies \union {"nyaa view"}
Owed(S) == S \in SUBSET Replies /\ ~({"nyaa", "nyaa view"} \subseteq S)
SiteInv ==
  /\ QueueOK(site)
  /\ site.running = DOMAIN pendingCount /\ DOMAIN replies = DOMAIN pendingCount
  /\ \A h \in DOMAIN pendingCount : Owed(replies[h]) /\ pendingCount[h] = Cardinality(replies[h])

TrackInv == ~stopping => SwarmInv /\ SiteInv

LEMMA SlotsWork ==
  ASSUME TrackInv
  PROVE  SlotsAreWork
BY QueueSound DEF TrackInv, SwarmInv, SiteInv, SlotsAreWork

LEMMA RepliesFacts ==
  ASSUME NEW S, Owed(S)
  PROVE  /\ IsFiniteSet(S) /\ Cardinality(S) \in Nat
         /\ \A r \in S : Owed(S \ {r}) /\ Cardinality(S \ {r}) = Cardinality(S) - 1
         /\ "nyaa" \in S => /\ Owed((S \ {"nyaa"}) \union {"nyaa view"})
                            /\ Cardinality((S \ {"nyaa"}) \union {"nyaa view"}) = Cardinality(S)
<1>1. IsFiniteSet({"rutracker", "nyaa", "nyaa view"})
  <2>1. IsFiniteSet({} \union {"rutracker"})
    BY FS_EmptySet, FS_AddElement
  <2>2. IsFiniteSet(({} \union {"rutracker"}) \union {"nyaa"})
    BY <2>1, FS_AddElement
  <2>3. IsFiniteSet((({} \union {"rutracker"}) \union {"nyaa"}) \union {"nyaa view"})
    BY <2>2, FS_AddElement
  <2>4. (({} \union {"rutracker"}) \union {"nyaa"}) \union {"nyaa view"} = {"rutracker", "nyaa", "nyaa view"}
    OBVIOUS
  <2>5. QED
    BY <2>3, <2>4
<1>2. Replies = {"rutracker", "nyaa", "nyaa view"}
  BY DEF Replies, Strategies
<1>3. IsFiniteSet(S) /\ Cardinality(S) \in Nat
  BY <1>1, <1>2, FS_Subset, FS_CardinalityType DEF Owed
<1>4. \A r \in S : /\ IsFiniteSet(S \ {r}) /\ Cardinality(S \ {r}) = Cardinality(S) - 1
                   /\ Cardinality(S \ {r}) \in Nat
  BY <1>3, FS_RemoveElement, FS_CardinalityType
<1>5. \A r \in S : Owed(S \ {r})
  BY DEF Owed
<1>6. ASSUME "nyaa" \in S
      PROVE  /\ Owed((S \ {"nyaa"}) \union {"nyaa view"})
             /\ Cardinality((S \ {"nyaa"}) \union {"nyaa view"}) = Cardinality(S)
  <2>1. "nyaa view" \notin S /\ "nyaa view" \notin S \ {"nyaa"}
    BY <1>6 DEF Owed
  <2>2. Cardinality((S \ {"nyaa"}) \union {"nyaa view"}) = Cardinality(S \ {"nyaa"}) + 1
    BY <1>4, <1>6, <2>1, FS_AddElement
  <2>3. Owed((S \ {"nyaa"}) \union {"nyaa view"})
    BY DEF Owed, Replies
  <2>4. Cardinality(S \ {"nyaa"}) = Cardinality(S) - 1
    BY <1>4, <1>6
  <2>5. Cardinality((S \ {"nyaa"}) \union {"nyaa view"}) = Cardinality(S)
    <3>1. \A n \in Nat : (n - 1) + 1 = n
      OBVIOUS
    <3>2. (Cardinality(S) - 1) + 1 = Cardinality(S)
      BY <1>3, <3>1
    <3>3. QED
      BY <2>2, <2>4, <3>2, Zenon
  <2>6. QED
    BY <2>3, <2>5
<1>7. QED
  BY <1>3, <1>4, <1>5, <1>6

LEMMA CheckCountsStep ==
  ASSUME SwarmInv, NEW h \in Hashes, NEW p \in Priorities, CheckCounts(h, p)
  PROVE  SwarmInv'
<1>1. /\ swarm' = Submitted(swarm, h, p) /\ reports' = reports
      /\ tasks' = With(tasks, swarm'.running \ swarm.running, Announces)
  BY DEF CheckCounts, LaunchedSwarm
<1>2. QueueOK(swarm') /\ swarm.running \subseteq swarm'.running
  BY <1>1, SubmittedFacts DEF SwarmInv
<1>3. DOMAIN tasks' = DOMAIN tasks \union (swarm'.running \ swarm.running)
  BY <1>1 DEF With
<1>4. swarm'.running = DOMAIN tasks' \union reports' /\ DOMAIN tasks' \intersect reports' = {}
  BY <1>1, <1>2, <1>3 DEF SwarmInv
<1>5. QED
  BY <1>2, <1>4 DEF SwarmInv

LEMMA ReportStep ==
  ASSUME SwarmInv, ~stopping, NEW h \in Hashes, OnScrapeFinished(h)
  PROVE  SwarmInv'
<1>1. /\ h \in reports /\ swarm' = Finished(swarm, h) /\ reports' = reports \ {h}
      /\ tasks' = With(tasks, swarm'.running \ swarm.running, Announces)
  BY DEF OnScrapeFinished, LaunchedSwarm
<1>2. QueueOK(swarm') /\ swarm.running \ {h} \subseteq swarm'.running /\ h \notin swarm'.running
  BY <1>1, FinishedFacts DEF SwarmInv
<1>3. DOMAIN tasks' = DOMAIN tasks \union (swarm'.running \ swarm.running)
  BY <1>1 DEF With
<1>4. swarm'.running = DOMAIN tasks' \union reports' /\ DOMAIN tasks' \intersect reports' = {}
  BY <1>1, <1>2, <1>3 DEF SwarmInv
<1>5. QED
  BY <1>2, <1>4 DEF SwarmInv

LEMMA AnnounceStep ==
  ASSUME SwarmInv, NEW h \in Hashes, AnnounceEnds(h)
  PROVE  SwarmInv'
<1>1. h \in DOMAIN tasks /\ swarm' = swarm
  BY DEF AnnounceEnds
<1>2. \/ DOMAIN tasks' = DOMAIN tasks \ {h} /\ reports' = reports \union {h}
      \/ DOMAIN tasks' = DOMAIN tasks /\ reports' = reports
  BY DEF AnnounceEnds, Drop
<1>3. swarm'.running = DOMAIN tasks' \union reports' /\ DOMAIN tasks' \intersect reports' = {}
  BY <1>1, <1>2 DEF SwarmInv
<1>4. QED
  BY <1>1, <1>3 DEF SwarmInv

LEMMA CheckInfoStep ==
  ASSUME SiteInv, NEW h \in Hashes, NEW p \in Priorities, CheckInfo(h, p)
  PROVE  SiteInv'
<1> DEFINE new == site'.running \ site.running
<1>1. /\ site' = Submitted(site, h, p)
      /\ replies' = With(replies, new, Strategies)
      /\ pendingCount' = With(pendingCount, new, Cardinality(Strategies))
  BY DEF CheckInfo, LaunchedSite
<1>2. QueueOK(site') /\ site.running \subseteq site'.running
  BY <1>1, SubmittedFacts DEF SiteInv
<1>3. /\ DOMAIN pendingCount' = DOMAIN pendingCount \union new
      /\ DOMAIN replies' = DOMAIN replies \union new
      /\ \A x \in DOMAIN pendingCount' : x \in new => pendingCount'[x] = Cardinality(Strategies)
      /\ \A x \in DOMAIN pendingCount' : x \notin new => pendingCount'[x] = pendingCount[x]
      /\ \A x \in DOMAIN replies' : x \in new => replies'[x] = Strategies
      /\ \A x \in DOMAIN replies' : x \notin new => replies'[x] = replies[x]
  BY <1>1 DEF With
<1>4. site'.running = DOMAIN pendingCount' /\ DOMAIN replies' = DOMAIN pendingCount'
  BY <1>2, <1>3 DEF SiteInv
<1>5. Owed(Strategies)
  BY DEF Owed, Replies, Strategies
<1>6. \A x \in DOMAIN pendingCount' : Owed(replies'[x]) /\ pendingCount'[x] = Cardinality(replies'[x])
  BY <1>3, <1>4, <1>5 DEF SiteInv
<1>7. QED
  BY <1>2, <1>4, <1>6 DEF SiteInv, Owed, Replies

LEMMA LastReplyStep ==
  ASSUME SiteInv, ~stopping, NEW h \in Hashes, h \in DOMAIN replies, LastStrategyEnds(h)
  PROVE  SiteInv'
<1> DEFINE next == site'.running \ site.running
<1>1. /\ site' = Finished(site, h) /\ h \in site.running
      /\ replies' = With(Drop(replies, h), next, Strategies)
      /\ pendingCount' = With(Drop(pendingCount, h), next, Cardinality(Strategies))
  BY DEF LastStrategyEnds, SiteInv
<1>2. QueueOK(site') /\ site.running \ {h} \subseteq site'.running /\ h \notin site'.running
  BY <1>1, FinishedFacts DEF SiteInv
<1>3. /\ DOMAIN pendingCount' = (DOMAIN pendingCount \ {h}) \union next
      /\ DOMAIN replies' = (DOMAIN replies \ {h}) \union next
      /\ \A x \in DOMAIN pendingCount' : x \in next => pendingCount'[x] = Cardinality(Strategies)
      /\ \A x \in DOMAIN pendingCount' : x \notin next => pendingCount'[x] = pendingCount[x]
      /\ \A x \in DOMAIN replies' : x \in next => replies'[x] = Strategies
      /\ \A x \in DOMAIN replies' : x \notin next => replies'[x] = replies[x]
  BY <1>1 DEF With, Drop
<1>4. site'.running = DOMAIN pendingCount' /\ DOMAIN replies' = DOMAIN pendingCount'
  BY <1>1, <1>2, <1>3 DEF SiteInv
<1>5. Owed(Strategies)
  BY DEF Owed, Replies, Strategies
<1>6. \A x \in DOMAIN pendingCount' : Owed(replies'[x]) /\ pendingCount'[x] = Cardinality(replies'[x])
  BY <1>3, <1>4, <1>5 DEF SiteInv
<1>7. QED
  BY <1>2, <1>4, <1>6 DEF SiteInv, Owed, Replies

LEMMA ReplyStep ==
  ASSUME SiteInv, NEW h \in Hashes, h \in DOMAIN replies, NEW r \in replies[h], StrategyEnds(h, r)
  PROVE  SiteInv'
<1>1. /\ site' = site
      /\ pendingCount' = [pendingCount EXCEPT ![h] = @ - 1]
      /\ replies' = [replies EXCEPT ![h] = @ \ {r}]
  BY DEF StrategyEnds
<1>2. Owed(replies[h]) /\ pendingCount[h] = Cardinality(replies[h]) /\ h \in DOMAIN pendingCount
  BY DEF SiteInv
<1>3. Owed(replies[h] \ {r}) /\ pendingCount[h] - 1 = Cardinality(replies[h] \ {r})
  BY <1>2, RepliesFacts
<1>4. \A x \in DOMAIN pendingCount' : Owed(replies'[x]) /\ pendingCount'[x] = Cardinality(replies'[x])
  BY <1>1, <1>2, <1>3 DEF SiteInv
<1>5. QED
  BY <1>1, <1>4 DEF SiteInv, Owed, Replies

LEMMA NyaaPageStep ==
  ASSUME SiteInv, NEW h \in Hashes, ScrapeNyaaViewPage(h)
  PROVE  SiteInv'
<1>1. /\ site' = site /\ pendingCount' = pendingCount /\ h \in DOMAIN replies /\ "nyaa" \in replies[h]
      /\ replies' = [replies EXCEPT ![h] = (@ \ {"nyaa"}) \union {"nyaa view"}]
  BY DEF ScrapeNyaaViewPage
<1>2. Owed(replies[h]) /\ pendingCount[h] = Cardinality(replies[h]) /\ h \in DOMAIN pendingCount
  BY <1>1 DEF SiteInv
<1>3. /\ Owed((replies[h] \ {"nyaa"}) \union {"nyaa view"})
      /\ pendingCount[h] = Cardinality((replies[h] \ {"nyaa"}) \union {"nyaa view"})
  BY <1>1, <1>2, RepliesFacts
<1>4. \A x \in DOMAIN pendingCount' : Owed(replies'[x]) /\ pendingCount'[x] = Cardinality(replies'[x])
  BY <1>1, <1>2, <1>3 DEF SiteInv
<1>5. QED
  BY <1>1, <1>4 DEF SiteInv, Owed, Replies

LEMMA TrackRests ==
  /\ SwarmInv /\ UNCHANGED <<swarm, tasks, reports>> => SwarmInv'
  /\ SiteInv /\ UNCHANGED <<site, replies, pendingCount>> => SiteInv'
BY DEF SwarmInv, SiteInv, Owed, Replies

ScrapingStep == TrackersNext \/ \E h \in Hashes, p \in Priorities : CheckCounts(h, p) \/ CheckInfo(h, p)

LEMMA TrackStep ==
  ASSUME TrackInv, ScrapingStep
  PROVE  TrackInv'
<1>1. CASE StopTrackers
  BY <1>1 DEF StopTrackers, TrackInv
<1>2. CASE SetScrapingEnabled
  BY <1>2, TrackRests DEF SetScrapingEnabled, TrackInv
<1>3. ASSUME NEW h \in Hashes, NEW p \in Priorities, CheckCounts(h, p)
      PROVE  TrackInv'
  BY <1>3, CheckCountsStep, TrackRests DEF CheckCounts, TrackInv
<1>4. ASSUME NEW h \in Hashes, NEW p \in Priorities, CheckInfo(h, p)
      PROVE  TrackInv'
  BY <1>4, CheckInfoStep, TrackRests DEF CheckInfo, TrackInv
<1>5. ASSUME NEW h \in Hashes, AnnounceEnds(h)
      PROVE  TrackInv'
  BY <1>5, AnnounceStep, TrackRests DEF AnnounceEnds, TrackInv
<1>6. ASSUME NEW h \in Hashes, OnScrapeFinished(h)
      PROVE  TrackInv'
  BY <1>6, ReportStep, TrackRests DEF OnScrapeFinished, TrackInv
<1>7. ASSUME NEW h \in Hashes, ScrapeNyaaViewPage(h)
      PROVE  TrackInv'
  BY <1>7, NyaaPageStep, TrackRests DEF ScrapeNyaaViewPage, TrackInv
<1>8. ASSUME NEW h \in Hashes, NEW r \in Replies, OnReply(h, r)
      PROVE  TrackInv'
  <2>1. /\ h \in DOMAIN replies /\ r \in replies[h] /\ UNCHANGED <<stopping, swarm, tasks, reports>>
        /\ StrategyEnds(h, r) \/ LastStrategyEnds(h)
    BY <1>8 DEF OnReply
  <2>2. QED
    BY <2>1, ReplyStep, LastReplyStep, TrackRests DEF TrackInv
<1>9. ASSUME NEW h \in Hashes, QuietEnds(h)
      PROVE  TrackInv'
  <2>1. /\ swarm' = [swarm EXCEPT !.quiet = @ \ {h}] /\ site' = [site EXCEPT !.quiet = @ \ {h}]
        /\ UNCHANGED <<stopping, tasks, reports, replies, pendingCount>>
    BY <1>9 DEF QuietEnds
  <2>2. SwarmInv => SwarmInv'
    <3>1. ASSUME QueueOK(swarm) PROVE QueueOK(swarm') /\ swarm'.running = swarm.running
      BY <2>1, <3>1, QuietFacts
    <3>2. QED
      BY <2>1, <3>1 DEF SwarmInv
  <2>3. SiteInv => SiteInv'
    <3>1. ASSUME QueueOK(site) PROVE QueueOK(site') /\ site'.running = site.running
      BY <2>1, <3>1, QuietFacts
    <3>2. QED
      BY <2>1, <3>1 DEF SiteInv, Owed, Replies
  <2>4. QED
    BY <2>1, <2>2, <2>3 DEF TrackInv
<1>10. QED
  BY <1>1, <1>2, <1>3, <1>4, <1>5, <1>6, <1>7, <1>8, <1>9
     DEF ScrapingStep, TrackersNext, SwarmWorks, SiteWorks, Replies

-----------------------------------------------------------------------------
(* Everything together: each part keeps its own invariant, and the index    *)
(* keeps its rows whichever part writes them.                               *)
DiscoveryInv == IndexInv /\ VoteInv /\ CrawlInv /\ TrackInv

LEMMA DiscoveryBegins == Init => DiscoveryInv
<1> SUFFICES ASSUME Init PROVE DiscoveryInv
  OBVIOUS
<1>1. IndexInit /\ VotingInit /\ CrawlInit /\ TrackersInit
  BY DEF Init, VotingInit
<1>2. IndexInv
  <2>1. /\ torrents = [i \in {} |-> NoRow] /\ refused \in BOOLEAN /\ reading = Idle /\ batch = NoBatch
        /\ seen = [x \in Threads |-> {}]
    BY <1>1 DEF IndexInit
  <2>2. TableOK(torrents) /\ SeenOK
    BY <2>1 DEF TableOK, SeenOK
  <2>3. MainInv
    BY <2>1, IdleFacts DEF MainInv, MaySpoil
  <2>4. BatchInv
    <3>1. batch.phase = "none" /\ batch.incoming = {} /\ batch.found = {} /\ batch.work = Idle
      BY <2>1 DEF NoBatch
    <3>2. QED
      BY <2>1, <3>1, IdleFacts DEF BatchInv, MaySpoil
  <2>5. QED
    BY <2>1, <2>2, <2>3, <2>4 DEF IndexInv
<1>3. VoteInv
  <2>1. /\ session = 1 /\ storage = FALSE /\ callback = FALSE /\ records = {} /\ announced = {}
        /\ selfVoted = {} /\ unstored = {} /\ mine = [h \in Hashes |-> 0] /\ reading.op # "vote"
    BY <1>1, IdleFacts DEF VotingInit, IndexInit
  <2>2. VotesCountOnce
    <3>1. \A h \in Hashes : {s \in 1..MaxSessions : <<h, s>> \in unstored} = {}
      BY <2>1
    <3>2. QED
      BY <2>1, <3>1, FS_EmptySet DEF VotesCountOnce, Has
  <2>3. 1 \in 1..MaxSessions
    BY VotersAreOthers
  <2>4. mine \in [Hashes -> Nat]
    BY <2>1
  <2>5. QED
    BY <2>1, <2>2, <2>3, <2>4, FS_EmptySet DEF VoteInv
<1>4. CrawlInv
  <2>1. /\ crawling = FALSE /\ stops = 0 /\ announces = {} /\ recent = {} /\ queue = <<>>
        /\ activeFetches = 0 /\ fetching = [h \in Hashes |-> 0] /\ arrived = {} /\ lost = {}
    BY <1>1 DEF CrawlInit
  <2>2. UnderWay = {}
    BY <2>1, UnderWayIs
  <2>3. InFlight = 0 /\ IsFiniteSet(UnderWay) /\ IsFiniteSet(recent) /\ Cardinality(recent) = 0
    BY <2>1, <2>2, FS_EmptySet DEF InFlight
  <2>4. fetching \in [Hashes -> Nat] /\ queue \in Seq(Hashes)
    BY <2>1, EmptySeq
  <2>5. MaxFetches * stops \in Nat
    BY <2>1, CrawlLimits, LimitFacts
  <2>6. InFlight - activeFetches <= MaxFetches * stops
    BY <2>1, <2>3, <2>5
  <2>7. stops \in 0..MaxStops /\ 0 <= MaxRecent /\ 0 <= MaxFetches
    BY <2>1, CrawlLimits
  <2>8. activeFetches \in Int /\ activeFetches <= MaxFetches /\ activeFetches <= InFlight /\ activeFetches = InFlight
    BY <2>1, <2>3, <2>7
  <2>9. QED
    BY <2>1, <2>3, <2>4, <2>6, <2>7, <2>8 DEF CrawlInv
<1>5. TrackInv
  <2>1. /\ swarm = EmptyQueue /\ site = EmptyQueue /\ DOMAIN tasks = {} /\ reports = {}
        /\ DOMAIN replies = {} /\ DOMAIN pendingCount = {}
    BY <1>1 DEF TrackersInit
  <2>2. QED
    BY <2>1, EmptyQueueFacts DEF TrackInv, SwarmInv, SiteInv
<1>6. QED
  BY <1>2, <1>3, <1>4, <1>5 DEF DiscoveryInv

LEMMA TrackersRest ==
  ASSUME TrackInv, UNCHANGED trackerVars
  PROVE  TrackInv'
BY TrackRests DEF TrackInv, trackerVars

LEMMA CrawlerRests ==
  ASSUME CrawlInv, UNCHANGED crawlVars
  PROVE  CrawlInv'
BY CrawlRests DEF crawlVars, CrawlInv

LEMMA DiscoveryStep ==
  ASSUME DiscoveryInv, [Next]_vars
  PROVE  DiscoveryInv' /\ TakenUnseen
<1>0. IndexInv /\ VoteInv /\ CrawlInv /\ TrackInv
  BY DEF DiscoveryInv
<1>1. CASE Indexing
  <2>1. IndexNext /\ UNCHANGED votingVars /\ UNCHANGED crawlVars /\ UNCHANGED trackerVars
    BY <1>1 DEF Indexing
  <2>2. QED
    BY <1>0, <2>1, IndexStep, NoVoteIsRead, VotesAlone, CrawlerRests, TrackersRest DEF DiscoveryInv
<1>2. CASE VotesAndImports
  <2>1. UNCHANGED crawlVars /\ UNCHANGED trackerVars
    BY <1>2 DEF VotesAndImports
  <2>2. CASE VotingNext
    BY <1>0, <2>1, <2>2, VotingStep, CrawlerRests, TrackersRest DEF DiscoveryInv
  <2>3. CASE ImportMoves /\ UNCHANGED votingVars
    <3>1. IndexNext
      BY <2>3 DEF IndexNext
    <3>2. QED
      BY <1>0, <2>1, <2>3, <3>1, IndexStep, NoVoteIsRead, VotesAlone, CrawlerRests, TrackersRest DEF DiscoveryInv
  <2>4. QED
    BY <1>2, <2>2, <2>3 DEF VotesAndImports
<1>3. CASE Crawling
  <2>1. CrawlNext /\ UNCHANGED votingVars /\ UNCHANGED trackerVars
    BY <1>3 DEF Crawling
  <2>2. QED
    BY <1>0, <2>1, CrawlStep, NoVoteIsCrawled, VotesAlone, TrackersRest DEF DiscoveryInv
<1>4. CASE Scraping
  <2>1. ScrapingStep /\ UNCHANGED indexVars /\ UNCHANGED votingVars /\ UNCHANGED crawlVars
    BY <1>4 DEF Scraping, ScrapingStep, Request
  <2>2. QED
    BY <1>0, <2>1, IndexRests, TrackStep, VotesAlone, CrawlerRests DEF DiscoveryInv
<1>5. CASE UNCHANGED vars
  <2>1. UNCHANGED indexVars /\ UNCHANGED votingVars /\ UNCHANGED crawlVars /\ UNCHANGED trackerVars
    BY <1>5 DEF vars
  <2>2. QED
    BY <1>0, <2>1, IndexRests, VotesAlone, CrawlerRests, TrackersRest DEF DiscoveryInv
<1>6. QED
  BY <1>1, <1>2, <1>3, <1>4, <1>5 DEF Next

(* However the import, the inserts, the votes, the crawler and the scrapers *)
(* interleave, the inductive invariant holds: rows under the id of their    *)
(* hash, a count for each vote, a slot for each fetch and for each scrape.  *)
THEOREM DiscoveryInvariant == Spec => []DiscoveryInv
<1>1. DiscoveryInv /\ [Next]_vars => DiscoveryInv'
  BY DiscoveryStep
<1>2. QED
  BY DiscoveryBegins, <1>1, PTL DEF Spec

(* Every row, vote record, hash of the crawler and pending insert is of its *)
(* type; the crawler remembers no more hashes than MAX_RECENT_HASHES.       *)
THEOREM DiscoveryTypeCorrect == Spec => []DiscoveryTypeOK
<1>1. DiscoveryInv => DiscoveryTypeOK
  <2> SUFFICES ASSUME DiscoveryInv PROVE DiscoveryTypeOK
    OBVIOUS
  <2>1. IndexTypeOK
    <3>1. TableOK(torrents) /\ refused \in BOOLEAN /\ SeenOK /\ MainInv /\ BatchInv
      BY DEF DiscoveryInv, IndexInv
    <3>2. \A i \in DOMAIN torrents : torrents[i] \in Row /\ i \in {RowIdOf[h] : h \in Hashes} \ {0}
      BY <3>1 DEF TableOK, Row
    <3>3. QED
      BY <3>1, <3>2 DEF MainInv, TaskOK, BatchInv, SeenOK, RowIds, IndexTypeOK
  <2>2. VotingTypeOK
    BY <2>1 DEF DiscoveryInv, VoteInv, VotingTypeOK
  <2>3. CrawlTypeOK
    BY <2>1 DEF DiscoveryInv, CrawlInv, CrawlTypeOK
  <2>4. QED
    BY <2>2, <2>3 DEF DiscoveryTypeOK
<1>2. QED
  BY <1>1, DiscoveryInvariant, PTL

(* A user's vote is counted once for its record, and once for each session  *)
(* in which vote() had no store to write to, whatever imports do meanwhile. *)
THEOREM VotesAreCountedOnce == Spec => []VotesCountOnce
<1>1. DiscoveryInv => VotesCountOnce
  BY DEF DiscoveryInv, VoteInv
<1>2. QED
  BY <1>1, DiscoveryInvariant, PTL

(* No slot of the crawler or of a scrape queue is lost or held twice: the   *)
(* counts of running fetches and scrapes are those of what really runs.     *)
THEOREM SlotsStayKept == Spec => []SlotsAreKept
<1>1. DiscoveryInv => SlotsAreKept
  BY SlotsAreSound, SlotsWork DEF DiscoveryInv, SlotsAreKept
<1>2. QED
  BY <1>1, DiscoveryInvariant, PTL

(* A torrent's row is changed, overwritten or deleted for another one with  *)
(* the same row id only by a thread that has not looked at the row since    *)
(* its torrent came there, over every interleaving of the two writers.      *)
THEOREM RowsAreOnlyTakenUnseen == Spec => RowsAreTakenUnseen
<1>1. DiscoveryInv /\ [Next]_vars => [TakenUnseen]_indexVars
  BY DiscoveryStep
<1>2. QED
  BY <1>1, DiscoveryInvariant, PTL DEF Spec, RowsAreTakenUnseen, TakenUnseen
=============================================================================
