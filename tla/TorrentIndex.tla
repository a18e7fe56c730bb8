---------------------------- MODULE TorrentIndex ----------------------------
(* TorrentRepository and IndexingService: the torrents table, keyed by a row id
   derived from the info hash, and its two writers. The main
   thread inserts what the crawler, the peers and the API bring, votes, edits and
   removes; an import applies whole batches on its worker thread. Each looks a
   row up first and writes later, and nothing locks the table in between: every
   lookup and every write that trusts one is an action of its own.

   A torrent is reduced to whether it has its file list, its votes (good; bad
   goes the same way) and whether tracker info was merged into its row. The files
   table follows the row it shares an id with and is left out. *)
EXTENDS Integers, FiniteSets
CONSTANTS
    Hashes,                \* info hashes, numbers so that they are ordered
    RowIdOf,               \* rowIdFromHash(): 0 for a hash no row can have
    MaxVotes,              \* bound: votes of a torrent
    Offered                \* bound: the torrents a peer or a dump may bring
VARIABLES
    torrents,              \* the table: row id -> Row
    refused,               \* the filter settings: TRUE refuses what lacks files
    reading,               \* main thread: its task, what it looked up and for what
    batch,                 \* import thread: the batch, what getMany() found, its task
    seen                   \* history: thread -> row ids it looked at, in the course
                           \* of a write, since the present owner of the row came

indexVars == <<torrents, refused, reading, batch, seen>>
Threads == {"main", "import"}

ASSUME HashesAreNumbers == Hashes \subseteq Nat \ {0} /\ RowIdOf \in [Hashes -> Nat]
ASSUME OfferedAreTorrents ==
    /\ MaxVotes \in Nat
    /\ Offered \subseteq [hash : Hashes, files : BOOLEAN, good : 0..MaxVotes, info : {FALSE}]

Row == [hash : Hashes, files : BOOLEAN, good : 0..MaxVotes, info : BOOLEAN]
NoRow == [hash |-> 0, files |-> FALSE, good |-> 0, info |-> FALSE]

\* A task is what one thread is in the middle of: for which hash, the torrent
\* that came in and the row that was read. "merge" is a stored torrent met again,
\* "heal" updateFiles() and "update" and "replace" the two halves of update().
Ops == {"none", "insert", "merge", "heal", "update", "replace", "vote", "info", "remove"}
Task(op, h, t, row) == [op |-> op, hash |-> h, t |-> t, row |-> row]
Idle == Task("none", 0, NoRow, NoRow)
NoBatch == [phase |-> "none", incoming |-> {}, found |-> {}, taken |-> {}, work |-> Idle]

Put(f, i, v) == [x \in DOMAIN f \cup {i} |-> IF x = i THEN v ELSE f[x]]
Without(f, i) == [x \in DOMAIN f \ {i} |-> f[x]]

(* resolve(): the row a hash maps to. It is ours, free, or another torrent's. *)
Slot(h) == IF RowIdOf[h] \in DOMAIN torrents THEN torrents[RowIdOf[h]] ELSE NoRow
Ours(h) == Slot(h).hash = h
Collided(h) == Slot(h) # NoRow /\ ~Ours(h)
Usable(h) == RowIdOf[h] # 0

\* FilterPolicy::rejectionReason(): whether the settings refuse a torrent.
Accepts(t) == ~refused \/ t.files

Tasks == [op : Ops, hash : Hashes \cup {0}, t : Offered \cup {NoRow}, row : Row \cup {NoRow}]

IndexTypeOK ==
    /\ DOMAIN torrents \subseteq {RowIdOf[h] : h \in Hashes} \ {0}
    /\ \A i \in DOMAIN torrents : torrents[i] \in Row
    /\ refused \in BOOLEAN
    /\ reading \in Tasks
    /\ batch \in [phase : {"none", "merge", "add"}, incoming : SUBSET Offered,
                  found : SUBSET Row, taken : SUBSET Hashes, work : Tasks]
    /\ seen \in [Threads -> SUBSET {RowIdOf[h] : h \in Hashes}]

IndexInit ==
    /\ torrents = [i \in {} |-> NoRow]
    /\ refused \in BOOLEAN
    /\ reading = Idle /\ batch = NoBatch
    /\ seen = [x \in Threads |-> {}]

----------------------------------------------------------------------------
Owner(i) == IF i \in DOMAIN torrents THEN torrents[i].hash ELSE 0
Sees(x, ids) ==
    seen' = [y \in Threads |->
                {i \in seen[y] \cup (IF y = x THEN ids ELSE {}) : Owner(i) # 0 /\ Owner(i)' = Owner(i)}]

\* updateFiles() looks the row up again before it changes the one column.
AsksForFiles(w) == w.op = "merge" /\ ~w.row.files /\ w.t.files
CanHeal(w) == AsksForFiles(w) /\ Ours(w.hash)

\* The row is rewritten when the torrent came with more votes than were read.
Counted(w, row) ==
    IF w.t.good > row.good THEN Task("update", w.hash, NoRow, [row EXCEPT !.good = w.t.good]) ELSE Idle

(* One step of a task: the lookup or the statement that comes next. What a
   statement does to the table goes by the row id, whoever has the row by then:
   UPDATE changes a column and REPLACE the whole row. *)
LookedUp(w) == IF w.op = "update" \/ AsksForFiles(w) THEN {RowIdOf[w.hash]} ELSE {}

After(w) ==
    CASE w.op = "merge" -> IF CanHeal(w) THEN [w EXCEPT !.op = "heal"] ELSE Counted(w, w.row)
      [] w.op = "heal" -> Counted(w, [w.row EXCEPT !.files = TRUE])
      [] w.op = "update" /\ ~Collided(w.hash) -> [w EXCEPT !.op = "replace"]
      [] OTHER -> Idle

Statement(w) ==
    LET i == RowIdOf[w.hash]
    IN  CASE w.op = "heal" /\ i \in DOMAIN torrents -> [torrents EXCEPT ![i].files = TRUE]
          [] w.op = "info" /\ i \in DOMAIN torrents -> [torrents EXCEPT ![i].info = TRUE]
          [] w.op = "replace" -> Put(torrents, i, w.row)
          [] w.op = "remove" -> Without(torrents, i)
          [] OTHER -> torrents

----------------------------------------------------------------------------
(* The main thread. Each of its operations begins with a lookup, and the main
   thread begins none before the last one is done. *)
Begins(op, h, t) ==
    /\ reading = Idle
    /\ reading' = Task(op, h, t, Slot(h))
    /\ UNCHANGED <<torrents, refused, batch>>
    /\ Sees("main", {RowIdOf[h]})

\* insert(): the row is another one's, or free, or the torrent is stored already.
InsertReads(t) ==
    /\ Usable(t.hash)
    /\ Begins(IF Ours(t.hash) THEN "merge" ELSE "insert", t.hash, t)

\* mergeInfo() and remove(); remove() deletes from a slot it found free, too.
InfoReads(h) == Ours(h) /\ Begins("info", h, NoRow)
RemoveReads(h) == Usable(h) /\ ~Collided(h) /\ Begins("remove", h, NoRow)

MainWorks ==
    /\ reading.op \in {"merge", "heal", "update", "replace", "info", "remove"}
    /\ torrents' = Statement(reading)
    /\ reading' = After(reading)
    /\ UNCHANGED <<refused, batch>>
    /\ Sees("main", LookedUp(reading))

\* add(), in the slot insert() resolved: what was free and the filter accepts.
FreeForInsert == reading.op = "insert" /\ reading.row = NoRow

InsertAdds ==
    /\ FreeForInsert /\ Accepts(reading.t)
    /\ torrents' = Put(torrents, RowIdOf[reading.hash], reading.t)
    /\ reading' = Idle
    /\ UNCHANGED <<refused, batch>>
    /\ Sees("main", {})

\* Refused by the filter, by a collision, or by the database.
InsertFails ==
    /\ reading.op = "insert"
    /\ reading' = Idle
    /\ UNCHANGED <<torrents, refused, batch, seen>>

SetFilter ==
    /\ reading = Idle
    /\ refused' = ~refused
    /\ UNCHANGED <<torrents, reading, batch, seen>>

----------------------------------------------------------------------------
(* IndexingService::insertBatch(), on the import's worker. getMany() answers the
   whole batch at once, without the info column. *)
BatchLooksUp(ts) ==
    /\ batch = NoBatch
    /\ batch' = [phase |-> "merge", incoming |-> ts,
                 found |-> {[Slot(t.hash) EXCEPT !.info = FALSE] : t \in {u \in ts : Ours(u.hash)}},
                 taken |-> {t.hash : t \in {u \in ts : Collided(u.hash)}}, work |-> Idle]
    /\ UNCHANGED <<torrents, refused, reading>>
    /\ Sees("import", {RowIdOf[t.hash] : t \in ts})

Known(t) == \E r \in batch.found : r.hash = t.hash

BatchMerges(t) ==
    /\ batch.phase = "merge" /\ batch.work = Idle
    /\ t \in batch.incoming /\ Known(t)
    /\ \E r \in batch.found :
          /\ r.hash = t.hash
          /\ batch' = [batch EXCEPT !.incoming = @ \ {t}, !.work = Task("merge", t.hash, t, r)]
    /\ UNCHANGED <<torrents, refused, reading, seen>>

BatchWorks ==
    /\ batch.work # Idle
    /\ torrents' = Statement(batch.work)
    /\ batch' = [batch EXCEPT !.work = After(@)]
    /\ UNCHANGED <<refused, reading>>
    /\ Sees("import", LookedUp(batch.work))

\* Mutant: a batch is stored without asking who lost the slot.
FreshOrTaken == {t \in batch.incoming : ~Known(t) /\ Accepts(t)}

\* Collided torrents are dropped, known ones are merged, the rest judged.
Fresh == {t \in batch.incoming : ~Known(t) /\ t.hash \notin batch.taken /\ Accepts(t)}

BatchJudges ==
    /\ batch.phase = "merge" /\ batch.work = Idle
    /\ \A t \in batch.incoming : ~Known(t)
    /\ batch' = [batch EXCEPT !.phase = "add", !.incoming = Fresh]
    /\ UNCHANGED <<torrents, refused, reading, seen>>

\* addMany(): of torrents that share a row id the first one claims it. The
\* statement is split by size, so a failure may leave a part of it written.
BatchAdds(claims, written) ==
    /\ batch.phase = "add"
    /\ \A t, u \in claims : RowIdOf[t.hash] = RowIdOf[u.hash] => t = u
    /\ {RowIdOf[t.hash] : t \in claims} = {RowIdOf[t.hash] : t \in batch.incoming}
    /\ LET ids == {RowIdOf[t.hash] : t \in written}
           At(i) == CHOOSE t \in written : RowIdOf[t.hash] = i
       IN  torrents' = [i \in DOMAIN torrents \cup ids |-> IF i \in ids THEN At(i) ELSE torrents[i]]
    /\ batch' = NoBatch
    /\ UNCHANGED <<refused, reading>>
    /\ Sees("import", {})

\* No batch holds a hash twice, or one without a row id.
Batches == {ts \in SUBSET Offered :
               /\ Cardinality(ts) \in 1..2
               /\ \A t, u \in ts : t.hash = u.hash => t = u
               /\ \A t \in ts : Usable(t.hash)}

ImportMoves ==
    \/ \E ts \in Batches : BatchLooksUp(ts)
    \/ \E t \in Offered : BatchMerges(t)
    \/ BatchWorks \/ BatchJudges
    \/ \E claims \in SUBSET batch.incoming : \E written \in SUBSET claims : BatchAdds(claims, written)

IndexNext ==
    \/ \E t \in Offered : InsertReads(t)
    \/ InsertAdds \/ InsertFails \/ MainWorks \/ SetFilter
    \/ \E h \in Hashes : InfoReads(h) \/ RemoveReads(h)
    \/ ImportMoves

----------------------------------------------------------------------------
\* The torrent a step of the import writes row i for.
ImportWritesFor(i) == IF batch.phase = "add" THEN torrents'[i].hash ELSE batch.work.hash
Touched(i) == i \notin DOMAIN torrents' \/ torrents'[i] # torrents[i]

\* A write for one torrent changes, overwrites or deletes the row of another
\* that maps to the same id only if its thread has not looked at the row since
\* the other one came there. So a collision that a thread could see never costs
\* a stored torrent its row; one that happens between a thread's lookup and its
\* write does (add()'s REPLACE, update()'s after its resolve(), updateFiles(),
\* mergeInfo() and remove() after their own).
RowsAreTakenUnseen ==
    [][\A i \in DOMAIN torrents : Touched(i) =>
          /\ reading' # reading /\ torrents[i].hash # reading.hash => i \notin seen["main"]
          /\ batch' # batch /\ torrents[i].hash # ImportWritesFor(i) => i \notin seen["import"]]_indexVars

=============================================================================
