------------------------------ MODULE Migration ------------------------------
(* MigrationService: one-time rewrites of the index after an update. The blocking
   ones run in order before the services; "rekey" moves every row from the counter
   id it was stored under to the id derived from its hash, a page at a time. The
   background ones walk the rows on a worker thread. What is done is kept in
   migrations.json, which is rewritten in place.

   The files table gets the same treatment as the torrents table, which stands
   for both. A row is its hash and whether its content type is still to be found
   ("stale"), unknown or settled. *)
EXTENDS Integers, FiniteSets
CONSTANTS
    Hashes,                \* hashes of the stored torrents
    DerivedId,             \* rowIdFromHash(), 0 for an unusable hash
    OldRows,               \* the table an earlier version left: counter id -> row
    PageSize               \* kPageSize
VARIABLES
    table,                 \* row id -> Row
    saved,                 \* migrations.json
    fresh,                 \* isFreshInstall_
    completed,             \* completedMigrations_
    inProgress, lastId,    \* inProgressMigration_: its id and lastProcessedId
    page,                  \* the rekey page under way
    worker,                \* the background thread
    stopRequested,
    ran                    \* history: migrations whose body was run to its end

migrationVars == <<table, saved, fresh, completed, inProgress, lastId, page, worker, stopRequested, ran>>

Blocking == <<"cleanup", "rekey", "walk">>
Background == <<"recategorize", "purge">>
AllMigrations == {"cleanup", "rekey", "walk", "recategorize", "purge"}
Row == [hash : Hashes, type : {"stale", "unknown", "settled"}]
NoPage == [at |-> "none", from |-> 0, to |-> 0, moves |-> {}, doomed |-> {}]
NoFile == [exists |-> FALSE, whole |-> TRUE, completed |-> {}, inProgress |-> "", lastId |-> 0]
TornFile == [NoFile EXCEPT !.exists = TRUE, !.whole = FALSE]

\* Counter ids were small, a derived id has 63 bits: a row under an id that some
\* hash derives was put there by a re-keying that an earlier run left half-done.
ASSUME IdsAreApart ==
    /\ DerivedId \in [Hashes -> Nat] /\ PageSize \in Nat \ {0}
    /\ IsFiniteSet(DOMAIN OldRows)
    /\ \A i \in DOMAIN OldRows : i \in Nat \ {0} /\ OldRows[i] \in Row
    /\ \A i \in DOMAIN OldRows, h \in Hashes : DerivedId[h] = i => DerivedId[OldRows[i].hash] = i

MigrationTypeOK ==
    /\ \A i \in DOMAIN table : table[i] \in Row
    /\ fresh \in BOOLEAN /\ completed \subseteq AllMigrations /\ ran \subseteq AllMigrations
    /\ inProgress \in {"", "recategorize", "purge"} /\ lastId \in Nat
    /\ inProgress = "" => lastId = 0
    /\ page.at \in {"none", "read", "written"}
    /\ worker \in {"idle", "between", "body", "ended"} /\ stopRequested \in BOOLEAN

\* An installation of an earlier version, one whose index was copied from the
\* Electron program (which had no migrations.json), or none.
MigrationInit ==
    /\ \/ table = OldRows /\ saved = [NoFile EXCEPT !.exists = TRUE]
       \/ table = OldRows /\ saved = NoFile
       \/ table = [i \in {} |-> 0] /\ saved = NoFile
    /\ fresh = FALSE /\ completed = {} /\ inProgress = "" /\ lastId = 0
    /\ page = NoPage /\ worker = "idle" /\ stopRequested = FALSE /\ ran = {}

State(c, p, i) == [exists |-> TRUE, whole |-> TRUE, completed |-> c, inProgress |-> p, lastId |-> i]

\* The constructor: a missing file means a fresh install, an unreadable one only
\* that nothing is known to be done.
LoadMigrations ==
    /\ fresh' = ~saved.exists
    /\ completed' = IF saved.exists THEN saved.completed ELSE AllMigrations
    /\ inProgress' = saved.inProgress /\ lastId' = saved.lastId
    /\ saved' = IF saved.exists THEN saved ELSE State(AllMigrations, "", 0)
    /\ page' = NoPage /\ worker' = "idle" /\ stopRequested' = FALSE
    /\ UNCHANGED <<table, ran>>

\* Mutant: the position of the migration that is done stays behind.
MarkedInPlace(m) ==
    /\ completed' = completed \cup {m} /\ ran' = ran \cup {m}
    /\ inProgress' = IF inProgress = m THEN "" ELSE inProgress
    /\ lastId' = lastId
    /\ saved' = State(completed', inProgress', lastId')

\* markMigrationCompleted()
MarkCompleted(m) ==
    /\ completed' = completed \cup {m} /\ ran' = ran \cup {m}
    /\ inProgress' = IF inProgress = m THEN "" ELSE inProgress
    /\ lastId' = IF inProgress = m THEN 0 ELSE lastId
    /\ saved' = State(completed', inProgress', lastId')

----------------------------------------------------------------------------
(* runSyncMigrations() *)
SyncIsDone == fresh \/ \A i \in DOMAIN Blocking : Blocking[i] \in completed
NextSync == CHOOSE i \in DOMAIN Blocking :
               Blocking[i] \notin completed /\ \A j \in 1..(i - 1) : Blocking[j] \in completed

\* The feed, the swarm's records and a setting change; no row of the index does.
SyncOther ==
    /\ ~SyncIsDone /\ Blocking[NextSync] # "rekey"
    /\ MarkCompleted(Blocking[NextSync])
    /\ UNCHANGED <<table, fresh, page, worker, stopRequested>>

(* migrateRowIdPage(): the rows past the cursor, where each has to go and who is
   there already; the new rows are written before the old ones are deleted. *)
PageRows(from) ==
    {i \in DOMAIN table : i > from /\ Cardinality({j \in DOMAIN table : from < j /\ j < i}) < PageSize}
Last(ids) == CHOOSE i \in ids : \A j \in ids : j <= i
Target(i) == DerivedId[table[i].hash]
Misplaced(ids) == {i \in ids : Target(i) \notin {0, i}}

\* Mutant: whoever holds the destination is overwritten.
OpenAny(i) == TRUE

\* The destination is free or the torrent's own.
Open(i) == Target(i) \notin DOMAIN table \/ table[Target(i)].hash = table[i].hash

\* Of two rows of a page that want one destination the first has it.
Moves(ids) == {i \in Misplaced(ids) : Open(i) /\ \A j \in Misplaced(ids) : j < i /\ Open(j) => Target(j) # Target(i)}

RekeyReads(readable) ==
    /\ readable /\ ~SyncIsDone /\ Blocking[NextSync] = "rekey" /\ page.at = "none"
    /\ LET ids == PageRows(page.to)
       IN  /\ ids # {}
           /\ page' = [at |-> "read", from |-> page.to, to |-> Last(ids), moves |-> Moves(ids),
                       doomed |-> Misplaced(ids) \cup {i \in ids : Target(i) = 0}]
    /\ UNCHANGED <<table, saved, fresh, completed, inProgress, lastId, worker, stopRequested, ran>>

Moved(ids) ==
    [x \in DOMAIN table \cup {Target(i) : i \in ids} |->
        IF \E i \in ids : Target(i) = x THEN table[CHOOSE i \in ids : Target(i) = x] ELSE table[x]]

RekeyWrites(readable) ==
    /\ readable /\ page.at = "read"
    /\ table' = Moved(page.moves)
    /\ page' = [page EXCEPT !.at = "written"]
    /\ UNCHANGED <<saved, fresh, completed, inProgress, lastId, worker, stopRequested, ran>>

RekeyDeletes(readable) ==
    /\ readable /\ page.at = "written"
    /\ table' = [i \in DOMAIN table \ page.doomed |-> table[i]]
    /\ page' = [NoPage EXCEPT !.to = page.to]
    /\ UNCHANGED <<saved, fresh, completed, inProgress, lastId, worker, stopRequested, ran>>

\* Mutant: a page that cannot be read looks like the end.
AtEnd(readable) == PageRows(page.to) = {} \/ ~readable

\* The table is exhausted. A failed query is told apart from it.
Exhausted(readable) == readable /\ PageRows(page.to) = {}

RekeyEnds(readable) ==
    /\ ~SyncIsDone /\ Blocking[NextSync] = "rekey" /\ page.at = "none" /\ Exhausted(readable)
    /\ MarkCompleted("rekey")
    /\ page' = NoPage
    /\ UNCHANGED <<table, fresh, worker, stopRequested>>

\* A migration that fails, as any may, ends the blocking ones. A page of the
\* re-keying is left as it is; all of it is tried again at the next start.
SyncFails == ~SyncIsDone

SyncMigrations(readable) ==
    SyncOther \/ RekeyReads(readable) \/ RekeyWrites(readable) \/ RekeyDeletes(readable) \/ RekeyEnds(readable)

----------------------------------------------------------------------------
(* The background migrations *)
Pending == {m \in {Background[1], Background[2]} : m \notin completed}

StartAsyncMigrations ==
    /\ worker' = IF fresh \/ Pending = {} THEN "idle" ELSE "between"
    /\ stopRequested' = FALSE /\ page' = NoPage
    /\ UNCHANGED <<table, saved, fresh, completed, inProgress, lastId, ran>>

NextAsync == IF Background[1] \in Pending THEN Background[1] ELSE Background[2]

\* A saved position is taken up only by the migration it belongs to.
WorkerBegins ==
    /\ worker = "between" /\ Pending # {} /\ ~stopRequested
    /\ worker' = "body" /\ inProgress' = NextAsync
    /\ lastId' = IF inProgress = NextAsync THEN lastId ELSE 0
    /\ UNCHANGED <<table, saved, fresh, completed, page, stopRequested, ran>>

\* Mutant: a request to stop is not looked at between two migrations.
AllAreDone == Pending = {}

MayEnd == Pending = {} \/ stopRequested

\* The worker is through, or was stopped: the main thread takes note.
WorkerEnds ==
    /\ worker = "between" /\ MayEnd
    /\ worker' = "ended"
    /\ saved' = IF stopRequested THEN State(completed, inProgress, lastId) ELSE saved
    /\ UNCHANGED <<table, fresh, completed, inProgress, lastId, page, stopRequested, ran>>

Ahead == {i \in DOMAIN table : i > lastId /\ (inProgress = "purge" => table[i].type = "unknown")}

\* Both bodies find a torrent by its hash: a row under a counter id is passed over.
Found(i) == DerivedId[table[i].hash] = i
WorkerRow(answers) ==
    /\ answers /\ worker = "body" /\ ~stopRequested /\ Ahead # {}
    /\ LET i == CHOOSE x \in Ahead : \A y \in Ahead : x <= y
       IN  /\ lastId' = i
           /\ table' = IF ~Found(i) THEN table
                       ELSE IF inProgress = "purge" THEN [x \in DOMAIN table \ {i} |-> table[x]]
                       ELSE [table EXCEPT ![i].type = IF @ = "stale" THEN "settled" ELSE @]
    /\ UNCHANGED <<saved, fresh, completed, inProgress, page, worker, stopRequested, ran>>

\* No rows came back: the end of the table, or a query that failed.
WorkerSeesEnd(answers) ==
    /\ worker = "body" /\ ~stopRequested /\ (answers => Ahead = {})
    /\ MarkCompleted(inProgress)
    /\ worker' = "between"
    /\ UNCHANGED <<table, fresh, page, stopRequested>>

WorkerStops ==
    /\ worker = "body" /\ stopRequested
    /\ worker' = "between"
    /\ UNCHANGED <<table, saved, fresh, completed, inProgress, lastId, page, stopRequested, ran>>

SaveTimer ==
    /\ worker \in {"between", "body"}
    /\ saved' = State(completed, inProgress, lastId)
    /\ UNCHANGED <<table, fresh, completed, inProgress, lastId, page, worker, stopRequested, ran>>

\* requestStop(), by the destructor only.
RequestStop ==
    /\ stopRequested' = TRUE
    /\ saved' = State(completed, inProgress, lastId)
    /\ UNCHANGED <<table, fresh, completed, inProgress, lastId, page, worker, ran>>

\* The process is killed: a save under way leaves the file torn.
MigrationsKilled(torn) ==
    /\ saved' = IF torn THEN TornFile ELSE saved
    /\ fresh' = FALSE /\ completed' = {} /\ inProgress' = "" /\ lastId' = 0
    /\ page' = NoPage /\ worker' = "idle" /\ stopRequested' = FALSE
    /\ UNCHANGED <<table, ran>>

WorkerNext(answers) == WorkerBegins \/ WorkerEnds \/ WorkerRow(answers) \/ WorkerSeesEnd(answers) \/ WorkerStops \/ SaveTimer

----------------------------------------------------------------------------
\* Whatever fails or is killed between two steps of a page, a torrent's row goes
\* only when another one was written first, when its hash is of no use, when its
\* content stayed unknown to the end, or when the row had no place of its own and
\* the one it needs is another torrent's.
NothingIsLost ==
    [][\A i \in DOMAIN table :
          LET h == table[i].hash
          IN  \/ \E j \in DOMAIN table' : table'[j].hash = h
              \/ DerivedId[h] = 0
              \/ inProgress = "purge" /\ table[i].type = "unknown"
              \/ i # DerivedId[h] /\ DerivedId[h] \in DOMAIN table'
      ]_table

\* Once the re-keying has run, no row is left where a lookup by hash cannot see it.
RekeyedWhenDone == "rekey" \in ran => \A i \in DOMAIN table : DerivedId[table[i].hash] = i

\* What the constructor says of a missing file: there is nothing to migrate.
FreshHasNothing == fresh => \A i \in DOMAIN table : DerivedId[table[i].hash] = i

=============================================================================
