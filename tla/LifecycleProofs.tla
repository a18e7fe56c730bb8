---------------------------- MODULE LifecycleProofs ----------------------------
(* Proofs about the program's life: searchd, the log of what is not in the  *)
(* index yet, and the migrations, for any index an earlier version left.    *)
EXTENDS Lifecycle, FiniteSetTheorems, WellFoundedInduction, TLAPS

(* searchd: an attached one is not ours, a status that says stopped is      *)
(* true, only start() waits, and the blame is of a binlog that is damaged.  *)
SearchdInv ==
  /\ external => searchd = "none" /\ ~waiting
  /\ status = "Stopped" => searchd = "none"
  /\ waiting => app = "starting"
  /\ app \in {"off", "built"} => searchd = "none"
  /\ app = "built" => ~external
  /\ blamed => binlog = "damaged"

(* migrations.json holds a state of the service.                            *)
Progress == {"", "recategorize", "purge"}
Files == [exists : BOOLEAN, whole : BOOLEAN, completed : SUBSET AllMigrations,
          inProgress : Progress, lastId : Nat]
SavedInv ==
  /\ saved \in Files
  /\ saved.inProgress = "" => saved.lastId = 0

ServiceInv ==
  /\ fresh \in BOOLEAN /\ completed \subseteq AllMigrations /\ ran \subseteq AllMigrations
  /\ inProgress \in Progress /\ lastId \in Nat /\ (inProgress = "" => lastId = 0)
  /\ worker \in {"idle", "between", "body", "ended"} /\ stopRequested \in BOOLEAN
  /\ app \in {"off", "built", "starting", "wait", "sync", "up", "stopped", "joining"}
  /\ launches \in 0..MaxLaunches

(* The background thread and the re-keying never run together.              *)
PhaseInv ==
  /\ worker \in {"between", "body"} => app \in {"up", "stopped", "joining"}
  /\ worker = "body" => inProgress # ""
  /\ page # NoPage => app = "sync"

(* A row is where its hash belongs, or where no hash belongs.               *)
TableInv ==
  /\ IsFiniteSet(DOMAIN table) /\ DOMAIN table \subseteq Nat \ {0}
  /\ \A i \in DOMAIN table : table[i] \in Row
  /\ \A i \in DOMAIN table : Found(i) \/ \A h \in Hashes : DerivedId[h] # i

(* Behind the cursor every row is where it belongs; the page under way is   *)
(* the rows up to its end, and a row that will be deleted has its place     *)
(* taken by a row that stays.                                               *)
Paged == {i \in DOMAIN table : page.from < i /\ i <= page.to}
PageInv ==
  /\ page \in [at : {"none", "read", "written"}, from : Nat, to : Nat, moves : SUBSET Nat, doomed : SUBSET Nat]
  /\ page.at = "none" => \A i \in DOMAIN table : i <= page.to => Found(i)
  /\ page.at = "read" =>
       /\ \A i \in DOMAIN table : i <= page.from => Found(i)
       /\ page.moves = Moves(Paged)
       /\ page.doomed = Misplaced(Paged) \union {i \in Paged : Target(i) = 0}
  /\ page.at = "written" =>
       /\ \A i \in DOMAIN table : i <= page.to => Found(i) \/ i \in page.doomed
       /\ \A i \in page.doomed \intersect DOMAIN table :
            ~Found(i) /\ (Target(i) = 0 \/ Target(i) \in DOMAIN table \ page.doomed)

LifecycleInv ==
  /\ ManticoreTypeOK /\ SearchdInv
  /\ ServiceInv /\ SavedInv /\ PhaseInv /\ TableInv /\ PageInv
  /\ RekeyedWhenDone

-----------------------------------------------------------------------------
(* A set of naturals has a least member, a finite one a greatest.           *)
LEMMA HasLeast ==
  ASSUME NEW S \in SUBSET Nat, S # {}
  PROVE  \E r \in S : \A q \in S : r <= q
<1> DEFINE R == OpToRel(<, Nat)
<1>1. \A x, y \in Nat : x < y => <<x, y>> \in R
  BY DEF OpToRel
<1>2. IsWellFoundedOn(R, Nat)
  BY NatLessThanWellFounded
<1> HIDE DEF R
<1>3. PICK r \in S : \A q \in S : <<q, r>> \notin R
  BY <1>2, WFMin
<1>4. \A q \in S : ~(q < r)
  BY <1>1, <1>3
<1>5. QED
  BY <1>4

LEMMA HasGreatest ==
  ASSUME NEW S \in SUBSET Nat, S # {}, IsFiniteSet(S)
  PROVE  \E r \in S : \A q \in S : q <= r
<1> DEFINE Above(r) == {q \in S : q > r}
<1> DEFINE Counts == {Cardinality(Above(r)) : r \in S}
<1>1. \A r \in S : IsFiniteSet(Above(r)) /\ Cardinality(Above(r)) \in Nat
  BY FS_Subset, FS_CardinalityType
<1>2. Counts \in SUBSET Nat /\ Counts # {}
  BY <1>1
<1>3. PICK c \in Counts : \A d \in Counts : c <= d
  BY <1>2, HasLeast
<1>4. PICK r \in S : c = Cardinality(Above(r))
  OBVIOUS
<1>5. ASSUME NEW q \in S, q > r PROVE FALSE
  <2>0. q \in Nat /\ r \in Nat /\ \A x \in S : x \in Nat /\ (x > q => x > r)
    BY <1>5
  <2>1. q \in Above(r) /\ q \notin Above(q)
    BY <1>5, <2>0
  <2>2. \A x \in Above(q) : x \in Above(r)
    BY <2>0
  <2>3. Cardinality(Above(q)) <= Cardinality(Above(r)) /\ Cardinality(Above(q)) # Cardinality(Above(r))
    BY <1>1, <2>0, <2>1, <2>2, FS_Subset
  <2>4. Cardinality(Above(r)) <= Cardinality(Above(q))
    BY <1>3, <1>4
  <2>5. QED
    BY <1>1, <2>3, <2>4
<1>6. QED
  BY <1>5

(* A page is the rows from the cursor to its last one, and empty only at    *)
(* the end of the table.                                                    *)
LEMMA PageRowsFacts ==
  ASSUME TableInv, NEW from \in Nat
  PROVE  /\ PageRows(from) = {} => \A i \in DOMAIN table : i <= from
         /\ PageRows(from) # {} =>
              /\ Last(PageRows(from)) \in Nat
              /\ PageRows(from) = {i \in DOMAIN table : from < i /\ i <= Last(PageRows(from))}
<1> DEFINE Below(i) == {j \in DOMAIN table : from < j /\ j < i}
<1>0. IsFiniteSet(DOMAIN table) /\ DOMAIN table \in SUBSET Nat
  BY DEF TableInv
<1>1. \A i \in DOMAIN table : IsFiniteSet(Below(i)) /\ Cardinality(Below(i)) \in Nat
  BY <1>0, FS_Subset, FS_CardinalityType
<1>2. ASSUME NEW k \in DOMAIN table, ~(k <= from) PROVE PageRows(from) # {}
  <2> DEFINE S == {i \in DOMAIN table : i > from}
  <2>1. S \in SUBSET Nat /\ S # {}
    BY <1>0, <1>2
  <2>2. PICK i \in S : \A j \in S : i <= j
    BY <2>1, HasLeast
  <2>3. Below(i) = {}
    BY <1>0, <2>2
  <2>4. Cardinality(Below(i)) < PageSize
    BY <2>3, FS_EmptySet, IdsAreApart
  <2>5. QED
    BY <2>4 DEF PageRows
<1>3. ASSUME PageRows(from) # {}
      PROVE  /\ Last(PageRows(from)) \in Nat
             /\ PageRows(from) = {i \in DOMAIN table : from < i /\ i <= Last(PageRows(from))}
  <2> DEFINE last == Last(PageRows(from))
  <2>1. PageRows(from) \in SUBSET DOMAIN table
    BY DEF PageRows
  <2>2. PICK r \in PageRows(from) : \A q \in PageRows(from) : q <= r
    BY <1>0, <1>3, <2>1, FS_Subset, HasGreatest
  <2>3. last \in PageRows(from) /\ \A q \in PageRows(from) : q <= last
    BY <2>2 DEF Last
  <2>4. last \in DOMAIN table /\ last \in Nat /\ Cardinality(Below(last)) < PageSize
    BY <1>0, <2>3 DEF PageRows
  <2> HIDE DEF last
  <2>5. ASSUME NEW i \in DOMAIN table, from < i, i <= last PROVE i \in PageRows(from)
    <3>1. Below(i) \in SUBSET Below(last)
      BY <1>0, <2>4, <2>5
    <3>2. Cardinality(Below(i)) <= Cardinality(Below(last))
      BY <1>1, <2>4, <3>1, FS_Subset
    <3>3. Cardinality(Below(i)) < PageSize
      BY <1>1, <2>4, <3>2, IdsAreApart
    <3>4. QED
      BY <2>5, <3>3 DEF PageRows
  <2>6. \A i \in PageRows(from) : i \in DOMAIN table /\ from < i /\ i <= last
    BY <1>0, <2>3 DEF PageRows
  <2>7. PageRows(from) = {i \in DOMAIN table : from < i /\ i <= last}
    BY <2>5, <2>6
  <2>8. QED
    BY <2>4, <2>7 DEF last
<1>4. QED
  BY <1>2, <1>3

(* Where a row goes is a number, and it is there when it is found.          *)
LEMMA TargetFacts ==
  ASSUME TableInv, NEW i \in DOMAIN table
  PROVE  /\ Target(i) \in Nat /\ table[i].hash \in Hashes /\ i \in Nat \ {0}
         /\ Found(i) <=> Target(i) = i
BY IdsAreApart DEF TableInv, Target, Found, Row

(* Of the rows that want a free place one is moved there.                   *)
LEMMA MovesFacts ==
  ASSUME TableInv, NEW ids \in SUBSET DOMAIN table
  PROVE  /\ Moves(ids) \subseteq ids
         /\ \A m \in Moves(ids) : Target(m) # 0 /\ Open(m)
         /\ \A i \in Misplaced(ids) : Open(i) => \E m \in Moves(ids) : Target(m) = Target(i)
<1>1. \A m \in Moves(ids) : m \in ids /\ Target(m) # 0 /\ Open(m)
  BY DEF Moves, Misplaced
<1>2. ASSUME NEW i \in Misplaced(ids), Open(i) PROVE \E m \in Moves(ids) : Target(m) = Target(i)
  <2> DEFINE S == {j \in Misplaced(ids) : Open(j) /\ Target(j) = Target(i)}
  <2>1. S \in SUBSET Nat /\ S # {}
    BY <1>2 DEF Misplaced, TableInv
  <2>2. PICK m \in S : \A j \in S : m <= j
    BY <2>1, HasLeast
  <2>3. ASSUME NEW j \in Misplaced(ids), j < m, Open(j) PROVE Target(j) # Target(m)
    BY <2>1, <2>2, <2>3
  <2>4. m \in Moves(ids)
    BY <2>3 DEF Moves
  <2>5. QED
    BY <2>4
<1>3. QED
  BY <1>1, <1>2

(* Writing the moved rows keeps every torrent's row and adds rows that are  *)
(* where they belong.                                                       *)
LEMMA MovedFacts ==
  ASSUME TableInv, NEW ids \in SUBSET DOMAIN table,
         \A m \in ids : Target(m) # 0 /\ Open(m), table' = Moved(ids)
  PROVE  /\ DOMAIN table' = DOMAIN table \union {Target(m) : m \in ids}
         /\ \A x \in DOMAIN table' : table'[x] \in Row
         /\ \A x \in DOMAIN table : table'[x].hash = table[x].hash
         /\ \A m \in ids : DerivedId[table'[Target(m)].hash] = Target(m)
<1>1. DOMAIN table' = DOMAIN table \union {Target(m) : m \in ids}
  BY DEF Moved
<1>2. ASSUME NEW x \in DOMAIN table', \E m \in ids : Target(m) = x
      PROVE  /\ table'[x] \in Row /\ DerivedId[table'[x].hash] = x
             /\ x \in DOMAIN table => table'[x].hash = table[x].hash
  <2> DEFINE m == CHOOSE m \in ids : Target(m) = x
  <2>1. m \in ids /\ Target(m) = x
    BY <1>2
  <2>2. table'[x] = table[m]
    BY <1>1, <1>2 DEF Moved
  <2> HIDE DEF m
  <2>3. table[m] \in Row /\ DerivedId[table[m].hash] = x
    BY <2>1 DEF TableInv, Target
  <2>4. x \in DOMAIN table => table[x].hash = table[m].hash
    BY <2>1 DEF Open
  <2>5. QED
    BY <2>2, <2>3, <2>4
<1>3. ASSUME NEW x \in DOMAIN table', ~ \E m \in ids : Target(m) = x
      PROVE  x \in DOMAIN table /\ table'[x] = table[x]
  BY <1>1, <1>3 DEF Moved
<1>4. QED
  BY <1>1, <1>2, <1>3 DEF TableInv

-----------------------------------------------------------------------------
(* searchd and its binlog: the steps of Manticore and of the program.       *)
LEMMA SearchdStep ==
  ASSUME ManticoreTypeOK, SearchdInv, [Next]_vars
  PROVE  ManticoreTypeOK' /\ SearchdInv'
<1> USE DEF ManticoreTypeOK, SearchdInv
<1>1. CASE Launch
  BY <1>1 DEF Launch, Fresh
<1>2. CASE Start
  <2>1. CASE StartAttaches
    BY <1>2, <2>1 DEF Start, StartAttaches
  <2>2. CASE StartFails
    BY <1>2, <2>2 DEF Start, StartFails
  <2>3. CASE StartLaunches
    BY <1>2, <2>3 DEF Start, StartLaunches, Launches
  <2>4. QED
    BY <1>2, <2>1, <2>2, <2>3 DEF Start, StartManticore
<1>3. CASE Started
  BY <1>3 DEF Started, manticoreVars
<1>4. CASE Waited
  BY <1>4 DEF Waited, SecondWait
<1>5. CASE Migrate
  BY <1>5 DEF Migrate, manticoreVars, lifeVars
<1>6. CASE ComeUp
  BY <1>6 DEF ComeUp, manticoreVars
<1>7. CASE Stop
  BY <1>7 DEF Stop, StopManticore, HasToStop
<1>8. CASE Destroy
  BY <1>8 DEF Destroy, manticoreVars
<1>9. CASE Exit
  BY <1>9 DEF Exit, StopManticore, HasToStop
<1>10. CASE Kill
  BY <1>10 DEF Kill, ManticoreKilled, Fresh
<1>11. CASE ManticoreMoves
  <2>1. app' = app /\ app # "off" /\ ManticoreNext
    BY <1>11 DEF ManticoreMoves, lifeVars
  <2>2. CASE SearchdServes
    BY <2>1, <2>2 DEF SearchdServes
  <2>3. CASE Ready
    BY <2>1, <2>3 DEF Ready
  <2>4. CASE StillNotReady
    BY <2>1, <2>4 DEF StillNotReady
  <2>5. CASE ProbeFails
    BY <2>1, <2>5 DEF ProbeFails
  <2>6. CASE OrphanEnds
    BY <2>1, <2>6 DEF OrphanEnds
  <2>7. ASSUME NEW b \in BOOLEAN, SearchdExits(b) PROVE ManticoreTypeOK' /\ SearchdInv'
    BY <2>1, <2>7 DEF SearchdExits
  <2>8. ASSUME NEW b \in BOOLEAN, ResetBinlog(b) PROVE ManticoreTypeOK' /\ SearchdInv'
    BY <2>1, <2>8 DEF ResetBinlog, MayReset, BinlogFailureReported, Launches
  <2>9. QED
    BY <2>1, <2>2, <2>3, <2>4, <2>5, <2>6, <2>7, <2>8 DEF ManticoreNext
<1>12. CASE MigrationMoves
  BY <1>12 DEF MigrationMoves, manticoreVars, lifeVars
<1>13. CASE UNCHANGED vars
  BY <1>13 DEF vars, manticoreVars, lifeVars
<1>14. QED
  BY <1>1, <1>2, <1>3, <1>4, <1>5, <1>6, <1>7, <1>8, <1>9, <1>10, <1>11, <1>12, <1>13 DEF Next

(* The binlog is reset only by a start that has seen searchd fail on it.    *)
LEMMA BinlogStep ==
  ASSUME ManticoreTypeOK, SearchdInv, [Next]_vars
  PROVE  resetDone' /\ ~resetDone => binlog = "damaged"
<1> SUFFICES ASSUME resetDone' /\ ~resetDone PROVE binlog = "damaged"
  OBVIOUS
<1>1. CASE ManticoreMoves
  BY <1>1 DEF ManticoreMoves, ManticoreNext, SearchdServes, Ready, StillNotReady, ProbeFails, OrphanEnds,
     SearchdExits, ResetBinlog, MayReset, BinlogFailureReported, SearchdInv
<1>2. CASE Launch \/ Start \/ Kill \/ Stop \/ Exit \/ Waited
  BY <1>2 DEF Launch, Start, Kill, Stop, Exit, Waited, Fresh, StartManticore, StartAttaches, StartFails,
     StartLaunches, ManticoreKilled, StopManticore, SecondWait
<1>3. CASE Started \/ Migrate \/ ComeUp \/ Destroy \/ MigrationMoves \/ UNCHANGED vars
  BY <1>3 DEF Started, Migrate, ComeUp, Destroy, MigrationMoves, vars, manticoreVars
<1>4. QED
  BY <1>1, <1>2, <1>3 DEF Next

-----------------------------------------------------------------------------
(* What is written to migrations.json is a state of the service.            *)
LEMMA StateFacts ==
  ASSUME NEW c \in SUBSET AllMigrations, NEW p \in Progress, NEW i \in Nat, p = "" => i = 0
  PROVE  /\ State(c, p, i) \in Files
         /\ State(c, p, i).inProgress = "" => State(c, p, i).lastId = 0
BY DEF State, Files

LEMMA NoFileFacts ==
  /\ NoFile \in Files /\ TornFile \in Files /\ [NoFile EXCEPT !.exists = TRUE] \in Files
  /\ NoFile.lastId = 0 /\ TornFile.lastId = 0 /\ [NoFile EXCEPT !.exists = TRUE].lastId = 0
<1>1. NoFile \in Files /\ NoFile.lastId = 0
  BY DEF NoFile, Files, Progress
<1>2. [NoFile EXCEPT !.exists = TRUE] \in Files /\ [NoFile EXCEPT !.exists = TRUE].lastId = 0
  BY <1>1 DEF Files
<1>3. TornFile \in Files /\ TornFile.lastId = 0
  BY <1>1 DEF TornFile, Files
<1>4. QED
  BY <1>1, <1>2, <1>3

LEMMA LaunchesCount == \A n \in 0..MaxLaunches : n < MaxLaunches => n + 1 \in 0..MaxLaunches
BY LaunchesAssumption

LEMMA BlockingFacts ==
  ASSUME ~SyncIsDone
  PROVE  Blocking[NextSync] \in AllMigrations \ {"recategorize", "purge"}
<1>1. DOMAIN Blocking = 1..3 /\ Blocking[1] = "cleanup" /\ Blocking[2] = "rekey" /\ Blocking[3] = "walk"
  BY DEF Blocking
<1>2. \E i \in DOMAIN Blocking : Blocking[i] \notin completed /\ \A j \in 1..(i - 1) : Blocking[j] \in completed
  <2>1. Blocking[1] \notin completed \/ Blocking[2] \notin completed \/ Blocking[3] \notin completed
    BY <1>1 DEF SyncIsDone
  <2>2. CASE Blocking[1] \notin completed
    BY <1>1, <2>2
  <2>3. CASE Blocking[1] \in completed /\ Blocking[2] \notin completed
    BY <1>1, <2>3
  <2>4. CASE Blocking[1] \in completed /\ Blocking[2] \in completed /\ Blocking[3] \notin completed
    BY <1>1, <2>4
  <2>5. QED
    BY <2>1, <2>2, <2>3, <2>4
<1>3. NextSync \in DOMAIN Blocking
  BY <1>2 DEF NextSync
<1>4. QED
  BY <1>1, <1>3 DEF AllMigrations

LEMMA MarkFacts ==
  ASSUME ServiceInv, NEW m \in AllMigrations, MarkCompleted(m)
  PROVE  /\ completed' \subseteq AllMigrations /\ ran' = ran \union {m}
         /\ ran' \subseteq AllMigrations
         /\ inProgress' \in Progress /\ lastId' \in Nat /\ (inProgress' = "" => lastId' = 0)
         /\ SavedInv'
<1>1. /\ completed' \in SUBSET AllMigrations /\ ran' = ran \union {m} /\ ran' \subseteq AllMigrations
      /\ inProgress' \in Progress /\ lastId' \in Nat /\ (inProgress' = "" => lastId' = 0)
  BY DEF ServiceInv, MarkCompleted, Progress
<1>2. saved' = State(completed', inProgress', lastId')
  BY DEF MarkCompleted
<1>3. QED
  BY <1>1, <1>2, StateFacts DEF SavedInv, Files

(* The service's own state, whatever the table holds.                       *)
LEMMA ServiceStep ==
  ASSUME ServiceInv, SavedInv, PhaseInv, TableInv, [Next]_vars
  PROVE  ServiceInv' /\ SavedInv' /\ PhaseInv'
<1> USE DEF ServiceInv, PhaseInv
<1>1. State(completed, inProgress, lastId) \in Files
      /\ (State(completed, inProgress, lastId).inProgress = "" => State(completed, inProgress, lastId).lastId = 0)
  BY StateFacts
<1>2. CASE Launch
  <2>1. saved \in Files /\ (saved.inProgress = "" => saved.lastId = 0)
    BY DEF SavedInv, Files
  <2>2. State(AllMigrations, "", 0) \in Files /\ State(AllMigrations, "", 0).lastId = 0
    BY StateFacts DEF Progress, State
  <2>3. SavedInv'
    BY <1>2, <2>1, <2>2 DEF Launch, LoadMigrations, SavedInv, Files
  <2>4. launches' \in 0..MaxLaunches
    <3>1. launches \in 0..MaxLaunches /\ launches < MaxLaunches /\ launches' = launches + 1
      BY <1>2 DEF Launch
    <3>2. QED
      BY <3>1, LaunchesCount, Zenon
  <2>5. saved.completed \subseteq AllMigrations /\ saved.inProgress \in Progress /\ saved.lastId \in Nat
        /\ saved.exists \in BOOLEAN
    BY <2>1 DEF Files
  <2>6. QED
    BY <1>2, <2>1, <2>3, <2>4, <2>5 DEF Launch, LoadMigrations
<1>3. CASE Start
  BY <1>3 DEF Start, migrationVars, SavedInv
<1>4. CASE Started \/ Waited
  BY <1>4 DEF Started, Waited, migrationVars, SavedInv
<1>5. CASE Migrate
  <2>1. app = "sync" /\ app' = app /\ launches' = launches /\ SyncMigrations(DatabaseAnswers)
    BY <1>5 DEF Migrate, lifeVars
  <2>2. CASE SyncOther \/ RekeyEnds(DatabaseAnswers)
    <3>1. PICK m \in AllMigrations : MarkCompleted(m)
      BY <2>2, BlockingFacts DEF SyncOther, RekeyEnds
    <3>2. UNCHANGED <<fresh, worker, stopRequested>> /\ page' \in {page, NoPage}
      BY <2>2 DEF SyncOther, RekeyEnds
    <3>3. QED
      BY <2>1, <3>1, <3>2, MarkFacts
  <2>3. CASE RekeyReads(DatabaseAnswers) \/ RekeyWrites(DatabaseAnswers) \/ RekeyDeletes(DatabaseAnswers)
    BY <2>1, <2>3 DEF RekeyReads, RekeyWrites, RekeyDeletes, SavedInv
  <2>4. QED
    BY <2>1, <2>2, <2>3 DEF SyncMigrations
<1>6. CASE ComeUp
  BY <1>6 DEF ComeUp, StartAsyncMigrations, SavedInv
<1>7. CASE Stop \/ Exit
  BY <1>7 DEF Stop, Exit, migrationVars, SavedInv
<1>8. CASE Destroy
  BY <1>1, <1>8 DEF Destroy, RequestStop, SavedInv, Files
<1>9. CASE Kill
  <2>1. SavedInv'
    BY <1>9, NoFileFacts DEF Kill, MigrationsKilled, SavedInv, Files
  <2>2. QED
    <3>1. /\ fresh' = FALSE /\ completed' = {} /\ inProgress' = "" /\ lastId' = 0 /\ page' = NoPage
          /\ worker' = "idle" /\ stopRequested' = FALSE /\ ran' = ran /\ app' = "off" /\ launches' = launches
      BY <1>9 DEF Kill, MigrationsKilled
    <3>2. QED
      BY <2>1, <3>1 DEF Progress
<1>10. CASE ManticoreMoves
  BY <1>10 DEF ManticoreMoves, migrationVars, lifeVars, SavedInv
<1>11. CASE MigrationMoves
  <2>1. WorkerNext(DatabaseAnswers) /\ app' = app /\ launches' = launches
    BY <1>11 DEF MigrationMoves, lifeVars
  <2>2. CASE WorkerBegins
    <3>1. NextAsync \in {"recategorize", "purge"}
      BY DEF NextAsync, Background
    <3>2. QED
      BY <2>1, <2>2, <3>1 DEF WorkerBegins, SavedInv, Progress
  <2>3. CASE WorkerEnds
    BY <1>1, <2>1, <2>3 DEF WorkerEnds, SavedInv, Files
  <2>4. CASE WorkerRow(DatabaseAnswers)
    <3>1. Ahead # {} /\ Ahead \in SUBSET Nat
      BY <2>4 DEF WorkerRow, Ahead, TableInv
    <3>2. \E x \in Ahead : \A y \in Ahead : x <= y
      BY <3>1, HasLeast
    <3>3. lastId' \in Nat
      BY <2>4, <3>1, <3>2 DEF WorkerRow
    <3>4. QED
      BY <2>1, <2>4, <3>3 DEF WorkerRow, SavedInv
  <2>5. CASE WorkerSeesEnd(DatabaseAnswers)
    <3>1. inProgress \in AllMigrations /\ MarkCompleted(inProgress)
      BY <2>5 DEF WorkerSeesEnd, Progress, AllMigrations
    <3>2. QED
      BY <2>1, <2>5, <3>1, MarkFacts DEF WorkerSeesEnd
  <2>6. CASE WorkerStops
    BY <2>1, <2>6 DEF WorkerStops, SavedInv
  <2>7. CASE SaveTimer
    BY <1>1, <2>1, <2>7 DEF SaveTimer, SavedInv, Files
  <2>8. QED
    BY <2>1, <2>2, <2>3, <2>4, <2>5, <2>6, <2>7 DEF WorkerNext
<1>12. CASE UNCHANGED vars
  BY <1>12 DEF vars, migrationVars, lifeVars, SavedInv
<1>13. QED
  BY <1>2, <1>3, <1>4, <1>5, <1>6, <1>7, <1>8, <1>9, <1>10, <1>11, <1>12 DEF Next

-----------------------------------------------------------------------------
(* With no page under way nothing is claimed of any row.                    *)
LEMMA NoPageInv ==
  ASSUME TableInv', page' = NoPage
  PROVE  PageInv'
<1>1. \A i \in DOMAIN table' : ~(i <= 0)
  BY DEF TableInv
<1>2. page'.at = "none" /\ page'.to = 0
      /\ page' \in [at : {"none", "read", "written"}, from : Nat, to : Nat, moves : SUBSET Nat, doomed : SUBSET Nat]
  BY DEF NoPage
<1>3. QED
  BY <1>1, <1>2 DEF PageInv

(* A step that leaves the rows alone, and the page or drops it.             *)
LEMMA TableKept ==
  ASSUME TableInv, PageInv, RekeyedWhenDone, table' = table, page' \in {page, NoPage},
         "rekey" \in ran' => "rekey" \in ran
  PROVE  TableInv' /\ PageInv' /\ RekeyedWhenDone'
<1>1. TableInv' /\ RekeyedWhenDone'
  BY DEF TableInv, RekeyedWhenDone, Found
<1>2. CASE page' = page
  <2>1. Paged' = Paged
    BY <1>2 DEF Paged
  <2>2. Misplaced(Paged)' = Misplaced(Paged)
    BY <2>1 DEF Misplaced, Target
  <2>3. Moves(Paged)' = Moves(Paged)
    BY <2>2 DEF Moves, Open, Target
  <2>4. {i \in Paged : Target(i) = 0}' = {i \in Paged : Target(i) = 0}
    BY <2>1 DEF Target
  <2>0. /\ page'.at = page.at /\ page'.to = page.to
        /\ page' \in [at : {"none", "read", "written"}, from : Nat, to : Nat, moves : SUBSET Nat, doomed : SUBSET Nat]
    BY <1>2 DEF PageInv
  <2>5. CASE page.at = "none"
    <3>1. \A i \in DOMAIN table' : i <= page'.to => Found(i)'
      BY <2>0, <2>5 DEF PageInv, Found
    <3>2. QED
      BY <1>1, <2>0, <2>5, <3>1 DEF PageInv
  <2>6. CASE page.at = "read"
    <3>1. page'.moves = Moves(Paged)'
      BY <1>2, <2>3, <2>6 DEF PageInv
    <3>2. page'.doomed = Misplaced(Paged)' \union {i \in Paged : Target(i) = 0}'
      BY <1>2, <2>2, <2>4, <2>6 DEF PageInv
    <3>3. \A i \in DOMAIN table' : i <= page'.from => Found(i)'
      BY <1>2, <2>6 DEF PageInv, Found
    <3>4. QED
      BY <1>1, <2>0, <2>6, <3>1, <3>2, <3>3 DEF PageInv
  <2>7. CASE page.at = "written"
    <3>1. \A i \in DOMAIN table' : i <= page'.to => Found(i)' \/ i \in page'.doomed
      BY <1>2, <2>7 DEF PageInv, Found
    <3>2. \A i \in page'.doomed \intersect DOMAIN table' :
            ~Found(i)' /\ (Target(i)' = 0 \/ Target(i)' \in DOMAIN table' \ page'.doomed)
      BY <1>2, <2>7 DEF PageInv, Found, Target
    <3>3. QED
      BY <1>1, <2>0, <2>7, <3>1, <3>2 DEF PageInv
  <2>8. page.at \in {"none", "read", "written"}
    BY DEF PageInv
  <2>9. QED
    BY <2>5, <2>6, <2>7, <2>8
<1>3. CASE page' = NoPage
  BY <1>1, <1>3, NoPageInv
<1>4. QED
  BY <1>1, <1>2, <1>3

LEMMA RekeyReadsInv ==
  ASSUME TableInv, PageInv, RekeyedWhenDone, NEW readable \in BOOLEAN, RekeyReads(readable)
  PROVE  TableInv' /\ PageInv' /\ RekeyedWhenDone'
<1> DEFINE ids == PageRows(page.to)
<1>1. /\ table' = table /\ ran' = ran /\ page.at = "none" /\ ids # {}
      /\ page' = [at |-> "read", from |-> page.to, to |-> Last(ids), moves |-> Moves(ids),
                  doomed |-> Misplaced(ids) \union {i \in ids : Target(i) = 0}]
  BY DEF RekeyReads
<1>2. page.to \in Nat
  BY DEF PageInv
<1>3. Last(ids) \in Nat /\ ids = {i \in DOMAIN table : page.to < i /\ i <= Last(ids)}
  BY <1>1, <1>2, PageRowsFacts
<1> HIDE DEF ids
<1>4. ids \subseteq Nat /\ Moves(ids) \subseteq Nat /\ Misplaced(ids) \subseteq Nat
  BY <1>3 DEF TableInv, Moves, Misplaced
<1>5. page'.from = page.to /\ page'.to = Last(ids)
      /\ page' \in [at : {"none", "read", "written"}, from : Nat, to : Nat, moves : SUBSET Nat, doomed : SUBSET Nat]
  BY <1>1, <1>2, <1>3, <1>4
<1>6. Paged' = ids
  BY <1>1, <1>3, <1>5 DEF Paged
<1>7. /\ page'.at = "read" /\ page'.moves = Moves(Paged)'
      /\ page'.doomed = Misplaced(Paged)' \union {i \in Paged' : Target(i)' = 0}
  BY <1>1, <1>6 DEF Moves, Misplaced, Open, Target
<1>8. \A i \in DOMAIN table' : i <= page'.from => Found(i)'
  BY <1>1, <1>5 DEF PageInv, Found
<1>9. QED
  BY <1>1, <1>5, <1>7, <1>8 DEF TableInv, PageInv, RekeyedWhenDone, Found

LEMMA RekeyWritesInv ==
  ASSUME TableInv, PageInv, RekeyedWhenDone, NEW readable \in BOOLEAN, RekeyWrites(readable)
  PROVE  /\ TableInv' /\ PageInv' /\ RekeyedWhenDone'
         /\ \A i \in DOMAIN table : i \in DOMAIN table' /\ table'[i].hash = table[i].hash
<1>1. page.at = "read" /\ table' = Moved(page.moves) /\ page' = [page EXCEPT !.at = "written"] /\ ran' = ran
  BY DEF RekeyWrites
<1>2. Paged \in SUBSET DOMAIN table
  BY DEF Paged
<1>3. /\ page.moves = Moves(Paged)
      /\ page.doomed = Misplaced(Paged) \union {i \in Paged : Target(i) = 0}
      /\ \A i \in DOMAIN table : i <= page.from => Found(i)
      /\ page \in [at : {"none", "read", "written"}, from : Nat, to : Nat, moves : SUBSET Nat, doomed : SUBSET Nat]
  BY <1>1 DEF PageInv
<1>4. /\ page.moves \in SUBSET DOMAIN table
      /\ \A m \in page.moves : Target(m) # 0 /\ Open(m)
      /\ \A i \in Misplaced(Paged) : Open(i) => \E m \in page.moves : Target(m) = Target(i)
  BY <1>2, <1>3, MovesFacts
<1>5. /\ DOMAIN table' = DOMAIN table \union {Target(m) : m \in page.moves}
      /\ \A x \in DOMAIN table' : table'[x] \in Row
      /\ \A x \in DOMAIN table : table'[x].hash = table[x].hash
      /\ \A m \in page.moves : DerivedId[table'[Target(m)].hash] = Target(m)
  BY <1>1, <1>4, MovedFacts
<1>6. /\ \A i \in DOMAIN table : (Found(i)' <=> Found(i)) /\ Target(i)' = Target(i)
      /\ \A x \in {Target(m) : m \in page.moves} : Found(x)'
  BY <1>5 DEF Found, Target
<1>7. TableInv'
  <2> DEFINE f == [m \in page.moves |-> Target(m)]
  <2>1. IsFiniteSet(page.moves)
    BY <1>4, FS_Subset DEF TableInv
  <2>2. f \in Surjection(page.moves, {Target(m) : m \in page.moves})
    BY DEF Surjection
  <2>3. IsFiniteSet({Target(m) : m \in page.moves})
    BY <2>1, <2>2, FS_Surjection
  <2>4. IsFiniteSet(DOMAIN table')
    <3> DEFINE moved == {Target(m) : m \in page.moves}
    <3>1. IsFiniteSet(moved) /\ DOMAIN table' = DOMAIN table \union moved
      BY <1>5, <2>3
    <3> HIDE DEF moved
    <3>2. IsFiniteSet(DOMAIN table \union moved)
      BY <3>1, FS_Union DEF TableInv
    <3>3. QED
      BY <3>1, <3>2
  <2>5. DOMAIN table' \subseteq Nat \ {0}
    BY <1>4, <1>5, TargetFacts DEF TableInv
  <2>6. \A i \in DOMAIN table' : Found(i)' \/ \A h \in Hashes : DerivedId[h] # i
    BY <1>5, <1>6 DEF TableInv
  <2>7. QED
    BY <1>5, <2>4, <2>5, <2>6 DEF TableInv
<1>8. /\ page'.at = "written" /\ page'.to = page.to /\ page'.doomed = page.doomed
      /\ page' \in [at : {"none", "read", "written"}, from : Nat, to : Nat, moves : SUBSET Nat, doomed : SUBSET Nat]
  BY <1>1, <1>3
<1>9. ASSUME NEW i \in DOMAIN table', i <= page'.to PROVE Found(i)' \/ i \in page'.doomed
  <2>1. CASE i \in DOMAIN table
    <3>1. i \in Nat /\ page.from \in Nat
      BY <1>3, <2>1 DEF TableInv
    <3>2. CASE i <= page.from
      BY <1>3, <1>6, <2>1, <3>2
    <3>3. CASE page.from < i
      <4>1. i \in Paged
        BY <1>8, <1>9, <2>1, <3>3 DEF Paged
      <4>2. Target(i) = 0 \/ Target(i) = i \/ i \in Misplaced(Paged)
        BY <4>1 DEF Misplaced
      <4>3. QED
        BY <1>3, <1>6, <1>8, <2>1, <4>1, <4>2, TargetFacts
    <3>4. QED
      BY <3>1, <3>2, <3>3
  <2>2. CASE i \notin DOMAIN table
    BY <1>5, <1>6, <2>2
  <2>3. QED
    BY <2>1, <2>2
<1>10. ASSUME NEW i \in page.doomed
       PROVE  ~Found(i)' /\ (Target(i)' = 0 \/ Target(i)' \in DOMAIN table' \ page.doomed)
  <2>1. i \in DOMAIN table /\ ~Found(i)
    BY <1>2, <1>3, <1>10, TargetFacts DEF Misplaced
  <2>2. CASE Target(i) = 0
    BY <1>6, <2>1, <2>2
  <2>3. CASE Target(i) # 0
    <3>1. i \in Misplaced(Paged)
      BY <1>3, <1>10, <2>3
    <3>2. \A x \in page.doomed : ~Found(x) /\ x \in DOMAIN table
      BY <1>2, <1>3, TargetFacts DEF Misplaced
    <3>3. CASE Open(i)
      <4>1. PICK m \in page.moves : Target(m) = Target(i)
        BY <1>4, <3>1, <3>3
      <4>2. Target(i) \in DOMAIN table'
        BY <1>5, <1>6, <4>1
      <4>3. Target(i) \notin page.doomed
        <5> DEFINE x == Target(i)
        <5>1. DerivedId[table'[x].hash] = x
          BY <1>5, <4>1
        <5>2. x \in page.doomed => x \in DOMAIN table /\ DerivedId[table[x].hash] # x
          BY <3>2 DEF Found
        <5>3. QED
          BY <1>5, <5>1, <5>2
      <4>4. QED
        BY <1>6, <2>1, <4>2, <4>3
    <3>4. CASE ~Open(i)
      <4>1. Target(i) \in DOMAIN table
        BY <3>4 DEF Open
      <4>2. table[i].hash \in Hashes /\ DerivedId[table[i].hash] = Target(i)
        BY <2>1, TargetFacts DEF Target
      <4>3. Found(Target(i))
        BY <4>1, <4>2 DEF TableInv
      <4>4. QED
        BY <1>5, <1>6, <2>1, <3>2, <4>1, <4>3
    <3>5. QED
      BY <3>3, <3>4
  <2>4. QED
    BY <2>2, <2>3
<1>11. PageInv'
  BY <1>8, <1>9, <1>10 DEF PageInv
<1>12. RekeyedWhenDone'
  BY <1>1, <1>5, <1>6 DEF RekeyedWhenDone, Found
<1>13. QED
  BY <1>5, <1>7, <1>11, <1>12

(* Deleting rows keeps the others as they are.                              *)
LEMMA RowsDeleted ==
  ASSUME TableInv, NEW gone, table' = [i \in DOMAIN table \ gone |-> table[i]]
  PROVE  /\ TableInv'
         /\ DOMAIN table' = DOMAIN table \ gone
         /\ \A i \in DOMAIN table' : table'[i] = table[i] /\ Found(i)' = Found(i)
<1>1. /\ DOMAIN table' = DOMAIN table \ gone
      /\ \A i \in DOMAIN table' : table'[i] = table[i]
  OBVIOUS
<1>2. \A i \in DOMAIN table' : Found(i)' = Found(i)
  BY <1>1 DEF Found
<1>3. IsFiniteSet(DOMAIN table')
  BY <1>1, FS_Subset DEF TableInv
<1>4. QED
  BY <1>1, <1>2, <1>3 DEF TableInv

LEMMA RekeyDeletesInv ==
  ASSUME TableInv, PageInv, RekeyedWhenDone, NEW readable \in BOOLEAN, RekeyDeletes(readable)
  PROVE  TableInv' /\ PageInv' /\ RekeyedWhenDone'
<1>1. /\ page.at = "written" /\ table' = [i \in DOMAIN table \ page.doomed |-> table[i]]
      /\ page' = [NoPage EXCEPT !.to = page.to] /\ ran' = ran
  BY DEF RekeyDeletes
<1>2. /\ TableInv' /\ DOMAIN table' = DOMAIN table \ page.doomed
      /\ \A i \in DOMAIN table' : table'[i] = table[i] /\ Found(i)' = Found(i)
  BY <1>1, RowsDeleted
<1>3. page'.at = "none" /\ page'.to = page.to
      /\ page' \in [at : {"none", "read", "written"}, from : Nat, to : Nat, moves : SUBSET Nat, doomed : SUBSET Nat]
  BY <1>1 DEF NoPage, PageInv
<1>4. \A i \in DOMAIN table' : i <= page'.to => Found(i)'
  BY <1>1, <1>2, <1>3 DEF PageInv
<1>5. PageInv'
  BY <1>3, <1>4 DEF PageInv
<1>6. RekeyedWhenDone'
  BY <1>1, <1>2 DEF RekeyedWhenDone, Found
<1>7. QED
  BY <1>2, <1>5, <1>6

LEMMA RekeyEndsInv ==
  ASSUME TableInv, PageInv, RekeyedWhenDone, NEW readable \in BOOLEAN, RekeyEnds(readable)
  PROVE  TableInv' /\ PageInv' /\ RekeyedWhenDone'
<1>1. page.at = "none" /\ PageRows(page.to) = {} /\ page.to \in Nat /\ page' = NoPage /\ table' = table
  BY DEF RekeyEnds, Exhausted, PageInv
<1>2. \A i \in DOMAIN table : i <= page.to
  BY <1>1, PageRowsFacts
<1>3. \A i \in DOMAIN table : Found(i)
  BY <1>1, <1>2 DEF PageInv
<1>4. TableInv' /\ RekeyedWhenDone'
  BY <1>1, <1>3 DEF TableInv, RekeyedWhenDone, Found
<1>5. \A i \in DOMAIN table' : ~(i <= 0)
  BY <1>1 DEF TableInv
<1>6. PageInv'
  BY <1>1, <1>5 DEF PageInv, NoPage
<1>7. QED
  BY <1>4, <1>6

(* A row the background thread takes up is settled, passed over or purged;  *)
(* the re-keying is not under way.                                          *)
LEMMA WorkerRowFacts ==
  ASSUME TableInv, NEW answers \in BOOLEAN, WorkerRow(answers)
  PROVE  \E i \in Ahead :
           \/ table' = table
           \/ inProgress = "purge" /\ table' = [x \in DOMAIN table \ {i} |-> table[x]]
           \/ /\ DOMAIN table' = DOMAIN table
              /\ \A x \in DOMAIN table : table'[x] \in Row /\ table'[x].hash = table[x].hash
<1>1. Ahead # {} /\ Ahead \in SUBSET Nat
  BY DEF WorkerRow, Ahead, TableInv
<1> DEFINE i == CHOOSE x \in Ahead : \A y \in Ahead : x <= y
<1>2. i \in Ahead /\ i \in DOMAIN table
  <2>1. \E x \in Ahead : \A y \in Ahead : x <= y
    BY <1>1, HasLeast
  <2>2. QED
    BY <2>1 DEF Ahead
<1>3. table' = IF ~Found(i) THEN table
               ELSE IF inProgress = "purge" THEN [x \in DOMAIN table \ {i} |-> table[x]]
               ELSE [table EXCEPT ![i].type = IF @ = "stale" THEN "settled" ELSE @]
  BY DEF WorkerRow
<1> HIDE DEF i
<1>4. ASSUME table' = [table EXCEPT ![i].type = IF @ = "stale" THEN "settled" ELSE @]
      PROVE  /\ DOMAIN table' = DOMAIN table
             /\ \A x \in DOMAIN table : table'[x] \in Row /\ table'[x].hash = table[x].hash
  <2>1. table[i] \in Row
    BY <1>2 DEF TableInv
  <2>2. /\ DOMAIN table' = DOMAIN table
        /\ \A x \in DOMAIN table : x # i => table'[x] = table[x]
        /\ table'[i] = [table[i] EXCEPT !.type = IF table[i].type = "stale" THEN "settled" ELSE table[i].type]
    BY <1>2, <1>4
  <2>3. table'[i] \in Row /\ table'[i].hash = table[i].hash
    BY <2>1, <2>2 DEF Row
  <2>4. QED
    BY <2>2, <2>3 DEF TableInv
<1>5. QED
  BY <1>2, <1>3, <1>4

LEMMA WorkerRowInv ==
  ASSUME TableInv, PageInv, PhaseInv, RekeyedWhenDone, NEW answers \in BOOLEAN, WorkerRow(answers)
  PROVE  TableInv' /\ PageInv' /\ RekeyedWhenDone'
<1>1. page = NoPage /\ page' = page /\ ran' = ran
  BY DEF WorkerRow, PhaseInv
<1>2. PICK i \in Ahead :
           \/ table' = table
           \/ inProgress = "purge" /\ table' = [x \in DOMAIN table \ {i} |-> table[x]]
           \/ /\ DOMAIN table' = DOMAIN table
              /\ \A x \in DOMAIN table : table'[x] \in Row /\ table'[x].hash = table[x].hash
  BY WorkerRowFacts
<1>3. /\ TableInv' /\ DOMAIN table' \subseteq DOMAIN table
      /\ \A x \in DOMAIN table' : Found(x)' = Found(x)
  <2>1. CASE table' = table
    BY <2>1 DEF TableInv, Found
  <2>2. CASE table' = [x \in DOMAIN table \ {i} |-> table[x]]
    BY <2>2, RowsDeleted
  <2>3. CASE /\ DOMAIN table' = DOMAIN table
             /\ \A x \in DOMAIN table : table'[x] \in Row /\ table'[x].hash = table[x].hash
    BY <2>3 DEF TableInv, Found
  <2>4. QED
    BY <1>2, <2>1, <2>2, <2>3
<1>4. PageInv'
  <2>1. \A x \in DOMAIN table' : ~(x <= 0)
    BY <1>3 DEF TableInv
  <2>2. QED
    BY <1>1, <2>1 DEF PageInv, NoPage
<1>5. QED
  BY <1>1, <1>3, <1>4 DEF RekeyedWhenDone, Found

-----------------------------------------------------------------------------
LEMMA AnswersIsBoolean == DatabaseAnswers \in BOOLEAN
BY DEF DatabaseAnswers

(* The steps that touch no row, whatever else they do.                      *)
LEMMA RowsAlone ==
  ASSUME ServiceInv,
         \/ Launch \/ Start \/ Started \/ Waited \/ ComeUp \/ Stop
         \/ Destroy \/ Exit \/ Kill \/ ManticoreMoves \/ UNCHANGED vars
         \/ MigrationMoves /\ ~ WorkerRow(DatabaseAnswers)
         \/ Migrate /\ SyncOther
  PROVE  table' = table /\ page' \in {page, NoPage} /\ ("rekey" \in ran' => "rekey" \in ran)
<1>1. CASE Launch
  BY <1>1 DEF Launch, LoadMigrations
<1>2. CASE Start \/ Started \/ Waited
  BY <1>2 DEF Start, Started, Waited, migrationVars
<1>3. CASE Stop \/ Exit \/ ManticoreMoves
  BY <1>3 DEF Stop, Exit, ManticoreMoves, migrationVars
<1>4. CASE ComeUp
  BY <1>4 DEF ComeUp, StartAsyncMigrations
<1>5. CASE Destroy
  BY <1>5 DEF Destroy, RequestStop
<1>6. CASE Kill
  BY <1>6 DEF Kill, MigrationsKilled
<1>7. CASE UNCHANGED vars
  BY <1>7 DEF vars, migrationVars
<1>8. CASE MigrationMoves /\ ~ WorkerRow(DatabaseAnswers)
  <2>1. CASE WorkerBegins \/ WorkerEnds \/ WorkerStops \/ SaveTimer
    BY <2>1 DEF WorkerBegins, WorkerEnds, WorkerStops, SaveTimer
  <2>2. CASE WorkerSeesEnd(DatabaseAnswers)
    <3>1. ran' = ran \union {inProgress} /\ inProgress # "rekey"
      BY <2>2 DEF WorkerSeesEnd, MarkCompleted, ServiceInv, Progress
    <3>2. QED
      BY <2>2, <3>1 DEF WorkerSeesEnd
  <2>3. QED
    BY <1>8, <2>1, <2>2 DEF MigrationMoves, WorkerNext
<1>9. CASE SyncOther
  BY <1>9 DEF SyncOther, MarkCompleted
<1>10. QED
  BY <1>1, <1>2, <1>3, <1>4, <1>5, <1>6, <1>7, <1>8, <1>9

LEMMA TableStep ==
  ASSUME ServiceInv, PhaseInv, TableInv, PageInv, RekeyedWhenDone, [Next]_vars
  PROVE  TableInv' /\ PageInv' /\ RekeyedWhenDone'
<1>1. CASE \/ Launch \/ Start \/ Started \/ Waited \/ ComeUp \/ Stop
           \/ Destroy \/ Exit \/ Kill \/ ManticoreMoves \/ UNCHANGED vars
           \/ MigrationMoves /\ ~ WorkerRow(DatabaseAnswers)
           \/ Migrate /\ SyncOther
  BY <1>1, RowsAlone, TableKept
<1>2. CASE WorkerRow(DatabaseAnswers)
  BY <1>2, AnswersIsBoolean, WorkerRowInv
<1>3. CASE RekeyReads(DatabaseAnswers)
  BY <1>3, AnswersIsBoolean, RekeyReadsInv
<1>4. CASE RekeyWrites(DatabaseAnswers)
  BY <1>4, AnswersIsBoolean, RekeyWritesInv
<1>5. CASE RekeyDeletes(DatabaseAnswers)
  BY <1>5, AnswersIsBoolean, RekeyDeletesInv
<1>6. CASE RekeyEnds(DatabaseAnswers)
  BY <1>6, AnswersIsBoolean, RekeyEndsInv
<1>7. QED
  BY <1>1, <1>2, <1>3, <1>4, <1>5, <1>6 DEF Next, Migrate, SyncMigrations

(* Where a row that is there now may have gone in a step.                   *)
GoesRight(i) ==
  \/ \E j \in DOMAIN table' : table'[j].hash = table[i].hash
  \/ DerivedId[table[i].hash] = 0
  \/ inProgress = "purge" /\ table[i].type = "unknown"
  \/ i # DerivedId[table[i].hash] /\ DerivedId[table[i].hash] \in DOMAIN table'

LEMMA RowsGoRight ==
  ASSUME ServiceInv, PhaseInv, TableInv, PageInv, RekeyedWhenDone, [Next]_vars,
         NEW i \in DOMAIN table
  PROVE  GoesRight(i)
<1> USE DEF GoesRight
<1>1. CASE table' = table
  BY <1>1
<1>2. CASE RekeyWrites(DatabaseAnswers)
  BY <1>2, AnswersIsBoolean, RekeyWritesInv
<1>3. CASE RekeyDeletes(DatabaseAnswers)
  <2>1. page.at = "written" /\ table' = [x \in DOMAIN table \ page.doomed |-> table[x]]
    BY <1>3 DEF RekeyDeletes
  <2>2. CASE i \notin page.doomed
    BY <2>1, <2>2
  <2>3. CASE i \in page.doomed
    <3>1. ~Found(i) /\ (Target(i) = 0 \/ Target(i) \in DOMAIN table \ page.doomed)
      BY <2>1, <2>3 DEF PageInv
    <3>2. QED
      BY <2>1, <3>1 DEF Found, Target
  <2>4. QED
    BY <2>2, <2>3
<1>4. CASE WorkerRow(DatabaseAnswers)
  <2>1. PICK k \in Ahead :
           \/ table' = table
           \/ inProgress = "purge" /\ table' = [x \in DOMAIN table \ {k} |-> table[x]]
           \/ /\ DOMAIN table' = DOMAIN table
              /\ \A x \in DOMAIN table : table'[x] \in Row /\ table'[x].hash = table[x].hash
    BY <1>4, AnswersIsBoolean, WorkerRowFacts
  <2>2. CASE inProgress = "purge" /\ table' = [x \in DOMAIN table \ {k} |-> table[x]]
    BY <2>2 DEF Ahead
  <2>3. QED
    BY <2>1, <2>2
<1>5. CASE RekeyReads(DatabaseAnswers) \/ RekeyEnds(DatabaseAnswers)
  BY <1>1, <1>5 DEF RekeyReads, RekeyEnds
<1>6. QED
  BY <1>1, <1>2, <1>3, <1>4, <1>5, RowsAlone DEF Next, Migrate, SyncMigrations

-----------------------------------------------------------------------------
LEMMA LifecycleStarts == Init => LifecycleInv
<1> SUFFICES ASSUME Init PROVE LifecycleInv
  OBVIOUS
<1> USE DEF Init
<1>1. ManticoreTypeOK /\ SearchdInv
  BY DEF ManticoreInit, ManticoreTypeOK, SearchdInv
<1>2. SavedInv
  BY NoFileFacts DEF MigrationInit, SavedInv
<1>3. ServiceInv /\ PhaseInv
  <2>1. launches \in 0..MaxLaunches
    BY LaunchesAssumption
  <2>2. QED
    BY <2>1 DEF MigrationInit, ServiceInv, PhaseInv, Progress
<1>4. TableInv
  <2>1. CASE table = OldRows
    BY <2>1, IdsAreApart DEF TableInv, Found
  <2>2. CASE table = [i \in {} |-> 0]
    BY <2>2, FS_EmptySet DEF TableInv
  <2>3. QED
    BY <2>1, <2>2 DEF MigrationInit
<1>5. page = NoPage /\ "rekey" \notin ran
  BY DEF MigrationInit
<1>6. PageInv
  <2>1. \A i \in DOMAIN table : ~(i <= 0)
    BY <1>4 DEF TableInv
  <2>2. page.at = "none" /\ page.to = 0
        /\ page \in [at : {"none", "read", "written"}, from : Nat, to : Nat, moves : SUBSET Nat, doomed : SUBSET Nat]
    BY <1>5 DEF NoPage
  <2>3. QED
    BY <2>1, <2>2 DEF PageInv
<1>7. QED
  BY <1>1, <1>2, <1>3, <1>4, <1>5, <1>6 DEF LifecycleInv, RekeyedWhenDone

LEMMA LifecycleGoesOn == LifecycleInv /\ [Next]_vars => LifecycleInv'
<1> SUFFICES ASSUME LifecycleInv, [Next]_vars PROVE LifecycleInv'
  OBVIOUS
<1> USE DEF LifecycleInv
<1>1. ManticoreTypeOK' /\ SearchdInv'
  BY SearchdStep
<1>2. ServiceInv' /\ SavedInv' /\ PhaseInv'
  BY ServiceStep
<1>3. TableInv' /\ PageInv' /\ RekeyedWhenDone'
  BY TableStep
<1>4. QED
  BY <1>1, <1>2, <1>3

(* Whatever is launched, closed, killed or lost on the way, the program and *)
(* what it left on the disk stay within what the migrations rely on.        *)
THEOREM LifecycleInvariant == Spec => []LifecycleInv
<1>1. Init => LifecycleInv
  BY LifecycleStarts
<1>2. LifecycleInv /\ [Next]_vars => LifecycleInv'
  BY LifecycleGoesOn
<1>3. QED
  BY <1>1, <1>2, PTL DEF Spec

(* The variables of searchd, the migrations and main() keep their types.    *)
THEOREM LifecycleTypeCorrect == Spec => []LifecycleTypeOK
<1>1. LifecycleInv => LifecycleTypeOK
  <2> SUFFICES ASSUME LifecycleInv PROVE LifecycleTypeOK
    OBVIOUS
  <2>1. ManticoreTypeOK /\ app \in {"off", "built", "starting", "wait", "sync", "up", "stopped", "joining"}
        /\ launches \in 0..MaxLaunches
    BY DEF LifecycleInv, ServiceInv
  <2>2. MigrationTypeOK
    BY DEF LifecycleInv, ServiceInv, TableInv, PageInv, Progress, MigrationTypeOK
  <2>3. QED
    BY <2>1, <2>2 DEF LifecycleTypeOK
<1>2. QED
  BY <1>1, LifecycleInvariant, PTL

(* Application's stop and destructors leave no searchd of their own behind, *)
(* also those of a program that could not start.                            *)
THEOREM SearchdIsNeverLeft == Spec => []NoSearchdIsLeft
<1>1. LifecycleInv => NoSearchdIsLeft
  BY DEF LifecycleInv, SearchdInv, NoSearchdIsLeft
<1>2. QED
  BY <1>1, LifecycleInvariant, PTL

(* Once migrateRowIds() has ended a lookup by hash sees every row, for any  *)
(* page size and however often it was cut short and begun again.            *)
THEOREM RekeyIsComplete == Spec => []RekeyedWhenDone
<1>1. LifecycleInv => RekeyedWhenDone
  BY DEF LifecycleInv
<1>2. QED
  BY <1>1, LifecycleInvariant, PTL

(* No step of any program loses a torrent's row but for the reasons listed, *)
(* nor the binlog but after this launch's searchd has failed on it.         *)
THEOREM DataStaysKept == Spec => DataIsKept
<1>1. LifecycleInv /\ [Next]_vars => [resetDone' /\ ~resetDone => binlog = "damaged"]_manticoreVars
  BY BinlogStep DEF LifecycleInv
<1>2. LifecycleInv /\ [Next]_vars => [\A i \in DOMAIN table : GoesRight(i)]_table
  BY RowsGoRight DEF LifecycleInv
<1>3. Spec => BinlogIsKept
  BY <1>1, LifecycleInvariant, PTL DEF Spec, BinlogIsKept
<1>4. Spec => [][\A i \in DOMAIN table : GoesRight(i)]_table
  BY <1>2, LifecycleInvariant, PTL DEF Spec
<1>5. (\A i \in DOMAIN table : GoesRight(i)) =>
        \A i \in DOMAIN table :
          LET h == table[i].hash
          IN  \/ \E j \in DOMAIN table' : table'[j].hash = h
              \/ DerivedId[h] = 0
              \/ inProgress = "purge" /\ table[i].type = "unknown"
              \/ i # DerivedId[h] /\ DerivedId[h] \in DOMAIN table'
  BY DEF GoesRight
<1>6. Spec => NothingIsLost
  BY <1>4, <1>5, PTL DEF NothingIsLost
<1>7. QED
  BY <1>3, <1>6 DEF DataIsKept
=============================================================================
