------------------------------ MODULE Lifecycle ------------------------------
(* The life of the program, Application and main(): a launch takes the lock,
   brings over an Electron index, builds the services, starts Manticore, runs the
   blocking migrations, starts the rest and leaves the background migrations on
   their thread. A close stops Manticore first and joins that thread last. The
   program may be killed between any two steps and launched again. *)
EXTENDS Manticore, Migration
CONSTANT MaxLaunches       \* bound: programs in one behaviour
VARIABLES
    app,                   \* where main() is
    launches

ASSUME LaunchesAssumption == MaxLaunches \in Nat

lifeVars == <<app, launches>>
vars == <<manticoreVars, migrationVars, lifeVars>>

LifecycleTypeOK ==
    /\ ManticoreTypeOK /\ MigrationTypeOK
    /\ app \in {"off", "built", "starting", "wait", "sync", "up", "stopped", "joining"}
    /\ launches \in 0..MaxLaunches

Init == ManticoreInit /\ MigrationInit /\ app = "off" /\ launches = 0

----------------------------------------------------------------------------
\* tryAcquire() lets one program in; the lock of a killed one is taken over. An
\* Electron index is copied when there is none yet, which is where MigrationInit
\* begins. The constructors run, MigrationService's reads its file.
Launch ==
    /\ app = "off" /\ launches < MaxLaunches
    /\ app' = "built" /\ launches' = launches + 1
    /\ LoadMigrations
    /\ Fresh
    /\ UNCHANGED <<searchd, binlog, orphan>>

\* Application::start()
Start ==
    /\ app = "built"
    /\ StartManticore
    /\ app' = IF waiting' THEN "starting" ELSE IF status' = "Running" THEN "wait" ELSE "stopped"
    /\ UNCHANGED <<migrationVars, launches>>

\* manticore->start() has come back.
Started ==
    /\ app = "starting" /\ ~waiting
    /\ app' = IF monitored THEN "wait" ELSE "stopped"
    /\ UNCHANGED <<manticoreVars, migrationVars, launches>>

Waited ==
    /\ app = "wait"
    /\ SecondWait(DatabaseAnswers)
    /\ app' = IF DatabaseAnswers THEN "sync" ELSE "stopped"
    /\ UNCHANGED <<migrationVars, launches>>

Migrate ==
    /\ app = "sync"
    /\ SyncMigrations(DatabaseAnswers)
    /\ UNCHANGED <<manticoreVars, lifeVars>>

\* Done or failed, the program comes up: the feed, the transport, the crawler,
\* replication, the saved downloads, the background migrations, the HTTP server.
ComeUp ==
    /\ app = "sync"
    /\ SyncIsDone \/ SyncFails
    /\ StartAsyncMigrations
    /\ app' = "up"
    /\ UNCHANGED <<manticoreVars, launches>>

\* Application::stop(): the front ends and the sources, then Manticore. The
\* background migrations are not told.
Stop ==
    /\ app = "up"
    /\ StopManticore
    /\ app' = "stopped"
    /\ UNCHANGED <<migrationVars, launches>>

\* The destructors, of a program that failed to start as well: the migrations
\* are asked to end, Manticore goes when it has not gone.
Destroy ==
    /\ app = "stopped"
    /\ IF worker \in {"between", "body"}
       THEN RequestStop
       ELSE saved' = State(completed, inProgress, lastId) /\ UNCHANGED <<table, fresh, completed, inProgress, lastId, page, worker, stopRequested, ran>>
    /\ app' = "joining"
    /\ UNCHANGED <<manticoreVars, launches>>

Exit ==
    /\ app = "joining" /\ worker \in {"idle", "ended"}
    /\ StopManticore
    /\ app' = "off"
    /\ UNCHANGED <<migrationVars, launches>>

Kill ==
    /\ app # "off"
    /\ ManticoreKilled
    /\ \E torn \in BOOLEAN : MigrationsKilled(torn)
    /\ app' = "off"
    /\ UNCHANGED launches

ManticoreMoves == app # "off" /\ ManticoreNext /\ UNCHANGED <<migrationVars, lifeVars>>
MigrationMoves == WorkerNext(DatabaseAnswers) /\ UNCHANGED <<manticoreVars, lifeVars>>

Next ==
    \/ Launch \/ Start \/ Started \/ Waited \/ Migrate \/ ComeUp \/ Stop
    \/ Destroy \/ Exit \/ Kill \/ ManticoreMoves \/ MigrationMoves

\* What the event loop, main() and the worker's thread go on with by themselves;
\* nobody has to launch, close or kill the program.
Fairness ==
    /\ WF_vars(Started) /\ WF_vars(Waited) /\ WF_vars(Migrate) /\ WF_vars(ComeUp)
    /\ WF_vars(Destroy) /\ WF_vars(Exit) /\ WF_vars(MigrationMoves)

Spec == Init /\ [][Next]_vars /\ Fairness

----------------------------------------------------------------------------
\* A program that has ended, also one that could not start, leaves no searchd of
\* its own on the database directory: the next one could not open its tables.
NoSearchdIsLeft == app = "off" => searchd = "none"

\* A close comes to its end, whatever the worker was doing and whether the database
\* still answers it: main() waits for that thread.
ClosingEnds == app = "stopped" ~> app = "off"

\* Neither the index nor the log of what is not in it yet loses anything over
\* launches, closes and kills, but by a page that is done or a log that is blamed.
DataIsKept == BinlogIsKept /\ NothingIsLost
=============================================================================
