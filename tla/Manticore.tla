------------------------------ MODULE Manticore ------------------------------
(* Manticore: the searchd process behind the index. start() attaches to one that
   is already there or launches its own and waits; a binlog searchd cannot replay
   is thrown away, once. A timer probes the connection; stop() ends what was
   launched. Unix: searchd stays in the foreground and outlives a program that is
   killed. Ports, paths and the generated configuration are left out. *)
VARIABLES
    status,                \* status_
    searchd,               \* the process this program launched
    external,              \* isExternalInstance_
    waiting,               \* start() is in waitForReady()
    monitored,             \* connectionCheckTimer_ is on
    resetDone,             \* binlogResetDone_
    blamed,                \* this launch's searchd could not replay the binlog
    binlog,                \* what the write-ahead log is worth
    orphan                 \* a searchd of a killed program serves the directory

manticoreVars == <<status, searchd, external, waiting, monitored, resetDone, blamed, binlog, orphan>>

ManticoreTypeOK ==
    /\ status \in {"Stopped", "Starting", "Running", "Error"}
    /\ searchd \in {"none", "starting", "serving"}
    /\ \A b \in {external, waiting, monitored, resetDone, blamed, orphan} : b \in BOOLEAN
    /\ binlog \in {"sound", "damaged"}

ManticoreInit ==
    /\ status = "Stopped" /\ searchd = "none" /\ external = FALSE /\ waiting = FALSE
    /\ monitored = FALSE /\ resetDone = FALSE /\ blamed = FALSE
    /\ binlog \in {"sound", "damaged"} /\ orphan = FALSE

\* Queries reach a server: the status is not asked.
DatabaseAnswers == searchd = "serving" \/ (external /\ orphan)

----------------------------------------------------------------------------
(* start() *)
\* launchSearchdProcess(): the blame starts over, older lines stay in the log.
Launches ==
    /\ status' = "Starting" /\ searchd' = "starting" /\ waiting' = TRUE
    /\ blamed' = FALSE

StartAttaches ==
    /\ orphan
    /\ status' = "Running" /\ external' = TRUE
    /\ resetDone' = FALSE
    /\ UNCHANGED <<searchd, waiting, monitored, blamed, binlog, orphan>>

\* No searchd, port, directory or driver, or the process does not start.
StartFails ==
    /\ status' = "Error" /\ resetDone' = FALSE
    /\ UNCHANGED <<searchd, external, waiting, monitored, blamed, binlog, orphan>>

StartLaunches ==
    /\ Launches /\ resetDone' = FALSE
    /\ UNCHANGED <<external, monitored, binlog, orphan>>

StartManticore == StartAttaches \/ StartFails \/ StartLaunches

\* searchd loads its tables; it cannot while another one holds them.
SearchdServes ==
    /\ searchd = "starting" /\ binlog = "sound" /\ ~orphan
    /\ searchd' = "serving"
    /\ UNCHANGED <<status, external, waiting, monitored, resetDone, blamed, binlog, orphan>>

\* It exits before or after it served. onProcessFinished() stops a running or
\* starting status, onProcessError() has made an error of a crash.
SearchdExits(crash) ==
    /\ searchd # "none"
    /\ searchd' = "none"
    /\ blamed' = (blamed \/ (searchd = "starting" /\ binlog = "damaged"))
    /\ status' = IF crash THEN "Error" ELSE IF status \in {"Running", "Starting"} THEN "Stopped" ELSE status
    /\ UNCHANGED <<external, waiting, monitored, resetDone, binlog, orphan>>

Ready ==
    /\ waiting /\ searchd = "serving"
    /\ status' = "Running" /\ waiting' = FALSE /\ monitored' = TRUE
    /\ UNCHANGED <<searchd, external, resetDone, blamed, binlog, orphan>>

\* binlogFailureReported(): what searchd.log says since this launch.
BinlogFailureReported == blamed

MayReset == ~resetDone /\ BinlogFailureReported

\* waitForReady() gives up: the process exited, or the time is over.
StillNotReady ==
    /\ waiting /\ searchd # "serving" /\ ~MayReset
    /\ status' = "Error" /\ waiting' = FALSE
    /\ UNCHANGED <<searchd, external, monitored, resetDone, blamed, binlog, orphan>>

\* The binlog is blamed for it: it goes, and searchd is launched again. Nothing is
\* retried when no file could be removed.
ResetBinlog(removed) ==
    /\ waiting /\ searchd # "serving" /\ MayReset
    /\ resetDone' = TRUE
    /\ IF removed
       THEN binlog' = "sound" /\ Launches
       ELSE /\ status' = "Error" /\ searchd' = "none" /\ waiting' = FALSE
            /\ UNCHANGED <<binlog, blamed>>
    /\ UNCHANGED <<external, monitored, orphan>>

\* Application::start() waits once more, which watches an external one as well.
SecondWait(answers) ==
    /\ status' = IF answers THEN "Running" ELSE "Error"
    /\ monitored' = (monitored \/ answers)
    /\ UNCHANGED <<searchd, external, waiting, resetDone, blamed, binlog, orphan>>

\* checkConnection(): one failed probe, whatever the reason, is an error for good.
ProbeFails ==
    /\ monitored /\ status = "Running"
    /\ status' = "Error"
    /\ UNCHANGED <<searchd, external, waiting, monitored, resetDone, blamed, binlog, orphan>>

----------------------------------------------------------------------------
\* Mutant: only a database known to run is shut down.
HasToStopRunning == status = "Running"

HasToStop == status # "Stopped"

StopManticore ==
    /\ monitored' = FALSE
    /\ status' = "Stopped"
    /\ searchd' = IF HasToStop /\ ~external THEN "none" ELSE searchd
    /\ UNCHANGED <<external, waiting, resetDone, blamed, binlog, orphan>>

\* A new program has a new object; what searchd and the disk hold stays.
Fresh ==
    /\ status' = "Stopped" /\ external' = FALSE /\ waiting' = FALSE
    /\ monitored' = FALSE /\ resetDone' = FALSE
    /\ blamed' = FALSE

\* The program is killed: its searchd lives on. Or the machine goes down, and the
\* binlog may end in the middle of a transaction.
ManticoreKilled ==
    /\ Fresh /\ searchd' = "none"
    /\ \/ orphan' = (orphan \/ searchd = "serving") /\ UNCHANGED binlog
       \/ orphan' = FALSE /\ binlog' \in {binlog, "damaged"}

\* Somebody ends the searchd left behind.
OrphanEnds ==
    /\ orphan /\ orphan' = FALSE
    /\ UNCHANGED <<status, searchd, external, waiting, monitored, resetDone, blamed, binlog>>

ManticoreNext ==
    \/ SearchdServes \/ Ready \/ StillNotReady \/ ProbeFails \/ OrphanEnds
    \/ \E b \in BOOLEAN : SearchdExits(b) \/ ResetBinlog(b)

----------------------------------------------------------------------------
\* The binlog holds what no table file has yet. It is thrown away only after the
\* searchd of this very launch has failed on it, and once per start.
BinlogIsKept == [][resetDone' /\ ~resetDone => binlog = "damaged"]_manticoreVars
=============================================================================
