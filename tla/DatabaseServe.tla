---------------------------- MODULE DatabaseServe ----------------------------
(***************************************************************************)
(* The serving lane of DatabaseSyncService: what a node does for the peers *)
(* that ask for its database (services/database_sync_service.cpp).         *)
(*                                                                         *)
(* Every handler runs on the main thread and is one action.  The export    *)
(* of a snapshot runs on a worker; it ends in two steps, the worker's      *)
(* (WorkerEnds) and the completion it queued (OnSnapshotFinished), and any *)
(* handler may run between the two.  Peers are an environment: they ask,   *)
(* cancel, vanish and finish transfers when they like.                     *)
(***************************************************************************)
EXTENDS DatabaseSnapshot

CONSTANTS
  Peers,           \* the peers that may ask
  MaxServes,       \* kMaxConcurrentServes
  MaxSession       \* bound: requests each peer makes

ASSUME ServeAssumption ==
  /\ IsFiniteSet(Peers)
  /\ MaxServes \in Nat \ {0}
  /\ MaxSession \in Nat \ {0}

VARIABLES
  serves,          \* serves_: per peer, NoServe when it is not in the map
  job,             \* snapshotJob_ and its worker, see Jobs
  sharing,         \* sharingEnabled_
  limited,         \* peers asking again within kMinRequestIntervalMs
  lastSession,     \* the last session each peer put in a databaseRequest
  answered,        \* the last databaseRequest_response sent to each peer
  leftover         \* history: files a restart found besides the live one

serveVars == <<serves, job, sharing, limited, lastSession, answered, leftover>>
vars == <<snapshotVars, serveVars>>

NoSession == 0
Sessions == 1..MaxSession

(* struct Serve.  The transfer a serve owns is identified by its session:   *)
(* a serve offers one file, so sending stands for transferId != 0.          *)
NoServe == [session |-> NoSession, file |-> NoGen, waiting |-> FALSE, sending |-> FALSE]
WaitingServe(s) == [session |-> s, file |-> NoGen, waiting |-> TRUE, sending |-> FALSE]
SendingServe(s, g) == [session |-> s, file |-> g, waiting |-> FALSE, sending |-> TRUE]

(* "stopping" is a running export whose token is cancelled; "whole" and     *)
(* "failed" are results whose completion is still in the event queue.       *)
Jobs == {"none", "running", "stopping", "whole", "failed"}

Silence == [session |-> NoSession, kind |-> "none", file |-> NoGen]
Refusal(s) == [session |-> s, kind |-> "refused", file |-> NoGen]
ToldToWait(s) == [session |-> s, kind |-> "wait", file |-> NoGen]
ToldReady(s, g) == [session |-> s, kind |-> "ready", file |-> g]

Serving(ss) == {p \in Peers : ss[p].session # NoSession}
Waiters(ss) == {p \in Peers : ss[p].waiting}
InUse(ss) == {ss[p].file : p \in Peers} \ {NoGen}
Without(ss, gone) == [p \in Peers |-> IF p \in gone THEN NoServe ELSE ss[p]]

ServeInit ==
  /\ SnapshotInit
  /\ serves = [p \in Peers |-> NoServe]
  /\ job = "none"
  /\ sharing \in BOOLEAN
  /\ limited = {}
  /\ lastSession = [p \in Peers |-> NoSession]
  /\ answered = [p \in Peers |-> Silence]
  /\ leftover = {}

-----------------------------------------------------------------------------
(* pruneSnapshots(), with the serves ss.                                    *)
PruneSnapshots(files, ss) == Pruned(files, live, InUse(ss))

(* cancelSnapshotIfUnwanted(): j after it, with the serves ss.              *)
CancelIfUnwanted(j, ss) ==
  IF j = "running" /\ Waiters(ss) = {} THEN "stopping" ELSE j

(* dropServe() of every peer in gone.  Only the drop that makes room for a  *)
(* repeated request keeps the snapshot job whatever the waiters.            *)
DropServe(gone) ==
  /\ serves' = Without(serves, gone)
  /\ disk' = PruneSnapshots(disk, serves')
  /\ job' = CancelIfUnwanted(job, serves')

UnchangedSnapshot ==
  UNCHANGED <<generation, live, fresh, meta, named, halfWritten, metaState>>

-----------------------------------------------------------------------------
(* handlePeerRequest(): p opens session s, asking to continue generation    *)
(* have (NoGen: from nothing).  able: file transfer is up and the index is  *)
(* not empty.  room: the disk has space for an export.  sent: librats took  *)
(* the offer.                                                               *)
RefusedAtOnce(p, able) ==
  \/ ~sharing
  \/ ~able
  \/ p \in limited /\ serves[p].session = NoSession

(* The serve of an earlier session of p is dropped first.                   *)
Superseded(p) == Without(serves, {p})
DiskAfterSupersede(p) ==
  IF p \in Serving(serves) THEN PruneSnapshots(disk, Superseded(p)) ELSE disk

Busy(p) == Cardinality(Serving(Superseded(p))) >= MaxServes

(* The generation p can be served from at once: the one it names if it is   *)
(* still there, else the live one if fresh.                                 *)
ServableFile(p, have) ==
  LET wanted == PathForGeneration(have, DiskAfterSupersede(p)) IN
  IF wanted # NoGen THEN wanted ELSE IF fresh THEN live ELSE NoGen

(* offerSnapshot() for one peer.  Mutant: the answer names the live file.   *)
OfferSnapshotNamingLive(p, s, g, sent) ==
  /\ answered' = [answered EXCEPT ![p] = ToldReady(s, live)]
  /\ serves' = IF sent THEN [serves EXCEPT ![p] = SendingServe(s, g)] ELSE Superseded(p)
  /\ disk' = DiskAfterSupersede(p)
  /\ UNCHANGED <<job, temp>>
OfferSnapshot(p, s, g, sent) ==
  /\ answered' = [answered EXCEPT ![p] = ToldReady(s, g)]
  /\ serves' = IF sent THEN [serves EXCEPT ![p] = SendingServe(s, g)] ELSE Superseded(p)
  /\ disk' = IF sent THEN DiskAfterSupersede(p)
                     ELSE PruneSnapshots(DiskAfterSupersede(p), Superseded(p))
  /\ job' = IF sent THEN job ELSE CancelIfUnwanted(job, Superseded(p))
  /\ UNCHANGED temp

(* ensureSnapshotJob() *)
EnsureSnapshotJob ==
  IF job = "none" THEN job' = "running" /\ temp' = "partial" ELSE UNCHANGED <<job, temp>>

JoinWaiters(p, s) ==
  /\ EnsureSnapshotJob
  /\ serves' = [serves EXCEPT ![p] = WaitingServe(s)]
  /\ disk' = DiskAfterSupersede(p)
  /\ answered' = [answered EXCEPT ![p] = ToldToWait(s)]

RefuseAfterDrop(p, s) ==
  /\ answered' = [answered EXCEPT ![p] = Refusal(s)]
  /\ serves' = Superseded(p)
  /\ disk' = DiskAfterSupersede(p)
  /\ UNCHANGED <<job, temp>>

HandlePeerRequest(p, s, have, able, room, sent) ==
  LET g == ServableFile(p, have) IN
  /\ lastSession' = [lastSession EXCEPT ![p] = s]
  /\ \/ /\ RefusedAtOnce(p, able)
        /\ answered' = [answered EXCEPT ![p] = Refusal(s)]
        /\ UNCHANGED <<serves, disk, job, temp, limited>>
     \/ /\ ~RefusedAtOnce(p, able) /\ Busy(p)
        /\ RefuseAfterDrop(p, s)
        /\ UNCHANGED limited
     \/ /\ ~RefusedAtOnce(p, able) /\ ~Busy(p)
        /\ limited' = limited \union {p}
        /\ \/ g # NoGen /\ OfferSnapshot(p, s, g, sent)
           \/ g = NoGen /\ (job # "none" \/ room) /\ JoinWaiters(p, s)
           \/ g = NoGen /\ job = "none" /\ ~room /\ RefuseAfterDrop(p, s)
  /\ UnchangedSnapshot
  /\ UNCHANGED <<sharing, leftover>>

(* The peer p has gone silent, or has stopped wanting what it was served.   *)
PeerLeaves(p) ==
  /\ serves[p].session # NoSession
  /\ DropServe({p})
  /\ answered' = [answered EXCEPT ![p] = Silence]
  /\ UnchangedSnapshot
  /\ UNCHANGED <<temp, sharing, limited, lastSession, leftover>>

(* handlePeerCancel(): a session that is not the served one is ignored.     *)
HandlePeerCancel(p, s) == serves[p].session = s /\ PeerLeaves(p)

OnPeerDisconnected(p) == PeerLeaves(p)

(* onTransferFinished(), the serving half: the outcome of p's transfer.     *)
OnTransferFinished(p) == serves[p].sending /\ PeerLeaves(p)

-----------------------------------------------------------------------------
(* The worker of the snapshot job: exporter.run() returns.  Once the token  *)
(* is cancelled it may still have passed its last look at it.               *)
(* Mutant: a cancelled export passes for a finished one.                    *)
WorkerEndsAlwaysWell(result) ==
  /\ job \in {"running", "stopping"}
  /\ job' = "whole"
  /\ temp' = IF result = "whole" THEN "whole" ELSE "partial"
  /\ UNCHANGED <<generation, live, fresh, disk, meta, named, halfWritten, metaState,
                 serves, sharing, limited, lastSession, answered, leftover>>
WorkerEnds(result) ==
  /\ job \in {"running", "stopping"}
  /\ job' = result
  /\ temp' = IF result = "whole" THEN "whole" ELSE "none"
  /\ UNCHANGED <<generation, live, fresh, disk, meta, named, halfWritten, metaState,
                 serves, sharing, limited, lastSession, answered, leftover>>

(* onSnapshotFinished() when commit() published: every waiter is offered    *)
(* the new generation.  unsent: librats refused the offer; down: file       *)
(* transfer was not available any more; write: how its metadata fared.      *)
(* Mutants: every peer is offered the new dump; the waiting flag stays.     *)
OfferToEveryone(unsent, down) ==
  /\ serves' = [p \in Peers |->
       IF serves[p].session = NoSession THEN NoServe ELSE SendingServe(serves[p].session, live')]
  /\ UNCHANGED answered
OfferStillWaiting(unsent, down) ==
  /\ serves' = [p \in Peers |->
       IF ~serves[p].waiting THEN serves[p]
       ELSE [SendingServe(serves[p].session, live') EXCEPT !.waiting = TRUE]]
  /\ UNCHANGED answered
OfferToWaiters(unsent, down) ==
  /\ serves' = [p \in Peers |->
       IF ~serves[p].waiting THEN serves[p]
       ELSE IF p \in unsent \union down THEN NoServe
       ELSE SendingServe(serves[p].session, live')]
  /\ answered' = [p \in Peers |->
       IF ~serves[p].waiting THEN answered[p]
       ELSE IF p \in down THEN Refusal(serves[p].session)
       ELSE ToldReady(serves[p].session, live')]

SnapshotPublished(unsent, down, write) ==
  /\ job = "whole" /\ CanCommit
  /\ Publish(write)
  /\ OfferToWaiters(unsent, down)
  /\ disk' = Pruned(disk \union {generation + 1}, live', InUse(serves))
  /\ job' = "none"
  /\ UNCHANGED <<sharing, limited, lastSession, leftover>>

(* ... and when the export or the commit failed: the waiters are dropped,   *)
(* and not told.                                                            *)
DropWaiters ==
  /\ serves' = Without(serves, Waiters(serves))
  /\ disk' = IF Waiters(serves) = {} THEN disk ELSE PruneSnapshots(disk, serves')
  /\ UNCHANGED answered

SnapshotFailed ==
  /\ \/ job = "failed" /\ temp' = "none"
        /\ UNCHANGED <<generation, live, fresh, meta, named, halfWritten, metaState>>
     \/ /\ job = "whole" /\ ~CanCommit
        /\ generation' = generation + 1
        /\ temp' = "none"
        /\ UNCHANGED <<live, fresh, meta, named, halfWritten, metaState>>
  /\ DropWaiters
  /\ job' = "none"
  /\ UNCHANGED <<sharing, limited, lastSession, leftover>>

OnSnapshotFinished(unsent, down, write) ==
  SnapshotPublished(unsent, down, write) \/ SnapshotFailed

(* rebuildSnapshot(): the user wants a new generation now.                  *)
RebuildSnapshot ==
  /\ job = "none"
  /\ EnsureSnapshotJob
  /\ UnchangedSnapshot
  /\ UNCHANGED <<disk, serves, sharing, limited, lastSession, answered, leftover>>

(* setSharingEnabled()                                                      *)
SetSharingEnabled(enabled) ==
  /\ sharing' = enabled
  /\ \/ enabled /\ UNCHANGED <<serves, disk, job>>
     \/ /\ ~enabled
        /\ serves' = Without(serves, Peers)
        /\ disk' = IF Serving(serves) = {} THEN disk ELSE PruneSnapshots(disk, serves')
        /\ job' = CancelIfUnwanted(job, serves')
  /\ UnchangedSnapshot
  /\ UNCHANGED <<temp, limited, lastSession, answered, leftover>>

(* kMinRequestIntervalMs has passed since p last asked.                     *)
RequestIntervalPasses(p) ==
  /\ p \in limited
  /\ limited' = limited \ {p}
  /\ UNCHANGED <<snapshotVars, serves, job, sharing, lastSession, answered, leftover>>

IndexDrifts == Drift /\ UNCHANGED serveVars

(* shutdown() or a crash, then a new process: every peer is disconnected,   *)
(* and an export in progress leaves its temporary file behind.              *)
NewProcess ==
  /\ serves' = [p \in Peers |-> NoServe]
  /\ job' = "none"
  /\ limited' = {}
  /\ answered' = [p \in Peers |-> Silence]
  /\ leftover' = disk' \ {live'}
  /\ UNCHANGED <<sharing, lastSession>>

ServeRestart(agrees) == Restart(agrees) /\ NewProcess

(* The crash hits onSnapshotFinished() in the middle of commit().           *)
DiesInsideCommit(truncated) ==
  job = "whole" /\ RestartInsideCommit(truncated) /\ NewProcess

-----------------------------------------------------------------------------
PeerStep(p) ==
  \/ /\ lastSession[p] < MaxSession
     /\ \E have \in {NoGen} \union disk, able, room, sent \in BOOLEAN :
          /\ room => generation < MaxGen
          /\ HandlePeerRequest(p, lastSession[p] + 1, have, able, room, sent)
  \/ \E s \in Sessions : HandlePeerCancel(p, s)
  \/ OnPeerDisconnected(p)
  \/ OnTransferFinished(p)
  \/ RequestIntervalPasses(p)

SnapshotStep ==
  \/ \E result \in {"whole", "failed"} : WorkerEnds(result)
  \/ \E unsent \in SUBSET Waiters(serves) :
       \E down \in SUBSET (Waiters(serves) \ unsent), write \in MetaWrites :
         OnSnapshotFinished(unsent, down, write)

Next ==
  \/ \E p \in Peers : PeerStep(p)
  \/ SnapshotStep
  \/ generation < MaxGen /\ RebuildSnapshot
  \/ \E enabled \in BOOLEAN : SetSharingEnabled(enabled)
  \/ IndexDrifts
  \/ \E agrees \in BOOLEAN : ServeRestart(agrees)
  \/ \E truncated \in BOOLEAN : DiesInsideCommit(truncated)

Spec == ServeInit /\ [][Next]_vars

-----------------------------------------------------------------------------
(* Types, and the shape of a Serve: it waits, or it has a file and sends.   *)
ServesOK(ss) ==
  /\ ss \in [Peers -> [session : Nat, file : Nat, waiting : BOOLEAN, sending : BOOLEAN]]
  /\ \A p \in Peers :
       /\ ss[p].session = NoSession => ss[p] = NoServe
       /\ ss[p].session # NoSession => ss[p].waiting # ss[p].sending
       /\ ss[p].sending <=> ss[p].file # NoGen

ServeTypeOK ==
  /\ SnapshotTypeOK
  /\ ServesOK(serves)
  /\ job \in Jobs
  /\ sharing \in BOOLEAN
  /\ limited \subseteq Peers
  /\ lastSession \in [Peers -> Nat]
  /\ answered \in [Peers -> [session : Nat, kind : {"none", "refused", "wait", "ready"}, file : Nat]]
  /\ leftover \subseteq Nat

(* A generation a peer is reading is on disk until that peer is done with   *)
(* it, however many are published, superseded, dropped and pruned meanwhile *)
(* ("the prune must not pull the file out from under it").                  *)
ReadersKeepTheirFile == InUse(serves) \subseteq disk

(* At most kMaxConcurrentServes peers hold a slot, waiting or receiving.    *)
SlotLimit == Cardinality(Serving(serves)) <= MaxServes

(* A peer in the map as waiting waits for something: an export, or the      *)
(* completion of one, that will offer it the dump, refuse it or drop it.    *)
WaitersHaveAJob == Waiters(serves) # {} => job # "none"

(* No generation was ever published from an export that did not reach its   *)
(* end, whether it failed, was cancelled or was cut off by a crash.         *)
OnlyWholeDumps == halfWritten = {}

(* Superseded dumps do not pile up: besides the live one and those being    *)
(* read, only files a previous process left behind may be on disk.          *)
NothingLeaks == disk \subseteq {live} \union InUse(serves) \union leftover

(* The generation named in the answer, which the peer keeps beside the      *)
(* bytes it receives, is the generation that session is sent.               *)
AnswerNamesTheFile ==
  \A p \in Peers :
    serves[p].sending /\ answered[p].session = serves[p].session
      => answered[p] = ToldReady(serves[p].session, serves[p].file)

(* A peer is sent one generation per session: publishing a newer one never  *)
(* redirects a transfer that is under way.                                  *)
OneDumpPerSession ==
  [][\A p \in Peers :
       serves[p].sending /\ serves'[p].session = serves[p].session
         => serves'[p] = serves[p]]_vars

-----------------------------------------------------------------------------
(* The disk and the records of it agree, through every prune, publication,  *)
(* crash and restart: the live file is there, so are those being read, no   *)
(* other is, and no name is given out twice unless a restart counted on     *)
(* from metadata that a publication failed to write.                        *)
FilesAreRight == LiveIsOnDisk /\ ReadersKeepTheirFile /\ NothingLeaks /\ CounterCoversNames

(* What peers are given: a slot within the limit, an export in hand for     *)
(* whoever waits, a whole dump, and the one that was named.  It says        *)
(* nothing of what a waiter hears; WaitersAreTold does.                     *)
ServesAreSound == SlotLimit /\ WaitersHaveAJob /\ OnlyWholeDumps /\ AnswerNamesTheFile

(* offerSnapshot(): "a failure before that point has to be said out loud:   *)
(* otherwise the requester sits out its whole deadline waiting for an       *)
(* answer that is never coming": once no export is in hand, to wait is not  *)
(* the last word any peer has heard from this node.                         *)
WaitersAreTold == job = "none" => \A p \in Peers : answered[p].kind # "wait"
=============================================================================
