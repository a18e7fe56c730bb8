----------------------------- MODULE DatabasePull -----------------------------
(***************************************************************************)
(* The user's lane of DatabaseSyncService: export to a file, import from a *)
(* file, and a pull of a peer's database that ends in an import            *)
(* (services/database_sync_service.cpp).                                   *)
(*                                                                         *)
(* Every handler runs on the main thread and is one action.  The lane has  *)
(* one operation at a time; its worker ends in two steps, the worker's own *)
(* (WorkerEnds) and the completion it queued (Completed), and any handler  *)
(* may run between the two.  Peers are an environment that answers, beats, *)
(* offers and vanishes when it likes; librats receives the file.           *)
(***************************************************************************)
EXTENDS Naturals, FiniteSets

CONSTANTS
  Peers,           \* the peers that may be asked
  NoPeer,          \* the peer of an operation on a local file
  MaxOps,          \* bound: operations the user starts
  MaxOffers,       \* bound: files the peers offer
  MaxDump          \* bound: different dumps they offer

ASSUME PullAssumption ==
  /\ NoPeer \notin Peers
  /\ MaxOps \in Nat /\ MaxOffers \in Nat /\ MaxDump \in Nat

VARIABLES
  op,              \* local_, NoOp when the lane is idle
  nextId,          \* nextOperationId_; an operation's session has its id
  workers,         \* the QtConcurrent workers whose completion has not run
  cancelled,       \* the operations whose CancelToken is set
  part,            \* incoming-<peer>.ratsdb.part: whose bytes, and all of them?
  note,            \* ... .part.json: which dump they are said to be
  received,        \* incoming-<peer>.ratsdb: the dump it holds
  incoming,        \* librats: the transfers it is receiving
  ended,           \* librats: transfers whose outcome is in the event queue
  offered,         \* the number of offers made so far; an offer's transfer id
  sent,            \* what the last step handed to librats
  succeeded,       \* history: the operations reported as a success
  failed,          \* history: those reported as a failure
  done             \* history: those whose worker did its whole work

pullVars == <<op, nextId, workers, cancelled, part, note, received, incoming, ended,
              offered, sent, succeeded, failed, done>>

(* Dumps are told apart by their size; a dump's name is its number.         *)
Nothing == 0
Dumps == 1..MaxDump
NoPart == [dump |-> Nothing, whole |-> FALSE]
NoNote == [name |-> Nothing, size |-> Nothing]

(* deadlineMs: none, just put at its full length, or some of it gone by.    *)
Deadlines == {"off", "set", "running"}

NoOp == [id |-> 0, kind |-> "none", peer |-> NoPeer, transfer |-> 0, deadline |-> "off",
         engaged |-> FALSE, snapshot |-> Nothing]
NewOp(i, kind, p, deadline) ==
  [id |-> i, kind |-> kind, peer |-> p, transfer |-> 0, deadline |-> deadline,
   engaged |-> FALSE, snapshot |-> Nothing]

(* remove is ImportOptions::removeWhenDone.                                 *)
Worker(i, kind, p, remove) ==
  [id |-> i, kind |-> kind, peer |-> p, remove |-> remove, end |-> "running"]
Running(i) == \E w \in workers : w.id = i /\ w.end = "running"

Request(p, s, have) == [type |-> "request", peer |-> p, id |-> s, dump |-> have]
Cancel(p, s) == [type |-> "cancel", peer |-> p, id |-> s, dump |-> Nothing]
CancelFile(p, t) == [type |-> "cancelFile", peer |-> p, id |-> t, dump |-> Nothing]
NoReject(p, t) == [type |-> "none", peer |-> p, id |-> t, dump |-> Nothing]
RejectFile(p, t) == [type |-> "rejectFile", peer |-> p, id |-> t, dump |-> Nothing]
AcceptFile(p, t) == [type |-> "acceptFile", peer |-> p, id |-> t, dump |-> Nothing]

PullInit ==
  /\ op = NoOp /\ nextId = 0 /\ workers = {} /\ cancelled = {}
  /\ part = [p \in Peers |-> NoPart]
  /\ note = [p \in Peers |-> NoNote]
  /\ received = [p \in Peers |-> Nothing]
  /\ incoming = {} /\ ended = {} /\ offered = 0 /\ sent = {}
  /\ succeeded = {} /\ failed = {} /\ done = {}

files == <<part, note, received>>
lane == <<op, nextId, workers, cancelled, succeeded, failed, done>>

-----------------------------------------------------------------------------
(* finishLocal() for the operation i.  Only the current one can finish.     *)
(* cancelFile() ends what librats was receiving for it.                     *)
(* Mutants: its transfer is not cancelled; no identity check.               *)
ReportUncancelled(success) ==
  /\ op' = NoOp /\ UNCHANGED incoming /\ sent' = {}
  /\ succeeded' = IF success THEN succeeded \union {op.id} ELSE succeeded
  /\ failed' = IF success THEN failed ELSE failed \union {op.id}
Report(success) ==
  /\ op' = NoOp
  /\ succeeded' = IF success THEN succeeded \union {op.id} ELSE succeeded
  /\ failed' = IF success THEN failed ELSE failed \union {op.id}
  /\ incoming' = {r \in incoming : ~(r.peer = op.peer /\ r.id = op.transfer)}
  /\ sent' = (IF op.transfer # 0 THEN {CancelFile(op.peer, op.transfer)} ELSE {})
       \union (IF op.engaged /\ ~success THEN {Cancel(op.peer, op.id)} ELSE {})
FinishAnybody(i, success) ==
  IF op # NoOp THEN Report(success)
  ELSE UNCHANGED <<op, succeeded, failed, incoming>> /\ sent' = {}
FinishLocal(i, success) ==
  IF op.id = i THEN Report(success)
  ELSE UNCHANGED <<op, succeeded, failed, incoming>> /\ sent' = {}

(* beginLocal() and the worker of an export or an import of a user's file.  *)
StartLocal(kind) ==
  /\ op = NoOp
  /\ nextId' = nextId + 1
  /\ op' = NewOp(nextId', kind, NoPeer, "off")
  /\ workers' = workers \union {Worker(nextId', kind, NoPeer, FALSE)}
  /\ sent' = {}
  /\ UNCHANGED <<cancelled, files, incoming, ended, offered, succeeded, failed, done>>

ExportToFile == StartLocal("export")
ImportFromFile == StartLocal("import")

(* The note and the partial agree that there is something to continue.      *)
Continuable(p) == note[p] # NoNote /\ part[p].dump # Nothing /\ ~part[p].whole

(* requestFromPeer().  reachable: librats took the message.                 *)
RequestFromPeer(p, reachable) ==
  /\ op = NoOp
  /\ nextId' = nextId + 1
  /\ IF reachable
     THEN /\ op' = NewOp(nextId', "pull", p, "set")
          /\ sent' = {Request(p, nextId', IF Continuable(p) THEN note[p].name ELSE Nothing)}
          /\ UNCHANGED failed
     ELSE /\ failed' = failed \union {nextId'}
          /\ sent' = {}
          /\ UNCHANGED op
  /\ UNCHANGED <<workers, cancelled, files, incoming, ended, offered, succeeded, done>>

(* cancel() *)
CancelOperation ==
  /\ op # NoOp
  /\ cancelled' = cancelled \union {op.id}
  /\ IF Running(op.id)
     THEN UNCHANGED <<op, succeeded, failed, incoming>> /\ sent' = {}
     ELSE FinishLocal(op.id, FALSE)
  /\ UNCHANGED <<nextId, workers, files, ended, offered, done>>

-----------------------------------------------------------------------------
(* The worker of runExport() or runImport() returns.  A set token may come  *)
(* too late to be noticed.                                                  *)
WorkerEnds(w, end) ==
  /\ w.end = "running"
  /\ end = "cancelled" => w.id \in cancelled
  /\ workers' = (workers \ {w}) \union {[w EXCEPT !.end = end]}
  /\ done' = IF end = "ok" THEN done \union {w.id} ELSE done
  /\ sent' = {}
  /\ UNCHANGED <<op, nextId, cancelled, files, incoming, ended, offered, succeeded, failed>>

(* The completion it queued.  An export looks at its token once more; an    *)
(* import that is whole removes the dump it was told to remove.             *)
Completed(w) ==
  /\ w.end # "running"
  /\ \A v \in workers : v.end # "running" => w.id <= v.id
  /\ workers' = workers \ {w}
  /\ received' = IF w.remove /\ w.end = "ok" THEN [received EXCEPT ![w.peer] = Nothing] ELSE received
  /\ FinishLocal(w.id, w.end = "ok" /\ (w.kind = "import" \/ w.id \notin cancelled))
  /\ UNCHANGED <<nextId, cancelled, part, note, ended, offered, done>>

-----------------------------------------------------------------------------
Pulling(p) == op.kind = "pull" /\ op.peer = p

(* An answer to an abandoned attempt is ignored, and one that comes after   *)
(* the file ("the file beat the answer here").                              *)
AwaitsAnswer(p, s) == Pulling(p) /\ s = op.id /\ op.transfer = 0

(* handlePeerResponse(): the answer to session s.  A ready one names the    *)
(* dump g that will be offered.  Mutant: it stops the deadline.             *)
AnswerStopsDeadline(p, s, kind, g) ==
  /\ AwaitsAnswer(p, s)
  /\ op' = [op EXCEPT !.snapshot = g, !.engaged = TRUE, !.deadline = "off"]
  /\ sent' = {}
  /\ UNCHANGED <<nextId, workers, cancelled, files, incoming, ended, offered, succeeded, failed, done>>
HandlePeerResponse(p, s, kind, g) ==
  /\ AwaitsAnswer(p, s)
  /\ IF kind = "refused"
     THEN FinishLocal(s, FALSE)
     ELSE /\ op' = [op EXCEPT !.snapshot = g, !.engaged = TRUE, !.deadline = "set"]
          /\ sent' = {}
          /\ UNCHANGED <<succeeded, failed, incoming>>
  /\ UNCHANGED <<nextId, workers, cancelled, files, ended, offered, done>>

(* handlePeerProgress(): a heartbeat of session s.                          *)
AwaitsBeat(p, s) == Pulling(p) /\ s = op.id
HandlePeerProgress(p, s) ==
  /\ AwaitsBeat(p, s)
  /\ op' = [op EXCEPT !.deadline = "set"]
  /\ sent' = {}
  /\ UNCHANGED <<nextId, workers, cancelled, files, incoming, ended, offered, succeeded, failed, done>>

(* startPullImport(): the same operation becomes an import.                 *)
(* Mutant: a deadline that was running stays.                               *)
ImportOnDeadline(p) ==
  /\ op' = [op EXCEPT !.kind = "import", !.transfer = 0]
  /\ workers' = workers \union {Worker(op.id, "import", p, TRUE)}
  /\ sent' = {}
  /\ UNCHANGED <<succeeded, failed, incoming>>
StartPullImport(p) ==
  /\ op' = [op EXCEPT !.kind = "import", !.transfer = 0, !.deadline = "off"]
  /\ workers' = workers \union {Worker(op.id, "import", p, TRUE)}
  /\ sent' = {}
  /\ UNCHANGED <<succeeded, failed, incoming>>

-----------------------------------------------------------------------------
(* onFileOffered(): p offers dump g as transfer t.  room: the disk has      *)
(* space; taken: librats accepts.  It continues the bytes it has if the     *)
(* note says they are the dump offered (offsetFor()); mutant: its name is   *)
(* enough.                                                                  *)
ResumesByName(p, g) ==
  Continuable(p) /\ op.snapshot # Nothing /\ note[p].name = op.snapshot
Resumes(p, g) ==
  Continuable(p) /\ op.snapshot # Nothing /\ note[p] = [name |-> op.snapshot, size |-> g]

(* Bytes that will not be continued are removed.                            *)
PartFor(p, g) == IF Resumes(p, g) THEN part ELSE [part EXCEPT ![p] = NoPart]

(* Without room the partial that is not continued is gone all the same, and *)
(* its note with it if there were bytes.                                    *)
NoteAfterDiscard(p, g) ==
  IF Resumes(p, g) \/ part[p] = NoPart THEN note ELSE [note EXCEPT ![p] = NoNote]
NoteFor(p, g) ==
  [note EXCEPT ![p] = IF op.snapshot = Nothing THEN NoNote
                      ELSE [name |-> op.snapshot, size |-> g]]

OnFileOffered(p, t, g, room, taken) ==
  /\ IF ~Pulling(p) \/ op.transfer # 0
     THEN /\ sent' = {RejectFile(p, t)}
          /\ UNCHANGED <<op, files, incoming, succeeded, failed>>
     ELSE /\ part' = PartFor(p, g)
          /\ note' = IF room THEN NoteFor(p, g) ELSE NoteAfterDiscard(p, g)
          /\ UNCHANGED received
          /\ IF room /\ taken
             THEN /\ op' = [op EXCEPT !.transfer = t, !.deadline = "off"]
                  /\ incoming' = incoming \union {[peer |-> p, id |-> t, dump |-> g]}
                  /\ sent' = {AcceptFile(p, t)}
                  /\ UNCHANGED <<succeeded, failed>>
             ELSE /\ op' = NoOp
                  /\ failed' = failed \union {op.id}
                  /\ sent' = (IF room THEN {} ELSE {RejectFile(p, t)})
                       \union (IF op.engaged THEN {Cancel(p, op.id)} ELSE {})
                  /\ UNCHANGED <<incoming, succeeded>>
  /\ UNCHANGED <<nextId, workers, cancelled, ended, done>>

(* librats writes what arrives behind what the partial holds.               *)
BytesArrive(r) ==
  /\ part' = [part EXCEPT ![r.peer] = [dump |-> r.dump, whole |-> FALSE]]
  /\ sent' = {}
  /\ UNCHANGED <<lane, note, received, incoming, ended, offered>>

(* librats is done with r: the whole file has its final name, or the        *)
(* transfer broke, perhaps with the last byte written (all).                *)
TransferEnds(r, success, all) ==
  /\ incoming' = incoming \ {r}
  /\ ended' = ended \union {[peer |-> r.peer, id |-> r.id, ok |-> success]}
  /\ part' = IF success THEN [part EXCEPT ![r.peer] = NoPart]
             ELSE IF all THEN [part EXCEPT ![r.peer] = [dump |-> r.dump, whole |-> TRUE]]
             ELSE part
  /\ received' = IF success THEN [received EXCEPT ![r.peer] = r.dump] ELSE received
  /\ sent' = {}
  /\ UNCHANGED <<lane, note, offered>>

(* onTransferFinished(), the receiving half.  The operation forgets the     *)
(* transfer before it finishes, so there is no file left to cancel.         *)
OnTransferFinished(e) ==
  /\ ended' = ended \ {e}
  /\ IF op.peer # e.peer \/ op.transfer # e.id
     THEN sent' = {} /\ UNCHANGED <<op, workers, note, incoming, succeeded, failed>>
     ELSE IF e.ok
     THEN StartPullImport(e.peer) /\ note' = [note EXCEPT ![e.peer] = NoNote]
     ELSE /\ op' = NoOp
          /\ failed' = failed \union {op.id}
          /\ sent' = IF op.engaged THEN {Cancel(op.peer, op.id)} ELSE {}
          /\ UNCHANGED <<workers, note, incoming, succeeded>>
  /\ UNCHANGED <<nextId, cancelled, part, received, offered, done>>

(* The event queue is first in, first out: what the network has to say of   *)
(* an operation comes after the completions queued before it was begun.     *)
EarlierCompletionsRan == \A w \in workers : w.end = "running" \/ w.id >= op.id

(* onPeerDisconnected() for this lane.                                      *)
OnPeerDisconnected(p) ==
  /\ Pulling(p)
  /\ FinishLocal(op.id, FALSE)
  /\ UNCHANGED <<nextId, workers, cancelled, files, ended, offered, done>>

(* The clock goes on.  An answer or a heartbeat sets a running deadline to  *)
(* its full length again.                                                   *)
TimePasses ==
  /\ op.deadline = "set"
  /\ op' = [op EXCEPT !.deadline = "running"]
  /\ sent' = {}
  /\ UNCHANGED <<nextId, workers, cancelled, files, incoming, ended, offered, succeeded, failed, done>>

(* onWatchdog(): the deadline of the operation has passed.                  *)
DeadlinePasses ==
  /\ op.deadline = "running"
  /\ FinishLocal(op.id, FALSE)
  /\ UNCHANGED <<nextId, workers, cancelled, files, ended, offered, done>>

(* shutdown() or a crash, then a new process.  It sweeps the directory: of  *)
(* each peer's three files those older than a day are removed; a note being *)
(* written when the process died may read back as none.                     *)
PullRestart(oldParts, oldNotes, oldDumps) ==
  /\ op' = NoOp /\ workers' = {} /\ cancelled' = {} /\ incoming' = {} /\ ended' = {} /\ sent' = {}
  /\ part' = [p \in Peers |-> IF p \in oldParts THEN NoPart ELSE part[p]]
  /\ note' = [p \in Peers |-> IF p \in oldNotes THEN NoNote ELSE note[p]]
  /\ received' = [p \in Peers |-> IF p \in oldDumps THEN Nothing ELSE received[p]]
  /\ UNCHANGED <<nextId, offered, succeeded, failed, done>>

-----------------------------------------------------------------------------
UserStep ==
  \/ /\ nextId < MaxOps
     /\ \/ ExportToFile
        \/ ImportFromFile
        \/ \E p \in Peers, reachable \in BOOLEAN : RequestFromPeer(p, reachable)
  \/ CancelOperation

WorkerStep ==
  \E w \in workers :
    \/ \E end \in {"ok", "failed", "cancelled"} : WorkerEnds(w, end)
    \/ Completed(w)

PeerStep ==
  \E p \in Peers :
    \/ \E s \in 1..nextId, kind \in {"refused", "wait"} : HandlePeerResponse(p, s, kind, Nothing)
    \/ \E s \in 1..nextId, g \in Dumps : HandlePeerResponse(p, s, "ready", g)
    \/ \E s \in 1..nextId : HandlePeerProgress(p, s)
    \/ /\ offered < MaxOffers /\ offered' = offered + 1 /\ EarlierCompletionsRan
       /\ \E g \in Dumps, room, taken \in BOOLEAN : OnFileOffered(p, offered', g, room, taken)
    \/ OnPeerDisconnected(p)

TransferStep ==
  \/ \E r \in incoming, success, all \in BOOLEAN : TransferEnds(r, success, all)
  \/ \E e \in ended : EarlierCompletionsRan /\ OnTransferFinished(e)

PullNext ==
  \/ UserStep
  \/ WorkerStep
  \/ PeerStep
  \/ TransferStep
  \/ \E r \in incoming : BytesArrive(r)
  \/ TimePasses
  \/ DeadlinePasses
  \/ \E parts, notes, dumps \in SUBSET Peers : PullRestart(parts, notes, dumps)

PullSpec == PullInit /\ [][PullNext]_pullVars

(* Workers are finite loops, the main loop gets to every queued event, time *)
(* passes and the watchdog ticks every second, and librats ends every       *)
(* transfer it accepted ("the transfer has its own idle timeout in          *)
(* librats").  A deadline that is put off again and again need never pass.  *)
FairPullSpec ==
  /\ PullSpec
  /\ WF_pullVars(WorkerStep) /\ WF_pullVars(TransferStep)
  /\ WF_pullVars(TimePasses) /\ WF_pullVars(DeadlinePasses)

-----------------------------------------------------------------------------
(* Types, and the shape of an operation: only a pull has a transfer or a    *)
(* deadline, and a peer that has promised something has accepted.           *)
OpOK(o) ==
  /\ o \in [id : Nat, kind : {"none", "export", "import", "pull"}, peer : Peers \union {NoPeer},
            transfer : Nat, deadline : Deadlines, engaged : BOOLEAN, snapshot : Nat]
  /\ o.id = 0 \/ o.kind = "none" => o = NoOp
  /\ o.kind = "pull" <=> o.peer # NoPeer /\ o.kind # "import"
  /\ o.transfer # 0 \/ o.deadline # "off" => o.kind = "pull"
  /\ o.snapshot # Nothing => o.engaged

PullTypeOK ==
  /\ OpOK(op) /\ nextId \in Nat /\ op.id <= nextId
  /\ workers \subseteq
       [id : 1..nextId, kind : {"export", "import"}, peer : Peers \union {NoPeer},
        remove : BOOLEAN, end : {"running", "ok", "failed", "cancelled"}]
  /\ \A w \in workers : w.remove => w.peer \in Peers
  /\ cancelled \subseteq 1..nextId
  /\ part \in [Peers -> [dump : Nat, whole : BOOLEAN]]
  /\ note \in [Peers -> [name : Nat, size : Nat]]
  /\ received \in [Peers -> Nat]
  /\ incoming \subseteq [peer : Peers, id : Nat, dump : Nat \ {Nothing}]
  /\ ended \subseteq [peer : Peers, id : Nat, ok : BOOLEAN]
  /\ offered \in Nat
  /\ succeeded \union failed \union done \subseteq 1..nextId

(* At most one worker is inside the data layer, and it is the current       *)
(* operation's: no deadline, disconnect, late answer or outcome takes an    *)
(* operation away from under its worker and lets another begin beside it.   *)
WorkerIsCurrent == \A w \in workers : w.end = "running" => w.id = op.id

(* "Can never finish an operation that has already been replaced": an       *)
(* operation is reported a success only if its own worker did all its work. *)
SuccessIsEarned == succeeded \subseteq done

(* An operation ends once: what was reported stays as it was reported.      *)
ReportedOnce == succeeded \intersect failed = {} /\ op.id \notin succeeded \union failed

(* The note beside the bytes was written for the file they came from; so    *)
(* what a later pull continues is never a prefix of something else.         *)
NoteTellsTheTruth ==
  \A p \in Peers : part[p].dump # Nothing /\ note[p] # NoNote => note[p].size = part[p].dump

(* What librats appends to is empty or a prefix of what it receives.        *)
NeverMixed == \A r \in incoming : part[r.peer].dump \in {Nothing, r.dump}

(* Whatever librats is receiving, the current operation waits for it.       *)
TransfersAreOwned ==
  \A r \in incoming : op.kind = "pull" /\ op.peer = r.peer /\ op.transfer = r.id

(* A peer puts off a deadline that has begun to run.                        *)
PutOff == op.deadline = "running" /\ op'.deadline = "set"

(* The lane is never stuck: every operation is reported in the end, unless  *)
(* a peer beats for ever ("the deadline measures silence").                 *)
EveryOperationEnds ==
  <>[][~PutOff]_pullVars => \A i \in 1..MaxOps : op.id = i ~> op.id # i

(* The lane belongs to one operation: its worker and its transfer are all   *)
(* that runs.                                                               *)
LaneIsOwned == WorkerIsCurrent /\ TransfersAreOwned

(* What is reported of an operation is true, and said once.                 *)
ReportsAreTrue == SuccessIsEarned /\ ReportedOnce

(* A partial download is only ever continued with the file it came from.    *)
PartialsAreTrue == NoteTellsTheTruth /\ NeverMixed
=============================================================================
