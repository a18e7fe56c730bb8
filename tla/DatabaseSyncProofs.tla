-------------------------- MODULE DatabaseSyncProofs --------------------------
(* Proofs about the two nodes together: they agree on every transfer, and   *)
(* what they do is a database exchange.                                     *)
EXTENDS DatabaseSync, FiniteSetTheorems, SequenceTheorems, TLAPS

BP == INSTANCE DatabaseServeProofs WITH Peers <- {Client}

(***************************************************************************)
(* The client's half.                                                      *)
(***************************************************************************)
Ids(ts) == {t.id : t \in ts}

ClientTypes ==
  /\ nextId \in Nat
  /\ op \in [id : Nat, kind : {"none", "pull", "import"}, peer : {Client, Server}, transfer : Nat,
             deadline : {"off", "set", "running"}, engaged : BOOLEAN, snapshot : Nat]
  /\ workers \subseteq [id : Nat \ {0}, kind : {"import"}, peer : {Server}, remove : {TRUE},
                        end : {"running", "ok", "failed", "cancelled"}]
  /\ note \in [{Server} -> [name : Nat, size : Nat]]
  /\ received \in [{Server} -> Nat]
  /\ incoming \subseteq [peer : {Server}, id : Nat \ {0}, dump : Nat \ {0}]
  /\ ended \subseteq [peer : {Server}, id : Nat \ {0}, ok : BOOLEAN]

(* The lane is idle, or its operation is the last one begun.                *)
LaneOK ==
  /\ op.kind = "none" => op = A!NoOp
  /\ op.kind # "none" => op.peer = Server /\ op.id = nextId /\ nextId # 0
  /\ op.kind = "import" => op.transfer = 0 /\ op.deadline = "off"

(* A worker runs for the current import; what earlier ones left behind is   *)
(* their completions, and none of them is left once a file is accepted.     *)
WorkersOK ==
  /\ \A w \in workers :
       /\ w.id <= nextId
       /\ w.end = "running" \/ w.id = op.id => op.kind = "import"
       /\ op.kind = "import" => w.id = op.id
       /\ op.transfer = 0
  /\ \A v, w \in workers : v.id = w.id => v = w

(* What librats receives is the one file the operation waits for; once its  *)
(* outcome is queued nothing is being received.                             *)
ReceivingOK ==
  /\ \A r \in incoming : op.transfer = r.id
  /\ \A r, q \in incoming : r = q
  /\ Ids(incoming) \intersect Ids(ended) = {}

(* What the client holds to merge, the server has published.                *)
HeldIsPublished ==
  /\ \A r \in incoming : r.dump \in named
  /\ op.kind = "import" => received[Server] \in named
  /\ \A e \in ended : e.ok /\ e.id = op.transfer => received[Server] \in named

ClientInv == ClientTypes /\ LaneOK /\ WorkersOK /\ ReceivingOK /\ HeldIsPublished

(***************************************************************************)
(* The server's half, beside the invariant of its lane.                     *)
(***************************************************************************)
Serve == serves[Client]
Latest == lastSession[Client]

ServerInv ==
  /\ BP!ServeInv
  /\ disk \subseteq named /\ named \subseteq B!Gens
  /\ live # B!NoGen => live \in named
  /\ generation <= MaxGen /\ (job # "none" => generation < MaxGen)
  /\ Serve.session <= Latest

(***************************************************************************)
(* The wire.                                                                *)
(***************************************************************************)
RequestMsgs == [type : {"request", "cancel"}, peer : {Server}, id : Nat, dump : Nat]
AnswerMsgs == [session : Nat, kind : {"none", "refused", "wait", "ready", "beat"}, file : Nat]
OfferMsgs == [type : {"offer", "withdrawal"}, id : Nat \ {0}, dump : Nat]

IsRequest(m) == m.type = "request"
IsOffer(m) == m.type = "offer"

(* The requests under way are later than the last one heard, and in order.  *)
RequestsOK(ms, last, newest) ==
  /\ ms \in Seq(RequestMsgs)
  /\ \A i \in 1..Len(ms) : IsRequest(ms[i]) => last < ms[i].id /\ ms[i].id <= newest
  /\ \A i, j \in 1..Len(ms) : i < j /\ IsRequest(ms[i]) /\ IsRequest(ms[j]) => ms[i].id < ms[j].id

(* The offers under way, while the serve is v: what is offered is new to    *)
(* the client, and v sends it unless its withdrawal follows; what is        *)
(* withdrawn v does not send.                                               *)
SentBy(v, m) == v.sending /\ v.session = m.id /\ v.file = m.dump
OffersOK(ms, v, last, used, dumps) ==
  /\ ms \in Seq(OfferMsgs)
  /\ \A i \in 1..Len(ms) : ms[i].id <= last
  /\ \A i \in 1..Len(ms) : IsOffer(ms[i]) =>
       /\ ms[i].dump \in dumps /\ ms[i].dump # 0
       /\ ms[i].id \notin used
       /\ SentBy(v, ms[i]) \/ \E j \in 1..Len(ms) : i < j /\ ms[j] = Withdrawal(ms[i].id)
       /\ v.waiting => ms[i].id # v.session
  /\ \A i \in 1..Len(ms) : ~IsOffer(ms[i]) => ms[i].id # v.session /\ ms[i] = Withdrawal(ms[i].id)
  /\ \A i, j \in 1..Len(ms) : IsOffer(ms[i]) /\ IsOffer(ms[j]) /\ ms[i].id = ms[j].id => i = j

(* The transfers the client has heard of, or librats has an outcome of.     *)
Used == {op.transfer} \union Ids(ended) \union outcomes

StreamsOK ==
  /\ RequestsOK(requests, Latest, nextId)
  /\ answers \in Seq(AnswerMsgs)
  /\ OffersOK(offers, Serve, Latest, Used, named)

(* A transfer is known only after its request was heard, and the one a      *)
(* waiting peer will be sent is known to nobody yet.                        *)
UsedOK ==
  /\ Latest <= nextId
  /\ \A t \in Used : t \in Nat /\ t <= Latest
  /\ Serve.waiting => Serve.session \notin Used
  /\ Client \notin unaware => Ids(incoming) \intersect outcomes = {}

(* A broken connection carries nothing, and an end that has been told of it *)
(* has let go of the other.                                                 *)
BreakOK ==
  /\ unaware \subseteq {Client, Server}
  /\ ~Connected => requests = <<>> /\ offers = <<>>
  /\ ~Connected /\ Client \notin unaware => incoming = {}
  /\ ~Connected /\ Server \notin unaware => Serve = B!NoServe

WireInv == StreamsOK /\ UsedOK /\ BreakOK

SyncInv == ClientInv /\ ServerInv /\ WireInv /\ BothEndsAgree
-----------------------------------------------------------------------------
(* The three shapes of a serve.                                             *)
LEMMA ServeShapes ==
  /\ B!NoServe.session = 0 /\ B!NoServe.file = 0 /\ ~B!NoServe.waiting /\ ~B!NoServe.sending
  /\ \A s : /\ B!WaitingServe(s).session = s /\ B!WaitingServe(s).file = 0
            /\ B!WaitingServe(s).waiting /\ ~B!WaitingServe(s).sending
  /\ \A s, g : /\ B!SendingServe(s, g).session = s /\ B!SendingServe(s, g).file = g
               /\ ~B!SendingServe(s, g).waiting /\ B!SendingServe(s, g).sending
BY DEF B!NoServe, B!NoSession, B!NoGen, B!WaitingServe, B!SendingServe

-----------------------------------------------------------------------------
(* The lane of the server is one of DatabaseServe's instances.              *)
LEMMA LaneAssumption ==
  /\ MaxGen \in Nat \ {0}
  /\ BP!IsFiniteSet({Client}) /\ MaxServes \in Nat \ {0} /\ MaxSession \in Nat \ {0}
<1>1. IsFiniteSet({Client})
  BY FS_Singleton
<1>2. BP!IsFiniteSet({Client})
  BY <1>1 DEF IsFiniteSet, BP!IsFiniteSet
<1>3. QED
  BY <1>2, SyncAssumption
-----------------------------------------------------------------------------
(* What the invariant says of the serve, in plain terms.                    *)
LEMMA ServerFacts ==
  ASSUME ServerInv
  PROVE  /\ serves \in [{Client} -> [session : Nat, file : Nat, waiting : BOOLEAN, sending : BOOLEAN]]
         /\ Serve.session = 0 => Serve = B!NoServe
         /\ Serve.session # 0 => Serve.waiting # Serve.sending
         /\ Serve.sending <=> Serve.file # 0
         /\ Serve.sending => Serve.file \in disk
         /\ lastSession \in [{Client} -> Nat]
         /\ answered \in [{Client} -> [session : Nat, kind : {"none", "refused", "wait", "ready"}, file : Nat]]
         /\ generation \in Nat /\ disk \subseteq Nat \ {0} /\ halfWritten = {} /\ job \in BP!Jobs
         /\ job = "whole" => temp = "whole"
BY DEF ServerInv, Serve, BP!ServeInv, BP!ServeTypeOK, BP!ServesOK, BP!SnapshotTypeOK, BP!NoSession, BP!NoGen,
   BP!NoServe, B!NoServe, B!NoSession, B!NoGen, BP!ReadersKeepTheirFile, BP!InUse, BP!OnlyWholeDumps,
   BP!ResultIsWhole

(* What a step of the server does to the serve: nothing, or it ends, or the *)
(* export a waiting peer was told of is sent to it, or a request opens one. *)
Dropped == serves'[Client] = B!NoServe
Sent(s) == \E g \in named' : serves'[Client] = B!SendingServe(s, g)
Opened(s) ==
  /\ lastSession'[Client] = s
  /\ serves'[Client] = Serve \/ Dropped \/ serves'[Client] = B!WaitingServe(s) \/ Sent(s)
Moved ==
  /\ lastSession' = lastSession
  /\ serves'[Client] = Serve \/ Dropped \/ (Serve.waiting /\ Sent(Serve.session))

(* ... and to the dumps it has published.                                   *)
NothingNew == named' = named /\ halfWritten' = halfWritten
MayPublish == named' = named \/ \E g \in B!Gens : named' = named \union {g}

(* The exchange uses DatabaseServe; its invariant is that of                *)
(* DatabaseServeProofs, whose actions are the same.                         *)
LEMMA SameDrop ==
  ASSUME B!PeerLeaves(Client)
  PROVE  BP!PeerLeaves(Client)
BY DEF B!PeerLeaves, B!NoSession, B!DropServe, B!Without, B!NoServe, B!NoGen, B!PruneSnapshots, B!Pruned,
   B!InUse, B!CancelIfUnwanted, B!Waiters, B!Silence, B!UnchangedSnapshot,
   BP!PeerLeaves, BP!NoSession, BP!DropServe, BP!Without, BP!NoServe, BP!NoGen, BP!PruneSnapshots, BP!Pruned,
   BP!InUse, BP!CancelIfUnwanted, BP!Waiters, BP!Silence, BP!UnchangedSnapshot

LEMMA PeerLeavesStep ==
  ASSUME ServerInv, B!PeerLeaves(Client)
  PROVE  ServerInv' /\ Moved /\ Dropped /\ NothingNew
<1>1. BP!ServeInv'
  BY SameDrop, LaneAssumption, BP!PeerLeavesInv DEF ServerInv
<1>2. /\ serves'[Client] = B!NoServe /\ disk' \subseteq disk /\ lastSession' = lastSession
      /\ UNCHANGED <<generation, live, named, halfWritten>>
      /\ job' = "none" <=> job = "none"
  BY DEF B!PeerLeaves, B!DropServe, B!Without, B!PruneSnapshots, B!Pruned, B!CancelIfUnwanted,
     B!UnchangedSnapshot
<1>3. serves'[Client].session <= lastSession'[Client]
  BY <1>2, ServerFacts DEF B!NoServe, B!NoSession
<1>4. ServerInv'
  BY <1>1, <1>2, <1>3 DEF ServerInv, Serve, Latest
<1>5. QED
  BY <1>2, <1>4 DEF Moved, Dropped, NothingNew

LEMMA SameSnapshotStep ==
  ASSUME B!SnapshotStep
  PROVE  \/ \E result \in {"whole", "failed"} : BP!WorkerEnds(result)
         \/ \E unsent, down : \E write \in BP!MetaWrites : BP!SnapshotPublished(unsent, down, write)
         \/ BP!SnapshotFailed
BY DEF B!SnapshotStep, B!WorkerEnds, B!OnSnapshotFinished, B!SnapshotPublished, B!SnapshotFailed, B!CanCommit,
   B!Publish, B!PublishedMeta, B!MetaWrites, B!NoMeta, B!OfferToWaiters, B!NoServe, B!NoSession, B!NoGen, B!SendingServe, B!Refusal,
   B!ToldReady, B!Pruned, B!InUse, B!DropWaiters, B!Without, B!Waiters, B!PruneSnapshots,
   BP!WorkerEnds, BP!SnapshotPublished, BP!SnapshotFailed, BP!CanCommit,
   BP!Publish, BP!PublishedMeta, BP!MetaWrites, BP!NoMeta, BP!OfferToWaiters, BP!NoServe, BP!NoSession, BP!NoGen, BP!SendingServe, BP!Refusal,
   BP!ToldReady, BP!Pruned, BP!InUse, BP!DropWaiters, BP!Without, BP!Waiters, BP!PruneSnapshots

LEMMA SnapshotStepStep ==
  ASSUME ServerInv, B!SnapshotStep
  PROVE  ServerInv' /\ Moved /\ MayPublish /\ halfWritten' = halfWritten
<1>1. BP!ServeInv'
  BY SameSnapshotStep, LaneAssumption, BP!WorkerEndsInv, BP!SnapshotPublishedInv, BP!SnapshotFailedInv DEF ServerInv
<1> USE DEF ServerInv, Serve, Latest, B!NoGen
<1>2. CASE \E result \in {"whole", "failed"} : B!WorkerEnds(result)
  BY <1>1, <1>2 DEF B!WorkerEnds, Moved, MayPublish
<1>3. ASSUME NEW unsent, NEW down, NEW write, B!SnapshotPublished(unsent, down, write)
      PROVE  ServerInv' /\ Moved /\ MayPublish /\ halfWritten' = halfWritten
  <2>1. /\ live' = generation + 1 /\ generation' = generation + 1 /\ named' = named \union {live'}
        /\ job' = "none" /\ lastSession' = lastSession
        /\ disk' \subseteq disk \union {live'}
    BY <1>3 DEF B!SnapshotPublished, B!Publish, B!Pruned
  <2>2. live' \in B!Gens /\ generation + 1 <= MaxGen
    BY <1>3, <2>1, ServerFacts, SyncAssumption DEF B!SnapshotPublished, B!Gens
  <2>3. halfWritten' = halfWritten
    BY <1>3, ServerFacts DEF B!SnapshotPublished, B!Publish
  <2>4. serves'[Client] = Serve \/ Dropped \/ (Serve.waiting /\ Sent(Serve.session))
    BY <1>3, <2>1 DEF B!SnapshotPublished, B!OfferToWaiters, Dropped, Sent
  <2>5. serves'[Client].session <= lastSession[Client]
    <3>1. 0 <= lastSession[Client] /\ serves[Client].session <= lastSession[Client]
      BY ServerFacts
    <3>2. serves'[Client].session \in {0, serves[Client].session}
      BY <2>4, ServeShapes DEF Dropped, Sent
    <3>3. QED
      BY <3>1, <3>2
  <2>6. ServerInv'
    BY <1>1, <2>1, <2>2, <2>5
  <2>7. QED
    BY <2>1, <2>2, <2>3, <2>4, <2>6 DEF Moved, MayPublish
<1>4. CASE B!SnapshotFailed
  <2>1. /\ named' = named /\ live' = live /\ halfWritten' = halfWritten /\ job' = "none"
        /\ lastSession' = lastSession /\ disk' \subseteq disk
    BY <1>4 DEF B!SnapshotFailed, B!DropWaiters, B!PruneSnapshots, B!Pruned
  <2>2. generation' <= MaxGen
    BY <1>4, ServerFacts, SyncAssumption DEF B!SnapshotFailed
  <2>3. serves'[Client] = Serve \/ Dropped
    BY <1>4 DEF B!SnapshotFailed, B!DropWaiters, B!Without, Dropped
  <2>4. serves'[Client].session <= lastSession[Client]
    BY <2>3, ServerFacts, ServeShapes DEF Dropped
  <2>5. ServerInv'
    BY <1>1, <2>1, <2>2, <2>4
  <2>6. QED
    BY <2>1, <2>3, <2>5 DEF Moved, MayPublish
<1>5. QED
  BY <1>2, <1>3, <1>4 DEF B!SnapshotStep, B!OnSnapshotFinished

ServerUser ==
  \/ generation < MaxGen /\ B!RebuildSnapshot
  \/ \E enabled \in BOOLEAN : B!SetSharingEnabled(enabled)
  \/ B!RequestIntervalPasses(Client)
  \/ B!IndexDrifts

LEMMA SameUserStep ==
  ASSUME ServerUser
  PROVE  \/ BP!RebuildSnapshot
         \/ \E enabled \in BOOLEAN : BP!SetSharingEnabled(enabled)
         \/ /\ UNCHANGED <<generation, live, disk, temp, meta, named, halfWritten, metaState>>
            /\ UNCHANGED <<serves, job, lastSession, answered, leftover, sharing>>
            /\ fresh' = fresh \/ fresh' = ~fresh
            /\ limited' \subseteq limited
BY DEF ServerUser, B!RebuildSnapshot, B!EnsureSnapshotJob, B!SetSharingEnabled, B!RequestIntervalPasses,
   B!IndexDrifts, B!Drift, B!serveVars, B!snapshotVars, B!Without, B!NoServe, B!NoSession, B!NoGen, B!Serving,
   B!PruneSnapshots, B!Pruned, B!InUse, B!CancelIfUnwanted, B!Waiters, B!UnchangedSnapshot,
   BP!RebuildSnapshot, BP!EnsureSnapshotJob, BP!SetSharingEnabled, BP!Without, BP!NoServe, BP!NoSession, BP!NoGen,
   BP!Serving, BP!PruneSnapshots, BP!Pruned, BP!InUse, BP!CancelIfUnwanted, BP!Waiters, BP!UnchangedSnapshot

LEMMA ServerUserStep ==
  ASSUME ServerInv, ServerUser
  PROVE  ServerInv' /\ Moved /\ NothingNew
<1>1. BP!ServeInv'
  <2>1. sharing \in BOOLEAN /\ fresh \in BOOLEAN /\ limited \subseteq {Client}
    BY DEF ServerInv, BP!ServeInv, BP!ServeTypeOK, BP!SnapshotTypeOK
  <2>2. CASE BP!RebuildSnapshot
    BY <2>2, LaneAssumption, BP!RebuildSnapshotInv DEF ServerInv
  <2>3. ASSUME NEW enabled \in BOOLEAN, BP!SetSharingEnabled(enabled) PROVE BP!ServeInv'
    BY <2>3, LaneAssumption, BP!SetSharingEnabledInv DEF ServerInv
  <2>4. CASE /\ UNCHANGED <<generation, live, disk, temp, meta, named, halfWritten, metaState>>
             /\ UNCHANGED <<serves, job, lastSession, answered, leftover, sharing>>
             /\ fresh' = fresh \/ fresh' = ~fresh
             /\ limited' \subseteq limited
    <3>1. fresh' \in BOOLEAN /\ sharing' \in BOOLEAN /\ limited' \subseteq {Client}
      BY <2>1, <2>4
    <3>2. QED
      BY <2>4, <3>1, LaneAssumption, BP!QuietStepInv DEF ServerInv
  <2>5. QED
    BY <2>2, <2>3, <2>4, SameUserStep
<1>2. /\ disk' \subseteq disk /\ lastSession' = lastSession
      /\ UNCHANGED <<generation, live, named, halfWritten>>
      /\ job' # "none" => job # "none" \/ generation < MaxGen
      /\ serves'[Client] = Serve \/ Dropped
  BY DEF ServerUser, B!RebuildSnapshot, B!EnsureSnapshotJob, B!SetSharingEnabled, B!RequestIntervalPasses,
     B!IndexDrifts, B!Drift, B!serveVars, B!snapshotVars, B!Without, B!PruneSnapshots, B!Pruned, 
     B!CancelIfUnwanted, B!UnchangedSnapshot, Serve, Dropped
<1>3. serves'[Client].session <= lastSession'[Client]
  BY <1>2, ServerFacts, ServeShapes DEF Dropped, ServerInv, Serve, Latest
<1>4. ServerInv'
  BY <1>1, <1>2, <1>3 DEF ServerInv, Serve, Latest
<1>5. QED
  BY <1>2, <1>4 DEF Moved, NothingNew

LEMMA SameRequest ==
  ASSUME NEW s, NEW have, NEW able, NEW room, NEW taken, B!HandlePeerRequest(Client, s, have, able, room, taken)
  PROVE  BP!HandlePeerRequest(Client, s, have, able, room, taken)
BY DEF B!HandlePeerRequest, B!ServableFile, B!PathForGeneration, B!DiskAfterSupersede, B!Superseded, B!Busy,
   B!RefusedAtOnce, B!OfferSnapshot, B!JoinWaiters, B!EnsureSnapshotJob, B!RefuseAfterDrop, B!Refusal,
   B!ToldToWait, B!ToldReady, B!WaitingServe, B!SendingServe, B!UnchangedSnapshot, B!Serving, B!Without,
   B!NoServe, B!NoSession, B!NoGen, B!PruneSnapshots, B!Pruned, B!InUse, B!CancelIfUnwanted, B!Waiters,
   B!Cardinality,
   BP!HandlePeerRequest, BP!ServableFile, BP!PathForGeneration, BP!DiskAfterSupersede, BP!Superseded, BP!Busy,
   BP!RefusedAtOnce, BP!OfferSnapshot, BP!JoinWaiters, BP!EnsureSnapshotJob, BP!RefuseAfterDrop, BP!Refusal,
   BP!ToldToWait, BP!ToldReady, BP!WaitingServe, BP!SendingServe, BP!UnchangedSnapshot, BP!Serving, BP!Without,
   BP!NoServe, BP!NoSession, BP!NoGen, BP!PruneSnapshots, BP!Pruned, BP!InUse, BP!CancelIfUnwanted, BP!Waiters,
   BP!Cardinality

LEMMA RequestStep ==
  ASSUME ServerInv, NEW s \in Nat, Latest < s, NEW have,
         B!HandlePeerRequest(Client, s, have, TRUE, generation < MaxGen, TRUE)
  PROVE  ServerInv' /\ Opened(s) /\ NothingNew
<1> DEFINE g == B!ServableFile(Client, have)
<1>1. BP!ServeInv'
  <2>1. Latest \in Nat /\ Client \in {Client}
    BY ServerFacts DEF Latest
  <2>2. s \in Nat \ {BP!NoSession}
    BY <2>1 DEF BP!NoSession
  <2>3. TRUE \in BOOLEAN /\ (generation < MaxGen) \in BOOLEAN
    OBVIOUS
  <2>4. BP!HandlePeerRequest(Client, s, have, TRUE, generation < MaxGen, TRUE)
    BY SameRequest
  <2>5. QED
    BY <2>1, <2>2, <2>3, <2>4, LaneAssumption, BP!HandlePeerRequestInv DEF ServerInv
<1>2. /\ lastSession' = [lastSession EXCEPT ![Client] = s]
      /\ UNCHANGED <<generation, live, named, halfWritten>>
  BY DEF B!HandlePeerRequest, B!UnchangedSnapshot
<1>3. B!DiskAfterSupersede(Client) \subseteq disk
  BY DEF B!DiskAfterSupersede, B!PruneSnapshots, B!Pruned
<1>4. /\ disk' \subseteq disk
      /\ job' # "none" => job # "none" \/ generation < MaxGen
      /\ \/ serves'[Client] = Serve \/ Dropped \/ serves'[Client] = B!WaitingServe(s)
         \/ g # 0 /\ serves'[Client] = B!SendingServe(s, g)
  <2>1. CASE UNCHANGED <<serves, disk, job>>
    BY <2>1 DEF Serve
  <2>2. CASE B!RefuseAfterDrop(Client, s)
    BY <2>2, <1>3 DEF B!RefuseAfterDrop, B!Superseded, B!Without, Dropped
  <2>3. CASE g # 0 /\ B!OfferSnapshot(Client, s, g, TRUE)
    BY <2>3, <1>3, ServerFacts DEF B!OfferSnapshot
  <2>4. CASE (job # "none" \/ generation < MaxGen) /\ B!JoinWaiters(Client, s)
    BY <2>4, <1>3, ServerFacts DEF B!JoinWaiters, B!EnsureSnapshotJob
  <2>5. QED
    BY <2>1, <2>2, <2>3, <2>4 DEF B!HandlePeerRequest, B!NoGen
<1>5. g # 0 => g \in named'
  <2>1. g # 0 => g \in disk \/ (g = live /\ live # 0)
    BY <1>3 DEF B!ServableFile, B!PathForGeneration, B!NoGen
  <2>2. QED
    BY <1>2, <2>1 DEF ServerInv, B!NoGen
<1>6. lastSession'[Client] = s
  BY <1>2, ServerFacts
<1>7. Opened(s)
  BY <1>4, <1>5, <1>6 DEF Opened, Sent
<1>8. serves'[Client].session <= s
  <2>1. Serve.session \in Nat /\ Latest \in Nat /\ Serve.session <= Latest
    BY ServerFacts DEF ServerInv, Serve, Latest
  <2>2. serves'[Client].session \in {Serve.session, 0, s}
    BY <1>4, ServeShapes DEF Dropped
  <2>3. QED
    BY <2>1, <2>2
<1>9. ServerInv'
  BY <1>1, <1>2, <1>4, <1>6, <1>8 DEF ServerInv, Serve, Latest
<1>10. QED
  BY <1>2, <1>7, <1>9 DEF NothingNew

-----------------------------------------------------------------------------
(* What a step of the client does that neither accepts nor refuses a file:  *)
(* it may ask, forget its transfer, or have librats cancel it.              *)
FilesCancelled == {m.id : m \in Carried("cancelFile")}
GoesOn ==
  /\ nextId' \in {nextId, nextId + 1}
  /\ op'.transfer \in {op.transfer, 0}
  /\ ended' \subseteq ended
  /\ \A m \in sent' :
       /\ m \in [type : {"request", "cancel", "cancelFile"}, peer : {Server}, id : Nat, dump : Nat]
       /\ m.type = "request" => nextId' = nextId + 1 /\ m.id = nextId'
  /\ \/ incoming' = incoming /\ FilesCancelled = {}
     \/ incoming' = {} /\ op.transfer # 0 /\ op'.transfer = 0 /\ FilesCancelled = {op.transfer}

(* ... and what it does in the terms of the exchange.                       *)
Stays == op'.kind = op.kind /\ (op.kind = "import" => received'[Server] = received[Server])
Begins == op.kind = "none" /\ op'.kind = "pull"
Gives == op.kind = "pull" /\ op'.kind = "import" /\ received'[Server] \in named
Ends == op.kind # "none" /\ op'.kind = "none"
ClientMoves == Stays \/ Begins \/ Gives \/ Ends

(* The lane without an operation.                                           *)
LEMMA Idle ==
  /\ A!NoOp.id = 0 /\ A!NoOp.kind = "none" /\ A!NoOp.peer = Client /\ A!NoOp.transfer = 0
  /\ A!NoOp \in [id : Nat, kind : {"none", "pull", "import"}, peer : {Client, Server}, transfer : Nat,
                 deadline : {"off", "set", "running"}, engaged : BOOLEAN, snapshot : Nat]
BY DEF A!NoOp, A!Nothing

(* Nothing of the client's changes but what no invariant looks at.          *)
LEMMA ClientRests ==
  ASSUME ClientInv, UNCHANGED <<op, nextId, workers, note, received, incoming, ended, named>>, sent' = {}
  PROVE  ClientInv' /\ GoesOn /\ Stays
<1>1. ClientInv'
  BY DEF ClientInv, ClientTypes, LaneOK, WorkersOK, ReceivingOK, HeldIsPublished, Ids
<1>2. GoesOn /\ Stays
  BY DEF GoesOn, FilesCancelled, Carried, Stays
<1>3. QED
  BY <1>1, <1>2

(* The operation is reported and the lane is free: whatever librats was     *)
(* receiving for it is cancelled.                                           *)
LEMMA ReportStep ==
  ASSUME ClientInv, NEW success \in BOOLEAN, op.kind # "none", A!Report(success),
         UNCHANGED <<nextId, note, ended, named>>,
         workers' \subseteq workers, \A w \in workers' : w.end # "running",
         received' \in [{Server} -> Nat]
  PROVE  ClientInv' /\ GoesOn /\ Ends
<1> USE DEF ClientInv, Ids
<1>1. op' = A!NoOp /\ op.peer = Server /\ op.transfer \in Nat /\ op.id \in Nat /\ nextId \in Nat
  BY DEF A!Report, LaneOK, ClientTypes
<1>2. incoming' = {}
  <2>1. \A r \in incoming : r.peer = op.peer /\ r.id = op.transfer
    BY <1>1 DEF ReceivingOK, ClientTypes
  <2>2. QED
    BY <2>1 DEF A!Report
<1>3. ClientTypes' /\ LaneOK'
  BY <1>1, <1>2, Idle DEF ClientTypes, LaneOK
<1>4. WorkersOK'
  <2>1. \A w \in workers : w.id # 0 /\ w.id <= nextId
    BY DEF ClientTypes, WorkersOK
  <2>2. QED
    BY <1>1, <2>1, Idle DEF WorkersOK
<1>5. ReceivingOK' /\ HeldIsPublished'
  <2>1. \A e \in ended : e.id # 0
    BY DEF ClientTypes
  <2>2. QED
    BY <1>1, <1>2, <2>1, Idle DEF ReceivingOK, HeldIsPublished
<1>6. \A m \in sent' : \/ op.transfer # 0 /\ m = A!CancelFile(Server, op.transfer)
                       \/ m = A!Cancel(Server, op.id)
  BY <1>1 DEF A!Report
<1>7. op.transfer # 0 => A!CancelFile(Server, op.transfer) \in sent'
  BY <1>1 DEF A!Report
<1>8. GoesOn
  <2>1. \A m \in sent' :
          /\ m \in [type : {"request", "cancel", "cancelFile"}, peer : {Server}, id : Nat, dump : Nat]
          /\ m.type # "request"
    BY <1>1, <1>6 DEF A!CancelFile, A!Cancel, A!Nothing
  <2>2. \A m \in Carried("cancelFile") : op.transfer # 0 /\ m.id = op.transfer
    BY <1>6 DEF Carried, A!CancelFile, A!Cancel
  <2>3. op.transfer # 0 => op.transfer \in FilesCancelled
    <3>1. ASSUME op.transfer # 0 PROVE op.transfer \in FilesCancelled
      <4> DEFINE c == A!CancelFile(Server, op.transfer)
      <4>1. c.type = "cancelFile" /\ c.id = op.transfer
        BY DEF A!CancelFile
      <4>2. c \in Carried("cancelFile")
        BY <1>7, <3>1, <4>1 DEF Carried
      <4>3. QED
        BY <4>1, <4>2 DEF FilesCancelled
    <3>2. QED
      BY <3>1
  <2>4. CASE op.transfer # 0
    <3>1. FilesCancelled = {op.transfer}
      BY <2>2, <2>3, <2>4 DEF FilesCancelled
    <3>2. QED
      BY <1>1, <1>2, <2>1, <2>4, <3>1, Idle DEF GoesOn
  <2>5. CASE op.transfer = 0
    <3>1. FilesCancelled = {} /\ incoming = {}
      BY <2>2, <2>5 DEF FilesCancelled, ReceivingOK, ClientTypes
    <3>2. QED
      BY <1>1, <1>2, <2>1, <3>1, Idle DEF GoesOn
  <2>6. QED
    BY <2>4, <2>5
<1>9. Ends
  BY <1>1, Idle DEF Ends
<1>10. QED
  BY <1>3, <1>4, <1>5, <1>8, <1>9

(* requestFromPeer() *)
LEMMA RequestFromPeerStep ==
  ASSUME ClientInv, NEW reachable \in BOOLEAN, A!RequestFromPeer(Server, reachable), named' = named
  PROVE  ClientInv' /\ GoesOn /\ ClientMoves
<1> USE DEF ClientInv, Ids
<1>1. /\ op = A!NoOp /\ nextId' = nextId + 1 /\ nextId \in Nat
      /\ UNCHANGED <<workers, note, received, incoming, ended>>
  BY DEF A!RequestFromPeer, A!files, ClientTypes
<1>2. incoming = {} /\ workers \subseteq workers
  BY <1>1, Idle DEF ReceivingOK, ClientTypes
<1>3. \A w \in workers : w.id # 0 /\ w.id <= nextId + 1 /\ w.id # nextId + 1 /\ w.end # "running"
  <2>1. \A w \in workers : w.id \in Nat /\ w.id # 0 /\ w.id <= nextId /\ w.end # "running"
    BY <1>1, Idle DEF ClientTypes, WorkersOK
  <2>2. \A n, k \in Nat : n <= k => n <= k + 1 /\ n # k + 1
    OBVIOUS
  <2>3. QED
    BY <1>1, <2>1, <2>2
<1>4. \A e \in ended : e.id # 0
  BY DEF ClientTypes
<1>5. CASE reachable
  <2> DEFINE have == IF A!Continuable(Server) THEN note[Server].name ELSE A!Nothing
  <2>1. op' = A!NewOp(nextId + 1, "pull", Server, "set") /\ sent' = {A!Request(Server, nextId + 1, have)}
    BY <1>1, <1>5 DEF A!RequestFromPeer
  <2>2. /\ op' \in [id : Nat, kind : {"none", "pull", "import"}, peer : {Client, Server}, transfer : Nat,
                    deadline : {"off", "set", "running"}, engaged : BOOLEAN, snapshot : Nat]
        /\ op'.id = nextId + 1 /\ op'.kind = "pull" /\ op'.peer = Server /\ op'.transfer = 0
    BY <1>1, <2>1 DEF A!NewOp, A!Nothing
  <2>3. have \in Nat
    BY DEF A!Nothing, ClientTypes
  <2>4. ClientTypes' /\ LaneOK'
    <3>1. ClientTypes'
      BY <1>1, <2>2 DEF ClientTypes
    <3>2. nextId' = nextId + 1 /\ nextId + 1 # 0 /\ op'.kind # "none" /\ op'.kind # "import"
      BY <1>1, <2>2
    <3>3. LaneOK'
      BY <2>2, <3>2 DEF LaneOK
    <3>4. QED
      BY <3>1, <3>3
  <2>5. WorkersOK'
    <3>1. \A v, w \in workers : v.id = w.id => v = w
      BY DEF WorkersOK
    <3>2. QED
      BY <1>1, <1>3, <2>2, <3>1 DEF WorkersOK
  <2>6. ReceivingOK' /\ HeldIsPublished'
    BY <1>1, <1>2, <1>4, <2>2 DEF ReceivingOK, HeldIsPublished
  <2>7. GoesOn
    <3> DEFINE m == A!Request(Server, nextId + 1, have)
    <3>1. /\ m \in [type : {"request", "cancel", "cancelFile"}, peer : {Server}, id : Nat, dump : Nat]
          /\ m.type = "request" /\ m.id = nextId + 1
      BY <1>1, <2>3 DEF A!Request
    <3>2. FilesCancelled = {}
      BY <2>1, <3>1 DEF FilesCancelled, Carried
    <3>3. QED
      BY <1>1, <1>2, <2>1, <2>2, <3>1, <3>2 DEF GoesOn
  <2>8. Begins
    BY <1>1, <2>2, Idle DEF Begins
  <2>9. QED
    BY <2>4, <2>5, <2>6, <2>7, <2>8 DEF ClientMoves
<1>6. CASE ~reachable
  <2>1. op' = op /\ sent' = {}
    BY <1>6 DEF A!RequestFromPeer
  <2>2. ClientInv'
    <3>0. UNCHANGED <<op, workers, note, received, incoming, ended>> /\ nextId' \in Nat
      BY <1>1, <2>1
    <3>1. ClientTypes'
      BY <3>0 DEF ClientTypes
    <3>2. LaneOK'
      BY <1>1, <2>1, Idle DEF LaneOK
    <3>3. ReceivingOK' /\ HeldIsPublished'
      BY <1>1, <2>1, Idle DEF ReceivingOK, HeldIsPublished
    <3>4. WorkersOK'
      BY <1>1, <1>3, <2>1, Idle DEF WorkersOK
    <3>5. QED
      BY <3>1, <3>2, <3>3, <3>4
  <2>3. GoesOn /\ Stays
    BY <1>1, <2>1 DEF GoesOn, FilesCancelled, Carried, Stays
  <2>4. QED
    BY <2>2, <2>3 DEF ClientMoves
<1>7. QED
  BY <1>5, <1>6

(* A handler that finishes the operation, or finds it is not the current.   *)
LEMMA FinishStep ==
  ASSUME ClientInv, NEW i \in Nat \ {0}, NEW success \in BOOLEAN, A!FinishLocal(i, success),
         UNCHANGED <<nextId, note, ended, named>>,
         workers' \subseteq workers, \A w \in workers' : op.id = i => w.end # "running",
         received' \in [{Server} -> Nat], op.id # i /\ op.kind = "import" => received' = received,
         op.id # i /\ op.transfer # 0 => received' = received
  PROVE  ClientInv' /\ GoesOn /\ ClientMoves
<1>1. CASE op.id = i
  <2>1. op.kind # "none" /\ A!Report(success)
    BY <1>1, Idle DEF A!FinishLocal, ClientInv, LaneOK
  <2>2. QED
    BY <1>1, <2>1, ReportStep DEF ClientMoves
<1>2. CASE op.id # i
  <2> USE DEF ClientInv, Ids
  <2>1. UNCHANGED <<op, incoming>> /\ sent' = {}
    BY <1>2 DEF A!FinishLocal
  <2>2. ClientTypes' /\ LaneOK' /\ WorkersOK' /\ ReceivingOK'
    BY <2>1 DEF ClientTypes, LaneOK, WorkersOK, ReceivingOK
  <2>3. HeldIsPublished'
    <3>1. \A e \in ended : e.id # 0
      BY DEF ClientTypes
    <3>2. QED
      BY <1>2, <2>1, <3>1 DEF HeldIsPublished
  <2>4. GoesOn /\ Stays
    BY <1>2, <2>1 DEF GoesOn, FilesCancelled, Carried, Stays
  <2>5. QED
    BY <2>2, <2>3, <2>4 DEF ClientMoves
<1>3. QED
  BY <1>1, <1>2

(* cancel() *)
LEMMA CancelOperationStep ==
  ASSUME ClientInv, A!CancelOperation, named' = named
  PROVE  ClientInv' /\ GoesOn /\ ClientMoves
<1>1. UNCHANGED <<nextId, workers, note, received, ended>> /\ op # A!NoOp
  BY DEF A!CancelOperation, A!files
<1>2. op.id \in Nat \ {0} /\ received \in [{Server} -> Nat]
  BY <1>1 DEF ClientInv, LaneOK, ClientTypes
<1>3. CASE A!Running(op.id)
  <2>1. UNCHANGED <<op, incoming>> /\ sent' = {}
    BY <1>3 DEF A!CancelOperation
  <2>2. QED
    BY <1>1, <2>1, ClientRests DEF ClientMoves
<1>4. CASE ~A!Running(op.id)
  <2>1. A!FinishLocal(op.id, FALSE)
    BY <1>4 DEF A!CancelOperation
  <2>2. \A w \in workers : w.end # "running"
    <3>1. \A w \in workers : w.end = "running" => w.id = op.id
      BY DEF ClientInv, WorkersOK
    <3>2. QED
      BY <1>4, <3>1 DEF A!Running
  <2>3. QED
    BY <1>1, <1>2, <2>1, <2>2, FinishStep
<1>5. QED
  BY <1>3, <1>4

(* onWatchdog() and onPeerDisconnected() *)
LEMMA FinishPullStep ==
  ASSUME ClientInv, op.kind = "pull", A!FinishLocal(op.id, FALSE),
         UNCHANGED <<nextId, workers, note, received, ended, named>>
  PROVE  ClientInv' /\ GoesOn /\ ClientMoves
<1>1. op.id \in Nat \ {0} /\ received \in [{Server} -> Nat]
  BY DEF ClientInv, LaneOK, ClientTypes
<1>2. \A w \in workers : w.end # "running"
  BY DEF ClientInv, WorkersOK
<1>3. QED
  BY <1>1, <1>2, FinishStep

LEMMA DeadlineStep ==
  ASSUME ClientInv, A!DeadlinePasses, named' = named
  PROVE  ClientInv' /\ GoesOn /\ ClientMoves
<1>1. op.kind = "pull"
  <2>1. op.deadline # "off" /\ op.kind \in {"none", "pull", "import"}
    BY DEF A!DeadlinePasses, ClientInv, ClientTypes
  <2>2. A!NoOp.deadline = "off"
    BY DEF A!NoOp
  <2>3. QED
    BY <2>1, <2>2 DEF ClientInv, LaneOK
<1>2. QED
  BY <1>1, FinishPullStep DEF A!DeadlinePasses, A!files

LEMMA LosesPeerStep ==
  ASSUME ClientInv, A!OnPeerDisconnected(Server), named' = named
  PROVE  ClientInv' /\ GoesOn /\ ClientMoves /\ incoming' = {}
<1>1. op.kind = "pull" /\ A!FinishLocal(op.id, FALSE) /\ UNCHANGED <<nextId, workers, note, received, ended>>
  BY DEF A!OnPeerDisconnected, A!Pulling, A!files
<1>2. ClientInv' /\ GoesOn /\ ClientMoves
  BY <1>1, FinishPullStep
<1>3. op'.transfer = 0
  BY <1>1, Idle DEF A!FinishLocal, A!Report
<1>4. QED
  BY <1>2, <1>3 DEF ClientInv, ReceivingOK, ClientTypes

(* The worker of the import returns, ...                                    *)
LEMMA WorkerEndsStep ==
  ASSUME ClientInv, NEW w \in workers, NEW end \in {"ok", "failed", "cancelled"}, A!WorkerEnds(w, end),
         named' = named
  PROVE  ClientInv' /\ GoesOn /\ ClientMoves
<1> USE DEF ClientInv, Ids
<1> DEFINE x == [w EXCEPT !.end = end]
<1>1. /\ UNCHANGED <<op, nextId, note, received, incoming, ended>> /\ sent' = {} /\ w.end = "running"
      /\ workers' = (workers \ {w}) \union {x}
  BY DEF A!WorkerEnds, A!files
<1>2. /\ x \in [id : Nat \ {0}, kind : {"import"}, peer : {Server}, remove : {TRUE},
                end : {"running", "ok", "failed", "cancelled"}]
      /\ x.id = w.id /\ x.end = end
  BY DEF ClientTypes
<1>3. ClientTypes' /\ LaneOK' /\ ReceivingOK' /\ HeldIsPublished'
  BY <1>1, <1>2 DEF ClientTypes, LaneOK, ReceivingOK, HeldIsPublished
<1> HIDE DEF x
<1>4. WorkersOK'
  BY <1>1, <1>2 DEF WorkersOK
<1>5. GoesOn /\ Stays
  BY <1>1 DEF GoesOn, FilesCancelled, Carried, Stays
<1>6. QED
  BY <1>3, <1>4, <1>5 DEF ClientMoves

(* ... and the completion it queued runs, maybe after its operation.        *)
LEMMA CompletedStep ==
  ASSUME ClientInv, NEW w \in workers, A!Completed(w), named' = named
  PROVE  ClientInv' /\ GoesOn /\ ClientMoves
<1> DEFINE good == w.end = "ok" /\ (w.kind = "import" \/ w.id \notin cancelled)
<1>1. /\ workers' = workers \ {w} /\ UNCHANGED <<nextId, note, ended>> /\ A!FinishLocal(w.id, good)
      /\ good \in BOOLEAN
      /\ received' = received \/ received' = [received EXCEPT ![w.peer] = A!Nothing]
  BY DEF A!Completed
<1> HIDE DEF good
<1>2. w.id \in Nat \ {0} /\ w.peer = Server /\ received \in [{Server} -> Nat]
  BY DEF ClientInv, ClientTypes
<1>3. received' \in [{Server} -> Nat]
  BY <1>1, <1>2 DEF A!Nothing
<1>4. \A v \in workers' : op.id = w.id => v.end # "running"
  <2>1. \A v \in workers : v.end = "running" => v.id = op.id
    BY DEF ClientInv, WorkersOK
  <2>2. \A v \in workers : v.id = w.id => v = w
    BY DEF ClientInv, WorkersOK
  <2>3. QED
    BY <1>1, <2>1, <2>2
<1>5. /\ op.kind = "import" => w.id = op.id
      /\ op.transfer = 0
  BY DEF ClientInv, WorkersOK
<1>6. workers' \subseteq workers
  BY <1>1
<1>7. QED
  BY <1>1, <1>2, <1>3, <1>4, <1>5, <1>6, FinishStep

LEMMA WorkerStepStep ==
  ASSUME ClientInv, A!WorkerStep, named' = named
  PROVE  ClientInv' /\ GoesOn /\ ClientMoves
BY WorkerEndsStep, CompletedStep DEF A!WorkerStep

(* onTransferFinished(): the whole file is here and its import begins.      *)
LEMMA TransferFinishedStep ==
  ASSUME ClientInv, A!EarlierCompletionsRan, NEW e \in ended, A!OnTransferFinished(e), named' = named
  PROVE  ClientInv' /\ GoesOn /\ ClientMoves
<1> USE DEF ClientInv, Ids
<1>1. /\ UNCHANGED <<nextId, received>> /\ ended' = ended \ {e}
      /\ e.peer = Server /\ e.id \in Nat \ {0}
  BY DEF A!OnTransferFinished, ClientTypes
<1>2. CASE op.peer # e.peer \/ op.transfer # e.id
  <2>1. UNCHANGED <<op, workers, note, incoming>> /\ sent' = {}
    BY <1>2 DEF A!OnTransferFinished
  <2>2. ClientTypes' /\ LaneOK' /\ WorkersOK'
    BY <1>1, <2>1 DEF ClientTypes, LaneOK, WorkersOK
  <2>3. ReceivingOK' /\ HeldIsPublished'
    BY <1>1, <2>1 DEF ReceivingOK, HeldIsPublished
  <2>4. GoesOn /\ Stays
    BY <1>1, <2>1 DEF GoesOn, FilesCancelled, Carried, Stays
  <2>5. QED
    BY <2>2, <2>3, <2>4 DEF ClientMoves
<1>3. CASE op.peer = e.peer /\ op.transfer = e.id
  <2>1. op.kind = "pull" /\ op.transfer # 0 /\ op.id = nextId /\ nextId # 0 /\ op.peer = Server
    <3>1. op.kind \in {"none", "pull", "import"}
      BY DEF ClientTypes
    <3>2. QED
      BY <1>1, <1>3, <3>1, Idle DEF LaneOK
  <2>2. workers = {} /\ incoming = {}
    <3>1. workers = {}
      BY <2>1 DEF WorkersOK
    <3>2. incoming = {}
      BY <1>3 DEF ReceivingOK
    <3>3. QED
      BY <3>1, <3>2
  <2>3. CASE e.ok
    <3> DEFINE x == A!Worker(op.id, "import", Server, TRUE)
    <3>1. /\ op' = [op EXCEPT !.kind = "import", !.transfer = 0, !.deadline = "off"]
          /\ workers' = {x} /\ sent' = {} /\ incoming' = incoming
          /\ note' = [note EXCEPT ![Server] = A!NoNote]
      BY <1>1, <1>3, <2>2, <2>3 DEF A!OnTransferFinished, A!StartPullImport
    <3>2. /\ op' \in [id : Nat, kind : {"none", "pull", "import"}, peer : {Client, Server}, transfer : Nat,
                      deadline : {"off", "set", "running"}, engaged : BOOLEAN, snapshot : Nat]
          /\ op'.kind = "import" /\ op'.transfer = 0 /\ op'.deadline = "off" /\ op'.id = op.id /\ op'.peer = op.peer
      BY <3>1 DEF ClientTypes
    <3>3. /\ x \in [id : Nat \ {0}, kind : {"import"}, peer : {Server}, remove : {TRUE},
                    end : {"running", "ok", "failed", "cancelled"}]
          /\ x.id = nextId
      BY <2>1 DEF A!Worker, ClientTypes
    <3>4. note' \in [{Server} -> [name : Nat, size : Nat]]
      BY <3>1 DEF ClientTypes, A!NoNote, A!Nothing
    <3>5. ClientTypes'
      BY <1>1, <2>2, <3>1, <3>2, <3>3, <3>4 DEF ClientTypes
    <3> HIDE DEF x
    <3>6. LaneOK'
      BY <1>1, <2>1, <3>2 DEF LaneOK
    <3>7. WorkersOK'
      <4>1. nextId \in Nat /\ nextId <= nextId
        BY DEF ClientTypes
      <4>2. QED
        BY <1>1, <2>1, <3>1, <3>2, <3>3, <4>1 DEF WorkersOK
    <3>8. received[Server] \in named
      BY <1>3, <2>3 DEF HeldIsPublished
    <3>9. ReceivingOK' /\ HeldIsPublished'
      BY <1>1, <2>2, <3>1, <3>2, <3>8 DEF ReceivingOK, HeldIsPublished, ClientTypes
    <3>10. GoesOn
      BY <1>1, <3>1, <3>2 DEF GoesOn, FilesCancelled, Carried
    <3>11. Gives
      BY <1>1, <2>1, <3>2, <3>8 DEF Gives
    <3>12. QED
      BY <3>5, <3>6, <3>7, <3>9, <3>10, <3>11 DEF ClientMoves
  <2>4. CASE ~e.ok
    <3>1. /\ op' = A!NoOp /\ UNCHANGED <<workers, note, incoming>>
          /\ sent' \subseteq {A!Cancel(Server, op.id)}
      BY <1>3, <2>1, <2>4 DEF A!OnTransferFinished
    <3>2. ClientTypes' /\ LaneOK'
      BY <1>1, <3>1, Idle DEF ClientTypes, LaneOK
    <3>3. WorkersOK' /\ ReceivingOK'
      BY <1>1, <2>2, <3>1, Idle DEF WorkersOK, ReceivingOK
    <3>4. HeldIsPublished'
      BY <1>1, <2>2, <3>1, Idle DEF HeldIsPublished, ClientTypes
    <3>5. GoesOn
      <4>1. \A m \in sent' :
              /\ m \in [type : {"request", "cancel", "cancelFile"}, peer : {Server}, id : Nat, dump : Nat]
              /\ m.type = "cancel"
        BY <3>1 DEF A!Cancel, A!Nothing, ClientTypes
      <4>2. FilesCancelled = {}
        BY <4>1 DEF FilesCancelled, Carried
      <4>3. QED
        BY <1>1, <3>1, <4>1, <4>2, Idle DEF GoesOn
    <3>6. Ends
      BY <2>1, <3>1, Idle DEF Ends
    <3>7. QED
      BY <3>2, <3>3, <3>4, <3>5, <3>6 DEF ClientMoves
  <2>5. QED
    BY <2>3, <2>4
<1>4. QED
  BY <1>2, <1>3

(* What is heard of an operation changes what it waits for, not what it is. *)
LEMMA OpKeeps ==
  ASSUME ClientInv, op.kind = "pull",
         op' \in [id : Nat, kind : {"none", "pull", "import"}, peer : {Client, Server}, transfer : Nat,
                  deadline : {"off", "set", "running"}, engaged : BOOLEAN, snapshot : Nat],
         op'.id = op.id, op'.kind = op.kind, op'.peer = op.peer, op'.transfer = op.transfer,
         UNCHANGED <<nextId, workers, note, received, incoming, ended, named>>, sent' = {}
  PROVE  ClientInv' /\ GoesOn /\ Stays
<1> USE DEF ClientInv, Ids
<1>1. ClientTypes'
  BY DEF ClientTypes
<1>2. LaneOK'
  BY DEF LaneOK
<1>3. WorkersOK' /\ ReceivingOK' /\ HeldIsPublished'
  BY DEF WorkersOK, ReceivingOK, HeldIsPublished
<1>4. GoesOn /\ Stays
  BY DEF GoesOn, FilesCancelled, Carried, Stays
<1>5. QED
  BY <1>1, <1>2, <1>3, <1>4

(* handlePeerProgress() and handlePeerResponse() *)
LEMMA PeerProgressStep ==
  ASSUME ClientInv, NEW s, A!HandlePeerProgress(Server, s), named' = named
  PROVE  ClientInv' /\ GoesOn /\ ClientMoves
<1>1. /\ op' = [op EXCEPT !.deadline = "set"] /\ sent' = {} /\ op.kind = "pull"
      /\ UNCHANGED <<nextId, workers, note, received, incoming, ended>>
  BY DEF A!HandlePeerProgress, A!AwaitsBeat, A!Pulling, A!files
<1>2. /\ op' \in [id : Nat, kind : {"none", "pull", "import"}, peer : {Client, Server}, transfer : Nat,
                  deadline : {"off", "set", "running"}, engaged : BOOLEAN, snapshot : Nat]
      /\ op'.id = op.id /\ op'.kind = op.kind /\ op'.peer = op.peer /\ op'.transfer = op.transfer
  BY <1>1 DEF ClientInv, ClientTypes
<1>3. QED
  BY <1>1, <1>2, OpKeeps DEF ClientMoves

LEMMA TimeStep ==
  ASSUME ClientInv, A!TimePasses, named' = named
  PROVE  ClientInv' /\ GoesOn /\ ClientMoves
<1>1. /\ op' = [op EXCEPT !.deadline = "running"] /\ sent' = {} /\ op.deadline = "set"
      /\ UNCHANGED <<nextId, workers, note, received, incoming, ended>>
  BY DEF A!TimePasses, A!files
<1>2. /\ op' \in [id : Nat, kind : {"none", "pull", "import"}, peer : {Client, Server}, transfer : Nat,
                  deadline : {"off", "set", "running"}, engaged : BOOLEAN, snapshot : Nat]
      /\ op'.id = op.id /\ op'.kind = op.kind /\ op'.peer = op.peer /\ op'.transfer = op.transfer
  BY <1>1 DEF ClientInv, ClientTypes
<1>3. op.kind = "pull"
  <2>1. A!NoOp.deadline = "off"
    BY DEF A!NoOp
  <2>2. QED
    BY <1>1, <2>1 DEF ClientInv, ClientTypes, LaneOK
<1>4. QED
  BY <1>1, <1>2, <1>3, OpKeeps DEF ClientMoves

LEMMA PeerResponseStep ==
  ASSUME ClientInv, NEW s, NEW kind, NEW g \in Nat, A!HandlePeerResponse(Server, s, kind, g), named' = named
  PROVE  ClientInv' /\ GoesOn /\ ClientMoves
<1>1. op.kind = "pull" /\ s = op.id /\ UNCHANGED <<nextId, workers, note, received, ended>>
  BY DEF A!HandlePeerResponse, A!AwaitsAnswer, A!Pulling, A!files
<1>2. CASE kind = "refused"
  BY <1>1, <1>2, FinishPullStep DEF A!HandlePeerResponse
<1>3. CASE kind # "refused"
  <2>1. /\ op' = [op EXCEPT !.snapshot = g, !.engaged = TRUE, !.deadline = "set"]
        /\ sent' = {} /\ UNCHANGED incoming
    BY <1>3 DEF A!HandlePeerResponse
  <2>2. /\ op' \in [id : Nat, kind : {"none", "pull", "import"}, peer : {Client, Server}, transfer : Nat,
                    deadline : {"off", "set", "running"}, engaged : BOOLEAN, snapshot : Nat]
        /\ op'.id = op.id /\ op'.kind = op.kind /\ op'.peer = op.peer /\ op'.transfer = op.transfer
    BY <2>1 DEF ClientInv, ClientTypes
  <2>3. QED
    BY <1>1, <2>1, <2>2, OpKeeps DEF ClientMoves
<1>4. QED
  BY <1>2, <1>3

(* librats ends the transfer r: nothing is being received then.             *)
LEMMA TransferEndsStep ==
  ASSUME ClientInv, NEW r \in incoming, NEW success \in BOOLEAN, A!TransferEnds(r, success, FALSE), named' = named
  PROVE  /\ ClientInv' /\ Stays
         /\ incoming' = {} /\ Ids(ended') = Ids(ended) \union {r.id}
         /\ UNCHANGED <<op, nextId>> /\ sent' = {} /\ op.transfer = r.id
<1> USE DEF ClientInv, Ids
<1> DEFINE e == [peer |-> r.peer, id |-> r.id, ok |-> success]
<1>1. /\ incoming' = incoming \ {r} /\ ended' = ended \union {e}
      /\ UNCHANGED <<op, nextId, workers, note>> /\ sent' = {}
      /\ received' = IF success THEN [received EXCEPT ![r.peer] = r.dump] ELSE received
  BY DEF A!TransferEnds, A!lane
<1>2. r.peer = Server /\ r.id \in Nat \ {0} /\ r.dump \in Nat \ {0} /\ op.transfer = r.id /\ r.dump \in named
  BY DEF ClientTypes, ReceivingOK, HeldIsPublished
<1>3. incoming' = {}
  BY <1>1 DEF ReceivingOK
<1>4. e \in [peer : {Server}, id : Nat \ {0}, ok : BOOLEAN] /\ e.id = r.id /\ e.ok = success
  BY <1>2
<1> HIDE DEF e
<1>5. received' \in [{Server} -> Nat] /\ (received'[Server] = received[Server] \/ received'[Server] = r.dump)
  BY <1>1, <1>2 DEF ClientTypes
<1>6. op.kind # "import"
  BY <1>2 DEF LaneOK
<1>7. ClientTypes' /\ LaneOK' /\ WorkersOK'
  BY <1>1, <1>3, <1>4, <1>5 DEF ClientTypes, LaneOK, WorkersOK
<1>8. ReceivingOK'
  BY <1>1, <1>3 DEF ReceivingOK
<1>9. HeldIsPublished'
  <2>1. \A f \in ended : f.id # r.id
    BY DEF ReceivingOK
  <2>2. success => received'[Server] = r.dump
    BY <1>1, <1>2 DEF ClientTypes
  <2>3. \A f \in ended' : f.ok /\ f.id = r.id => received'[Server] \in named
    BY <1>1, <1>2, <1>4, <2>1, <2>2
  <2>4. QED
    BY <1>1, <1>2, <1>3, <1>6, <2>3 DEF HeldIsPublished
<1>10. Ids(ended') = Ids(ended) \union {r.id}
  BY <1>1, <1>4
<1>11. QED
  BY <1>1, <1>2, <1>3, <1>6, <1>7, <1>8, <1>9, <1>10 DEF Stays

(* onFileOffered(): the file t is accepted by the pull that waits for one,  *)
(* or refused.                                                              *)
Accepts(t, g) ==
  /\ op.transfer = 0 /\ op'.transfer = t /\ incoming = {}
  /\ incoming' = {[peer |-> Server, id |-> t, dump |-> g]}
  /\ sent' = {A!AcceptFile(Server, t)}
Refuses(t) == op' = op /\ incoming' = incoming /\ sent' = {A!RejectFile(Server, t)}

LEMMA FileOfferedStep ==
  ASSUME ClientInv, NEW t \in Nat \ {0}, NEW g \in Nat \ {0}, g \in named, t \notin Ids(ended),
         A!EarlierCompletionsRan, A!OnFileOffered(Server, t, g, TRUE, TRUE), named' = named
  PROVE  /\ ClientInv' /\ Stays /\ UNCHANGED <<nextId, ended>>
         /\ Accepts(t, g) \/ Refuses(t)
<1> USE DEF ClientInv, Ids
<1>1. UNCHANGED <<nextId, workers, received, ended>>
  BY DEF A!OnFileOffered, A!files
<1>2. CASE ~A!Pulling(Server) \/ op.transfer # 0
  <2>1. UNCHANGED <<op, note, incoming>> /\ sent' = {A!RejectFile(Server, t)}
    BY <1>2 DEF A!OnFileOffered, A!files
  <2>2. ClientInv'
    BY <1>1, <2>1 DEF ClientTypes, LaneOK, WorkersOK, ReceivingOK, HeldIsPublished
  <2>3. QED
    BY <1>1, <2>1, <2>2 DEF Stays, Refuses
<1>3. CASE A!Pulling(Server) /\ op.transfer = 0
  <2> DEFINE r == [peer |-> Server, id |-> t, dump |-> g]
  <2>1. /\ op' = [op EXCEPT !.transfer = t, !.deadline = "off"]
        /\ incoming' = incoming \union {r} /\ sent' = {A!AcceptFile(Server, t)}
        /\ note' = A!NoteFor(Server, g)
    BY <1>3 DEF A!OnFileOffered
  <2>2. op.kind = "pull" /\ op.id = nextId /\ op.peer = Server /\ op.transfer = 0
    BY <1>3 DEF A!Pulling, LaneOK
  <2>3. /\ op' \in [id : Nat, kind : {"none", "pull", "import"}, peer : {Client, Server}, transfer : Nat,
                    deadline : {"off", "set", "running"}, engaged : BOOLEAN, snapshot : Nat]
        /\ op'.id = op.id /\ op'.kind = op.kind /\ op'.peer = op.peer /\ op'.transfer = t
    BY <2>1 DEF ClientTypes
  <2>4. incoming = {}
    BY <2>2 DEF ReceivingOK, ClientTypes
  <2>5. workers = {}
    <3>1. \A w \in workers : w.end # "running" /\ w.id # op.id /\ w.id <= op.id /\ w.id \in Nat
      BY <2>2 DEF WorkersOK, ClientTypes
    <3>2. \A w \in workers : w.id >= op.id
      BY <3>1 DEF A!EarlierCompletionsRan
    <3>3. op.id \in Nat
      BY DEF ClientTypes
    <3>4. QED
      BY <3>1, <3>2, <3>3
  <2>6. r \in [peer : {Server}, id : Nat \ {0}, dump : Nat \ {0}] /\ r.id = t /\ r.dump = g
    OBVIOUS
  <2>7. note' \in [{Server} -> [name : Nat, size : Nat]]
    BY <2>1 DEF A!NoteFor, A!NoNote, A!Nothing, ClientTypes
  <2>8. incoming' = {r}
    BY <2>1, <2>4
  <2> HIDE DEF r
  <2>9. ClientTypes'
    BY <1>1, <2>3, <2>6, <2>7, <2>8 DEF ClientTypes
  <2>10. LaneOK' /\ WorkersOK'
    BY <1>1, <2>2, <2>3, <2>5 DEF LaneOK, WorkersOK
  <2>11. ReceivingOK' /\ HeldIsPublished'
    BY <1>1, <2>2, <2>3, <2>6, <2>8 DEF ReceivingOK, HeldIsPublished
  <2>12. QED
    BY <1>1, <2>1, <2>2, <2>3, <2>4, <2>8, <2>9, <2>10, <2>11 DEF r, Accepts, Stays
<1>4. QED
  BY <1>2, <1>3

-----------------------------------------------------------------------------
(* The streams: what is appended, and what is taken from the head.          *)
InFlight(ms, m) == \E i \in 1..Len(ms) : ms[i] = m

LEMMA AppendCarries ==
  ASSUME NEW S, NEW ms \in Seq(S), NEW x \in S
  PROVE  \A m : InFlight(Append(ms, x), m) <=> InFlight(ms, m) \/ m = x
<1>1. Len(ms) \in Nat /\ Len(Append(ms, x)) = Len(ms) + 1 /\ Append(ms, x)[Len(ms) + 1] = x
  BY AppendProperties, LenProperties
<1>2. \A i \in 1..Len(ms) : Append(ms, x)[i] = ms[i]
  BY AppendProperties
<1>3. \A i \in 1..(Len(ms) + 1) : i \in 1..Len(ms) \/ i = Len(ms) + 1
  BY <1>1
<1>4. ASSUME NEW m PROVE InFlight(Append(ms, x), m) <=> InFlight(ms, m) \/ m = x
  BY <1>1, <1>2, <1>3 DEF InFlight
<1>5. QED
  BY <1>4

LEMMA TailCarries ==
  ASSUME NEW S, NEW ms \in Seq(S), ms # <<>>
  PROVE  \A m : InFlight(ms, m) => m = Head(ms) \/ InFlight(Tail(ms), m)
<1>1. Len(ms) \in Nat \ {0} /\ Len(Tail(ms)) = Len(ms) - 1 /\ Head(ms) = ms[1]
  BY HeadTailProperties, LenProperties, EmptySeq
<1>2. \A i \in 1..Len(Tail(ms)) : Tail(ms)[i] = ms[i + 1]
  BY HeadTailProperties
<1>3. \A i \in 1..Len(ms) : i = 1 \/ (i - 1 \in 1..Len(Tail(ms)) /\ (i - 1) + 1 = i)
  BY <1>1
<1>4. ASSUME NEW m, NEW i \in 1..Len(ms), ms[i] = m PROVE m = Head(ms) \/ InFlight(Tail(ms), m)
  <2>1. CASE i = 1
    BY <1>1, <1>4, <2>1
  <2>2. CASE i # 1
    <3>1. i - 1 \in 1..Len(Tail(ms)) /\ Tail(ms)[i - 1] = m
      BY <1>2, <1>3, <1>4, <2>2
    <3>2. QED
      BY <3>1 DEF InFlight
  <2>3. QED
    BY <2>1, <2>2
<1>5. QED
  BY <1>4 DEF InFlight

(* The requests.                                                            *)
LEMMA RequestsLater ==
  ASSUME NEW ms, NEW last \in Nat, NEW n \in Nat, NEW k \in Nat, n <= k, RequestsOK(ms, last, n)
  PROVE  RequestsOK(ms, last, k)
<1>1. \A i \in 1..Len(ms) : ms[i].id \in Nat
  <2>1. \A i \in 1..Len(ms) : ms[i] \in RequestMsgs
    BY ElementOfSeq DEF RequestsOK
  <2>2. QED
    BY <2>1 DEF RequestMsgs
<1>2. QED
  BY <1>1 DEF RequestsOK

LEMMA RequestsAppend ==
  ASSUME NEW ms, NEW last \in Nat, NEW n \in Nat, NEW k \in Nat, n <= k, last <= n, RequestsOK(ms, last, n),
         NEW x \in RequestMsgs, IsRequest(x) => k = n + 1 /\ x.id = k
  PROVE  RequestsOK(Append(ms, x), last, k)
<1> DEFINE new == Append(ms, x)
<1>1. RequestsOK(ms, last, k) /\ RequestsOK(ms, last, n) /\ ms \in Seq(RequestMsgs)
  BY RequestsLater DEF RequestsOK
<1>2. /\ new \in Seq(RequestMsgs) /\ Len(ms) \in Nat /\ Len(new) = Len(ms) + 1
      /\ new[Len(ms) + 1] = x /\ \A i \in 1..Len(ms) : new[i] = ms[i]
  BY <1>1, AppendProperties, LenProperties
<1> HIDE DEF new
<1>3. \A i \in 1..Len(new) : (i \in 1..Len(ms) /\ new[i] = ms[i]) \/ (i = Len(ms) + 1 /\ new[i] = x)
  BY <1>2
<1>4. ASSUME NEW i \in 1..Len(new), IsRequest(new[i]) PROVE last < new[i].id /\ new[i].id <= k
  <2>1. CASE i \in 1..Len(ms) /\ new[i] = ms[i]
    BY <1>1, <1>4, <2>1 DEF RequestsOK
  <2>2. CASE new[i] = x
    BY <1>4, <2>2
  <2>3. QED
    BY <1>3, <2>1, <2>2
<1>5. ASSUME NEW i \in 1..Len(new), NEW j \in 1..Len(new), i < j, IsRequest(new[i]), IsRequest(new[j])
      PROVE  new[i].id < new[j].id
  <2>1. i \in 1..Len(ms) /\ new[i] = ms[i]
    BY <1>2, <1>3, <1>5
  <2>2. CASE j \in 1..Len(ms) /\ new[j] = ms[j]
    BY <1>1, <1>5, <2>1, <2>2 DEF RequestsOK
  <2>3. CASE new[j] = x
    <3>1. x.id = n + 1
      BY <1>5, <2>3
    <3>2. ms[i].id <= n /\ ms[i].id \in Nat
      <4>1. ms[i] \in RequestMsgs
        BY <1>1, <2>1, ElementOfSeq
      <4>2. QED
        BY <1>5, <2>1, <4>1 DEF RequestsOK, RequestMsgs
    <3>3. QED
      BY <2>1, <2>3, <3>1, <3>2
  <2>4. QED
    BY <1>3, <2>2, <2>3
<1>6. QED
  BY <1>2, <1>4, <1>5 DEF RequestsOK, new

LEMMA RequestsTail ==
  ASSUME NEW ms, NEW last \in Nat, NEW n \in Nat, RequestsOK(ms, last, n), ms # <<>>
  PROVE  /\ Head(ms) \in RequestMsgs
         /\ RequestsOK(Tail(ms), last, n)
         /\ IsRequest(Head(ms)) => /\ last < Head(ms).id /\ Head(ms).id <= n
                                   /\ RequestsOK(Tail(ms), Head(ms).id, n)
<1> DEFINE rest == Tail(ms)
<1>1. ms \in Seq(RequestMsgs)
  BY DEF RequestsOK
<1>2. /\ Head(ms) \in RequestMsgs /\ rest \in Seq(RequestMsgs) /\ Head(ms) = ms[1]
      /\ Len(ms) \in Nat \ {0} /\ Len(rest) = Len(ms) - 1 /\ \A i \in 1..Len(rest) : rest[i] = ms[i + 1]
  BY <1>1, HeadTailProperties, LenProperties, EmptySeq
<1> HIDE DEF rest
<1>3. \A i \in 1..Len(rest) : i + 1 \in 1..Len(ms) /\ 1 < i + 1 /\ i \in Nat
  BY <1>2
<1>4. 1 \in 1..Len(ms)
  BY <1>2
<1>5. RequestsOK(rest, last, n)
  <2>1. \A i, j \in 1..Len(rest) : i < j => i + 1 < j + 1
    BY <1>2
  <2>2. QED
    BY <1>2, <1>3, <2>1 DEF RequestsOK
<1>6. ASSUME IsRequest(Head(ms))
      PROVE  last < Head(ms).id /\ Head(ms).id <= n /\ RequestsOK(rest, Head(ms).id, n)
  <2>1. last < Head(ms).id /\ Head(ms).id <= n
    BY <1>2, <1>4, <1>6 DEF RequestsOK
  <2>2. \A i \in 1..Len(rest) : IsRequest(rest[i]) => Head(ms).id < rest[i].id
    BY <1>2, <1>3, <1>4, <1>6 DEF RequestsOK
  <2>3. QED
    BY <1>5, <2>1, <2>2 DEF RequestsOK
<1>7. QED
  BY <1>2, <1>5, <1>6 DEF rest

(* The offers.                                                              *)
LEMMA OfferTypes ==
  ASSUME NEW ms, NEW v, NEW last, NEW used, NEW dumps, OffersOK(ms, v, last, used, dumps)
  PROVE  /\ Len(ms) \in Nat
         /\ \A i \in 1..Len(ms) : ms[i] \in OfferMsgs /\ ms[i].id \in Nat \ {0}
<1>1. ms \in Seq(OfferMsgs)
  BY DEF OffersOK
<1>2. Len(ms) \in Nat /\ \A i \in 1..Len(ms) : ms[i] \in OfferMsgs
  BY <1>1, LenProperties, ElementOfSeq
<1>3. QED
  BY <1>2 DEF OfferMsgs

LEMMA OffersLater ==
  ASSUME NEW ms, NEW v, NEW last \in Nat, NEW used, NEW dumps, OffersOK(ms, v, last, used, dumps),
         NEW later \in Nat, last <= later, NEW more, dumps \subseteq more, NEW seen, seen \subseteq used \union {0}
  PROVE  OffersOK(ms, v, later, seen, more)
<1>1. \A i \in 1..Len(ms) : ms[i].id \in Nat \ {0}
  BY OfferTypes
<1>2. \A i \in 1..Len(ms) : ms[i].id <= later
  BY <1>1 DEF OffersOK
<1>3. QED
  BY <1>1, <1>2 DEF OffersOK

LEMMA OffersTail ==
  ASSUME NEW ms, NEW v, NEW last \in Nat, NEW used, NEW dumps, OffersOK(ms, v, last, used, dumps), ms # <<>>
  PROVE  /\ Head(ms) \in OfferMsgs /\ Head(ms).id <= last
         /\ OffersOK(Tail(ms), v, last, used, dumps)
         /\ IsOffer(Head(ms)) =>
              /\ Head(ms).dump \in dumps /\ Head(ms).dump # 0 /\ Head(ms).id \notin used
              /\ SentBy(v, Head(ms)) \/ InFlight(Tail(ms), Withdrawal(Head(ms).id))
              /\ v.waiting => Head(ms).id # v.session
              /\ \A i \in 1..Len(Tail(ms)) : IsOffer(Tail(ms)[i]) => Tail(ms)[i].id # Head(ms).id
         /\ ~IsOffer(Head(ms)) => Head(ms) = Withdrawal(Head(ms).id) /\ Head(ms).id # v.session
<1> DEFINE rest == Tail(ms)
<1>1. ms \in Seq(OfferMsgs)
  BY DEF OffersOK
<1>2. /\ Head(ms) \in OfferMsgs /\ rest \in Seq(OfferMsgs) /\ Head(ms) = ms[1]
      /\ Len(ms) \in Nat \ {0} /\ Len(rest) = Len(ms) - 1 /\ \A i \in 1..Len(rest) : rest[i] = ms[i + 1]
  BY <1>1, HeadTailProperties, LenProperties, EmptySeq
<1> HIDE DEF rest
<1>3. \A i \in 1..Len(rest) : i + 1 \in 1..Len(ms) /\ i + 1 # 1 /\ i \in Nat
  BY <1>2
<1>4. 1 \in 1..Len(ms)
  BY <1>2
<1>5. \A i \in 1..Len(ms), j \in 1..Len(ms) :
        i < j => j - 1 \in 1..Len(rest) /\ rest[j - 1] = ms[j] /\ (i # 1 => i - 1 < j - 1)
  BY <1>2
<1>6. ASSUME NEW i \in 1..Len(rest), IsOffer(rest[i])
      PROVE  SentBy(v, rest[i]) \/ \E j \in 1..Len(rest) : i < j /\ rest[j] = Withdrawal(rest[i].id)
  <2>1. SentBy(v, ms[i + 1]) \/ \E j \in 1..Len(ms) : i + 1 < j /\ ms[j] = Withdrawal(ms[i + 1].id)
    BY <1>2, <1>3, <1>6 DEF OffersOK
  <2>2. ASSUME NEW j \in 1..Len(ms), i + 1 < j
        PROVE  j - 1 \in 1..Len(rest) /\ rest[j - 1] = ms[j] /\ i < j - 1
    BY <1>2, <2>2
  <2>3. QED
    BY <1>2, <2>1, <2>2
<1>7. \A i, j \in 1..Len(rest) : i + 1 = j + 1 => i = j
  BY <1>2
<1>8. \A i, j \in 1..Len(rest) : IsOffer(rest[i]) /\ IsOffer(rest[j]) /\ rest[i].id = rest[j].id => i = j
  BY <1>2, <1>3, <1>7 DEF OffersOK
<1>9. OffersOK(rest, v, last, used, dumps)
  <2>1. ASSUME NEW i \in 1..Len(rest)
        PROVE  /\ rest[i].id <= last
               /\ IsOffer(rest[i]) => /\ rest[i].dump \in dumps /\ rest[i].dump # 0 /\ rest[i].id \notin used
                                      /\ v.waiting => rest[i].id # v.session
               /\ ~IsOffer(rest[i]) => rest[i].id # v.session /\ rest[i] = Withdrawal(rest[i].id)
    <3>1. rest[i] = ms[i + 1] /\ i + 1 \in 1..Len(ms)
      BY <1>2, <1>3
    <3>2. QED
      BY <3>1 DEF OffersOK
  <2>2. QED
    BY <1>2, <1>6, <1>8, <2>1 DEF OffersOK
<1>10. ASSUME IsOffer(Head(ms))
       PROVE  /\ Head(ms).dump \in dumps /\ Head(ms).dump # 0 /\ Head(ms).id \notin used
              /\ SentBy(v, Head(ms)) \/ InFlight(rest, Withdrawal(Head(ms).id))
              /\ v.waiting => Head(ms).id # v.session
              /\ \A i \in 1..Len(rest) : IsOffer(rest[i]) => rest[i].id # Head(ms).id
  <2>1. /\ Head(ms).dump \in dumps /\ Head(ms).dump # 0 /\ Head(ms).id \notin used
        /\ v.waiting => Head(ms).id # v.session
    BY <1>2, <1>4, <1>10 DEF OffersOK
  <2>2. SentBy(v, Head(ms)) \/ InFlight(rest, Withdrawal(Head(ms).id))
    <3>1. SentBy(v, ms[1]) \/ \E j \in 1..Len(ms) : 1 < j /\ ms[j] = Withdrawal(ms[1].id)
      BY <1>2, <1>4, <1>10 DEF OffersOK
    <3>2. QED
      BY <1>2, <1>4, <1>5, <3>1 DEF InFlight
  <2>3. \A i \in 1..Len(rest) : IsOffer(rest[i]) => rest[i].id # Head(ms).id
    BY <1>2, <1>3, <1>4, <1>10 DEF OffersOK
  <2>4. QED
    BY <2>1, <2>2, <2>3
<1>11. ~IsOffer(Head(ms)) => Head(ms) = Withdrawal(Head(ms).id) /\ Head(ms).id # v.session
  BY <1>2, <1>4 DEF OffersOK
<1>12. Head(ms).id <= last
  BY <1>2, <1>4 DEF OffersOK
<1>13. QED
  BY <1>2, <1>9, <1>10, <1>11, <1>12 DEF rest

(* The serve v ends with a withdrawal of what it was sending ...            *)
LEMMA OffersWithdraw ==
  ASSUME NEW ms, NEW v, NEW last \in Nat, NEW used, NEW dumps, OffersOK(ms, v, last, used, dumps),
         v.session \in Nat \ {0}, v.session <= last
  PROVE  OffersOK(Append(ms, Withdrawal(v.session)), B!NoServe, last, used, dumps)
<1> DEFINE x == Withdrawal(v.session)
           new == Append(ms, x)
<1>1. x \in OfferMsgs /\ ~IsOffer(x) /\ x.id = v.session
  BY DEF Withdrawal, OfferMsgs, IsOffer, B!NoGen
<1>2. ms \in Seq(OfferMsgs) /\ \A i \in 1..Len(ms) : ms[i].id \in Nat \ {0}
  BY OfferTypes DEF OffersOK
<1> HIDE DEF x
<1>3. /\ new \in Seq(OfferMsgs) /\ Len(ms) \in Nat /\ Len(new) = Len(ms) + 1
      /\ new[Len(ms) + 1] = x /\ \A i \in 1..Len(ms) : new[i] = ms[i]
  BY <1>1, <1>2, AppendProperties, LenProperties
<1> HIDE DEF new
<1>4. \A i \in 1..Len(new) : (i \in 1..Len(ms) /\ new[i] = ms[i]) \/ (i = Len(ms) + 1 /\ new[i] = x)
  BY <1>3
<1>5. /\ Len(ms) + 1 \in 1..Len(new)
      /\ \A i \in 1..Len(ms) : i < Len(ms) + 1 /\ i \in 1..Len(new)
  BY <1>3
<1>6. ASSUME NEW i \in 1..Len(new), IsOffer(new[i])
      PROVE  \E j \in 1..Len(new) : i < j /\ new[j] = Withdrawal(new[i].id)
  <2>1. i \in 1..Len(ms) /\ new[i] = ms[i]
    BY <1>1, <1>4, <1>6
  <2>2. SentBy(v, ms[i]) \/ \E j \in 1..Len(ms) : i < j /\ ms[j] = Withdrawal(ms[i].id)
    BY <1>6, <2>1 DEF OffersOK
  <2>3. CASE SentBy(v, ms[i])
    BY <1>3, <1>5, <2>1, <2>3 DEF SentBy, x
  <2>4. CASE \E j \in 1..Len(ms) : i < j /\ ms[j] = Withdrawal(ms[i].id)
    BY <1>3, <1>5, <2>1, <2>4
  <2>5. QED
    BY <2>2, <2>3, <2>4
<1>7. \A i \in 1..Len(new) : IsOffer(new[i]) => i \in 1..Len(ms) /\ new[i] = ms[i]
  BY <1>1, <1>4
<1>8. ASSUME NEW i \in 1..Len(new), ~IsOffer(new[i])
      PROVE  new[i].id # 0 /\ new[i] = Withdrawal(new[i].id)
  <2>1. CASE i \in 1..Len(ms) /\ new[i] = ms[i]
    BY <1>2, <1>8, <2>1 DEF OffersOK
  <2>2. CASE new[i] = x
    BY <1>1, <2>2 DEF x
  <2>3. QED
    BY <1>4, <2>1, <2>2
<1>9. \A i \in 1..Len(new) : new[i].id <= last
  BY <1>1, <1>4 DEF OffersOK
<1>10. QED
  BY <1>3, <1>6, <1>7, <1>8, <1>9, ServeShapes DEF OffersOK, new, x

(* ... or, when it sent nothing or the transfer was over, without one.      *)
LEMMA OffersUnserved ==
  ASSUME NEW ms, NEW v, NEW last \in Nat, NEW used, NEW dumps, OffersOK(ms, v, last, used, dumps),
         v.sending => v.session \in used
  PROVE  OffersOK(ms, B!NoServe, last, used, dumps)
<1>1. \A i \in 1..Len(ms) : ms[i].id \in Nat \ {0}
  BY OfferTypes
<1>2. QED
  BY <1>1, ServeShapes DEF OffersOK, SentBy

(* A transfer that is not among the offers becomes known.                   *)
LEMMA OffersSeen ==
  ASSUME NEW ms, NEW v, NEW last, NEW used, NEW dumps, OffersOK(ms, v, last, used, dumps),
         NEW t, \A i \in 1..Len(ms) : IsOffer(ms[i]) => ms[i].id # t
  PROVE  OffersOK(ms, v, last, used \union {t}, dumps)
BY DEF OffersOK

(* A serve begins: its peer waits, ...                                      *)
LEMMA OffersWait ==
  ASSUME NEW ms, NEW last \in Nat, NEW used, NEW dumps, OffersOK(ms, B!NoServe, last, used, dumps), NEW s,
         \A i \in 1..Len(ms) : ms[i].id # s
  PROVE  OffersOK(ms, B!WaitingServe(s), last, used, dumps)
BY ServeShapes DEF OffersOK, SentBy

(* ... or is offered the dump g.                                            *)
LEMMA OffersOffer ==
  ASSUME NEW ms, NEW last \in Nat, NEW used, NEW dumps, OffersOK(ms, B!NoServe, last, used, dumps),
         NEW s \in Nat \ {0}, s <= last, s \notin used, NEW g \in Nat \ {0}, g \in dumps,
         \A i \in 1..Len(ms) : ms[i].id # s
  PROVE  OffersOK(Append(ms, Offer(s, g)), B!SendingServe(s, g), last, used, dumps)
<1> DEFINE x == Offer(s, g)
           new == Append(ms, x)
           v == B!SendingServe(s, g)
<1>1. x \in OfferMsgs /\ IsOffer(x) /\ x.id = s /\ x.dump = g
  BY DEF Offer, OfferMsgs, IsOffer
<1>2. ms \in Seq(OfferMsgs) /\ \A i \in 1..Len(ms) : ms[i].id \in Nat \ {0}
  BY OfferTypes DEF OffersOK
<1>3. v.session = s /\ v.file = g /\ ~v.waiting /\ v.sending /\ SentBy(v, x)
  BY <1>1, ServeShapes DEF SentBy
<1> HIDE DEF x, v
<1>4. /\ new \in Seq(OfferMsgs) /\ Len(ms) \in Nat /\ Len(new) = Len(ms) + 1
      /\ new[Len(ms) + 1] = x /\ \A i \in 1..Len(ms) : new[i] = ms[i]
  BY <1>1, <1>2, AppendProperties, LenProperties
<1> HIDE DEF new
<1>5. \A i \in 1..Len(new) : (i \in 1..Len(ms) /\ new[i] = ms[i]) \/ (i = Len(ms) + 1 /\ new[i] = x)
  BY <1>4
<1>6. \A j \in 1..Len(ms) : j \in 1..Len(new)
  BY <1>4
<1>7. ASSUME NEW i \in 1..Len(new), IsOffer(new[i])
      PROVE  /\ new[i].dump \in dumps /\ new[i].dump # 0 /\ new[i].id \notin used
             /\ SentBy(v, new[i]) \/ \E j \in 1..Len(new) : i < j /\ new[j] = Withdrawal(new[i].id)
  <2>1. CASE i \in 1..Len(ms) /\ new[i] = ms[i]
    <3>1. \E j \in 1..Len(ms) : i < j /\ ms[j] = Withdrawal(ms[i].id)
      BY <1>7, <2>1, ServeShapes DEF OffersOK, SentBy
    <3>2. QED
      BY <1>4, <1>6, <1>7, <2>1, <3>1 DEF OffersOK
  <2>2. CASE new[i] = x
    BY <1>1, <1>3, <2>2
  <2>3. QED
    BY <1>5, <2>1, <2>2
<1>8. \A i \in 1..Len(new) : ~IsOffer(new[i]) => new[i].id # s /\ new[i] = Withdrawal(new[i].id)
  BY <1>1, <1>5 DEF OffersOK
<1>9. \A i \in 1..Len(new) : new[i].id <= last
  BY <1>1, <1>5 DEF OffersOK
<1>10. \A i, j \in 1..Len(new) : IsOffer(new[i]) /\ IsOffer(new[j]) /\ new[i].id = new[j].id => i = j
  BY <1>1, <1>5 DEF OffersOK
<1>11. QED
  BY <1>3, <1>4, <1>7, <1>8, <1>9, <1>10 DEF OffersOK, new, x, v

-----------------------------------------------------------------------------
(* The numbers the invariants compare.                                      *)
LEMMA Numbers ==
  ASSUME ClientInv, ServerInv
  PROVE  /\ nextId \in Nat /\ op.transfer \in Nat /\ Latest \in Nat /\ Serve.session \in Nat
         /\ Serve.session <= Latest
         /\ Serve.waiting => Serve.session # 0 /\ ~Serve.sending
         /\ Serve.sending => Serve.session # 0 /\ ~Serve.waiting /\ Serve.file \in Nat \ {0} /\ Serve.file \in named
         /\ \A r \in incoming : r.id \in Nat \ {0} /\ r.dump \in Nat \ {0} /\ r.dump \in named /\ r.id = op.transfer
         /\ \A e \in ended : e.id \in Nat \ {0}
<1>1. nextId \in Nat /\ op.transfer \in Nat /\ \A e \in ended : e.id \in Nat \ {0}
  BY DEF ClientInv, ClientTypes
<1>2. \A r \in incoming : r.id \in Nat \ {0} /\ r.dump \in Nat \ {0} /\ r.dump \in named /\ r.id = op.transfer
  BY DEF ClientInv, ClientTypes, ReceivingOK, HeldIsPublished
<1>3. Latest \in Nat /\ Serve.session \in Nat /\ Serve.session <= Latest
  BY ServerFacts DEF ServerInv, Serve, Latest
<1>4. /\ Serve.waiting => Serve.session # 0 /\ ~Serve.sending
      /\ Serve.sending => Serve.session # 0 /\ ~Serve.waiting
  BY ServerFacts, ServeShapes
<1>5. Serve.sending => Serve.file \in Nat \ {0} /\ Serve.file \in named
  BY ServerFacts DEF ServerInv
<1>6. QED
  BY <1>1, <1>2, <1>3, <1>4, <1>5

(* The wire after a step of the client that accepts and refuses no file.    *)
LEMMA ClientWire ==
  ASSUME ClientInv, ServerInv, WireInv, BothEndsAgree, ClientInv', GoesOn,
         requests' = IF Connected /\ Carried("request") \union Carried("cancel") # {}
                     THEN Append(requests, CHOOSE m \in sent' : m.type \in {"request", "cancel"})
                     ELSE requests,
         outcomes' = IF Connected
                     THEN outcomes \union {m.id : m \in Carried("rejectFile") \union Carried("cancelFile")}
                     ELSE outcomes,
         UNCHANGED <<offers, serves, lastSession, disk, named>>, answers' \in Seq(AnswerMsgs),
         \/ unaware' = unaware
         \/ Client \in unaware /\ unaware' = unaware \ {Client} /\ incoming' = {}
  PROVE  WireInv' /\ BothEndsAgree'
<1>1. /\ outcomes' = IF Connected THEN outcomes \union FilesCancelled ELSE outcomes
      /\ FilesCancelled \subseteq {op.transfer}
  <2>1. Carried("rejectFile") = {}
    BY DEF Carried, GoesOn
  <2>2. QED
    BY <2>1 DEF FilesCancelled, GoesOn
<1>2. /\ nextId \in Nat /\ nextId' \in Nat /\ nextId <= nextId' /\ Latest \in Nat /\ Latest <= nextId
      /\ UNCHANGED <<Serve, Latest>>
  BY Numbers DEF GoesOn, WireInv, UsedOK, Serve, Latest
<1>3. Used' \subseteq Used \union {0}
  <2>1. op'.transfer \in {op.transfer, 0} /\ Ids(ended') \subseteq Ids(ended)
    BY DEF GoesOn, Ids
  <2>2. QED
    BY <1>1, <2>1 DEF Used
<1>4. RequestsOK(requests', Latest, nextId')
  <2>1. RequestsOK(requests, Latest, nextId)
    BY DEF WireInv, StreamsOK
  <2>2. CASE ~(Connected /\ Carried("request") \union Carried("cancel") # {})
    BY <1>2, <2>1, <2>2, RequestsLater
  <2>3. CASE Connected /\ Carried("request") \union Carried("cancel") # {}
    <3> DEFINE x == CHOOSE m \in sent' : m.type \in {"request", "cancel"}
    <3>1. x \in sent' /\ x.type \in {"request", "cancel"}
      BY <2>3 DEF Carried
    <3>2. requests' = Append(requests, x)
      BY <2>3
    <3> HIDE DEF x
    <3>3. x \in [type : {"request", "cancel", "cancelFile"}, peer : {Server}, id : Nat, dump : Nat]
          /\ (x.type = "request" => nextId' = nextId + 1 /\ x.id = nextId')
      BY <3>1 DEF GoesOn
    <3>4. x \in RequestMsgs
      BY <3>1, <3>3 DEF RequestMsgs
    <3>5. IsRequest(x) => nextId' = nextId + 1 /\ x.id = nextId'
      BY <3>3 DEF IsRequest
    <3>6. RequestsOK(Append(requests, x), Latest, nextId')
      BY <1>2, <2>1, <3>4, <3>5, RequestsAppend
    <3>7. QED
      BY <3>2, <3>6
  <2>4. QED
    BY <2>2, <2>3
<1>5. OffersOK(offers, Serve, Latest, Used', named)
  <2>1. OffersOK(offers, Serve, Latest, Used, named) /\ Latest <= Latest /\ named \subseteq named
    BY <1>2 DEF WireInv, StreamsOK
  <2>2. QED
    BY <1>2, <1>3, <2>1, OffersLater
<1>6. StreamsOK'
  BY <1>2, <1>4, <1>5 DEF StreamsOK
<1>7. UsedOK'
  <2>1. /\ \A t \in Used' : t \in Nat /\ t <= Latest
        /\ Serve.waiting => Serve.session \notin Used'
    BY <1>2, <1>3, Numbers DEF WireInv, UsedOK
  <2>2. Latest <= nextId'
    BY <1>2
  <2>3. Client \notin unaware' => Ids(incoming') \intersect outcomes' = {}
    <3>1. CASE incoming' = {}
      BY <3>1 DEF Ids
    <3>2. CASE incoming' = incoming /\ FilesCancelled = {} /\ unaware' = unaware
      BY <1>1, <3>2 DEF WireInv, UsedOK
    <3>3. QED
      BY <3>1, <3>2 DEF GoesOn
  <2>4. QED
    BY <1>2, <2>1, <2>2, <2>3 DEF UsedOK
<1>8. BreakOK'
  <2>1. incoming' = {} \/ incoming' = incoming
    BY DEF GoesOn
  <2>2. ~Connected => requests' = <<>> /\ offers' = <<>>
    BY DEF WireInv, BreakOK
  <2>3. ~Connected' => ~Connected
    BY DEF Connected
  <2>4. /\ unaware' \subseteq {Client, Server}
        /\ ~Connected' /\ Client \notin unaware' => incoming' = {}
        /\ ~Connected' /\ Server \notin unaware' => Serve = B!NoServe
    BY <2>1, <2>3, SyncAssumption DEF WireInv, BreakOK
  <2>5. QED
    BY <1>2, <2>2, <2>3, <2>4 DEF BreakOK
<1>9. EveryTransferIsServed'
  <2>1. CASE incoming' = {}
    BY <2>1 DEF EveryTransferIsServed
  <2>2. CASE incoming' = incoming /\ unaware' = unaware
    BY <2>2 DEF BothEndsAgree, EveryTransferIsServed, Sending
  <2>3. QED
    BY <2>1, <2>2 DEF GoesOn
<1>10. EverySlotIsClaimed'
  <2>1. SUFFICES ASSUME Serve.sending
                 PROVE  \/ \E i \in 1..Len(offers) : offers[i] = Offer(Serve.session, Serve.file)
                        \/ \E r \in incoming' : r.id = Serve.session
                        \/ Serve.session \in outcomes'
                        \/ Server \in unaware'
    BY <1>2 DEF EverySlotIsClaimed, Serve
  <2>2. \/ \E i \in 1..Len(offers) : offers[i] = Offer(Serve.session, Serve.file)
        \/ \E r \in incoming : r.id = Serve.session
        \/ Serve.session \in outcomes
        \/ Server \in unaware
    BY <2>1 DEF BothEndsAgree, EverySlotIsClaimed, Serve
  <2>3. ~Connected => Server \in unaware'
    BY <2>1, ServeShapes, SyncAssumption DEF WireInv, BreakOK
  <2>4. CASE \E r \in incoming : r.id = Serve.session
    <3>1. Serve.session = op.transfer
      BY <2>4, Numbers
    <3>2. CASE incoming' = incoming
      BY <2>4, <3>2
    <3>3. CASE FilesCancelled = {op.transfer} /\ Connected
      BY <1>1, <3>1, <3>3
    <3>4. CASE ~Connected
      BY <2>3, <3>4
    <3>5. QED
      BY <3>2, <3>3, <3>4 DEF GoesOn
  <2>5. CASE Serve.session \in outcomes
    BY <1>1, <2>5
  <2>6. CASE Server \in unaware
    BY <2>6, SyncAssumption
  <2>7. QED
    BY <2>2, <2>4, <2>5, <2>6
<1>11. QED
  BY <1>6, <1>7, <1>8, <1>9, <1>10 DEF WireInv, BothEndsAgree

-----------------------------------------------------------------------------
(* A step of the server, and the session it gives a new serve: nobody has   *)
(* heard of it.                                                             *)
ServerMoves == Moved \/ \E s \in Nat : Latest < s /\ s <= nextId /\ Opened(s)
Newer == serves'[Client]

LEMMA NewServe ==
  ASSUME ClientInv, ServerInv, ServerInv', WireInv, ServerMoves, Newer # Serve, Newer # B!NoServe
  PROVE  \E s \in Nat \ {0} :
           /\ s <= lastSession'[Client] /\ s \notin Used /\ (Serve.sending => s # Serve.session)
           /\ \A i \in 1..Len(offers) : offers[i].id # s
           /\ Newer = B!WaitingServe(s) \/ \E g \in Nat \ {0} : g \in named' /\ Newer = B!SendingServe(s, g)
<1>1. \A g \in named' : g \in Nat \ {0}
  BY SyncAssumption DEF ServerInv, B!Gens
<1>2. OffersOK(offers, Serve, Latest, Used, named)
  BY DEF WireInv, StreamsOK
<1>3. \A i \in 1..Len(offers) : offers[i].id \in Nat /\ offers[i].id <= Latest
  BY <1>2, OfferTypes DEF OffersOK
<1>4. Latest \in Nat /\ Serve.session \in Nat /\ Serve.session <= Latest
  BY Numbers
<1>5. CASE Moved
  <2>1. Serve.waiting /\ Sent(Serve.session) /\ lastSession' = lastSession
    BY <1>5 DEF Moved, Dropped, Newer
  <2>2. Serve.session # 0 /\ ~Serve.sending /\ Serve.session \notin Used
    BY <2>1, Numbers DEF WireInv, UsedOK
  <2>3. \A i \in 1..Len(offers) : offers[i].id # Serve.session
    BY <1>2, <2>1 DEF OffersOK
  <2>4. Serve.session <= lastSession'[Client]
    BY <1>4, <2>1 DEF Latest
  <2>5. \E g \in Nat \ {0} : g \in named' /\ Newer = B!SendingServe(Serve.session, g)
    BY <1>1, <2>1 DEF Sent, Newer
  <2>6. QED
    BY <1>4, <2>2, <2>3, <2>4, <2>5
<1>6. ASSUME NEW s \in Nat, Latest < s, Opened(s)
      PROVE  /\ s # 0 /\ s <= lastSession'[Client] /\ s \notin Used /\ (Serve.sending => s # Serve.session)
             /\ \A i \in 1..Len(offers) : offers[i].id # s
             /\ Newer = B!WaitingServe(s) \/ \E g \in Nat \ {0} : g \in named' /\ Newer = B!SendingServe(s, g)
  <2>1. s # 0 /\ s # Serve.session
    BY <1>4, <1>6
  <2>2. s <= lastSession'[Client]
    BY <1>6 DEF Opened
  <2>3. s \notin Used
    BY <1>4, <1>6 DEF WireInv, UsedOK
  <2>4. \A i \in 1..Len(offers) : offers[i].id # s
    BY <1>3, <1>4, <1>6
  <2>5. Newer = B!WaitingServe(s) \/ Sent(s)
    BY <1>6 DEF Opened, Dropped, Newer
  <2>6. QED
    BY <1>1, <2>1, <2>2, <2>3, <2>4, <2>5 DEF Sent, Newer
<1>7. QED
  BY <1>5, <1>6 DEF ServerMoves

(* What the offers become over an unbroken connection.                      *)
Announced ==
  offers \o (IF Withdrawn THEN <<Withdrawal(serves[Client].session)>> ELSE <<>>)
         \o (IF Offered THEN <<Offer(serves'[Client].session, serves'[Client].file)>> ELSE <<>>)

LEMMA AnnouncedOK ==
  ASSUME ClientInv, ServerInv, ServerInv', WireInv, ServerMoves, named \subseteq named', offers' = Announced
  PROVE  /\ OffersOK(offers', Newer, lastSession'[Client], Used, named')
         /\ \A m : InFlight(offers, m) => InFlight(offers', m)
         /\ Serve.sending /\ Newer # Serve => InFlight(offers', Withdrawal(Serve.session))
         /\ Newer.sending /\ Newer # Serve => InFlight(offers', Offer(Newer.session, Newer.file))
<1> DEFINE last == lastSession'[Client]
<1>1. OffersOK(offers, Serve, Latest, Used, named) /\ offers \in Seq(OfferMsgs)
  BY DEF WireInv, StreamsOK, OffersOK
<1>2. /\ Latest \in Nat /\ last \in Nat /\ Latest <= last
      /\ Serve.session \in Nat /\ Serve.session <= Latest /\ (Serve.sending => Serve.session # 0)
  <2>1. last \in Nat
    <3>1. lastSession' \in [{Client} -> Nat]
      BY DEF ServerInv, BP!ServeInv, BP!ServeTypeOK
    <3>2. QED
      BY <3>1
  <2>2. Latest <= last
    BY <2>1, Numbers DEF ServerMoves, Moved, Opened, Latest
  <2>3. QED
    BY <2>1, <2>2, Numbers
<1> HIDE DEF last
<1>3. CASE Newer = Serve
  <2>1. ~Withdrawn /\ ~Offered
    BY <1>3 DEF Withdrawn, Offered, Owns, Serve, Newer
  <2>2. offers' = offers
    BY <1>1, <2>1, ConcatEmptySeq DEF Announced
  <2>3. OffersOK(offers, Newer, last, Used, named')
    BY <1>1, <1>2, <1>3, OffersLater
  <2>4. QED
    BY <1>3, <2>2, <2>3 DEF last
<1>4. CASE Newer # Serve
  <2> DEFINE w == Withdrawal(Serve.session)
             mid == IF Serve.sending THEN Append(offers, w) ELSE offers
  <2>1. Serve.sending => Newer.session # Serve.session
    <3>1. CASE Newer = B!NoServe
      BY <1>2, <3>1, ServeShapes
    <3>2. CASE Newer # B!NoServe
      BY <1>4, <3>2, NewServe, ServeShapes
    <3>3. QED
      BY <3>1, <3>2
  <2>2. Withdrawn <=> Serve.sending
    BY <2>1 DEF Withdrawn, Owns, Serve, Newer
  <2>3. Offered <=> Newer.sending
    BY <2>2 DEF Offered, Owns, Serve, Newer
  <2>4. w \in OfferMsgs \/ ~Serve.sending
    BY <1>2 DEF Withdrawal, OfferMsgs, B!NoGen
  <2>5. OffersOK(mid, B!NoServe, Latest, Used, named)
    <3>1. CASE Serve.sending
      BY <1>1, <1>2, <3>1, OffersWithdraw
    <3>2. CASE ~Serve.sending
      BY <1>1, <1>2, <3>2, OffersUnserved
    <3>3. QED
      BY <3>1, <3>2
  <2>6. OffersOK(mid, B!NoServe, last, Used, named')
    BY <1>2, <2>5, OffersLater
  <2>7. mid = offers \o (IF Withdrawn THEN <<Withdrawal(serves[Client].session)>> ELSE <<>>)
    BY <1>1, <2>2, <2>4, ConcatEmptySeq, AppendIsConcat DEF Serve
  <2>8. /\ mid \in Seq(OfferMsgs)
        /\ \A m : InFlight(offers, m) => InFlight(mid, m)
        /\ Serve.sending => InFlight(mid, w)
    BY <1>1, <2>4, <2>6, AppendCarries DEF OffersOK
  <2> HIDE DEF mid, w
  <2>9. offers' = mid \o (IF Offered THEN <<Offer(Newer.session, Newer.file)>> ELSE <<>>)
    BY <2>7 DEF Announced, Newer
  <2>10. CASE Newer = B!NoServe
    <3>1. offers' = mid
      BY <2>3, <2>8, <2>9, <2>10, ServeShapes, ConcatEmptySeq
    <3>2. QED
      BY <2>6, <2>8, <2>10, <3>1, ServeShapes DEF w, last
  <2>11. CASE Newer # B!NoServe
    <3>1. PICK s \in Nat \ {0} :
            /\ s <= last /\ s \notin Used /\ (Serve.sending => s # Serve.session)
            /\ \A i \in 1..Len(offers) : offers[i].id # s
            /\ Newer = B!WaitingServe(s) \/ \E g \in Nat \ {0} : g \in named' /\ Newer = B!SendingServe(s, g)
      BY <1>4, <2>11, NewServe DEF last
    <3>2. \A i \in 1..Len(mid) : mid[i].id # s
      <4>1. CASE Serve.sending
        <5>1. /\ mid = Append(offers, w) /\ w \in OfferMsgs /\ w.id = Serve.session
          BY <2>4, <4>1 DEF mid, w, Withdrawal
        <5>2. /\ Len(offers) \in Nat /\ Len(mid) = Len(offers) + 1 /\ mid[Len(offers) + 1] = w
              /\ \A i \in 1..Len(offers) : mid[i] = offers[i]
          BY <1>1, <5>1, AppendProperties, LenProperties
        <5>3. \A i \in 1..Len(mid) : i \in 1..Len(offers) \/ i = Len(offers) + 1
          BY <5>2
        <5>4. QED
          BY <3>1, <4>1, <5>1, <5>2, <5>3
      <4>2. CASE ~Serve.sending
        BY <3>1, <4>2 DEF mid
      <4>3. QED
        BY <4>1, <4>2
    <3>3. CASE Newer = B!WaitingServe(s)
      <4>1. offers' = mid
        BY <2>3, <2>8, <2>9, <3>3, ServeShapes, ConcatEmptySeq
      <4>2. OffersOK(mid, Newer, last, Used, named')
        BY <1>2, <2>6, <3>2, <3>3, OffersWait
      <4>3. QED
        BY <2>8, <3>3, <4>1, <4>2, ServeShapes DEF w, last
    <3>4. ASSUME NEW g \in Nat \ {0}, g \in named', Newer = B!SendingServe(s, g)
          PROVE  /\ OffersOK(offers', Newer, last, Used, named')
                 /\ \A m : InFlight(offers, m) => InFlight(offers', m)
                 /\ Serve.sending => InFlight(offers', w)
                 /\ InFlight(offers', Offer(Newer.session, Newer.file))
      <4>1. Newer.session = s /\ Newer.file = g /\ Newer.sending
        BY <3>4, ServeShapes
      <4>2. Offer(s, g) \in OfferMsgs
        BY DEF Offer, OfferMsgs
      <4>3. offers' = Append(mid, Offer(s, g))
        BY <2>3, <2>8, <2>9, <4>1, <4>2, AppendIsConcat
      <4>4. OffersOK(offers', Newer, last, Used, named')
        BY <1>2, <2>6, <3>1, <3>2, <3>4, <4>3, OffersOffer
      <4>5. QED
        BY <2>8, <4>1, <4>2, <4>3, <4>4, AppendCarries
    <3>5. QED
      BY <3>1, <3>3, <3>4 DEF w, last
  <2>12. QED
    BY <2>10, <2>11
<1>5. QED
  BY <1>3, <1>4

(* The wire after a step of the server.                                     *)
LEMMA ServerWire ==
  ASSUME ClientInv, ServerInv, ServerInv', WireInv, BothEndsAgree, ServerMoves, named \subseteq named',
         UNCHANGED <<op, nextId, incoming, ended, outcomes, unaware>>,
         RequestsOK(requests', lastSession'[Client], nextId), answers' \in Seq(AnswerMsgs),
         lastSession'[Client] <= nextId,
         ~Connected => Moved /\ requests' = <<>>,
         offers' = IF Connected THEN Announced ELSE offers
  PROVE  WireInv' /\ BothEndsAgree'
<1>1. UNCHANGED <<Used, Connected>>
  BY DEF Used, Connected
<1>2. /\ OffersOK(offers', Newer, lastSession'[Client], Used, named')
      /\ Connected => /\ \A m : InFlight(offers, m) => InFlight(offers', m)
                      /\ Serve.sending /\ Newer # Serve => InFlight(offers', Withdrawal(Serve.session))
                      /\ Newer.sending /\ Newer # Serve => InFlight(offers', Offer(Newer.session, Newer.file))
  <2>1. CASE Connected
    BY <2>1, AnnouncedOK
  <2>2. CASE ~Connected
    <3>1. offers' = <<>>
      BY <2>2 DEF WireInv, BreakOK
    <3>2. OffersOK(<<>>, Newer, lastSession'[Client], Used, named')
      BY DEF OffersOK
    <3>3. QED
      BY <2>2, <3>1, <3>2
  <2>3. QED
    BY <2>1, <2>2
<1>3. StreamsOK'
  BY <1>1, <1>2 DEF StreamsOK, Serve, Latest, Newer
<1>4. /\ Latest \in Nat /\ lastSession'[Client] \in Nat /\ Latest <= lastSession'[Client]
  <2>1. lastSession' \in [{Client} -> Nat]
    BY DEF ServerInv, BP!ServeInv, BP!ServeTypeOK
  <2>2. QED
    BY <2>1, Numbers DEF ServerMoves, Moved, Opened, Latest
<1>5. UsedOK'
  <2>1. \A t \in Used : t \in Nat /\ t <= lastSession'[Client]
    BY <1>4 DEF WireInv, UsedOK
  <2>2. Newer.waiting => Newer.session \notin Used
    <3>1. CASE Newer = Serve
      BY <3>1 DEF WireInv, UsedOK
    <3>2. CASE Newer = B!NoServe
      BY <3>2, ServeShapes
    <3>3. CASE Newer # Serve /\ Newer # B!NoServe
      <4>1. PICK s \in Nat \ {0} :
              /\ s \notin Used
              /\ Newer = B!WaitingServe(s) \/ \E g \in Nat \ {0} : g \in named' /\ Newer = B!SendingServe(s, g)
        BY <3>3, NewServe
      <4>2. Newer.session = s
        BY <4>1, ServeShapes
      <4>3. QED
        BY <4>1, <4>2
    <3>4. QED
      BY <3>1, <3>2, <3>3
  <2>3. QED
    BY <1>1, <2>1, <2>2 DEF WireInv, UsedOK, Serve, Latest, Newer
<1>6. BreakOK'
  <2>1. ~Connected /\ Server \notin unaware => Newer = B!NoServe
    <3>1. SUFFICES ASSUME ~Connected, Server \notin unaware PROVE Newer = B!NoServe
      OBVIOUS
    <3>2. Serve = B!NoServe /\ Moved
      BY <3>1 DEF WireInv, BreakOK
    <3>3. QED
      BY <3>2, ServeShapes DEF Moved, Dropped, Newer
  <2>2. ~Connected => offers' = <<>> /\ requests' = <<>>
    BY DEF WireInv, BreakOK
  <2>3. QED
    BY <1>1, <2>1, <2>2 DEF WireInv, BreakOK, Serve, Newer
<1>7. EveryTransferIsServed'
  <2>1. SUFFICES ASSUME NEW r \in incoming
                 PROVE  \/ /\ Newer.sending /\ Newer.session = r.id /\ Newer.file = r.dump /\ r.dump \in disk'
                        \/ InFlight(offers', Withdrawal(r.id))
                        \/ Client \in unaware
    BY DEF EveryTransferIsServed, Sending, InFlight, Newer
  <2>2. Client \notin unaware => Connected
    BY <2>1 DEF WireInv, BreakOK
  <2>3. \/ Serve.sending /\ Serve.session = r.id /\ Serve.file = r.dump
        \/ InFlight(offers, Withdrawal(r.id))
        \/ Client \in unaware
    BY DEF BothEndsAgree, EveryTransferIsServed, Sending, InFlight, Serve
  <2>4. CASE Connected /\ Serve.sending /\ Serve.session = r.id /\ Serve.file = r.dump
    <3>1. CASE Newer = Serve
      <4>1. Newer.file \in disk'
        <5>1. serves'[Client].sending <=> serves'[Client].file # 0
          BY DEF ServerInv, BP!ServeInv, BP!ServeTypeOK, BP!ServesOK, BP!NoGen
        <5>2. QED
          BY <2>4, <3>1, <5>1 DEF ServerInv, BP!ServeInv, BP!ReadersKeepTheirFile, BP!InUse, BP!NoGen, Newer
      <4>2. QED
        BY <2>4, <3>1, <4>1
    <3>2. CASE Newer # Serve
      BY <1>2, <2>4, <3>2
    <3>3. QED
      BY <3>1, <3>2
  <2>5. CASE Connected /\ InFlight(offers, Withdrawal(r.id))
    BY <1>2, <2>5
  <2>6. QED
    BY <2>2, <2>3, <2>4, <2>5
<1>8. EverySlotIsClaimed'
  <2>1. SUFFICES ASSUME Newer.sending
                 PROVE  \/ InFlight(offers', Offer(Newer.session, Newer.file))
                        \/ \E r \in incoming : r.id = Newer.session
                        \/ Newer.session \in outcomes
                        \/ Server \in unaware
    BY DEF EverySlotIsClaimed, InFlight, Newer
  <2>2. CASE ~Connected
    <3>1. Server \in unaware \/ Newer = B!NoServe
      BY <1>1, <1>6, <2>2 DEF BreakOK, Serve, Newer
    <3>2. QED
      BY <2>1, <3>1, ServeShapes
  <2>3. CASE Connected /\ Newer # Serve
    BY <1>2, <2>1, <2>3
  <2>4. CASE Connected /\ Newer = Serve
    <3>1. \/ InFlight(offers, Offer(Serve.session, Serve.file))
          \/ \E r \in incoming : r.id = Serve.session
          \/ Serve.session \in outcomes
          \/ Server \in unaware
      BY <2>1, <2>4 DEF BothEndsAgree, EverySlotIsClaimed, InFlight, Serve
    <3>2. QED
      BY <1>2, <2>4, <3>1
  <2>5. QED
    BY <2>2, <2>3, <2>4
<1>9. QED
  BY <1>3, <1>5, <1>6, <1>7, <1>8 DEF WireInv, BothEndsAgree

-----------------------------------------------------------------------------
(* A step in the terms of the exchange: the client moves, or the server may *)
(* publish.                                                                 *)
ExchangeMoves ==
  \/ NothingNew /\ ClientMoves
  \/ MayPublish /\ halfWritten' = halfWritten /\ Stays

LEMMA ServerRests ==
  ASSUME ServerInv, UNCHANGED serverVars
  PROVE  ServerInv' /\ Moved /\ NothingNew /\ UNCHANGED <<Serve, Latest, serves, lastSession, disk, named>>
<1>1. /\ UNCHANGED <<generation, live, disk, temp, meta, named, halfWritten, metaState>>
      /\ UNCHANGED <<serves, job, lastSession, answered, leftover>>
      /\ fresh' = fresh /\ sharing' = sharing /\ limited' = limited
  BY DEF serverVars
<1>2. fresh' \in BOOLEAN /\ sharing' \in BOOLEAN /\ limited' \subseteq {Client}
  BY <1>1 DEF ServerInv, BP!ServeInv, BP!ServeTypeOK, BP!SnapshotTypeOK
<1>3. BP!ServeInv'
  BY <1>1, <1>2, LaneAssumption, BP!QuietStepInv DEF ServerInv
<1>4. QED
  BY <1>1, <1>3 DEF ServerInv, Serve, Latest, Moved, NothingNew

LEMMA ClientIdles ==
  ASSUME ClientInv, ClientIdle, named \subseteq named'
  PROVE  ClientInv' /\ Stays /\ UNCHANGED <<op, nextId, incoming, ended>>
<1>1. UNCHANGED <<op, nextId, workers, note, received, incoming, ended>>
  BY DEF ClientIdle
<1>2. ClientTypes' /\ LaneOK' /\ WorkersOK' /\ ReceivingOK'
  BY <1>1 DEF ClientInv, ClientTypes, LaneOK, WorkersOK, ReceivingOK, Ids
<1>3. HeldIsPublished'
  BY <1>1 DEF ClientInv, HeldIsPublished
<1>4. QED
  BY <1>1, <1>2, <1>3 DEF ClientInv, Stays

(* The steps of the client that accept and refuse no file.                  *)
LEMMA ClientStepInv ==
  ASSUME SyncInv, ClientInv', GoesOn, ClientMoves, ClientSends, UNCHANGED <<serverVars, offers>>,
         answers' \in Seq(AnswerMsgs)
  PROVE  SyncInv' /\ ExchangeMoves
<1>1. ServerInv' /\ NothingNew /\ UNCHANGED <<serves, lastSession, disk, named>>
  BY ServerRests DEF SyncInv
<1>2. WireInv' /\ BothEndsAgree'
  BY <1>1, ClientWire DEF SyncInv, ClientSends
<1>3. QED
  BY <1>1, <1>2 DEF SyncInv, ExchangeMoves

LEMMA AnswerTypes ==
  ASSUME SyncInv
  PROVE  /\ answers \in Seq(AnswerMsgs)
         /\ answers # <<>> => Tail(answers) \in Seq(AnswerMsgs) /\ Head(answers).file \in Nat
<1>1. answers \in Seq(AnswerMsgs)
  BY DEF SyncInv, WireInv, StreamsOK
<1>2. ASSUME answers # <<>> PROVE Tail(answers) \in Seq(AnswerMsgs) /\ Head(answers) \in AnswerMsgs
  BY <1>1, <1>2, HeadTailProperties
<1>3. QED
  BY <1>1, <1>2 DEF AnswerMsgs

LEMMA ClientUserInv ==
  ASSUME SyncInv, ClientUser
  PROVE  SyncInv' /\ ExchangeMoves
<1>1. ClientSends /\ UNCHANGED <<serverVars, offers, answers>> /\ named' = named
  BY DEF ClientUser, serverVars
<1>2. ClientInv' /\ GoesOn /\ ClientMoves
  <2>1. CASE A!RequestFromPeer(Server, TRUE)
    <3>1. TRUE \in BOOLEAN
      OBVIOUS
    <3>2. QED
      BY <1>1, <2>1, <3>1, RequestFromPeerStep DEF SyncInv
  <2>2. CASE A!CancelOperation
    BY <1>1, <2>2, CancelOperationStep DEF SyncInv
  <2>3. QED
    BY <2>1, <2>2 DEF ClientUser
<1>3. QED
  BY <1>1, <1>2, ClientStepInv, AnswerTypes

LEMMA ClientWorksInv ==
  ASSUME SyncInv, ClientWorks
  PROVE  SyncInv' /\ ExchangeMoves
<1>1. ClientSends /\ UNCHANGED <<serverVars, offers, answers>> /\ named' = named
  BY DEF ClientWorks, serverVars
<1>2. ClientInv' /\ GoesOn /\ ClientMoves
  BY <1>1, WorkerStepStep, TransferFinishedStep DEF SyncInv, ClientWorks
<1>3. QED
  BY <1>1, <1>2, ClientStepInv, AnswerTypes

LEMMA ClientDeadlineInv ==
  ASSUME SyncInv, ClientDeadline
  PROVE  SyncInv' /\ ExchangeMoves
<1>1. ClientSends /\ UNCHANGED <<serverVars, offers, answers>> /\ named' = named
  BY DEF ClientDeadline, serverVars
<1>2. ClientInv' /\ GoesOn /\ ClientMoves
  BY <1>1, TimeStep, DeadlineStep DEF SyncInv, ClientDeadline
<1>3. QED
  BY <1>1, <1>2, ClientStepInv, AnswerTypes

LEMMA ClientIdleMoves ==
  ASSUME ClientInv, ClientIdle, named' = named
  PROVE  ClientInv' /\ GoesOn /\ ClientMoves
BY ClientRests DEF ClientIdle, ClientMoves

LEMMA ClientHearsInv ==
  ASSUME SyncInv, ClientHears
  PROVE  SyncInv' /\ ExchangeMoves
<1> DEFINE m == Head(answers)
<1>1. ClientSends /\ UNCHANGED <<serverVars, offers>> /\ named' = named /\ answers # <<>> /\ answers' = Tail(answers)
  BY DEF ClientHears, serverVars
<1>2. answers' \in Seq(AnswerMsgs) /\ m.file \in Nat
  BY <1>1, AnswerTypes
<1>3. \/ A!HandlePeerProgress(Server, m.session) \/ ClientIdle
      \/ A!HandlePeerResponse(Server, m.session, m.kind, m.file)
  BY DEF ClientHears
<1> HIDE DEF m
<1>4. ClientInv' /\ GoesOn /\ ClientMoves
  BY <1>1, <1>2, <1>3, PeerProgressStep, PeerResponseStep, ClientIdleMoves DEF SyncInv
<1>5. QED
  BY <1>1, <1>2, <1>4, ClientStepInv

LEMMA ClientReceivesInv ==
  ASSUME SyncInv, NEW r \in incoming, ClientReceives(r)
  PROVE  SyncInv' /\ ExchangeMoves
<1>1. /\ UNCHANGED <<op, nextId, workers, note, received, incoming, ended>> /\ sent' = {}
      /\ UNCHANGED <<serverVars, requests, answers, offers, outcomes, unaware>> /\ named' = named
  BY DEF ClientReceives, A!BytesArrive, A!lane, wire, serverVars
<1>2. ClientInv' /\ GoesOn /\ ClientMoves
  BY <1>1, ClientRests DEF SyncInv, ClientMoves
<1>3. ClientSends
  BY <1>1 DEF ClientSends, Carried
<1>4. QED
  BY <1>1, <1>2, <1>3, ClientStepInv, AnswerTypes

LEMMA ClientLosesPeerInv ==
  ASSUME SyncInv, ClientLosesPeer
  PROVE  SyncInv' /\ ExchangeMoves
<1>1. /\ Client \in unaware /\ unaware' = unaware \ {Client} /\ ~Connected
      /\ UNCHANGED <<serverVars, requests, answers, offers, outcomes>> /\ named' = named
  BY DEF ClientLosesPeer, serverVars, Connected
<1>2. ClientInv' /\ GoesOn /\ ClientMoves /\ incoming' = {}
  <2>1. CASE A!OnPeerDisconnected(Server)
    BY <1>1, <2>1, LosesPeerStep DEF SyncInv
  <2>2. CASE ~A!Pulling(Server) /\ ClientIdle
    <3>1. ClientInv' /\ GoesOn /\ ClientMoves /\ incoming' = incoming
      BY <1>1, <2>2, ClientIdleMoves DEF SyncInv, ClientIdle
    <3>2. op.transfer = 0
      <4>1. op.kind \in {"none", "pull", "import"}
        BY DEF SyncInv, ClientInv, ClientTypes
      <4>2. QED
        BY <2>2, <4>1, Idle DEF SyncInv, ClientInv, LaneOK, A!Pulling
    <3>3. incoming = {}
      BY <3>2 DEF SyncInv, ClientInv, ReceivingOK, ClientTypes
    <3>4. QED
      BY <3>1, <3>3
  <2>3. QED
    BY <2>1, <2>2 DEF ClientLosesPeer
<1>3. ServerInv' /\ NothingNew /\ UNCHANGED <<serves, lastSession, disk, named>>
  BY <1>1, ServerRests DEF SyncInv
<1>4. WireInv' /\ BothEndsAgree'
  BY <1>1, <1>2, <1>3, ClientWire, AnswerTypes DEF SyncInv
<1>5. QED
  BY <1>2, <1>3, <1>4 DEF SyncInv, ExchangeMoves

-----------------------------------------------------------------------------
(* The steps of the server.                                                 *)
LEMMA AnswersAppend ==
  ASSUME SyncInv, ServerInv'
  PROVE  Append(answers, answered'[Client]) \in Seq(AnswerMsgs)
<1>1. answered' \in [{Client} -> [session : Nat, kind : {"none", "refused", "wait", "ready"}, file : Nat]]
  BY DEF ServerInv, BP!ServeInv, BP!ServeTypeOK
<1>2. answered'[Client] \in [session : Nat, kind : {"none", "refused", "wait", "ready"}, file : Nat]
  BY <1>1
<1>3. answered'[Client] \in AnswerMsgs
  BY <1>2 DEF AnswerMsgs
<1>4. QED
  BY <1>3, AnswerTypes, AppendProperties

LEMMA ServerStepInv ==
  ASSUME SyncInv, ServerInv', Moved, MayPublish, halfWritten' = halfWritten, ServerSends, ClientIdle
  PROVE  SyncInv' /\ ExchangeMoves
<1>1. named \subseteq named'
  BY DEF MayPublish
<1>2. ClientInv' /\ Stays /\ UNCHANGED <<op, nextId, incoming, ended>>
  BY <1>1, ClientIdles DEF SyncInv
<1>3. /\ UNCHANGED <<requests, outcomes, unaware>> /\ offers' = IF Connected THEN Announced ELSE offers
      /\ answers' = answers \/ answers' = Append(answers, answered'[Client])
  BY DEF ServerSends, Announced
<1>4. answers' \in Seq(AnswerMsgs)
  BY <1>3, AnswersAppend, AnswerTypes
<1>5. /\ RequestsOK(requests', lastSession'[Client], nextId)
      /\ lastSession'[Client] <= nextId
      /\ ~Connected => requests' = <<>>
  BY <1>3 DEF SyncInv, WireInv, StreamsOK, UsedOK, BreakOK, Moved, Latest
<1>6. WireInv' /\ BothEndsAgree'
  BY <1>1, <1>2, <1>3, <1>4, <1>5, ServerWire DEF SyncInv, ServerMoves
<1>7. QED
  BY <1>2, <1>6 DEF SyncInv, ExchangeMoves

LEMMA ServerWorksInv ==
  ASSUME SyncInv, ServerWorks
  PROVE  SyncInv' /\ ExchangeMoves
BY SnapshotStepStep, ServerStepInv DEF SyncInv, ServerWorks

LEMMA ServerActsInv ==
  ASSUME SyncInv, ServerActs
  PROVE  SyncInv' /\ ExchangeMoves
<1>1. ServerUser /\ ServerSends /\ ClientIdle
  BY DEF ServerActs, ServerUser
<1>2. ServerInv' /\ Moved /\ NothingNew
  BY <1>1, ServerUserStep DEF SyncInv
<1>3. QED
  BY <1>1, <1>2, ServerStepInv DEF NothingNew, MayPublish

LEMMA ServerHearsInv ==
  ASSUME SyncInv, ServerHears
  PROVE  SyncInv' /\ ExchangeMoves
<1> DEFINE m == Head(requests)
<1>1. /\ requests # <<>> /\ requests' = Tail(requests) /\ ClientIdle /\ UNCHANGED <<outcomes, unaware>>
      /\ offers' = Announced
      /\ answers' = answers \/ answers' = Append(answers, answered'[Client])
  BY DEF ServerHears, Announced
<1>2. Connected
  BY <1>1 DEF SyncInv, WireInv, BreakOK
<1>3. Latest \in Nat /\ nextId \in Nat /\ RequestsOK(requests, Latest, nextId) /\ Latest <= nextId
  BY Numbers DEF SyncInv, WireInv, StreamsOK, UsedOK
<1>4. /\ m \in RequestMsgs /\ RequestsOK(Tail(requests), Latest, nextId)
      /\ IsRequest(m) => Latest < m.id /\ m.id <= nextId /\ RequestsOK(Tail(requests), m.id, nextId)
  BY <1>1, <1>3, RequestsTail
<1>5. m.id \in Nat
  BY <1>4 DEF RequestMsgs
<1>6. \/ IsRequest(m) /\ B!HandlePeerRequest(Client, m.id, m.dump, TRUE, generation < MaxGen, TRUE)
      \/ B!HandlePeerCancel(Client, m.id) \/ UNCHANGED serverVars
  BY DEF ServerHears, IsRequest
<1> HIDE DEF m
<1>7. /\ ServerInv' /\ ServerMoves /\ NothingNew
      /\ RequestsOK(requests', lastSession'[Client], nextId) /\ lastSession'[Client] <= nextId
  <2>1. CASE IsRequest(m) /\ B!HandlePeerRequest(Client, m.id, m.dump, TRUE, generation < MaxGen, TRUE)
    <3>1. ServerInv' /\ Opened(m.id) /\ NothingNew
      BY <1>4, <1>5, <2>1, RequestStep DEF SyncInv
    <3>2. lastSession'[Client] = m.id
      BY <3>1 DEF Opened
    <3>3. QED
      BY <1>1, <1>4, <1>5, <2>1, <3>1, <3>2 DEF ServerMoves
  <2>2. CASE B!HandlePeerCancel(Client, m.id) \/ UNCHANGED serverVars
    <3>1. ServerInv' /\ Moved /\ NothingNew
      BY <2>2, PeerLeavesStep, ServerRests DEF SyncInv, B!HandlePeerCancel
    <3>2. lastSession'[Client] = Latest
      BY <3>1 DEF Moved, Latest
    <3>3. QED
      BY <1>1, <1>3, <1>4, <3>1, <3>2 DEF ServerMoves
  <2>3. QED
    BY <1>6, <2>1, <2>2
<1>8. named \subseteq named' /\ answers' \in Seq(AnswerMsgs)
  BY <1>1, <1>7, AnswersAppend, AnswerTypes DEF NothingNew
<1>9. ClientInv' /\ Stays /\ UNCHANGED <<op, nextId, incoming, ended>>
  BY <1>1, <1>8, ClientIdles DEF SyncInv
<1>10. WireInv' /\ BothEndsAgree'
  BY <1>1, <1>2, <1>7, <1>8, <1>9, ServerWire DEF SyncInv
<1>11. QED
  BY <1>7, <1>9, <1>10 DEF SyncInv, ExchangeMoves, ClientMoves

LEMMA HeartbeatInv ==
  ASSUME SyncInv, Heartbeat
  PROVE  SyncInv' /\ ExchangeMoves
<1> DEFINE beat == [session |-> serves[Client].session, kind |-> "beat", file |-> B!NoGen]
<1>1. /\ ClientIdle /\ sent' = {} /\ answers' = Append(answers, beat) /\ named' = named
      /\ UNCHANGED <<serverVars, requests, offers, outcomes, unaware>>
  BY DEF Heartbeat, ClientIdle, serverVars
<1>2. beat \in AnswerMsgs
  BY Numbers DEF SyncInv, Serve, AnswerMsgs, B!NoGen
<1>3. answers' \in Seq(AnswerMsgs)
  BY <1>1, <1>2, AnswerTypes, AppendProperties
<1>4. ClientSends
  BY <1>1 DEF ClientSends, Carried
<1>5. ClientInv' /\ GoesOn /\ ClientMoves
  BY <1>1, ClientIdleMoves DEF SyncInv
<1>6. QED
  BY <1>1, <1>3, <1>4, <1>5, ClientStepInv

-----------------------------------------------------------------------------
(* The steps that end a transfer, or offer one.                             *)
LEMMA TransferEndsInv ==
  ASSUME SyncInv, NEW r \in incoming, NEW success \in BOOLEAN, TransferEnds(r, success)
  PROVE  SyncInv' /\ ExchangeMoves
<1>1. /\ A!TransferEnds(r, success, FALSE) /\ named' = named
      /\ outcomes' = IF Connected THEN outcomes \union {r.id} ELSE outcomes
      /\ UNCHANGED <<serverVars, requests, answers, offers, unaware>>
  BY DEF TransferEnds, serverVars
<1>2. /\ ClientInv' /\ Stays
      /\ incoming' = {} /\ Ids(ended') = Ids(ended) \union {r.id}
      /\ UNCHANGED <<op, nextId>> /\ op.transfer = r.id
  BY <1>1, TransferEndsStep DEF SyncInv
<1>3. ServerInv' /\ NothingNew /\ UNCHANGED <<Serve, Latest, serves, lastSession, disk, named>>
  BY <1>1, ServerRests DEF SyncInv
<1>4. Used' = Used
  BY <1>1, <1>2 DEF Used
<1>5. StreamsOK' /\ UsedOK' /\ BreakOK'
  <2>1. StreamsOK'
    BY <1>1, <1>2, <1>3, <1>4 DEF SyncInv, WireInv, StreamsOK
  <2>2. UsedOK'
    BY <1>2, <1>3, <1>4 DEF SyncInv, WireInv, UsedOK, Ids
  <2>3. BreakOK'
    BY <1>1, <1>2, <1>3 DEF SyncInv, WireInv, BreakOK, Connected
  <2>4. QED
    BY <2>1, <2>2, <2>3
<1>6. EveryTransferIsServed'
  BY <1>2 DEF EveryTransferIsServed
<1>7. EverySlotIsClaimed'
  <2>1. SUFFICES ASSUME Serve.sending
                 PROVE  \/ \E i \in 1..Len(offers) : offers[i] = Offer(Serve.session, Serve.file)
                        \/ Serve.session \in outcomes'
                        \/ Server \in unaware
    BY <1>1, <1>3 DEF EverySlotIsClaimed, Serve
  <2>2. \/ \E i \in 1..Len(offers) : offers[i] = Offer(Serve.session, Serve.file)
        \/ \E q \in incoming : q.id = Serve.session
        \/ Serve.session \in outcomes
        \/ Server \in unaware
    BY <2>1 DEF SyncInv, BothEndsAgree, EverySlotIsClaimed, Serve
  <2>3. \A q \in incoming : q.id = r.id
    BY <1>2, Numbers DEF SyncInv
  <2>4. Connected \/ Server \in unaware
    BY <2>1, ServeShapes DEF SyncInv, WireInv, BreakOK
  <2>5. QED
    BY <1>1, <2>2, <2>3, <2>4
<1>8. QED
  BY <1>2, <1>3, <1>5, <1>6, <1>7 DEF SyncInv, WireInv, BothEndsAgree, ExchangeMoves, ClientMoves

(* The client takes an offer or a withdrawal off the stream: what changes   *)
(* is what it has heard of.                                                 *)
LEMMA OfferedWire ==
  ASSUME SyncInv, offers # <<>>, offers' = Tail(offers),
         UNCHANGED <<serverVars, requests, answers, unaware, nextId>>,
         Used' \subseteq Used \union (IF IsOffer(Head(offers)) THEN {Head(offers).id} ELSE {}),
         Ids(incoming') \intersect outcomes' = {}
  PROVE  WireInv'
<1> DEFINE m == Head(offers)
<1>1. UNCHANGED <<Serve, Latest, named>>
  BY DEF serverVars, Serve, Latest
<1>2. Connected /\ Latest \in Nat /\ OffersOK(offers, Serve, Latest, Used, named)
  BY Numbers DEF SyncInv, WireInv, StreamsOK, BreakOK
<1>3. /\ m \in OfferMsgs /\ m.id <= Latest
      /\ OffersOK(Tail(offers), Serve, Latest, Used, named)
      /\ IsOffer(m) => /\ Serve.waiting => m.id # Serve.session
                       /\ \A i \in 1..Len(Tail(offers)) : IsOffer(Tail(offers)[i]) => Tail(offers)[i].id # m.id
  BY <1>2, OffersTail
<1>4. m.id \in Nat
  BY <1>3 DEF OfferMsgs
<1> HIDE DEF m
<1>5. OffersOK(offers', Serve, Latest, Used', named)
  <2>1. CASE IsOffer(m)
    <3>1. OffersOK(Tail(offers), Serve, Latest, Used \union {m.id}, named)
      BY <1>3, <2>1, OffersSeen
    <3>2. Used' \subseteq (Used \union {m.id}) \union {0}
      BY <2>1 DEF m
    <3>3. QED
      BY <1>2, <3>1, <3>2, OffersLater
  <2>2. CASE ~IsOffer(m)
    <3>1. Used' \subseteq Used \union {0}
      BY <2>2 DEF m
    <3>2. QED
      BY <1>2, <1>3, <3>1, OffersLater
  <2>3. QED
    BY <2>1, <2>2
<1>6. StreamsOK'
  BY <1>1, <1>5 DEF SyncInv, WireInv, StreamsOK
<1>7. UsedOK'
  <2>1. ASSUME NEW t \in Used'
        PROVE  t \in Nat /\ t <= Latest /\ (Serve.waiting => t # Serve.session)
    <3>1. t \in Used \/ (IsOffer(m) /\ t = m.id)
      BY DEF m
    <3>2. QED
      BY <1>3, <1>4, <3>1 DEF SyncInv, WireInv, UsedOK
  <2>2. QED
    BY <1>1, <2>1 DEF SyncInv, WireInv, UsedOK
<1>8. BreakOK'
  BY <1>1, <1>2 DEF SyncInv, WireInv, BreakOK, Connected
<1>9. QED
  BY <1>6, <1>7, <1>8 DEF WireInv

(* ... and both ends still agree, if they do on what it took.               *)
LEMMA OfferedAgree ==
  ASSUME SyncInv, offers # <<>>, offers' = Tail(offers), UNCHANGED <<serverVars, unaware>>,
         \A r \in incoming' :
           \/ r \in incoming /\ Head(offers) # Withdrawal(r.id)
           \/ SentBy(Serve, [id |-> r.id, dump |-> r.dump])
           \/ InFlight(offers', Withdrawal(r.id)),
         Serve.sending =>
           \/ Head(offers) # Offer(Serve.session, Serve.file)
           \/ Serve.session \in Ids(incoming') \union outcomes',
         Serve.sending /\ Serve.session \in Ids(incoming) \union outcomes
           => Serve.session \in Ids(incoming') \union outcomes'
  PROVE  BothEndsAgree'
<1>1. UNCHANGED <<Serve, serves, disk>>
  BY DEF serverVars, Serve
<1>2. Connected /\ offers \in Seq(OfferMsgs)
  BY DEF SyncInv, WireInv, BreakOK, StreamsOK, OffersOK
<1>3. \A m : InFlight(offers, m) => m = Head(offers) \/ InFlight(offers', m)
  BY <1>2, TailCarries
<1>4. Client \notin unaware /\ Server \notin unaware
  BY <1>2 DEF Connected
<1>5. EveryTransferIsServed'
  <2>1. SUFFICES ASSUME NEW r \in incoming'
                 PROVE  \/ Serve.sending /\ Serve.session = r.id /\ Serve.file = r.dump /\ r.dump \in disk
                        \/ InFlight(offers', Withdrawal(r.id))
    BY <1>1 DEF EveryTransferIsServed, Sending, InFlight, Serve
  <2>2. CASE SentBy(Serve, [id |-> r.id, dump |-> r.dump])
    BY <2>2, ServerFacts DEF SyncInv, SentBy
  <2>3. CASE r \in incoming /\ Head(offers) # Withdrawal(r.id)
    <3>1. \/ Serve.sending /\ Serve.session = r.id /\ Serve.file = r.dump /\ r.dump \in disk
          \/ InFlight(offers, Withdrawal(r.id))
      BY <1>4, <2>3 DEF SyncInv, BothEndsAgree, EveryTransferIsServed, Sending, InFlight, Serve
    <3>2. QED
      BY <1>3, <2>3, <3>1
  <2>4. QED
    BY <2>2, <2>3
<1>6. EverySlotIsClaimed'
  <2>1. SUFFICES ASSUME Serve.sending
                 PROVE  \/ InFlight(offers', Offer(Serve.session, Serve.file))
                        \/ Serve.session \in Ids(incoming') \union outcomes'
    BY <1>1 DEF EverySlotIsClaimed, InFlight, Serve, Ids
  <2>2. \/ InFlight(offers, Offer(Serve.session, Serve.file))
        \/ Serve.session \in Ids(incoming) \union outcomes
    BY <1>4, <2>1 DEF SyncInv, BothEndsAgree, EverySlotIsClaimed, InFlight, Serve, Ids
  <2>3. QED
    BY <1>3, <2>1, <2>2
<1>7. QED
  BY <1>5, <1>6 DEF BothEndsAgree

LEMMA ClientIsOfferedInv ==
  ASSUME SyncInv, ClientIsOffered
  PROVE  SyncInv' /\ ExchangeMoves
<1> DEFINE m == Head(offers)
<1>1. /\ offers # <<>> /\ offers' = Tail(offers) /\ ClientSends
      /\ UNCHANGED <<serverVars, answers, unaware>> /\ named' = named
  BY DEF ClientIsOffered, ClientSends, serverVars
<1>2. Connected /\ Latest \in Nat /\ OffersOK(offers, Serve, Latest, Used, named)
  BY <1>1, Numbers DEF SyncInv, WireInv, StreamsOK, BreakOK
<1>3. /\ m \in OfferMsgs
      /\ IsOffer(m) =>
           /\ m.dump \in named /\ m.dump # 0 /\ m.id \notin Used
           /\ SentBy(Serve, m) \/ InFlight(offers', Withdrawal(m.id))
      /\ ~IsOffer(m) => m = Withdrawal(m.id) /\ m.id # Serve.session
  BY <1>1, <1>2, OffersTail
<1>4. m.id \in Nat \ {0} /\ m.dump \in Nat
  BY <1>3 DEF OfferMsgs
<1>5. ServerInv' /\ NothingNew
  BY <1>1, ServerRests DEF SyncInv
<1>6. \A t, g : Withdrawal(t).id = t /\ ~IsOffer(Withdrawal(t)) /\ Offer(t, g).id = t /\ IsOffer(Offer(t, g))
  BY DEF Withdrawal, Offer, IsOffer
<1>7. \/ IsOffer(m) /\ A!EarlierCompletionsRan /\ A!OnFileOffered(Server, m.id, m.dump, TRUE, TRUE)
      \/ ~IsOffer(m) /\ \E r \in incoming : r.id = m.id /\ A!TransferEnds(r, FALSE, FALSE)
      \/ ~IsOffer(m) /\ (\A r \in incoming : r.id # m.id) /\ ClientIdle
  BY DEF ClientIsOffered, IsOffer
<1> HIDE DEF m
<1>8. CASE IsOffer(m) /\ A!EarlierCompletionsRan /\ A!OnFileOffered(Server, m.id, m.dump, TRUE, TRUE)
  <2>1. m.id \in Nat \ {0} /\ m.dump \in Nat \ {0} /\ m.dump \in named /\ m.id \notin Ids(ended)
    BY <1>3, <1>4, <1>8 DEF Used
  <2>2. /\ ClientInv' /\ Stays /\ UNCHANGED <<nextId, ended>>
        /\ Accepts(m.id, m.dump) \/ Refuses(m.id)
    BY <1>1, <1>8, <2>1, FileOfferedStep DEF SyncInv
  <2>3. CASE Accepts(m.id, m.dump)
    <3>1. requests' = requests /\ outcomes' = outcomes
      BY <1>1, <2>3 DEF Accepts, ClientSends, Carried, A!AcceptFile
    <3>2. /\ incoming = {} /\ incoming' = {[peer |-> Server, id |-> m.id, dump |-> m.dump]}
          /\ Ids(incoming') = {m.id} /\ op'.transfer = m.id
      BY <2>3 DEF Accepts, Ids
    <3>3. Used' \subseteq Used \union {m.id}
      BY <2>2, <3>1, <3>2 DEF Used
    <3>4. WireInv'
      BY <1>1, <1>3, <1>8, <2>2, <3>1, <3>2, <3>3, OfferedWire DEF Used, m
    <3>5. BothEndsAgree'
      <4>1. ASSUME NEW r \in incoming'
            PROVE  SentBy(Serve, [id |-> r.id, dump |-> r.dump]) \/ InFlight(offers', Withdrawal(r.id))
        BY <1>3, <1>8, <3>2 DEF SentBy
      <4>2. m = Offer(Serve.session, Serve.file) => Serve.session \in Ids(incoming')
        BY <1>6, <3>2
      <4>3. Serve.session \in Ids(incoming) \union outcomes => Serve.session \in Ids(incoming') \union outcomes'
        BY <3>1, <3>2 DEF Ids
      <4>4. QED
        BY <1>1, <4>1, <4>2, <4>3, OfferedAgree DEF m
    <3>6. QED
      BY <1>5, <2>2, <3>4, <3>5 DEF SyncInv, ExchangeMoves, ClientMoves
  <2>4. CASE Refuses(m.id)
    <3>1. requests' = requests /\ outcomes' = outcomes \union {m.id}
      <4>1. sent' = {A!RejectFile(Server, m.id)}
        BY <2>4 DEF Refuses
      <4>2. A!RejectFile(Server, m.id).type = "rejectFile" /\ A!RejectFile(Server, m.id).id = m.id
        BY DEF A!RejectFile
      <4>3. /\ Carried("rejectFile") = sent' /\ Carried("cancelFile") = {}
            /\ Carried("request") = {} /\ Carried("cancel") = {}
        BY <4>1, <4>2 DEF Carried
      <4>4. {x.id : x \in Carried("rejectFile") \union Carried("cancelFile")} = {m.id}
        BY <4>1, <4>2, <4>3
      <4>5. QED
        BY <1>1, <1>2, <4>3, <4>4 DEF ClientSends
    <3>2. op' = op /\ incoming' = incoming
      BY <2>4 DEF Refuses
    <3>3. Used' \subseteq Used \union {m.id}
      BY <2>2, <3>1, <3>2 DEF Used
    <3>4. Ids(incoming') \intersect outcomes' = {}
      <4>1. \A r \in incoming : r.id \in Used
        BY Numbers DEF SyncInv, Used
      <4>2. m.id \notin Ids(incoming)
        BY <1>3, <1>8, <4>1 DEF Ids
      <4>3. Ids(incoming) \intersect outcomes = {}
        BY <1>2 DEF SyncInv, WireInv, UsedOK, Connected
      <4>4. Ids(incoming') = Ids(incoming)
        BY <3>2
      <4>5. QED
        BY <3>1, <4>2, <4>3, <4>4
    <3>5. WireInv'
      BY <1>1, <1>8, <2>2, <3>1, <3>3, <3>4, OfferedWire DEF m
    <3>6. BothEndsAgree'
      <4>1. \A r \in incoming' : r \in incoming /\ m # Withdrawal(r.id)
        BY <1>6, <1>8, <3>2
      <4>2. m = Offer(Serve.session, Serve.file) => Serve.session \in outcomes'
        BY <1>6, <3>1
      <4>3. Ids(incoming) \union outcomes \subseteq Ids(incoming') \union outcomes'
        BY <3>1, <3>2
      <4>4. QED
        BY <1>1, <4>1, <4>2, <4>3, OfferedAgree DEF m
    <3>7. QED
      BY <1>5, <2>2, <3>5, <3>6 DEF SyncInv, ExchangeMoves, ClientMoves
  <2>5. QED
    BY <2>2, <2>3, <2>4
<1>9. ASSUME ~IsOffer(m), NEW r \in incoming, r.id = m.id, A!TransferEnds(r, FALSE, FALSE)
      PROVE  SyncInv' /\ ExchangeMoves
  <2>1. /\ ClientInv' /\ Stays
        /\ incoming' = {} /\ Ids(ended') = Ids(ended) \union {r.id}
        /\ UNCHANGED <<op, nextId>> /\ sent' = {} /\ op.transfer = r.id
    BY <1>1, <1>9, TransferEndsStep DEF SyncInv
  <2>2. requests' = requests /\ outcomes' = outcomes
    BY <1>1, <2>1 DEF ClientSends, Carried
  <2>3. Used' = Used /\ Ids(incoming') = {}
    BY <2>1, <2>2 DEF Used, Ids
  <2>4. WireInv'
    BY <1>1, <2>1, <2>2, <2>3, OfferedWire DEF m
  <2>5. BothEndsAgree'
    <3>1. \A q \in incoming : q.id = m.id
      BY <1>9, <2>1, Numbers DEF SyncInv
    <3>2. Serve.session \in Ids(incoming) \union outcomes => Serve.session \in Ids(incoming') \union outcomes'
      BY <1>3, <1>9, <2>2, <3>1 DEF Ids
    <3>3. m # Offer(Serve.session, Serve.file)
      BY <1>6, <1>9
    <3>4. QED
      BY <1>1, <2>1, <3>2, <3>3, OfferedAgree DEF m
  <2>6. QED
    BY <1>5, <2>1, <2>4, <2>5 DEF SyncInv, ExchangeMoves, ClientMoves
<1>10. CASE ~IsOffer(m) /\ (\A r \in incoming : r.id # m.id) /\ ClientIdle
  <2>1. ClientInv' /\ Stays /\ UNCHANGED <<op, nextId, incoming, ended>> /\ sent' = {}
    BY <1>1, <1>10, ClientIdles DEF SyncInv, ClientIdle
  <2>2. requests' = requests /\ outcomes' = outcomes
    BY <1>1, <2>1 DEF ClientSends, Carried
  <2>3. Used' = Used /\ Ids(incoming') \intersect outcomes' = {}
    <3>1. Ids(incoming) \intersect outcomes = {}
      BY <1>2 DEF SyncInv, WireInv, UsedOK, Connected
    <3>2. QED
      BY <2>1, <2>2, <3>1 DEF Used
  <2>4. WireInv'
    BY <1>1, <2>1, <2>2, <2>3, OfferedWire DEF m
  <2>5. BothEndsAgree'
    <3>1. \A r \in incoming' : r \in incoming /\ m # Withdrawal(r.id)
      BY <1>6, <1>10, <2>1
    <3>2. m # Offer(Serve.session, Serve.file)
      BY <1>6, <1>10
    <3>3. Ids(incoming) \union outcomes \subseteq Ids(incoming') \union outcomes'
      BY <2>1, <2>2
    <3>4. QED
      BY <1>1, <3>1, <3>2, <3>3, OfferedAgree DEF m
  <2>6. QED
    BY <1>5, <2>1, <2>4, <2>5 DEF SyncInv, ExchangeMoves, ClientMoves
<1>11. QED
  BY <1>7, <1>8, <1>9, <1>10

-----------------------------------------------------------------------------
(* The outcomes the server hears of, and the breaks.                        *)
LEMMA OutcomeInv ==
  ASSUME SyncInv, NEW t \in outcomes, ServerIsTold(t)
  PROVE  SyncInv' /\ ExchangeMoves
<1>1. /\ ClientIdle /\ outcomes' = outcomes \ {t} /\ UNCHANGED <<requests, answers, offers, unaware>>
      /\ \/ Serve.sending /\ Serve.session = t /\ B!PeerLeaves(Client)
         \/ ~(Serve.sending /\ Serve.session = t) /\ UNCHANGED serverVars
  BY DEF ServerIsTold, B!OnTransferFinished, Owns, Serve
<1>2. ServerInv' /\ Moved /\ NothingNew
  BY <1>1, PeerLeavesStep, ServerRests DEF SyncInv
<1>3. named' = named /\ Latest' = Latest
  BY <1>2 DEF NothingNew, Moved, Latest
<1>4. ClientInv' /\ Stays /\ UNCHANGED <<op, nextId, incoming, ended>>
  BY <1>1, <1>3, ClientIdles DEF SyncInv
<1>5. Used' \subseteq Used /\ t \in Used
  BY <1>1, <1>4 DEF Used
<1>6. Latest \in Nat /\ OffersOK(offers, Serve, Latest, Used, named)
  BY Numbers DEF SyncInv, WireInv, StreamsOK
<1>7. CASE Serve.sending /\ Serve.session = t /\ B!PeerLeaves(Client)
  <2>1. Serve' = B!NoServe
    BY <1>7, PeerLeavesStep DEF SyncInv, Dropped, Serve
  <2>2. OffersOK(offers, B!NoServe, Latest, Used', named)
    <3>1. OffersOK(offers, B!NoServe, Latest, Used, named)
      BY <1>5, <1>6, <1>7, OffersUnserved
    <3>2. QED
      BY <1>5, <1>6, <3>1, OffersLater
  <2>3. StreamsOK'
    BY <1>1, <1>3, <1>4, <2>1, <2>2 DEF SyncInv, WireInv, StreamsOK
  <2>4. UsedOK'
    BY <1>1, <1>3, <1>4, <1>5, <2>1, ServeShapes DEF SyncInv, WireInv, UsedOK
  <2>5. BreakOK'
    BY <1>1, <1>4, <2>1 DEF SyncInv, WireInv, BreakOK, Connected
  <2>6. EveryTransferIsServed'
    <3>1. ASSUME NEW r \in incoming, Client \notin unaware
          PROVE  \E i \in 1..Len(offers) : offers[i] = Withdrawal(r.id)
      <4>1. r.id \notin outcomes
        BY <3>1 DEF SyncInv, WireInv, UsedOK, Ids
      <4>2. QED
        BY <1>7, <3>1, <4>1 DEF SyncInv, BothEndsAgree, EveryTransferIsServed, Sending, Serve
    <3>2. QED
      BY <1>1, <1>4, <3>1 DEF EveryTransferIsServed
  <2>7. EverySlotIsClaimed'
    BY <2>1, ServeShapes DEF EverySlotIsClaimed, Serve
  <2>8. QED
    BY <1>2, <1>4, <2>3, <2>4, <2>5, <2>6, <2>7 DEF SyncInv, WireInv, BothEndsAgree, ExchangeMoves, ClientMoves
<1>8. CASE ~(Serve.sending /\ Serve.session = t) /\ UNCHANGED serverVars
  <2>1. UNCHANGED <<Serve, serves, disk>>
    BY <1>8, ServerRests DEF SyncInv
  <2>2. OffersOK(offers, Serve, Latest, Used', named)
    BY <1>5, <1>6, OffersLater
  <2>3. StreamsOK'
    BY <1>1, <1>3, <1>4, <2>1, <2>2 DEF SyncInv, WireInv, StreamsOK
  <2>4. UsedOK'
    <3>1. Client \notin unaware => Ids(incoming) \intersect outcomes' = {}
      BY <1>1 DEF SyncInv, WireInv, UsedOK
    <3>2. QED
      BY <1>1, <1>3, <1>4, <1>5, <2>1, <3>1 DEF SyncInv, WireInv, UsedOK
  <2>5. BreakOK'
    BY <1>1, <1>4, <2>1 DEF SyncInv, WireInv, BreakOK, Connected
  <2>6. EveryTransferIsServed'
    BY <1>1, <1>4, <2>1 DEF SyncInv, BothEndsAgree, EveryTransferIsServed, Sending
  <2>7. EverySlotIsClaimed'
    BY <1>1, <1>4, <1>8, <2>1 DEF SyncInv, BothEndsAgree, EverySlotIsClaimed, Serve
  <2>8. QED
    BY <1>2, <1>4, <2>3, <2>4, <2>5, <2>6, <2>7 DEF SyncInv, WireInv, BothEndsAgree, ExchangeMoves, ClientMoves
<1>9. QED
  BY <1>1, <1>7, <1>8

(* Empty streams carry nothing wrong.                                       *)
LEMMA NothingCarried ==
  ASSUME NEW v, NEW last, NEW n, NEW used, NEW dumps
  PROVE  RequestsOK(<<>>, last, n) /\ OffersOK(<<>>, v, last, used, dumps) /\ <<>> \in Seq(AnswerMsgs)
BY DEF RequestsOK, OffersOK

LEMMA BreakInv ==
  ASSUME SyncInv, Break
  PROVE  SyncInv' /\ ExchangeMoves
<1>1. /\ ClientIdle /\ UNCHANGED serverVars
      /\ requests' = <<>> /\ answers' = <<>> /\ offers' = <<>> /\ unaware' = {Client, Server}
      /\ outcomes' = IF Serve.sending THEN {Serve.session} ELSE {}
  BY DEF Break, Owns, Serve
<1>2. ServerInv' /\ NothingNew /\ UNCHANGED <<Serve, Latest, named>>
  BY <1>1, ServerRests DEF SyncInv
<1>3. ClientInv' /\ Stays /\ UNCHANGED <<op, nextId, incoming, ended>>
  BY <1>1, <1>2, ClientIdles DEF SyncInv
<1>4. StreamsOK'
  BY <1>1, NothingCarried DEF StreamsOK
<1>5. UsedOK'
  <2>1. ASSUME NEW t \in Used'
        PROVE  t \in Nat /\ t <= Latest /\ (Serve.waiting => t # Serve.session)
    <3>1. t \in Used \/ (Serve.sending /\ t = Serve.session)
      BY <1>1, <1>3 DEF Used
    <3>2. QED
      BY <3>1, Numbers DEF SyncInv, WireInv, UsedOK
  <2>2. QED
    BY <1>1, <1>2, <1>3, <2>1 DEF SyncInv, WireInv, UsedOK
<1>6. BreakOK'
  BY <1>1 DEF BreakOK, Connected
<1>7. BothEndsAgree'
  BY <1>1 DEF BothEndsAgree, EveryTransferIsServed, EverySlotIsClaimed
<1>8. QED
  BY <1>2, <1>3, <1>4, <1>5, <1>6, <1>7 DEF SyncInv, WireInv, ExchangeMoves, ClientMoves

LEMMA ServerLosesPeerInv ==
  ASSUME SyncInv, ServerLosesPeer
  PROVE  SyncInv' /\ ExchangeMoves
<1>1. /\ Server \in unaware /\ unaware' = unaware \ {Server} /\ ClientIdle
      /\ UNCHANGED <<requests, answers, offers, outcomes>>
      /\ B!PeerLeaves(Client) \/ (Serve.session = 0 /\ UNCHANGED serverVars)
  BY DEF ServerLosesPeer, B!OnPeerDisconnected, B!NoSession, Serve
<1>2. requests = <<>> /\ offers = <<>> /\ (Client \notin unaware => incoming = {})
      /\ unaware \subseteq {Client, Server}
  BY <1>1 DEF SyncInv, WireInv, BreakOK, Connected
<1>3. ServerInv' /\ Moved /\ NothingNew
  BY <1>1, PeerLeavesStep, ServerRests DEF SyncInv
<1>4. Serve' = B!NoServe
  <2>1. CASE B!PeerLeaves(Client)
    BY <2>1, PeerLeavesStep DEF SyncInv, Dropped, Serve
  <2>2. CASE Serve.session = 0 /\ UNCHANGED serverVars
    BY <2>2, ServerFacts, ServerRests DEF SyncInv
  <2>3. QED
    BY <1>1, <2>1, <2>2
<1>5. named' = named /\ Latest' = Latest
  BY <1>3 DEF NothingNew, Moved, Latest
<1>6. ClientInv' /\ Stays /\ UNCHANGED <<op, nextId, incoming, ended>>
  BY <1>1, <1>5, ClientIdles DEF SyncInv
<1>7. Used' = Used
  BY <1>1, <1>6 DEF Used
<1>8. StreamsOK'
  BY <1>1, <1>2, NothingCarried DEF SyncInv, WireInv, StreamsOK
<1>9. UsedOK'
  BY <1>1, <1>4, <1>5, <1>6, <1>7, ServeShapes, SyncAssumption DEF SyncInv, WireInv, UsedOK
<1>10. BreakOK'
  BY <1>1, <1>2, <1>4, <1>6, SyncAssumption DEF BreakOK
<1>11. EveryTransferIsServed'
  BY <1>1, <1>2, <1>6, SyncAssumption DEF EveryTransferIsServed
<1>12. EverySlotIsClaimed'
  BY <1>4, ServeShapes DEF EverySlotIsClaimed, Serve
<1>13. QED
  BY <1>3, <1>6, <1>8, <1>9, <1>10, <1>11, <1>12
  DEF SyncInv, WireInv, BothEndsAgree, ExchangeMoves, ClientMoves

-----------------------------------------------------------------------------
(* The start, a step, and the theorems.                                     *)
LEMMA SameInit ==
  ASSUME B!ServeInit
  PROVE  BP!ServeInit
BY DEF B!ServeInit, B!SnapshotInit, B!NoServe, B!NoGen, B!NoSession, B!NoMeta, B!Silence,
   BP!ServeInit, BP!SnapshotInit, BP!NoServe, BP!NoGen, BP!NoSession, BP!NoMeta, BP!Silence

LEMMA InitInv ==
  ASSUME Init
  PROVE  SyncInv
<1>1. /\ A!PullInit /\ B!ServeInit
      /\ requests = <<>> /\ answers = <<>> /\ offers = <<>> /\ outcomes = {} /\ unaware = {}
  BY DEF Init
<1>2. /\ op = A!NoOp /\ nextId = 0 /\ workers = {} /\ incoming = {} /\ ended = {}
      /\ note \in [{Server} -> [name : Nat, size : Nat]] /\ received \in [{Server} -> Nat]
  BY <1>1 DEF A!PullInit, A!NoNote, A!Nothing
<1>3. ClientInv
  <2>1. ClientTypes /\ LaneOK
    BY <1>2, Idle DEF ClientTypes, LaneOK
  <2>2. WorkersOK /\ ReceivingOK /\ HeldIsPublished
    BY <1>2, Idle DEF WorkersOK, ReceivingOK, HeldIsPublished, Ids
  <2>3. QED
    BY <2>1, <2>2 DEF ClientInv
<1>4. /\ Serve = B!NoServe /\ Latest = 0 /\ generation = 0 /\ disk = {} /\ named = {} /\ live = 0 /\ job = "none"
  BY <1>1 DEF B!ServeInit, B!SnapshotInit, B!NoSession, B!NoGen, Serve, Latest
<1>5. ServerInv
  <2>1. BP!ServeInv
    BY <1>1, SameInit, LaneAssumption, BP!InitInv
  <2>2. QED
    BY <1>4, <2>1, ServeShapes, SyncAssumption DEF ServerInv, B!NoGen
<1>6. WireInv
  <2>1. Used = {0}
    BY <1>1, <1>2, Idle DEF Used, Ids
  <2>2. UsedOK
    BY <1>2, <1>4, <2>1, ServeShapes DEF UsedOK, Ids
  <2>3. StreamsOK /\ BreakOK
    BY <1>1, NothingCarried DEF StreamsOK, BreakOK, Connected
  <2>4. QED
    BY <2>2, <2>3 DEF WireInv
<1>7. BothEndsAgree
  BY <1>2, <1>4, ServeShapes DEF BothEndsAgree, EveryTransferIsServed, EverySlotIsClaimed, Serve
<1>8. QED
  BY <1>3, <1>5, <1>6, <1>7 DEF SyncInv

LEMMA StutterInv ==
  ASSUME SyncInv, UNCHANGED vars
  PROVE  SyncInv'
<1>1. /\ UNCHANGED <<op, nextId, workers, note, received, incoming, ended>> /\ UNCHANGED serverVars
      /\ UNCHANGED <<requests, answers, offers, outcomes, unaware>>
  BY DEF vars, clientVars, wire
<1>2. ServerInv' /\ UNCHANGED <<Serve, Latest, serves, disk, named>>
  BY <1>1, ServerRests DEF SyncInv
<1>3. ClientInv'
  BY <1>1, <1>2 DEF SyncInv, ClientInv, ClientTypes, LaneOK, WorkersOK, ReceivingOK, HeldIsPublished, Ids
<1>4. Used' = Used
  BY <1>1 DEF Used
<1>5. WireInv'
  BY <1>1, <1>2, <1>4 DEF SyncInv, WireInv, StreamsOK, UsedOK, BreakOK, Connected
<1>6. BothEndsAgree'
  BY <1>1, <1>2 DEF SyncInv, BothEndsAgree, EveryTransferIsServed, EverySlotIsClaimed, Sending
<1>7. QED
  BY <1>2, <1>3, <1>5, <1>6 DEF SyncInv

LEMMA NextInv ==
  ASSUME SyncInv, Next
  PROVE  SyncInv' /\ ExchangeMoves
<1>1. CASE ClientUser
  BY <1>1, ClientUserInv
<1>2. CASE ClientWorks
  BY <1>2, ClientWorksInv
<1>3. CASE ClientDeadline
  BY <1>3, ClientDeadlineInv
<1>4. CASE ClientHears
  BY <1>4, ClientHearsInv
<1>5. CASE ClientIsOffered
  BY <1>5, ClientIsOfferedInv
<1>6. ASSUME NEW r \in incoming, ClientReceives(r) PROVE SyncInv' /\ ExchangeMoves
  BY <1>6, ClientReceivesInv
<1>7. CASE ServerActs
  BY <1>7, ServerActsInv
<1>8. CASE ServerWorks
  BY <1>8, ServerWorksInv
<1>9. CASE ServerHears
  BY <1>9, ServerHearsInv
<1>10. CASE Heartbeat
  BY <1>10, HeartbeatInv
<1>11. ASSUME NEW r \in incoming, NEW success \in BOOLEAN, TransferEnds(r, success) PROVE SyncInv' /\ ExchangeMoves
  BY <1>11, TransferEndsInv
<1>12. ASSUME NEW t \in outcomes, ServerIsTold(t) PROVE SyncInv' /\ ExchangeMoves
  BY <1>12, OutcomeInv
<1>13. CASE Break
  BY <1>13, BreakInv
<1>14. CASE ClientLosesPeer
  BY <1>14, ClientLosesPeerInv
<1>15. CASE ServerLosesPeer
  BY <1>15, ServerLosesPeerInv
<1>16. QED
  BY <1>1, <1>2, <1>3, <1>4, <1>5, <1>6, <1>7, <1>8, <1>9, <1>10, <1>11, <1>12, <1>13, <1>14, <1>15
  DEF Next, TransferStep, OutcomeStep

(* The inductive invariant: the state of the client and of the server, what *)
(* is on the wire between them, and that they agree.                        *)
THEOREM SyncInvariant == Spec => []SyncInv
<1>1. Init => SyncInv
  BY InitInv
<1>2. SyncInv /\ [Next]_vars => SyncInv'
  BY NextInv, StutterInv
<1>3. QED
  BY <1>1, <1>2, PTL DEF Spec

(* The two ends of database_sync_service.cpp agree on what is being         *)
(* transferred, whatever order the two streams of librats are heard in,     *)
(* whoever cancels, supersedes or gives up, and however often the           *)
(* connection breaks: the client receives only what the server sends from a *)
(* file that is there, and the server holds a slot only for a client that   *)
(* receives, or either will hear that it is over.                           *)
THEOREM EndsAlwaysAgree == Spec => []BothEndsAgree
<1>1. SyncInv => BothEndsAgree
  BY DEF SyncInv
<1>2. QED
  BY <1>1, SyncInvariant, PTL

(* A step of the two nodes is a step of the exchange, or none of it.        *)
Phase == CASE op.kind = "pull" -> "asking" [] op.kind = "import" -> "merging" [] OTHER -> "idle"
Held == IF op.kind = "import" THEN received[Server] ELSE 0

LEMMA PhaseOf ==
  /\ op.kind = "none" => Phase = "idle" /\ Held = 0
  /\ op.kind = "pull" => Phase = "asking" /\ Held = 0
  /\ op.kind = "import" => Phase = "merging" /\ Held = received[Server]
  /\ op'.kind = "none" => Phase' = "idle" /\ Held' = 0
  /\ op'.kind = "pull" => Phase' = "asking" /\ Held' = 0
  /\ op'.kind = "import" => Phase' = "merging" /\ Held' = received'[Server]
BY DEF Phase, Held

LEMMA ExchangeStep ==
  ASSUME SyncInv, ExchangeMoves
  PROVE  [Exchange!Next]_<<named \ halfWritten, Phase, Held>>
<1>1. op.kind \in {"none", "pull", "import"} /\ halfWritten = {} /\ halfWritten' = halfWritten
  BY ServerFacts DEF SyncInv, ClientInv, ClientTypes, ExchangeMoves, NothingNew
<1>2. CASE Stays
  <2>1. Phase' = Phase /\ Held' = Held
    BY <1>1, <1>2, PhaseOf DEF Stays
  <2>2. named' = named \/ \E g \in B!Gens : named' = named \union {g}
    BY DEF ExchangeMoves, NothingNew, MayPublish
  <2>3. CASE named' = named
    BY <1>1, <2>1, <2>3
  <2>4. CASE \E g \in B!Gens : named' = named \union {g}
    <3>1. \E g \in B!Gens : named' \ halfWritten' = (named \ halfWritten) \union {g}
      BY <1>1, <2>4
    <3>2. Exchange!Publish
      BY <2>1, <3>1 DEF Exchange!Publish, Phase, Held
    <3>3. QED
      BY <3>2 DEF Exchange!Next
  <2>5. QED
    BY <2>2, <2>3, <2>4
<1>3. CASE NothingNew /\ Begins
  <2>1. Phase = "idle" /\ Phase' = "asking" /\ Held' = Held
    BY <1>3, PhaseOf DEF Begins
  <2>2. Exchange!Ask
    BY <1>3, <2>1 DEF Exchange!Ask, NothingNew, Phase, Held
  <2>3. QED
    BY <2>2 DEF Exchange!Next
<1>4. CASE NothingNew /\ Gives
  <2>1. Phase = "asking" /\ Phase' = "merging" /\ Held' \in named \ halfWritten
    BY <1>1, <1>4, PhaseOf DEF Gives
  <2>2. Exchange!Deliver
    BY <1>4, <2>1 DEF Exchange!Deliver, NothingNew, Phase, Held
  <2>3. QED
    BY <2>2 DEF Exchange!Next
<1>5. CASE NothingNew /\ Ends
  <2>1. Phase # "idle" /\ Phase' = "idle" /\ Held' = 0
    BY <1>1, <1>5, PhaseOf DEF Ends
  <2>2. Exchange!End
    BY <1>5, <2>1 DEF Exchange!End, Exchange!Nothing, NothingNew, Phase, Held
  <2>3. QED
    BY <2>2 DEF Exchange!Next
<1>6. QED
  BY <1>2, <1>3, <1>4, <1>5 DEF ExchangeMoves, ClientMoves

(* The two nodes implement the exchange: whatever they do and whatever the  *)
(* wire does to them, the client asks, merges only a dump the server has    *)
(* published whole, and only while it asks (DatabaseExchange).              *)
THEOREM ExchangeIsImplemented == Spec => ImplementsExchange
<1>1. Init => Exchange!Init
  <2>1. SUFFICES ASSUME Init PROVE Exchange!Init
    OBVIOUS
  <2>2. op.kind = "none" /\ named = {}
    BY <2>1, Idle DEF Init, A!PullInit, B!ServeInit, B!SnapshotInit
  <2>3. QED
    BY <2>2, PhaseOf DEF Exchange!Init, Exchange!Nothing, Phase, Held
<1>2. SyncInv /\ [Next]_vars => [Exchange!Next]_<<named \ halfWritten, Phase, Held>>
  <2>1. SUFFICES ASSUME SyncInv, [Next]_vars
                 PROVE  [Exchange!Next]_<<named \ halfWritten, Phase, Held>>
    OBVIOUS
  <2>2. CASE Next
    BY <2>1, <2>2, NextInv, ExchangeStep
  <2>3. CASE UNCHANGED vars
    BY <2>3 DEF vars, clientVars, serverVars, Phase, Held
  <2>4. QED
    BY <2>1, <2>2, <2>3
<1>3. QED
  BY <1>1, <1>2, SyncInvariant, PTL DEF Spec, ImplementsExchange, Exchange!Spec, Phase, Held
=============================================================================
