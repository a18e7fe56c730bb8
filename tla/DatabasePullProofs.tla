--------------------------- MODULE DatabasePullProofs ---------------------------
(* Proofs about the user's lane, for any peers, dumps and operations.       *)
EXTENDS DatabasePull, TLAPS

(* The workers: an operation has at most one, a pull has none yet, and a    *)
(* result is good only if the work was done.                                *)
WorkersInv ==
  /\ WorkerIsCurrent
  /\ \A v, w \in workers : v.id = w.id => v = w
  /\ op.kind = "pull" => \A w \in workers : w.id # op.id
  /\ \A w \in workers : w.end = "ok" => w.id \in done
  /\ SuccessIsEarned
  /\ ReportedOnce

(* The transfers: at most one, the operation's own, with an id of its own,  *)
(* and the note is of the dump it carries.                                  *)
TransfersInv ==
  /\ TransfersAreOwned
  /\ \A r \in incoming : r.id # 0 /\ r.id <= offered
  /\ \A e \in ended : e.id # 0 /\ e.id <= offered
  /\ \A r, q \in incoming : r = q
  /\ \A r \in incoming, e \in ended : ~(e.peer = r.peer /\ e.id = r.id)
  /\ \A r \in incoming : note[r.peer] # NoNote => note[r.peer].size = r.dump
  /\ NoteTellsTheTruth
  /\ NeverMixed

PullInv == PullTypeOK /\ WorkersInv /\ TransfersInv

LEMMA PullInitInv == PullInit => PullInv
<1> SUFFICES ASSUME PullInit PROVE PullInv
  OBVIOUS
<1> USE DEF PullInit, NoOp, NoPart, NoNote, Nothing
<1>1. OpOK(op)
  BY PullAssumption DEF OpOK, Deadlines
<1>2. PullTypeOK
  BY <1>1 DEF PullTypeOK
<1>3. WorkersInv
  BY DEF WorkersInv, WorkerIsCurrent, SuccessIsEarned, ReportedOnce
<1>4. TransfersInv
  BY DEF TransfersInv, TransfersAreOwned, NoteTellsTheTruth, NeverMixed
<1>5. QED
  BY <1>2, <1>3, <1>4 DEF PullInv

(* A lane that is idle or waits for a peer has no worker running.           *)
LEMMA NobodyRuns ==
  ASSUME PullInv, op.kind \in {"none", "pull"} \/ ~Running(op.id)
  PROVE  \A w \in workers : w.end # "running"
<1>1. \A w \in workers : w.end = "running" => w.id = op.id /\ w.id # 0
  BY DEF PullInv, WorkersInv, WorkerIsCurrent, PullTypeOK
<1>2. op.kind = "none" => op.id = 0
  BY DEF PullInv, PullTypeOK, OpOK, NoOp
<1>3. QED
  BY <1>1, <1>2 DEF Running, PullInv, WorkersInv

LEMMA NoOpOK == OpOK(NoOp) /\ NoOp.id = 0 /\ NoOp.kind = "none" /\ NoOp.transfer = 0
BY PullAssumption DEF OpOK, NoOp, Nothing, Deadlines

LEMMA NewLocalOK ==
  ASSUME NEW i \in Nat \ {0}, NEW kind \in {"export", "import"}
  PROVE  /\ OpOK(NewOp(i, kind, NoPeer, "off"))
         /\ NewOp(i, kind, NoPeer, "off").id = i /\ NewOp(i, kind, NoPeer, "off").kind = kind
BY DEF OpOK, NewOp, Nothing, Deadlines

LEMMA NewPullOK ==
  ASSUME NEW i \in Nat \ {0}, NEW p \in Peers
  PROVE  OpOK(NewOp(i, "pull", p, "set")) /\ NewOp(i, "pull", p, "set").id = i
BY PullAssumption DEF OpOK, NewOp, Nothing, Deadlines

(* A step after which the lane is idle.                                     *)
LEMMA FinishInv ==
  ASSUME PullInv, op' = NoOp, UNCHANGED <<nextId, done>>,
         workers' \subseteq workers, \A w \in workers' : w.end # "running",
         cancelled' \subseteq 1..nextId, incoming' = {}, ended' \subseteq ended,
         offered' \in Nat, offered <= offered',
         succeeded' \subseteq succeeded \union {op.id}, failed' \subseteq failed \union {op.id},
         op.id \notin succeeded' \intersect failed', op.id = 0 => UNCHANGED <<succeeded, failed>>,
         op.id \in succeeded' => op.id \in done,
         part' \in [Peers -> [dump : Nat, whole : BOOLEAN]],
         note' \in [Peers -> [name : Nat, size : Nat]],
         received' \in [Peers -> Nat],
         NoteTellsTheTruth'
  PROVE  PullInv'
<1> USE DEF PullInv
<1>1. op.id \in Nat /\ op.id <= nextId /\ nextId \in Nat /\ offered \in Nat
  BY DEF PullTypeOK, OpOK
<1>2. succeeded' \subseteq 1..nextId /\ failed' \subseteq 1..nextId
  <2>1. CASE op.id = 0
    BY <2>1 DEF PullTypeOK
  <2>2. CASE op.id # 0
    BY <1>1, <2>2 DEF PullTypeOK
  <2>3. QED
    BY <2>1, <2>2
<1>3. PullTypeOK'
  <2>1. OpOK(op)' /\ op'.id <= nextId'
    BY <1>1, NoOpOK DEF OpOK
  <2>2. QED
    BY <1>1, <1>2, <2>1 DEF PullTypeOK
<1>4. WorkersInv'
  <2>1. WorkerIsCurrent'
    BY DEF WorkerIsCurrent
  <2>2. SuccessIsEarned'
    BY DEF WorkersInv, SuccessIsEarned
  <2>3. ReportedOnce'
    BY <1>2, NoOpOK DEF WorkersInv, ReportedOnce
  <2>4. QED
    BY <2>1, <2>2, <2>3, NoOpOK DEF WorkersInv
<1>5. TransfersInv'
  <2>1. \A e \in ended' : e.id # 0 /\ e.id <= offered'
    BY <1>1 DEF TransfersInv, PullTypeOK
  <2>2. QED
    BY <2>1 DEF TransfersInv, TransfersAreOwned, NeverMixed
<1>6. QED
  BY <1>3, <1>4, <1>5

(* finishLocal() of the current operation when nothing works for it.        *)
LEMMA ReportInv ==
  ASSUME PullInv, NEW success \in BOOLEAN, op.id # 0, Report(success), success => op.id \in done,
         UNCHANGED <<nextId, done, offered, part, note>>,
         workers' \subseteq workers, \A w \in workers' : w.end # "running",
         cancelled' \subseteq 1..nextId, ended' \subseteq ended, received' \in [Peers -> Nat]
  PROVE  PullInv'
<1>1. incoming' = {}
  BY DEF Report, PullInv, TransfersInv, TransfersAreOwned
<1>2. /\ succeeded' \subseteq succeeded \union {op.id} /\ failed' \subseteq failed \union {op.id}
      /\ op.id \notin succeeded' \intersect failed'
      /\ op.id \in succeeded' => op.id \in done
  BY DEF Report, PullInv, WorkersInv, ReportedOnce, SuccessIsEarned
<1>3. NoteTellsTheTruth'
  BY DEF PullInv, TransfersInv, NoteTellsTheTruth
<1>4. QED
  BY <1>1, <1>2, <1>3, FinishInv DEF Report, PullInv, PullTypeOK

-----------------------------------------------------------------------------
(* A new operation, with or without a worker.                               *)
LEMMA StartLocalInv ==
  ASSUME PullInv, NEW kind \in {"export", "import"}, StartLocal(kind)
  PROVE  PullInv'
<1> USE DEF PullInv, StartLocal, files
<1>1. \A w \in workers : w.end # "running"
  BY NobodyRuns, NoOpOK
<1>2. /\ nextId \in Nat /\ nextId' = nextId + 1 /\ nextId' # 0 /\ op'.id = nextId' /\ op'.kind = kind
      /\ OpOK(op')
  <2>1. nextId \in Nat /\ nextId' = nextId + 1 /\ nextId' \in Nat \ {0}
    BY DEF PullTypeOK
  <2>2. op' = NewOp(nextId + 1, kind, NoPeer, "off") /\ nextId + 1 \in Nat \ {0}
    BY <2>1
  <2> HIDE DEF StartLocal, PullInv
  <2>3. /\ OpOK(NewOp(nextId + 1, kind, NoPeer, "off"))
        /\ NewOp(nextId + 1, kind, NoPeer, "off").id = nextId + 1
        /\ NewOp(nextId + 1, kind, NoPeer, "off").kind = kind
    BY <2>2, NewLocalOK
  <2>4. QED
    BY <2>1, <2>2, <2>3
<1>3. incoming = {}
  BY NoOpOK DEF TransfersInv, TransfersAreOwned
<1>4. PullTypeOK'
  <2>1. Worker(nextId', kind, NoPeer, FALSE) \in
          [id : 1..nextId', kind : {"export", "import"}, peer : Peers \union {NoPeer},
           remove : BOOLEAN, end : {"running", "ok", "failed", "cancelled"}]
    BY <1>2 DEF Worker
  <2>2. 1..nextId \subseteq 1..nextId'
    BY <1>2
  <2>3. workers' \subseteq
          [id : 1..nextId', kind : {"export", "import"}, peer : Peers \union {NoPeer},
           remove : BOOLEAN, end : {"running", "ok", "failed", "cancelled"}]
    BY <2>1, <2>2 DEF PullTypeOK
  <2>4. \A w \in workers' : w.remove => w.peer \in Peers
    BY DEF PullTypeOK, Worker
  <2>5. OpOK(op)'
    BY <1>2 DEF OpOK
  <2>6. /\ cancelled' \subseteq 1..nextId' /\ succeeded' \union failed' \union done' \subseteq 1..nextId'
        /\ op'.id <= nextId' /\ nextId' \in Nat
    <3>1. nextId' \in Nat /\ op'.id <= nextId'
      <4> HIDE DEF StartLocal, PullInv
      <4>1. QED
        BY <1>2
    <3>2. QED
      BY <2>2, <3>1 DEF PullTypeOK
  <2>7. QED
    BY <2>3, <2>4, <2>5, <2>6 DEF PullTypeOK
<1>5. WorkersInv'
  <2>1. \A w \in workers : w.id # nextId'
    BY <1>2 DEF PullTypeOK
  <2>2. Worker(nextId', kind, NoPeer, FALSE).id = nextId' /\ Worker(nextId', kind, NoPeer, FALSE).end = "running"
    BY DEF Worker
  <2>3. WorkerIsCurrent' /\ SuccessIsEarned'
    BY <1>1, <1>2, <2>2 DEF WorkersInv, WorkerIsCurrent, SuccessIsEarned
  <2>4. ReportedOnce'
    <3>1. nextId' \notin 1..nextId
      BY <1>2
    <3>2. QED
      BY <1>2, <3>1 DEF WorkersInv, ReportedOnce, PullTypeOK
  <2>5. QED
    BY <1>2, <2>1, <2>2, <2>3, <2>4 DEF WorkersInv
<1>6. TransfersInv'
  BY <1>3 DEF TransfersInv, TransfersAreOwned, NoteTellsTheTruth, NeverMixed
<1>7. QED
  BY <1>4, <1>5, <1>6

LEMMA RequestFromPeerInv ==
  ASSUME PullInv, NEW p \in Peers, NEW reachable \in BOOLEAN, RequestFromPeer(p, reachable)
  PROVE  PullInv'
<1> USE DEF PullInv, RequestFromPeer, files
<1>1. \A w \in workers : w.end # "running"
  BY NobodyRuns, NoOpOK
<1>2. /\ nextId \in Nat /\ nextId' = nextId + 1 /\ nextId' # 0
      /\ op'.id \in {0, nextId'} /\ OpOK(op') /\ (op'.id # 0 => reachable)
  <2>1. nextId \in Nat /\ nextId' = nextId + 1 /\ nextId' \in Nat \ {0} /\ p # NoPeer
    BY PullAssumption DEF PullTypeOK
  <2>2. CASE reachable
    <3>1. OpOK(NewOp(nextId', "pull", p, "set")) /\ NewOp(nextId', "pull", p, "set").id = nextId'
      BY <2>1, NewPullOK
    <3>2. QED
      BY <2>1, <2>2, <3>1
  <2>3. CASE ~reachable
    BY <2>1, <2>3, NoOpOK
  <2>4. QED
    BY <2>1, <2>2, <2>3
<1>3. incoming = {}
  BY NoOpOK DEF TransfersInv, TransfersAreOwned
<1>4. PullTypeOK'
  <2>1. 1..nextId \subseteq 1..nextId' /\ nextId' \in 1..nextId'
    BY <1>2
  <2>2. OpOK(op)'
    BY <1>2 DEF OpOK
  <2>3. nextId' \in Nat /\ op'.id <= nextId'
    <3> HIDE DEF RequestFromPeer, PullInv
    <3>1. QED
      BY <1>2
  <2>6. failed' \subseteq 1..nextId' /\ succeeded' \subseteq 1..nextId' /\ done' \subseteq 1..nextId'
    BY <1>2, <2>1 DEF PullTypeOK
  <2>4. workers' \subseteq
          [id : 1..nextId', kind : {"export", "import"}, peer : Peers \union {NoPeer},
           remove : BOOLEAN, end : {"running", "ok", "failed", "cancelled"}]
    BY <2>1 DEF PullTypeOK
  <2>5. QED
    BY <2>1, <2>2, <2>3, <2>4, <2>6 DEF PullTypeOK
<1>5. WorkersInv'
  <2>1. \A w \in workers : w.id # nextId' /\ w.id # 0
    BY <1>2 DEF PullTypeOK
  <2>2. WorkerIsCurrent' /\ SuccessIsEarned'
    BY <1>1 DEF WorkersInv, WorkerIsCurrent, SuccessIsEarned
  <2>3. ReportedOnce'
    BY <1>2, NoOpOK DEF WorkersInv, ReportedOnce, PullTypeOK, NewOp
  <2>4. QED
    BY <1>2, <2>1, <2>2, <2>3 DEF WorkersInv
<1>6. TransfersInv'
  BY <1>3 DEF TransfersInv, TransfersAreOwned, NoteTellsTheTruth, NeverMixed
<1>7. QED
  BY <1>4, <1>5, <1>6

-----------------------------------------------------------------------------
(* Facts about the current operation that the handlers start from.          *)
LEMMA PullFacts ==
  ASSUME PullInv
  PROVE  /\ op.id \in Nat /\ op.id <= nextId /\ nextId \in Nat
         /\ op # NoOp => op.id # 0
         /\ op.kind = "pull" => op.id # 0 /\ op.peer \in Peers
         /\ op.transfer # 0 \/ op.deadline # "off" => op.kind = "pull"
         /\ op.transfer = 0 => incoming = {}
<1>1. OpOK(op)
  BY DEF PullInv, PullTypeOK
<1>2. /\ op.id \in Nat /\ op.id <= nextId /\ nextId \in Nat
      /\ op # NoOp => op.id # 0
      /\ op.transfer # 0 \/ op.deadline # "off" => op.kind = "pull"
  BY <1>1 DEF PullInv, PullTypeOK, OpOK
<1>3. op.kind = "pull" => op.id # 0 /\ op.peer \in Peers
  BY <1>1, NoOpOK DEF OpOK
<1>4. op.transfer = 0 => incoming = {}
  BY DEF PullInv, TransfersInv, TransfersAreOwned
<1>5. QED
  BY <1>2, <1>3, <1>4

(* The current operation ends without success, and nothing works for it.    *)
LEMMA FailInv ==
  ASSUME PullInv, op.id # 0, FinishLocal(op.id, FALSE),
         UNCHANGED <<nextId, done, offered, part, note, received, ended, workers>>,
         \A w \in workers : w.end # "running", cancelled' \subseteq 1..nextId
  PROVE  PullInv'
<1>1. Report(FALSE)
  BY DEF FinishLocal
<1>2. received' \in [Peers -> Nat]
  BY DEF PullInv, PullTypeOK
<1>3. QED
  BY <1>1, <1>2, ReportInv

LEMMA CancelOperationInv ==
  ASSUME PullInv, CancelOperation
  PROVE  PullInv'
<1> USE DEF CancelOperation, files
<1>1. op.id # 0 /\ cancelled' \subseteq 1..nextId
  <2>1. op.id # 0 /\ op.id \in 1..nextId
    BY PullFacts
  <2>2. QED
    BY <2>1 DEF PullInv, PullTypeOK
<1>2. CASE Running(op.id)
  <2>1. PullTypeOK'
    BY <1>1, <1>2 DEF PullInv, PullTypeOK, OpOK
  <2>2. WorkersInv'
    BY <1>2 DEF PullInv, WorkersInv, WorkerIsCurrent, SuccessIsEarned, ReportedOnce
  <2>3. TransfersInv'
    BY <1>2 DEF PullInv, TransfersInv, TransfersAreOwned, NoteTellsTheTruth, NeverMixed
  <2>4. QED
    BY <2>1, <2>2, <2>3 DEF PullInv
<1>3. CASE ~Running(op.id)
  <2>1. \A w \in workers : w.end # "running"
    BY <1>3, NobodyRuns
  <2>2. QED
    BY <1>1, <1>3, <2>1, FailInv
<1>4. QED
  BY <1>2, <1>3

LEMMA WorkerEndsInv ==
  ASSUME PullInv, NEW w \in workers, NEW end \in {"ok", "failed", "cancelled"}, WorkerEnds(w, end)
  PROVE  PullInv'
<1> USE DEF PullInv, WorkerEnds, files
<1> DEFINE x == [w EXCEPT !.end = end]
<1>1. w \in [id : 1..nextId, kind : {"export", "import"}, peer : Peers \union {NoPeer},
              remove : BOOLEAN, end : {"running", "ok", "failed", "cancelled"}]
  BY DEF PullTypeOK
<1>2. /\ x \in [id : 1..nextId, kind : {"export", "import"}, peer : Peers \union {NoPeer},
               remove : BOOLEAN, end : {"running", "ok", "failed", "cancelled"}]
      /\ x.id = w.id /\ x.end = end /\ x.peer = w.peer /\ x.remove = w.remove
  BY <1>1
<1>3. \A v \in workers' : v = x \/ (v \in workers /\ v # w)
  OBVIOUS
<1> HIDE DEF x
<1>4. PullTypeOK'
  <2>1. OpOK(op)'
    BY DEF PullTypeOK, OpOK
  <2>2. done' \subseteq 1..nextId
    BY <1>1 DEF PullTypeOK
  <2>3. \A v \in workers' : v.remove => v.peer \in Peers
    BY <1>2, <1>3 DEF PullTypeOK
  <2>4. QED
    BY <1>2, <1>3, <2>1, <2>2, <2>3 DEF PullTypeOK
<1>5. WorkersInv'
  <2>1. WorkerIsCurrent'
    BY <1>2, <1>3 DEF WorkersInv, WorkerIsCurrent
  <2>2. \A u, v \in workers' : u.id = v.id => u = v
    BY <1>2, <1>3 DEF WorkersInv
  <2>3. op'.kind = "pull" => \A v \in workers' : v.id # op'.id
    BY <1>2, <1>3 DEF WorkersInv
  <2>4. \A v \in workers' : v.end = "ok" => v.id \in done'
    BY <1>2, <1>3 DEF WorkersInv
  <2>5. QED
    BY <2>1, <2>2, <2>3, <2>4 DEF WorkersInv, SuccessIsEarned, ReportedOnce
<1>6. TransfersInv'
  BY DEF TransfersInv, TransfersAreOwned, NoteTellsTheTruth, NeverMixed
<1>7. QED
  BY <1>4, <1>5, <1>6

LEMMA CompletedInv ==
  ASSUME PullInv, NEW w \in workers, Completed(w)
  PROVE  PullInv'
<1> DEFINE success == w.end = "ok" /\ (w.kind = "import" \/ w.id \notin cancelled)
<1>1. /\ w.end # "running" /\ workers' = workers \ {w} /\ FinishLocal(w.id, success)
      /\ UNCHANGED <<nextId, cancelled, part, note, ended, offered, done>>
  BY DEF Completed
<1>2. w.id # 0
  BY DEF PullInv, PullTypeOK
<1>3. received' \in [Peers -> Nat]
  BY DEF Completed, PullInv, PullTypeOK, Nothing
<1>4. success \in BOOLEAN /\ (success => w.id \in done)
  BY DEF PullInv, WorkersInv
<1>5. cancelled' \subseteq 1..nextId
  BY <1>1 DEF PullInv, PullTypeOK
<1> HIDE DEF success
<1>6. CASE op.id = w.id
  <2>1. \A v \in workers' : v.end # "running"
    BY <1>1, <1>6 DEF PullInv, WorkersInv, WorkerIsCurrent
  <2>2. Report(success)
    BY <1>1, <1>6 DEF FinishLocal
  <2>3. QED
    BY <1>1, <1>2, <1>3, <1>4, <1>5, <1>6, <2>1, <2>2, ReportInv
<1>7. CASE op.id # w.id
  <2>1. UNCHANGED <<op, succeeded, failed, incoming>>
    BY <1>1, <1>7 DEF FinishLocal
  <2>2. PullTypeOK'
    BY <1>1, <1>3, <2>1 DEF PullInv, PullTypeOK, OpOK
  <2>3. WorkersInv'
    BY <1>1, <2>1 DEF PullInv, WorkersInv, WorkerIsCurrent, SuccessIsEarned, ReportedOnce
  <2>4. TransfersInv'
    BY <1>1, <2>1 DEF PullInv, TransfersInv, TransfersAreOwned, NoteTellsTheTruth, NeverMixed
  <2>5. QED
    BY <2>2, <2>3, <2>4 DEF PullInv
<1>8. QED
  BY <1>6, <1>7

-----------------------------------------------------------------------------
(* A message of the peer that only changes what is known of the operation.  *)
LEMMA HearsInv ==
  ASSUME PullInv, OpOK(op'), op'.id = op.id, op'.kind = op.kind, op'.peer = op.peer,
         op'.transfer = op.transfer,
         UNCHANGED <<nextId, workers, cancelled, part, note, received, incoming, ended, offered,
                     succeeded, failed, done>>
  PROVE  PullInv'
<1>1. PullTypeOK'
  BY DEF PullInv, PullTypeOK, OpOK
<1>2. WorkersInv'
  BY DEF PullInv, WorkersInv, WorkerIsCurrent, SuccessIsEarned, ReportedOnce
<1>3. TransfersInv'
  BY DEF PullInv, TransfersInv, TransfersAreOwned, NoteTellsTheTruth, NeverMixed
<1>4. QED
  BY <1>1, <1>2, <1>3 DEF PullInv

LEMMA HandlePeerResponseInv ==
  ASSUME PullInv, NEW p \in Peers, NEW s, NEW kind, NEW g \in Nat, HandlePeerResponse(p, s, kind, g)
  PROVE  PullInv'
<1>1. op.kind = "pull" /\ s = op.id /\ op.id # 0
  BY PullFacts DEF HandlePeerResponse, AwaitsAnswer, Pulling
<1>2. UNCHANGED <<nextId, workers, cancelled, part, note, received, ended, offered, done>>
  BY DEF HandlePeerResponse, files
<1>3. CASE kind = "refused"
  <2>1. FinishLocal(op.id, FALSE)
    BY <1>1, <1>3 DEF HandlePeerResponse
  <2>2. \A w \in workers : w.end # "running"
    BY <1>1, NobodyRuns
  <2>3. QED
    BY <1>1, <1>2, <2>1, <2>2, FailInv DEF PullInv, PullTypeOK
<1>4. CASE kind # "refused"
  <2>1. /\ op' = [op EXCEPT !.snapshot = g, !.engaged = TRUE, !.deadline = "set"]
        /\ UNCHANGED <<succeeded, failed, incoming>>
    BY <1>4 DEF HandlePeerResponse
  <2>2. OpOK(op')
    BY <1>1, <2>1 DEF PullInv, PullTypeOK, OpOK, Deadlines
  <2>3. op'.id = op.id /\ op'.kind = op.kind /\ op'.peer = op.peer /\ op'.transfer = op.transfer
    BY <2>1 DEF PullInv, PullTypeOK, OpOK
  <2>4. QED
    BY <1>2, <2>1, <2>2, <2>3, HearsInv
<1>5. QED
  BY <1>3, <1>4

LEMMA HandlePeerProgressInv ==
  ASSUME PullInv, NEW p \in Peers, NEW s, HandlePeerProgress(p, s)
  PROVE  PullInv'
<1>1. /\ op.kind = "pull" /\ op.id # 0 /\ op' = [op EXCEPT !.deadline = "set"]
      /\ UNCHANGED <<nextId, workers, cancelled, part, note, received, incoming, ended, offered,
                     succeeded, failed, done>>
  BY PullFacts DEF HandlePeerProgress, AwaitsBeat, Pulling, files
<1>2. OpOK(op')
  BY <1>1 DEF PullInv, PullTypeOK, OpOK, Deadlines
<1>3. op'.id = op.id /\ op'.kind = op.kind /\ op'.peer = op.peer /\ op'.transfer = op.transfer
  BY <1>1 DEF PullInv, PullTypeOK, OpOK
<1>4. QED
  BY <1>1, <1>2, <1>3, HearsInv

LEMMA TimePassesInv ==
  ASSUME PullInv, TimePasses
  PROVE  PullInv'
<1>1. /\ op.kind = "pull" /\ op.id # 0 /\ op' = [op EXCEPT !.deadline = "running"]
      /\ UNCHANGED <<nextId, workers, cancelled, part, note, received, incoming, ended, offered,
                     succeeded, failed, done>>
  BY PullFacts DEF TimePasses, files
<1>2. OpOK(op')
  BY <1>1 DEF PullInv, PullTypeOK, OpOK, Deadlines
<1>3. op'.id = op.id /\ op'.kind = op.kind /\ op'.peer = op.peer /\ op'.transfer = op.transfer
  BY <1>1 DEF PullInv, PullTypeOK, OpOK
<1>4. QED
  BY <1>1, <1>2, <1>3, HearsInv

(* The peer is gone, or the deadline has passed.                            *)
LEMMA OnPeerDisconnectedInv ==
  ASSUME PullInv, NEW p \in Peers, OnPeerDisconnected(p)
  PROVE  PullInv'
<1>1. op.kind = "pull" /\ op.id # 0
  BY PullFacts DEF OnPeerDisconnected, Pulling
<1>2. \A w \in workers : w.end # "running"
  BY <1>1, NobodyRuns
<1>3. QED
  BY <1>1, <1>2, FailInv DEF OnPeerDisconnected, files, PullInv, PullTypeOK

LEMMA DeadlinePassesInv ==
  ASSUME PullInv, DeadlinePasses
  PROVE  PullInv'
<1>1. op.kind = "pull" /\ op.id # 0
  BY PullFacts DEF DeadlinePasses
<1>2. \A w \in workers : w.end # "running"
  BY <1>1, NobodyRuns
<1>3. QED
  BY <1>1, <1>2, FailInv DEF DeadlinePasses, files, PullInv, PullTypeOK

-----------------------------------------------------------------------------
(* What the bytes at hand and the note beside them become when dump g is    *)
(* offered: what is continued is a prefix of g.                             *)
LEMMA FilesFor ==
  ASSUME PullInv, NEW p \in Peers, NEW g \in Nat, op.kind = "pull"
  PROVE  /\ PartFor(p, g) \in [Peers -> [dump : Nat, whole : BOOLEAN]]
         /\ NoteFor(p, g) \in [Peers -> [name : Nat, size : Nat]]
         /\ NoteAfterDiscard(p, g) \in [Peers -> [name : Nat, size : Nat]]
         /\ PartFor(p, g)[p].dump \in {Nothing, g}
         /\ NoteFor(p, g)[p] # NoNote => NoteFor(p, g)[p].size = g
         /\ \A q \in Peers : PartFor(p, g)[q].dump # Nothing /\ NoteFor(p, g)[q] # NoNote
                => NoteFor(p, g)[q].size = PartFor(p, g)[q].dump
         /\ \A q \in Peers : PartFor(p, g)[q].dump # Nothing /\ NoteAfterDiscard(p, g)[q] # NoNote
                => NoteAfterDiscard(p, g)[q].size = PartFor(p, g)[q].dump
<1>1. /\ part \in [Peers -> [dump : Nat, whole : BOOLEAN]]
      /\ note \in [Peers -> [name : Nat, size : Nat]]
      /\ op.snapshot \in Nat
  BY DEF PullInv, PullTypeOK, OpOK
<1>2. \A q \in Peers : part[q].dump # Nothing /\ note[q] # NoNote => note[q].size = part[q].dump
  BY DEF PullInv, TransfersInv, NoteTellsTheTruth
<1>3. PartFor(p, g) \in [Peers -> [dump : Nat, whole : BOOLEAN]]
  BY <1>1 DEF PartFor, NoPart, Nothing
<1>4. NoteFor(p, g) \in [Peers -> [name : Nat, size : Nat]]
  BY <1>1 DEF NoteFor, NoNote, Nothing
<1>5. NoteAfterDiscard(p, g) \in [Peers -> [name : Nat, size : Nat]]
  BY <1>1 DEF NoteAfterDiscard, NoNote, Nothing
<1>6. \A q \in Peers \ {p} : /\ PartFor(p, g)[q] = part[q] /\ NoteFor(p, g)[q] = note[q]
                             /\ NoteAfterDiscard(p, g)[q] = note[q]
  BY <1>1 DEF PartFor, NoteFor, NoteAfterDiscard
<1>7. NoteFor(p, g)[p] # NoNote => NoteFor(p, g)[p].size = g
  BY <1>1 DEF NoteFor
<1>8. CASE Resumes(p, g)
  <2>1. part[p].dump = g /\ note[p].size = g
    BY <1>1, <1>2, <1>8 DEF Resumes, Continuable
  <2>2. PartFor(p, g) = part /\ NoteAfterDiscard(p, g) = note
    BY <1>8 DEF PartFor, NoteAfterDiscard
  <2>3. QED
    BY <1>1, <1>2, <1>3, <1>4, <1>5, <1>6, <1>7, <2>1, <2>2
<1>9. CASE ~Resumes(p, g)
  <2>1. PartFor(p, g)[p].dump = Nothing
    BY <1>1, <1>9 DEF PartFor, NoPart
  <2>2. QED
    BY <1>2, <1>3, <1>4, <1>5, <1>6, <1>7, <2>1
<1>10. QED
  BY <1>8, <1>9

LEMMA OnFileOfferedInv ==
  ASSUME PullInv, NEW p \in Peers, NEW g \in Dumps, NEW room \in BOOLEAN, NEW taken \in BOOLEAN,
         offered' = offered + 1, OnFileOffered(p, offered', g, room, taken)
  PROVE  PullInv'
<1>1. /\ offered \in Nat /\ offered' \in Nat /\ offered' # 0 /\ offered < offered'
      /\ g \in Nat \ {Nothing}
  BY PullAssumption DEF PullInv, PullTypeOK, Dumps, Nothing
<1>2. UNCHANGED <<nextId, workers, cancelled, ended, done>>
  BY DEF OnFileOffered
<1>3. CASE ~Pulling(p) \/ op.transfer # 0
  <2>1. UNCHANGED <<op, part, note, received, incoming, succeeded, failed>>
    BY <1>3 DEF OnFileOffered, files
  <2>2. PullTypeOK'
    BY <1>1, <1>2, <2>1 DEF PullInv, PullTypeOK, OpOK
  <2>3. WorkersInv'
    BY <1>2, <2>1 DEF PullInv, WorkersInv, WorkerIsCurrent, SuccessIsEarned, ReportedOnce
  <2>4. \A x \in incoming' \union ended' : x.id # 0 /\ x.id <= offered'
    BY <1>1, <1>2, <2>1 DEF PullInv, TransfersInv, PullTypeOK
  <2>5. TransfersInv'
    BY <1>2, <2>1, <2>4 DEF PullInv, TransfersInv, TransfersAreOwned, NoteTellsTheTruth, NeverMixed
  <2>6. QED
    BY <2>2, <2>3, <2>5 DEF PullInv
<1>4. CASE Pulling(p) /\ op.transfer = 0
  <2>1. /\ op.kind = "pull" /\ op.peer = p /\ op.id # 0 /\ op.id <= nextId
        /\ op.id \in Nat /\ incoming = {}
    BY <1>4, PullFacts DEF Pulling
  <2>2. \A w \in workers : w.end # "running"
    BY <2>1, NobodyRuns
  <2>3. /\ part' = PartFor(p, g) /\ UNCHANGED received
        /\ note' = IF room THEN NoteFor(p, g) ELSE NoteAfterDiscard(p, g)
    BY <1>4 DEF OnFileOffered
  <2>4. /\ part' \in [Peers -> [dump : Nat, whole : BOOLEAN]]
        /\ note' \in [Peers -> [name : Nat, size : Nat]]
        /\ received' \in [Peers -> Nat]
        /\ NoteTellsTheTruth'
    <3>1. received' \in [Peers -> Nat] /\ part' \in [Peers -> [dump : Nat, whole : BOOLEAN]]
      BY <1>1, <2>1, <2>3, FilesFor DEF PullInv, PullTypeOK
    <3>2. CASE room
      <4>1. part' = PartFor(p, g) /\ note' = NoteFor(p, g) /\ g \in Nat
        BY <1>1, <2>3, <3>2
      <4>2. /\ NoteFor(p, g) \in [Peers -> [name : Nat, size : Nat]]
            /\ \A q \in Peers : PartFor(p, g)[q].dump # Nothing /\ NoteFor(p, g)[q] # NoNote
                 => NoteFor(p, g)[q].size = PartFor(p, g)[q].dump
        BY <2>1, <4>1, FilesFor
      <4>3. QED
        BY <3>1, <4>1, <4>2 DEF NoteTellsTheTruth
    <3>3. CASE ~room
      <4>1. part' = PartFor(p, g) /\ note' = NoteAfterDiscard(p, g) /\ g \in Nat
        BY <1>1, <2>3, <3>3
      <4>2. /\ NoteAfterDiscard(p, g) \in [Peers -> [name : Nat, size : Nat]]
            /\ \A q \in Peers : PartFor(p, g)[q].dump # Nothing /\ NoteAfterDiscard(p, g)[q] # NoNote
                 => NoteAfterDiscard(p, g)[q].size = PartFor(p, g)[q].dump
        BY <2>1, <4>1, FilesFor
      <4>3. QED
        BY <3>1, <4>1, <4>2 DEF NoteTellsTheTruth
    <3>4. QED
      BY <3>2, <3>3
  <2>5. CASE room /\ taken
    <3>1. /\ op' = [op EXCEPT !.transfer = offered', !.deadline = "off"]
          /\ incoming' = {[peer |-> p, id |-> offered', dump |-> g]}
          /\ UNCHANGED <<succeeded, failed>>
      BY <1>4, <2>1, <2>5 DEF OnFileOffered
    <3>2. /\ OpOK(op') /\ op'.id = op.id /\ op'.kind = op.kind /\ op'.peer = p
          /\ op'.transfer = offered'
      BY <1>1, <2>1, <3>1 DEF PullInv, PullTypeOK, OpOK, Deadlines
    <3>3. PullTypeOK'
      BY <1>1, <1>2, <2>4, <3>1, <3>2 DEF PullInv, PullTypeOK, OpOK
    <3>4. WorkersInv'
      BY <1>2, <2>1, <2>2, <3>1, <3>2
      DEF PullInv, WorkersInv, WorkerIsCurrent, SuccessIsEarned, ReportedOnce
    <3>5. \A r \in incoming' : /\ r.peer = p /\ r.id = offered' /\ r.dump = g
                               /\ r = [peer |-> p, id |-> offered', dump |-> g]
      BY <3>1
    <3>6. TransfersAreOwned' /\ NeverMixed'
      BY <1>1, <2>1, <2>3, <3>2, <3>5, FilesFor DEF TransfersAreOwned, NeverMixed
    <3>7. \A e \in ended' : e.id # 0 /\ e.id <= offered' /\ e.id # offered'
      BY <1>1, <1>2 DEF PullInv, TransfersInv, PullTypeOK
    <3>8. \A r \in incoming' : note'[r.peer] # NoNote => note'[r.peer].size = r.dump
      BY <1>1, <2>1, <2>3, <2>5, <3>5, FilesFor
    <3>9. TransfersInv'
      BY <1>1, <2>4, <3>5, <3>6, <3>7, <3>8 DEF TransfersInv
    <3>10. QED
      BY <3>3, <3>4, <3>9 DEF PullInv
  <2>6. CASE ~(room /\ taken)
    <3>1. /\ op' = NoOp /\ failed' = failed \union {op.id} /\ UNCHANGED <<incoming, succeeded>>
      BY <1>4, <2>6 DEF OnFileOffered
    <3>2. op.id \notin succeeded'
      BY <3>1 DEF PullInv, WorkersInv, ReportedOnce
    <3>3. cancelled' \subseteq 1..nextId
      BY <1>2 DEF PullInv, PullTypeOK
    <3>4. QED
      BY <1>1, <1>2, <2>1, <2>2, <2>4, <3>1, <3>2, <3>3, FinishInv
  <2>7. QED
    BY <2>5, <2>6
<1>5. QED
  BY <1>3, <1>4

-----------------------------------------------------------------------------
LEMMA BytesArriveInv ==
  ASSUME PullInv, NEW r \in incoming, BytesArrive(r)
  PROVE  PullInv'
<1>1. /\ r.peer \in Peers /\ r.dump \in Nat /\ r.id \in Nat
      /\ part' = [part EXCEPT ![r.peer] = [dump |-> r.dump, whole |-> FALSE]]
      /\ UNCHANGED <<op, nextId, workers, cancelled, note, received, incoming, ended, offered,
                     succeeded, failed, done>>
  BY DEF BytesArrive, lane, PullInv, PullTypeOK
<1>2. part \in [Peers -> [dump : Nat, whole : BOOLEAN]]
  BY DEF PullInv, PullTypeOK
<1>3. /\ part' \in [Peers -> [dump : Nat, whole : BOOLEAN]] /\ part'[r.peer].dump = r.dump
      /\ \A q \in Peers \ {r.peer} : part'[q] = part[q]
  BY <1>1, <1>2
<1>4. PullTypeOK'
  BY <1>1, <1>3 DEF PullInv, PullTypeOK, OpOK
<1>5. WorkersInv'
  BY <1>1 DEF PullInv, WorkersInv, WorkerIsCurrent, SuccessIsEarned, ReportedOnce
<1>6. NoteTellsTheTruth' /\ NeverMixed'
  BY <1>1, <1>3 DEF PullInv, TransfersInv, NoteTellsTheTruth, NeverMixed
<1>7. TransfersInv'
  BY <1>1, <1>6 DEF PullInv, TransfersInv, TransfersAreOwned
<1>8. QED
  BY <1>4, <1>5, <1>7 DEF PullInv

LEMMA TransferEndsInv ==
  ASSUME PullInv, NEW r \in incoming, NEW success \in BOOLEAN, NEW all \in BOOLEAN,
         TransferEnds(r, success, all)
  PROVE  PullInv'
<1>1. /\ r.peer \in Peers /\ r.dump \in Nat /\ r.id \in Nat /\ r.id # 0 /\ r.id <= offered
      /\ ended' = ended \union {[peer |-> r.peer, id |-> r.id, ok |-> success]}
      /\ UNCHANGED <<op, nextId, workers, cancelled, note, offered, succeeded, failed, done>>
  BY DEF TransferEnds, lane, PullInv, PullTypeOK, TransfersInv
<1>2. incoming' = {}
  BY DEF TransferEnds, PullInv, TransfersInv
<1>3. /\ part \in [Peers -> [dump : Nat, whole : BOOLEAN]] /\ received \in [Peers -> Nat]
      /\ note[r.peer] # NoNote => note[r.peer].size = r.dump
  BY DEF PullInv, PullTypeOK, TransfersInv
<1>4. received' \in [Peers -> Nat]
  BY <1>1, <1>3 DEF TransferEnds
<1>5. /\ part' \in [Peers -> [dump : Nat, whole : BOOLEAN]]
      /\ \A q \in Peers \ {r.peer} : part'[q] = part[q]
      /\ part'[r.peer].dump \in {part[r.peer].dump, Nothing, r.dump}
  <2>1. \/ part' = [part EXCEPT ![r.peer] = NoPart]
        \/ part' = [part EXCEPT ![r.peer] = [dump |-> r.dump, whole |-> TRUE]]
        \/ part' = part
    BY DEF TransferEnds
  <2>2. /\ NoPart \in [dump : Nat, whole : BOOLEAN] /\ NoPart.dump = Nothing
        /\ [dump |-> r.dump, whole |-> TRUE] \in [dump : Nat, whole : BOOLEAN]
    BY <1>1 DEF NoPart, Nothing
  <2>3. ASSUME NEW x \in [dump : Nat, whole : BOOLEAN], part' = [part EXCEPT ![r.peer] = x]
        PROVE  /\ part' \in [Peers -> [dump : Nat, whole : BOOLEAN]] /\ part'[r.peer] = x
               /\ \A q \in Peers \ {r.peer} : part'[q] = part[q]
    BY <1>1, <1>3, <2>3
  <2>4. CASE part' = part
    BY <1>3, <2>4
  <2>5. CASE part' = [part EXCEPT ![r.peer] = NoPart]
    BY <2>2, <2>3, <2>5
  <2>6. CASE part' = [part EXCEPT ![r.peer] = [dump |-> r.dump, whole |-> TRUE]]
    <3>1. [dump |-> r.dump, whole |-> TRUE].dump = r.dump
      OBVIOUS
    <3>2. QED
      BY <2>2, <2>3, <2>6, <3>1
  <2>7. QED
    BY <2>1, <2>4, <2>5, <2>6
<1>6. PullTypeOK'
  BY <1>1, <1>2, <1>4, <1>5 DEF PullInv, PullTypeOK, OpOK
<1>7. WorkersInv'
  BY <1>1 DEF PullInv, WorkersInv, WorkerIsCurrent, SuccessIsEarned, ReportedOnce
<1>8. NoteTellsTheTruth'
  BY <1>1, <1>3, <1>5 DEF PullInv, TransfersInv, NoteTellsTheTruth
<1>9. TransfersInv'
  BY <1>1, <1>2, <1>8 DEF PullInv, TransfersInv, TransfersAreOwned, NeverMixed
<1>10. QED
  BY <1>6, <1>7, <1>9 DEF PullInv

(* The pull becomes an import: its worker is the only one.                  *)
LEMMA OnTransferFinishedInv ==
  ASSUME PullInv, NEW e \in ended, OnTransferFinished(e)
  PROVE  PullInv'
<1>1. /\ e.peer \in Peers /\ e.id # 0 /\ ended' = ended \ {e}
      /\ UNCHANGED <<nextId, cancelled, part, received, offered, done>>
  BY DEF OnTransferFinished, PullInv, PullTypeOK, TransfersInv
<1>2. CASE op.peer # e.peer \/ op.transfer # e.id
  <2>1. UNCHANGED <<op, workers, note, incoming, succeeded, failed>>
    BY <1>2 DEF OnTransferFinished
  <2>2. PullTypeOK'
    BY <1>1, <2>1 DEF PullInv, PullTypeOK, OpOK
  <2>3. WorkersInv'
    BY <1>1, <2>1 DEF PullInv, WorkersInv, WorkerIsCurrent, SuccessIsEarned, ReportedOnce
  <2>4. TransfersInv'
    BY <1>1, <2>1 DEF PullInv, TransfersInv, TransfersAreOwned, NoteTellsTheTruth, NeverMixed
  <2>5. QED
    BY <2>2, <2>3, <2>4 DEF PullInv
<1>3. CASE op.peer = e.peer /\ op.transfer = e.id
  <2>1. op.kind = "pull" /\ op.id # 0 /\ op.id \in 1..nextId /\ nextId \in Nat
    BY <1>1, <1>3, PullFacts
  <2>2. \A w \in workers : w.end # "running"
    BY <2>1, NobodyRuns
  <2>3. incoming = {}
    BY <1>3 DEF PullInv, TransfersInv, TransfersAreOwned
  <2>4. note \in [Peers -> [name : Nat, size : Nat]] /\ cancelled' \subseteq 1..nextId
    BY <1>1 DEF PullInv, PullTypeOK
  <2>5. CASE e.ok
    <3>1. /\ op' = [op EXCEPT !.kind = "import", !.transfer = 0, !.deadline = "off"]
          /\ workers' = workers \union {Worker(op.id, "import", e.peer, TRUE)}
          /\ UNCHANGED <<succeeded, failed, incoming>>
          /\ note' = [note EXCEPT ![e.peer] = NoNote]
      BY <1>3, <2>5 DEF OnTransferFinished, StartPullImport
    <3>2. /\ note' \in [Peers -> [name : Nat, size : Nat]]
          /\ \A q \in Peers : note'[q] # NoNote => note'[q] = note[q]
      BY <1>1, <2>4, <3>1 DEF NoNote, Nothing
    <3>3. OpOK(op') /\ op'.id = op.id /\ op'.kind = "import"
      BY <2>1, <3>1 DEF PullInv, PullTypeOK, OpOK, Deadlines
    <3> DEFINE x == Worker(op.id, "import", e.peer, TRUE)
    <3>4. /\ x \in [id : 1..nextId, kind : {"export", "import"}, peer : Peers \union {NoPeer},
                    remove : BOOLEAN, end : {"running", "ok", "failed", "cancelled"}]
          /\ x.id = op.id /\ x.peer = e.peer /\ x.end = "running"
      BY <1>1, <2>1 DEF Worker
    <3>5. \A v \in workers' : v \in workers \/ v = x
      BY <3>1
    <3> HIDE DEF x
    <3>6. PullTypeOK'
      <4>1. \A v \in workers' : v.remove => v.peer \in Peers
        BY <1>1, <3>4, <3>5 DEF PullInv, PullTypeOK
      <4>2. OpOK(op)' /\ op'.id <= nextId'
        BY <1>1, <3>3, PullFacts DEF OpOK
      <4>3. workers' \subseteq
              [id : 1..nextId, kind : {"export", "import"}, peer : Peers \union {NoPeer},
               remove : BOOLEAN, end : {"running", "ok", "failed", "cancelled"}]
        BY <3>4, <3>5 DEF PullInv, PullTypeOK
      <4>4. QED
        BY <1>1, <3>1, <3>2, <4>1, <4>2, <4>3 DEF PullInv, PullTypeOK
    <3>7. WorkersInv'
      <4>1. \A v \in workers : v.id # op.id
        BY <2>1 DEF PullInv, WorkersInv
      <4>2. WorkerIsCurrent'
        BY <2>2, <3>3, <3>4, <3>5 DEF WorkerIsCurrent
      <4>3. \A u, v \in workers' : u.id = v.id => u = v
        BY <3>4, <3>5, <4>1 DEF PullInv, WorkersInv
      <4>4. \A v \in workers' : v.end = "ok" => v.id \in done'
        BY <1>1, <3>4, <3>5 DEF PullInv, WorkersInv
      <4>5. SuccessIsEarned' /\ ReportedOnce'
        BY <1>1, <3>1, <3>3 DEF PullInv, WorkersInv, SuccessIsEarned, ReportedOnce
      <4>6. QED
        BY <3>3, <4>2, <4>3, <4>4, <4>5 DEF WorkersInv
    <3>8. NoteTellsTheTruth'
      BY <1>1, <3>2 DEF PullInv, TransfersInv, NoteTellsTheTruth
    <3>9. TransfersInv'
      BY <1>1, <2>3, <3>1, <3>8 DEF PullInv, TransfersInv, TransfersAreOwned, NeverMixed
    <3>10. QED
      BY <3>6, <3>7, <3>9 DEF PullInv
  <2>6. CASE ~e.ok
    <3>1. op' = NoOp /\ failed' = failed \union {op.id} /\ UNCHANGED <<workers, note, incoming, succeeded>>
      BY <1>3, <2>6 DEF OnTransferFinished
    <3>2. op.id \notin succeeded'
      BY <3>1 DEF PullInv, WorkersInv, ReportedOnce
    <3>3. /\ part' \in [Peers -> [dump : Nat, whole : BOOLEAN]]
          /\ note' \in [Peers -> [name : Nat, size : Nat]]
          /\ received' \in [Peers -> Nat] /\ offered' \in Nat /\ offered <= offered'
      BY <1>1, <3>1 DEF PullInv, PullTypeOK
    <3>4. NoteTellsTheTruth'
      BY <1>1, <3>1 DEF PullInv, TransfersInv, NoteTellsTheTruth
    <3>5. QED
      BY <1>1, <2>1, <2>2, <2>3, <2>4, <3>1, <3>2, <3>3, <3>4, FinishInv
  <2>7. QED
    BY <2>5, <2>6
<1>4. QED
  BY <1>2, <1>3

LEMMA PullRestartInv ==
  ASSUME PullInv, NEW oldParts \in SUBSET Peers, NEW oldNotes \in SUBSET Peers,
         NEW oldDumps \in SUBSET Peers, PullRestart(oldParts, oldNotes, oldDumps)
  PROVE  PullInv'
<1>1. /\ op' = NoOp /\ workers' = {} /\ cancelled' = {} /\ incoming' = {} /\ ended' = {}
      /\ UNCHANGED <<nextId, offered, succeeded, failed, done>>
      /\ offered' \in Nat /\ offered <= offered'
  BY DEF PullRestart, PullInv, PullTypeOK
<1>2. part' \in [Peers -> [dump : Nat, whole : BOOLEAN]]
  BY DEF PullRestart, PullInv, PullTypeOK, NoPart, Nothing
<1>3. note' \in [Peers -> [name : Nat, size : Nat]]
  BY DEF PullRestart, PullInv, PullTypeOK, NoNote, Nothing
<1>4. received' \in [Peers -> Nat]
  BY DEF PullRestart, PullInv, PullTypeOK, Nothing
<1>5. NoteTellsTheTruth'
  BY DEF PullRestart, PullInv, TransfersInv, NoteTellsTheTruth, NoPart
<1>6. op.id \notin succeeded' \intersect failed' /\ (op.id \in succeeded' => op.id \in done)
  BY <1>1 DEF PullInv, WorkersInv, ReportedOnce, SuccessIsEarned
<1>7. QED
  BY <1>1, <1>2, <1>3, <1>4, <1>5, <1>6, FinishInv

-----------------------------------------------------------------------------
(* Every step keeps the invariant, one case per handler.                    *)
LEMMA PullNextInv == PullInv /\ [PullNext]_pullVars => PullInv'
<1> SUFFICES ASSUME PullInv, [PullNext]_pullVars PROVE PullInv'
  OBVIOUS
<1>1. CASE UserStep
  BY <1>1, StartLocalInv, RequestFromPeerInv, CancelOperationInv
  DEF UserStep, ExportToFile, ImportFromFile
<1>2. CASE WorkerStep
  BY <1>2, WorkerEndsInv, CompletedInv DEF WorkerStep
<1>3. CASE PeerStep
  <2>1. ASSUME NEW p \in Peers, NEW s \in 1..nextId, NEW kind \in {"refused", "wait"},
               HandlePeerResponse(p, s, kind, Nothing)
        PROVE  PullInv'
    BY <2>1, HandlePeerResponseInv DEF Nothing
  <2>2. ASSUME NEW p \in Peers, NEW s \in 1..nextId, NEW g \in Dumps,
               HandlePeerResponse(p, s, "ready", g)
        PROVE  PullInv'
    BY <2>2, HandlePeerResponseInv, PullAssumption DEF Dumps
  <2>3. ASSUME NEW p \in Peers, NEW g \in Dumps, NEW room \in BOOLEAN, NEW taken \in BOOLEAN,
               offered' = offered + 1, OnFileOffered(p, offered', g, room, taken)
        PROVE  PullInv'
    BY <2>3, OnFileOfferedInv
  <2>4. QED
    BY <1>3, <2>1, <2>2, <2>3, HandlePeerProgressInv, OnPeerDisconnectedInv DEF PeerStep
<1>4. CASE TransferStep
  BY <1>4, TransferEndsInv, OnTransferFinishedInv DEF TransferStep
<1>5. CASE \E r \in incoming : BytesArrive(r)
  BY <1>5, BytesArriveInv
<1>6. CASE TimePasses \/ DeadlinePasses
  BY <1>6, TimePassesInv, DeadlinePassesInv
<1>7. CASE \E parts, notes, dumps \in SUBSET Peers : PullRestart(parts, notes, dumps)
  BY <1>7, PullRestartInv
<1>8. CASE UNCHANGED pullVars
  <2>1. UNCHANGED <<op, nextId, workers, cancelled, part, note, received, incoming, ended, offered,
                    succeeded, failed, done>>
    BY <1>8 DEF pullVars
  <2>2. OpOK(op')
    BY <2>1 DEF PullInv, PullTypeOK
  <2>3. QED
    BY <2>1, <2>2, HearsInv
<1>9. QED
  BY <1>1, <1>2, <1>3, <1>4, <1>5, <1>6, <1>7, <1>8 DEF PullNext

(* The inductive invariant holds in every reachable state of the lane.      *)
THEOREM PullInvariant == PullSpec => []PullInv
BY PullInitInv, PullNextInv, PTL DEF PullSpec

(* Type correctness.                                                        *)
THEOREM PullTypeCorrect == PullSpec => []PullTypeOK
BY PullInvariant, PTL DEF PullInv

(* No deadline, disconnect, cancel or late outcome lets an operation start  *)
(* while another one's worker is still inside the data layer.               *)
THEOREM OneWorkerAtATime == PullSpec => []WorkerIsCurrent
<1>1. PullInv => WorkerIsCurrent
  BY DEF PullInv, WorkersInv
<1>2. QED
  BY <1>1, PullInvariant, PTL

(* finishLocal() never reports a success its own worker did not earn.       *)
THEOREM SuccessesAreEarned == PullSpec => []SuccessIsEarned
<1>1. PullInv => SuccessIsEarned
  BY DEF PullInv, WorkersInv
<1>2. QED
  BY <1>1, PullInvariant, PTL

(* finishLocal() reports every operation once.                              *)
THEOREM OperationsAreReportedOnce == PullSpec => []ReportedOnce
<1>1. PullInv => ReportedOnce
  BY DEF PullInv, WorkersInv
<1>2. QED
  BY <1>1, PullInvariant, PTL

(* The note on disk is always of the file the bytes beside it came from,    *)
(* through every attempt, failure and restart.                              *)
THEOREM NotesTellTheTruth == PullSpec => []NoteTellsTheTruth
<1>1. PullInv => NoteTellsTheTruth
  BY DEF PullInv, TransfersInv
<1>2. QED
  BY <1>1, PullInvariant, PTL

(* librats never appends the bytes of one dump to those of another.         *)
THEOREM DumpsAreNeverMixed == PullSpec => []NeverMixed
<1>1. PullInv => NeverMixed
  BY DEF PullInv, TransfersInv
<1>2. QED
  BY <1>1, PullInvariant, PTL

(* No transfer goes on that the current operation does not wait for.        *)
THEOREM TransfersHaveAnOwner == PullSpec => []TransfersAreOwned
<1>1. PullInv => TransfersAreOwned
  BY DEF PullInv, TransfersInv
<1>2. QED
  BY <1>1, PullInvariant, PTL

(* Only the current operation's worker and transfer run, with any peers.    *)
THEOREM LaneStaysOwned == PullSpec => []LaneIsOwned
BY OneWorkerAtATime, TransfersHaveAnOwner, PTL DEF LaneIsOwned

(* Reports are true and made once, for any number of operations.            *)
THEOREM ReportsStayTrue == PullSpec => []ReportsAreTrue
BY SuccessesAreEarned, OperationsAreReportedOnce, PTL DEF ReportsAreTrue

(* Partials are continued only with their own file, for any dumps.          *)
THEOREM PartialsStayTrue == PullSpec => []PartialsAreTrue
BY NotesTellTheTruth, DumpsAreNeverMixed, PTL DEF PartialsAreTrue
=============================================================================
