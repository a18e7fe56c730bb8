----------------------------- MODULE DatabaseSync -----------------------------
(***************************************************************************)
(* Two nodes: the client pulls, the server serves.  DatabasePull is the    *)
(* client's lane, DatabaseServe the server's, and every message and file   *)
(* outcome one of them reacts to was sent by a step of the other.          *)
(*                                                                         *)
(* librats (external) carries two streams between them, messages and file  *)
(* transfers.  Each keeps its order; nothing orders one against the other: *)
(* the client expects a file to overtake its answer ("the file beat the    *)
(* answer here").  When the connection breaks both streams are lost, and   *)
(* each end is told in a step of its own.                                  *)
(***************************************************************************)
EXTENDS Sequences, Naturals, FiniteSets

CONSTANTS
  Client, Server,  \* the two nodes
  MaxServes, MaxSession, MaxGen,
  MaxBreaks        \* bound: how often the connection breaks

ASSUME SyncAssumption ==
  /\ Client # Server
  /\ MaxServes \in Nat \ {0} /\ MaxSession \in Nat \ {0} /\ MaxGen \in Nat \ {0}
  /\ MaxBreaks \in Nat

VARIABLES
  op, nextId, workers, cancelled, part, note, received, incoming, ended, offered, sent,
  succeeded, failed, done,                             \* the client
  generation, live, fresh, disk, temp, meta, named, halfWritten, metaState,
  serves, job, sharing, limited, lastSession, answered, leftover,    \* the server
  requests,        \* messages on their way to the server
  answers,         \* messages on their way to the client
  offers,          \* file offers, and their withdrawals, to the client
  outcomes,        \* librats: transfers over, for the server to hear of
  unaware,         \* the ends that have not been told that the peer is gone
  breaks           \* how often the connection broke

A == INSTANCE DatabasePull WITH
       Peers <- {Server}, NoPeer <- Client, MaxOps <- MaxSession, MaxOffers <- MaxSession,
       MaxDump <- MaxGen
B == INSTANCE DatabaseServe WITH Peers <- {Client}

wire == <<requests, answers, offers, outcomes, unaware, breaks>>
clientVars == <<op, nextId, workers, cancelled, part, note, received, incoming, ended, offered,
                sent, succeeded, failed, done>>
serverVars == <<generation, live, fresh, disk, temp, meta, named, halfWritten, metaState,
                serves, job, sharing, limited, lastSession, answered, leftover>>
vars == <<clientVars, serverVars, wire>>

Connected == unaware = {}

Init ==
  /\ A!PullInit /\ B!ServeInit /\ sharing
  /\ requests = <<>> /\ answers = <<>> /\ offers = <<>> /\ outcomes = {}
  /\ unaware = {} /\ breaks = 0

-----------------------------------------------------------------------------
(* The client does nothing: a step of the other end, or an event it ignores. *)
ClientIdle ==
  /\ sent' = {}
  /\ UNCHANGED <<op, nextId, workers, cancelled, part, note, received, incoming, ended, offered,
                 succeeded, failed, done>>

(* What a step of the client puts on the wire.                              *)
Carried(type) == {m \in sent' : m.type = type}
ClientSends ==
  /\ requests' = IF Connected /\ Carried("request") \union Carried("cancel") # {}
                 THEN Append(requests, CHOOSE m \in sent' : m.type \in {"request", "cancel"})
                 ELSE requests
  /\ outcomes' = IF Connected
                 THEN outcomes \union {m.id : m \in Carried("rejectFile") \union Carried("cancelFile")}
                 ELSE outcomes
  /\ UNCHANGED unaware

(* What a step of the server puts on the wire: the answer, the offer of the *)
(* serve's file, and the withdrawal of a transfer it has cancelled.         *)
Told == answered'[Client] # answered[Client] /\ answered'[Client].kind # "none"
Owns(v) == v[Client].sending
Withdrawn == Owns(serves) /\ serves'[Client].session # serves[Client].session
Offered == Owns(serves') /\ (~Owns(serves) \/ Withdrawn)

Offer(t, g) == [type |-> "offer", id |-> t, dump |-> g]
Withdrawal(t) == [type |-> "withdrawal", id |-> t, dump |-> B!NoGen]

ServerSends ==
  /\ answers' = IF Connected /\ Told THEN Append(answers, answered'[Client]) ELSE answers
  /\ offers' = IF ~Connected THEN offers
               ELSE offers
                 \o (IF Withdrawn THEN <<Withdrawal(serves[Client].session)>> ELSE <<>>)
                 \o (IF Offered THEN <<Offer(serves'[Client].session, serves'[Client].file)>> ELSE <<>>)
  /\ UNCHANGED <<requests, outcomes, unaware, breaks>>

-----------------------------------------------------------------------------
(* The client: its user, and the events of its own.  librats takes every    *)
(* message while it runs; what it cannot deliver is lost.                   *)
ClientUser ==
  /\ \/ nextId < MaxSession /\ A!RequestFromPeer(Server, TRUE)
     \/ A!CancelOperation
  /\ ClientSends
  /\ UNCHANGED <<serverVars, answers, offers, breaks>>

ClientWorks ==
  /\ \/ A!WorkerStep
     \/ \E e \in ended : A!EarlierCompletionsRan /\ A!OnTransferFinished(e)
  /\ ClientSends
  /\ UNCHANGED <<serverVars, answers, offers, breaks>>

ClientDeadline ==
  /\ A!TimePasses \/ A!DeadlinePasses
  /\ ClientSends
  /\ UNCHANGED <<serverVars, answers, offers, breaks>>

ClientReceives(r) ==
  /\ A!BytesArrive(r)
  /\ UNCHANGED <<serverVars, wire>>

ClientHears ==
  /\ answers # <<>>
  /\ LET m == Head(answers) IN
       \/ m.kind = "beat" /\ A!HandlePeerProgress(Server, m.session)
       \/ m.kind = "beat" /\ ~A!AwaitsBeat(Server, m.session) /\ ClientIdle
       \/ m.kind # "beat" /\ A!HandlePeerResponse(Server, m.session, m.kind, m.file)
       \/ m.kind # "beat" /\ ~A!AwaitsAnswer(Server, m.session) /\ ClientIdle
  /\ answers' = Tail(answers)
  /\ ClientSends
  /\ UNCHANGED <<serverVars, offers, breaks>>

(* An offer reaches onFileOffered(); a withdrawal ends the transfer if it   *)
(* was accepted.                                                            *)
ClientIsOffered ==
  /\ offers # <<>>
  /\ LET m == Head(offers) IN
       \/ /\ m.type = "offer" /\ A!EarlierCompletionsRan
          /\ A!OnFileOffered(Server, m.id, m.dump, TRUE, TRUE) /\ UNCHANGED offered
       \/ /\ m.type = "withdrawal"
          /\ \E r \in incoming : r.id = m.id /\ A!TransferEnds(r, FALSE, FALSE)
       \/ /\ m.type = "withdrawal" /\ \A r \in incoming : r.id # m.id
          /\ ClientIdle
  /\ offers' = Tail(offers)
  /\ ClientSends
  /\ UNCHANGED <<serverVars, answers, breaks>>

(* librats: a transfer ends, for both ends.  It succeeds only while the     *)
(* server is still sending it.                                              *)
Sending(r) == serves[Client].sending /\ serves[Client].session = r.id
TransferEnds(r, success) ==
  /\ success => Connected /\ Sending(r)
  /\ A!TransferEnds(r, success, FALSE)
  /\ outcomes' = IF Connected THEN outcomes \union {r.id} ELSE outcomes
  /\ UNCHANGED <<serverVars, requests, answers, offers, unaware, breaks>>

-----------------------------------------------------------------------------
(* The server.                                                              *)
ServerHears ==
  /\ requests # <<>>
  /\ LET m == Head(requests) IN
       \/ /\ m.type = "request"
          /\ B!HandlePeerRequest(Client, m.id, m.dump, TRUE, generation < MaxGen, TRUE)
       \/ m.type = "cancel" /\ B!HandlePeerCancel(Client, m.id)
       \/ m.type = "cancel" /\ serves[Client].session # m.id /\ UNCHANGED serverVars
  /\ requests' = Tail(requests)
  /\ answers' = IF Told THEN Append(answers, answered'[Client]) ELSE answers
  /\ offers' = offers
       \o (IF Withdrawn THEN <<Withdrawal(serves[Client].session)>> ELSE <<>>)
       \o (IF Offered THEN <<Offer(serves'[Client].session, serves'[Client].file)>> ELSE <<>>)
  /\ ClientIdle
  /\ UNCHANGED <<outcomes, unaware, breaks>>

(* The server is not started again here, so nothing reads snapshot.json: of  *)
(* the ways writing it may end (see DatabaseServe) only one is followed.    *)
ServerWorks ==
  /\ B!SnapshotStep /\ metaState' = "current"
  /\ ServerSends
  /\ ClientIdle

ServerActs ==
  /\ \/ generation < MaxGen /\ B!RebuildSnapshot
     \/ \E enabled \in BOOLEAN : B!SetSharingEnabled(enabled)
     \/ B!RequestIntervalPasses(Client)
     \/ B!IndexDrifts
  /\ ServerSends
  /\ ClientIdle

(* onWatchdog(): the heartbeat.  Beats more than one deep in the stream say *)
(* nothing new and are left out.                                            *)
Heartbeat ==
  /\ job # "none" /\ serves[Client].waiting /\ Connected
  /\ \A i \in 1..Len(answers) : answers[i].kind # "beat"
  /\ answers' = Append(answers, [session |-> serves[Client].session, kind |-> "beat", file |-> B!NoGen])
  /\ ClientIdle
  /\ UNCHANGED <<serverVars, requests, offers, outcomes, unaware, breaks>>

(* The outcome of transfer t reaches the server; a t it no longer sends is  *)
(* ignored.                                                                 *)
ServerIsTold(t) ==
  /\ t \in outcomes
  /\ \/ serves[Client].session = t /\ B!OnTransferFinished(Client)
     \/ ~(serves[Client].session = t /\ Owns(serves)) /\ UNCHANGED serverVars
  /\ outcomes' = outcomes \ {t}
  /\ ClientIdle
  /\ UNCHANGED <<requests, answers, offers, unaware, breaks>>

-----------------------------------------------------------------------------
(* The connection breaks; each end hears of it in its own time.             *)
Break ==
  /\ Connected /\ breaks < MaxBreaks
  /\ breaks' = breaks + 1
  /\ requests' = <<>> /\ answers' = <<>> /\ offers' = <<>>
  /\ outcomes' = IF Owns(serves) THEN {serves[Client].session} ELSE {}
  /\ unaware' = {Client, Server}
  /\ ClientIdle
  /\ UNCHANGED <<serverVars>>

ClientLosesPeer ==
  /\ Client \in unaware
  /\ \/ A!OnPeerDisconnected(Server)
     \/ ~A!Pulling(Server) /\ ClientIdle
  /\ unaware' = unaware \ {Client}
  /\ UNCHANGED <<serverVars, requests, answers, offers, outcomes, breaks>>

ServerLosesPeer ==
  /\ Server \in unaware
  /\ \/ B!OnPeerDisconnected(Client)
     \/ serves[Client].session = B!NoSession /\ UNCHANGED serverVars
  /\ unaware' = unaware \ {Server}
  /\ ClientIdle
  /\ UNCHANGED <<requests, answers, offers, outcomes, breaks>>

TransferStep == \E r \in incoming, success \in BOOLEAN : TransferEnds(r, success)
OutcomeStep == \E t \in outcomes : ServerIsTold(t)

Next ==
  \/ ClientUser \/ ClientWorks \/ ClientDeadline \/ ClientHears \/ ClientIsOffered
  \/ \E r \in incoming : ClientReceives(r)
  \/ ServerActs \/ ServerWorks \/ ServerHears \/ Heartbeat
  \/ TransferStep \/ OutcomeStep
  \/ Break \/ ClientLosesPeer \/ ServerLosesPeer

Spec == Init /\ [][Next]_vars

(* Each event loop gets to every event, each worker is a finite loop, every *)
(* message and outcome arrives or the connection breaks, and librats ends   *)
(* every transfer.  Nothing is assumed of the users or of the heartbeats.   *)
FairSpec ==
  /\ Spec
  /\ WF_vars(ClientWorks) /\ WF_vars(ClientDeadline)
  /\ WF_vars(ClientHears) /\ WF_vars(ClientIsOffered) /\ WF_vars(ClientLosesPeer)
  /\ WF_vars(ServerWorks) /\ WF_vars(ServerHears) /\ WF_vars(ServerLosesPeer)
  /\ WF_vars(TransferStep) /\ WF_vars(OutcomeStep)

-----------------------------------------------------------------------------
(* Every transfer the client receives is one the server sends, the same     *)
(* generation of it, or the client is about to hear that it is off.         *)
EveryTransferIsServed ==
  \A r \in incoming :
    \/ Sending(r) /\ serves[Client].file = r.dump /\ r.dump \in disk
    \/ \E i \in 1..Len(offers) : offers[i] = Withdrawal(r.id)
    \/ Client \in unaware

(* No slot leaks: a serve that is sending has an offer under way, a         *)
(* transfer running, or an outcome it will hear of.                         *)
EverySlotIsClaimed ==
  LET v == serves[Client] IN
  v.sending =>
    \/ \E i \in 1..Len(offers) : offers[i] = Offer(v.session, v.file)
    \/ \E r \in incoming : r.id = v.session
    \/ v.session \in outcomes
    \/ Server \in unaware

(* The ends agree on what is being transferred: the client receives only    *)
(* what the server sends, the server holds a slot only for a client that    *)
(* receives, or either will hear that it is over.                           *)
BothEndsAgree == EveryTransferIsServed /\ EverySlotIsClaimed

(* The two nodes together do what a database exchange promises: the client  *)
(* merges only a dump it asked for and the server published whole, once.    *)
Exchange == INSTANCE DatabaseExchange WITH
  Dumps <- B!Gens,
  published <- named \ halfWritten,
  phase <- CASE op.kind = "pull" -> "asking" [] op.kind = "import" -> "merging" [] OTHER -> "idle",
  held <- IF op.kind = "import" THEN received[Server] ELSE 0
ImplementsExchange == Exchange!Spec

(* Every pull comes to an end, whatever the server does with it, and every  *)
(* slot is given back, whatever became of the client: again and again the   *)
(* client's lane is idle, and again and again the server's slot is free.    *)
EveryExchangeEnds ==
  /\ []<>(op = A!NoOp)
  /\ []<>(serves[Client].session = B!NoSession)

=============================================================================
