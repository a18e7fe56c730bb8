-------------------------------- MODULE RestApi --------------------------------
(* ApiServer and ApiRouter: the sockets, the requests that came in over them, the
   lookups behind torrent.get and search.torrents, and the counters of /metrics.

   A request keeps the address of its socket. The socket is deleted when its
   client leaves, and the memory may hold the next client's socket by the time the
   answer is ready: a request names an address, never a client. *)
EXTENDS Naturals, Sequences, FiniteSetsExt
CONSTANTS
    Sockets, WebSockets,   \* addresses, those of WebSocket clients among them
    Torrents,
    MaxRequests, MaxClients \* bounds: requests, clients at one address
VARIABLES
    serverUp, wsUp,        \* the HTTP and the WebSocket server listen
    socket,                \* "free", "open", "closing" for each address
    clients,               \* clients seen at each address
    halves,                \* sockets whose buffer holds a part of a request
    requests,              \* what was dispatched, in order
    startTimes,            \* requestStartTimes_
    total, success, error, durations, searches \* counters of the HTTP side

restVars == <<serverUp, wsUp, socket, clients, halves, requests, startTimes, total, success, error, durations, searches>>

Stages == {"peer", "dht", "votes", "done"}
Fates == {"none", "answered", "dropped", "misdelivered"}
Requests == DOMAIN requests
Web(s) == s \in WebSockets
Pending == {i \in Requests : requests[i].stage # "done"}

RestTypeOK ==
    /\ socket \in [Sockets -> {"free", "open", "closing"}]
    /\ \A i \in Requests : /\ requests[i].stage \in Stages /\ requests[i].fate \in Fates
                           /\ requests[i].answers \in 0..1
                           /\ requests[i].stage = "done" <=> requests[i].answers = 1

RestInit ==
    /\ serverUp = FALSE /\ wsUp = FALSE
    /\ socket = [s \in Sockets |-> "free"] /\ clients = [s \in Sockets |-> 0]
    /\ halves = {} /\ requests = <<>> /\ startTimes = {}
    /\ total = 0 /\ success = 0 /\ error = 0 /\ durations = 0 /\ searches = 0

----------------------------------------------------------------------------
(* The servers and their sockets *)
\* start(): the HTTP server keeps listening when the other one cannot.
StartServer ==
    /\ ~serverUp
    /\ serverUp' = TRUE /\ wsUp' \in BOOLEAN
    /\ UNCHANGED <<socket, clients, halves, requests, startTimes, total, success, error, durations, searches>>

NewConnection(s) ==
    /\ serverUp /\ (Web(s) => wsUp)
    /\ socket[s] = "free" /\ clients[s] < MaxClients
    /\ socket' = [socket EXCEPT ![s] = "open"] /\ clients' = [clients EXCEPT ![s] = @ + 1]
    /\ UNCHANGED <<serverUp, wsUp, halves, requests, startTimes, total, success, error, durations, searches>>

\* The client leaves, or our own close is done: the socket is deleted.
Disconnected(s) ==
    /\ socket[s] # "free"
    /\ socket' = [socket EXCEPT ![s] = "free"] /\ halves' = halves \ {s}
    /\ UNCHANGED <<serverUp, wsUp, clients, requests, startTimes, total, success, error, durations, searches>>

\* A header block without its end, or a body that is not complete.
HalfRequest(s) ==
    /\ ~Web(s) /\ socket[s] = "open" /\ halves' = halves \cup {s}
    /\ UNCHANGED <<serverUp, wsUp, socket, clients, requests, startTimes, total, success, error, durations, searches>>

\* Preflights, probes, /metrics, files, translations and paths outside /api/ are
\* answered at once; so is a WebSocket text that is no request. None is counted.
PlainRequest(s) ==
    /\ socket[s] = "open"
    /\ socket' = IF Web(s) THEN socket ELSE [socket EXCEPT ![s] = "closing"]
    /\ halves' = halves \ {s}
    /\ UNCHANGED <<serverUp, wsUp, clients, requests, startTimes, total, success, error, durations, searches>>

----------------------------------------------------------------------------
(* Answers *)
\* Mutant: the start time of a request whose client has gone stays behind.
DeliveredOnly(gone, ids) == IF gone THEN {} ELSE ids

\* requestStartTimes_.remove(), on the way out and when the socket is closed.
Forgotten(gone, ids) == ids

\* The callback of dispatchHttp() or onWsMessage(), for each of the requests given.
\* isOpen() is asked of whatever is at the address now; while it closes either
\* answer is possible.
Respond(set, ok) ==
    /\ \E gone \in SUBSET set :
         /\ {i \in set : socket[requests[i].socket] = "free"} \subseteq gone
         /\ \A i \in gone : socket[requests[i].socket] # "open"
         /\ requests' = [i \in Requests |->
              IF i \notin set THEN requests[i]
              ELSE [requests[i] EXCEPT
                      !.stage = "done", !.answers = @ + 1,
                      !.fate = IF i \in gone THEN "dropped"
                               ELSE IF requests[i].client = clients[requests[i].socket] THEN "answered"
                               ELSE "misdelivered"]]
         /\ LET http == {i \in set : ~Web(requests[i].socket)}
                served == http \ gone
                timed == {i \in served : requests[i].id \in startTimes}
            IN  /\ success' = IF ok THEN success + Cardinality(served) ELSE success
                /\ error' = IF ok THEN error ELSE error + Cardinality(served)
                /\ durations' = durations + Cardinality({requests[i].id : i \in timed})
                /\ searches' = searches + Cardinality({i \in timed : requests[i].search})
                /\ startTimes' = startTimes \ (Forgotten(FALSE, {requests[i].id : i \in served})
                                               \cup Forgotten(TRUE, {requests[i].id : i \in http \cap gone}))
                /\ socket' = [s \in Sockets |->
                     IF \E i \in served : requests[i].socket = s THEN "closing" ELSE socket[s]]
    /\ UNCHANGED <<serverUp, wsUp, clients, halves, total>>

----------------------------------------------------------------------------
(* The methods, each with the ways its answer can come: at once, well or badly,
   or later. A method that starts or changes something answers "well" when the
   service took it on; what becomes of it is an event. *)
Well == {"well"}
Checked == {"well", "badly"}

SearchMethods ==
    {<<"search.torrents", {"well", "dht"}>>, <<"search.files", Checked>>, <<"search.top", Well>>, <<"search.recent", Well>>,
     <<"search.history", Well>>, <<"search.history.remove", Checked>>, <<"search.history.clear", Well>>}
TorrentMethods ==
    {<<"torrent.get", {"well", "badly", "peer", "dht"}>>, <<"torrent.remove", Checked>>, <<"torrent.cleanup", Checked>>,
     <<"torrent.create", Checked>>, <<"torrent.import", Checked>>, <<"torrent.export", Checked>>}
DatabaseMethods ==
    {<<"database.export", Checked>>, <<"database.import", Checked>>, <<"database.pull", Checked>>, <<"database.peers", Well>>,
     <<"database.status", Well>>, <<"database.cancel", Well>>, <<"database.snapshot", Checked>>}
DownloadMethods ==
    {<<"download.add", Checked>>, <<"download.addFile", Checked>>, <<"download.pause", Checked>>, <<"download.resume", Checked>>,
     <<"download.remove", Checked>>, <<"download.list", Well>>, <<"download.selectFiles", Checked>>}
VoteMethods == {<<"vote.cast", {"badly", "votes"}>>, <<"vote.get", {"badly", "votes"}>>}
StateMethods ==
    {<<"feed.get", Well>>, <<"config.get", Well>>, <<"config.set", Well>>, <<"stats.get", Well>>, <<"stats.database", Well>>,
     <<"stats.p2pStatus", Well>>, <<"peers.list", Well>>, <<"tracker.check", Checked>>}
Unknown == {<<"unknown", {"badly"}>>}
Methods == SearchMethods \cup TorrentMethods \cup DatabaseMethods \cup DownloadMethods \cup VoteMethods \cup StateMethods \cup Unknown

\* What a request is to the server: counted as a search or not, and answered how.
\* update.check waits for the updater, see Updates.
Shapes == UNION {{[search |-> m \in SearchMethods, way |-> w] : w \in m[2]} : m \in Methods}
AtOnce == {c \in Shapes : c.way \in Checked}

\* dispatchHttp() or onWsMessage(), and call(). A request id is the time in
\* milliseconds: the next request may come in the same one.
NewRequest(s, t, c, stage, id) ==
    [socket |-> s, client |-> clients[s], torrent |-> t, search |-> c.search, stage |-> stage, id |-> id, answers |-> 0, fate |-> "none"]

Ids == {Len(requests) + 1} \cup (IF requests = <<>> THEN {} ELSE {requests[Len(requests)].id})

\* Answered before call() returns: the counters move by one request.
CallNow(s, t) ==
    /\ socket[s] = "open" /\ Len(requests) < MaxRequests
    /\ \E id \in Ids, c \in AtOnce :
         /\ requests' = Append(requests, [NewRequest(s, t, c, "done", id) EXCEPT !.answers = 1, !.fate = "answered"])
         /\ IF Web(s) THEN UNCHANGED <<socket, startTimes, total, success, error, durations, searches>>
            ELSE /\ total' = total + 1 /\ durations' = durations + 1
                 /\ searches' = IF c.search THEN searches + 1 ELSE searches
                 /\ success' = IF c.way = "well" THEN success + 1 ELSE success
                 /\ error' = IF c.way = "well" THEN error ELSE error + 1
                 /\ startTimes' = startTimes \ {id}
                 /\ socket' = [socket EXCEPT ![s] = "closing"]
    /\ halves' = halves \ {s}
    /\ UNCHANGED <<serverUp, wsUp, clients>>

\* torrent.get of a torrent whose files only the named peer has; a lookup in the
\* DHT where no peer is named and the index has no match; a vote.
CallLater(s, t, c) ==
    /\ socket[s] = "open" /\ Len(requests) < MaxRequests
    /\ \E id \in Ids :
         /\ requests' = Append(requests, NewRequest(s, t, c, c.way, id))
         /\ startTimes' = IF Web(s) THEN startTimes ELSE startTimes \cup {id}
    /\ total' = IF Web(s) THEN total ELSE total + 1
    /\ halves' = halves \ {s}
    /\ UNCHANGED <<serverUp, wsUp, socket, clients, success, error, durations, searches>>

Call(s, t) == CallNow(s, t) \/ \E c \in Shapes \ AtOnce : CallLater(s, t, c)

----------------------------------------------------------------------------
(* Lookups *)
AskingPeers(t) == {i \in Pending : requests[i].stage = "peer" /\ requests[i].torrent = t}

\* remoteTorrentReceived: any peer's answer for the torrent ends every lookup of it,
\* asked for or not, with its files or without.
RemoteTorrentReceived(t) ==
    /\ AskingPeers(t) # {}
    /\ Respond(AskingPeers(t), TRUE)

\* Mutant: the timer of a lookup is stopped by the connection's end alone.
NeverInTime(i) == FALSE

\* The timer of 15 seconds.
TimerRuns(i) == requests[i].stage = "peer"

\* Nobody answered: dhtLookup(), which misses at once where BitTorrent is off.
PeerTimeout(i) ==
    /\ i \in Pending /\ TimerRuns(i)
    /\ \/ /\ requests' = [requests EXCEPT ![i].stage = "dht"]
          /\ UNCHANGED <<serverUp, wsUp, socket, clients, halves, startTimes, total, success, error, durations, searches>>
       \/ Respond({i}, FALSE)

\* librats calls back once per fetch, found or not, and the answer is queued to the
\* router's thread. A search that misses is a success with no results.
MetadataFetched(i) ==
    /\ i \in Pending /\ requests[i].stage = "dht"
    /\ \E ok \in BOOLEAN : Respond({i}, ok)

\* VotingService calls back.
VotesAnswered(i) ==
    /\ i \in Pending /\ requests[i].stage = "votes"
    /\ \E ok \in BOOLEAN : Respond({i}, ok)

RestNext ==
    \/ StartServer
    \/ \E s \in Sockets : \/ NewConnection(s) \/ Disconnected(s) \/ HalfRequest(s) \/ PlainRequest(s)
                          \/ \E t \in Torrents : Call(s, t)
    \/ \E t \in Torrents : RemoteTorrentReceived(t)
    \/ \E i \in 1..MaxRequests : PeerTimeout(i) \/ MetadataFetched(i) \/ VotesAnswered(i)

RestFairness == WF_restVars(\E i \in 1..MaxRequests : PeerTimeout(i) \/ MetadataFetched(i) \/ VotesAnswered(i))

----------------------------------------------------------------------------
\* The counters of /metrics account for every request: each was a success, an
\* error, is still being answered, or lost its client; and no start time is kept
\* for a request that is over, so the map of them cannot grow for ever.
MetricsAddUp ==
    LET http == {i \in Requests : ~Web(requests[i].socket)}
    IN  /\ total = success + error + Cardinality({i \in http : requests[i].fate \in {"none", "dropped"}})
        /\ durations <= success + error /\ searches <= durations
        /\ startTimes \subseteq {requests[i].id : i \in http \cap Pending}

\* Every request that waits for a peer, the DHT or the votes is answered in the
\* end: the timer, and librats' own deadline, see to it.
EveryLookupEnds == \A i \in 1..MaxRequests : i \in Pending ~> i \notin Pending
=============================================================================
