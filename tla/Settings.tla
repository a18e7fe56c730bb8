------------------------------- MODULE Settings -------------------------------
(* ConfigStore and what Application::applyConfig() makes of it: the settings in
   memory and in rats.json, the services that follow them, and what a connected
   peer was told of them (PeerRegistry). Everything runs on the main thread.

   Six keys stand for the rest: the two that depend on each other, one with a
   range, one saved at once, and those that a service starts or stops by. *)
EXTENDS Naturals, Sequences
CONSTANTS
    ShareOption,           \* --share-db of this run: {} or {a boolean}
    ForceSpider,           \* --spider
    MaxWire,               \* bound: messages on the way to the peer
    MaxRuns                \* bound: launches

ASSUME SettingsAssumption ==
    ShareOption \subseteq BOOLEAN /\ ForceSpider \in BOOLEAN /\ MaxWire \in Nat \ {0} /\ MaxRuns \in Nat

VARIABLES
    config,                \* config_
    file,                  \* rats.json
    dirty,                 \* dirty_
    applied,               \* what the services were last given
    crawling, replicating, \* crawler_ runs, the replication timer is on
    refused,               \* history: the crawler was asked to run and said no
    running,               \* Application::running, "off" before and after
    network,               \* what the transport has: nothing, no BitTorrent or DHT, or all
    advertised,            \* ourDatabaseSharing_
    linked,                \* the peer is connected
    wire,                  \* client_info on the way to it
    known,                 \* what the peer holds of us
    runs

settingsVars == <<config, file, dirty, applied, crawling, replicating, refused, running, network, advertised, linked, wire, known, runs>>

Keys == {"replication", "server", "sharing", "indexer", "agreed", "connections"}
Value(k) == IF k = "connections" THEN 0..3 ELSE BOOLEAN
Settings == [replication : BOOLEAN, server : BOOLEAN, sharing : BOOLEAN, indexer : BOOLEAN, agreed : BOOLEAN, connections : 0..3]
Defaults == [replication |-> TRUE, server |-> TRUE, sharing |-> TRUE, indexer |-> TRUE, agreed |-> FALSE, connections |-> 1]
NoConfig == [kind |-> "none", values |-> Defaults]
Torn == [kind |-> "torn", values |-> Defaults]
Holds(c) == [kind |-> "whole", values |-> c]
Nothing == [replication |-> FALSE, server |-> FALSE, sharing |-> FALSE]

SettingsTypeOK ==
    /\ config \in Settings /\ file \in [kind : {"none", "torn", "whole"}, values : Settings]
    /\ running \in {"off", "built", "up"} /\ network \in {"down", "bare", "full"}
    /\ \A b \in {dirty, crawling, replicating, refused, advertised, linked} : b \in BOOLEAN
    /\ known \in {"nobody", "shares", "keeps"} /\ Len(wire) <= MaxWire
    \* An out-of-range value never reaches the services.
    /\ running # "off" => config.connections \in 1..2

\* A file of an earlier run, one edited by hand, or none.
SettingsInit ==
    /\ file \in {NoConfig, Torn, Holds([Defaults EXCEPT !.server = FALSE, !.connections = 3]), Holds([Defaults EXCEPT !.replication = FALSE])}
    /\ config = Defaults /\ dirty = FALSE /\ applied = Nothing
    /\ crawling = FALSE /\ replicating = FALSE /\ refused = FALSE
    /\ running = "off" /\ network = "down"
    /\ advertised = FALSE /\ linked = FALSE /\ wire = <<>> /\ known = "nobody" /\ runs = 0

----------------------------------------------------------------------------
(* Values *)
\* Mutant: only the upper end of the range is looked at.
CappedOnly(k, v) == IF k = "connections" /\ v > 2 THEN 2 ELSE v

\* clampToRange()
Clamp(k, v) == IF k # "connections" THEN v ELSE IF v < 1 THEN 1 ELSE IF v > 2 THEN 2 ELSE v

\* validateAndClamp()
Validated(c) ==
    [c EXCEPT !.connections = Clamp("connections", @),
              !.server = @ \/ c.replication]

\* load(): what cannot be read leaves the defaults.
Loaded == IF file.kind = "whole" THEN Validated(file.values) ELSE Defaults

\* The typed setters, each a sequence of (key, value) writes that notify one by one.
Writes(k, v) ==
    CASE k = "replication" /\ v -> <<<<"server", TRUE>>, <<"replication", TRUE>>>>
      [] k = "server" /\ ~v -> <<<<"replication", FALSE>>, <<"server", FALSE>>>>
      [] OTHER -> <<<<k, v>>>>

After(c, ws) ==
    LET one == [c EXCEPT ![ws[1][1]] = Clamp(ws[1][1], ws[1][2])]
    IN  IF Len(ws) = 1 THEN one ELSE [one EXCEPT ![ws[2][1]] = Clamp(ws[2][1], ws[2][2])]

----------------------------------------------------------------------------
(* applyConfig() *)
Shares(c) == IF ShareOption = {} THEN c.sharing ELSE CHOOSE v \in ShareOption : TRUE
Announcement == IF advertised' THEN <<"shares">> ELSE <<"keeps">>

\* Mutant: the running replication is left alone when it is switched off.
ReplicationStartsOnly(c) == replicating' = (replicating \/ (running = "up" /\ c.replication))

\* setEnabled() stops it, start() and stop() follow once the program is up.
FollowReplication(c) == replicating' = IF running = "up" THEN c.replication ELSE replicating /\ c.replication

\* Crawler::start() is asked again by every change of a setting, and may say no each
\* time: without a transport, BitTorrent or DHT, or when librats throws. Nobody looks.
Wanted(c) == c.indexer \/ ForceSpider
CrawlerFollows(c) ==
    \/ ~Wanted(c) /\ crawling' = FALSE /\ refused' = FALSE
    \/ Wanted(c) /\ crawling /\ UNCHANGED <<crawling, refused>>
    \/ Wanted(c) /\ ~crawling /\ network' = "full" /\ crawling' = TRUE /\ refused' = FALSE
    \/ Wanted(c) /\ ~crawling /\ crawling' = FALSE /\ refused' = TRUE

\* setDatabaseSharing() announces a change to the connected peers again.
Told == IF linked /\ advertised' # advertised THEN wire \o Announcement ELSE wire

Apply(c) ==
    /\ applied' = [replication |-> c.replication, server |-> c.server, sharing |-> Shares(c)]
    /\ advertised' = Shares(c)
    /\ wire' = Told
    /\ Len(wire') <= MaxWire
    /\ UNCHANGED network
    /\ IF running = "up" THEN CrawlerFollows(c) ELSE UNCHANGED <<crawling, refused>>
    /\ FollowReplication(c)

\* setValue() and the setters built on it. An equal value is no change.
SetKey(k, v) ==
    /\ running # "off" /\ config # After(config, Writes(k, v))
    /\ config' = After(config, Writes(k, v))
    /\ Apply(config')
    \* The agreement is written at once; the file may not open.
    /\ \/ k = "agreed" /\ file' = Holds(config') /\ dirty' = FALSE
       \/ dirty' = TRUE /\ UNCHANGED file
    /\ UNCHANGED <<running, linked, known, runs>>

\* fromJson(): all keys, then one repair and one notification.
FromJson(k, v, j, u) ==
    /\ running # "off" /\ k # j
    /\ LET c == [config EXCEPT ![k] = Clamp(k, v), ![j] = Clamp(j, u)]
       IN c # config /\ config' = Validated(c)
    /\ Apply(config')
    /\ dirty' = TRUE
    /\ UNCHANGED <<file, running, linked, known, runs>>

SaveConfig ==
    /\ running = "up"
    /\ file' = Holds(config) /\ dirty' = FALSE
    /\ UNCHANGED <<config, applied, crawling, replicating, refused, running, network, advertised, linked, wire, known, runs>>

----------------------------------------------------------------------------
(* The program *)
Construct ==
    /\ running = "off" /\ runs < MaxRuns
    /\ config' = Loaded /\ dirty' = FALSE
    /\ Apply(config')
    /\ running' = "built" /\ runs' = runs + 1
    /\ UNCHANGED <<file, linked, known>>

\* What transport->start() returned is not looked at.
StartServices ==
    /\ running = "built"
    /\ network' \in {"down", "bare", "full"}
    /\ CrawlerFollows(config) /\ replicating' = config.replication
    /\ running' = "up"
    /\ UNCHANGED <<config, file, dirty, applied, advertised, linked, wire, known, runs>>

Gone ==
    /\ crawling' = FALSE /\ replicating' = FALSE /\ refused' = FALSE
    /\ running' = "off" /\ network' = "down"
    /\ linked' = FALSE /\ wire' = <<>> /\ known' = "nobody" /\ advertised' = FALSE
    /\ UNCHANGED <<config, applied, runs>>

\* stop(), and the destructor of the store, which saves what was changed.
StopServices ==
    /\ running # "off"
    /\ file' = IF dirty THEN Holds(config) ELSE file
    /\ dirty' = FALSE
    /\ Gone

\* A kill, in the middle of a save maybe: rats.json is rewritten in place.
SettingsKilled ==
    /\ running # "off"
    /\ file' \in {file, IF dirty THEN Torn ELSE file}
    /\ dirty' = FALSE
    /\ Gone

----------------------------------------------------------------------------
(* The network *)
\* The DHT of librats comes and goes while the program runs.
DhtChanges ==
    /\ running = "up" /\ network # "down"
    /\ network' \in {"bare", "full"} \ {network}
    /\ UNCHANGED <<config, file, dirty, applied, crawling, replicating, refused, running, advertised, linked, wire, known, runs>>

PeerConnects ==
    /\ running = "up" /\ network # "down" /\ ~linked
    /\ linked' = TRUE /\ wire' = IF advertised THEN <<"shares">> ELSE <<"keeps">>
    /\ UNCHANGED <<config, file, dirty, applied, crawling, replicating, refused, running, network, advertised, known, runs>>

PeerDisconnects ==
    /\ linked /\ linked' = FALSE /\ wire' = <<>> /\ known' = "nobody"
    /\ UNCHANGED <<config, file, dirty, applied, crawling, replicating, refused, running, network, advertised, runs>>

ClientInfo ==
    /\ linked /\ wire # <<>>
    /\ known' = Head(wire) /\ wire' = Tail(wire)
    /\ UNCHANGED <<config, file, dirty, applied, crawling, replicating, refused, running, network, advertised, linked, runs>>

SettingsNext ==
    \/ Construct \/ StartServices \/ StopServices \/ SettingsKilled \/ SaveConfig
    \/ DhtChanges \/ PeerConnects \/ PeerDisconnects \/ ClientInfo
    \/ \E k \in Keys : \E v \in Value(k) : SetKey(k, v)
    \/ \E k, j \in {"replication", "server", "sharing"}, v, u \in BOOLEAN : FromJson(k, v, j, u)

----------------------------------------------------------------------------
\* What the services do is what the settings say, however they were changed and
\* however often the program was killed: nothing pulls random torrents that refuses
\* to serve them, and the crawler and the replication run exactly when they should,
\* the crawler unless it was asked to and could not.
ServicesFollow ==
    /\ running # "off" => /\ applied.replication => applied.server
                          /\ applied.replication = config.replication /\ applied.server = config.server
    /\ running = "up" => /\ replicating = config.replication
                         /\ crawling => Wanted(config)
                         /\ Wanted(config) => crawling \/ refused

\* A peer is offered to users as a source of the whole index exactly when it would
\* serve it: what a connected peer holds or has on the way to it is what we do.
PeersKnowOurSharing ==
    linked =>
        LET last == IF wire = <<>> THEN known ELSE wire[Len(wire)]
        IN last = IF applied.sharing THEN "shares" ELSE "keeps"
=============================================================================
