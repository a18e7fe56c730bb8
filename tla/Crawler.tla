------------------------------- MODULE Crawler -------------------------------
(* Crawler: hashes the DHT spider hears of become metadata fetches, at most
   MaxFetches at a time, and what they bring is inserted into the index. The
   spider and the fetches answer on librats threads and are posted to the main
   thread; stopping the crawler recalls neither. *)
EXTENDS TorrentIndex, Sequences
CONSTANTS
    Heard,                 \* bound: the hashes the spider hears of
    MaxFetches,            \* MAX_CONCURRENT_METADATA_FETCHES
    MaxRecent,             \* MAX_RECENT_HASHES
    MaxBacklog,            \* bound: announces and queued hashes at a time
    MaxStops               \* bound: how often the crawler is switched off
VARIABLES
    crawling,              \* running_
    stops,                 \* times the crawler was stopped
    announces,             \* announces posted to the main thread
    recent,                \* recentHashes_
    queue,                 \* metadataQueue_
    activeFetches,         \* activeFetches_
    fetching,              \* hash -> fetches librats has yet to answer
    arrived,               \* metadata posted to the main thread
    lost                   \* history: hashes whose fetch or insert came to nothing

crawlVars == <<crawling, stops, announces, recent, queue, activeFetches, fetching, arrived, lost>>

Elements(s) == {s[i] : i \in DOMAIN s}

\* The fetches under way, and how many there are.
UnderWay == UNION {{h} \X (1..fetching[h]) : h \in Hashes}
InFlight == Cardinality(UnderWay)

ASSUME CrawlLimits ==
    Heard \subseteq Hashes /\ MaxFetches \in Nat /\ MaxRecent \in Nat \ {0} /\ MaxStops \in Nat

CrawlTypeOK ==
    /\ IndexTypeOK
    /\ crawling \in BOOLEAN /\ stops \in 0..MaxStops
    /\ announces \subseteq Hashes /\ recent \subseteq Hashes /\ Cardinality(recent) <= MaxRecent
    /\ queue \in Seq(Hashes) /\ activeFetches \in Int
    /\ fetching \in [Hashes -> Nat]
    /\ arrived \subseteq Offered /\ lost \subseteq Hashes

CrawlInit ==
    /\ IndexInit
    /\ crawling = FALSE /\ stops = 0
    /\ announces = {} /\ recent = {} /\ queue = <<>>
    /\ activeFetches = 0 /\ fetching = [h \in Hashes |-> 0]
    /\ arrived = {} /\ lost = {}

----------------------------------------------------------------------------
StartCrawler ==
    /\ ~crawling
    /\ crawling' = TRUE
    /\ UNCHANGED <<indexVars, stops, announces, recent, queue, activeFetches, fetching, arrived, lost>>

\* The count starts over although librats still owes the answers.
StopCrawler ==
    /\ crawling /\ stops < MaxStops
    /\ crawling' = FALSE /\ stops' = stops + 1
    /\ activeFetches' = 0
    /\ UNCHANGED <<indexVars, announces, recent, queue, fetching, arrived, lost>>

\* The spider's callback posts what it heard; that it ignores requests by turns
\* (onIgnoreToggle) only makes it hear less.
SpiderHears(h) ==
    /\ crawling /\ Len(queue) + Cardinality(announces) < MaxBacklog
    /\ announces' = announces \cup {h}
    /\ UNCHANGED <<indexVars, crawling, stops, recent, queue, activeFetches, fetching, arrived, lost>>

\* Mutant: the set only grows.
TrimmedNever(S) == S

\* The set is ordered by hash, not by age: the lower half goes.
Trimmed(S) ==
    IF Cardinality(S) <= MaxRecent THEN S
    ELSE {h \in S : Cardinality({g \in S : g < h}) >= Cardinality(S) \div 2}

\* onAnnounce() runs for posted announces even after a stop.
OnAnnounce(h) ==
    /\ h \in announces /\ reading = Idle
    /\ announces' = announces \ {h}
    /\ recent' = Trimmed(recent \cup {h})
    /\ queue' = IF h \in recent \/ Ours(h) THEN queue ELSE Append(queue, h)
    /\ lost' = IF h \in recent \/ Ours(h) THEN lost ELSE lost \ {h}
    /\ UNCHANGED <<indexVars, crawling, stops, activeFetches, fetching, arrived>>

\* One turn of processMetadataQueue().
FetchNext ==
    /\ crawling /\ queue # <<>> /\ activeFetches < MaxFetches
    /\ queue' = Tail(queue)
    /\ activeFetches' = activeFetches + 1
    /\ fetching' = [fetching EXCEPT ![Head(queue)] = @ + 1]
    /\ UNCHANGED <<indexVars, crawling, stops, announces, recent, arrived, lost>>

\* Mutant: a fetch that failed keeps its slot.
ReleasedOnSuccess(n, found) == IF found # {} THEN n - 1 ELSE n

\* Either way the answer gives the slot back.
Released(n, found) == n - 1

\* librats answers each fetch once, with the metadata or a timeout.
FetchAnswers(h, found) ==
    /\ fetching[h] > 0
    /\ fetching' = [fetching EXCEPT ![h] = @ - 1]
    /\ activeFetches' = Released(activeFetches, found)
    /\ arrived' = arrived \cup found
    /\ lost' = IF found = {} THEN lost \cup {h} ELSE lost
    /\ UNCHANGED <<indexVars, crawling, stops, announces, recent, queue>>

\* onMetadataReceived() -> discovered -> insert(), over its steps.
Discovered(t) ==
    /\ t \in arrived
    /\ InsertReads(t)
    /\ arrived' = arrived \ {t}
    /\ UNCHANGED <<crawling, stops, announces, recent, queue, activeFetches, fetching, lost>>

Inserted ==
    /\ InsertAdds \/ InsertFails \/ MainWorks
    /\ lost' = IF reading.op = "insert" /\ torrents' = torrents THEN lost \cup {reading.hash} ELSE lost
    /\ UNCHANGED <<crawling, stops, announces, recent, queue, activeFetches, fetching, arrived>>

Found(h) == {{}} \cup {{t} : t \in {u \in Offered : u.hash = h}}

CrawlNext ==
    \/ StartCrawler \/ StopCrawler \/ FetchNext \/ Inserted
    \/ \E h \in Heard : SpiderHears(h) \/ OnAnnounce(h) \/ \E f \in Found(h) : FetchAnswers(h, f)
    \/ \E t \in Offered : Discovered(t)

----------------------------------------------------------------------------
\* The fetch count never exceeds the fetches under way, so no fetch that ended
\* keeps a slot, however stops and late answers interleave; and what is under way
\* is bounded by the limit times the starts of the crawler.
FetchSlotsAreSound ==
    /\ activeFetches <= InFlight
    /\ stops = 0 => activeFetches = InFlight
    /\ InFlight <= MaxFetches * (stops + 1)

\* A hash waiting for its metadata is fetched, and ends indexed or given up on,
\* unless the crawler is switched off.
QueuedHashesAreSettled ==
    \A h \in Heard : (h \in Elements(queue)) ~> (Ours(h) \/ h \in lost \/ ~crawling)
=============================================================================
