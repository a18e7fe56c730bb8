------------------------------ MODULE Trackers ------------------------------
(* TrackerService over its two scrapers. SwarmScraper asks every tracker of a
   hash on a thread pool and the last answer reports back; TrackerSiteScraper
   asks the sites on the main thread's event loop, one of them over two pages.
   Each keeps its own ScrapeQueue. What an answer says is left out: it decides how
   long the hash stays quiet and which columns of its row are written. *)
EXTENDS TorrentIndex, ScrapeQueue
CONSTANT Announces         \* trackers asked for a hash
VARIABLES
    enabled,               \* countEnabled_, infoEnabled_: set from one option
    stopping,              \* stopping_ of both scrapers
    swarm, site,           \* the two queues
    tasks,                 \* hash -> announces not yet back, of those being scraped
    reports,               \* hashes whose last announce posted its result
    replies,               \* hash -> replies the sites still owe
    pendingCount,          \* pendingScrapes_: hash -> strategies to wait for
    clicks                 \* history: accepted requests of somebody waiting

trackerVars == <<enabled, stopping, swarm, site, tasks, reports, replies, pendingCount, clicks>>
Strategies == {"rutracker", "nyaa"}

Drop(f, h) == [x \in DOMAIN f \ {h} |-> f[x]]
With(f, S, v) == [x \in DOMAIN f \cup S |-> IF x \in S THEN v ELSE f[x]]

TrackersInit ==
    /\ enabled = TRUE /\ stopping = FALSE
    /\ swarm = EmptyQueue /\ site = EmptyQueue
    /\ tasks = [h \in {} |-> 0] /\ reports = {}
    /\ replies = [h \in {} |-> {}] /\ pendingCount = [h \in {} |-> 0]
    /\ clicks = {}

----------------------------------------------------------------------------
\* Every hash that was given a slot is launched.
LaunchedSwarm(q) == tasks' = With(tasks, q.running \ swarm.running, Announces)
LaunchedSite(q) ==
    /\ replies' = With(replies, q.running \ site.running, Strategies)
    /\ pendingCount' = With(pendingCount, q.running \ site.running, Cardinality(Strategies))
Click(s, q, h, p) ==
    clicks' = IF p = "interactive" /\ Outcome(q, h, p) # "cooling" THEN clicks \cup {<<s, h>>} ELSE clicks

\* checkCounts() -> requestScrape()
CheckCounts(h, p) ==
    /\ enabled /\ ~stopping
    /\ swarm' = Submitted(swarm, h, p)
    /\ LaunchedSwarm(swarm')
    /\ Click("swarm", swarm, h, p)
    /\ UNCHANGED <<enabled, stopping, site, reports, replies, pendingCount>>

\* checkInfo() -> scrape()
CheckInfo(h, p) ==
    /\ enabled /\ ~stopping
    /\ site' = Submitted(site, h, p)
    /\ LaunchedSite(site')
    /\ Click("site", site, h, p)
    /\ UNCHANGED <<enabled, stopping, swarm, tasks, reports>>

SetScrapingEnabled ==
    /\ ~stopping
    /\ enabled' = ~enabled
    /\ UNCHANGED <<stopping, swarm, site, tasks, reports, replies, pendingCount, clicks>>

----------------------------------------------------------------------------
(* SwarmScraper: one announce ends; the last one of a hash posts the result. *)
AnnounceEnds(h) ==
    /\ h \in DOMAIN tasks
    /\ IF tasks[h] = 1
       THEN tasks' = Drop(tasks, h) /\ reports' = reports \cup {h}
       ELSE tasks' = [tasks EXCEPT ![h] = @ - 1] /\ UNCHANGED reports
    /\ UNCHANGED <<enabled, stopping, swarm, site, replies, pendingCount, clicks>>

OnScrapeFinished(h) ==
    /\ h \in reports
    /\ swarm' = Finished(swarm, h)
    /\ IF stopping THEN UNCHANGED tasks ELSE LaunchedSwarm(swarm')
    /\ reports' = reports \ {h}
    /\ clicks' = clicks \ {<<"swarm", h>>}
    /\ UNCHANGED <<enabled, stopping, site, replies, pendingCount>>

(* TrackerSiteScraper: a strategy is complete when a site knew the hash, when it
   did not, and when its request failed or was aborted. *)
StrategyEnds(h, reply) ==
    /\ pendingCount[h] > 1
    /\ pendingCount' = [pendingCount EXCEPT ![h] = @ - 1]
    /\ replies' = [replies EXCEPT ![h] = @ \ {reply}]
    /\ UNCHANGED <<site, clicks>>

LastStrategyEnds(h) ==
    /\ pendingCount[h] = 1
    /\ site' = Finished(site, h)
    /\ LET next == IF stopping THEN {} ELSE site'.running \ site.running
       IN  /\ pendingCount' = With(Drop(pendingCount, h), next, Cardinality(Strategies))
           /\ replies' = With(Drop(replies, h), next, Strategies)
    /\ clicks' = clicks \ {<<"site", h>>}

OnReply(h, reply) ==
    /\ h \in DOMAIN replies /\ reply \in replies[h]
    /\ StrategyEnds(h, reply) \/ LastStrategyEnds(h)
    /\ UNCHANGED <<enabled, stopping, swarm, tasks, reports>>

\* Nyaa's search found an entry: its page is fetched, and continues the strategy.
ScrapeNyaaViewPage(h) ==
    /\ h \in DOMAIN replies /\ "nyaa" \in replies[h] /\ ~stopping
    /\ replies' = [replies EXCEPT ![h] = (@ \ {"nyaa"}) \cup {"nyaa view"}]
    /\ UNCHANGED <<enabled, stopping, swarm, site, tasks, reports, pendingCount, clicks>>

----------------------------------------------------------------------------
\* TrackerService::stop(): nothing is accepted any more; tasks the pool has not
\* started are dropped and the others waited for, replies are aborted.
StopTrackers ==
    /\ ~stopping
    /\ stopping' = TRUE /\ enabled' = FALSE
    /\ swarm' = Cleared(swarm) /\ site' = Cleared(site)
    /\ tasks' = [h \in {} |-> 0]
    /\ \E whole \in SUBSET DOMAIN tasks : reports' = reports \cup whole
    /\ clicks' = {}
    /\ UNCHANGED <<replies, pendingCount>>

QuietEnds(h) ==
    /\ h \in swarm.quiet \cup site.quiet
    /\ swarm' = [swarm EXCEPT !.quiet = @ \ {h}] /\ site' = [site EXCEPT !.quiet = @ \ {h}]
    /\ UNCHANGED <<enabled, stopping, tasks, reports, replies, pendingCount, clicks>>

SwarmWorks(h) == AnnounceEnds(h) \/ OnScrapeFinished(h)
SiteWorks(h) ==
    \/ ScrapeNyaaViewPage(h)
    \/ \E r \in Strategies \cup {"nyaa view"} : OnReply(h, r)

TrackersNext ==
    \/ \E h \in Hashes : SwarmWorks(h) \/ SiteWorks(h) \/ QuietEnds(h)
    \/ SetScrapingEnabled \/ StopTrackers

----------------------------------------------------------------------------
\* Both queues are sound, and while the service runs a slot is held exactly by
\* the hashes that are being scraped: none is lost to a scrape nobody runs, and
\* each strategy a scrape waits for has a reply coming.
SlotsAreWork ==
    ~stopping =>
        /\ QueueIsSound(swarm) /\ QueueIsSound(site)
        /\ swarm.running = DOMAIN tasks \cup reports
        /\ site.running = DOMAIN pendingCount
        /\ \A h \in DOMAIN pendingCount : pendingCount[h] = Cardinality(replies[h])

\* Whoever asked for a scrape and was not turned away gets one that ends.
EveryClickIsAnswered ==
    \A s \in {"swarm", "site"}, h \in Hashes : (<<s, h>> \in clicks) ~> (<<s, h>> \notin clicks)
=============================================================================
