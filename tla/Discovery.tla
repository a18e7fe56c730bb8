------------------------------ MODULE Discovery ------------------------------
(* How torrents enter the index and are kept up: the index and its writers, the
   votes, the crawler and the tracker scrapers. The parts share the index only
   through its operations, so each is followed on its own: part says which one
   moves, and the others stay as they were built. *)
EXTENDS Voting, Crawler, Trackers
VARIABLE part

vars == <<part, indexVars, votingVars, crawlVars, trackerVars>>

DiscoveryTypeOK == VotingTypeOK /\ CrawlTypeOK

Init ==
    /\ VotingInit /\ CrawlInit /\ TrackersInit
    /\ part \in {"index", "votes", "crawl", "swarm", "site"}

Indexing ==
    /\ part = "index" /\ IndexNext
    /\ UNCHANGED <<part, votingVars, crawlVars, trackerVars>>

\* Votes beside an import on its thread; the main thread's own inserts do not run
\* between a vote's two steps.
VotesAndImports ==
    /\ part = "votes"
    /\ VotingNext \/ (ImportMoves /\ UNCHANGED votingVars)
    /\ UNCHANGED <<part, crawlVars, trackerVars>>

Crawling ==
    /\ part = "crawl" /\ CrawlNext
    /\ UNCHANGED <<part, votingVars, trackerVars>>

\* onTorrentIndexed() asks both scrapers in the background, the front-ends ask
\* interactively.
Request(h, p) ==
    \/ part = "swarm" /\ CheckCounts(h, p)
    \/ part = "site" /\ CheckInfo(h, p)

Scraping ==
    /\ part \in {"swarm", "site"}
    /\ TrackersNext \/ \E h \in Hashes, p \in Priorities : Request(h, p)
    /\ UNCHANGED <<part, indexVars, votingVars, crawlVars>>

Next == Indexing \/ VotesAndImports \/ Crawling \/ Scraping

InCrawl(A) == A /\ UNCHANGED <<part, votingVars, trackerVars>>
InTrackers(A) == A /\ UNCHANGED <<part, indexVars, votingVars, crawlVars>>

\* The main thread gets to what is posted to it, in turn; librats answers every
\* fetch and every announce, and every request to a site ends by its timeout.
Spec ==
    /\ Init /\ [][Next]_vars
    /\ WF_vars(InCrawl(FetchNext)) /\ WF_vars(InCrawl(Inserted))
    /\ \A h \in Hashes : WF_vars(InCrawl(\E f \in Found(h) : FetchAnswers(h, f)))
    /\ \A t \in Offered : SF_vars(InCrawl(Discovered(t)))
    /\ \A h \in Hashes : WF_vars(InTrackers(SwarmWorks(h))) /\ WF_vars(InTrackers(SiteWorks(h)))

----------------------------------------------------------------------------
\* A fetch or a scrape that runs holds a slot and a slot is held by one that runs,
\* so that the limits are limits and no slot is lost.
SlotsAreKept == FetchSlotsAreSound /\ SlotsAreWork

\* Everything that was queued comes to its turn: a discovered hash is fetched or
\* given up, and a user's click is answered.
EveryWishIsSettled == QueuedHashesAreSettled /\ EveryClickIsAnswered
=============================================================================
