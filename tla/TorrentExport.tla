--------------------------- MODULE TorrentExport ---------------------------
(* TorrentExporter: one .torrent file per request, from the cache, from the
   client's own metadata, or fetched from the swarm. The fetch answers on a
   librats thread; what it brings is posted to the main thread, where the file
   is written and the front-ends are told. *)
EXTENDS Downloads
VARIABLES
    inFlight,              \* inFlight_: hashes being fetched
    fetches,               \* hashes librats is fetching the metadata of
    posted,                \* hash -> found: results queued for the main thread
    cache,                 \* hashes with a file under torrents/
    asked                  \* history: hashes whose last request is unanswered

exportVars == <<inFlight, fetches, posted, cache, asked>>

ExportTypeOK ==
    /\ DownloadsTypeOK
    /\ inFlight \subseteq Hashes /\ fetches \subseteq Hashes
    /\ cache \subseteq Hashes /\ asked \subseteq Hashes
    /\ DOMAIN posted \subseteq Hashes /\ \A h \in DOMAIN posted : posted[h] \in BOOLEAN

ExportInit ==
    /\ Init
    /\ inFlight = {} /\ fetches = {} /\ posted = Empty /\ cache = {} /\ asked = {}

\* Mutant: a request does not look at the mark and starts a fetch of its own.
RequestAgain(h) ==
    /\ up
    /\ IF h \in cache \/ ~btUp
       THEN asked' = asked \ {h} /\ UNCHANGED <<inFlight, fetches, posted>>
       ELSE /\ asked' = asked \cup {h}
            /\ inFlight' = inFlight \cup {h}
            /\ fetches' = fetches \cup {h}
            /\ UNCHANGED posted
    /\ UNCHANGED <<vars, cache>>

\* requestExport(): a cached file is offered and a missing engine is reported at
\* once; a second request joins the fetch under way. With the metadata at hand
\* the result is posted before fetchTorrentFile() returns.
RequestExport(h) ==
    /\ up
    /\ IF h \in cache \/ ~btUp
       THEN asked' = asked \ {h} /\ UNCHANGED <<inFlight, fetches, posted>>
       ELSE /\ asked' = asked \cup {h}
            /\ inFlight' = inFlight \cup {h}
            /\ LET known == client[h].held /\ client[h].meta
               IN  /\ fetches' = IF known \/ h \in inFlight THEN fetches ELSE fetches \cup {h}
                   /\ posted' = IF known /\ h \notin inFlight THEN Put(posted, h, TRUE) ELSE posted
    /\ UNCHANGED <<vars, cache>>

\* The swarm gave the metadata, or the minute ran out.
FetchAnswers(h, found) ==
    /\ h \in fetches
    /\ fetches' = fetches \ {h}
    /\ posted' = Put(posted, h, found)
    /\ UNCHANGED <<vars, inFlight, cache, asked>>

\* Mutant: a failed fetch leaves its mark.
DeliverFound(h, written) ==
    /\ h \in DOMAIN posted
    /\ posted' = Without(posted, {h})
    /\ inFlight' = IF posted[h] THEN inFlight \ {h} ELSE inFlight
    /\ cache' = IF posted[h] /\ written THEN cache \cup {h} ELSE cache
    /\ asked' = asked \ {h}
    /\ UNCHANGED <<vars, fetches>>

\* The posted half of the callback; the cache file may not be writable.
Deliver(h, written) ==
    /\ h \in DOMAIN posted
    /\ posted' = Without(posted, {h})
    /\ inFlight' = inFlight \ {h}
    /\ cache' = IF posted[h] /\ written THEN cache \cup {h} ELSE cache
    /\ asked' = asked \ {h}
    /\ UNCHANGED <<vars, fetches>>

\* The exporter goes with the application, and so does what was posted to it.
ExporterGone ==
    /\ inFlight' = {} /\ fetches' = {} /\ posted' = Empty /\ asked' = {}
    /\ UNCHANGED cache

Answers(h) == \E b \in BOOLEAN : FetchAnswers(h, b) \/ Deliver(h, b)

ExportNext ==
    \/ Working /\ UNCHANGED exportVars
    \/ RunEnds /\ ExporterGone
    \/ \E h \in Hashes : RequestExport(h) \/ Answers(h)

\* librats answers every fetch within its time limit, and the main thread gets
\* to its events.
ExportSpec ==
    /\ ExportInit /\ [][ExportNext]_<<vars, exportVars>>
    /\ WF_<<vars, exportVars>>(OnUpdateTimer /\ UNCHANGED exportVars)
    /\ \A h \in Hashes : WF_<<vars, exportVars>>(Answers(h))
----------------------------------------------------------------------------
\* A hash is marked in flight exactly while one fetch, or the posted result of
\* one, will still take the mark off, so it can always be asked for again; and
\* who waits for an answer waits for a marked hash.
MarksAreTruthful ==
    /\ inFlight = fetches \cup DOMAIN posted
    /\ fetches \cap DOMAIN posted = {}
    /\ asked \subseteq inFlight

\* Every request is answered, whether it was the first or joined another.
EveryExportIsAnswered == \A h \in Hashes : (h \in asked) ~> (h \notin asked)
=============================================================================
