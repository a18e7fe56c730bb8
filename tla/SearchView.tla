------------------------------ MODULE SearchView ------------------------------
(* A search as the window shows it: MainWindow, SearchResultModel, the files panel
   and PeerApi. Our own index answers at once; a peer's hits arrive one message at
   a time, a lookup of an info hash whenever it ends, and the user goes on to the
   next query or row meanwhile.

   A query stands for the set of torrents it matches: an info hash matches one. *)
EXTENDS Naturals, Sequences, FiniteSetsExt, SequencesExt
CONSTANTS
    Listed,                \* torrents
    PeerHas,               \* those in the peer's index
    MaxSearches, MaxAsked  \* bounds: searches; messages on their way, before one more is sent

ASSUME SearchAssumption == IsFiniteSet(Listed) /\ MaxAsked \in Nat

VARIABLES
    query,                 \* currentSearchQuery_, {} at first
    rows,                  \* results_ of the model
    found,                 \* ghost: what our own searches and lookups gave this query
    ours,                  \* torrents in our index
    asked, hits,           \* messages to the peer and from it
    looking,               \* queries torrent.get was called for
    opened, paneFiles,     \* torrent in the details panel, and whose files are listed
    searched

searchVars == <<query, rows, found, ours, asked, hits, looking, opened, paneFiles, searched>>

Row(t, remote, byFile) == [torrent |-> t, remote |-> remote, byFile |-> byFile]
IsHash(q) == Cardinality(q) = 1
NoTorrents == {}

SearchTypeOK ==
    /\ query \subseteq Listed /\ found \subseteq Listed /\ ours \subseteq Listed
    /\ \A i \in DOMAIN rows : rows[i] \in [torrent : Listed, remote : BOOLEAN, byFile : BOOLEAN]
    /\ Len(asked) <= MaxAsked
    /\ opened \subseteq Listed /\ paneFiles \subseteq Listed

SearchInit ==
    /\ query = NoTorrents /\ rows = <<>> /\ found = {} /\ ours \in SUBSET Listed
    /\ asked = <<>> /\ hits = <<>> /\ looking = {}
    /\ opened = {} /\ paneFiles = {} /\ searched = 0

----------------------------------------------------------------------------
(* The model's rows *)
\* Mutant: a torrent a peer offered first stays the peer's.
KeepsItsSource(row, remote) == row

\* Local wins, whichever of the two sources came first.
LocalWins(row, remote) == IF row.remote /\ ~remote THEN [row EXCEPT !.remote = FALSE] ELSE row

\* addResult() and mergeFileResultIntoExisting(): one row for each torrent.
Merged(rs, t, remote, byFile) ==
    IF \E i \in DOMAIN rs : rs[i].torrent = t
    THEN [i \in DOMAIN rs |->
            IF rs[i].torrent # t THEN rs[i]
            ELSE LocalWins([rs[i] EXCEPT !.byFile = @ \/ byFile], remote)]
    ELSE Append(rs, Row(t, remote, byFile))

\* Rows of our own index: torrents first, then those found by a file.
Local(named, inFiles) ==
    LET shown == SetToSeq(named) \o SetToSeq(inFiles \ named)
    IN  [i \in DOMAIN shown |-> Row(shown[i], FALSE, shown[i] \in inFiles)]

----------------------------------------------------------------------------
(* The user *)
\* performSearch()
PerformSearch(q) ==
    /\ searched < MaxSearches /\ searched' = searched + 1
    /\ Len(asked) < MaxAsked
    /\ query' = q
    /\ \E named, inFiles \in SUBSET (q \cap ours) :
         /\ rows' = Local(named, inFiles) /\ found' = named \cup inFiles
         /\ looking' = IF named = {} /\ IsHash(q) THEN looking \cup {q} ELSE looking
    \* Two characters are too few to ask a peer, and there may be none.
    /\ asked' \in {asked, Append(asked, [kind |-> "search", torrents |-> q])}
    /\ UNCHANGED <<ours, hits, opened, paneFiles>>

\* onTorrentSelected(): files come from the index, else from the peer that has them.
SelectRow(i) ==
    /\ i \in DOMAIN rows
    /\ opened' = {rows[i].torrent} /\ paneFiles' = opened' \cap ours
    /\ IF rows[i].remote /\ paneFiles' = {}
       THEN /\ Len(asked) < MaxAsked
            /\ asked' = Append(asked, [kind |-> "torrent", torrents |-> opened'])
       ELSE UNCHANGED asked
    /\ UNCHANGED <<query, rows, found, ours, hits, looking, searched>>

\* onDetailsPanelCloseRequested(), a tab without a selection. The hidden panel
\* keeps its torrent.
ClosePanel ==
    /\ paneFiles' = {}
    /\ UNCHANGED <<query, rows, found, ours, asked, hits, looking, opened, searched>>

----------------------------------------------------------------------------
(* The peer *)
Hit(kind, t) == [kind |-> kind, torrent |-> t]
Each(kind, set) == LET s == SetToSeq(set) IN [i \in DOMAIN s |-> Hit(kind, s[i])]

\* handleSearchRequest(), handleSearchFilesRequest(), handleTorrentRequest() there:
\* a torrent it has not is answered by silence.
PeerAnswers ==
    /\ asked # <<>> /\ asked' = Tail(asked) /\ Len(hits) < MaxAsked
    /\ LET has == Head(asked).torrents \cap PeerHas
       IN  IF Head(asked).kind = "torrent" THEN hits' = hits \o Each("torrent", has)
           ELSE \E named, inFiles \in SUBSET has :
                  hits' = hits \o Each("torrents", named) \o Each("files", inFiles)
    /\ UNCHANGED <<query, rows, found, ours, looking, opened, paneFiles, searched>>

PeerGone ==
    /\ asked' = <<>> /\ hits' = <<>>
    /\ UNCHANGED <<query, rows, found, ours, looking, opened, paneFiles, searched>>

\* handleSearchResult(), handleSearchFilesResult(): a hit joins whatever query is
\* shown by now, no matter which it was for.
HandleHit ==
    /\ hits # <<>> /\ Head(hits).kind # "torrent" /\ hits' = Tail(hits)
    /\ rows' = IF query = NoTorrents THEN rows
               ELSE Merged(rows, Head(hits).torrent, TRUE, Head(hits).kind = "files")
    /\ UNCHANGED <<query, found, ours, asked, looking, opened, paneFiles, searched>>

\* remoteTorrentReceived at the window: only the torrent in the panel is of interest.
FilesShown(t) == IF opened = {t} THEN {t} ELSE paneFiles

\* handleTorrentResponse(): shown first, if there are files in it, then cloned, which
\* the filters may refuse.
HandleTorrent ==
    /\ hits # <<>> /\ Head(hits).kind = "torrent" /\ hits' = Tail(hits)
    /\ LET t == Head(hits).torrent
       IN  paneFiles' \in {paneFiles, FilesShown(t)} /\ ours' \in {ours, ours \cup {t}}
    /\ UNCHANGED <<query, rows, found, asked, looking, opened, searched>>

\* torrent.get ends: it counts for the query it was made for, typed again or not.
LookupEnds(q) ==
    /\ q \in looking /\ looking' = looking \ {q}
    /\ \/ UNCHANGED <<rows, found, ours>>
       \/ \E t \in q :
            /\ ours' \in {ours, ours \cup {t}}
            /\ IF query = q THEN rows' = Merged(rows, t, FALSE, FALSE) /\ found' = found \cup {t}
               ELSE UNCHANGED <<rows, found>>
    /\ UNCHANGED <<query, asked, hits, opened, paneFiles, searched>>

SearchNext ==
    \/ \E q \in {Listed} \cup {{t} : t \in Listed} : PerformSearch(q) \/ LookupEnds(q)
    \/ \E i \in 1..Cardinality(Listed) : SelectRow(i)
    \/ ClosePanel \/ PeerAnswers \/ PeerGone \/ HandleHit \/ HandleTorrent

----------------------------------------------------------------------------
\* One row for a torrent however many sources answer, and it is marked as a peer's
\* only while our own index and lookups have not given it.
RowsAreTruthful ==
    /\ \A i, j \in DOMAIN rows : i # j => rows[i].torrent # rows[j].torrent
    /\ \A i \in DOMAIN rows : rows[i].remote <=> rows[i].torrent \notin found

\* The files listed under a torrent are its own, however late a peer's answer is:
\* checking a box there changes the download of the torrent that is open.
FilesAreOfTheOpened == paneFiles \subseteq opened
=============================================================================
