--------------------------- MODULE TorrentEngine ---------------------------
(* TorrentEngine (net/torrent_engine.cpp) over the librats BitTorrent client.
   The wrapper keeps no state: what it can change and report is the client's
   torrents, the content on disk and the resume files beside it. The client
   itself is external: it learns metadata, rechecks what is on disk and receives
   pieces on its own reactor thread, at any moment. *)
EXTENDS Integers
CONSTANT Hashes            \* info hashes
VARIABLES
    btUp,                  \* isReady(): the transport runs with BitTorrent on
    client,                \* [Hashes -> Torrent], what librats tracks
    content,               \* [Hashes -> Level], what the disk holds
    resumeFile             \* [Hashes -> ResumeFiles], saved beside the download

engineVars == <<btUp, client, content, resumeFile>>

\* How much of a torrent there is: nothing, a part, or all of it.
Whole == 2
Level == 0..Whole
ResumeFiles == {"none", "pieces", "full"}     \* "full" embeds the info dict

Torrent == [held : BOOLEAN, meta : BOOLEAN, got : Level, paused : BOOLEAN]
NoTorrent == [held |-> FALSE, meta |-> FALSE, got |-> 0, paused |-> FALSE]

EngineTypeOK ==
    /\ btUp \in BOOLEAN
    /\ client \in [Hashes -> Torrent]
    /\ content \in [Hashes -> Level]
    /\ resumeFile \in [Hashes -> ResumeFiles]

EngineInit ==
    /\ btUp = FALSE
    /\ client = [h \in Hashes |-> NoTorrent]
    /\ content = [h \in Hashes |-> 0]
    /\ resumeFile = [h \in Hashes |-> "none"]

----------------------------------------------------------------------------
(* The torrent the client holds after each call of the wrapper. *)
AddMagnet(h) == [NoTorrent EXCEPT !.held = TRUE]
AddMagnetResumed(h) == [AddMagnet(h) EXCEPT !.meta = resumeFile[h] = "full"]
AddTorrentFile(h) == [AddMagnet(h) EXCEPT !.meta = TRUE]
CreateAndSeed(h) == [AddTorrentFile(h) EXCEPT !.got = Whole]

PauseTorrent(h, p) == [client EXCEPT ![h].paused = p]
RemoveTorrent(h) == [client EXCEPT ![h] = NoTorrent]

IsComplete(t) == t.meta /\ t.got = Whole

\* The resume files after saveResumeData() for the torrents of S: the pieces,
\* and the info dict when the client knows it.
SaveResumeData(S) ==
    [h \in Hashes |->
        IF h \notin S \/ ~btUp \/ ~client[h].held THEN resumeFile[h]
        ELSE IF client[h].meta THEN "full" ELSE "pieces"]

----------------------------------------------------------------------------
(* librats on its reactor thread. *)
MetadataArrives(h) ==
    /\ client[h].held /\ ~client[h].meta
    /\ client' = [client EXCEPT ![h].meta = TRUE]
    /\ UNCHANGED <<btUp, content, resumeFile>>

\* The asynchronous recheck of the files finds what the disk holds.
Recheck(h) ==
    /\ client[h].meta /\ client[h].got < content[h]
    /\ client' = [client EXCEPT ![h].got = content[h]]
    /\ UNCHANGED <<btUp, content, resumeFile>>

Receive(h) ==
    /\ client[h].meta /\ ~client[h].paused
    /\ client[h].got = content[h] /\ content[h] < Whole
    /\ content' = [content EXCEPT ![h] = @ + 1]
    /\ client' = [client EXCEPT ![h].got = @ + 1]
    /\ UNCHANGED <<btUp, resumeFile>>

Reactor(h) == MetadataArrives(h) \/ Recheck(h) \/ Receive(h)
=============================================================================
