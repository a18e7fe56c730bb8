---------------------------- MODULE DownloadsProofs ----------------------------
(* Proofs about DownloadService, its session file and tab, and about the    *)
(* exporter, for any number of torrents and of runs of the program.         *)
EXTENDS TorrentExport, TLAPS

(* What the safety properties need besides themselves: a program that is    *)
(* down holds nothing; the tab has heard of every completion that was       *)
(* broadcast.                                                               *)
DownIsEmpty == ~up => DOMAIN downloads = {} /\ ~btUp
CompletionWasHeard == \A h \in DOMAIN downloads : downloads[h].sent.completed => rows[h].completed

DownloadsInv ==
  /\ DownloadsTypeOK
  /\ RegistryIsTracked
  /\ NothingIsForgotten
  /\ DownIsEmpty
  /\ CompletionWasHeard

-----------------------------------------------------------------------------
(* What the calls of the engine leave in the client.                        *)
LEMMA TorrentFacts ==
  ASSUME EngineTypeOK, NEW h \in Hashes
  PROVE  /\ NoTorrent \in Torrent /\ ~NoTorrent.held /\ ~NoTorrent.paused
         /\ AddMagnet(h) \in Torrent /\ AddMagnet(h).held /\ ~AddMagnet(h).paused
         /\ AddMagnetResumed(h) \in Torrent /\ AddMagnetResumed(h).held
         /\ AddTorrentFile(h) \in Torrent /\ AddTorrentFile(h).held /\ ~AddTorrentFile(h).paused
         /\ CreateAndSeed(h) \in Torrent /\ CreateAndSeed(h).held /\ ~CreateAndSeed(h).paused
<1> DEFINE full == resumeFile[h] = "full"
<1>1. 0 \in Level /\ Whole \in Level /\ full \in BOOLEAN
  BY DEF Level, Whole
<1>2. NoTorrent \in Torrent /\ ~NoTorrent.held /\ ~NoTorrent.paused
  BY <1>1 DEF NoTorrent, Torrent
<1>3. AddMagnet(h) \in Torrent /\ AddMagnet(h).held /\ ~AddMagnet(h).paused
  BY <1>2 DEF Torrent, AddMagnet
<1> HIDE DEF full
<1>4. AddMagnetResumed(h) = [AddMagnet(h) EXCEPT !.meta = full]
  BY DEF AddMagnetResumed, full
<1>5. AddMagnetResumed(h) \in Torrent /\ AddMagnetResumed(h).held
  BY <1>1, <1>3, <1>4 DEF Torrent
<1>6. AddTorrentFile(h) \in Torrent /\ AddTorrentFile(h).held /\ ~AddTorrentFile(h).paused
  BY <1>3 DEF Torrent, AddTorrentFile
<1>7. CreateAndSeed(h) \in Torrent /\ CreateAndSeed(h).held /\ ~CreateAndSeed(h).paused
  BY <1>1, <1>6 DEF Torrent, CreateAndSeed
<1>8. QED
  BY <1>2, <1>3, <1>5, <1>6, <1>7

LEMMA SaveResumeDataType ==
  ASSUME EngineTypeOK, NEW S
  PROVE  SaveResumeData(S) \in [Hashes -> ResumeFiles]
BY DEF EngineTypeOK, SaveResumeData, ResumeFiles

(* The entries the registry begins with.                                    *)
LEMMA NewFacts ==
  /\ New \in Download /\ ~New.paused /\ ~New.completed /\ ~New.sent.completed
  /\ FromFile \in Download /\ ~FromFile.paused /\ ~FromFile.completed /\ ~FromFile.sent.completed
  /\ Seeding \in Download /\ ~Seeding.paused /\ ~Seeding.sent.completed
<1>1. 0 \in Level /\ Whole \in Level
  BY DEF Level, Whole
<1>2. New \in Download /\ ~New.paused /\ ~New.completed /\ ~New.sent.completed
  BY <1>1 DEF New, Download, NoPayload
<1>3. FromFile \in Download /\ ~FromFile.paused /\ ~FromFile.completed /\ FromFile.sent = New.sent
  BY <1>2 DEF FromFile, Download
<1>4. Seeding \in Download /\ ~Seeding.paused /\ Seeding.sent = New.sent
  BY <1>1, <1>3 DEF Seeding, Download
<1>5. QED
  BY <1>2, <1>3, <1>4

(* applySnapshot() changes neither the pause nor what was broadcast.        *)
LEMMA ApplySnapshotFacts ==
  ASSUME NEW d \in Download, NEW t \in Torrent
  PROVE  /\ ApplySnapshot(d, t) \in Download
         /\ ApplySnapshot(d, t).paused = d.paused /\ ApplySnapshot(d, t).sent = d.sent
BY DEF ApplySnapshot, Download, Torrent, IsComplete

LEMMA RestoredFacts ==
  ASSUME NEW e \in Entry, NEW t \in Torrent
  PROVE  /\ Restored(e, t) \in Download /\ Restored(e, t).paused = e.paused
         /\ ~Restored(e, t).sent.completed
<1> DEFINE seeded == [New EXCEPT !.completed = e.completed, !.got = e.got, !.files = e.files]
<1> DEFINE known == IF t.meta THEN ApplySnapshot(seeded, t) ELSE seeded
<1>1. seeded \in Download /\ seeded.sent = NoPayload
  BY DEF New, Entry, Download, NoPayload
<1>2. known \in Download /\ known.sent = NoPayload
  BY <1>1, ApplySnapshotFacts
<1> HIDE DEF known
<1> DEFINE d == [known EXCEPT !.completed = @ \/ e.completed, !.paused = e.paused,
                              !.removeOnDone = e.removeOnDone, !.chosen = e.chosen /\ e.files]
<1>3. d \in Download /\ d.paused = e.paused /\ d.sent = NoPayload
  BY <1>2 DEF Entry, Download
<1>4. Restored(e, t) = d
  BY DEF Restored, known
<1>5. QED
  BY <1>3, <1>4 DEF NoPayload

LEMMA SavedFacts ==
  ASSUME NEW d \in Download
  PROVE  Saved(d) \in Entry /\ Saved(d).paused = d.paused
BY DEF Saved, Entry, Download

LEMMA SentFacts ==
  ASSUME NEW d \in Download
  PROVE  d.sent.paused \in BOOLEAN /\ d.sent.completed \in BOOLEAN
<1>1. d.sent \in Payload \/ d.sent = NoPayload
  BY DEF Download
<1>2. NoPayload.paused = FALSE /\ NoPayload.completed = FALSE
  BY DEF NoPayload
<1>3. \A p \in Payload : p.paused \in BOOLEAN /\ p.completed \in BOOLEAN
  BY DEF Payload
<1>4. QED
  BY <1>1, <1>2, <1>3

(* A poll keeps the pause and broadcasts what it makes of the download.     *)
LEMMA PolledFacts ==
  ASSUME NEW d \in Download, NEW t \in Torrent
  PROVE  /\ Polled(d, t) \in Download /\ Polled(d, t).paused = d.paused
         /\ t.held => Polled(d, t).sent.completed = Polled(d, t).completed
<1> DEFINE seen == IF t.meta /\ ~d.ready THEN ApplySnapshot(d, t) ELSE [d EXCEPT !.got = t.got]
<1> DEFINE now == [seen EXCEPT !.completed = @ \/ IsComplete(t)]
<1>1. seen \in Download /\ seen.paused = d.paused
  BY ApplySnapshotFacts DEF Download, Torrent
<1> HIDE DEF seen
<1>2. now \in Download /\ now.paused = d.paused
  BY <1>1 DEF Download, IsComplete, Torrent
<1> HIDE DEF now
<1>3. ProgressJson(now) \in Payload /\ ProgressJson(now).completed = now.completed
  BY <1>2 DEF ProgressJson, Payload, Download
<1>4. [now EXCEPT !.sent = ProgressJson(now)] \in Download
  BY <1>2, <1>3 DEF Download
<1>5. Polled(d, t) = IF t.held THEN [now EXCEPT !.sent = ProgressJson(now)] ELSE d
  BY DEF Polled, now, seen
<1>6. QED
  BY <1>2, <1>3, <1>4, <1>5 DEF Download

-----------------------------------------------------------------------------
LEMMA DownloadsInitInv == Init => DownloadsInv
<1> SUFFICES ASSUME Init PROVE DownloadsInv
  OBVIOUS
<1>1. EngineTypeOK
  <2>1. NoTorrent \in Torrent
    BY DEF NoTorrent, Torrent, Level, Whole
  <2>2. 0 \in Level /\ "none" \in ResumeFiles
    BY DEF Level, Whole, ResumeFiles
  <2>3. QED
    BY <2>1, <2>2 DEF Init, EngineInit, EngineTypeOK
<1>2. DOMAIN session \subseteq Hashes /\ \A h \in DOMAIN session : session[h] \in Entry
  <2> DEFINE Old == [completed : {FALSE}, paused : {FALSE}, removeOnDone : {TRUE},
                     files : {FALSE}, chosen : {FALSE}, got : {0}]
  <2>1. Old \subseteq Entry
    <3>1. {0} \subseteq Level
      BY DEF Level, Whole
    <3>2. QED
      BY <3>1 DEF Entry
  <2> HIDE DEF Old
  <2>2. PICK S \in SUBSET Hashes : session \in [S -> Old]
    BY DEF Init, PartialOn, Old
  <2>3. QED
    BY <2>1, <2>2
<1>3. session # Torn
  BY <1>2, TornIsNoHash DEF Torn
<1>4. DownloadsTypeOK
  <2>2. wanted \in [Hashes -> Wishes] /\ kept \in [Hashes -> Fates]
    BY DEF Init, As, Wishes, Fates
  <2>3. up \in BOOLEAN /\ runs \in 0..MaxRuns /\ DOMAIN downloads = {} /\ DOMAIN rows = {}
    <3>1. 0 \in 0..MaxRuns
      BY MaxRunsIsNat
    <3>2. QED
      BY <3>1 DEF Init, Empty
  <2>4. QED
    BY <1>1, <1>2, <2>2, <2>3 DEF DownloadsTypeOK
<1>5. DOMAIN downloads = {} /\ DOMAIN rows = {} /\ ~up /\ ~btUp
  BY DEF Init, Empty, EngineInit
<1>6. \A h \in Hashes : ~client[h].held
  BY DEF Init, EngineInit, NoTorrent
<1>7. RegistryIsTracked /\ CompletionWasHeard
  BY <1>5, <1>6 DEF RegistryIsTracked, CompletionWasHeard
<1>8. Entries = session
  BY <1>3 DEF Entries
<1>9. NothingIsForgotten /\ DownIsEmpty
  BY <1>5, <1>8 DEF NothingIsForgotten, DownIsEmpty, Init, As
<1>10. QED
  BY <1>4, <1>7, <1>9 DEF DownloadsInv

(* The reactor changes neither which torrents there are nor their pause.    *)
LEMMA ReactorInv ==
  ASSUME DownloadsInv, NEW h \in Hashes, Reactor(h), UNCHANGED serviceVars
  PROVE  DownloadsInv'
<1> USE DEF DownloadsInv, serviceVars
<1>1. EngineTypeOK'
  <2>1. CASE MetadataArrives(h)
    BY <2>1 DEF DownloadsTypeOK, EngineTypeOK, MetadataArrives, Torrent
  <2>2. CASE Recheck(h)
    BY <2>2 DEF DownloadsTypeOK, EngineTypeOK, Recheck, Torrent
  <2>3. CASE Receive(h)
    <3>1. content[h] + 1 \in Level /\ client[h].got = content[h]
      BY <2>3 DEF DownloadsTypeOK, EngineTypeOK, Receive, Level, Whole
    <3>2. QED
      BY <2>3, <3>1 DEF DownloadsTypeOK, EngineTypeOK, Receive, Torrent
  <2>4. QED
    BY <2>1, <2>2, <2>3 DEF Reactor
<1>2. \A x \in Hashes : client'[x].held = client[x].held /\ client'[x].paused = client[x].paused
  BY DEF DownloadsTypeOK, EngineTypeOK, Reactor, MetadataArrives, Recheck, Receive, Torrent
<1>3. btUp' = btUp
  BY DEF Reactor, MetadataArrives, Recheck, Receive
<1>4. DownloadsTypeOK'
  BY <1>1 DEF DownloadsTypeOK
<1>5. RegistryIsTracked'
  BY <1>2 DEF RegistryIsTracked, DownloadsTypeOK
<1>6. QED
  BY <1>3, <1>4, <1>5 DEF NothingIsForgotten, DownIsEmpty, CompletionWasHeard, Entries, As

(* A wish the user states is his last, and unsaved.                         *)
LEMMA WishFacts ==
  ASSUME DownloadsTypeOK, NEW h \in Hashes, NEW as \in Wishes, Wish(h, as)
  PROVE  /\ wanted' \in [Hashes -> Wishes] /\ kept' \in [Hashes -> Fates]
         /\ wanted'[h] = as /\ kept'[h] = "unsaved"
         /\ \A x \in Hashes : x # h => wanted'[x] = wanted[x] /\ kept'[x] = kept[x]
BY DEF Wish, DownloadsTypeOK, Wishes, Fates

(* The wish is done while the program runs, and the others are left alone.  *)
LEMMA WishKeepsInv ==
  ASSUME DownloadsTypeOK, NothingIsForgotten, NEW h \in Hashes, NEW as \in Wishes, Wish(h, as),
         up, up', session' = session, As(downloads, h)' = as,
         \A x \in Hashes : x # h => As(downloads, x)' = As(downloads, x)
  PROVE  NothingIsForgotten'
<1>1. Entries' = Entries
  BY DEF Entries
<1>2. ASSUME NEW x \in Hashes, x # h, kept'[x] # "lost"
      PROVE  As(downloads, x)' = wanted'[x] /\ (kept'[x] = "saved" => As(Entries, x)' = wanted'[x])
  <2>1. kept'[x] = kept[x] /\ wanted'[x] = wanted[x]
    BY <1>2, WishFacts
  <2>2. As(Entries, x)' = As(Entries, x)
    BY <1>1 DEF As
  <2>3. QED
    BY <1>2, <2>1, <2>2 DEF NothingIsForgotten
<1>3. As(downloads, h)' = wanted'[h] /\ kept'[h] = "unsaved"
  BY WishFacts
<1>4. QED
  BY <1>2, <1>3 DEF NothingIsForgotten

(* add(), addWithInfo(), addFromFile() and registerSeed().                  *)
LEMMA RegisteredInv ==
  ASSUME DownloadsInv, NEW h \in Hashes, NEW d \in Download, NEW t \in Torrent,
         Registered(h, d, t), t.held, ~t.paused, ~d.paused, ~d.sent.completed,
         content' \in [Hashes -> Level],
         NEW r \in Row, rows' = Put(rows, h, r), d.completed => r.completed
  PROVE  DownloadsInv'
<1> USE DEF DownloadsInv, Registered
<1>0. h \notin DOMAIN downloads /\ h \notin DOMAIN rows /\ up /\ up'
  BY DEF RegistryIsTracked
<1>1. EngineTypeOK'
  BY DEF DownloadsTypeOK, EngineTypeOK
<1>2. /\ DOMAIN downloads' = DOMAIN downloads \union {h} /\ downloads'[h] = d
      /\ \A x \in DOMAIN downloads : downloads'[x] = downloads[x]
  BY <1>0 DEF Put
<1>3. /\ DOMAIN rows' = DOMAIN rows \union {h} /\ rows'[h] = r
      /\ \A x \in DOMAIN rows : rows'[x] = rows[x]
  BY <1>0 DEF Put
<1>4. "running" \in Wishes /\ wanted' \in [Hashes -> Wishes] /\ kept' \in [Hashes -> Fates]
  BY WishFacts DEF Wishes
<1>5. DownloadsTypeOK'
  BY <1>1, <1>2, <1>3, <1>4 DEF DownloadsTypeOK
<1>6. /\ client'[h] = t
      /\ \A x \in Hashes : x # h => client'[x] = client[x]
  BY DEF DownloadsTypeOK, EngineTypeOK
<1>7. RegistryIsTracked'
  <2>1. {x \in Hashes : client'[x].held} = DOMAIN downloads'
    BY <1>2, <1>6 DEF RegistryIsTracked
  <2>2. \A x \in DOMAIN downloads' : client'[x].paused = downloads'[x].paused
    BY <1>2, <1>6, <1>0 DEF RegistryIsTracked, DownloadsTypeOK, Download, Torrent
  <2>3. QED
    BY <1>0, <1>2, <1>3, <2>1, <2>2 DEF RegistryIsTracked
<1>8. NothingIsForgotten'
  <2>1. As(downloads, h)' = "running"
    BY <1>2 DEF As
  <2>2. \A x \in Hashes : x # h => As(downloads, x)' = As(downloads, x)
    BY <1>2 DEF As
  <2>3. QED
    BY <1>0, <1>4, <2>1, <2>2, WishKeepsInv
<1>9. CompletionWasHeard' /\ DownIsEmpty'
  BY <1>0, <1>2, <1>3 DEF CompletionWasHeard, DownIsEmpty, RegistryIsTracked
<1>10. QED
  BY <1>5, <1>7, <1>8, <1>9

LEMMA AddInv ==
  ASSUME DownloadsInv, NEW h \in Hashes, Add(h) \/ AddFromFile(h) \/ RegisterSeed(h)
  PROVE  DownloadsInv'
<1> DEFINE open == [completed |-> FALSE, paused |-> FALSE]
<1> DEFINE done == [completed |-> TRUE, paused |-> FALSE]
<1>1. EngineTypeOK
  BY DEF DownloadsInv, DownloadsTypeOK
<1>2. h \notin DOMAIN rows
  BY DEF DownloadsInv, RegistryIsTracked, Add, AddFromFile, RegisterSeed, Registered
<1>3. open \in Row /\ done \in Row /\ done.completed
  BY DEF Row
<1>4. content' \in [Hashes -> Level]
  BY <1>1 DEF Add, AddFromFile, RegisterSeed, EngineTypeOK, Level, Whole
<1>5. CASE Add(h)
  <2>1. rows' = Put(rows, h, open)
    BY <1>2, <1>5 DEF Add, OnDownloadStarted
  <2> HIDE DEF open
  <2>2. QED
    BY <1>1, <1>3, <1>4, <1>5, <2>1, TorrentFacts, NewFacts, RegisteredInv DEF Add
<1>6. CASE AddFromFile(h)
  <2>1. rows' = Put(rows, h, open)
    BY <1>2, <1>6 DEF AddFromFile, OnDownloadStarted
  <2> HIDE DEF open
  <2>2. QED
    BY <1>1, <1>3, <1>4, <1>6, <2>1, TorrentFacts, NewFacts, RegisteredInv DEF AddFromFile
<1>7. CASE RegisterSeed(h)
  <2>1. rows' = Put(rows, h, done)
    BY <1>7 DEF RegisterSeed
  <2> HIDE DEF done
  <2>2. QED
    BY <1>1, <1>3, <1>4, <1>7, <2>1, TorrentFacts, NewFacts, RegisteredInv DEF RegisterSeed
<1>8. QED
  BY <1>5, <1>6, <1>7

LEMMA RemoveInv ==
  ASSUME DownloadsInv, NEW h \in Hashes, NEW b \in BOOLEAN, Remove(h, b)
  PROVE  DownloadsInv'
<1> USE DEF DownloadsInv, Remove
<1>1. EngineTypeOK'
  BY TorrentFacts, SaveResumeDataType DEF DownloadsTypeOK, EngineTypeOK, RemoveTorrent
<1>2. /\ DOMAIN downloads' = DOMAIN downloads \ {h} /\ DOMAIN rows' = DOMAIN rows \ {h}
      /\ \A x \in DOMAIN downloads' : downloads'[x] = downloads[x]
      /\ \A x \in DOMAIN rows' : rows'[x] = rows[x]
      /\ "absent" \in Wishes /\ wanted' \in [Hashes -> Wishes] /\ kept' \in [Hashes -> Fates]
  BY WishFacts DEF Without, Wishes
<1>3. DownloadsTypeOK'
  BY <1>1, <1>2 DEF DownloadsTypeOK
<1>4. /\ ~client'[h].held
      /\ \A x \in Hashes : x # h => client'[x] = client[x]
  BY TorrentFacts DEF DownloadsTypeOK, EngineTypeOK, RemoveTorrent
<1>5. RegistryIsTracked'
  BY <1>2, <1>4 DEF RegistryIsTracked, DownloadsTypeOK
<1>6. QED
  <2>1. NothingIsForgotten'
    <3>1. As(downloads, h)' = "absent"
      BY <1>2 DEF As
    <3>2. \A x \in Hashes : x # h => As(downloads, x)' = As(downloads, x)
      BY <1>2 DEF As
    <3>3. QED
      BY <1>2, <3>1, <3>2, WishKeepsInv
  <2>2. CompletionWasHeard'
    BY <1>2 DEF CompletionWasHeard, RegistryIsTracked
  <2>3. QED
    BY <1>3, <1>5, <2>1, <2>2 DEF DownIsEmpty

(* pause() and resume(), from the tab or behind its back.                   *)
LEMMA SetPauseInv ==
  ASSUME DownloadsInv, NEW h \in Hashes, NEW p \in BOOLEAN, SetPause(h, p),
         DOMAIN rows' = DOMAIN rows, \A x \in DOMAIN rows : rows'[x] \in Row,
         \A x \in DOMAIN rows : rows'[x].completed = rows[x].completed
  PROVE  DownloadsInv'
<1> USE DEF DownloadsInv, SetPause
<1>1. /\ DOMAIN downloads' = DOMAIN downloads
      /\ downloads'[h] = [downloads[h] EXCEPT !.paused = p]
      /\ \A x \in DOMAIN downloads : x # h => downloads'[x] = downloads[x]
  OBVIOUS
<1>2. downloads[h] \in Download /\ downloads'[h] \in Download /\ downloads'[h].paused = p
      /\ downloads'[h].completed = downloads[h].completed /\ downloads'[h].sent = downloads[h].sent
  BY <1>1 DEF DownloadsTypeOK, Download
<1>3. /\ client'[h] \in Torrent /\ client'[h].held = client[h].held /\ client'[h].paused = p
      /\ client' \in [Hashes -> Torrent]
      /\ \A x \in Hashes : x # h => client'[x] = client[x]
  BY DEF DownloadsTypeOK, EngineTypeOK, PauseTorrent, Torrent
<1> DEFINE as == IF p THEN "paused" ELSE "running"
<1>4. as \in Wishes /\ wanted' \in [Hashes -> Wishes] /\ kept' \in [Hashes -> Fates]
  BY WishFacts DEF Wishes
<1>5. DownloadsTypeOK'
  <2>1. EngineTypeOK'
    BY <1>3 DEF DownloadsTypeOK, EngineTypeOK
  <2>2. \A x \in DOMAIN downloads' : downloads'[x] \in Download
    BY <1>1, <1>2 DEF DownloadsTypeOK
  <2>3. QED
    BY <1>1, <1>4, <2>1, <2>2 DEF DownloadsTypeOK
<1>6. RegistryIsTracked'
  <2>1. \A x \in Hashes : client'[x].held = client[x].held
    BY <1>3
  <2>2. \A x \in DOMAIN downloads : client'[x].paused = downloads'[x].paused
    BY <1>1, <1>2, <1>3 DEF RegistryIsTracked, DownloadsTypeOK
  <2>3. \A x \in DOMAIN downloads : downloads'[x].completed => rows'[x].completed
    BY <1>1, <1>2 DEF RegistryIsTracked
  <2>4. QED
    BY <1>1, <2>1, <2>2, <2>3 DEF RegistryIsTracked
<1>7. NothingIsForgotten'
  <2>1. As(downloads, h)' = as
    BY <1>1, <1>2 DEF As
  <2>2. \A x \in Hashes : x # h => As(downloads, x)' = As(downloads, x)
    BY <1>1 DEF As
  <2>3. QED
    BY <1>4, <2>1, <2>2, WishKeepsInv
<1>8. CompletionWasHeard' /\ DownIsEmpty'
  BY <1>1, <1>2 DEF CompletionWasHeard, DownIsEmpty, RegistryIsTracked
<1>9. QED
  BY <1>5, <1>6, <1>7, <1>8

LEMMA PauseInv ==
  ASSUME DownloadsInv, NEW h \in Hashes, TogglePause(h) \/ \E p \in BOOLEAN : ApiPause(h, p)
  PROVE  DownloadsInv'
<1>1. ASSUME NEW p \in BOOLEAN, ApiPause(h, p) PROVE DownloadsInv'
  BY <1>1, SetPauseInv DEF ApiPause, DownloadsInv, DownloadsTypeOK
<1>2. CASE TogglePause(h)
  <2>1. PICK p \in BOOLEAN : SetPause(h, p) /\ rows' = [rows EXCEPT ![h] = SetPaused(@, p)]
    BY <1>2 DEF TogglePause
  <2>2. h \in DOMAIN rows /\ rows[h] \in Row /\ ~rows[h].completed
    BY <1>2 DEF TogglePause, DownloadsInv, DownloadsTypeOK
  <2>3. SetPaused(rows[h], p) \in Row /\ SetPaused(rows[h], p).completed = rows[h].completed
    BY <2>2 DEF SetPaused, Row
  <2>4. /\ DOMAIN rows' = DOMAIN rows /\ rows'[h] = SetPaused(rows[h], p)
        /\ \A x \in DOMAIN rows : x # h => rows'[x] = rows[x]
    BY <2>1, <2>2
  <2>5. QED
    BY <2>1, <2>3, <2>4, SetPauseInv DEF DownloadsInv, DownloadsTypeOK
<1>3. QED
  BY <1>1, <1>2

LEMMA SelectFilesInv ==
  ASSUME DownloadsInv, NEW h \in Hashes, SelectFiles(h)
  PROVE  DownloadsInv'
<1> USE DEF DownloadsInv, SelectFiles, engineVars
<1>1. /\ DOMAIN downloads' = DOMAIN downloads
      /\ \A x \in DOMAIN downloads : /\ downloads'[x] \in Download
                                     /\ downloads'[x].paused = downloads[x].paused
                                     /\ downloads'[x].completed = downloads[x].completed
                                     /\ downloads'[x].sent = downloads[x].sent
  <2>1. /\ DOMAIN downloads' = DOMAIN downloads
        /\ downloads'[h] = [downloads[h] EXCEPT !.chosen = TRUE]
        /\ \A x \in DOMAIN downloads : x # h => downloads'[x] = downloads[x]
    OBVIOUS
  <2>2. QED
    BY <2>1 DEF DownloadsTypeOK, Download
<1>2. DownloadsTypeOK'
  BY <1>1 DEF DownloadsTypeOK, EngineTypeOK
<1>3. RegistryIsTracked' /\ CompletionWasHeard'
  BY <1>1 DEF RegistryIsTracked, CompletionWasHeard
<1>4. NothingIsForgotten' /\ DownIsEmpty'
  <2>1. Entries' = Entries /\ \A x \in Hashes : As(downloads, x)' = As(downloads, x)
    BY <1>1 DEF Entries, As
  <2>2. \A x \in Hashes : As(Entries, x)' = As(Entries, x)
    BY <2>1 DEF As
  <2>3. QED
    BY <2>1, <2>2 DEF NothingIsForgotten, DownIsEmpty
<1>5. QED
  BY <1>2, <1>3, <1>4

(* The poll: who finished and was to go goes everywhere, the others are     *)
(* polled, and the tab hears of what is new.                                *)
LEMMA OnUpdateTimerInv ==
  ASSUME DownloadsInv, OnUpdateTimer
  PROVE  DownloadsInv'
<1> USE DEF DownloadsInv
<1> DEFINE polled == [h \in DOMAIN downloads |-> Polled(downloads[h], client[h])]
           heard == [h \in DOMAIN rows |->
                       IF polled[h].sent = downloads[h].sent THEN rows[h]
                       ELSE OnProgressUpdated(rows[h], polled[h].sent)]
<1>1. /\ downloads' = Without(polled, ToRemove) /\ rows' = Without(heard, ToRemove)
      /\ client' = [h \in Hashes |-> IF h \in ToRemove THEN NoTorrent ELSE client[h]]
      /\ wanted' = [h \in Hashes |-> IF h \in ToRemove THEN "absent" ELSE wanted[h]]
      /\ kept' = [h \in Hashes |-> IF h \in ToRemove THEN "unsaved" ELSE kept[h]]
      /\ UNCHANGED <<btUp, content, resumeFile, up, runs, session>> /\ up
  BY DEF OnUpdateTimer
<1>2. /\ DOMAIN rows = DOMAIN downloads
      /\ DOMAIN downloads \subseteq Hashes /\ ToRemove \subseteq DOMAIN downloads
  BY <1>1 DEF RegistryIsTracked, NothingIsForgotten, DownloadsTypeOK, ToRemove
<1>3. \A h \in DOMAIN downloads : downloads[h] \in Download /\ client[h] \in Torrent /\ client[h].held
                                 /\ rows[h] \in Row
  BY <1>2 DEF RegistryIsTracked, DownloadsTypeOK, EngineTypeOK
<1>4. /\ DOMAIN polled = DOMAIN downloads
      /\ \A h \in DOMAIN downloads : /\ polled[h] \in Download /\ polled[h].paused = downloads[h].paused
                                     /\ polled[h].sent.completed = polled[h].completed
  BY <1>3, PolledFacts
<1> HIDE DEF polled
<1>5. /\ DOMAIN heard = DOMAIN downloads
      /\ \A h \in DOMAIN downloads : heard[h] \in Row
      /\ \A h \in DOMAIN downloads : polled[h].sent.completed => heard[h].completed
  <2>1. ASSUME NEW h \in DOMAIN downloads, polled[h].sent = downloads[h].sent
        PROVE  heard[h] \in Row /\ (polled[h].sent.completed => heard[h].completed)
    BY <1>2, <1>3, <2>1 DEF CompletionWasHeard
  <2>2. ASSUME NEW h \in DOMAIN downloads, polled[h].sent # downloads[h].sent
        PROVE  heard[h] \in Row /\ (polled[h].sent.completed => heard[h].completed)
    <3>1. heard[h] = OnProgressUpdated(rows[h], polled[h].sent)
      BY <1>2, <2>2
    <3>2. polled[h].sent.paused \in BOOLEAN
      BY <1>4, SentFacts
    <3>3. rows[h] \in Row /\ [rows[h] EXCEPT !.completed = TRUE] \in Row
          /\ [rows[h] EXCEPT !.paused = polled[h].sent.paused] \in Row
          /\ [rows[h] EXCEPT !.completed = TRUE].completed = TRUE
      BY <1>3, <3>2 DEF Row
    <3>4. QED
      BY <1>3, <3>1, <3>2, <3>3 DEF OnProgressUpdated, SetPaused, Row
  <2>3. QED
    BY <1>2, <2>1, <2>2
<1> HIDE DEF heard
<1>6. /\ DOMAIN downloads' = DOMAIN downloads \ ToRemove /\ DOMAIN rows' = DOMAIN downloads \ ToRemove
      /\ \A h \in DOMAIN downloads \ ToRemove : downloads'[h] = polled[h] /\ rows'[h] = heard[h]
  BY <1>1, <1>2, <1>4, <1>5 DEF Without
<1>7. client' \in [Hashes -> Torrent]
      /\ \A h \in Hashes : IF h \in ToRemove THEN ~client'[h].held ELSE client'[h] = client[h]
  <2>1. NoTorrent \in Torrent /\ ~NoTorrent.held
    BY DEF NoTorrent, Torrent, Level, Whole
  <2>2. QED
    BY <1>1, <2>1 DEF DownloadsTypeOK, EngineTypeOK
<1>8. DownloadsTypeOK'
  <2>1. EngineTypeOK'
    BY <1>1, <1>7 DEF DownloadsTypeOK, EngineTypeOK
  <2>2. DOMAIN downloads' \subseteq Hashes /\ (\A h \in DOMAIN downloads' : downloads'[h] \in Download)
    BY <1>2, <1>4, <1>6
  <2>3. DOMAIN rows' \subseteq Hashes /\ (\A h \in DOMAIN rows' : rows'[h] \in Row)
    BY <1>2, <1>5, <1>6
  <2>4. wanted' \in [Hashes -> Wishes] /\ kept' \in [Hashes -> Fates]
    BY <1>1 DEF DownloadsTypeOK, Wishes, Fates
  <2>5. QED
    BY <1>1, <2>1, <2>2, <2>3, <2>4 DEF DownloadsTypeOK
<1>9. RegistryIsTracked'
  <2>1. {h \in Hashes : client'[h].held} = DOMAIN downloads'
    BY <1>2, <1>6, <1>7 DEF RegistryIsTracked
  <2>2. \A h \in DOMAIN downloads' : client'[h].paused = downloads'[h].paused
    BY <1>2, <1>4, <1>6, <1>7 DEF RegistryIsTracked
  <2>3. \A h \in DOMAIN downloads' : downloads'[h].completed => rows'[h].completed
    BY <1>4, <1>5, <1>6
  <2>4. QED
    BY <1>6, <2>1, <2>2, <2>3 DEF RegistryIsTracked
<1>10. NothingIsForgotten'
  <2> SUFFICES ASSUME NEW h \in Hashes, kept'[h] # "lost"
               PROVE  /\ As(downloads, h)' = wanted'[h]
                      /\ kept'[h] = "saved" => As(Entries, h)' = wanted'[h]
    BY <1>1 DEF NothingIsForgotten
  <2>1. CASE h \in ToRemove
    <3>1. wanted'[h] = "absent" /\ kept'[h] = "unsaved"
      BY <1>1, <2>1
    <3>2. h \notin DOMAIN downloads'
      BY <1>6, <2>1
    <3>3. QED
      BY <3>1, <3>2 DEF As
  <2>2. CASE h \notin ToRemove
    <3>1. wanted'[h] = wanted[h] /\ kept'[h] = kept[h] /\ Entries' = Entries
      BY <1>1, <2>2 DEF Entries
    <3>2. As(downloads, h)' = As(downloads, h)
      BY <1>4, <1>6, <2>2 DEF As
    <3>3. As(Entries, h)' = As(Entries, h)
      BY <3>1 DEF As
    <3>4. QED
      BY <1>1, <3>1, <3>2, <3>3 DEF NothingIsForgotten
  <2>3. QED
    BY <2>1, <2>2
<1>11. CompletionWasHeard' /\ DownIsEmpty'
  BY <1>1, <1>5, <1>6 DEF CompletionWasHeard, DownIsEmpty
<1>12. QED
  BY <1>8, <1>9, <1>10, <1>11

-----------------------------------------------------------------------------
(* What the session file says is a download for each of its hashes.         *)
LEMMA EntriesFacts ==
  ASSUME DownloadsTypeOK
  PROVE  DOMAIN Entries \subseteq Hashes /\ \A h \in DOMAIN Entries : Entries[h] \in Entry
BY DEF DownloadsTypeOK, Entries, Empty

(* restore(): client, registry and tab begin with the same downloads.       *)
LEMMA StartInv ==
  ASSUME DownloadsInv, NEW bt \in BOOLEAN, NEW ok \in SUBSET Hashes, Start(bt, ok)
  PROVE  DownloadsInv'
<1> USE DEF DownloadsInv
<1> DEFINE added == [h \in Hashes |-> IF h \in ok THEN AddMagnetResumed(h) ELSE NoTorrent]
           restored == [h \in ok |-> Restored(Entries[h], added[h])]
<1>1. /\ downloads' = restored /\ rows' = LoadDownloads(restored)
      /\ kept' = [h \in Hashes |-> IF h \in DOMAIN Entries \ ok THEN "lost" ELSE kept[h]]
      /\ client' = [h \in Hashes |-> [added[h] EXCEPT !.paused = h \in ok /\ Entries[h].paused]]
      /\ UNCHANGED <<content, resumeFile, session, wanted>>
      /\ up' = TRUE /\ runs' = runs + 1 /\ btUp' = bt
      /\ ~up /\ runs < MaxRuns /\ ok \subseteq DOMAIN Entries
  BY DEF Start
<1>2. \A h \in ok : Entries[h] \in Entry /\ Entries[h].paused \in BOOLEAN
  BY <1>1, EntriesFacts DEF Entry
<1>3. \A h \in Hashes : added[h] \in Torrent /\ (added[h].held <=> h \in ok)
  BY TorrentFacts DEF DownloadsTypeOK
<1> HIDE DEF added
<1>4. /\ DOMAIN restored = ok
      /\ \A h \in ok : /\ restored[h] \in Download /\ restored[h].paused = Entries[h].paused
                       /\ ~restored[h].sent.completed
  BY <1>2, <1>3, RestoredFacts
<1> HIDE DEF restored
<1>5. /\ DOMAIN rows' = ok
      /\ \A h \in ok : rows'[h] \in Row /\ rows'[h].completed = restored[h].completed
  BY <1>1, <1>4 DEF LoadDownloads, Row, Download
<1>6. /\ client' \in [Hashes -> Torrent]
      /\ \A h \in Hashes : client'[h].held <=> h \in ok
      /\ \A h \in ok : client'[h].paused = Entries[h].paused
  <2> SUFFICES ASSUME NEW h \in Hashes
               PROVE  /\ client'[h] \in Torrent /\ (client'[h].held <=> h \in ok)
                      /\ h \in ok => client'[h].paused = Entries[h].paused
    BY <1>1
  <2> DEFINE p == h \in ok /\ Entries[h].paused
  <2>1. p \in BOOLEAN /\ (h \in ok => p = Entries[h].paused)
    BY <1>2
  <2>2. client'[h] = [added[h] EXCEPT !.paused = p]
    BY <1>1
  <2> HIDE DEF p
  <2>3. QED
    BY <1>3, <2>1, <2>2 DEF Torrent
<1>7. kept' \in [Hashes -> Fates]
  BY <1>1 DEF DownloadsTypeOK, Fates
<1>8. DownloadsTypeOK'
  <2>1. EngineTypeOK'
    BY <1>1, <1>6 DEF DownloadsTypeOK, EngineTypeOK
  <2>2. runs' \in 0..MaxRuns /\ up' \in BOOLEAN
    BY <1>1, MaxRunsIsNat DEF DownloadsTypeOK
  <2>3. QED
    BY <1>1, <1>4, <1>5, <1>7, <2>1, <2>2 DEF DownloadsTypeOK
<1>9. RegistryIsTracked'
  BY <1>1, <1>4, <1>5, <1>6 DEF RegistryIsTracked
<1>10. NothingIsForgotten'
  <2> SUFFICES ASSUME NEW h \in Hashes, kept'[h] # "lost"
               PROVE  As(downloads, h)' = wanted'[h] /\ As(Entries, h)' = wanted'[h]
    BY <1>1 DEF NothingIsForgotten
  <2>1. kept[h] # "lost" /\ wanted'[h] = wanted[h] /\ ~(h \in DOMAIN Entries \ ok)
    BY <1>1
  <2>2. Entries' = Entries /\ As(Entries, h) = wanted[h]
    BY <1>1, <2>1 DEF NothingIsForgotten, Entries
  <2>3. As(downloads, h)' = As(Entries, h)
    BY <1>1, <1>4, <2>1 DEF As
  <2>4. As(Entries, h)' = As(Entries, h)
    BY <2>2 DEF As
  <2>5. QED
    BY <2>1, <2>2, <2>3, <2>4
<1>11. CompletionWasHeard' /\ DownIsEmpty'
  BY <1>1, <1>4 DEF CompletionWasHeard, DownIsEmpty
<1>12. QED
  BY <1>8, <1>9, <1>10, <1>11

(* However a run ends, nothing is tracked afterwards.                       *)
LEMMA DownFacts ==
  ASSUME DownloadsInv, Down, resumeFile' \in [Hashes -> ResumeFiles]
  PROVE  /\ EngineTypeOK' /\ ~up' /\ ~btUp' /\ DOMAIN downloads' = {} /\ DOMAIN rows' = {}
         /\ up' \in BOOLEAN /\ runs' \in 0..MaxRuns
         /\ RegistryIsTracked' /\ CompletionWasHeard'
<1>1. NoTorrent \in Torrent /\ ~NoTorrent.held
  BY DEF NoTorrent, Torrent, Level, Whole
<1>2. EngineTypeOK' /\ ~up' /\ ~btUp' /\ DOMAIN downloads' = {} /\ DOMAIN rows' = {}
  BY <1>1 DEF Down, DownloadsInv, DownloadsTypeOK, EngineTypeOK, Empty
<1>3. \A h \in Hashes : ~client'[h].held
  BY <1>1 DEF Down
<1>4. QED
  BY <1>2, <1>3 DEF Down, DownloadsInv, DownloadsTypeOK, RegistryIsTracked, CompletionWasHeard

(* An orderly stop saves every download as it was left, or its save fails.  *)
LEMMA StopInv ==
  ASSUME DownloadsInv, NEW write \in SessionWrites, Stop(write)
  PROVE  DownloadsInv'
<1> USE DEF DownloadsInv
<1>1. Down /\ resumeFile' \in [Hashes -> ResumeFiles] /\ wanted' = wanted /\ up
  BY SaveResumeDataType DEF Stop, DownloadsTypeOK
<1>2. kept' = [h \in Hashes |->
                  IF write = "torn" \/ kept[h] = "lost" THEN "lost"
                  ELSE IF kept[h] = "saved" \/ write = "written" THEN "saved" ELSE "lost"]
  BY DEF Stop
<1>3. kept' \in [Hashes -> Fates] /\ \A h \in Hashes : kept'[h] # "unsaved"
  BY <1>2 DEF Fates
<1>4. ASSUME \/ session' = Torn
             \/ DOMAIN session' \subseteq Hashes /\ \A h \in DOMAIN session' : session'[h] \in Entry,
             \A h \in Hashes : kept'[h] # "lost" => As(Entries, h)' = wanted[h]
      PROVE  DownloadsInv'
  <2>1. DownloadsTypeOK'
    BY <1>1, <1>3, <1>4, DownFacts DEF DownloadsTypeOK
  <2>2. NothingIsForgotten' /\ DownIsEmpty'
    <3>1. \A h \in Hashes : kept'[h] # "lost" => kept'[h] = "saved"
      BY <1>3 DEF Fates
    <3>2. QED
      BY <1>1, <1>4, <3>1, DownFacts DEF NothingIsForgotten, DownIsEmpty
  <2>3. QED
    BY <1>1, <2>1, <2>2, DownFacts
<1>5. CASE write = "written"
  <2>1. /\ DOMAIN session' = DOMAIN downloads /\ DOMAIN downloads \subseteq Hashes
        /\ \A h \in DOMAIN downloads : session'[h] \in Entry /\ session'[h].paused = downloads[h].paused
    BY <1>5, SavedFacts DEF Stop, DownloadsTypeOK
  <2>2. session' # Torn
    BY <2>1, TornIsNoHash DEF Torn
  <2>3. Entries' = session'
    BY <2>2 DEF Entries, Torn
  <2>4. ASSUME NEW h \in Hashes, kept'[h] # "lost" PROVE As(Entries, h)' = wanted[h]
    <3>1. kept[h] # "lost"
      BY <1>2, <2>4
    <3>2. As(downloads, h) = wanted[h]
      BY <1>1, <3>1 DEF NothingIsForgotten
    <3>3. As(Entries, h)' = As(downloads, h)
      BY <2>1, <2>3 DEF As
    <3>4. QED
      BY <3>2, <3>3
  <2>5. QED
    BY <1>4, <2>1, <2>4
<1>6. CASE write = "unopened"
  <2>1. session' = session /\ Entries' = Entries
    BY <1>6 DEF Stop, Entries
  <2>2. ASSUME NEW h \in Hashes, kept'[h] # "lost" PROVE As(Entries, h)' = wanted[h]
    <3>1. kept[h] = "saved"
      BY <1>2, <1>6, <2>2
    <3>2. As(Entries, h) = wanted[h]
      BY <3>1 DEF NothingIsForgotten
    <3>3. As(Entries, h)' = As(Entries, h)
      BY <2>1 DEF As
    <3>4. QED
      BY <3>2, <3>3
  <2>3. QED
    BY <1>4, <2>1, <2>2 DEF DownloadsTypeOK
<1>7. CASE write = "torn"
  <2>1. session' = Torn /\ \A h \in Hashes : kept'[h] = "lost"
    BY <1>2, <1>7 DEF Stop
  <2>2. QED
    BY <1>4, <2>1
<1>8. QED
  BY <1>5, <1>6, <1>7 DEF SessionWrites

(* A crash goes back to the session file there is.                          *)
LEMMA CrashInv ==
  ASSUME DownloadsInv, Crash
  PROVE  DownloadsInv'
<1> USE DEF DownloadsInv
<1>1. /\ Down /\ resumeFile' \in [Hashes -> ResumeFiles] /\ wanted' = wanted
      /\ session' = session /\ Entries' = Entries
  BY DEF Crash, DownloadsTypeOK, EngineTypeOK, Entries
<1>2. kept' = [h \in Hashes |-> IF kept[h] = "unsaved" THEN "lost" ELSE kept[h]]
  BY DEF Crash
<1>3. kept' \in [Hashes -> Fates]
  BY <1>2 DEF DownloadsTypeOK, Fates
<1>4. DownloadsTypeOK'
  BY <1>1, <1>3, DownFacts DEF DownloadsTypeOK
<1>5. ASSUME NEW h \in Hashes, kept'[h] # "lost"
      PROVE  kept'[h] = "saved" /\ As(Entries, h)' = wanted'[h]
  <2>1. kept[h] = "saved" /\ kept'[h] = "saved"
    BY <1>2, <1>5 DEF DownloadsTypeOK, Fates
  <2>2. As(Entries, h)' = As(Entries, h)
    BY <1>1 DEF As
  <2>3. QED
    BY <1>1, <2>1, <2>2 DEF NothingIsForgotten
<1>6. QED
  BY <1>1, <1>4, <1>5, DownFacts DEF NothingIsForgotten, DownIsEmpty

LEMMA ContentDeletedInv ==
  ASSUME DownloadsInv, NEW h \in Hashes, ContentDeleted(h)
  PROVE  DownloadsInv'
<1> USE DEF DownloadsInv, ContentDeleted, serviceVars
<1>1. DownloadsTypeOK'
  BY DEF DownloadsTypeOK, EngineTypeOK, Level, Whole
<1>2. QED
  BY <1>1 DEF RegistryIsTracked, NothingIsForgotten, DownIsEmpty, CompletionWasHeard, Entries, As

LEMMA DownloadsUnchanged ==
  ASSUME DownloadsInv, UNCHANGED vars
  PROVE  DownloadsInv'
BY DEF DownloadsInv, vars, engineVars, serviceVars, DownloadsTypeOK, EngineTypeOK, RegistryIsTracked,
       NothingIsForgotten, DownIsEmpty, CompletionWasHeard, Entries, As

LEMMA DownloadsStep ==
  ASSUME DownloadsInv, [Next]_vars
  PROVE  DownloadsInv'
<1>1. ASSUME NEW h \in Hashes, NEW b \in BOOLEAN, Remove(h, b) PROVE DownloadsInv'
  BY <1>1, RemoveInv
<1>2. ASSUME NEW h \in Hashes, TogglePause(h) \/ \E b \in BOOLEAN : ApiPause(h, b) PROVE DownloadsInv'
  BY <1>2, PauseInv
<1>3. ASSUME NEW h \in Hashes, Add(h) \/ AddFromFile(h) \/ RegisterSeed(h) PROVE DownloadsInv'
  BY <1>3, AddInv
<1>4. ASSUME NEW h \in Hashes, Reactor(h), UNCHANGED serviceVars PROVE DownloadsInv'
  BY <1>4, ReactorInv
<1>5. ASSUME NEW h \in Hashes, SelectFiles(h) PROVE DownloadsInv'
  BY <1>5, SelectFilesInv
<1>6. ASSUME NEW h \in Hashes, ContentDeleted(h) PROVE DownloadsInv'
  BY <1>6, ContentDeletedInv
<1>7. CASE OnUpdateTimer
  BY <1>7, OnUpdateTimerInv
<1>8. ASSUME NEW bt \in BOOLEAN, NEW ok \in SUBSET Hashes, Start(bt, ok) PROVE DownloadsInv'
  BY <1>8, StartInv
<1>9. ASSUME NEW write \in SessionWrites, Stop(write) PROVE DownloadsInv'
  BY <1>9, StopInv
<1>10. CASE Crash
  BY <1>10, CrashInv
<1>11. CASE UNCHANGED vars
  BY <1>11, DownloadsUnchanged
<1>12. QED
  BY <1>1, <1>2, <1>3, <1>4, <1>5, <1>6, <1>7, <1>8, <1>9, <1>10, <1>11 DEF Next, Working, RunEnds

-----------------------------------------------------------------------------
(* Whatever the exporter does, the downloads go on as if it were not there: *)
(* TorrentExport implements Downloads.                                      *)
THEOREM ExporterOnlyReads == ExportSpec => Init /\ [][Next]_vars
<1>1. ExportInit => Init
  BY DEF ExportInit
<1>2. [ExportNext]_<<vars, exportVars>> => [Next]_vars
  <2> SUFFICES ASSUME [ExportNext]_<<vars, exportVars>> PROVE [Next]_vars
    OBVIOUS
  <2>1. ASSUME NEW h \in Hashes, RequestExport(h) PROVE UNCHANGED vars
    BY <2>1 DEF RequestExport
  <2>2. ASSUME NEW h \in Hashes, Answers(h) PROVE UNCHANGED vars
    BY <2>2 DEF Answers, FetchAnswers, Deliver
  <2>3. QED
    BY <2>1, <2>2 DEF ExportNext, Next
<1>3. QED
  BY <1>1, <1>2, PTL DEF ExportSpec

THEOREM DownloadsInvariant == Init /\ [][Next]_vars => []DownloadsInv
BY DownloadsInitInv, DownloadsStep, PTL

(* Client, registry and tab agree on which torrents there are, which are    *)
(* paused and which are done, for any number of torrents, polls and runs.   *)
THEOREM RegistryStaysTracked == (Spec => []RegistryIsTracked) /\ (ExportSpec => []RegistryIsTracked)
<1>1. DownloadsInv => RegistryIsTracked
  BY DEF DownloadsInv
<1>2. QED
  BY <1>1, ExporterOnlyReads, DownloadsInvariant, PTL DEF Spec

(* A wish - a download added, paused, resumed or removed - is lost by a run *)
(* that ends unsaved, a torn file or a failed restore, and by nothing else. *)
THEOREM NothingGetsForgotten == (Spec => []NothingIsForgotten) /\ (ExportSpec => []NothingIsForgotten)
<1>1. DownloadsInv => NothingIsForgotten
  BY DEF DownloadsInv
<1>2. QED
  BY <1>1, ExporterOnlyReads, DownloadsInvariant, PTL DEF Spec

-----------------------------------------------------------------------------
(* The exporter's own state.                                                *)
ExportInv ==
  /\ DownloadsInv
  /\ ExportTypeOK
  /\ MarksAreTruthful

LEMMA RequestExportInv ==
  ASSUME ExportTypeOK, MarksAreTruthful, NEW h \in Hashes, RequestExport(h), DownloadsTypeOK'
  PROVE  ExportTypeOK' /\ MarksAreTruthful'
<1> USE DEF RequestExport
<1> DEFINE known == client[h].held /\ client[h].meta
<1>1. CASE h \in cache \/ ~btUp
  BY <1>1 DEF ExportTypeOK, MarksAreTruthful
<1>2. CASE ~(h \in cache \/ ~btUp) /\ h \in inFlight
  BY <1>2 DEF ExportTypeOK, MarksAreTruthful
<1>3. CASE ~(h \in cache \/ ~btUp) /\ h \notin inFlight /\ known
  <2>1. /\ DOMAIN posted' = DOMAIN posted \union {h} /\ posted'[h] = TRUE
        /\ \A x \in DOMAIN posted : x # h => posted'[x] = posted[x]
    BY <1>3 DEF Put
  <2>2. QED
    BY <1>3, <2>1 DEF ExportTypeOK, MarksAreTruthful
<1>4. CASE ~(h \in cache \/ ~btUp) /\ h \notin inFlight /\ ~known
  BY <1>4 DEF ExportTypeOK, MarksAreTruthful
<1>5. QED
  BY <1>1, <1>2, <1>3, <1>4

LEMMA AnswersInv ==
  ASSUME ExportTypeOK, MarksAreTruthful, NEW h \in Hashes, Answers(h), DownloadsTypeOK'
  PROVE  ExportTypeOK' /\ MarksAreTruthful'
<1>1. ASSUME NEW b \in BOOLEAN, FetchAnswers(h, b) PROVE ExportTypeOK' /\ MarksAreTruthful'
  <2>1. /\ DOMAIN posted' = DOMAIN posted \union {h} /\ posted'[h] = b
        /\ \A x \in DOMAIN posted : x # h => posted'[x] = posted[x]
    BY <1>1 DEF FetchAnswers, Put
  <2>2. QED
    BY <1>1, <2>1 DEF FetchAnswers, ExportTypeOK, MarksAreTruthful
<1>2. ASSUME NEW b \in BOOLEAN, Deliver(h, b) PROVE ExportTypeOK' /\ MarksAreTruthful'
  <2>1. /\ DOMAIN posted' = DOMAIN posted \ {h}
        /\ \A x \in DOMAIN posted' : posted'[x] = posted[x]
    BY <1>2 DEF Deliver, Without
  <2>2. QED
    BY <1>2, <2>1 DEF Deliver, ExportTypeOK, MarksAreTruthful
<1>3. QED
  BY <1>1, <1>2 DEF Answers

LEMMA ExportInitInv == ExportInit => ExportInv
BY DownloadsInitInv DEF ExportInit, ExportInv, DownloadsInv, ExportTypeOK, MarksAreTruthful, Empty

LEMMA ExportStep ==
  ASSUME ExportInv, [ExportNext]_<<vars, exportVars>>
  PROVE  ExportInv'
<1>1. ASSUME NEW h \in Hashes, RequestExport(h) PROVE ExportInv'
  <2>1. DownloadsInv'
    BY <1>1, DownloadsUnchanged DEF RequestExport, ExportInv
  <2>2. QED
    BY <1>1, <2>1, RequestExportInv DEF ExportInv, DownloadsInv
<1>2. ASSUME NEW h \in Hashes, Answers(h) PROVE ExportInv'
  <2>1. DownloadsInv'
    BY <1>2, DownloadsUnchanged DEF Answers, FetchAnswers, Deliver, ExportInv
  <2>2. QED
    BY <1>2, <2>1, AnswersInv DEF ExportInv, DownloadsInv
<1>3. CASE Working /\ UNCHANGED exportVars
  <2>1. DownloadsInv'
    BY <1>3, DownloadsStep DEF Next, ExportInv
  <2>2. QED
    BY <1>3, <2>1 DEF ExportInv, DownloadsInv, ExportTypeOK, MarksAreTruthful, exportVars
<1>4. CASE RunEnds /\ ExporterGone
  <2>1. DownloadsInv'
    BY <1>4, DownloadsStep DEF Next, ExportInv
  <2>2. QED
    BY <1>4, <2>1 DEF ExportInv, DownloadsInv, ExportTypeOK, MarksAreTruthful, ExporterGone, Empty
<1>5. CASE UNCHANGED <<vars, exportVars>>
  <2>1. DownloadsInv'
    BY <1>5, DownloadsUnchanged DEF ExportInv
  <2>2. QED
    BY <1>5, <2>1 DEF ExportInv, DownloadsInv, ExportTypeOK, MarksAreTruthful, exportVars
<1>6. QED
  BY <1>1, <1>2, <1>3, <1>4, <1>5 DEF ExportNext

THEOREM ExportInvariant == ExportSpec => []ExportInv
BY ExportInitInv, ExportStep, PTL DEF ExportSpec

(* The state of the engine, the registry, the session, the tab and the      *)
(* exporter keeps its types.                                                *)
THEOREM ExportTypeCorrect == ExportSpec => []ExportTypeOK
<1>1. ExportInv => ExportTypeOK
  BY DEF ExportInv
<1>2. QED
  BY <1>1, ExportInvariant, PTL

(* The safety half of EveryExportIsAnswered: a hash is marked exactly while *)
(* one fetch or posted result will take the mark off, and nobody waits for  *)
(* a hash that is not marked.                                               *)
THEOREM MarksStayTruthful == ExportSpec => []MarksAreTruthful
<1>1. ExportInv => MarksAreTruthful
  BY DEF ExportInv
<1>2. QED
  BY <1>1, ExportInvariant, PTL
=============================================================================
