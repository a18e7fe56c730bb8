----------------------------- MODULE Downloads -----------------------------
(* DownloadService and TorrentSessionStore over the engine, and the rows of
   DownloadsWidget, which hears of the registry through signals only.

   Every operation runs on the main thread and its signals reach the widget at
   once, so an operation and what the widget does about it are one action; the
   reactor moves between any two of them, also between the reads of one poll.
   The registry lives in memory: what a run leaves for the next one is the
   session file, which only an orderly stop writes, and whose writing may fail
   without anybody hearing of it, and the resume files. *)
EXTENDS TorrentEngine, FiniteSets
CONSTANT MaxRuns           \* bound: starts of the program
VARIABLES
    up,                    \* the application runs
    runs,                  \* starts so far
    downloads,             \* downloads_: the registry, a function on its hashes
    session,               \* torrents_session.json: a function, or Torn
    rows,                  \* downloadItems_: the widget's rows
    wanted,                \* history: hash -> how the user last left it
    kept                   \* history: hash -> what became of that wish

serviceVars == <<up, runs, downloads, session, rows, wanted, kept>>
vars == <<engineVars, serviceVars>>

ASSUME MaxRunsIsNat == MaxRuns \in Nat

Empty == [h \in {} |-> TRUE]
Torn == [h \in {"torn"} |-> TRUE]     \* a session file that was cut short
ASSUME TornIsNoHash == "torn" \notin Hashes

Put(f, h, v) == [x \in DOMAIN f \cup {h} |-> IF x = h THEN v ELSE f[x]]
Without(f, S) == [x \in DOMAIN f \ S |-> f[x]]

\* sent is lastProgress, the payload the last broadcast carried.
Payload == [got : Level, paused : BOOLEAN, completed : BOOLEAN, removeOnDone : BOOLEAN]
NoPayload == [got |-> -1, paused |-> FALSE, completed |-> FALSE, removeOnDone |-> FALSE]
Download == [ready : BOOLEAN, completed : BOOLEAN, paused : BOOLEAN,
             removeOnDone : BOOLEAN, files : BOOLEAN, chosen : BOOLEAN,
             got : Level, sent : Payload \cup {NoPayload}]
Entry == [completed : BOOLEAN, paused : BOOLEAN, removeOnDone : BOOLEAN,
          files : BOOLEAN, chosen : BOOLEAN, got : Level]
Row == [completed : BOOLEAN, paused : BOOLEAN]
PartialOn(S, V) == UNION {[T -> V] : T \in SUBSET S}

\* The histories. A wish is unsaved until a session file holds it, and lost once
\* a run ended without one, the file was cut short, or a start could not restore
\* the download; it stays lost until the user says again what he wants.
Wishes == {"absent", "running", "paused"}
Fates == {"unsaved", "saved", "lost"}
As(f, h) == IF h \notin DOMAIN f THEN "absent" ELSE IF f[h].paused THEN "paused" ELSE "running"
Wish(h, as) == wanted' = [wanted EXCEPT ![h] = as] /\ kept' = [kept EXCEPT ![h] = "unsaved"]

DownloadsTypeOK ==
    /\ EngineTypeOK
    /\ up \in BOOLEAN /\ runs \in 0..MaxRuns
    /\ DOMAIN downloads \subseteq Hashes
    /\ \A h \in DOMAIN downloads : downloads[h] \in Download
    /\ \/ session = Torn
       \/ DOMAIN session \subseteq Hashes /\ \A h \in DOMAIN session : session[h] \in Entry
    /\ DOMAIN rows \subseteq Hashes /\ \A h \in DOMAIN rows : rows[h] \in Row
    /\ wanted \in [Hashes -> Wishes] /\ kept \in [Hashes -> Fates]

\* A session of an earlier release may ask for removal once done: nothing in
\* this release sets the flag.
Init ==
    /\ EngineInit
    /\ up = FALSE /\ runs = 0
    /\ downloads = Empty /\ rows = Empty
    /\ session \in PartialOn(Hashes,
          [completed : {FALSE}, paused : {FALSE}, removeOnDone : {TRUE},
           files : {FALSE}, chosen : {FALSE}, got : {0}])
    /\ wanted = [h \in Hashes |-> As(session, h)] /\ kept = [h \in Hashes |-> "saved"]

----------------------------------------------------------------------------
(* The registry entries the operations make. *)
New == [ready |-> FALSE, completed |-> FALSE, paused |-> FALSE, removeOnDone |-> FALSE,
        files |-> FALSE, chosen |-> FALSE, got |-> 0, sent |-> NoPayload]
FromFile == [New EXCEPT !.ready = TRUE, !.files = TRUE]
Seeding == [FromFile EXCEPT !.completed = TRUE, !.got = Whole]

\* applySnapshot(): every detail is the engine's, the file selection starts over.
ApplySnapshot(d, t) ==
    [d EXCEPT !.got = t.got, !.completed = IsComplete(t), !.ready = t.meta,
              !.files = TRUE, !.chosen = FALSE]

\* restore(): seeded from the session, so a finished torrent shows as finished
\* before the recheck; what loadSession() applies afterwards is included.
Restored(e, t) ==
    LET seeded == [New EXCEPT !.completed = e.completed, !.got = e.got, !.files = e.files]
        known == IF t.meta THEN ApplySnapshot(seeded, t) ELSE seeded
    IN  [known EXCEPT !.completed = @ \/ e.completed,
                      !.paused = e.paused, !.removeOnDone = e.removeOnDone,
                      !.chosen = e.chosen /\ e.files]

\* Mutant: a paused download is saved as a running one.
SavedRunning(d) == [completed |-> d.completed, paused |-> FALSE, removeOnDone |-> d.removeOnDone,
                    files |-> d.files, chosen |-> d.chosen, got |-> d.got]

\* What save() writes of a download.
Saved(d) == [completed |-> d.completed, paused |-> d.paused, removeOnDone |-> d.removeOnDone,
             files |-> d.files, chosen |-> d.chosen, got |-> d.got]

ProgressJson(d) == [got |-> d.got, paused |-> d.paused, completed |-> d.completed,
                    removeOnDone |-> d.removeOnDone]

(* What the widget makes of a signal. setCompleted() is sticky: afterwards the
   row ignores progress and pauses. *)
SetPaused(r, p) == IF r.completed THEN r ELSE [r EXCEPT !.paused = p]
OnDownloadStarted(h) ==
    IF h \in DOMAIN rows THEN rows ELSE Put(rows, h, [completed |-> FALSE, paused |-> FALSE])
OnProgressUpdated(r, p) ==
    IF p.completed THEN [r EXCEPT !.completed = TRUE] ELSE SetPaused(r, p.paused)

\* Mutant: completion is left to downloadCompleted, which the restore emitted
\* before there was a widget.
LoadActive(ds) == [h \in DOMAIN ds |-> [completed |-> FALSE, paused |-> ds[h].paused]]

LoadDownloads(ds) ==
    [h \in DOMAIN ds |-> [completed |-> ds[h].completed,
                          paused |-> ds[h].paused /\ ~ds[h].completed]]

----------------------------------------------------------------------------
(* add(), addWithInfo(), addFromFile() and registerSeed() differ in what the
   client is given and in what is known of the torrent at once. *)
Registered(h, d, torrent) ==
    /\ up /\ btUp /\ h \notin DOMAIN downloads
    /\ client' = [client EXCEPT ![h] = torrent]
    /\ downloads' = Put(downloads, h, d)
    /\ Wish(h, "running")
    /\ UNCHANGED <<btUp, resumeFile, up, runs, session>>

Add(h) ==
    /\ Registered(h, New, AddMagnet(h))
    /\ rows' = OnDownloadStarted(h)
    /\ UNCHANGED content

AddFromFile(h) ==
    /\ Registered(h, FromFile, AddTorrentFile(h))
    /\ rows' = OnDownloadStarted(h)
    /\ UNCHANGED content

\* TorrentCreator::createAndSeed(): the content is on disk, whole.
RegisterSeed(h) ==
    /\ Registered(h, Seeding, CreateAndSeed(h))
    /\ content' = [content EXCEPT ![h] = Whole]
    /\ rows' = Put(rows, h, [completed |-> TRUE, paused |-> FALSE])

Remove(h, saveResumeData) ==
    /\ up /\ h \in DOMAIN downloads
    /\ downloads' = Without(downloads, {h})
    /\ resumeFile' = IF saveResumeData THEN SaveResumeData({h}) ELSE resumeFile
    /\ client' = RemoveTorrent(h)
    /\ rows' = Without(rows, {h})
    /\ Wish(h, "absent")
    /\ UNCHANGED <<btUp, content, up, runs, session>>

\* pause() and resume(), as the API calls them: the widget hears nothing.
SetPause(h, p) ==
    /\ up /\ h \in DOMAIN downloads /\ downloads[h].paused # p
    /\ downloads' = [downloads EXCEPT ![h].paused = p]
    /\ client' = PauseTorrent(h, p)
    /\ Wish(h, IF p THEN "paused" ELSE "running")
    /\ UNCHANGED <<btUp, content, resumeFile, up, runs, session>>

ApiPause(h, p) == SetPause(h, p) /\ UNCHANGED rows

\* The row's own button, which opens the folder once the row is completed.
TogglePause(h) ==
    /\ h \in DOMAIN rows /\ ~rows[h].completed
    /\ \E p \in BOOLEAN : SetPause(h, p) /\ rows' = [rows EXCEPT ![h] = SetPaused(@, p)]

SelectFiles(h) ==
    /\ up /\ h \in DOMAIN downloads /\ downloads[h].files /\ ~downloads[h].chosen
    /\ downloads' = [downloads EXCEPT ![h].chosen = TRUE]
    /\ UNCHANGED <<engineVars, up, runs, session, rows, wanted, kept>>

----------------------------------------------------------------------------
(* The one-second poll. *)
NewlyCompleted(h) == client[h].held /\ IsComplete(client[h]) /\ ~downloads[h].completed

\* Mutant: only the details bring completion.
PolledOnce(d, t) ==
    LET seen == IF t.meta /\ ~d.ready THEN ApplySnapshot(d, t) ELSE [d EXCEPT !.got = t.got]
    IN  IF t.held THEN [seen EXCEPT !.sent = ProgressJson(seen)] ELSE d

\* pollStatus() for one download: details when the metadata has just arrived,
\* live counters otherwise, and completion from the engine.
Polled(d, t) ==
    LET seen == IF t.meta /\ ~d.ready THEN ApplySnapshot(d, t) ELSE [d EXCEPT !.got = t.got]
        now == [seen EXCEPT !.completed = @ \/ IsComplete(t)]
    IN  IF t.held THEN [now EXCEPT !.sent = ProgressJson(now)] ELSE d

ToRemove == {h \in DOMAIN downloads : NewlyCompleted(h) /\ downloads[h].removeOnDone}

OnUpdateTimer ==
    /\ up /\ btUp
    /\ LET polled == [h \in DOMAIN downloads |-> Polled(downloads[h], client[h])]
           heard == [h \in DOMAIN rows |->
                       IF polled[h].sent = downloads[h].sent THEN rows[h]
                       ELSE OnProgressUpdated(rows[h], polled[h].sent)]
       IN  /\ downloads' = Without(polled, ToRemove)
           /\ rows' = Without(heard, ToRemove)
    /\ client' = [h \in Hashes |-> IF h \in ToRemove THEN NoTorrent ELSE client[h]]
    /\ wanted' = [h \in Hashes |-> IF h \in ToRemove THEN "absent" ELSE wanted[h]]
    /\ kept' = [h \in Hashes |-> IF h \in ToRemove THEN "unsaved" ELSE kept[h]]
    /\ UNCHANGED <<btUp, content, resumeFile, up, runs, session>>

----------------------------------------------------------------------------
(* Runs of the program. *)

\* TorrentSessionStore::load(): a file cut short is no session at all.
Entries == IF session = Torn THEN Empty ELSE session

\* The client accepts the entries of ok; BitTorrent may not come up at all, and
\* then nothing is restored. The widget is built afterwards, from the registry.
Start(bt, ok) ==
    /\ ~up /\ runs < MaxRuns
    /\ ok \subseteq DOMAIN Entries /\ (bt \/ ok = {})
    /\ up' = TRUE /\ runs' = runs + 1 /\ btUp' = bt
    /\ LET added == [h \in Hashes |-> IF h \in ok THEN AddMagnetResumed(h) ELSE NoTorrent]
           restored == [h \in ok |-> Restored(Entries[h], added[h])]
       IN  /\ downloads' = restored
           /\ client' = [h \in Hashes |->
                           [added[h] EXCEPT !.paused = h \in ok /\ Entries[h].paused]]
           /\ rows' = LoadDownloads(restored)
    /\ kept' = [h \in Hashes |-> IF h \in DOMAIN Entries \ ok THEN "lost" ELSE kept[h]]
    /\ UNCHANGED <<content, resumeFile, session, wanted>>

Down ==
    /\ up' = FALSE /\ btUp' = FALSE
    /\ client' = [h \in Hashes |-> NoTorrent]
    /\ downloads' = Empty /\ rows' = Empty
    /\ UNCHANGED <<content, runs>>

(* save() has three outcomes and stop() takes no notice of them: the file is
   written, or removed for an empty registry; it cannot be opened, or removed,
   and the old one stays; it is truncated and not written whole. *)
SessionWrites == {"written", "unopened", "torn"}

\* saveSession(), before the transport stops. A crash inside it leaves what one
\* of the failing writes leaves.
Stop(write) ==
    /\ up /\ Down
    /\ write = "torn" => DOMAIN downloads # {}
    /\ resumeFile' = SaveResumeData(DOMAIN downloads)
    /\ session' = CASE write = "written" -> [h \in DOMAIN downloads |-> Saved(downloads[h])]
                    [] write = "unopened" -> session
                    [] write = "torn" -> Torn
    /\ kept' = [h \in Hashes |->
                  IF write = "torn" \/ kept[h] = "lost" THEN "lost"
                  ELSE IF kept[h] = "saved" \/ write = "written" THEN "saved" ELSE "lost"]
    /\ UNCHANGED wanted

\* A crash keeps the file of an earlier stop.
Crash ==
    /\ up /\ Down
    /\ kept' = [h \in Hashes |-> IF kept[h] = "unsaved" THEN "lost" ELSE kept[h]]
    /\ UNCHANGED <<resumeFile, session, wanted>>

\* The user deletes files while the program is down.
ContentDeleted(h) ==
    /\ ~up /\ runs < MaxRuns /\ content[h] > 0
    /\ content' = [content EXCEPT ![h] = 0]
    /\ UNCHANGED <<btUp, client, resumeFile, serviceVars>>

RunEnds == Crash \/ \E write \in SessionWrites : Stop(write)

Working ==
    \/ \E h \in Hashes :
          \/ Reactor(h) /\ UNCHANGED serviceVars
          \/ Add(h) \/ AddFromFile(h) \/ RegisterSeed(h)
          \/ \E b \in BOOLEAN : Remove(h, b) \/ ApiPause(h, b)
          \/ TogglePause(h) \/ SelectFiles(h) \/ ContentDeleted(h)
    \/ OnUpdateTimer
    \/ \E bt \in BOOLEAN, ok \in SUBSET Hashes : Start(bt, ok)

Next == Working \/ RunEnds

\* The timer fires every second while the program runs.
Spec == Init /\ [][Next]_vars /\ WF_vars(OnUpdateTimer)
----------------------------------------------------------------------------
\* Between two operations the registry and the client agree on which torrents
\* there are and which of them are paused, and the widget has one row for each,
\* completed for whatever the registry calls completed. (DownloadService erases
\* or inserts and calls the engine in separate steps; the widget is told by five
\* signals, and is built after the session was restored.)
RegistryIsTracked ==
    /\ {h \in Hashes : client[h].held} = DOMAIN downloads
    /\ \A h \in DOMAIN downloads : client[h].paused = downloads[h].paused
    /\ DOMAIN rows = DOMAIN downloads
    /\ \A h \in DOMAIN downloads : downloads[h].completed => rows[h].completed

\* Whatever starts, stops and crashes come in between, a download is there,
\* paused or running, or is not there, as the user last left it, and the session
\* file says so as soon as one was written since. What costs a wish is named
\* where it happens (kept): a run that ends before the wish was saved, be it by
\* a crash or because the save failed, a file cut short, and a start that cannot
\* restore. Nothing else does: no other order of operations, polls and runs,
\* and no failure that concerned another download. (save(), load(), restore()
\* and loadSession()'s second pass each carry a part of it.)
NothingIsForgotten ==
    \A h \in Hashes : kept[h] # "lost" =>
        /\ up => As(downloads, h) = wanted[h]
        /\ kept[h] = "saved" => As(Entries, h) = wanted[h]
        /\ ~up => kept[h] = "saved"

\* What the engine has finished the registry calls completed, or has removed,
\* before long. (pollStatus() is the only place that notices.)
DoneIsNoticed ==
    \A h \in Hashes :
        (client[h].held /\ IsComplete(client[h]))
            ~> (~up \/ h \notin DOMAIN downloads \/ downloads[h].completed)

=============================================================================
