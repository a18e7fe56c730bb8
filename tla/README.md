# Rats Search in TLA+

Rats Search is a peer-to-peer BitTorrent search program written in C++ with Qt.
It crawls the DHT, keeps an index of torrents in a Manticore database, and lets
nodes search, vote, publish and exchange whole databases with each other over
the librats network library. This directory holds TLA+ specifications of its
parts, TLC configurations that check them on small instances, and TLAPS proofs
that every safety invariant and action property those configurations check holds
for every value of the constants.

Paths below are relative to the repository's C++ sources (`src/` of the
repository).

## 1. The system

| Component | State | Operations | Talks to | Hard behaviour | What makes it correct |
|---|---|---|---|---|---|
| `services/database_sync_service` serving lane | a serve per peer, one snapshot job, sharing switch, rate table | request, cancel, disconnect, transfer finished, export finished, rebuild, switch | PeerApi, P2PTransport, DatabaseSnapshot, DatabaseExporter on a worker | peers join, leave and repeat themselves while an export runs and generations are pruned | slots bounded and returned, files being read stay, only whole dumps published, one dump per session |
| `services/database_sync_service` user's lane | one operation with id, token, deadline, transfer; partial files and notes on disk | export, import, pull, cancel, answers, beats, offers, outcomes, watchdog | the same, and IndexingService through the importer | a worker's completion, a cancel, a deadline, a disconnect and a transfer race to end one operation | ended once and truthfully, no second worker in the data layer, bytes continued only for the same dump |
| `services/database_snapshot` | generation counter, live dump, files, metadata | commit, prune, load | the serving lane | crashes between rename and metadata, metadata that cannot be written | the live file exists, no name is given out twice unless the record of the last one was lost |
| `services/database_exporter`, `PageQueue` | a bounded queue, cursor, file | push, pop, finish, close | repository, DumpWriter | two threads on one queue, failures and cancel on both sides, a table that changes | ordered and complete dump, no deadlock |
| `services/database_importer`, `database_dump` | offset, resume point | read, insert, save, finish | IndexingService | killed or cancelled anywhere, file replaced | the resume point never skips anything |
| `services/download_service`, `net/torrent_engine`, `services/torrent_session_store`, `ui/downloadswidget` | downloads under a mutex, librats' torrents, the session file, the rows of the tab | add, seed, pause, remove, select, poll, save, restore | librats, the window | the poll reads the engine without the mutex; a crash keeps the old session, and so may a stop | registry, client and rows agree; what the user wanted comes back unless a failure named in `kept` cost it; what is complete is noticed |
| `services/torrent_exporter` | cache, hashes in flight | request, answer, deliver | TorrentEngine | answers on another thread, repeated requests, a transport that goes | every request answered, every mark taken off |
| `data/torrent_repository`, `services/indexing_service`, `data/row_id` | the torrents table | insert, batch, merge, edit, remove | Manticore | two writers that look up first and write later, also inside `update()`; row ids that collide | a row changes hands only unseen |
| `services/voting_service`, `services/p2p_store` | own votes of the session, replicated records | vote, record stored | repository, librats | no store before the transport starts; sessions | a vote counts once; every record is announced |
| `net/crawler` | hash queue, fetch count, dedup set | announce, fetch, result, start, stop | librats, indexing | results after stop and after a restart | the limit holds, no slot is lost, every hash is settled |
| `net/scrape_queue`, `net/swarm_scraper`, `net/tracker_site_scraper`, `services/tracker_service` | running, queued and quiet hashes | submit, finish, clear, announces and replies | trackers, sites | promotion, slots, stop while announces run | no hash twice, no slot lost, every click answered |
| `data/manticore` | status, a child process, its binlog, the connection timer | start, wait, reset, probe, stop | searchd | a searchd left by a killed program, one that is slow, one that cannot replay its log | none is left behind, the log is thrown away only for cause |
| `services/migration_service` and the re-keying in `data/torrent_repository` | completed and running migration, state file | load, run, page, save, stop | repository, a worker thread | a kill in the middle of a page, stop while the database is gone | no row lost, done means done, closing ends |
| `app/application`, `main`, `bootstrap/*` | where the launch is | lock, legacy copy, start, stop | all services | failures on the way up, a kill anywhere, the order of stopping | the same over several launches |
| `app/config_store`, `services/peer_registry`, `services/replication_service` | settings in memory and in `rats.json`, followers, what peers were told | set, load, save, apply, connect | every service, peers | setters that set each other, a file edited or torn, a change while a message is on its way, a crawler that refuses to start | everyone goes by the settings |
| `services/feed_service`, `data/feed_repository` | a ranked, bounded list and its table | vote, exchange, replace, flush | peers | crossing answers, `replaceAll()` that deletes first | nodes that met agree, the table follows |
| `services/update_service` and its dialogs | state, replies under way, the prepared directory | check, download, verify, ask, install | the network, `update.check` | dialogs that run an event loop inside a signal | the updater starts only over what a download staged, a caller hears once at most, and once if nobody took its signal away |
| `rest/api_server`, `rest/api_router` | sockets, requests, timers, counters | connect, dispatch, look up, answer | every service | answers after the client left, timers against peers | every lookup ends, the counters add up |
| `torrent.cleanup` | a cursor over the index | page, remove | repository | inserts beside the sweep | no row is passed over |
| `ui/mainwindow`, `ui/searchresultmodel`, `services/search_service`, `ui/torrentdetailspanel`, `ui/activitywidget` | query, rows, the torrent selected and what is shown of it, the news | search, select, hits, images, counts | services, peers | answers for what is no longer shown, downloads begun elsewhere | what is shown belongs together |
| `net/p2p_transport`, `peer/peer_api` | connected peers, registered handlers | send, dispatch, files | librats | callbacks on library threads, hopped to the main thread | order within a stream |
| `domain/*`, `data/query`, other stores and widgets | none that another part depends on | conversion, storage, presentation | the services | - | - |

How a database exchange goes: A sends `databaseRequest` with a session id and
the name of the dump it holds a part of. B refuses, offers a generation it has
(a `databaseRequest_response` with its name, and a file), or makes A wait for
an export it starts, with heartbeats. A accepts the file, continuing a partial
one if its note fits, and imports it when it is complete. `databaseCancel`
withdraws at any point. Sessions, timers, two streams without a common order,
disconnects and crashes can come between any two of these.

How the program lives: `main()` takes the lock of the data directory, copies the
index of an Electron installation if there is one and none of its own, builds
`Application` (settings, Manticore, services), starts searchd, runs the
blocking migrations, starts the transport and the rest, and leaves the other
migrations on a thread. The main thread runs an event loop: handlers run to
their end, what librats and the workers bring is posted to it. A close stops
the services in a fixed order.

## 2. The modules

| Module | Models | Kind |
|---|---|---|
| `DatabaseSnapshot` | `services/database_snapshot.{h,cpp}`: generations, live dump, metadata, crashes in `commit()` | state and operators used by `DatabaseServe` |
| `DatabaseServe` | the serving lane of `services/database_sync_service.cpp` | specification |
| `DatabasePull` | the user's lane of the same file and `database_transfer_resume.cpp` | specification |
| `DatabaseExchange` | what a pull promises, with no word of how | abstract specification |
| `DatabaseSync` | a node that pulls and one that serves, with librats between them | composition of `DatabasePull` and `DatabaseServe` |
| `DatabaseExport` | `DatabaseExporter::run()` and `PageQueue` | specification |
| `DatabaseImport` | `DatabaseImporter::run()`, `DumpReader` and the resume point | specification |
| `DatabaseDump` | the last two, one at a time | composition |
| `TorrentEngine` | `net/torrent_engine.cpp` over the librats client | operations used by `Downloads` |
| `Downloads` | `download_service`, `torrent_session_store`, the rows of `downloadswidget`, starts, stops and crashes | specification |
| `TorrentExport` | `torrent_exporter.cpp`, beside all of `Downloads` | specification |
| `TorrentIndex` | `torrent_repository`, `indexing_service`, `row_id`, `filter_policy` | the table the next three write to |
| `Voting` | `voting_service`, `p2p_store` | with `TorrentIndex` |
| `Crawler` | `net/crawler.cpp` | with `TorrentIndex` |
| `ScrapeQueue` | `net/scrape_queue.cpp` | operators on a queue |
| `Trackers` | `swarm_scraper`, `tracker_site_scraper`, `tracker_service` | with `ScrapeQueue` |
| `Discovery` | the four together | composition |
| `Manticore` | `data/manticore.cpp` | the process and its log |
| `Migration` | `migration_service` and `migrateRowIdPage()` | the two kinds of migrations |
| `Lifecycle` | `main()`, `Application::start()` and `stop()`, `single_instance`, `legacymigration` | composition of the two |
| `Settings` | `config_store`, `applyConfig()`, `peer_registry`, `replication_service` on and off | specification |
| `Feed` | `feed_service`, `feed_repository`, the feed messages of `peer_api`, at two nodes | specification |
| `Updates` | `update_service`, the window's dialogs, `update.check` | specification |
| `RestApi` | `api_server`, `api_router` | specification |
| `Cleanup` | `torrent.cleanup` beside an import | specification |
| `SearchView` | `performSearch()`, `searchresultmodel`, `search_service`, the search messages of `peer_api` | specification |
| `DetailsPanel` | `torrentdetailspanel.cpp` and the window's wiring to it | specification |
| `Activity` | `activitywidget.cpp` | specification |
| `FrontEnds` | the last eight, one at a time | composition |
| `DatabaseServeProofs`, `DatabasePullProofs` | theorems about the two lanes | proofs |
| `DatabaseSyncProofs` | theorems about the composition, and that it implements `DatabaseExchange` | proofs |
| `DumpProofs` | theorems about `DatabaseExport` and `DatabaseImport` | proofs |
| `DownloadsProofs` | theorems about `Downloads` and `TorrentExport` | proofs |
| `DiscoveryProofs`, `LifecycleProofs`, `FrontEndsProofs` | theorems about the three compositions | proofs |
| `MC...` | instances for TLC | model values, symmetry, bounds |

Definitions that begin a comment with "Mutant" are plausible bugs of the
definition that follows them. No action uses them; each breaks one property,
which shows that the property depends on the code.

In `Discovery`, `FrontEnds` and `DatabaseDump` the parts hold no state in common,
or meet only in the operations of the index, so a run follows one part at a time:
the variable `part` (`end` in `DatabaseDump`) says which, and the invariants and liveness are those of all.

### 2.1 DatabaseSnapshot and DatabaseServe

`generation`, `live`, `meta` and `disk` are `generation_`, `info_`,
`snapshot.json` and the directory; `temp` is the export's temporary file.
`serves` is `serves_`, with `NoServe` for a peer that is not in the map; a serve
waits (`waiting`) or sends `file` (`sending` for `transferId != 0`; a serve
offers one file, so its session names the transfer). `job` is `snapshotJob_`
with its worker: `running`, `stopping` (token cancelled), and `whole` or
`failed` once the worker has returned and its completion is queued.

* One action per handler, since handlers run to their end on the main thread:
  `HandlePeerRequest` with its branches in the order of the code,
  `HandlePeerCancel`, `OnPeerDisconnected`, `OnTransferFinished`,
  `OnSnapshotFinished` (publish and offer to all waiters, or drop them),
  `RebuildSnapshot`, `SetSharingEnabled`.
* `dropServe()` prunes and may cancel the export: `DropServe` does both, and is
  what every leaving peer amounts to.
* `WorkerEnds` is the worker's own step, between which and
  `OnSnapshotFinished` any handler may run.
* `Drift` (freshness), `room` (disk space), `able` (transport up, index not
  empty) and `sent` (librats took the offer) are inputs.
* `ServeRestart` is a shutdown or a crash between handlers;
  `DiesInsideCommit` one inside `commit()`, after the rename and before the
  metadata is written again (`truncated`: after it was opened).
* `writeMetadata()` may find `snapshot.json` unwritable, or write part of it, and
  `commit()` reports success all the same: `Publish(write)` takes each outcome.
  `metaState` says whether the record is current, behind the generation that was
  published, or has been behind or gone when a restart counted on from it
  (`lost`). In that last case the counter gives a name out again, against the
  comment at `database_snapshot.cpp:90-91`, and `CounterCoversNames` excepts it
  by name. Everything else in `FilesAreRight` holds in that case, too.
* `WaitersAreTold` is what the comment at `database_sync_service.cpp:850-852`
  promises, and the run of that name shows where the code does not keep it.
* The serving half of `onTransferFinished()` treats success and failure
  alike, so the outcome is not distinguished.

### 2.2 DatabasePull

`op` is `local_`; its `id` is the operation id, which is also the session of
its messages, and grows. `workers` holds each QtConcurrent worker until its
completion has run. `part`, `note`, `received` are the three files of a peer
(`.ratsdb.part`, `.part.json`, `.ratsdb`). `incoming` and `ended` are librats':
transfers being received, and outcomes in the event queue. `succeeded`,
`failed` and `done` are history.

* `FinishLocal(i, success)` carries the identity check of `finishLocal()`, and
  `Report` all of its effects: `cancelFile`, `databaseCancel`, the reset.
* `OnFileOffered` has the order of the code: reject, trust or discard the
  partial, check space, write the note, accept, set the transfer, clear the
  deadline.
* Dumps are told apart by their size, as `offsetFor()` does, so a dump is its
  size and its name a number.
* `EarlierCompletionsRan`: the Qt event queue is first in, first out, so a
  network event of an operation is handled after the completions that were
  queued before the operation began.
* The deadline is `set`, then `running` once time begins to tell (`TimePasses`),
  and a beat or an answer in between sets it again (`PutOff`). A peer may do that
  for ever; `EveryOperationEnds` is therefore an implication, of which the
  antecedent says that from some point on no peer does.
* `PullRestart` is a crash or shutdown with the sweep of files older than a
  day: any subset, as ages are not modelled.

### 2.3 DatabaseSync and DatabaseExchange

`A` is an instance of `DatabasePull` with the server as its one peer, `B` of
`DatabaseServe` with the client as its one peer. Each step of one is joined
with what it puts on the wire (`ClientSends`, `ServerSends`) and each incoming
step with the message it takes off. Messages and files are two first-in,
first-out streams; nothing orders one against the other, which is what the
code itself expects ("the file beat the answer here",
`database_sync_service.cpp`). `Break` loses both, and each end hears of it in
a step of its own. A message sent on a broken connection is lost and its sender
told nothing, as `sendMessage()` answers true while the transport runs: a pull
begun then waits for its deadline. Users of both nodes, the clock and the index
stay unconstrained.

`DatabaseExchange` says that the puller is idle, asking or merging, that it
comes to merge only from asking, and only a dump the server has published
whole. `ImplementsExchange` maps `op.kind` to the phase, `received` to the dump
it merges, and `named \ halfWritten` to what is published.

### 2.4 DatabaseExport and DatabaseDump

Two threads, `reader` (the thread of `run()`) and `writer` (the serialiser),
with a program counter each; every call under the queue's mutex, every query
and every row written is an action. A thread that waits is `parked` until a
notify sends it back to its test. `index` changes at any moment. `run()` really
ends, so deadlock is not an error here; that nobody is left parked is
`ExportReturns`, which `DatabaseDump` states of its export end. `stayed` (rows present from beginning to end) and
`readFailed` are history.

### 2.5 DatabaseImport

A dump has `Frames` frames, of which `Good` can be read before a bad one. The
worker reads, merges, saves; `CancelImport`, `Restart` (with a torn resume point) and
`Replace` (another dump at the path) come between any two. `RunReturns` is the
worker's last step, where the result is decided and the resume point cleared,
and `Completed` the completion it queued, which reports and removes the dump. `lost` are frames
whose write to the index failed without being reported by `insertBatch()`, and
`mistaken` the dumps continued at the point of a different one of the same
path and size, which `loadResumeOffset()` cannot tell apart: the invariants
exclude those two, by name. Names shared with `DatabaseExport` carry the prefix
`Import`, as `DumpProofs` extends both.

### 2.6 TorrentEngine, Downloads and TorrentExport

`client` is what librats tracks of each hash, `content` and `resumeFile` what
the disk has; `downloads` is the registry, `rows` the tab, `session` the file,
`up` the program. Each public operation of `DownloadService` is one action with
the engine call it makes, since it runs under `mutex_` on the main thread;
librats' reactor (`MetadataArrives`, `Recheck`, `Receive`) moves between any
two. `OnUpdateTimer` is a whole poll: statuses applied, rows told of what
differs from the last payload sent, completed ones removed if so asked. `Stop`
saves the session, or fails to: `save()` may find the file unwritable and leave
the old one, or write a part of it, and nobody looks at what it returned. `Crash`
leaves the file of an earlier stop, `Start` restores what can be read, with or
without BitTorrent. `wanted` and `kept` are histories: what the user last asked
of a download, and whether a session file holds that (`saved`), none has been
written since (`unsaved`), or a run ended in which it could not be kept (`lost`).
A wish that was lost is not forgotten by the history: it stays lost until the
user asks again, and `NothingIsForgotten` says that nothing but the failures
that set it costs a wish. Names, sizes, speeds and which files are
chosen are one flag or left out. In `TorrentExport` a request is answered from
the cache, from the client's metadata, or by a fetch whose result comes on
another thread and is posted.

### 2.7 TorrentIndex, Voting, Crawler, ScrapeQueue, Trackers, Discovery

Every lookup and every statement is an action of its own, of a *task*: what a
thread is in the middle of, the torrent that came in and the row that was read.
`reading` is the main thread's task, `batch` the import's, with what its
`getMany()` found, and the other may write between any two steps. So `update()`
is two: `resolve()`, and the REPLACE of the whole row with what its caller read
still earlier. `seen` is history: the row ids each thread has looked at, in the
course of a write, since the present owner of the row came there;
`RowsAreTakenUnseen` says that a thread changes another torrent's row only if it
has not. `RowIdOf` is a function of the hash that may
collide. In the crawler, `fetching` is librats' side of `activeFetches`, which
`stop()` sets to zero while fetches still run. A `ScrapeQueue` is a record and
each call an operator on it; `Trackers` has one for swarms, whose announces run
in parallel and report when the last is back, and one for sites, whose replies
come one by one, one of them asking for a second page. `Voting` starts with
`callback` as the constructor of `P2PStore` leaves it. Time is left out: a
quiet period ends at some point.

### 2.8 Manticore, Migration, Lifecycle

`searchd` is the process this program launched, `orphan` one of a program that
was killed. The wait in `start()` is a state (`waiting`), since it runs the
event loop. `blamed` is what the output of this launch says of the log: the
code reads the log file from where this launch began. `Migration` reads a page,
writes the new rows and deletes the old ones in three steps, a kill or a failed
write after each; `saved` (the state file) may be torn. `Lifecycle` is
`main()`: `Launch`, `Start`, the blocking migrations, `ComeUp`, `Stop`, and the
destructor's wait for the worker, with `Kill` anywhere.

### 2.9 Settings, Feed, Updates, RestApi, Cleanup

Six settings stand for all: two that force each other, one with a range, one
saved at once, and those that services start by. The typed setters are
sequences of writes. `network` is what the transport came up with, of which
`Application` does not ask, and `Crawler::start()` may refuse for want of it or
because librats throws; nobody looks at its answer, and it is asked again only by
the next change of a setting. `refused` marks such a refusal, and
`ServicesFollow` lets the crawler be off, while it should run, only then. `wire`
holds `client_info` messages to one peer. `Feed`
is two nodes; which item of a full list goes is open, as it depends on votes
and time. `Updates` has a stack of `frames`, since a dialog runs an event loop
inside the signal that opened it: what was connected later waits until it is
closed. What `write()` returned for the downloaded file is not looked at, so what
is `staged` may be cut. A dialog closed during its download leaves a lambda
connected that writes to its freed label (`stray`); what a write there does is
undefined, so the program may stop at it (`crashed`) or go on. `unheard` are the
callers that the menu's check took off `noUpdateAvailable` and those whose check
was dropped for a download. In `RestApi` a request holds the address of its socket, which may be
the next client's by the time of the answer; the forty methods are those
answered at once, by a worker, by a peer or the DHT. `Cleanup` pages by row id
while an import inserts.

### 2.10 SearchView, DetailsPanel, Activity

A query is the set of torrents it matches, a row its torrent and whether it is
marked as a peer's. Hits come one message at a time and may belong to the query
before. `DetailsPanel` keeps, for each widget, whose data it shows; images,
counts and votes arrive for the torrent that is selected or for one that was.
`transfer` is the registry's state of each download and `button` what the panel
offers: a download asked for in the panel changes both, one begun over the API
only the first (`unpolled`), until the next poll's `progressUpdated`.
`Activity` has the queue, its hash index, the list and the map behind it.

## 3. The runs

Passing:

| Run | Configuration | What it shows |
|---|---|---|
| `MCDatabaseServe` | 3 peers, 2 slots, 2 sessions per peer and 3 in all (2 once the counter is lost), 2 generations; peers symmetric; 252 thousand states | `FilesAreRight`: what is being sent or offered is on disk, only whole dumps are published, superseded ones go, the counter is past every name unless a restart counted on from a record that was not written. `ServesAreSound`: slots are bounded, waiters have a job, the answer names the file that follows. `OneDumpPerSession` |
| `MCDatabasePull` | 2 peers, 2 operations, 2 offers, 2 dumps; 169 thousand states | `LaneIsOwned`: one worker and one transfer, the current operation's. `ReportsAreTrue`: one report each, a success only for work done. `PartialsAreTrue`: bytes of one dump, and the note says which. `EveryOperationEnds`, unless a peer puts it off for ever |
| `DatabaseSync` | 2 sessions, 2 generations, 1 slot, no break; 3.9 million states | `BothEndsAgree`: each transfer received is one that is sent, each slot claimed by something in flight. `ImplementsExchange` |
| `SyncEnds` | 1 session, 2 generations, 1 break; 312 thousand states | `EveryExchangeEnds`: every pull ends and every slot is given back |
| `MCDatabaseDump` | an export of 5 row ids, pages of 2, a queue of 1, 1 fault; or imports from 2 paths of 3 dumps (one with a damaged frame, one with a damaged header and the size of the whole one), 1 fault; 1.5 million states | `DumpIsRight`: ordered, and complete if `run()` says so; `ExportReturns`; `NothingIsSkipped`: no interruption makes a resume skip a frame |
| `MCDownloads` | 1 hash, 3 runs of the program, the exporter beside it (`ExportSpec`); 242 thousand states | `RegistryIsTracked` between client, registry and tab; `NothingIsForgotten` over stops, saves that fail, and crashes; `MarksAreTruthful`: a hash is marked in flight exactly while something will take the mark off; `DoneIsNoticed`; `EveryExportIsAnswered` |
| `MCDiscovery` | 3 hashes of which 2 share a row id, our votes and one peer's, an import beside them, 2 sessions, 1 fetch, 1 stop, 1+1 scrape slots, 2 announces; 135 thousand states | `RowsAreTakenUnseen`, `VotesCountOnce`, `SlotsAreKept`, `EveryWishIsSettled` |
| `MCLifecycle` | 3 launches, 5 old rows in pages of 2, two wanting one row id, one already beside its new row; 262 thousand states | `NoSearchdIsLeft`, `DataIsKept` (no row and no needed log is lost), `RekeyedWhenDone`, `ClosingEnds` |
| `MCFrontEnds` | 2 launches over 4 settings files; 2 feeds of 2 of 3 items; 2 API callers, 3 checks, 2 downloads; an HTTP and a WebSocket address; 5 rows in pages of 2; 2 torrents and searches; 4 pieces of news; 1.1 million states | `SettingsAreFollowed`, `FeedsAgree`, `UpdatesAreSound`, `MetricsAddUp`, `EveryLookupEnds`, `SweepSkipsNothing`, `WindowIsTruthful` |

Why the bounds are enough for the interesting cases: three peers with two slots
make a full table, a refusal and a waiter beside a reader, and three requests
let one peer repeat itself; two generations make one superseded while it is
read. Two operations make one that is abandoned and one that its late events
reach; two offers and two dumps make a partial of the wrong dump. Five rows in
pages of two are three pages, which is one more than the queue and the two
threads' hands hold when one of them stalls; one fault and one cancel hit at
every point. Two frames have a point between them. No operation on downloads
reads what another hash has, so one hash is followed, through a run that
restores what a run restored. Two hashes with one row id make a collision, a
third tells it from the rest; one fetch at a time and a stop leave one late
answer beside a new fetch; with a free and a kept slot the third scrape waits.
Five rows in pages of two put two claims to one id into different pages, and
three launches let a kill follow a kill. A feed of two with three items must
drop one. `FewRequests` and the bounds named `Max...` only cut what the
environment may still do.

`CHECK_DEADLOCK FALSE` is said where the system may stop: `run()` returns, the
launches, votes and requests of an instance are used up.

Runs that show a comment of the code to be wrong of the code (each a finding in
`PROJECT.json`, with the quoted line):

| Run | Property | The trace in a sentence |
|---|---|---|
| `WaiterAnswers` | `WaitersAreTold` | a peer waits for an export, the export fails, and its serve is taken off the map without the message that it is owed |
| `VoteStore` | `EveryRecordIsAnnounced` | the store registers its callback in its constructor, when the transport has no storage yet; a vote is stored and announced to nobody |
| `LegacyStranded` | `FreshHasNothing` | `main()` copies an Electron index, which has no migration file; the constructor takes that for a fresh install and marks the re-keying done |

Other places where code and comment part, or where a property holds only with a
case excluded by name (see also the hazards of `PROJECT.json`):

* a snapshot's counter that was not written (`database_snapshot.cpp:200-203`), so
  that a restart does give a name out again, against the comment at 90-91
  (`CounterCoversNames` excepts `metaState = "lost"`);
* callers of `update.check` whom the menu's check disconnects from
  `noUpdateAvailable` (`mainwindow.cpp:2474`) and who may never be answered,
  against "exactly once" at `api_router.cpp:918-919`
  (`CheckAnsweredOnce` excepts `unheard`);
* a crawler that refuses to start and is not asked again before a setting
  changes (`SettingsAreFollowed` excepts `refused`);
* a downloaded update that was cut while it was written (`update_service.cpp:382`)
  and is installed, and a lambda that outlives its dialog and writes to a freed
  label (`mainwindow.cpp:2560`): both are in the model, and no property holds the
  code to anything there, as nothing in the code looks;
* a session that could not be saved, of which nobody hears (`kept`);
* a download begun over the API that the open panel offers again until the next
  poll (`unpolled`);
* a rebuild that a leaving peer stops, a beat that re-arms a running transfer's
  deadline, an offer taken by the next session, a failed page query that ends an
  export as a success, a damaged frame that ends an import as one, a paused row
  that stays behind.

Fairness. `FairPullSpec` and the `FairSpec` of `DatabaseSync` assume that the
main loop gets to queued events, that workers (finite loops over pages or
frames) return, that time passes and the watchdog, a one-second timer, notices a
deadline that has passed and was not put off, and that librats ends every
transfer it accepted ("the transfer has its own idle timeout in librats").
Messages are handled or lost with the
connection. Nothing is assumed of users or of freshness, and nothing of
heartbeats: a peer that beats for ever keeps a pull alive for ever, as in the
code, and `EveryOperationEnds` speaks of the pulls that are not put off for ever.
In `DatabaseSync` beats come only while an export runs, and exports end. In `DatabaseDump`
both threads of an export are scheduled, and no query or write lasts for
ever. `TorrentExport` assumes the poll timer and that librats answers each
fetch within its limit; `Discovery` that the main thread gets to what is posted
to it and that fetches, announces and site requests end, by an answer or by
their timeout; `Lifecycle` what the event loop, `main()` and the worker go on
with by themselves; `RestApi` the timer of a lookup and librats' deadline.
Nobody has to click, vote, launch, close or connect. Weak fairness is enough
everywhere but for `Discovered` in `Discovery`, which shares the main thread with
the insert it begins: each insert disables it for a while, and the event queue
being first in, first out makes it come to its turn.

## 4. The proofs

Eight modules hold theorems, checked by TLAPS for every value of the constants.
Every safety invariant and every action property of a passing run is the
consequent of one, and so is the one refinement. Each proof has the same shape:
an inductive invariant (type correctness, the property, and what must be added
so that a step keeps it), a lemma per action that keeps it, and the theorem
that joins them; an action property then follows from the invariant and the
step.

* `DatabaseServeProofs`. `ServeInvariant` is inductive: the type invariant with
  the shape of a serve (waiting xor sending, a file iff sending), the readers'
  files and the live file on disk, a job while there are waiters, and the state of
  `temp` as the job's state implies it. Each named invariant is a consequence.
  The heart is that a prune is given the serves *after* the change and the
  live generation *after* the publication, and that the temporary is whole
  whenever a finished export waits for its completion. `SlotsAreBounded` needs
  the cardinality of the occupied slots of a finite set of peers; for
  `TransfersKeepTheirDump`, an action property, every action is shown to leave
  a sending serve alone or to end it. `NamesAreCounted` relates the counter in
  memory, the record on disk and the names ever used, across crashes and failed
  writes: a record that is current covers every name, one that is behind leaves
  the counter in memory to do so, and only a restart from the latter, or from
  none, loses it.
  `AnswersAreTrue` follows the two answers a waiter gets: the last one that
  names a generation names the one its serve is given, for every action that
  answers or publishes (`AnswerStep`). `FilesStayRight` and `ServesStaySound`
  put these together into what `MCDatabaseServe` checks.
* `DatabasePullProofs`. Neither `WorkerIsCurrent` nor `NeverMixed` is inductive
  as it stands. `WorkersInv` adds that an operation has at most one worker, that
  a pull has none yet, and that a result is good only if the work was done;
  `TransfersInv` that librats receives one transfer at most, with an id of its
  own that no queued outcome has, and that the note beside the bytes is of the
  dump it carries, which holds because the note is written before the file is
  accepted, and so before any byte arrives. `LaneStaysOwned`,
  `ReportsStayTrue` and `PartialsStayTrue` are what `MCDatabasePull` checks.
* `DatabaseSyncProofs`. `SyncInv` joins three invariants with `BothEndsAgree`.
  `ClientInv` says that what the client holds to merge was published;
  `ServerInv` takes over the lane's own invariant, so that what is published is
  whole; `WireInv` reads the two streams: requests come in the order of their
  ids and later than the last one heard; an offer under way is new to the
  client, and either the server still sends that file or the withdrawal
  follows behind it; a transfer id is used once. The last is what makes the
  agreement inductive: without it an outcome could end the wrong transfer after
  a break. `EndsAlwaysAgree` covers any number of breaks, where the run of
  `BothEndsAgree` has none. `ExchangeIsImplemented` shows the refinement:
  initial states map to initial states, and each step of the two nodes is a
  step of `DatabaseExchange` or leaves its variables alone.
* `DumpProofs`. An export: the rows in the file, in the writer's hand, in the
  queue and in the reader's hand form one chain in ascending order that ends at
  the cursor (`ChainInv`); where the two threads are says what they hold and why
  they left (`ThreadsInv`); and until somebody gives up, every row that stayed
  and is behind the cursor is somewhere in the chain (`SweepInv`). Together they
  make the dump ordered and complete (`ExportIsRight`). `NoWakeupIsLost`, a
  thread is parked only while its condition is false, is inductive with them,
  and as no two threads can then be parked, `ExportNeverDeadlocks`. An import:
  all frames before the worker's offset are merged, also between the merge and
  the save, a good result means that the last readable frame is behind it, and
  what the resume point counts is merged whatever dump lies at its path now.
* `DownloadsProofs`. `DownloadsInv` needs two facts beside the properties: what
  is left when the program is down (`DownIsEmpty`), and that no row missed a
  completion that was broadcast (`CompletionWasHeard`). The exporter works on
  the same client, so `ExporterOnlyReads` first shows that `ExportSpec`
  implements the steps of `Downloads`; both specifications then have
  `RegistryIsTracked` and `NothingIsForgotten`. The latter goes over every end of
  a run, the three outcomes of `save()` and a crash, and over every start
  (`StopInv`, `CrashInv`, `StartInv`): a fate that is not `lost` is `saved` when
  the program is down, and the file then says what was wanted. `MarksStayTruthful` is the
  safety half of `EveryExportIsAnswered`: a hash is marked exactly while a fetch
  or a posted result of it is under way.
* `DiscoveryProofs`. The table: a row is under the id of its hash; what a thread is
  in the middle of is for one torrent, read from that torrent's own slot or from
  a free one; and where its next statement writes, another torrent's row is one
  the thread has not seen since it came there (`MaySpoil`), also for the
  torrents of a batch that are still to be added (`IndexInv`). From it, `RowsAreOnlyTakenUnseen`. `VoteInv`: what could not be
  recorded is remembered for the session, so the count is the number of records
  and of sessions without a store. `CrawlInv`: what librats still owes beyond
  `activeFetches` is what the stops left. `TrackInv`: `QueueOK` holds of every
  operation of `ScrapeQueue`, for any limits; the running hashes of each scraper
  are those it has tasks, replies or reports for. With these, `SlotsStayKept`.
* `LifecycleProofs`. `SearchdInv`: an attached searchd is not ours, a status that
  says stopped is true, and the blame is of a log that is damaged; it gives
  `SearchdIsNeverLeft`. `PageInv`: behind the cursor every row is where its hash
  belongs, and a row of the page that will be deleted has its place taken by a
  row that stays; with `TableInv` and the state file (`SavedInv`) it gives
  `RekeyIsComplete` and, for every step a kill may cut short,
  `DataStaysKept`.
* `FrontEndsProofs`. One invariant for each of the eight parts; a step of one
  part leaves the others alone. What each needed: what was last *said* to a peer,
  on the wire or heard, is what is applied, and a crawler that is off while it
  should run was refused (settings); when both feeds are quiet,
  one node leads, and its feed is what the other has, will get, or is still
  asked for (`Leading`); a caller that listens was not answered, listens to
  all three signals unless the menu took one away, and has a check under way or
  a dialog that holds it up (`HeardInv`), and what is ready was staged in the
  directory that will be installed (updates); the requests
  that count neither as success nor as error are the unserved ones, and a
  start time belongs to a request that waits, although two requests may share
  an id (metrics); the sweep has seen all up to its cursor; a torrent has one
  row, marked as a peer's exactly while our own answer did not bring it
  (searches); the panel's button says what the registry does, or its download
  was begun elsewhere since the last poll (panel); the list and the queue of news hold
  nothing twice and nothing in common.

The theorems rest on the assumptions of the constants alone, each named in the
module that declares the constant: bounds are natural numbers, and positive
where the code has a positive constant (`MaxGenAssumption`, `ServeAssumption`,
`PullAssumption`, `SyncAssumption`, `ExportAssumption`, `ImportAssumption`,
`MaxRunsIsNat`, `LaunchesAssumption`, `CrawlLimits`, `LimitsAreNat`,
`UpdatesAssumption`, `SettingsAssumption`, `SearchAssumption`,
`ActivityAssumption`, `CleanupAssumption`); peers, items and rows are finitely
many; markers are not what they mark (`NoPeer`, `NoDump`, `TornIsNoHash`,
`PanelAssumption`, `VotersAreOthers`); hashes and row ids are numbers
(`HashesAreNumbers`, `OfferedAreTorrents`); a row the earlier version left under
an id that some hash derives, of 63 bits, was put there by a re-keying and not
by its counter (`IdsAreApart`); and feeds are exchanged by two nodes at a time
(`FeedAssumption`). The number of peers, rows, items, slots, frames, faults and
breaks is any.

Only model-checked:

* liveness: `EveryOperationEnds`, `EveryExchangeEnds`, `ExportReturns`,
  `DoneIsNoticed`, `EveryExportIsAnswered`, `EveryWishIsSettled`, `ClosingEnds`
  and `EveryLookupEnds`. Fairness and `ENABLED` are out of this prover's reach;
  the safety half is proved where there is one (`ExportNeverDeadlocks`,
  `MarksStayTruthful`, `SlotsStayKept`, `EndsAlwaysAgree`).
* what the code is shown *not* to do: the properties of `WaiterAnswers`,
  `VoteStore` and `LegacyStranded` are refuted by a trace.

## 5. What is not modelled, and assumptions

* librats is external and modelled as the code uses it: it writes behind what
  the partial holds, renames a complete file, reports each transfer's end once
  at each end, keeps the order of each stream, answers each metadata fetch, and
  keeps its storage over sessions.
* Contents: rows, frames, dumps, hits and pictures are numbers or model values;
  compression, hashing, JSON, HTML and progress displays are left out.
* Time: a deadline or an interval is a flag that may pass; the age of files in
  the sweep is any subset; quiet periods and scores are open.
* `DatabaseSnapshot::discard()` has no caller in the program.
* The filters of an import are left to `TorrentIndex`; `filesOf()` failing apart
  from its page query, and an export that cannot open its file, are not
  distinguished from a failing query and a failing end.
* One puller and one server in `DatabaseSync`; several peers at once are in the
  lanes' own modules. Both lanes at one node, where transfer ids of the two
  directions may collide, multiply two state spaces that each take minutes.
* The legacy copy is done or not: a kill while files are being copied is left
  out. The end of a binlog that searchd had not flushed is not told apart from
  the rest of it. Windows runs searchd as a service of its own, which is left out.
* `migrateRowIdPage()` on the files table is the same code on rows that follow
  their torrent's id; the versions a migration is skipped by are all taken to
  call for it; the blocking re-keying does not look at `stopRequested_`, because
  nothing asks it to stop before the event loop runs.
* An answer to a socket that is freed and not reused is undefined in the code;
  it is dropped or reaches the address's next client, the outcomes a build
  produces without stopping.
* `ReplicationService` is on or off: the pace of its cycle is arithmetic on the
  number of peers. The spider's own walk is librats'.
* The buttons for voting, the tree of files, sorting, filters, menus, tray,
  themes, favourites, the search history, translations, autostart and the
  wizards: one reader and one writer on the main thread, no state another part
  depends on. Domain conversions and the query builder are pure.

## 6. Plan

Done: the exchange (`Database*`), downloads (`TorrentEngine`, `Downloads`,
`TorrentExport`), what fills the index (`TorrentIndex`, `Voting`, `Crawler`,
`ScrapeQueue`, `Trackers`), the program's life (`Manticore`, `Migration`,
`Lifecycle`) and its front ends; proofs of all safety invariants and action
properties the passing runs check, and of the refinement of `DatabaseExchange`.

Still worth having, in this order:

1. Abstract specifications of what an export and an import promise (a set of
   rows copied in order; a dump merged at least once), with the refinements by
   `DatabaseExport` and `DatabaseImport` that `ChainInv` and `WorkerInv` prepare.
2. Action properties proved beside the invariants: the resume point of an
   import only moves back with its dump, a completed migration stays completed.
3. Shorter proofs: the queue lemmas of `DiscoveryProofs`, the stream lemmas of
   `DatabaseSyncProofs` and the sequence lemmas of `FrontEndsProofs` say similar
   things of sequences and could be shared.
4. What no property covers yet: transfer ids of both lanes at one node,
   `insertBatch()` and the info column, hits of a peer that carry no query.
