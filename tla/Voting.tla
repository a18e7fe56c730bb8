------------------------------- MODULE Voting -------------------------------
(* VotingService over P2PStore: one vote record per peer and torrent in the
   store the swarm replicates, mirrored onto the torrent's own counters. The
   store is a librats subsystem: it exists only while the transport runs, which
   is after every service was constructed. *)
EXTENDS TorrentIndex
CONSTANTS
    Peers,                 \* bound: remote voters
    MaxSessions            \* bound: starts of the program
VARIABLES
    session,               \* starts so far
    storage,               \* P2PStore::isAvailable(): the transport has a store
    callback,              \* setupStorageCallbacks() found a store to register with
    records,               \* <<hash, voter>>: the vote records of the store
    announced,             \* records recordStored was emitted for
    selfVoted,             \* selfVotedHashes_: this session's votes
    mine,                  \* history: hash -> times the own vote was counted
    unstored               \* history: <<hash, session>> of votes that left no record

votingVars == <<session, storage, callback, records, announced, selfVoted, mine, unstored>>
Us == 0

ASSUME VotersAreOthers == Us \notin Peers /\ MaxSessions \in Nat \ {0}

VotingTypeOK ==
    /\ IndexTypeOK
    /\ session \in 1..MaxSessions
    /\ storage \in BOOLEAN /\ callback \in BOOLEAN
    /\ records \subseteq Hashes \X (Peers \cup {Us}) /\ announced \subseteq records
    /\ selfVoted \subseteq Hashes /\ unstored \subseteq Hashes \X (1..MaxSessions)
    /\ mine \in [Hashes -> Nat]

\* The application's constructor: the transport is built and not started.
Constructed(storageThen) == callback' = storageThen

VotingInit ==
    /\ IndexInit
    /\ session = 1 /\ storage = FALSE /\ callback = FALSE
    /\ records = {} /\ announced = {}
    /\ selfVoted = {} /\ unstored = {}
    /\ mine = [h \in Hashes |-> 0]

\* P2PTransport::start() brings the store, or fails.
TransportStarts ==
    /\ ~storage /\ reading = Idle
    /\ storage' = TRUE
    /\ UNCHANGED <<indexVars, session, callback, records, announced, selfVoted, mine, unstored>>

\* The program is left and started again: the store persists its records.
NextSession ==
    /\ session < MaxSessions
    /\ session' = session + 1
    /\ storage' = FALSE /\ Constructed(FALSE)
    /\ selfVoted' = {}
    /\ reading' = Idle /\ batch' = NoBatch /\ seen' = [x \in Threads |-> {}]
    /\ UNCHANGED <<torrents, refused, records, announced, mine, unstored>>

----------------------------------------------------------------------------
Aggregate(h) == Cardinality({r \in records : r[1] = h})
Has(h) == <<h, Us>> \in records
\* Mutant: only the store is asked.
AlreadyRecorded(h) == storage /\ Has(h)

AlreadyVoted(h) == h \in selfVoted \/ (storage /\ Has(h))

(* vote(): get(), then the record, then update(); the import's worker runs in
   between, the main thread does not. A vote already cast changes nothing. *)
VoteReads(h) ==
    /\ Ours(h) /\ ~AlreadyVoted(h)
    /\ Slot(h).good < MaxVotes
    /\ Begins("vote", h, NoRow)
    /\ UNCHANGED votingVars

VoteStores(stored) ==
    /\ reading.op = "vote"
    /\ stored => storage
    /\ LET h == reading.hash
       IN  /\ records' = IF stored THEN records \cup {<<h, Us>>} ELSE records
           /\ announced' = IF stored THEN announced \cup {<<h, Us>>} ELSE announced
           /\ selfVoted' = selfVoted \cup {h}
           /\ mine' = [mine EXCEPT ![h] = @ + 1]
           /\ unstored' = IF stored THEN unstored ELSE unstored \cup {<<h, session>>}
           /\ reading' = Task("update", h, NoRow, [reading.row EXCEPT !.good = @ + 1])
    /\ UNCHANGED <<torrents, refused, batch, seen, session, storage, callback>>

VoteIsMirrored == MainWorks /\ UNCHANGED votingVars

\* onRecordStored(): the row takes over what the store counts.
Mirrors(h, count) == Ours(h) /\ Slot(h).good # count
Mirroring(h, count) == Task("update", h, NoRow, [Slot(h) EXCEPT !.good = count])

\* A peer's record reaches the store. The change callback would announce it.
RemoteVote(h, p) ==
    /\ storage /\ <<h, p>> \notin records /\ Aggregate(h) < MaxVotes /\ reading = Idle
    /\ records' = records \cup {<<h, p>>}
    /\ announced' = IF callback THEN announced \cup {<<h, p>>} ELSE announced
    /\ reading' = IF callback /\ Mirrors(h, Aggregate(h) + 1)
                  THEN Mirroring(h, Aggregate(h) + 1) ELSE reading
    /\ UNCHANGED <<torrents, refused, batch, session, storage, callback, selfVoted, mine, unstored>>
    /\ Sees("main", IF callback THEN {RowIdOf[h]} ELSE {})

VotingNext ==
    \/ TransportStarts \/ NextSession
    \/ \E h \in Hashes : VoteReads(h) \/ \E p \in Peers : RemoteVote(h, p)
    \/ VoteIsMirrored \/ \E b \in BOOLEAN : VoteStores(b)

----------------------------------------------------------------------------
\* A user's vote is counted once, over any number of sessions, clicks and
\* imports, as long as it could be recorded: beside the recorded vote there is at
\* most one for each session that voted without the store.
VotesCountOnce ==
    \A h \in Hashes :
        mine[h] = Cardinality({s \in 1..MaxSessions : <<h, s>> \in unstored})
                  + IF Has(h) THEN 1 ELSE 0

\* What p2p_store.h says of recordStored: it is emitted for local records and for
\* those received from a peer.
EveryRecordIsAnnounced == announced = records
=============================================================================
