\* Three hashes, two of them on one row id; scrapers with one slot, one more for
\* clicks and a backlog of one; the crawler is switched off once.
CONSTANTS
    Hashes = {1, 2, 3}
    RowIdOf <- MCRowIdOf
    MaxVotes = 2
    Offered <- MCOffered
    Peers = {1}
    MaxSessions = 2
    Heard = {1, 2}
    MaxFetches = 1
    MaxBacklog = 2
    MaxRecent = 1
    MaxStops = 1
    MaxConcurrent = 1
    InteractiveSlots = 1
    MaxQueued = 1
    Announces = 2
SPECIFICATION Spec
INVARIANT DiscoveryTypeOK
INVARIANT VotesCountOnce
INVARIANT SlotsAreKept
PROPERTY RowsAreTakenUnseen
PROPERTY EveryWishIsSettled
CHECK_DEADLOCK FALSE
