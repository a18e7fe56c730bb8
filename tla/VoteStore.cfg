\* One peer of the swarm votes while the program runs.
CONSTANTS
    Hashes = {1, 2, 3}
    RowIdOf <- MCRowIdOf
    MaxVotes = 2
    Offered <- MCOffered
    Peers = {1, 2}
    MaxSessions = 2
    Heard = {1, 2}
    MaxFetches = 1
    MaxBacklog = 2
    MaxRecent = 1
    MaxStops = 1
    MaxConcurrent = 1
    InteractiveSlots = 1
    MaxQueued = 1
    Announces = 2
SPECIFICATION Spec
CHECK_DEADLOCK FALSE
INVARIANT EveryRecordIsAnnounced
