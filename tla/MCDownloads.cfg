\* One torrent, followed through three runs of the program: no operation reads
\* what another hash has.
CONSTANTS
    Hashes = {h1}
    MaxRuns = 3
SPECIFICATION ExportSpec
INVARIANT RegistryIsTracked
INVARIANT NothingIsForgotten
INVARIANT MarksAreTruthful
PROPERTY DoneIsNoticed
PROPERTY EveryExportIsAnswered
CHECK_DEADLOCK FALSE
