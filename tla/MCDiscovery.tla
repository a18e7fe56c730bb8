----------------------------- MODULE MCDiscovery -----------------------------
EXTENDS Discovery

\* Hashes 1 and 2 share a row id; the others have their own.
MCRowIdOf == [h \in Hashes |-> IF h = 1 THEN 2 ELSE h]
MCOffered ==
    {[hash |-> 1, files |-> TRUE, good |-> 0, info |-> FALSE],
     [hash |-> 1, files |-> FALSE, good |-> 1, info |-> FALSE],
     [hash |-> 2, files |-> FALSE, good |-> 1, info |-> FALSE]}
=============================================================================
