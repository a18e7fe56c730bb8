-------------------------------- MODULE Cleanup --------------------------------
(* torrent.cleanup of the API: the filter policy applied to the whole index, a
   page at a time. The handler holds the main thread until it is done; an import's
   worker goes on inserting. *)
EXTENDS Naturals, FiniteSetsExt, SequencesExt
CONSTANTS
    RowIds,                \* row ids, derived from the hashes
    Rejected,              \* rows the policy does not accept
    Batch                  \* kBatch, 500 in the code

\* rowIdFromHash() gives no id 0.
ASSUME CleanupAssumption == (\E greatest \in RowIds \cup {0} : RowIds \subseteq 1..greatest) /\ Batch \in Nat \ {0}

VARIABLES
    index,
    sweep,                 \* the handler's locals
    late, kept             \* ghost: rows inserted behind the sweep, and those it could not remove

cleanupVars == <<index, sweep, late, kept>>

NoSweep == [on |-> FALSE, dry |-> FALSE, after |-> 0, scanned |-> 0, matched |-> 0]

CleanupTypeOK ==
    /\ index \subseteq RowIds /\ late \subseteq RowIds /\ kept \subseteq RowIds
    /\ sweep.after \in {0} \cup RowIds /\ sweep.matched <= sweep.scanned

CleanupInit == index \in SUBSET RowIds /\ sweep = NoSweep /\ late = {} /\ kept = {}

StartCleanup(dry) ==
    /\ ~sweep.on
    /\ sweep' = [NoSweep EXCEPT !.on = TRUE, !.dry = dry]
    /\ late' = {} /\ kept' = {}
    /\ UNCHANGED index

\* Mutant: pages by position, as LIMIT and OFFSET count it.
PageAtOffset(rows) ==
    LET sorted == SetToSortSeq(index, <)
    IN  {sorted[i] : i \in {j \in DOMAIN sorted : j > sweep.scanned /\ j <= sweep.scanned + Batch}}

\* pageAfterId()
PageAfterId(rows) == {r \in rows : Cardinality({o \in rows : o <= r}) <= Batch}

\* One page: every rejected row of it is removed, or fails to be.
CleanPage ==
    /\ sweep.on
    /\ LET page == PageAfterId({r \in index : r > sweep.after})
           wrong == page \cap Rejected
       IN  /\ page # {}
           /\ sweep' = [sweep EXCEPT !.after = Max(page), !.scanned = @ + Cardinality(page),
                                     !.matched = @ + Cardinality(wrong)]
           /\ \E failed \in IF sweep.dry THEN {wrong} ELSE SUBSET wrong :
                /\ index' = index \ (wrong \ failed)
                /\ kept' = kept \cup failed
    /\ UNCHANGED late

\* A page with no rows ends it, and so does one that cannot be read.
EndCleanup ==
    /\ sweep.on /\ sweep' = [sweep EXCEPT !.on = FALSE]
    /\ UNCHANGED <<index, late, kept>>

WorkerInserts(r) ==
    /\ r \notin index /\ index' = index \cup {r}
    /\ late' = IF r <= sweep.after THEN late \cup {r} ELSE late
    /\ kept' = kept \ {r}
    /\ UNCHANGED sweep

CleanupNext ==
    \/ \E dry \in BOOLEAN : StartCleanup(dry)
    \/ CleanPage \/ EndCleanup
    \/ \E r \in RowIds : WorkerInserts(r)

----------------------------------------------------------------------------
\* The sweep removes rows from under its own paging, and passes none over: up to
\* the row it has reached, the rejected ones that are left were inserted behind it
\* or could not be removed.
SweepSkipsNothing ==
    sweep.on => \A r \in index \cap Rejected : r <= sweep.after => r \in late \cup kept
=============================================================================
