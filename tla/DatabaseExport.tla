---------------------------- MODULE DatabaseExport ----------------------------
(***************************************************************************)
(* DatabaseExporter::run() and its PageQueue: one thread reads the index a *)
(* page at a time, the other writes the pages to the dump, and a bounded   *)
(* queue couples them (services/database_exporter.cpp).                    *)
(*                                                                         *)
(* Each call under the queue's mutex is one action, and so is a database   *)
(* query or a write.  A thread that waits on a condition variable is       *)
(* parked until the other one notifies it.  The crawler and the user go on *)
(* changing the index, and the token is cancelled, at any moment.          *)
(***************************************************************************)
EXTENDS Naturals, Sequences, FiniteSets

CONSTANTS
  MaxRow,          \* bound: row ids are 1..MaxRow
  PageSize,        \* kPageSize
  ReadAhead,       \* kReadAhead
  MaxFaults        \* bound: queries and writes that fail

ASSUME ExportAssumption ==
  MaxRow \in Nat /\ PageSize \in Nat \ {0} /\ ReadAhead \in Nat \ {0} /\ MaxFaults \in Nat

VARIABLES
  index,           \* the rows in the torrents table
  cancel,          \* the CancelToken
  reader,          \* where the thread of run() is
  writer,          \* where the serialiser is
  afterId,         \* the cursor of the sweep
  page,            \* the page the reader has in hand
  pages,           \* PageQueue::pages_
  finished,        \* PageQueue::finished_
  closed,          \* PageQueue::closed_
  writing,         \* the page the serialiser has in hand
  writeFailed,
  dump,            \* the rows in the file, in the order they were written
  outcome,         \* Result: "none" until run() returns
  faults,          \* the number of queries and writes that failed
  readFailed,      \* history: a query failed
  stayed           \* history: the rows that were in the index all the time

vars == <<index, cancel, reader, writer, afterId, page, pages, finished, closed, writing,
          writeFailed, dump, outcome, faults, readFailed, stayed>>

Rows == 1..MaxRow

Init ==
  /\ index \in SUBSET Rows /\ stayed = index
  /\ cancel \in BOOLEAN
  /\ reader = "check" /\ writer = "pop"
  /\ afterId = 0 /\ page = {} /\ pages = <<>> /\ writing = {}
  /\ finished = FALSE /\ closed = FALSE /\ writeFailed = FALSE
  /\ dump = <<>> /\ outcome = "none" /\ faults = 0 /\ readFailed = FALSE

Queue == <<pages, finished, closed>>
Output == <<writing, writeFailed, dump>>

-----------------------------------------------------------------------------
(* notify: a parked thread looks at its condition again.                    *)
Woken(at, retry) == IF at = "parked" THEN retry ELSE at

(* The first PageSize rows after the cursor, in the order of their ids.     *)
Ahead(cursor) == {r \in index : r > cursor}
SomePage(cursor) == {r \in Ahead(cursor) : Cardinality({q \in Ahead(cursor) : q < r}) < PageSize}

(* The id of a page's last row.                                             *)
LastId(rows) == CHOOSE r \in rows : \A q \in rows : q <= r

CheckStop ==
  /\ reader = "check"
  /\ reader' = IF cancel \/ writeFailed THEN "finish" ELSE "query"
  /\ UNCHANGED <<index, cancel, writer, afterId, page, Queue, Output, outcome, faults, readFailed, stayed>>

(* pageAfterId() and filesOf().  A query that fails returns no rows.        *)
Query(fails) ==
  LET rows == IF fails THEN {} ELSE SomePage(afterId) IN
  /\ reader = "query"
  /\ page' = rows
  /\ afterId' = IF rows = {} THEN afterId ELSE LastId(rows)
  /\ reader' = IF rows = {} THEN "finish" ELSE "push"
  /\ readFailed' = (readFailed \/ fails)
  /\ faults' = IF fails THEN faults + 1 ELSE faults
  /\ UNCHANGED <<index, cancel, writer, Queue, Output, outcome, stayed>>

(* PageQueue::push().  Mutant: it never waits.                              *)
PushPastLimit ==
  /\ reader = "push"
  /\ pages' = (IF closed THEN pages ELSE Append(pages, page)) /\ page' = {}
  /\ reader' = IF closed THEN "finish" ELSE "check"
  /\ writer' = Woken(writer, "pop")
  /\ UNCHANGED <<index, cancel, afterId, finished, closed, Output, outcome, faults, readFailed, stayed>>
Push ==
  /\ reader = "push"
  /\ \/ /\ closed
        /\ reader' = "finish" /\ page' = {}
        /\ UNCHANGED <<pages, writer>>
     \/ /\ ~closed /\ Len(pages) < ReadAhead
        /\ pages' = Append(pages, page) /\ page' = {}
        /\ reader' = "check"
        /\ writer' = Woken(writer, "pop")
     \/ /\ ~closed /\ Len(pages) >= ReadAhead
        /\ reader' = "parked"
        /\ UNCHANGED <<pages, page, writer>>
  /\ UNCHANGED <<index, cancel, afterId, finished, closed, Output, outcome, faults, readFailed, stayed>>

(* PageQueue::finish().  Mutant: it does not notify.                        *)
FinishSilently ==
  /\ reader = "finish" /\ reader' = "close" /\ finished' = TRUE
  /\ UNCHANGED <<index, cancel, writer, afterId, page, pages, closed, Output, outcome, faults, readFailed, stayed>>
Finish ==
  /\ reader = "finish" /\ reader' = "close"
  /\ finished' = TRUE
  /\ writer' = Woken(writer, "pop")
  /\ UNCHANGED <<index, cancel, afterId, page, pages, closed, Output, outcome, faults, readFailed, stayed>>

(* PageQueue::close(), called by a cancelled reader.                        *)
CloseIfCancelled ==
  /\ reader = "close" /\ reader' = "join"
  /\ IF cancel THEN closed' = TRUE /\ pages' = <<>> /\ writer' = Woken(writer, "pop")
     ELSE UNCHANGED <<closed, pages, writer>>
  /\ UNCHANGED <<index, cancel, afterId, page, finished, Output, outcome, faults, readFailed, stayed>>

(* After join(): the end of run().  The flush and the footer may fail.      *)
Decide(fails) ==
  /\ reader = "join" /\ writer = "exited"
  /\ reader' = "returned"
  /\ outcome' = IF cancel THEN "cancelled" ELSE IF writeFailed \/ fails THEN "failed" ELSE "ok"
  /\ faults' = IF fails THEN faults + 1 ELSE faults
  /\ UNCHANGED <<index, cancel, writer, afterId, page, Queue, Output, readFailed, stayed>>

-----------------------------------------------------------------------------
(* PageQueue::pop().  Mutant: it gives up on finished_ with pages queued.   *)
PopNoDrain ==
  /\ writer = "pop"
  /\ IF pages # <<>> /\ ~finished
     THEN /\ writing' = Head(pages) /\ pages' = Tail(pages) /\ writer' = "write"
          /\ reader' = Woken(reader, "push")
     ELSE /\ writer' = IF closed \/ finished THEN "exited" ELSE "parked"
          /\ UNCHANGED <<writing, pages, reader>>
  /\ UNCHANGED <<index, cancel, afterId, page, finished, closed, writeFailed, dump, outcome, faults, readFailed, stayed>>
Pop ==
  /\ writer = "pop"
  /\ IF pages # <<>>
     THEN /\ writing' = Head(pages) /\ pages' = Tail(pages) /\ writer' = "write"
          /\ reader' = Woken(reader, "push")
     ELSE /\ writer' = IF closed \/ finished THEN "exited" ELSE "parked"
          /\ UNCHANGED <<writing, pages, reader>>
  /\ UNCHANGED <<index, cancel, afterId, page, finished, closed, writeFailed, dump, outcome, faults, readFailed, stayed>>

(* DumpWriter::write() of the page's rows, the next one or a failure.       *)
FirstOf(rows) == CHOOSE r \in rows : \A q \in rows : r <= q
Write(fails) ==
  /\ writer = "write"
  /\ IF writing = {} THEN writer' = "pop" /\ UNCHANGED <<Output, faults>>
     ELSE IF fails THEN writer' = "close" /\ writeFailed' = TRUE /\ faults' = faults + 1
                        /\ UNCHANGED <<writing, dump>>
     ELSE /\ dump' = Append(dump, FirstOf(writing))
          /\ writing' = writing \ {FirstOf(writing)}
          /\ UNCHANGED <<writer, writeFailed, faults>>
  /\ UNCHANGED <<index, cancel, reader, afterId, page, Queue, outcome, readFailed, stayed>>

(* "Stop the reader; it is waiting on us".                                  *)
CloseAfterFailure ==
  /\ writer = "close" /\ writer' = "exited"
  /\ closed' = TRUE /\ pages' = <<>>
  /\ reader' = Woken(reader, "push")
  /\ UNCHANGED <<index, cancel, afterId, page, finished, Output, outcome, faults, readFailed, stayed>>

-----------------------------------------------------------------------------
(* The crawler adds rows, a sweep or the user removes some.                 *)
IndexChanges ==
  /\ outcome = "none"
  /\ \E r \in Rows : index' \in {index \union {r}, index \ {r}}
  /\ stayed' = stayed \intersect index'
  /\ UNCHANGED <<cancel, reader, writer, afterId, page, Queue, Output, outcome, faults, readFailed>>

Cancel ==
  /\ outcome = "none" /\ ~cancel /\ cancel' = TRUE
  /\ UNCHANGED <<index, reader, writer, afterId, page, Queue, Output, outcome, faults, readFailed, stayed>>

ReaderStep ==
  \/ CheckStop
  \/ \E fails \in BOOLEAN : (fails => faults < MaxFaults) /\ (Query(fails) \/ Decide(fails))
  \/ Push \/ Finish \/ CloseIfCancelled

WriterStep ==
  \/ Pop
  \/ \E fails \in BOOLEAN : (fails => faults < MaxFaults) /\ Write(fails)
  \/ CloseAfterFailure

Next == ReaderStep \/ WriterStep \/ IndexChanges \/ Cancel

Spec == Init /\ [][Next]_vars

-----------------------------------------------------------------------------
TypeOK ==
  /\ index \subseteq Rows /\ stayed \subseteq index /\ cancel \in BOOLEAN
  /\ reader \in {"check", "query", "push", "parked", "finish", "close", "join", "returned"}
  /\ writer \in {"pop", "write", "parked", "close", "exited"}
  /\ afterId \in Nat
  /\ page \subseteq Rows /\ writing \subseteq Rows
  /\ pages \in Seq(SUBSET Rows) /\ Len(pages) <= ReadAhead
  /\ finished \in BOOLEAN /\ closed \in BOOLEAN /\ writeFailed \in BOOLEAN
  /\ dump \in Seq(Rows)
  /\ outcome \in {"none", "cancelled", "failed", "ok"}
  /\ faults \in Nat /\ readFailed \in BOOLEAN

(* The dump holds no row twice and is in the order of the ids, whatever is  *)
(* added and removed during the sweep ("rows added mid-sweep shift the      *)
(* offsets already consumed", which a cursor does not mind).                *)
InOrder == \A i, j \in 1..Len(dump) : i < j => dump[i] < dump[j]

(* An export that reports success, with no query failed, holds every row    *)
(* that was there from its beginning to its end.                            *)
OkIsWhole ==
  outcome = "ok" /\ ~readFailed => \A r \in stayed : \E i \in 1..Len(dump) : dump[i] = r

(* The dump is ordered and, if it is called good, complete.                 *)
DumpIsRight == InOrder /\ OkIsWhole
=============================================================================
