---------------------------- MODULE DatabaseImport ----------------------------
(***************************************************************************)
(* An import and its resume point: DatabaseImporter::run() reading frames  *)
(* with DumpReader, runImport() around it, and import-state.json           *)
(* (services/database_importer.cpp, database_dump.cpp and                  *)
(* database_sync_service.cpp).                                             *)
(*                                                                         *)
(* The lane runs one import at a time (DatabasePull), so this module has   *)
(* one worker.  It reads a frame, merges it, and writes the resume point;  *)
(* it may be cancelled or the process may die between any two of these.    *)
(* Files are replaced while nothing imports them: a later pull from the    *)
(* same peer writes the same incoming-<peer>.ratsdb.                       *)
(***************************************************************************)
EXTENDS Naturals, FiniteSets

CONSTANTS
  Paths,           \* where dumps lie
  Dumps,           \* the contents a dump may have
  NoDump,          \* no file
  Size,            \* Size[d]: the size of dump d in bytes
  Frames,          \* Frames[d]: how many frames it has
  Good,            \* Good[d]: how many of them are readable before a bad one
  Headless,        \* the dumps whose header cannot be read
  MaxBadWrites        \* bound: writes to the index or to the resume point that fail

ASSUME ImportAssumption ==
  /\ NoDump \notin Dumps
  /\ Size \in [Dumps -> Nat] /\ Frames \in [Dumps -> Nat] /\ Good \in [Dumps -> Nat]
  /\ \A d \in Dumps : Good[d] <= Frames[d]
  /\ Headless \subseteq Dumps
  /\ MaxBadWrites \in Nat

VARIABLES
  file,            \* the dump at each path, NoDump if there is none
  saved,           \* import-state.json, NoState if absent or torn
  worker,          \* the import under way, Idle when there is none
  merged,          \* the frames in the index, as <<dump, frame>>
  badWrites,          \* the number of writes that failed
  lost,            \* history: frames whose write to the index failed
  mistaken,        \* history: dumps continued at the point of one of the same size
  imported         \* history: the dumps whose import was reported a success

importVars == <<file, saved, worker, merged, badWrites, lost, mistaken, imported>>

(* saved.dump is history: whose frames the offset counts.                   *)
NoState == [path |-> "none", size |-> 0, offset |-> 0, dump |-> NoDump]
Idle == [at |-> "idle", path |-> "none", dump |-> NoDump, offset |-> 0, cancel |-> FALSE, remove |-> FALSE]

ImportInit ==
  /\ file \in [Paths -> Dumps \union {NoDump}]
  /\ saved = NoState /\ worker = Idle /\ merged = {} /\ badWrites = 0
  /\ lost = {} /\ mistaken = {} /\ imported = {}

-----------------------------------------------------------------------------
(* loadResumeOffset().  Mutant: the size is not compared.                   *)
ResumeOffsetByPath(p, d) == IF saved.path = p THEN saved.offset ELSE 0
ResumeOffset(p, d) == IF saved.path = p /\ saved.size = Size[d] THEN saved.offset ELSE 0

(* runImport() starts: the reader opens the dump, and seeks to the resume   *)
(* point.                                                                   *)
Start(p, resume, remove) ==
  LET d == file[p]
      o == IF resume THEN ResumeOffset(p, d) ELSE 0
  IN
  /\ worker = Idle /\ d # NoDump
  /\ worker' = [at |-> IF d \in Headless THEN "unreadable" ELSE "read", path |-> p, dump |-> d, offset |-> o, cancel |-> FALSE, remove |-> remove]
  /\ mistaken' = IF o > 0 /\ saved.dump # d /\ saved.size = Size[d] THEN mistaken \union {d} ELSE mistaken
  /\ UNCHANGED <<file, saved, merged, badWrites, lost, imported>>

(* The loop of run(): a frame is read, or the loop is left.                 *)
ReadBatch ==
  /\ worker.at = "read"
  /\ worker' = [worker EXCEPT !.at =
       IF ~worker.cancel /\ worker.offset < Good[worker.dump] THEN "insert" ELSE "end"]
  /\ UNCHANGED <<file, saved, merged, badWrites, lost, mistaken, imported>>

(* insertBatch() of the frame read.  It does not report a failed write.     *)
InsertBatch(fails) ==
  LET f == <<worker.dump, worker.offset + 1>> IN
  /\ worker.at = "insert"
  /\ worker' = [worker EXCEPT !.at = "save", !.offset = @ + 1]
  /\ merged' = IF fails THEN merged ELSE merged \union {f}
  /\ lost' = IF fails THEN lost \union {f} ELSE lost
  /\ badWrites' = IF fails THEN badWrites + 1 ELSE badWrites
  /\ UNCHANGED <<file, saved, mistaken, imported>>

(* saveResumeState(): nothing is written if the file cannot be opened.      *)
(* Mutant: the resume point is a frame too far.                             *)
StateAhead(w) ==
  [path |-> w.path, size |-> Size[w.dump], offset |-> w.offset + 1, dump |-> w.dump]
StateOf(w) ==
  [path |-> w.path, size |-> Size[w.dump], offset |-> w.offset, dump |-> w.dump]

SaveResumeState(fails) ==
  /\ worker.at = "save"
  /\ worker' = [worker EXCEPT !.at = "read"]
  /\ saved' = IF fails THEN saved ELSE StateOf(worker)
  /\ badWrites' = IF fails THEN badWrites + 1 ELSE badWrites
  /\ UNCHANGED <<file, merged, lost, mistaken, imported>>

(* run() returns, and the resume point goes unless the token is set by now. *)
(* Whatever ended the reading it is a success: a bad frame counts as the    *)
(* end of the dump.                                                         *)
RunReturns ==
  /\ worker.at \in {"end", "unreadable"}
  /\ worker' = [worker EXCEPT !.at =
       IF worker.at = "unreadable" THEN "failed" ELSE IF worker.cancel THEN "cancelled" ELSE "ok"]
  /\ saved' = IF worker'.at = "cancelled" THEN saved ELSE NoState
  /\ UNCHANGED <<file, merged, badWrites, lost, mistaken, imported>>

(* Its completion, on the main thread.                                      *)
Completed ==
  /\ worker.at \in {"ok", "cancelled", "failed"}
  /\ worker' = Idle
  /\ imported' = IF worker.at = "ok" THEN imported \union {worker.dump} ELSE imported
  /\ file' = IF worker.at = "ok" /\ worker.remove THEN [file EXCEPT ![worker.path] = NoDump] ELSE file
  /\ UNCHANGED <<saved, merged, badWrites, lost, mistaken>>

(* cancel(), while the operation lasts.                                     *)
CancelImport ==
  /\ worker # Idle /\ ~worker.cancel
  /\ worker' = [worker EXCEPT !.cancel = TRUE]
  /\ UNCHANGED <<file, saved, merged, badWrites, lost, mistaken, imported>>

(* A transfer or the user puts dump d at p, when nothing imports from it.   *)
Replace(p, d) ==
  /\ worker.path # p
  /\ file' = [file EXCEPT ![p] = d]
  /\ UNCHANGED <<saved, worker, merged, badWrites, lost, mistaken, imported>>

(* pendingImportJson(), with the resume point s.                            *)
Pending(s, p) == file[p] # NoDump /\ s.path = p /\ s.size = Size[file[p]]

(* The process dies, perhaps with the resume point truncated and not yet    *)
(* written again, and is started anew.  It sweeps: an old dump goes, unless *)
(* an interrupted import can be continued from it.                          *)
Restart(torn, old) ==
  /\ torn => worker.at = "save"
  /\ worker' = Idle
  /\ saved' = IF torn THEN NoState ELSE saved
  /\ file' = [p \in Paths |-> IF p \in old /\ ~Pending(saved', p) THEN NoDump ELSE file[p]]
  /\ UNCHANGED <<merged, badWrites, lost, mistaken, imported>>

ImportNext ==
  \/ \E p \in Paths, resume, remove \in BOOLEAN : Start(p, resume, remove)
  \/ ReadBatch
  \/ \E fails \in BOOLEAN : (fails => badWrites < MaxBadWrites) /\ (InsertBatch(fails) \/ SaveResumeState(fails))
  \/ RunReturns
  \/ Completed
  \/ CancelImport
  \/ \E p \in Paths, d \in Dumps : Replace(p, d)
  \/ \E torn \in BOOLEAN, old \in SUBSET Paths : Restart(torn, old)

ImportSpec == ImportInit /\ [][ImportNext]_importVars

-----------------------------------------------------------------------------
FramesOf(d, n) == {<<d, f>> : f \in 1..n}

ImportTypeOK ==
  /\ file \in [Paths -> Dumps \union {NoDump}]
  /\ saved = NoState \/ (saved.path \in Paths /\ saved.dump \in Dumps /\ saved.size = Size[saved.dump]
                         /\ saved.offset \in 1..Frames[saved.dump])
  /\ worker = Idle \/ (worker.path \in Paths /\ worker.dump \in Dumps /\ worker.offset \in Nat
                       /\ worker.at \in {"read", "insert", "save", "end", "unreadable",
                                        "ok", "cancelled", "failed"}
                       /\ worker.cancel \in BOOLEAN /\ worker.remove \in BOOLEAN)
  /\ merged \subseteq UNION {FramesOf(d, Frames[d]) : d \in Dumps}
  /\ badWrites \in Nat

(* "A resume can repeat work but never skip it": every frame before the     *)
(* resume point was merged, or its write failed, or the point was once      *)
(* taken over from a different dump; so it is in every crash and every      *)
(* interruption of this import and of others.                               *)
ResumePointIsCovered ==
  saved # NoState /\ saved.dump \notin mistaken
    => FramesOf(saved.dump, saved.offset) \subseteq merged \union lost

(* A dump is reported imported, and removed, only when all of it that can   *)
(* be read is merged, through any number of interruptions.                  *)
ImportedIsMerged ==
  \A d \in imported \ mistaken : FramesOf(d, Good[d]) \subseteq merged \union lost

(* No interruption makes an import skip a frame, whether it is resumed or   *)
(* said to be complete.                                                     *)
NothingIsSkipped == ResumePointIsCovered /\ ImportedIsMerged
=============================================================================
