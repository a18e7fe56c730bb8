-------------------------- MODULE DatabaseSnapshot --------------------------
(***************************************************************************)
(* The files and the metadata of the dump a node serves to its peers:      *)
(* class DatabaseSnapshot (services/database_snapshot.{h,cpp}).            *)
(*                                                                         *)
(* A generation n is the file snapshot-<n>.ratsdb.  One of them is live;   *)
(* older ones stay on disk while a peer still reads them.  snapshot.json   *)
(* (meta) is what a restart recovers the counter and the live name from.   *)
(* The process may die inside commit(), between its renames and writes.    *)
(***************************************************************************)
EXTENDS Naturals, FiniteSets

CONSTANT MaxGen    \* bound: how far the generation counter may count

ASSUME MaxGenAssumption == MaxGen \in Nat \ {0}

VARIABLES
  generation,      \* generation_: the last number given out in this process
  live,            \* info_: the generation served to new peers, NoGen if none
  fresh,           \* what isFresh() says of it against the index as it is now
  disk,            \* the generations whose file exists
  temp,            \* snapshot.ratsdb.part: "none", "partial" or "whole"
  meta,            \* snapshot.json: [file, counter]; NoMeta if absent or torn
  named,           \* history: every generation that was ever made live
  halfWritten,     \* history: those published from a temporary not whole
  metaState        \* history: does snapshot.json hold the last name given out

snapshotVars ==
  <<generation, live, fresh, disk, temp, meta, named, halfWritten, metaState>>

NoGen == 0
Gens == 1..MaxGen
NoMeta == [file |-> NoGen, counter |-> 0]

(* "current" until a publication could not write its metadata ("behind");   *)
(* "lost" once a restart has counted on from a file that was behind or gone. *)
MetaStates == {"current", "behind", "lost"}

SnapshotInit ==
  /\ generation = 0 /\ live = NoGen /\ fresh = FALSE /\ disk = {}
  /\ temp = "none" /\ meta = NoMeta
  /\ named = {} /\ halfWritten = {} /\ metaState = "current"

-----------------------------------------------------------------------------
(* pathForGeneration(): the generation a peer names, if its file is there   *)
(* in the directory holding files.                                          *)
PathForGeneration(g, files) == IF g \in files THEN g ELSE NoGen

(* isFresh() moves with the size of the index and with the clock.  The      *)
(* service reads it once per request, so its value is an input.             *)
Drift ==
  /\ live # NoGen
  /\ fresh' = ~fresh
  /\ UNCHANGED <<generation, live, disk, temp, meta, named, halfWritten, metaState>>

(* Mutant: a prune that does not know the readers.                          *)
PrunedIgnoringReaders(files, liveGen, inUse) == files \intersect {liveGen}

(* What pruneSuperseded(inUse) leaves of a directory holding files.         *)
Pruned(files, liveGen, inUse) == files \intersect ({liveGen} \union inUse)

(* commit(): the next number is taken even when the rename cannot succeed.  *)
CanCommit == temp # "none" /\ generation + 1 \notin disk

(* writeMetadata(): what it leaves in snapshot.json.  The file that cannot  *)
(* be opened keeps the old record; one opened, and so truncated, whose      *)
(* write fails is left without any.  commit() takes no notice of either.    *)
MetaWrites == {"written", "unopened", "torn"}
PublishedMeta(g, write) ==
  CASE write = "written"  -> [file |-> g, counter |-> g]
    [] write = "unopened" -> meta
    [] write = "torn"     -> NoMeta

Publish(write) ==
  LET g == generation + 1 IN
  /\ generation' = g
  /\ live' = g
  /\ fresh' = TRUE
  /\ temp' = "none"
  /\ meta' = PublishedMeta(g, write)
  /\ named' = named \union {g}
  /\ halfWritten' = IF temp = "whole" THEN halfWritten ELSE halfWritten \union {g}
  /\ metaState' = IF metaState = "lost" THEN "lost"
                  ELSE IF write = "written" THEN "current" ELSE "behind"

-----------------------------------------------------------------------------
(* load() of a new process, reading metadata m in a directory holding files. *)
(* agrees: the size in the metadata is the size of the dump it names.        *)
LoadFrom(m, files, agrees) ==
  LET found == m.file # NoGen /\ m.file \in files
      kept  == found /\ agrees
  IN
  /\ generation' = m.counter
  /\ live' = IF kept THEN m.file ELSE NoGen
  /\ disk' = IF found /\ ~agrees THEN files \ {m.file} ELSE files
  /\ meta' = IF found /\ ~agrees THEN NoMeta ELSE m
  /\ metaState' = IF metaState = "behind" \/ (m = NoMeta /\ named # {})
                  THEN "lost" ELSE metaState
  /\ fresh' \in IF kept THEN BOOLEAN ELSE {FALSE}

(* The process dies between two calls and is started again.                 *)
Restart(agrees) ==
  /\ LoadFrom(meta, disk, agrees)
  /\ UNCHANGED <<temp, named, halfWritten>>

(* It dies inside commit(): after the rename, before the metadata is        *)
(* opened, or after the metadata was truncated and before it was written.   *)
RestartInsideCommit(truncated) ==
  /\ CanCommit
  /\ LoadFrom(IF truncated THEN NoMeta ELSE meta, disk \union {generation + 1}, TRUE)
  /\ temp' = "none"
  /\ UNCHANGED <<named, halfWritten>>

-----------------------------------------------------------------------------
(* Types of the class's state; the counter on file covers the name on file. *)
SnapshotTypeOK ==
  /\ generation \in Nat
  /\ live \in Nat
  /\ fresh \in BOOLEAN
  /\ disk \subseteq Nat \ {NoGen}
  /\ temp \in {"none", "partial", "whole"}
  /\ meta \in [file : Nat, counter : Nat] /\ meta.file <= meta.counter
  /\ named \subseteq Nat
  /\ halfWritten \subseteq Nat
  /\ metaState \in MetaStates

(* The file new peers are sent to exists: no prune, failed commit, crash in *)
(* the middle of a commit or restart leaves path() naming a missing dump.   *)
LiveIsOnDisk == live # NoGen => live \in disk

(* load(): "Resume the counter past whatever the last run reached": the     *)
(* counter is past every name that was ever live, in any process.           *)
CounterResumes == \A g \in named : g <= generation

(* It is, as long as no restart had to count on from a snapshot.json that   *)
(* the last publication failed to write, or that was gone.                  *)
CounterCoversNames == metaState = "lost" \/ CounterResumes
=============================================================================
