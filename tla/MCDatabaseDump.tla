---------------------------- MODULE MCDatabaseDump ----------------------------
(* A whole dump, one with a bad second frame, and one with a bad header that *)
(* is as long as the whole one: only the name and the size tell them apart.  *)
EXTENDS DatabaseDump
CONSTANTS p1, p2, whole, broken, headless
TwoPaths == {p1, p2}
ThreeDumps == {whole, broken, headless}
Sizes == [d \in ThreeDumps |-> IF d = broken THEN 1 ELSE 2]
FrameCounts == [d \in ThreeDumps |-> IF d = headless THEN 0 ELSE 2]
GoodCounts == [d \in ThreeDumps |-> IF d = broken THEN 1 ELSE FrameCounts[d]]
NoHeader == {headless}
=============================================================================
