--------------------------- MODULE DatabaseExchange ---------------------------
(***************************************************************************)
(* What pulling a peer's database promises, with no word of how: the       *)
(* serving node publishes dumps; the pulling node asks, may be delivered   *)
(* one of the published dumps, merges what it was delivered and is done.   *)
(* It can give up at any time, and nothing arrives that was not asked for. *)
(***************************************************************************)
EXTENDS Naturals

CONSTANT Dumps     \* the dumps there can be, numbered from 1

VARIABLES
  published,       \* the dumps the serving node has finished
  phase,           \* of the pulling node: "idle", "asking" or "merging"
  held             \* the dump it is merging, Nothing if none

Nothing == 0

Init == published = {} /\ phase = "idle" /\ held = Nothing

Publish ==
  /\ \E g \in Dumps : published' = published \union {g}
  /\ UNCHANGED <<phase, held>>

Ask ==
  /\ phase = "idle" /\ phase' = "asking"
  /\ UNCHANGED <<published, held>>

Deliver ==
  /\ phase = "asking" /\ phase' = "merging"
  /\ held' \in published
  /\ UNCHANGED published

End ==
  /\ phase # "idle" /\ phase' = "idle"
  /\ held' = Nothing
  /\ UNCHANGED published

Next == Publish \/ Ask \/ Deliver \/ End

Spec == Init /\ [][Next]_<<published, phase, held>>
=============================================================================
