----------------------------- MODULE MCLifecycle -----------------------------
(* Four torrents of an earlier version. Two want one row id, the second is met in
   a later page; one hash is of no use; one holds content of unknown type, and an
   earlier re-keying left its new row beside the old one. *)
EXTENDS Lifecycle
CONSTANTS h1, h2, h3, h4
MCHashes == {h1, h2, h3, h4}
MCDerivedId == [h \in MCHashes |-> CASE h = h1 -> 11 [] h = h2 -> 11 [] h = h3 -> 0 [] OTHER -> 12]
MCOldRows ==
    [i \in 1..4 \cup {12} |->
        CASE i = 1 -> [hash |-> h1, type |-> "stale"] [] i = 3 -> [hash |-> h2, type |-> "settled"]
          [] i = 4 -> [hash |-> h3, type |-> "stale"] [] OTHER -> [hash |-> h4, type |-> "unknown"]]
=============================================================================
