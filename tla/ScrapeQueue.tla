----------------------------- MODULE ScrapeQueue -----------------------------
(* ScrapeQueue: which scrapes run now, which wait and which are not worth doing.
   A queue is a record; every operator is what one call makes of it. Quiet
   periods end by themselves, so time is left out: a hash is quiet or it is not. *)
EXTENDS Integers, Sequences, FiniteSets, SequencesExt
CONSTANTS
    MaxConcurrent,         \* slots anybody may take
    InteractiveSlots,      \* slots kept for requests somebody waits for
    MaxQueued              \* the background backlog

ASSUME LimitsAreNat == MaxConcurrent \in Nat \ {0} /\ InteractiveSlots \in Nat /\ MaxQueued \in Nat

Priorities == {"background", "interactive"}
EmptyQueue == [running |-> {}, interactive |-> <<>>, background |-> <<>>, quiet |-> {}]
In(s) == {s[i] : i \in DOMAIN s}

Capacity(p) == MaxConcurrent + IF p = "interactive" THEN InteractiveSlots ELSE 0
HasFreeSlot(q, p) == Cardinality(q.running) < Capacity(p)

\* Mutant: a request in the background is served where it is.
OutcomeUnpromoted(q, h, p) ==
    IF h \in q.running THEN "running"
    ELSE IF h \in In(q.interactive) \cup In(q.background) THEN "queued"
    ELSE IF h \in q.quiet THEN "cooling" ELSE IF HasFreeSlot(q, p) THEN "started" ELSE "append"

\* submit(): what becomes of a request. "append" is the Queued that queues it.
Outcome(q, h, p) ==
    IF h \in q.running THEN "running"
    ELSE IF h \in In(q.interactive) \/ (p = "background" /\ h \in In(q.background)) THEN "queued"
    ELSE IF h \in q.quiet THEN "cooling" ELSE IF HasFreeSlot(q, p) THEN "started" ELSE "append"

\* The backlog drops its oldest.
Bounded(s) == SubSeq(s, 1 + IF Len(s) > MaxQueued THEN Len(s) - MaxQueued ELSE 0, Len(s))

Submitted(q, h, p) ==
    LET promoted == IF p = "interactive" THEN [q EXCEPT !.background = RemoveFirst(@, h)] ELSE q
    IN  CASE Outcome(q, h, p) = "started" -> [promoted EXCEPT !.running = @ \cup {h}]
          [] Outcome(q, h, p) = "append" /\ p = "interactive" -> [promoted EXCEPT !.interactive = Append(@, h)]
          [] Outcome(q, h, p) = "append" /\ p = "background" ->
                [promoted EXCEPT !.background = Bounded(Append(@, h))]
          [] OTHER -> q

\* The hashes finish() hands a slot to: interactive ones first.
Free(q, p) == IF Cardinality(q.running) < Capacity(p) THEN Capacity(p) - Cardinality(q.running) ELSE 0
Handed(q, field, p) ==
    LET n == IF Free(q, p) < Len(q[field]) THEN Free(q, p) ELSE Len(q[field])
    IN  [q EXCEPT !.running = @ \cup In(SubSeq(q[field], 1, n)),
                  ![field] = SubSeq(@, n + 1, Len(@))]

HandedOn(q) == Handed(Handed(q, "interactive", "interactive"), "background", "background")

Finished(q, h) ==
    HandedOn([q EXCEPT !.running = @ \ {h}, !.quiet = IF h \in q.running THEN @ \cup {h} ELSE @])

Cleared(q) == [q EXCEPT !.interactive = <<>>, !.background = <<>>]

\* No slot is idle while a request that may use it waits, and a hash is in one
\* place only.
QueueIsSound(q) ==
    /\ q.background # <<>> => ~HasFreeSlot(q, "background")
    /\ q.interactive # <<>> => ~HasFreeSlot(q, "interactive")
    /\ Len(q.background) <= MaxQueued
    /\ Cardinality(q.running) + Len(q.interactive) + Len(q.background)
          = Cardinality(q.running \cup In(q.interactive) \cup In(q.background))
=============================================================================
