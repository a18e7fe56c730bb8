------------------------------- MODULE Activity -------------------------------
(* ActivityWidget: torrents as they are indexed wait in a queue and are displayed
   one at a time, newest on top. *)
EXTENDS Naturals, FiniteSetsExt, SequencesExt
CONSTANTS
    News,                  \* torrents
    MaxQueue, MaxDisplay   \* MAX_QUEUE_SIZE, MAX_DISPLAY_SIZE

ASSUME ActivityAssumption == IsFiniteSet(News) /\ MaxQueue \in Nat /\ MaxDisplay \in Nat \ {0}

VARIABLES
    waiting, waitingByHash, \* displayQueue_, queuedByHash_
    list, displayed,       \* torrentList_, displayedTorrents_
    paused, ticking        \* isPaused_; displayTimer_ runs (it does once the tab is loaded)

activityVars == <<waiting, waitingByHash, list, displayed, paused, ticking>>

ActivityTypeOK ==
    /\ Len(waiting) <= MaxQueue /\ Len(list) <= MaxDisplay
    /\ waitingByHash \subseteq News /\ displayed \subseteq News

ActivityInit ==
    /\ waiting = <<>> /\ waitingByHash = {} /\ list = <<>> /\ displayed = {}
    /\ paused = FALSE /\ ticking = FALSE

\* loadRecentTorrents()
LoadRecent ==
    /\ ~ticking /\ ticking' = TRUE
    /\ \E recent \in SUBSET News :
         LET shown == SetToSeq(recent)
         IN  /\ list' = SubSeq(shown, 1, IF Len(shown) < MaxDisplay THEN Len(shown) ELSE MaxDisplay)
             /\ displayed' = ToSet(list')
    /\ UNCHANGED <<waiting, waitingByHash, paused>>

Known(t) == t \in waitingByHash \/ t \in displayed

\* onNewTorrent(): one too many is not shown at all.
OnNewTorrent(t) ==
    /\ ticking /\ ~Known(t) /\ Len(waiting) < MaxQueue
    /\ waiting' = Append(waiting, t) /\ waitingByHash' = waitingByHash \cup {t}
    /\ UNCHANGED <<list, displayed, paused, ticking>>

\* displayNextTorrent() and addTorrentToDisplay(): the oldest gives way.
DisplayNext ==
    /\ ticking /\ waiting # <<>> /\ ~paused
    /\ waiting' = Tail(waiting)
    /\ LET t == Head(waiting)
           top == <<t>> \o list
           gone == IF Len(top) > MaxDisplay THEN {top[Len(top)]} ELSE {}
       IN  IF t \in displayed
           THEN UNCHANGED <<list, displayed>> /\ waitingByHash' = waitingByHash \ {t}
           ELSE /\ list' = SubSeq(top, 1, Len(top) - Cardinality(gone))
                /\ displayed' = (displayed \cup {t}) \ gone
                /\ waitingByHash' = waitingByHash \ ({t} \cup gone)
    /\ UNCHANGED <<paused, ticking>>

TogglePause ==
    /\ paused' = ~paused
    /\ UNCHANGED <<waiting, waitingByHash, list, displayed, ticking>>

ActivityNext == LoadRecent \/ DisplayNext \/ TogglePause \/ \E t \in News : OnNewTorrent(t)

----------------------------------------------------------------------------
\* The list, the map behind it, the queue and its index say the same: a torrent is
\* in one place only, shown once, and can come back when it has left the list.
NewsAddsUp ==
    /\ displayed = ToSet(list) /\ waitingByHash = ToSet(waiting)
    /\ IsInjective(list \o waiting)
=============================================================================
