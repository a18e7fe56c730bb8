----------------------------- MODULE DetailsPanel -----------------------------
(* TorrentDetailsPanel: one set of widgets for whatever torrent is selected, fed by
   the services' signals and by image replies that may be for one selected before.

   Each part of the panel is modelled by the torrent whose data it shows. *)
EXTENDS Naturals, FiniteSets
CONSTANTS
    PanelTorrents,
    Nobody                 \* model value: no torrent

ASSUME PanelAssumption == Nobody \notin PanelTorrents /\ "loading" \notin PanelTorrents \cup {Nobody}

VARIABLES
    current,               \* currentHash_
    counts, rating,        \* whose swarm counts and votes are shown
    infoShown,             \* whose description and links
    poster,                \* whose image, "loading" or Nobody
    images,                \* torrents an image is being fetched for
    spinner,               \* the indicator of a scrape
    scraped, scrapes,      \* torrents with tracker data in the index; scrapes that run
    button,                \* "download", "progress" or "completed"
    transfers,             \* what DownloadService says of each torrent
    unpolled               \* history: transfers begun elsewhere that no poll has reported yet

panelVars ==
    <<current, counts, rating, infoShown, poster, images, spinner, scraped, scrapes, button, transfers, unpolled>>

PanelTypeOK ==
    /\ {current, counts, rating, infoShown} \subseteq PanelTorrents \cup {Nobody}
    /\ poster \in PanelTorrents \cup {Nobody, "loading"}
    /\ \A S \in {images, scrapes, unpolled} : S \subseteq PanelTorrents
    /\ button \in {"download", "progress", "completed"}

PanelInit ==
    /\ current = Nobody /\ counts = Nobody /\ rating = Nobody
    /\ infoShown = Nobody /\ poster = Nobody /\ images = {} /\ spinner = FALSE
    /\ scraped = {} /\ scrapes = {}
    /\ button = "download" /\ transfers = [t \in PanelTorrents |-> "none"]
    /\ unpolled = {}

----------------------------------------------------------------------------
(* Tracker data *)
\* updateTrackerInfoDisplay() and loadPosterImage(): data comes with an image or not.
DisplayInfo(t) ==
    /\ infoShown' = t
    /\ \/ poster' = Nobody /\ UNCHANGED images
       \/ poster' = "loading" /\ images' = images \cup {t}

\* setTorrent(): the row handed over may be older than the index. Data it has is
\* shown; without it the sites are asked, unless they were lately.
SetTorrent(t) ==
    /\ current' = t /\ counts' = t /\ rating' = t
    /\ button' = CASE transfers[t] = "none" -> "download"
                   [] transfers[t] = "running" -> "progress"
                   [] transfers[t] = "done" -> "completed"
    /\ \/ t \in scraped /\ DisplayInfo(t) /\ spinner' = FALSE /\ UNCHANGED scrapes
       \/ /\ infoShown' = Nobody /\ poster' = Nobody /\ UNCHANGED images
          /\ spinner' \in BOOLEAN
          /\ scrapes' = IF spinner' THEN scrapes \cup {t} ELSE scrapes
    /\ UNCHANGED <<scraped, transfers, unpolled>>

\* Only while its torrent is still shown.
StillShown(t) == current = t

ImageArrives(t) ==
    /\ t \in images /\ images' \in {images, images \ {t}}
    /\ poster' \in IF StillShown(t) THEN {t, Nobody} ELSE {poster}
    /\ UNCHANGED <<current, counts, rating, infoShown, spinner, scraped, scrapes, button, transfers, unpolled>>

\* onTorrentUpdated(): counts of a swarm, or the data of a site that answered.
TorrentUpdated(t, set) ==
    /\ IF current = t
       THEN /\ counts' = t
            /\ IF t \in set THEN DisplayInfo(t) /\ spinner' = FALSE
               ELSE UNCHANGED <<infoShown, poster, images, spinner>>
       ELSE UNCHANGED <<counts, infoShown, poster, images, spinner>>
    /\ UNCHANGED <<current, rating, scrapes, button, transfers, unpolled>>

CountsScraped(t) == TorrentUpdated(t, scraped) /\ UNCHANGED scraped
InfoScraped(t) == t \in scrapes /\ scraped' = scraped \cup {t} /\ TorrentUpdated(t, scraped')

\* onTrackerInfoChecked(): the scrape is over, well or not.
InfoChecked(t) ==
    /\ t \in scrapes /\ scrapes' = scrapes \ {t}
    /\ spinner' = IF current = t THEN FALSE ELSE spinner
    /\ UNCHANGED <<current, counts, rating, infoShown, poster, images, scraped, button, transfers, unpolled>>

----------------------------------------------------------------------------
(* Votes and downloads *)
\* onVotesUpdated()
VotesUpdated(t) ==
    /\ rating' = IF current = t THEN t ELSE rating
    /\ UNCHANGED <<current, counts, infoShown, poster, images, spinner, scraped, scrapes, button, transfers, unpolled>>

Mirrored(t, shown) == button' = IF current = t THEN shown ELSE button
RestOfPanel == UNCHANGED <<current, counts, rating, infoShown, poster, images, spinner, scraped, scrapes>>

\* download.add of the API, or a .torrent file: downloadStarted is all that is said,
\* and nothing of the window is connected to it.
StartedElsewhere(t) ==
    /\ transfers[t] = "none" /\ transfers' = [transfers EXCEPT ![t] = "running"]
    /\ unpolled' = unpolled \cup {t}
    /\ UNCHANGED button /\ RestOfPanel

\* onDownloadRequested(): the selection may have moved while its menu was open.
DownloadRequested(t) ==
    /\ transfers[t] = "none" /\ transfers' = [transfers EXCEPT ![t] = "running"]
    /\ Mirrored(t, "progress")
    /\ UNCHANGED unpolled /\ RestOfPanel

\* The poll of every second. A finished download goes on reporting: its peers come
\* and go.
ProgressUpdated(t) ==
    /\ transfers[t] # "none" /\ Mirrored(t, "progress")
    /\ unpolled' = unpolled \ {t}
    /\ UNCHANGED transfers /\ RestOfPanel

\* downloadCompleted, of the poll or of a torrent that was made here and is seeded.
DownloadCompleted(t) ==
    /\ transfers[t] \in {"none", "running"} /\ transfers' = [transfers EXCEPT ![t] = "done"]
    /\ Mirrored(t, "completed")
    /\ unpolled' = unpolled \ {t}
    /\ RestOfPanel

TorrentRemoved(t) ==
    /\ transfers[t] # "none" /\ transfers' = [transfers EXCEPT ![t] = "none"]
    /\ Mirrored(t, "download")
    /\ unpolled' = unpolled \ {t}
    /\ RestOfPanel

PanelNext ==
    \E t \in PanelTorrents :
         \/ SetTorrent(t) \/ ImageArrives(t)
         \/ CountsScraped(t) \/ InfoScraped(t) \/ InfoChecked(t)
         \/ VotesUpdated(t)
         \/ StartedElsewhere(t) \/ DownloadRequested(t) \/ ProgressUpdated(t)
         \/ DownloadCompleted(t) \/ TorrentRemoved(t)

----------------------------------------------------------------------------
\* The panel never mixes two torrents: counts, votes, description, image and button
\* are those of the one selected, however late an answer for another comes; a download
\* is offered for one that runs only if it was started elsewhere, until the next poll;
\* and the indicator turns only while a scrape runs that will take it down.
PanelIsOfOneTorrent ==
    current # Nobody =>
        /\ counts = current /\ rating = current
        /\ infoShown \in {current, Nobody} /\ poster \in {current, Nobody, "loading"}
        /\ poster = "loading" => current \in images
        /\ spinner => current \in scrapes
        /\ button = "download" => transfers[current] = "none" \/ current \in unpolled
        /\ button = "completed" => transfers[current] = "done"
=============================================================================
