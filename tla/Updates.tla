------------------------------- MODULE Updates -------------------------------
(* UpdateService, the window that drives it and the API's update.check. All of it
   runs on the main thread, but a dialog runs an event loop of its own inside the
   signal that opened it: what was connected to that signal later has to wait
   until the dialog is closed, while replies keep arriving. The open dialogs are
   a stack of frames, each with the callers its signal has yet to reach. *)
EXTENDS Naturals, Sequences, FiniteSets
CONSTANTS
    Callers,               \* update.check requests
    HasWindow,             \* FALSE: a headless program
    MaxChecks, MaxDownloads \* bounds: requests made to the network

ASSUME UpdatesAssumption == MaxChecks \in Nat /\ MaxDownloads \in Nat

VARIABLES
    state, info,           \* state_; updateInfo_.isValid()
    checks, downloads,     \* replies on the way
    made, fetched,         \* checks and downloads begun
    dir, staged,           \* tempDir_ (0: none), and what was made ready in it
    listening, answers,    \* what each caller is connected to, how often it was answered
    unheard,               \* history: callers no check runs for, or that the menu took off a signal
    menuWaits,             \* the window's own connection to noUpdateAvailable
    frames,
    stray,                 \* a dialog that is gone left its lambda connected to stateChanged
    install,               \* "no", or what the launched updater found: "whole", "cut", "nothing"
    crashed

updateVars ==
    <<state, info, checks, downloads, made, fetched, dir, staged, listening, answers, unheard,
      menuWaits, frames, stray, install, crashed>>

Signals == {"available", "none", "error"}
States == {"Idle", "CheckingForUpdates", "UpdateAvailable", "Downloading", "ReadyToInstall", "Installing", "Error"}
Payloads == {"nothing", "cut", "whole"}
\* wired: its button was pressed, which connected the lambda that writes its label.
Frame(kind, held) == [kind |-> kind, held |-> held, button |-> TRUE, wired |-> FALSE, closing |-> FALSE]
Alive == install = "no" /\ ~crashed

UpdatesTypeOK ==
    /\ state \in States /\ info \in BOOLEAN
    /\ dir \in 0..MaxDownloads /\ staged \in Payloads
    /\ listening \in [Callers -> SUBSET Signals] /\ unheard \subseteq Callers
    /\ install \in {"no"} \cup Payloads
    /\ stray \in BOOLEAN /\ crashed \in BOOLEAN

UpdatesInit ==
    /\ state = "Idle" /\ info = FALSE
    /\ checks = 0 /\ downloads = 0 /\ made = 0 /\ fetched = 0
    /\ dir = 0 /\ staged = "nothing"
    /\ listening = [c \in Callers |-> {}] /\ answers = [c \in Callers |-> 0] /\ unheard = {}
    /\ menuWaits = FALSE /\ frames = <<>> /\ stray = FALSE
    /\ install = "no" /\ crashed = FALSE

----------------------------------------------------------------------------
(* Signals *)
Hearing(signal) == {c \in Callers : signal \in listening[c]}

\* The finish lambda of update.check: it disconnects itself from all three.
Answer(callers) ==
    /\ answers' = [c \in Callers |-> IF c \in callers THEN answers[c] + 1 ELSE answers[c]]
    /\ listening' = [c \in Callers |-> IF c \in callers THEN {} ELSE listening[c]]

\* setState(), where it changes to a state the dialog's label shows: a lambda that
\* outlived its dialog writes to the freed label, and what comes of it is undefined.
Labelled(changes) == crashed' \in IF stray /\ changes THEN BOOLEAN ELSE {crashed}

\* setError(): nothing blocks this signal, and a dialog offers to try again.
SetError(stack) ==
    /\ state' = "Error"
    /\ Answer(Hearing("error"))
    /\ frames' = [i \in DOMAIN stack |-> [stack[i] EXCEPT !.button = TRUE]]

\* emit: a dialog of the window comes first, then whoever else is connected.
Emit(signal, opens) ==
    IF opens THEN /\ frames' = Append(frames, Frame(signal, Hearing(signal)))
                  /\ UNCHANGED <<listening, answers>>
    ELSE Answer(Hearing(signal)) /\ UNCHANGED frames

\* Mutant: a caller that was answered meanwhile is answered again.
HeldAtFirst(f) == f.held

\* Those a dialog held up, and which still listen when it closes.
StillWaiting(f) == {c \in f.held : f.kind \in listening[c]}

----------------------------------------------------------------------------
(* Checking *)
\* checkForUpdates(): a request while one runs is dropped, whoever made it.
CheckForUpdates ==
    IF state \in {"CheckingForUpdates", "Downloading"}
    THEN UNCHANGED <<state, info, checks, made>>
    ELSE /\ made < MaxChecks /\ made' = made + 1
         /\ state' = "CheckingForUpdates" /\ info' = FALSE /\ checks' = checks + 1

\* The check that is dropped for a download leaves no signal to come.
LeftToDownload(callers) == IF state = "Downloading" THEN callers ELSE {}

\* The method update.check of the API.
UpdateCheck(c) ==
    /\ Alive /\ answers[c] = 0 /\ listening[c] = {}
    /\ listening' = [listening EXCEPT ![c] = Signals]
    /\ unheard' = unheard \cup LeftToDownload({c})
    /\ CheckForUpdates
    /\ UNCHANGED <<downloads, fetched, dir, staged, answers, menuWaits, frames, stray, install, crashed>>

\* Help > Check for Updates takes everyone else off noUpdateAvailable.
MenuCheck ==
    /\ Alive /\ HasWindow /\ frames = <<>>
    /\ listening' = [c \in Callers |-> listening[c] \ {"none"}]
    /\ unheard' = unheard \cup Hearing("none")
    /\ menuWaits' = TRUE
    /\ CheckForUpdates
    /\ UNCHANGED <<downloads, fetched, dir, staged, answers, frames, stray, install, crashed>>

\* onCheckReplyFinished(). The reply may be an old one, of a check that a failed
\* download was started behind: state_ is set all the same. A version that is not
\* newer leaves updateInfo_ filled in.
OnCheckReplyFinished ==
    /\ Alive /\ checks > 0 /\ checks' = checks - 1
    /\ \/ SetError(frames) /\ Labelled(state # "Error") /\ UNCHANGED <<info, menuWaits>>
       \/ /\ state' = "Idle" /\ info' \in {info, TRUE}
          /\ menuWaits' = FALSE
          /\ Emit("none", menuWaits)
          /\ UNCHANGED crashed
       \/ /\ state' = "UpdateAvailable" /\ info' = TRUE
          /\ Emit("available", HasWindow)
          /\ UNCHANGED <<menuWaits, crashed>>
    /\ UNCHANGED <<downloads, made, fetched, dir, staged, unheard, stray, install>>

----------------------------------------------------------------------------
(* Downloading *)
Top == frames[Len(frames)]
Below == SubSeq(frames, 1, Len(frames) - 1)
Pressed == [frames EXCEPT ![Len(frames)].button = FALSE, ![Len(frames)].wired = TRUE]

\* downloadUpdate(), from the button of the dialog.
DownloadUpdate ==
    /\ Alive /\ frames # <<>> /\ Top.kind = "available" /\ Top.button /\ ~Top.closing
    /\ \/ ~info /\ SetError(Pressed) /\ Labelled(state # "Error") /\ UNCHANGED <<downloads, fetched, dir, staged>>
       \/ /\ info /\ state = "Downloading" /\ frames' = Pressed
          /\ UNCHANGED <<state, downloads, fetched, dir, staged, listening, answers, crashed>>
       \/ /\ info /\ state # "Downloading" /\ fetched < MaxDownloads
          /\ fetched' = fetched + 1
          \* A new directory; the one before it is removed.
          /\ dir' = fetched' /\ staged' = "nothing"
          /\ Labelled(TRUE)
          /\ \/ /\ state' = "Downloading" /\ downloads' = downloads + 1
                /\ frames' = Pressed
                /\ UNCHANGED <<listening, answers>>
             \/ SetError(Pressed) /\ UNCHANGED downloads
    /\ UNCHANGED <<info, checks, made, unheard, menuWaits, stray, install>>

\* onDownloadFinished() and applyUpdate(): saved, extracted and the script written
\* in one go, into whatever directory is the current one. What write() returned is
\* not looked at: an archive that was cut fails to extract, but an AppImage is only
\* copied, and a cut one is as ready as a whole one.
OnDownloadFinished ==
    /\ Alive /\ downloads > 0 /\ downloads' = downloads - 1
    /\ Labelled(TRUE)
    /\ \/ SetError(frames) /\ staged' \in {staged, "cut", "nothing"}
       \/ /\ state' = "ReadyToInstall" /\ staged' \in {"cut", "whole"}
          /\ frames' = IF HasWindow THEN Append(frames, Frame("ready", {})) ELSE frames
          /\ UNCHANGED <<listening, answers>>
    /\ UNCHANGED <<info, checks, made, fetched, dir, unheard, menuWaits, stray, install>>

----------------------------------------------------------------------------
(* The dialogs *)
\* accept() reaches the dialogs below once the question of the window is answered.
Accepted == [i \in 1..(Len(frames) - 1) |-> [frames[i] EXCEPT !.closing = @ \/ frames[i].kind = "available"]]

\* Later, Cancel or OK, or an accepted dialog whose turn it is. A download goes on.
CloseDialog ==
    /\ Alive /\ frames # <<>> /\ Top.kind # "ready"
    /\ frames' = Below
    /\ stray' = (stray \/ Top.wired)
    /\ Answer(StillWaiting(Top))
    /\ UNCHANGED <<state, info, checks, downloads, made, fetched, dir, staged, unheard, menuWaits, install, crashed>>

Declined ==
    /\ Alive /\ frames # <<>> /\ Top.kind = "ready"
    /\ frames' = Accepted
    /\ UNCHANGED <<state, info, checks, downloads, made, fetched, dir, staged, listening, answers, unheard, menuWaits,
                   stray, install, crashed>>

\* executeUpdateScript() looks again: the question may have stood for long.
IsReady == state = "ReadyToInstall"

\* Yes: the updater is launched and the program closes for it.
ExecuteUpdateScript ==
    /\ Alive /\ frames # <<>> /\ Top.kind = "ready"
    /\ \/ /\ IsReady
          /\ state' = "Installing"
          /\ install' = IF dir # 0 THEN staged ELSE "nothing"
          /\ dir' = 0 /\ frames' = <<>>
          /\ UNCHANGED <<listening, answers, crashed>>
       \/ SetError(Accepted) /\ Labelled(state # "Error") /\ UNCHANGED <<dir, install>>
    /\ UNCHANGED <<info, checks, downloads, made, fetched, staged, unheard, menuWaits, stray>>

UpdatesNext ==
    \/ \E c \in Callers : UpdateCheck(c)
    \/ MenuCheck \/ OnCheckReplyFinished
    \/ DownloadUpdate \/ OnDownloadFinished
    \/ CloseDialog \/ Declined \/ ExecuteUpdateScript

----------------------------------------------------------------------------
\* The updater that replaces the program is launched only over what a download made
\* ready, its script and its files in the directory it is given, however many checks
\* and downloads ran while the question to the user was open. Whether the download
\* was written whole nobody checks.
InstallsWhatIsStaged == install # "nothing"

\* Nobody is answered twice, by a signal and by the dialog that held it up; and once
\* no check runs and no dialog is open, whoever asked was answered, but for those the
\* menu took off a signal and those whose check a download kept from starting.
CheckAnsweredOnce ==
    \A c \in Callers :
        /\ answers[c] <= 1
        /\ Alive /\ checks = 0 /\ frames = <<>> /\ c \notin unheard => listening[c] = {}
=============================================================================
