----------------------------- MODULE PlayerWidget -----------------------------
(***************************************************************************)
(* PlayerWidget (src/playerwidget.cpp) and its stream labels               *)
(* (src/customstreamwidget.cpp): the GUI thread, in which buttons and      *)
(* network replies are served; the worker thread of play(), which reads    *)
(* the decoder and writes the sound device; and the tasks of               *)
(* close_ao_device(), which wait for the worker.                           *)
(*                                                                         *)
(* The field `starting' of the widget is never set, and is left out.       *)
(* Bytes are abstracted: whether a reply has enough of them for decoder()  *)
(* to go on, precaching or not, is a free choice.  Volume is left out.     *)
(***************************************************************************)
EXTENDS Naturals, FiniteSets

CONSTANTS
    Streams,       \* the streams with a label
    Default,       \* the media_source the widget starts with
    Playlists,     \* the streams that are given by an m3u playlist
    MaxReplies,    \* bound on the downloads at a time
    MaxWorkers,    \* bound on the runs of play() at a time
    MaxClosers     \* bound on the tasks of close_ao_device() at a time

NoStream == "no stream"

ASSUME PlayerAssumption ==
    /\ NoStream \notin Streams
    /\ Default \in Streams /\ Playlists \subseteq Streams
    /\ {MaxReplies, MaxWorkers, MaxClosers} \subseteq Nat \ {0}

VARIABLES
    playing,       \* playing
    mediaSource,   \* media_source
    device,        \* is device open (not NULL)?
    fed,           \* the streams whose bytes the open mpg123 feed was given
    enabled,       \* is the play/pause button enabled?
    icon,          \* the button's icon
    active,        \* the stream labels with StateActive
    replies,       \* the network replies that are not deleted yet
    workers,       \* where each run of play() is
    f,             \* the running worker the future f stands for, or NoWorker
    closers,       \* the tasks of close_ao_device(), and the call each posts
    switchTo,      \* the stream the GUI thread, blocked, is about to start
    hasty,         \* history: something was left when the stream was started
    ended          \* history: a download has ended by itself

buttonVars == <<enabled, icon, active>>
historyVars == <<hasty, ended>>
playerVars == <<playing, mediaSource, device, fed, buttonVars, replies, workers, f,
                closers, switchTo, historyVars>>

ReplyIds == 1 .. MaxReplies
WorkerIds == 1 .. MaxWorkers
CloserIds == 1 .. MaxClosers
NoWorker == 0

\* queued: a downloadProgress() of the reply is on its way to decoder().
Reply(kind, source) == [kind |-> kind, source |-> source, queued |-> FALSE]
NoReply == Reply("none", Default)
\* on: the worker a waiting task waits for, until it has finished.
NoCloser == [pc |-> "none", on |-> NoWorker]

PlayerTypeOK ==
    /\ {playing, device, enabled, hasty, ended} \subseteq BOOLEAN
    /\ mediaSource \in Streams /\ fed \subseteq Streams /\ active \subseteq Streams
    /\ icon \in {"play", "stop"}
    /\ replies \in [ReplyIds -> [kind : {"none", "playlist", "stream", "finished"},
                                 source : Streams, queued : BOOLEAN]]
    /\ workers \in [WorkerIds -> {"none", "loop", "close", "end"}]
    /\ f \in WorkerIds \cup {NoWorker}
    /\ closers \in [CloserIds -> [pc : {"none", "queued", "waiting", "posted"},
                                  on : WorkerIds \cup {NoWorker}]]
    /\ switchTo \in Streams \cup {NoStream}

PlayerInit ==
    /\ playing = FALSE /\ mediaSource = Default
    /\ device = FALSE /\ fed = {} /\ enabled = TRUE /\ icon = "play" /\ active = {}
    /\ replies = [r \in ReplyIds |-> NoReply]
    /\ workers = [w \in WorkerIds |-> "none"] /\ f = NoWorker
    /\ closers = [c \in CloserIds |-> NoCloser]
    /\ switchTo = NoStream
    /\ hasty = FALSE /\ ended = FALSE

GuiIdle == switchTo = NoStream

\* Nothing of an earlier start is left.
Settled ==
    /\ \A r \in ReplyIds : replies[r].kind = "none"
    /\ \A w \in WorkerIds : workers[w] = "none"

-----------------------------------------------------------------------------
(* Buttons and labels.                                                     *)

\* setNotActive() of the label of a stream, which is an exclusive or.
SetNotActive(labels, stream) ==
    IF stream \in labels THEN labels \ {stream} ELSE labels \cup {stream}

\* Mutant: the feed is not opened anew.
StartPlayingKeepsFeed(stream, marks) ==
    /\ playing' = TRUE /\ mediaSource' = stream
    /\ icon' = "stop" /\ active' = marks
    /\ \E r \in ReplyIds :
         /\ replies[r].kind = "none"
         /\ replies' = [replies EXCEPT ![r] =
                Reply(IF stream \in Playlists THEN "playlist" ELSE "stream", stream)]
    /\ hasty' = ~Settled
    /\ UNCHANGED <<fed, device, workers, f, closers, ended>>

\* on_playPause_clicked() when nothing plays; marks: the labels it leaves
\* active.  parse_playlist() asks for the playlist or the stream itself.
StartPlaying(stream, marks) ==
    /\ playing' = TRUE /\ mediaSource' = stream
    /\ fed' = {} /\ icon' = "stop" /\ active' = marks
    /\ \E r \in ReplyIds :
         /\ replies[r].kind = "none"
         /\ replies' = [replies EXCEPT ![r] =
                Reply(IF stream \in Playlists THEN "playlist" ELSE "stream", stream)]
    /\ hasty' = ~Settled
    /\ UNCHANGED <<device, workers, f, closers, ended>>

PlayClicked ==
    /\ GuiIdle /\ enabled /\ ~playing
    /\ StartPlaying(mediaSource, SetNotActive(active, mediaSource))
    /\ UNCHANGED <<enabled, switchTo>>

\* Mutant: nothing waits for the worker and enables the button again.
StopClickedNoTask ==
    /\ GuiIdle /\ enabled /\ playing
    /\ playing' = FALSE /\ fed' = {} /\ enabled' = FALSE
    /\ active' = SetNotActive(active, mediaSource)
    /\ UNCHANGED <<mediaSource, device, icon, replies, workers, f, closers, switchTo,
                   historyVars>>

\* Mutant: the mark of the label is left alone.
StopClickedKeepsMark ==
    /\ GuiIdle /\ enabled /\ playing
    /\ playing' = FALSE /\ fed' = {} /\ enabled' = FALSE
    /\ \E c \in CloserIds :
         /\ closers[c].pc = "none"
         /\ closers' = [closers EXCEPT ![c].pc = "queued"]
    /\ UNCHANGED <<mediaSource, device, icon, active, replies, workers, f, switchTo,
                   historyVars>>

\* on_playPause_clicked() when something plays: a task is left to wait for
\* the worker and to enable the button again.
StopClicked ==
    /\ GuiIdle /\ enabled /\ playing
    /\ playing' = FALSE /\ fed' = {} /\ enabled' = FALSE
    /\ active' = SetNotActive(active, mediaSource)
    /\ \E c \in CloserIds :
         /\ closers[c].pc = "none"
         /\ closers' = [closers EXCEPT ![c].pc = "queued"]
    /\ UNCHANGED <<mediaSource, device, icon, replies, workers, f, switchTo, historyVars>>

\* A click on a label while nothing plays: stream_changed() starts the
\* stream, and the label is made active after that.
LabelStarts(stream) ==
    /\ GuiIdle /\ ~playing
    /\ StartPlaying(stream, SetNotActive(active, stream) \cup {stream})
    /\ UNCHANGED <<enabled, switchTo>>

\* A click on the label of the stream that plays only marks the label.
LabelAgain ==
    /\ GuiIdle /\ playing
    /\ active' = active \cup {mediaSource}
    /\ UNCHANGED <<playing, mediaSource, device, fed, enabled, icon, replies, workers,
                   f, closers, switchTo, historyVars>>

\* A click on another label: stream_changed() stops the player and blocks in
\* close_ao_device() ...
LabelSwitches(stream) ==
    /\ GuiIdle /\ playing /\ stream # mediaSource
    /\ \E r \in ReplyIds : replies[r].kind = "none"   \* the bound, for Switched
    /\ playing' = FALSE /\ fed' = {} /\ enabled' = FALSE
    /\ switchTo' = stream
    /\ UNCHANGED <<mediaSource, device, icon, active, replies, workers, f, closers,
                   historyVars>>

\* ... until the worker has finished; then it starts the other stream.
Switched ==
    /\ ~GuiIdle /\ f = NoWorker
    /\ StartPlaying(switchTo, SetNotActive(SetNotActive(active, mediaSource), switchTo)
                                 \cup {switchTo})
    /\ enabled' = TRUE
    /\ switchTo' = NoStream

-----------------------------------------------------------------------------
(* Network replies, served by the GUI thread.                              *)

\* Bytes arrive: a call of decoder() is queued.
DownloadProgress(r) ==
    /\ replies[r].kind = "stream" /\ ~replies[r].queued
    /\ replies' = [replies EXCEPT ![r].queued = TRUE]
    /\ UNCHANGED <<playing, mediaSource, device, fed, buttonVars, workers, f, closers,
                   switchTo, historyVars>>

\* playlist_downloaded(): the stream is asked for, whether or not the player
\* was stopped in the meantime.
PlaylistDownloaded(r) ==
    /\ GuiIdle /\ replies[r].kind = "playlist"
    /\ replies' = [replies EXCEPT ![r].kind = "stream"]
    /\ UNCHANGED <<playing, mediaSource, device, fed, buttonVars, workers, f, closers,
                   switchTo, historyVars>>

\* streaming_finished(): the reply lives on until the calls of decoder() it
\* has queued are served.
StreamingFinished(r) ==
    /\ GuiIdle /\ replies[r].kind = "stream"
    /\ playing' = FALSE /\ ended' = TRUE /\ icon' = "play"
    /\ replies' = [replies EXCEPT ![r] =
            IF @.queued THEN [@ EXCEPT !.kind = "finished"] ELSE NoReply]
    /\ UNCHANGED <<mediaSource, device, fed, enabled, active, workers, f, closers, switchTo,
                   hasty>>

\* What is left of a reply whose queued call of decoder() has been served.
Served(r) == replies' = [replies EXCEPT ![r] =
    IF @.kind = "finished" THEN NoReply ELSE [@ EXCEPT !.queued = FALSE]]

\* decoder() of a stopped player closes the reply, which emits finished()
\* if the reply had not finished yet.
DecoderStopped(r) ==
    /\ ~playing
    /\ icon' = IF replies[r].kind = "stream" THEN "play" ELSE icon
    /\ replies' = [replies EXCEPT ![r] = NoReply]
    /\ UNCHANGED <<playing, device, fed, workers, f>>

\* decoder() with too few bytes.
DecoderWaits(r) ==
    /\ playing
    /\ Served(r)
    /\ UNCHANGED <<playing, device, fed, icon, workers, f>>

\* Mutant: the future of play() is not kept.
DecoderFeedsForgets(r) ==
    /\ playing
    /\ fed' = fed \cup {replies[r].source}
    /\ device' = TRUE
    /\ \/ device /\ UNCHANGED workers
       \/ /\ ~device
          /\ \E w \in WorkerIds :
               workers[w] = "none" /\ workers' = [workers EXCEPT ![w] = "loop"]
    /\ Served(r)
    /\ UNCHANGED <<playing, icon, f>>

\* decoder() with enough bytes: they are fed, and if no device is open, one
\* is opened and play() is started.
DecoderFeeds(r) ==
    /\ playing
    /\ fed' = fed \cup {replies[r].source}
    /\ device' = TRUE
    /\ \/ device /\ UNCHANGED <<workers, f>>
       \/ /\ ~device
          /\ \E w \in WorkerIds :
               /\ workers[w] = "none"
               /\ workers' = [workers EXCEPT ![w] = "loop"]
               /\ f' = w
    /\ Served(r)
    /\ UNCHANGED <<playing, icon>>

Decoder(r) ==
    /\ GuiIdle /\ replies[r].queued
    /\ DecoderStopped(r) \/ DecoderWaits(r) \/ DecoderFeeds(r)
    /\ UNCHANGED <<mediaSource, enabled, active, closers, switchTo, historyVars>>

-----------------------------------------------------------------------------
(* The pool threads.                                                       *)

\* play() leaves its loop when it finds playing false; until then it reads
\* the decoder and writes the device.
LoopEnds(w) ==
    /\ workers[w] = "loop" /\ ~playing
    /\ workers' = [workers EXCEPT ![w] = "close"]
    /\ UNCHANGED <<device, f, closers>>

DeviceCloses(w) ==
    /\ workers[w] = "close"
    /\ device' = FALSE
    /\ workers' = [workers EXCEPT ![w] = "end"]
    /\ UNCHANGED <<f, closers>>

\* The future of play() is finished, and those who wait for it go on.
WorkerEnds(w) ==
    /\ workers[w] = "end"
    /\ workers' = [workers EXCEPT ![w] = "none"]
    /\ f' = IF f = w THEN NoWorker ELSE f
    /\ closers' = [c \in CloserIds |->
            IF closers[c].on = w THEN [closers[c] EXCEPT !.on = NoWorker] ELSE closers[c]]
    /\ UNCHANGED device

Play(w) ==
    /\ LoopEnds(w) \/ DeviceCloses(w) \/ WorkerEnds(w)
    /\ UNCHANGED <<playing, mediaSource, fed, buttonVars, replies, switchTo, historyVars>>

\* close_ao_device() gets a thread, and looks at the future there is then.
CloserRuns(c) ==
    /\ closers[c].pc = "queued"
    /\ closers' = [closers EXCEPT ![c] = [pc |-> "waiting", on |-> f]]
    /\ UNCHANGED enabled

\* The worker has finished: the button is enabled, stateChanged() is posted.
CloserDone(c) ==
    /\ closers[c] = [pc |-> "waiting", on |-> NoWorker]
    /\ enabled' = TRUE
    /\ closers' = [closers EXCEPT ![c].pc = "posted"]

CloseAoDevice(c) ==
    /\ CloserRuns(c) \/ CloserDone(c)
    /\ UNCHANGED <<playing, mediaSource, device, fed, icon, active, replies, workers, f,
                   switchTo, historyVars>>

\* stateChanged(), posted to the GUI thread.
StateChanged(c) ==
    /\ GuiIdle /\ closers[c].pc = "posted"
    /\ icon' = IF playing THEN "stop" ELSE "play"
    /\ closers' = [closers EXCEPT ![c].pc = "none"]
    /\ UNCHANGED <<playing, mediaSource, device, fed, enabled, active, replies, workers,
                   f, switchTo, historyVars>>

-----------------------------------------------------------------------------
UserClicks ==
    \/ PlayClicked \/ StopClicked \/ LabelAgain
    \/ \E stream \in Streams : LabelStarts(stream) \/ LabelSwitches(stream)

ReplyEvent(r) ==
    DownloadProgress(r) \/ PlaylistDownloaded(r) \/ StreamingFinished(r) \/ Decoder(r)

PoolStep ==
    \/ \E w \in WorkerIds : Play(w)
    \/ \E c \in CloserIds : CloseAoDevice(c) \/ StateChanged(c)

PlayerNext ==
    \/ UserClicks \/ Switched \/ PoolStep
    \/ \E r \in ReplyIds : ReplyEvent(r)

PlayerSpec == PlayerInit /\ [][PlayerNext]_playerVars

-----------------------------------------------------------------------------
(* Properties.                                                             *)

\* The sound device (playerwidget.cpp:145, 216) has one owner: while it is
\* open exactly one run of play() uses it, and none uses a closed one.
DeviceOwned ==
    LET users == {w \in WorkerIds : workers[w] \in {"loop", "close"}}
    IN  Cardinality(users) = IF device THEN 1 ELSE 0

\* The future f, for which everybody waits before the device is gone, is
\* that of the run that uses the device (playerwidget.cpp:174, 279).
FutureIsOwner ==
    \A w \in WorkerIds : workers[w] \in {"loop", "close"} => f = w

\* When no call is under way the icon of the button says what a click on it
\* will do (playerwidget.cpp:96).
IconAgrees ==
    GuiIdle /\ (\A c \in CloserIds : closers[c].pc = "none")
        => icon = IF playing THEN "stop" ELSE "play"

\* As long as no stream ends by itself, the marks that setNotActive() toggles
\* (customstreamwidget.cpp:65) are that of the stream that plays.
MarksAgree ==
    GuiIdle /\ ~ended => active = IF playing THEN {mediaSource} ELSE {}

\* A user who waits until a stopped stream is gone never hears another one
\* than the one that was chosen: a reply that is late feeds nothing
\* (playerwidget.cpp:130).
OneSource == ~hasty => fed \subseteq {mediaSource}

\* A player that is stopped, or whose stream has ended, gives the device back
\* (playerwidget.cpp:199-217) unless it is started again.
DeviceReturned == ~playing ~> ~device \/ playing

\* A button that was disabled (playerwidget.cpp:268, 324) is enabled again, at
\* the latest when the user is patient with it.
ButtonReturns == ~enabled ~> enabled \/ playing

\* Whoever waits for the device waits for the one run that uses it.
DeviceHasOwner == DeviceOwned /\ FutureIsOwner

\* What the window shows, icon and marks, is what the player does.
DisplayAgrees == IconAgrees /\ MarksAgree

\* Device and button come back.
PlayerReturns == DeviceReturned /\ ButtonReturns
==============================================================================
