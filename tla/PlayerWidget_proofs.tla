------------------------- MODULE PlayerWidget_proofs --------------------------
(***************************************************************************)
(* Proofs about PlayerWidget, for every set of streams and every bound on  *)
(* downloads, workers and closing tasks.                                   *)
(***************************************************************************)
EXTENDS PlayerWidget, FiniteSetTheorems, TLAPS

ReplyRecords == [kind : {"none", "playlist", "stream", "finished"},
                 source : Streams, queued : BOOLEAN]
CloserRecords == [pc : {"none", "queued", "waiting", "posted"},
                  on : WorkerIds \cup {NoWorker}]

-----------------------------------------------------------------------------
(* Types.                                                                  *)

\* The records of the model have their types.
LEMMA ReplyType ==
    ASSUME NEW kind \in {"none", "playlist", "stream", "finished"}, NEW source \in Streams
    PROVE  Reply(kind, source) \in ReplyRecords
BY DEF Reply, ReplyRecords

LEMMA NoReplyType == NoReply \in ReplyRecords
BY ReplyType, PlayerAssumption DEF NoReply

LEMMA NoCloserType == NoCloser \in CloserRecords
BY DEF NoCloser, CloserRecords

LEMMA MarksType ==
    ASSUME NEW labels \in SUBSET Streams, NEW stream \in Streams
    PROVE  SetNotActive(labels, stream) \subseteq Streams
BY DEF SetNotActive

LEMMA TypeInit == PlayerInit => PlayerTypeOK
<1> SUFFICES ASSUME PlayerInit PROVE PlayerTypeOK
  OBVIOUS
<1>1. replies \in [ReplyIds -> ReplyRecords]
  BY NoReplyType DEF PlayerInit
<1>2. closers \in [CloserIds -> CloserRecords]
  BY NoCloserType DEF PlayerInit
<1> QED BY <1>1, <1>2, PlayerAssumption DEF PlayerInit, PlayerTypeOK, ReplyRecords, CloserRecords

\* A start of a stream keeps the types of what it changes.
LEMMA StartTypes ==
    ASSUME PlayerTypeOK, NEW stream \in Streams, NEW marks \in SUBSET Streams,
           StartPlaying(stream, marks), enabled' \in BOOLEAN,
           switchTo' \in Streams \cup {NoStream}
    PROVE  PlayerTypeOK'
<1>1. PICK r \in ReplyIds : replies' = [replies EXCEPT ![r] =
          Reply(IF stream \in Playlists THEN "playlist" ELSE "stream", stream)]
  BY DEF StartPlaying
<1>2. Reply(IF stream \in Playlists THEN "playlist" ELSE "stream", stream) \in ReplyRecords
  BY ReplyType
<1>3. replies' \in [ReplyIds -> ReplyRecords]
  BY <1>1, <1>2 DEF PlayerTypeOK, ReplyRecords
<1>4. hasty' \in BOOLEAN
  BY DEF StartPlaying, Settled
<1> QED BY <1>3, <1>4 DEF StartPlaying, PlayerTypeOK, ReplyRecords

LEMMA ClickTypes == ASSUME PlayerTypeOK, UserClicks \/ Switched PROVE PlayerTypeOK'
<1>1. CASE PlayClicked
  BY <1>1, StartTypes, MarksType DEF PlayClicked, PlayerTypeOK
<1>2. CASE StopClicked
  <2>1. PICK c \in CloserIds : closers' = [closers EXCEPT ![c].pc = "queued"]
    BY <1>2 DEF StopClicked
  <2>2. closers' \in [CloserIds -> CloserRecords]
    BY <2>1 DEF PlayerTypeOK, CloserRecords
  <2>3. active' \subseteq Streams
    BY <1>2, MarksType DEF StopClicked, PlayerTypeOK
  <2> QED BY <1>2, <2>2, <2>3 DEF StopClicked, PlayerTypeOK, historyVars, CloserRecords
<1>3. CASE LabelAgain
  BY <1>3 DEF LabelAgain, PlayerTypeOK, historyVars
<1>4. ASSUME NEW stream \in Streams, LabelStarts(stream) PROVE PlayerTypeOK'
  BY <1>4, StartTypes, MarksType DEF LabelStarts, PlayerTypeOK
<1>5. ASSUME NEW stream \in Streams, LabelSwitches(stream) PROVE PlayerTypeOK'
  BY <1>5 DEF LabelSwitches, PlayerTypeOK, historyVars
<1>6. CASE Switched
  <2>1. switchTo \in Streams
    BY <1>6 DEF Switched, GuiIdle, PlayerTypeOK
  <2>2. SetNotActive(SetNotActive(active, mediaSource), switchTo) \cup {switchTo}
          \subseteq Streams
    BY <2>1, MarksType DEF PlayerTypeOK
  <2> QED BY <1>6, <2>1, <2>2, StartTypes DEF Switched
<1> QED BY <1>1, <1>2, <1>3, <1>4, <1>5, <1>6 DEF UserClicks

LEMMA ReplyTypes ==
    ASSUME PlayerTypeOK, NEW r \in ReplyIds, ReplyEvent(r) PROVE PlayerTypeOK'
<1>0. replies \in [ReplyIds -> ReplyRecords]
  BY DEF PlayerTypeOK, ReplyRecords
<1>1. CASE DownloadProgress(r)
  <2>1. replies' \in [ReplyIds -> ReplyRecords]
    BY <1>0, <1>1 DEF DownloadProgress, ReplyRecords
  <2> QED BY <1>1, <2>1 DEF DownloadProgress, PlayerTypeOK, historyVars, buttonVars, ReplyRecords
<1>2. CASE PlaylistDownloaded(r)
  <2>1. replies' \in [ReplyIds -> ReplyRecords]
    BY <1>0, <1>2 DEF PlaylistDownloaded, ReplyRecords
  <2> QED BY <1>2, <2>1 DEF PlaylistDownloaded, PlayerTypeOK, historyVars, buttonVars, ReplyRecords
<1>3. CASE StreamingFinished(r)
  <2>1. replies' \in [ReplyIds -> ReplyRecords]
    BY <1>0, <1>3, NoReplyType DEF StreamingFinished, ReplyRecords
  <2> QED BY <1>3, <2>1 DEF StreamingFinished, PlayerTypeOK, ReplyRecords
<1>4. CASE Decoder(r)
  <2>0. ASSUME Served(r) PROVE replies' \in [ReplyIds -> ReplyRecords]
    BY <1>0, <2>0, NoReplyType DEF Served, ReplyRecords
  <2>1. CASE DecoderStopped(r)
    <3>1. replies' \in [ReplyIds -> ReplyRecords]
      BY <1>0, <2>1, NoReplyType DEF DecoderStopped
    <3> QED BY <1>4, <2>1, <3>1 DEF Decoder, DecoderStopped, PlayerTypeOK, historyVars, ReplyRecords
  <2>2. CASE DecoderWaits(r)
    BY <1>4, <2>0, <2>2 DEF Decoder, DecoderWaits, PlayerTypeOK, historyVars, ReplyRecords
  <2>3. CASE DecoderFeeds(r)
    <3>1. fed' \subseteq Streams
      BY <1>0, <2>3 DEF DecoderFeeds, PlayerTypeOK, ReplyRecords
    <3>2. workers' \in [WorkerIds -> {"none", "loop", "close", "end"}]
          /\ f' \in WorkerIds \cup {NoWorker}
      BY <2>3 DEF DecoderFeeds, PlayerTypeOK
    <3>3. replies' \in [ReplyIds -> ReplyRecords]
      BY <2>0, <2>3 DEF DecoderFeeds
    <3>4. device' \in BOOLEAN /\ UNCHANGED <<playing, icon, mediaSource, enabled, active,
                                             closers, switchTo, hasty, ended>>
      BY <1>4, <2>3 DEF Decoder, DecoderFeeds, historyVars
    <3> QED BY <3>1, <3>2, <3>3, <3>4 DEF PlayerTypeOK, ReplyRecords
  <2> QED BY <1>4, <2>1, <2>2, <2>3 DEF Decoder
<1> QED BY <1>1, <1>2, <1>3, <1>4 DEF ReplyEvent

LEMMA PoolTypes == ASSUME PlayerTypeOK, PoolStep PROVE PlayerTypeOK'
<1>0. closers \in [CloserIds -> CloserRecords]
  BY DEF PlayerTypeOK, CloserRecords
<1>1. ASSUME NEW w \in WorkerIds, Play(w) PROVE PlayerTypeOK'
  <2>1. workers' \in [WorkerIds -> {"none", "loop", "close", "end"}]
        /\ device' \in BOOLEAN /\ f' \in WorkerIds \cup {NoWorker}
    BY <1>1 DEF Play, LoopEnds, DeviceCloses, WorkerEnds, PlayerTypeOK
  <2>2. closers' \in [CloserIds -> CloserRecords]
    BY <1>0, <1>1 DEF Play, LoopEnds, DeviceCloses, WorkerEnds, CloserRecords
  <2> QED BY <1>1, <2>1, <2>2 DEF Play, PlayerTypeOK, buttonVars, historyVars, CloserRecords
<1>2. ASSUME NEW c \in CloserIds, CloseAoDevice(c) PROVE PlayerTypeOK'
  <2>1. closers' \in [CloserIds -> CloserRecords] /\ enabled' \in BOOLEAN
    <3>1. CASE CloserRuns(c)
      <4>1. [pc |-> "waiting", on |-> f] \in CloserRecords
        BY DEF CloserRecords, PlayerTypeOK
      <4> QED BY <1>0, <3>1, <4>1 DEF CloserRuns, PlayerTypeOK
    <3>2. CASE CloserDone(c)
      BY <1>0, <3>2 DEF CloserDone, CloserRecords
    <3> QED BY <1>2, <3>1, <3>2 DEF CloseAoDevice
  <2> QED BY <1>2, <2>1 DEF CloseAoDevice, PlayerTypeOK, historyVars, CloserRecords
<1>3. ASSUME NEW c \in CloserIds, StateChanged(c) PROVE PlayerTypeOK'
  <2>1. closers' \in [CloserIds -> CloserRecords]
    BY <1>0, <1>3 DEF StateChanged, CloserRecords
  <2> QED BY <1>3, <2>1 DEF StateChanged, PlayerTypeOK, historyVars, CloserRecords
<1> QED BY <1>1, <1>2, <1>3 DEF PoolStep

LEMMA TypeStep == PlayerTypeOK /\ [PlayerNext]_playerVars => PlayerTypeOK'
<1> SUFFICES ASSUME PlayerTypeOK, [PlayerNext]_playerVars PROVE PlayerTypeOK'
  OBVIOUS
<1>1. CASE UNCHANGED playerVars
  BY <1>1 DEF playerVars, PlayerTypeOK, buttonVars, historyVars
<1> QED BY <1>1, ClickTypes, ReplyTypes, PoolTypes DEF PlayerNext

\* Every field of the player keeps its type.
THEOREM TypeCorrect == PlayerSpec => []PlayerTypeOK
BY TypeInit, TypeStep, PTL DEF PlayerSpec
-----------------------------------------------------------------------------
(* The sound device.  The run that uses it is the one f stands for, and    *)
(* there is one exactly while the device is open.                          *)

Users == {w \in WorkerIds : workers[w] \in {"loop", "close"}}

OwnerInv == Users = IF device THEN {f} ELSE {}

LEMMA OwnerInit == PlayerInit => OwnerInv
BY DEF PlayerInit, OwnerInv, Users

\* Steps that touch neither the device nor the threads.
LEMMA OwnerSame ==
    ASSUME OwnerInv, UNCHANGED <<device, workers, f>>
    PROVE  OwnerInv'
BY DEF OwnerInv, Users

LEMMA OwnerStep == PlayerTypeOK /\ OwnerInv /\ [PlayerNext]_playerVars => OwnerInv'
<1> SUFFICES ASSUME PlayerTypeOK, OwnerInv, [PlayerNext]_playerVars PROVE OwnerInv'
  OBVIOUS
<1>1. CASE UserClicks \/ Switched
  <2>1. UNCHANGED <<device, workers, f>>
    BY <1>1 DEF UserClicks, Switched, PlayClicked, StopClicked, LabelAgain, LabelStarts,
                LabelSwitches, StartPlaying
  <2> QED BY <2>1, OwnerSame
<1>2. ASSUME NEW r \in ReplyIds, ReplyEvent(r) PROVE OwnerInv'
  <2>1. CASE DownloadProgress(r) \/ PlaylistDownloaded(r) \/ StreamingFinished(r)
    BY <2>1, OwnerSame DEF DownloadProgress, PlaylistDownloaded, StreamingFinished
  <2>2. CASE Decoder(r)
    <3>1. CASE DecoderStopped(r) \/ DecoderWaits(r)
      BY <3>1, OwnerSame DEF DecoderStopped, DecoderWaits
    <3>2. CASE DecoderFeeds(r) /\ device
      BY <3>2, OwnerSame DEF DecoderFeeds
    <3>3. CASE DecoderFeeds(r) /\ ~device
      <4>1. PICK w \in WorkerIds : workers' = [workers EXCEPT ![w] = "loop"] /\ f' = w
        BY <3>3 DEF DecoderFeeds
      <4>2. Users = {} /\ device'
        BY <3>3 DEF OwnerInv, DecoderFeeds
      <4>3. Users' = {w}
        BY <4>1, <4>2 DEF Users, PlayerTypeOK
      <4> QED BY <4>1, <4>2, <4>3 DEF OwnerInv
    <3> QED BY <2>2, <3>1, <3>2, <3>3 DEF Decoder
  <2> QED BY <1>2, <2>1, <2>2 DEF ReplyEvent
<1>3. ASSUME NEW w \in WorkerIds, Play(w) PROVE OwnerInv'
  <2>1. CASE LoopEnds(w)
    <3>1. Users' = Users
      BY <2>1 DEF LoopEnds, Users, PlayerTypeOK
    <3> QED BY <2>1, <3>1 DEF LoopEnds, OwnerInv
  <2>2. CASE DeviceCloses(w)
    <3>1. Users = {w}
      BY <2>2 DEF DeviceCloses, OwnerInv, Users
    <3>2. Users' = {}
      BY <2>2, <3>1 DEF DeviceCloses, Users, PlayerTypeOK
    <3> QED BY <2>2, <3>2 DEF DeviceCloses, OwnerInv
  <2>3. CASE WorkerEnds(w)
    <3>1. Users' = Users /\ w \notin Users
      BY <2>3 DEF WorkerEnds, Users, PlayerTypeOK
    <3>2. device => f' = f
      BY <2>3, <3>1 DEF WorkerEnds, OwnerInv
    <3> QED BY <2>3, <3>1, <3>2 DEF WorkerEnds, OwnerInv
  <2> QED BY <1>3, <2>1, <2>2, <2>3 DEF Play
<1>4. ASSUME NEW c \in CloserIds, CloseAoDevice(c) \/ StateChanged(c) PROVE OwnerInv'
  BY <1>4, OwnerSame DEF CloseAoDevice, StateChanged
<1>5. CASE UNCHANGED playerVars
  BY <1>5, OwnerSame DEF playerVars
<1> QED BY <1>1, <1>2, <1>3, <1>4, <1>5 DEF PlayerNext, PoolStep

LEMMA OwnerAlways == PlayerSpec => [](PlayerTypeOK /\ OwnerInv)
BY TypeInit, TypeStep, OwnerInit, OwnerStep, PTL DEF PlayerSpec

\* The device is open exactly while one run of play() uses it.
THEOREM DeviceCorrect == PlayerSpec => []DeviceOwned
<1>1. OwnerInv => DeviceOwned
  <2> SUFFICES ASSUME OwnerInv PROVE DeviceOwned
    OBVIOUS
  <2>1. Cardinality({}) = 0 /\ Cardinality({f}) = 1
    BY FS_EmptySet, FS_Singleton
  <2> QED BY <2>1 DEF OwnerInv, Users, DeviceOwned
<1> QED BY <1>1, OwnerAlways, PTL

\* Whoever waits for f waits for the run that uses the device.
THEOREM FutureCorrect == PlayerSpec => []FutureIsOwner
<1>1. OwnerInv => FutureIsOwner
  BY DEF OwnerInv, Users, FutureIsOwner
<1> QED BY <1>1, OwnerAlways, PTL

\* The device has one owner, and who waits for the device waits for the owner.
THEOREM OwnerCorrect == PlayerSpec => []DeviceHasOwner
<1>1. DeviceOwned /\ FutureIsOwner => DeviceHasOwner
  BY DEF DeviceHasOwner
<1> QED BY <1>1, DeviceCorrect, FutureCorrect, PTL

-----------------------------------------------------------------------------
(* The button and the labels.                                              *)

LEMMA IconInit == PlayerInit => IconAgrees
BY DEF PlayerInit, IconAgrees

LEMMA IconStep == PlayerTypeOK /\ IconAgrees /\ [PlayerNext]_playerVars => IconAgrees'
<1> SUFFICES ASSUME PlayerTypeOK, IconAgrees, [PlayerNext]_playerVars PROVE IconAgrees'
  OBVIOUS
<1> DEFINE Truth == icon = IF playing THEN "stop" ELSE "play"
<1> DEFINE Open == \E c \in CloserIds : closers[c].pc # "none"
<1>0. IconAgrees <=> (GuiIdle /\ ~Open => Truth)
  BY DEF IconAgrees
<1>1. IconAgrees' <=> (GuiIdle /\ ~Open => Truth)'
  BY DEF IconAgrees
<1>2. ASSUME UNCHANGED <<icon, playing, closers, switchTo>> PROVE IconAgrees'
  BY <1>2 DEF IconAgrees, GuiIdle
<1>3. ASSUME NEW stream, NEW marks, StartPlaying(stream, marks) PROVE IconAgrees'
  BY <1>3 DEF StartPlaying, IconAgrees
<1>4. CASE StopClicked
  <2>1. PICK c \in CloserIds : closers' = [closers EXCEPT ![c].pc = "queued"]
    BY <1>4 DEF StopClicked
  <2>2. closers'[c].pc = "queued"
    BY <2>1 DEF PlayerTypeOK
  <2> QED BY <2>2 DEF IconAgrees
<1>5. ASSUME NEW stream \in Streams, LabelSwitches(stream) PROVE IconAgrees'
  <2>1. ~GuiIdle'
    BY <1>5, PlayerAssumption DEF LabelSwitches, GuiIdle
  <2> QED BY <2>1 DEF IconAgrees
<1>6. CASE UserClicks \/ Switched
  BY <1>2, <1>3, <1>4, <1>5, <1>6
     DEF UserClicks, Switched, PlayClicked, LabelAgain, LabelStarts, historyVars
<1>7. ASSUME NEW r \in ReplyIds, ReplyEvent(r) PROVE IconAgrees'
  <2>1. CASE DownloadProgress(r) \/ PlaylistDownloaded(r)
    BY <1>2, <2>1 DEF DownloadProgress, PlaylistDownloaded, buttonVars
  <2>2. CASE StreamingFinished(r)
    BY <2>2 DEF StreamingFinished, IconAgrees
  <2>3. CASE Decoder(r)
    BY <2>3 DEF Decoder, DecoderStopped, DecoderWaits, DecoderFeeds, IconAgrees, GuiIdle
  <2> QED BY <1>7, <2>1, <2>2, <2>3 DEF ReplyEvent
<1>8. ASSUME NEW w \in WorkerIds, Play(w) PROVE IconAgrees'
  <2>1. \A c \in CloserIds : closers'[c].pc = closers[c].pc
    BY <1>8 DEF Play, LoopEnds, DeviceCloses, WorkerEnds, PlayerTypeOK
  <2> QED BY <1>8, <2>1 DEF Play, buttonVars, IconAgrees, GuiIdle
<1>9. ASSUME NEW c \in CloserIds, CloseAoDevice(c) PROVE IconAgrees'
  <2>1. closers'[c].pc \in {"waiting", "posted"}
    BY <1>9 DEF CloseAoDevice, CloserRuns, CloserDone, PlayerTypeOK
  <2> QED BY <2>1 DEF IconAgrees
<1>10. ASSUME NEW c \in CloserIds, StateChanged(c) PROVE IconAgrees'
  BY <1>10 DEF StateChanged, IconAgrees
<1>11. CASE UNCHANGED playerVars
  BY <1>2, <1>11 DEF playerVars, buttonVars
<1> QED BY <1>6, <1>7, <1>8, <1>9, <1>10, <1>11 DEF PlayerNext, PoolStep

\* The icon of the button tells the truth whenever no call is under way.
THEOREM IconCorrect == PlayerSpec => []IconAgrees
BY TypeInit, TypeStep, IconInit, IconStep, PTL DEF PlayerSpec

\* While the GUI thread is blocked the label of the old stream is still marked,
\* and that stream is not the one it switches to.
MarksInv ==
    /\ MarksAgree
    /\ ~GuiIdle /\ ~ended => active = {mediaSource} /\ ~playing

LEMMA MarksInit == PlayerInit => MarksInv
BY DEF PlayerInit, MarksInv, MarksAgree, GuiIdle

\* Steps that touch nothing the marks depend on.
LEMMA MarksSame ==
    ASSUME MarksInv, UNCHANGED <<playing, mediaSource, active, switchTo, ended>>
    PROVE  MarksInv'
BY DEF MarksInv, MarksAgree, GuiIdle

LEMMA MarksStep == PlayerTypeOK /\ MarksInv /\ [PlayerNext]_playerVars => MarksInv'
<1> SUFFICES ASSUME PlayerTypeOK, MarksInv, [PlayerNext]_playerVars PROVE MarksInv'
  OBVIOUS
<1>0. ASSUME NEW stream, NEW marks, StartPlaying(stream, marks), switchTo' = NoStream,
             ended \/ marks = {stream}
      PROVE  MarksInv'
  BY <1>0 DEF StartPlaying, MarksInv, MarksAgree, GuiIdle
<1>1. CASE PlayClicked
  <2>1. ended \/ SetNotActive(active, mediaSource) = {mediaSource}
    BY <1>1 DEF PlayClicked, MarksInv, MarksAgree, SetNotActive
  <2> QED BY <1>0, <1>1, <2>1 DEF PlayClicked, GuiIdle
<1>2. CASE StopClicked
  <2>1. ended \/ active' = {}
    BY <1>2 DEF StopClicked, MarksInv, MarksAgree, SetNotActive
  <2> QED BY <1>2, <2>1 DEF StopClicked, MarksInv, MarksAgree, GuiIdle, historyVars
<1>3. CASE LabelAgain
  <2>1. ended \/ active' = active
    BY <1>3 DEF LabelAgain, MarksInv, MarksAgree
  <2> QED BY <1>3, <2>1 DEF LabelAgain, MarksInv, MarksAgree, GuiIdle, historyVars
<1>4. ASSUME NEW stream \in Streams, LabelStarts(stream) PROVE MarksInv'
  <2>1. ended \/ SetNotActive(active, stream) \cup {stream} = {stream}
    BY <1>4 DEF LabelStarts, MarksInv, MarksAgree, SetNotActive
  <2> QED BY <1>0, <1>4, <2>1 DEF LabelStarts, GuiIdle
<1>5. ASSUME NEW stream \in Streams, LabelSwitches(stream) PROVE MarksInv'
  <2>1. ~GuiIdle'
    BY <1>5, PlayerAssumption DEF LabelSwitches, GuiIdle
  <2>2. ended \/ active = {mediaSource}
    BY <1>5 DEF LabelSwitches, MarksInv, MarksAgree
  <2> QED BY <1>5, <2>1, <2>2 DEF LabelSwitches, MarksInv, MarksAgree, historyVars
<1>6. CASE Switched
  <2>1. ended \/ SetNotActive(active, mediaSource) = {}
    BY <1>6 DEF Switched, MarksInv, SetNotActive
  <2>2. ended \/ SetNotActive(SetNotActive(active, mediaSource), switchTo) \cup {switchTo}
                   = {switchTo}
    BY <2>1 DEF SetNotActive
  <2> QED BY <1>0, <1>6, <2>2 DEF Switched
<1>7. ASSUME NEW r \in ReplyIds, ReplyEvent(r) PROVE MarksInv'
  <2>1. CASE StreamingFinished(r)
    BY <2>1 DEF StreamingFinished, MarksInv, MarksAgree
  <2>2. CASE DownloadProgress(r) \/ PlaylistDownloaded(r)
    BY <2>2, MarksSame DEF DownloadProgress, PlaylistDownloaded, buttonVars, historyVars
  <2>3. CASE Decoder(r)
    BY <2>3, MarksSame
       DEF Decoder, DecoderStopped, DecoderWaits, DecoderFeeds, historyVars
  <2> QED BY <1>7, <2>1, <2>2, <2>3 DEF ReplyEvent
<1>8. CASE PoolStep
  BY <1>8, MarksSame DEF PoolStep, Play, CloseAoDevice, StateChanged, buttonVars, historyVars
<1>9. CASE UNCHANGED playerVars
  BY <1>9, MarksSame DEF playerVars, buttonVars, historyVars
<1> QED BY <1>1, <1>2, <1>3, <1>4, <1>5, <1>6, <1>7, <1>8, <1>9 DEF PlayerNext, UserClicks

\* As long as no stream has ended by itself, exactly the label of the stream
\* that plays is marked.
THEOREM MarksCorrect == PlayerSpec => []MarksAgree
<1>1. MarksInv => MarksAgree
  BY DEF MarksInv
<1> QED BY <1>1, TypeInit, TypeStep, MarksInit, MarksStep, PTL DEF PlayerSpec

\* Icon and marks show what the player does.
THEOREM DisplayCorrect == PlayerSpec => []DisplayAgrees
<1>1. IconAgrees /\ MarksAgree => DisplayAgrees
  BY DEF DisplayAgrees
<1> QED BY <1>1, IconCorrect, MarksCorrect, PTL

-----------------------------------------------------------------------------
(* One stream at a time.                                                   *)

\* Only a reply that is downloading, or has finished, has bytes on their way.
QueuedInv == \A r \in ReplyIds : replies[r].queued => replies[r].kind # "none"

\* What a patient user has started is all that is left to be fed.
SourceInv ==
    ~hasty => /\ fed \subseteq {mediaSource}
              /\ \A r \in ReplyIds : replies[r].kind # "none"
                                         => replies[r].source = mediaSource

LEMMA SourceInit == PlayerInit => QueuedInv /\ SourceInv
BY DEF PlayerInit, QueuedInv, SourceInv, NoReply, Reply

\* What becomes of a reply when one of the replies is served.
LEMMA ReplyKeepsSource ==
    ASSUME PlayerTypeOK, QueuedInv, NEW r \in ReplyIds, ReplyEvent(r), NEW q \in ReplyIds
    PROVE  /\ replies'[q].queued => replies'[q].kind # "none"
           /\ replies'[q].kind # "none" =>
                /\ replies[q].kind # "none"
                /\ replies'[q].source = replies[q].source
<1>0. replies[q].queued => replies[q].kind # "none"
  BY DEF QueuedInv
<1>1. CASE DownloadProgress(r) \/ PlaylistDownloaded(r)
  BY <1>0, <1>1 DEF DownloadProgress, PlaylistDownloaded, PlayerTypeOK
<1>2. CASE StreamingFinished(r)
  BY <1>0, <1>2 DEF StreamingFinished, NoReply, Reply, PlayerTypeOK
<1>3. CASE DecoderStopped(r)
  BY <1>0, <1>3 DEF DecoderStopped, NoReply, Reply, PlayerTypeOK
<1>4. CASE Served(r)
  BY <1>0, <1>4 DEF Served, NoReply, Reply, PlayerTypeOK
<1> QED BY <1>1, <1>2, <1>3, <1>4 DEF ReplyEvent, Decoder, DecoderWaits, DecoderFeeds

LEMMA QueuedStep == PlayerTypeOK /\ QueuedInv /\ [PlayerNext]_playerVars => QueuedInv'
<1> SUFFICES ASSUME PlayerTypeOK, QueuedInv, [PlayerNext]_playerVars PROVE QueuedInv'
  OBVIOUS
<1>1. CASE UNCHANGED replies
  BY <1>1 DEF QueuedInv
<1>2. ASSUME NEW stream, NEW marks, StartPlaying(stream, marks) PROVE QueuedInv'
  <2>1. PICK r \in ReplyIds : replies' = [replies EXCEPT ![r] =
            Reply(IF stream \in Playlists THEN "playlist" ELSE "stream", stream)]
    BY <1>2 DEF StartPlaying
  <2>2. replies'[r].queued = FALSE
    BY <2>1 DEF Reply, PlayerTypeOK
  <2> QED BY <2>1, <2>2 DEF QueuedInv, PlayerTypeOK
<1>3. CASE UserClicks \/ Switched
  BY <1>1, <1>2, <1>3 DEF UserClicks, Switched, PlayClicked, StopClicked, LabelAgain,
                          LabelStarts, LabelSwitches
<1>4. ASSUME NEW r \in ReplyIds, ReplyEvent(r) PROVE QueuedInv'
  BY <1>4, ReplyKeepsSource DEF QueuedInv
<1>5. CASE PoolStep
  BY <1>1, <1>5 DEF PoolStep, Play, CloseAoDevice, StateChanged
<1>6. CASE UNCHANGED playerVars
  BY <1>1, <1>6 DEF playerVars
<1> QED BY <1>3, <1>4, <1>5, <1>6 DEF PlayerNext

LEMMA SourceStep == PlayerTypeOK /\ QueuedInv /\ SourceInv /\ [PlayerNext]_playerVars => SourceInv'
<1> SUFFICES ASSUME PlayerTypeOK, QueuedInv, SourceInv, [PlayerNext]_playerVars PROVE SourceInv'
  OBVIOUS
<1>1. ASSUME UNCHANGED <<mediaSource, replies, hasty>>, fed' \in {fed, {}}
      PROVE  SourceInv'
  BY <1>1 DEF SourceInv
<1>2. ASSUME NEW stream, NEW marks, StartPlaying(stream, marks) PROVE SourceInv'
  <2>1. PICK r \in ReplyIds : replies' = [replies EXCEPT ![r] =
            Reply(IF stream \in Playlists THEN "playlist" ELSE "stream", stream)]
    BY <1>2 DEF StartPlaying
  <2>2. replies'[r].source = stream
    BY <2>1 DEF Reply, PlayerTypeOK
  <2>3. ASSUME Settled, NEW q \in ReplyIds, replies'[q].kind # "none"
        PROVE  replies'[q].source = stream
    BY <2>1, <2>2, <2>3 DEF Settled, PlayerTypeOK
  <2> QED BY <1>2, <2>3 DEF StartPlaying, SourceInv
<1>3. CASE UserClicks \/ Switched
  BY <1>1, <1>2, <1>3 DEF UserClicks, Switched, PlayClicked, StopClicked, LabelAgain,
                          LabelStarts, LabelSwitches, historyVars
<1>4. ASSUME NEW r \in ReplyIds, ReplyEvent(r) PROVE SourceInv'
  <2>1. \A q \in ReplyIds : replies'[q].kind # "none" =>
            replies[q].kind # "none" /\ replies'[q].source = replies[q].source
    BY <1>4, ReplyKeepsSource
  <2>2. UNCHANGED <<mediaSource, hasty>>
    BY <1>4 DEF ReplyEvent, DownloadProgress, PlaylistDownloaded, StreamingFinished,
                Decoder, historyVars
  <2>3. fed' = fed \/ (replies[r].kind # "none" /\ fed' = fed \cup {replies[r].source})
    BY <1>4 DEF QueuedInv, ReplyEvent, DownloadProgress, PlaylistDownloaded,
                StreamingFinished, Decoder, DecoderStopped, DecoderWaits, DecoderFeeds
  <2> QED BY <2>1, <2>2, <2>3 DEF SourceInv
<1>5. CASE PoolStep
  BY <1>1, <1>5 DEF PoolStep, Play, CloseAoDevice, StateChanged, historyVars
<1>6. CASE UNCHANGED playerVars
  BY <1>1, <1>6 DEF playerVars, historyVars
<1> QED BY <1>3, <1>4, <1>5, <1>6 DEF PlayerNext

\* A user who waits until a stopped stream is gone hears one stream at a time.
THEOREM SourceCorrect == PlayerSpec => []OneSource
<1>1. SourceInv => OneSource
  BY DEF SourceInv, OneSource
<1> QED BY <1>1, TypeInit, TypeStep, SourceInit, QueuedStep, SourceStep, PTL DEF PlayerSpec
==============================================================================
