----------------------------- MODULE AudioChannel -----------------------------
(***************************************************************************)
(* One direction of a call's sound (QXmppRtpAudioChannel): the channel of  *)
(* the end that speaks, a network that loses and reorders datagrams, and   *)
(* the jitter buffer of the channel of the end that listens.               *)
(*                                                                         *)
(* Sound is counted in chunks, the contents of one datagram; a chunk is    *)
(* its stamp.  A stamp has 32 bits and counts samples of two bytes, so     *)
(* that the position in bytes that the reader computes from it, in 32 bits *)
(* too, starts again after Cycle chunks.                                   *)
(***************************************************************************)
EXTENDS Integers, Sequences, SequencesExt, FiniteSets

CONSTANTS Cycle,            \* chunks until the stamps start again
          Minimum, Maximum, \* chunks: where playing begins, where the buffer is cut back
          Tones,            \* keys of the telephone
          MaxTones, MaxLate, MaxLosses  \* bounds: tones queued; ticks under way, and datagrams lost

ASSUME AudioAssumption ==
  /\ Cycle \in Nat /\ Minimum \in Nat \ {0} /\ Maximum \in Nat
  /\ Minimum < Maximum /\ Maximum < Cycle
  /\ MaxTones \in Nat /\ MaxLate \in Nat /\ MaxLosses \in Nat

VARIABLES
  outgoingTimer,      \* the timer that sends a chunk at each tick
  outgoingStamp,
  outgoingTones,      \* tones to send: [tone, finished]
  tonesAsEvents,      \* telephone events were negotiated
  flight, losses,     \* datagrams under way, and how many were lost
  incomingBuffer, incomingPos, incomingBuffering,
  heard,              \* what was read last
  keys,               \* keys that are held down
  muddled             \* a key was released while an equal tone before it had ended

audioVars == <<outgoingTimer, outgoingStamp, outgoingTones, tonesAsEvents, flight, losses,
               incomingBuffer, incomingPos, incomingBuffering, heard, keys, muddled>>
outgoing == <<outgoingTimer, outgoingStamp, outgoingTones, tonesAsEvents, keys, muddled>>
network == <<flight, losses>>
incoming == <<incomingBuffer, incomingPos, incomingBuffering, heard>>

Silence == -1
Echo == -2                     \* the channel's own tone
Stamps == 0 .. Cycle - 1
LastPos == Cycle + Maximum     \* bound: positions are counted up to here
Event == [type |-> "event", stamp |-> 0]    \* of a tone; nobody here reads what it says
Chunks == Stamps \cup {Silence}
ToneInfo == [tone : Tones, finished : BOOLEAN]
Datagrams == [type : {"audio"}, stamp : Stamps] \cup {Event}

AudioTypeOK ==
  /\ outgoingTimer \in BOOLEAN /\ outgoingStamp \in Stamps
  /\ outgoingTones \in Seq(ToneInfo) /\ Len(outgoingTones) <= MaxTones /\ tonesAsEvents \in BOOLEAN
  /\ flight \subseteq Datagrams /\ losses \in 0 .. MaxLosses
  /\ incomingBuffer \in Seq(Chunks) /\ Len(incomingBuffer) <= Maximum
  /\ incomingPos \in 0 .. LastPos /\ incomingBuffering \in BOOLEAN
  /\ heard \in Chunks \cup {Echo} /\ keys \subseteq Tones /\ muddled \in BOOLEAN

AudioInit ==
  /\ outgoingTimer = FALSE /\ outgoingStamp = 0 /\ outgoingTones = << >>
  /\ tonesAsEvents \in BOOLEAN /\ flight = {} /\ losses = 0
  /\ incomingBuffer = << >> /\ incomingPos = 0 /\ incomingBuffering = TRUE
  /\ heard = Silence /\ keys = {} /\ muddled = FALSE

-----------------------------------------------------------------------------
(* The end that speaks. *)

\* writeData(): what is written first starts the timer.  Whether the application writes in
\* time for every tick is not told: a chunk of silence is sent like any other.
WriteSoundData ==
  /\ ~outgoingTimer /\ outgoingTimer' = TRUE
  /\ UNCHANGED <<outgoingStamp, outgoingTones, tonesAsEvents, keys, muddled, network, incoming>>

StartTone(t) ==
  /\ t \notin keys /\ keys' = keys \cup {t}
  /\ Len(outgoingTones) < MaxTones
  /\ outgoingTones' = Append(outgoingTones, [tone |-> t, finished |-> FALSE])
  /\ UNCHANGED <<outgoingTimer, outgoingStamp, tonesAsEvents, muddled, network, incoming>>

\* The first tone of the key is the one that is marked.
Of(t) == {i \in DOMAIN outgoingTones : outgoingTones[i].tone = t}
FirstOf(t) == CHOOSE i \in Of(t) : \A j \in Of(t) : i <= j
StopTone(t) ==
  /\ t \in keys /\ keys' = keys \ {t}
  /\ outgoingTones' = IF Of(t) = {} THEN outgoingTones ELSE [outgoingTones EXCEPT ![FirstOf(t)].finished = TRUE]
  /\ muddled' = (muddled \/ (Of(t) # {} /\ outgoingTones[FirstOf(t)].finished))
  /\ UNCHANGED <<outgoingTimer, outgoingStamp, tonesAsEvents, network, incoming>>

\* Bound: nothing is under way for longer.
Late(p) == p.type = "audio" /\ (outgoingStamp - p.stamp) % Cycle > MaxLate

\* Mutant: a tone that was sent as an event stays.
AfterTickAsSound ==
  IF outgoingTones # << >> /\ ~tonesAsEvents /\ Head(outgoingTones).finished
    THEN Tail(outgoingTones) ELSE outgoingTones

\* A tone that is finished goes once it was sent at least once.
AfterTick ==
  IF outgoingTones # << >> /\ Head(outgoingTones).finished THEN Tail(outgoingTones) ELSE outgoingTones

\* The tick of the timer: a chunk, or a tone instead of it, as an event or as sound.
WriteDatagram ==
  LET event == outgoingTones # << >> /\ tonesAsEvents
      sent == IF event THEN Event
              ELSE [type |-> "audio", stamp |-> outgoingStamp]
  IN  /\ outgoingTimer /\ \A p \in flight : ~Late(p)
      /\ flight' = flight \cup {sent}
      /\ outgoingStamp' = (outgoingStamp + 1) % Cycle
      /\ outgoingTones' = AfterTick
      /\ UNCHANGED <<outgoingTimer, tonesAsEvents, keys, muddled, losses, incoming>>

CloseChannel ==
  /\ outgoingTimer /\ outgoingTimer' = FALSE
  /\ UNCHANGED <<outgoingStamp, outgoingTones, tonesAsEvents, keys, muddled, network, incoming>>

-----------------------------------------------------------------------------
(* The end that listens. *)

Silences(n) == [i \in 1 .. n |-> Silence]

\* Sound laid at its stamp into a buffer that begins at a position: a hole is silence, and
\* what is too much is dropped from the head.
Untouched == [buffer |-> incomingBuffer, pos |-> incomingPos, buffering |-> incomingBuffering]
Laid(stamp, start) ==
  LET offset == stamp - start
      buffer == [incomingBuffer \o Silences(offset + 1 - Len(incomingBuffer)) EXCEPT ![offset + 1] = stamp]
      dropped == IF Len(buffer) > Maximum THEN Len(buffer) - Minimum ELSE 0
  IN  IF offset < 0 THEN Untouched
      ELSE [buffer |-> SubSeq(buffer, dropped + 1, Len(buffer)), pos |-> start + dropped,
            buffering |-> incomingBuffering /\ Len(buffer) - dropped < Minimum]

Start(stamp) == IF incomingBuffer = << >> THEN stamp ELSE incomingPos

\* What would lie before the buffer is too late, but an empty buffer begins wherever the
\* datagram does.
Placed(stamp) == Laid(stamp, Start(stamp))

\* datagramReceived(): telephone events have no codec, and are ignored.
DatagramReceived(p) ==
  /\ p \in flight /\ flight' = flight \ {p}
  /\ LET placed == Placed(p.stamp)
     IN  IF p.type = "event" THEN UNCHANGED <<incomingBuffer, incomingPos, incomingBuffering>>
         ELSE /\ incomingBuffer' = placed.buffer
              /\ incomingPos' = placed.pos
              /\ incomingBuffering' = placed.buffering
  /\ UNCHANGED <<outgoing, losses, heard>>

\* readData(), of one chunk: until the buffer was filled once, silence; then its head, which
\* the echo of a tone that the same channel sends covers.
ReadData ==
  /\ IF incomingBuffering THEN heard' = Silence /\ UNCHANGED <<incomingBuffer, incomingPos>>
     ELSE /\ heard' = CASE outgoingTones # << >> -> Echo
                        [] incomingBuffer = << >> -> Silence
                        [] OTHER -> Head(incomingBuffer)
          /\ incomingBuffer' = IF incomingBuffer = << >> THEN << >> ELSE Tail(incomingBuffer)
          /\ incomingPos' = IF incomingPos = LastPos THEN LastPos ELSE incomingPos + 1
  /\ UNCHANGED <<outgoing, network, incomingBuffering>>

Lost(p) ==
  /\ losses < MaxLosses /\ losses' = losses + 1
  /\ p \in flight /\ flight' = flight \ {p}
  /\ UNCHANGED <<outgoing, incoming>>

AudioNext ==
  \/ WriteSoundData \/ WriteDatagram \/ CloseChannel \/ ReadData
  \/ \E t \in Tones : StartTone(t) \/ StopTone(t)
  \/ \E p \in flight : DatagramReceived(p) \/ Lost(p)

-----------------------------------------------------------------------------
(* Properties. *)

\* Every chunk in the buffer is played at its own time: it lies where its stamp says,
\* whatever was lost, came late, or was dropped to catch up (datagramReceived(), readData()).
BufferAligned ==
  \A i \in DOMAIN incomingBuffer :
    incomingBuffer[i] # Silence => incomingBuffer[i] = incomingPos + i - 1

\* Where the stamps start again before the first buffer is full, all that follows is too
\* late, and the buffer, which is not read yet, never empties.
StuckAtTurn == incomingBuffering /\ incomingBuffer # << >> /\ incomingPos + Minimum > Cycle

\* As long as one speaks and no tone is sent, something is heard again and again, also after
\* some was lost, and after the stamps have started again.
HeardAgain == []<>(heard \in Stamps \/ outgoingTones # << >> \/ ~outgoingTimer \/ StuckAtTurn)

\* Once all keys are released, the tones end and sound is sent again; but not if a key was
\* pressed again before its first tone was gone: the first is ended twice, the other never.
TonesFinish ==
  (keys = {} /\ ~muddled /\ outgoingTimer) ~> (outgoingTones = << >> \/ keys # {} \/ ~outgoingTimer)
=============================================================================
