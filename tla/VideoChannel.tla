----------------------------- MODULE VideoChannel -----------------------------
(***************************************************************************)
(* One direction of a call's pictures (QXmppRtpVideoChannel and the codecs *)
(* of QXmppCodec.cpp): a frame is cut into fragments that fit a datagram,  *)
(* and put together again at the other end, after a network that may lose  *)
(* and reorder them.  Both codecs cut alike.                               *)
(*                                                                         *)
(* What the libraries make of a frame that was put together wrongly is not *)
(* told: it is shown or refused.                                           *)
(***************************************************************************)
EXTENDS Integers, Sequences, SequencesExt, FiniteSets, FiniteSetsExt

CONSTANTS PacketMax,            \* what fits a datagram, in units of data
          MaxSize, MaxFrames, MaxUnderway, MaxMishaps  \* bounds: of a frame, frames, datagrams, faults

ASSUME VideoAssumption ==
  /\ PacketMax \in Nat \ {0} /\ MaxSize \in Nat \ {0}
  /\ MaxFrames \in Nat /\ MaxUnderway \in Nat /\ MaxMishaps \in Nat

VARIABLES
  sizes,              \* of the frames that were written
  underway,           \* fragments in the network
  mishaps,            \* how many were lost or overtaken
  packetBuffer,       \* fragments of the frame that is put together
  frames,             \* frames that were decoded and not yet read
  readFrames,         \* frames that were read
  arrived             \* the fragments that came last

videoVars == <<sizes, underway, mishaps, packetBuffer, frames, readFrames, arrived>>

\* Pieces of a frame: one if it fits.
Pieces(size) == (size + PacketMax - 1) \div PacketMax

\* A frame that fits goes whole; otherwise the first piece is marked, and the one after
\* which nothing is left.
FragmentType(size, i) ==
  CASE size <= PacketMax -> "no"
    [] size > PacketMax /\ i = 1 -> "start"
    [] i > 1 /\ size - (i - 1) * PacketMax > PacketMax -> "middle"
    [] OTHER -> "end"

Fragments(n, size) ==
  [i \in 1 .. Pieces(size) |->
     [frame |-> n, piece |-> i, type |-> FragmentType(size, i)]]

MostPieces == Pieces(MaxSize)

VideoTypeOK ==
  /\ Len(sizes) <= MaxFrames /\ ToSet(sizes) \subseteq 1 .. MaxSize
  /\ Len(underway) <= MaxUnderway + MostPieces /\ mishaps \in 0 .. MaxMishaps
  /\ \A f \in ToSet(underway) \cup ToSet(packetBuffer) \cup ToSet(arrived) :
       f.frame \in 1 .. Len(sizes) /\ f.piece \in 1 .. MostPieces
  /\ Len(arrived) <= MostPieces

VideoInit ==
  /\ sizes = << >> /\ underway = << >> /\ mishaps = 0
  /\ packetBuffer = << >> /\ frames = << >> /\ readFrames = << >> /\ arrived = << >>

\* writeFrame(): the codec's packets are sent one after the other.
WriteFrame ==
  /\ Len(sizes) < MaxFrames /\ Len(underway) <= MaxUnderway
  /\ \E size \in 1 .. MaxSize :
       /\ sizes' = Append(sizes, size)
       /\ underway' = underway \o Fragments(Len(sizes) + 1, size)
  /\ UNCHANGED <<mishaps, packetBuffer, frames, readFrames, arrived>>

\* What was put together: a frame if it is all of one, whatever the codec makes of it if not.
Whole(s) == s # << >> /\ s = Fragments(s[1].frame, sizes[s[1].frame])
Decode(s) == frames' = Append(frames, s) \/ (~Whole(s) /\ UNCHANGED frames)

\* Mutant: a first fragment does not begin anew.
CollectedOn(f) == CASE f.type = "no" -> <<f>> [] OTHER -> Append(packetBuffer, f)

\* handlePacket(): a first fragment begins anew, any other goes behind what there is.
Collected(f) == CASE f.type \in {"no", "start"} -> <<f>> [] OTHER -> Append(packetBuffer, f)

HandlePacket(i) ==
  LET f == underway[i]
      complete == f.type \in {"no", "end"}
  IN  /\ underway' = RemoveAt(underway, i)
      /\ mishaps' = IF i = 1 THEN mishaps ELSE mishaps + 1
      /\ packetBuffer' = IF complete THEN << >> ELSE Collected(f)
      /\ IF complete THEN Decode(Collected(f)) ELSE UNCHANGED frames
      /\ arrived' = LET s == Append(arrived, f)
                    IN  SubSeq(s, Max({1, Len(s) - MostPieces + 1}), Len(s))
      /\ UNCHANGED <<sizes, readFrames>>

DatagramArrives == underway # << >> /\ HandlePacket(1)
DatagramOvertakes == Len(underway) > 1 /\ mishaps < MaxMishaps /\ HandlePacket(2)

DatagramLost ==
  /\ underway # << >> /\ mishaps < MaxMishaps /\ mishaps' = mishaps + 1
  /\ underway' = Tail(underway)
  /\ UNCHANGED <<sizes, packetBuffer, frames, readFrames, arrived>>

\* readFrames(): all at once.
ReadFrames ==
  /\ frames # << >> /\ frames' = << >>
  /\ readFrames' = readFrames \o frames
  /\ UNCHANGED <<sizes, underway, mishaps, packetBuffer, arrived>>

VideoNext == WriteFrame \/ DatagramArrives \/ DatagramOvertakes \/ DatagramLost \/ ReadFrames

-----------------------------------------------------------------------------
(* Properties. *)

\* A frame all of whose fragments come one after the other is shown whole, whatever was left
\* of frames before it: a loss costs no frame but those it is in (handlePacket()).
WholeIsShown ==
  \A n \in DOMAIN sizes :
    LET whole == Fragments(n, sizes[n])
        tail == SubSeq(arrived, Len(arrived) - Len(whole) + 1, Len(arrived))
    IN  Len(arrived) >= Len(whole) /\ tail = whole => Contains(readFrames \o frames, whole)

\* On a network without mishaps each frame is shown, whole and in its order, of whatever
\* size (handleFrame(), handlePacket()).
AllShown ==
  mishaps = 0 /\ underway = << >> =>
    readFrames \o frames = [n \in DOMAIN sizes |-> Fragments(n, sizes[n])]
=============================================================================
