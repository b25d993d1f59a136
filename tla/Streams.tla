------------------------------- MODULE Streams -------------------------------
(***************************************************************************)
(* What two ends stream to one another: a file, and the sound and pictures *)
(* of a call, with the types they agree on for these.  They share nothing, *)
(* so that a behaviour follows one of them, which `part' names.            *)
(***************************************************************************)
EXTENDS Transfer, PayloadTypes, AudioChannel, VideoChannel

VARIABLE part

vars == <<part, transferVars, typesVars, audioVars, videoVars>>

Parts == {"transfer", "types", "audio", "video"}

TypeOK ==
  /\ TransferTypeOK /\ TypesTypeOK /\ AudioTypeOK /\ VideoTypeOK
  /\ part \in Parts

\* The parts that do not move begin in one state.
Init ==
  /\ part \in Parts
  /\ TransferInit /\ (part # "transfer" => par = [blocks |-> 0, announced |-> FALSE, method |-> "none",
                                                  fits |-> TRUE, direct |-> 0, proxy |-> FALSE])
  /\ AudioInit /\ (part # "audio" => tonesAsEvents)
  /\ VideoInit
  /\ TypesInit /\ (part # "types" => \A e \in Ends : localTypes[e] = <<Vp8>>)

NotTransfer == UNCHANGED <<part, typesVars, audioVars, videoVars>>
NotTypes == UNCHANGED <<part, transferVars, audioVars, videoVars>>
NotAudio == UNCHANGED <<part, transferVars, typesVars, videoVars>>
NotVideo == UNCHANGED <<part, transferVars, typesVars, audioVars>>

Next ==
  \/ part = "transfer" /\ TransferNext /\ NotTransfer
  \/ part = "types" /\ TypesNext /\ NotTypes
  \/ part = "audio" /\ AudioNext /\ NotAudio
  \/ part = "video" /\ VideoNext /\ NotVideo

\* Stanzas arrive, sockets work, posted calls and timers are served; the user may leave an
\* offer without an answer.  The timer of a channel ticks, what is not lost arrives, and
\* whoever listens reads.
Fairness ==
  /\ WF_vars(part = "transfer" /\ StanzaStep /\ NotTransfer)
  /\ WF_vars(part = "transfer" /\ PostedStep /\ NotTransfer)
  /\ WF_vars(part = "transfer" /\ ProxyAnswers /\ NotTransfer)
  /\ WF_vars(part = "transfer" /\ ProxyReady /\ NotTransfer)
  /\ WF_vars(part = "transfer" /\ Activated /\ NotTransfer)
  /\ WF_vars(part = "transfer" /\ BytesWritten /\ NotTransfer)
  /\ WF_vars(part = "transfer" /\ OutDisconnected /\ NotTransfer)
  /\ WF_vars(part = "transfer" /\ CandidateTimeout /\ NotTransfer)
  /\ WF_vars(part = "transfer" /\ DoomedDeleted /\ NotTransfer)
  /\ WF_vars(part = "transfer" /\ ReceiveData /\ NotTransfer)
  /\ WF_vars(part = "transfer" /\ IncDisconnected /\ NotTransfer)
  /\ WF_vars(part = "audio" /\ WriteDatagram /\ NotAudio)
  /\ WF_vars(part = "audio" /\ ReadData /\ NotAudio)
  /\ WF_vars(part = "audio" /\ (\E p \in flight : DatagramReceived(p)) /\ NotAudio)

Spec == Init /\ [][Next]_vars /\ Fairness
-----------------------------------------------------------------------------
(* Properties, each the sum of what the parts state.                       *)

\* A file is written in order, its sender knows what became of it and claims no success
\* before all of it was read, and in band nothing but a disturbance keeps it from arriving.
FileIntact == WrittenInOrder /\ SenderKnows /\ AllWasRead /\ InBandSucceeds

\* Everything is of its type, and two ends that have negotiated speak the same codecs under
\* the same numbers.
TypesAgree == TypeOK /\ CodecsAgree /\ NumbersAgree

\* Sound stays whole chunks at their places, and pictures come whole or not at all.
MediaWhole == BufferAligned /\ WholeIsShown /\ AllShown

\* Transfers end at both sides, sound comes back, and tones finish.
StreamsSettle == BothEnd /\ HeardAgain /\ TonesFinish
=============================================================================
