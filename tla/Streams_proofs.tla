---------------------------- MODULE Streams_proofs -----------------------------
(***************************************************************************)
(* Theorems about the file transfer, for any size of file and any number   *)
(* of hosts: what is written is a beginning of the file, the promise of    *)
(* Delivery to the receiving party is kept, and unless somebody interferes *)
(* a sender that ends without error has sent the whole file.  And about    *)
(* the media of a call, for any buffers, any sizes of frames and any       *)
(* number of them: sound stays at its place, and pictures whole.           *)
(*                                                                         *)
(* The steps of the transfer are summed up first, each in a lemma of its   *)
(* own that says what it needs and what it changes; the invariants are     *)
(* then proved from these lemmas, and no longer from the actions.          *)
(***************************************************************************)
EXTENDS Streams, SequenceTheorems, TLAPS

-----------------------------------------------------------------------------
(* The file transfer: the shape of its state. *)

OutFields == {"state", "method", "error", "read", "request", "isOpen", "sock", "host", "watched",
              "buf", "posted"}
IncFields == {"state", "error", "device", "written", "seq", "step", "host", "doomed", "listening",
              "posted"}
Replies == {"set", "result", "error"}
Subjects == {"offer", "open", "data", "hosts", "close"}
Asked == Subjects \cup {"none", "query", "activate"}
Stanza == [type : Replies, of : Subjects, n : Nat]
Wire == Seq(Stanza)

OutShape(job) ==
    /\ DOMAIN job = OutFields /\ job.request \in Asked \X Nat /\ job.read \in Nat
    /\ job.buf \in Seq(Nat) /\ job.host \in Nat
IncShape(job) ==
    /\ DOMAIN job = IncFields /\ job.written \in Seq(Nat) /\ job.seq \in Nat /\ job.host \in Nat

Shape ==
    /\ par.blocks \in Nat /\ par.direct \in Nat
    /\ OutShape(out) /\ IncShape(inc)
    /\ toPeer \in Wire /\ toUs \in Wire /\ pipe \in Seq(Nat) /\ hosts \in Seq(HostKinds)

\* terminate() of the outgoing job, field by field; a job that has ended stays as it is.
LEMMA TerminatedOut ==
    ASSUME NEW job, NEW cause, NEW next, next = TerminateOut(job, cause), OutShape(job)
    PROVE  /\ OutShape(next)
           /\ next.method = job.method /\ next.read = job.read /\ next.request = job.request
           /\ next.host = job.host /\ next.watched = job.watched /\ next.state = "finished"
           /\ job.state = "finished" => next = job
           /\ job.state # "finished" =>
                /\ next.error = cause /\ next.buf = <<>>
                /\ next.sock = IF job.sock = "none" THEN "none" ELSE "down"
  BY DEF TerminateOut, OutShape, OutFields

\* terminate() of the incoming job, field by field; a job that has ended stays as it is.
LEMMA TerminatedInc ==
    ASSUME NEW job, NEW cause, NEW next, next = TerminateInc(job, cause), IncShape(job)
    PROVE  /\ IncShape(next)
           /\ next.written = job.written /\ next.seq = job.seq /\ next.host = job.host
           /\ next.state = "finished"
           /\ job.state = "finished" => next = job
           /\ job.state # "finished" =>
                /\ next.error = cause
                /\ next.device = IF job.device = "none" THEN "none" ELSE "closed"
                /\ next.step = IF job.step = "open" THEN "closed" ELSE job.step
  BY DEF TerminateInc, IncShape, IncFields

\* _q_sendData(): nothing, the end, a file that cannot be read, or one more block.
LEMMA DataSent ==
    ASSUME NEW job, NEW next, next = SendData(job), OutShape(job), par.blocks \in Nat
    PROVE  /\ OutShape(next)
           /\ next.method = job.method /\ next.request = job.request /\ next.host = job.host
           /\ next.watched = job.watched
           /\ \/ next = job
              \/ /\ next = TerminateOut(job, "NoError") /\ job.buf = <<>> /\ job.state = "transfer"
                 /\ par.announced /\ par.blocks > 0 /\ job.read = par.blocks
              \/ next = TerminateOut(job, "FileAccessError") /\ job.state = "transfer"
              \/ /\ job.state = "transfer" /\ job.read # par.blocks
                 /\ next.read = job.read + 1 /\ next.state = job.state /\ next.error = job.error
                 /\ next.sock = job.sock
                 /\ next.buf = IF job.sock = "up" THEN Append(job.buf, job.read + 1) ELSE job.buf
<1>2. CASE job.state # "transfer" \/ Len(job.buf) > 2
  BY <1>2 DEF SendData
<1>3. CASE ~(job.state # "transfer" \/ Len(job.buf) > 2)
  <2>1. CASE par.announced /\ par.blocks > 0 /\ AtEnd(job)
    <3>1. next = IF job.buf = <<>> THEN TerminateOut(job, "NoError") ELSE job
      BY <1>3, <2>1 DEF SendData
    <3>2. job.read = par.blocks
      BY <2>1 DEF AtEnd
    <3>3. CASE job.buf = <<>>
      <4>1. next = TerminateOut(job, "NoError")
        BY <3>1, <3>3
      <4>2. OutShape(next) /\ next.method = job.method /\ next.request = job.request
            /\ next.host = job.host /\ next.watched = job.watched
        BY <4>1, TerminatedOut
      <4> QED BY <4>1, <4>2, <3>2, <3>3, <2>1, <1>3, Zenon
    <3> QED BY <3>1, <3>3
  <2>2. CASE ~(par.announced /\ par.blocks > 0 /\ AtEnd(job)) /\ ~job.isOpen
    <3>1. next = TerminateOut(job, "FileAccessError")
      BY <1>3, <2>2 DEF SendData
    <3>2. OutShape(next) /\ next.method = job.method /\ next.request = job.request
          /\ next.host = job.host /\ next.watched = job.watched
      BY <3>1, TerminatedOut
    <3> QED BY <3>1, <3>2, <1>3, Zenon
  <2>3. CASE ~(par.announced /\ par.blocks > 0 /\ AtEnd(job)) /\ job.isOpen /\ AtEnd(job)
    BY <1>3, <2>3 DEF SendData
  <2>4. CASE ~AtEnd(job) /\ job.isOpen
    <3>1. next = [ReadBlock(job) EXCEPT
                    !.buf = IF job.sock = "up" THEN Append(@, job.read + 1) ELSE @]
      BY <1>3, <2>4 DEF SendData
    <3>2. job.read # par.blocks
      BY <2>4 DEF AtEnd
    <3>3. Append(job.buf, job.read + 1) \in Seq(Nat)
      BY DEF OutShape
    <3>4. DOMAIN ReadBlock(job) = OutFields /\ ReadBlock(job).buf = job.buf
          /\ ReadBlock(job).read = job.read + 1
      BY DEF ReadBlock, OutShape, OutFields
    <3> QED BY <3>1, <3>2, <3>3, <3>4, <1>3 DEF ReadBlock, OutShape, OutFields
  <2> QED BY <2>1, <2>2, <2>3, <2>4
<1> QED BY <1>2, <1>3

\* A sequence cut in two.
LEMMA Halves ==
    ASSUME NEW s \in Seq(Nat), NEW k \in 0 .. Len(s)
    PROVE  /\ SubSeq(s, 1, k) \in Seq(Nat) /\ Len(SubSeq(s, 1, k)) = k
           /\ \A i \in 1 .. k : SubSeq(s, 1, k)[i] = s[i]
           /\ SubSeq(s, k + 1, Len(s)) \in Seq(Nat) /\ Len(SubSeq(s, k + 1, Len(s))) = Len(s) - k
           /\ \A i \in 1 .. Len(s) - k : SubSeq(s, k + 1, Len(s))[i] = s[k + i]
<1>1. k \in Int /\ Len(s) \in Int /\ \A i \in 1 .. Len(s) : s[i] \in Nat
    OBVIOUS
<1>2. /\ SubSeq(s, 1, k) \in Seq(Nat) /\ Len(SubSeq(s, 1, k)) = k
      /\ \A i \in 1 .. k : SubSeq(s, 1, k)[i] = s[i]
  <2>1. \A i \in 1 .. k : s[i] \in Nat
    BY <1>1
  <2>2. /\ SubSeq(s, 1, k) \in Seq(Nat) /\ Len(SubSeq(s, 1, k)) = IF 1 <= k THEN k - 1 + 1 ELSE 0
        /\ \A i \in 1 .. k - 1 + 1 : SubSeq(s, 1, k)[i] = s[1 + i - 1]
    BY <1>1, <2>1, SubSeqProperties
  <2> QED BY <2>2
<1>3. /\ SubSeq(s, k + 1, Len(s)) \in Seq(Nat) /\ Len(SubSeq(s, k + 1, Len(s))) = Len(s) - k
      /\ \A i \in 1 .. Len(s) - k : SubSeq(s, k + 1, Len(s))[i] = s[k + i]
  <2>1. k + 1 \in Int /\ \A i \in k + 1 .. Len(s) : s[i] \in Nat
    BY <1>1
  <2>2. /\ SubSeq(s, k + 1, Len(s)) \in Seq(Nat)
        /\ Len(SubSeq(s, k + 1, Len(s))) = IF k + 1 <= Len(s) THEN Len(s) - (k + 1) + 1 ELSE 0
        /\ \A i \in 1 .. Len(s) - (k + 1) + 1 : SubSeq(s, k + 1, Len(s))[i] = s[(k + 1) + i - 1]
    BY <1>1, <2>1, SubSeqProperties
  <2> QED BY <2>2
<1> QED BY <1>2, <1>3

LEMMA Appends ==
    ASSUME NEW s \in Wire, NEW type \in Replies, NEW of \in Subjects, NEW n \in Nat
    PROVE  Append(s, Msg(type, of, n)) \in Wire
<1>1. Msg(type, of, n) \in Stanza
  BY DEF Msg, Stanza
<1> QED BY <1>1 DEF Wire

LEMMA Tails ==
    ASSUME NEW s \in Wire, s # <<>>
    PROVE  Tail(s) \in Wire /\ Head(s).n \in Nat /\ Head(s).of \in Subjects /\ Head(s).type \in Replies
<1>1. Tail(s) \in Wire /\ Head(s) \in Stanza
  BY DEF Wire
<1> QED BY <1>1 DEF Stanza

LEMMA NextHostShape ==
    ASSUME NEW job, IncShape(job), toUs \in Wire, NextHost(job)
    PROVE  IncShape(inc') /\ toUs' \in Wire
<1>1. CASE job.host = Len(hosts)
  <2>1. IncShape([job EXCEPT !.step = "none"])
    BY DEF IncShape, IncFields
  <2>2. inc' = TerminateInc([job EXCEPT !.step = "none"], "ProtocolError")
        /\ toUs' = Append(toUs, Msg("error", "hosts", 0))
    BY <1>1 DEF NextHost
  <2>3. toUs' \in Wire
    BY <2>2, Appends DEF Replies, Subjects
  <2> QED BY <2>1, <2>2, <2>3, TerminatedInc
<1>2. CASE job.host # Len(hosts)
  <2>1. inc' = [job EXCEPT !.host = job.host + 1, !.step = "dial"] /\ toUs' = toUs
    BY <1>2 DEF NextHost
  <2> QED BY <2>1 DEF IncShape, IncFields
<1> QED BY <1>1, <1>2

\* The fields that are not sequences.
LEMMA OutFieldsStay ==
    ASSUME NEW job, OutShape(job), NEW v
    PROVE  /\ OutShape([job EXCEPT !.state = v]) /\ OutShape([job EXCEPT !.method = v])
           /\ OutShape([job EXCEPT !.isOpen = v]) /\ OutShape([job EXCEPT !.sock = v])
           /\ OutShape([job EXCEPT !.watched = v]) /\ OutShape([job EXCEPT !.posted = v])
           /\ OutShape([job EXCEPT !.buf = <<>>])
           /\ v \in Seq(Nat) => OutShape([job EXCEPT !.buf = v])
           /\ v \in Nat => OutShape([job EXCEPT !.host = v])
           /\ v \in Asked \X Nat => OutShape(Ask(job, v))
           /\ OutShape(ReadBlock(job))
  BY DEF OutShape, OutFields, Ask, ReadBlock

LEMMA StartShape ==
    ASSUME NEW job, OutShape(job), par.blocks \in Nat
    PROVE  OutShape(StartSending(job)) /\ OutShape(SendData(job))
<1>1. OutShape([job EXCEPT !.state = "transfer"])
  BY OutFieldsStay
<1> QED BY <1>1, DataSent DEF StartSending

LEMMA FlushedShape ==
    ASSUME NEW job, NEW after, OutShape(job), pipe \in Seq(Nat)
    PROVE  Flushed(job, after) \in Seq(Nat)
  BY DEF Flushed, OutShape

LEMMA SendHostsShape ==
    ASSUME Shape, NEW job, OutShape(job), NEW kind \in HostKinds, SendHosts(job, kind)
    PROVE  OutShape(out') /\ toPeer' \in Wire /\ pipe' \in Seq(Nat) /\ hosts' \in Seq(HostKinds)
<1> DEFINE offered == [i \in 1 .. par.direct |-> "direct"] \o (IF par.proxy THEN <<kind>> ELSE <<>>)
<1>1. CASE offered = <<>>
  <2>1. out' = TerminateOut(job, "ProtocolError") /\ pipe' = Flushed(job, out')
        /\ UNCHANGED <<toPeer, hosts>>
    BY <1>1 DEF SendHosts
  <2> QED BY <2>1, TerminatedOut, FlushedShape DEF Shape
<1>2. CASE offered # <<>>
  <2>1. /\ out' = Ask(job, <<"hosts", 0>>)
        /\ toPeer' = Append(toPeer, Set(<<"hosts", 0>>)) /\ hosts' = offered /\ UNCHANGED pipe
    BY <1>2 DEF SendHosts
  <2>2. offered \in Seq(HostKinds)
    <3>1. [i \in 1 .. par.direct |-> "direct"] \in Seq(HostKinds)
      BY DEF Shape, HostKinds
    <3>2. (IF par.proxy THEN <<kind>> ELSE <<>>) \in Seq(HostKinds)
        OBVIOUS
    <3> QED BY <3>1, <3>2
  <2>3. OutShape(out')
    <3>1. <<"hosts", 0>> \in Asked \X Nat
      BY DEF Asked, Subjects
    <3> QED BY <2>1, <3>1, OutFieldsStay
  <2>4. toPeer' \in Wire
    <3>1. toPeer' = Append(toPeer, Msg("set", "hosts", 0))
      BY <2>1 DEF Set
    <3> QED BY <3>1, Appends DEF Shape, Replies, Subjects
  <2> HIDE DEF offered
  <2> QED BY <2>1, <2>2, <2>3, <2>4 DEF Shape
<1> QED BY <1>1, <1>2

\* Every step keeps the shape of the state.
LEMMA ShapeKept ==
    ASSUME Shape, TransferNext
    PROVE  Shape'
<1> USE DEF Shape
<1>1. \A n \in Nat : <<"data", n>> \in Asked \X Nat
  BY DEF Asked, Subjects
<1>2. /\ <<"offer", 0>> \in Asked \X Nat /\ <<"open", 0>> \in Asked \X Nat /\ <<"close", 0>> \in Asked \X Nat
      /\ <<"query", 0>> \in Asked \X Nat /\ <<"activate", 0>> \in Asked \X Nat
      /\ <<"none", 0>> \in Asked \X Nat
  BY DEF Asked, Subjects
<1>3. ASSUME NEW s \in Wire, NEW of \in Subjects, NEW n \in Nat
      PROVE  Append(s, Set(<<of, n>>)) \in Wire
  BY <1>3, Appends DEF Set, Replies
<1>4. /\ \A kind \in Subjects : Append(toPeer, Set(<<kind, 0>>)) \in Wire
      /\ \A n \in Nat : Append(toPeer, Set(<<"data", n>>)) \in Wire
  BY <1>3 DEF Subjects
<1>5. \A type \in Replies : toPeer # <<>> /\ Reply(type) => toUs' \in Wire
  BY Appends, Tails DEF Reply
<1>6. (toPeer # <<>> => Tail(toPeer) \in Wire) /\ (toUs # <<>> => Tail(toUs) \in Wire)
  BY Tails
<1>7. par' = par
  BY DEF TransferNext, StanzaStep, SocketStep, PostedStep, SendFile, UserAccepts, AbortInc,
     CandidateDisconnected, AbortOut, StanzasLost, ConnectionBreaks, ProxyFails, Left, OfferAccepted, IbbResponse,
     PeerRefused, HostUsed, OfferArrives, IbbOpen, IbbData, IbbClose, HostsArrive, ProxyAnswers,
     ProxyReady, Activated, BytesWritten, OutDisconnected, CandidateProceeds, CandidateServed,
     CandidateReady, CandidateTimeout, DoomedDeleted, ReceiveData, IncDisconnected,
     OutTerminated, IncTerminated
<1>8. <<>> \in Seq(Nat) /\ <<>> \in Wire
  BY DEF Wire
<1>9. "set" \in Replies /\ "result" \in Replies /\ "error" \in Replies
  BY DEF Replies
<1>10. "offer" \in Subjects /\ "open" \in Subjects /\ "data" \in Subjects /\ "hosts" \in Subjects
       /\ "close" \in Subjects
  BY DEF Subjects
<1> HIDE DEF Shape
\* The outgoing job.
<1>11. ASSUME NEW job, OutShape(job), NEW cause, CloseStream(job, cause)
       PROVE  OutShape(out') /\ toPeer' \in Wire
  <2>1. OutShape(Ask(job, <<"close", 0>>))
    BY <1>11, <1>2, OutFieldsStay
  <2> QED BY <1>11, <2>1, <1>4, <1>10, TerminatedOut DEF CloseStream
<1>12. ASSUME IbbGoesOn(out)  PROVE  OutShape(out') /\ toPeer' \in Wire
  <2> DEFINE next == [ReadBlock(out) EXCEPT !.state = "transfer"]
  <2>1. OutShape(next)
    BY OutFieldsStay DEF Shape
  <2>2. out' = Ask(next, <<"data", next.read>>) /\ toPeer' = Append(toPeer, Set(<<"data", next.read>>))
    BY <1>12 DEF IbbGoesOn
  <2>3. next.read \in Nat
    BY <2>1 DEF OutShape
  <2> HIDE DEF next
  <2> QED BY <2>1, <2>2, <2>3, <1>1, <1>4, OutFieldsStay
<1>13. CASE SendFile
  <2>1. CASE out' = TerminateOut(out, "FileAccessError") /\ UNCHANGED toPeer
    BY <1>13, <2>1, <1>7, TerminatedOut DEF SendFile, Shape
  <2>2. CASE out' = [Ask(out, <<"offer", 0>>) EXCEPT !.state = "offer", !.isOpen = TRUE]
             /\ toPeer' = Append(toPeer, Set(<<"offer", 0>>))
    <3>1. OutShape(Ask(out, <<"offer", 0>>))
      BY <1>2, OutFieldsStay DEF Shape
    <3>2. OutShape(out')
      BY <2>2, <3>1 DEF OutShape, OutFields
    <3> QED BY <1>13, <2>2, <3>2, <1>4, <1>7, <1>10 DEF SendFile, Shape
  <2> QED BY <1>13, <2>1, <2>2 DEF SendFile
<1>14. CASE OfferAccepted
  <2> DEFINE job == [out EXCEPT !.state = "start", !.method = par.method]
  <2>1. OutShape(job)
    BY DEF Shape, OutShape, OutFields
  <2>2. OutShape(out') /\ toPeer' \in Wire /\ pipe' \in Seq(Nat) /\ hosts' \in Seq(HostKinds)
    <3>1. CASE UNCHANGED <<out, toPeer, hosts, pipe>>
      BY <3>1 DEF Shape
    <3>2. CASE out' = Ask(job, <<"open", 0>>) /\ toPeer' = Append(toPeer, Set(<<"open", 0>>))
               /\ UNCHANGED <<hosts, pipe>>
      BY <3>2, <2>1, <1>2, <1>4, <1>10, OutFieldsStay DEF Shape
    <3>3. CASE out' = Ask(job, <<"query", 0>>) /\ UNCHANGED <<toPeer, hosts, pipe>>
      BY <3>3, <2>1, <1>2, OutFieldsStay DEF Shape
    <3>4. CASE SendHosts(job, "proxy")
      BY <3>4, <2>1, SendHostsShape DEF HostKinds
    <3>5. CASE out' = TerminateOut(job, "ProtocolError") /\ UNCHANGED <<toPeer, hosts, pipe>>
      BY <3>5, <2>1, TerminatedOut DEF Shape
    <3> HIDE DEF job
    <3> QED BY <1>14, <3>1, <3>2, <3>3, <3>4, <3>5 DEF OfferAccepted, job
  <2> QED BY <1>14, <2>2, <1>6, <1>7 DEF OfferAccepted, Gets, Shape
<1>15. CASE ProxyAnswers
  BY <1>15, <1>7, SendHostsShape DEF ProxyAnswers, Shape, HostKinds
<1>16. CASE IbbResponse
  <2>1. OutShape(out') /\ toPeer' \in Wire
    BY <1>16, <1>11, <1>12 DEF IbbResponse, Shape
  <2> QED BY <1>16, <2>1, <1>6, <1>7 DEF IbbResponse, Gets, Shape
<1>17. CASE PeerRefused
  <2>1. OutShape(out')
    BY <1>17, TerminatedOut DEF PeerRefused, Shape
  <2>2. pipe' \in Seq(Nat)
    BY <1>17, FlushedShape DEF PeerRefused, Shape
  <2> QED BY <1>17, <2>1, <2>2, <1>6, <1>7 DEF PeerRefused, Gets, Shape
<1>18. CASE HostUsed
  <2>1. Head(toUs).n \in Nat
    BY <1>18, Tails DEF HostUsed, Gets, Shape
  <2>2. OutShape([out EXCEPT !.sock = "dialing", !.host = Head(toUs).n, !.watched = TRUE])
    BY <2>1 DEF Shape, OutShape, OutFields
  <2>3. OutShape(TerminateOut(out, "ProtocolError"))
    BY TerminatedOut DEF Shape
  <2>4. OutShape(StartSending([out EXCEPT !.watched = TRUE]))
    BY StartShape, OutFieldsStay DEF Shape
  <2>5. OutShape(out')
    BY <1>18, <2>2, <2>3, <2>4 DEF HostUsed, Shape
  <2>6. pipe' \in Seq(Nat)
    BY <1>18, FlushedShape DEF HostUsed, Shape
  <2> QED BY <1>18, <2>5, <2>6, <1>6, <1>7 DEF HostUsed, Gets, Shape
<1>19. CASE ProxyReady
  <2>1. OutShape(Ask(out, <<"activate", 0>>))
    BY <1>2, OutFieldsStay DEF Shape
  <2> QED BY <1>19, <2>1, OutFieldsStay DEF ProxyReady, Shape
<1>20. CASE Activated
  <2>1. OutShape(Ask(out, <<"none", 0>>))
    BY <1>2, OutFieldsStay DEF Shape
  <2>2. OutShape(out')
    BY <1>20, <2>1, StartShape, TerminatedOut DEF Activated, Shape
  <2>3. pipe' \in Seq(Nat)
    BY <1>20, FlushedShape DEF Activated, Shape
  <2> QED BY <1>20, <2>2, <2>3, <1>7 DEF Activated, Shape
<1>21. CASE BytesWritten
  <2>1. PICK k \in 0 .. Len(out.buf) :
          /\ out' = IF out.watched THEN SendData([out EXCEPT !.buf = SubSeq(out.buf, k + 1, Len(out.buf))])
                                   ELSE [out EXCEPT !.buf = SubSeq(out.buf, k + 1, Len(out.buf))]
          /\ pipe' = pipe \o SubSeq(out.buf, 1, k)
    BY <1>21 DEF BytesWritten
  <2>2. SubSeq(out.buf, k + 1, Len(out.buf)) \in Seq(Nat) /\ SubSeq(out.buf, 1, k) \in Seq(Nat)
    BY Halves DEF Shape, OutShape
  <2>3. OutShape(out')
    BY <2>1, <2>2, OutFieldsStay, StartShape DEF Shape
  <2>4. pipe' \in Seq(Nat)
    BY <2>1, <2>2 DEF Shape
  <2> QED BY <1>21, <2>3, <2>4 DEF BytesWritten, Shape
<1>22. CASE OutDisconnected
  <2> DEFINE job == [out EXCEPT !.sock = "down", !.buf = <<>>]
  <2>1. OutShape(job)
    BY <1>8 DEF Shape, OutShape, OutFields
  <2>2. out' \in {job, TerminateOut(job, "ProtocolError"), TerminateOut(job, "NoError")}
        /\ pipe' = <<>> /\ UNCHANGED <<par, inc, toPeer, toUs, hosts>>
    BY <1>22 DEF OutDisconnected, Left
  <2> HIDE DEF job
  <2> QED BY <2>1, <2>2, <1>8, TerminatedOut DEF Shape
<1>23. CASE OutTerminated
  <2> DEFINE job == [out EXCEPT !.posted = @ - 1]
  <2>1. OutShape(job)
    BY DEF Shape, OutShape, OutFields
  <2>2. OutShape(Ask(job, <<"close", 0>>))
    BY <2>1, <1>2, OutFieldsStay
  <2>3. \/ out' = Ask(job, <<"close", 0>>) /\ toPeer' = Append(toPeer, Set(<<"close", 0>>))
        \/ out' = job /\ UNCHANGED toPeer
    BY <1>23 DEF OutTerminated
  <2> HIDE DEF job
  <2> QED BY <1>23, <2>1, <2>2, <2>3, <1>4, <1>10 DEF OutTerminated, Shape
<1>24. CASE AbortOut
  <2>1. pipe' \in Seq(Nat) /\ OutShape(out')
    BY <1>24, FlushedShape, TerminatedOut DEF AbortOut, Shape
  <2> QED BY <1>24, <2>1 DEF AbortOut, Shape
\* The incoming job.
<1>31. CASE OfferArrives
  BY <1>31, <1>5, <1>6, <1>9 DEF OfferArrives, Arrives, Shape, IncShape, IncFields
<1>32. CASE UserAccepts
  BY <1>32, <1>9, <1>10, Appends DEF UserAccepts, Shape, IncShape, IncFields
<1>33. CASE IncTerminated
  BY <1>33, <1>9, <1>10, Appends DEF IncTerminated, Shape, IncShape, IncFields
<1>34. CASE IbbOpen
  BY <1>34, <1>5, <1>6, <1>9 DEF IbbOpen, Arrives, Shape, IncShape, IncFields
<1>35. CASE IbbData
  <2>1. toUs' \in Wire /\ toPeer' \in Wire
    BY <1>35, <1>5, <1>6, <1>9 DEF IbbData, Arrives
  <2>2. Head(toPeer).n \in Nat
    BY <1>35, Tails DEF IbbData, Arrives, Shape
  <2>3. inc' = inc \/ inc' = [WriteData(inc, <<Head(toPeer).n>>) EXCEPT !.seq = @ + 1]
    BY <1>35 DEF IbbData
  <2>4. IncShape(WriteData(inc, <<Head(toPeer).n>>))
    BY <2>2 DEF WriteData, Shape, IncShape, IncFields
  <2>5. \A job : IncShape(job) => IncShape([job EXCEPT !.seq = job.seq + 1])
    BY DEF IncShape, IncFields
  <2>6. IncShape(inc')
    BY <2>3, <2>4, <2>5 DEF Shape
  <2> QED BY <1>35, <2>1, <2>6 DEF IbbData, Shape
<1>36. CASE IbbClose
  <2>1. toUs' \in Wire /\ toPeer' \in Wire
    BY <1>36, <1>5, <1>6, <1>9 DEF IbbClose, Arrives
  <2>2. IncShape(inc')
    BY <1>36, TerminatedInc DEF IbbClose, CheckData, Shape
  <2> QED BY <1>36, <2>1, <2>2 DEF IbbClose, Shape
<1>37. CASE HostsArrive
  <2>1. IncShape(inc') /\ toUs' \in Wire /\ toPeer' \in Wire
    BY <1>37, <1>5, <1>6, <1>9, NextHostShape DEF HostsArrive, Arrives, Shape
  <2> QED BY <1>37, <2>1 DEF HostsArrive, Shape
<1>38. CASE CandidateProceeds
  BY <1>38 DEF CandidateProceeds, Shape, IncShape, IncFields
<1>39. CASE CandidateServed
  BY <1>39, <1>8 DEF CandidateServed, Shape, IncShape, IncFields, OutShape, OutFields
<1>40. CASE CandidateReady
  <2>1. inc.host \in Nat /\ IncShape(inc')
    BY <1>40 DEF CandidateReady, Shape, IncShape, IncFields
  <2>2. toUs' \in Wire
    BY <1>40, <2>1, <1>9, <1>10, Appends DEF CandidateReady, Shape
  <2> QED BY <1>40, <2>1, <2>2 DEF CandidateReady, Shape
<1>41. CASE CandidateDisconnected
  BY <1>41, NextHostShape DEF CandidateDisconnected, Shape
<1>42. \A v : IncShape([inc EXCEPT !.doomed = v]) /\ IncShape([inc EXCEPT !.step = v])
  BY DEF Shape, IncShape, IncFields
<1>43. CASE CandidateTimeout
  BY <1>42, <1>43, NextHostShape DEF CandidateTimeout, Shape
<1>44. CASE DoomedDeleted
  BY <1>42, <1>44, NextHostShape DEF DoomedDeleted, Shape
<1>45. CASE ReceiveData
  <2>1. PICK k \in 1 .. Len(pipe) :
          /\ inc' \in {inc, WriteData(inc, SubSeq(pipe, 1, k)), CheckData(WriteData(inc, SubSeq(pipe, 1, k)))}
          /\ pipe' = SubSeq(pipe, k + 1, Len(pipe))
    BY <1>45 DEF ReceiveData
  <2>2. pipe' \in Seq(Nat) /\ SubSeq(pipe, 1, k) \in Seq(Nat)
    BY <2>1, Halves DEF Shape
  <2>3. IncShape(WriteData(inc, SubSeq(pipe, 1, k)))
    BY <2>2 DEF WriteData, Shape, IncShape, IncFields
  <2>4. IncShape(inc')
    BY <2>1, <2>3, TerminatedInc DEF CheckData, Shape
  <2> QED BY <1>45, <2>2, <2>4 DEF ReceiveData, Shape
<1>46. CASE IncDisconnected
  <2>1. inc' \in {[inc EXCEPT !.step = "closed"], CheckData([inc EXCEPT !.step = "closed"])}
    BY <1>46 DEF IncDisconnected
  <2>2. IncShape(CheckData([inc EXCEPT !.step = "closed"]))
    <3>1. \A job, cause : IncShape(job) => IncShape(TerminateInc(job, cause))
      BY TerminatedInc
    <3> QED BY <3>1, <1>42 DEF CheckData
  <2>3. IncShape(inc')
    BY <2>1, <2>2, <1>42
  <2> QED BY <1>46, <2>3 DEF IncDisconnected, Shape
<1>47. CASE AbortInc
  BY <1>47, TerminatedInc DEF AbortInc, Shape
<1>48. CASE StanzasLost \/ ConnectionBreaks
  BY <1>48, <1>8 DEF StanzasLost, ConnectionBreaks, Shape
<1>49. CASE ProxyFails
  <2>1. UNCHANGED <<par, inc, toPeer, toUs, pipe, hosts>> /\ out' \in {[out EXCEPT !.sock = "refused"], Left(out)}
    BY <1>49, Zenon DEF ProxyFails
  <2>2. OutShape(Left(out)) /\ OutShape([out EXCEPT !.sock = "refused"])
    BY TerminatedOut, OutFieldsStay DEF Left, Shape
  <2> QED BY <2>1, <2>2 DEF Shape
<1> QED
  BY <1>13, <1>14, <1>15, <1>16, <1>17, <1>18, <1>19, <1>20, <1>21, <1>22, <1>23, <1>24, <1>31,
       <1>32, <1>33, <1>34, <1>35, <1>36, <1>37, <1>38, <1>39, <1>40, <1>41, <1>43, <1>44, <1>45,
       <1>46, <1>47, <1>48, <1>49 DEF TransferNext, StanzaStep, SocketStep, PostedStep

-----------------------------------------------------------------------------
(* What the steps that call other operators come to. *)

\* A stanza is sent.
Posts(m) == toPeer' = Append(toPeer, m)
Answers(m) == toUs' = Append(toUs, m)
USE DEF Posts, Answers

LEMMA NextHostStep ==
    ASSUME NEW job, IncShape(job), NextHost(job)
    PROVE  /\ inc'.written = job.written /\ inc'.seq = job.seq
           /\ \/ /\ toUs' = toUs /\ inc'.step = "dial" /\ job.host # Len(hosts)
                 /\ inc'.host = job.host + 1
                 /\ inc'.state = job.state /\ inc'.device = job.device /\ inc'.error = job.error
              \/ /\ Answers(Msg("error", "hosts", 0)) /\ inc'.step = "none"
                 /\ inc'.host = job.host /\ inc'.state = "finished" /\ job.state = "finished"
                 /\ inc'.device = job.device /\ inc'.error = job.error
              \/ /\ Answers(Msg("error", "hosts", 0)) /\ inc'.step = "none"
                 /\ inc'.host = job.host /\ inc'.state = "finished" /\ job.state # "finished"
                 /\ inc'.device = IF job.device = "none" THEN "none" ELSE "closed"
                 /\ inc'.error = "ProtocolError"
<1>1. CASE job.host = Len(hosts)
  <2> DEFINE left == [job EXCEPT !.step = "none"]
  <2>1. /\ IncShape(left) /\ left.step = "none" /\ left.host = job.host /\ left.state = job.state
        /\ left.device = job.device /\ left.error = job.error /\ left.written = job.written
        /\ left.seq = job.seq
    BY DEF IncShape, IncFields
  <2>2. inc' = TerminateInc(left, "ProtocolError") /\ Answers(Msg("error", "hosts", 0))
    BY <1>1 DEF NextHost
  <2> HIDE DEF left
  <2> QED BY <2>1, <2>2, TerminatedInc
<1>2. CASE job.host # Len(hosts)
  <2>1. inc' = [job EXCEPT !.host = job.host + 1, !.step = "dial"] /\ toUs' = toUs
    BY <1>2 DEF NextHost
  <2> QED BY <1>2, <2>1 DEF IncShape, IncFields
<1> QED BY <1>1, <1>2

LEMMA HostsSent ==
    ASSUME NEW job, OutShape(job), NEW kind, SendHosts(job, kind)
    PROVE  /\ out'.method = job.method /\ out'.read = job.read /\ out'.watched = job.watched
           /\ out'.host = job.host
           /\ \/ /\ out' = TerminateOut(job, "ProtocolError") /\ UNCHANGED <<toPeer, hosts>>
                 /\ pipe' = Flushed(job, out') /\ out'.request = job.request
              \/ /\ out'.request = <<"hosts", 0>> /\ out'.state = job.state /\ out'.sock = job.sock
                 /\ out'.buf = job.buf /\ out'.error = job.error
                 /\ Posts(Msg("set", "hosts", 0)) /\ pipe' = pipe
<1> DEFINE offered == [i \in 1 .. par.direct |-> "direct"] \o (IF par.proxy THEN <<kind>> ELSE <<>>)
<1>1. CASE offered = <<>>
  <2>1. out' = TerminateOut(job, "ProtocolError") /\ pipe' = Flushed(job, out')
        /\ UNCHANGED <<toPeer, hosts>>
    BY <1>1 DEF SendHosts
  <2> HIDE DEF offered
  <2>2. /\ out'.method = job.method /\ out'.read = job.read /\ out'.request = job.request
        /\ out'.host = job.host /\ out'.watched = job.watched
    BY <2>1, TerminatedOut
  <2> QED BY <2>1, <2>2
<1>2. CASE offered # <<>>
  <2>1. out' = Ask(job, <<"hosts", 0>>) /\ toPeer' = Append(toPeer, Set(<<"hosts", 0>>)) /\ pipe' = pipe
    BY <1>2 DEF SendHosts
  <2> HIDE DEF offered
  <2> QED BY <2>1 DEF Ask, OutShape, OutFields, Set
<1> QED BY <1>1, <1>2

LEMMA Taken ==
    ASSUME NEW s \in Wire, s # <<>>
    PROVE  /\ Len(Tail(s)) = Len(s) - 1 /\ Len(s) > 0 /\ Head(s) = s[1]
           /\ \A i \in 1 .. Len(s) - 1 : Tail(s)[i] = s[i + 1]
  BY DEF Wire

LEMMA Added ==
    ASSUME NEW s \in Wire, NEW m
    PROVE  /\ Len(Append(s, m)) = Len(s) + 1 /\ Append(s, m)[Len(s) + 1] = m
           /\ \A i \in 1 .. Len(s) : Append(s, m)[i] = s[i]
  BY DEF Wire

-----------------------------------------------------------------------------
(* What each action of the outgoing job comes to. *)

\* What ending a job comes to, field by field.
EndedOut(job, next, cause) ==
    /\ next.state = "finished" /\ next.method = job.method /\ next.read = job.read
    /\ next.request = job.request /\ next.host = job.host /\ next.watched = job.watched
    /\ job.state = "finished" => next.error = job.error /\ next.buf = job.buf /\ next.sock = job.sock
    /\ job.state # "finished" =>
         /\ next.error = cause /\ next.buf = <<>>
         /\ next.sock = IF job.sock = "none" THEN "none" ELSE "down"

EndedInc(job, next, cause) ==
    /\ next.state = "finished" /\ next.written = job.written /\ next.seq = job.seq
    /\ next.host = job.host
    /\ job.state = "finished" =>
         next.error = job.error /\ next.device = job.device /\ next.step = job.step
    /\ job.state # "finished" =>
         /\ next.error = cause
         /\ next.device = IF job.device = "none" THEN "none" ELSE "closed"
         /\ next.step = IF job.step = "open" THEN "closed" ELSE job.step

LEMMA OutEnds ==
    ASSUME NEW job, OutShape(job), NEW cause, NEW next, next = TerminateOut(job, cause)
    PROVE  EndedOut(job, next, cause)
  BY TerminatedOut DEF EndedOut

LEMMA IncEnds ==
    ASSUME NEW job, IncShape(job), NEW cause, NEW next, next = TerminateInc(job, cause)
    PROVE  EndedInc(job, next, cause)
  BY TerminatedInc DEF EndedInc

\* The fields a step of the outgoing job leaves alone.
Going(job, next) ==
    /\ next.method = job.method /\ next.error = job.error /\ next.watched = job.watched
    /\ next.host = job.host /\ next.sock = job.sock /\ next.buf = job.buf

LEMMA SendFileStep ==
    ASSUME Shape, SendFile
    PROVE  /\ out.state = "none" /\ UNCHANGED <<par, inc, toUs, pipe, hosts, cut>>
           /\ \/ /\ Going(out, out') /\ out'.read = out.read
                 /\ out'.state = "offer" /\ out'.request = <<"offer", 0>>
                 /\ Posts(Msg("set", "offer", 0))
              \/ EndedOut(out, out', "FileAccessError") /\ UNCHANGED toPeer
<1>1. CASE out' = TerminateOut(out, "FileAccessError") /\ UNCHANGED toPeer
  BY <1>1, OutEnds DEF SendFile, Shape
<1>2. CASE /\ out' = [Ask(out, <<"offer", 0>>) EXCEPT !.state = "offer", !.isOpen = TRUE]
           /\ toPeer' = Append(toPeer, Set(<<"offer", 0>>))
  <2>1. out' = [out EXCEPT !.request = <<"offer", 0>>, !.state = "offer", !.isOpen = TRUE]
    BY <1>2 DEF Ask
  <2>2. Going(out, out') /\ out'.read = out.read /\ out'.state = "offer" /\ out'.request = <<"offer", 0>>
    BY <2>1 DEF Going, Shape, OutShape, OutFields
  <2> QED BY <1>2, <2>2 DEF SendFile, Set
<1> QED BY <1>1, <1>2 DEF SendFile

LEMMA OfferAcceptedStep ==
    ASSUME Shape, OfferAccepted
    PROVE  /\ toUs # <<>> /\ Head(toUs).type = "result" /\ Head(toUs).of = "offer" /\ toUs' = Tail(toUs)
           /\ UNCHANGED <<par, inc, cut>> /\ out'.read = out.read
           /\ \/ UNCHANGED <<out, toPeer, hosts, pipe>>
              \/ /\ out.request[1] = "offer" /\ out.state = "offer" /\ par.method \in {"ibb", "socks"}
                 /\ out'.method = par.method
                 /\ \/ /\ par.method = "ibb" /\ out'.state = "start" /\ out'.request = <<"open", 0>>
                       /\ out'.sock = out.sock /\ out'.buf = out.buf /\ pipe' = pipe
                       /\ out'.error = out.error
                       /\ Posts(Msg("set", "open", 0))
                    \/ /\ par.method = "socks" /\ out'.state = "start" /\ out'.request = <<"query", 0>>
                       /\ out'.sock = out.sock /\ out'.buf = out.buf /\ UNCHANGED <<toPeer, pipe>>
                       /\ out'.error = out.error
                    \/ /\ par.method = "socks" /\ out'.state = "start" /\ out'.request = <<"hosts", 0>>
                       /\ out'.sock = out.sock /\ out'.buf = out.buf /\ pipe' = pipe
                       /\ out'.error = out.error
                       /\ Posts(Msg("set", "hosts", 0))
                    \/ /\ par.method = "socks" /\ out'.state = "finished" /\ out'.request = out.request
                       /\ out'.sock = (IF out.sock = "none" THEN "none" ELSE "down") /\ out'.buf = <<>>
                       /\ out'.error = "ProtocolError"
                       /\ UNCHANGED toPeer /\ pipe' \in {pipe, Flushed(out, out')}
<1> DEFINE job == [out EXCEPT !.state = "start", !.method = par.method]
<1>1. /\ OutShape(job) /\ job.state = "start" /\ job.method = par.method /\ job.read = out.read
      /\ job.request = out.request /\ job.sock = out.sock /\ job.buf = out.buf /\ job.error = out.error
  BY DEF Shape, OutShape, OutFields
<1>2. /\ toUs # <<>> /\ Head(toUs).type = "result" /\ Head(toUs).of = "offer" /\ toUs' = Tail(toUs)
      /\ UNCHANGED <<par, inc, cut>>
  BY DEF OfferAccepted, Gets
<1>3. Answered => out.request[1] = "offer"
  BY <1>2 DEF Answered
<1>4. CASE UNCHANGED <<out, toPeer, hosts, pipe>>
  BY <1>2, <1>4
<1>5. CASE /\ Answered /\ out.state = "offer" /\ par.method = "ibb" /\ UNCHANGED pipe
           /\ out' = Ask(job, <<"open", 0>>) /\ toPeer' = Append(toPeer, Set(<<"open", 0>>))
  <2>1. /\ out'.read = job.read /\ out'.method = job.method /\ out'.state = job.state
        /\ out'.request = <<"open", 0>> /\ out'.sock = job.sock /\ out'.buf = job.buf
        /\ out'.error = job.error
    BY <1>1, <1>5 DEF Ask, OutShape, OutFields
  <2> HIDE DEF job
  <2> QED BY <1>1, <1>2, <1>3, <1>5, <2>1 DEF Set
<1>6. CASE /\ Answered /\ out.state = "offer" /\ par.method = "socks" /\ UNCHANGED <<toPeer, pipe>>
           /\ out' = Ask(job, <<"query", 0>>)
  <2>1. /\ out'.read = job.read /\ out'.method = job.method /\ out'.state = job.state
        /\ out'.request = <<"query", 0>> /\ out'.sock = job.sock /\ out'.buf = job.buf
        /\ out'.error = job.error
    BY <1>1, <1>6 DEF Ask, OutShape, OutFields
  <2> HIDE DEF job
  <2> QED BY <1>1, <1>2, <1>3, <1>6, <2>1
<1>7. ASSUME Answered, out.state = "offer", par.method = "socks", out' = TerminateOut(job, "ProtocolError"),
             UNCHANGED toPeer, pipe' \in {pipe, Flushed(job, out')}
      PROVE  /\ out'.read = out.read /\ out'.method = par.method /\ out'.state = "finished"
             /\ out'.request = out.request /\ out'.buf = <<>> /\ out'.error = "ProtocolError"
             /\ out'.sock = (IF out.sock = "none" THEN "none" ELSE "down")
             /\ pipe' \in {pipe, Flushed(out, out')}
  <2> HIDE DEF job
  <2>1. EndedOut(job, out', "ProtocolError")
    BY <1>1, <1>7, OutEnds
  <2> QED BY <1>1, <1>7, <2>1 DEF EndedOut, Flushed
<1>8. CASE Answered /\ out.state = "offer" /\ par.method = "socks" /\ SendHosts(job, "proxy")
  <2> HIDE DEF job
  <2>1. /\ out'.method = job.method /\ out'.read = job.read
        /\ \/ /\ out' = TerminateOut(job, "ProtocolError") /\ UNCHANGED toPeer
              /\ pipe' = Flushed(job, out')
           \/ /\ out'.request = <<"hosts", 0>> /\ out'.state = job.state /\ out'.sock = job.sock
              /\ out'.buf = job.buf /\ out'.error = job.error
              /\ Posts(Msg("set", "hosts", 0)) /\ pipe' = pipe
    BY <1>1, <1>8, HostsSent
  <2>2. CASE out' = TerminateOut(job, "ProtocolError") /\ UNCHANGED toPeer /\ pipe' = Flushed(job, out')
    BY <1>2, <1>3, <1>7, <1>8, <2>2
  <2>3. CASE ~(out' = TerminateOut(job, "ProtocolError") /\ UNCHANGED toPeer /\ pipe' = Flushed(job, out'))
    BY <1>1, <1>2, <1>3, <1>8, <2>1, <2>3
  <2> QED BY <2>2, <2>3
<1>9. CASE /\ Answered /\ out.state = "offer" /\ par.method = "socks"
           /\ out' = TerminateOut(job, "ProtocolError") /\ UNCHANGED <<toPeer, pipe>>
  <2> HIDE DEF job
  <2> QED BY <1>2, <1>3, <1>7, <1>9
<1> HIDE DEF job
<1> QED BY <1>4, <1>5, <1>6, <1>8, <1>9 DEF OfferAccepted, job

LEMMA ProxyAnswersStep ==
    ASSUME Shape, ProxyAnswers
    PROVE  /\ out.request = <<"query", 0>> /\ UNCHANGED <<par, inc, toUs, cut>>
           /\ \/ /\ EndedOut(out, out', "ProtocolError") /\ UNCHANGED toPeer
                 /\ pipe' = Flushed(out, out')
              \/ /\ Going(out, out') /\ out'.read = out.read
                 /\ out'.request = <<"hosts", 0>> /\ out'.state = out.state
                 /\ Posts(Msg("set", "hosts", 0)) /\ pipe' = pipe
<1>1. PICK kind \in {"proxy", "nowhere"} : SendHosts(out, kind)
  BY DEF ProxyAnswers
<1>2. OutShape(out)
  BY DEF Shape
<1> QED BY <1>1, <1>2, HostsSent, OutEnds DEF ProxyAnswers, Going

LEMMA IbbResponseStep ==
    ASSUME Shape, IbbResponse
    PROVE  /\ toUs # <<>> /\ toUs' = Tail(toUs) /\ UNCHANGED <<par, inc, pipe, hosts, cut>>
           /\ Head(toUs).of \in {"open", "data", "close"}
           /\ \/ UNCHANGED <<out, toPeer>>
              \/ /\ out.method = "ibb" /\ out.state # "finished"
                 /\ out.request = <<Head(toUs).of, Head(toUs).n>>
                 /\ \/ /\ Head(toUs).type = "result" /\ out.read # par.blocks
                       /\ out'.read = out.read + 1 /\ out'.state = "transfer" /\ Going(out, out')
                       /\ out'.request = <<"data", out.read + 1>>
                       /\ Posts(Msg("set", "data", out.read + 1))
                    \/ /\ out'.read = out.read /\ out'.state = "finished" /\ out'.method = "ibb"
                       /\ out'.request = <<"close", 0>> /\ out'.buf = <<>>
                       /\ out'.sock = (IF out.sock = "none" THEN "none" ELSE "down")
                       /\ \/ out'.error = "NoError" /\ out.read = par.blocks /\ Head(toUs).type = "result"
                          \/ out'.error = "ProtocolError" /\ Head(toUs).type = "error"
                       /\ Posts(Msg("set", "close", 0))
<1>1. /\ toUs # <<>> /\ toUs' = Tail(toUs) /\ UNCHANGED <<par, inc, pipe, hosts, cut>>
      /\ Head(toUs).of \in {"open", "data", "close"}
  BY DEF IbbResponse, Gets
<1>2. OutShape(out)
  BY DEF Shape
<1>3. CASE UNCHANGED <<out, toPeer>>
  BY <1>1, <1>3
<1>4. CASE Answered /\ out.method = "ibb" /\ out.state # "finished" /\ Head(toUs).type = "result"
           /\ ~AtEnd(out) /\ IbbGoesOn(out)
  <2> DEFINE next == [ReadBlock(out) EXCEPT !.state = "transfer"]
  <2>1. DOMAIN next = OutFields /\ next.read = out.read + 1 /\ next.state = "transfer" /\ Going(out, next)
    BY <1>2 DEF ReadBlock, OutShape, OutFields, Going
  <2>2. out' = Ask(next, <<"data", next.read>>) /\ toPeer' = Append(toPeer, Set(<<"data", next.read>>))
    BY <1>4 DEF IbbGoesOn
  <2> HIDE DEF next
  <2>3. out'.read = out.read + 1 /\ out'.state = "transfer" /\ Going(out, out')
        /\ out'.request = <<"data", out.read + 1>>
    BY <2>1, <2>2 DEF Ask, OutFields, Going
  <2>4. Posts(Msg("set", "data", out.read + 1))
    BY <2>1, <2>2 DEF Set
  <2> QED BY <1>1, <1>4, <2>3, <2>4 DEF Answered, AtEnd
<1>5. ASSUME NEW cause, CloseStream(out, cause), out.state # "finished", out.method = "ibb"
      PROVE  /\ out'.read = out.read /\ out'.state = "finished" /\ out'.method = "ibb"
             /\ out'.request = <<"close", 0>> /\ out'.buf = <<>> /\ out'.error = cause
             /\ out'.sock = (IF out.sock = "none" THEN "none" ELSE "down")
             /\ Posts(Msg("set", "close", 0))
  <2> DEFINE job == Ask(out, <<"close", 0>>)
  <2>1. /\ job.read = out.read /\ job.state = out.state /\ job.method = out.method
        /\ job.request = <<"close", 0>> /\ job.sock = out.sock
    BY <1>2 DEF Ask, OutShape, OutFields
  <2>2. OutShape(job)
    <3>1. <<"close", 0>> \in Asked \X Nat
      BY DEF Asked, Subjects
    <3> QED BY <1>2, <3>1, OutFieldsStay
  <2>3. out' = TerminateOut(job, cause) /\ toPeer' = Append(toPeer, Set(<<"close", 0>>))
    BY <1>5 DEF CloseStream
  <2> HIDE DEF job
  <2>4. EndedOut(job, out', cause)
    BY <2>2, <2>3, OutEnds
  <2> QED BY <1>5, <2>1, <2>3, <2>4 DEF EndedOut, Set
<1>6. CASE Answered /\ out.method = "ibb" /\ out.state # "finished" /\ Head(toUs).type = "result"
           /\ AtEnd(out) /\ CloseStream(out, "NoError")
  BY <1>1, <1>5, <1>6 DEF Answered, AtEnd
<1>7. CASE Answered /\ out.method = "ibb" /\ out.state # "finished" /\ Head(toUs).type = "error"
           /\ CloseStream(out, "ProtocolError")
  BY <1>1, <1>5, <1>7 DEF Answered
<1> QED BY <1>3, <1>4, <1>6, <1>7 DEF IbbResponse

LEMMA PeerRefusedStep ==
    ASSUME Shape, PeerRefused
    PROVE  /\ toUs # <<>> /\ toUs' = Tail(toUs) /\ UNCHANGED <<par, inc, toPeer, hosts, cut>>
           /\ pipe' = Flushed(out, out')
           /\ \/ UNCHANGED out
              \/ /\ EndedOut(out, out', "AbortError") /\ out.request = <<Head(toUs).of, Head(toUs).n>>
                 /\ Head(toUs).of \in {"offer", "hosts"} /\ Head(toUs).type = "error"
  BY OutEnds DEF PeerRefused, Gets, Shape, Answered

\* What sending comes to, for a job whose state has become `state'.
Sends(job, next, state) ==
    /\ next.method = job.method /\ next.request = job.request /\ next.host = job.host
    /\ next.watched = job.watched
    /\ \/ /\ next.read = job.read /\ next.state = state /\ next.error = job.error
          /\ next.sock = job.sock /\ next.buf = job.buf
       \/ /\ next.state = "finished" /\ next.error \in {"NoError", "FileAccessError"}
          /\ next.error = "NoError" =>
               job.buf = <<>> /\ par.announced /\ par.blocks > 0 /\ job.read = par.blocks
          /\ next.buf = <<>> /\ next.read = job.read
          /\ next.sock = IF job.sock = "none" THEN "none" ELSE "down"
       \/ /\ state = "transfer" /\ next.state = "transfer" /\ job.read # par.blocks
          /\ next.read = job.read + 1 /\ next.error = job.error /\ next.sock = job.sock
          /\ next.buf = IF job.sock = "up" THEN Append(job.buf, job.read + 1) ELSE job.buf

LEMMA SendDataStep ==
    ASSUME NEW job, OutShape(job), par.blocks \in Nat, NEW next, next = SendData(job)
    PROVE  Sends(job, next, job.state)
<1>1. /\ next.method = job.method /\ next.request = job.request /\ next.host = job.host
      /\ next.watched = job.watched
      /\ \/ next = job
         \/ /\ next = TerminateOut(job, "NoError") /\ job.buf = <<>> /\ job.state = "transfer"
            /\ par.announced /\ par.blocks > 0 /\ job.read = par.blocks
         \/ next = TerminateOut(job, "FileAccessError") /\ job.state = "transfer"
         \/ /\ job.state = "transfer" /\ job.read # par.blocks
            /\ next.read = job.read + 1 /\ next.state = job.state /\ next.error = job.error
            /\ next.sock = job.sock
            /\ next.buf = IF job.sock = "up" THEN Append(job.buf, job.read + 1) ELSE job.buf
  BY DataSent
<1>2. CASE next = TerminateOut(job, "NoError") /\ job.buf = <<>> /\ job.state = "transfer"
            /\ par.announced /\ par.blocks > 0 /\ job.read = par.blocks
  BY <1>1, <1>2, OutEnds DEF EndedOut, Sends
<1>3. CASE next = TerminateOut(job, "FileAccessError") /\ job.state = "transfer"
  BY <1>1, <1>3, OutEnds DEF EndedOut, Sends
<1> QED BY <1>1, <1>2, <1>3 DEF Sends

LEMMA StartSendingStep ==
    ASSUME NEW job, OutShape(job), par.blocks \in Nat, NEW next, next = StartSending(job)
    PROVE  Sends(job, next, "transfer")
<1> DEFINE begun == [job EXCEPT !.state = "transfer"]
<1>1. /\ OutShape(begun) /\ begun.state = "transfer" /\ begun.method = job.method
      /\ begun.request = job.request /\ begun.host = job.host /\ begun.watched = job.watched
      /\ begun.read = job.read /\ begun.error = job.error /\ begun.sock = job.sock
      /\ begun.buf = job.buf
  BY DEF OutShape, OutFields
<1>2. next = SendData(begun)
  BY DEF StartSending
<1> HIDE DEF begun
<1>3. Sends(begun, next, begun.state)
  BY <1>1, <1>2, SendDataStep
<1> QED BY <1>1, <1>3 DEF Sends

LEMMA HostUsedStep ==
    ASSUME Shape, HostUsed
    PROVE  /\ toUs # <<>> /\ Head(toUs).type = "result" /\ Head(toUs).of = "hosts" /\ toUs' = Tail(toUs)
           /\ UNCHANGED <<par, inc, toPeer, hosts, cut>> /\ pipe' = Flushed(out, out')
           /\ \/ UNCHANGED out
              \/ /\ out.request = <<"hosts", 0>> /\ out.state = "start"
                 /\ \/ /\ hosts[Head(toUs).n] # "direct"
                       /\ out'.sock = "dialing" /\ out'.host = Head(toUs).n
                       /\ out'.state = out.state /\ out'.method = out.method /\ out'.error = out.error
                       /\ out'.read = out.read /\ out'.request = out.request /\ out'.buf = out.buf
                    \/ /\ hosts[Head(toUs).n] = "direct" /\ out.sock = "none"
                       /\ EndedOut(out, out', "ProtocolError")
                    \/ /\ hosts[Head(toUs).n] = "direct" /\ out.sock # "none"
                       /\ \E job : /\ job.state = out.state /\ job.method = out.method
                                   /\ job.error = out.error /\ job.read = out.read
                                   /\ job.request = out.request /\ job.sock = out.sock
                                   /\ job.host = out.host /\ job.buf = out.buf
                                   /\ Sends(job, out', "transfer")
<1>1. /\ toUs # <<>> /\ Head(toUs).type = "result" /\ Head(toUs).of = "hosts" /\ toUs' = Tail(toUs)
      /\ UNCHANGED <<par, inc, toPeer, hosts, cut>> /\ pipe' = Flushed(out, out')
  BY DEF HostUsed, Gets
<1>2. CASE UNCHANGED out
  BY <1>1, <1>2
<1>3. CASE /\ out.request = <<"hosts", 0>> /\ out.state = "start" /\ hosts[Head(toUs).n] # "direct"
           /\ out' = [out EXCEPT !.sock = "dialing", !.host = Head(toUs).n, !.watched = TRUE]
  BY <1>1, <1>3 DEF Shape, OutShape, OutFields
<1>4. CASE /\ out.request = <<"hosts", 0>> /\ out.state = "start" /\ hosts[Head(toUs).n] = "direct"
           /\ out.sock = "none" /\ out' = TerminateOut(out, "ProtocolError")
  BY <1>1, <1>4, OutEnds DEF Shape
<1>5. CASE /\ out.request = <<"hosts", 0>> /\ out.state = "start" /\ hosts[Head(toUs).n] = "direct"
           /\ out.sock # "none" /\ out' = StartSending([out EXCEPT !.watched = TRUE])
  <2> DEFINE job == [out EXCEPT !.watched = TRUE]
  <2>1. /\ job.state = out.state /\ job.method = out.method /\ job.error = out.error
        /\ job.read = out.read /\ job.request = out.request /\ job.sock = out.sock
        /\ job.host = out.host /\ job.buf = out.buf /\ OutShape(job)
    BY DEF Shape, OutShape, OutFields
  <2>2. par.blocks \in Nat
    BY DEF Shape
  <2>3. out' = StartSending(job)
    BY <1>5
  <2> HIDE DEF job
  <2>4. Sends(job, out', "transfer")
    BY <2>1, <2>2, <2>3, StartSendingStep
  <2> QED BY <1>1, <1>5, <2>1, <2>4
<1> QED BY <1>2, <1>3, <1>4, <1>5 DEF HostUsed

LEMMA ProxyReadyStep ==
    ASSUME Shape, ProxyReady
    PROVE  /\ out.sock = "dialing" /\ UNCHANGED <<par, inc, toPeer, toUs, pipe, hosts, cut>>
           /\ out'.sock = "up" /\ out'.request = <<"activate", 0>> /\ out'.state = out.state
           /\ out'.method = out.method /\ out'.error = out.error /\ out'.read = out.read
           /\ out'.host = out.host /\ out'.watched = out.watched /\ out'.buf = out.buf
<1>1. out' = [out EXCEPT !.request = <<"activate", 0>>, !.sock = "up"]
  BY DEF ProxyReady, Ask
<1> QED BY <1>1 DEF ProxyReady, Shape, OutShape, OutFields

LEMMA ActivatedStep ==
    ASSUME Shape, Activated
    PROVE  /\ out.request = <<"activate", 0>> /\ UNCHANGED <<par, inc, toPeer, toUs, hosts, cut>>
           /\ pipe' = Flushed(out, out')
           /\ \E job : /\ job.state = out.state /\ job.method = out.method /\ job.error = out.error
                       /\ job.read = out.read /\ job.request = <<"none", 0>> /\ job.sock = out.sock
                       /\ job.host = out.host /\ job.buf = out.buf /\ job.watched = out.watched
                       /\ \/ Sends(job, out', "transfer")
                          \/ EndedOut(job, out', "ProtocolError")
<1> DEFINE job == Ask(out, <<"none", 0>>)
<1>1. /\ job.state = out.state /\ job.method = out.method /\ job.error = out.error
      /\ job.read = out.read /\ job.request = <<"none", 0>> /\ job.sock = out.sock
      /\ job.host = out.host /\ job.buf = out.buf /\ job.watched = out.watched
  BY DEF Ask, Shape, OutShape, OutFields
<1>2. OutShape(job) /\ par.blocks \in Nat
  <2>1. <<"none", 0>> \in Asked \X Nat
    BY DEF Asked
  <2> QED BY <2>1, OutFieldsStay DEF Shape
<1>3. out' = StartSending(job) \/ out' = TerminateOut(job, "ProtocolError")
  BY DEF Activated
<1> HIDE DEF job
<1>4. Sends(job, out', "transfer") \/ EndedOut(job, out', "ProtocolError")
  BY <1>2, <1>3, StartSendingStep, OutEnds
<1> QED BY <1>1, <1>4 DEF Activated

LEMMA BytesWrittenStep ==
    ASSUME Shape, BytesWritten
    PROVE  /\ out.sock = "up" /\ out.buf # <<>> /\ ~cut
           /\ UNCHANGED <<par, inc, toPeer, toUs, hosts, cut>>
           /\ \E k \in 0 .. Len(out.buf) : \E job :
                /\ pipe' = pipe \o SubSeq(out.buf, 1, k)
                /\ job.state = out.state /\ job.method = out.method /\ job.error = out.error
                /\ job.read = out.read /\ job.request = out.request /\ job.sock = out.sock
                /\ job.host = out.host /\ job.buf = SubSeq(out.buf, k + 1, Len(out.buf))
                /\ job.watched = out.watched
                /\ out' = job \/ (out.watched /\ Sends(job, out', job.state))
<1>1. PICK k \in 0 .. Len(out.buf) :
        /\ out' = IF out.watched THEN SendData([out EXCEPT !.buf = SubSeq(out.buf, k + 1, Len(out.buf))])
                                 ELSE [out EXCEPT !.buf = SubSeq(out.buf, k + 1, Len(out.buf))]
        /\ pipe' = pipe \o SubSeq(out.buf, 1, k)
  BY DEF BytesWritten
<1> DEFINE job == [out EXCEPT !.buf = SubSeq(out.buf, k + 1, Len(out.buf))]
<1>2. SubSeq(out.buf, k + 1, Len(out.buf)) \in Seq(Nat)
  BY Halves DEF Shape, OutShape
<1>3. /\ job.state = out.state /\ job.method = out.method /\ job.error = out.error
      /\ job.read = out.read /\ job.request = out.request /\ job.sock = out.sock
      /\ job.host = out.host /\ job.buf = SubSeq(out.buf, k + 1, Len(out.buf))
      /\ job.watched = out.watched
  BY DEF Shape, OutShape, OutFields
<1>4. OutShape(job) /\ par.blocks \in Nat
  BY <1>2, OutFieldsStay DEF Shape
<1>5. out' = job \/ (out.watched /\ out' = SendData(job))
  <2>1. CASE out.watched
    BY <1>1, <2>1
  <2>2. CASE ~out.watched
    BY <1>1, <2>2
  <2> QED BY <2>1, <2>2
<1>6. /\ out.sock = "up" /\ out.buf # <<>> /\ ~cut
      /\ UNCHANGED <<par, inc, toPeer, toUs, hosts, cut>>
  BY DEF BytesWritten
<1> HIDE DEF job
<1>7. out' = job \/ (out.watched /\ Sends(job, out', job.state))
  BY <1>4, <1>5, SendDataStep
<1> QED BY <1>1, <1>3, <1>6, <1>7

Announced == par.announced
AllRead == Announced => out.read = par.blocks \/ ~(par.blocks > 0)

\* A job whose connection is gone ends without error if it has read its file, or cannot tell.
LEMMA LeftEnds ==
    ASSUME NEW job, OutShape(job), job.read = out.read, NEW next, next = Left(job)
    PROVE  EndedOut(job, next, "ProtocolError") \/ (EndedOut(job, next, "NoError") /\ AllRead)
<1>1. CASE Announced /\ par.blocks > 0 /\ ~AtEnd(job)
  <2>1. next = TerminateOut(job, "ProtocolError")
    BY <1>1, Zenon DEF Left, Announced
  <2> QED BY <2>1, OutEnds
<1>2. CASE ~(Announced /\ par.blocks > 0 /\ ~AtEnd(job))
  <2>1. next = TerminateOut(job, "NoError") /\ AllRead
    BY <1>2, Zenon DEF Left, Announced, AllRead, AtEnd
  <2> QED BY <2>1, OutEnds
<1> QED BY <1>1, <1>2

LEMMA ProxyFailsStep ==
    ASSUME Shape, ProxyFails
    PROVE  /\ out.sock = "dialing" /\ UNCHANGED <<par, inc, toPeer, toUs, pipe, hosts, cut>>
           /\ \/ /\ out'.sock = "refused" /\ out'.state = out.state /\ out'.method = out.method
                 /\ out'.error = out.error /\ out'.read = out.read /\ out'.request = out.request
                 /\ out'.host = out.host /\ out'.watched = out.watched /\ out'.buf = out.buf
              \/ EndedOut(out, out', "ProtocolError")
              \/ EndedOut(out, out', "NoError") /\ AllRead
<1>1. CASE out' = [out EXCEPT !.sock = "refused"]
  BY <1>1 DEF ProxyFails, Shape, OutShape, OutFields
<1>2. CASE out' = Left(out)
  BY <1>2, LeftEnds DEF ProxyFails, Shape
<1> QED BY <1>1, <1>2 DEF ProxyFails

LEMMA OutDisconnectedStep ==
    ASSUME Shape, OutDisconnected
    PROVE  /\ out.sock = "up" /\ UNCHANGED <<par, inc, toPeer, toUs, hosts, cut>> /\ pipe' = <<>>
           /\ out'.method = out.method /\ out'.read = out.read /\ out'.request = out.request
           /\ out'.host = out.host /\ out'.watched = out.watched
           /\ out'.sock = "down" /\ out'.buf = <<>>
           /\ \/ out'.state = out.state /\ out'.error = out.error
              \/ /\ out.state # "finished" /\ out'.state = "finished"
                 /\ out'.error \in {"NoError", "ProtocolError"}
                 /\ out'.error = "NoError" => AllRead
<1> DEFINE job == [out EXCEPT !.sock = "down", !.buf = <<>>]
<1>1. /\ OutShape(job) /\ job.state = out.state /\ job.method = out.method /\ job.error = out.error
      /\ job.read = out.read /\ job.request = out.request /\ job.sock = "down"
      /\ job.host = out.host /\ job.buf = <<>> /\ job.watched = out.watched
  BY DEF Shape, OutShape, OutFields
<1>2. /\ out' = job \/ (out.state # "finished" /\ out' = Left(job))
      /\ out.sock = "up" /\ UNCHANGED <<par, inc, toPeer, toUs, hosts, cut>> /\ pipe' = <<>>
  BY DEF OutDisconnected
<1> HIDE DEF job
<1>3. CASE out.state # "finished" /\ out' = Left(job)
  BY <1>1, <1>2, <1>3, LeftEnds DEF EndedOut
<1> QED BY <1>1, <1>2, <1>3

LEMMA OutTerminatedStep ==
    ASSUME Shape, OutTerminated
    PROVE  /\ UNCHANGED <<par, inc, toUs, pipe, hosts, cut>>
           /\ out'.state = out.state /\ out'.read = out.read /\ Going(out, out')
           /\ \/ /\ out.method = "ibb" /\ out.error = "AbortError" /\ out'.request = <<"close", 0>>
                 /\ Posts(Msg("set", "close", 0))
              \/ out'.request = out.request /\ UNCHANGED toPeer
<1> DEFINE job == [out EXCEPT !.posted = @ - 1]
<1>1. /\ DOMAIN job = OutFields /\ job.state = out.state /\ job.read = out.read /\ Going(out, job)
      /\ job.request = out.request
  BY DEF Shape, OutShape, OutFields, Going
<1>2. \/ /\ out.method = "ibb" /\ out.error = "AbortError"
         /\ out' = Ask(job, <<"close", 0>>) /\ toPeer' = Append(toPeer, Set(<<"close", 0>>))
      \/ out' = job /\ UNCHANGED toPeer
  BY DEF OutTerminated
<1> HIDE DEF job
<1> QED BY <1>1, <1>2 DEF Ask, OutFields, Going, Set, OutTerminated

LEMMA AbortOutStep ==
    ASSUME Shape, AbortOut
    PROVE  /\ out.state \notin {"none", "finished"} /\ EndedOut(out, out', "AbortError")
           /\ pipe' = Flushed(out, out') /\ UNCHANGED <<par, inc, toPeer, toUs, hosts, cut>>
  BY OutEnds DEF AbortOut, Shape

-----------------------------------------------------------------------------
(* What each action of the incoming job comes to. *)

\* The fields a step of the incoming job leaves alone.
Holding(job, next) ==
    /\ next.error = job.error /\ next.written = job.written /\ next.seq = job.seq
    /\ next.host = job.host

\* Giving up a host, for a job whose step does not matter any more.
NextHostTaken(job) ==
    /\ inc'.written = job.written /\ inc'.seq = job.seq
    /\ \/ /\ toUs' = toUs /\ inc'.step = "dial" /\ job.host # Len(hosts)
          /\ inc'.host = job.host + 1
          /\ inc'.state = job.state /\ inc'.device = job.device /\ inc'.error = job.error
       \/ /\ Answers(Msg("error", "hosts", 0)) /\ inc'.step = "none"
          /\ inc'.host = job.host /\ inc'.state = "finished" /\ job.state = "finished"
          /\ inc'.device = job.device /\ inc'.error = job.error
       \/ /\ Answers(Msg("error", "hosts", 0)) /\ inc'.step = "none"
          /\ inc'.host = job.host /\ inc'.state = "finished" /\ job.state # "finished"
          /\ inc'.device = IF job.device = "none" THEN "none" ELSE "closed"
          /\ inc'.error = "ProtocolError"

\* Checking what was written, of a job that has closed its stream or not.
Checked(job, next) ==
    \E cause : /\ EndedInc(job, next, cause)
               /\ cause = "NoError" /\ par.announced => job.written = File(par.blocks)

\* Writing blocks.
Writes(job, next, blocks) ==
    /\ next.state = job.state /\ next.error = job.error /\ next.device = job.device
    /\ next.step = job.step /\ next.host = job.host
    /\ next.written = IF job.device = "open" THEN job.written \o blocks ELSE job.written

LEMMA CheckDataStep ==
    ASSUME NEW job, IncShape(job), NEW next, next = CheckData(job)
    PROVE  Checked(job, next)
<1> DEFINE cause == IF par.announced /\ job.written # File(par.blocks)
                    THEN "FileCorruptError" ELSE "NoError"
<1>1. next = TerminateInc(job, cause)
  BY DEF CheckData
<1>2. cause = "NoError" /\ par.announced => job.written = File(par.blocks)
  BY Zenon
<1> HIDE DEF cause
<1>3. EndedInc(job, next, cause)
  BY <1>1, IncEnds
<1> QED BY <1>2, <1>3 DEF Checked

LEMMA WriteDataStep ==
    ASSUME NEW job, IncShape(job), NEW blocks \in Seq(Nat), NEW next, next = WriteData(job, blocks)
    PROVE  Writes(job, next, blocks) /\ next.seq = job.seq /\ IncShape(next)
  BY DEF WriteData, Writes, IncShape, IncFields

LEMMA OfferArrivesStep ==
    ASSUME Shape, OfferArrives
    PROVE  /\ toPeer # <<>> /\ Head(toPeer).type = "set" /\ Head(toPeer).of = "offer"
           /\ toPeer' = Tail(toPeer) /\ UNCHANGED <<par, out, pipe, hosts, cut>>
           /\ \/ inc' = inc /\ Answers(Msg("error", "offer", Head(toPeer).n))
              \/ /\ inc'.state = "offer" /\ inc'.device = inc.device /\ inc'.step = inc.step
                 /\ Holding(inc, inc') /\ toUs' = toUs
  BY DEF OfferArrives, Arrives, Reply, Holding, Shape, IncShape, IncFields

LEMMA UserAcceptsStep ==
    ASSUME Shape, UserAccepts
    PROVE  /\ inc.state = "offer" /\ UNCHANGED <<par, out, toPeer, pipe, hosts, cut>>
           /\ inc'.state = "start" /\ inc'.device = "open" /\ inc'.step = inc.step
           /\ Holding(inc, inc') /\ Answers(Msg("result", "offer", 0))
  BY DEF UserAccepts, Holding, Shape, IncShape, IncFields

LEMMA IncTerminatedStep ==
    ASSUME Shape, IncTerminated
    PROVE  /\ UNCHANGED <<par, out, toPeer, pipe, hosts, cut>>
           /\ inc'.state = inc.state /\ inc'.device = inc.device /\ inc'.step = inc.step
           /\ Holding(inc, inc')
           /\ toUs' = toUs \/ Answers(Msg("error", "offer", 0))
<1>1. inc' = [inc EXCEPT !.posted = @ - 1, !.listening = FALSE]
      /\ UNCHANGED <<par, out, toPeer, pipe, hosts, cut>>
  BY DEF IncTerminated
<1>2. toUs' = toUs \/ Answers(Msg("error", "offer", 0))
  BY Zenon DEF IncTerminated
<1> QED BY <1>1, <1>2 DEF Holding, Shape, IncShape, IncFields

LEMMA IbbOpenStep ==
    ASSUME Shape, IbbOpen
    PROVE  /\ toPeer # <<>> /\ Head(toPeer).type = "set" /\ Head(toPeer).of = "open"
           /\ toPeer' = Tail(toPeer) /\ UNCHANGED <<par, out, pipe, hosts, cut>>
           /\ \/ inc' = inc /\ Answers(Msg("error", "open", Head(toPeer).n))
              \/ /\ inc'.state = "transfer" /\ inc'.device = inc.device /\ inc'.step = inc.step
                 /\ Holding(inc, inc')
                 /\ Answers(Msg("result", "open", Head(toPeer).n))
  BY DEF IbbOpen, Arrives, Reply, Holding, Shape, IncShape, IncFields

LEMMA IbbDataStep ==
    ASSUME Shape, IbbData
    PROVE  /\ toPeer # <<>> /\ Head(toPeer).type = "set" /\ Head(toPeer).of = "data"
           /\ toPeer' = Tail(toPeer) /\ UNCHANGED <<par, out, pipe, hosts, cut>>
           /\ \/ inc' = inc /\ Answers(Msg("error", "data", Head(toPeer).n))
              \/ /\ inc.state = "transfer" /\ Sequence(Head(toPeer).n) = inc.seq
                 /\ Writes(inc, inc', <<Head(toPeer).n>>) /\ inc'.seq = inc.seq + 1
                 /\ Answers(Msg("result", "data", Head(toPeer).n))
<1>1. /\ toPeer # <<>> /\ Head(toPeer).type = "set" /\ Head(toPeer).of = "data"
      /\ toPeer' = Tail(toPeer) /\ UNCHANGED <<par, out, pipe, hosts, cut>>
  BY DEF IbbData, Arrives
<1>2. CASE inc' = inc /\ Reply("error")
  BY <1>1, <1>2 DEF Reply
<1>3. CASE /\ inc.state = "transfer" /\ Sequence(Head(toPeer).n) = inc.seq
           /\ inc' = [WriteData(inc, <<Head(toPeer).n>>) EXCEPT !.seq = @ + 1] /\ Reply("result")
  <2> DEFINE job == WriteData(inc, <<Head(toPeer).n>>)
  <2>1. Head(toPeer).n \in Nat /\ IncShape(inc)
    BY <1>1, Tails DEF Shape
  <2>2. Writes(inc, job, <<Head(toPeer).n>>) /\ job.seq = inc.seq /\ IncShape(job)
    <3>1. <<Head(toPeer).n>> \in Seq(Nat)
      BY <2>1
    <3> QED BY <2>1, <3>1, WriteDataStep
  <2>3. inc' = [job EXCEPT !.seq = @ + 1]
    BY <1>3
  <2> HIDE DEF job
  <2>4. /\ inc'.seq = job.seq + 1 /\ inc'.state = job.state /\ inc'.error = job.error
        /\ inc'.device = job.device /\ inc'.step = job.step /\ inc'.host = job.host
        /\ inc'.written = job.written
    BY <2>2, <2>3 DEF IncShape, IncFields
  <2> QED BY <1>1, <1>3, <2>2, <2>4 DEF Writes, Reply
<1> QED BY <1>2, <1>3 DEF IbbData

LEMMA IbbCloseStep ==
    ASSUME Shape, IbbClose
    PROVE  /\ toPeer # <<>> /\ Head(toPeer).type = "set" /\ Head(toPeer).of = "close"
           /\ toPeer' = Tail(toPeer) /\ UNCHANGED <<par, out, pipe, hosts, cut>>
           /\ Answers(Msg("result", "close", Head(toPeer).n))
           /\ Checked(inc, inc')
  BY CheckDataStep DEF IbbClose, Arrives, Reply, Shape

LEMMA HostsArriveStep ==
    ASSUME Shape, HostsArrive
    PROVE  /\ toPeer # <<>> /\ Head(toPeer).type = "set" /\ Head(toPeer).of = "hosts"
           /\ toPeer' = Tail(toPeer) /\ UNCHANGED <<par, out, pipe, hosts, cut>>
           /\ \/ inc' = inc /\ Answers(Msg("error", "hosts", Head(toPeer).n))
              \/ inc.state = "start" /\ NextHostTaken(inc)
  BY NextHostStep DEF HostsArrive, Arrives, Reply, Shape, NextHostTaken

LEMMA CandidateProceedsStep ==
    ASSUME Shape, CandidateProceeds
    PROVE  /\ UNCHANGED <<par, out, toPeer, toUs, pipe, hosts, cut>> /\ Holding(inc, inc')
           /\ inc'.state = inc.state /\ inc'.device = inc.device
           /\ \/ inc.step = "dial" /\ inc'.step = "greet" /\ hosts[inc.host] # "nowhere"
              \/ inc.step = "greet" /\ inc'.step = "command"
  BY DEF CandidateProceeds, Holding, Shape, IncShape, IncFields

LEMMA CandidateServedStep ==
    ASSUME Shape, CandidateServed
    PROVE  /\ UNCHANGED <<par, toPeer, toUs, pipe, hosts, cut>> /\ Holding(inc, inc')
           /\ inc'.state = inc.state /\ inc'.device = inc.device
           /\ inc.step = "command" /\ inc'.step = "reply"
           /\ \/ out' = out /\ hosts[inc.host] # "direct"
              \/ /\ hosts[inc.host] = "direct" /\ out'.sock = "up" /\ out'.host = inc.host
                 /\ out'.buf = <<>> /\ out'.state = out.state /\ out'.method = out.method
                 /\ out'.error = out.error /\ out'.read = out.read /\ out'.request = out.request
  BY DEF CandidateServed, Holding, Shape, IncShape, IncFields, OutShape, OutFields

LEMMA CandidateReadyStep ==
    ASSUME Shape, CandidateReady
    PROVE  /\ UNCHANGED <<par, out, toPeer, pipe, hosts, cut>> /\ Holding(inc, inc')
           /\ inc'.state = "transfer" /\ inc'.device = inc.device
           /\ inc.step = "reply" /\ inc'.step = "open"
           /\ Answers(Msg("result", "hosts", inc.host))
  BY DEF CandidateReady, Holding, Shape, IncShape, IncFields

LEMMA CandidateLostStep ==
    ASSUME Shape, CandidateDisconnected \/ CandidateTimeout
    PROVE  /\ UNCHANGED <<par, out, toPeer, pipe, hosts, cut>> /\ inc.step \in Candidate
           /\ NextHostTaken(inc)
<1> DEFINE job == [inc EXCEPT !.doomed = (inc.step # "dial")]
<1>1. CASE CandidateDisconnected
  BY <1>1, NextHostStep DEF CandidateDisconnected, Shape, NextHostTaken
<1>2. CASE CandidateTimeout
  <2>1. /\ IncShape(job) /\ job.state = inc.state /\ job.device = inc.device /\ job.error = inc.error
        /\ job.written = inc.written /\ job.seq = inc.seq /\ job.host = inc.host
    BY DEF Shape, IncShape, IncFields
  <2>2. NextHost(job) /\ inc.step \in Candidate /\ UNCHANGED <<par, out, toPeer, pipe, hosts, cut>>
    BY <1>2 DEF CandidateTimeout
  <2> HIDE DEF job
  <2> QED BY <2>1, <2>2, NextHostStep DEF NextHostTaken
<1> QED BY <1>1, <1>2

LEMMA DoomedDeletedStep ==
    ASSUME Shape, DoomedDeleted
    PROVE  /\ UNCHANGED <<par, out, toPeer, pipe, hosts, cut>>
           /\ \/ inc.step \in Candidate /\ NextHostTaken(inc)
              \/ /\ inc.step \notin Candidate /\ UNCHANGED toUs /\ Holding(inc, inc')
                 /\ inc'.state = inc.state /\ inc'.device = inc.device /\ inc'.step = inc.step
<1> DEFINE job == [inc EXCEPT !.doomed = FALSE]
<1>1. /\ IncShape(job) /\ job.state = inc.state /\ job.device = inc.device /\ job.error = inc.error
      /\ job.written = inc.written /\ job.seq = inc.seq /\ job.host = inc.host /\ job.step = inc.step
  BY DEF Shape, IncShape, IncFields
<1>2. /\ UNCHANGED <<par, out, toPeer, pipe, hosts, cut>>
      /\ \/ inc.step \in Candidate /\ NextHost(job)
         \/ inc.step \notin Candidate /\ inc' = job /\ UNCHANGED toUs
  BY DEF DoomedDeleted
<1> HIDE DEF job
<1> QED BY <1>1, <1>2, NextHostStep DEF NextHostTaken, Holding

LEMMA ReceiveDataStep ==
    ASSUME Shape, ReceiveData
    PROVE  /\ inc.step = "open" /\ pipe # <<>> /\ ~cut /\ out.host = inc.host
           /\ UNCHANGED <<par, out, toPeer, toUs, hosts, cut>>
           /\ \E k \in 1 .. Len(pipe) : \E job :
                /\ pipe' = SubSeq(pipe, k + 1, Len(pipe))
                /\ \/ inc.state # "transfer" /\ inc' = inc
                   \/ /\ inc.state = "transfer" /\ Writes(inc, job, SubSeq(pipe, 1, k))
                      /\ job.seq = inc.seq
                      /\ \/ inc' = job /\ ~(par.announced /\ par.blocks > 0 /\ Len(job.written) >= par.blocks)
                         \/ /\ Checked(job, inc') /\ par.announced /\ par.blocks > 0
                            /\ Len(job.written) >= par.blocks
<1>1. PICK k \in 1 .. Len(pipe) :
        LET job == WriteData(inc, SubSeq(pipe, 1, k)) IN
        /\ inc' = IF inc.state # "transfer" THEN inc
                  ELSE IF par.announced /\ par.blocks > 0 /\ Len(job.written) >= par.blocks
                  THEN CheckData(job) ELSE job
        /\ pipe' = SubSeq(pipe, k + 1, Len(pipe))
  BY DEF ReceiveData
<1> DEFINE job == WriteData(inc, SubSeq(pipe, 1, k))
           all == par.announced /\ par.blocks > 0 /\ Len(job.written) >= par.blocks
<1>2. SubSeq(pipe, 1, k) \in Seq(Nat)
  BY Halves DEF Shape
<1>3. Writes(inc, job, SubSeq(pipe, 1, k)) /\ job.seq = inc.seq /\ IncShape(job)
  BY <1>2, WriteDataStep DEF Shape
<1>4. \/ inc.state # "transfer" /\ inc' = inc
      \/ inc.state = "transfer" /\ ~all /\ inc' = job
      \/ inc.state = "transfer" /\ all /\ inc' = CheckData(job)
  BY <1>1, Zenon
<1>5. pipe' = SubSeq(pipe, k + 1, Len(pipe))
  BY <1>1
<1> HIDE DEF job
<1>6. \/ inc.state # "transfer" /\ inc' = inc
      \/ inc.state = "transfer" /\ ~all /\ inc' = job
      \/ inc.state = "transfer" /\ all /\ Checked(job, inc')
  <2> HIDE DEF all
  <2> QED BY <1>3, <1>4, CheckDataStep
<1>7. /\ inc.step = "open" /\ pipe # <<>> /\ ~cut /\ out.host = inc.host
      /\ UNCHANGED <<par, out, toPeer, toUs, hosts, cut>>
  BY DEF ReceiveData
<1> QED BY <1>3, <1>5, <1>6, <1>7

LEMMA IncDisconnectedStep ==
    ASSUME Shape, IncDisconnected
    PROVE  /\ inc.step = "open" /\ (cut \/ (pipe = <<>> /\ out.host = inc.host /\ out.sock = "down"))
           /\ UNCHANGED <<par, out, toPeer, toUs, pipe, hosts, cut>>
           /\ \E job : /\ job.step = "closed" /\ job.state = inc.state /\ job.device = inc.device
                       /\ Holding(inc, job)
                       /\ \/ inc.state = "finished" /\ inc' = job
                          \/ inc.state # "finished" /\ Checked(job, inc')
<1> DEFINE job == [inc EXCEPT !.step = "closed"]
<1>1. /\ IncShape(job) /\ job.step = "closed" /\ job.state = inc.state /\ job.device = inc.device
      /\ Holding(inc, job)
  BY DEF Shape, IncShape, IncFields, Holding
<1>2. /\ inc.step = "open" /\ (cut \/ (pipe = <<>> /\ out.host = inc.host /\ out.sock = "down"))
      /\ UNCHANGED <<par, out, toPeer, toUs, pipe, hosts, cut>>
      /\ \/ inc.state = "finished" /\ inc' = job
         \/ inc.state # "finished" /\ inc' = CheckData(job)
  BY DEF IncDisconnected
<1> HIDE DEF job
<1> QED BY <1>1, <1>2, CheckDataStep

LEMMA AbortIncStep ==
    ASSUME Shape, AbortInc
    PROVE  /\ UNCHANGED <<par, out, toPeer, toUs, pipe, hosts, cut>>
           /\ inc.state \notin {"none", "finished"} /\ EndedInc(inc, inc', "AbortError")
  BY IncEnds DEF AbortInc, Shape

HIDE DEF Posts, Answers

-----------------------------------------------------------------------------
(* The order in which the two sides get to know of one another. *)

\* The stanzas under way, their order aside.
Msgs(s) == {s[i] : i \in 1 .. Len(s)}

\* What a stanza that is sent or taken changes.
LEMMA MsgsOf ==
    ASSUME NEW s \in Wire
    PROVE  /\ Msgs(<<>>) = {}
           /\ \A m : Msgs(Append(s, m)) = Msgs(s) \cup {m}
           /\ s # <<>> => Msgs(s) = {Head(s)} \cup Msgs(Tail(s)) /\ Head(s) \in Msgs(s)
<1>1. Msgs(<<>>) = {}
  BY DEF Msgs
<1>2. ASSUME NEW m  PROVE  Msgs(Append(s, m)) = Msgs(s) \cup {m}
  <2>1. /\ Len(Append(s, m)) = Len(s) + 1 /\ Append(s, m)[Len(s) + 1] = m
        /\ \A i \in 1 .. Len(s) : Append(s, m)[i] = s[i]
    BY Added
  <2>2. Len(s) \in Nat
    BY DEF Wire
  <2>3. 1 .. Len(s) + 1 = (1 .. Len(s)) \cup {Len(s) + 1}
    BY <2>2
  <2> QED BY <2>1, <2>2, <2>3 DEF Msgs
<1>3. ASSUME s # <<>>  PROVE  Msgs(s) = {Head(s)} \cup Msgs(Tail(s))
  <2>1. /\ Len(Tail(s)) = Len(s) - 1 /\ Len(s) > 0 /\ Head(s) = s[1]
        /\ \A i \in 1 .. Len(s) - 1 : Tail(s)[i] = s[i + 1]
    BY <1>3, Taken
  <2>2. Len(s) \in Nat
    BY DEF Wire
  <2>3. \A m \in Msgs(s) : m \in {Head(s)} \cup Msgs(Tail(s))
    <3> TAKE m \in Msgs(s)
    <3>1. PICK i \in 1 .. Len(s) : m = s[i]
      BY DEF Msgs
    <3>2. CASE i = 1
      BY <2>1, <3>1, <3>2
    <3>3. CASE i # 1
      <4>1. i - 1 \in 1 .. Len(s) - 1 /\ Tail(s)[i - 1] = s[i]
        BY <2>1, <2>2, <3>3
      <4> QED BY <2>1, <3>1, <4>1 DEF Msgs
    <3> QED BY <3>2, <3>3
  <2>4. \A m \in Msgs(Tail(s)) : m \in Msgs(s)
    <3> TAKE m \in Msgs(Tail(s))
    <3>1. PICK i \in 1 .. Len(s) - 1 : m = Tail(s)[i]
      BY <2>1 DEF Msgs
    <3>2. i + 1 \in 1 .. Len(s) /\ m = s[i + 1]
      BY <2>1, <2>2, <3>1
    <3> QED BY <3>2 DEF Msgs
  <2>5. Head(s) \in Msgs(s)
    BY <2>1, <2>2 DEF Msgs
  <2> QED BY <2>3, <2>4, <2>5
<1> QED BY <1>1, <1>2, <1>3

\* The order in which the two sides get to know of one another.
Unsent == out.state = "none" =>
    /\ toPeer = <<>> /\ inc.state = "none" /\ out.method = "none"
    /\ out.request[1] = "none" /\ out.sock = "none"
OfferFirst == \A m \in Msgs(toPeer) : m.of = "offer" => Tail(toPeer) = <<>> /\ inc.state = "none"
DeviceUsed ==
    /\ inc.device \in {"none", "open", "closed"}
    /\ inc.state \in {"none", "offer"} => inc.device = "none"
    /\ inc.device = "open" => inc.state \in {"start", "transfer"}
Untaken == inc.device = "none" =>
    /\ inc.written = <<>> /\ inc.seq = 0 /\ inc.step = "none" /\ out.method = "none"
    /\ inc.state \in {"none", "offer", "finished"}
    /\ \A m \in Msgs(toUs) : m.type = "result" => m.of # "offer"
Unanswered ==
    /\ out.method = "none" =>
         /\ out.request[1] \in {"none", "offer"} /\ out.sock # "dialing" /\ inc.step = "none"
         /\ out.state \notin {"start", "transfer"}
         /\ \A m \in Msgs(toPeer) : m.of = "offer"
    /\ out.method # "none" => out.state # "offer"
Offered == Unsent /\ OfferFirst /\ DeviceUsed /\ Untaken /\ Unanswered

\* No step of a transfer breaks the order of its beginning.
LEMMA OfferedKept ==
    ASSUME Shape, Offered, TransferNext
    PROVE  Offered'
<1>1. /\ Msgs(<<>>) = {}
      /\ \A m : Posts(m) => Msgs(toPeer') = Msgs(toPeer) \cup {m}
      /\ toPeer # <<>> => Msgs(toPeer) = {Head(toPeer)} \cup Msgs(Tail(toPeer))
      /\ \A m : Answers(m) => Msgs(toUs') = Msgs(toUs) \cup {m}
      /\ toUs # <<>> => Msgs(toUs) = {Head(toUs)} \cup Msgs(Tail(toUs))
  BY MsgsOf DEF Shape, Posts, Answers
<1>2. \A m : toPeer = <<>> /\ Posts(m) => Tail(toPeer') = <<>>
  BY DEF Posts
<1>3. \A type, of, n : Msg(type, of, n).type = type /\ Msg(type, of, n).of = of
  BY DEF Msg
<1>4. <<"offer", 0>>[1] = "offer"
    OBVIOUS
<1>5. out.method # "none" \/ (toUs # <<>> /\ Head(toUs).type = "result" /\ Head(toUs).of = "offer")
        => inc.device # "none" /\ \A m \in Msgs(toPeer) : m.of # "offer"
  BY <1>1 DEF Offered, OfferFirst, DeviceUsed, Untaken
<1>11. CASE SendFile
  <2>1. Unsent'
    BY <1>11, SendFileStep, <1>1, <1>2, <1>3, <1>4, <1>5 DEF Offered, Unsent, OfferFirst,
       DeviceUsed, Untaken, Unanswered, EndedOut, EndedInc, Going, Holding
  <2>2. OfferFirst'
    BY <1>11, SendFileStep, <1>1, <1>2, <1>3, <1>4, <1>5 DEF Offered, Unsent, OfferFirst,
       DeviceUsed, Untaken, Unanswered, EndedOut, EndedInc, Going, Holding
  <2>3. DeviceUsed'
    BY <1>11, SendFileStep, <1>1, <1>2, <1>3, <1>4, <1>5 DEF Offered, Unsent, OfferFirst,
       DeviceUsed, Untaken, Unanswered, EndedOut, EndedInc, Going, Holding
  <2>4. Untaken'
    BY <1>11, SendFileStep, <1>1, <1>2, <1>3, <1>4, <1>5 DEF Offered, Unsent, OfferFirst,
       DeviceUsed, Untaken, Unanswered, EndedOut, EndedInc, Going, Holding
  <2>5. Unanswered'
    BY <1>11, SendFileStep, <1>1, <1>2, <1>3, <1>4, <1>5 DEF Offered, Unsent, OfferFirst,
       DeviceUsed, Untaken, Unanswered, EndedOut, EndedInc, Going, Holding
  <2> QED BY <2>1, <2>2, <2>3, <2>4, <2>5 DEF Offered
<1>12. CASE OfferAccepted
  <2>1. Unsent'
    BY <1>12, OfferAcceptedStep, <1>1, <1>2, <1>3, <1>4, <1>5 DEF Offered, Unsent, OfferFirst,
       DeviceUsed, Untaken, Unanswered, EndedOut, EndedInc, Going, Holding
  <2>2. OfferFirst'
    BY <1>12, OfferAcceptedStep, <1>1, <1>2, <1>3, <1>4, <1>5 DEF Offered, Unsent, OfferFirst,
       DeviceUsed, Untaken, Unanswered, EndedOut, EndedInc, Going, Holding
  <2>3. DeviceUsed'
    BY <1>12, OfferAcceptedStep, <1>1, <1>2, <1>3, <1>4, <1>5 DEF Offered, Unsent, OfferFirst,
       DeviceUsed, Untaken, Unanswered, EndedOut, EndedInc, Going, Holding
  <2>4. Untaken'
    BY <1>12, OfferAcceptedStep, <1>1, <1>2, <1>3, <1>4, <1>5 DEF Offered, Unsent, OfferFirst,
       DeviceUsed, Untaken, Unanswered, EndedOut, EndedInc, Going, Holding
  <2>5. Unanswered'
    BY <1>12, OfferAcceptedStep, <1>1, <1>2, <1>3, <1>4, <1>5 DEF Offered, Unsent, OfferFirst,
       DeviceUsed, Untaken, Unanswered, EndedOut, EndedInc, Going, Holding
  <2> QED BY <2>1, <2>2, <2>3, <2>4, <2>5 DEF Offered
<1>13. CASE ProxyAnswers
  <2>1. Unsent'
    BY <1>13, ProxyAnswersStep, <1>1, <1>2, <1>3, <1>4, <1>5 DEF Offered, Unsent, OfferFirst,
       DeviceUsed, Untaken, Unanswered, EndedOut, EndedInc, Going, Holding
  <2>2. OfferFirst'
    BY <1>13, ProxyAnswersStep, <1>1, <1>2, <1>3, <1>4, <1>5 DEF Offered, Unsent, OfferFirst,
       DeviceUsed, Untaken, Unanswered, EndedOut, EndedInc, Going, Holding
  <2>3. DeviceUsed'
    BY <1>13, ProxyAnswersStep, <1>1, <1>2, <1>3, <1>4, <1>5 DEF Offered, Unsent, OfferFirst,
       DeviceUsed, Untaken, Unanswered, EndedOut, EndedInc, Going, Holding
  <2>4. Untaken'
    BY <1>13, ProxyAnswersStep, <1>1, <1>2, <1>3, <1>4, <1>5 DEF Offered, Unsent, OfferFirst,
       DeviceUsed, Untaken, Unanswered, EndedOut, EndedInc, Going, Holding
  <2>5. Unanswered'
    BY <1>13, ProxyAnswersStep, <1>1, <1>2, <1>3, <1>4, <1>5 DEF Offered, Unsent, OfferFirst,
       DeviceUsed, Untaken, Unanswered, EndedOut, EndedInc, Going, Holding
  <2> QED BY <2>1, <2>2, <2>3, <2>4, <2>5 DEF Offered
<1>14. CASE IbbResponse
  <2>1. Unsent'
    BY <1>14, IbbResponseStep, <1>1, <1>2, <1>3, <1>4, <1>5 DEF Offered, Unsent, OfferFirst,
       DeviceUsed, Untaken, Unanswered, EndedOut, EndedInc, Going, Holding
  <2>2. OfferFirst'
    BY <1>14, IbbResponseStep, <1>1, <1>2, <1>3, <1>4, <1>5 DEF Offered, Unsent, OfferFirst,
       DeviceUsed, Untaken, Unanswered, EndedOut, EndedInc, Going, Holding
  <2>3. DeviceUsed'
    BY <1>14, IbbResponseStep, <1>1, <1>2, <1>3, <1>4, <1>5 DEF Offered, Unsent, OfferFirst,
       DeviceUsed, Untaken, Unanswered, EndedOut, EndedInc, Going, Holding
  <2>4. Untaken'
    BY <1>14, IbbResponseStep, <1>1, <1>2, <1>3, <1>4, <1>5 DEF Offered, Unsent, OfferFirst,
       DeviceUsed, Untaken, Unanswered, EndedOut, EndedInc, Going, Holding
  <2>5. Unanswered'
    BY <1>14, IbbResponseStep, <1>1, <1>2, <1>3, <1>4, <1>5 DEF Offered, Unsent, OfferFirst,
       DeviceUsed, Untaken, Unanswered, EndedOut, EndedInc, Going, Holding
  <2> QED BY <2>1, <2>2, <2>3, <2>4, <2>5 DEF Offered
<1>15. CASE PeerRefused
  BY <1>15, PeerRefusedStep, <1>1 DEF Offered, Unsent, OfferFirst, DeviceUsed, Untaken,
     Unanswered, EndedOut, EndedInc, Going, Holding
<1>16. CASE HostUsed
  BY <1>16, HostUsedStep, <1>1, <1>2, <1>3, <1>4, <1>5 DEF Offered, Unsent, OfferFirst,
     DeviceUsed, Untaken, Unanswered, Sends, EndedOut
<1>17. CASE ProxyReady
  BY <1>17, ProxyReadyStep, <1>1, <1>2, <1>3, <1>4, <1>5 DEF Offered, Unsent, OfferFirst,
     DeviceUsed, Untaken, Unanswered, EndedOut, EndedInc, Going, Holding
<1>18. CASE Activated
  BY <1>18, ActivatedStep, <1>1, <1>2, <1>3, <1>4, <1>5 DEF Offered, Unsent, OfferFirst,
     DeviceUsed, Untaken, Unanswered, Sends, EndedOut
<1>19. CASE BytesWritten
  BY <1>19, BytesWrittenStep, <1>1, <1>2, <1>3, <1>4, <1>5 DEF Offered, Unsent, OfferFirst,
     DeviceUsed, Untaken, Unanswered, Sends, EndedOut
<1>20. CASE OutDisconnected
  BY <1>20, OutDisconnectedStep, <1>1, <1>2, <1>3, <1>4, <1>5 DEF Offered, Unsent, OfferFirst,
     DeviceUsed, Untaken, Unanswered, EndedOut, EndedInc, Going, Holding
<1>21. CASE OutTerminated
  <2>1. Unsent'
    BY <1>21, OutTerminatedStep, <1>1, <1>2, <1>3, <1>4, <1>5 DEF Offered, Unsent, OfferFirst,
       DeviceUsed, Untaken, Unanswered, EndedOut, EndedInc, Going, Holding
  <2>2. OfferFirst'
    BY <1>21, OutTerminatedStep, <1>1, <1>2, <1>3, <1>4, <1>5 DEF Offered, Unsent, OfferFirst,
       DeviceUsed, Untaken, Unanswered, EndedOut, EndedInc, Going, Holding
  <2>3. DeviceUsed'
    BY <1>21, OutTerminatedStep, <1>1, <1>2, <1>3, <1>4, <1>5 DEF Offered, Unsent, OfferFirst,
       DeviceUsed, Untaken, Unanswered, EndedOut, EndedInc, Going, Holding
  <2>4. Untaken'
    BY <1>21, OutTerminatedStep, <1>1, <1>2, <1>3, <1>4, <1>5 DEF Offered, Unsent, OfferFirst,
       DeviceUsed, Untaken, Unanswered, EndedOut, EndedInc, Going, Holding
  <2>5. Unanswered'
    BY <1>21, OutTerminatedStep, <1>1, <1>2, <1>3, <1>4, <1>5 DEF Offered, Unsent, OfferFirst,
       DeviceUsed, Untaken, Unanswered, EndedOut, EndedInc, Going, Holding
  <2> QED BY <2>1, <2>2, <2>3, <2>4, <2>5 DEF Offered
<1>22. CASE AbortOut
  BY <1>22, AbortOutStep, <1>1, <1>2, <1>3, <1>4, <1>5 DEF Offered, Unsent, OfferFirst,
     DeviceUsed, Untaken, Unanswered, EndedOut, EndedInc, Going, Holding
<1>23. CASE OfferArrives
  <2>1. Unsent'
    BY <1>23, OfferArrivesStep, <1>1, <1>2, <1>3, <1>4, <1>5 DEF Offered, Unsent, OfferFirst,
       DeviceUsed, Untaken, Unanswered, EndedOut, EndedInc, Going, Holding
  <2>2. OfferFirst'
    BY <1>23, OfferArrivesStep, <1>1, <1>2, <1>3, <1>4, <1>5 DEF Offered, Unsent, OfferFirst,
       DeviceUsed, Untaken, Unanswered, EndedOut, EndedInc, Going, Holding
  <2>3. DeviceUsed'
    BY <1>23, OfferArrivesStep, <1>1, <1>2, <1>3, <1>4, <1>5 DEF Offered, Unsent, OfferFirst,
       DeviceUsed, Untaken, Unanswered, EndedOut, EndedInc, Going, Holding
  <2>4. Untaken'
    BY <1>23, OfferArrivesStep, <1>1, <1>2, <1>3, <1>4, <1>5 DEF Offered, Unsent, OfferFirst,
       DeviceUsed, Untaken, Unanswered, EndedOut, EndedInc, Going, Holding
  <2>5. Unanswered'
    BY <1>23, OfferArrivesStep, <1>1, <1>2, <1>3, <1>4, <1>5 DEF Offered, Unsent, OfferFirst,
       DeviceUsed, Untaken, Unanswered, EndedOut, EndedInc, Going, Holding
  <2> QED BY <2>1, <2>2, <2>3, <2>4, <2>5 DEF Offered
<1>24. CASE UserAccepts
  BY <1>24, UserAcceptsStep, <1>1, <1>2, <1>3, <1>4, <1>5 DEF Offered, Unsent, OfferFirst,
     DeviceUsed, Untaken, Unanswered, EndedOut, EndedInc, Going, Holding
<1>25. CASE IncTerminated
  <2>1. Unsent'
    BY <1>25, IncTerminatedStep, <1>1, <1>2, <1>3, <1>4, <1>5 DEF Offered, Unsent, OfferFirst,
       DeviceUsed, Untaken, Unanswered, EndedOut, EndedInc, Going, Holding
  <2>2. OfferFirst'
    BY <1>25, IncTerminatedStep, <1>1, <1>2, <1>3, <1>4, <1>5 DEF Offered, Unsent, OfferFirst,
       DeviceUsed, Untaken, Unanswered, EndedOut, EndedInc, Going, Holding
  <2>3. DeviceUsed'
    BY <1>25, IncTerminatedStep, <1>1, <1>2, <1>3, <1>4, <1>5 DEF Offered, Unsent, OfferFirst,
       DeviceUsed, Untaken, Unanswered, EndedOut, EndedInc, Going, Holding
  <2>4. Untaken'
    BY <1>25, IncTerminatedStep, <1>1, <1>2, <1>3, <1>4, <1>5 DEF Offered, Unsent, OfferFirst,
       DeviceUsed, Untaken, Unanswered, EndedOut, EndedInc, Going, Holding
  <2>5. Unanswered'
    BY <1>25, IncTerminatedStep, <1>1, <1>2, <1>3, <1>4, <1>5 DEF Offered, Unsent, OfferFirst,
       DeviceUsed, Untaken, Unanswered, EndedOut, EndedInc, Going, Holding
  <2> QED BY <2>1, <2>2, <2>3, <2>4, <2>5 DEF Offered
<1>26. CASE IbbOpen
  BY <1>26, IbbOpenStep, <1>1, <1>2, <1>3, <1>4, <1>5 DEF Offered, Unsent, OfferFirst,
     DeviceUsed, Untaken, Unanswered, EndedOut, EndedInc, Going, Holding
<1>27. CASE IbbData
  BY <1>27, IbbDataStep, <1>1, <1>2, <1>3, <1>4, <1>5 DEF Offered, Unsent, OfferFirst,
     DeviceUsed, Untaken, Unanswered, Writes
<1>28. CASE IbbClose
  BY <1>28, IbbCloseStep, <1>1, <1>2, <1>3, <1>4, <1>5 DEF Offered, Unsent, OfferFirst,
     DeviceUsed, Untaken, Unanswered, Checked, EndedInc, Holding
<1>29. CASE HostsArrive
  BY <1>29, HostsArriveStep, <1>1, <1>2, <1>3, <1>4, <1>5 DEF Offered, Unsent, OfferFirst,
     DeviceUsed, Untaken, Unanswered, NextHostTaken, Candidate, Holding
<1>30. CASE CandidateProceeds
  BY <1>30, CandidateProceedsStep, <1>1, <1>2, <1>3, <1>4, <1>5 DEF Offered, Unsent, OfferFirst,
     DeviceUsed, Untaken, Unanswered, EndedOut, EndedInc, Going, Holding
<1>31. CASE CandidateServed
  BY <1>31, CandidateServedStep, <1>1, <1>2, <1>3, <1>4, <1>5 DEF Offered, Unsent, OfferFirst,
     DeviceUsed, Untaken, Unanswered, EndedOut, EndedInc, Going, Holding
<1>32. CASE CandidateReady
  BY <1>32, CandidateReadyStep, <1>1, <1>2, <1>3, <1>4, <1>5 DEF Offered, Unsent, OfferFirst,
     DeviceUsed, Untaken, Unanswered, EndedOut, EndedInc, Going, Holding
<1>33. CASE CandidateDisconnected \/ CandidateTimeout
  BY <1>33, CandidateLostStep, <1>1, <1>2, <1>3, <1>4, <1>5 DEF Offered, Unsent, OfferFirst,
     DeviceUsed, Untaken, Unanswered, NextHostTaken, Candidate, Holding
<1>34. CASE DoomedDeleted
  BY <1>34, DoomedDeletedStep, <1>1, <1>2, <1>3, <1>4, <1>5 DEF Offered, Unsent, OfferFirst,
     DeviceUsed, Untaken, Unanswered, NextHostTaken, Candidate, Holding
<1>35. CASE ReceiveData
  BY <1>35, ReceiveDataStep, <1>1, <1>2, <1>3, <1>4, <1>5 DEF Offered, Unsent, OfferFirst,
     DeviceUsed, Untaken, Unanswered, Checked, Writes, EndedInc
<1>36. CASE IncDisconnected
  BY <1>36, IncDisconnectedStep, <1>1, <1>2, <1>3, <1>4, <1>5 DEF Offered, Unsent, OfferFirst,
     DeviceUsed, Untaken, Unanswered, Checked, EndedInc, Holding
<1>37. CASE AbortInc
  BY <1>37, AbortIncStep, <1>1, <1>2, <1>3, <1>4, <1>5 DEF Offered, Unsent, OfferFirst,
     DeviceUsed, Untaken, Unanswered, EndedOut, EndedInc, Going, Holding
<1>38. CASE StanzasLost
  BY <1>38, <1>1, <1>2, <1>3, <1>4, <1>5 DEF StanzasLost, Offered, Unsent, OfferFirst,
     DeviceUsed, Untaken, Unanswered, EndedOut, EndedInc, Going, Holding
<1>39. CASE ConnectionBreaks
  BY <1>39, <1>1, <1>2, <1>3, <1>4, <1>5 DEF ConnectionBreaks, Offered, Unsent, OfferFirst,
     DeviceUsed, Untaken, Unanswered, EndedOut, EndedInc, Going, Holding
<1>40. CASE ProxyFails
  BY <1>40, ProxyFailsStep, <1>1 DEF Offered, Unsent, OfferFirst, DeviceUsed, Untaken,
     Unanswered, EndedOut
<1> QED
  BY <1>11, <1>12, <1>13, <1>14, <1>15, <1>16, <1>17, <1>18, <1>19, <1>20, <1>21, <1>22, <1>23,
       <1>24, <1>25, <1>26, <1>27, <1>28, <1>29, <1>30, <1>31, <1>32, <1>33, <1>34, <1>35, <1>36,
          <1>37, <1>38, <1>39, <1>40
    DEF TransferNext, StanzaStep, SocketStep, PostedStep

-----------------------------------------------------------------------------
(* The two methods. *)

\* What the stanzas that a step sends or takes change.
LEMMA Underway ==
    ASSUME Shape
    PROVE  /\ Msgs(<<>>) = {}
           /\ \A m : Posts(m) => Msgs(toPeer') = Msgs(toPeer) \cup {m}
           /\ toPeer # <<>> => Msgs(toPeer) = {Head(toPeer)} \cup Msgs(Tail(toPeer))
           /\ \A m : Answers(m) => Msgs(toUs') = Msgs(toUs) \cup {m}
           /\ toUs # <<>> => Msgs(toUs) = {Head(toUs)} \cup Msgs(Tail(toUs))
  BY MsgsOf DEF Shape, Posts, Answers

LEMMA MsgIs == \A type, of, n : /\ Msg(type, of, n).type = type
                                /\ Msg(type, of, n).of = of /\ Msg(type, of, n).n = n
  BY DEF Msg

LEMMA RequestIs == \A kind, n : <<kind, n>>[1] = kind /\ <<kind, n>>[2] = n
    OBVIOUS

\* Each method has stanzas and a connection of its own.
Kind ==
    /\ out.method \in {"none", par.method}
    /\ par.method # "socks" =>
         /\ inc.step = "none" /\ out.sock = "none" /\ out.buf = <<>> /\ pipe = <<>>
         /\ out.request[1] \notin {"hosts", "query", "activate"}
         /\ \A m \in Msgs(toPeer) : m.of # "hosts"
    /\ par.method # "ibb" => \A m \in Msgs(toPeer) : m.of \notin {"open", "data", "close"}

\* No step uses stanzas or a connection of the other method.
LEMMA KindKept ==
    ASSUME Shape, Kind, TransferNext
    PROVE  Kind'
<1>11. CASE SendFile
  BY <1>11, SendFileStep, Underway, MsgIs, RequestIs DEF Kind, EndedOut, EndedInc, Going,
     Holding, Flushed
<1>12. CASE OfferAccepted
  BY <1>12, OfferAcceptedStep, Underway, MsgIs, RequestIs DEF Kind, EndedOut, EndedInc, Going,
     Holding, Flushed
<1>13. CASE ProxyAnswers
  BY <1>13, ProxyAnswersStep, Underway, MsgIs, RequestIs DEF Kind, EndedOut, EndedInc, Going,
     Holding, Flushed
<1>14. CASE IbbResponse
  BY <1>14, IbbResponseStep, Underway, MsgIs, RequestIs DEF Kind, EndedOut, EndedInc, Going,
     Holding, Flushed
<1>15. CASE PeerRefused
  BY <1>15, PeerRefusedStep, Underway, MsgIs, RequestIs DEF Kind, EndedOut, EndedInc, Going,
     Holding, Flushed
<1>16. CASE HostUsed
  BY <1>16, HostUsedStep, Underway, MsgIs, RequestIs DEF Kind, Sends, EndedOut, Flushed
<1>17. CASE ProxyReady
  BY <1>17, ProxyReadyStep, Underway, MsgIs, RequestIs DEF Kind, EndedOut, EndedInc, Going,
     Holding, Flushed
<1>18. CASE Activated
  BY <1>18, ActivatedStep, Underway, MsgIs, RequestIs DEF Kind, Sends, EndedOut, Flushed
<1>19. CASE BytesWritten
  BY <1>19, BytesWrittenStep, Underway, MsgIs, RequestIs DEF Kind, Sends, EndedOut, Flushed
<1>20. CASE OutDisconnected
  BY <1>20, OutDisconnectedStep, Underway, MsgIs, RequestIs DEF Kind, EndedOut, EndedInc, Going,
     Holding, Flushed
<1>21. CASE OutTerminated
  BY <1>21, OutTerminatedStep, Underway, MsgIs, RequestIs DEF Kind, EndedOut, EndedInc, Going,
     Holding, Flushed
<1>22. CASE AbortOut
  BY <1>22, AbortOutStep, Underway, MsgIs, RequestIs DEF Kind, EndedOut, EndedInc, Going,
     Holding, Flushed
<1>23. CASE OfferArrives
  BY <1>23, OfferArrivesStep, Underway, MsgIs, RequestIs DEF Kind, EndedOut, EndedInc, Going,
     Holding, Flushed
<1>24. CASE UserAccepts
  BY <1>24, UserAcceptsStep, Underway, MsgIs, RequestIs DEF Kind, EndedOut, EndedInc, Going,
     Holding, Flushed
<1>25. CASE IncTerminated
  BY <1>25, IncTerminatedStep, Underway, MsgIs, RequestIs DEF Kind, EndedOut, EndedInc, Going,
     Holding, Flushed
<1>26. CASE IbbOpen
  BY <1>26, IbbOpenStep, Underway, MsgIs, RequestIs DEF Kind, EndedOut, EndedInc, Going,
     Holding, Flushed
<1>27. CASE IbbData
  BY <1>27, IbbDataStep, Underway, MsgIs, RequestIs DEF Kind, Writes
<1>28. CASE IbbClose
  BY <1>28, IbbCloseStep, Underway, MsgIs, RequestIs DEF Kind, Checked, EndedInc, Holding
<1>29. CASE HostsArrive
  BY <1>29, HostsArriveStep, Underway, MsgIs, RequestIs DEF Kind, NextHostTaken, Candidate,
     Holding
<1>30. CASE CandidateProceeds
  BY <1>30, CandidateProceedsStep, Underway, MsgIs, RequestIs DEF Kind, EndedOut, EndedInc,
     Going, Holding, Flushed
<1>31. CASE CandidateServed
  BY <1>31, CandidateServedStep, Underway, MsgIs, RequestIs DEF Kind, EndedOut, EndedInc, Going,
     Holding, Flushed
<1>32. CASE CandidateReady
  BY <1>32, CandidateReadyStep, Underway, MsgIs, RequestIs DEF Kind, EndedOut, EndedInc, Going,
     Holding, Flushed
<1>33. CASE CandidateDisconnected \/ CandidateTimeout
  BY <1>33, CandidateLostStep, Underway, MsgIs, RequestIs DEF Kind, NextHostTaken, Candidate,
     Holding
<1>34. CASE DoomedDeleted
  BY <1>34, DoomedDeletedStep, Underway, MsgIs, RequestIs DEF Kind, NextHostTaken, Candidate,
     Holding
<1>35. CASE ReceiveData
  BY <1>35, ReceiveDataStep DEF Kind, Checked, Writes, EndedInc
<1>36. CASE IncDisconnected
  BY <1>36, IncDisconnectedStep, Underway, MsgIs, RequestIs DEF Kind, Checked, EndedInc, Holding
<1>37. CASE AbortInc
  BY <1>37, AbortIncStep, Underway, MsgIs, RequestIs DEF Kind, EndedOut, EndedInc, Going,
     Holding, Flushed
<1>38. CASE StanzasLost
  BY <1>38, Underway, MsgIs, RequestIs DEF StanzasLost, Kind, EndedOut, EndedInc, Going,
     Holding, Flushed
<1>39. CASE ConnectionBreaks
  BY <1>39, Underway, MsgIs, RequestIs DEF ConnectionBreaks, Kind, EndedOut, EndedInc, Going,
     Holding, Flushed
<1>40. CASE ProxyFails
  BY <1>40, ProxyFailsStep, Underway DEF Kind, EndedOut
<1> QED
  BY <1>11, <1>12, <1>13, <1>14, <1>15, <1>16, <1>17, <1>18, <1>19, <1>20, <1>21, <1>22, <1>23,
       <1>24, <1>25, <1>26, <1>27, <1>28, <1>29, <1>30, <1>31, <1>32, <1>33, <1>34, <1>35, <1>36,
          <1>37, <1>38, <1>39, <1>40
    DEF TransferNext, StanzaStep, SocketStep, PostedStep

\* A sequence number never exceeds the number of blocks before.
LEMMA SequenceBound == \A n \in Nat \ {0} : Sequence(n) \in Nat /\ Sequence(n) <= n - 1
<1> TAKE n \in Nat \ {0}
<1>1. SeqModulus \in Nat \ {0}
  BY TransferAssumption
<1>2. n - 1 \in Nat
    OBVIOUS
<1>3. (n - 1) % SeqModulus \in Nat /\ (n - 1) % SeqModulus <= n - 1
  BY <1>1, <1>2
<1> QED BY <1>3 DEF Sequence

\* In band, a block is sent when the one before was counted.
Counted ==
    /\ inc.seq <= out.read /\ Len(inc.written) <= inc.seq
    /\ inc.device = "open" => Len(inc.written) = inc.seq
Asking ==
    /\ out.request[1] = "data" => out.request[2] = out.read
    /\ out.request[1] \in {"none", "offer", "open"} => out.read = 0
    /\ out.request[1] = "close" => out.state = "finished"
    /\ out.error # "NoError" => out.state = "finished"
AnswersCounted == \A m \in Msgs(toUs) : m.type = "result" /\ m.of = "data" => m.n <= inc.seq
BlocksCounted == \A m \in Msgs(toPeer) :
    m.of = "data" => 1 <= m.n /\ m.n <= out.read /\ m.n <= inc.seq + 1
InBand == par.method = "ibb" => Counted /\ Asking /\ AnswersCounted /\ BlocksCounted

\* In band, no step sends a block before the one before it was counted.
LEMMA InBandKept ==
    ASSUME Shape, Offered, Kind, InBand, TransferNext
    PROVE  InBand'
<1>1. /\ Msgs(<<>>) = {}
      /\ \A m : Posts(m) => Msgs(toPeer') = Msgs(toPeer) \cup {m}
      /\ toPeer # <<>> => Msgs(toPeer) = {Head(toPeer)} \cup Msgs(Tail(toPeer))
      /\ \A m : Answers(m) => Msgs(toUs') = Msgs(toUs) \cup {m}
      /\ toUs # <<>> => Msgs(toUs) = {Head(toUs)} \cup Msgs(Tail(toUs))
      /\ out.read \in Nat /\ inc.seq \in Nat /\ Len(inc.written) \in Nat
      /\ (\A m \in Msgs(toPeer) : m.n \in Nat) /\ (\A m \in Msgs(toUs) : m.n \in Nat)
      /\ toPeer # <<>> => Head(toPeer).n \in Nat
  <2>1. (\A m \in Msgs(toPeer) : m.n \in Nat) /\ (\A m \in Msgs(toUs) : m.n \in Nat)
    <3>1. ASSUME NEW s \in Wire, NEW m \in Msgs(s)  PROVE  m.n \in Nat
      <4>1. PICK i \in 1 .. Len(s) : m = s[i]
        BY DEF Msgs
      <4>2. s[i] \in Stanza
        BY DEF Wire
      <4> QED BY <4>1, <4>2 DEF Stanza
    <3> QED BY <3>1 DEF Shape
  <2> QED BY <2>1, Underway, Tails DEF Shape, OutShape, IncShape
<1>2. /\ \A type, of, n : /\ Msg(type, of, n).type = type
                          /\ Msg(type, of, n).of = of /\ Msg(type, of, n).n = n
      /\ \A kind, n : <<kind, n>>[1] = kind /\ <<kind, n>>[2] = n
  BY MsgIs, RequestIs
<1>3. Len(<<>>) = 0
    OBVIOUS
<1>4. \A b \in Nat : Len(inc.written \o <<b>>) = Len(inc.written) + 1
  BY DEF Shape, IncShape
<1>5. \A n \in Nat \ {0} : Sequence(n) \in Nat /\ Sequence(n) <= n - 1
  BY SequenceBound
<1>11. CASE SendFile
  <2> SUFFICES ASSUME par.method = "ibb"  PROVE  Counted' /\ Asking' /\ AnswersCounted' /\ BlocksCounted'
    BY <1>11, SendFileStep DEF InBand
  <2>1. Counted'
    BY <1>11, SendFileStep, <1>1, <1>2 DEF InBand, Counted, Asking, AnswersCounted,
       BlocksCounted, EndedOut, Going, Offered, Unsent
  <2>2. Asking'
    BY <1>11, SendFileStep, <1>1, <1>2 DEF InBand, Counted, Asking, AnswersCounted,
       BlocksCounted, EndedOut, Going, Offered, Unsent
  <2>3. AnswersCounted'
    BY <1>11, SendFileStep, <1>1, <1>2 DEF InBand, Counted, Asking, AnswersCounted,
       BlocksCounted, EndedOut, Going, Offered, Unsent
  <2>4. BlocksCounted'
    BY <1>11, SendFileStep, <1>1, <1>2 DEF InBand, Counted, Asking, AnswersCounted,
       BlocksCounted, EndedOut, Going, Offered, Unsent
  <2> QED BY <2>1, <2>2, <2>3, <2>4
<1>12. CASE OfferAccepted
  <2> SUFFICES ASSUME par.method = "ibb"  PROVE  Counted' /\ Asking' /\ AnswersCounted' /\ BlocksCounted'
    BY <1>12, OfferAcceptedStep DEF InBand
  <2>1. Counted'
    BY <1>12, OfferAcceptedStep, <1>1, <1>2 DEF InBand, Counted, Asking, AnswersCounted,
       BlocksCounted, Going
  <2>2. Asking'
    BY <1>12, OfferAcceptedStep, <1>1, <1>2 DEF InBand, Counted, Asking, AnswersCounted,
       BlocksCounted, Going
  <2>3. AnswersCounted'
    BY <1>12, OfferAcceptedStep, <1>1, <1>2 DEF InBand, Counted, Asking, AnswersCounted,
       BlocksCounted, Going
  <2>4. BlocksCounted'
    BY <1>12, OfferAcceptedStep, <1>1, <1>2 DEF InBand, Counted, Asking, AnswersCounted,
       BlocksCounted, Going
  <2> QED BY <2>1, <2>2, <2>3, <2>4
<1>13. CASE ProxyAnswers
  BY <1>13, ProxyAnswersStep, Underway, RequestIs DEF InBand, Kind, Candidate
<1>14. CASE IbbResponse
  <2> SUFFICES ASSUME par.method = "ibb"  PROVE  Counted' /\ Asking' /\ AnswersCounted' /\ BlocksCounted'
    BY <1>14, IbbResponseStep DEF InBand
  <2>1. Counted'
    BY <1>14, IbbResponseStep, <1>1 DEF InBand, Counted
  <2>2. Asking'
    BY <1>14, IbbResponseStep, <1>1, <1>2 DEF InBand, Asking, Going
  <2>3. AnswersCounted'
    BY <1>14, IbbResponseStep, <1>1 DEF InBand, AnswersCounted
  <2>4. ASSUME Head(toUs).type = "result", out.request = <<Head(toUs).of, Head(toUs).n>>,
               out.state # "finished", Head(toUs).of \in {"open", "data", "close"}, toUs # <<>>
        PROVE  out.read <= inc.seq
    <3>1. out.request[1] = Head(toUs).of /\ out.request[2] = Head(toUs).n
      BY <2>4, <1>2
    <3> QED BY <2>4, <3>1, <1>1 DEF InBand, Asking, AnswersCounted
  <2>5. BlocksCounted'
    BY <1>14, IbbResponseStep, <2>4, <1>1, <1>2 DEF InBand, BlocksCounted
  <2> QED BY <2>1, <2>2, <2>3, <2>5
<1>15. CASE PeerRefused
  BY <1>15, PeerRefusedStep, <1>1, <1>2 DEF InBand, Counted, Asking, AnswersCounted,
     BlocksCounted, EndedOut
<1>16. CASE HostUsed
  <2>1. par.method = "ibb" => out' = out
    BY <1>16, HostUsedStep, <1>2 DEF Kind
  <2> QED BY <1>16, <2>1, HostUsedStep, <1>1 DEF InBand, Counted, Asking, AnswersCounted,
     BlocksCounted
<1>17. CASE ProxyReady
  BY <1>17, ProxyReadyStep, Underway, RequestIs DEF InBand, Kind, Candidate
<1>18. CASE Activated
  BY <1>18, ActivatedStep, Underway, RequestIs DEF InBand, Kind, Candidate
<1>19. CASE BytesWritten
  BY <1>19, BytesWrittenStep, Underway, RequestIs DEF InBand, Kind, Candidate
<1>20. CASE OutDisconnected
  BY <1>20, OutDisconnectedStep, Underway, RequestIs DEF InBand, Kind, Candidate
<1>21. CASE OutTerminated
  <2> SUFFICES ASSUME par.method = "ibb"  PROVE  Counted' /\ Asking' /\ AnswersCounted' /\ BlocksCounted'
    BY <1>21, OutTerminatedStep DEF InBand
  <2>1. Counted'
    BY <1>21, OutTerminatedStep, <1>1, <1>2 DEF InBand, Counted, Asking, AnswersCounted,
       BlocksCounted, Going
  <2>2. Asking'
    BY <1>21, OutTerminatedStep, <1>1, <1>2 DEF InBand, Counted, Asking, AnswersCounted,
       BlocksCounted, Going
  <2>3. AnswersCounted'
    BY <1>21, OutTerminatedStep, <1>1, <1>2 DEF InBand, Counted, Asking, AnswersCounted,
       BlocksCounted, Going
  <2>4. BlocksCounted'
    BY <1>21, OutTerminatedStep, <1>1, <1>2 DEF InBand, Counted, Asking, AnswersCounted,
       BlocksCounted, Going
  <2> QED BY <2>1, <2>2, <2>3, <2>4
<1>22. CASE AbortOut
  BY <1>22, AbortOutStep, <1>1, <1>2 DEF InBand, Counted, Asking, AnswersCounted, BlocksCounted,
     EndedOut
<1>23. CASE OfferArrives
  <2> SUFFICES ASSUME par.method = "ibb"  PROVE  Counted' /\ Asking' /\ AnswersCounted' /\ BlocksCounted'
    BY <1>23, OfferArrivesStep DEF InBand
  <2>1. Counted'
    BY <1>23, OfferArrivesStep, <1>1, <1>2 DEF InBand, Counted, Asking, AnswersCounted,
       BlocksCounted, Holding
  <2>2. Asking'
    BY <1>23, OfferArrivesStep, <1>1, <1>2 DEF InBand, Counted, Asking, AnswersCounted,
       BlocksCounted, Holding
  <2>3. AnswersCounted'
    BY <1>23, OfferArrivesStep, <1>1, <1>2 DEF InBand, Counted, Asking, AnswersCounted,
       BlocksCounted, Holding
  <2>4. BlocksCounted'
    BY <1>23, OfferArrivesStep, <1>1, <1>2 DEF InBand, Counted, Asking, AnswersCounted,
       BlocksCounted, Holding
  <2> QED BY <2>1, <2>2, <2>3, <2>4
<1>24. CASE UserAccepts
  <2> SUFFICES ASSUME par.method = "ibb"  PROVE  Counted' /\ Asking' /\ AnswersCounted' /\ BlocksCounted'
    BY <1>24, UserAcceptsStep DEF InBand
  <2>1. Counted'
    BY <1>24, UserAcceptsStep, <1>1, <1>2, <1>3 DEF InBand, Counted, Asking, AnswersCounted,
       BlocksCounted, Holding, Offered, Untaken, DeviceUsed
  <2>2. Asking'
    BY <1>24, UserAcceptsStep, <1>1, <1>2, <1>3 DEF InBand, Counted, Asking, AnswersCounted,
       BlocksCounted, Holding, Offered, Untaken, DeviceUsed
  <2>3. AnswersCounted'
    BY <1>24, UserAcceptsStep, <1>1, <1>2, <1>3 DEF InBand, Counted, Asking, AnswersCounted,
       BlocksCounted, Holding, Offered, Untaken, DeviceUsed
  <2>4. BlocksCounted'
    BY <1>24, UserAcceptsStep, <1>1, <1>2, <1>3 DEF InBand, Counted, Asking, AnswersCounted,
       BlocksCounted, Holding, Offered, Untaken, DeviceUsed
  <2> QED BY <2>1, <2>2, <2>3, <2>4
<1>25. CASE IncTerminated
  <2> SUFFICES ASSUME par.method = "ibb"  PROVE  Counted' /\ Asking' /\ AnswersCounted' /\ BlocksCounted'
    BY <1>25, IncTerminatedStep DEF InBand
  <2>1. Counted'
    BY <1>25, IncTerminatedStep, <1>1, <1>2 DEF InBand, Counted, Asking, AnswersCounted,
       BlocksCounted, Holding
  <2>2. Asking'
    BY <1>25, IncTerminatedStep, <1>1, <1>2 DEF InBand, Counted, Asking, AnswersCounted,
       BlocksCounted, Holding
  <2>3. AnswersCounted'
    BY <1>25, IncTerminatedStep, <1>1, <1>2 DEF InBand, Counted, Asking, AnswersCounted,
       BlocksCounted, Holding
  <2>4. BlocksCounted'
    BY <1>25, IncTerminatedStep, <1>1, <1>2 DEF InBand, Counted, Asking, AnswersCounted,
       BlocksCounted, Holding
  <2> QED BY <2>1, <2>2, <2>3, <2>4
<1>26. CASE IbbOpen
  <2> SUFFICES ASSUME par.method = "ibb"  PROVE  Counted' /\ Asking' /\ AnswersCounted' /\ BlocksCounted'
    BY <1>26, IbbOpenStep DEF InBand
  <2>1. Counted'
    BY <1>26, IbbOpenStep, <1>1, <1>2 DEF InBand, Counted, Asking, AnswersCounted,
       BlocksCounted, Holding
  <2>2. Asking'
    BY <1>26, IbbOpenStep, <1>1, <1>2 DEF InBand, Counted, Asking, AnswersCounted,
       BlocksCounted, Holding
  <2>3. AnswersCounted'
    BY <1>26, IbbOpenStep, <1>1, <1>2 DEF InBand, Counted, Asking, AnswersCounted,
       BlocksCounted, Holding
  <2>4. BlocksCounted'
    BY <1>26, IbbOpenStep, <1>1, <1>2 DEF InBand, Counted, Asking, AnswersCounted,
       BlocksCounted, Holding
  <2> QED BY <2>1, <2>2, <2>3, <2>4
<1>27. CASE IbbData
  <2> SUFFICES ASSUME par.method = "ibb"  PROVE  Counted' /\ Asking' /\ AnswersCounted' /\ BlocksCounted'
    BY <1>27, IbbDataStep DEF InBand
  <2> DEFINE n == Head(toPeer).n
  <2>1. 1 <= n /\ n <= out.read /\ n <= inc.seq + 1 /\ n \in Nat
    BY <1>27, IbbDataStep, <1>1 DEF InBand, BlocksCounted
  <2>2. CASE inc' = inc
    <3>1. /\ Answers(Msg("error", "data", n)) /\ toPeer # <<>> /\ toPeer' = Tail(toPeer)
          /\ out' = out
      BY <1>27, <2>2, IbbDataStep, <1>1
    <3> HIDE DEF n
    <3> QED BY <2>2, <3>1, <1>1, <1>2 DEF InBand, Counted, Asking, AnswersCounted, BlocksCounted
  <2>3. CASE inc' # inc
    <3>1. /\ Sequence(n) = inc.seq /\ Writes(inc, inc', <<n>>) /\ inc'.seq = inc.seq + 1
          /\ Answers(Msg("result", "data", n)) /\ toPeer # <<>> /\ toPeer' = Tail(toPeer) /\ out' = out
      BY <1>27, <2>3, IbbDataStep
    <3>2. n = inc.seq + 1
      <4>1. Sequence(n) \in Nat /\ Sequence(n) <= n - 1
        BY <2>1, <1>5
      <4> HIDE DEF n
      <4> QED BY <2>1, <3>1, <4>1, <1>1
    <3>3. Counted'
      <4>1. Len(inc.written \o <<n>>) = Len(inc.written) + 1
        BY <2>1, <1>4
      <4> HIDE DEF n
      <4> QED BY <2>1, <3>1, <3>2, <4>1, <1>1 DEF InBand, Counted, Writes
    <3>4. Asking'
      BY <3>1 DEF InBand, Asking
    <3>5. AnswersCounted'
      <4> HIDE DEF n
      <4> QED BY <3>1, <3>2, <1>1, <1>2 DEF InBand, AnswersCounted
    <3>6. BlocksCounted'
      <4> HIDE DEF n
      <4> QED BY <3>1, <1>1, <1>2 DEF InBand, BlocksCounted
    <3> QED BY <3>3, <3>4, <3>5, <3>6
  <2> QED BY <2>2, <2>3
<1>28. CASE IbbClose
  <2> SUFFICES ASSUME par.method = "ibb"  PROVE  Counted' /\ Asking' /\ AnswersCounted' /\ BlocksCounted'
    BY <1>28, IbbCloseStep DEF InBand
  <2>1. Counted'
    BY <1>28, IbbCloseStep, <1>1, <1>2 DEF InBand, Counted, Asking, AnswersCounted,
       BlocksCounted, Checked, EndedInc
  <2>2. Asking'
    BY <1>28, IbbCloseStep, <1>1, <1>2 DEF InBand, Counted, Asking, AnswersCounted,
       BlocksCounted, Checked, EndedInc
  <2>3. AnswersCounted'
    BY <1>28, IbbCloseStep, <1>1, <1>2 DEF InBand, Counted, Asking, AnswersCounted,
       BlocksCounted, Checked, EndedInc
  <2>4. BlocksCounted'
    BY <1>28, IbbCloseStep, <1>1, <1>2 DEF InBand, Counted, Asking, AnswersCounted,
       BlocksCounted, Checked, EndedInc
  <2> QED BY <2>1, <2>2, <2>3, <2>4
<1>29. CASE HostsArrive
  BY <1>29, HostsArriveStep, Underway, RequestIs DEF InBand, Kind, Candidate
<1>30. CASE CandidateProceeds
  BY <1>30, CandidateProceedsStep, Underway, RequestIs DEF InBand, Kind, Candidate
<1>31. CASE CandidateServed
  BY <1>31, CandidateServedStep, Underway, RequestIs DEF InBand, Kind, Candidate
<1>32. CASE CandidateReady
  BY <1>32, CandidateReadyStep, Underway, RequestIs DEF InBand, Kind, Candidate
<1>33. CASE CandidateDisconnected \/ CandidateTimeout
  BY <1>33, CandidateLostStep, Underway, RequestIs DEF InBand, Kind, Candidate
<1>34. CASE DoomedDeleted
  BY <1>34, DoomedDeletedStep, <1>1, <1>2 DEF InBand, Counted, Asking, AnswersCounted,
     BlocksCounted, NextHostTaken, Holding
<1>35. CASE ReceiveData
  BY <1>35, ReceiveDataStep, Underway, RequestIs DEF InBand, Kind, Candidate
<1>36. CASE IncDisconnected
  BY <1>36, IncDisconnectedStep, Underway, RequestIs DEF InBand, Kind, Candidate
<1>37. CASE AbortInc
  BY <1>37, AbortIncStep, <1>1, <1>2 DEF InBand, Counted, Asking, AnswersCounted, BlocksCounted,
     EndedInc
<1>38. CASE StanzasLost
  BY <1>38, <1>1 DEF InBand, Counted, Asking, AnswersCounted, BlocksCounted, StanzasLost
<1>39. CASE ConnectionBreaks
  BY <1>39, <1>1 DEF InBand, Counted, Asking, AnswersCounted, BlocksCounted, ConnectionBreaks
<1>40. CASE ProxyFails
  BY <1>40, ProxyFailsStep DEF InBand, Kind
<1> QED
  BY <1>11, <1>12, <1>13, <1>14, <1>15, <1>16, <1>17, <1>18, <1>19, <1>20, <1>21, <1>22, <1>23,
       <1>24, <1>25, <1>26, <1>27, <1>28, <1>29, <1>30, <1>31, <1>32, <1>33, <1>34, <1>35, <1>36,
          <1>37, <1>38, <1>39, <1>40
    DEF TransferNext, StanzaStep, SocketStep, PostedStep

\* Over a connection, nothing is sent before the receiving side has reported the host once.
Reported(m) == m.type = "result" /\ m.of = "hosts"
Used == \E m \in Msgs(toUs) : Reported(m)
Ran == inc.step \in {"open", "closed"}
Fresh == out.read = 0 /\ pipe = <<>> /\ out.buf = <<>>
FreshBefore == ~Ran \/ Used \/ out.sock = "dialing" \/ out.request[1] = "activate" => Fresh
NotYet == ~Ran => ~Used /\ out.sock # "dialing" /\ out.request[1] # "activate"
RanState == Ran => inc.state \notin {"none", "offer", "start"}
UsedAlone == Used => out.sock # "dialing" /\ out.request[1] # "activate"
Once == \A i, j \in 1 .. Len(toUs) : Reported(toUs[i]) /\ Reported(toUs[j]) => i = j
Dialing == out.sock = "dialing" => out.request[1] = "hosts"
Buffered == out.sock # "up" => out.buf = <<>>
OverSocks == par.method # "ibb" =>
    FreshBefore /\ NotYet /\ RanState /\ UsedAlone /\ Once /\ Dialing /\ Buffered

LEMMA OnceKept ==
    ASSUME Shape, Once
    PROVE  /\ toUs' = toUs \/ toUs' = <<>> => Once'
           /\ toUs # <<>> /\ toUs' = Tail(toUs) => Once'
           /\ \A m : Answers(m) /\ (Reported(m) => ~Used) => Once'
           /\ toUs # <<>> /\ Reported(Head(toUs)) /\ toUs' = Tail(toUs) => ~Used'
<1>1. toUs \in Wire /\ Len(toUs) \in Nat
  BY DEF Shape, Wire
<1>2. toUs' = toUs \/ toUs' = <<>> => Once'
  BY DEF Once
<1>3. ASSUME toUs # <<>>, toUs' = Tail(toUs)
      PROVE  Once' /\ (Reported(Head(toUs)) => ~Used')
  <2>1. /\ Len(toUs') = Len(toUs) - 1 /\ Len(toUs) > 0 /\ Head(toUs) = toUs[1]
        /\ \A i \in 1 .. Len(toUs) - 1 : toUs'[i] = toUs[i + 1]
    BY <1>1, <1>3, Taken
  <2>2. ASSUME NEW i \in 1 .. Len(toUs'), NEW j \in 1 .. Len(toUs'),
               Reported(toUs'[i]), Reported(toUs'[j])
        PROVE  i = j
    <3>1. /\ i + 1 \in 1 .. Len(toUs) /\ j + 1 \in 1 .. Len(toUs)
          /\ toUs'[i] = toUs[i + 1] /\ toUs'[j] = toUs[j + 1]
      BY <1>1, <2>1
    <3>2. i + 1 = j + 1
      BY <2>2, <3>1 DEF Once
    <3> QED BY <3>2
  <2>3. Once'
    BY <2>2 DEF Once
  <2>4. ASSUME Reported(Head(toUs)), Used'  PROVE  FALSE
    <3>1. PICK m \in Msgs(toUs') : Reported(m)
      BY <2>4 DEF Used
    <3>2. PICK i \in 1 .. Len(toUs') : m = toUs'[i]
      BY DEF Msgs
    <3>3. i + 1 \in 1 .. Len(toUs) /\ 1 \in 1 .. Len(toUs) /\ toUs'[i] = toUs[i + 1]
      BY <1>1, <2>1
    <3>4. i + 1 = 1
      BY <2>1, <2>4, <3>1, <3>2, <3>3 DEF Once
    <3> QED BY <3>4
  <2> QED BY <2>3, <2>4
<1>4. ASSUME NEW m, Answers(m), Reported(m) => ~Used  PROVE  Once'
  <2>1. /\ Len(toUs') = Len(toUs) + 1 /\ toUs'[Len(toUs) + 1] = m
        /\ \A i \in 1 .. Len(toUs) : toUs'[i] = toUs[i]
    BY <1>1, <1>4, Added DEF Answers
  <2>2. ASSUME NEW i \in 1 .. Len(toUs), Reported(toUs[i])  PROVE  Used
    BY <2>2 DEF Used, Msgs
  <2>3. ASSUME NEW i \in 1 .. Len(toUs'), NEW j \in 1 .. Len(toUs'),
               Reported(toUs'[i]), Reported(toUs'[j])
        PROVE  i = j
    <3>1. (i \in 1 .. Len(toUs) \/ i = Len(toUs) + 1) /\ (j \in 1 .. Len(toUs) \/ j = Len(toUs) + 1)
      BY <1>1, <2>1
    <3>2. CASE i \in 1 .. Len(toUs) /\ j \in 1 .. Len(toUs)
      <4>1. toUs'[i] = toUs[i] /\ toUs'[j] = toUs[j]
        BY <2>1, <3>2
      <4> QED BY <2>3, <3>2, <4>1 DEF Once
    <3>3. CASE i = Len(toUs) + 1 /\ j = Len(toUs) + 1
      BY <3>3
    <3>4. CASE i \in 1 .. Len(toUs) /\ j = Len(toUs) + 1
      <4>1. toUs'[i] = toUs[i] /\ toUs'[j] = m
        BY <2>1, <3>4
      <4> QED BY <1>4, <2>2, <2>3, <3>4, <4>1
    <3>5. CASE i = Len(toUs) + 1 /\ j \in 1 .. Len(toUs)
      <4>1. toUs'[j] = toUs[j] /\ toUs'[i] = m
        BY <2>1, <3>5
      <4> QED BY <1>4, <2>2, <2>3, <3>5, <4>1
    <3> QED BY <3>1, <3>2, <3>3, <3>4, <3>5
  <2> QED BY <2>3 DEF Once
<1> QED BY <1>2, <1>3, <1>4

\* No step changes what is offered.
LEMMA ParStays ==
    ASSUME TransferNext
    PROVE  par' = par
  BY DEF TransferNext, StanzaStep, SocketStep, PostedStep, SendFile, UserAccepts, AbortInc,
     CandidateDisconnected, AbortOut, StanzasLost, ConnectionBreaks, ProxyFails, OfferAccepted, IbbResponse,
     PeerRefused, HostUsed, OfferArrives, IbbOpen, IbbData, IbbClose, HostsArrive, ProxyAnswers,
     ProxyReady, Activated, BytesWritten, OutDisconnected, CandidateProceeds, CandidateServed,
     CandidateReady, CandidateTimeout, DoomedDeleted, ReceiveData, IncDisconnected,
     OutTerminated, IncTerminated

\* Over a connection, no step sends before the host in use was reported, and it is once.
LEMMA OverSocksKept ==
    ASSUME Shape, Offered, Kind, OverSocks, TransferNext
    PROVE  OverSocks'
<1>1. /\ toPeer # <<>> => Head(toPeer) \in Msgs(toPeer)
      /\ toUs' = <<>> => ~Used'
      /\ toUs' = toUs => (Used' <=> Used)
      /\ toUs # <<>> /\ toUs' = Tail(toUs) => (Used' => Used)
      /\ toUs # <<>> /\ Reported(Head(toUs)) => Used
      /\ \A m : Answers(m) => (Used' <=> Used \/ Reported(m))
  <2>1. Msgs(<<>>) = {} /\ (toUs' = toUs => Msgs(toUs') = Msgs(toUs))
    BY Underway
  <2>2. toPeer # <<>> => Head(toPeer) \in Msgs(toPeer)
    BY Underway
  <2>3. toUs # <<>> => Msgs(toUs) = {Head(toUs)} \cup Msgs(Tail(toUs))
    BY Underway
  <2>4. toUs' = <<>> => ~Used'
    BY <2>1 DEF Used
  <2>5. toUs' = toUs => (Used' <=> Used)
    BY DEF Used
  <2>6. toUs # <<>> /\ toUs' = Tail(toUs) => (Used' => Used)
    BY <2>3 DEF Used
  <2>7. toUs # <<>> /\ Reported(Head(toUs)) => Used
    BY <2>3 DEF Used
  <2>8. ASSUME NEW m, Answers(m)  PROVE  Used' <=> Used \/ Reported(m)
    <3>1. Msgs(toUs') = Msgs(toUs) \cup {m}
      BY <2>8, Underway
    <3> QED BY <3>1 DEF Used
  <2> QED BY <2>2, <2>4, <2>5, <2>6, <2>7, <2>8
<1>2. /\ \A type, of, n : Reported(Msg(type, of, n)) <=> type = "result" /\ of = "hosts"
      /\ \A kind, n : <<kind, n>>[1] = kind
  BY MsgIs, RequestIs DEF Reported
<1>3. par' = par
  BY ParStays
<1>11. CASE SendFile
  <2> SUFFICES ASSUME par.method # "ibb"
               PROVE  FreshBefore' /\ NotYet' /\ RanState' /\ UsedAlone' /\ Once' /\ Dialing' /\ Buffered'
    BY <1>11, <1>3 DEF OverSocks
  <2>1. Once'
    BY <1>11, SendFileStep, <1>1, <1>2, OnceKept DEF OverSocks, NotYet, Ran, Reported, EndedOut,
       Going
  <2>2. FreshBefore' /\ NotYet' /\ RanState' /\ UsedAlone' /\ Dialing' /\ Buffered'
    BY <1>11, SendFileStep, <1>1, <1>2, OnceKept DEF OverSocks, FreshBefore, NotYet, RanState,
       UsedAlone, Dialing, Buffered, Fresh, Ran, Kind, Offered, Unsent, OfferFirst, EndedOut,
       Going
  <2> QED BY <2>1, <2>2
<1>12. CASE OfferAccepted
  <2> SUFFICES ASSUME par.method # "ibb"
               PROVE  FreshBefore' /\ NotYet' /\ RanState' /\ UsedAlone' /\ Once' /\ Dialing' /\ Buffered'
    BY <1>12, <1>3 DEF OverSocks
  <2>1. Once'
    BY <1>12, OfferAcceptedStep, <1>1, <1>2, OnceKept DEF OverSocks, NotYet, Ran, Reported,
       Going, Flushed
  <2>2. FreshBefore' /\ NotYet' /\ RanState' /\ UsedAlone' /\ Dialing' /\ Buffered'
    BY <1>12, OfferAcceptedStep, <1>1, <1>2, OnceKept DEF OverSocks, FreshBefore, NotYet,
       RanState, UsedAlone, Dialing, Buffered, Fresh, Ran, Kind, Offered, Unsent, OfferFirst,
       Going, Flushed
  <2> QED BY <2>1, <2>2
<1>13. CASE ProxyAnswers
  <2> SUFFICES ASSUME par.method # "ibb"
               PROVE  FreshBefore' /\ NotYet' /\ RanState' /\ UsedAlone' /\ Once' /\ Dialing' /\ Buffered'
    BY <1>13, <1>3 DEF OverSocks
  <2>1. Once'
    BY <1>13, ProxyAnswersStep, <1>1, <1>2, OnceKept DEF OverSocks, NotYet, Ran, Reported,
       Going, EndedOut, Flushed
  <2>2. FreshBefore' /\ NotYet' /\ RanState' /\ UsedAlone' /\ Dialing' /\ Buffered'
    BY <1>13, ProxyAnswersStep, <1>1, <1>2, OnceKept DEF OverSocks, FreshBefore, NotYet,
       RanState, UsedAlone, Dialing, Buffered, Fresh, Ran, Kind, Offered, Unsent, OfferFirst,
       Going, EndedOut, Flushed
  <2> QED BY <2>1, <2>2
<1>14. CASE IbbResponse
  <2> SUFFICES ASSUME par.method # "ibb"
               PROVE  FreshBefore' /\ NotYet' /\ RanState' /\ UsedAlone' /\ Once' /\ Dialing' /\ Buffered'
    BY <1>14, <1>3 DEF OverSocks
  <2>1. Once'
    BY <1>14, IbbResponseStep, <1>1, <1>2, OnceKept DEF OverSocks, NotYet, Ran, Reported, Going
  <2>2. FreshBefore' /\ NotYet' /\ RanState' /\ UsedAlone' /\ Dialing' /\ Buffered'
    BY <1>14, IbbResponseStep, <1>1, <1>2, OnceKept DEF OverSocks, FreshBefore, NotYet,
       RanState, UsedAlone, Dialing, Buffered, Fresh, Ran, Kind, Offered, Unsent, OfferFirst,
       Going
  <2> QED BY <2>1, <2>2
<1>15. CASE PeerRefused
  <2> SUFFICES ASSUME par.method # "ibb"
               PROVE  FreshBefore' /\ NotYet' /\ RanState' /\ UsedAlone' /\ Once' /\ Dialing' /\ Buffered'
    BY <1>15, <1>3 DEF OverSocks
  <2>1. Once'
    BY <1>15, PeerRefusedStep, <1>1, <1>2, OnceKept DEF OverSocks, NotYet, Ran, Reported,
       EndedOut, Flushed
  <2>2. FreshBefore' /\ NotYet' /\ RanState' /\ UsedAlone' /\ Dialing' /\ Buffered'
    BY <1>15, PeerRefusedStep, <1>1, <1>2, OnceKept DEF OverSocks, FreshBefore, NotYet,
       RanState, UsedAlone, Dialing, Buffered, Fresh, Ran, Kind, Offered, Unsent, OfferFirst,
       EndedOut, Flushed
  <2> QED BY <2>1, <2>2
<1>16. CASE HostUsed
  <2> SUFFICES ASSUME par.method # "ibb"
               PROVE  FreshBefore' /\ NotYet' /\ RanState' /\ UsedAlone' /\ Once' /\ Dialing' /\ Buffered'
    BY <1>16, <1>3 DEF OverSocks
  <2>1. Used /\ ~Used' /\ Once' /\ Ran /\ Fresh /\ inc' = inc
    BY <1>16, HostUsedStep, <1>1, OnceKept DEF OverSocks, NotYet, FreshBefore, Reported
  <2>2. out.sock # "dialing" /\ out.request[1] # "activate" /\ (out.sock # "up" => out.buf = <<>>)
    BY <2>1 DEF OverSocks, UsedAlone, Buffered
  <2>3. RanState' /\ Ran'
    BY <2>1 DEF OverSocks, RanState, Ran
  <2>4. CASE out' = out
    BY <1>16, HostUsedStep, <2>1, <2>2, <2>3, <2>4
    DEF FreshBefore, NotYet, UsedAlone, Dialing, Buffered, Fresh, Flushed
  <2>5. CASE out'.sock = "dialing" /\ out.request = <<"hosts", 0>> /\ out'.request = out.request /\ out'.read = out.read /\ out'.buf = out.buf
    BY <1>16, HostUsedStep, <1>2, <2>1, <2>2, <2>3, <2>5
    DEF FreshBefore, NotYet, UsedAlone, Dialing, Buffered, Fresh, Flushed
  <2>6. CASE EndedOut(out, out', "ProtocolError") /\ out.request = <<"hosts", 0>> /\ out.state = "start"
    BY <1>16, HostUsedStep, <1>2, <2>1, <2>2, <2>3, <2>6
    DEF FreshBefore, NotYet, UsedAlone, Dialing, Buffered, Fresh, EndedOut, Flushed
  <2>7. ASSUME NEW job, job.request = out.request, job.sock = out.sock, job.buf = out.buf,
               Sends(job, out', "transfer"), out.request = <<"hosts", 0>>
        PROVE  FreshBefore' /\ NotYet' /\ UsedAlone' /\ Dialing' /\ Buffered'
    <3>1. out'.request = <<"hosts", 0>> /\ out'.sock \in {out.sock, "none", "down"}
          /\ (out'.sock # "up" => out'.buf = <<>>)
      BY <2>1, <2>2, <2>7 DEF Sends, Fresh
    <3> QED BY <2>1, <2>2, <2>3, <3>1, <1>2 DEF FreshBefore, NotYet, UsedAlone, Dialing, Buffered
  <2> QED BY <1>16, HostUsedStep, <2>1, <2>3, <2>4, <2>5, <2>6, <2>7
<1>17. CASE ProxyReady
  <2> SUFFICES ASSUME par.method # "ibb"
               PROVE  FreshBefore' /\ NotYet' /\ RanState' /\ UsedAlone' /\ Once' /\ Dialing' /\ Buffered'
    BY <1>17, <1>3 DEF OverSocks
  <2>1. Once'
    BY <1>17, ProxyReadyStep, <1>1, <1>2, OnceKept DEF OverSocks, NotYet, Ran, Reported
  <2>2. FreshBefore' /\ NotYet' /\ RanState' /\ UsedAlone' /\ Dialing' /\ Buffered'
    BY <1>17, ProxyReadyStep, <1>1, <1>2, OnceKept DEF OverSocks, FreshBefore, NotYet, RanState,
       UsedAlone, Dialing, Buffered, Fresh, Ran, Kind, Offered, Unsent, OfferFirst
  <2> QED BY <2>1, <2>2
<1>18. CASE Activated
  <2> SUFFICES ASSUME par.method # "ibb"
               PROVE  FreshBefore' /\ NotYet' /\ RanState' /\ UsedAlone' /\ Once' /\ Dialing' /\ Buffered'
    BY <1>18, <1>3 DEF OverSocks
  <2>1. Once'
    BY <1>18, ActivatedStep, <1>1, <1>2, OnceKept DEF OverSocks, NotYet, Ran, Reported, Sends,
       EndedOut, Flushed
  <2>2. FreshBefore' /\ NotYet' /\ RanState' /\ UsedAlone' /\ Dialing' /\ Buffered'
    BY <1>18, ActivatedStep, <1>1, <1>2, OnceKept DEF OverSocks, FreshBefore, NotYet, RanState,
       UsedAlone, Dialing, Buffered, Fresh, Ran, Kind, Offered, Unsent, OfferFirst, Sends,
       EndedOut, Flushed
  <2> QED BY <2>1, <2>2
<1>19. CASE BytesWritten
  <2> SUFFICES ASSUME par.method # "ibb"
               PROVE  FreshBefore' /\ NotYet' /\ RanState' /\ UsedAlone' /\ Once' /\ Dialing' /\ Buffered'
    BY <1>19, <1>3 DEF OverSocks
  <2>1. Once'
    BY <1>19, BytesWrittenStep, <1>1, <1>2, OnceKept DEF OverSocks, NotYet, Ran, Reported, Sends
  <2>2. FreshBefore' /\ NotYet' /\ RanState' /\ UsedAlone' /\ Dialing' /\ Buffered'
    BY <1>19, BytesWrittenStep, <1>1, <1>2, OnceKept DEF OverSocks, FreshBefore, NotYet,
       RanState, UsedAlone, Dialing, Buffered, Fresh, Ran, Kind, Offered, Unsent, OfferFirst,
       Sends
  <2> QED BY <2>1, <2>2
<1>20. CASE OutDisconnected
  <2> SUFFICES ASSUME par.method # "ibb"
               PROVE  FreshBefore' /\ NotYet' /\ RanState' /\ UsedAlone' /\ Once' /\ Dialing' /\ Buffered'
    BY <1>20, <1>3 DEF OverSocks
  <2>1. Once'
    BY <1>20, OutDisconnectedStep, <1>1, <1>2, OnceKept DEF OverSocks, NotYet, Ran, Reported
  <2>2. FreshBefore' /\ NotYet' /\ RanState' /\ UsedAlone' /\ Dialing' /\ Buffered'
    BY <1>20, OutDisconnectedStep, <1>1, <1>2, OnceKept DEF OverSocks, FreshBefore, NotYet,
       RanState, UsedAlone, Dialing, Buffered, Fresh, Ran, Kind, Offered, Unsent, OfferFirst
  <2> QED BY <2>1, <2>2
<1>21. CASE OutTerminated
  <2> SUFFICES ASSUME par.method # "ibb"
               PROVE  FreshBefore' /\ NotYet' /\ RanState' /\ UsedAlone' /\ Once' /\ Dialing' /\ Buffered'
    BY <1>21, <1>3 DEF OverSocks
  <2>1. Once'
    BY <1>21, OutTerminatedStep, <1>1, <1>2, OnceKept DEF OverSocks, NotYet, Ran, Reported, Going
  <2>2. FreshBefore' /\ NotYet' /\ RanState' /\ UsedAlone' /\ Dialing' /\ Buffered'
    BY <1>21, OutTerminatedStep, <1>1, <1>2, OnceKept DEF OverSocks, FreshBefore, NotYet,
       RanState, UsedAlone, Dialing, Buffered, Fresh, Ran, Kind, Offered, Unsent, OfferFirst,
       Going
  <2> QED BY <2>1, <2>2
<1>22. CASE AbortOut
  <2> SUFFICES ASSUME par.method # "ibb"
               PROVE  FreshBefore' /\ NotYet' /\ RanState' /\ UsedAlone' /\ Once' /\ Dialing' /\ Buffered'
    BY <1>22, <1>3 DEF OverSocks
  <2>1. Once'
    BY <1>22, AbortOutStep, <1>1, <1>2, OnceKept DEF OverSocks, NotYet, Ran, Reported, EndedOut,
       Flushed
  <2>2. FreshBefore' /\ NotYet' /\ RanState' /\ UsedAlone' /\ Dialing' /\ Buffered'
    BY <1>22, AbortOutStep, <1>1, <1>2, OnceKept DEF OverSocks, FreshBefore, NotYet, RanState,
       UsedAlone, Dialing, Buffered, Fresh, Ran, Kind, Offered, Unsent, OfferFirst, EndedOut,
       Flushed
  <2> QED BY <2>1, <2>2
<1>23. CASE OfferArrives
  <2> SUFFICES ASSUME par.method # "ibb"
               PROVE  FreshBefore' /\ NotYet' /\ RanState' /\ UsedAlone' /\ Once' /\ Dialing' /\ Buffered'
    BY <1>23, <1>3 DEF OverSocks
  <2>1. Once'
    BY <1>23, OfferArrivesStep, <1>1, <1>2, OnceKept DEF OverSocks, NotYet, Ran, Reported, Holding
  <2>2. FreshBefore' /\ NotYet' /\ RanState' /\ UsedAlone' /\ Dialing' /\ Buffered'
    BY <1>23, OfferArrivesStep, <1>1, <1>2, OnceKept DEF OverSocks, FreshBefore, NotYet,
       RanState, UsedAlone, Dialing, Buffered, Fresh, Ran, Kind, Offered, Unsent, OfferFirst,
       Holding
  <2> QED BY <2>1, <2>2
<1>24. CASE UserAccepts
  <2> SUFFICES ASSUME par.method # "ibb"
               PROVE  FreshBefore' /\ NotYet' /\ RanState' /\ UsedAlone' /\ Once' /\ Dialing' /\ Buffered'
    BY <1>24, <1>3 DEF OverSocks
  <2>1. Once'
    BY <1>24, UserAcceptsStep, <1>1, <1>2, OnceKept DEF OverSocks, NotYet, Ran, Reported, Holding
  <2>2. FreshBefore' /\ NotYet' /\ RanState' /\ UsedAlone' /\ Dialing' /\ Buffered'
    BY <1>24, UserAcceptsStep, <1>1, <1>2, OnceKept DEF OverSocks, FreshBefore, NotYet,
       RanState, UsedAlone, Dialing, Buffered, Fresh, Ran, Kind, Offered, Unsent, OfferFirst,
       Holding
  <2> QED BY <2>1, <2>2
<1>25. CASE IncTerminated
  <2> SUFFICES ASSUME par.method # "ibb"
               PROVE  FreshBefore' /\ NotYet' /\ RanState' /\ UsedAlone' /\ Once' /\ Dialing' /\ Buffered'
    BY <1>25, <1>3 DEF OverSocks
  <2>1. Once'
    BY <1>25, IncTerminatedStep, <1>1, <1>2, OnceKept DEF OverSocks, NotYet, Ran, Reported,
       Holding
  <2>2. FreshBefore' /\ NotYet' /\ RanState' /\ UsedAlone' /\ Dialing' /\ Buffered'
    BY <1>25, IncTerminatedStep, <1>1, <1>2, OnceKept DEF OverSocks, FreshBefore, NotYet,
       RanState, UsedAlone, Dialing, Buffered, Fresh, Ran, Kind, Offered, Unsent, OfferFirst,
       Holding
  <2> QED BY <2>1, <2>2
<1>26. CASE IbbOpen
  BY <1>26, IbbOpenStep, <1>1 DEF OverSocks, Kind
<1>27. CASE IbbData
  BY <1>27, IbbDataStep, <1>1 DEF OverSocks, Kind
<1>28. CASE IbbClose
  BY <1>28, IbbCloseStep, <1>1 DEF OverSocks, Kind
<1>29. CASE HostsArrive
  <2> SUFFICES ASSUME par.method # "ibb"
               PROVE  FreshBefore' /\ NotYet' /\ RanState' /\ UsedAlone' /\ Once' /\ Dialing' /\ Buffered'
    BY <1>29, <1>3 DEF OverSocks
  <2>1. Once'
    BY <1>29, HostsArriveStep, <1>1, <1>2, OnceKept DEF OverSocks, NotYet, Ran, Reported,
       NextHostTaken
  <2>2. FreshBefore' /\ NotYet' /\ RanState' /\ UsedAlone' /\ Dialing' /\ Buffered'
    BY <1>29, HostsArriveStep, <1>1, <1>2, OnceKept DEF OverSocks, FreshBefore, NotYet,
       RanState, UsedAlone, Dialing, Buffered, Fresh, Ran, Kind, Offered, Unsent, OfferFirst,
       NextHostTaken
  <2> QED BY <2>1, <2>2
<1>30. CASE CandidateProceeds
  <2> SUFFICES ASSUME par.method # "ibb"
               PROVE  FreshBefore' /\ NotYet' /\ RanState' /\ UsedAlone' /\ Once' /\ Dialing' /\ Buffered'
    BY <1>30, <1>3 DEF OverSocks
  <2>1. Once'
    BY <1>30, CandidateProceedsStep, <1>1, <1>2, OnceKept DEF OverSocks, NotYet, Ran, Reported,
       Holding
  <2>2. FreshBefore' /\ NotYet' /\ RanState' /\ UsedAlone' /\ Dialing' /\ Buffered'
    BY <1>30, CandidateProceedsStep, <1>1, <1>2, OnceKept DEF OverSocks, FreshBefore, NotYet,
       RanState, UsedAlone, Dialing, Buffered, Fresh, Ran, Kind, Offered, Unsent, OfferFirst,
       Holding
  <2> QED BY <2>1, <2>2
<1>31. CASE CandidateServed
  <2> SUFFICES ASSUME par.method # "ibb"
               PROVE  FreshBefore' /\ NotYet' /\ RanState' /\ UsedAlone' /\ Once' /\ Dialing' /\ Buffered'
    BY <1>31, <1>3 DEF OverSocks
  <2>1. Once'
    BY <1>31, CandidateServedStep, <1>1, <1>2, OnceKept DEF OverSocks, NotYet, Ran, Reported,
       Holding
  <2>2. FreshBefore' /\ NotYet' /\ RanState' /\ UsedAlone' /\ Dialing' /\ Buffered'
    BY <1>31, CandidateServedStep, <1>1, <1>2, OnceKept DEF OverSocks, FreshBefore, NotYet,
       RanState, UsedAlone, Dialing, Buffered, Fresh, Ran, Kind, Offered, Unsent, OfferFirst,
       Holding
  <2> QED BY <2>1, <2>2
<1>32. CASE CandidateReady
  <2> SUFFICES ASSUME par.method # "ibb"
               PROVE  FreshBefore' /\ NotYet' /\ RanState' /\ UsedAlone' /\ Once' /\ Dialing' /\ Buffered'
    BY <1>32, <1>3 DEF OverSocks
  <2>1. Once'
    BY <1>32, CandidateReadyStep, <1>1, <1>2, OnceKept DEF OverSocks, NotYet, Ran, Reported,
       Holding
  <2>2. FreshBefore' /\ NotYet' /\ RanState' /\ UsedAlone' /\ Dialing' /\ Buffered'
    BY <1>32, CandidateReadyStep, <1>1, <1>2, OnceKept DEF OverSocks, FreshBefore, NotYet,
       RanState, UsedAlone, Dialing, Buffered, Fresh, Ran, Kind, Offered, Unsent, OfferFirst,
       Holding
  <2> QED BY <2>1, <2>2
<1>33. CASE CandidateDisconnected \/ CandidateTimeout
  <2> SUFFICES ASSUME par.method # "ibb"
               PROVE  FreshBefore' /\ NotYet' /\ RanState' /\ UsedAlone' /\ Once' /\ Dialing' /\ Buffered'
    BY <1>33, <1>3 DEF OverSocks
  <2>1. Once'
    BY <1>33, CandidateLostStep, <1>1, <1>2, OnceKept DEF OverSocks, NotYet, Ran, Reported,
       NextHostTaken, Candidate
  <2>2. FreshBefore' /\ NotYet' /\ RanState' /\ UsedAlone' /\ Dialing' /\ Buffered'
    BY <1>33, CandidateLostStep, <1>1, <1>2, OnceKept DEF OverSocks, FreshBefore, NotYet,
       RanState, UsedAlone, Dialing, Buffered, Fresh, Ran, Kind, Offered, Unsent, OfferFirst,
       NextHostTaken, Candidate
  <2> QED BY <2>1, <2>2
<1>34. CASE DoomedDeleted
  <2> SUFFICES ASSUME par.method # "ibb"
               PROVE  FreshBefore' /\ NotYet' /\ RanState' /\ UsedAlone' /\ Once' /\ Dialing' /\ Buffered'
    BY <1>34, <1>3 DEF OverSocks
  <2>1. Once'
    BY <1>34, DoomedDeletedStep, <1>1, <1>2, OnceKept DEF OverSocks, NotYet, Ran, Reported,
       NextHostTaken, Holding, Candidate
  <2>2. FreshBefore' /\ NotYet' /\ RanState' /\ UsedAlone' /\ Dialing' /\ Buffered'
    BY <1>34, DoomedDeletedStep, <1>1, <1>2, OnceKept DEF OverSocks, FreshBefore, NotYet,
       RanState, UsedAlone, Dialing, Buffered, Fresh, Ran, Kind, Offered, Unsent, OfferFirst,
       NextHostTaken, Holding, Candidate
  <2> QED BY <2>1, <2>2
<1>35. CASE ReceiveData
  <2> SUFFICES ASSUME par.method # "ibb"
               PROVE  FreshBefore' /\ NotYet' /\ RanState' /\ UsedAlone' /\ Once' /\ Dialing' /\ Buffered'
    BY <1>35, <1>3 DEF OverSocks
  <2>1. Once'
    BY <1>35, ReceiveDataStep, <1>1, <1>2, OnceKept DEF OverSocks, NotYet, Ran, Reported,
       Checked, Writes, EndedInc
  <2>2. FreshBefore' /\ NotYet' /\ RanState' /\ UsedAlone' /\ Dialing' /\ Buffered'
    BY <1>35, ReceiveDataStep, <1>1, <1>2, OnceKept DEF OverSocks, FreshBefore, NotYet,
       RanState, UsedAlone, Dialing, Buffered, Fresh, Ran, Kind, Offered, Unsent, OfferFirst,
       Checked, Writes, EndedInc
  <2> QED BY <2>1, <2>2
<1>36. CASE IncDisconnected
  <2> SUFFICES ASSUME par.method # "ibb"
               PROVE  FreshBefore' /\ NotYet' /\ RanState' /\ UsedAlone' /\ Once' /\ Dialing' /\ Buffered'
    BY <1>36, <1>3 DEF OverSocks
  <2>1. Once'
    BY <1>36, IncDisconnectedStep, <1>1, <1>2, OnceKept DEF OverSocks, NotYet, Ran, Reported,
       Checked, EndedInc, Holding
  <2>2. FreshBefore' /\ NotYet' /\ RanState' /\ UsedAlone' /\ Dialing' /\ Buffered'
    BY <1>36, IncDisconnectedStep, <1>1, <1>2, OnceKept DEF OverSocks, FreshBefore, NotYet,
       RanState, UsedAlone, Dialing, Buffered, Fresh, Ran, Kind, Offered, Unsent, OfferFirst,
       Checked, EndedInc, Holding
  <2> QED BY <2>1, <2>2
<1>37. CASE AbortInc
  <2> SUFFICES ASSUME par.method # "ibb"
               PROVE  FreshBefore' /\ NotYet' /\ RanState' /\ UsedAlone' /\ Once' /\ Dialing' /\ Buffered'
    BY <1>37, <1>3 DEF OverSocks
  <2>1. Once'
    BY <1>37, AbortIncStep, <1>1, <1>2, OnceKept DEF OverSocks, NotYet, Ran, Reported, EndedInc
  <2>2. FreshBefore' /\ NotYet' /\ RanState' /\ UsedAlone' /\ Dialing' /\ Buffered'
    BY <1>37, AbortIncStep, <1>1, <1>2, OnceKept DEF OverSocks, FreshBefore, NotYet, RanState,
       UsedAlone, Dialing, Buffered, Fresh, Ran, Kind, Offered, Unsent, OfferFirst, EndedInc
  <2> QED BY <2>1, <2>2
<1>38. CASE StanzasLost
  <2> SUFFICES ASSUME par.method # "ibb"
               PROVE  FreshBefore' /\ NotYet' /\ RanState' /\ UsedAlone' /\ Once' /\ Dialing' /\ Buffered'
    BY <1>38, <1>3 DEF OverSocks
  <2>1. Once'
    BY <1>38, <1>1, <1>2, OnceKept DEF OverSocks, NotYet, Ran, Reported, StanzasLost
  <2>2. FreshBefore' /\ NotYet' /\ RanState' /\ UsedAlone' /\ Dialing' /\ Buffered'
    BY <1>38, <1>1, <1>2, OnceKept DEF OverSocks, FreshBefore, NotYet, RanState, UsedAlone,
       Dialing, Buffered, Fresh, Ran, Kind, Offered, Unsent, OfferFirst, StanzasLost
  <2> QED BY <2>1, <2>2
<1>39. CASE ConnectionBreaks
  <2> SUFFICES ASSUME par.method # "ibb"
               PROVE  FreshBefore' /\ NotYet' /\ RanState' /\ UsedAlone' /\ Once' /\ Dialing' /\ Buffered'
    BY <1>39, <1>3 DEF OverSocks
  <2>1. Once'
    BY <1>39, <1>1, <1>2, OnceKept DEF OverSocks, NotYet, Ran, Reported, ConnectionBreaks
  <2>2. FreshBefore' /\ NotYet' /\ RanState' /\ UsedAlone' /\ Dialing' /\ Buffered'
    BY <1>39, <1>1, <1>2, OnceKept DEF OverSocks, FreshBefore, NotYet, RanState, UsedAlone,
       Dialing, Buffered, Fresh, Ran, Kind, Offered, Unsent, OfferFirst, ConnectionBreaks
  <2> QED BY <2>1, <2>2
<1>40. CASE ProxyFails
  <2> SUFFICES ASSUME par.method # "ibb"
               PROVE  FreshBefore' /\ NotYet' /\ RanState' /\ UsedAlone' /\ Once' /\ Dialing' /\ Buffered'
    BY <1>40, <1>3 DEF OverSocks
  <2>1. Once'
    BY <1>40, ProxyFailsStep, <1>1, OnceKept DEF OverSocks
  <2>2. FreshBefore' /\ NotYet' /\ RanState' /\ UsedAlone' /\ Dialing' /\ Buffered'
    BY <1>40, ProxyFailsStep, <1>1, <1>2 DEF OverSocks, FreshBefore, NotYet, RanState,
       UsedAlone, Dialing, Buffered, Fresh, Ran, EndedOut
  <2> QED BY <2>1, <2>2
<1> QED
  BY <1>11, <1>12, <1>13, <1>14, <1>15, <1>16, <1>17, <1>18, <1>19, <1>20, <1>21, <1>22, <1>23,
       <1>24, <1>25, <1>26, <1>27, <1>28, <1>29, <1>30, <1>31, <1>32, <1>33, <1>34, <1>35, <1>36,
          <1>37, <1>38, <1>39, <1>40
    DEF TransferNext, StanzaStep, SocketStep, PostedStep

-----------------------------------------------------------------------------
(* What was written is a beginning of the file. *)

\* The blocks p under way and the blocks b in the buffer go on where w written ones end; a
\* connection that is up has all the r blocks that were read.
Chain(w, p, b, r, sock) ==
    /\ \A i \in 1 .. Len(p) : p[i] = w + i
    /\ \A i \in 1 .. Len(b) : b[i] = w + Len(p) + i
    /\ w + Len(p) + Len(b) <= r
    /\ sock = "up" => w + Len(p) + Len(b) = r

\* The receiving side takes blocks from the connection.
LEMMA ChainDrops ==
    ASSUME NEW w \in Nat, NEW p \in Seq(Nat), NEW b \in Seq(Nat), NEW r \in Nat, NEW sock,
           Chain(w, p, b, r, sock), NEW other, other # "up"
    PROVE  /\ Chain(w, p, b, r, other) /\ Chain(w, p, <<>>, r, other)
           /\ Chain(w, p \o b, <<>>, r, other) /\ Chain(w, <<>>, <<>>, r, other)
<1>1. Len(p) \in Nat /\ Len(b) \in Nat /\ Len(<<>>) = 0
    OBVIOUS
<1>2. Chain(w, p, b, r, other) /\ Chain(w, p, <<>>, r, other) /\ Chain(w, <<>>, <<>>, r, other)
  BY <1>1 DEF Chain
<1>3. Chain(w, p \o b, <<>>, r, other)
  <2>1. /\ Len(p \o b) = Len(p) + Len(b) /\ \A i \in 1 .. Len(p) : (p \o b)[i] = p[i]
        /\ \A i \in Len(p) + 1 .. Len(p) + Len(b) : (p \o b)[i] = b[i - Len(p)]
      OBVIOUS
  <2>2. ASSUME NEW i \in 1 .. Len(p) + Len(b)  PROVE  (p \o b)[i] = w + i
    <3>1. CASE i <= Len(p)
      BY <1>1, <2>1, <3>1 DEF Chain
    <3>2. CASE i > Len(p)
      <4>1. i - Len(p) \in 1 .. Len(b) /\ i \in Len(p) + 1 .. Len(p) + Len(b)
        BY <1>1, <3>2
      <4>2. b[i - Len(p)] = w + Len(p) + (i - Len(p))
        BY <4>1 DEF Chain
      <4> QED BY <1>1, <2>1, <4>1, <4>2
    <3> QED BY <1>1, <3>1, <3>2
  <2> QED BY <1>1, <2>1, <2>2 DEF Chain
<1> QED BY <1>2, <1>3

\* Two sequences joined.
LEMMA Joins ==
    ASSUME NEW p \in Seq(Nat), NEW q \in Seq(Nat)
    PROVE  /\ p \o q \in Seq(Nat) /\ Len(p \o q) = Len(p) + Len(q)
           /\ \A i \in 1 .. Len(p) : (p \o q)[i] = p[i]
           /\ \A i \in Len(p) + 1 .. Len(p) + Len(q) : (p \o q)[i] = q[i - Len(p)]
    OBVIOUS

LEMMA ChainMoves ==
    ASSUME NEW w \in Nat, NEW p \in Seq(Nat), NEW b \in Seq(Nat), NEW r \in Nat, NEW sock,
           Chain(w, p, b, r, sock), NEW k \in 0 .. Len(b)
    PROVE  Chain(w, p \o SubSeq(b, 1, k), SubSeq(b, k + 1, Len(b)), r, sock)
<1> DEFINE q == SubSeq(b, 1, k)
           c == SubSeq(b, k + 1, Len(b))
<1>1. Len(p) \in Nat /\ Len(b) \in Nat /\ k \in Nat /\ k <= Len(b)
    OBVIOUS
<1>2. /\ q \in Seq(Nat) /\ Len(q) = k /\ \A i \in 1 .. k : q[i] = b[i]
      /\ c \in Seq(Nat) /\ Len(c) = Len(b) - k /\ \A i \in 1 .. Len(b) - k : c[i] = b[k + i]
  BY Halves
<1> HIDE DEF q, c
<1> DEFINE m == p \o q
<1>3. /\ Len(m) = Len(p) + k /\ \A i \in 1 .. Len(p) : m[i] = p[i]
      /\ \A i \in Len(p) + 1 .. Len(p) + k : m[i] = q[i - Len(p)]
  BY <1>2, Joins
<1> HIDE DEF m
<1>4. ASSUME NEW i \in 1 .. Len(p) + k  PROVE  m[i] = w + i
  <2>1. CASE i <= Len(p)
    BY <1>1, <1>3, <2>1 DEF Chain
  <2>2. CASE i > Len(p)
    <3>1. i - Len(p) \in 1 .. k /\ i - Len(p) \in 1 .. Len(b) /\ i \in Len(p) + 1 .. Len(p) + k
      BY <1>1, <2>2
    <3>2. b[i - Len(p)] = w + Len(p) + (i - Len(p))
      BY <3>1 DEF Chain
    <3> QED BY <1>1, <1>2, <1>3, <3>1, <3>2
  <2> QED BY <1>1, <2>1, <2>2
<1>5. ASSUME NEW i \in 1 .. Len(b) - k  PROVE  c[i] = w + (Len(p) + k) + i
  <2>1. k + i \in 1 .. Len(b)
    BY <1>1
  <2>2. b[k + i] = w + Len(p) + (k + i)
    BY <2>1 DEF Chain
  <2> QED BY <1>1, <1>2, <2>2
<1>6. Chain(w, m, c, r, sock)
  <2>1. Len(m) = Len(p) + k /\ Len(c) = Len(b) - k /\ Len(m) \in Nat /\ Len(c) \in Nat
    BY <1>1, <1>2, <1>3
  <2>2. w + Len(m) + Len(c) = w + Len(p) + Len(b)
    BY <1>1, <2>1
  <2>3. w + Len(m) + Len(c) <= r /\ (sock = "up" => w + Len(m) + Len(c) = r)
    BY <2>2 DEF Chain
  <2>4. (\A i \in 1 .. Len(m) : m[i] = w + i) /\ \A i \in 1 .. Len(c) : c[i] = w + Len(m) + i
    BY <1>4, <1>5, <2>1
  <2> QED BY <2>3, <2>4 DEF Chain
<1> QED BY <1>6 DEF m, q, c

LEMMA ChainSends ==
    ASSUME NEW w \in Nat, NEW p \in Seq(Nat), NEW b \in Seq(Nat), NEW r \in Nat, NEW sock,
           Chain(w, p, b, r, sock)
    PROVE  /\ sock # "up" => Chain(w, p, b, r + 1, sock)
           /\ sock = "up" => Chain(w, p, Append(b, r + 1), r + 1, sock)
<1>1. Len(p) \in Nat /\ Len(b) \in Nat
    OBVIOUS
<1>2. sock # "up" => Chain(w, p, b, r + 1, sock)
  BY <1>1 DEF Chain
<1>3. ASSUME sock = "up"  PROVE  Chain(w, p, Append(b, r + 1), r + 1, sock)
  <2>1. /\ Len(Append(b, r + 1)) = Len(b) + 1 /\ Append(b, r + 1)[Len(b) + 1] = r + 1
        /\ \A i \in 1 .. Len(b) : Append(b, r + 1)[i] = b[i]
      OBVIOUS
  <2>2. r = w + Len(p) + Len(b)
    BY <1>3 DEF Chain
  <2>3. ASSUME NEW i \in 1 .. Len(b) + 1  PROVE  Append(b, r + 1)[i] = w + Len(p) + i
    <3>1. CASE i = Len(b) + 1
      BY <1>1, <2>1, <2>2, <3>1
    <3>2. CASE i \in 1 .. Len(b)
      BY <1>1, <2>1, <3>2 DEF Chain
    <3> QED BY <1>1, <3>1, <3>2
  <2> QED BY <1>1, <1>3, <2>1, <2>2, <2>3 DEF Chain
<1> QED BY <1>2, <1>3

\* What sending does to the chain, whether or not a buffer is still flushed.
LEMMA SendsChain ==
    ASSUME NEW w \in Nat, NEW p \in Seq(Nat), NEW job, NEW next, NEW state, Sends(job, next, state),
           job.read \in Nat, job.buf \in Seq(Nat), Chain(w, p, job.buf, job.read, job.sock)
    PROVE  /\ Chain(w, p, next.buf, next.read, next.sock)
           /\ next.sock = "down" /\ job.sock = "up" => Chain(w, p \o job.buf, next.buf, next.read, next.sock)
<1>1. CASE next.read = job.read /\ next.sock = job.sock /\ next.buf = job.buf
  BY <1>1
<1>2. CASE next.buf = <<>> /\ next.read = job.read
           /\ next.sock = IF job.sock = "none" THEN "none" ELSE "down"
  <2>1. next.sock # "up"
    BY <1>2
  <2> QED BY <1>2, <2>1, ChainDrops
<1>3. CASE next.read = job.read + 1 /\ next.sock = job.sock
           /\ next.buf = IF job.sock = "up" THEN Append(job.buf, job.read + 1) ELSE job.buf
  BY <1>3, ChainSends
<1> QED BY <1>1, <1>2, <1>3 DEF Sends

\* What was written, and what is under way to be written.
Written ==
    /\ out.read <= par.blocks /\ Len(inc.written) <= out.read
    /\ \A i \in 1 .. Len(inc.written) : inc.written[i] = i
Chained == inc.device = "open" /\ ~cut /\ par.method # "ibb" =>
    Chain(Len(inc.written), pipe, out.buf, out.read, out.sock)

\* In band, the block that is counted is the one that was expected: sequence numbers that
\* have wrapped around do not mistake one block for another.
LEMMA BlockTaken ==
    ASSUME Shape, Kind, InBand, IbbData
    PROVE  /\ par.method = "ibb"
           /\ \/ inc' = inc
              \/ /\ Writes(inc, inc', <<inc.seq + 1>>) /\ inc'.seq = inc.seq + 1
                 /\ inc.seq + 1 <= out.read
<1> DEFINE n == Head(toPeer).n
<1>1. /\ toPeer # <<>> /\ Head(toPeer) \in Msgs(toPeer) /\ Head(toPeer).of = "data" /\ n \in Nat
      /\ inc.seq \in Nat
  BY IbbDataStep, Underway, Tails DEF Shape, IncShape
<1>2. par.method = "ibb"
  BY <1>1 DEF Kind
<1>3. 1 <= n /\ n <= out.read /\ n <= inc.seq + 1
  BY <1>1, <1>2 DEF InBand, BlocksCounted
<1>4. inc' = inc \/ (Sequence(n) = inc.seq /\ Writes(inc, inc', <<n>>) /\ inc'.seq = inc.seq + 1)
  BY IbbDataStep
<1> HIDE DEF n
<1>5. Sequence(n) <= n - 1 /\ Sequence(n) \in Nat
  BY <1>1, <1>3, SequenceBound
<1>6. Sequence(n) = inc.seq => n = inc.seq + 1
  BY <1>1, <1>3, <1>5
<1> QED BY <1>2, <1>3, <1>4, <1>6

\* A step that takes no block and sends none, but may flush or lose some.
Idle ==
    /\ inc'.written = inc.written /\ (inc'.device = "open" => inc.device = "open")
    /\ cut' = cut /\ par' = par /\ out'.read = out.read
    /\ \/ out'.buf = out.buf /\ pipe' = pipe /\ (out'.sock = "up" => out.sock = "up")
       \/ /\ out'.buf = <<>> /\ out'.sock # "up"
          /\ pipe' \in {pipe, pipe \o out.buf, <<>>}

LEMMA IdleKeeps ==
    ASSUME Shape, Written, Chained, Idle
    PROVE  Written' /\ Chained'
<1>1. Written'
  BY DEF Written, Idle
<1>2. ASSUME inc'.device = "open", ~cut', par'.method # "ibb"
      PROVE  Chain(Len(inc.written), pipe', out'.buf, out'.read, out'.sock)
  <2>1. /\ Chain(Len(inc.written), pipe, out.buf, out.read, out.sock)
        /\ Len(inc.written) \in Nat /\ pipe \in Seq(Nat) /\ out.buf \in Seq(Nat) /\ out.read \in Nat
    BY <1>2 DEF Chained, Idle, Shape, OutShape, IncShape
  <2>2. CASE out'.buf = out.buf /\ pipe' = pipe /\ (out'.sock = "up" => out.sock = "up")
    <3>1. CASE out'.sock = "up"
      BY <2>1, <2>2, <3>1 DEF Idle
    <3>2. CASE out'.sock # "up"
      BY <2>1, <2>2, <3>2, ChainDrops DEF Idle
    <3> QED BY <3>1, <3>2
  <2>3. CASE /\ out'.buf = <<>> /\ out'.sock # "up"
             /\ pipe' \in {pipe, pipe \o out.buf, <<>>}
    <3>1. /\ Chain(Len(inc.written), pipe, <<>>, out.read, out'.sock)
          /\ Chain(Len(inc.written), pipe \o out.buf, <<>>, out.read, out'.sock)
          /\ Chain(Len(inc.written), <<>>, <<>>, out.read, out'.sock)
      BY <2>1, <2>3, ChainDrops
    <3>2. out'.read = out.read
      BY DEF Idle
    <3> QED BY <2>3, <3>1, <3>2
  <2> QED BY <2>2, <2>3 DEF Idle
<1> QED BY <1>1, <1>2 DEF Chained, Idle

\* A step of the outgoing job that may read a block.
LEMMA SendingKeeps ==
    ASSUME Shape, Written, Chained, NEW job, NEW state, Sends(job, out', state), NEW p \in Seq(Nat),
           job.read = out.read, job.buf \in Seq(Nat), UNCHANGED <<par, inc, cut>>,
           inc.device = "open" /\ ~cut /\ par.method # "ibb" =>
             Chain(Len(inc.written), p, job.buf, job.read, job.sock),
           pipe' = p \/ (pipe' = p \o job.buf /\ job.sock = "up" /\ out'.sock = "down")
    PROVE  Written' /\ Chained'
<1>1. Written'
  <2>1. out.read \in Nat /\ par.blocks \in Nat /\ Len(inc.written) \in Nat
    BY DEF Shape, OutShape, IncShape
  <2>2. out'.read = out.read \/ (out'.read = out.read + 1 /\ out.read # par.blocks)
    BY DEF Sends
  <2> QED BY <2>1, <2>2 DEF Written
<1>2. ASSUME inc.device = "open", ~cut, par.method # "ibb"
      PROVE  Chain(Len(inc.written), pipe', out'.buf, out'.read, out'.sock)
  <2>1. Len(inc.written) \in Nat /\ job.read \in Nat
    BY DEF Shape, OutShape, IncShape
  <2> QED BY <1>2, <2>1, SendsChain
<1> QED BY <1>1, <1>2 DEF Chained

LEMMA FreshChain == \A sock : Chain(0, <<>>, <<>>, 0, sock)
  BY DEF Chain

LEMMA ChainReads ==
    ASSUME NEW s \in Seq(Nat), \A i \in 1 .. Len(s) : s[i] = i,
           NEW p \in Seq(Nat), NEW b \in Seq(Nat), NEW r \in Nat, NEW sock,
           Chain(Len(s), p, b, r, sock), NEW k \in 1 .. Len(p)
    PROVE  /\ Len(s \o SubSeq(p, 1, k)) = Len(s) + k
           /\ Chain(Len(s) + k, SubSeq(p, k + 1, Len(p)), b, r, sock)
           /\ \A i \in 1 .. Len(s) + k : (s \o SubSeq(p, 1, k))[i] = i
<1> DEFINE q == SubSeq(p, 1, k)
           c == SubSeq(p, k + 1, Len(p))
           t == s \o q
<1>1. Len(p) \in Nat /\ Len(b) \in Nat /\ Len(s) \in Nat /\ k \in Nat /\ k <= Len(p) /\ k \in 0 .. Len(p)
    OBVIOUS
<1>2. /\ q \in Seq(Nat) /\ Len(q) = k /\ \A i \in 1 .. k : q[i] = p[i]
      /\ c \in Seq(Nat) /\ Len(c) = Len(p) - k /\ \A i \in 1 .. Len(p) - k : c[i] = p[k + i]
  BY <1>1, Halves
<1> HIDE DEF q, c
<1>3. /\ Len(t) = Len(s) + k /\ \A i \in 1 .. Len(s) : t[i] = s[i]
      /\ \A i \in Len(s) + 1 .. Len(s) + k : t[i] = q[i - Len(s)]
  BY <1>2, Joins
<1> HIDE DEF t
<1>4. ASSUME NEW i \in 1 .. Len(s) + k  PROVE  t[i] = i
  <2>1. CASE i <= Len(s)
    <3>1. i \in 1 .. Len(s)
      BY <1>1, <2>1
    <3> QED BY <1>3, <3>1
  <2>2. CASE i > Len(s)
    <3>1. i - Len(s) \in 1 .. k /\ i - Len(s) \in 1 .. Len(p) /\ i \in Len(s) + 1 .. Len(s) + k
      BY <1>1, <2>2
    <3>2. p[i - Len(s)] = Len(s) + (i - Len(s))
      BY <3>1 DEF Chain
    <3> QED BY <1>1, <1>2, <1>3, <3>1, <3>2
  <2> QED BY <1>1, <2>1, <2>2
<1>5. ASSUME NEW i \in 1 .. Len(p) - k  PROVE  c[i] = (Len(s) + k) + i
  <2>1. k + i \in 1 .. Len(p)
    BY <1>1
  <2>2. p[k + i] = Len(s) + (k + i)
    BY <2>1 DEF Chain
  <2> QED BY <1>1, <1>2, <2>2
<1>6. Chain(Len(s) + k, c, b, r, sock)
  <2>1. Len(c) = Len(p) - k /\ Len(c) \in Nat /\ (Len(s) + k) + Len(c) = Len(s) + Len(p)
    BY <1>1, <1>2
  <2>2. \A i \in 1 .. Len(b) : b[i] = (Len(s) + k) + Len(c) + i
    BY <2>1 DEF Chain
  <2>3. (Len(s) + k) + Len(c) + Len(b) <= r /\ (sock = "up" => (Len(s) + k) + Len(c) + Len(b) = r)
    BY <2>1 DEF Chain
  <2> QED BY <1>5, <2>1, <2>2, <2>3 DEF Chain
<1> QED BY <1>3, <1>4, <1>6 DEF t, c, q

\* No step writes a block out of its place.
LEMMA WrittenKept ==
    ASSUME Shape, Offered, Kind, InBand, OverSocks, Written, Chained, TransferNext
    PROVE  (Written /\ Chained)'
<1>1. /\ par' = par /\ pipe \in {pipe, pipe \o out.buf, <<>>}
      /\ par.method # "ibb" => (out.sock # "up" => out.buf = <<>>)
      /\ out.state = "none" => out.sock = "none"
  BY ParStays DEF OverSocks, Buffered, Offered, Unsent
<1>2. out.read \in Nat /\ par.blocks \in Nat /\ Len(inc.written) \in Nat
  BY DEF Shape, OutShape, IncShape
<1>11. CASE SendFile
  <2>1. Idle
    BY <1>11, SendFileStep, <1>1 DEF Idle, EndedOut, Going, Buffered
  <2> QED BY <2>1, IdleKeeps
<1>12. CASE OfferAccepted
  <2>1. Idle
    BY <1>12, OfferAcceptedStep, <1>1 DEF Idle, Going, Flushed
  <2> QED BY <2>1, IdleKeeps
<1>13. CASE ProxyAnswers
  <2>1. Idle
    BY <1>13, ProxyAnswersStep, <1>1 DEF Idle, Going, EndedOut, Flushed
  <2> QED BY <2>1, IdleKeeps
<1>14. CASE IbbResponse
  <2>1. CASE UNCHANGED <<out, toPeer>>
    <3>1. Idle
      BY <1>14, <2>1, IbbResponseStep, <1>1 DEF Idle
    <3> QED BY <3>1, IdleKeeps
  <2>2. CASE out.method = "ibb"
    <3>1. par.method = "ibb" /\ UNCHANGED <<par, inc>> /\ out'.read \in {out.read, out.read + 1}
          /\ (out'.read = out.read + 1 => out.read # par.blocks)
      BY <1>14, <2>2, <1>2, IbbResponseStep DEF Kind, Going
    <3> QED BY <3>1, <1>2 DEF Written, Chained
  <2> QED BY <1>14, <2>1, <2>2, IbbResponseStep
<1>15. CASE PeerRefused
  <2>1. Idle
    BY <1>15, PeerRefusedStep, <1>1 DEF Idle, EndedOut, Flushed
  <2> QED BY <2>1, IdleKeeps
<1>16. CASE HostUsed
  <2>1. /\ UNCHANGED <<par, inc, cut>> /\ pipe' = Flushed(out, out')
        /\ pipe \in Seq(Nat) /\ out.buf \in Seq(Nat)
    BY <1>16, HostUsedStep DEF Shape, OutShape
  <2>2. ASSUME NEW job, job.read = out.read, job.sock = out.sock, job.buf = out.buf,
               Sends(job, out', "transfer")
        PROVE  Written' /\ Chained'
    <3>1. pipe' = pipe \/ (pipe' = pipe \o job.buf /\ job.sock = "up" /\ out'.sock = "down")
      BY <2>1, <2>2 DEF Flushed
    <3>2. inc.device = "open" /\ ~cut /\ par.method # "ibb" =>
            Chain(Len(inc.written), pipe, job.buf, job.read, job.sock)
      BY <2>2 DEF Chained
    <3> QED BY <2>1, <2>2, <3>1, <3>2, SendingKeeps
  <2>3. CASE out' = out \/ EndedOut(out, out', "ProtocolError")
             \/ (out'.sock = "dialing" /\ out'.read = out.read /\ out'.buf = out.buf)
    <3>1. Idle
      BY <2>1, <2>3, <1>1 DEF Idle, Flushed, EndedOut
    <3> QED BY <3>1, IdleKeeps
  <2> QED BY <1>16, <2>2, <2>3, HostUsedStep
<1>17. CASE ProxyReady
  <2>1. CASE par.method = "ibb"
    BY <1>17, <2>1, ProxyReadyStep DEF Kind
  <2>2. CASE par.method # "ibb"
    <3>1. Fresh /\ out'.read = out.read /\ out'.buf = out.buf /\ UNCHANGED <<par, inc, pipe, cut>>
      BY <1>17, <2>2, ProxyReadyStep DEF OverSocks, FreshBefore
    <3> QED BY <3>1, <1>2, FreshChain DEF Written, Chained, Fresh
  <2> QED BY <2>1, <2>2
<1>18. CASE Activated
  <2>1. /\ UNCHANGED <<par, inc, cut>> /\ pipe' = Flushed(out, out')
        /\ pipe \in Seq(Nat) /\ out.buf \in Seq(Nat)
    BY <1>18, ActivatedStep DEF Shape, OutShape
  <2>2. PICK job : /\ job.read = out.read /\ job.sock = out.sock /\ job.buf = out.buf
                   /\ job.state = out.state
                   /\ Sends(job, out', "transfer") \/ EndedOut(job, out', "ProtocolError")
    BY <1>18, ActivatedStep
  <2>3. CASE Sends(job, out', "transfer")
    <3>1. pipe' = pipe \/ (pipe' = pipe \o job.buf /\ job.sock = "up" /\ out'.sock = "down")
      BY <2>1, <2>2 DEF Flushed
    <3>2. inc.device = "open" /\ ~cut /\ par.method # "ibb" =>
            Chain(Len(inc.written), pipe, job.buf, job.read, job.sock)
      BY <2>2 DEF Chained
    <3> QED BY <2>1, <2>2, <2>3, <3>1, <3>2, SendingKeeps
  <2>4. CASE EndedOut(job, out', "ProtocolError")
    <3>1. Idle
      BY <2>1, <2>2, <2>4, <1>1 DEF Idle, Flushed, EndedOut
    <3> QED BY <3>1, IdleKeeps
  <2> QED BY <2>2, <2>3, <2>4
<1>19. CASE BytesWritten
  <2>1. /\ UNCHANGED <<par, inc, cut>> /\ pipe \in Seq(Nat) /\ out.buf \in Seq(Nat) /\ out.sock = "up"
        /\ Len(inc.written) \in Nat /\ out.read \in Nat
    BY <1>19, BytesWrittenStep DEF Shape, OutShape, IncShape
  <2>2. PICK k \in 0 .. Len(out.buf) : \E job :
          /\ pipe' = pipe \o SubSeq(out.buf, 1, k) /\ job.state = out.state
          /\ job.read = out.read /\ job.sock = out.sock
          /\ job.buf = SubSeq(out.buf, k + 1, Len(out.buf))
          /\ out' = job \/ Sends(job, out', job.state)
    BY <1>19, BytesWrittenStep
  <2>3. PICK job :
          /\ pipe' = pipe \o SubSeq(out.buf, 1, k) /\ job.state = out.state
          /\ job.read = out.read /\ job.sock = out.sock
          /\ job.buf = SubSeq(out.buf, k + 1, Len(out.buf))
          /\ out' = job \/ Sends(job, out', job.state)
    BY <2>2
  <2>4. inc.device = "open" /\ ~cut /\ par.method # "ibb" =>
          Chain(Len(inc.written), pipe', job.buf, job.read, job.sock)
    BY <2>1, <2>3, ChainMoves DEF Chained
  <2>5. CASE out' = job
    <3>1. Written'
      BY <2>1, <2>3, <2>5 DEF Written
    <3>2. Chained'
      BY <2>1, <2>4, <2>5 DEF Chained
    <3> QED BY <3>1, <3>2
  <2>6. CASE Sends(job, out', job.state)
    <3>1. /\ SubSeq(out.buf, 1, k) \in Seq(Nat)
          /\ SubSeq(out.buf, k + 1, Len(out.buf)) \in Seq(Nat)
      BY <2>1, Halves
    <3>2. job.buf \in Seq(Nat) /\ pipe \o SubSeq(out.buf, 1, k) \in Seq(Nat)
      BY <2>1, <2>3, <3>1
    <3>3. pipe' \in Seq(Nat)
      BY <2>3, <3>2
    <3> QED BY <2>1, <2>3, <2>4, <2>6, <3>2, <3>3, SendingKeeps
  <2> QED BY <2>3, <2>5, <2>6
<1>20. CASE OutDisconnected
  <2>1. Idle
    BY <1>20, OutDisconnectedStep, <1>1 DEF Idle
  <2> QED BY <2>1, IdleKeeps
<1>21. CASE OutTerminated
  <2>1. Idle
    BY <1>21, OutTerminatedStep, <1>1 DEF Idle, Going
  <2> QED BY <2>1, IdleKeeps
<1>22. CASE AbortOut
  <2>1. Idle
    BY <1>22, AbortOutStep, <1>1 DEF Idle, EndedOut, Flushed
  <2> QED BY <2>1, IdleKeeps
<1>23. CASE OfferArrives
  <2>1. Idle
    BY <1>23, OfferArrivesStep, <1>1 DEF Idle, Holding
  <2> QED BY <2>1, IdleKeeps
<1>24. CASE UserAccepts
  <2>1. /\ UNCHANGED <<par, out, pipe, cut>> /\ inc'.written = inc.written /\ inc.written = <<>>
        /\ inc.step = "none"
    BY <1>24, UserAcceptsStep DEF Holding, Offered, Untaken, DeviceUsed
  <2>2. par.method # "ibb" => Fresh
    BY <2>1 DEF OverSocks, FreshBefore, Ran
  <2> QED BY <2>1, <2>2, <1>2, FreshChain DEF Written, Chained, Fresh
<1>25. CASE IncTerminated
  <2>1. Idle
    BY <1>25, IncTerminatedStep, <1>1 DEF Idle, Holding
  <2> QED BY <2>1, IdleKeeps
<1>26. CASE IbbOpen
  <2>1. Idle
    BY <1>26, IbbOpenStep, <1>1 DEF Idle, Holding
  <2> QED BY <2>1, IdleKeeps
<1>27. CASE IbbData
  <2>1. UNCHANGED <<par, out, cut>> /\ par.method = "ibb"
    BY <1>27, IbbDataStep, BlockTaken
  <2>2. CASE inc' = inc
    BY <2>1, <2>2 DEF Written, Chained
  <2>3. CASE Writes(inc, inc', <<inc.seq + 1>>) /\ inc.seq + 1 <= out.read
    <3>1. CASE inc.device = "open"
      <4>1. /\ inc'.written = Append(inc.written, inc.seq + 1) /\ Len(inc.written) = inc.seq
            /\ inc.seq \in Nat /\ inc.written \in Seq(Nat)
        BY <2>1, <2>3, <3>1, <1>2 DEF Writes, InBand, Counted, Shape, IncShape
      <4>2. /\ Len(inc'.written) = inc.seq + 1 /\ inc'.written[inc.seq + 1] = inc.seq + 1
            /\ \A i \in 1 .. inc.seq : inc'.written[i] = inc.written[i]
        BY <4>1
      <4>3. ASSUME NEW i \in 1 .. inc.seq + 1  PROVE  inc'.written[i] = i
        <5>1. i \in 1 .. inc.seq \/ i = inc.seq + 1
          BY <4>1
        <5> QED BY <4>1, <4>2, <5>1 DEF Written
      <4>4. Written'
        BY <2>1, <2>3, <4>2, <4>3 DEF Written
      <4> QED BY <2>1, <4>4 DEF Chained
    <3>2. CASE inc.device # "open"
      BY <2>1, <2>3, <3>2 DEF Writes, Written, Chained
    <3> QED BY <3>1, <3>2
  <2> QED BY <1>27, <2>2, <2>3, BlockTaken
<1>28. CASE IbbClose
  <2>1. Idle
    BY <1>28, IbbCloseStep, <1>1 DEF Idle, Checked, EndedInc
  <2> QED BY <2>1, IdleKeeps
<1>29. CASE HostsArrive
  <2>1. Idle
    BY <1>29, HostsArriveStep, <1>1 DEF Idle, NextHostTaken
  <2> QED BY <2>1, IdleKeeps
<1>30. CASE CandidateProceeds
  <2>1. Idle
    BY <1>30, CandidateProceedsStep, <1>1 DEF Idle, Holding
  <2> QED BY <2>1, IdleKeeps
<1>31. CASE CandidateServed
  <2>1. CASE out' = out
    <3>1. Idle
      BY <1>31, <2>1, CandidateServedStep DEF Idle, Holding
    <3> QED BY <3>1, IdleKeeps
  <2>2. CASE out' # out
    <3>1. par.method # "ibb" /\ Fresh
      BY <1>31, CandidateServedStep DEF OverSocks, FreshBefore, Kind, Ran
    <3>2. /\ out'.read = out.read /\ out'.buf = <<>> /\ UNCHANGED <<par, pipe, cut>>
          /\ inc'.written = inc.written
      BY <1>31, <2>2, CandidateServedStep DEF Holding
    <3> QED BY <3>1, <3>2, <1>2, FreshChain DEF Written, Chained, Fresh
  <2> QED BY <2>1, <2>2
<1>32. CASE CandidateReady
  <2>1. Idle
    BY <1>32, CandidateReadyStep, <1>1 DEF Idle, Holding
  <2> QED BY <2>1, IdleKeeps
<1>33. CASE CandidateDisconnected \/ CandidateTimeout
  <2>1. Idle
    BY <1>33, CandidateLostStep, <1>1 DEF Idle, NextHostTaken
  <2> QED BY <2>1, IdleKeeps
<1>34. CASE DoomedDeleted
  <2>1. Idle
    BY <1>34, DoomedDeletedStep, <1>1 DEF Idle, NextHostTaken, Holding
  <2> QED BY <2>1, IdleKeeps
<1>35. CASE ReceiveData
  <2>1. /\ UNCHANGED <<par, out, cut>> /\ ~cut /\ inc.step = "open"
        /\ pipe \in Seq(Nat) /\ inc.written \in Seq(Nat) /\ out.buf \in Seq(Nat) /\ out.read \in Nat
        /\ par.method # "ibb"
    BY <1>35, ReceiveDataStep DEF Shape, OutShape, IncShape, Kind
  <2>2. PICK k \in 1 .. Len(pipe) : \E job :
          /\ pipe' = SubSeq(pipe, k + 1, Len(pipe))
          /\ \/ inc' = inc /\ inc.state # "transfer"
             \/ /\ Writes(inc, job, SubSeq(pipe, 1, k))
                /\ inc' = job \/ Checked(job, inc')
    BY <1>35, ReceiveDataStep
  <2>3. CASE inc' = inc /\ inc.state # "transfer"
    <3>1. inc.device # "open"
      BY <2>1, <2>3 DEF Offered, DeviceUsed, OverSocks, RanState, Ran
    <3> QED BY <2>1, <2>3, <3>1 DEF Written, Chained
  <2>4. ASSUME NEW job, Writes(inc, job, SubSeq(pipe, 1, k)), inc' = job \/ Checked(job, inc')
        PROVE  Written' /\ Chained'
    <3>1. inc'.written = job.written /\ (inc'.device = "open" => inc.device = "open")
      BY <2>4 DEF Checked, EndedInc, Writes
    <3>2. CASE inc.device # "open"
      BY <2>1, <2>4, <3>1, <3>2 DEF Written, Chained, Writes
    <3>3. CASE inc.device = "open"
      <4>1. inc'.written = inc.written \o SubSeq(pipe, 1, k)
        BY <2>4, <3>1, <3>3 DEF Writes
      <4>2. Chain(Len(inc.written), pipe, out.buf, out.read, out.sock)
        BY <2>1, <3>3 DEF Chained
      <4>3. /\ Len(inc'.written) = Len(inc.written) + k
            /\ Chain(Len(inc.written) + k, pipe', out.buf, out.read, out.sock)
            /\ \A i \in 1 .. Len(inc.written) + k : inc'.written[i] = i
        <5>1. \A i \in 1 .. Len(inc.written) : inc.written[i] = i
          BY DEF Written
        <5>2. k \in 1 .. Len(pipe) /\ pipe' = SubSeq(pipe, k + 1, Len(pipe))
          BY <2>2
        <5>3. /\ Len(inc.written \o SubSeq(pipe, 1, k)) = Len(inc.written) + k
              /\ Chain(Len(inc.written) + k, SubSeq(pipe, k + 1, Len(pipe)), out.buf, out.read, out.sock)
              /\ \A i \in 1 .. Len(inc.written) + k : (inc.written \o SubSeq(pipe, 1, k))[i] = i
          BY <2>1, <4>2, <5>1, <5>2, ChainReads
        <5> QED BY <4>1, <5>2, <5>3
      <4>4. Len(inc.written) + k <= out.read
        <5>1. Len(pipe) \in Nat /\ Len(inc.written) \in Nat /\ k <= Len(pipe) /\ k \in Nat /\ Len(out.buf) \in Nat
          BY <2>1, <2>2
        <5>2. Len(inc.written) + Len(pipe) + Len(out.buf) <= out.read
          BY <4>2 DEF Chain
        <5>3. \A w, p, b, r, n \in Nat : n <= p /\ w + p + b <= r => w + n <= r
            OBVIOUS
        <5> QED BY <1>2, <5>1, <5>2, <5>3, Zenon
      <4> QED BY <2>1, <4>3, <4>4 DEF Written, Chained
    <3> QED BY <3>2, <3>3
  <2> QED BY <2>2, <2>3, <2>4
<1>36. CASE IncDisconnected
  <2>1. Idle
    BY <1>36, IncDisconnectedStep, <1>1 DEF Idle, Checked, EndedInc, Holding
  <2> QED BY <2>1, IdleKeeps
<1>37. CASE AbortInc
  <2>1. Idle
    BY <1>37, AbortIncStep, <1>1 DEF Idle, EndedInc
  <2> QED BY <2>1, IdleKeeps
<1>38. CASE StanzasLost
  <2>1. Idle
    BY <1>38 DEF StanzasLost, Idle
  <2> QED BY <2>1, IdleKeeps
<1>39. CASE ConnectionBreaks
  BY <1>39, <1>1 DEF ConnectionBreaks, Written, Chained
<1>40. CASE ProxyFails
  <2>1. Idle
    BY <1>40, ProxyFailsStep, <1>1 DEF Idle, EndedOut
  <2> QED BY <2>1, IdleKeeps
<1> QED
  BY <1>11, <1>12, <1>13, <1>14, <1>15, <1>16, <1>17, <1>18, <1>19, <1>20, <1>21, <1>22, <1>23,
       <1>24, <1>25, <1>26, <1>27, <1>28, <1>29, <1>30, <1>31, <1>32, <1>33, <1>34, <1>35, <1>36,
          <1>37, <1>38, <1>39, <1>40
    DEF TransferNext, StanzaStep, SocketStep, PostedStep

-----------------------------------------------------------------------------
(* The promise to the receiving party. *)

\* A verdict "complete" is final: no stream is opened after it.
Later == IF toPeer = <<>> THEN {} ELSE Msgs(Tail(toPeer))
OpenFirst == \A m \in Later : m.of # "open"
CompleteIsWhole == Verdict = "complete" =>
    /\ inc.state = "finished" /\ inc.step \notin Candidate /\ inc.written = File(par.blocks)
    /\ out.method # "none" /\ \A m \in Msgs(toPeer) : m.of # "open"
Completed == OpenFirst /\ CompleteIsWhole

\* A step as the promise sees it.
Stays == Len(inc'.written) = Len(inc.written) /\ Verdict' = Verdict
Delivers ==
    /\ Verdict = "open" /\ Len(inc'.written) \in Len(inc.written) .. par.blocks
    /\ Verdict' \in {"open", "failed"} \/ (Verdict' = "complete" /\ Len(inc'.written) = par.blocks)
Concludes ==
    /\ Verdict # "complete" /\ Len(inc'.written) = Len(inc.written)
    /\ Verdict' = "failed" \/ (Verdict' = "complete" /\ Len(inc.written) = par.blocks)
Promised == Stays \/ Delivers \/ Concludes

\* The stanzas behind the first.
LEMMA LaterIs ==
    ASSUME Shape
    PROVE  /\ \A m \in Later : m \in Msgs(toPeer)
           /\ \A m : Posts(m) => /\ \A x \in Later' : x \in Later \/ x = m
                                 /\ toPeer = <<>> => Later' = {}
           /\ toPeer # <<>> /\ toPeer' = Tail(toPeer) =>
                /\ Msgs(toPeer') = Later /\ \A x \in Later' : x \in Later
           /\ toPeer' = toPeer => Later' = Later
           /\ toPeer' = <<>> => Later' = {}
<1>1. toPeer \in Wire /\ (toPeer # <<>> => Tail(toPeer) \in Wire)
  BY Tails DEF Shape
<1>2. \A m \in Later : m \in Msgs(toPeer)
  BY <1>1, MsgsOf DEF Later
<1>3. ASSUME NEW m, Posts(m)
      PROVE  (\A x \in Later' : x \in Later \/ x = m) /\ (toPeer = <<>> => Later' = {})
  <2>1. toPeer' # <<>>
    BY <1>1, <1>3 DEF Posts, Wire
  <2>2. CASE toPeer = <<>>
    <3>1. Tail(toPeer') = <<>>
      BY <1>3, <2>2 DEF Posts
    <3> QED BY <2>1, <3>1, <1>1, MsgsOf DEF Later
  <2>3. CASE toPeer # <<>>
    <3>1. Tail(toPeer') = Append(Tail(toPeer), m)
      BY <1>1, <1>3, <2>3 DEF Posts, Wire
    <3>2. Msgs(Append(Tail(toPeer), m)) = Msgs(Tail(toPeer)) \cup {m}
      BY <1>1, <2>3, MsgsOf
    <3> QED BY <2>1, <2>3, <3>1, <3>2 DEF Later
  <2> QED BY <2>2, <2>3
<1>4. ASSUME toPeer # <<>>, toPeer' = Tail(toPeer)
      PROVE  Msgs(toPeer') = Later /\ \A x \in Later' : x \in Later
  <2>1. Msgs(toPeer') = Later
    BY <1>4 DEF Later
  <2>2. toPeer' # <<>> => \A x \in Msgs(Tail(toPeer')) : x \in Msgs(toPeer')
    BY <1>1, <1>4, MsgsOf
  <2> QED BY <2>1, <2>2 DEF Later
<1>5. (toPeer' = toPeer => Later' = Later) /\ (toPeer' = <<>> => Later' = {})
  BY DEF Later
<1> QED BY <1>2, <1>3, <1>4, <1>5

LEMMA VerdictIs ==
    /\ Verdict = "complete" <=> inc.device = "closed" /\ par.announced /\ inc.error = "NoError"
    /\ inc.device # "closed" => Verdict = IF inc.state = "finished" THEN "failed" ELSE "open"
    /\ Verdict \in {"complete", "failed", "open"}
    /\ inc.device = "closed" => Verdict # "open"
  BY DEF Verdict, Done

LEMMA VerdictKept ==
    ASSUME par' = par, inc'.device = inc.device, inc'.error = inc.error,
           inc'.device # "closed" => (inc'.state = "finished" <=> inc.state = "finished")
    PROVE  Verdict' = Verdict
  BY DEF Verdict, Done

\* A stanza is sent that opens no stream.
PostsOther == \E m : Posts(m) /\ m.of # "open"

\* The incoming job does not move, and no stream is opened.
Still ==
    /\ par' = par /\ inc' = inc /\ (out.method # "none" => out'.method # "none")
    /\ \/ toPeer' = toPeer
       \/ toPeer' = <<>>
       \/ PostsOther

LEMMA StillKeeps ==
    ASSUME Shape, Completed, Still
    PROVE  Completed' /\ Promised
<1>1. Verdict' = Verdict
  BY VerdictKept DEF Still
<1>2. /\ \A x \in Later' : x.of # "open" \/ x \in Later
      /\ \A x \in Msgs(toPeer') : x.of # "open" \/ x \in Msgs(toPeer)
  <2>1. CASE toPeer' = toPeer
    BY <2>1, LaterIs
  <2>2. CASE toPeer' = <<>>
    BY <2>2, LaterIs, Underway
  <2>3. ASSUME NEW m, Posts(m), m.of # "open"
        PROVE  /\ \A x \in Later' : x.of # "open" \/ x \in Later
               /\ \A x \in Msgs(toPeer') : x.of # "open" \/ x \in Msgs(toPeer)
    BY <2>3, LaterIs, Underway
  <2> QED BY <2>1, <2>2, <2>3 DEF Still, PostsOther
<1>3. Completed'
  BY <1>1, <1>2 DEF Completed, OpenFirst, CompleteIsWhole, Still
<1>4. Promised
  BY <1>1 DEF Promised, Stays, Still
<1> QED BY <1>3, <1>4

\* The incoming job does not write, and its verdict stays or becomes "failed".
Fails ==
    /\ par' = par /\ inc'.written = inc.written /\ out'.method = out.method
    /\ toPeer' = toPeer \/ (toPeer # <<>> /\ toPeer' = Tail(toPeer))
    /\ Verdict' = Verdict \/ (Verdict # "complete" /\ Verdict' = "failed")
    /\ Verdict = "complete" => inc'.state = "finished" /\ inc'.step \notin Candidate

LEMMA FailsKeeps ==
    ASSUME Shape, Completed, Fails
    PROVE  Completed' /\ Promised
<1>1. /\ \A x \in Later' : x \in Later
      /\ \A x \in Msgs(toPeer') : x \in Msgs(toPeer)
  BY LaterIs DEF Fails
<1>2. Completed'
  BY <1>1 DEF Completed, OpenFirst, CompleteIsWhole, Fails
<1>3. Promised
  BY DEF Promised, Stays, Concludes, Fails
<1> QED BY <1>2, <1>3

\* The incoming job has checked what it has written.
LEMMA CheckedVerdict ==
    ASSUME NEW job, Checked(job, inc'), par' = par, job.device # "none"
    PROVE  /\ inc'.written = job.written /\ inc'.state = "finished"
           /\ inc'.step = (IF job.state # "finished" /\ job.step = "open" THEN "closed" ELSE job.step)
           /\ job.state # "finished" =>
                /\ Verdict' \in {"failed", "complete"}
                /\ Verdict' = "complete" => job.written = File(par.blocks)
           /\ job.state = "finished" => inc'.device = job.device /\ inc'.error = job.error
<1>1. PICK cause : /\ EndedInc(job, inc', cause)
                   /\ cause = "NoError" /\ par.announced => job.written = File(par.blocks)
  BY DEF Checked
<1>2. /\ inc'.written = job.written /\ inc'.state = "finished"
      /\ inc'.step = (IF job.state # "finished" /\ job.step = "open" THEN "closed" ELSE job.step)
      /\ job.state = "finished" => inc'.device = job.device /\ inc'.error = job.error
      /\ job.state # "finished" => inc'.device = "closed" /\ inc'.error = cause
  BY <1>1 DEF EndedInc
<1>3. ASSUME job.state # "finished"
      PROVE  /\ Verdict' \in {"failed", "complete"}
             /\ Verdict' = "complete" => job.written = File(par.blocks)
  BY <1>1, <1>2, <1>3 DEF Verdict
<1> QED BY <1>2, <1>3

LEMMA FileLength == \A n \in Nat : Len(File(n)) = n
  BY DEF File

\* Every step is one of the promise, and a verdict "complete" is final.
LEMMA CompletedKept ==
    ASSUME Shape, Shape', Offered, Kind, InBand, OverSocks, Completed, Written', TransferNext
    PROVE  Completed' /\ Promised
<1>1. par' = par /\ (toPeer # <<>> => Head(toPeer) \in Msgs(toPeer))
  BY ParStays, Underway
<1>2. par.blocks \in Nat /\ Len(inc.written) \in Nat /\ Len(inc'.written) \in Nat
  BY DEF Shape, IncShape
<1>3. \A type, of, n : Msg(type, of, n).of = of
  BY MsgIs
<1>4. Verdict = "complete" => inc.state = "finished" /\ inc.step \notin Candidate
                              /\ \A m \in Msgs(toPeer) : m.of # "open"
  BY DEF Completed, CompleteIsWhole
<1>5. Len(inc'.written) <= par.blocks
  <2>1. out'.read \in Nat
    BY DEF Shape, OutShape
  <2>2. out'.read <= par.blocks /\ Len(inc'.written) <= out'.read
    BY <1>1 DEF Written
  <2> QED BY <2>1, <2>2, <1>2
<1>6. \A type, of, n : Posts(Msg(type, of, n)) /\ of # "open" => PostsOther
  <2> TAKE type, of, n
  <2> HAVE Posts(Msg(type, of, n)) /\ of # "open"
  <2>1. Msg(type, of, n).of = of
    BY <1>3
  <2> QED BY <2>1 DEF PostsOther
<1>7. inc.device = "none" => inc.written = <<>> /\ out.method = "none" /\ Verdict # "complete"
  BY VerdictIs DEF Offered, Untaken
<1>11. CASE SendFile
  <2>1. Still
    BY <1>11, SendFileStep, <1>1, <1>6 DEF Still, EndedOut, Going
  <2> QED BY <2>1, StillKeeps
<1>12. CASE OfferAccepted
  <2>1. CASE UNCHANGED <<out, toPeer, hosts, pipe>>
    <3>1. Still
      BY <1>12, OfferAcceptedStep, <2>1, <1>1 DEF Still
    <3> QED BY <3>1, StillKeeps
  <2>2. CASE ~UNCHANGED <<out, toPeer, hosts, pipe>>
    <3>1. out.state = "offer" /\ out.method = "none" /\ toUs # <<>>
          /\ Head(toUs).type = "result" /\ Head(toUs).of = "offer"
      BY <1>12, OfferAcceptedStep, <2>2 DEF Offered, Unanswered
    <3>2. inc.device # "none"
      BY <3>1, Underway DEF Offered, Untaken
    <3>3. toPeer = <<>>
      BY <3>1, <3>2, Underway DEF Offered, Unanswered, OfferFirst, DeviceUsed
    <3>4. Verdict # "complete" /\ Verdict' = Verdict /\ inc' = inc
      BY <1>12, OfferAcceptedStep, <3>1, VerdictKept DEF Completed, CompleteIsWhole
    <3>5. \A m \in Later' : FALSE
      BY <1>12, OfferAcceptedStep, <3>3, LaterIs
    <3>6. Completed'
      BY <3>4, <3>5 DEF Completed, OpenFirst, CompleteIsWhole
    <3> QED BY <3>4, <3>6 DEF Promised, Stays
  <2> QED BY <2>1, <2>2
<1>13. CASE ProxyAnswers
  <2>1. Still
    BY <1>13, ProxyAnswersStep, <1>1, <1>6 DEF Still, Going, EndedOut
  <2> QED BY <2>1, StillKeeps
<1>14. CASE IbbResponse
  <2>1. Still
    BY <1>14, IbbResponseStep, <1>1, <1>6 DEF Still, Going
  <2> QED BY <2>1, StillKeeps
<1>15. CASE PeerRefused
  <2>1. Still
    BY <1>15, PeerRefusedStep, <1>1, <1>2 DEF Still, EndedOut
  <2> QED BY <2>1, StillKeeps
<1>16. CASE HostUsed
  <2>1. Still
    BY <1>16, HostUsedStep, <1>1, <1>2 DEF Still, Sends, EndedOut
  <2> QED BY <2>1, StillKeeps
<1>17. CASE ProxyReady
  <2>1. Still
    BY <1>17, ProxyReadyStep, <1>1, <1>2 DEF Still
  <2> QED BY <2>1, StillKeeps
<1>18. CASE Activated
  <2>1. Still
    BY <1>18, ActivatedStep, <1>1, <1>2 DEF Still, Sends, EndedOut
  <2> QED BY <2>1, StillKeeps
<1>19. CASE BytesWritten
  <2>1. Still
    BY <1>19, BytesWrittenStep, <1>1, <1>2 DEF Still, Sends
  <2> QED BY <2>1, StillKeeps
<1>20. CASE OutDisconnected
  <2>1. Still
    BY <1>20, OutDisconnectedStep, <1>1, <1>2 DEF Still
  <2> QED BY <2>1, StillKeeps
<1>21. CASE OutTerminated
  <2>1. Still
    BY <1>21, OutTerminatedStep, <1>1, <1>6 DEF Still, Going
  <2> QED BY <2>1, StillKeeps
<1>22. CASE AbortOut
  <2>1. Still
    BY <1>22, AbortOutStep, <1>1, <1>2 DEF Still, EndedOut
  <2> QED BY <2>1, StillKeeps
<1>23. CASE OfferArrives
  <2>1. par' = par /\ out' = out /\ toPeer # <<>> /\ toPeer' = Tail(toPeer)
    BY <1>23, OfferArrivesStep
  <2>2. inc.state = "none" /\ inc.device = "none"
    BY <1>1, <1>23, OfferArrivesStep DEF Offered, OfferFirst, DeviceUsed
  <2>3. inc' = inc \/ (inc'.state = "offer" /\ inc'.device = inc.device /\ inc'.written = inc.written)
    BY <1>23, OfferArrivesStep DEF Holding
  <2>4. Verdict # "complete" /\ Verdict' = Verdict
    BY <2>1, <2>2, <2>3 DEF Verdict, Done
  <2>5. Fails
    BY <2>1, <2>3, <2>4 DEF Fails
  <2> QED BY <2>5, FailsKeeps
<1>24. CASE UserAccepts
  <2>1. Fails
    BY <1>24, UserAcceptsStep, VerdictIs, <1>1, <1>3, <1>4 DEF Fails, Verdict, Done, Completed,
       CompleteIsWhole, Offered, DeviceUsed, Untaken, Holding
  <2> QED BY <2>1, FailsKeeps
<1>25. CASE IncTerminated
  <2>1. Fails
    BY <1>25, IncTerminatedStep, VerdictIs, <1>1, <1>3, <1>4 DEF Fails, Verdict, Done,
       Completed, CompleteIsWhole, Offered, DeviceUsed, Untaken, Holding
  <2> QED BY <2>1, FailsKeeps
<1>26. CASE IbbOpen
  <2>1. par' = par /\ out' = out /\ toPeer # <<>> /\ toPeer' = Tail(toPeer)
        /\ Head(toPeer) \in Msgs(toPeer) /\ Head(toPeer).of = "open"
    BY <1>1, <1>26, IbbOpenStep
  <2>2. Verdict # "complete" /\ out.method # "none"
    BY <2>1, <1>4 DEF Offered, Unanswered
  <2>3. inc.device # "none"
    BY <2>2, <1>7
  <2>4. inc' = inc \/ (/\ inc'.state = "transfer" /\ inc'.device = inc.device
                      /\ inc'.written = inc.written /\ inc'.error = inc.error)
    BY <1>26, IbbOpenStep DEF Holding
  <2>5. CASE inc.device = "closed" \/ inc' = inc
    <3>1. Verdict' = Verdict
      BY <2>1, <2>4, <2>5, VerdictKept
    <3>2. Fails
      BY <2>1, <2>2, <2>4, <3>1 DEF Fails
    <3> QED BY <3>2, FailsKeeps
  <2>6. CASE inc.device = "open" /\ inc' # inc
    <3>1. Verdict' = Verdict
      BY <2>4, <2>6 DEF Verdict, Done, Offered, DeviceUsed
    <3>2. Fails
      BY <2>1, <2>2, <2>4, <2>6, <3>1 DEF Fails
    <3> QED BY <3>2, FailsKeeps
  <2> QED BY <2>3, <2>5, <2>6 DEF Offered, DeviceUsed
<1>27. CASE IbbData
  <2>1. /\ par' = par /\ out'.method = out.method /\ toPeer # <<>> /\ toPeer' = Tail(toPeer)
    BY <1>27, IbbDataStep
  <2>2. CASE inc' = inc
    <3>1. Fails
      BY <2>1, <2>2, VerdictKept, <1>3 DEF Fails, Completed, CompleteIsWhole
    <3> QED BY <3>1, FailsKeeps
  <2>3. CASE inc' # inc /\ inc.device # "open"
    <3>1. /\ inc'.written = inc.written /\ inc'.device = inc.device /\ inc'.error = inc.error
          /\ inc'.state = inc.state /\ inc'.step = inc.step
      BY <1>27, <2>3, IbbDataStep DEF Writes
    <3>2. Verdict' = Verdict
      BY <2>1, <3>1, VerdictKept
    <3>3. Fails
      BY <2>1, <3>1, <3>2 DEF Fails, Completed, CompleteIsWhole
    <3> QED BY <3>3, FailsKeeps
  <2>4. CASE inc' # inc /\ inc.device = "open"
    <3>1. inc'.device = "open" /\ inc.state = "transfer" /\ inc'.state = "transfer"
          /\ Writes(inc, inc', <<inc.seq + 1>>)
      BY <1>27, <2>4, IbbDataStep, BlockTaken DEF Writes
    <3>2. Verdict = "open" /\ Verdict' = "open"
      BY <2>4, <3>1 DEF Verdict, Done
    <3>3. Len(inc.written) <= Len(inc'.written)
      <4>1. inc'.written = Append(inc.written, inc.seq + 1)
        BY <2>4, <3>1 DEF Writes, Shape, IncShape
      <4> QED BY <4>1 DEF Shape, IncShape
    <3>4. Delivers
      BY <2>1, <3>2, <3>3, <1>2, <1>5 DEF Delivers
    <3>5. Completed'
      BY <2>1, <3>2, LaterIs DEF Completed, OpenFirst, CompleteIsWhole
    <3> QED BY <3>4, <3>5 DEF Promised
  <2> QED BY <2>2, <2>3, <2>4
<1>28. CASE IbbClose
  <2>1. /\ par' = par /\ out' = out /\ toPeer # <<>> /\ toPeer' = Tail(toPeer)
        /\ Head(toPeer).of = "close" /\ Checked(inc, inc')
    BY <1>28, IbbCloseStep
  <2>2. out.method # "none" /\ inc.device # "none" /\ inc.step \notin Candidate
    <3>1. out.method # "none" /\ par.method = "ibb"
      BY <2>1, Underway DEF Offered, Unanswered, Kind
    <3> QED BY <3>1 DEF Offered, Untaken, Kind, Candidate
  <2>3. CASE inc.state = "finished"
    <3>1. /\ inc'.written = inc.written /\ inc'.device = inc.device /\ inc'.error = inc.error
          /\ inc'.state = inc.state /\ inc'.step = inc.step
      BY <2>1, <2>2, <2>3, CheckedVerdict
    <3>2. Verdict' = Verdict
      BY <2>1, <3>1, VerdictKept
    <3>3. Fails
      BY <2>1, <3>1, <3>2 DEF Fails, Completed, CompleteIsWhole
    <3> QED BY <3>3, FailsKeeps
  <2>4. CASE inc.state # "finished"
    <3>1. /\ inc'.written = inc.written /\ inc'.state = "finished"
          /\ inc'.step \in {inc.step, "closed"}
          /\ Verdict' \in {"failed", "complete"}
          /\ Verdict' = "complete" => inc.written = File(par.blocks)
      BY <2>1, <2>2, <2>4, CheckedVerdict
    <3>2. Verdict # "complete"
      BY <2>4 DEF Completed, CompleteIsWhole
    <3>3. Concludes
      BY <3>1, <3>2, <1>2, FileLength DEF Concludes
    <3>4. Msgs(toPeer') = Later /\ \A x \in Later' : x \in Later
      BY <2>1, LaterIs
    <3>5. inc'.step \notin Candidate
      BY <2>2, <3>1 DEF Candidate
    <3>6. Completed'
      BY <2>1, <2>2, <3>1, <3>4, <3>5 DEF Completed, OpenFirst, CompleteIsWhole
    <3> QED BY <3>3, <3>6 DEF Promised
  <2> QED BY <2>3, <2>4
<1>29. CASE HostsArrive
  <2>1. Fails
    BY <1>29, HostsArriveStep, VerdictIs, <1>1, <1>3, <1>4 DEF Fails, Verdict, Done, Completed,
       CompleteIsWhole, Offered, DeviceUsed, Untaken, NextHostTaken
  <2> QED BY <2>1, FailsKeeps
<1>30. CASE CandidateProceeds
  <2>1. Fails
    BY <1>30, CandidateProceedsStep, VerdictIs, <1>1, <1>3, <1>4 DEF Fails, Verdict, Done,
       Completed, CompleteIsWhole, Offered, DeviceUsed, Untaken, Holding, Candidate
  <2> QED BY <2>1, FailsKeeps
<1>31. CASE CandidateServed
  <2>1. Fails
    BY <1>31, CandidateServedStep, VerdictIs, <1>1, <1>3, <1>4 DEF Fails, Verdict, Done,
       Completed, CompleteIsWhole, Offered, DeviceUsed, Untaken, Holding, Candidate
  <2> QED BY <2>1, FailsKeeps
<1>32. CASE CandidateReady
  <2>1. /\ par' = par /\ out' = out /\ toPeer' = toPeer /\ inc.step = "reply"
        /\ inc'.state = "transfer" /\ inc'.device = inc.device
        /\ inc'.written = inc.written /\ inc'.error = inc.error
    BY <1>32, CandidateReadyStep DEF Holding
  <2>2. Verdict # "complete" /\ inc.device # "none"
    BY <2>1, <1>4 DEF Candidate, Offered, Untaken
  <2>3. Verdict' = Verdict
    <3>1. CASE inc.device = "closed"
      BY <2>1, <3>1, VerdictKept
    <3>2. CASE inc.device = "open"
      BY <2>1, <3>2 DEF Verdict, Done, Offered, DeviceUsed
    <3> QED BY <2>2, <3>1, <3>2 DEF Offered, DeviceUsed
  <2>4. Fails
    BY <2>1, <2>2, <2>3 DEF Fails
  <2> QED BY <2>4, FailsKeeps
<1>33. CASE CandidateDisconnected \/ CandidateTimeout
  <2>1. Fails
    BY <1>33, CandidateLostStep, VerdictIs, <1>1, <1>3, <1>4 DEF Fails, Verdict, Done,
       Completed, CompleteIsWhole, Offered, DeviceUsed, Untaken, NextHostTaken, Candidate
  <2> QED BY <2>1, FailsKeeps
<1>34. CASE DoomedDeleted
  <2>1. Fails
    BY <1>34, DoomedDeletedStep, VerdictIs, <1>1, <1>3, <1>4 DEF Fails, Verdict, Done,
       Completed, CompleteIsWhole, Offered, DeviceUsed, Untaken, NextHostTaken, Holding
  <2> QED BY <2>1, FailsKeeps
<1>35. CASE ReceiveData
  <2>1. par' = par /\ out' = out /\ toPeer' = toPeer /\ inc.step = "open"
    BY <1>35, ReceiveDataStep
  <2>2. inc.device # "none" /\ out.method # "none" /\ \A m \in Msgs(toPeer) : m.of # "open"
    BY <2>1 DEF Offered, Untaken, Unanswered, Kind
  <2>3. CASE inc' = inc
    <3>1. Still
      BY <2>1, <2>3 DEF Still
    <3> QED BY <3>1, StillKeeps
  <2>4. ASSUME NEW k \in 1 .. Len(pipe), NEW job, inc.state = "transfer",
               Writes(inc, job, SubSeq(pipe, 1, k)), inc' = job \/ Checked(job, inc')
        PROVE  Completed' /\ Promised
    <3>1. /\ job.state = "transfer" /\ job.error = inc.error /\ job.device = inc.device
          /\ job.step = "open" /\ inc.step = "open"
      BY <2>1, <2>4 DEF Writes
    <3>2. Later' = Later
      BY <2>1, LaterIs
    <3>3. inc'.written = job.written /\ inc'.step \notin Candidate
      BY <2>1, <2>2, <2>4, <3>1, CheckedVerdict DEF Candidate
    <3>4. inc' = job \/ (/\ Verdict' \in {"failed", "complete"} /\ inc'.state = "finished"
                         /\ Verdict' = "complete" => inc'.written = File(par.blocks))
      BY <2>1, <2>2, <2>4, <3>1, CheckedVerdict
    <3>5. Verdict # "complete"
      BY <2>4 DEF Completed, CompleteIsWhole
    <3>6. inc' = job => Verdict' = Verdict
      BY <2>1, <2>4, <3>1, VerdictKept
    <3>7. Completed'
      BY <2>1, <2>2, <3>2, <3>3, <3>4, <3>5, <3>6 DEF Completed, OpenFirst, CompleteIsWhole
    <3>8. CASE inc.device = "open"
      <4>1. Verdict = "open"
        BY <2>4, <3>8 DEF Verdict, Done
      <4>2. Len(inc.written) <= Len(inc'.written)
        <5>1. inc'.written = inc.written \o SubSeq(pipe, 1, k)
          BY <2>4, <3>3, <3>8 DEF Writes
        <5>2. SubSeq(pipe, 1, k) \in Seq(Nat) /\ inc.written \in Seq(Nat)
          <6>1. k \in 0 .. Len(pipe) /\ pipe \in Seq(Nat) /\ inc.written \in Seq(Nat)
            BY DEF Shape, IncShape
          <6> QED BY <6>1, Halves
        <5>3. Len(inc'.written) = Len(inc.written) + Len(SubSeq(pipe, 1, k))
              /\ Len(SubSeq(pipe, 1, k)) \in Nat
          BY <5>1, <5>2, Joins
        <5> QED BY <5>3, <1>2
      <4>3. Verdict' \in {"open", "failed"} \/ (Verdict' = "complete" /\ Len(inc'.written) = par.blocks)
        BY <3>4, <3>6, <4>1, <1>2, FileLength
      <4>4. Delivers
        BY <2>1, <4>1, <4>2, <4>3, <1>2, <1>5 DEF Delivers
      <4> QED BY <3>7, <4>4 DEF Promised
    <3>9. CASE inc.device # "open"
      <4>1. inc'.written = inc.written
        BY <2>4, <3>3, <3>9 DEF Writes
      <4>2. Stays \/ Concludes
        BY <3>4, <3>5, <3>6, <4>1, <1>2, FileLength DEF Stays, Concludes
      <4> QED BY <3>7, <4>2 DEF Promised
    <3> QED BY <3>8, <3>9
  <2> QED BY <1>35, <2>3, <2>4, ReceiveDataStep
<1>36. CASE IncDisconnected
  <2>1. PICK job : /\ job.step = "closed" /\ job.state = inc.state /\ job.device = inc.device
                   /\ Holding(inc, job)
                   /\ \/ inc.state = "finished" /\ inc' = job
                      \/ inc.state # "finished" /\ Checked(job, inc')
    BY <1>36, IncDisconnectedStep
  <2>2. par' = par /\ out' = out /\ toPeer' = toPeer /\ inc.step = "open"
    BY <1>36, IncDisconnectedStep
  <2>3. inc.device # "none" /\ out.method # "none" /\ \A m \in Msgs(toPeer) : m.of # "open"
    BY <2>2 DEF Offered, Untaken, Unanswered, Kind
  <2>4. "closed" \notin Candidate
    BY DEF Candidate
  <2>5. CASE inc.state = "finished"
    <3>1. Verdict' = Verdict
      BY <2>1, <2>2, <2>5, VerdictKept DEF Holding
    <3>2. Fails
      BY <2>1, <2>2, <2>4, <2>5, <3>1 DEF Fails, Holding
    <3> QED BY <3>2, FailsKeeps
  <2>6. CASE inc.state # "finished"
    <3>1. /\ inc'.written = inc.written /\ inc'.state = "finished" /\ inc'.step = "closed"
          /\ Verdict' \in {"failed", "complete"}
          /\ Verdict' = "complete" => inc.written = File(par.blocks)
      BY <2>1, <2>2, <2>3, <2>6, CheckedVerdict DEF Holding
    <3>2. Verdict # "complete"
      BY <2>6 DEF Completed, CompleteIsWhole
    <3>3. Concludes
      BY <3>1, <3>2, <1>2, FileLength DEF Concludes
    <3>4. Later' = Later
      BY <2>2, LaterIs
    <3>5. Completed'
      BY <2>2, <2>3, <2>4, <3>1, <3>4 DEF Completed, OpenFirst, CompleteIsWhole
    <3> QED BY <3>3, <3>5 DEF Promised
  <2> QED BY <2>5, <2>6
<1>37. CASE AbortInc
  <2>1. Fails
    BY <1>37, AbortIncStep, VerdictIs, <1>1, <1>3, <1>4 DEF Fails, Verdict, Done, Completed,
       CompleteIsWhole, Offered, DeviceUsed, Untaken, EndedInc
  <2> QED BY <2>1, FailsKeeps
<1>38. CASE StanzasLost
  <2>1. Still
    BY <1>38 DEF StanzasLost, Still
  <2> QED BY <2>1, StillKeeps
<1>39. CASE ConnectionBreaks
  <2>1. Still
    BY <1>39 DEF ConnectionBreaks, Still
  <2> QED BY <2>1, StillKeeps
<1>40. CASE ProxyFails
  <2>1. Still
    BY <1>40, ProxyFailsStep, <1>1, <1>2 DEF Still, EndedOut
  <2> QED BY <2>1, StillKeeps
<1> QED
  BY <1>11, <1>12, <1>13, <1>14, <1>15, <1>16, <1>17, <1>18, <1>19, <1>20, <1>21, <1>22, <1>23,
       <1>24, <1>25, <1>26, <1>27, <1>28, <1>29, <1>30, <1>31, <1>32, <1>33, <1>34, <1>35, <1>36,
          <1>37, <1>38, <1>39, <1>40
    DEF TransferNext, StanzaStep, SocketStep, PostedStep

-----------------------------------------------------------------------------
(* All together. *)

\* What is known of a transfer at any time.
TransferInv ==
    Shape /\ Offered /\ Kind /\ InBand /\ OverSocks /\ Written /\ Chained /\ Completed

\* A transfer begins with nothing offered and nothing written.
LEMMA TransferBegins ==
    ASSUME TransferInit
    PROVE  TransferInv /\ Promise!Init
<1>1. /\ par.blocks \in 0 .. MaxBlocks /\ par.blocks \in Nat /\ par.direct \in Nat
  BY TransferAssumption DEF TransferInit
<1>2. /\ toPeer = <<>> /\ toUs = <<>> /\ pipe = <<>> /\ hosts = <<>> /\ cut = FALSE
      /\ out.state = "none" /\ out.method = "none" /\ out.read = 0 /\ out.request = <<"none", 0>>
      /\ out.sock = "none" /\ out.buf = <<>> /\ out.error = "NoError"
      /\ inc.state = "none" /\ inc.device = "none" /\ inc.written = <<>> /\ inc.seq = 0
      /\ inc.step = "none"
  BY DEF TransferInit
<1>3. Shape
  <2>1. <<"none", 0>> \in Asked \X Nat
    BY DEF Asked
  <2>2. OutShape(out)
    BY <1>2, <2>1 DEF TransferInit, OutShape, OutFields
  <2>3. IncShape(inc)
    BY <1>2 DEF TransferInit, IncShape, IncFields
  <2>4. /\ toPeer \in Wire /\ toUs \in Wire /\ pipe \in Seq(Nat) /\ hosts \in Seq(HostKinds)
    BY <1>2 DEF Wire
  <2> QED BY <1>1, <2>2, <2>3, <2>4 DEF Shape
<1>4. Msgs(toPeer) = {} /\ Msgs(toUs) = {} /\ Later = {} /\ Len(toUs) = 0 /\ Len(pipe) = 0
      /\ Len(out.buf) = 0 /\ Len(inc.written) = 0 /\ out.request[1] = "none"
  BY <1>2, <1>3, Underway, RequestIs DEF Later
<1>5. Offered /\ Kind
  BY <1>2, <1>4 DEF Offered, Unsent, OfferFirst, DeviceUsed, Untaken, Unanswered, Kind
<1>6. InBand
  BY <1>1, <1>2, <1>4 DEF InBand, Counted, Asking, AnswersCounted, BlocksCounted
<1>7. OverSocks
  <2>1. ~Used /\ ~Ran /\ Fresh /\ Buffered /\ Once
    BY <1>2, <1>4 DEF Used, Ran, Fresh, Buffered, Once
  <2> QED BY <1>2, <1>4, <2>1 DEF OverSocks, FreshBefore, NotYet, RanState, UsedAlone, Dialing
<1>8. Written /\ Chained
  BY <1>1, <1>2, <1>4 DEF Written, Chained
<1>9. Verdict = "open"
  BY <1>2 DEF Verdict, Done
<1>10. Completed
  BY <1>4, <1>9 DEF Completed, OpenFirst, CompleteIsWhole
<1>11. Promise!Init
  BY <1>1, <1>4, <1>9 DEF Promise!Init
<1> QED BY <1>3, <1>5, <1>6, <1>7, <1>8, <1>10, <1>11 DEF TransferInv

\* Every step of a transfer keeps to what is known of it, and is a step of the promise.
LEMMA TransferMoves ==
    ASSUME TransferInv, TransferNext
    PROVE  TransferInv' /\ Promised /\ par' = par
<1> USE DEF TransferInv
<1>1. Shape'
  BY ShapeKept
<1>2. Offered' /\ Kind' /\ InBand' /\ OverSocks' /\ Written' /\ Chained'
  BY OfferedKept, KindKept, InBandKept, OverSocksKept, WrittenKept
<1>3. Completed' /\ Promised
  BY <1>1, <1>2, CompletedKept
<1> QED BY <1>1, <1>2, <1>3, ParStays

\* The three kinds of steps are those of Delivery.
LEMMA PromiseMoves ==
    ASSUME Promised, par' = par
    PROVE  [Promise!Next]_(Promise!dvars)
<1>1. CASE Stays
  BY <1>1 DEF Stays, Promise!dvars
<1>2. CASE Delivers
  BY <1>2 DEF Delivers, Promise!Next, Promise!Deliver
<1>3. CASE Concludes
  BY <1>3 DEF Concludes, Promise!Next, Promise!Conclude
<1> QED BY <1>1, <1>2, <1>3 DEF Promised

\* Where the transfer does not move, nothing of it changes.
LEMMA TransferRests ==
    ASSUME TransferInv, UNCHANGED transferVars
    PROVE  TransferInv' /\ UNCHANGED Promise!dvars
<1>1. /\ par' = par /\ out' = out /\ inc' = inc /\ toPeer' = toPeer /\ toUs' = toUs
      /\ pipe' = pipe /\ hosts' = hosts /\ cut' = cut /\ disturbed' = disturbed
  BY DEF transferVars
<1>2. Shape' /\ Kind' /\ Written' /\ Chained'
  BY <1>1 DEF TransferInv, Shape, Kind, Written, Chained
<1>3. Offered'
  BY <1>1 DEF TransferInv, Offered, Unsent, OfferFirst, DeviceUsed, Untaken, Unanswered
<1>4. InBand'
  BY <1>1 DEF TransferInv, InBand, Counted, Asking, AnswersCounted, BlocksCounted
<1>5. OverSocks'
  <2>1. (Used' <=> Used) /\ (Ran' <=> Ran) /\ (Fresh' <=> Fresh) /\ (Once' <=> Once)
    BY <1>1 DEF Used, Ran, Fresh, Once
  <2> QED BY <1>1, <2>1 DEF TransferInv, OverSocks, FreshBefore, NotYet, RanState, UsedAlone,
     Dialing, Buffered
<1>6. Completed' /\ UNCHANGED Promise!dvars
  BY <1>1 DEF TransferInv, Completed, OpenFirst, CompleteIsWhole, Later, Verdict, Done,
     Promise!dvars
<1> QED BY <1>2, <1>3, <1>4, <1>5, <1>6 DEF TransferInv

\* Blocks are written one by one in their order (QXmppTransferManager.cpp:976).
LEMMA WrittenInOrderHolds == TransferInv => WrittenInOrder
<1> SUFFICES ASSUME TransferInv PROVE WrittenInOrder
    OBVIOUS
<1>1. out.read \in Nat /\ par.blocks \in Nat /\ inc.written \in Seq(Nat) /\ Len(inc.written) \in Nat
  BY DEF TransferInv, Shape, OutShape, IncShape
<1>2. out.read <= par.blocks /\ Len(inc.written) <= out.read
  BY DEF TransferInv, Written
<1>3. Len(inc.written) <= par.blocks
  BY <1>1, <1>2
<1>4. inc.written = [i \in 1 .. Len(inc.written) |-> inc.written[i]]
  BY <1>1
<1>5. \A i \in 1 .. Len(inc.written) : inc.written[i] = i
  BY DEF TransferInv, Written
<1> QED BY <1>3, <1>4, <1>5 DEF WrittenInOrder, File

HIDE DEF Posts, Answers

-----------------------------------------------------------------------------
(* A transfer whatever happens to it. *)

\* A step of the transfer or of anything else keeps what is known of the transfer.
LEMMA StreamsStep ==
    ASSUME TransferInv, [Next]_vars
    PROVE  TransferInv' /\ [Promise!Next]_(Promise!dvars)
<1>1. CASE TransferNext
  BY <1>1, TransferMoves, PromiseMoves
<1>2. CASE UNCHANGED transferVars
  BY <1>2, TransferRests
<1> QED BY <1>1, <1>2 DEF Next, NotTypes, NotAudio, NotVideo, vars

\* What is known of a transfer holds at any time, of QXmppTransferManager.cpp with files of any
\* length, any number of hosts, and stanzas and connections that are lost.
THEOREM TransferInvCorrect == Spec => []TransferInv
<1>1. Init => TransferInv
  BY TransferBegins DEF Init
<1>2. TransferInv /\ [Next]_vars => TransferInv'
  BY StreamsStep
<1> QED BY <1>1, <1>2, PTL DEF Spec

\* The transfer implements Delivery: the receiving party has a beginning of the file, is told
\* "complete" of the whole file only, and for good (QXmppTransferManager.cpp:404).
THEOREM KeepsPromiseCorrect == Spec => KeepsPromise
<1>1. Init => Promise!Init
  BY TransferBegins DEF Init
<1>2. TransferInv /\ [Next]_vars => [Promise!Next]_(Promise!dvars)
  BY StreamsStep
<1> QED BY <1>1, <1>2, TransferInvCorrect, PTL DEF Spec, KeepsPromise, Promise!Spec

\* At any time what was written is a beginning of the file (QXmppTransferManager.cpp:976): over
\* either method blocks are neither lost nor doubled nor swapped, however the ends cross.
THEOREM WrittenInOrderCorrect == Spec => []WrittenInOrder
  BY TransferInvCorrect, WrittenInOrderHolds, PTL

-----------------------------------------------------------------------------
(* A transfer nobody interferes with, in band. *)

\* There is one stanza about a subject under way at most.
Alone(s, of) == \A i, j \in 1 .. Len(s) : s[i].of = of /\ s[j].of = of => i = j

\* What the stanzas that a step sends or takes change of that.
LEMMA AloneKept ==
    ASSUME Shape, NEW of, Alone(toPeer, of)
    PROVE  /\ toPeer' = toPeer \/ toPeer' = <<>> => Alone(toPeer', of)
           /\ toPeer # <<>> /\ toPeer' = Tail(toPeer) => Alone(toPeer', of)
           /\ \A m : Posts(m) /\ (m.of = of => \A x \in Msgs(toPeer) : x.of # of) => Alone(toPeer', of)
           /\ toPeer # <<>> /\ Head(toPeer).of = of /\ toPeer' = Tail(toPeer) =>
                \A x \in Msgs(toPeer') : x.of # of
<1>1. toPeer \in Wire /\ Len(toPeer) \in Nat
  BY DEF Shape, Wire
<1>2. toPeer' = toPeer \/ toPeer' = <<>> => Alone(toPeer', of)
  BY DEF Alone
<1>3. ASSUME toPeer # <<>>, toPeer' = Tail(toPeer)
      PROVE  Alone(toPeer', of) /\ (Head(toPeer).of = of => \A x \in Msgs(toPeer') : x.of # of)
  <2>1. /\ Len(toPeer') = Len(toPeer) - 1 /\ Len(toPeer) > 0 /\ Head(toPeer) = toPeer[1]
        /\ \A i \in 1 .. Len(toPeer) - 1 : toPeer'[i] = toPeer[i + 1]
    BY <1>1, <1>3, Taken
  <2>2. ASSUME NEW i \in 1 .. Len(toPeer'), NEW j \in 1 .. Len(toPeer'),
               toPeer'[i].of = of, toPeer'[j].of = of
        PROVE  i = j
    <3>1. /\ i + 1 \in 1 .. Len(toPeer) /\ j + 1 \in 1 .. Len(toPeer)
          /\ toPeer'[i] = toPeer[i + 1] /\ toPeer'[j] = toPeer[j + 1]
      BY <1>1, <2>1
    <3>2. i + 1 = j + 1
      BY <2>2, <3>1 DEF Alone
    <3> QED BY <3>2
  <2>3. Alone(toPeer', of)
    BY <2>2 DEF Alone
  <2>4. ASSUME Head(toPeer).of = of, NEW x \in Msgs(toPeer'), x.of = of  PROVE  FALSE
    <3>1. PICK i \in 1 .. Len(toPeer') : x = toPeer'[i]
      BY DEF Msgs
    <3>2. i + 1 \in 1 .. Len(toPeer) /\ 1 \in 1 .. Len(toPeer) /\ toPeer'[i] = toPeer[i + 1]
      BY <1>1, <2>1
    <3>3. i + 1 = 1
      BY <2>1, <2>4, <3>1, <3>2 DEF Alone
    <3> QED BY <3>3
  <2> QED BY <2>3, <2>4
<1>4. ASSUME NEW m, Posts(m), m.of = of => \A x \in Msgs(toPeer) : x.of # of  PROVE  Alone(toPeer', of)
  <2>1. /\ Len(toPeer') = Len(toPeer) + 1 /\ toPeer'[Len(toPeer) + 1] = m
        /\ \A i \in 1 .. Len(toPeer) : toPeer'[i] = toPeer[i]
    BY <1>1, <1>4, Added DEF Posts
  <2>2. ASSUME NEW i \in 1 .. Len(toPeer), toPeer[i].of = of  PROVE  \E x \in Msgs(toPeer) : x.of = of
    BY <2>2 DEF Msgs
  <2>3. ASSUME NEW i \in 1 .. Len(toPeer'), NEW j \in 1 .. Len(toPeer'),
               toPeer'[i].of = of, toPeer'[j].of = of
        PROVE  i = j
    <3>1. CASE i \in 1 .. Len(toPeer) /\ j \in 1 .. Len(toPeer)
      BY <2>1, <2>3, <3>1 DEF Alone
    <3>2. CASE i = Len(toPeer) + 1 /\ j = Len(toPeer) + 1
      BY <3>2
    <3>3. CASE i \in 1 .. Len(toPeer) /\ j = Len(toPeer) + 1
      BY <1>4, <2>1, <2>2, <2>3, <3>3
    <3>4. CASE j \in 1 .. Len(toPeer) /\ i = Len(toPeer) + 1
      BY <1>4, <2>1, <2>2, <2>3, <3>4
    <3>5. (i \in 1 .. Len(toPeer) \/ i = Len(toPeer) + 1) /\ (j \in 1 .. Len(toPeer) \/ j = Len(toPeer) + 1)
      BY <1>1, <2>1
    <3> QED BY <3>1, <3>2, <3>3, <3>4, <3>5
  <2> QED BY <2>3 DEF Alone
<1> QED BY <1>2, <1>3, <1>4

\* Nobody has interfered so far: no abort of a transfer that runs, and nothing lost.
Calm == ~disturbed

\* A step after which nobody has interfered is none of those that interfere.
LEMMA CalmStep ==
    ASSUME TransferNext, Calm'
    PROVE  /\ Calm /\ ~AbortOut /\ ~StanzasLost /\ ~ConnectionBreaks /\ ~ProxyFails
           /\ AbortInc => inc.state = "offer"
           /\ OfferAccepted => out'.state # "finished"
           /\ Activated => out'.error # "ProtocolError"
<1>1. SendFile \/ UserAccepts \/ CandidateDisconnected \/ IbbResponse \/ PeerRefused \/ HostUsed => Calm
  BY Zenon DEF Calm, SendFile, UserAccepts, CandidateDisconnected, IbbResponse, PeerRefused,
     HostUsed
<1>2. OfferArrives \/ IbbOpen \/ IbbData \/ IbbClose \/ HostsArrive \/ ProxyAnswers \/ ProxyReady => Calm
  BY Zenon DEF Calm, OfferArrives, IbbOpen, IbbData, IbbClose, HostsArrive, ProxyAnswers,
     ProxyReady
<1>3. BytesWritten \/ OutDisconnected \/ CandidateProceeds \/ CandidateServed \/ CandidateReady => Calm
  BY Zenon DEF Calm, BytesWritten, OutDisconnected, CandidateProceeds, CandidateServed,
     CandidateReady
<1>4. CandidateTimeout \/ DoomedDeleted \/ ReceiveData \/ IncDisconnected \/ OutTerminated \/ IncTerminated => Calm
  BY Zenon DEF Calm, CandidateTimeout, DoomedDeleted, ReceiveData, IncDisconnected,
     OutTerminated, IncTerminated
<1>5. ~AbortOut /\ ~StanzasLost /\ ~ConnectionBreaks /\ ~ProxyFails
  BY Zenon DEF Calm, AbortOut, StanzasLost, ConnectionBreaks, ProxyFails
<1>6. AbortInc => Calm /\ inc.state = "offer"
  BY Zenon DEF Calm, AbortInc
<1>7. OfferAccepted => Calm /\ out'.state # "finished"
  BY Zenon DEF Calm, OfferAccepted
<1>8. Activated => Calm /\ out'.error # "ProtocolError"
  BY Zenon DEF Calm, Activated
<1> QED
  BY <1>1, <1>2, <1>3, <1>4, <1>5, <1>6, <1>7, <1>8, Zenon
  DEF TransferNext, StanzaStep, SocketStep, PostedStep

\* The block size does not suit the peer, who refuses the stream for no other reason.
Unfit == ~par.fits
\* A stream is refused for its block size only.
LEMMA IbbOpenAnswers ==
    ASSUME IbbOpen
    PROVE  Unfit \/ Answers(Msg("result", Head(toPeer).of, Head(toPeer).n))
  BY Zenon DEF IbbOpen, Reply, Answers, Unfit

\* A block is refused out of turn only.
LEMMA IbbDataAnswers ==
    ASSUME IbbData
    PROVE  \/ inc.state # "transfer" \/ Sequence(Head(toPeer).n) # inc.seq
           \/ Answers(Msg("result", Head(toPeer).of, Head(toPeer).n))
  BY Zenon DEF IbbData, Reply, Answers

\* In band, these are the steps there are; the rest is about connections.
LEMMA BandSteps ==
    ASSUME Shape, Kind, TransferNext, par.method = "ibb"
    PROVE  \/ SendFile \/ OfferAccepted \/ IbbResponse \/ PeerRefused \/ OutTerminated \/ AbortOut
           \/ OfferArrives \/ UserAccepts \/ IncTerminated \/ IbbOpen \/ IbbData \/ IbbClose
           \/ AbortInc \/ StanzasLost \/ ConnectionBreaks
           \/ /\ out' = out /\ toPeer' = toPeer /\ par' = par /\ Holding(inc, inc')
              /\ inc'.state = inc.state /\ inc'.device = inc.device
              /\ toUs' = toUs \/ (toUs # <<>> /\ toUs' = Tail(toUs))
<1>1. inc.step = "none" /\ out.sock = "none" /\ pipe = <<>>
      /\ out.request[1] \notin {"hosts", "query", "activate"}
      /\ (toPeer # <<>> => Head(toPeer).of # "hosts")
  BY Underway DEF Kind
<1>2. ~ProxyAnswers
  BY <1>1, ProxyAnswersStep, RequestIs
<1>3. ~ProxyReady /\ ~BytesWritten /\ ~OutDisconnected
  BY <1>1, ProxyReadyStep, BytesWrittenStep, OutDisconnectedStep
<1>4. ~Activated /\ ~ProxyFails
  BY <1>1, ActivatedStep, ProxyFailsStep, RequestIs
<1>5. ~HostsArrive
  BY <1>1, HostsArriveStep
<1>6. ~CandidateProceeds /\ ~CandidateServed /\ ~CandidateReady
  BY <1>1, CandidateProceedsStep, CandidateServedStep, CandidateReadyStep
<1>7. ~CandidateTimeout /\ ~CandidateDisconnected
  BY <1>1, CandidateLostStep DEF Candidate
<1>8. ~ReceiveData /\ ~IncDisconnected
  BY <1>1, ReceiveDataStep, IncDisconnectedStep
<1>9. HostUsed => /\ out' = out /\ inc' = inc /\ toPeer' = toPeer /\ par' = par
                  /\ toUs # <<>> /\ toUs' = Tail(toUs)
  BY <1>1, HostUsedStep, RequestIs
<1>10. DoomedDeleted => /\ out' = out /\ Holding(inc, inc') /\ toPeer' = toPeer /\ par' = par
                        /\ inc'.state = inc.state /\ inc'.device = inc.device /\ toUs' = toUs
  BY <1>1, DoomedDeletedStep DEF Candidate
<1> QED
  BY <1>2, <1>3, <1>4, <1>5, <1>6, <1>7, <1>8, <1>9, <1>10
  DEF TransferNext, StanzaStep, SocketStep, PostedStep, Holding

\* In band, each block is sent once, and out of turn is neither a block nor the end.
ClosedLast == \A m \in Msgs(toPeer) : m.of = "close" => out.state = "finished"
Misfit == \A m \in Msgs(toUs) : m.type = "error" /\ m.of = "open" => Unfit
OneBlock ==
    /\ Alone(toPeer, "data")
    /\ \A m \in Msgs(toPeer) : m.of = "data" => m.n = out.read /\ inc.seq + 1 = out.read
IbbAsks == out.method = "ibb" => out.request[1] \in {"open", "data", "close"}
IbbEnds == out.state = "finished" /\ out.error = "NoError" => out.method = "ibb"
Steady == par.method = "ibb" => ClosedLast /\ Misfit /\ OneBlock /\ IbbAsks /\ IbbEnds

LEMMA Counting ==
    ASSUME Shape
    PROVE  /\ out.read \in Nat /\ inc.seq \in Nat /\ Len(inc.written) \in Nat /\ par.blocks \in Nat
           /\ (\A m \in Msgs(toPeer) : m.n \in Nat) /\ (\A m \in Msgs(toUs) : m.n \in Nat)
           /\ toPeer # <<>> => Head(toPeer).n \in Nat
<1>1. (\A m \in Msgs(toPeer) : m.n \in Nat) /\ (\A m \in Msgs(toUs) : m.n \in Nat)
  <2>1. ASSUME NEW s \in Wire, NEW m \in Msgs(s)  PROVE  m.n \in Nat
    <3>1. PICK i \in 1 .. Len(s) : m = s[i]
      BY DEF Msgs
    <3>2. s[i] \in Stanza
      BY DEF Wire
    <3> QED BY <3>1, <3>2 DEF Stanza
  <2> QED BY <2>1 DEF Shape
<1> QED BY <1>1, Underway DEF Shape, OutShape, IncShape

\* The answer that the outgoing job waits for says that all it has read was counted.
LEMMA ReadAndCounted ==
    ASSUME Shape, InBand, par.method = "ibb", toUs # <<>>, Head(toUs).type = "result",
           out.request = <<Head(toUs).of, Head(toUs).n>>, out.state # "finished",
           Head(toUs).of \in {"open", "data", "close"}
    PROVE  out.read = inc.seq /\ Head(toUs).of # "close"
<1>1. out.request[1] = Head(toUs).of /\ out.request[2] = Head(toUs).n
  BY RequestIs
<1>2. inc.seq <= out.read /\ out.read \in Nat /\ inc.seq \in Nat
  BY Counting DEF InBand, Counted
<1>3. Head(toUs).of # "close"
  BY <1>1 DEF InBand, Asking
<1>4. out.read <= inc.seq
  BY <1>1, <1>2, <1>3, Underway DEF InBand, Asking, AnswersCounted
<1> QED BY <1>2, <1>3, <1>4

\* In band, no step sends a block twice or forgets what was asked.
LEMMA SteadyKept ==
    ASSUME Shape, Offered, Kind, InBand, Steady, TransferNext
    PROVE  Steady'
<1> SUFFICES ASSUME par.method = "ibb"  PROVE  ClosedLast' /\ Misfit' /\ OneBlock' /\ IbbAsks' /\ IbbEnds'
  BY ParStays DEF Steady
<1>1. Offered /\ Kind /\ InBand /\ ClosedLast /\ Misfit /\ OneBlock /\ IbbAsks /\ IbbEnds
  BY DEF Steady
<1>2. Alone(toPeer, "data") /\ (Unfit' <=> Unfit)
  BY <1>1, ParStays DEF OneBlock, Unfit
<1>11. CASE SendFile
  <2>1. ClosedLast'
    BY <1>11, <1>1, <1>2, SendFileStep, Underway, MsgIs, RequestIs DEF ClosedLast, EndedOut,
       EndedInc, Going, Holding, Flushed, InBand, Asking, Offered, Unsent, OfferFirst
  <2>2. Misfit'
    BY <1>11, <1>1, <1>2, SendFileStep, Underway, MsgIs, RequestIs DEF Misfit, EndedOut,
       EndedInc, Going, Holding, Flushed
  <2>3. OneBlock'
    BY <1>11, <1>1, <1>2, SendFileStep, Underway, MsgIs, RequestIs, AloneKept,
       Counting DEF OneBlock, EndedOut, EndedInc, Going, Holding, Flushed, Offered, Unsent,
       OfferFirst, Writes, InBand, BlocksCounted, Counted, Unanswered, Asking
  <2>4. IbbAsks'
    BY <1>11, <1>1, <1>2, SendFileStep, Underway, MsgIs, RequestIs DEF IbbAsks, EndedOut,
       EndedInc, Going, Holding, Flushed, Offered, Unsent, Unanswered, InBand, Asking
  <2>5. IbbEnds'
    BY <1>11, <1>1, <1>2, SendFileStep, Underway, MsgIs, RequestIs DEF IbbEnds, EndedOut,
       EndedInc, Going, Holding, Flushed, Offered, Unsent, Unanswered, InBand, Asking
  <2> QED BY <2>1, <2>2, <2>3, <2>4, <2>5
<1>12. CASE OfferAccepted
  <2>1. ClosedLast'
    BY <1>12, <1>1, <1>2, OfferAcceptedStep, Underway, MsgIs, RequestIs DEF ClosedLast,
       EndedOut, EndedInc, Going, Holding, Flushed, InBand, Asking, Offered, Unsent, OfferFirst
  <2>2. Misfit'
    BY <1>12, <1>1, <1>2, OfferAcceptedStep, Underway, MsgIs, RequestIs DEF Misfit, EndedOut,
       EndedInc, Going, Holding, Flushed
  <2>3. OneBlock'
    BY <1>12, <1>1, <1>2, OfferAcceptedStep, Underway, MsgIs, RequestIs, AloneKept,
       Counting DEF OneBlock, EndedOut, EndedInc, Going, Holding, Flushed, Offered, Unsent,
       OfferFirst, Writes, InBand, BlocksCounted, Counted, Unanswered, Asking
  <2>4. IbbAsks'
    BY <1>12, <1>1, <1>2, OfferAcceptedStep, Underway, MsgIs, RequestIs DEF IbbAsks, EndedOut,
       EndedInc, Going, Holding, Flushed, Offered, Unsent, Unanswered, InBand, Asking
  <2>5. IbbEnds'
    BY <1>12, <1>1, <1>2, OfferAcceptedStep, Underway, MsgIs, RequestIs DEF IbbEnds, EndedOut,
       EndedInc, Going, Holding, Flushed, Offered, Unsent, Unanswered, InBand, Asking
  <2> QED BY <2>1, <2>2, <2>3, <2>4, <2>5
<1>13. CASE IbbResponse
  <2>1. CASE UNCHANGED <<out, toPeer>>
    BY <1>13, <1>1, <1>2, <2>1, IbbResponseStep, Underway, MsgIs, RequestIs DEF ClosedLast,
       Misfit, OneBlock, IbbAsks, IbbEnds
  <2>2. CASE out.state # "finished"
    <3>1. Head(toUs).type = "result" /\ out.request = <<Head(toUs).of, Head(toUs).n>> =>
            \A m \in Msgs(toPeer) : m.of # "data"
      BY <1>13, <1>1, <2>2, IbbResponseStep, ReadAndCounted, Counting DEF OneBlock
    <3>2. ClosedLast'
      <4>1. \A m \in Msgs(toPeer) : m.of # "close"
        BY <1>1, <2>2 DEF ClosedLast
      <4>2. (\A m \in Msgs(toPeer') : m.of # "close") \/ out'.state = "finished"
        BY <1>13, <2>2, <4>1, IbbResponseStep, Underway, MsgIs, RequestIs
      <4> QED BY <4>2 DEF ClosedLast
    <3>6. Misfit'
      BY <1>13, <1>1, <1>2, <2>2, IbbResponseStep, Underway, MsgIs, RequestIs DEF Misfit
    <3>4. IbbAsks'
      BY <1>13, <1>1, <2>2, IbbResponseStep, Underway, MsgIs, RequestIs DEF IbbAsks, Going
    <3>5. IbbEnds'
      BY <1>13, <1>1, <2>2, IbbResponseStep, Underway, MsgIs, RequestIs DEF IbbEnds, Going
    <3>3. OneBlock'
      BY <1>13, <1>1, <1>2, <2>2, <3>1, IbbResponseStep, ReadAndCounted, AloneKept, Counting,
         Underway, MsgIs, RequestIs
      DEF OneBlock
    <3> QED BY <3>2, <3>3, <3>4, <3>5, <3>6
  <2> QED BY <1>13, <2>1, <2>2, IbbResponseStep
<1>14. CASE PeerRefused
  <2>1. ClosedLast'
    BY <1>14, <1>1, <1>2, PeerRefusedStep, Underway, MsgIs, RequestIs DEF ClosedLast, EndedOut,
       EndedInc, Going, Holding, Flushed, InBand, Asking, Offered, Unsent, OfferFirst
  <2>2. Misfit'
    BY <1>14, <1>1, <1>2, PeerRefusedStep, Underway, MsgIs, RequestIs DEF Misfit, EndedOut,
       EndedInc, Going, Holding, Flushed
  <2>3. OneBlock'
    BY <1>14, <1>1, <1>2, PeerRefusedStep, Underway, MsgIs, RequestIs, AloneKept,
       Counting DEF OneBlock, EndedOut, EndedInc, Going, Holding, Flushed, Offered, Unsent,
       OfferFirst, Writes, InBand, BlocksCounted, Counted, Unanswered, Asking
  <2>4. IbbAsks'
    BY <1>14, <1>1, <1>2, PeerRefusedStep, Underway, MsgIs, RequestIs DEF IbbAsks, EndedOut,
       EndedInc, Going, Holding, Flushed, Offered, Unsent, Unanswered, InBand, Asking
  <2>5. IbbEnds'
    BY <1>14, <1>1, <1>2, PeerRefusedStep, Underway, MsgIs, RequestIs DEF IbbEnds, EndedOut,
       EndedInc, Going, Holding, Flushed, Offered, Unsent, Unanswered, InBand, Asking
  <2> QED BY <2>1, <2>2, <2>3, <2>4, <2>5
<1>15. CASE OutTerminated
  <2>1. ClosedLast'
    BY <1>15, <1>1, <1>2, OutTerminatedStep, Underway, MsgIs, RequestIs DEF ClosedLast,
       EndedOut, EndedInc, Going, Holding, Flushed, InBand, Asking, Offered, Unsent, OfferFirst
  <2>2. Misfit'
    BY <1>15, <1>1, <1>2, OutTerminatedStep, Underway, MsgIs, RequestIs DEF Misfit, EndedOut,
       EndedInc, Going, Holding, Flushed
  <2>3. OneBlock'
    BY <1>15, <1>1, <1>2, OutTerminatedStep, Underway, MsgIs, RequestIs, AloneKept,
       Counting DEF OneBlock, EndedOut, EndedInc, Going, Holding, Flushed, Offered, Unsent,
       OfferFirst, Writes, InBand, BlocksCounted, Counted, Unanswered, Asking
  <2>4. IbbAsks'
    BY <1>15, <1>1, <1>2, OutTerminatedStep, Underway, MsgIs, RequestIs DEF IbbAsks, EndedOut,
       EndedInc, Going, Holding, Flushed, Offered, Unsent, Unanswered, InBand, Asking
  <2>5. IbbEnds'
    BY <1>15, <1>1, <1>2, OutTerminatedStep, Underway, MsgIs, RequestIs DEF IbbEnds, EndedOut,
       EndedInc, Going, Holding, Flushed, Offered, Unsent, Unanswered, InBand, Asking
  <2> QED BY <2>1, <2>2, <2>3, <2>4, <2>5
<1>16. CASE AbortOut
  <2>1. ClosedLast'
    BY <1>16, <1>1, <1>2, AbortOutStep, Underway, MsgIs, RequestIs DEF ClosedLast, EndedOut,
       EndedInc, Going, Holding, Flushed, InBand, Asking, Offered, Unsent, OfferFirst
  <2>2. Misfit'
    BY <1>16, <1>1, <1>2, AbortOutStep, Underway, MsgIs, RequestIs DEF Misfit, EndedOut,
       EndedInc, Going, Holding, Flushed
  <2>3. OneBlock'
    BY <1>16, <1>1, <1>2, AbortOutStep, Underway, MsgIs, RequestIs, AloneKept,
       Counting DEF OneBlock, EndedOut, EndedInc, Going, Holding, Flushed, Offered, Unsent,
       OfferFirst, Writes, InBand, BlocksCounted, Counted, Unanswered, Asking
  <2>4. IbbAsks'
    BY <1>16, <1>1, <1>2, AbortOutStep, Underway, MsgIs, RequestIs DEF IbbAsks, EndedOut,
       EndedInc, Going, Holding, Flushed, Offered, Unsent, Unanswered, InBand, Asking
  <2>5. IbbEnds'
    BY <1>16, <1>1, <1>2, AbortOutStep, Underway, MsgIs, RequestIs DEF IbbEnds, EndedOut,
       EndedInc, Going, Holding, Flushed, Offered, Unsent, Unanswered, InBand, Asking
  <2> QED BY <2>1, <2>2, <2>3, <2>4, <2>5
<1>17. CASE OfferArrives
  <2>1. ClosedLast'
    BY <1>17, <1>1, <1>2, OfferArrivesStep, Underway, MsgIs, RequestIs DEF ClosedLast, EndedOut,
       EndedInc, Going, Holding, Flushed, InBand, Asking, Offered, Unsent, OfferFirst
  <2>2. Misfit'
    BY <1>17, <1>1, <1>2, OfferArrivesStep, Underway, MsgIs, RequestIs DEF Misfit, EndedOut,
       EndedInc, Going, Holding, Flushed
  <2>3. OneBlock'
    BY <1>17, <1>1, <1>2, OfferArrivesStep, Underway, MsgIs, RequestIs, AloneKept,
       Counting DEF OneBlock, EndedOut, EndedInc, Going, Holding, Flushed, Offered, Unsent,
       OfferFirst, Writes, InBand, BlocksCounted, Counted, Unanswered, Asking
  <2>4. IbbAsks'
    BY <1>17, <1>1, <1>2, OfferArrivesStep, Underway, MsgIs, RequestIs DEF IbbAsks, EndedOut,
       EndedInc, Going, Holding, Flushed, Offered, Unsent, Unanswered, InBand, Asking
  <2>5. IbbEnds'
    BY <1>17, <1>1, <1>2, OfferArrivesStep, Underway, MsgIs, RequestIs DEF IbbEnds, EndedOut,
       EndedInc, Going, Holding, Flushed, Offered, Unsent, Unanswered, InBand, Asking
  <2> QED BY <2>1, <2>2, <2>3, <2>4, <2>5
<1>18. CASE UserAccepts
  <2>1. ClosedLast'
    BY <1>18, <1>1, <1>2, UserAcceptsStep, Underway, MsgIs, RequestIs DEF ClosedLast, EndedOut,
       EndedInc, Going, Holding, Flushed, InBand, Asking, Offered, Unsent, OfferFirst
  <2>2. Misfit'
    BY <1>18, <1>1, <1>2, UserAcceptsStep, Underway, MsgIs, RequestIs DEF Misfit, EndedOut,
       EndedInc, Going, Holding, Flushed
  <2>3. OneBlock'
    BY <1>18, <1>1, <1>2, UserAcceptsStep, Underway, MsgIs, RequestIs, AloneKept,
       Counting DEF OneBlock, EndedOut, EndedInc, Going, Holding, Flushed, Offered, Unsent,
       OfferFirst, Writes, InBand, BlocksCounted, Counted, Unanswered, Asking
  <2>4. IbbAsks'
    BY <1>18, <1>1, <1>2, UserAcceptsStep, Underway, MsgIs, RequestIs DEF IbbAsks, EndedOut,
       EndedInc, Going, Holding, Flushed, Offered, Unsent, Unanswered, InBand, Asking
  <2>5. IbbEnds'
    BY <1>18, <1>1, <1>2, UserAcceptsStep, Underway, MsgIs, RequestIs DEF IbbEnds, EndedOut,
       EndedInc, Going, Holding, Flushed, Offered, Unsent, Unanswered, InBand, Asking
  <2> QED BY <2>1, <2>2, <2>3, <2>4, <2>5
<1>19. CASE IncTerminated
  <2>1. ClosedLast'
    BY <1>19, <1>1, <1>2, IncTerminatedStep, Underway, MsgIs, RequestIs DEF ClosedLast,
       EndedOut, EndedInc, Going, Holding, Flushed, InBand, Asking, Offered, Unsent, OfferFirst
  <2>2. Misfit'
    BY <1>19, <1>1, <1>2, IncTerminatedStep, Underway, MsgIs, RequestIs DEF Misfit, EndedOut,
       EndedInc, Going, Holding, Flushed
  <2>3. OneBlock'
    BY <1>19, <1>1, <1>2, IncTerminatedStep, Underway, MsgIs, RequestIs, AloneKept,
       Counting DEF OneBlock, EndedOut, EndedInc, Going, Holding, Flushed, Offered, Unsent,
       OfferFirst, Writes, InBand, BlocksCounted, Counted, Unanswered, Asking
  <2>4. IbbAsks'
    BY <1>19, <1>1, <1>2, IncTerminatedStep, Underway, MsgIs, RequestIs DEF IbbAsks, EndedOut,
       EndedInc, Going, Holding, Flushed, Offered, Unsent, Unanswered, InBand, Asking
  <2>5. IbbEnds'
    BY <1>19, <1>1, <1>2, IncTerminatedStep, Underway, MsgIs, RequestIs DEF IbbEnds, EndedOut,
       EndedInc, Going, Holding, Flushed, Offered, Unsent, Unanswered, InBand, Asking
  <2> QED BY <2>1, <2>2, <2>3, <2>4, <2>5
<1>20. CASE IbbOpen
  <2>1. ClosedLast'
    BY <1>20, <1>1, <1>2, IbbOpenStep, Underway, MsgIs, RequestIs DEF ClosedLast, EndedOut,
       EndedInc, Going, Holding, Flushed, InBand, Asking, Offered, Unsent, OfferFirst
  <2>2. Misfit'
    BY <1>20, <1>1, <1>2, IbbOpenStep, Underway, MsgIs, RequestIs, IbbOpenAnswers DEF Misfit,
       EndedOut, EndedInc, Going, Holding, Flushed
  <2>3. OneBlock'
    <3>1. out' = out /\ toPeer # <<>> /\ toPeer' = Tail(toPeer) /\ inc'.seq = inc.seq
      BY <1>20, IbbOpenStep DEF Holding, Checked, EndedInc
    <3>2. Alone(toPeer', "data")
      BY <3>1, <1>2, AloneKept
    <3> QED BY <1>1, <3>1, <3>2, Underway DEF OneBlock
  <2>4. IbbAsks'
    BY <1>20, <1>1, <1>2, IbbOpenStep, Underway, MsgIs, RequestIs DEF IbbAsks, EndedOut,
       EndedInc, Going, Holding, Flushed, Offered, Unsent, Unanswered, InBand, Asking
  <2>5. IbbEnds'
    BY <1>20, <1>1, <1>2, IbbOpenStep, Underway, MsgIs, RequestIs DEF IbbEnds, EndedOut,
       EndedInc, Going, Holding, Flushed, Offered, Unsent, Unanswered, InBand, Asking
  <2> QED BY <2>1, <2>2, <2>3, <2>4, <2>5
<1>21. CASE IbbData
  <2>1. ClosedLast'
    BY <1>21, <1>1, <1>2, IbbDataStep, Underway, MsgIs, RequestIs DEF ClosedLast, EndedOut,
       EndedInc, Going, Holding, Flushed, InBand, Asking, Offered, Unsent, OfferFirst, Writes
  <2>2. Misfit'
    BY <1>21, <1>1, <1>2, IbbDataStep, Underway, MsgIs, RequestIs DEF Misfit, EndedOut,
       EndedInc, Going, Holding, Flushed, Writes
  <2>3. OneBlock'
    BY <1>21, <1>1, <1>2, IbbDataStep, Underway, MsgIs, RequestIs, AloneKept,
       Counting DEF OneBlock, EndedOut, EndedInc, Going, Holding, Flushed, Offered, Unsent,
       OfferFirst, Writes, InBand, BlocksCounted, Counted, Unanswered, Asking, Writes
  <2>4. IbbAsks'
    BY <1>21, <1>1, <1>2, IbbDataStep, Underway, MsgIs, RequestIs DEF IbbAsks, EndedOut,
       EndedInc, Going, Holding, Flushed, Offered, Unsent, Unanswered, InBand, Asking, Writes
  <2>5. IbbEnds'
    BY <1>21, <1>1, <1>2, IbbDataStep, Underway, MsgIs, RequestIs DEF IbbEnds, EndedOut,
       EndedInc, Going, Holding, Flushed, Offered, Unsent, Unanswered, InBand, Asking, Writes
  <2> QED BY <2>1, <2>2, <2>3, <2>4, <2>5
<1>22. CASE IbbClose
  <2>1. ClosedLast'
    BY <1>22, <1>1, <1>2, IbbCloseStep, Underway, MsgIs, RequestIs DEF ClosedLast, EndedOut,
       EndedInc, Going, Holding, Flushed, InBand, Asking, Offered, Unsent, OfferFirst, Checked
  <2>2. Misfit'
    BY <1>22, <1>1, <1>2, IbbCloseStep, Underway, MsgIs, RequestIs DEF Misfit, EndedOut,
       EndedInc, Going, Holding, Flushed, Checked
  <2>3. OneBlock'
    <3>1. out' = out /\ toPeer # <<>> /\ toPeer' = Tail(toPeer) /\ inc'.seq = inc.seq
      BY <1>22, IbbCloseStep DEF Holding, Checked, EndedInc
    <3>2. Alone(toPeer', "data")
      BY <3>1, <1>2, AloneKept
    <3> QED BY <1>1, <3>1, <3>2, Underway DEF OneBlock
  <2>4. IbbAsks'
    BY <1>22, <1>1, <1>2, IbbCloseStep, Underway, MsgIs, RequestIs DEF IbbAsks, EndedOut,
       EndedInc, Going, Holding, Flushed, Offered, Unsent, Unanswered, InBand, Asking, Checked
  <2>5. IbbEnds'
    BY <1>22, <1>1, <1>2, IbbCloseStep, Underway, MsgIs, RequestIs DEF IbbEnds, EndedOut,
       EndedInc, Going, Holding, Flushed, Offered, Unsent, Unanswered, InBand, Asking, Checked
  <2> QED BY <2>1, <2>2, <2>3, <2>4, <2>5
<1>23. CASE AbortInc
  <2>1. ClosedLast'
    BY <1>23, <1>1, <1>2, AbortIncStep, Underway, MsgIs, RequestIs DEF ClosedLast, EndedOut,
       EndedInc, Going, Holding, Flushed, InBand, Asking, Offered, Unsent, OfferFirst
  <2>2. Misfit'
    BY <1>23, <1>1, <1>2, AbortIncStep, Underway, MsgIs, RequestIs DEF Misfit, EndedOut,
       EndedInc, Going, Holding, Flushed
  <2>3. OneBlock'
    BY <1>23, <1>1, <1>2, AbortIncStep, Underway, MsgIs, RequestIs, AloneKept,
       Counting DEF OneBlock, EndedOut, EndedInc, Going, Holding, Flushed, Offered, Unsent,
       OfferFirst, Writes, InBand, BlocksCounted, Counted, Unanswered, Asking
  <2>4. IbbAsks'
    BY <1>23, <1>1, <1>2, AbortIncStep, Underway, MsgIs, RequestIs DEF IbbAsks, EndedOut,
       EndedInc, Going, Holding, Flushed, Offered, Unsent, Unanswered, InBand, Asking
  <2>5. IbbEnds'
    BY <1>23, <1>1, <1>2, AbortIncStep, Underway, MsgIs, RequestIs DEF IbbEnds, EndedOut,
       EndedInc, Going, Holding, Flushed, Offered, Unsent, Unanswered, InBand, Asking
  <2> QED BY <2>1, <2>2, <2>3, <2>4, <2>5
<1>24. CASE StanzasLost
  <2>1. ClosedLast'
    BY <1>24, <1>1, <1>2, Underway, MsgIs, RequestIs DEF StanzasLost, ClosedLast, EndedOut,
       EndedInc, Going, Holding, Flushed, InBand, Asking, Offered, Unsent, OfferFirst
  <2>2. Misfit'
    BY <1>24, <1>1, <1>2, Underway, MsgIs, RequestIs DEF StanzasLost, Misfit, EndedOut,
       EndedInc, Going, Holding, Flushed
  <2>3. OneBlock'
    BY <1>24, <1>1, <1>2, Underway, MsgIs, RequestIs, AloneKept, Counting DEF StanzasLost,
       OneBlock, EndedOut, EndedInc, Going, Holding, Flushed, Offered, Unsent, OfferFirst,
       Writes, InBand, BlocksCounted, Counted, Unanswered, Asking
  <2>4. IbbAsks'
    BY <1>24, <1>1, <1>2, Underway, MsgIs, RequestIs DEF StanzasLost, IbbAsks, EndedOut,
       EndedInc, Going, Holding, Flushed, Offered, Unsent, Unanswered, InBand, Asking
  <2>5. IbbEnds'
    BY <1>24, <1>1, <1>2, Underway, MsgIs, RequestIs DEF StanzasLost, IbbEnds, EndedOut,
       EndedInc, Going, Holding, Flushed, Offered, Unsent, Unanswered, InBand, Asking
  <2> QED BY <2>1, <2>2, <2>3, <2>4, <2>5
<1>25. CASE ConnectionBreaks
  <2>1. ClosedLast'
    BY <1>25, <1>1, <1>2, Underway, MsgIs, RequestIs DEF ConnectionBreaks, ClosedLast, EndedOut,
       EndedInc, Going, Holding, Flushed, InBand, Asking, Offered, Unsent, OfferFirst
  <2>2. Misfit'
    BY <1>25, <1>1, <1>2, Underway, MsgIs, RequestIs DEF ConnectionBreaks, Misfit, EndedOut,
       EndedInc, Going, Holding, Flushed
  <2>3. OneBlock'
    BY <1>25, <1>1, <1>2, Underway, MsgIs, RequestIs, AloneKept, Counting DEF ConnectionBreaks,
       OneBlock, EndedOut, EndedInc, Going, Holding, Flushed, Offered, Unsent, OfferFirst,
       Writes, InBand, BlocksCounted, Counted, Unanswered, Asking
  <2>4. IbbAsks'
    BY <1>25, <1>1, <1>2, Underway, MsgIs, RequestIs DEF ConnectionBreaks, IbbAsks, EndedOut,
       EndedInc, Going, Holding, Flushed, Offered, Unsent, Unanswered, InBand, Asking
  <2>5. IbbEnds'
    BY <1>25, <1>1, <1>2, Underway, MsgIs, RequestIs DEF ConnectionBreaks, IbbEnds, EndedOut,
       EndedInc, Going, Holding, Flushed, Offered, Unsent, Unanswered, InBand, Asking
  <2> QED BY <2>1, <2>2, <2>3, <2>4, <2>5
<1>26. CASE  /\ out' = out /\ toPeer' = toPeer /\ par' = par /\ Holding(inc, inc')
             /\ inc'.state = inc.state /\ inc'.device = inc.device
             /\ toUs' = toUs \/ (toUs # <<>> /\ toUs' = Tail(toUs))
  BY <1>26, <1>1, <1>2, Underway DEF ClosedLast, Misfit, OneBlock, IbbAsks, IbbEnds, Holding
<1> QED
  BY <1>11, <1>12, <1>13, <1>14, <1>15, <1>16, <1>17, <1>18, <1>19, <1>20, <1>21, <1>22, <1>23,
       <1>24,
       <1>25, <1>26, BandSteps

\* In band, while nobody has interfered.
OpenWhile == inc.device = "closed" => out.state = "finished"
Opened == \E m \in Msgs(toUs) : m.type = "result" /\ m.of = "open"
Running == out.state # "finished" /\ (out.request[1] = "data" \/ Opened) => inc.state = "transfer"
NotRefused == out.state # "finished" /\ par.blocks <= SeqModulus =>
    \A m \in Msgs(toUs) : m.of = "data" => m.type = "result"
EndsWhole == out.state = "finished" /\ out.error = "NoError" => Len(inc.written) = par.blocks
Suits == ~Unfit /\ par.blocks <= SeqModulus
Succeeds == out.state = "finished" /\ out.method = "ibb" /\ Suits => out.error = "NoError"
Smooth == par.method = "ibb" /\ Calm => OpenWhile /\ Running /\ NotRefused /\ EndsWhole /\ Succeeds

\* Below the modulus, numbers do not wrap around.
LEMMA Counts == \A k \in Nat : \A m \in Nat \ {0} : k < m => k % m = k
  BY SMT

\* A block that arrives while the sender goes on is the one that was asked for.
LEMMA BlockAsked ==
    ASSUME Shape, Kind, InBand, Steady, par.method = "ibb", toPeer # <<>>, Head(toPeer).of = "data"
    PROVE  /\ Head(toPeer).n = out.read /\ out.read = inc.seq + 1
           /\ out.state # "finished" => out.request[1] = "data"
<1>1. Head(toPeer) \in Msgs(toPeer)
  BY Underway
<1>2. Head(toPeer).n = out.read /\ out.read = inc.seq + 1 /\ 1 <= out.read
  BY <1>1 DEF InBand, BlocksCounted, Steady, OneBlock
<1>3. out.read # 0 /\ out.request[1] \in Asked
  BY <1>2, Counting DEF Shape, OutShape
<1> QED BY <1>2, <1>3 DEF InBand, Asking, Kind, Asked, Subjects

\* It is accepted, as long as the numbers do not wrap around.
LEMMA BlockAccepted ==
    ASSUME Shape, Kind, InBand, Written, Steady, Running, IbbData, par.method = "ibb",
           out.state # "finished", par.blocks <= SeqModulus
    PROVE  Answers(Msg("result", "data", Head(toPeer).n))
<1>1. toPeer # <<>> /\ Head(toPeer).of = "data"
  BY IbbDataStep
<1>2. inc.state = "transfer" /\ Head(toPeer).n = inc.seq + 1 /\ out.read = inc.seq + 1
  BY <1>1, BlockAsked DEF Running
<1>3. inc.seq \in Nat /\ SeqModulus \in Nat \ {0} /\ par.blocks \in Nat /\ out.read <= par.blocks
  BY Counting, TransferAssumption DEF Written
<1>4. inc.seq < SeqModulus /\ Sequence(inc.seq + 1) = inc.seq % SeqModulus
  BY <1>2, <1>3 DEF Sequence
<1>5. Sequence(inc.seq + 1) = inc.seq
  BY <1>3, <1>4, Counts
<1> QED BY <1>1, <1>2, <1>5, IbbDataAnswers

\* When the last answer is there, the file is.
LEMMA EndIsWhole ==
    ASSUME Shape, Offered, Kind, InBand, OpenWhile, par.method = "ibb", toUs # <<>>,
           Head(toUs).type = "result", Head(toUs).of \in {"open", "data", "close"},
           out.request = <<Head(toUs).of, Head(toUs).n>>, out.method = "ibb",
           out.state # "finished", out.read = par.blocks
    PROVE  Len(inc.written) = par.blocks
<1>1. out.read = inc.seq
  BY ReadAndCounted
<1>2. inc.device = "open"
  BY DEF Offered, DeviceUsed, Untaken, OpenWhile
<1> QED BY <1>1, <1>2 DEF InBand, Counted

\* In band, no step but an interference makes the sender fail or end too early.
LEMMA SmoothKept ==
    ASSUME Shape, Offered, Kind, InBand, Written, Steady, Smooth, TransferNext
    PROVE  Smooth'
<1> SUFFICES ASSUME par.method = "ibb", Calm'
             PROVE  OpenWhile' /\ Running' /\ NotRefused' /\ EndsWhole' /\ Succeeds'
  BY ParStays DEF Smooth
<1>1. /\ Calm /\ OpenWhile /\ Running /\ NotRefused /\ EndsWhole /\ Succeeds
      /\ ClosedLast /\ Misfit /\ OneBlock /\ IbbAsks /\ IbbEnds
  BY CalmStep DEF Smooth, Steady
<1>2. (Unfit' <=> Unfit) /\ (Suits' <=> Suits) /\ par' = par
  BY ParStays DEF Unfit, Suits
<1>11. CASE SendFile
  <2>1. OpenWhile'
    BY <1>11, <1>1, <1>2, SendFileStep, Underway, MsgIs, RequestIs DEF OpenWhile, EndedOut,
       EndedInc, Going, Holding, Offered, DeviceUsed, ClosedLast, Checked, Writes
  <2>2. Running'
    BY <1>11, <1>1, <1>2, SendFileStep, Underway, MsgIs, RequestIs DEF Running, EndedOut,
       EndedInc, Going, Holding, Opened, Offered, Unsent, OfferFirst, DeviceUsed, Untaken,
       Unanswered, InBand, Asking, ClosedLast, Checked, Writes
  <2>3. NotRefused'
    BY <1>11, <1>1, <1>2, SendFileStep, Underway, MsgIs, RequestIs DEF NotRefused, EndedOut,
       EndedInc, Going, Holding, Offered, Unsent, OfferFirst, Unanswered, Checked, Writes
  <2>4. EndsWhole'
    BY <1>11, <1>1, <1>2, SendFileStep, Underway, MsgIs, RequestIs DEF EndsWhole, EndedOut,
       EndedInc, Going, Holding, Offered, Unsent, Unanswered, Checked, IbbEnds
  <2>5. Succeeds'
    BY <1>11, <1>1, <1>2, SendFileStep, Underway, MsgIs, RequestIs DEF Succeeds, EndedOut,
       EndedInc, Going, Holding, IbbAsks, Offered, Unsent, Unanswered, Kind, Checked
  <2> QED BY <2>1, <2>2, <2>3, <2>4, <2>5
<1>12. CASE OfferAccepted
  <2>1. OpenWhile'
    BY <1>12, <1>1, <1>2, OfferAcceptedStep, Underway, MsgIs, RequestIs DEF OpenWhile, EndedOut,
       EndedInc, Going, Holding, Offered, DeviceUsed, ClosedLast, Checked, Writes
  <2>2. Running'
    <3>1. Opened' => Opened
      BY <1>12, OfferAcceptedStep, Underway DEF Opened
    <3>2. inc' = inc /\ (out' = out \/ (out.state = "offer" /\ out'.request = <<"open", 0>>))
      BY <1>12, OfferAcceptedStep
    <3> QED BY <1>1, <3>1, <3>2, RequestIs DEF Running
  <2>3. NotRefused'
    BY <1>12, <1>1, <1>2, OfferAcceptedStep, Underway, MsgIs, RequestIs DEF NotRefused,
       EndedOut, EndedInc, Going, Holding, Offered, Unsent, OfferFirst, Unanswered, Checked,
       Writes
  <2>4. EndsWhole'
    BY <1>12, <1>1, <1>2, OfferAcceptedStep, Underway, MsgIs, RequestIs DEF EndsWhole, EndedOut,
       EndedInc, Going, Holding, Offered, Unsent, Unanswered, Checked, IbbEnds
  <2>5. Succeeds'
    BY <1>12, <1>1, <1>2, OfferAcceptedStep, Underway, MsgIs, RequestIs DEF Succeeds, EndedOut,
       EndedInc, Going, Holding, IbbAsks, Offered, Unsent, Unanswered, Kind, Checked
  <2> QED BY <2>1, <2>2, <2>3, <2>4, <2>5
<1>13. CASE IbbResponse
  <2>1. CASE UNCHANGED <<out, toPeer>>
    BY <1>13, <1>1, <1>2, <2>1, IbbResponseStep, Underway, MsgIs, RequestIs
    DEF OpenWhile, Running, Opened, NotRefused, EndsWhole, Succeeds
  <2>2. CASE ~UNCHANGED <<out, toPeer>>
    <3>6. /\ out.state # "finished" /\ out.method = "ibb" /\ out.request = <<Head(toUs).of, Head(toUs).n>>
          /\ out'.state # "finished" => Head(toUs).type = "result"
          /\ out'.state = "finished" /\ out'.error = "NoError" =>
               out.read = par.blocks /\ Head(toUs).type = "result"
      BY <1>13, <2>2, IbbResponseStep
    <3>1. OpenWhile'
      BY <1>13, <1>1, <2>2, <3>6, IbbResponseStep DEF OpenWhile
    <3>2. Running'
      <4>1. CASE Head(toUs).type = "result"
        <5>1. Head(toUs).of \in {"open", "data"}
          BY <1>13, <2>2, <3>6, <4>1, IbbResponseStep, ReadAndCounted
        <5>2. inc.state = "transfer"
          BY <1>13, <1>1, <2>2, <3>6, <4>1, <5>1, IbbResponseStep, Underway, MsgIs,
             RequestIs DEF Running, Opened
        <5> QED BY <1>13, <5>2, IbbResponseStep DEF Running
      <4>2. CASE Head(toUs).type # "result"
        BY <1>13, <1>1, <2>2, <3>6, <4>2, IbbResponseStep, Underway, MsgIs, RequestIs DEF Running
      <4> QED BY <4>1, <4>2
    <3>3. NotRefused'
      BY <1>13, <1>1, <1>2, <2>2, <3>6, IbbResponseStep, Underway, MsgIs, RequestIs DEF NotRefused
    <3>4. EndsWhole'
      BY <1>13, <1>1, <1>2, <2>2, <3>6, IbbResponseStep, EndIsWhole DEF EndsWhole, Going
    <3>5. Succeeds'
      <4>1. Suits => Head(toUs).type # "error"
        BY <1>13, <1>1, <2>2, <3>6, IbbResponseStep, Underway, MsgIs, RequestIs DEF Misfit,
           NotRefused, Suits, InBand, Asking
      <4> QED BY <1>13, <1>1, <1>2, <2>2, <3>6, <4>1, IbbResponseStep DEF Succeeds, Going
    <3> QED BY <3>1, <3>2, <3>3, <3>4, <3>5
  <2> QED BY <1>13, <2>1, <2>2, IbbResponseStep
<1>14. CASE PeerRefused
  <2>1. OpenWhile'
    BY <1>14, <1>1, <1>2, PeerRefusedStep, Underway, MsgIs, RequestIs DEF OpenWhile, EndedOut,
       EndedInc, Going, Holding, Offered, DeviceUsed, ClosedLast, Checked, Writes
  <2>2. Running'
    BY <1>14, <1>1, <1>2, PeerRefusedStep, Underway, MsgIs, RequestIs DEF Running, EndedOut,
       EndedInc, Going, Holding, Opened, Offered, Unsent, OfferFirst, DeviceUsed, Untaken,
       Unanswered, InBand, Asking, ClosedLast, Checked, Writes
  <2>3. NotRefused'
    BY <1>14, <1>1, <1>2, PeerRefusedStep, Underway, MsgIs, RequestIs DEF NotRefused, EndedOut,
       EndedInc, Going, Holding, Offered, Unsent, OfferFirst, Unanswered, Checked, Writes
  <2>4. EndsWhole'
    BY <1>14, <1>1, <1>2, PeerRefusedStep, Underway, MsgIs, RequestIs DEF EndsWhole, EndedOut,
       EndedInc, Going, Holding, Offered, Unsent, Unanswered, Checked, IbbEnds
  <2>5. Succeeds'
    BY <1>14, <1>1, <1>2, PeerRefusedStep, Underway, MsgIs, RequestIs DEF Succeeds, EndedOut,
       EndedInc, Going, Holding, IbbAsks, Offered, Unsent, Unanswered, Kind, Checked
  <2> QED BY <2>1, <2>2, <2>3, <2>4, <2>5
<1>15. CASE OutTerminated
  <2>1. OpenWhile'
    BY <1>15, <1>1, <1>2, OutTerminatedStep, Underway, MsgIs, RequestIs DEF OpenWhile, EndedOut,
       EndedInc, Going, Holding, Offered, DeviceUsed, ClosedLast, Checked, Writes
  <2>2. Running'
    BY <1>15, <1>1, <1>2, OutTerminatedStep, Underway, MsgIs, RequestIs DEF Running, EndedOut,
       EndedInc, Going, Holding, Opened, Offered, Unsent, OfferFirst, DeviceUsed, Untaken,
       Unanswered, InBand, Asking, ClosedLast, Checked, Writes
  <2>3. NotRefused'
    BY <1>15, <1>1, <1>2, OutTerminatedStep, Underway, MsgIs, RequestIs DEF NotRefused,
       EndedOut, EndedInc, Going, Holding, Offered, Unsent, OfferFirst, Unanswered, Checked,
       Writes
  <2>4. EndsWhole'
    BY <1>15, <1>1, <1>2, OutTerminatedStep, Underway, MsgIs, RequestIs DEF EndsWhole, EndedOut,
       EndedInc, Going, Holding, Offered, Unsent, Unanswered, Checked, IbbEnds
  <2>5. Succeeds'
    BY <1>15, <1>1, <1>2, OutTerminatedStep, Underway, MsgIs, RequestIs DEF Succeeds, EndedOut,
       EndedInc, Going, Holding, IbbAsks, Offered, Unsent, Unanswered, Kind, Checked
  <2> QED BY <2>1, <2>2, <2>3, <2>4, <2>5
<1>16. ~AbortOut
  BY CalmStep
<1>17. CASE OfferArrives
  <2>1. OpenWhile'
    BY <1>17, <1>1, <1>2, OfferArrivesStep, Underway, MsgIs, RequestIs DEF OpenWhile, EndedOut,
       EndedInc, Going, Holding, Offered, DeviceUsed, ClosedLast, Checked, Writes
  <2>2. Running'
    BY <1>17, <1>1, <1>2, OfferArrivesStep, Underway, MsgIs, RequestIs DEF Running, EndedOut,
       EndedInc, Going, Holding, Opened, Offered, Unsent, OfferFirst, DeviceUsed, Untaken,
       Unanswered, InBand, Asking, ClosedLast, Checked, Writes
  <2>3. NotRefused'
    BY <1>17, <1>1, <1>2, OfferArrivesStep, Underway, MsgIs, RequestIs DEF NotRefused, EndedOut,
       EndedInc, Going, Holding, Offered, Unsent, OfferFirst, Unanswered, Checked, Writes
  <2>4. EndsWhole'
    BY <1>17, <1>1, <1>2, OfferArrivesStep, Underway, MsgIs, RequestIs DEF EndsWhole, EndedOut,
       EndedInc, Going, Holding, Offered, Unsent, Unanswered, Checked, IbbEnds
  <2>5. Succeeds'
    BY <1>17, <1>1, <1>2, OfferArrivesStep, Underway, MsgIs, RequestIs DEF Succeeds, EndedOut,
       EndedInc, Going, Holding, IbbAsks, Offered, Unsent, Unanswered, Kind, Checked
  <2> QED BY <2>1, <2>2, <2>3, <2>4, <2>5
<1>18. CASE UserAccepts
  <2>1. OpenWhile'
    BY <1>18, <1>1, <1>2, UserAcceptsStep, Underway, MsgIs, RequestIs DEF OpenWhile, EndedOut,
       EndedInc, Going, Holding, Offered, DeviceUsed, ClosedLast, Checked, Writes
  <2>2. Running'
    BY <1>18, <1>1, <1>2, UserAcceptsStep, Underway, MsgIs, RequestIs DEF Running, EndedOut,
       EndedInc, Going, Holding, Opened, Offered, Unsent, OfferFirst, DeviceUsed, Untaken,
       Unanswered, InBand, Asking, ClosedLast, Checked, Writes
  <2>3. NotRefused'
    BY <1>18, <1>1, <1>2, UserAcceptsStep, Underway, MsgIs, RequestIs DEF NotRefused, EndedOut,
       EndedInc, Going, Holding, Offered, Unsent, OfferFirst, Unanswered, Checked, Writes
  <2>4. EndsWhole'
    BY <1>18, <1>1, <1>2, UserAcceptsStep, Underway, MsgIs, RequestIs DEF EndsWhole, EndedOut,
       EndedInc, Going, Holding, Offered, Unsent, Unanswered, Checked, IbbEnds
  <2>5. Succeeds'
    BY <1>18, <1>1, <1>2, UserAcceptsStep, Underway, MsgIs, RequestIs DEF Succeeds, EndedOut,
       EndedInc, Going, Holding, IbbAsks, Offered, Unsent, Unanswered, Kind, Checked
  <2> QED BY <2>1, <2>2, <2>3, <2>4, <2>5
<1>19. CASE IncTerminated
  <2>1. OpenWhile'
    BY <1>19, <1>1, <1>2, IncTerminatedStep, Underway, MsgIs, RequestIs DEF OpenWhile, EndedOut,
       EndedInc, Going, Holding, Offered, DeviceUsed, ClosedLast, Checked, Writes
  <2>2. Running'
    BY <1>19, <1>1, <1>2, IncTerminatedStep, Underway, MsgIs, RequestIs DEF Running, EndedOut,
       EndedInc, Going, Holding, Opened, Offered, Unsent, OfferFirst, DeviceUsed, Untaken,
       Unanswered, InBand, Asking, ClosedLast, Checked, Writes
  <2>3. NotRefused'
    BY <1>19, <1>1, <1>2, IncTerminatedStep, Underway, MsgIs, RequestIs DEF NotRefused,
       EndedOut, EndedInc, Going, Holding, Offered, Unsent, OfferFirst, Unanswered, Checked,
       Writes
  <2>4. EndsWhole'
    BY <1>19, <1>1, <1>2, IncTerminatedStep, Underway, MsgIs, RequestIs DEF EndsWhole, EndedOut,
       EndedInc, Going, Holding, Offered, Unsent, Unanswered, Checked, IbbEnds
  <2>5. Succeeds'
    BY <1>19, <1>1, <1>2, IncTerminatedStep, Underway, MsgIs, RequestIs DEF Succeeds, EndedOut,
       EndedInc, Going, Holding, IbbAsks, Offered, Unsent, Unanswered, Kind, Checked
  <2> QED BY <2>1, <2>2, <2>3, <2>4, <2>5
<1>20. CASE IbbOpen
  <2>1. OpenWhile'
    BY <1>20, <1>1, <1>2, IbbOpenStep, Underway, MsgIs, RequestIs DEF OpenWhile, EndedOut,
       EndedInc, Going, Holding, Offered, DeviceUsed, ClosedLast, Checked, Writes
  <2>2. Running'
    BY <1>20, <1>1, <1>2, IbbOpenStep, Underway, MsgIs, RequestIs DEF Running, EndedOut,
       EndedInc, Going, Holding, Opened, Offered, Unsent, OfferFirst, DeviceUsed, Untaken,
       Unanswered, InBand, Asking, ClosedLast, Checked, Writes
  <2>3. NotRefused'
    BY <1>20, <1>1, <1>2, IbbOpenStep, Underway, MsgIs, RequestIs DEF NotRefused, EndedOut,
       EndedInc, Going, Holding, Offered, Unsent, OfferFirst, Unanswered, Checked, Writes
  <2>4. EndsWhole'
    BY <1>20, <1>1, <1>2, IbbOpenStep, Underway, MsgIs, RequestIs DEF EndsWhole, EndedOut,
       EndedInc, Going, Holding, Offered, Unsent, Unanswered, Checked, IbbEnds
  <2>5. Succeeds'
    BY <1>20, <1>1, <1>2, IbbOpenStep, Underway, MsgIs, RequestIs DEF Succeeds, EndedOut,
       EndedInc, Going, Holding, IbbAsks, Offered, Unsent, Unanswered, Kind, Checked
  <2> QED BY <2>1, <2>2, <2>3, <2>4, <2>5
<1>21. CASE IbbData
  <2>1. OpenWhile'
    BY <1>21, <1>1, <1>2, IbbDataStep, Underway, MsgIs, RequestIs DEF OpenWhile, EndedOut,
       EndedInc, Going, Holding, Offered, DeviceUsed, ClosedLast, Checked, Writes
  <2>2. Running'
    BY <1>21, <1>1, <1>2, IbbDataStep, Underway, MsgIs, RequestIs DEF Running, EndedOut,
       EndedInc, Going, Holding, Opened, Offered, Unsent, OfferFirst, DeviceUsed, Untaken,
       Unanswered, InBand, Asking, ClosedLast, Checked, Writes
  <2>3. NotRefused'
    BY <1>21, <1>1, <1>2, IbbDataStep, Underway, MsgIs, RequestIs, BlockAccepted DEF NotRefused,
       EndedOut, EndedInc, Going, Holding, Offered, Unsent, OfferFirst, Unanswered, Checked,
       Writes
  <2>4. EndsWhole'
    <3>1. toPeer # <<>> /\ Head(toPeer).of = "data" /\ out' = out /\ (inc' = inc \/ inc'.seq = inc.seq + 1)
      BY <1>21, IbbDataStep
    <3>2. out.read = inc.seq + 1 /\ out.read <= par.blocks /\ Len(inc.written) <= inc.seq
      BY <3>1, BlockAsked DEF Written, InBand, Counted
    <3>3. Len(inc.written) # par.blocks
      BY <3>2, Counting
    <3> QED BY <1>1, <3>1, <3>3 DEF EndsWhole
  <2>5. Succeeds'
    BY <1>21, <1>1, <1>2, IbbDataStep, Underway, MsgIs, RequestIs DEF Succeeds, EndedOut,
       EndedInc, Going, Holding, IbbAsks, Offered, Unsent, Unanswered, Kind, Checked
  <2> QED BY <2>1, <2>2, <2>3, <2>4, <2>5
<1>22. CASE IbbClose
  <2>1. OpenWhile'
    BY <1>22, <1>1, <1>2, IbbCloseStep, Underway, MsgIs, RequestIs DEF OpenWhile, EndedOut,
       EndedInc, Going, Holding, Offered, DeviceUsed, ClosedLast, Checked, Writes
  <2>2. Running'
    BY <1>22, <1>1, <1>2, IbbCloseStep, Underway, MsgIs, RequestIs DEF Running, EndedOut,
       EndedInc, Going, Holding, Opened, Offered, Unsent, OfferFirst, DeviceUsed, Untaken,
       Unanswered, InBand, Asking, ClosedLast, Checked, Writes
  <2>3. NotRefused'
    BY <1>22, <1>1, <1>2, IbbCloseStep, Underway, MsgIs, RequestIs DEF NotRefused, EndedOut,
       EndedInc, Going, Holding, Offered, Unsent, OfferFirst, Unanswered, Checked, Writes
  <2>4. EndsWhole'
    BY <1>22, <1>1, <1>2, IbbCloseStep, Underway, MsgIs, RequestIs DEF EndsWhole, EndedOut,
       EndedInc, Going, Holding, Offered, Unsent, Unanswered, Checked, IbbEnds
  <2>5. Succeeds'
    BY <1>22, <1>1, <1>2, IbbCloseStep, Underway, MsgIs, RequestIs DEF Succeeds, EndedOut,
       EndedInc, Going, Holding, IbbAsks, Offered, Unsent, Unanswered, Kind, Checked
  <2> QED BY <2>1, <2>2, <2>3, <2>4, <2>5
<1>23. CASE AbortInc
  <2>1. OpenWhile'
    BY <1>23, <1>1, <1>2, AbortIncStep, Underway, MsgIs, RequestIs, CalmStep DEF OpenWhile,
       EndedOut, EndedInc, Going, Holding, Offered, DeviceUsed, ClosedLast, Checked, Writes
  <2>2. Running'
    BY <1>23, <1>1, <1>2, AbortIncStep, Underway, MsgIs, RequestIs, CalmStep DEF Running,
       EndedOut, EndedInc, Going, Holding, Opened, Offered, Unsent, OfferFirst, DeviceUsed,
       Untaken, Unanswered, InBand, Asking, ClosedLast, Checked, Writes
  <2>3. NotRefused'
    BY <1>23, <1>1, <1>2, AbortIncStep, Underway, MsgIs, RequestIs, CalmStep DEF NotRefused,
       EndedOut, EndedInc, Going, Holding, Offered, Unsent, OfferFirst, Unanswered, Checked,
       Writes
  <2>4. EndsWhole'
    BY <1>23, <1>1, <1>2, AbortIncStep, Underway, MsgIs, RequestIs, CalmStep DEF EndsWhole,
       EndedOut, EndedInc, Going, Holding, Offered, Unsent, Unanswered, Checked, IbbEnds
  <2>5. Succeeds'
    BY <1>23, <1>1, <1>2, AbortIncStep, Underway, MsgIs, RequestIs, CalmStep DEF Succeeds,
       EndedOut, EndedInc, Going, Holding, IbbAsks, Offered, Unsent, Unanswered, Kind, Checked
  <2> QED BY <2>1, <2>2, <2>3, <2>4, <2>5
<1>24. ~StanzasLost
  BY CalmStep
<1>25. ~ConnectionBreaks
  BY CalmStep
<1>26. CASE  /\ out' = out /\ toPeer' = toPeer /\ par' = par /\ Holding(inc, inc')
             /\ inc'.state = inc.state /\ inc'.device = inc.device
             /\ toUs' = toUs \/ (toUs # <<>> /\ toUs' = Tail(toUs))
  BY <1>26, <1>1, <1>2, Underway DEF OpenWhile, Running, Opened, NotRefused, EndsWhole,
     Succeeds, Holding
<1> QED
  BY <1>11, <1>12, <1>13, <1>14, <1>15, <1>16, <1>17, <1>18, <1>19, <1>20, <1>21, <1>22, <1>23,
       <1>24, <1>25, <1>26, BandSteps

-----------------------------------------------------------------------------
(* Over a connection: the host that both ends mean. *)

\* Which host the two ends of a connection mean, and who knows of it.
Watched == out.watched
Broken == cut
Hosted(m) == m.of = "hosts"
HostsOffered == \E m \in Msgs(toPeer) : Hosted(m)
Failed(m) == m.type = "error" /\ m.of = "hosts"
GaveUp == \E m \in Msgs(toUs) : Failed(m)

Starting == inc.state = "start" => inc.device = "open"
ClosedStep == inc.step = "closed" => inc.device # "open"
SomeHost == inc.step # "none" => inc.host # 0
WatchRan == Watched => Ran
Watches == Watched /\ out.sock = "up" => out.host = inc.host
ThisHost == \A m \in Msgs(toUs) : Reported(m) => m.n = inc.host
DialsIt == out.sock = "dialing" => out.host = inc.host
ServedIt == (Ran \/ inc.step = "reply") /\ hosts[inc.host] = "direct" /\ out.sock = "up" =>
    out.host = inc.host
AskedBefore == inc.step # "none" => out.request[1] \notin {"offer", "query"}
AskedHosts == inc.step \in Candidate \/ Used \/ HostsOffered => out.request[1] = "hosts"
OneHosts == Alone(toPeer, "hosts") /\ (HostsOffered => inc.step = "none")
GivenUp == GaveUp => out.request[1] = "hosts" /\ inc.step = "none" /\ ~HostsOffered
NoHostYet == out.method = "none" \/ out.request[1] = "query" => out.host = 0
Linked == par.method # "ibb" =>
    /\ Starting /\ ClosedStep /\ SomeHost /\ WatchRan /\ Watches /\ ThisHost /\ DialsIt /\ ServedIt
    /\ AskedBefore /\ AskedHosts /\ OneHosts /\ GivenUp /\ NoHostYet

\* What the stanzas that a step sends or takes change of that.
LEMMA HostsUnderway ==
    ASSUME Shape
    PROVE  /\ toPeer' = toPeer => (HostsOffered' <=> HostsOffered)
           /\ toPeer' = <<>> => ~HostsOffered'
           /\ toPeer # <<>> /\ toPeer' = Tail(toPeer) => (HostsOffered' => HostsOffered)
           /\ toPeer # <<>> /\ Hosted(Head(toPeer)) => HostsOffered
           /\ \A m : Posts(m) => (HostsOffered' <=> HostsOffered \/ Hosted(m))
<1>1. toPeer' = <<>> => Msgs(toPeer') = {}
  BY Underway
<1>2. toPeer # <<>> => Msgs(toPeer) = {Head(toPeer)} \cup Msgs(Tail(toPeer))
  BY Underway
<1>3. ASSUME NEW m, Posts(m)  PROVE  HostsOffered' <=> HostsOffered \/ Hosted(m)
  <2>1. Msgs(toPeer') = Msgs(toPeer) \cup {m}
    BY <1>3, Underway
  <2> QED BY <2>1 DEF HostsOffered
<1>4. toPeer' = <<>> => ~HostsOffered'
  BY <1>1 DEF HostsOffered
<1>5. toPeer # <<>> /\ toPeer' = Tail(toPeer) => (HostsOffered' => HostsOffered)
  BY <1>2 DEF HostsOffered
<1>6. toPeer # <<>> /\ Hosted(Head(toPeer)) => HostsOffered
  BY <1>2 DEF HostsOffered
<1>7. toPeer' = toPeer => (HostsOffered' <=> HostsOffered)
  BY DEF HostsOffered
<1>8. \A m : Posts(m) => (HostsOffered' <=> HostsOffered \/ Hosted(m))
  BY <1>3

<1> QED BY <1>4, <1>5, <1>6, <1>7, <1>8

LEMMA Refusals ==
    ASSUME Shape
    PROVE  /\ toUs' = toUs => (GaveUp' <=> GaveUp)
           /\ toUs' = <<>> => ~GaveUp'
           /\ toUs # <<>> /\ toUs' = Tail(toUs) => (GaveUp' => GaveUp)
           /\ toUs # <<>> /\ Failed(Head(toUs)) => GaveUp
           /\ \A m : Answers(m) => (GaveUp' <=> GaveUp \/ Failed(m))
<1>1. toUs' = <<>> => Msgs(toUs') = {}
  BY Underway
<1>2. toUs # <<>> => Msgs(toUs) = {Head(toUs)} \cup Msgs(Tail(toUs))
  BY Underway
<1>3. ASSUME NEW m, Answers(m)  PROVE  GaveUp' <=> GaveUp \/ Failed(m)
  <2>1. Msgs(toUs') = Msgs(toUs) \cup {m}
    BY <1>3, Underway
  <2> QED BY <2>1 DEF GaveUp
<1>4. toUs' = <<>> => ~GaveUp'
  BY <1>1 DEF GaveUp
<1>5. toUs # <<>> /\ toUs' = Tail(toUs) => (GaveUp' => GaveUp)
  BY <1>2 DEF GaveUp
<1>6. toUs # <<>> /\ Failed(Head(toUs)) => GaveUp
  BY <1>2 DEF GaveUp
<1>7. toUs' = toUs => (GaveUp' <=> GaveUp)
  BY DEF GaveUp
<1> QED BY <1>3, <1>4, <1>5, <1>6, <1>7

LEMMA Uses ==
    ASSUME Shape
    PROVE  /\ toUs' = toUs => (Used' <=> Used)
           /\ toUs' = <<>> => ~Used'
           /\ toUs # <<>> /\ toUs' = Tail(toUs) => (Used' => Used)
           /\ toUs # <<>> /\ Reported(Head(toUs)) => Used
           /\ \A m : Answers(m) => (Used' <=> Used \/ Reported(m))
<1>1. toUs' = <<>> => Msgs(toUs') = {}
  BY Underway
<1>2. toUs # <<>> => Msgs(toUs) = {Head(toUs)} \cup Msgs(Tail(toUs))
  BY Underway
<1>3. ASSUME NEW m, Answers(m)  PROVE  Used' <=> Used \/ Reported(m)
  <2>1. Msgs(toUs') = Msgs(toUs) \cup {m}
    BY <1>3, Underway
  <2> QED BY <2>1 DEF Used
<1>4. toUs' = <<>> => ~Used'
  BY <1>1 DEF Used
<1>5. toUs # <<>> /\ toUs' = Tail(toUs) => (Used' => Used)
  BY <1>2 DEF Used
<1>6. toUs # <<>> /\ Reported(Head(toUs)) => Used
  BY <1>2 DEF Used
<1>7. toUs' = toUs => (Used' <=> Used)
  BY DEF Used
<1> QED BY <1>3, <1>4, <1>5, <1>6, <1>7

\* Which stanzas these are.
LEMMA Kinds == /\ \A type, of, n : /\ Reported(Msg(type, of, n)) <=> type = "result" /\ of = "hosts"
                                   /\ Failed(Msg(type, of, n)) <=> type = "error" /\ of = "hosts"
                                   /\ Hosted(Msg(type, of, n)) <=> of = "hosts"
                                   /\ Msg(type, of, n).n = n
               /\ \A kind, n : <<kind, n>>[1] = kind
  BY MsgIs, RequestIs DEF Reported, Failed, Hosted

\* A host that is reported is the one of the connection.
LEMMA SameHost ==
    ASSUME Shape, ThisHost
    PROVE  /\ inc'.host = inc.host /\ toUs' = toUs => ThisHost'
           /\ inc'.host = inc.host /\ toUs' = <<>> => ThisHost'
           /\ inc'.host = inc.host /\ toUs # <<>> /\ toUs' = Tail(toUs) => ThisHost'
           /\ \A m : Answers(m) /\ inc'.host = inc.host /\ (Reported(m) => m.n = inc.host) => ThisHost'
           /\ ~Used' => ThisHost'
<1>1. toUs' = <<>> => Msgs(toUs') = {}
  BY Underway
<1>2. toUs # <<>> => Msgs(toUs) = {Head(toUs)} \cup Msgs(Tail(toUs))
  BY Underway
<1>3. ASSUME NEW m, Answers(m), inc'.host = inc.host, Reported(m) => m.n = inc.host  PROVE  ThisHost'
  <2>1. Msgs(toUs') = Msgs(toUs) \cup {m}
    BY <1>3, Underway
  <2> QED BY <1>3, <2>1 DEF ThisHost
<1>4. ~Used' => ThisHost'
  BY DEF Used, ThisHost
<1>5. inc'.host = inc.host /\ toUs' = toUs => ThisHost'
  BY DEF ThisHost
<1>6. inc'.host = inc.host /\ toUs' = <<>> => ThisHost'
  BY <1>1 DEF ThisHost
<1>7. inc'.host = inc.host /\ toUs # <<>> /\ toUs' = Tail(toUs) => ThisHost'
  BY <1>2 DEF ThisHost
<1> QED BY <1>3, <1>4, <1>5, <1>6, <1>7

\* A step that tells nobody of a host, and may end a job or a connection.
Aside ==
    /\ par' = par /\ hosts' = hosts /\ inc'.host = inc.host
    /\ inc'.step = inc.step \/ (inc.step = "open" /\ inc'.step = "closed" /\ inc'.device # "open")
    /\ inc'.state = "start" => inc.state = "start" /\ inc'.device = inc.device
    /\ inc'.device = "open" => inc.device = "open"
    /\ out'.request[1] = out.request[1] /\ out'.host = out.host /\ out'.method = out.method
    /\ out'.sock = out.sock \/ out'.sock \in {"none", "down", "refused"}
    /\ Watched' => Watched
    /\ HostsOffered' => HostsOffered
    /\ Alone(toPeer', "hosts")
    /\ GaveUp' => GaveUp
    /\ Used' => Used
    /\ ThisHost'

LEMMA AsideKeeps ==
    ASSUME Shape, Linked, Aside
    PROVE  Linked'
<1> SUFFICES ASSUME par.method # "ibb"
             PROVE  /\ Starting' /\ ClosedStep' /\ SomeHost' /\ WatchRan' /\ Watches' /\ ThisHost' /\ DialsIt'
                    /\ ServedIt' /\ AskedBefore' /\ AskedHosts' /\ OneHosts' /\ GivenUp' /\ NoHostYet'
  BY DEF Aside, Linked
<1>1. /\ Starting /\ ClosedStep /\ SomeHost /\ WatchRan /\ Watches /\ ThisHost /\ DialsIt /\ ServedIt
      /\ AskedBefore /\ AskedHosts /\ OneHosts /\ GivenUp /\ NoHostYet
  BY DEF Linked
<1>2. (Ran' <=> Ran) /\ (inc'.step \in Candidate => inc.step \in Candidate)
  BY DEF Aside, Ran, Candidate
<1>3. Starting' /\ ClosedStep' /\ SomeHost' /\ DialsIt' /\ NoHostYet' /\ ThisHost'
  BY <1>1 DEF Aside, Starting, ClosedStep, SomeHost, DialsIt, NoHostYet
<1>4. WatchRan' /\ Watches'
  BY <1>1, <1>2 DEF Aside, WatchRan, Watches
<1>5. ServedIt'
  BY <1>1, <1>2 DEF Aside, ServedIt
<1>6. AskedBefore' /\ AskedHosts' /\ OneHosts' /\ GivenUp'
  BY <1>1, <1>2 DEF Aside, AskedBefore, AskedHosts, OneHosts, GivenUp
<1> QED BY <1>3, <1>4, <1>5, <1>6

LEMMA Watching == out'.watched = out.watched => (Watched' <=> Watched)
  BY DEF Watched

\* What accepting an offer leaves alone of the connection.
LEMMA OfferAcceptedHost ==
    ASSUME Shape, OfferAccepted
    PROVE  /\ out'.host = out.host /\ out'.watched = out.watched
           /\ hosts' = hosts \/ out.request[1] = "offer"
<1> DEFINE job == [out EXCEPT !.state = "start", !.method = par.method]
<1>1. /\ DOMAIN out = OutFields /\ job.host = out.host /\ job.watched = out.watched /\ DOMAIN job = OutFields
      /\ OutShape(job)
  BY DEF Shape, OutShape, OutFields
<1>2. \/ out' = out /\ hosts' = hosts
      \/ /\ out.request[1] = "offer"
         /\ out' = TerminateOut(job, "ProtocolError") \/ \E r : out' = Ask(job, r)
  BY RequestIs DEF OfferAccepted, SendHosts, Gets, Answered
<1> HIDE DEF job
<1>3. \A r : Ask(job, r).host = job.host /\ Ask(job, r).watched = job.watched
  BY <1>1 DEF Ask, OutFields
<1>4. out' = TerminateOut(job, "ProtocolError") => out'.host = job.host /\ out'.watched = job.watched
  BY <1>1, OutEnds DEF EndedOut
<1> QED BY <1>1, <1>2, <1>3, <1>4

\* A host that serves the command is watched again only when it was reported.
LEMMA ServedUnwatched ==
    ASSUME Shape, CandidateServed
    PROVE  (hosts[inc.host] = "direct" /\ ~Watched') \/ out' = out
<1>1. CASE hosts[inc.host] = "direct"
  <2>1. out'.watched = FALSE
    BY <1>1 DEF CandidateServed, Shape, OutShape, OutFields
  <2> QED BY <1>1, <2>1 DEF Watched
<1> QED BY <1>1 DEF CandidateServed

\* No step makes the two ends mean different hosts.
LEMMA LinkedKept ==
    ASSUME Shape, Offered, Kind, OverSocks, Linked, TransferNext
    PROVE  Linked'
<1> SUFFICES ASSUME par.method # "ibb"  PROVE  Linked'
  BY ParStays DEF Linked
<1>1. /\ Starting /\ ClosedStep /\ SomeHost /\ WatchRan /\ Watches /\ ThisHost /\ DialsIt /\ ServedIt
      /\ AskedBefore /\ AskedHosts /\ OneHosts /\ GivenUp /\ NoHostYet
  BY DEF Linked
<1>2. FreshBefore /\ NotYet /\ RanState /\ UsedAlone /\ Once /\ Dialing /\ Buffered
  BY DEF OverSocks
<1>3. par' = par /\ Alone(toPeer, "hosts")
  BY <1>1, ParStays DEF OneHosts
<1>11. CASE IbbResponse
  <2>1. /\ hosts' = hosts /\ inc'.host = inc.host
        /\ inc'.step = inc.step \/ (inc.step = "open" /\ inc'.step = "closed" /\ inc'.device # "open")
        /\ inc'.state = "start" => inc.state = "start" /\ inc'.device = inc.device
        /\ inc'.device = "open" => inc.device = "open"
    BY <1>11, <1>1, <1>3, IbbResponseStep DEF EndedOut, EndedInc, Going, Holding, Writes,
       Checked, Offered, DeviceUsed
  <2>2. /\ out'.request[1] = out.request[1] /\ out'.host = out.host /\ out'.method = out.method
        /\ out'.sock = out.sock \/ out'.sock \in {"none", "down"}
        /\ out'.watched = out.watched
    BY <1>11, <1>1, <1>3, IbbResponseStep DEF EndedOut, EndedInc, Going, Holding, Writes,
       Checked, Kind, Sends
  <2>3. (HostsOffered' => HostsOffered) /\ Alone(toPeer', "hosts")
    BY <1>11, <1>1, <1>3, IbbResponseStep, HostsUnderway, Refusals, Uses, SameHost, AloneKept,
       Kinds, MsgIs DEF EndedOut, EndedInc, Going, Holding, Writes, Checked, Kind
  <2>4. (GaveUp' => GaveUp) /\ (Used' => Used) /\ ThisHost'
    BY <1>11, <1>1, <1>3, IbbResponseStep, <2>1, HostsUnderway, Refusals, Uses, SameHost,
       AloneKept, Kinds, MsgIs DEF EndedOut, EndedInc, Going, Holding, Writes, Checked
  <2> QED BY <1>3, <2>1, <2>2, <2>3, <2>4, Watching, AsideKeeps DEF Aside
<1>12. CASE PeerRefused
  <2>1. /\ hosts' = hosts /\ inc'.host = inc.host
        /\ inc'.step = inc.step \/ (inc.step = "open" /\ inc'.step = "closed" /\ inc'.device # "open")
        /\ inc'.state = "start" => inc.state = "start" /\ inc'.device = inc.device
        /\ inc'.device = "open" => inc.device = "open"
    BY <1>12, <1>1, <1>3, PeerRefusedStep DEF EndedOut, EndedInc, Going, Holding, Writes,
       Checked, Offered, DeviceUsed
  <2>2. /\ out'.request[1] = out.request[1] /\ out'.host = out.host /\ out'.method = out.method
        /\ out'.sock = out.sock \/ out'.sock \in {"none", "down"}
        /\ out'.watched = out.watched
    BY <1>12, <1>1, <1>3, PeerRefusedStep DEF EndedOut, EndedInc, Going, Holding, Writes,
       Checked, Kind, Sends
  <2>3. (HostsOffered' => HostsOffered) /\ Alone(toPeer', "hosts")
    BY <1>12, <1>1, <1>3, PeerRefusedStep, HostsUnderway, Refusals, Uses, SameHost, AloneKept,
       Kinds, MsgIs DEF EndedOut, EndedInc, Going, Holding, Writes, Checked, Kind
  <2>4. (GaveUp' => GaveUp) /\ (Used' => Used) /\ ThisHost'
    BY <1>12, <1>1, <1>3, PeerRefusedStep, <2>1, HostsUnderway, Refusals, Uses, SameHost,
       AloneKept, Kinds, MsgIs DEF EndedOut, EndedInc, Going, Holding, Writes, Checked
  <2> QED BY <1>3, <2>1, <2>2, <2>3, <2>4, Watching, AsideKeeps DEF Aside
<1>13. CASE OutTerminated
  <2>1. /\ hosts' = hosts /\ inc'.host = inc.host
        /\ inc'.step = inc.step \/ (inc.step = "open" /\ inc'.step = "closed" /\ inc'.device # "open")
        /\ inc'.state = "start" => inc.state = "start" /\ inc'.device = inc.device
        /\ inc'.device = "open" => inc.device = "open"
    BY <1>13, <1>1, <1>3, OutTerminatedStep DEF EndedOut, EndedInc, Going, Holding, Writes,
       Checked, Offered, DeviceUsed
  <2>2. /\ out'.request[1] = out.request[1] /\ out'.host = out.host /\ out'.method = out.method
        /\ out'.sock = out.sock \/ out'.sock \in {"none", "down"}
        /\ out'.watched = out.watched
    BY <1>13, <1>1, <1>3, OutTerminatedStep DEF EndedOut, EndedInc, Going, Holding, Writes,
       Checked, Kind, Sends
  <2>3. (HostsOffered' => HostsOffered) /\ Alone(toPeer', "hosts")
    BY <1>13, <1>1, <1>3, OutTerminatedStep, HostsUnderway, Refusals, Uses, SameHost, AloneKept,
       Kinds, MsgIs DEF EndedOut, EndedInc, Going, Holding, Writes, Checked, Kind
  <2>4. (GaveUp' => GaveUp) /\ (Used' => Used) /\ ThisHost'
    BY <1>13, <1>1, <1>3, OutTerminatedStep, <2>1, HostsUnderway, Refusals, Uses, SameHost,
       AloneKept, Kinds, MsgIs DEF EndedOut, EndedInc, Going, Holding, Writes, Checked
  <2> QED BY <1>3, <2>1, <2>2, <2>3, <2>4, Watching, AsideKeeps DEF Aside
<1>14. CASE AbortOut
  <2>1. /\ hosts' = hosts /\ inc'.host = inc.host
        /\ inc'.step = inc.step \/ (inc.step = "open" /\ inc'.step = "closed" /\ inc'.device # "open")
        /\ inc'.state = "start" => inc.state = "start" /\ inc'.device = inc.device
        /\ inc'.device = "open" => inc.device = "open"
    BY <1>14, <1>1, <1>3, AbortOutStep DEF EndedOut, EndedInc, Going, Holding, Writes, Checked,
       Offered, DeviceUsed
  <2>2. /\ out'.request[1] = out.request[1] /\ out'.host = out.host /\ out'.method = out.method
        /\ out'.sock = out.sock \/ out'.sock \in {"none", "down"}
        /\ out'.watched = out.watched
    BY <1>14, <1>1, <1>3, AbortOutStep DEF EndedOut, EndedInc, Going, Holding, Writes, Checked,
       Kind, Sends
  <2>3. (HostsOffered' => HostsOffered) /\ Alone(toPeer', "hosts")
    BY <1>14, <1>1, <1>3, AbortOutStep, HostsUnderway, Refusals, Uses, SameHost, AloneKept,
       Kinds, MsgIs DEF EndedOut, EndedInc, Going, Holding, Writes, Checked, Kind
  <2>4. (GaveUp' => GaveUp) /\ (Used' => Used) /\ ThisHost'
    BY <1>14, <1>1, <1>3, AbortOutStep, <2>1, HostsUnderway, Refusals, Uses, SameHost,
       AloneKept, Kinds, MsgIs DEF EndedOut, EndedInc, Going, Holding, Writes, Checked
  <2> QED BY <1>3, <2>1, <2>2, <2>3, <2>4, Watching, AsideKeeps DEF Aside
<1>15. CASE OfferArrives
  <2>1. /\ hosts' = hosts /\ inc'.host = inc.host
        /\ inc'.step = inc.step \/ (inc.step = "open" /\ inc'.step = "closed" /\ inc'.device # "open")
        /\ inc'.state = "start" => inc.state = "start" /\ inc'.device = inc.device
        /\ inc'.device = "open" => inc.device = "open"
    BY <1>15, <1>1, <1>3, OfferArrivesStep DEF EndedOut, EndedInc, Going, Holding, Writes,
       Checked, Offered, DeviceUsed
  <2>2. /\ out'.request[1] = out.request[1] /\ out'.host = out.host /\ out'.method = out.method
        /\ out'.sock = out.sock \/ out'.sock \in {"none", "down"}
        /\ out'.watched = out.watched
    BY <1>15, <1>1, <1>3, OfferArrivesStep DEF EndedOut, EndedInc, Going, Holding, Writes,
       Checked, Kind, Sends
  <2>3. (HostsOffered' => HostsOffered) /\ Alone(toPeer', "hosts")
    BY <1>15, <1>1, <1>3, OfferArrivesStep, HostsUnderway, Refusals, Uses, SameHost, AloneKept,
       Kinds, MsgIs DEF EndedOut, EndedInc, Going, Holding, Writes, Checked, Kind
  <2>4. (GaveUp' => GaveUp) /\ (Used' => Used) /\ ThisHost'
    BY <1>15, <1>1, <1>3, OfferArrivesStep, <2>1, HostsUnderway, Refusals, Uses, SameHost,
       AloneKept, Kinds, MsgIs DEF EndedOut, EndedInc, Going, Holding, Writes, Checked
  <2> QED BY <1>3, <2>1, <2>2, <2>3, <2>4, Watching, AsideKeeps DEF Aside
<1>16. CASE IncTerminated
  <2>1. /\ hosts' = hosts /\ inc'.host = inc.host
        /\ inc'.step = inc.step \/ (inc.step = "open" /\ inc'.step = "closed" /\ inc'.device # "open")
        /\ inc'.state = "start" => inc.state = "start" /\ inc'.device = inc.device
        /\ inc'.device = "open" => inc.device = "open"
    BY <1>16, <1>1, <1>3, IncTerminatedStep DEF EndedOut, EndedInc, Going, Holding, Writes,
       Checked, Offered, DeviceUsed
  <2>2. /\ out'.request[1] = out.request[1] /\ out'.host = out.host /\ out'.method = out.method
        /\ out'.sock = out.sock \/ out'.sock \in {"none", "down"}
        /\ out'.watched = out.watched
    BY <1>16, <1>1, <1>3, IncTerminatedStep DEF EndedOut, EndedInc, Going, Holding, Writes,
       Checked, Kind, Sends
  <2>3. (HostsOffered' => HostsOffered) /\ Alone(toPeer', "hosts")
    BY <1>16, <1>1, <1>3, IncTerminatedStep, HostsUnderway, Refusals, Uses, SameHost, AloneKept,
       Kinds, MsgIs DEF EndedOut, EndedInc, Going, Holding, Writes, Checked, Kind
  <2>4. (GaveUp' => GaveUp) /\ (Used' => Used) /\ ThisHost'
    BY <1>16, <1>1, <1>3, IncTerminatedStep, <2>1, HostsUnderway, Refusals, Uses, SameHost,
       AloneKept, Kinds, MsgIs DEF EndedOut, EndedInc, Going, Holding, Writes, Checked
  <2> QED BY <1>3, <2>1, <2>2, <2>3, <2>4, Watching, AsideKeeps DEF Aside
<1>17. CASE AbortInc
  <2>1. /\ hosts' = hosts /\ inc'.host = inc.host
        /\ inc'.step = inc.step \/ (inc.step = "open" /\ inc'.step = "closed" /\ inc'.device # "open")
        /\ inc'.state = "start" => inc.state = "start" /\ inc'.device = inc.device
        /\ inc'.device = "open" => inc.device = "open"
    BY <1>17, <1>1, <1>3, AbortIncStep DEF EndedOut, EndedInc, Going, Holding, Writes, Checked,
       Offered, DeviceUsed
  <2>2. /\ out'.request[1] = out.request[1] /\ out'.host = out.host /\ out'.method = out.method
        /\ out'.sock = out.sock \/ out'.sock \in {"none", "down"}
        /\ out'.watched = out.watched
    BY <1>17, <1>1, <1>3, AbortIncStep DEF EndedOut, EndedInc, Going, Holding, Writes, Checked,
       Kind, Sends
  <2>3. (HostsOffered' => HostsOffered) /\ Alone(toPeer', "hosts")
    BY <1>17, <1>1, <1>3, AbortIncStep, HostsUnderway, Refusals, Uses, SameHost, AloneKept,
       Kinds, MsgIs DEF EndedOut, EndedInc, Going, Holding, Writes, Checked, Kind
  <2>4. (GaveUp' => GaveUp) /\ (Used' => Used) /\ ThisHost'
    BY <1>17, <1>1, <1>3, AbortIncStep, <2>1, HostsUnderway, Refusals, Uses, SameHost,
       AloneKept, Kinds, MsgIs DEF EndedOut, EndedInc, Going, Holding, Writes, Checked
  <2> QED BY <1>3, <2>1, <2>2, <2>3, <2>4, Watching, AsideKeeps DEF Aside
<1>18. CASE StanzasLost
  <2>1. /\ hosts' = hosts /\ inc'.host = inc.host
        /\ inc'.step = inc.step \/ (inc.step = "open" /\ inc'.step = "closed" /\ inc'.device # "open")
        /\ inc'.state = "start" => inc.state = "start" /\ inc'.device = inc.device
        /\ inc'.device = "open" => inc.device = "open"
    BY <1>18, <1>1, <1>3 DEF EndedOut, EndedInc, Going, Holding, Writes, Checked, StanzasLost,
       Offered, DeviceUsed
  <2>2. /\ out'.request[1] = out.request[1] /\ out'.host = out.host /\ out'.method = out.method
        /\ out'.sock = out.sock \/ out'.sock \in {"none", "down"}
        /\ out'.watched = out.watched
    BY <1>18, <1>1, <1>3 DEF EndedOut, EndedInc, Going, Holding, Writes, Checked, StanzasLost,
       Kind, Sends
  <2>3. (HostsOffered' => HostsOffered) /\ Alone(toPeer', "hosts")
    BY <1>18, <1>1, <1>3, HostsUnderway, Refusals, Uses, SameHost, AloneKept, Kinds,
       MsgIs DEF EndedOut, EndedInc, Going, Holding, Writes, Checked, StanzasLost, Kind
  <2>4. (GaveUp' => GaveUp) /\ (Used' => Used) /\ ThisHost'
    BY <1>18, <1>1, <1>3, <2>1, HostsUnderway, Refusals, Uses, SameHost, AloneKept, Kinds,
       MsgIs DEF EndedOut, EndedInc, Going, Holding, Writes, Checked, StanzasLost
  <2> QED BY <1>3, <2>1, <2>2, <2>3, <2>4, Watching, AsideKeeps DEF Aside
<1>19. CASE ConnectionBreaks
  <2>1. /\ hosts' = hosts /\ inc'.host = inc.host
        /\ inc'.step = inc.step \/ (inc.step = "open" /\ inc'.step = "closed" /\ inc'.device # "open")
        /\ inc'.state = "start" => inc.state = "start" /\ inc'.device = inc.device
        /\ inc'.device = "open" => inc.device = "open"
    BY <1>19, <1>1, <1>3 DEF EndedOut, EndedInc, Going, Holding, Writes, Checked,
       ConnectionBreaks, Offered, DeviceUsed
  <2>2. /\ out'.request[1] = out.request[1] /\ out'.host = out.host /\ out'.method = out.method
        /\ out'.sock = out.sock \/ out'.sock \in {"none", "down"}
        /\ out'.watched = out.watched
    BY <1>19, <1>1, <1>3 DEF EndedOut, EndedInc, Going, Holding, Writes, Checked,
       ConnectionBreaks, Kind, Sends
  <2>3. (HostsOffered' => HostsOffered) /\ Alone(toPeer', "hosts")
    BY <1>19, <1>1, <1>3, HostsUnderway, Refusals, Uses, SameHost, AloneKept, Kinds,
       MsgIs DEF EndedOut, EndedInc, Going, Holding, Writes, Checked, ConnectionBreaks, Kind
  <2>4. (GaveUp' => GaveUp) /\ (Used' => Used) /\ ThisHost'
    BY <1>19, <1>1, <1>3, <2>1, HostsUnderway, Refusals, Uses, SameHost, AloneKept, Kinds,
       MsgIs DEF EndedOut, EndedInc, Going, Holding, Writes, Checked, ConnectionBreaks
  <2> QED BY <1>3, <2>1, <2>2, <2>3, <2>4, Watching, AsideKeeps DEF Aside
<1>20. CASE BytesWritten
  <2>1. /\ hosts' = hosts /\ inc'.host = inc.host
        /\ inc'.step = inc.step \/ (inc.step = "open" /\ inc'.step = "closed" /\ inc'.device # "open")
        /\ inc'.state = "start" => inc.state = "start" /\ inc'.device = inc.device
        /\ inc'.device = "open" => inc.device = "open"
    BY <1>20, <1>1, <1>3, BytesWrittenStep DEF EndedOut, EndedInc, Going, Holding, Writes,
       Checked, Offered, DeviceUsed
  <2>2. /\ out'.request[1] = out.request[1] /\ out'.host = out.host /\ out'.method = out.method
        /\ out'.sock = out.sock \/ out'.sock \in {"none", "down"}
        /\ out'.watched = out.watched
    BY <1>20, <1>1, <1>3, BytesWrittenStep DEF EndedOut, EndedInc, Going, Holding, Writes,
       Checked, Kind, Sends
  <2>3. (HostsOffered' => HostsOffered) /\ Alone(toPeer', "hosts")
    BY <1>20, <1>1, <1>3, BytesWrittenStep, HostsUnderway, Refusals, Uses, SameHost, AloneKept,
       Kinds, MsgIs DEF EndedOut, EndedInc, Going, Holding, Writes, Checked, Kind
  <2>4. (GaveUp' => GaveUp) /\ (Used' => Used) /\ ThisHost'
    BY <1>20, <1>1, <1>3, BytesWrittenStep, <2>1, HostsUnderway, Refusals, Uses, SameHost,
       AloneKept, Kinds, MsgIs DEF EndedOut, EndedInc, Going, Holding, Writes, Checked
  <2> QED BY <1>3, <2>1, <2>2, <2>3, <2>4, Watching, AsideKeeps DEF Aside
<1>21. CASE OutDisconnected
  <2>1. /\ hosts' = hosts /\ inc'.host = inc.host
        /\ inc'.step = inc.step \/ (inc.step = "open" /\ inc'.step = "closed" /\ inc'.device # "open")
        /\ inc'.state = "start" => inc.state = "start" /\ inc'.device = inc.device
        /\ inc'.device = "open" => inc.device = "open"
    BY <1>21, <1>1, <1>3, OutDisconnectedStep DEF EndedOut, EndedInc, Going, Holding, Writes,
       Checked, Offered, DeviceUsed
  <2>2. /\ out'.request[1] = out.request[1] /\ out'.host = out.host /\ out'.method = out.method
        /\ out'.sock = out.sock \/ out'.sock \in {"none", "down"}
        /\ out'.watched = out.watched
    BY <1>21, <1>1, <1>3, OutDisconnectedStep DEF EndedOut, EndedInc, Going, Holding, Writes,
       Checked, Kind, Sends
  <2>3. (HostsOffered' => HostsOffered) /\ Alone(toPeer', "hosts")
    BY <1>21, <1>1, <1>3, OutDisconnectedStep, HostsUnderway, Refusals, Uses, SameHost,
       AloneKept, Kinds, MsgIs DEF EndedOut, EndedInc, Going, Holding, Writes, Checked, Kind
  <2>4. (GaveUp' => GaveUp) /\ (Used' => Used) /\ ThisHost'
    BY <1>21, <1>1, <1>3, OutDisconnectedStep, <2>1, HostsUnderway, Refusals, Uses, SameHost,
       AloneKept, Kinds, MsgIs DEF EndedOut, EndedInc, Going, Holding, Writes, Checked
  <2> QED BY <1>3, <2>1, <2>2, <2>3, <2>4, Watching, AsideKeeps DEF Aside
<1>22. CASE ReceiveData
  <2>1. /\ hosts' = hosts /\ inc'.host = inc.host
        /\ inc'.step = inc.step \/ (inc.step = "open" /\ inc'.step = "closed" /\ inc'.device # "open")
        /\ inc'.state = "start" => inc.state = "start" /\ inc'.device = inc.device
        /\ inc'.device = "open" => inc.device = "open"
    BY <1>22, <1>1, <1>3, ReceiveDataStep DEF EndedOut, EndedInc, Going, Holding, Writes,
       Checked, Offered, DeviceUsed
  <2>2. /\ out'.request[1] = out.request[1] /\ out'.host = out.host /\ out'.method = out.method
        /\ out'.sock = out.sock \/ out'.sock \in {"none", "down"}
        /\ out'.watched = out.watched
    BY <1>22, <1>1, <1>3, ReceiveDataStep DEF EndedOut, EndedInc, Going, Holding, Writes,
       Checked, Kind, Sends
  <2>3. (HostsOffered' => HostsOffered) /\ Alone(toPeer', "hosts")
    BY <1>22, <1>1, <1>3, ReceiveDataStep, HostsUnderway, Refusals, Uses, SameHost, AloneKept,
       Kinds, MsgIs DEF EndedOut, EndedInc, Going, Holding, Writes, Checked, Kind
  <2>4. (GaveUp' => GaveUp) /\ (Used' => Used) /\ ThisHost'
    BY <1>22, <1>1, <1>3, ReceiveDataStep, <2>1, HostsUnderway, Refusals, Uses, SameHost,
       AloneKept, Kinds, MsgIs DEF EndedOut, EndedInc, Going, Holding, Writes, Checked
  <2> QED BY <1>3, <2>1, <2>2, <2>3, <2>4, Watching, AsideKeeps DEF Aside
<1>23. CASE IncDisconnected
  <2>1. /\ hosts' = hosts /\ inc'.host = inc.host
        /\ inc'.step = inc.step \/ (inc.step = "open" /\ inc'.step = "closed" /\ inc'.device # "open")
        /\ inc'.state = "start" => inc.state = "start" /\ inc'.device = inc.device
        /\ inc'.device = "open" => inc.device = "open"
    BY <1>23, <1>1, <1>3, IncDisconnectedStep DEF EndedOut, EndedInc, Going, Holding, Writes,
       Checked, Offered, DeviceUsed
  <2>2. /\ out'.request[1] = out.request[1] /\ out'.host = out.host /\ out'.method = out.method
        /\ out'.sock = out.sock \/ out'.sock \in {"none", "down"}
        /\ out'.watched = out.watched
    BY <1>23, <1>1, <1>3, IncDisconnectedStep DEF EndedOut, EndedInc, Going, Holding, Writes,
       Checked, Kind, Sends
  <2>3. (HostsOffered' => HostsOffered) /\ Alone(toPeer', "hosts")
    BY <1>23, <1>1, <1>3, IncDisconnectedStep, HostsUnderway, Refusals, Uses, SameHost,
       AloneKept, Kinds, MsgIs DEF EndedOut, EndedInc, Going, Holding, Writes, Checked, Kind
  <2>4. (GaveUp' => GaveUp) /\ (Used' => Used) /\ ThisHost'
    BY <1>23, <1>1, <1>3, IncDisconnectedStep, <2>1, HostsUnderway, Refusals, Uses, SameHost,
       AloneKept, Kinds, MsgIs DEF EndedOut, EndedInc, Going, Holding, Writes, Checked
  <2> QED BY <1>3, <2>1, <2>2, <2>3, <2>4, Watching, AsideKeeps DEF Aside
<1>24. ~IbbOpen
  BY IbbOpenStep, Underway DEF Kind
<1>25. ~IbbData
  BY IbbDataStep, Underway DEF Kind
<1>26. ~IbbClose
  BY IbbCloseStep, Underway DEF Kind
<1>27. CASE SendFile
  <2>1. Starting' /\ ClosedStep' /\ SomeHost'
    BY <1>27, <1>1, <1>2, <1>3, SendFileStep DEF EndedOut, EndedInc, Going, Holding,
       NextHostTaken, Sends, Starting, ClosedStep, SomeHost, Offered, Unsent, DeviceUsed,
       Untaken, Unanswered, NotYet, UsedAlone, RanState, Dialing
  <2>2. WatchRan' /\ Watches' /\ DialsIt' /\ ServedIt'
    BY <1>27, <1>1, <1>2, <1>3, SendFileStep, Watching DEF EndedOut, EndedInc, Going, Holding,
       NextHostTaken, Sends, WatchRan, Watches, DialsIt, ServedIt, Ran, Candidate, Offered,
       Unsent, DeviceUsed, Untaken, Unanswered, NotYet, UsedAlone, RanState, Dialing
  <2>3. AskedBefore' /\ AskedHosts' /\ OneHosts' /\ GivenUp' /\ NoHostYet'
    BY <1>27, <1>1, <1>2, <1>3, SendFileStep, HostsUnderway, Refusals, Uses, SameHost,
       AloneKept, Kinds, MsgIs, RequestIs DEF EndedOut, EndedInc, Going, Holding, NextHostTaken,
       Sends, AskedBefore, AskedHosts, OneHosts, GivenUp, NoHostYet, Ran, Candidate, Offered,
       Unsent, DeviceUsed, Untaken, Unanswered, NotYet, UsedAlone, RanState, Dialing
  <2>4. ThisHost'
    BY <1>27, <1>1, <1>2, <1>3, SendFileStep, HostsUnderway, Refusals, Uses, SameHost,
       AloneKept, Kinds, MsgIs, RequestIs DEF EndedOut, EndedInc, Going, Holding, NextHostTaken,
       Sends, ThisHost, Offered, Unsent, DeviceUsed, Untaken, Unanswered, NotYet, UsedAlone,
       RanState, Dialing
  <2> QED BY <2>1, <2>2, <2>3, <2>4 DEF Linked
<1>28. CASE OfferAccepted
  <2>1. Starting' /\ ClosedStep' /\ SomeHost'
    BY <1>28, <1>1, <1>2, <1>3, OfferAcceptedStep, OfferAcceptedHost DEF EndedOut, EndedInc,
       Going, Holding, NextHostTaken, Sends, Starting, ClosedStep, SomeHost, Offered, Unsent,
       DeviceUsed, Untaken, Unanswered, NotYet, UsedAlone, RanState, Dialing
  <2>2. WatchRan' /\ Watches' /\ DialsIt' /\ ServedIt'
    BY <1>28, <1>1, <1>2, <1>3, OfferAcceptedStep, OfferAcceptedHost, Watching DEF EndedOut,
       EndedInc, Going, Holding, NextHostTaken, Sends, WatchRan, Watches, DialsIt, ServedIt,
       Ran, Candidate, Offered, Unsent, DeviceUsed, Untaken, Unanswered, NotYet, UsedAlone,
       RanState, Dialing
  <2>3. AskedBefore' /\ AskedHosts' /\ OneHosts' /\ GivenUp' /\ NoHostYet'
    BY <1>28, <1>1, <1>2, <1>3, OfferAcceptedStep, OfferAcceptedHost, HostsUnderway, Refusals,
       Uses, SameHost, AloneKept, Kinds, MsgIs, RequestIs DEF EndedOut, EndedInc, Going,
       Holding, NextHostTaken, Sends, AskedBefore, AskedHosts, OneHosts, GivenUp, NoHostYet,
       Ran, Candidate, Offered, Unsent, DeviceUsed, Untaken, Unanswered, NotYet,
       UsedAlone, RanState, Dialing
  <2>4. ThisHost'
    BY <1>28, <1>1, <1>2, <1>3, OfferAcceptedStep, OfferAcceptedHost, HostsUnderway, Refusals,
       Uses, SameHost, AloneKept, Kinds, MsgIs, RequestIs DEF EndedOut, EndedInc, Going,
       Holding, NextHostTaken, Sends, ThisHost, Offered, Unsent, DeviceUsed, Untaken,
       Unanswered, NotYet, UsedAlone, RanState, Dialing
  <2> QED BY <2>1, <2>2, <2>3, <2>4 DEF Linked
<1>29. CASE ProxyAnswers
  <2>5. inc.step = "none" /\ ~Used /\ ~HostsOffered /\ ~GaveUp /\ out.sock # "dialing"
        /\ (HostsOffered' => out'.request[1] = "hosts") /\ out'.host = out.host /\ out.host = 0
    BY <1>29, <1>1, <1>2, <1>3, ProxyAnswersStep, RequestIs, HostsUnderway DEF AskedBefore,
       AskedHosts, GivenUp, Dialing, NoHostYet, EndedOut, Going
  <2>1. Starting' /\ ClosedStep' /\ SomeHost'
    BY <1>29, <1>1, <1>2, <1>3, ProxyAnswersStep, <2>5 DEF EndedOut, EndedInc, Going, Holding,
       NextHostTaken, Sends, Starting, ClosedStep, SomeHost, Offered, Unsent, DeviceUsed,
       Untaken, Unanswered, NotYet, UsedAlone, RanState, Dialing
  <2>2. WatchRan' /\ Watches' /\ DialsIt' /\ ServedIt'
    BY <1>29, <1>1, <1>2, <1>3, ProxyAnswersStep, <2>5, Watching DEF EndedOut, EndedInc, Going,
       Holding, NextHostTaken, Sends, WatchRan, Watches, DialsIt, ServedIt, Ran, Candidate,
       Offered, Unsent, DeviceUsed, Untaken, Unanswered, NotYet, UsedAlone, RanState, Dialing
  <2>7. \A x \in Msgs(toPeer) : x.of # "hosts"
    BY <2>5 DEF HostsOffered, Hosted
  <2>3. AskedBefore' /\ AskedHosts' /\ OneHosts' /\ GivenUp' /\ NoHostYet'
    <3>1. AskedBefore' /\ NoHostYet'
      BY <1>29, <1>1, <1>2, <1>3, ProxyAnswersStep, <2>5, <2>7, RequestIs DEF EndedOut,
         EndedInc, Going, Holding, NextHostTaken, Sends, AskedBefore, NoHostYet, Candidate, Ran,
         Offered, Unanswered, NotYet, UsedAlone
    <3>2. AskedHosts'
      BY <1>29, <1>1, <1>2, <1>3, ProxyAnswersStep, <2>5, <2>7, Uses, HostsUnderway, RequestIs,
         Kinds DEF EndedOut, EndedInc, Going, Holding, NextHostTaken, Sends, AskedHosts,
         Candidate, Ran, Offered, Unanswered, NotYet, UsedAlone
    <3>3. OneHosts'
      BY <1>29, <1>1, <1>2, <1>3, ProxyAnswersStep, <2>5, <2>7, HostsUnderway, AloneKept, Kinds,
         MsgIs DEF EndedOut, EndedInc, Going, Holding, NextHostTaken, Sends, OneHosts,
         Candidate, Ran, Offered, Unanswered, NotYet, UsedAlone
    <3>4. GivenUp'
      BY <1>29, <1>1, <1>2, <1>3, ProxyAnswersStep, <2>5, <2>7, HostsUnderway, Refusals,
         RequestIs, Kinds DEF EndedOut, EndedInc, Going, Holding, NextHostTaken, Sends, GivenUp,
         Candidate, Ran, Offered, Unanswered, NotYet, UsedAlone
    <3> QED BY <3>1, <3>2, <3>3, <3>4
  <2>4. ThisHost'
    BY <1>29, <1>1, <1>2, <1>3, ProxyAnswersStep, <2>5, <2>7, HostsUnderway, Refusals, Uses,
       SameHost, AloneKept, Kinds, MsgIs, RequestIs DEF EndedOut, EndedInc, Going, Holding,
       NextHostTaken, Sends, ThisHost, Offered, Unsent, DeviceUsed, Untaken, Unanswered,
       NotYet, UsedAlone, RanState, Dialing
  <2> QED BY <2>1, <2>2, <2>3, <2>4 DEF Linked
<1>30. CASE ProxyReady
  <2>1. Starting' /\ ClosedStep' /\ SomeHost'
    BY <1>30, <1>1, <1>2, <1>3, ProxyReadyStep DEF EndedOut, EndedInc, Going, Holding,
       NextHostTaken, Sends, Starting, ClosedStep, SomeHost, Offered, Unsent, DeviceUsed,
       Untaken, Unanswered, NotYet, UsedAlone, RanState, Dialing
  <2>2. WatchRan' /\ Watches' /\ DialsIt' /\ ServedIt'
    BY <1>30, <1>1, <1>2, <1>3, ProxyReadyStep, Watching DEF EndedOut, EndedInc, Going, Holding,
       NextHostTaken, Sends, WatchRan, Watches, DialsIt, ServedIt, Ran, Candidate, Offered,
       Unsent, DeviceUsed, Untaken, Unanswered, NotYet, UsedAlone, RanState, Dialing
  <2>3. AskedBefore' /\ AskedHosts' /\ OneHosts' /\ GivenUp' /\ NoHostYet'
    BY <1>30, <1>1, <1>2, <1>3, ProxyReadyStep, HostsUnderway, Refusals, Uses, SameHost,
       AloneKept, Kinds, MsgIs, RequestIs DEF EndedOut, EndedInc, Going, Holding, NextHostTaken,
       Sends, AskedBefore, AskedHosts, OneHosts, GivenUp, NoHostYet, Ran, Candidate, Offered,
       Unsent, DeviceUsed, Untaken, Unanswered, NotYet, UsedAlone, RanState, Dialing
  <2>4. ThisHost'
    BY <1>30, <1>1, <1>2, <1>3, ProxyReadyStep, HostsUnderway, Refusals, Uses, SameHost,
       AloneKept, Kinds, MsgIs, RequestIs DEF EndedOut, EndedInc, Going, Holding, NextHostTaken,
       Sends, ThisHost, Offered, Unsent, DeviceUsed, Untaken, Unanswered, NotYet, UsedAlone,
       RanState, Dialing
  <2> QED BY <2>1, <2>2, <2>3, <2>4 DEF Linked
<1>31. CASE Activated
  <2>1. Starting' /\ ClosedStep' /\ SomeHost'
    BY <1>31, <1>1, <1>2, <1>3, ActivatedStep DEF EndedOut, EndedInc, Going, Holding,
       NextHostTaken, Sends, Starting, ClosedStep, SomeHost, Offered, Unsent, DeviceUsed,
       Untaken, Unanswered, NotYet, UsedAlone, RanState, Dialing
  <2>2. WatchRan' /\ Watches' /\ DialsIt' /\ ServedIt'
    BY <1>31, <1>1, <1>2, <1>3, ActivatedStep, Watching DEF EndedOut, EndedInc, Going, Holding,
       NextHostTaken, Sends, WatchRan, Watches, DialsIt, ServedIt, Ran, Candidate, Offered,
       Unsent, DeviceUsed, Untaken, Unanswered, NotYet, UsedAlone, RanState, Dialing
  <2>3. AskedBefore' /\ AskedHosts' /\ OneHosts' /\ GivenUp' /\ NoHostYet'
    BY <1>31, <1>1, <1>2, <1>3, ActivatedStep, HostsUnderway, Refusals, Uses, SameHost,
       AloneKept, Kinds, MsgIs, RequestIs DEF EndedOut, EndedInc, Going, Holding, NextHostTaken,
       Sends, AskedBefore, AskedHosts, OneHosts, GivenUp, NoHostYet, Ran, Candidate, Offered,
       Unsent, DeviceUsed, Untaken, Unanswered, NotYet, UsedAlone, RanState, Dialing
  <2>4. ThisHost'
    BY <1>31, <1>1, <1>2, <1>3, ActivatedStep, HostsUnderway, Refusals, Uses, SameHost,
       AloneKept, Kinds, MsgIs, RequestIs DEF EndedOut, EndedInc, Going, Holding, NextHostTaken,
       Sends, ThisHost, Offered, Unsent, DeviceUsed, Untaken, Unanswered, NotYet, UsedAlone,
       RanState, Dialing
  <2> QED BY <2>1, <2>2, <2>3, <2>4 DEF Linked
<1>32. CASE HostUsed
  <2>5. Used /\ Ran /\ Head(toUs).n = inc.host
    BY <1>32, <1>1, <1>2, <1>3, HostUsedStep, Uses, Underway DEF Reported, NotYet, ThisHost
  <2>1. Starting' /\ ClosedStep' /\ SomeHost'
    BY <1>32, <1>1, <1>2, <1>3, HostUsedStep, <2>5 DEF EndedOut, EndedInc, Going, Holding,
       NextHostTaken, Sends, Starting, ClosedStep, SomeHost, Offered, Unsent, DeviceUsed,
       Untaken, Unanswered, NotYet, UsedAlone, RanState, Dialing
  <2>2. WatchRan' /\ Watches' /\ DialsIt' /\ ServedIt'
    BY <1>32, <1>1, <1>2, <1>3, HostUsedStep, <2>5, Watching DEF EndedOut, EndedInc, Going,
       Holding, NextHostTaken, Sends, WatchRan, Watches, DialsIt, ServedIt, Ran, Candidate,
       Offered, Unsent, DeviceUsed, Untaken, Unanswered, NotYet, UsedAlone, RanState, Dialing
  <2>3. AskedBefore' /\ AskedHosts' /\ OneHosts' /\ GivenUp' /\ NoHostYet'
    BY <1>32, <1>1, <1>2, <1>3, HostUsedStep, <2>5, HostsUnderway, Refusals, Uses, SameHost,
       AloneKept, Kinds, MsgIs, RequestIs DEF EndedOut, EndedInc, Going, Holding, NextHostTaken,
       Sends, AskedBefore, AskedHosts, OneHosts, GivenUp, NoHostYet, Ran, Candidate, Offered,
       Unsent, DeviceUsed, Untaken, Unanswered, NotYet, UsedAlone, RanState, Dialing
  <2>4. ThisHost'
    BY <1>32, <1>1, <1>2, <1>3, HostUsedStep, <2>5, HostsUnderway, Refusals, Uses, SameHost,
       AloneKept, Kinds, MsgIs, RequestIs DEF EndedOut, EndedInc, Going, Holding, NextHostTaken,
       Sends, ThisHost, Offered, Unsent, DeviceUsed, Untaken, Unanswered, NotYet, UsedAlone,
       RanState, Dialing
  <2> QED BY <2>1, <2>2, <2>3, <2>4 DEF Linked
<1>33. CASE UserAccepts
  <2>1. Starting' /\ ClosedStep' /\ SomeHost'
    BY <1>33, <1>1, <1>2, <1>3, UserAcceptsStep DEF EndedOut, EndedInc, Going, Holding,
       NextHostTaken, Sends, Starting, ClosedStep, SomeHost, Offered, Unsent, DeviceUsed,
       Untaken, Unanswered, NotYet, UsedAlone, RanState, Dialing
  <2>2. WatchRan' /\ Watches' /\ DialsIt' /\ ServedIt'
    BY <1>33, <1>1, <1>2, <1>3, UserAcceptsStep, Watching DEF EndedOut, EndedInc, Going,
       Holding, NextHostTaken, Sends, WatchRan, Watches, DialsIt, ServedIt, Ran, Candidate,
       Offered, Unsent, DeviceUsed, Untaken, Unanswered, NotYet, UsedAlone, RanState, Dialing
  <2>3. AskedBefore' /\ AskedHosts' /\ OneHosts' /\ GivenUp' /\ NoHostYet'
    BY <1>33, <1>1, <1>2, <1>3, UserAcceptsStep, HostsUnderway, Refusals, Uses, SameHost,
       AloneKept, Kinds, MsgIs, RequestIs DEF EndedOut, EndedInc, Going, Holding, NextHostTaken,
       Sends, AskedBefore, AskedHosts, OneHosts, GivenUp, NoHostYet, Ran, Candidate, Offered,
       Unsent, DeviceUsed, Untaken, Unanswered, NotYet, UsedAlone, RanState, Dialing
  <2>4. ThisHost'
    BY <1>33, <1>1, <1>2, <1>3, UserAcceptsStep, HostsUnderway, Refusals, Uses, SameHost,
       AloneKept, Kinds, MsgIs, RequestIs DEF EndedOut, EndedInc, Going, Holding, NextHostTaken,
       Sends, ThisHost, Offered, Unsent, DeviceUsed, Untaken, Unanswered, NotYet, UsedAlone,
       RanState, Dialing
  <2> QED BY <2>1, <2>2, <2>3, <2>4 DEF Linked
<1>34. CASE HostsArrive
  <2>5. HostsOffered /\ ~HostsOffered' /\ out.request[1] = "hosts" /\ inc.step = "none" /\ ~GaveUp
        /\ Alone(toPeer', "hosts")
    BY <1>34, <1>1, <1>2, <1>3, HostsArriveStep, HostsUnderway, AloneKept DEF Hosted,
       AskedHosts, OneHosts, GivenUp, HostsOffered
  <2>6. inc.host \in Nat /\ inc.host + 1 # 0
    BY DEF Shape, IncShape
  <2>1. Starting' /\ ClosedStep' /\ SomeHost'
    BY <1>34, <1>1, <1>2, <1>3, HostsArriveStep, <2>5, <2>6 DEF EndedOut, EndedInc, Going,
       Holding, NextHostTaken, Sends, Starting, ClosedStep, SomeHost, Offered, Unsent,
       DeviceUsed, Untaken, Unanswered, NotYet, UsedAlone, RanState, Dialing
  <2>2. WatchRan' /\ Watches' /\ DialsIt' /\ ServedIt'
    BY <1>34, <1>1, <1>2, <1>3, HostsArriveStep, <2>5, <2>6, Watching DEF EndedOut, EndedInc,
       Going, Holding, NextHostTaken, Sends, WatchRan, Watches, DialsIt, ServedIt, Ran,
       Candidate, Offered, Unsent, DeviceUsed, Untaken, Unanswered, NotYet, UsedAlone,
       RanState, Dialing
  <2>3. AskedBefore' /\ AskedHosts' /\ OneHosts' /\ GivenUp' /\ NoHostYet'
    BY <1>34, <1>1, <1>2, <1>3, HostsArriveStep, <2>5, <2>6, HostsUnderway, Refusals, Uses,
       SameHost, AloneKept, Kinds, MsgIs, RequestIs DEF EndedOut, EndedInc, Going, Holding,
       NextHostTaken, Sends, AskedBefore, AskedHosts, OneHosts, GivenUp, NoHostYet, Ran,
       Candidate, Offered, Unsent, DeviceUsed, Untaken, Unanswered, NotYet, UsedAlone,
       RanState, Dialing
  <2>4. ThisHost'
    BY <1>34, <1>1, <1>2, <1>3, HostsArriveStep, <2>5, <2>6, HostsUnderway, Refusals, Uses,
       SameHost, AloneKept, Kinds, MsgIs, RequestIs DEF EndedOut, EndedInc, Going, Holding,
       NextHostTaken, Sends, ThisHost, Offered, Unsent, DeviceUsed, Untaken, Unanswered,
       NotYet, UsedAlone, RanState, Dialing
  <2> QED BY <2>1, <2>2, <2>3, <2>4 DEF Linked
<1>35. CASE CandidateProceeds
  <2>1. Starting' /\ ClosedStep' /\ SomeHost'
    BY <1>35, <1>1, <1>2, <1>3, CandidateProceedsStep DEF EndedOut, EndedInc, Going, Holding,
       NextHostTaken, Sends, Starting, ClosedStep, SomeHost, Offered, Unsent, DeviceUsed,
       Untaken, Unanswered, NotYet, UsedAlone, RanState, Dialing
  <2>2. WatchRan' /\ Watches' /\ DialsIt' /\ ServedIt'
    BY <1>35, <1>1, <1>2, <1>3, CandidateProceedsStep, Watching DEF EndedOut, EndedInc, Going,
       Holding, NextHostTaken, Sends, WatchRan, Watches, DialsIt, ServedIt, Ran, Candidate,
       Offered, Unsent, DeviceUsed, Untaken, Unanswered, NotYet, UsedAlone, RanState, Dialing
  <2>3. AskedBefore' /\ AskedHosts' /\ OneHosts' /\ GivenUp' /\ NoHostYet'
    BY <1>35, <1>1, <1>2, <1>3, CandidateProceedsStep, HostsUnderway, Refusals, Uses, SameHost,
       AloneKept, Kinds, MsgIs, RequestIs DEF EndedOut, EndedInc, Going, Holding, NextHostTaken,
       Sends, AskedBefore, AskedHosts, OneHosts, GivenUp, NoHostYet, Ran, Candidate, Offered,
       Unsent, DeviceUsed, Untaken, Unanswered, NotYet, UsedAlone, RanState, Dialing
  <2>4. ThisHost'
    BY <1>35, <1>1, <1>2, <1>3, CandidateProceedsStep, HostsUnderway, Refusals, Uses, SameHost,
       AloneKept, Kinds, MsgIs, RequestIs DEF EndedOut, EndedInc, Going, Holding, NextHostTaken,
       Sends, ThisHost, Offered, Unsent, DeviceUsed, Untaken, Unanswered, NotYet, UsedAlone,
       RanState, Dialing
  <2> QED BY <2>1, <2>2, <2>3, <2>4 DEF Linked
<1>36. CASE CandidateServed
  <2>1. Starting' /\ ClosedStep' /\ SomeHost'
    BY <1>36, <1>1, <1>2, <1>3, CandidateServedStep, ServedUnwatched DEF EndedOut, EndedInc,
       Going, Holding, NextHostTaken, Sends, Starting, ClosedStep, SomeHost, Offered, Unsent,
       DeviceUsed, Untaken, Unanswered, NotYet, UsedAlone, RanState, Dialing
  <2>2. WatchRan' /\ Watches' /\ DialsIt' /\ ServedIt'
    BY <1>36, <1>1, <1>2, <1>3, CandidateServedStep, ServedUnwatched, Watching DEF EndedOut,
       EndedInc, Going, Holding, NextHostTaken, Sends, WatchRan, Watches, DialsIt, ServedIt,
       Ran, Candidate, Offered, Unsent, DeviceUsed, Untaken, Unanswered, NotYet, UsedAlone,
       RanState, Dialing
  <2>3. AskedBefore' /\ AskedHosts' /\ OneHosts' /\ GivenUp' /\ NoHostYet'
    BY <1>36, <1>1, <1>2, <1>3, CandidateServedStep, ServedUnwatched, HostsUnderway, Refusals,
       Uses, SameHost, AloneKept, Kinds, MsgIs, RequestIs DEF EndedOut, EndedInc, Going,
       Holding, NextHostTaken, Sends, AskedBefore, AskedHosts, OneHosts, GivenUp, NoHostYet,
       Ran, Candidate, Offered, Unsent, DeviceUsed, Untaken, Unanswered, NotYet,
       UsedAlone, RanState, Dialing
  <2>4. ThisHost'
    BY <1>36, <1>1, <1>2, <1>3, CandidateServedStep, ServedUnwatched, HostsUnderway, Refusals,
       Uses, SameHost, AloneKept, Kinds, MsgIs, RequestIs DEF EndedOut, EndedInc, Going,
       Holding, NextHostTaken, Sends, ThisHost, Offered, Unsent, DeviceUsed, Untaken,
       Unanswered, NotYet, UsedAlone, RanState, Dialing
  <2> QED BY <2>1, <2>2, <2>3, <2>4 DEF Linked
<1>37. CASE CandidateReady
  <2>1. Starting' /\ ClosedStep' /\ SomeHost'
    BY <1>37, <1>1, <1>2, <1>3, CandidateReadyStep DEF EndedOut, EndedInc, Going, Holding,
       NextHostTaken, Sends, Starting, ClosedStep, SomeHost, Offered, Unsent, DeviceUsed,
       Untaken, Unanswered, NotYet, UsedAlone, RanState, Dialing
  <2>2. WatchRan' /\ Watches' /\ DialsIt' /\ ServedIt'
    BY <1>37, <1>1, <1>2, <1>3, CandidateReadyStep, Watching DEF EndedOut, EndedInc, Going,
       Holding, NextHostTaken, Sends, WatchRan, Watches, DialsIt, ServedIt, Ran, Candidate,
       Offered, Unsent, DeviceUsed, Untaken, Unanswered, NotYet, UsedAlone, RanState, Dialing
  <2>3. AskedBefore' /\ AskedHosts' /\ OneHosts' /\ GivenUp' /\ NoHostYet'
    BY <1>37, <1>1, <1>2, <1>3, CandidateReadyStep, HostsUnderway, Refusals, Uses, SameHost,
       AloneKept, Kinds, MsgIs, RequestIs DEF EndedOut, EndedInc, Going, Holding, NextHostTaken,
       Sends, AskedBefore, AskedHosts, OneHosts, GivenUp, NoHostYet, Ran, Candidate, Offered,
       Unsent, DeviceUsed, Untaken, Unanswered, NotYet, UsedAlone, RanState, Dialing
  <2>4. ThisHost'
    BY <1>37, <1>1, <1>2, <1>3, CandidateReadyStep, HostsUnderway, Refusals, Uses, SameHost,
       AloneKept, Kinds, MsgIs, RequestIs DEF EndedOut, EndedInc, Going, Holding, NextHostTaken,
       Sends, ThisHost, Offered, Unsent, DeviceUsed, Untaken, Unanswered, NotYet, UsedAlone,
       RanState, Dialing
  <2> QED BY <2>1, <2>2, <2>3, <2>4 DEF Linked
<1>38. CASE CandidateDisconnected \/ CandidateTimeout
  <2>5. ~HostsOffered /\ out.request[1] = "hosts" /\ inc.step # "none" /\ ~GaveUp
    BY <1>38, <1>1, <1>2, <1>3, CandidateLostStep DEF AskedHosts, OneHosts, GivenUp, Candidate
  <2>6. inc.host \in Nat /\ inc.host + 1 # 0
    BY DEF Shape, IncShape
  <2>1. Starting' /\ ClosedStep' /\ SomeHost'
    BY <1>38, <1>1, <1>2, <1>3, CandidateLostStep, <2>5, <2>6 DEF EndedOut, EndedInc, Going,
       Holding, NextHostTaken, Sends, Starting, ClosedStep, SomeHost, Offered, Unsent,
       DeviceUsed, Untaken, Unanswered, NotYet, UsedAlone, RanState, Dialing
  <2>2. WatchRan' /\ Watches' /\ DialsIt' /\ ServedIt'
    BY <1>38, <1>1, <1>2, <1>3, CandidateLostStep, <2>5, <2>6, Watching DEF EndedOut, EndedInc,
       Going, Holding, NextHostTaken, Sends, WatchRan, Watches, DialsIt, ServedIt, Ran,
       Candidate, Offered, Unsent, DeviceUsed, Untaken, Unanswered, NotYet, UsedAlone,
       RanState, Dialing
  <2>3. AskedBefore' /\ AskedHosts' /\ OneHosts' /\ GivenUp' /\ NoHostYet'
    <3>1. AskedBefore' /\ NoHostYet'
      BY <1>38, <1>1, <1>2, <1>3, CandidateLostStep, <2>5, <2>6, RequestIs DEF EndedOut,
         EndedInc, Going, Holding, NextHostTaken, Sends, AskedBefore, NoHostYet, Candidate, Ran,
         Offered, Unanswered, NotYet, UsedAlone
    <3>2. AskedHosts'
      BY <1>38, <1>1, <1>2, <1>3, CandidateLostStep, <2>5, <2>6, Uses, HostsUnderway, RequestIs,
         Kinds DEF EndedOut, EndedInc, Going, Holding, NextHostTaken, Sends, AskedHosts,
         Candidate, Ran, Offered, Unanswered, NotYet, UsedAlone
    <3>3. OneHosts'
      BY <1>38, <1>1, <1>2, <1>3, CandidateLostStep, <2>5, <2>6, HostsUnderway, AloneKept,
         Kinds, MsgIs DEF EndedOut, EndedInc, Going, Holding, NextHostTaken, Sends, OneHosts,
         Candidate, Ran, Offered, Unanswered, NotYet, UsedAlone
    <3>4. GivenUp'
      BY <1>38, <1>1, <1>2, <1>3, CandidateLostStep, <2>5, <2>6, HostsUnderway, Refusals,
         RequestIs, Kinds DEF EndedOut, EndedInc, Going, Holding, NextHostTaken, Sends, GivenUp,
         Candidate, Ran, Offered, Unanswered, NotYet, UsedAlone
    <3> QED BY <3>1, <3>2, <3>3, <3>4
  <2>4. ThisHost'
    <3>1. CASE inc.step \in Candidate
      <4>1. ~Used
        BY <1>2, <3>1 DEF NotYet, Ran, Candidate
      <4>2. ~Used'
        BY <1>38, <3>1, <4>1, CandidateLostStep, Uses, Kinds DEF NextHostTaken
      <4> QED BY <1>1, <4>2, SameHost
    <3>2. CASE inc.step \notin Candidate
      BY <1>38, <1>1, <3>2, CandidateLostStep, SameHost DEF Holding
    <3> QED BY <3>1, <3>2
  <2> QED BY <2>1, <2>2, <2>3, <2>4 DEF Linked
<1>39. CASE DoomedDeleted
  <2>5. inc.step \in Candidate =>
          ~HostsOffered /\ out.request[1] = "hosts" /\ inc.step # "none" /\ ~GaveUp
    BY <1>39, <1>1, <1>2, <1>3, DoomedDeletedStep DEF AskedHosts, OneHosts, GivenUp, Candidate
  <2>6. inc.host \in Nat /\ inc.host + 1 # 0
    BY DEF Shape, IncShape
  <2>1. Starting' /\ ClosedStep' /\ SomeHost'
    BY <1>39, <1>1, <1>2, <1>3, DoomedDeletedStep, <2>5, <2>6 DEF EndedOut, EndedInc, Going,
       Holding, NextHostTaken, Sends, Starting, ClosedStep, SomeHost, Offered, Unsent,
       DeviceUsed, Untaken, Unanswered, NotYet, UsedAlone, RanState, Dialing
  <2>2. WatchRan' /\ Watches' /\ DialsIt' /\ ServedIt'
    BY <1>39, <1>1, <1>2, <1>3, DoomedDeletedStep, <2>5, <2>6, Watching DEF EndedOut, EndedInc,
       Going, Holding, NextHostTaken, Sends, WatchRan, Watches, DialsIt, ServedIt, Ran,
       Candidate, Offered, Unsent, DeviceUsed, Untaken, Unanswered, NotYet, UsedAlone,
       RanState, Dialing
  <2>3. AskedBefore' /\ AskedHosts' /\ OneHosts' /\ GivenUp' /\ NoHostYet'
    <3>1. AskedBefore' /\ NoHostYet'
      BY <1>39, <1>1, <1>2, <1>3, DoomedDeletedStep, <2>5, <2>6, RequestIs DEF EndedOut,
         EndedInc, Going, Holding, NextHostTaken, Sends, AskedBefore, NoHostYet, Candidate, Ran,
         Offered, Unanswered, NotYet, UsedAlone
    <3>2. AskedHosts'
      BY <1>39, <1>1, <1>2, <1>3, DoomedDeletedStep, <2>5, <2>6, Uses, HostsUnderway, RequestIs,
         Kinds DEF EndedOut, EndedInc, Going, Holding, NextHostTaken, Sends, AskedHosts,
         Candidate, Ran, Offered, Unanswered, NotYet, UsedAlone
    <3>3. OneHosts'
      BY <1>39, <1>1, <1>2, <1>3, DoomedDeletedStep, <2>5, <2>6, HostsUnderway, AloneKept,
         Kinds, MsgIs DEF EndedOut, EndedInc, Going, Holding, NextHostTaken, Sends, OneHosts,
         Candidate, Ran, Offered, Unanswered, NotYet, UsedAlone
    <3>4. GivenUp'
      BY <1>39, <1>1, <1>2, <1>3, DoomedDeletedStep, <2>5, <2>6, HostsUnderway, Refusals,
         RequestIs, Kinds DEF EndedOut, EndedInc, Going, Holding, NextHostTaken, Sends, GivenUp,
         Candidate, Ran, Offered, Unanswered, NotYet, UsedAlone
    <3> QED BY <3>1, <3>2, <3>3, <3>4
  <2>4. ThisHost'
    <3>1. CASE inc.step \in Candidate
      <4>1. ~Used
        BY <1>2, <3>1 DEF NotYet, Ran, Candidate
      <4>2. ~Used'
        BY <1>39, <3>1, <4>1, DoomedDeletedStep, Uses, Kinds DEF NextHostTaken
      <4> QED BY <1>1, <4>2, SameHost
    <3>2. CASE inc.step \notin Candidate
      BY <1>39, <1>1, <3>2, DoomedDeletedStep, SameHost DEF Holding
    <3> QED BY <3>1, <3>2
  <2> QED BY <2>1, <2>2, <2>3, <2>4 DEF Linked
<1>40. CASE ProxyFails
  <2>1. /\ (HostsOffered' => HostsOffered) /\ Alone(toPeer', "hosts")
        /\ (GaveUp' => GaveUp) /\ (Used' => Used) /\ ThisHost'
    BY <1>40, <1>1, <1>3, ProxyFailsStep, HostsUnderway, Refusals, Uses, SameHost, AloneKept
  <2> QED BY <1>40, <1>3, ProxyFailsStep, <2>1, Watching, AsideKeeps DEF Aside, EndedOut
<1> QED
  BY <1>11, <1>12, <1>13, <1>14, <1>15, <1>16, <1>17, <1>18, <1>19, <1>20, <1>21, <1>22, <1>23,
       <1>24, <1>25, <1>26, <1>27, <1>28, <1>29, <1>30, <1>31, <1>32, <1>33, <1>34, <1>35, <1>36,
          <1>37, <1>38, <1>39, <1>40
    DEF TransferNext, StanzaStep, SocketStep, PostedStep

-----------------------------------------------------------------------------
(* Over a connection: the whole file, while nobody interferes. *)

\* Over a connection, while nobody has interfered: whoever has it has an open file, the two
\* ends go on while the host is being agreed on, and end with the whole file only.
OpenCandidate == inc.step \in Candidate \/ (Ran /\ inc.state # "finished") => inc.device = "open"
NotDirect == out.request[1] = "hosts" /\ out.sock # "dialing" =>
    out.host = 0 \/ hosts[out.host] = "direct"
StillOn == (Used /\ hosts[inc.host] # "direct") \/ out.sock = "dialing" => inc.state # "finished"
OnlyWhole == Ran /\ inc.state = "finished" /\ out.sock = "up" =>
    par.blocks > 0 /\ Len(inc.written) = par.blocks
Landed == IF inc.state = "finished" THEN Len(inc.written) = par.blocks
          ELSE Len(inc.written) + Len(pipe) = par.blocks
Arrived == out.state = "finished" /\ out.error = "NoError" =>
    Ran /\ out.request[1] # "activate" /\ out.sock = "down" /\ Landed
Undisturbed == par.method # "ibb" /\ Calm =>
    ~Broken /\ OpenCandidate /\ NotDirect /\ StillOn /\ OnlyWhole /\ Arrived

\* A step that delivers nothing and ends neither job with success.
Elsewhere ==
    /\ par' = par /\ inc'.written = inc.written /\ (Ran' <=> Ran)
    /\ Ran => (inc'.state = "finished" <=> inc.state = "finished")
    /\ out'.sock = out.sock \/ out'.sock # "up"
    /\ \/ /\ out.state = "finished" /\ out'.error = out.error /\ out'.sock = out.sock
          /\ out'.request[1] = out.request[1] \/ out'.request[1] # "activate"
          /\ pipe' = pipe
       \/ out'.state # "finished" \/ out'.error # "NoError"

LEMMA ElsewhereKeeps ==
    ASSUME Elsewhere, OnlyWhole, Arrived
    PROVE  OnlyWhole' /\ Arrived'
  BY DEF Elsewhere, OnlyWhole, Arrived, Landed

\* Before there is a connection, neither job ends with success.
LEMMA BeforeKeeps ==
    ASSUME ~Ran, OnlyWhole, Arrived, out'.state = out.state /\ out'.error = out.error,
           Ran' => inc'.state # "finished"
    PROVE  OnlyWhole' /\ Arrived'
  BY DEF OnlyWhole, Arrived

\* A closed connection tells the sender that the other end is gone.
LEMMA OutDisconnectedHow ==
    ASSUME Shape, OutDisconnected
    PROVE  /\ Broken \/ inc.host # out.host \/ inc.step \in {"none", "closed"}
           /\ Watched \/ (out'.state = out.state /\ out'.error = out.error)
<1>1. Broken \/ inc.host # out.host \/ inc.step \in {"none", "closed"}
  BY Zenon DEF OutDisconnected, Broken
<1>2. CASE ~Watched
  <2>1. out' = [out EXCEPT !.sock = "down", !.buf = <<>>]
    BY <1>2, Zenon DEF OutDisconnected, Watched
  <2>2. DOMAIN out = OutFields
    BY DEF Shape, OutShape
  <2>3. out'.state = out.state /\ out'.error = out.error
    BY <2>1, <2>2 DEF OutFields
  <2> QED BY <1>1, <2>3
<1> QED BY <1>1, <1>2

\* The connection stays as long as nobody interferes.
LEMMA BrokenKept ==
    ASSUME TransferNext, ~Broken, Calm'
    PROVE  ~Broken'
<1>1. ~ConnectionBreaks
  BY CalmStep
<1>2. cut' = cut
  BY <1>1 DEF TransferNext, StanzaStep, SocketStep, PostedStep, SendFile, UserAccepts, AbortInc,
     CandidateDisconnected, AbortOut, StanzasLost, ProxyFails, OfferAccepted, IbbResponse,
     PeerRefused, HostUsed, OfferArrives, IbbOpen, IbbData, IbbClose, HostsArrive, ProxyAnswers,
     ProxyReady, Activated, BytesWritten, OutDisconnected, CandidateProceeds, CandidateServed,
     CandidateReady, CandidateTimeout, DoomedDeleted, ReceiveData, IncDisconnected,
     OutTerminated, IncTerminated
<1> QED BY <1>2 DEF Broken

\* What the sender has read is written or in the pipe once its buffer is empty.
LEMMA AllSent ==
    ASSUME Shape, Written, Chained, OverSocks, Linked, Undisturbed, par.method # "ibb", Calm,
           BytesWritten, Calm'
    PROVE  OnlyWhole' /\ Arrived'
<1>1. /\ OpenCandidate /\ OnlyWhole /\ Arrived /\ ~Broken /\ FreshBefore /\ WatchRan
  BY DEF Undisturbed, OverSocks, Linked
<1>2. /\ UNCHANGED <<par, inc>> /\ pipe \in Seq(Nat) /\ out.buf \in Seq(Nat) /\ out.sock = "up"
      /\ Len(inc.written) \in Nat /\ out.read \in Nat /\ out.buf # <<>> /\ par.blocks \in Nat
  BY BytesWrittenStep DEF Shape, OutShape, IncShape
<1>3. PICK k \in 0 .. Len(out.buf) : \E job :
        /\ pipe' = pipe \o SubSeq(out.buf, 1, k) /\ job.state = out.state /\ job.error = out.error
        /\ job.read = out.read /\ job.sock = out.sock /\ job.request = out.request
        /\ job.buf = SubSeq(out.buf, k + 1, Len(out.buf))
        /\ out' = job \/ (out.watched /\ Sends(job, out', job.state))
  BY BytesWrittenStep
<1>4. PICK job :
        /\ pipe' = pipe \o SubSeq(out.buf, 1, k) /\ job.state = out.state /\ job.error = out.error
        /\ job.read = out.read /\ job.sock = out.sock /\ job.request = out.request
        /\ job.buf = SubSeq(out.buf, k + 1, Len(out.buf))
        /\ out' = job \/ (out.watched /\ Sends(job, out', job.state))
  BY <1>3
<1>5. OnlyWhole'
  BY <1>1, <1>2 DEF OnlyWhole, Ran
<1>6. ASSUME out'.state = "finished", out'.error = "NoError"
      PROVE  Ran /\ out'.request[1] # "activate" /\ out'.sock = "down" /\ Landed'
  <2>1. ~(out.state = "finished" /\ out.error = "NoError")
    BY <1>1, <1>2 DEF Arrived
  <2>2. Sends(job, out', job.state) /\ out' # job
    BY <1>4, <1>6, <2>1, Zenon
  <2>3. Watched
    BY <1>4, <2>2, Zenon DEF Watched
  <2>4. /\ out'.request = out.request /\ out'.sock = "down" /\ job.buf = <<>> /\ out.read = par.blocks
    BY <1>2, <1>4, <1>6, <2>1, <2>2 DEF Sends
  <2>5. Ran /\ out.request[1] # "activate"
    BY <1>1, <1>2, <2>3 DEF WatchRan, FreshBefore, Fresh
  <2>6. CASE inc.state = "finished"
    BY <1>1, <1>2, <2>4, <2>5, <2>6 DEF OnlyWhole, Landed
  <2>7. CASE inc.state # "finished"
    <3>1. Chain(Len(inc.written), pipe, out.buf, out.read, out.sock)
      BY <1>1, <2>5, <2>7 DEF OpenCandidate, Chained, Broken
    <3>2. Chain(Len(inc.written), pipe', job.buf, out.read, out.sock)
      BY <1>2, <1>4, <3>1, ChainMoves
    <3>3. Len(job.buf) = 0 /\ Len(pipe') \in Nat
      <4>1. pipe' \in Seq(Nat)
        BY <1>2, <1>4, Halves
      <4> QED BY <2>4, <4>1
    <3>4. Len(inc.written) + Len(pipe') = par.blocks
      BY <1>2, <2>4, <3>2, <3>3 DEF Chain
    <3> QED BY <1>2, <2>4, <2>5, <2>7, <3>4 DEF Landed
  <2> QED BY <2>6, <2>7
<1>7. Arrived'
  BY <1>2, <1>6 DEF Arrived, Ran
<1> QED BY <1>5, <1>7

\* A sender that finds the other end gone had everything written there.
LEMMA GoneIsWritten ==
    ASSUME Shape, Offered, Written, OverSocks, Linked, Undisturbed, par.method # "ibb", Calm,
           OutDisconnected
    PROVE  OnlyWhole' /\ Arrived'
<1>1. /\ OpenCandidate /\ OnlyWhole /\ Arrived /\ ~Broken /\ FreshBefore /\ WatchRan /\ Watches /\ ClosedStep
  BY DEF Undisturbed, OverSocks, Linked
<1>2. /\ UNCHANGED <<par, inc>> /\ out.sock = "up" /\ out'.sock = "down" /\ out'.request = out.request
      /\ Len(inc.written) \in Nat /\ out.read \in Nat /\ par.blocks \in Nat
  BY OutDisconnectedStep DEF Shape, OutShape, IncShape
<1>3. OnlyWhole'
  BY <1>2 DEF OnlyWhole
<1>4. ASSUME out'.state = "finished", out'.error = "NoError"
      PROVE  Ran /\ out'.request[1] # "activate" /\ out'.sock = "down" /\ Landed'
  <2>1. ~(out.state = "finished" /\ out.error = "NoError")
    BY <1>1, <1>2 DEF Arrived
  <2>2. Watched
    BY <1>4, <2>1, OutDisconnectedHow
  <2>3. Ran /\ out.host = inc.host
    BY <1>1, <1>2, <2>2 DEF WatchRan, Watches
  <2>4. inc.step = "closed"
    BY <1>1, <2>3, OutDisconnectedHow DEF Ran
  <2>5. inc.state = "finished" /\ par.blocks > 0 /\ Len(inc.written) = par.blocks
    BY <1>1, <1>2, <2>3, <2>4 DEF ClosedStep, OpenCandidate, OnlyWhole
  <2>6. out.read # 0
    BY <1>2, <2>5 DEF Written
  <2>7. out.request[1] # "activate"
    BY <1>1, <2>6 DEF FreshBefore, Fresh
  <2> QED BY <1>2, <2>3, <2>5, <2>7 DEF Landed
<1>5. Arrived'
  BY <1>2, <1>4 DEF Arrived, Ran
<1> QED BY <1>3, <1>5

\* What is read from the connection was under way.
LEMMA ReadIsWritten ==
    ASSUME Shape, Offered, Written, OverSocks, Linked, Undisturbed, par.method # "ibb", Calm,
           Written', ReceiveData
    PROVE  OnlyWhole' /\ Arrived'
<1>1. OpenCandidate /\ OnlyWhole /\ Arrived /\ RanState
  BY DEF Undisturbed, OverSocks
<1>2. /\ UNCHANGED <<par, out>> /\ inc.step = "open" /\ Ran /\ pipe \in Seq(Nat) /\ inc.written \in Seq(Nat)
      /\ Len(inc.written) \in Nat /\ out.read \in Nat /\ par.blocks \in Nat
      /\ inc.state \notin {"none", "offer", "start"}
  BY <1>1, ReceiveDataStep DEF Shape, OutShape, IncShape, Ran, RanState
<1>3. PICK k \in 1 .. Len(pipe) : \E job :
        /\ pipe' = SubSeq(pipe, k + 1, Len(pipe))
        /\ \/ inc.state # "transfer" /\ inc' = inc
           \/ /\ inc.state = "transfer" /\ Writes(inc, job, SubSeq(pipe, 1, k))
              /\ \/ inc' = job
                 \/ /\ Checked(job, inc') /\ par.blocks > 0 /\ Len(job.written) >= par.blocks
  BY ReceiveDataStep
<1>4. CASE inc' = inc /\ inc.state # "transfer"
  <2>1. inc.state = "finished"
    BY <1>1, <1>2, <1>4 DEF OpenCandidate, Offered, DeviceUsed
  <2>2. Arrived'
    BY <1>1, <1>2, <1>4, <2>1 DEF Arrived, Landed, Ran
  <2> QED BY <1>1, <1>2, <1>4, <2>2 DEF OnlyWhole, Ran
<1>5. ASSUME NEW job, inc.state = "transfer", Writes(inc, job, SubSeq(pipe, 1, k)),
             inc' = job \/ (Checked(job, inc') /\ par.blocks > 0 /\ Len(job.written) >= par.blocks)
      PROVE  OnlyWhole' /\ Arrived'
  <2>1. inc.device = "open"
    BY <1>1, <1>2, <1>5 DEF OpenCandidate
  <2>2. /\ k \in Nat /\ k <= Len(pipe) /\ Len(pipe) \in Nat /\ k \in 0 .. Len(pipe)
        /\ SubSeq(pipe, 1, k) \in Seq(Nat) /\ Len(SubSeq(pipe, 1, k)) = k
        /\ Len(pipe') = Len(pipe) - k
    BY <1>2, <1>3, Halves
  <2>3. /\ job.written = inc.written \o SubSeq(pipe, 1, k) /\ Len(job.written) = Len(inc.written) + k
        /\ job.state = "transfer" /\ job.step = "open"
    BY <1>2, <1>5, <2>1, <2>2, Joins DEF Writes
  <2>4. /\ inc'.written = job.written /\ Ran'
        /\ inc'.state = "transfer" \/ (inc'.state = "finished" /\ par.blocks > 0 /\ Len(job.written) >= par.blocks)
    BY <1>5, <2>3 DEF Checked, EndedInc, Ran
  <2>5. Len(inc'.written) <= out.read /\ out.read <= par.blocks
    BY <1>2 DEF Written
  <2>6. ASSUME inc'.state = "finished"  PROVE  par.blocks > 0 /\ Len(inc'.written) = par.blocks
    <3>1. par.blocks > 0 /\ Len(job.written) >= par.blocks /\ Len(inc'.written) = Len(job.written)
      BY <2>4, <2>6
    <3>2. Len(job.written) \in Nat
      BY <1>2, <2>2, <2>3
    <3> QED BY <1>2, <2>5, <3>1, <3>2
  <2>7. OnlyWhole'
    BY <1>2, <2>6 DEF OnlyWhole
  <2>8. ASSUME out.state = "finished", out.error = "NoError"  PROVE  Landed'
    <3>1. Len(inc.written) + Len(pipe) = par.blocks
      BY <1>1, <1>5, <2>8 DEF Arrived, Landed
    <3>2. Len(inc'.written) + Len(pipe') = par.blocks
      BY <1>2, <2>2, <2>3, <2>4, <3>1
    <3> QED BY <1>2, <2>6, <3>2 DEF Landed
  <2>9. Arrived'
    BY <1>1, <1>2, <2>4, <2>8 DEF Arrived
  <2> QED BY <2>7, <2>9
<1> QED BY <1>3, <1>4, <1>5

\* The connection is closed after everything was read.
LEMMA ClosedIsWritten ==
    ASSUME Shape, Offered, Written, OverSocks, Linked, Undisturbed, par.method # "ibb", Calm,
           IncDisconnected
    PROVE  OnlyWhole' /\ Arrived'
<1>1. OpenCandidate /\ OnlyWhole /\ Arrived /\ ~Broken
  BY DEF Undisturbed
<1>2. pipe = <<>> /\ out.sock = "down" /\ UNCHANGED <<par, out, pipe>>
  <2>1. Broken \/ (pipe = <<>> /\ out.sock = "down")
    BY Zenon DEF Broken, IncDisconnected
  <2> QED BY <1>1, <2>1, IncDisconnectedStep
<1>7. Len(inc.written) \in Nat /\ par.blocks \in Nat
  BY DEF Shape, IncShape
<1>3. inc'.written = inc.written /\ inc'.state = "finished" /\ Ran /\ Ran'
  BY IncDisconnectedStep DEF Holding, Checked, EndedInc, Ran
<1>4. OnlyWhole'
  BY <1>2 DEF OnlyWhole
<1>5. ASSUME out.state = "finished", out.error = "NoError"  PROVE  Len(inc.written) = par.blocks
  BY <1>1, <1>2, <1>5, <1>7 DEF Arrived, Landed
<1>6. Arrived'
  BY <1>1, <1>2, <1>3, <1>5 DEF Arrived, Landed
<1> QED BY <1>4, <1>6

\* No step ends a job without error before the whole file is there.
LEMMA WholeKept ==
    ASSUME Shape, Offered, Kind, Written, Chained, OverSocks, Linked, Undisturbed, Written', TransferNext,
           par.method # "ibb", Calm'
    PROVE  OnlyWhole' /\ Arrived'
<1>1. /\ OpenCandidate /\ OnlyWhole /\ Arrived /\ ~Broken /\ StillOn /\ NotDirect /\ Calm
  BY CalmStep DEF Undisturbed
<1>2. /\ FreshBefore /\ NotYet /\ RanState /\ UsedAlone /\ Dialing /\ ClosedStep
  BY DEF OverSocks, Linked
<1>3. par' = par /\ out.read \in Nat
  BY ParStays DEF Shape, OutShape
<1>11. CASE SendFile
  <2>1. Elsewhere
    BY <1>11, <1>1, <1>2, <1>3, SendFileStep, Underway DEF Elsewhere, EndedOut, EndedInc, Going,
       Holding, Ran, Flushed, Kind, Offered, Unsent, OfferFirst, DeviceUsed, Untaken
  <2> QED BY <1>1, <2>1, ElsewhereKeeps
<1>12. CASE OfferAccepted
  <2>1. Elsewhere
    BY <1>12, <1>1, <1>2, <1>3, OfferAcceptedStep, Underway DEF Elsewhere, EndedOut, EndedInc,
       Going, Holding, Ran, Flushed, Kind, Offered, Unsent, OfferFirst, DeviceUsed, Untaken
  <2> QED BY <1>1, <2>1, ElsewhereKeeps
<1>13. CASE ProxyAnswers
  <2>1. Elsewhere
    BY <1>13, <1>1, <1>2, <1>3, ProxyAnswersStep, Underway DEF Elsewhere, EndedOut, EndedInc,
       Going, Holding, Ran, Flushed, Kind, Offered, Unsent, OfferFirst, DeviceUsed, Untaken
  <2> QED BY <1>1, <2>1, ElsewhereKeeps
<1>14. CASE PeerRefused
  <2>1. Elsewhere
    BY <1>14, <1>1, <1>2, <1>3, PeerRefusedStep, Underway DEF Elsewhere, EndedOut, EndedInc,
       Going, Holding, Ran, Flushed, Kind, Offered, Unsent, OfferFirst, DeviceUsed, Untaken
  <2> QED BY <1>1, <2>1, ElsewhereKeeps
<1>15. CASE OutTerminated
  <2>1. Elsewhere
    BY <1>15, <1>1, <1>2, <1>3, OutTerminatedStep, Underway DEF Elsewhere, EndedOut, EndedInc,
       Going, Holding, Ran, Flushed, Kind, Offered, Unsent, OfferFirst, DeviceUsed, Untaken
  <2> QED BY <1>1, <2>1, ElsewhereKeeps
<1>16. CASE OfferArrives
  <2>1. Elsewhere
    BY <1>16, <1>1, <1>2, <1>3, OfferArrivesStep, Underway DEF Elsewhere, EndedOut, EndedInc,
       Going, Holding, Ran, Flushed, Kind, Offered, Unsent, OfferFirst, DeviceUsed, Untaken
  <2> QED BY <1>1, <2>1, ElsewhereKeeps
<1>17. CASE IncTerminated
  <2>1. Elsewhere
    BY <1>17, <1>1, <1>2, <1>3, IncTerminatedStep, Underway DEF Elsewhere, EndedOut, EndedInc,
       Going, Holding, Ran, Flushed, Kind, Offered, Unsent, OfferFirst, DeviceUsed, Untaken
  <2> QED BY <1>1, <2>1, ElsewhereKeeps
<1>18. CASE IbbResponse
  <2>1. Elsewhere
    BY <1>18, <1>1, <1>3, IbbResponseStep DEF Elsewhere, Ran, Kind
  <2> QED BY <1>1, <2>1, ElsewhereKeeps
<1>19. ~AbortOut
  BY CalmStep
<1>20. ~StanzasLost
  BY CalmStep
<1>21. ~ConnectionBreaks
  BY CalmStep
<1>22. ~IbbOpen
  BY IbbOpenStep, Underway DEF Kind
<1>23. ~IbbData
  BY IbbDataStep, Underway DEF Kind
<1>24. ~IbbClose
  BY IbbCloseStep, Underway DEF Kind
<1>25. CASE BytesWritten
  BY <1>25, <1>1, AllSent
<1>26. CASE OutDisconnected
  BY <1>26, <1>1, GoneIsWritten
<1>27. CASE ReceiveData
  BY <1>27, <1>1, ReadIsWritten
<1>28. CASE IncDisconnected
  BY <1>28, <1>1, ClosedIsWritten
<1>29. CASE HostsArrive
  <2>1. CASE inc' = inc
    <3>1. Elsewhere
      BY <1>29, <1>3, <2>1, HostsArriveStep DEF Elsewhere, Ran
    <3> QED BY <1>1, <3>1, ElsewhereKeeps
  <2>2. CASE inc' # inc
    <3>1. ~Ran /\ ~Ran' /\ out' = out
      BY <1>29, <1>2, <2>2, HostsArriveStep DEF Ran, RanState, NextHostTaken
    <3> QED BY <1>1, <3>1, BeforeKeeps
  <2> QED BY <2>1, <2>2
<1>30. CASE CandidateProceeds
  <2>1. ~Ran /\ out'.state = out.state /\ out'.error = out.error /\ (Ran' => inc'.state # "finished")
    BY <1>30, <1>2, CandidateProceedsStep DEF Ran, RanState, NextHostTaken, EndedInc, Holding,
       Candidate, Offered, Untaken, DeviceUsed
  <2> QED BY <1>1, <2>1, BeforeKeeps
<1>31. CASE CandidateServed
  <2>1. ~Ran /\ out'.state = out.state /\ out'.error = out.error /\ (Ran' => inc'.state # "finished")
    BY <1>31, <1>2, CandidateServedStep DEF Ran, RanState, NextHostTaken, EndedInc, Holding,
       Candidate, Offered, Untaken, DeviceUsed
  <2> QED BY <1>1, <2>1, BeforeKeeps
<1>32. CASE CandidateReady
  <2>1. ~Ran /\ out'.state = out.state /\ out'.error = out.error /\ (Ran' => inc'.state # "finished")
    BY <1>32, <1>2, CandidateReadyStep DEF Ran, RanState, NextHostTaken, EndedInc, Holding,
       Candidate, Offered, Untaken, DeviceUsed
  <2> QED BY <1>1, <2>1, BeforeKeeps
<1>33. CASE CandidateDisconnected \/ CandidateTimeout
  <2>1. ~Ran /\ out'.state = out.state /\ out'.error = out.error /\ (Ran' => inc'.state # "finished")
    BY <1>33, <1>2, CandidateLostStep DEF Ran, RanState, NextHostTaken, EndedInc, Holding,
       Candidate, Offered, Untaken, DeviceUsed
  <2> QED BY <1>1, <2>1, BeforeKeeps
<1>34. CASE UserAccepts
  <2>1. ~Ran /\ out'.state = out.state /\ out'.error = out.error /\ (Ran' => inc'.state # "finished")
    BY <1>34, <1>2, UserAcceptsStep DEF Ran, RanState, NextHostTaken, EndedInc, Holding,
       Candidate, Offered, Untaken, DeviceUsed
  <2> QED BY <1>1, <2>1, BeforeKeeps
<1>35. CASE AbortInc
  <2>1. ~Ran /\ out'.state = out.state /\ out'.error = out.error /\ (Ran' => inc'.state # "finished")
    BY <1>35, <1>2, AbortIncStep, CalmStep DEF Ran, RanState, NextHostTaken, EndedInc, Holding,
       Candidate, Offered, Untaken, DeviceUsed
  <2> QED BY <1>1, <2>1, BeforeKeeps
<1>36. CASE DoomedDeleted
  <2>1. CASE inc.step \in Candidate
    <3>1. ~Ran /\ ~Ran' /\ out' = out
      BY <1>36, <2>1, DoomedDeletedStep DEF Ran, NextHostTaken, Candidate
    <3> QED BY <1>1, <3>1, BeforeKeeps
  <2>2. CASE inc.step \notin Candidate
    <3>1. Elsewhere
      BY <1>36, <1>3, <2>2, DoomedDeletedStep DEF Elsewhere, Ran, Holding
    <3> QED BY <1>1, <3>1, ElsewhereKeeps
  <2> QED BY <2>1, <2>2
<1>37. CASE ProxyReady
  BY <1>37, <1>1, ProxyReadyStep DEF StillOn, OnlyWhole, Arrived
<1>38. CASE HostUsed
  <2>1. Used
    BY <1>38, HostUsedStep, Uses DEF Reported
  <2>2. out.read = 0
    BY <1>2, <2>1 DEF FreshBefore, Fresh
  <2>3. Elsewhere
    BY <1>38, <1>1, <1>3, <2>2, HostUsedStep DEF Elsewhere, EndedOut, Sends, Ran, Flushed
  <2> QED BY <1>1, <2>3, ElsewhereKeeps
<1>39. CASE Activated
  <2>1. out.read = 0 /\ out.request[1] = "activate"
    BY <1>39, <1>2, ActivatedStep, RequestIs DEF FreshBefore, Fresh
  <2>2. ~(out.state = "finished" /\ out.error = "NoError")
    BY <1>1, <2>1 DEF Arrived
  <2>3. Elsewhere
    BY <1>39, <1>3, <2>1, <2>2, ActivatedStep DEF Elsewhere, EndedOut, Sends, Ran, Flushed
  <2> QED BY <1>1, <2>3, ElsewhereKeeps
<1>40. ~ProxyFails
  BY CalmStep
<1> QED
  BY <1>11, <1>12, <1>13, <1>14, <1>15, <1>16, <1>17, <1>18, <1>19, <1>20, <1>21, <1>22, <1>23,
       <1>24, <1>25, <1>26, <1>27, <1>28, <1>29, <1>30, <1>31, <1>32, <1>33, <1>34, <1>35, <1>36,
          <1>37, <1>38, <1>39, <1>40
    DEF TransferNext, StanzaStep, SocketStep, PostedStep

\* Both ends go on, with the file open, until everything is there.
LEMMA OpenKept ==
    ASSUME Shape, Offered, Kind, OverSocks, Linked, Undisturbed, TransferNext, par.method # "ibb", Calm'
    PROVE  OpenCandidate' /\ NotDirect' /\ StillOn'
<1>1. /\ Starting /\ ClosedStep /\ SomeHost /\ WatchRan /\ Watches /\ ThisHost /\ DialsIt /\ ServedIt
      /\ AskedBefore /\ AskedHosts /\ OneHosts /\ GivenUp /\ NoHostYet
  BY DEF Linked
<1>2. FreshBefore /\ NotYet /\ RanState /\ UsedAlone /\ Once /\ Dialing /\ Buffered
  BY DEF OverSocks
<1>3. OpenCandidate /\ NotDirect /\ StillOn /\ ~Broken
  BY CalmStep DEF Undisturbed
<1>11. CASE SendFile
  <2>5. out.request[1] = "none" /\ out.sock = "none" /\ inc.state = "none"
    BY <1>11, <1>1, <1>2, <1>3, SendFileStep DEF EndedOut, EndedInc, Going, Holding, Sends,
       Flushed, Offered, Unsent
  <2>1. OpenCandidate'
    BY <1>11, <1>1, <1>2, <1>3, SendFileStep, <2>5 DEF EndedOut, EndedInc, Going, Holding,
       Sends, Flushed, OpenCandidate, Candidate, Ran, Offered, DeviceUsed, Untaken
  <2>2. NotDirect'
    BY <1>11, <1>1, <1>2, <1>3, SendFileStep, <2>5, RequestIs DEF EndedOut, EndedInc, Going,
       Holding, Sends, Flushed, NotDirect
  <2>3. StillOn'
    BY <1>11, <1>1, <1>2, <1>3, SendFileStep, <2>5 DEF EndedOut, EndedInc, Going, Holding,
       Sends, Flushed, StillOn
  <2> QED BY <2>1, <2>2, <2>3
<1>12. CASE OfferAccepted
  <2>5. /\ out'.host = out.host /\ (hosts' = hosts \/ out.request[1] = "offer")
        /\ out.request[1] = "offer" => inc.step = "none" /\ ~Used' /\ out.sock # "dialing"
        /\ (out.state = "offer" => out.host = 0) /\ (Used' => Used)
    BY <1>12, <1>1, <1>2, <1>3, OfferAcceptedStep, OfferAcceptedHost, Uses DEF EndedOut,
       EndedInc, Going, Holding, Sends, Flushed, AskedBefore, NotYet, Ran, Offered, Unanswered,
       NoHostYet
  <2>1. OpenCandidate'
    BY <1>12, <1>1, <1>2, <1>3, OfferAcceptedStep, <2>5 DEF EndedOut, EndedInc, Going, Holding,
       Sends, Flushed, OpenCandidate, Candidate, Ran, Offered, DeviceUsed, Untaken
  <2>2. NotDirect'
    BY <1>12, <1>1, <1>2, <1>3, OfferAcceptedStep, <2>5, RequestIs DEF EndedOut, EndedInc,
       Going, Holding, Sends, Flushed, NotDirect
  <2>3. StillOn'
    BY <1>12, <1>1, <1>2, <1>3, OfferAcceptedStep, <2>5 DEF EndedOut, EndedInc, Going, Holding,
       Sends, Flushed, StillOn
  <2> QED BY <2>1, <2>2, <2>3
<1>13. CASE ProxyAnswers
  <2>5. inc.step = "none" /\ ~Used /\ ~Used' /\ out.sock # "dialing" /\ out.host = 0 /\ out'.host = 0
    BY <1>13, <1>1, <1>2, <1>3, ProxyAnswersStep, RequestIs, Uses DEF EndedOut, EndedInc, Going,
       Holding, Sends, Flushed, AskedBefore, NotYet, Ran, NoHostYet
  <2>1. OpenCandidate'
    BY <1>13, <1>1, <1>2, <1>3, ProxyAnswersStep, <2>5 DEF EndedOut, EndedInc, Going, Holding,
       Sends, Flushed, OpenCandidate, Candidate, Ran, Offered, DeviceUsed, Untaken
  <2>2. NotDirect'
    BY <1>13, <1>1, <1>2, <1>3, ProxyAnswersStep, <2>5, RequestIs DEF EndedOut, EndedInc, Going,
       Holding, Sends, Flushed, NotDirect
  <2>3. StillOn'
    BY <1>13, <1>1, <1>2, <1>3, ProxyAnswersStep, <2>5 DEF EndedOut, EndedInc, Going, Holding,
       Sends, Flushed, StillOn
  <2> QED BY <2>1, <2>2, <2>3
<1>14. CASE IbbResponse
  <2>5. out' = out /\ (Used' => Used)
    BY <1>14, <1>1, <1>2, <1>3, IbbResponseStep, Uses DEF EndedOut, EndedInc, Going, Holding,
       Sends, Flushed, Kind
  <2>1. OpenCandidate'
    BY <1>14, <1>1, <1>2, <1>3, IbbResponseStep, <2>5 DEF EndedOut, EndedInc, Going, Holding,
       Sends, Flushed, OpenCandidate, Candidate, Ran, Offered, DeviceUsed, Untaken
  <2>2. NotDirect'
    BY <1>14, <1>1, <1>2, <1>3, IbbResponseStep, <2>5, RequestIs DEF EndedOut, EndedInc, Going,
       Holding, Sends, Flushed, NotDirect
  <2>3. StillOn'
    BY <1>14, <1>1, <1>2, <1>3, IbbResponseStep, <2>5 DEF EndedOut, EndedInc, Going, Holding,
       Sends, Flushed, StillOn
  <2> QED BY <2>1, <2>2, <2>3
<1>15. CASE PeerRefused
  <2>5. /\ (Used' => Used)
        /\ \/ out' = out
           \/ EndedOut(out, out', "AbortError") /\ out.sock # "dialing"
    BY <1>15, <1>1, <1>2, <1>3, PeerRefusedStep, Uses, Refusals, RequestIs DEF EndedOut,
       EndedInc, Going, Holding, Sends, Flushed, Failed, GivenUp, NotYet, Ran, Dialing
  <2>1. OpenCandidate'
    BY <1>15, <1>1, <1>2, <1>3, PeerRefusedStep, <2>5 DEF EndedOut, EndedInc, Going, Holding,
       Sends, Flushed, OpenCandidate, Candidate, Ran, Offered, DeviceUsed, Untaken
  <2>2. NotDirect'
    BY <1>15, <1>1, <1>2, <1>3, PeerRefusedStep, <2>5, RequestIs DEF EndedOut, EndedInc, Going,
       Holding, Sends, Flushed, NotDirect
  <2>3. StillOn'
    BY <1>15, <1>1, <1>2, <1>3, PeerRefusedStep, <2>5 DEF EndedOut, EndedInc, Going, Holding,
       Sends, Flushed, StillOn
  <2> QED BY <2>1, <2>2, <2>3
<1>16. CASE HostUsed
  <2>5. Used /\ Ran /\ Head(toUs).n = inc.host /\ ~Used' /\ out.sock # "dialing"
    BY <1>16, <1>1, <1>2, <1>3, HostUsedStep, Uses, Underway, OnceKept DEF EndedOut, EndedInc,
       Going, Holding, Sends, Flushed, Reported, NotYet, ThisHost, UsedAlone
  <2>1. OpenCandidate'
    BY <1>16, <1>1, <1>2, <1>3, HostUsedStep, <2>5 DEF EndedOut, EndedInc, Going, Holding,
       Sends, Flushed, OpenCandidate, Candidate, Ran, Offered, DeviceUsed, Untaken
  <2>2. NotDirect'
    BY <1>16, <1>1, <1>2, <1>3, HostUsedStep, <2>5, RequestIs DEF EndedOut, EndedInc, Going,
       Holding, Sends, Flushed, NotDirect
  <2>3. StillOn'
    BY <1>16, <1>1, <1>2, <1>3, HostUsedStep, <2>5 DEF EndedOut, EndedInc, Going, Holding,
       Sends, Flushed, StillOn
  <2> QED BY <2>1, <2>2, <2>3
<1>17. CASE ProxyReady
  <2>5. Used' => Used
    BY <1>17, <1>1, <1>2, <1>3, ProxyReadyStep, Uses, RequestIs DEF EndedOut, EndedInc, Going,
       Holding, Sends, Flushed
  <2>1. OpenCandidate'
    BY <1>17, <1>1, <1>2, <1>3, ProxyReadyStep, <2>5 DEF EndedOut, EndedInc, Going, Holding,
       Sends, Flushed, OpenCandidate, Candidate, Ran, Offered, DeviceUsed, Untaken
  <2>2. NotDirect'
    BY <1>17, <1>1, <1>2, <1>3, ProxyReadyStep, <2>5, RequestIs DEF EndedOut, EndedInc, Going,
       Holding, Sends, Flushed, NotDirect
  <2>3. StillOn'
    BY <1>17, <1>1, <1>2, <1>3, ProxyReadyStep, <2>5 DEF EndedOut, EndedInc, Going, Holding,
       Sends, Flushed, StillOn
  <2> QED BY <2>1, <2>2, <2>3
<1>18. CASE Activated
  <2>5. /\ (Used' => Used) /\ out.request[1] = "activate" /\ out'.request[1] = "none"
        /\ out.sock # "dialing" /\ out'.sock # "dialing"
    BY <1>18, <1>1, <1>2, <1>3, ActivatedStep, Uses, RequestIs DEF EndedOut, EndedInc, Going,
       Holding, Sends, Flushed, Dialing
  <2>1. OpenCandidate'
    BY <1>18, <1>1, <1>2, <1>3, ActivatedStep, <2>5 DEF EndedOut, EndedInc, Going, Holding,
       Sends, Flushed, OpenCandidate, Candidate, Ran, Offered, DeviceUsed, Untaken
  <2>2. NotDirect'
    BY <1>18, <1>1, <1>2, <1>3, ActivatedStep, <2>5, RequestIs DEF EndedOut, EndedInc, Going,
       Holding, Sends, Flushed, NotDirect
  <2>3. StillOn'
    BY <1>18, <1>1, <1>2, <1>3, ActivatedStep, <2>5 DEF EndedOut, EndedInc, Going, Holding,
       Sends, Flushed, StillOn
  <2> QED BY <2>1, <2>2, <2>3
<1>19. CASE BytesWritten
  <2>5. /\ (Used' => Used) /\ out.sock # "dialing" /\ out'.sock # "dialing"
        /\ out'.host = out.host /\ out'.request = out.request
    BY <1>19, <1>1, <1>2, <1>3, BytesWrittenStep, Uses DEF EndedOut, EndedInc, Going, Holding,
       Sends, Flushed
  <2>1. OpenCandidate'
    BY <1>19, <1>1, <1>2, <1>3, BytesWrittenStep, <2>5 DEF EndedOut, EndedInc, Going, Holding,
       Sends, Flushed, OpenCandidate, Candidate, Ran, Offered, DeviceUsed, Untaken
  <2>2. NotDirect'
    BY <1>19, <1>1, <1>2, <1>3, BytesWrittenStep, <2>5, RequestIs DEF EndedOut, EndedInc, Going,
       Holding, Sends, Flushed, NotDirect
  <2>3. StillOn'
    BY <1>19, <1>1, <1>2, <1>3, BytesWrittenStep, <2>5 DEF EndedOut, EndedInc, Going, Holding,
       Sends, Flushed, StillOn
  <2> QED BY <2>1, <2>2, <2>3
<1>20. CASE OutDisconnected
  <2>5. /\ (Used' => Used) /\ out.sock # "dialing" /\ out'.sock # "dialing"
        /\ out'.host = out.host /\ out'.request = out.request
    BY <1>20, <1>1, <1>2, <1>3, OutDisconnectedStep, Uses DEF EndedOut, EndedInc, Going,
       Holding, Sends, Flushed
  <2>1. OpenCandidate'
    BY <1>20, <1>1, <1>2, <1>3, OutDisconnectedStep, <2>5 DEF EndedOut, EndedInc, Going,
       Holding, Sends, Flushed, OpenCandidate, Candidate, Ran, Offered, DeviceUsed, Untaken
  <2>2. NotDirect'
    BY <1>20, <1>1, <1>2, <1>3, OutDisconnectedStep, <2>5, RequestIs DEF EndedOut, EndedInc,
       Going, Holding, Sends, Flushed, NotDirect
  <2>3. StillOn'
    BY <1>20, <1>1, <1>2, <1>3, OutDisconnectedStep, <2>5 DEF EndedOut, EndedInc, Going,
       Holding, Sends, Flushed, StillOn
  <2> QED BY <2>1, <2>2, <2>3
<1>21. CASE OutTerminated
  <2>5. /\ (Used' => Used) /\ out'.sock = out.sock
        /\ out'.host = out.host /\ out'.request = out.request /\ UNCHANGED <<inc, hosts>>
    BY <1>21, <1>1, <1>2, <1>3, OutTerminatedStep, Uses DEF EndedOut, EndedInc, Going, Holding,
       Sends, Flushed, Kind
  <2>1. OpenCandidate'
    BY <1>21, <1>1, <1>2, <1>3, OutTerminatedStep, <2>5 DEF EndedOut, EndedInc, Going, Holding,
       Sends, Flushed, OpenCandidate, Candidate, Ran, Offered, DeviceUsed, Untaken
  <2>2. NotDirect'
    BY <1>21, <1>1, <1>2, <1>3, OutTerminatedStep, <2>5, RequestIs DEF EndedOut, EndedInc,
       Going, Holding, Sends, Flushed, NotDirect
  <2>3. StillOn'
    BY <1>21, <1>1, <1>2, <1>3, OutTerminatedStep, <2>5 DEF EndedOut, EndedInc, Going, Holding,
       Sends, Flushed, StillOn
  <2> QED BY <2>1, <2>2, <2>3
<1>22. CASE OfferArrives
  <2>5. /\ (Used' => Used) /\ (inc' = inc \/ inc'.step = "none")
    BY <1>22, <1>1, <1>2, <1>3, OfferArrivesStep, Uses, Kinds, Underway DEF EndedOut, EndedInc,
       Going, Holding, Sends, Flushed, Offered, OfferFirst, DeviceUsed, Untaken
  <2>1. OpenCandidate'
    BY <1>22, <1>1, <1>2, <1>3, OfferArrivesStep, <2>5 DEF EndedOut, EndedInc, Going, Holding,
       Sends, Flushed, OpenCandidate, Candidate, Ran, Offered, DeviceUsed, Untaken
  <2>2. NotDirect'
    BY <1>22, <1>1, <1>2, <1>3, OfferArrivesStep, <2>5, RequestIs DEF EndedOut, EndedInc, Going,
       Holding, Sends, Flushed, NotDirect
  <2>3. StillOn'
    BY <1>22, <1>1, <1>2, <1>3, OfferArrivesStep, <2>5 DEF EndedOut, EndedInc, Going, Holding,
       Sends, Flushed, StillOn
  <2> QED BY <2>1, <2>2, <2>3
<1>23. CASE UserAccepts
  <2>5. Used' => Used
    BY <1>23, <1>1, <1>2, <1>3, UserAcceptsStep, Uses, Kinds DEF EndedOut, EndedInc, Going,
       Holding, Sends, Flushed
  <2>1. OpenCandidate'
    BY <1>23, <1>1, <1>2, <1>3, UserAcceptsStep, <2>5 DEF EndedOut, EndedInc, Going, Holding,
       Sends, Flushed, OpenCandidate, Candidate, Ran, Offered, DeviceUsed, Untaken
  <2>2. NotDirect'
    BY <1>23, <1>1, <1>2, <1>3, UserAcceptsStep, <2>5, RequestIs DEF EndedOut, EndedInc, Going,
       Holding, Sends, Flushed, NotDirect
  <2>3. StillOn'
    BY <1>23, <1>1, <1>2, <1>3, UserAcceptsStep, <2>5 DEF EndedOut, EndedInc, Going, Holding,
       Sends, Flushed, StillOn
  <2> QED BY <2>1, <2>2, <2>3
<1>24. CASE IncTerminated
  <2>5. Used' => Used
    BY <1>24, <1>1, <1>2, <1>3, IncTerminatedStep, Uses, Kinds DEF EndedOut, EndedInc, Going,
       Holding, Sends, Flushed
  <2>1. OpenCandidate'
    BY <1>24, <1>1, <1>2, <1>3, IncTerminatedStep, <2>5 DEF EndedOut, EndedInc, Going, Holding,
       Sends, Flushed, OpenCandidate, Candidate, Ran, Offered, DeviceUsed, Untaken
  <2>2. NotDirect'
    BY <1>24, <1>1, <1>2, <1>3, IncTerminatedStep, <2>5, RequestIs DEF EndedOut, EndedInc,
       Going, Holding, Sends, Flushed, NotDirect
  <2>3. StillOn'
    BY <1>24, <1>1, <1>2, <1>3, IncTerminatedStep, <2>5 DEF EndedOut, EndedInc, Going, Holding,
       Sends, Flushed, StillOn
  <2> QED BY <2>1, <2>2, <2>3
<1>25. CASE HostsArrive
  <2>5. /\ inc' = inc \/ (inc.device = "open" /\ NextHostTaken(inc))
        /\ inc.step = "none" /\ ~Used /\ ~Used' /\ out.sock # "dialing"
    BY <1>25, <1>1, <1>2, <1>3, HostsArriveStep, Uses, Kinds, HostsUnderway DEF EndedOut,
       EndedInc, Going, Holding, Sends, Flushed, Hosted, OneHosts, NotYet, Ran, Starting,
       NextHostTaken
  <2>1. OpenCandidate'
    BY <1>25, <1>1, <1>2, <1>3, HostsArriveStep, <2>5 DEF EndedOut, EndedInc, Going, Holding,
       Sends, Flushed, NextHostTaken, OpenCandidate, Candidate, Ran, Offered, DeviceUsed, Untaken
  <2>2. NotDirect'
    BY <1>25, <1>1, <1>2, <1>3, HostsArriveStep, <2>5, RequestIs DEF EndedOut, EndedInc, Going,
       Holding, Sends, Flushed, NotDirect
  <2>3. StillOn'
    BY <1>25, <1>1, <1>2, <1>3, HostsArriveStep, <2>5 DEF EndedOut, EndedInc, Going, Holding,
       Sends, Flushed, NextHostTaken, StillOn
  <2> QED BY <2>1, <2>2, <2>3
<1>26. CASE CandidateProceeds
  <2>5. Used' => Used
    BY <1>26, <1>1, <1>2, <1>3, CandidateProceedsStep, Uses DEF EndedOut, EndedInc, Going,
       Holding, Sends, Flushed
  <2>1. OpenCandidate'
    BY <1>26, <1>1, <1>2, <1>3, CandidateProceedsStep, <2>5 DEF EndedOut, EndedInc, Going,
       Holding, Sends, Flushed, OpenCandidate, Candidate, Ran, Offered, DeviceUsed, Untaken
  <2>2. NotDirect'
    BY <1>26, <1>1, <1>2, <1>3, CandidateProceedsStep, <2>5, RequestIs DEF EndedOut, EndedInc,
       Going, Holding, Sends, Flushed, NotDirect
  <2>3. StillOn'
    BY <1>26, <1>1, <1>2, <1>3, CandidateProceedsStep, <2>5 DEF EndedOut, EndedInc, Going,
       Holding, Sends, Flushed, StillOn
  <2> QED BY <2>1, <2>2, <2>3
<1>27. CASE CandidateServed
  <2>5. Used' => Used
    BY <1>27, <1>1, <1>2, <1>3, CandidateServedStep, Uses DEF EndedOut, EndedInc, Going,
       Holding, Sends, Flushed
  <2>1. OpenCandidate'
    BY <1>27, <1>1, <1>2, <1>3, CandidateServedStep, <2>5 DEF EndedOut, EndedInc, Going,
       Holding, Sends, Flushed, OpenCandidate, Candidate, Ran, Offered, DeviceUsed, Untaken
  <2>2. NotDirect'
    BY <1>27, <1>1, <1>2, <1>3, CandidateServedStep, <2>5, RequestIs DEF EndedOut, EndedInc,
       Going, Holding, Sends, Flushed, NotDirect
  <2>3. StillOn'
    BY <1>27, <1>1, <1>2, <1>3, CandidateServedStep, <2>5 DEF EndedOut, EndedInc, Going,
       Holding, Sends, Flushed, StillOn
  <2> QED BY <2>1, <2>2, <2>3
<1>28. CASE CandidateReady
  <2>5. inc.device = "open"
    BY <1>28, <1>1, <1>2, <1>3, CandidateReadyStep DEF EndedOut, EndedInc, Going, Holding,
       Sends, Flushed, OpenCandidate, Candidate
  <2>1. OpenCandidate'
    BY <1>28, <1>1, <1>2, <1>3, CandidateReadyStep, <2>5 DEF EndedOut, EndedInc, Going, Holding,
       Sends, Flushed, OpenCandidate, Candidate, Ran, Offered, DeviceUsed, Untaken
  <2>2. NotDirect'
    BY <1>28, <1>1, <1>2, <1>3, CandidateReadyStep, <2>5, RequestIs DEF EndedOut, EndedInc,
       Going, Holding, Sends, Flushed, NotDirect
  <2>3. StillOn'
    BY <1>28, <1>1, <1>2, <1>3, CandidateReadyStep, <2>5, Kinds, Uses DEF EndedOut, EndedInc,
       Going, Holding, Sends, Flushed, StillOn
  <2> QED BY <2>1, <2>2, <2>3
<1>29. CASE CandidateDisconnected \/ CandidateTimeout
  <2>5. inc.device = "open" /\ ~Used /\ ~Used' /\ out.sock # "dialing"
    BY <1>29, <1>1, <1>2, <1>3, CandidateLostStep, Uses, Kinds DEF EndedOut, EndedInc, Going,
       Holding, Sends, Flushed, OpenCandidate, Candidate, NotYet, Ran, NextHostTaken
  <2>1. OpenCandidate'
    BY <1>29, <1>1, <1>2, <1>3, CandidateLostStep, <2>5 DEF EndedOut, EndedInc, Going, Holding,
       Sends, Flushed, NextHostTaken, OpenCandidate, Candidate, Ran, Offered, DeviceUsed, Untaken
  <2>2. NotDirect'
    BY <1>29, <1>1, <1>2, <1>3, CandidateLostStep, <2>5, RequestIs DEF EndedOut, EndedInc,
       Going, Holding, Sends, Flushed, NotDirect
  <2>3. StillOn'
    BY <1>29, <1>1, <1>2, <1>3, CandidateLostStep, <2>5 DEF EndedOut, EndedInc, Going, Holding,
       Sends, Flushed, NextHostTaken, StillOn
  <2> QED BY <2>1, <2>2, <2>3
<1>30. CASE DoomedDeleted
  <2>5. /\ inc.step \in Candidate => inc.device = "open" /\ ~Used /\ ~Used' /\ out.sock # "dialing"
        /\ inc.step \notin Candidate => (Used' => Used)
    BY <1>30, <1>1, <1>2, <1>3, DoomedDeletedStep, Uses, Kinds DEF EndedOut, EndedInc, Going,
       Holding, Sends, Flushed, OpenCandidate, Candidate, NotYet, Ran, NextHostTaken
  <2>1. OpenCandidate'
    BY <1>30, <1>1, <1>2, <1>3, DoomedDeletedStep, <2>5 DEF EndedOut, EndedInc, Going, Holding,
       Sends, Flushed, NextHostTaken, OpenCandidate, Candidate, Ran, Offered, DeviceUsed, Untaken
  <2>2. NotDirect'
    BY <1>30, <1>1, <1>2, <1>3, DoomedDeletedStep, <2>5, RequestIs DEF EndedOut, EndedInc,
       Going, Holding, Sends, Flushed, NotDirect
  <2>3. StillOn'
    BY <1>30, <1>1, <1>2, <1>3, DoomedDeletedStep, <2>5 DEF EndedOut, EndedInc, Going, Holding,
       Sends, Flushed, NextHostTaken, StillOn
  <2> QED BY <2>1, <2>2, <2>3
<1>31. CASE ReceiveData
  <2>5. ~Used /\ ~Used' /\ out.sock # "dialing"
    BY <1>31, <1>1, <1>2, <1>3, ReceiveDataStep, Uses DEF EndedOut, EndedInc, Going, Holding,
       Sends, Flushed, FreshBefore, Fresh
  <2>1. OpenCandidate'
    BY <1>31, <1>1, <1>2, <1>3, ReceiveDataStep, <2>5 DEF EndedOut, EndedInc, Going, Holding,
       Sends, Flushed, Checked, Writes, OpenCandidate, Candidate, Ran, Offered, DeviceUsed,
       Untaken
  <2>2. NotDirect'
    BY <1>31, <1>1, <1>2, <1>3, ReceiveDataStep, <2>5, RequestIs DEF EndedOut, EndedInc, Going,
       Holding, Sends, Flushed, NotDirect
  <2>3. StillOn'
    BY <1>31, <1>1, <1>2, <1>3, ReceiveDataStep, <2>5 DEF EndedOut, EndedInc, Going, Holding,
       Sends, Flushed, Checked, Writes, StillOn
  <2> QED BY <2>1, <2>2, <2>3
<1>32. CASE IncDisconnected
  <2>4. pipe = <<>> /\ out.sock = "down" /\ out.host = inc.host
    <3>1. Broken \/ (pipe = <<>> /\ out.sock = "down" /\ out.host = inc.host)
      BY <1>32, Zenon DEF Broken, IncDisconnected
    <3> QED BY <1>3, <3>1
  <2>5. /\ out.sock = "down" /\ out.host = inc.host /\ (Used' => Used)
        /\ inc'.state = "finished" /\ inc'.step = "closed" /\ inc'.host = inc.host
    BY <1>32, <1>1, <1>2, <1>3, IncDisconnectedStep, <2>4, Uses DEF EndedOut, EndedInc, Going,
       Holding, Sends, Flushed, Checked
  <2>1. OpenCandidate'
    BY <1>32, <1>1, <1>2, <1>3, IncDisconnectedStep, <2>4, <2>5 DEF EndedOut, EndedInc, Going,
       Holding, Sends, Flushed, Checked, Writes, OpenCandidate, Candidate, Ran, Offered,
       DeviceUsed, Untaken
  <2>2. NotDirect'
    BY <1>32, <1>1, <1>2, <1>3, IncDisconnectedStep, <2>4, <2>5, RequestIs DEF EndedOut,
       EndedInc, Going, Holding, Sends, Flushed, NotDirect
  <2>3. StillOn'
    BY <1>32, <1>1, <1>2, <1>3, IncDisconnectedStep, <2>4, <2>5 DEF EndedOut, EndedInc, Going,
       Holding, Sends, Flushed, Checked, Writes, StillOn, AskedHosts, NotDirect, SomeHost
  <2> QED BY <2>1, <2>2, <2>3
<1>33. CASE AbortInc
  <2>5. inc.step = "none" /\ inc'.step = "none" /\ ~Used /\ ~Used' /\ out.sock # "dialing"
    BY <1>33, <1>1, <1>2, <1>3, AbortIncStep, Uses, CalmStep DEF EndedOut, EndedInc, Going,
       Holding, Sends, Flushed, Offered, DeviceUsed, Untaken, NotYet, Ran
  <2>1. OpenCandidate'
    BY <1>33, <1>1, <1>2, <1>3, AbortIncStep, <2>5 DEF EndedOut, EndedInc, Going, Holding,
       Sends, Flushed, OpenCandidate, Candidate, Ran, Offered, DeviceUsed, Untaken
  <2>2. NotDirect'
    BY <1>33, <1>1, <1>2, <1>3, AbortIncStep, <2>5, RequestIs DEF EndedOut, EndedInc, Going,
       Holding, Sends, Flushed, NotDirect
  <2>3. StillOn'
    BY <1>33, <1>1, <1>2, <1>3, AbortIncStep, <2>5 DEF EndedOut, EndedInc, Going, Holding,
       Sends, Flushed, StillOn
  <2> QED BY <2>1, <2>2, <2>3
<1>34. ~IbbOpen
  BY IbbOpenStep, Underway DEF Kind
<1>35. ~IbbData
  BY IbbDataStep, Underway DEF Kind
<1>36. ~IbbClose
  BY IbbCloseStep, Underway DEF Kind
<1>37. ~AbortOut /\ ~StanzasLost /\ ~ConnectionBreaks
  BY CalmStep
<1>38. ~ProxyFails
  BY CalmStep
<1> QED
  BY <1>11, <1>12, <1>13, <1>14, <1>15, <1>16, <1>17, <1>18, <1>19, <1>20, <1>21, <1>22, <1>23,
       <1>24, <1>25, <1>26, <1>27, <1>28, <1>29, <1>30, <1>31, <1>32, <1>33, <1>34, <1>35, <1>36,
          <1>37, <1>38
    DEF TransferNext, StanzaStep, SocketStep, PostedStep

\* What holds over a connection while nobody interferes is kept by every step.
LEMMA UndisturbedKept ==
    ASSUME Shape, Offered, Kind, OverSocks, Written, Chained, Linked, Undisturbed, Written', TransferNext
    PROVE  Undisturbed'
<1> SUFFICES ASSUME par.method # "ibb", Calm'
             PROVE  /\ ~Broken' /\ OpenCandidate' /\ NotDirect' /\ StillOn' /\ OnlyWhole' /\ Arrived'
  BY ParStays DEF Undisturbed
<1>1. ~Broken
  BY CalmStep DEF Undisturbed
<1> QED BY <1>1, BrokenKept, OpenKept, WholeKept

-----------------------------------------------------------------------------
(* The whole file, by either method. *)

\* A job that ended without error had read its file, if it could tell.
ReadAll == out.state = "finished" /\ out.error = "NoError" => AllRead

\* No step ends a job before.
LEMMA ReadAllKept ==
    ASSUME Shape, ReadAll, TransferNext
    PROVE  ReadAll'
<1>1. AllRead' <=> (Announced => out'.read = par.blocks \/ ~(par.blocks > 0))
  BY ParStays, Zenon DEF AllRead, Announced
<1>2. ASSUME out'.read = out.read, \/ out'.state = out.state /\ out'.error = out.error
                                   \/ out'.state # "finished" \/ out'.error # "NoError" \/ AllRead
      PROVE  ReadAll'
  BY <1>1, <1>2 DEF ReadAll, AllRead
<1>3. ASSUME NEW job, job.state = out.state, job.error = out.error, job.read = out.read,
             \/ \E state \in {out.state, "transfer"} : Sends(job, out', state)
             \/ \E cause : EndedOut(job, out', cause) /\ cause # "NoError"
      PROVE  ReadAll'
  BY <1>1, <1>2, <1>3 DEF Sends, EndedOut, ReadAll
<1>4. CASE \/ SendFile \/ OfferAccepted \/ ProxyAnswers \/ PeerRefused \/ ProxyReady \/ AbortOut
           \/ OutTerminated \/ OutDisconnected \/ CandidateServed
  BY <1>2, <1>4, SendFileStep, OfferAcceptedStep, ProxyAnswersStep, PeerRefusedStep, ProxyReadyStep,
     AbortOutStep, OutTerminatedStep, OutDisconnectedStep, CandidateServedStep DEF EndedOut, Going
<1>5. CASE HostUsed \/ Activated \/ BytesWritten
  BY <1>2, <1>3, <1>5, HostUsedStep, ActivatedStep, BytesWrittenStep
<1>6. CASE IbbResponse \/ ProxyFails
  BY <1>1, <1>2, <1>6, IbbResponseStep, ProxyFailsStep DEF ReadAll, EndedOut
<1>7. CASE UNCHANGED out
  BY <1>2, <1>7
<1> QED
  BY <1>4, <1>5, <1>6, <1>7, Zenon DEF TransferNext, StanzaStep, SocketStep, PostedStep, OfferArrives,
     UserAccepts, IncTerminated, IbbOpen, IbbData, IbbClose, HostsArrive, CandidateProceeds,
     CandidateReady, CandidateDisconnected, CandidateTimeout, DoomedDeleted, ReceiveData,
     IncDisconnected, AbortInc, StanzasLost, ConnectionBreaks

\* What is known of a transfer that nobody interferes with, beside what is known of any.
FileInv == TransferInv /\ ReadAll /\ Steady /\ Smooth /\ Linked /\ Undisturbed

\* Nothing of a file is written or under way at first.
LEMMA FileBegins ==
    ASSUME TransferInit
    PROVE  FileInv
<1>1. TransferInv
  BY TransferBegins
<1>2. /\ toPeer = <<>> /\ toUs = <<>> /\ pipe = <<>> /\ out.host = 0
      /\ out.state = "none" /\ out.method = "none" /\ out.request = <<"none", 0>>
      /\ out.sock = "none" /\ inc.state = "none" /\ inc.device = "none" /\ inc.step = "none"
  BY DEF TransferInit
<1>3. Msgs(toPeer) = {} /\ Msgs(toUs) = {} /\ Len(toPeer) = 0 /\ out.request[1] = "none" /\ ReadAll
  BY <1>1, <1>2, Underway, RequestIs DEF TransferInv, ReadAll
<1>4. ~Watched /\ ~Broken
  <2>1. out.watched = FALSE /\ cut = FALSE
    BY DEF TransferInit
  <2> QED BY <2>1 DEF Watched, Broken
<1>5. ~Used /\ ~Ran /\ ~HostsOffered /\ ~GaveUp /\ ~Opened
  BY <1>2, <1>3 DEF Used, Ran, HostsOffered, GaveUp, Opened
<1>6. Alone(toPeer, "data") /\ Alone(toPeer, "hosts")
  BY <1>3 DEF Alone
<1>7. Steady
  BY <1>2, <1>3, <1>6 DEF Steady, ClosedLast, Misfit, OneBlock, IbbAsks, IbbEnds
<1>8. Smooth
  BY <1>2, <1>3, <1>5 DEF Smooth, OpenWhile, Running, NotRefused, EndsWhole, Succeeds
<1>9. Linked
  BY <1>2, <1>3, <1>4, <1>5, <1>6
  DEF Linked, Starting, ClosedStep, SomeHost, WatchRan, Watches, ThisHost, DialsIt, ServedIt,
     AskedBefore, AskedHosts, OneHosts, GivenUp, NoHostYet, Candidate
<1>10. Undisturbed
  BY <1>2, <1>3, <1>4, <1>5
  DEF Undisturbed, OpenCandidate, NotDirect, StillOn, OnlyWhole, Arrived, Candidate
<1> QED BY <1>1, <1>3, <1>7, <1>8, <1>9, <1>10 DEF FileInv

\* Every step of a transfer keeps what is known of the file.
LEMMA FileMoves ==
    ASSUME FileInv, TransferNext
    PROVE  FileInv'
<1>1. /\ Shape /\ Offered /\ Kind /\ InBand /\ OverSocks /\ Written /\ Chained
      /\ Steady /\ Smooth /\ Linked /\ Undisturbed /\ TransferInv
  BY DEF FileInv, TransferInv
<1>2. TransferInv' /\ Written'
  BY <1>1, TransferMoves DEF TransferInv
<1>3. Steady' /\ Smooth' /\ Linked'
  BY <1>1, SteadyKept, SmoothKept, LinkedKept
<1>4. Undisturbed'
  BY <1>1, <1>2, UndisturbedKept
<1>5. ReadAll'
  BY <1>1, ReadAllKept DEF FileInv
<1> QED BY <1>2, <1>3, <1>4, <1>5 DEF FileInv

\* Where the transfer does not move, nothing of it changes.
LEMMA FileRests ==
    ASSUME FileInv, UNCHANGED transferVars
    PROVE  FileInv'
<1>1. /\ par' = par /\ out' = out /\ inc' = inc /\ toPeer' = toPeer /\ toUs' = toUs
      /\ pipe' = pipe /\ hosts' = hosts /\ cut' = cut /\ disturbed' = disturbed
  BY DEF transferVars
<1>2. TransferInv' /\ Steady /\ Smooth /\ Linked /\ Undisturbed
  BY TransferRests DEF FileInv
<1>3. /\ Unfit' <=> Unfit
      /\ Calm' <=> Calm
      /\ Watched' <=> Watched
      /\ Broken' <=> Broken
  BY <1>1, Zenon DEF Unfit, Calm, Watched, Broken
<1>4. /\ (Used' <=> Used) /\ (Ran' <=> Ran) /\ (HostsOffered' <=> HostsOffered)
      /\ (GaveUp' <=> GaveUp) /\ (Opened' <=> Opened)
  BY <1>1 DEF Used, Ran, HostsOffered, GaveUp, Opened
<1>5. Steady'
  BY <1>1, <1>2, <1>3 DEF Steady, ClosedLast, Misfit, OneBlock, IbbAsks, IbbEnds
<1>6. Smooth'
  BY <1>1, <1>2, <1>3, <1>4 DEF Smooth, OpenWhile, Running, NotRefused, EndsWhole, Succeeds, Suits
<1>7. Linked'
  BY <1>1, <1>2, <1>3, <1>4
  DEF Linked, Starting, ClosedStep, SomeHost, WatchRan, Watches, ThisHost, DialsIt, ServedIt,
     AskedBefore, AskedHosts, OneHosts, GivenUp, NoHostYet
<1>8. Undisturbed'
  BY <1>1, <1>2, <1>3, <1>4
  DEF Undisturbed, OpenCandidate, NotDirect, StillOn, OnlyWhole, Arrived, Landed
<1>9. ReadAll'
  BY <1>1, Zenon DEF FileInv, ReadAll, AllRead, Announced
<1> QED BY <1>2, <1>5, <1>6, <1>7, <1>8, <1>9 DEF FileInv

\* What is known of the file holds at any time.
THEOREM FileInvCorrect == Spec => []FileInv
<1>1. Init => FileInv
  BY FileBegins DEF Init
<1>2. ASSUME FileInv, [Next]_vars  PROVE  FileInv'
  <2>1. CASE TransferNext
    BY <1>2, <2>1, FileMoves
  <2>2. CASE UNCHANGED transferVars
    BY <1>2, <2>2, FileRests
  <2> QED BY <1>2, <2>1, <2>2 DEF Next, NotTypes, NotAudio, NotVideo, vars
<1> QED BY <1>1, <1>2, PTL DEF Spec

\* All that was read of the file has been written at the other side or is on the way there.
LEMMA SenderKnowsHolds == FileInv => SenderKnows
<1> SUFFICES ASSUME FileInv, Done(out), out.error = "NoError", Calm
             PROVE  inc.written \o (IF Done(inc) THEN <<>> ELSE pipe) = File(par.blocks)
  BY Zenon DEF SenderKnows, Calm
<1>1. /\ inc.written \in Seq(Nat) /\ pipe \in Seq(Nat) /\ par.blocks \in Nat /\ out.state = "finished"
      /\ Len(inc.written) \in Nat /\ Len(pipe) \in Nat
      /\ \A i \in 1 .. Len(inc.written) : inc.written[i] = i
  BY DEF FileInv, TransferInv, Shape, IncShape, Written, Done
<1>2. Len(inc.written) = par.blocks => inc.written = File(par.blocks) /\ inc.written \o <<>> = inc.written
  <2>1. inc.written = [i \in 1 .. Len(inc.written) |-> inc.written[i]] /\ inc.written \o <<>> = inc.written
    BY <1>1
  <2> QED BY <1>1, <2>1 DEF File
<1>3. CASE par.method = "ibb"
  <2>1. pipe = <<>> /\ Len(inc.written) = par.blocks
    BY <1>1, <1>3 DEF FileInv, TransferInv, Kind, Smooth, EndsWhole
  <2> QED BY <1>2, <2>1
<1>4. CASE par.method # "ibb" /\ inc.state = "finished"
  <2>1. Len(inc.written) = par.blocks
    BY <1>1, <1>4 DEF FileInv, Undisturbed, Arrived, Landed
  <2> QED BY <1>2, <1>4, <2>1 DEF Done
<1>5. CASE par.method # "ibb" /\ inc.state # "finished"
  <2>1. Ran /\ Len(inc.written) + Len(pipe) = par.blocks /\ OpenCandidate /\ ~Broken
    BY <1>1, <1>5 DEF FileInv, Undisturbed, Arrived, Landed
  <2>2. Chain(Len(inc.written), pipe, out.buf, out.read, out.sock)
    BY <1>5, <2>1 DEF FileInv, TransferInv, Chained, OpenCandidate, Broken
  <2>3. \A i \in 1 .. Len(pipe) : pipe[i] = Len(inc.written) + i
    BY <1>1, <2>2 DEF Chain
  <2> DEFINE all == inc.written \o pipe
  <2>4. /\ all \in Seq(Nat) /\ Len(all) = par.blocks
        /\ \A i \in 1 .. Len(inc.written) : all[i] = inc.written[i]
        /\ \A i \in 1 .. Len(pipe) : all[Len(inc.written) + i] = pipe[i]
    BY <1>1, <2>1, Joins
  <2>5. all = [i \in 1 .. par.blocks |-> all[i]]
    BY <2>4
  <2> HIDE DEF all
  <2>6. ASSUME NEW i \in 1 .. par.blocks  PROVE  all[i] = i
    <3>1. CASE i \in 1 .. Len(inc.written)
      BY <1>1, <2>4, <3>1
    <3>2. CASE i \notin 1 .. Len(inc.written)
      <4> DEFINE j == i - Len(inc.written)
      <4>1. j \in 1 .. Len(pipe) /\ Len(inc.written) + j = i
        BY <1>1, <2>1, <3>2
      <4> HIDE DEF j
      <4>2. all[Len(inc.written) + j] = Len(inc.written) + j
        BY <2>3, <2>4, <4>1
      <4> QED BY <4>1, <4>2
    <3> QED BY <3>1, <3>2
  <2>7. all = File(par.blocks)
    BY <2>5, <2>6 DEF File
  <2> QED BY <1>5, <2>7 DEF Done, all
<1> QED BY <1>3, <1>4, <1>5

\* A sender that fails in band was interfered with, or has what the peer cannot take.
LEMMA InBandSucceedsHolds == FileInv => InBandSucceeds
<1> SUFFICES ASSUME FileInv, Done(out), out.method = "ibb", Calm, ~Unfit, par.blocks <= SeqModulus
             PROVE  out.error = "NoError"
  BY Zenon DEF InBandSucceeds, Calm, Unfit
<1>1. par.method = "ibb" /\ Suits
  BY DEF FileInv, TransferInv, Kind, Suits
<1> QED BY <1>1 DEF FileInv, Smooth, Succeeds, Done

\* A job that ended without error read all of the file it announced.
LEMMA AllWasReadHolds == FileInv => AllWasRead
<1> SUFFICES ASSUME FileInv, Done(out), out.error = "NoError", Announced  PROVE  out.read = par.blocks
  BY Zenon DEF AllWasRead, Announced
<1> QED BY DEF FileInv, TransferInv, ReadAll, AllRead, Written, Shape, OutShape, Done

\* At any time what was written is a beginning of the file (QXmppTransferManager.cpp:976); a
\* sender that ends without error has read all of a known size (:619) and, left alone, has its
\* whole file written or on the way there (:1063, :649), and in band it does end so, unless somebody interferes.
THEOREM FileIntactCorrect == Spec => []FileIntact
<1>1. FileInv => FileIntact
  BY WrittenInOrderHolds, SenderKnowsHolds, AllWasReadHolds, InBandSucceedsHolds DEF FileIntact, FileInv
<1> QED BY <1>1, FileInvCorrect, PTL

-----------------------------------------------------------------------------
(* Sound: every chunk at its place. *)

\* What is known of the end that listens.
AudioKnown ==
  /\ outgoingStamp \in Stamps /\ flight \subseteq Datagrams
  /\ incomingBuffer \in Seq(Chunks) /\ Len(incomingBuffer) <= Maximum
  /\ incomingPos \in 0 .. LastPos
  /\ \A i \in 1 .. Len(incomingBuffer) :
       incomingBuffer[i] # Silence => incomingBuffer[i] = incomingPos + i - 1

\* A hole is filled by as many chunks of silence as it is long.
LEMMA HoleIsSilent ==
    ASSUME NEW k \in Int
    PROVE  /\ Silences(k) \in Seq(Chunks)
           /\ Len(Silences(k)) = IF k > 0 THEN k ELSE 0
           /\ \A i \in 1 .. k : Silences(k)[i] = Silence
<1> DEFINE n == IF k > 0 THEN k ELSE 0
<1>1. n \in Nat /\ 1 .. k = 1 .. n /\ Silence \in Chunks
  BY DEF Chunks
<1> HIDE DEF n
<1>2. Silences(k) = [i \in 1 .. n |-> Silence]
  BY <1>1 DEF Silences
<1>3. Silences(k) \in Seq(Chunks) /\ Len(Silences(k)) = n
  BY <1>1, <1>2
<1> QED BY <1>1, <1>2, <1>3 DEF n

\* Sound laid at its stamp lies where it is played at its time, whatever is dropped for it.
LEMMA LaidInPlace ==
    ASSUME AudioKnown, NEW stamp \in Stamps, NEW start \in 0 .. LastPos,
           incomingBuffer # << >> => start = incomingPos
    PROVE  LET laid == Laid(stamp, start)
           IN  /\ laid.buffer \in Seq(Chunks) /\ Len(laid.buffer) <= Maximum
               /\ laid.pos \in 0 .. LastPos
               /\ \A i \in 1 .. Len(laid.buffer) :
                    laid.buffer[i] # Silence => laid.buffer[i] = laid.pos + i - 1
<1> DEFINE laid == Laid(stamp, start)
           offset == stamp - start
           hole == Silences(offset + 1 - Len(incomingBuffer))
           joined == incomingBuffer \o hole
           buffer == [joined EXCEPT ![offset + 1] = stamp]
           dropped == IF Len(buffer) > Maximum THEN Len(buffer) - Minimum ELSE 0
           kept == SubSeq(buffer, dropped + 1, Len(buffer))
<1> USE AudioAssumption
<1>1. /\ stamp \in Nat /\ stamp < Cycle /\ start \in Nat /\ offset \in Int /\ LastPos = Cycle + Maximum
      /\ Len(incomingBuffer) \in Nat /\ incomingBuffer \in Seq(Chunks) /\ stamp \in Chunks
  BY DEF AudioKnown, Stamps, LastPos, Chunks
<1>2. CASE offset < 0
  <2>1. laid = Untouched
    BY <1>2 DEF Laid
  <2> QED BY <2>1 DEF AudioKnown, Untouched
<1>3. CASE offset >= 0
  <2>1. /\ laid.buffer = kept /\ laid.pos = start + dropped
    <3>1. ~(offset < 0)
      BY <1>1, <1>3
    <3>2. laid = [buffer |-> kept, pos |-> start + dropped,
                  buffering |-> incomingBuffering /\ Len(buffer) - dropped < Minimum]
      BY ONLY <3>1, Zenon DEF Laid
    <3> HIDE DEF laid, kept, dropped, buffer
    <3> QED BY <3>2, Zenon
  <2>2. /\ hole \in Seq(Chunks)
        /\ Len(hole) = IF offset + 1 > Len(incomingBuffer) THEN offset + 1 - Len(incomingBuffer) ELSE 0
        /\ \A i \in 1 .. offset + 1 - Len(incomingBuffer) : hole[i] = Silence
    <3>1. offset + 1 - Len(incomingBuffer) \in Int
      BY <1>1
    <3>2. offset + 1 - Len(incomingBuffer) > 0 <=> offset + 1 > Len(incomingBuffer)
      BY <1>1
    <3> QED BY <3>1, <3>2, HoleIsSilent
  <2> HIDE DEF hole, laid
  <2>3. /\ joined \in Seq(Chunks)
        /\ Len(joined) = IF offset + 1 > Len(incomingBuffer) THEN offset + 1 ELSE Len(incomingBuffer)
        /\ \A i \in 1 .. Len(incomingBuffer) : joined[i] = incomingBuffer[i]
        /\ \A i \in Len(incomingBuffer) + 1 .. Len(joined) : joined[i] = Silence
    <3>1. /\ joined \in Seq(Chunks) /\ Len(joined) = Len(incomingBuffer) + Len(hole)
          /\ \A i \in 1 .. Len(incomingBuffer) + Len(hole) :
               joined[i] = IF i <= Len(incomingBuffer) THEN incomingBuffer[i]
                           ELSE hole[i - Len(incomingBuffer)]
      BY <1>1, <2>2, ConcatProperties
    <3> QED BY <1>1, <1>3, <2>2, <3>1
  <2>4. /\ offset + 1 \in 1 .. Len(joined) /\ Len(joined) \in Nat
    BY <1>1, <1>3, <2>3
  <2> HIDE DEF joined
  <2>5. /\ buffer \in Seq(Chunks) /\ Len(buffer) = Len(joined) /\ buffer[offset + 1] = stamp
        /\ \A i \in 1 .. Len(joined) : i # offset + 1 => buffer[i] = joined[i]
    BY <1>1, <2>3, <2>4
  <2> HIDE DEF buffer
  <2>6. \A i \in 1 .. Len(buffer) : buffer[i] # Silence => buffer[i] = start + i - 1
    <3> TAKE i \in 1 .. Len(buffer)
    <3>1. CASE i = offset + 1
      BY <1>1, <2>5, <3>1
    <3>2. CASE i # offset + 1 /\ i \in 1 .. Len(incomingBuffer)
      <4>1. /\ incomingBuffer # << >> /\ buffer[i] = incomingBuffer[i] /\ i \in 1 .. Len(incomingBuffer)
        BY <1>1, <2>3, <2>4, <2>5, <3>2
      <4> QED BY <1>1, <4>1 DEF AudioKnown
    <3>3. CASE i # offset + 1 /\ i \notin 1 .. Len(incomingBuffer)
      BY <1>1, <2>3, <2>4, <2>5, <3>3
    <3> QED BY <3>1, <3>2, <3>3
  <2>7. Len(buffer) \in Nat /\ dropped \in Nat /\ dropped <= Len(buffer)
    BY <2>4, <2>5
  <2>8. Len(buffer) > Maximum => Len(buffer) = offset + 1
    BY <1>1, <2>3, <2>5 DEF AudioKnown
  <2>9. Len(buffer) - dropped <= Maximum /\ start + dropped \in 0 .. LastPos
    BY <1>1, <2>7, <2>8
  <2> HIDE DEF dropped
  <2>10. /\ kept \in Seq(Chunks) /\ Len(kept) = Len(buffer) - dropped
         /\ \A i \in 1 .. Len(kept) : kept[i] = buffer[dropped + i]
    BY <2>5, <2>7
  <2> HIDE DEF kept
  <2>11. \A i \in 1 .. Len(kept) : kept[i] # Silence => kept[i] = start + dropped + i - 1
    <3> TAKE i \in 1 .. Len(kept)
    <3>1. dropped + i \in 1 .. Len(buffer)
      BY <2>7, <2>10
    <3> QED BY <1>1, <2>6, <2>7, <2>10, <3>1
  <2> QED BY <2>1, <2>9, <2>10, <2>11 DEF laid
<1>4. offset < 0 \/ offset >= 0
  BY <1>1
<1> HIDE DEF laid, offset
<1> QED BY ONLY <1>2, <1>3, <1>4, Zenon DEF laid

\* What is known of the end that listens stays known.
LEMMA AudioMoves ==
    ASSUME AudioKnown, AudioNext
    PROVE  AudioKnown'
<1> USE AudioAssumption DEF audioVars, outgoing, network, incoming
<1>1. CASE WriteSoundData
  BY <1>1 DEF WriteSoundData, AudioKnown
<1>2. CASE WriteDatagram
  <2>1. flight' \subseteq Datagrams
    BY <1>2 DEF WriteDatagram, AudioKnown, Datagrams
  <2>2. outgoingStamp' \in Stamps
    BY <1>2 DEF WriteDatagram, AudioKnown, Stamps
  <2> QED BY <1>2, <2>1, <2>2 DEF WriteDatagram, AudioKnown
<1>3. CASE CloseChannel
  BY <1>3 DEF CloseChannel, AudioKnown
<1>4. CASE ReadData
  <2>1. CASE incomingBuffer = << >> \/ incomingBuffering
    <3>1. incomingBuffer' = incomingBuffer /\ incomingPos' \in 0 .. LastPos
      BY <1>4, <2>1 DEF ReadData, AudioKnown, LastPos
    <3>2. incomingBuffer = << >> \/ incomingPos' = incomingPos
      BY <1>4, <2>1 DEF ReadData
    <3> QED BY <1>4, <3>1, <3>2 DEF ReadData, AudioKnown
  <2>2. CASE incomingBuffer # << >> /\ ~incomingBuffering
    <3>1. /\ incomingBuffer' = Tail(incomingBuffer) /\ incomingBuffer \in Seq(Chunks)
          /\ Len(incomingBuffer) \in Nat /\ Len(incomingBuffer) > 0
      BY <1>4, <2>2 DEF ReadData, AudioKnown
    <3>2. /\ incomingBuffer' \in Seq(Chunks) /\ Len(incomingBuffer') = Len(incomingBuffer) - 1
          /\ \A i \in 1 .. Len(incomingBuffer') : incomingBuffer'[i] = incomingBuffer[i + 1]
      BY <2>2, <3>1
    <3>3. /\ incomingPos' \in 0 .. LastPos /\ incomingPos \in 0 .. LastPos
          /\ incomingPos' = IF incomingPos = LastPos THEN LastPos ELSE incomingPos + 1
      <4>1. incomingPos' = IF incomingPos = LastPos THEN LastPos ELSE incomingPos + 1
        BY <1>4, <2>2, Zenon DEF ReadData
      <4>2. incomingPos \in 0 .. LastPos
        BY DEF AudioKnown
      <4> QED BY <4>1, <4>2 DEF LastPos
    <3>4. ASSUME NEW i \in 1 .. Len(incomingBuffer'), incomingBuffer'[i] # Silence
          PROVE  incomingBuffer'[i] = incomingPos' + i - 1
      <4>1. /\ i \in Nat /\ i + 1 \in 1 .. Len(incomingBuffer) /\ incomingBuffer'[i] = incomingBuffer[i + 1]
            /\ incomingBuffer[i + 1] \in Chunks
        BY <3>1, <3>2
      <4>2. incomingBuffer[i + 1] = incomingPos + i /\ incomingBuffer[i + 1] \in Stamps
        BY <3>3, <3>4, <4>1 DEF AudioKnown, Chunks, LastPos
      <4>3. incomingPos # LastPos
        BY <4>1, <4>2 DEF Stamps, LastPos
      <4> QED BY <3>3, <4>1, <4>2, <4>3 DEF LastPos
    <3>5. flight' = flight /\ outgoingStamp' = outgoingStamp
      BY <1>4 DEF ReadData
    <3>6. Len(incomingBuffer') <= Maximum
      BY <3>1, <3>2 DEF AudioKnown
    <3> QED BY <3>2, <3>3, <3>4, <3>5, <3>6 DEF AudioKnown, Stamps, Datagrams
  <2> QED BY <2>1, <2>2
<1>5. ASSUME NEW t \in Tones, StartTone(t) \/ StopTone(t)  PROVE AudioKnown'
  BY <1>5 DEF StartTone, StopTone, AudioKnown
<1>6. ASSUME NEW p \in flight, DatagramReceived(p)  PROVE AudioKnown'
  <2>1. flight' \subseteq Datagrams /\ outgoingStamp' \in Stamps /\ p \in Datagrams
    BY <1>6 DEF DatagramReceived, AudioKnown
  <2>2. CASE p.type = "event"
    BY <1>6, <2>1, <2>2 DEF DatagramReceived, AudioKnown
  <2>3. CASE p.type # "event"
    <3>1. p.stamp \in Stamps
      BY <2>1, <2>3 DEF Datagrams, Event
    <3>2. /\ Start(p.stamp) \in 0 .. LastPos
          /\ incomingBuffer # << >> => Start(p.stamp) = incomingPos
      BY <3>1 DEF Start, AudioKnown, Stamps, LastPos
    <3>3. /\ incomingBuffer' = Laid(p.stamp, Start(p.stamp)).buffer
          /\ incomingPos' = Laid(p.stamp, Start(p.stamp)).pos
      BY <1>6, <2>3 DEF DatagramReceived, Placed
    <3> QED BY <2>1, <3>1, <3>2, <3>3, LaidInPlace DEF AudioKnown
  <2> QED BY <2>2, <2>3
<1>7. ASSUME NEW p \in flight, Lost(p)  PROVE AudioKnown'
  BY <1>7 DEF Lost, AudioKnown
<1> QED BY <1>1, <1>2, <1>3, <1>4, <1>5, <1>6, <1>7 DEF AudioNext

-----------------------------------------------------------------------------
(* Pictures: how a frame is cut. *)

Sizes == 1 .. MaxSize

LEMMA Divided ==
    ASSUME NEW x \in Nat, NEW y \in Nat, y > 0
    PROVE  x \div y \in Int /\ y * (x \div y) <= x /\ x < y * (x \div y) + y
<1>1. x \div y \in Int
    OBVIOUS
<1>2. y * (x \div y) <= x
    OBVIOUS
<1>3. x < y * (x \div y) + y
    OBVIOUS
<1> QED BY <1>1, <1>2, <1>3

\* As many pieces as it takes: the last begins before the end of the frame, and reaches it.
LEMMA PiecesSuffice ==
    ASSUME NEW size \in Nat \ {0}
    PROVE  /\ Pieces(size) \in Nat \ {0}
           /\ (Pieces(size) - 1) * PacketMax < size
           /\ size <= Pieces(size) * PacketMax
<1> DEFINE a == size + PacketMax - 1
           p == a \div PacketMax
<1>1. PacketMax \in Nat /\ PacketMax > 0 /\ a \in Nat
  BY VideoAssumption
<1> HIDE DEF a
<1>2. p \in Int /\ PacketMax * p <= a /\ a < PacketMax * p + PacketMax
  BY <1>1, Divided
<1>3. Pieces(size) = p
  BY DEF Pieces, a
<1> HIDE DEF p
<1>4. PacketMax * p = p * PacketMax /\ (p - 1) * PacketMax = p * PacketMax - PacketMax
  BY <1>1, <1>2
<1>5. p * PacketMax \in Int
  BY <1>1, <1>2
<1>6. p * PacketMax <= a /\ a < p * PacketMax + PacketMax
  BY <1>1, <1>2, <1>4, <1>5
<1>7. (p - 1) * PacketMax < size /\ size <= p * PacketMax
  BY <1>1, <1>2, <1>4, <1>5, <1>6 DEF a
<1>8. p > 0
  <2>1. p <= 0 => p * PacketMax <= 0
    BY <1>1, <1>2
  <2> QED BY <1>2, <1>5, <1>7, <2>1
<1> QED BY <1>2, <1>3, <1>7, <1>8

\* What is longer takes as many pieces at least.
LEMMA Ordered ==
    ASSUME NEW i \in Int, NEW j \in Int, i <= j
    PROVE  i * PacketMax <= j * PacketMax /\ i * PacketMax \in Int /\ j * PacketMax \in Int
  BY VideoAssumption

LEMMA LongerTakesMore ==
    ASSUME NEW size \in Sizes
    PROVE  Pieces(size) \in 1 .. MostPieces
<1>1. size \in Nat \ {0} /\ MaxSize \in Nat \ {0} /\ size <= MaxSize
  BY VideoAssumption DEF Sizes
<1>2. /\ Pieces(size) \in Nat \ {0} /\ Pieces(MaxSize) \in Nat \ {0}
      /\ (Pieces(size) - 1) * PacketMax < size /\ MaxSize <= Pieces(MaxSize) * PacketMax
  BY <1>1, PiecesSuffice
<1>3. Pieces(MaxSize) <= Pieces(size) - 1 => Pieces(MaxSize) * PacketMax <= (Pieces(size) - 1) * PacketMax
  BY <1>2, Ordered
<1>4. Pieces(MaxSize) * PacketMax \in Int /\ (Pieces(size) - 1) * PacketMax \in Int
  BY <1>2, Ordered
<1> QED BY <1>1, <1>2, <1>3, <1>4 DEF MostPieces

\* A frame of one piece goes whole; of several the first starts and the last ends it.
LEMMA TypesOfPieces ==
    ASSUME NEW size \in Nat \ {0}, NEW i \in 1 .. Pieces(size)
    PROVE  FragmentType(size, i) = IF Pieces(size) = 1 THEN "no" ELSE IF i = 1 THEN "start"
                                   ELSE IF i = Pieces(size) THEN "end" ELSE "middle"
<1> DEFINE p == Pieces(size)
<1>1. p \in Nat \ {0} /\ (p - 1) * PacketMax < size /\ size <= p * PacketMax /\ i \in Nat /\ 1 <= i /\ i <= p
  BY PiecesSuffice
<1> HIDE DEF p
<1>2. PacketMax \in Nat /\ PacketMax > 0
  BY VideoAssumption
<1>3. (p = 1) <=> (size <= PacketMax)
  <2>1. p = 1 => p * PacketMax = PacketMax
    BY <1>2
  <2>2. p >= 2 => PacketMax <= (p - 1) * PacketMax /\ (p - 1) * PacketMax \in Int
    <3>1. ASSUME p >= 2  PROVE 1 * PacketMax <= (p - 1) * PacketMax /\ (p - 1) * PacketMax \in Int
      BY <1>1, <3>1, Ordered
    <3> QED BY <1>2, <3>1
  <2> QED BY <1>1, <1>2, <2>1, <2>2
<1>4. i = p => size - (i - 1) * PacketMax <= PacketMax
  <2>1. (p - 1) * PacketMax = p * PacketMax - PacketMax /\ p * PacketMax \in Int
    BY <1>1, <1>2
  <2> QED BY <1>1, <1>2, <2>1
<1>5. i < p => size - (i - 1) * PacketMax > PacketMax
  <2>1. ASSUME i < p  PROVE i * PacketMax <= (p - 1) * PacketMax /\ i * PacketMax \in Int
                            /\ (p - 1) * PacketMax \in Int
    BY <1>1, <2>1, Ordered
  <2>2. (i - 1) * PacketMax = i * PacketMax - PacketMax
    BY <1>1, <1>2
  <2> QED BY <1>1, <1>2, <2>1, <2>2
<1>6. (i - 1) * PacketMax \in Int
  BY <1>1, <1>2
<1>7. CASE p = 1
  <2>1. size <= PacketMax /\ i = 1
    BY <1>1, <1>3, <1>7
  <2> QED BY <1>2, <1>7, <2>1 DEF FragmentType, p
<1>8. CASE p # 1 /\ i = 1
  BY <1>1, <1>2, <1>3, <1>8 DEF FragmentType, p
<1>9. CASE p # 1 /\ i # 1
  <2>1. ~(size <= PacketMax) /\ i > 1
    BY <1>1, <1>3, <1>9
  <2>2. (size - (i - 1) * PacketMax > PacketMax) <=> (i # p)
    BY <1>1, <1>2, <1>4, <1>5, <1>6
  <2>3. FragmentType(size, i) = IF size - (i - 1) * PacketMax > PacketMax THEN "middle" ELSE "end"
    BY <1>1, <1>2, <2>1, <1>9 DEF FragmentType
  <2> QED BY <1>9, <2>2, <2>3 DEF p
<1> QED BY <1>7, <1>8, <1>9

-----------------------------------------------------------------------------
(* Pictures: what is under way, put together and shown. *)

FragmentTypes == {"no", "start", "middle", "end"}
Fragment == [frame : Nat, piece : Nat, type : FragmentTypes]
Count(of, n) == Pieces(of[n])
Cut(of, n, i) == [frame |-> n, piece |-> i, type |-> FragmentType(of[n], i)]

\* A fragment of a frame that was written.
Known(f, of) ==
  /\ f.frame \in 1 .. Len(of) /\ f.piece \in 1 .. Count(of, f.frame)
  /\ f = Cut(of, f.frame, f.piece)

VideoShape ==
  /\ sizes \in Seq(Sizes) /\ mishaps \in Nat
  /\ underway \in Seq(Fragment) /\ packetBuffer \in Seq(Fragment) /\ arrived \in Seq(Fragment)
  /\ frames \in Seq(Seq(Fragment)) /\ readFrames \in Seq(Seq(Fragment))
  /\ Len(arrived) <= MostPieces
  /\ \A i \in 1 .. Len(underway) : Known(underway[i], sizes)
  /\ \A i \in 1 .. Len(arrived) : Known(arrived[i], sizes)

\* What came last is the beginning of a frame, or all of it.
CameLast(s, of, n, k) == Len(s) >= k /\ \A i \in 1 .. k : s[Len(s) - k + i] = Cut(of, n, i)
Begun(s, of, n, k) == Len(s) = k /\ \A i \in 1 .. k : s[i] = Cut(of, n, i)

\* The beginning of a frame that came last is what is put together, and a frame all of which
\* came last is shown.
Collecting ==
  \A n \in 1 .. Len(sizes) : \A k \in 1 .. Count(sizes, n) - 1 :
    CameLast(arrived, sizes, n, k) => Begun(packetBuffer, sizes, n, k)
Among(s, frame) == \E j \in 1 .. Len(s) : s[j] = frame
Showing ==
  \A n \in 1 .. Len(sizes) :
    CameLast(arrived, sizes, n, Count(sizes, n)) =>
      Among(readFrames, Fragments(n, sizes[n])) \/ Among(frames, Fragments(n, sizes[n]))

LEMMA CutFields == \A of, n, i : Cut(of, n, i).frame = n /\ Cut(of, n, i).piece = i
  BY DEF Cut

\* The pieces of a frame, each as it is cut.
LEMMA FragmentsAre ==
    ASSUME NEW of \in Seq(Sizes), NEW n \in 1 .. Len(of)
    PROVE  /\ Fragments(n, of[n]) \in Seq(Fragment) /\ Len(Fragments(n, of[n])) = Count(of, n)
           /\ Count(of, n) \in 1 .. MostPieces /\ MostPieces \in Nat
           /\ \A i \in 1 .. Count(of, n) :
                /\ Fragments(n, of[n])[i] = Cut(of, n, i) /\ Cut(of, n, i) \in Fragment
                /\ Known(Cut(of, n, i), of)
                /\ Cut(of, n, i).type = IF Count(of, n) = 1 THEN "no" ELSE IF i = 1 THEN "start"
                                        ELSE IF i = Count(of, n) THEN "end" ELSE "middle"
<1>1. of[n] \in Sizes /\ of[n] \in Nat \ {0} /\ n \in Nat
  BY VideoAssumption DEF Sizes
<1>2. Count(of, n) \in 1 .. MostPieces /\ Count(of, n) \in Nat
  BY <1>1, LongerTakesMore, PiecesSuffice DEF Count
<1>3. MostPieces \in Nat
  BY VideoAssumption, PiecesSuffice DEF MostPieces
<1>4. ASSUME NEW i \in 1 .. Count(of, n)
      PROVE  /\ Cut(of, n, i).type = IF Count(of, n) = 1 THEN "no" ELSE IF i = 1 THEN "start"
                                     ELSE IF i = Count(of, n) THEN "end" ELSE "middle"
             /\ Cut(of, n, i) \in Fragment /\ Known(Cut(of, n, i), of)
  <2>1. FragmentType(of[n], i) = IF Count(of, n) = 1 THEN "no" ELSE IF i = 1 THEN "start"
                                 ELSE IF i = Count(of, n) THEN "end" ELSE "middle"
    BY <1>1, <1>4, TypesOfPieces DEF Count
  <2>2. FragmentType(of[n], i) \in FragmentTypes /\ i \in Nat
    BY <1>2, <2>1 DEF FragmentTypes
  <2> QED BY <1>1, <2>1, <2>2 DEF Cut, Fragment, Known
<1>5. Fragments(n, of[n]) = [i \in 1 .. Count(of, n) |-> Cut(of, n, i)]
  BY DEF Fragments, Count, Cut
<1>6. Fragments(n, of[n]) \in Seq(Fragment) /\ Len(Fragments(n, of[n])) = Count(of, n)
  BY <1>2, <1>4, <1>5
<1> QED BY <1>2, <1>3, <1>4, <1>5, <1>6

\* A sequence without one of its elements.
LEMMA Without ==
    ASSUME NEW S, NEW s \in Seq(S), NEW i \in 1 .. Len(s)
    PROVE  /\ RemoveAt(s, i) \in Seq(S) /\ Len(RemoveAt(s, i)) = Len(s) - 1
           /\ \A j \in 1 .. Len(s) - 1 : RemoveAt(s, i)[j] = IF j < i THEN s[j] ELSE s[j + 1]
<1> DEFINE front == SubSeq(s, 1, i - 1)
           back == SubSeq(s, i + 1, Len(s))
<1>1. Len(s) \in Nat /\ i \in Nat /\ 1 <= i /\ i <= Len(s) /\ \A j \in 1 .. Len(s) : s[j] \in S
    OBVIOUS
<1>2. /\ front \in Seq(S) /\ Len(front) = i - 1 /\ \A j \in 1 .. i - 1 : front[j] = s[j]
  BY <1>1
<1>3. /\ back \in Seq(S) /\ Len(back) = Len(s) - i /\ \A j \in 1 .. Len(s) - i : back[j] = s[i + j]
  BY <1>1
<1>4. RemoveAt(s, i) = front \o back
  BY DEF RemoveAt
<1> HIDE DEF front, back
<1>5. /\ front \o back \in Seq(S) /\ Len(front \o back) = Len(front) + Len(back)
      /\ \A j \in 1 .. Len(front) + Len(back) :
           (front \o back)[j] = IF j <= Len(front) THEN front[j] ELSE back[j - Len(front)]
  BY <1>2, <1>3, ConcatProperties
<1> QED BY <1>1, <1>2, <1>3, <1>4, <1>5

\* The last few that came, with one more: the new one is the last, and the others move.
Moved(s, t, e) ==
  /\ Len(s) \in Nat /\ Len(t) \in Nat \ {0} /\ Len(t) \in {Len(s), Len(s) + 1} /\ t[Len(t)] = e
  /\ \A j \in 1 .. Len(t) - 1 :
       /\ t[j] = s[Len(s) - Len(t) + 1 + j]
       /\ Len(s) - Len(t) + 1 + j \in 1 .. Len(s)
Newest(s, e, m) == LET u == Append(s, e) IN SubSeq(u, Max({1, Len(u) - m + 1}), Len(u))

LEMMA OneMore ==
    ASSUME NEW S, NEW s \in Seq(S), NEW e \in S, NEW m \in Nat \ {0}, Len(s) <= m
    PROVE  /\ Newest(s, e, m) \in Seq(S) /\ Len(Newest(s, e, m)) <= m
           /\ Moved(s, Newest(s, e, m), e)
<1> DEFINE t == Newest(s, e, m)
<1> DEFINE u == Append(s, e)
           from == IF Len(s) = m THEN 2 ELSE 1
<1>1. /\ u \in Seq(S) /\ Len(u) = Len(s) + 1 /\ Len(s) \in Nat /\ u[Len(s) + 1] = e
      /\ \A j \in 1 .. Len(s) : u[j] = s[j]
    OBVIOUS
<1> HIDE DEF u
<1>2. Max({1, Len(u) - m + 1}) = from
  <2>1. Len(u) - m + 1 \in Int /\ (Len(u) - m + 1 = from \/ (from = 1 /\ Len(u) - m + 1 <= 1))
        /\ from \in {1, Len(u) - m + 1}
    BY <1>1
  <2>2. \A x \in {1, Len(u) - m + 1} : (\A y \in {1, Len(u) - m + 1} : x >= y) <=> x = from
    BY <1>1, <2>1
  <2> QED BY <2>1, <2>2 DEF Max
<1>3. t = SubSeq(u, from, Len(u))
  BY <1>2 DEF u, Newest
<1> HIDE DEF t
<1>4. from \in Nat /\ from <= Len(u) /\ from >= 1
  BY <1>1
<1> HIDE DEF from
<1>5. /\ t \in Seq(S) /\ Len(t) = Len(u) - from + 1
      /\ \A j \in 1 .. Len(t) : t[j] = u[from + j - 1]
  <2>1. from \in Int /\ Len(u) \in Int /\ \A j \in from .. Len(u) : u[j] \in S
    BY <1>1, <1>4
  <2>2. /\ SubSeq(u, from, Len(u)) \in Seq(S)
        /\ Len(SubSeq(u, from, Len(u))) = IF from <= Len(u) THEN Len(u) - from + 1 ELSE 0
        /\ \A j \in 1 .. Len(u) - from + 1 : SubSeq(u, from, Len(u))[j] = u[from + j - 1]
    BY ONLY <2>1, SubSeqProperties
  <2> QED BY <1>3, <1>4, <2>2
<1>6. Len(s) - Len(t) + 1 = from - 1
  BY <1>1, <1>4, <1>5
<1>7. Len(t) = IF Len(s) = m THEN m ELSE Len(s) + 1
  BY <1>1, <1>5 DEF from
<1>8. t[Len(t)] = e
  <2> DEFINE l == Len(t)
  <2>1. l \in Int /\ l = Len(u) - from + 1 /\ Len(u) \in Nat
    BY <1>1, <1>4, <1>5
  <2> HIDE DEF l
  <2>2. l \in 1 .. l /\ from + l - 1 = Len(u)
    BY <1>1, <1>4, <2>1
  <2>3. t[l] = u[from + l - 1]
    BY <1>5, <2>2 DEF l
  <2> QED BY <1>1, <2>2, <2>3 DEF l
<1>9. ASSUME NEW j \in 1 .. Len(t) - 1
      PROVE  t[j] = s[Len(s) - Len(t) + 1 + j] /\ Len(s) - Len(t) + 1 + j \in 1 .. Len(s)
  <2>1. /\ j \in 1 .. Len(t) /\ from + j - 1 \in 1 .. Len(s)
        /\ Len(s) - Len(t) + 1 + j = from + j - 1
    <3> DEFINE l == Len(t)
               r == Len(s)
    <3>1. l = r - from + 2 /\ l \in Int /\ r \in Nat /\ from \in Nat /\ from >= 1
      BY <1>1, <1>4, <1>5
    <3>2. j \in 1 .. l - 1
      BY <1>9
    <3> HIDE DEF l, r
    <3>3. j \in 1 .. l /\ from + j - 1 \in 1 .. r /\ r - l + 1 + j = from + j - 1
      BY ONLY <3>1, <3>2
    <3> QED BY <3>3 DEF l, r
  <2>2. t[j] = u[from + j - 1] /\ u[from + j - 1] = s[from + j - 1]
    BY <1>1, <1>5, <2>1
  <2> QED BY <2>1, <2>2
<1>10. /\ Len(t) \in Nat \ {0} /\ Len(t) \in {Len(s), Len(s) + 1} /\ Len(t) <= m
  BY <1>1, <1>7
<1>11. Moved(s, t, e)
  BY <1>1, <1>8, <1>9, <1>10 DEF Moved
<1> QED BY <1>5, <1>10, <1>11 DEF t

\* A frame more leaves all that is known of those before it.
Longer(later, of) == \A n \in 1 .. Len(of) : n \in 1 .. Len(later) /\ later[n] = of[n]

LEMMA FrameMore ==
    ASSUME NEW of, NEW later, Longer(later, of)
    PROVE  /\ \A n \in 1 .. Len(of) :
                /\ n \in 1 .. Len(later) /\ later[n] = of[n] /\ Count(later, n) = Count(of, n)
                /\ \A i : Cut(later, n, i) = Cut(of, n, i)
           /\ \A f : Known(f, of) => Known(f, later)
<1>1. \A n \in 1 .. Len(of) : n \in 1 .. Len(later) /\ later[n] = of[n]
  BY DEF Longer
<1>2. \A n \in 1 .. Len(of) : Count(later, n) = Count(of, n) /\ \A i : Cut(later, n, i) = Cut(of, n, i)
  BY <1>1 DEF Count, Cut
<1>3. ASSUME NEW f, Known(f, of)  PROVE Known(f, later)
  <2>1. f.frame \in 1 .. Len(of) /\ f.piece \in 1 .. Count(of, f.frame) /\ f = Cut(of, f.frame, f.piece)
    BY <1>3 DEF Known
  <2>2. f.frame \in 1 .. Len(later) /\ Count(later, f.frame) = Count(of, f.frame)
        /\ Cut(later, f.frame, f.piece) = Cut(of, f.frame, f.piece)
    BY <1>1, <1>2, <2>1
  <2> QED BY <2>1, <2>2 DEF Known
<1> QED BY <1>1, <1>2, <1>3

LEMMA SizeAdded ==
    ASSUME NEW of \in Seq(Sizes), NEW size \in Sizes
    PROVE  /\ Append(of, size) \in Seq(Sizes) /\ Len(Append(of, size)) = Len(of) + 1 /\ Len(of) \in Nat
           /\ Append(of, size)[Len(of) + 1] = size /\ Longer(Append(of, size), of)
<1>1. /\ Append(of, size) \in Seq(Sizes) /\ Len(Append(of, size)) = Len(of) + 1 /\ Len(of) \in Nat
      /\ Append(of, size)[Len(of) + 1] = size
      /\ \A n \in 1 .. Len(of) : Append(of, size)[n] = of[n]
    OBVIOUS
<1>2. \A n \in 1 .. Len(of) : n \in 1 .. Len(Append(of, size))
  BY <1>1
<1> QED BY <1>1, <1>2 DEF Longer

\* Nothing has come of a frame that is not written yet.
LEMMA NotYetCome ==
    ASSUME VideoShape, NEW later, Longer(later, sizes),
           NEW n, NEW k \in Nat \ {0}, CameLast(arrived, later, n, k)
    PROVE  n \in 1 .. Len(sizes) /\ CameLast(arrived, sizes, n, k)
<1>1. /\ Len(arrived) \in Nat /\ Len(arrived) >= k
      /\ arrived[Len(arrived) - k + 1] = Cut(later, n, 1)
      /\ Len(arrived) - k + 1 \in 1 .. Len(arrived)
  BY DEF VideoShape, CameLast
<1>2. n \in 1 .. Len(sizes)
  <2>1. Known(Cut(later, n, 1), sizes)
    BY <1>1 DEF VideoShape
  <2> QED BY <2>1 DEF Known, Cut
<1>3. \A i : Cut(later, n, i) = Cut(sizes, n, i)
  BY <1>2, FrameMore
<1> QED BY <1>2, <1>3 DEF CameLast

\* What is written changes nothing of what has come.
LEMMA WriteKeeps ==
    ASSUME VideoShape, Collecting, Showing, WriteFrame
    PROVE  VideoShape' /\ Collecting' /\ Showing'
<1> PICK size \in Sizes : /\ sizes' = Append(sizes, size)
                          /\ underway' = underway \o Fragments(Len(sizes) + 1, size)
  BY DEF WriteFrame, Sizes
<1>1. UNCHANGED <<mishaps, packetBuffer, frames, readFrames, arrived>>
  BY DEF WriteFrame
<1>2. /\ sizes \in Seq(Sizes) /\ sizes' \in Seq(Sizes) /\ Len(sizes') = Len(sizes) + 1 /\ Len(sizes) \in Nat
      /\ sizes'[Len(sizes) + 1] = size
      /\ \A n \in 1 .. Len(sizes) :
           /\ n \in 1 .. Len(sizes') /\ sizes'[n] = sizes[n] /\ Count(sizes', n) = Count(sizes, n)
           /\ \A i : Cut(sizes', n, i) = Cut(sizes, n, i)
      /\ \A f : Known(f, sizes) => Known(f, sizes')
      /\ Longer(sizes', sizes)
  <2>1. sizes \in Seq(Sizes)
    BY DEF VideoShape
  <2>2. /\ sizes' \in Seq(Sizes) /\ Len(sizes') = Len(sizes) + 1 /\ Len(sizes) \in Nat
        /\ sizes'[Len(sizes) + 1] = size /\ Longer(sizes', sizes)
    <3>1. sizes' = Append(sizes, size)
        OBVIOUS
    <3>2. /\ Append(sizes, size) \in Seq(Sizes) /\ Len(Append(sizes, size)) = Len(sizes) + 1
          /\ Len(sizes) \in Nat /\ Append(sizes, size)[Len(sizes) + 1] = size
          /\ Longer(Append(sizes, size), sizes)
      BY ONLY <2>1, size \in Sizes, SizeAdded, Zenon
    <3> QED BY ONLY <3>1, <3>2, Zenon
  <2> QED BY <2>1, <2>2, FrameMore
<1>3. /\ \A n \in 1 .. Len(sizes') : Count(sizes', n) \in Nat \ {0}
      /\ Len(sizes) + 1 \in 1 .. Len(sizes')
  <2>1. \A n \in 1 .. Len(sizes') : Count(sizes', n) \in 1 .. MostPieces /\ MostPieces \in Nat
    BY <1>2, FragmentsAre
  <2> QED BY <1>2, <2>1
<1>4. VideoShape'
  <2> DEFINE written == Fragments(Len(sizes) + 1, size)
             all == underway \o written
  <2>1. /\ written \in Seq(Fragment) /\ Len(written) = Count(sizes', Len(sizes) + 1)
        /\ \A i \in 1 .. Count(sizes', Len(sizes) + 1) :
             /\ written[i] = Cut(sizes', Len(sizes) + 1, i)
             /\ Known(Cut(sizes', Len(sizes) + 1, i), sizes')
    <3> DEFINE n == Len(sizes) + 1
    <3>1. n \in 1 .. Len(sizes') /\ written = Fragments(n, sizes'[n]) /\ sizes' \in Seq(Sizes)
      BY <1>2, <1>3
    <3> HIDE DEF n, written
    <3>2. /\ Fragments(n, sizes'[n]) \in Seq(Fragment) /\ Len(Fragments(n, sizes'[n])) = Count(sizes', n)
          /\ \A i \in 1 .. Count(sizes', n) :
               Fragments(n, sizes'[n])[i] = Cut(sizes', n, i) /\ Known(Cut(sizes', n, i), sizes')
      <4>1. n \in 1 .. Len(sizes') /\ sizes' \in Seq(Sizes)
        BY <3>1
      <4> QED BY ONLY <4>1, FragmentsAre, Zenon
    <3> QED BY <3>1, <3>2, Zenon DEF n
  <2> HIDE DEF written
  <2>2. underway \in Seq(Fragment) /\ \A i \in 1 .. Len(underway) : Known(underway[i], sizes')
    BY <1>2 DEF VideoShape
  <2>3. /\ all \in Seq(Fragment) /\ Len(all) = Len(underway) + Len(written)
        /\ \A i \in 1 .. Len(underway) + Len(written) :
             all[i] = IF i <= Len(underway) THEN underway[i] ELSE written[i - Len(underway)]
    BY <2>1, <2>2, ConcatProperties
  <2> HIDE DEF all
  <2>4. Len(underway) \in Nat /\ Len(written) \in Nat
    BY <2>1, <2>2
  <2>5. ASSUME NEW i \in 1 .. Len(all)  PROVE Known(all[i], sizes')
    <3>1. CASE i <= Len(underway)
      BY <2>2, <2>3, <2>4, <3>1
    <3>2. CASE ~(i <= Len(underway))
      <4>1. i - Len(underway) \in 1 .. Len(written) /\ all[i] = written[i - Len(underway)]
        BY <2>3, <2>4, <3>2
      <4> QED BY <2>1, <4>1
    <3> QED BY <3>1, <3>2
  <2>6. underway' = all
    BY DEF all, written
  <2>7. \A i \in 1 .. Len(arrived) : Known(arrived[i], sizes')
    BY <1>2 DEF VideoShape
  <2> QED BY <1>1, <1>2, <2>3, <2>5, <2>6, <2>7 DEF VideoShape
<1>5. Collecting'
  <2> SUFFICES ASSUME NEW n \in 1 .. Len(sizes'), NEW k \in 1 .. Count(sizes', n) - 1,
                      CameLast(arrived', sizes', n, k)
               PROVE  Begun(packetBuffer', sizes', n, k)
    BY DEF Collecting
  <2>1. k \in Nat \ {0} /\ n \in 1 .. Len(sizes) + 1
    BY <1>2, <1>3
  <2>2. CameLast(arrived, sizes', n, k)
    BY <1>1 DEF CameLast
  <2>3. n \in 1 .. Len(sizes) /\ CameLast(arrived, sizes, n, k)
    BY <1>2, <2>1, <2>2, NotYetCome
  <2>4. k \in 1 .. Count(sizes, n) - 1 /\ \A i : Cut(sizes', n, i) = Cut(sizes, n, i)
    BY <1>2, <2>3
  <2>5. Begun(packetBuffer, sizes, n, k)
    BY <2>3, <2>4 DEF Collecting
  <2> QED BY <1>1, <2>4, <2>5 DEF Begun
<1>6. Showing'
  <2> SUFFICES ASSUME NEW n \in 1 .. Len(sizes'), CameLast(arrived', sizes', n, Count(sizes', n))
               PROVE  Among(readFrames', Fragments(n, sizes'[n])) \/ Among(frames', Fragments(n, sizes'[n]))
    BY DEF Showing
  <2> DEFINE k == Count(sizes', n)
  <2>1. k \in Nat \ {0} /\ n \in 1 .. Len(sizes) + 1
    BY <1>2, <1>3
  <2>2. CameLast(arrived, sizes', n, k)
    BY <1>1 DEF CameLast
  <2> HIDE DEF k
  <2>3. n \in 1 .. Len(sizes) /\ CameLast(arrived, sizes, n, k)
    BY <1>2, <2>1, <2>2, NotYetCome
  <2>4. k = Count(sizes, n) /\ sizes'[n] = sizes[n]
    BY <1>2, <2>3 DEF k
  <2>5. Among(readFrames, Fragments(n, sizes[n])) \/ Among(frames, Fragments(n, sizes[n]))
    BY <2>3, <2>4 DEF Showing
  <2> QED BY <1>1, <2>4, <2>5
<1> QED BY <1>4, <1>5, <1>6

\* A fragment that is handled: it begins anew or goes behind what there is, and the last one
\* behind all before it makes the frame.
LEMMA PacketHandled ==
    ASSUME VideoShape, NEW i \in 1 .. Len(underway), HandlePacket(i), NEW f, f = underway[i],
           NEW n, n = f.frame
    PROVE  /\ f \in Fragment /\ Known(f, sizes) /\ n \in 1 .. Len(sizes)
           /\ packetBuffer' \in Seq(Fragment)
           /\ f.piece # Count(sizes, n) =>
                /\ frames' = frames
                /\ packetBuffer' = IF f.piece = 1 THEN <<f>> ELSE Append(packetBuffer, f)
           /\ f.piece = Count(sizes, n) =>
                /\ packetBuffer' = << >>
                /\ Count(sizes, n) = 1 \/ Begun(packetBuffer, sizes, n, Count(sizes, n) - 1) =>
                     frames' = Append(frames, Fragments(n, sizes[n]))
           /\ frames' = frames \/ \E s \in Seq(Fragment) : frames' = Append(frames, s)
<1> DEFINE c == Count(sizes, n)
           s == Collected(f)
<1>1. f \in Fragment /\ Known(f, sizes) /\ sizes \in Seq(Sizes) /\ packetBuffer \in Seq(Fragment)
  BY DEF VideoShape
<1>2. n \in 1 .. Len(sizes) /\ f.piece \in 1 .. c /\ f = Cut(sizes, n, f.piece)
  BY <1>1 DEF Known
<1>3. /\ c \in Nat /\ c > 0
      /\ Fragments(n, sizes[n]) \in Seq(Fragment) /\ Len(Fragments(n, sizes[n])) = c
      /\ \A j \in 1 .. c : Fragments(n, sizes[n])[j] = Cut(sizes, n, j)
      /\ f.type = IF c = 1 THEN "no" ELSE IF f.piece = 1 THEN "start" ELSE IF f.piece = c THEN "end" ELSE "middle"
  <2>1. /\ c \in 1 .. MostPieces /\ MostPieces \in Nat
        /\ Fragments(n, sizes[n]) \in Seq(Fragment) /\ Len(Fragments(n, sizes[n])) = c
        /\ \A j \in 1 .. c : Fragments(n, sizes[n])[j] = Cut(sizes, n, j)
        /\ Cut(sizes, n, f.piece).type = IF c = 1 THEN "no" ELSE IF f.piece = 1 THEN "start"
                                         ELSE IF f.piece = c THEN "end" ELSE "middle"
    BY <1>1, <1>2, FragmentsAre
  <2> QED BY <1>2, <2>1
<1> HIDE DEF c
<1>4. (f.type \in {"no", "end"} <=> f.piece = c) /\ (f.type \in {"no", "start"} <=> f.piece = 1)
  BY <1>2, <1>3
<1>5. s = IF f.piece = 1 THEN <<f>> ELSE Append(packetBuffer, f)
  <2>1. s = IF f.type \in {"no", "start"} THEN <<f>> ELSE Append(packetBuffer, f)
    BY Zenon DEF Collected
  <2> QED BY <1>4, <2>1
<1> HIDE DEF s
<1>6. s \in Seq(Fragment)
  <2>1. <<f>> \in Seq(Fragment) /\ Append(packetBuffer, f) \in Seq(Fragment)
    BY <1>1
  <2> QED BY <1>5, <2>1
<1>7. /\ packetBuffer' = IF f.piece = c THEN << >> ELSE s
      /\ IF f.piece = c THEN Decode(s) ELSE UNCHANGED frames
  <2>1. /\ packetBuffer' = IF f.type \in {"no", "end"} THEN << >> ELSE s
        /\ IF f.type \in {"no", "end"} THEN Decode(s) ELSE UNCHANGED frames
    BY Zenon DEF HandlePacket, s
  <2> QED BY <1>4, <2>1
<1>8. frames' = frames \/ \E t \in Seq(Fragment) : frames' = Append(frames, t)
  BY <1>6, <1>7 DEF Decode
<1>9. ASSUME f.piece = c, c = 1 \/ Begun(packetBuffer, sizes, n, c - 1)
      PROVE  frames' = Append(frames, Fragments(n, sizes[n]))
  <2>1. Len(s) = c /\ \A j \in 1 .. c : s[j] = Cut(sizes, n, j)
    <3>1. CASE c = 1
      <4>1. s = <<f>> /\ f = Cut(sizes, n, 1)
        BY <1>2, <1>5, <1>9, <3>1
      <4> HIDE DEF c
      <4>2. Len(s) = 1 /\ s[1] = f
        BY <4>1
      <4> QED BY <3>1, <4>1, <4>2
    <3>2. CASE c # 1
      <4>1. /\ s = Append(packetBuffer, f) /\ Len(packetBuffer) = c - 1
            /\ \A j \in 1 .. c - 1 : packetBuffer[j] = Cut(sizes, n, j)
        BY <1>5, <1>9, <3>2 DEF Begun
      <4>2. Len(s) = c /\ s[c] = f /\ \A j \in 1 .. c - 1 : s[j] = packetBuffer[j]
        BY <1>1, <1>3, <4>1
      <4>3. ASSUME NEW j \in 1 .. c  PROVE s[j] = Cut(sizes, n, j)
        <5>1. CASE j = c
          BY <1>2, <1>9, <4>2, <5>1
        <5>2. CASE j # c
          <6>1. j \in 1 .. c - 1
            BY <1>3, <5>2
          <6> QED BY <4>1, <4>2, <6>1
        <5> QED BY <5>1, <5>2
      <4> QED BY <4>2, <4>3
    <3> QED BY <3>1, <3>2
  <2> DEFINE w == Fragments(n, sizes[n])
  <2>2. w \in Seq(Fragment) /\ Len(w) = Len(s) /\ \A j \in 1 .. Len(s) : s[j] = w[j]
    BY <1>3, <2>1
  <2> HIDE DEF w
  <2>3. s = w
    BY <1>6, <2>2, SeqEqual
  <2>4. s # << >> /\ s[1].frame = n
    BY <1>3, <1>6, <2>1 DEF Cut
  <2>5. Whole(s)
    BY <2>3, <2>4 DEF Whole, w
  <2> QED BY <1>7, <1>9, <2>3, <2>5, Zenon DEF Decode, w
<1> QED BY <1>1, <1>2, <1>5, <1>6, <1>7, <1>8, <1>9 DEF c

\* What came last is as what came last before it, and the new one.
LEMMA LastButOne ==
    ASSUME NEW s, NEW t, NEW e, Moved(s, t, e), NEW of, NEW n, NEW k \in Nat \ {0}, CameLast(t, of, n, k)
    PROVE  e = Cut(of, n, k) /\ (k > 1 => CameLast(s, of, n, k - 1))
<1> DEFINE l == Len(t)
           r == Len(s)
<1>1. l \in Nat /\ r \in Nat /\ l >= k /\ l <= r + 1 /\ k \in Nat /\ k > 0
  BY DEF CameLast, Moved
<1>2. \A i \in 1 .. k : t[l - k + i] = Cut(of, n, i)
  BY DEF CameLast
<1>3. t[l] = e /\ \A j \in 1 .. l - 1 : t[j] = s[r - l + 1 + j]
  BY DEF Moved
<1> HIDE DEF l, r
<1>4. e = Cut(of, n, k)
  <2>1. k \in 1 .. k /\ l - k + k = l
    BY <1>1
  <2> QED BY <1>2, <1>3, <2>1
<1>5. ASSUME NEW i \in 1 .. k - 1  PROVE s[r - (k - 1) + i] = Cut(of, n, i)
  <2>1. i \in 1 .. k /\ l - k + i \in 1 .. l - 1 /\ r - l + 1 + (l - k + i) = r - (k - 1) + i
    BY <1>1
  <2>2. t[l - k + i] = s[r - l + 1 + (l - k + i)]
    BY <1>3, <2>1
  <2> QED BY <1>2, <2>1, <2>2
<1> QED BY <1>1, <1>4, <1>5 DEF CameLast, r

\* What has come when one more is handled.
LEMMA OneMoreCame ==
    ASSUME VideoShape, NEW i \in 1 .. Len(underway), HandlePacket(i)
    PROVE  /\ arrived' \in Seq(Fragment) /\ Len(arrived') <= MostPieces
           /\ Moved(arrived, arrived', underway[i])
<1> DEFINE e == underway[i]
<1>1. arrived \in Seq(Fragment) /\ e \in Fragment /\ Len(arrived) <= MostPieces
  BY DEF VideoShape
<1>2. MostPieces \in Nat \ {0}
  BY VideoAssumption, PiecesSuffice DEF MostPieces
<1>3. arrived' = Newest(arrived, e, MostPieces)
  BY DEF HandlePacket, Newest
<1> HIDE DEF e
<1>4. /\ Newest(arrived, e, MostPieces) \in Seq(Fragment) /\ Len(Newest(arrived, e, MostPieces)) <= MostPieces
      /\ Moved(arrived, Newest(arrived, e, MostPieces), e)
  BY ONLY <1>1, <1>2, OneMore, Zenon
<1> QED BY <1>3, <1>4, Zenon DEF e

\* Whatever fragment is handled, what is put together is what came last of a frame.
LEMMA HandleKeeps ==
    ASSUME VideoShape, Collecting, Showing, NEW i \in 1 .. Len(underway), HandlePacket(i), mishaps' \in Nat
    PROVE  VideoShape' /\ Collecting' /\ Showing'
<1> DEFINE f == underway[i]
           n0 == f.frame
<1>1. /\ sizes' = sizes /\ readFrames' = readFrames /\ underway' = RemoveAt(underway, i)
      /\ sizes \in Seq(Sizes) /\ underway \in Seq(Fragment) /\ arrived \in Seq(Fragment)
      /\ packetBuffer \in Seq(Fragment) /\ frames \in Seq(Seq(Fragment)) /\ readFrames \in Seq(Seq(Fragment))
  BY DEF HandlePacket, VideoShape
<1>2. /\ f \in Fragment /\ Known(f, sizes) /\ n0 \in 1 .. Len(sizes) /\ packetBuffer' \in Seq(Fragment)
      /\ f.piece # Count(sizes, n0) =>
           /\ frames' = frames
           /\ packetBuffer' = IF f.piece = 1 THEN <<f>> ELSE Append(packetBuffer, f)
      /\ f.piece = Count(sizes, n0) =>
           /\ packetBuffer' = << >>
           /\ Count(sizes, n0) = 1 \/ Begun(packetBuffer, sizes, n0, Count(sizes, n0) - 1) =>
                frames' = Append(frames, Fragments(n0, sizes[n0]))
      /\ frames' = frames \/ \E s \in Seq(Fragment) : frames' = Append(frames, s)
  BY PacketHandled
<1>3. arrived' \in Seq(Fragment) /\ Len(arrived') <= MostPieces /\ Moved(arrived, arrived', f)
  BY OneMoreCame
<1> HIDE DEF f, n0
<1>4. VideoShape'
  <2>1. /\ underway' \in Seq(Fragment)
        /\ \A j \in 1 .. Len(underway') : Known(underway'[j], sizes)
    <3>1. /\ RemoveAt(underway, i) \in Seq(Fragment) /\ Len(RemoveAt(underway, i)) = Len(underway) - 1
          /\ \A j \in 1 .. Len(underway) - 1 :
               RemoveAt(underway, i)[j] = IF j < i THEN underway[j] ELSE underway[j + 1]
      BY <1>1, Without
    <3>2. /\ underway' \in Seq(Fragment) /\ Len(underway') = Len(underway) - 1
          /\ \A j \in 1 .. Len(underway) - 1 :
               underway'[j] = IF j < i THEN underway[j] ELSE underway[j + 1]
      BY <1>1, <3>1
    <3>3. Len(underway) \in Nat /\ \A j \in 1 .. Len(underway) : Known(underway[j], sizes)
      BY DEF VideoShape
    <3>4. ASSUME NEW j \in 1 .. Len(underway')  PROVE Known(underway'[j], sizes)
      <4>1. j \in 1 .. Len(underway) - 1 /\ j \in 1 .. Len(underway) /\ j + 1 \in 1 .. Len(underway)
        BY <3>2, <3>3
      <4> QED BY <3>2, <3>3, <4>1
    <3> QED BY <3>2, <3>4
  <2>2. \A j \in 1 .. Len(arrived') : Known(arrived'[j], sizes)
    <3> TAKE j \in 1 .. Len(arrived')
    <3>1. CASE j = Len(arrived')
      BY <1>2, <1>3, <3>1 DEF Moved
    <3>2. CASE j # Len(arrived')
      <4>1. j \in 1 .. Len(arrived') - 1
        BY <1>3, <3>2 DEF Moved
      <4>2. \A l \in 1 .. Len(arrived) : Known(arrived[l], sizes)
        BY DEF VideoShape
      <4> QED BY <1>3, <4>1, <4>2 DEF Moved
    <3> QED BY <3>1, <3>2
  <2>3. frames' \in Seq(Seq(Fragment))
    <3>1. CASE frames' = frames
      BY <1>1, <3>1
    <3>2. ASSUME NEW s \in Seq(Fragment), frames' = Append(frames, s)  PROVE frames' \in Seq(Seq(Fragment))
      <4>1. frames \in Seq(Seq(Fragment))
        BY <1>1
      <4> QED BY ONLY <3>2, <4>1, AppendProperties, Zenon
    <3> QED BY <1>2, <3>1, <3>2
  <2> QED BY <1>1, <1>2, <1>3, <2>1, <2>2, <2>3 DEF VideoShape
<1>5. ASSUME NEW n \in 1 .. Len(sizes), NEW k \in 1 .. Count(sizes, n), CameLast(arrived', sizes, n, k)
      PROVE  /\ k \in Nat \ {0} /\ Count(sizes, n) \in Nat
             /\ f = Cut(sizes, n, k) /\ n0 = n /\ f.piece = k
             /\ k > 1 => Begun(packetBuffer, sizes, n, k - 1)
  <2>1. Count(sizes, n) \in Nat /\ k \in Nat \ {0}
    <3>1. Count(sizes, n) \in 1 .. MostPieces /\ MostPieces \in Nat
      BY <1>1, FragmentsAre
    <3> QED BY <3>1
  <2>2. f = Cut(sizes, n, k) /\ (k > 1 => CameLast(arrived, sizes, n, k - 1))
    BY <1>3, <1>5, <2>1, LastButOne
  <2>3. n0 = n /\ f.piece = k
    BY <2>2 DEF n0, Cut
  <2>4. k > 1 => Begun(packetBuffer, sizes, n, k - 1)
    <3> HAVE k > 1
    <3>1. k - 1 \in 1 .. Count(sizes, n) - 1
      BY <1>5, <2>1
    <3> QED BY <2>2, <3>1 DEF Collecting
  <2> QED BY <2>1, <2>2, <2>3, <2>4
<1>6. Collecting'
  <2> SUFFICES ASSUME NEW n \in 1 .. Len(sizes), NEW k \in 1 .. Count(sizes, n) - 1,
                      CameLast(arrived', sizes, n, k)
               PROVE  Begun(packetBuffer', sizes, n, k)
    BY <1>1 DEF Collecting
  <2>1. k \in 1 .. Count(sizes, n)
    <3>1. Count(sizes, n) \in 1 .. MostPieces /\ MostPieces \in Nat
      BY <1>1, FragmentsAre
    <3> QED BY <3>1
  <2>2. /\ k \in Nat \ {0} /\ Count(sizes, n) \in Nat /\ k # Count(sizes, n)
        /\ f = Cut(sizes, n, k) /\ n0 = n /\ f.piece = k
        /\ k > 1 => Begun(packetBuffer, sizes, n, k - 1)
    <3>1. /\ k \in Nat \ {0} /\ Count(sizes, n) \in Nat
          /\ f = Cut(sizes, n, k) /\ n0 = n /\ f.piece = k
          /\ k > 1 => Begun(packetBuffer, sizes, n, k - 1)
      BY <1>5, <2>1
    <3> QED BY <3>1
  <2>3. packetBuffer' = IF k = 1 THEN <<f>> ELSE Append(packetBuffer, f)
    BY <1>2, <2>2
  <2>4. CASE k = 1
    <3>1. packetBuffer' = <<f>>
      BY <2>3, <2>4
    <3>2. Len(packetBuffer') = 1 /\ packetBuffer'[1] = f
      BY <3>1
    <3> QED BY <2>2, <2>4, <3>2 DEF Begun
  <2>5. CASE k # 1
    <3>1. packetBuffer' = Append(packetBuffer, f) /\ k > 1
      BY <2>2, <2>3, <2>5
    <3>2. Len(packetBuffer) = k - 1 /\ \A j \in 1 .. k - 1 : packetBuffer[j] = Cut(sizes, n, j)
      BY <2>2, <3>1 DEF Begun
    <3>3. Len(packetBuffer') = k /\ packetBuffer'[k] = f /\ \A j \in 1 .. k - 1 : packetBuffer'[j] = packetBuffer[j]
      BY <1>1, <2>2, <3>1, <3>2
    <3>4. ASSUME NEW j \in 1 .. k  PROVE packetBuffer'[j] = Cut(sizes, n, j)
      <4>1. CASE j = k
        BY <2>2, <3>3, <4>1
      <4>2. CASE j # k
        <5>1. j \in 1 .. k - 1
          BY <2>2, <4>2
        <5> QED BY <3>2, <3>3, <5>1
      <4> QED BY <4>1, <4>2
    <3> QED BY <3>3, <3>4 DEF Begun
  <2> QED BY <2>4, <2>5
<1>7. Showing'
  <2> SUFFICES ASSUME NEW n \in 1 .. Len(sizes), CameLast(arrived', sizes, n, Count(sizes, n))
               PROVE  Among(frames', Fragments(n, sizes[n]))
    BY <1>1 DEF Showing
  <2> DEFINE c == Count(sizes, n)
  <2>1. c \in 1 .. c /\ CameLast(arrived', sizes, n, c)
    <3>1. c \in 1 .. MostPieces /\ MostPieces \in Nat
      BY <1>1, FragmentsAre
    <3> QED BY <3>1
  <2>2. n0 = n /\ f.piece = c /\ c \in Nat \ {0} /\ (c > 1 => Begun(packetBuffer, sizes, n, c - 1))
    BY <1>5, <2>1
  <2>3. frames' = Append(frames, Fragments(n, sizes[n]))
    <3>1. c = 1 \/ c > 1
      BY <2>2
    <3> QED BY <1>2, <2>2, <3>1
  <2>4. Len(frames') = Len(frames) + 1 /\ Len(frames) \in Nat /\ frames'[Len(frames) + 1] = Fragments(n, sizes[n])
    <3>1. Fragments(n, sizes[n]) \in Seq(Fragment)
      BY <1>1, FragmentsAre
    <3> QED BY <1>1, <2>3, <3>1
  <2>5. Len(frames') \in 1 .. Len(frames') /\ frames'[Len(frames')] = Fragments(n, sizes[n])
    BY <2>4
  <2> QED BY <2>5 DEF Among
<1> QED BY <1>4, <1>6, <1>7

-----------------------------------------------------------------------------
(* Pictures: without a mishap everything is on its way in its order. *)

Follows(of, f, g) ==
  IF f.piece = Count(of, f.frame) THEN g.frame = f.frame + 1 /\ g.piece = 1
  ELSE g.frame = f.frame /\ g.piece = f.piece + 1

\* Some frames are shown, the next is put together, and what is under way goes on from there,
\* piece after piece, up to the last piece of the last frame.
Place(shown, buffer, way, of) ==
  /\ Len(shown) <= Len(of) /\ \A j \in 1 .. Len(shown) : shown[j] = Fragments(j, of[j])
  /\ \A i \in 1 .. Len(buffer) : buffer[i] = Cut(of, Len(shown) + 1, i)
  /\ Len(way) = 0 => Len(shown) = Len(of) /\ Len(buffer) = 0
  /\ Len(way) # 0 =>
       /\ way[1].frame = Len(shown) + 1 /\ way[1].piece = Len(buffer) + 1
       /\ way[Len(way)].frame = Len(of) /\ way[Len(way)].piece = Count(of, Len(of))
  /\ \A j \in 1 .. Len(way) - 1 : Follows(of, way[j], way[j + 1])

InOrder == mishaps = 0 => Place(readFrames \o frames, packetBuffer, underway, sizes)

\* What is shown.
LEMMA ShownMore ==
    ASSUME VideoShape
    PROVE  /\ readFrames \o frames \in Seq(Seq(Fragment))
           /\ Len(readFrames \o frames) = Len(readFrames) + Len(frames)
           /\ \A i \in 1 .. Len(readFrames) + Len(frames) :
                (readFrames \o frames)[i] = IF i <= Len(readFrames) THEN readFrames[i]
                                            ELSE frames[i - Len(readFrames)]
           /\ \A x \in Seq(Fragment) :
                /\ readFrames \o Append(frames, x) \in Seq(Seq(Fragment))
                /\ readFrames \o Append(frames, x) = Append(readFrames \o frames, x)
           /\ (readFrames \o frames) \o << >> = readFrames \o frames
<1> DEFINE S == Seq(Fragment)
<1>1. readFrames \in Seq(S) /\ frames \in Seq(S)
  BY DEF VideoShape
<1> HIDE DEF S
<1>2. /\ readFrames \o frames \in Seq(S)
      /\ Len(readFrames \o frames) = Len(readFrames) + Len(frames)
      /\ \A i \in 1 .. Len(readFrames) + Len(frames) :
           (readFrames \o frames)[i] = IF i <= Len(readFrames) THEN readFrames[i]
                                       ELSE frames[i - Len(readFrames)]
  BY <1>1, ConcatProperties
<1>3. ASSUME NEW x \in S
      PROVE  /\ readFrames \o Append(frames, x) \in Seq(S)
             /\ readFrames \o Append(frames, x) = Append(readFrames \o frames, x)
  <2>1. <<x>> \in Seq(S)
    BY <1>3
  <2>2. Append(frames, x) = frames \o <<x>>
    BY ONLY <1>1, <1>3, AppendIsConcat, Zenon
  <2>3. Append(readFrames \o frames, x) = (readFrames \o frames) \o <<x>>
    BY ONLY <1>2, <1>3, AppendIsConcat, Zenon
  <2>4. (readFrames \o frames) \o <<x>> = readFrames \o (frames \o <<x>>)
    BY <1>1, <2>1, ConcatAssociative
  <2>5. Append(readFrames \o frames, x) \in Seq(S)
    BY ONLY <1>2, <1>3, AppendProperties, Zenon
  <2> QED BY ONLY <2>2, <2>3, <2>4, <2>5, Zenon
<1>4. (readFrames \o frames) \o << >> = readFrames \o frames
  BY ONLY <1>2, ConcatEmptySeq, Zenon
<1> QED BY <1>2, <1>3, <1>4 DEF S

\* A frame that is written goes behind all that is under way.
LEMMA WriteInOrder ==
    ASSUME NEW of \in Seq(Sizes), NEW later \in Seq(Sizes), Longer(later, of), Len(later) = Len(of) + 1,
           NEW way \in Seq(Fragment), \A i \in 1 .. Len(way) : Known(way[i], of),
           NEW shown, NEW buffer \in Seq(Fragment), Len(shown) \in Nat, Place(shown, buffer, way, of),
           NEW all, all = way \o Fragments(Len(later), later[Len(later)])
    PROVE  Place(shown, buffer, all, later)
<1> DEFINE n == Len(later)
           written == Fragments(n, later[n])
           c == Count(later, n)
           w == Len(way)
           m == Len(shown)
<1>1. Len(of) \in Nat /\ n = Len(of) + 1 /\ n \in 1 .. Len(later) /\ w \in Nat /\ m \in Nat
    OBVIOUS
<1>2. /\ written \in Seq(Fragment) /\ Len(written) = c /\ c \in Nat \ {0}
      /\ \A i \in 1 .. c : written[i] = Cut(later, n, i)
  <2>1. /\ written \in Seq(Fragment) /\ Len(written) = c /\ c \in 1 .. MostPieces /\ MostPieces \in Nat
        /\ \A i \in 1 .. c : written[i] = Cut(later, n, i)
    <3>1. later \in Seq(Sizes) /\ n \in 1 .. Len(later)
      BY <1>1
    <3>2. /\ Fragments(n, later[n]) \in Seq(Fragment) /\ Len(Fragments(n, later[n])) = Count(later, n)
          /\ Count(later, n) \in 1 .. MostPieces /\ MostPieces \in Nat
          /\ \A i \in 1 .. Count(later, n) : Fragments(n, later[n])[i] = Cut(later, n, i)
      <4> HIDE DEF n
      <4>1. later \in Seq(Sizes) /\ n \in 1 .. Len(later)
        BY <3>1
      <4>2. Fragments(n, later[n]) \in Seq(Fragment) /\ Len(Fragments(n, later[n])) = Count(later, n)
        BY ONLY <4>1, FragmentsAre
      <4>3. Count(later, n) \in 1 .. MostPieces /\ MostPieces \in Nat
        BY ONLY <4>1, FragmentsAre
      <4>4. ASSUME NEW i \in 1 .. Count(later, n)  PROVE Fragments(n, later[n])[i] = Cut(later, n, i)
        BY ONLY <4>1, <4>4, FragmentsAre
      <4> QED BY <4>2, <4>3, <4>4
    <3> QED BY <3>2
  <2> QED BY <2>1
<1> HIDE DEF written, c, w, n
<1>3. Len(all) = w + c /\ \A i \in 1 .. w + c : all[i] = IF i <= w THEN way[i] ELSE Cut(later, n, i - w)
  <2>1. /\ Len(all) = Len(way) + Len(written)
        /\ \A i \in 1 .. Len(way) + Len(written) : all[i] = IF i <= Len(way) THEN way[i] ELSE written[i - Len(way)]
    <3>1. all = way \o written
      BY DEF written, n
    <3>2. /\ Len(way \o written) = Len(way) + Len(written)
          /\ \A i \in 1 .. Len(way) + Len(written) :
               (way \o written)[i] = IF i <= Len(way) THEN way[i] ELSE written[i - Len(way)]
      BY <1>2, ConcatProperties
    <3> QED BY <3>1, <3>2
  <2>2. ASSUME NEW i \in 1 .. w + c, ~(i <= w)  PROVE written[i - w] = Cut(later, n, i - w)
    <3>1. i - w \in 1 .. c
      BY <1>1, <1>2, <2>2
    <3> QED BY <1>2, <3>1
  <2> QED BY <1>2, <2>1, <2>2 DEF w
<1>4. /\ \A j \in 1 .. Len(of) :
           /\ later[j] = of[j] /\ Count(later, j) = Count(of, j) /\ \A i : Cut(later, j, i) = Cut(of, j, i)
  BY FrameMore
<1>5. \A j \in 1 .. w : way[j].frame \in 1 .. Len(of)
  BY DEF Known, w
<1>6. Len(shown) <= Len(later) /\ \A j \in 1 .. Len(shown) : shown[j] = Fragments(j, later[j])
  <2>1. Len(shown) <= Len(of) /\ \A j \in 1 .. Len(shown) : shown[j] = Fragments(j, of[j])
    BY DEF Place
  <2>2. \A j \in 1 .. Len(shown) : j \in 1 .. Len(of)
    BY <1>1, <2>1
  <2> QED BY <1>1, <1>4, <2>1, <2>2
<1>7. \A i \in 1 .. Len(buffer) : buffer[i] = Cut(later, Len(shown) + 1, i)
  <2>1. CASE w = 0
    <3>1. Len(buffer) = 0
      BY <2>1 DEF Place, w
    <3> QED BY <3>1
  <2>2. CASE w # 0
    <3>1. way[1].frame = m + 1 /\ 1 \in 1 .. w
      BY <1>1, <2>2 DEF Place, w
    <3>2. m + 1 \in 1 .. Len(of)
      BY <1>5, <3>1
    <3> QED BY <1>4, <3>2 DEF Place
  <2> QED BY <2>1, <2>2
<1>8. /\ Len(all) # 0 /\ all[1].frame = m + 1 /\ all[1].piece = Len(buffer) + 1
      /\ all[Len(all)].frame = Len(later) /\ all[Len(all)].piece = Count(later, Len(later))
  <2>1. Len(all) # 0 /\ 1 \in 1 .. w + c /\ Len(all) \in 1 .. w + c /\ Len(all) = w + c /\ ~(Len(all) <= w)
    BY <1>1, <1>2, <1>3
  <2>2. all[Len(all)] = Cut(later, n, c)
    <3>1. Len(all) - w = c
      BY <1>1, <1>2, <2>1
    <3> QED BY <1>3, <2>1, <3>1
  <2>3. all[Len(all)].frame = n /\ all[Len(all)].piece = c
    <3>1. Cut(later, n, c).frame = n
      BY CutFields
    <3>2. Cut(later, n, c).piece = c
      BY CutFields
    <3>3. all[Len(all)].frame = Cut(later, n, c).frame
      BY <2>2
    <3> QED BY <2>2, <3>1, <3>2
  <2>4. CASE w = 0
    <3>1. all[1] = Cut(later, n, 1) /\ m = Len(of) /\ Len(buffer) = 0
      <4>1. ~(1 <= w) /\ 1 - w = 1
        BY <2>4
      <4>2. m = Len(of) /\ Len(buffer) = 0
        BY <2>4 DEF Place, w
      <4> QED BY <1>3, <2>1, <4>1, <4>2
    <3>2. all[1].frame = n /\ all[1].piece = 1
      <4>1. Cut(later, n, 1).frame = n
        BY CutFields
      <4>2. Cut(later, n, 1).piece = 1
        BY CutFields
      <4> QED BY <3>1, <4>1, <4>2
    <3> QED BY <1>1, <2>1, <2>3, <3>1, <3>2 DEF n, c
  <2>5. CASE w # 0
    <3>1. all[1] = way[1]
      BY <1>1, <1>3, <2>1, <2>5
    <3>2. way[1].frame = m + 1 /\ way[1].piece = Len(buffer) + 1
      BY <2>5 DEF Place, w
    <3> QED BY <2>1, <2>3, <3>1, <3>2 DEF n, c
  <2> QED BY <2>4, <2>5
<1>9. ASSUME NEW j \in 1 .. Len(all) - 1  PROVE Follows(later, all[j], all[j + 1])
  <2>1. j \in Nat /\ j >= 1 /\ j + 1 \in 1 .. w + c /\ j \in 1 .. w + c
    BY <1>1, <1>2, <1>3
  <2>2. CASE j < w
    <3>1. j \in 1 .. w - 1 /\ j \in 1 .. w /\ j <= w /\ j + 1 <= w
      BY <1>1, <2>1, <2>2
    <3>2. all[j] = way[j] /\ all[j + 1] = way[j + 1]
      BY <1>3, <2>1, <3>1
    <3>3. Follows(of, way[j], way[j + 1]) /\ Count(later, way[j].frame) = Count(of, way[j].frame)
      BY <1>4, <1>5, <3>1 DEF Place, w
    <3> QED BY <3>2, <3>3 DEF Follows
  <2>3. CASE j = w
    <3>1. j <= w /\ ~(j + 1 <= w) /\ (j + 1) - w = 1 /\ w # 0 /\ w \in 1 .. w
      BY <1>1, <2>1, <2>3
    <3>2. all[j] = way[w] /\ all[j + 1] = Cut(later, n, 1)
      <4>1. all[j] = way[j] /\ all[j + 1] = Cut(later, n, (j + 1) - w)
        BY <1>3, <2>1, <3>1
      <4> QED BY <2>3, <3>1, <4>1
    <3>3. way[w].frame = Len(of) /\ way[w].piece = Count(of, Len(of)) /\ Len(of) \in 1 .. Len(of)
      BY <1>5, <3>1 DEF Place, w
    <3>4. way[w].piece = Count(later, way[w].frame)
      BY <1>4, <3>3
    <3>5. all[j + 1].frame = way[w].frame + 1 /\ all[j + 1].piece = 1
      BY <1>1, <3>2, <3>3 DEF Cut
    <3> QED BY <3>2, <3>4, <3>5 DEF Follows
  <2>4. CASE j > w
    <3>1. ~(j <= w) /\ ~(j + 1 <= w) /\ (j + 1) - w = (j - w) + 1 /\ j - w \in Nat /\ j - w # c
      BY <1>1, <1>2, <1>3, <2>1, <2>4
    <3>2. all[j] = Cut(later, n, j - w) /\ all[j + 1] = Cut(later, n, (j - w) + 1)
      <4>1. all[j] = Cut(later, n, j - w)
        BY <1>3, <2>1, <3>1
      <4>2. all[j + 1] = Cut(later, n, (j + 1) - w)
        <5> DEFINE l == j + 1
        <5>1. l \in 1 .. w + c /\ ~(l <= w)
          BY <2>1, <3>1
        <5> HIDE DEF l
        <5>2. all[l] = Cut(later, n, l - w)
          BY <1>3, <5>1
        <5> QED BY <2>1, <3>1, <5>2 DEF l
      <4> QED BY <3>1, <4>1, <4>2
    <3>3. /\ all[j].frame = n /\ all[j].piece = j - w /\ all[j + 1].frame = n /\ all[j + 1].piece = (j - w) + 1
      BY <3>2 DEF Cut
    <3>4. all[j].piece # Count(later, all[j].frame)
      BY <3>1, <3>3 DEF c
    <3> QED BY <3>3, <3>4 DEF Follows
  <2> QED BY <1>1, <2>1, <2>2, <2>3, <2>4
<1> QED BY <1>6, <1>7, <1>8, <1>9 DEF Place

\* A fragment that arrives in its turn is the next that is wanted.
LEMMA ArriveInOrder ==
    ASSUME NEW of \in Seq(Sizes), NEW way \in Seq(Fragment), \A i \in 1 .. Len(way) : Known(way[i], of),
           NEW shown \in Seq(Seq(Fragment)), NEW buffer \in Seq(Fragment), Place(shown, buffer, way, of),
           Len(way) # 0, NEW rest \in Seq(Fragment), Len(rest) = Len(way) - 1,
           \A j \in 1 .. Len(way) - 1 : rest[j] = way[j + 1]
    PROVE  LET f == way[1]
           IN  /\ f.piece # Count(of, f.frame) =>
                    Place(shown, IF f.piece = 1 THEN <<f>> ELSE Append(buffer, f), rest, of)
               /\ f.piece = Count(of, f.frame) =>
                    /\ Count(of, f.frame) = 1 \/ Begun(buffer, of, f.frame, Count(of, f.frame) - 1)
                    /\ Place(Append(shown, Fragments(f.frame, of[f.frame])), << >>, rest, of)
<1> DEFINE f == way[1]
           m == Len(shown)
           k == Len(buffer)
           w == Len(way)
           c == Count(of, m + 1)
<1>1. /\ m \in Nat /\ k \in Nat /\ w \in Nat /\ w > 0 /\ Len(of) \in Nat /\ m <= Len(of)
      /\ Len(rest) = w - 1
  BY DEF Place
<1>2. f.frame = m + 1 /\ f.piece = k + 1 /\ way[w].frame = Len(of) /\ way[w].piece = Count(of, Len(of))
  BY DEF Place
<1>3. /\ f = Cut(of, m + 1, k + 1) /\ m + 1 \in 1 .. Len(of) /\ k + 1 \in 1 .. c
      /\ f \in Fragment
  BY <1>1, <1>2 DEF Known
<1>4. c \in Nat /\ c >= k + 1 /\ Fragments(m + 1, of[m + 1]) \in Seq(Fragment)
  <2>1. c \in 1 .. MostPieces /\ MostPieces \in Nat /\ Fragments(m + 1, of[m + 1]) \in Seq(Fragment)
    BY <1>3, FragmentsAre
  <2> QED BY <1>1, <1>3, <2>1
<1>5. /\ \A j \in 1 .. m : shown[j] = Fragments(j, of[j])
      /\ \A i \in 1 .. k : buffer[i] = Cut(of, m + 1, i)
      /\ \A j \in 1 .. w - 1 : Follows(of, way[j], way[j + 1])
  BY DEF Place
<1> HIDE DEF c, w
<1>6. \A j \in 1 .. Len(rest) - 1 : Follows(of, rest[j], rest[j + 1])
  <2> TAKE j \in 1 .. Len(rest) - 1
  <2>1. j \in 1 .. w - 1 /\ j + 1 \in 1 .. w - 1
    BY <1>1
  <2>2. rest[j] = way[j + 1] /\ rest[j + 1] = way[(j + 1) + 1]
    BY <2>1 DEF w
  <2> QED BY <1>5, <2>1, <2>2
<1>7. Len(rest) # 0 => /\ rest[1] = way[2] /\ rest[Len(rest)] = way[w] /\ Follows(of, f, way[2])
                       /\ rest[Len(rest)].frame = Len(of) /\ rest[Len(rest)].piece = Count(of, Len(of))
  <2> HAVE Len(rest) # 0
  <2>1. 1 \in 1 .. w - 1 /\ w - 1 \in 1 .. w - 1 /\ 1 + 1 = 2 /\ (w - 1) + 1 = w
    BY <1>1
  <2>2. rest[1] = way[2] /\ rest[w - 1] = way[w]
    BY <2>1 DEF w
  <2>3. Follows(of, way[1], way[2])
    BY <1>5, <2>1
  <2> QED BY <1>1, <1>2, <2>2, <2>3
<1>8. Len(rest) = 0 => w = 1 /\ f.frame = Len(of) /\ f.piece = Count(of, Len(of))
  BY <1>1, <1>2
<1>9. ASSUME f.piece # c
      PROVE  Place(shown, IF f.piece = 1 THEN <<f>> ELSE Append(buffer, f), rest, of)
  <2> DEFINE b == IF f.piece = 1 THEN <<f>> ELSE Append(buffer, f)
  <2>1. Len(b) = k + 1 /\ \A i \in 1 .. k + 1 : b[i] = Cut(of, m + 1, i)
    <3>1. CASE f.piece = 1
      <4>1. b = <<f>> /\ k = 0
        BY <1>1, <1>2, <3>1
      <4>2. Len(b) = 1 /\ b[1] = f
        BY <4>1
      <4> HIDE DEF b
      <4> QED BY <1>3, <4>1, <4>2
    <3>2. CASE f.piece # 1
      <4>1. b = Append(buffer, f)
        BY <3>2
      <4> HIDE DEF b
      <4>2. Len(b) = k + 1 /\ b[k + 1] = f /\ \A i \in 1 .. k : b[i] = buffer[i]
        BY <1>3, <4>1
      <4> HIDE DEF k
      <4>3. ASSUME NEW i \in 1 .. k + 1  PROVE b[i] = Cut(of, m + 1, i)
        <5>1. CASE i = k + 1
          BY <1>3, <4>2, <5>1
        <5>2. CASE i # k + 1
          <6>1. i \in 1 .. k
            BY <1>1, <5>2
          <6> QED BY <1>5, <4>2, <6>1
        <5> QED BY <5>1, <5>2
      <4> QED BY <4>2, <4>3
    <3> QED BY <3>1, <3>2
  <2> HIDE DEF b
  <2>2. Len(rest) # 0
    BY <1>2, <1>8, <1>9 DEF c
  <2>3. rest[1].frame = m + 1 /\ rest[1].piece = (k + 1) + 1
    BY <1>2, <1>7, <1>9, <2>2 DEF Follows, c
  <2>4. Place(shown, b, rest, of)
    BY <1>1, <1>5, <1>6, <1>7, <2>1, <2>2, <2>3 DEF Place
  <2> QED BY <2>4 DEF b
<1>10. ASSUME f.piece = c
       PROVE  /\ c = 1 \/ Begun(buffer, of, m + 1, c - 1)
              /\ Place(Append(shown, Fragments(m + 1, of[m + 1])), << >>, rest, of)
  <2>1. c = k + 1
    BY <1>2, <1>10
  <2>2. Begun(buffer, of, m + 1, c - 1)
    <3>1. c - 1 = k
      BY <1>1, <2>1
    <3> QED BY <1>5, <3>1 DEF Begun
  <2> DEFINE s == Append(shown, Fragments(m + 1, of[m + 1]))
  <2>3. Len(s) = m + 1 /\ \A j \in 1 .. m + 1 : s[j] = Fragments(j, of[j])
    <3> DEFINE x == Fragments(m + 1, of[m + 1])
    <3>1. x \in Seq(Fragment)
      BY <1>4
    <3> HIDE DEF x
    <3>2. Len(s) = m + 1 /\ s[m + 1] = x /\ \A j \in 1 .. m : s[j] = shown[j]
      BY <3>1 DEF x
    <3> HIDE DEF s, m
    <3>3. ASSUME NEW j \in 1 .. m + 1  PROVE s[j] = Fragments(j, of[j])
      <4>1. CASE j = m + 1
        BY <3>2, <4>1 DEF x
      <4>2. CASE j # m + 1
        <5>1. j \in 1 .. m
          BY <1>1, <4>2
        <5> QED BY <1>5, <3>2, <5>1
      <4> QED BY <4>1, <4>2
    <3> QED BY <3>2, <3>3
  <2> HIDE DEF s
  <2>4. Len(rest) = 0 => m + 1 = Len(of)
    BY <1>2, <1>8
  <2>5. Len(rest) # 0 => rest[1].frame = (m + 1) + 1 /\ rest[1].piece = 1
    BY <1>2, <1>7, <1>10 DEF Follows, c
  <2>6. m + 1 <= Len(of)
    BY <1>1, <1>3
  <2>7. Place(s, << >>, rest, of)
    <3> DEFINE e == << >>
    <3>1. Len(e) = 0 /\ Len(e) + 1 = 1 /\ \A i \in 1 .. Len(e) : FALSE
        OBVIOUS
    <3> HIDE DEF e
    <3>2. Place(s, e, rest, of)
      BY <1>1, <1>6, <1>7, <2>3, <2>4, <2>5, <2>6, <3>1 DEF Place
    <3> QED BY <3>2 DEF e
  <2> QED BY <2>2, <2>7 DEF s
<1> QED BY <1>2, <1>9, <1>10 DEF c

\* What is under way stays in order, or there was a mishap.
LEMMA OrderKept ==
    ASSUME VideoShape, InOrder, VideoNext
    PROVE  InOrder'
<1>1. /\ sizes \in Seq(Sizes) /\ underway \in Seq(Fragment) /\ packetBuffer \in Seq(Fragment)
      /\ mishaps \in Nat /\ \A i \in 1 .. Len(underway) : Known(underway[i], sizes)
  BY DEF VideoShape
<1>2. readFrames \o frames \in Seq(Seq(Fragment)) /\ Len(readFrames \o frames) \in Nat
  BY ShownMore
<1>3. CASE WriteFrame
  <2> PICK size \in Sizes : /\ sizes' = Append(sizes, size)
                            /\ underway' = underway \o Fragments(Len(sizes) + 1, size)
    BY <1>3 DEF WriteFrame, Sizes
  <2>1. UNCHANGED <<mishaps, packetBuffer, frames, readFrames>>
    BY <1>3 DEF WriteFrame
  <2> SUFFICES ASSUME mishaps = 0
               PROVE  Place(readFrames \o frames, packetBuffer, underway', sizes')
    BY <2>1 DEF InOrder
  <2> DEFINE later == sizes'
             all == underway'
             shown == readFrames \o frames
  <2>2. /\ later \in Seq(Sizes) /\ Len(later) = Len(sizes) + 1 /\ Longer(later, sizes)
        /\ later[Len(sizes) + 1] = size
    <3>1. /\ Append(sizes, size) \in Seq(Sizes) /\ Len(Append(sizes, size)) = Len(sizes) + 1
          /\ Append(sizes, size)[Len(sizes) + 1] = size /\ Longer(Append(sizes, size), sizes)
      BY ONLY <1>1, size \in Sizes, SizeAdded, Zenon
    <3> QED BY <3>1, Zenon
  <2>3. all = underway \o Fragments(Len(later), later[Len(later)])
    BY <2>2
  <2>4. Place(shown, packetBuffer, underway, sizes) /\ Len(shown) \in Nat
    BY <1>2 DEF InOrder
  <2> HIDE DEF later, all, shown
  <2>5. Place(shown, packetBuffer, all, later)
    BY <1>1, <2>2, <2>3, <2>4, WriteInOrder
  <2> QED BY <2>5 DEF later, all, shown
<1>4. CASE DatagramArrives
  <2>1. /\ HandlePacket(1) /\ mishaps' = mishaps /\ readFrames' = readFrames /\ sizes' = sizes
        /\ underway' = RemoveAt(underway, 1) /\ Len(underway) # 0 /\ 1 \in 1 .. Len(underway)
    BY <1>1, <1>4 DEF DatagramArrives, HandlePacket
  <2> SUFFICES ASSUME mishaps = 0
               PROVE  Place(readFrames \o frames', packetBuffer', underway', sizes)
    BY <2>1 DEF InOrder
  <2> DEFINE f == underway[1]
             rest == RemoveAt(underway, 1)
             shown == readFrames \o frames
             n == f.frame
             buffer == IF f.piece = 1 THEN <<f>> ELSE Append(packetBuffer, f)
             whole == Fragments(n, sizes[n])
  <2>2. rest \in Seq(Fragment) /\ Len(rest) = Len(underway) - 1 /\ \A j \in 1 .. Len(underway) - 1 : rest[j] = underway[j + 1]
    <3>1. /\ rest \in Seq(Fragment) /\ Len(rest) = Len(underway) - 1
          /\ \A j \in 1 .. Len(underway) - 1 : rest[j] = IF j < 1 THEN underway[j] ELSE underway[j + 1]
      BY <1>1, <2>1, Without
    <3> QED BY <3>1
  <2>3. /\ Known(f, sizes) /\ n \in 1 .. Len(sizes)
        /\ f.piece # Count(sizes, n) => frames' = frames /\ packetBuffer' = buffer
        /\ f.piece = Count(sizes, n) =>
             /\ packetBuffer' = << >>
             /\ Count(sizes, n) = 1 \/ Begun(packetBuffer, sizes, n, Count(sizes, n) - 1) =>
                  frames' = Append(frames, whole)
    BY <2>1, PacketHandled
  <2>4. Place(shown, packetBuffer, underway, sizes)
    BY DEF InOrder
  <2>5. shown \in Seq(Seq(Fragment))
    BY <1>2
  <2> HIDE DEF f, rest, shown
  <2>6. /\ f.piece # Count(sizes, n) => Place(shown, buffer, rest, sizes)
        /\ f.piece = Count(sizes, n) =>
             /\ Count(sizes, n) = 1 \/ Begun(packetBuffer, sizes, n, Count(sizes, n) - 1)
             /\ Place(Append(shown, whole), << >>, rest, sizes)
    <3>1. Place(shown, packetBuffer, underway, sizes)
      BY <2>4
    <3> QED BY <1>1, <2>1, <2>2, <2>5, <3>1, ArriveInOrder DEF f
  <2> HIDE DEF buffer, n, whole
  <2>7. CASE f.piece # Count(sizes, n)
    <3>1. frames' = frames /\ packetBuffer' = buffer /\ Place(shown, buffer, rest, sizes)
      BY <2>3, <2>6, <2>7
    <3> QED BY <2>1, <3>1, Zenon DEF shown, rest
  <2>8. CASE f.piece = Count(sizes, n)
    <3>1. frames' = Append(frames, whole) /\ packetBuffer' = << >> /\ Place(Append(shown, whole), << >>, rest, sizes)
      BY <2>3, <2>6, <2>8
    <3>2. whole \in Seq(Fragment)
      BY <1>1, <2>3, FragmentsAre DEF whole
    <3>3. readFrames \o Append(frames, whole) = Append(shown, whole)
      BY <3>2, ShownMore DEF shown
    <3> QED BY <2>1, <3>1, <3>3, Zenon DEF rest
  <2> QED BY <2>7, <2>8
<1>5. CASE DatagramOvertakes
  <2>1. mishaps' = mishaps + 1
    BY <1>5 DEF DatagramOvertakes, HandlePacket
  <2> QED BY <1>1, <2>1 DEF InOrder
<1>6. CASE DatagramLost
  <2>1. mishaps' = mishaps + 1
    BY <1>6 DEF DatagramLost
  <2> QED BY <1>1, <2>1 DEF InOrder
<1>7. CASE ReadFrames
  <2>1. /\ frames' = << >> /\ readFrames' = readFrames \o frames
        /\ UNCHANGED <<sizes, underway, mishaps, packetBuffer>>
    BY <1>7 DEF ReadFrames
  <2>2. readFrames' \o frames' = readFrames \o frames
    BY <2>1, ShownMore
  <2> QED BY <2>1, <2>2, Zenon DEF InOrder
<1> QED BY <1>3, <1>4, <1>5, <1>6, <1>7 DEF VideoNext

\* What is known of the pictures stays known.
LEMMA VideoMoves ==
    ASSUME VideoShape, Collecting, Showing, VideoNext
    PROVE  VideoShape' /\ Collecting' /\ Showing'
<1>1. CASE WriteFrame
  BY <1>1, WriteKeeps
<1>2. CASE DatagramArrives
  <2>1. HandlePacket(1) /\ 1 \in 1 .. Len(underway) /\ mishaps' \in Nat
    BY <1>2 DEF DatagramArrives, HandlePacket, VideoShape
  <2> QED BY <2>1, HandleKeeps
<1>3. CASE DatagramOvertakes
  <2>1. HandlePacket(2) /\ 2 \in 1 .. Len(underway) /\ mishaps' \in Nat
    BY <1>3 DEF DatagramOvertakes, HandlePacket, VideoShape
  <2> QED BY <2>1, HandleKeeps
<1>4. CASE DatagramLost
  <2>1. /\ underway # << >> /\ underway' = Tail(underway) /\ mishaps' = mishaps + 1
        /\ UNCHANGED <<sizes, packetBuffer, frames, readFrames, arrived>>
    BY <1>4 DEF DatagramLost
  <2>2. underway \in Seq(Fragment) /\ Len(underway) \in Nat /\ \A i \in 1 .. Len(underway) : Known(underway[i], sizes)
    BY DEF VideoShape
  <2>3. underway' \in Seq(Fragment) /\ Len(underway') = Len(underway) - 1
        /\ \A i \in 1 .. Len(underway') : underway'[i] = underway[i + 1] /\ i + 1 \in 1 .. Len(underway)
    BY <2>1, <2>2
  <2>4. \A i \in 1 .. Len(underway') : Known(underway'[i], sizes)
    BY <2>2, <2>3
  <2>5. VideoShape'
    BY <2>1, <2>3, <2>4 DEF VideoShape
  <2>6. Collecting' /\ Showing'
    BY <2>1 DEF Collecting, Showing
  <2> QED BY <2>5, <2>6
<1>5. CASE ReadFrames
  <2>1. /\ frames' = << >> /\ readFrames' = readFrames \o frames
        /\ UNCHANGED <<sizes, underway, mishaps, packetBuffer, arrived>>
    BY <1>5 DEF ReadFrames
  <2>2. /\ readFrames' \in Seq(Seq(Fragment)) /\ Len(readFrames') = Len(readFrames) + Len(frames)
        /\ \A i \in 1 .. Len(readFrames) + Len(frames) :
             readFrames'[i] = IF i <= Len(readFrames) THEN readFrames[i] ELSE frames[i - Len(readFrames)]
    BY <2>1, ShownMore
  <2>3. Len(readFrames) \in Nat /\ Len(frames) \in Nat
    BY DEF VideoShape
  <2>4. frames' \in Seq(Seq(Fragment))
    BY <2>1
  <2>5. VideoShape'
    BY <2>1, <2>2, <2>4 DEF VideoShape
  <2>6. Collecting'
    BY <2>1 DEF Collecting
  <2>7. \A x : Among(readFrames, x) \/ Among(frames, x) => Among(readFrames', x)
    <3> TAKE x
    <3>1. ASSUME NEW j \in 1 .. Len(readFrames), readFrames[j] = x  PROVE Among(readFrames', x)
      <4>1. j \in 1 .. Len(readFrames) + Len(frames) /\ j <= Len(readFrames)
        BY <2>3
      <4>2. readFrames'[j] = x /\ j \in 1 .. Len(readFrames')
        BY <2>2, <3>1, <4>1
      <4> QED BY <4>2 DEF Among
    <3>2. ASSUME NEW j \in 1 .. Len(frames), frames[j] = x  PROVE Among(readFrames', x)
      <4> DEFINE l == Len(readFrames) + j
      <4>1. l \in 1 .. Len(readFrames) + Len(frames) /\ ~(l <= Len(readFrames)) /\ l - Len(readFrames) = j
        BY <2>3
      <4> HIDE DEF l
      <4>2. readFrames'[l] = x /\ l \in 1 .. Len(readFrames')
        BY <2>2, <3>2, <4>1
      <4> QED BY <4>2 DEF Among
    <3> QED BY <3>1, <3>2 DEF Among
  <2>8. Showing'
    <3> SUFFICES ASSUME NEW n \in 1 .. Len(sizes), CameLast(arrived, sizes, n, Count(sizes, n))
                 PROVE  Among(readFrames', Fragments(n, sizes[n]))
      BY <2>1 DEF Showing
    <3>1. Among(readFrames, Fragments(n, sizes[n])) \/ Among(frames, Fragments(n, sizes[n]))
      BY DEF Showing
    <3> QED BY <2>7, <3>1
  <2> QED BY <2>5, <2>6, <2>8
<1> QED BY <1>1, <1>2, <1>3, <1>4, <1>5 DEF VideoNext

-----------------------------------------------------------------------------
(* The media of a call. *)

MediaInv == AudioKnown /\ VideoShape /\ Collecting /\ Showing /\ InOrder

LEMMA MediaBegins == Init => MediaInv
<1> SUFFICES ASSUME AudioInit, VideoInit  PROVE MediaInv
  BY DEF Init
<1>1. AudioKnown
  <2>1. incomingBuffer = << >> /\ incomingPos = 0 /\ outgoingStamp = 0 /\ flight = {}
    BY DEF AudioInit
  <2> QED BY <2>1, AudioAssumption DEF AudioKnown, Stamps, LastPos
<1>2. MostPieces \in Nat
  BY VideoAssumption, PiecesSuffice DEF MostPieces
<1>3. /\ sizes = << >> /\ underway = << >> /\ mishaps = 0 /\ packetBuffer = << >> /\ frames = << >>
      /\ readFrames = << >> /\ arrived = << >>
  BY DEF VideoInit
<1>4. VideoShape /\ Collecting /\ Showing
  BY <1>2, <1>3 DEF VideoShape, Collecting, Showing
<1>5. InOrder
  <2>1. Len(readFrames \o frames) = 0 /\ Len(sizes) = 0 /\ Len(underway) = 0 /\ Len(packetBuffer) = 0
    BY <1>3, <1>4, ShownMore
  <2>2. Place(readFrames \o frames, packetBuffer, underway, sizes)
    BY <2>1 DEF Place
  <2> QED BY <2>2 DEF InOrder
<1> QED BY <1>1, <1>4, <1>5 DEF MediaInv

LEMMA MediaKept ==
    ASSUME MediaInv, [Next]_vars
    PROVE  MediaInv'
<1>2. AudioKnown' \/ ~UNCHANGED audioVars
  BY DEF MediaInv, AudioKnown, audioVars
<1>3. UNCHANGED videoVars => (VideoShape /\ Collecting /\ Showing /\ InOrder)'
  <2> HAVE UNCHANGED videoVars
  <2>1. UNCHANGED <<sizes, underway, mishaps, packetBuffer, frames, readFrames, arrived>>
    BY DEF videoVars
  <2> QED BY <2>1 DEF MediaInv, VideoShape, Collecting, Showing, InOrder
<1>4. ASSUME VideoNext  PROVE VideoShape' /\ Collecting' /\ Showing' /\ InOrder'
  <2>1. VideoShape /\ Collecting /\ Showing /\ InOrder
    BY DEF MediaInv
  <2>2. VideoShape' /\ Collecting' /\ Showing'
    BY <1>4, <2>1, VideoMoves
  <2>3. InOrder'
    BY <1>4, <2>1, OrderKept
  <2> QED BY <2>2, <2>3
<1>5. \/ AudioNext /\ UNCHANGED videoVars
      \/ VideoNext /\ UNCHANGED audioVars
      \/ UNCHANGED videoVars /\ UNCHANGED audioVars
  BY DEF Next, NotTransfer, NotTypes, NotAudio, NotVideo, vars
<1> QED BY <1>2, <1>3, <1>4, <1>5, AudioMoves DEF MediaInv

\* What is known of the media holds at any time.
THEOREM MediaInvCorrect == Spec => []MediaInv
  BY MediaBegins, MediaKept, PTL DEF Spec

\* A frame all of whose fragments came last is shown.
LEMMA WholeIsShownHolds == VideoShape /\ Showing => WholeIsShown
<1> SUFFICES ASSUME VideoShape, Showing, NEW n \in DOMAIN sizes,
                    Len(arrived) >= Len(Fragments(n, sizes[n])),
                    SubSeq(arrived, Len(arrived) - Len(Fragments(n, sizes[n])) + 1, Len(arrived))
                      = Fragments(n, sizes[n])
             PROVE  Contains(readFrames \o frames, Fragments(n, sizes[n]))
  BY DEF WholeIsShown
<1> DEFINE whole == Fragments(n, sizes[n])
           c == Count(sizes, n)
           shown == readFrames \o frames
<1>1. /\ sizes \in Seq(Sizes) /\ n \in 1 .. Len(sizes) /\ arrived \in Seq(Fragment) /\ Len(arrived) \in Nat
      /\ readFrames \in Seq(Seq(Fragment)) /\ frames \in Seq(Seq(Fragment))
      /\ Len(readFrames) \in Nat /\ Len(frames) \in Nat
  BY DEF VideoShape
<1>2. /\ Len(whole) = c /\ c \in Nat /\ c > 0 /\ \A i \in 1 .. c : whole[i] = Cut(sizes, n, i)
  <2>1. /\ Len(whole) = c /\ c \in 1 .. MostPieces /\ MostPieces \in Nat
        /\ \A i \in 1 .. c : whole[i] = Cut(sizes, n, i)
    BY <1>1, FragmentsAre
  <2> QED BY <2>1
<1>3. SubSeq(arrived, (Len(arrived) - c) + 1, Len(arrived)) = whole /\ Len(arrived) >= c
  BY <1>2
<1> HIDE DEF whole, c
<1>4. CameLast(arrived, sizes, n, c)
  <2> DEFINE from == (Len(arrived) - c) + 1
             tail == SubSeq(arrived, from, Len(arrived))
  <2>1. from \in Nat /\ from >= 1 /\ from <= Len(arrived) /\ (Len(arrived) - from) + 1 = c
    BY <1>1, <1>2, <1>3
  <2> HIDE DEF from
  <2>2. \A i \in 1 .. c : tail[i] = arrived[(from + i) - 1]
    <3>1. from \in Int /\ Len(arrived) \in Int /\ \A i \in from .. Len(arrived) : arrived[i] \in Fragment
      BY <1>1, <2>1
    <3> QED BY <2>1, <3>1, SubSeqProperties
  <2> HIDE DEF tail
  <2>3. tail = whole
    BY <1>3 DEF tail, from
  <2>4. ASSUME NEW i \in 1 .. c  PROVE arrived[(Len(arrived) - c) + i] = Cut(sizes, n, i)
    <3>1. (from + i) - 1 = (Len(arrived) - c) + i
      BY <1>1, <1>2 DEF from
    <3> QED BY <1>2, <2>2, <2>3, <3>1
  <2> QED BY <1>3, <2>4 DEF CameLast
<1>5. Among(readFrames, whole) \/ Among(frames, whole)
  BY <1>1, <1>4 DEF Showing, whole, c
<1>6. /\ Len(shown) = Len(readFrames) + Len(frames)
      /\ \A i \in 1 .. Len(readFrames) + Len(frames) :
           shown[i] = IF i <= Len(readFrames) THEN readFrames[i] ELSE frames[i - Len(readFrames)]
  BY ShownMore
<1> HIDE DEF shown
<1>7. \E j \in 1 .. Len(shown) : shown[j] = whole
  <2>1. ASSUME NEW j \in 1 .. Len(readFrames), readFrames[j] = whole  PROVE \E l \in 1 .. Len(shown) : shown[l] = whole
    <3>1. j \in 1 .. Len(readFrames) + Len(frames) /\ j <= Len(readFrames)
      BY <1>1
    <3>2. shown[j] = whole /\ j \in 1 .. Len(shown)
      BY <1>6, <2>1, <3>1
    <3> QED BY <3>2
  <2>2. ASSUME NEW j \in 1 .. Len(frames), frames[j] = whole  PROVE \E l \in 1 .. Len(shown) : shown[l] = whole
    <3> DEFINE i == Len(readFrames) + j
    <3>1. i \in 1 .. Len(readFrames) + Len(frames) /\ ~(i <= Len(readFrames)) /\ i - Len(readFrames) = j
      BY <1>1
    <3> HIDE DEF i
    <3>2. shown[i] = whole /\ i \in 1 .. Len(shown)
      BY <1>6, <2>2, <3>1
    <3> QED BY <3>2
  <2> QED BY <1>5, <2>1, <2>2 DEF Among
<1> QED BY <1>7 DEF Contains, whole, shown

\* Without a mishap all that was written is shown once all of it has come.
LEMMA AllShownHolds == VideoShape /\ InOrder => AllShown
<1> SUFFICES ASSUME VideoShape, InOrder, mishaps = 0, underway = << >>
             PROVE  readFrames \o frames = [n \in DOMAIN sizes |-> Fragments(n, sizes[n])]
  BY DEF AllShown
<1> DEFINE shown == readFrames \o frames
<1>1. shown \in Seq(Seq(Fragment)) /\ sizes \in Seq(Sizes)
  BY ShownMore DEF VideoShape
<1>2. Place(shown, packetBuffer, underway, sizes) /\ Len(underway) = 0
  BY DEF InOrder
<1> HIDE DEF shown
<1>3. Len(shown) = Len(sizes) /\ \A j \in 1 .. Len(shown) : shown[j] = Fragments(j, sizes[j])
  BY <1>2 DEF Place
<1>4. shown = [j \in 1 .. Len(shown) |-> shown[j]] /\ DOMAIN sizes = 1 .. Len(sizes)
  BY <1>1
<1>5. shown = [n \in DOMAIN sizes |-> Fragments(n, sizes[n])]
  BY <1>3, <1>4
<1> QED BY <1>5 DEF shown

\* Every chunk of sound lies at its place, whatever is lost, late or dropped
\* (QXmppRtpChannel.cpp:404); a picture all of whose fragments come one after the other is
\* shown whole whatever was left before it, and without mishaps all are, in their order.
THEOREM MediaWholeCorrect == Spec => []MediaWhole
<1>1. MediaInv => MediaWhole
  <2>1. AudioKnown => BufferAligned
    BY DEF AudioKnown, BufferAligned
  <2> QED BY <2>1, WholeIsShownHolds, AllShownHolds DEF MediaInv, MediaWhole
<1> QED BY <1>1, MediaInvCorrect, PTL
===============================================================================
