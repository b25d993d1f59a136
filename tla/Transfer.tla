------------------------------- MODULE Transfer -------------------------------
(***************************************************************************)
(* The transfer of one file between two programs that run                  *)
(* QXmppTransferManager (src/client/QXmppTransferManager.cpp): the         *)
(* outgoing job, the incoming job, the stanzas between them, and the       *)
(* SOCKS5 connection (src/base/QXmppSocks.cpp), which the receiving side   *)
(* opens to one of the stream hosts it is offered.                         *)
(*                                                                         *)
(* A file is a sequence of blocks, numbered from 1.  The jid and the sid   *)
(* of the job match; the id of a request is its kind and, of a data        *)
(* block, the number of the block.                                         *)
(***************************************************************************)
EXTENDS Naturals, Sequences

CONSTANTS
    MaxBlocks,      \* bound on the size of a file, in blocks
    SeqModulus,     \* 2^16: the sequence number on the wire is a quint16
    MaxDirect,      \* bound on the number of local addresses
    Methods,        \* the methods the two sides may turn out to share
    MayDisturb      \* may users abort, stanzas get lost, connections break?

ASSUME TransferAssumption ==
    /\ {MaxBlocks, MaxDirect} \subseteq Nat
    /\ SeqModulus \in Nat \ {0}
    /\ Methods \subseteq {"ibb", "socks", "none"}
    /\ MayDisturb \in BOOLEAN

VARIABLES
    par,            \* what is fixed from the start: the file and the two sides
    out,            \* the outgoing job
    inc,            \* the incoming job
    toPeer, toUs,   \* the stanzas under way
    pipe,           \* the blocks under way on the SOCKS5 connection
    hosts,          \* the stream hosts that were offered to the incoming job
    cut,            \* has the SOCKS5 connection broken?
    disturbed       \* history: a user aborted, a stanza was lost, a proxy failed, ...

transferVars == <<par, out, inc, toPeer, toUs, pipe, hosts, cut, disturbed>>

File(n) == [i \in 1 .. n |-> i]

Msg(type, of, n) == [type |-> type, of |-> of, n |-> n]
Set(request) == Msg("set", request[1], request[2])

Requests == {"none", "offer", "open", "hosts", "close", "query", "activate"} \X {0}
              \cup ({"data"} \X (1 .. MaxBlocks))
Errors == {"NoError", "AbortError", "FileAccessError", "FileCorruptError", "ProtocolError"}
HostKinds == {"direct", "proxy", "nowhere"}

TransferTypeOK ==
    /\ par \in [blocks : 0 .. MaxBlocks, announced : BOOLEAN, method : Methods,
                fits : BOOLEAN, direct : 0 .. MaxDirect, proxy : BOOLEAN]
    /\ out \in [state : {"none", "offer", "start", "transfer", "finished"},
                method : {"none", "ibb", "socks"}, error : Errors,
                read : 0 .. MaxBlocks, request : Requests, isOpen : BOOLEAN,
                sock : {"none", "dialing", "refused", "up", "down"}, host : 0 .. MaxDirect + 1,
                watched : BOOLEAN, buf : Seq(1 .. MaxBlocks), posted : 0 .. 3]
    /\ inc \in [state : {"none", "offer", "start", "transfer", "finished"},
                error : Errors, device : {"none", "open", "closed"},
                written : Seq(1 .. MaxBlocks), seq : 0 .. MaxBlocks,
                step : {"none", "dial", "greet", "command", "reply", "open", "closed"},
                host : 0 .. MaxDirect + 1, doomed : BOOLEAN, listening : BOOLEAN,
                posted : 0 .. 3]
    /\ {toPeer, toUs} \subseteq Seq([type : {"set", "result", "error"},
                of : {"offer", "open", "data", "hosts", "close"}, n : 0 .. MaxBlocks])
    /\ pipe \in Seq(1 .. MaxBlocks)
    /\ hosts \in Seq(HostKinds)
    /\ cut \in BOOLEAN /\ disturbed \in BOOLEAN

TransferInit ==
    /\ par \in [blocks : 0 .. MaxBlocks, announced : BOOLEAN, method : Methods,
                fits : BOOLEAN, direct : 0 .. MaxDirect, proxy : BOOLEAN]
    /\ par.method # "socks" => par.direct = 0 /\ ~par.proxy
    /\ par.method # "ibb" => par.fits
    /\ out = [state |-> "none", method |-> "none", error |-> "NoError", read |-> 0,
              request |-> <<"none", 0>>, isOpen |-> FALSE, sock |-> "none", host |-> 0,
              watched |-> FALSE, buf |-> <<>>, posted |-> 0]
    /\ inc = [state |-> "none", error |-> "NoError", device |-> "none",
              written |-> <<>>, seq |-> 0, step |-> "none", host |-> 0,
              doomed |-> FALSE, listening |-> FALSE, posted |-> 0]
    /\ toPeer = <<>> /\ toUs = <<>> /\ pipe = <<>> /\ hosts = <<>>
    /\ cut = FALSE /\ disturbed = FALSE

-----------------------------------------------------------------------------
(* What the jobs have in common.                                           *)

\* terminate() of either job; the signals are emitted later.
TerminateOut(job, cause) ==
    IF job.state = "finished" THEN job
    ELSE [job EXCEPT !.state = "finished", !.error = cause, !.isOpen = FALSE,
                     !.sock = IF @ = "none" THEN @ ELSE "down",
                     !.buf = <<>>, !.posted = @ + 1]

TerminateInc(job, cause) ==
    IF job.state = "finished" THEN job
    ELSE [job EXCEPT !.state = "finished", !.error = cause,
                     !.device = IF @ = "none" THEN @ ELSE "closed",
                     !.step = IF @ = "open" THEN "closed" ELSE @, !.posted = @ + 1]

\* The blocks that are still flushed when the outgoing job closes its socket.
Flushed(job, after) ==
    IF job.sock = "up" /\ after.sock = "down" THEN pipe \o job.buf ELSE pipe

\* A sender who reads the device, and the request it makes.
ReadBlock(job) == [job EXCEPT !.read = @ + 1]

\* Mutant: the last block is left out.
AtEndEarly(job) == job.read + 1 >= par.blocks

AtEnd(job) == job.read = par.blocks

Ask(job, request) == [job EXCEPT !.request = request]

-----------------------------------------------------------------------------
(* The outgoing job.                                                       *)

\* sendFile()
SendFile ==
    /\ out.state = "none"
    /\ \/ /\ out' = [Ask(out, <<"offer", 0>>) EXCEPT !.state = "offer", !.isOpen = TRUE]
          /\ toPeer' = Append(toPeer, Set(<<"offer", 0>>))
       \/ /\ out' = TerminateOut(out, "FileAccessError")    \* the file cannot be read
          /\ UNCHANGED toPeer
    /\ UNCHANGED <<par, inc, toUs, pipe, hosts, cut, disturbed>>

\* socksServerSendOffer(): the local addresses, then the proxy.
SendHosts(job, proxyKind) ==
    LET offered == [i \in 1 .. par.direct |-> "direct"]
                     \o (IF par.proxy THEN <<proxyKind>> ELSE <<>>)
    IN  IF offered = <<>>
        THEN /\ out' = TerminateOut(job, "ProtocolError")
             /\ pipe' = Flushed(job, out')
             /\ UNCHANGED <<toPeer, hosts>>
        ELSE /\ out' = Ask(job, <<"hosts", 0>>)
             /\ toPeer' = Append(toPeer, Set(<<"hosts", 0>>))
             /\ hosts' = offered
             /\ UNCHANGED pipe

\* A stanza for us; id is the request it answers.
Gets(type, kind) ==
    /\ toUs # <<>> /\ Head(toUs).type = type /\ Head(toUs).of = kind
    /\ toUs' = Tail(toUs)
Answered == <<Head(toUs).of, Head(toUs).n>> = out.request

\* streamInitiationResultReceived(): the peer has accepted the offer.
OfferAccepted ==
    /\ Gets("result", "offer")
    /\ LET job == [out EXCEPT !.state = "start", !.method = par.method] IN
       \/ /\ ~(Answered /\ out.state = "offer")
          /\ UNCHANGED <<out, toPeer, hosts, pipe>>
       \/ /\ Answered /\ out.state = "offer" /\ par.method = "ibb"
          /\ out' = Ask(job, <<"open", 0>>)
          /\ toPeer' = Append(toPeer, Set(<<"open", 0>>))
          /\ UNCHANGED <<hosts, pipe>>
       \/ /\ Answered /\ out.state = "offer" /\ par.method = "socks" /\ par.proxy
          /\ out' = Ask(job, <<"query", 0>>)
          /\ UNCHANGED <<toPeer, hosts, pipe>>
       \/ /\ Answered /\ out.state = "offer" /\ par.method = "socks" /\ ~par.proxy
          /\ SendHosts(job, "proxy")
       \/ /\ Answered /\ out.state = "offer" /\ par.method = "socks"   \* no server listens
          /\ MayDisturb
          /\ out' = TerminateOut(job, "ProtocolError")
          /\ UNCHANGED <<toPeer, hosts, pipe>>
    /\ disturbed' = (disturbed \/ out'.state = "finished")
    /\ UNCHANGED <<par, inc, cut>>

\* The proxy is external: it answers with its address or with an error.
ProxyAnswers ==
    /\ out.request = <<"query", 0>>
    /\ \E kind \in {"proxy", "nowhere"} : SendHosts(out, kind)
    /\ UNCHANGED <<par, inc, toUs, cut, disturbed>>

CloseStream(job, cause) ==
    /\ out' = TerminateOut(Ask(job, <<"close", 0>>), cause)
    /\ toPeer' = Append(toPeer, Set(<<"close", 0>>))

\* The next block goes out when the last one was acknowledged.
IbbGoesOn(job) ==
    LET next == [ReadBlock(job) EXCEPT !.state = "transfer"]
    IN  /\ out' = Ask(next, <<"data", next.read>>)
        /\ toPeer' = Append(toPeer, Set(<<"data", next.read>>))

\* ibbResponseReceived()
IbbResponse ==
    /\ \E kind \in {"open", "data", "close"} : Gets("result", kind) \/ Gets("error", kind)
    /\ \/ /\ ~Answered \/ out.method # "ibb" \/ out.state = "finished" \/ ~out.isOpen
          /\ UNCHANGED <<out, toPeer>>
       \/ /\ Answered /\ out.method = "ibb" /\ out.state # "finished" /\ out.isOpen
          /\ \/ Head(toUs).type = "result" /\ ~AtEnd(out) /\ IbbGoesOn(out)
             \/ Head(toUs).type = "result" /\ AtEnd(out) /\ CloseStream(out, "NoError")
             \/ Head(toUs).type = "error" /\ CloseStream(out, "ProtocolError")
    /\ UNCHANGED <<par, inc, pipe, hosts, cut, disturbed>>

\* _q_iqReceived(): the peer has refused the offer or the stream hosts.
PeerRefused ==
    /\ Gets("error", "offer") \/ Gets("error", "hosts")
    /\ out' = IF Answered THEN TerminateOut(out, "AbortError") ELSE out
    /\ pipe' = Flushed(out, out')
    /\ UNCHANGED <<par, inc, toPeer, hosts, cut, disturbed>>

\* _q_sendData(): one block more, if the buffer is not too full.
SendData(job) ==
    IF job.state # "transfer" \/ Len(job.buf) > 2 THEN job
    ELSE IF par.announced /\ par.blocks > 0 /\ AtEnd(job)
    THEN IF job.buf = <<>> THEN TerminateOut(job, "NoError") ELSE job
    ELSE IF ~job.isOpen THEN TerminateOut(job, "FileAccessError")
    ELSE IF AtEnd(job) THEN job
    ELSE [ReadBlock(job) EXCEPT
            !.buf = IF job.sock = "up" THEN Append(@, job.read + 1) ELSE @]

StartSending(job) == SendData([job EXCEPT !.state = "transfer"])

\* byteStreamResultReceived(): the peer is connected to a stream host.
HostUsed ==
    /\ Gets("result", "hosts")
    /\ LET used == hosts[Head(toUs).n]
           asked == out.request = <<"hosts", 0>> /\ out.state = "start"
       IN  out' = IF ~asked THEN out
                  ELSE IF used # "direct"
                  THEN [out EXCEPT !.sock = "dialing", !.host = Head(toUs).n, !.watched = TRUE]
                  ELSE IF out.sock = "none" THEN TerminateOut(out, "ProtocolError")
                  ELSE StartSending([out EXCEPT !.watched = TRUE])
    /\ pipe' = Flushed(out, out')
    /\ UNCHANGED <<par, inc, toPeer, hosts, cut, disturbed>>

\* _q_proxyReady(): the proxy is asked to activate the stream.
ProxyReady ==
    /\ out.sock = "dialing" /\ ~cut
    /\ out' = [Ask(out, <<"activate", 0>>) EXCEPT !.sock = "up"]
    /\ UNCHANGED <<par, inc, toPeer, toUs, pipe, hosts, cut, disturbed>>

\* The end of a job whose socket was disconnected.
Left(job) ==
    TerminateOut(job, IF par.announced /\ par.blocks > 0 /\ ~AtEnd(job)
                      THEN "ProtocolError" ELSE "NoError")

\* The connection to the proxy does not come about.  If it is refused, the socket
\* emits error(), to which nobody listens, and the job waits for ever.  If the proxy
\* hangs up, or an answer comes in pieces and is taken for a wrong one, the socket
\* emits disconnected().
ProxyFails ==
    /\ out.sock = "dialing"
    /\ out' \in {[out EXCEPT !.sock = "refused"], Left(out)}
    /\ disturbed' = TRUE
    /\ UNCHANGED <<par, inc, toPeer, toUs, pipe, hosts, cut>>

\* _q_iqReceived(): the answer of the proxy to the activation.
Activated ==
    /\ out.request = <<"activate", 0>>
    /\ \/ out' = StartSending(Ask(out, <<"none", 0>>))
       \/ /\ MayDisturb \/ inc.host # out.host \/ inc.step # "open"
          /\ out' = TerminateOut(Ask(out, <<"none", 0>>), "ProtocolError")
    /\ disturbed' = (disturbed \/ out'.error = "ProtocolError")
    /\ pipe' = Flushed(out, out')
    /\ UNCHANGED <<par, inc, toPeer, toUs, hosts, cut>>

\* bytesWritten(): blocks, or a part of one, have left the buffer.
BytesWritten ==
    /\ out.sock = "up" /\ out.buf # <<>> /\ ~cut
    /\ \E k \in 0 .. Len(out.buf) :
         LET rest == SubSeq(out.buf, k + 1, Len(out.buf)) IN
         /\ out' = IF out.watched THEN SendData([out EXCEPT !.buf = rest])
                                  ELSE [out EXCEPT !.buf = rest]
         /\ pipe' = pipe \o SubSeq(out.buf, 1, k)
    /\ UNCHANGED <<par, inc, toPeer, toUs, hosts, cut, disturbed>>

\* The other end of the outgoing job's connection is gone.
OutDisconnected ==
    /\ out.sock = "up"
    /\ cut \/ inc.host # out.host \/ inc.step \in {"none", "closed"}
    /\ LET job == [out EXCEPT !.sock = "down", !.buf = <<>>] IN
       out' = IF ~out.watched \/ out.state = "finished" THEN job
              ELSE Left(job)
    /\ pipe' = <<>>
    /\ UNCHANGED <<par, inc, toPeer, toUs, hosts, cut, disturbed>>

\* _q_terminated() of the outgoing job, and the manager's slot on error().
OutTerminated ==
    /\ out.posted > 0
    /\ LET job == [out EXCEPT !.posted = @ - 1] IN
       IF out.method = "ibb" /\ out.error = "AbortError"
       THEN out' = Ask(job, <<"close", 0>>) /\ toPeer' = Append(toPeer, Set(<<"close", 0>>))
       ELSE out' = job /\ UNCHANGED toPeer
    /\ UNCHANGED <<par, inc, toUs, pipe, hosts, cut, disturbed>>

-----------------------------------------------------------------------------
(* The incoming job.                                                       *)

Arrives(type, kind) ==
    /\ toPeer # <<>> /\ Head(toPeer).type = type /\ Head(toPeer).of = kind
    /\ toPeer' = Tail(toPeer)
Reply(type) == toUs' = Append(toUs, Msg(type, Head(toPeer).of, Head(toPeer).n))

\* Mutant: only the size is looked at.
CheckDataSize(job) ==
    TerminateInc(job, IF par.announced /\ par.blocks > 0 /\ Len(job.written) + 1 < par.blocks
                      THEN "FileCorruptError" ELSE "NoError")

\* checkData(): the size and the hash, if they were announced.
CheckData(job) ==
    TerminateInc(job, IF par.announced /\ job.written # File(par.blocks)
                      THEN "FileCorruptError" ELSE "NoError")

\* writeData(): writing to a closed device does nothing.
WriteData(job, blocks) ==
    [job EXCEPT !.written = IF job.device = "open" THEN @ \o blocks ELSE @]

\* streamInitiationSetReceived()
OfferArrives ==
    /\ Arrives("set", "offer")
    /\ \/ /\ par.method = "none" \/ MayDisturb      \* nobody listens to fileReceived()
          /\ Reply("error")
          /\ UNCHANGED inc
       \/ /\ par.method # "none"
          /\ inc' = [inc EXCEPT !.state = "offer", !.listening = TRUE]
          /\ UNCHANGED toUs
    /\ UNCHANGED <<par, out, pipe, hosts, cut, disturbed>>

\* accept() by the user, with the manager's slot on stateChanged().
UserAccepts ==
    /\ inc.state = "offer"
    /\ inc' = [inc EXCEPT !.state = "start", !.device = "open", !.listening = FALSE]
    /\ toUs' = Append(toUs, Msg("result", "offer", 0))
    /\ UNCHANGED <<par, out, toPeer, pipe, hosts, cut, disturbed>>

\* _q_terminated() of the incoming job: an offer that was not answered yet is
\* refused by the manager's slot on stateChanged().
IncTerminated ==
    /\ inc.posted > 0
    /\ inc' = [inc EXCEPT !.posted = @ - 1, !.listening = FALSE]
    /\ toUs' = IF inc.listening THEN Append(toUs, Msg("error", "offer", 0)) ELSE toUs
    /\ UNCHANGED <<par, out, toPeer, pipe, hosts, cut, disturbed>>

\* ibbOpenIqReceived()
IbbOpen ==
    /\ Arrives("set", "open")
    /\ \/ /\ ~par.fits
          /\ Reply("error")
          /\ UNCHANGED inc
       \/ /\ par.fits
          /\ inc' = [inc EXCEPT !.state = "transfer"]
          /\ Reply("result")
    /\ UNCHANGED <<par, out, pipe, hosts, cut, disturbed>>

\* The sequence number of a block on the wire.
Sequence(n) == (n - 1) % SeqModulus

\* ibbDataIqReceived(): the counter of the job is an int.
IbbData ==
    /\ Arrives("set", "data")
    /\ \/ /\ inc.state # "transfer" \/ Sequence(Head(toPeer).n) # inc.seq
          /\ Reply("error")
          /\ UNCHANGED inc
       \/ /\ inc.state = "transfer" /\ Sequence(Head(toPeer).n) = inc.seq
          /\ inc' = [WriteData(inc, <<Head(toPeer).n>>) EXCEPT !.seq = @ + 1]
          /\ Reply("result")
    /\ UNCHANGED <<par, out, pipe, hosts, cut, disturbed>>

\* ibbCloseIqReceived()
IbbClose ==
    /\ Arrives("set", "close")
    /\ Reply("result")
    /\ inc' = CheckData(inc)
    /\ UNCHANGED <<par, out, pipe, hosts, cut, disturbed>>

\* connectToNextHost()
NextHost(job) ==
    IF job.host = Len(hosts)
    THEN /\ inc' = TerminateInc([job EXCEPT !.step = "none"], "ProtocolError")
         /\ toUs' = Append(toUs, Msg("error", "hosts", 0))
    ELSE /\ inc' = [job EXCEPT !.host = @ + 1, !.step = "dial"]
         /\ UNCHANGED toUs

\* byteStreamSetReceived()
HostsArrive ==
    /\ Arrives("set", "hosts")
    /\ \/ inc.state # "start" /\ Reply("error") /\ UNCHANGED inc
       \/ inc.state = "start" /\ NextHost(inc)
    /\ UNCHANGED <<par, out, pipe, hosts, cut, disturbed>>

Candidate == {"dial", "greet", "command", "reply"}

\* QXmppSocksClient: connected, greeted, command sent.
CandidateProceeds ==
    /\ \/ inc.step = "dial" /\ hosts[inc.host] # "nowhere" /\ inc' = [inc EXCEPT !.step = "greet"]
       \/ inc.step = "greet" /\ inc' = [inc EXCEPT !.step = "command"]
    /\ UNCHANGED <<par, out, toPeer, toUs, pipe, hosts, cut, disturbed>>

\* The server of the host takes the command: our own server gives the socket
\* to the job, whatever state it is in.
CandidateServed ==
    /\ inc.step = "command"
    /\ inc' = [inc EXCEPT !.step = "reply"]
    /\ out' = IF hosts[inc.host] = "direct"
              THEN [out EXCEPT !.sock = "up", !.host = inc.host, !.watched = FALSE, !.buf = <<>>]
              ELSE out
    /\ UNCHANGED <<par, toPeer, toUs, pipe, hosts, cut, disturbed>>

\* _q_candidateReady()
CandidateReady ==
    /\ inc.step = "reply"
    /\ inc' = [inc EXCEPT !.step = "open", !.state = "transfer"]
    /\ toUs' = Append(toUs, Msg("result", "hosts", inc.host))
    /\ UNCHANGED <<par, out, toPeer, pipe, hosts, cut, disturbed>>

\* _q_candidateDisconnected(), called by disconnected(): the host hangs up, or
\* a message of the handshake came in pieces and was taken for a wrong one.
CandidateDisconnected ==
    /\ inc.step \in Candidate \ {"dial"}
    /\ NextHost(inc)
    /\ UNCHANGED <<par, out, toPeer, pipe, hosts, cut, disturbed>>

\* ... and by the timer.  A client that is connected will still emit
\* disconnected(), when it is deleted.
CandidateTimeout ==
    /\ inc.step \in Candidate
    /\ NextHost([inc EXCEPT !.doomed = (inc.step # "dial")])
    /\ UNCHANGED <<par, out, toPeer, pipe, hosts, cut, disturbed>>

\* The slot does not ask whose signal it is: the deletion of the last client
\* gives up the next one.
DoomedDeleted ==
    /\ inc.doomed
    /\ IF inc.step \in Candidate
       THEN NextHost([inc EXCEPT !.doomed = FALSE])
       ELSE inc' = [inc EXCEPT !.doomed = FALSE] /\ UNCHANGED toUs
    /\ UNCHANGED <<par, out, toPeer, pipe, hosts, cut, disturbed>>

\* _q_receiveData(): all that has arrived is read.
ReceiveData ==
    /\ inc.step = "open" /\ pipe # <<>> /\ ~cut /\ out.host = inc.host
    /\ \E k \in 1 .. Len(pipe) :
         LET job == WriteData(inc, SubSeq(pipe, 1, k)) IN
         /\ inc' = IF inc.state # "transfer" THEN inc
                   ELSE IF par.announced /\ par.blocks > 0 /\ Len(job.written) >= par.blocks
                   THEN CheckData(job) ELSE job
         /\ pipe' = SubSeq(pipe, k + 1, Len(pipe))
    /\ UNCHANGED <<par, out, toPeer, toUs, hosts, cut, disturbed>>

\* _q_disconnected() of the incoming job, once everything was read.
IncDisconnected ==
    /\ inc.step = "open"
    /\ cut \/ (pipe = <<>> /\ out.host = inc.host /\ out.sock = "down")
    /\ LET job == [inc EXCEPT !.step = "closed"] IN
       inc' = IF inc.state = "finished" THEN job ELSE CheckData(job)
    /\ UNCHANGED <<par, out, toPeer, toUs, pipe, hosts, cut, disturbed>>

-----------------------------------------------------------------------------
(* Users and faults.                                                       *)

AbortOut ==
    /\ MayDisturb /\ out.state \notin {"none", "finished"}
    /\ out' = TerminateOut(out, "AbortError")
    /\ pipe' = Flushed(out, out')
    /\ disturbed' = TRUE
    /\ UNCHANGED <<par, inc, toPeer, toUs, hosts, cut>>

\* abort(), a refusal, or accept() of a file that cannot be written.
AbortInc ==
    /\ inc.state \notin {"none", "finished"}
    /\ MayDisturb \/ inc.state = "offer"
    /\ inc' = TerminateInc(inc, "AbortError")
    /\ disturbed' = (disturbed \/ inc.state # "offer")
    /\ UNCHANGED <<par, out, toPeer, toUs, pipe, hosts, cut>>

\* A session ends, and what was under way is lost; nobody tells the jobs.
StanzasLost ==
    /\ MayDisturb /\ toPeer \o toUs # <<>>
    /\ \/ toPeer' = <<>> /\ UNCHANGED toUs
       \/ toUs' = <<>> /\ UNCHANGED toPeer
    /\ disturbed' = TRUE
    /\ UNCHANGED <<par, out, inc, pipe, hosts, cut>>

ConnectionBreaks ==
    /\ MayDisturb /\ ~cut /\ (out.sock \in {"dialing", "up"} \/ inc.step = "open")
    /\ cut' = TRUE /\ pipe' = <<>>
    /\ disturbed' = TRUE
    /\ UNCHANGED <<par, out, inc, toPeer, toUs, hosts>>

-----------------------------------------------------------------------------
StanzaStep ==
    \/ OfferAccepted \/ IbbResponse \/ PeerRefused \/ HostUsed
    \/ OfferArrives \/ IbbOpen \/ IbbData \/ IbbClose \/ HostsArrive

SocketStep ==
    \/ ProxyAnswers \/ ProxyReady \/ Activated \/ BytesWritten \/ OutDisconnected
    \/ CandidateProceeds \/ CandidateServed \/ CandidateReady \/ CandidateTimeout
    \/ DoomedDeleted \/ ReceiveData \/ IncDisconnected

PostedStep == OutTerminated \/ IncTerminated

TransferNext ==
    \/ SendFile \/ UserAccepts \/ AbortInc \/ CandidateDisconnected
    \/ StanzaStep \/ SocketStep \/ PostedStep
    \/ AbortOut \/ StanzasLost \/ ConnectionBreaks \/ ProxyFails

-----------------------------------------------------------------------------
(* Properties.                                                             *)

Done(job) == job.state = "finished"

\* A verdict "complete" is the end NoError of an announced file.
Verdict ==
    IF inc.device = "closed"
    THEN IF par.announced /\ inc.error = "NoError" THEN "complete" ELSE "failed"
    ELSE IF Done(inc) THEN "failed" ELSE "open"

Promise == INSTANCE Delivery WITH
    Sizes <- 0 .. MaxBlocks, length <- par.blocks,
    delivered <- Len(inc.written), verdict <- Verdict

\* The transfer keeps its promise to the receiving party: a file that is
\* announced is complete when the job ends without error, and stays so
\* (QXmppTransferManager.cpp:404), however the ends cross.
KeepsPromise == Promise!Spec

\* In every method, what was written is a beginning of the file: blocks are
\* neither lost nor doubled nor swapped (QXmppTransferManager.cpp:976).
WrittenInOrder ==
    /\ Len(inc.written) <= par.blocks
    /\ inc.written = File(Len(inc.written))

\* An outgoing job that ends without error has its whole file written at the
\* other side or on the way there (QXmppTransferManager.cpp:1063, 649), unless
\* somebody interfered.
SenderKnows ==
    Done(out) /\ out.error = "NoError" /\ ~disturbed
        => inc.written \o (IF Done(inc) THEN <<>> ELSE pipe) = File(par.blocks)

\* Whatever breaks, at the proxy or later, an outgoing job of a known size never
\* ends without error before it has read all of its file
\* (QXmppTransferManager.cpp:619).  Of an unknown size it does.
AllWasRead ==
    Done(out) /\ out.error = "NoError" /\ par.announced => out.read = par.blocks

\* A transfer nobody interferes with succeeds in band at both sides, if the
\* block size suits and the file is not too long for the sequence numbers.
InBandSucceeds ==
    (/\ Done(out) /\ out.method = "ibb" /\ ~disturbed
     /\ par.fits /\ par.blocks <= SeqModulus)
        => out.error = "NoError"

\* Both jobs end once the user has answered the offer and nobody interferes
\* (QXmppTransferManager.cpp:412: the receiving side gives up in the end).
\* Left out are the SOCKS5 transfers of a file that is empty or of unknown
\* size: no side can tell that everything was sent.  A proxy that fails the
\* sender counts as interference: if it refuses the connection, neither job ends.
BothEnd ==
    (/\ inc.state \in {"start", "finished"}
     /\ par.method = "socks" => par.announced /\ par.blocks > 0)
        ~> (Done(out) /\ Done(inc)) \/ disturbed
===============================================================================
