---------------------------------- MODULE Call ----------------------------------
(***************************************************************************)
(* One call between two programs that run QXmppCallManager                 *)
(* (src/client/QXmppCallManager.cpp): the caller "a" and the callee "b",   *)
(* the Jingle requests between them, and the ICE connection of each media  *)
(* stream, of which only what the call sees is kept (module Ice has the    *)
(* rest): connectToHost(), close(), connected() and disconnected().        *)
(*                                                                         *)
(* Of the acknowledgements only those of a session-terminate matter: any   *)
(* other only shortens the list of outstanding requests.                   *)
(***************************************************************************)
EXTENDS Naturals, Sequences

CONSTANTS
    MaxTurns,       \* bound on the turns a call may take: a local candidate is
                    \* found late, a session is lost
    Filming         \* the ends that may send video

Ends == {"a", "b"}

ASSUME CallAssumption == MaxTurns \in Nat /\ Filming \subseteq Ends

Media == {"audio", "video"}
Other(e) == IF e = "a" THEN "b" ELSE "a"

VARIABLES
    fits,           \* have the two sides a codec in common, in each exchange?
    call,           \* the QXmppCall of each end
    turns,          \* the turns the call may still take
    under,          \* the stanzas under way to each end
    online,         \* has the end a session with its server?
    blind,          \* history: was an end lost without a word to the other?
    glare           \* history: have both ends offered video at the same time?

vars == <<fits, call, turns, under, online, blind, glare>>

Kinds == {"initiate", "ringing", "accept", "terminate", "ack", "unavailable",
          "info audio", "info video", "content-add", "content-accept", "content-reject"}

\* "hopeless": started again although the sockets are closed.
Phases == {"new", "checking", "connected", "closed", "hopeless"}

TypeOK ==
    /\ fits \in [offer : BOOLEAN, answer : BOOLEAN, video : BOOLEAN]
    /\ call \in [Ends -> [
            state : {"none", "connecting", "active", "disconnecting", "finished", "deleted"},
            stream : [Media -> [there : BOOLEAN, open : BOOLEAN, ice : Phases]],
            mode : [Media -> SUBSET {"read", "write"}], sendVideo : BOOLEAN,
            hangups : 0 .. 2, timers : 0 .. 2]]
    /\ turns \in 0 .. MaxTurns
    /\ under \in [Ends -> Seq(Kinds)]
    /\ online \in [Ends -> BOOLEAN]
    /\ blind \in BOOLEAN /\ glare \in BOOLEAN

NewStream == [there |-> FALSE, open |-> FALSE, ice |-> "new"]

NoCall == [state |-> "none", stream |-> [m \in Media |-> NewStream],
           mode |-> [m \in Media |-> {}], sendVideo |-> FALSE, hangups |-> 0, timers |-> 0]

\* An exchange that fails leaves nothing for the next ones to decide.
Init ==
    /\ fits \in [offer : BOOLEAN, answer : BOOLEAN, video : BOOLEAN]
    /\ (fits.video => fits.answer) /\ (fits.answer => fits.offer)
    /\ call = [e \in Ends |-> NoCall]
    /\ turns = MaxTurns
    /\ under = [e \in Ends |-> <<>>]
    /\ online = [e \in Ends |-> TRUE]
    /\ blind = FALSE /\ glare = FALSE

-----------------------------------------------------------------------------
(* What the handlers do to a call.                                         *)

Mode(c, m) ==
    LET s == c.stream[m]
    IN  IF ~(c.state = "active" /\ s.there /\ s.ice = "connected" /\ s.open) THEN {}
        ELSE IF m = "video" /\ ~c.sendVideo THEN {"read"} ELSE {"read", "write"}

\* updateOpenMode()
UpdateOpenMode(c) == [c EXCEPT !.mode = [m \in Media |-> Mode(c, m)]]

\* setState(): each stream has connected stateChanged() to updateOpenMode().
SetState(c, new) ==
    IF c.state = new THEN c ELSE UpdateOpenMode([c EXCEPT !.state = new])

Ended(c) == c.state \in {"disconnecting", "finished"}

\* terminate(); the caller sends the request if the call had not ended.
Terminate(c) ==
    IF Ended(c) THEN c
    ELSE SetState([c EXCEPT !.hangups = @ + 1, !.timers = @ + 1], "disconnecting")

\* terminated(): closing the video channel does nothing.
Terminated(c) ==
    SetState([c EXCEPT
        !.stream = [m \in Media |->
            [c.stream[m] EXCEPT !.ice = IF c.stream[m].there THEN "closed" ELSE @,
                                !.open = @ /\ m = "video"]]], "finished")

\* handleDescription(), when there is a common codec.
Describe(c, m) == UpdateOpenMode([c EXCEPT !.stream[m].open = TRUE])

\* handleTransport(): connectToHost() starts the checks, unless they run.
Transport(c, m) ==
    [c EXCEPT !.stream[m].ice = CASE @ = "new" -> "checking"
                                  [] @ = "closed" -> "hopeless"
                                  [] OTHER -> @]

There(m) == [NewStream EXCEPT !.there = (m = "audio")]
NewCall == [NoCall EXCEPT !.state = "connecting", !.stream = [m \in Media |-> There(m)]]

\* The end e sends; a stanza to or from an end without session is lost.
Sent(e, kind, queues) ==
    IF online[e] /\ online[Other(e)]
    THEN [queues EXCEPT ![Other(e)] = Append(@, kind)] ELSE queues

Become(e, c) == call' = [call EXCEPT ![e] = c]

\* hangup(), or the end of a call for another reason.
HangUpWith(e, c, queues) ==
    /\ Become(e, Terminate(c))
    /\ under' = IF Ended(c) THEN queues ELSE Sent(e, "terminate", queues)

Exists(e) == call[e].state \notin {"none", "deleted"}

-----------------------------------------------------------------------------
(* The user.                                                               *)

\* QXmppCallManager::call()
Invite ==
    /\ call["a"].state = "none" /\ online["a"]
    /\ Become("a", NewCall)
    /\ under' = Sent("a", "initiate", under)
    /\ UNCHANGED <<fits, turns, online, blind, glare>>

\* accept()
Accept ==
    /\ call["b"].state = "connecting"
    /\ Become("b", SetState(call["b"], "active"))
    /\ under' = Sent("b", "accept", under)
    /\ UNCHANGED <<fits, turns, online, blind, glare>>

\* hangup()
Hangup(e) ==
    /\ Exists(e) /\ ~Ended(call[e])
    /\ HangUpWith(e, call[e], under)
    /\ UNCHANGED <<fits, turns, online, blind, glare>>

\* The program deletes the call when it has seen finished().
Delete(e) ==
    /\ call[e].state = "finished"
    /\ Become(e, [NoCall EXCEPT !.state = "deleted"])
    /\ UNCHANGED <<fits, turns, under, online, blind, glare>>

\* startVideo()
StartVideo(e) ==
    /\ e \in Filming /\ call[e].state = "active" /\ ~call[e].sendVideo
    /\ LET c == [call[e] EXCEPT !.sendVideo = TRUE]
       IN  IF c.stream["video"].there
           THEN Become(e, UpdateOpenMode(c)) /\ UNCHANGED under
           ELSE /\ Become(e, [c EXCEPT !.stream["video"].there = TRUE])
                /\ under' = Sent(e, "content-add", under)
    /\ UNCHANGED <<fits, turns, online, blind, glare>>

\* Mutant: the mode is left as it was.
StopVideoSilent(e) ==
    /\ call[e].sendVideo
    /\ Become(e, [call[e] EXCEPT !.sendVideo = FALSE])
    /\ UNCHANGED <<fits, turns, under, online, blind, glare>>

\* stopVideo()
StopVideo(e) ==
    /\ call[e].sendVideo
    /\ LET c == [call[e] EXCEPT !.sendVideo = FALSE]
       IN  Become(e, IF c.stream["video"].there THEN UpdateOpenMode(c) ELSE c)
    /\ UNCHANGED <<fits, turns, under, online, blind, glare>>

-----------------------------------------------------------------------------
(* Stanzas from the other end, in the order they were sent.                *)

Gets(e, kind) == under[e] # <<>> /\ Head(under[e]) = kind
Rest(e) == [under EXCEPT ![e] = Tail(@)]
Unchanged == UNCHANGED <<fits, turns, online, blind, glare>>

\* _q_jingleIqReceived(): a call comes in.
GetInitiate ==
    /\ Gets("b", "initiate")
    /\ IF fits.offer
       THEN /\ Become("b", Transport(Describe(NewCall, "audio"), "audio"))
            /\ under' = Sent("b", "ringing", Rest("b"))
       ELSE /\ Become("b", [NoCall EXCEPT !.state = "deleted"])
            /\ under' = Sent("b", "terminate", Rest("b"))
    /\ Unchanged

\* A request for a call that is not there any more is dropped with a warning.
GetUnknown(e) ==
    /\ under[e] # <<>> /\ Head(under[e]) # "initiate" /\ ~Exists(e)
    /\ under' = Rest(e)
    /\ UNCHANGED call /\ Unchanged

\* ringing() is told; a content-reject is not looked at.
GetNotice(e) ==
    /\ Exists(e) /\ (Gets(e, "ringing") \/ Gets(e, "content-reject"))
    /\ under' = Rest(e)
    /\ UNCHANGED call /\ Unchanged

\* handleRequest(), SessionAccept: the state of the call is not asked.
GetAccept ==
    /\ Exists("a") /\ Gets("a", "accept")
    /\ IF fits.answer
       THEN /\ Become("a", SetState(Transport(Describe(call["a"], "audio"), "audio"), "active"))
            /\ under' = Rest("a")
       ELSE HangUpWith("a", call["a"], Rest("a"))
    /\ Unchanged

\* Mutant: the other end waits for an answer in vain.
GetTerminateMute(e) ==
    /\ Exists(e) /\ Gets(e, "terminate")
    /\ Become(e, call[e])
    /\ under' = Sent(e, "ack", Rest(e))
    /\ Unchanged

\* handleRequest(), SessionTerminate
GetTerminate(e) ==
    /\ Exists(e) /\ Gets(e, "terminate")
    /\ Become(e, Terminated(call[e]))
    /\ under' = Sent(e, "ack", Rest(e))
    /\ Unchanged

\* handleAck(): of a session-terminate, which is still among the requests.
GetAck(e) ==
    /\ Exists(e) /\ Gets(e, "ack")
    /\ Become(e, IF call[e].hangups > 0
                 THEN Terminated([call[e] EXCEPT !.hangups = @ - 1]) ELSE call[e])
    /\ under' = Rest(e)
    /\ Unchanged

\* handleRequest(), ContentAdd: a stream of this name may be there already.
GetContentAdd(e) ==
    /\ Exists(e) /\ Gets(e, "content-add")
    /\ LET c == call[e]
           described == UpdateOpenMode([c EXCEPT !.stream["video"].open = TRUE])
       IN  IF c.stream["video"].there
           THEN UNCHANGED call /\ under' = Rest(e)
           ELSE IF ~fits.video
           THEN UNCHANGED call /\ under' = Sent(e, "content-reject", Rest(e))
           ELSE /\ Become(e, [Transport(described, "video") EXCEPT !.stream["video"].there = TRUE])
                /\ under' = Sent(e, "content-accept", Rest(e))
    /\ glare' = (glare \/ call[e].stream["video"].there)
    /\ UNCHANGED <<fits, turns, online, blind>>

\* handleRequest(), ContentAccept
GetContentAccept(e) ==
    /\ Exists(e) /\ Gets(e, "content-accept")
    /\ Become(e, Transport(Describe(call[e], "video"), "video"))
    /\ under' = Rest(e)
    /\ Unchanged

\* handleRequest(), TransportInfo
GetTransportInfo(e) ==
    /\ Exists(e)
    /\ \E m \in Media :
         /\ Gets(e, IF m = "audio" THEN "info audio" ELSE "info video")
         /\ Become(e, IF call[e].stream[m].there THEN Transport(call[e], m) ELSE call[e])
    /\ under' = Rest(e)
    /\ Unchanged

\* _q_presenceReceived()
GetUnavailable(e) ==
    /\ Exists(e) /\ Gets(e, "unavailable")
    /\ HangUpWith(e, call[e], Rest(e))
    /\ Unchanged

-----------------------------------------------------------------------------
(* Timers, the connections, and the session with the server.               *)

\* The five seconds of terminate() are over, whatever has happened since.
TimerFires(e) ==
    /\ Exists(e) /\ call[e].timers > 0
    /\ Become(e, Terminated([call[e] EXCEPT !.timers = @ - 1]))
    /\ UNCHANGED under /\ Unchanged

\* The connection signals connected(): both ends check.
IceConnects(e, m) ==
    /\ Exists(e) /\ call[e].stream[m].ice = "checking"
    /\ call[Other(e)].stream[m].ice \in {"checking", "connected"}
    /\ Become(e, UpdateOpenMode([call[e] EXCEPT !.stream[m].ice = "connected"]))
    /\ UNCHANGED under /\ Unchanged

\* No connection within 30 seconds: disconnected() is connected to hangup().
IceTimesOut(e, m) ==
    /\ Exists(e) /\ call[e].stream[m].ice \in {"checking", "hopeless"}
    /\ HangUpWith(e, [call[e] EXCEPT !.stream[m].ice = "closed"], under)
    /\ Unchanged

\* localCandidatesChanged()
LocalCandidatesChanged(e, m) ==
    /\ Exists(e) /\ turns > 0
    /\ call[e].stream[m].there /\ call[e].stream[m].ice \in {"new", "checking", "connected"}
    /\ turns' = turns - 1
    /\ under' = Sent(e, IF m = "audio" THEN "info audio" ELSE "info video", under)
    /\ UNCHANGED <<fits, call, online, blind, glare>>

\* _q_disconnected(): the session is lost; the server may tell the other end.
Disconnected(e) ==
    /\ online[e] /\ turns > 0 /\ turns' = turns - 1
    /\ online' = [online EXCEPT ![e] = FALSE]
    /\ call' = IF Exists(e) THEN [call EXCEPT ![e] = Terminate(@)] ELSE call
    /\ \E told \in {TRUE, FALSE} :
         /\ told => online[Other(e)]
         /\ under' = [under EXCEPT ![e] = <<>>,
                        ![Other(e)] = IF told THEN Append(@, "unavailable") ELSE @]
         /\ blind' = (blind \/ ~told)
    /\ UNCHANGED <<fits, glare>>

Receive(e) ==
    \/ e = "b" /\ GetInitiate
    \/ e = "a" /\ GetAccept
    \/ GetUnknown(e) \/ GetNotice(e) \/ GetTerminate(e) \/ GetAck(e)
    \/ GetContentAdd(e) \/ GetContentAccept(e) \/ GetTransportInfo(e) \/ GetUnavailable(e)

Next ==
    \/ Invite \/ Accept
    \/ \E e \in Ends :
         \/ Hangup(e) \/ Delete(e) \/ StartVideo(e) \/ StopVideo(e)
         \/ Receive(e) \/ TimerFires(e) \/ Disconnected(e)
         \/ \E m \in Media : IceConnects(e, m) \/ IceTimesOut(e, m) \/ LocalCandidatesChanged(e, m)

Spec == Init /\ [][Next]_vars

\* Stanzas that were sent arrive, timers fire, the checks end one way or the
\* other; of several such steps any may be the next.  No user has to do anything.
System ==
    \E e \in Ends :
      \/ Receive(e) \/ TimerFires(e)
      \/ \E m \in Media : IceConnects(e, m) \/ IceTimesOut(e, m)

FairSpec == Spec /\ WF_vars(System)

-----------------------------------------------------------------------------
(* Properties.                                                             *)

Over(e) == call[e].state \in {"none", "finished", "deleted"}

\* The mode a program was told of a stream is the one it has: every change of
\* the state, the codec, the connection or the wish to send video, in whatever
\* order they come from both ends, has led to updateOpenMode().
ModesAgree == \A e \in Ends, m \in Media : call[e].mode[m] = Mode(call[e], m)

\* When no stanza is under way and both sessions have lasted, the call is
\* active at both ends or at none, also after an accept has crossed a hang-up.
CallAgrees ==
    under = [e \in Ends |-> <<>>] /\ (\A e \in Ends : online[e])
        => (call["a"].state = "active" <=> call["b"].state = "active")

\* A call that was hung up is over at last, though an accept may make it active
\* in between; a call that is over at one end ends at the other, unless that end
\* was never told.
HangupSettles ==
    []<>(\A e \in Ends :
           /\ call[e].state # "disconnecting"
           /\ call[e].state \in {"finished", "deleted"} => Over(Other(e)) \/ blind)

\* A finished call lets go of its sockets, also when an offer of video or a new
\* candidate arrives after the end and opens a connection again.
SocketsClosed ==
    []<>(\A e \in Ends, m \in Media :
           call[e].state = "finished" =>
               call[e].stream[m].ice = "closed" \/ ~call[e].stream[m].there)

\* Video that is offered is open at both ends at last, unless there is no codec,
\* the call is not active any more, or both have offered it at the same time:
\* then each end finds its own stream under the name of the other's, answers
\* nothing, and the video of this call stays closed for ever.
VideoSettles ==
    []<>(\A e \in Ends :
           /\ call[e].state = "active" /\ call[Other(e)].state = "active"
           /\ call[e].stream["video"].there /\ fits.video
           => \/ call[e].stream["video"].open /\ call[Other(e)].stream["video"].open
              \/ glare \/ blind)
\* The two ends agree about the call, and each about its own streams.
CallConsistent == TypeOK /\ ModesAgree /\ CallAgrees

\* What is over ends everywhere, and what was offered opens.
CallSettles == HangupSettles /\ SocketsClosed /\ VideoSettles
===============================================================================
