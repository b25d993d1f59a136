------------------------------ MODULE XmppClient ------------------------------
(***************************************************************************)
(* QXmppClient (src/client/QXmppClient.cpp): the stream of XmppStream,     *)
(* the calls a program makes, the presence it announces and the automatic  *)
(* reconnection.  The client's slots run inside the emission of the        *)
(* stream's signals, hence React is a conjunct of every stream step.       *)
(***************************************************************************)
EXTENDS XmppStream

CONSTANT AutoReconnect     \* configuration().autoReconnectionEnabled()

ASSUME ReconnectAssumption == AutoReconnect \in BOOLEAN

VARIABLES
    clientPresence,     \* d->clientPresence: its type
    receivedConflict,   \* d->receivedConflict
    reconnectionTries,  \* d->reconnectionTries
    reconnectionTimer,  \* seconds d->reconnectionTimer was started with, or 0
    shown,              \* the last state stateChanged() was emitted with
    told,               \* connected() was emitted, disconnected() not since
    loggedOut           \* the program's last call asked to be disconnected

clientVars == <<clientPresence, receivedConflict, reconnectionTries,
                reconnectionTimer, shown, told, loggedOut>>
vars == <<streamVars, clientVars>>

\* Mutant: milliseconds, which the timer multiplies by 1000 again.
NextReconnectMillis(tries) ==
    CASE tries < 5                -> 10000
      [] tries \in 5 .. 9         -> 20000
      [] tries \in 10 .. 14       -> 40000
      [] OTHER                    -> 60000

\* getNextReconnectTime(), in seconds.
NextReconnectTime(tries) ==
    CASE tries < 5                -> 10
      [] tries \in 5 .. 9         -> 20
      [] tries \in 10 .. 14       -> 40
      [] OTHER                    -> 60

ClientTypeOK ==
    /\ clientPresence \in {"Available", "Unavailable"}
    /\ receivedConflict \in BOOLEAN
    /\ reconnectionTries \in Nat
    /\ reconnectionTimer \in {0, 1, 10, 20, 40, 60}
    /\ shown \in {"Disconnected", "Connecting", "Connected"}
    /\ told \in BOOLEAN
    /\ loggedOut \in BOOLEAN

TypeOK == StreamTypeOK /\ ClientTypeOK

Init ==
    /\ StreamInit
    /\ clientPresence = "Available"
    /\ receivedConflict = FALSE
    /\ reconnectionTries = 0 /\ reconnectionTimer = 0
    /\ shown = "Disconnected" /\ told = FALSE /\ loggedOut = TRUE

\* QXmppClient::state()
State == CASE IsConnected                               -> "Connected"
           [] ~IsConnected /\ socket \in {"Connecting", "Connected"}
                                                        -> "Connecting"
           [] socket \in {"Unconnected", "Closing"}     -> "Disconnected"

-----------------------------------------------------------------------------
(* The slots connected to the stream and to its socket.                    *)

\* Mutant: only keep-alive errors are retried.
TimerAfterErrorNoSocket(before) ==
    IF AutoReconnect /\ "KeepAliveError" \in sig' THEN 1 ELSE before

\* _q_streamError: what becomes of the reconnection timer, started with the
\* given value before the error.
TimerAfterError(before) ==
    CASE ~AutoReconnect                                      -> before
      [] AutoReconnect /\ "KeepAliveError" \in sig'          -> 1
      [] AutoReconnect /\ "SocketError" \in sig' /\ ~receivedConflict
                                    -> NextReconnectTime(reconnectionTries)
      [] OTHER                                               -> before

ConflictAfterError ==
    \/ receivedConflict
    \/ AutoReconnect /\ "XmppStreamError" \in sig' /\ xmppStreamError' = "Conflict"

\* The argument of the last stateChanged() of the step.
StateShown ==
    CASE "connected" \in sig'                                -> "Connected"
      [] "disconnected" \in sig'                             -> "Disconnected"
      [] "stateChanged" \in sig' /\ sig' \cap {"connected", "disconnected"} = {}
                                                             -> State'
      [] OTHER                                               -> shown

\* _q_streamConnected, _q_streamDisconnected, _q_streamError and
\* _q_socketStateChanged, on whatever signals the step emits.
React(timer) ==
    /\ receivedConflict' = (ConflictAfterError /\ "connected" \notin sig')
    /\ reconnectionTries' = IF "connected" \in sig' THEN 0 ELSE reconnectionTries
    /\ reconnectionTimer' = TimerAfterError(timer)
    /\ shown' = StateShown
    /\ told' = ((told \/ "connected" \in sig') /\ "disconnected" \notin sig')

-----------------------------------------------------------------------------
(* The calls.                                                              *)

ConnectToServer ==
    /\ ConnectToHost
    /\ clientPresence' = "Available"
    /\ loggedOut' = FALSE
    /\ React(reconnectionTimer)

\* The stream part shared by disconnectFromServer() and
\* setClientPresence(Unavailable): stop the timer, say goodbye, hang up.
LogOut ==
    /\ DisconnectFromHost(timeoutTimer, {})
    /\ UNCHANGED <<dns, d, xmppStreamError>>
    /\ clientPresence' = "Unavailable"
    /\ loggedOut' = TRUE
    /\ React(0)

DisconnectFromServer == LogOut

\* setClientPresence: Unavailable closes the connection, anything else
\* announces it or connects as needed.
SetClientPresence ==
    \/ LogOut
    \/ /\ clientPresence' = "Available"
       /\ loggedOut' = FALSE
       /\ \/ /\ IsConnected
             /\ sig' = {}
             /\ UNCHANGED <<socketVars, dns, d, xmppStreamError, timers, remote>>
          \/ /\ ~IsConnected
             /\ ConnectToHost
       /\ React(reconnectionTimer)

\* The single-shot timer fires.
Reconnect ==
    /\ reconnectionTimer # 0
    /\ IF AutoReconnect
       THEN ConnectToHost
       ELSE sig' = {} /\ UNCHANGED <<socketVars, dns, d, xmppStreamError, timers, remote>>
    /\ React(0)
    /\ UNCHANGED <<clientPresence, loggedOut>>

Calls == ~starting /\ (ConnectToServer \/ DisconnectFromServer \/ SetClientPresence)

StreamEvent == StreamStep /\ React(reconnectionTimer)
                          /\ UNCHANGED <<clientPresence, loggedOut>>

Next == StreamEvent \/ (~starting /\ Reconnect) \/ Calls

Spec == Init /\ [][Next]_vars

\* What the scheduling of the program justifies: timers fire, lookups and
\* closing sockets finish, a connection attempt succeeds or fails, and the
\* server answers requests and closes a stream it has ended.
Event(A) == A /\ ~starting /\ React(reconnectionTimer)
              /\ UNCHANGED <<clientPresence, loggedOut>>

TimerFairness ==
    /\ WF_vars(~starting /\ Reconnect)
    /\ WF_vars(Event(PingSend)) /\ WF_vars(Event(PingTimeout))

NetworkFairness ==
    /\ WF_vars(Event(DnsLookupFinished))
    /\ WF_vars(Event(SocketUp \/ ConnectFails))
    /\ WF_vars(StreamEvent /\ starting)
    /\ WF_vars(Event(CloseCompletes))

ServerFairness ==
    /\ WF_vars(Event(Negotiation))
    /\ WF_vars(Event(link = "ended" /\ SocketFails))

FairSpec == Spec /\ TimerFairness /\ NetworkFairness /\ ServerFairness

-----------------------------------------------------------------------------
(* Properties.                                                             *)

\* isConnected() (QXmppOutgoingClient.cpp:214) is the server's opinion too:
\* once the stream has started, a client that believes it is connected has
\* authenticated and bound a resource on this very connection.
SessionBacked == IsConnected /\ ~starting => server \in {"bound", "session"}

\* "TLSRequired: Encryption is a must otherwise connection would not be
\* established" (QXmppConfiguration.h:58).  Not what the code does: a header
\* without a version is answered with the old login whatever the mode
\* (QXmppOutgoingClient.cpp:276), in the clear.
RequiredMeansEncrypted ==
    LocalSecurity = "TLSRequired" /\ IsConnected /\ ~starting => tls = "on"

\* What a client says of itself: who it is, its credentials, its resource.
Login == {"auth", "response", "nonSaslQuery", "nonSasl", "bind", "session"}

\* What TLSRequired does hold to: with a server that speaks XMPP 1.0, and so
\* announces its features (QXmppOutgoingClient.cpp:299-328), neither a session
\* nor any step of the login before it is ever in the clear, whatever is offered
\* and however often the stream restarts.
NegotiatedMeansEncrypted ==
    LocalSecurity = "TLSRequired" /\ ~starting /\ d.streamVersion /\ tls # "on"
        => ~IsConnected /\ \A r \in Login : requests # <<r>>

\* The keep-alive timers (pingStart, pingStop) belong to the session that
\* started them: neither survives into a connection without a session, where
\* it would cut the handshake short.
KeepAliveOwned ==
    /\ timeoutTimer => pingTimer
    /\ pingTimer => socket \in {"Connected", "Closing"} /\ d.sessionStarted /\ told

\* Listeners and state() agree: a session that is up has been announced with
\* connected(), and while it has been, without disconnected() since, the
\* session is up or the socket is closing.
ToldMeansSession ==
    /\ told => socket = "Closing" \/ (IsConnected /\ ~starting)
    /\ IsConnected /\ ~starting => told

\* What belongs to a session comes and goes with it: its timers, and what its
\* listeners were told.
SessionOwned == KeepAliveOwned /\ ToldMeansSession

\* What the listeners see is a session as XmppSession promises it.
phase == IF IsConnected /\ ~starting THEN "Online"
         ELSE IF socket \in {"Connecting", "Connected"} THEN "Connecting"
         ELSE "Offline"

Session == INSTANCE XmppSession
ImplementsSession == Session!SessionSpec

\* The server owes no answer, and did not let the client in: it refused a request,
\* or offered neither a mechanism nor, once a resource is bound, a session.
LetDown ==
    /\ socket = "Connected" /\ ~starting /\ requests = <<>> /\ tls # "handshake"
    /\ server \in {"none", "authed"} \/ (server = "bound" /\ ~d.sessionAvailable)

\* A negotiation over a link that does not fall silent ends in a session or in a
\* closed socket (QXmppOutgoingClient.cpp:281-554), and hangs, since no timer
\* watches it, only where the server let the client down.
HandshakeSettles ==
    socket = "Connecting"
        ~> (IsConnected /\ ~starting) \/ socket = "Unconnected" \/ link = "dead" \/ LetDown

\* A silently dead link is noticed by the keep-alive, given a timeout shorter
\* than the interval (QXmppConfiguration.cpp:514: otherwise "no timeout will occur").
DeadLinkDetected ==
    0 < KeepAliveTimeout /\ KeepAliveTimeout < KeepAliveInterval
        => (link = "dead" /\ IsConnected ~> ~IsConnected)

\* The one retry of _q_streamError is spent while the old socket is still writing
\* its data, and was refused by it: nothing is planned any more.
Stranded == socket = "Closing" /\ reconnectionTimer = 0 /\ ~dns

\* A connection lost or refused without a conflict is tried again, unless
\* the program asks to be disconnected; and so is one whose ping timed out
\* (QXmppClient.cpp:548, "reconnect in one second"), unless its socket is
\* not closed by then.
DropIsRetried ==
    /\ ("SocketError" \in sig /\ AutoReconnect /\ ~receivedConflict)
         ~> (socket = "Connecting" \/ loggedOut)
    /\ ("KeepAliveError" \in sig /\ AutoReconnect)
         ~> (socket = "Connecting" \/ loggedOut \/ Stranded)

\* Nothing hangs: an attempt ends, a dead link is noticed, a lost connection retried.
AttemptsSettle == HandshakeSettles /\ DeadLinkDetected /\ DropIsRetried

\* "After all these steps [...] connected() signal is emitted", the last one
\* being session establishment (QXmppClient.h:159-169).
ConnectedAfterSession == [][ "connected" \in sig' => server' = "session" ]_vars
===============================================================================
