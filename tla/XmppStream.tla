------------------------------ MODULE XmppStream ------------------------------
(***************************************************************************)
(* One XMPP connection of the program, as the classes QXmppStream          *)
(* (src/base/QXmppStream.cpp) and QXmppOutgoingClient                      *)
(* (src/client/QXmppOutgoingClient.cpp) run it: name lookup, TCP           *)
(* connection, stream header, features, TLS, authentication, resource      *)
(* binding, session, and the keep-alive pings of an established session.   *)
(*                                                                         *)
(* The socket (Qt's QSslSocket) and the server are the environment.  A Qt  *)
(* signal is delivered synchronously, so the signals a step emits are the  *)
(* set sig of that step, and the objects connected to the stream react in  *)
(* the same step (module XmppClient).  Stanza identifiers are unique       *)
(* (QXmppStanza counts them up), so an identifier is represented by the    *)
(* request it was generated for.                                           *)
(***************************************************************************)
EXTENDS Naturals, Sequences

CONSTANTS
    ExplicitHost,     \* the configuration names a host and a port
    SupportsSsl,      \* Qt was built with OpenSSL
    LocalSecurity,    \* configuration().streamSecurityMode()
    UseSasl,          \* configuration().useSASLAuthentication()
    KeepAliveInterval,\* configuration().keepAliveInterval(), in seconds
    KeepAliveTimeout, \* configuration().keepAliveTimeout(), in seconds
    VersionOffers,    \* may the server's stream header carry a version?
    TlsOffers,        \* <starttls/> in the features of a clear stream
    SaslOffers,       \* the SASL mechanisms in the features
    NonSaslOffers,    \* the old iq-auth feature
    SessionOffers,    \* the session feature
    Refusals,         \* the requests the server may answer with an error
    LinkMayDie        \* may the network drop packets silently?

Modes == {"Disabled", "Enabled", "Required"}
Requests == {"stream", "features", "starttls", "auth", "response", "bind",
             "session", "nonSaslQuery", "nonSasl"}
Signals == {"stateChanged", "connected", "disconnected", "SocketError",
            "XmppStreamError", "KeepAliveError"}

ASSUME ConfigAssumption ==
    /\ {ExplicitHost, SupportsSsl, UseSasl, LinkMayDie} \subseteq BOOLEAN
    /\ {KeepAliveInterval, KeepAliveTimeout} \subseteq Nat
    /\ LocalSecurity \in {"TLSDisabled", "TLSEnabled", "TLSRequired"}

ASSUME OfferAssumption ==
    /\ VersionOffers \subseteq BOOLEAN /\ VersionOffers # {}
    /\ TlsOffers \subseteq Modes /\ TlsOffers # {}
    /\ SaslOffers \subseteq {"none", "unsupported", "common"} /\ SaslOffers # {}
    /\ NonSaslOffers \subseteq BOOLEAN /\ NonSaslOffers # {}
    /\ SessionOffers \subseteq BOOLEAN /\ SessionOffers # {}
    /\ Refusals \subseteq Requests

VARIABLES
    socket,           \* QAbstractSocket::SocketState
    pendingClose,     \* disconnectFromHost() was called while connecting
    starting,         \* stateChanged was emitted, connected() is not yet
    tls,              \* "off", "handshake" or "on" (socket()->isEncrypted())
    dns,              \* a QDnsLookup is running
    d,                \* QXmppOutgoingClientPrivate: stream and session
    xmppStreamError,  \* d->xmppStreamError
    pingTimer,        \* d->pingTimer is active
    timeoutTimer,     \* d->timeoutTimer is active
    requests,         \* requests the server has not answered, oldest first
    server,           \* how far the server has let this connection come
    link,             \* "up", "dead" or "ended" (by a stream error)
    sig               \* the signals emitted by the last step

socketVars == <<socket, pendingClose, starting, tls>>
timers     == <<pingTimer, timeoutTimer>>
remote     == <<requests, server, link>>
streamVars == <<socket, pendingClose, starting, tls, dns, d, xmppStreamError,
                pingTimer, timeoutTimer, requests, server, link, sig>>

NoId == "none"

\* The per-stream part of the private data: streamVersion, bindId,
\* sessionId and nonSASLAuthId are empty or not, saslClient null or not.
StreamData == [streamVersion    : BOOLEAN,
               saslClient       : BOOLEAN,
               bindId           : {NoId, "bind"},
               sessionId        : {NoId, "session"},
               nonSASLAuthId    : {NoId, "nonSasl"},
               sessionAvailable : BOOLEAN,
               sessionStarted   : BOOLEAN]

StreamTypeOK ==
    /\ socket \in {"Unconnected", "Connecting", "Connected", "Closing"}
    /\ pendingClose \in BOOLEAN
    /\ starting \in BOOLEAN
    /\ tls \in {"off", "handshake", "on"}
    /\ dns \in BOOLEAN
    /\ d \in StreamData
    /\ xmppStreamError \in {"UndefinedCondition", "Conflict", "NotAuthorized"}
    /\ pingTimer \in BOOLEAN
    /\ timeoutTimer \in BOOLEAN
    /\ requests \in Seq(Requests)
    /\ server \in {"none", "authed", "bound", "session"}
    /\ link \in {"up", "dead", "ended"}
    /\ sig \subseteq Signals

\* sessionStarted is not initialised by the constructor.
StreamInit ==
    /\ socket = "Unconnected" /\ pendingClose = FALSE /\ starting = FALSE
    /\ tls = "off" /\ dns = FALSE
    /\ \E started \in BOOLEAN :
         d = [streamVersion |-> FALSE, saslClient |-> FALSE, bindId |-> NoId,
              sessionId |-> NoId, nonSASLAuthId |-> NoId,
              sessionAvailable |-> FALSE, sessionStarted |-> started]
    /\ xmppStreamError = "UndefinedCondition"
    /\ pingTimer = FALSE /\ timeoutTimer = FALSE
    /\ requests = <<>> /\ server = "none" /\ link = "up"
    /\ sig = {}

IsConnected == socket = "Connected" /\ d.sessionStarted

-----------------------------------------------------------------------------
(* The socket.                                                             *)

\* (Definitions marked "Mutant" are faulty variants of the definition that
\* follows them; no specification uses them.)

\* Mutant: connects whatever the state of the socket.
ConnectSocketAlways ==
    /\ socket' = "Connecting" /\ sig' = {"stateChanged"}
    /\ UNCHANGED <<pendingClose, starting, tls, d, xmppStreamError, timers, remote>>

\* QAbstractSocket::connectToHost: refused with a warning unless unconnected.
ConnectSocket ==
    /\ IF socket = "Unconnected"
       THEN socket' = "Connecting" /\ sig' = {"stateChanged"}
       ELSE socket' = socket /\ sig' = {}
    /\ UNCHANGED <<pendingClose, starting, tls, d, xmppStreamError, timers, remote>>

\* Mutant: pingStop() forgets the timeout timer.
ClosedKeepsTimeout(signals) ==
    /\ socket' = "Unconnected"
    /\ pendingClose' = FALSE /\ starting' = FALSE /\ tls' = "off"
    /\ pingTimer' = FALSE /\ timeoutTimer' = timeoutTimer
    /\ requests' = <<>> /\ server' = "none" /\ link' = "up"
    /\ sig' = signals \cup {"stateChanged", "disconnected"}

\* The socket is closed: disconnected() is relayed and stops both timers.
Closed(signals) ==
    /\ socket' = "Unconnected"
    /\ pendingClose' = FALSE /\ starting' = FALSE /\ tls' = "off"
    /\ pingTimer' = FALSE /\ timeoutTimer' = FALSE
    /\ requests' = <<>> /\ server' = "none" /\ link' = "up"
    /\ sig' = signals \cup {"stateChanged", "disconnected"}

\* disconnectFromHost(): at once, or only when unsent data has been written
\* (ClosingState), or, while connecting, as soon as the connection is up.
\* The caller determines d, xmppStreamError and dns.
DisconnectFromHost(timeout, signals) ==
    \/ /\ socket \in {"Unconnected", "Connecting"}
       /\ pendingClose' = (socket = "Connecting")
       /\ timeoutTimer' = timeout
       /\ sig' = signals
       /\ UNCHANGED <<socket, starting, tls, pingTimer, remote>>
    \/ /\ socket \in {"Connected", "Closing"}
       /\ Closed(signals)
    \/ /\ socket \in {"Connected", "Closing"}
       /\ socket' = "Closing"
       /\ sig' = signals \cup (IF socket = "Connected" THEN {"stateChanged"} ELSE {})
       /\ timeoutTimer' = timeout
       /\ starting' = FALSE /\ pendingClose' = FALSE
       /\ requests' = <<>>                   \* nothing more is read
       /\ UNCHANGED <<tls, pingTimer, server, link>>

ConnectToHost ==
    \/ ExplicitHost /\ ConnectSocket /\ UNCHANGED dns
    \/ /\ ~ExplicitHost
       /\ dns' = TRUE /\ sig' = {}
       /\ UNCHANGED <<socketVars, d, xmppStreamError, timers, remote>>

DnsLookupFinished == dns /\ dns' = FALSE /\ ConnectSocket

\* The TCP connection is up: Qt emits stateChanged(ConnectedState) and then,
\* from the same call, connected(), which is _q_socketConnected.
SocketUp ==
    /\ socket = "Connecting"
    /\ socket' = "Connected" /\ starting' = TRUE
    /\ sig' = {"stateChanged"}
    /\ UNCHANGED <<pendingClose, tls, dns, d, xmppStreamError, timers, remote>>

ConnectFails ==
    /\ socket = "Connecting"
    /\ socket' = "Unconnected" /\ pendingClose' = FALSE
    /\ sig' = {"stateChanged", "SocketError"}
    /\ UNCHANGED <<starting, tls, dns, d, xmppStreamError, timers, remote>>

\* Mutant: handleStart() does not reset sessionStarted.
FreshStreamKeepsSession ==
    [d EXCEPT !.streamVersion = FALSE, !.saslClient = FALSE, !.bindId = NoId,
              !.sessionId = NoId, !.sessionAvailable = FALSE]

\* handleStart(): forget the stream, send a new stream header.
FreshStream == [d EXCEPT !.streamVersion = FALSE, !.saslClient = FALSE,
                         !.bindId = NoId, !.sessionId = NoId,
                         !.sessionAvailable = FALSE, !.sessionStarted = FALSE]

HandleStart ==
    /\ d' = FreshStream
    /\ requests' = Append(requests, "stream")

SocketConnected ==
    /\ starting
    /\ \/ /\ ~pendingClose
          /\ HandleStart
          /\ starting' = FALSE /\ sig' = {}
          /\ UNCHANGED <<socket, pendingClose, tls, timers, server, link>>
       \/ /\ pendingClose
          /\ d' = FreshStream
          /\ DisconnectFromHost(timeoutTimer, {})
    /\ UNCHANGED <<dns, xmppStreamError>>

SocketEncrypted ==
    /\ socket = "Connected" /\ tls = "handshake" /\ link = "up"
    /\ tls' = "on"
    /\ HandleStart
    /\ sig' = {}
    /\ UNCHANGED <<socket, pendingClose, starting, dns, xmppStreamError, timers,
                   server, link>>

\* The peer closes or resets the connection, the TLS handshake fails...: Qt
\* reports the error before it closes the socket.
SocketFails ==
    /\ socket \in {"Connected", "Closing"} /\ ~starting
    /\ Closed({"SocketError"})
    /\ UNCHANGED <<dns, d, xmppStreamError>>

CloseCompletes ==
    /\ socket = "Closing"
    /\ Closed({})
    /\ UNCHANGED <<dns, d, xmppStreamError>>

LinkDies ==
    /\ LinkMayDie
    /\ socket = "Connected" /\ ~starting /\ link = "up"
    /\ link' = "dead" /\ sig' = {}
    /\ UNCHANGED <<socketVars, dns, d, xmppStreamError, timers, requests, server>>

-----------------------------------------------------------------------------
(* Stanzas from the server.  Reading(r) holds when the answer to request r *)
(* is the next thing to be read from the socket.                           *)

CanRead == socket = "Connected" /\ ~starting /\ tls # "handshake" /\ link = "up"

Reading(r) == CanRead /\ requests # <<>> /\ Head(requests) = r

Refused(r) == Reading(r) /\ r \in Refusals

\* What is left to answer once the oldest request is, followed by new ones.
Answered(new) == requests' = Tail(requests) \o new

\* A server that has negotiated TLS or SASL speaks XMPP 1.0.
VersionsNow == IF server = "none" /\ tls = "off" THEN VersionOffers ELSE {TRUE}

\* handleStream: a header without version starts the old authentication.
StreamHeader ==
    /\ Reading("stream")
    /\ \E version \in VersionsNow :
         /\ d' = [d EXCEPT !.streamVersion = version]
         /\ Answered(IF version THEN <<"features">> ELSE <<"nonSaslQuery">>)
    /\ sig' = {}
    /\ UNCHANGED <<socketVars, dns, xmppStreamError, timers, server, link>>

\* What a server may offer: authentication before it, binding after it, and
\* no second TLS layer.
Features == {f \in [tls : Modes, sasl : SaslOffers, nonSasl : NonSaslOffers,
                    bind : BOOLEAN, session : BOOLEAN] :
                /\ IF tls = "on" THEN f.tls = "Disabled" ELSE f.tls \in TlsOffers
                /\ f.bind = (server # "none")
                /\ IF f.bind THEN f.session \in SessionOffers ELSE ~f.session}

\* After authentication the server lists no mechanism any more.
FeaturesNow == {IF f.bind THEN [f EXCEPT !.sasl = "none", !.nonSasl = FALSE] ELSE f
                  : f \in Features}

\* Mutant: only a missing SSL support is looked at.
TlsRefusedNoSslOnly(f) ==
    /\ tls = "off"
    /\ ~SupportsSsl /\ (LocalSecurity = "TLSRequired" \/ f.tls = "Required")

TlsRefused(f) ==
    /\ tls = "off"
    /\ \/ ~SupportsSsl /\ (LocalSecurity = "TLSRequired" \/ f.tls = "Required")
       \/ LocalSecurity = "TLSRequired" /\ f.tls = "Disabled"

TlsWanted(f) == /\ tls = "off" /\ SupportsSsl
                /\ LocalSecurity # "TLSDisabled" /\ f.tls # "Disabled"

NonSaslChosen(f) == f.nonSasl /\ (f.sasl = "none" \/ ~UseSasl)

\* The SASL request or the non-SASL query, then the bind request, as the
\* features ask for them.
AuthRequests(f) ==
    (IF NonSaslChosen(f) THEN <<"nonSaslQuery">>
     ELSE IF f.sasl = "common" THEN <<"auth">> ELSE <<>>)
    \o (IF f.bind THEN <<"bind">> ELSE <<>>)

\* "SASL initial response failed" (QXmppOutgoingClient.cpp:382-386) never happens: at their
\* first step all four mechanisms respond (QXmppSasl.cpp:320, :346, :423, :468).
FeaturesAccepted(f) ==
    /\ ~TlsRefused(f) /\ ~TlsWanted(f)
    /\ NonSaslChosen(f) \/ f.sasl # "unsupported"
    /\ d' = [d EXCEPT !.saslClient = @ \/ (~NonSaslChosen(f) /\ f.sasl = "common"),
                      !.bindId = IF f.bind THEN "bind" ELSE @,
                      !.sessionAvailable = @ \/ f.session]
    /\ Answered(AuthRequests(f))
    /\ timeoutTimer' = FALSE /\ sig' = {}
    /\ UNCHANGED <<socketVars, pingTimer, server, link>>

FeaturesStartTls(f) ==
    /\ ~TlsRefused(f) /\ TlsWanted(f)
    /\ Answered(<<"starttls">>)
    /\ timeoutTimer' = FALSE /\ sig' = {}
    /\ UNCHANGED <<socketVars, d, pingTimer, server, link>>

FeaturesRefused(f) ==
    /\ \/ TlsRefused(f)
       \/ ~TlsWanted(f) /\ ~NonSaslChosen(f) /\ f.sasl = "unsupported"
    /\ DisconnectFromHost(FALSE, {})
    /\ UNCHANGED d

StreamFeatures ==
    /\ Reading("features")
    /\ \E f \in FeaturesNow :
         FeaturesAccepted(f) \/ FeaturesStartTls(f) \/ FeaturesRefused(f)
    /\ UNCHANGED <<dns, xmppStreamError>>

\* <proceed/> starts the handshake; <failure/> is not looked at, and the
\* server closes the connection.
TlsProceed ==
    /\ Reading("starttls")
    /\ tls' = "handshake"
    /\ Answered(<<>>)
    /\ timeoutTimer' = FALSE /\ sig' = {}
    /\ UNCHANGED <<socket, pendingClose, starting, dns, d, xmppStreamError,
                   pingTimer, server, link>>

SaslRequest == \E r \in {"auth", "response"} : Reading(r) /\ d.saslClient

SaslSuccess ==
    /\ SaslRequest
    /\ server' = "authed"
    /\ d' = FreshStream
    /\ Answered(<<"stream">>)
    /\ timeoutTimer' = FALSE /\ sig' = {}
    /\ UNCHANGED <<socketVars, dns, xmppStreamError, pingTimer, link>>

\* The client answers the challenge, or cannot and hangs up.
SaslChallenge ==
    /\ Reading("auth") /\ d.saslClient
    /\ \/ /\ Answered(<<"response">>)
          /\ timeoutTimer' = FALSE /\ sig' = {}
          /\ UNCHANGED <<socketVars, pingTimer, server, link>>
       \/ /\ "response" \in Refusals
          /\ DisconnectFromHost(FALSE, {})
    /\ UNCHANGED <<dns, d, xmppStreamError>>

SaslFailure ==
    /\ SaslRequest
    /\ "auth" \in Refusals
    /\ xmppStreamError' \in {"NotAuthorized", "UndefinedCondition"}
    /\ DisconnectFromHost(FALSE, {"XmppStreamError"})
    /\ UNCHANGED <<dns, d>>

\* A bind result asks for a session if one is offered; a bind error, like a
\* result when no session is offered, leaves the stream as it is.
BindAnswer ==
    /\ Reading("bind") /\ d.bindId = "bind"
    /\ \/ /\ server' = "bound"
          /\ d' = [d EXCEPT !.sessionId = IF d.sessionAvailable THEN "session" ELSE @]
          /\ Answered(IF d.sessionAvailable THEN <<"session">> ELSE <<>>)
       \/ /\ Refused("bind")
          /\ Answered(<<>>)
          /\ UNCHANGED <<server, d>>
    /\ timeoutTimer' = FALSE /\ sig' = {}
    /\ UNCHANGED <<socketVars, dns, xmppStreamError, pingTimer, link>>

\* sessionStarted and the connected() signal, which is pingStart.
SessionUp ==
    /\ d' = [d EXCEPT !.sessionStarted = TRUE]
    /\ pingTimer' = (pingTimer \/ KeepAliveInterval > 0)
    /\ timeoutTimer' = FALSE
    /\ sig' = {"connected"}

\* The type of the answer to the session request is not looked at.
SessionAnswer ==
    /\ Reading("session") /\ d.sessionId = "session"
    /\ server' = "session" \/ (Refused("session") /\ server' = server)
    /\ Answered(<<>>)
    /\ SessionUp
    /\ UNCHANGED <<socketVars, dns, xmppStreamError, link>>

\* XEP-0078: the fields the server asks for, then the credentials.
NonSaslFields ==
    /\ Reading("nonSaslQuery")
    /\ \/ /\ d' = [d EXCEPT !.nonSASLAuthId = "nonSasl"]
          /\ Answered(<<"nonSasl">>)
          /\ timeoutTimer' = FALSE /\ sig' = {}
          /\ UNCHANGED <<socketVars, pingTimer, server, link>>
       \/ /\ Refused("nonSaslQuery")          \* neither password nor digest
          /\ DisconnectFromHost(FALSE, {})
          /\ UNCHANGED d
       \/ /\ Refused("nonSaslQuery")          \* an iq of type error
          /\ Answered(<<>>)
          /\ timeoutTimer' = FALSE /\ sig' = {}
          /\ UNCHANGED <<socketVars, d, pingTimer, server, link>>
    /\ UNCHANGED <<dns, xmppStreamError>>

NonSaslAnswer ==
    /\ Reading("nonSasl") /\ d.nonSASLAuthId = "nonSasl"
    /\ Answered(<<>>)
    /\ \/ server' = "session" /\ SessionUp
       \/ /\ Refused("nonSasl")
          /\ timeoutTimer' = FALSE /\ sig' = {}
          /\ UNCHANGED <<d, pingTimer, server>>
    /\ UNCHANGED <<socketVars, dns, xmppStreamError, link>>

\* <stream:error/>: the server has ended the stream and closes it.  Another
\* session can be in conflict only with a resource that is bound.
StreamError ==
    /\ CanRead
    /\ link' = "ended" /\ requests' = <<>>
    /\ xmppStreamError' \in IF server \in {"bound", "session"}
                           THEN {"Conflict", "UndefinedCondition"}
                           ELSE {"UndefinedCondition"}
    /\ timeoutTimer' = FALSE
    /\ sig' = {"XmppStreamError"}
    /\ UNCHANGED <<socketVars, dns, d, pingTimer, server>>

\* Whitespace, a message, a presence, an iq, the answer to a ping: whatever
\* it is, it stops the timeout.
OtherStanza ==
    /\ CanRead /\ d.sessionStarted
    /\ timeoutTimer' = FALSE /\ sig' = {}
    /\ UNCHANGED <<socketVars, dns, d, xmppStreamError, pingTimer, remote>>

-----------------------------------------------------------------------------
(* Keep-alive.                                                             *)

\* A ping starts the timeout again: with a timeout longer than the interval
\* the next ping always comes first, and no timeout ever occurs.
PingSend ==
    /\ pingTimer
    /\ timeoutTimer => KeepAliveInterval <= KeepAliveTimeout
    /\ timeoutTimer' = (timeoutTimer \/ KeepAliveTimeout > 0) /\ sig' = {}
    /\ UNCHANGED <<socketVars, dns, d, xmppStreamError, pingTimer, remote>>

PingTimeout ==
    /\ timeoutTimer /\ KeepAliveTimeout <= KeepAliveInterval
    /\ DisconnectFromHost(FALSE, {"KeepAliveError"})
    /\ UNCHANGED <<dns, d, xmppStreamError>>

Negotiation ==
    \/ StreamHeader \/ StreamFeatures \/ TlsProceed \/ SocketEncrypted
    \/ SaslSuccess \/ SaslChallenge \/ SaslFailure
    \/ BindAnswer \/ SessionAnswer \/ NonSaslFields \/ NonSaslAnswer

\* While stateChanged is being delivered nothing but connected() can follow.
StreamStep ==
    \/ SocketConnected
    \/ /\ ~starting
       /\ \/ DnsLookupFinished \/ SocketUp \/ ConnectFails
          \/ SocketFails \/ CloseCompletes \/ LinkDies
          \/ Negotiation \/ StreamError \/ OtherStanza
          \/ PingSend \/ PingTimeout
===============================================================================
