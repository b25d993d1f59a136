-------------------------- MODULE XmppClient_proofs --------------------------
(***************************************************************************)
(* Proofs about XmppClient for every configuration and every server.       *)
(***************************************************************************)
EXTENDS XmppClient, TLAPS

\* A closed socket leaves the stream's variables in their types.
LEMMA ClosedTypes ==
    ASSUME StreamTypeOK, NEW s \in SUBSET Signals, Closed(s),
           dns' \in BOOLEAN, d' \in StreamData,
           xmppStreamError' \in {"UndefinedCondition", "Conflict", "NotAuthorized"}
    PROVE  StreamTypeOK'
<1>1. sig' \subseteq Signals
  BY DEF Closed, Signals
<1>2. requests' \in Seq(Requests)
  BY DEF Closed
<1> QED BY <1>1, <1>2 DEF Closed, StreamTypeOK

\* What a hanging-up step leaves of the stream's variables has its type.
LEMMA DisconnectTypes ==
    ASSUME StreamTypeOK, NEW t \in BOOLEAN, NEW s \in SUBSET Signals,
           DisconnectFromHost(t, s), dns' \in BOOLEAN, d' \in StreamData,
           xmppStreamError' \in {"UndefinedCondition", "Conflict", "NotAuthorized"}
    PROVE  StreamTypeOK'
<1>1. CASE socket \in {"Unconnected", "Connecting"} /\ UNCHANGED <<socket, remote>>
           /\ UNCHANGED <<starting, tls, pingTimer>>
           /\ pendingClose' = (socket = "Connecting") /\ timeoutTimer' = t /\ sig' = s
  BY <1>1 DEF StreamTypeOK, remote
<1>2. CASE Closed(s)
  BY <1>2, ClosedTypes
<1>3. CASE /\ socket' = "Closing" /\ timeoutTimer' = t
           /\ starting' = FALSE /\ pendingClose' = FALSE /\ requests' = <<>>
           /\ sig' = s \cup (IF socket = "Connected" THEN {"stateChanged"} ELSE {})
           /\ UNCHANGED <<tls, pingTimer, server, link>>
  <2>1. sig' \subseteq Signals
    BY <1>3 DEF Signals
  <2>2. requests' \in Seq(Requests)
    BY <1>3
  <2> QED BY <1>3, <2>1, <2>2 DEF StreamTypeOK
<1> QED BY <1>1, <1>2, <1>3 DEF DisconnectFromHost

LEMMA FreshStreamType == ASSUME d \in StreamData PROVE FreshStream \in StreamData
BY DEF FreshStream, StreamData, NoId

LEMMA AnsweredType ==
    ASSUME requests \in Seq(Requests), requests # <<>>,
           NEW new \in Seq(Requests), Answered(new)
    PROVE  requests' \in Seq(Requests)
BY DEF Answered

LEMMA ReadingType ==
    ASSUME requests \in Seq(Requests), NEW r, Reading(r), NEW new \in Seq(Requests), Answered(new)
    PROVE  requests' \in Seq(Requests)
BY AnsweredType DEF Reading

-----------------------------------------------------------------------------
(* Type correctness.                                                       *)

LEMMA AuthRequestsType == ASSUME NEW f PROVE AuthRequests(f) \in Seq(Requests)
<1>1. /\ <<>> \in Seq(Requests) /\ <<"nonSaslQuery">> \in Seq(Requests)
      /\ <<"auth">> \in Seq(Requests) /\ <<"bind">> \in Seq(Requests)
  BY DEF Requests
<1> DEFINE first == IF NonSaslChosen(f) THEN <<"nonSaslQuery">>
                    ELSE IF f.sasl = "common" THEN <<"auth">> ELSE <<>>
           second == IF f.bind THEN <<"bind">> ELSE <<>>
<1>2. first \in Seq(Requests) /\ second \in Seq(Requests)
  BY <1>1
<1> HIDE DEF first, second
<1>3. first \o second \in Seq(Requests)
  BY <1>2
<1> QED BY <1>3 DEF AuthRequests, first, second

LEMMA ConnectTypes ==
    ASSUME StreamTypeOK, ConnectSocket, dns' \in BOOLEAN
    PROVE  StreamTypeOK'
BY DEF ConnectSocket, StreamTypeOK, Signals, timers, remote

LEMMA ConnectToHostTypes == ASSUME StreamTypeOK, ConnectToHost PROVE StreamTypeOK'
<1>1. CASE ExplicitHost /\ ConnectSocket /\ UNCHANGED dns
  BY <1>1, ConnectTypes DEF StreamTypeOK
<1>2. CASE /\ dns' = TRUE /\ sig' = {}
           /\ UNCHANGED <<socketVars, d, xmppStreamError, timers, remote>>
  BY <1>2 DEF StreamTypeOK, socketVars, timers, remote
<1> QED BY <1>1, <1>2 DEF ConnectToHost

\* What StreamTypeOK needs of a step that leaves the connection where it is.
LEMMA StepTypes ==
    ASSUME StreamTypeOK, d' \in StreamData, requests' \in Seq(Requests),
           sig' \subseteq Signals, timeoutTimer' \in BOOLEAN, pingTimer' \in BOOLEAN,
           server' \in {"none", "authed", "bound", "session"}, link' = link,
           socket' = socket, pendingClose' = pendingClose, starting' \in BOOLEAN,
           tls' \in {"off", "handshake", "on"}, dns' = dns,
           xmppStreamError' = xmppStreamError
    PROVE  StreamTypeOK'
BY DEF StreamTypeOK

LEMMA SocketTypes ==
    ASSUME StreamTypeOK,
           \/ DnsLookupFinished \/ SocketUp \/ ConnectFails \/ SocketConnected
           \/ SocketEncrypted \/ SocketFails \/ CloseCompletes \/ LinkDies
    PROVE  StreamTypeOK'
<1> USE DEF StreamTypeOK
<1>1. CASE DnsLookupFinished
  BY <1>1, ConnectTypes DEF DnsLookupFinished
<1>2. CASE SocketUp
  BY <1>2 DEF SocketUp, Signals, timers, remote
<1>3. CASE ConnectFails
  <2>1. sig' \subseteq Signals
    BY <1>3 DEF ConnectFails, Signals
  <2>2. socket' = "Unconnected" /\ pendingClose' = FALSE
    BY <1>3 DEF ConnectFails
  <2>3. /\ starting' = starting /\ tls' = tls /\ dns' = dns
        /\ xmppStreamError' = xmppStreamError
        /\ pingTimer' = pingTimer /\ timeoutTimer' = timeoutTimer
        /\ server' = server /\ link' = link
    BY <1>3 DEF ConnectFails, timers, remote
  <2>4. d' \in StreamData /\ requests' \in Seq(Requests)
    BY <1>3 DEF ConnectFails, remote
  <2> QED BY <2>1, <2>2, <2>3, <2>4
<1>4. CASE SocketConnected
  <2>1. CASE /\ HandleStart /\ starting' = FALSE /\ sig' = {}
             /\ UNCHANGED <<socket, pendingClose, tls, timers, server, link>>
             /\ UNCHANGED <<dns, xmppStreamError>>
    <3>1. requests' \in Seq(Requests)
      BY <2>1 DEF HandleStart, Requests
    <3>2. d' \in StreamData
      BY <2>1, FreshStreamType DEF HandleStart
    <3>3. sig' \subseteq Signals /\ starting' \in BOOLEAN
      BY <2>1
    <3>4. /\ socket' = socket /\ pendingClose' = pendingClose /\ tls' = tls
          /\ pingTimer' = pingTimer /\ timeoutTimer' = timeoutTimer
          /\ server' = server /\ link' = link /\ dns' = dns
          /\ xmppStreamError' = xmppStreamError
      BY <2>1 DEF timers
    <3> QED BY <3>1, <3>2, <3>3, <3>4, StepTypes
  <2>2. CASE /\ d' = FreshStream /\ DisconnectFromHost(timeoutTimer, {})
             /\ UNCHANGED <<dns, xmppStreamError>>
    BY <2>2, DisconnectTypes, FreshStreamType
  <2> QED BY <1>4, <2>1, <2>2 DEF SocketConnected
<1>5. CASE SocketEncrypted
  <2>1. requests' \in Seq(Requests)
    BY <1>5 DEF SocketEncrypted, HandleStart, Requests
  <2> QED BY <1>5, <2>1, FreshStreamType DEF SocketEncrypted, HandleStart, timers
<1>6. CASE SocketFails
  <2>1. {"SocketError"} \in SUBSET Signals
    BY DEF Signals
  <2> QED BY <1>6, <2>1, ClosedTypes DEF SocketFails
<1>7. CASE CloseCompletes
  BY <1>7, ClosedTypes DEF CloseCompletes
<1>8. CASE LinkDies
  BY <1>8 DEF LinkDies, socketVars, timers
<1> QED BY <1>1, <1>2, <1>3, <1>4, <1>5, <1>6, <1>7, <1>8

\* What StreamTypeOK needs of a stanza that keeps the connection.
LEMMA StanzaTypes ==
    ASSUME StreamTypeOK, d' \in StreamData, requests' \in Seq(Requests),
           timeoutTimer' = FALSE, sig' = {}, pingTimer' = pingTimer,
           server' \in {"none", "authed", "bound", "session"}, link' = link,
           socket' = socket, pendingClose' = pendingClose, starting' = starting,
           tls' \in {"off", "handshake", "on"}, dns' = dns,
           xmppStreamError' = xmppStreamError
    PROVE  StreamTypeOK'
<1>1. sig' \subseteq Signals
  OBVIOUS
<1> QED BY <1>1 DEF StreamTypeOK

LEMMA NegotiationTypes == ASSUME StreamTypeOK, Negotiation PROVE StreamTypeOK'
<1> USE DEF StreamTypeOK
<1>0. {} \subseteq Signals /\ {"connected"} \subseteq Signals
      /\ {"XmppStreamError"} \subseteq Signals
  BY DEF Signals
<1>a. /\ <<>> \in Seq(Requests) /\ <<"features">> \in Seq(Requests)
      /\ <<"nonSaslQuery">> \in Seq(Requests) /\ <<"starttls">> \in Seq(Requests)
      /\ <<"stream">> \in Seq(Requests) /\ <<"response">> \in Seq(Requests)
      /\ <<"session">> \in Seq(Requests) /\ <<"nonSasl">> \in Seq(Requests)
  BY DEF Requests
<1>1. CASE StreamHeader
  <2>1. PICK version \in VersionsNow :
          /\ d' = [d EXCEPT !.streamVersion = version]
          /\ Answered(IF version THEN <<"features">> ELSE <<"nonSaslQuery">>)
    BY <1>1 DEF StreamHeader
  <2>2. version \in BOOLEAN
    BY OfferAssumption DEF VersionsNow
  <2>3. d' \in StreamData
    BY <2>1, <2>2 DEF StreamData
  <2>4. requests' \in Seq(Requests)
    BY <1>1, <1>a, <2>1, <2>2, ReadingType DEF StreamHeader
  <2> QED BY <1>0, <1>1, <2>3, <2>4 DEF StreamHeader, socketVars, timers
<1>2. CASE StreamFeatures
  <2>1. PICK f \in FeaturesNow : FeaturesAccepted(f) \/ FeaturesStartTls(f) \/ FeaturesRefused(f)
    BY <1>2 DEF StreamFeatures
  <2>2. f.bind \in BOOLEAN /\ f.session \in BOOLEAN
    <3>1. PICK offer \in Features :
            f = IF offer.bind THEN [offer EXCEPT !.sasl = "none", !.nonSasl = FALSE]
                ELSE offer
      BY DEF FeaturesNow
    <3>2. offer \in [tls : Modes, sasl : SaslOffers, nonSasl : NonSaslOffers,
                     bind : BOOLEAN, session : BOOLEAN]
      BY <3>1 DEF Features
    <3>3. f.bind = offer.bind /\ f.session = offer.session
      BY <3>1, <3>2
    <3> QED BY <3>2, <3>3
  <2>3. CASE FeaturesAccepted(f)
    <3>1. d' \in StreamData
      <4>1. PICK saslClient \in BOOLEAN, bindId \in {NoId, "bind"},
                 sessionAvailable \in BOOLEAN :
              d' = [d EXCEPT !.saslClient = saslClient, !.bindId = bindId,
                             !.sessionAvailable = sessionAvailable]
        <5>1. d.saslClient \in BOOLEAN /\ d.bindId \in {NoId, "bind"}
              /\ d.sessionAvailable \in BOOLEAN
          BY DEF StreamData
        <5>2. /\ (d.saslClient \/ (~NonSaslChosen(f) /\ f.sasl = "common")) \in BOOLEAN
              /\ (IF f.bind THEN "bind" ELSE d.bindId) \in {NoId, "bind"}
              /\ (d.sessionAvailable \/ f.session) \in BOOLEAN
          BY <2>2, <5>1
        <5> QED BY <2>3, <5>2 DEF FeaturesAccepted
      <4> QED BY <4>1 DEF StreamData
    <3>2. requests' \in Seq(Requests)
      BY <1>2, <2>3, AuthRequestsType, ReadingType DEF StreamFeatures, FeaturesAccepted
    <3> QED BY <1>2, <2>3, <3>1, <3>2, StanzaTypes
         DEF StreamFeatures, FeaturesAccepted, socketVars
  <2>4. CASE FeaturesStartTls(f)
    <3>1. requests' \in Seq(Requests)
      BY <1>2, <1>a, <2>4, ReadingType DEF StreamFeatures, FeaturesStartTls
    <3> QED BY <1>2, <2>4, <3>1, StanzaTypes
         DEF StreamFeatures, FeaturesStartTls, socketVars
  <2>5. CASE FeaturesRefused(f)
    BY <1>0, <1>2, <2>5, DisconnectTypes DEF StreamFeatures, FeaturesRefused
  <2> QED BY <2>1, <2>3, <2>4, <2>5
<1>3. CASE TlsProceed
  <2>1. requests' \in Seq(Requests)
    BY <1>3, <1>a, ReadingType DEF TlsProceed
  <2> QED BY <1>0, <1>3, <2>1, StepTypes DEF TlsProceed
<1>4. CASE SocketEncrypted
  BY <1>4, SocketTypes
<1>5. CASE SaslSuccess
  <2>1. requests' \in Seq(Requests)
    BY <1>5, <1>a, ReadingType DEF SaslSuccess, SaslRequest
  <2> QED BY <1>0, <1>5, <2>1, FreshStreamType, StanzaTypes DEF SaslSuccess, socketVars
<1>6. CASE SaslChallenge
  <2>1. CASE /\ Answered(<<"response">>) /\ timeoutTimer' = FALSE /\ sig' = {}
             /\ UNCHANGED <<socketVars, pingTimer, server, link>>
    <3>1. requests' \in Seq(Requests)
      BY <1>6, <1>a, <2>1, ReadingType DEF SaslChallenge
    <3> QED BY <1>6, <2>1, <3>1, StanzaTypes DEF SaslChallenge, socketVars
  <2>2. CASE DisconnectFromHost(FALSE, {})
    BY <1>0, <1>6, <2>2, DisconnectTypes DEF SaslChallenge
  <2> QED BY <1>6, <2>1, <2>2 DEF SaslChallenge
<1>7. CASE SaslFailure
  BY <1>0, <1>7, DisconnectTypes DEF SaslFailure
<1>8. CASE BindAnswer
  <2>1. d' \in StreamData
    BY <1>8 DEF BindAnswer, StreamData
  <2>2. requests' \in Seq(Requests)
    BY <1>8, <1>a, ReadingType DEF BindAnswer
  <2> QED BY <1>8, <2>1, <2>2, StanzaTypes DEF BindAnswer, socketVars
<1>9. CASE SessionAnswer
  <2>1. d' \in StreamData
    BY <1>9 DEF SessionAnswer, SessionUp, StreamData
  <2>2. requests' \in Seq(Requests)
    BY <1>9, <1>a, ReadingType DEF SessionAnswer
  <2>3. pingTimer' \in BOOLEAN
    BY <1>9, ConfigAssumption DEF SessionAnswer, SessionUp
  <2>4. sig' \subseteq Signals /\ timeoutTimer' = FALSE /\ link' = link
        /\ server' \in {"none", "authed", "bound", "session"}
    BY <1>0, <1>9 DEF SessionAnswer, SessionUp
  <2>5. UNCHANGED <<socket, pendingClose, starting, tls, dns, xmppStreamError>>
    BY <1>9 DEF SessionAnswer, SessionUp, socketVars
  <2> QED BY <2>1, <2>2, <2>3, <2>4, <2>5, StepTypes
<1>10. CASE NonSaslFields
  <2>1. CASE DisconnectFromHost(FALSE, {}) /\ UNCHANGED d
    BY <1>0, <1>10, <2>1, DisconnectTypes DEF NonSaslFields
  <2>2. CASE /\ \/ d' = [d EXCEPT !.nonSASLAuthId = "nonSasl"] /\ Answered(<<"nonSasl">>)
                \/ UNCHANGED d /\ Answered(<<>>)
             /\ timeoutTimer' = FALSE /\ sig' = {}
             /\ UNCHANGED <<socketVars, pingTimer, server, link>>
    <3>1. d' \in StreamData
      BY <2>2 DEF StreamData
    <3>2. requests' \in Seq(Requests)
      BY <1>10, <1>a, <2>2, ReadingType DEF NonSaslFields
    <3> QED BY <1>10, <2>2, <3>1, <3>2, StanzaTypes DEF NonSaslFields, socketVars
  <2> QED BY <1>10, <2>1, <2>2 DEF NonSaslFields, socketVars
<1>11. CASE NonSaslAnswer
  <2>1. d' \in StreamData
    BY <1>11 DEF NonSaslAnswer, SessionUp, StreamData
  <2>2. requests' \in Seq(Requests)
    BY <1>11, <1>a, ReadingType DEF NonSaslAnswer
  <2>3. pingTimer' \in BOOLEAN
    BY <1>11, ConfigAssumption DEF NonSaslAnswer, SessionUp
  <2>4. sig' \subseteq Signals /\ timeoutTimer' = FALSE /\ link' = link
        /\ server' \in {"none", "authed", "bound", "session"}
    BY <1>0, <1>11 DEF NonSaslAnswer, SessionUp
  <2>5. UNCHANGED <<socket, pendingClose, starting, tls, dns, xmppStreamError>>
    BY <1>11 DEF NonSaslAnswer, SessionUp, socketVars
  <2> QED BY <2>1, <2>2, <2>3, <2>4, <2>5, StepTypes
<1> QED BY <1>1, <1>2, <1>3, <1>4, <1>5, <1>6, <1>7, <1>8, <1>9, <1>10, <1>11
        DEF Negotiation

LEMMA StreamStepTypes == ASSUME StreamTypeOK, StreamStep PROVE StreamTypeOK'
<1>0. {} \subseteq Signals /\ {"KeepAliveError"} \subseteq Signals
      /\ {"XmppStreamError"} \subseteq Signals
  BY DEF Signals
<1>1. CASE StreamError
  <2>1. sig' \subseteq Signals /\ requests' \in Seq(Requests)
    BY <1>0, <1>1 DEF StreamError
  <2>2. xmppStreamError' \in {"UndefinedCondition", "Conflict", "NotAuthorized"}
    BY <1>1 DEF StreamError
  <2> QED BY <1>1, <2>1, <2>2 DEF StreamError, StreamTypeOK, socketVars
<1>2. CASE OtherStanza
  <2>1. d' \in StreamData /\ requests' \in Seq(Requests)
        /\ server' \in {"none", "authed", "bound", "session"}
        /\ tls' \in {"off", "handshake", "on"}
    BY <1>2 DEF OtherStanza, StreamTypeOK, socketVars, remote
  <2> QED BY <1>2, <2>1, StanzaTypes DEF OtherStanza, socketVars, remote
<1>3. CASE PingSend
  <2>1. sig' \subseteq Signals /\ timeoutTimer' \in BOOLEAN
    BY <1>3 DEF PingSend
  <2> QED BY <1>3, <2>1 DEF PingSend, StreamTypeOK, socketVars, remote
<1>4. CASE PingTimeout
  BY <1>0, <1>4, DisconnectTypes DEF PingTimeout, StreamTypeOK
<1> QED BY <1>1, <1>2, <1>3, <1>4, SocketTypes, NegotiationTypes DEF StreamStep

\* The client's slots keep the client's variables in their types.
LEMMA ReactTypes ==
    ASSUME TypeOK, NEW timer \in {0, 1, 10, 20, 40, 60}, React(timer),
           sig' \subseteq Signals, StreamTypeOK',
           clientPresence' \in {"Available", "Unavailable"}, loggedOut' \in BOOLEAN
    PROVE  TypeOK'
<1>1. reconnectionTimer' \in {0, 1, 10, 20, 40, 60}
  BY DEF React, TimerAfterError, NextReconnectTime
<1>2. shown' \in {"Disconnected", "Connecting", "Connected"}
  BY DEF React, StateShown, State, TypeOK, ClientTypeOK, StreamTypeOK
<1>3. receivedConflict' \in BOOLEAN /\ told' \in BOOLEAN
  BY DEF React
<1>4. reconnectionTries' \in Nat
  BY DEF React, TypeOK, ClientTypeOK
<1> QED BY <1>1, <1>2, <1>3, <1>4 DEF TypeOK, ClientTypeOK

LEMMA QuietTypes ==
    ASSUME StreamTypeOK, sig' = {},
           UNCHANGED <<socketVars, dns, d, xmppStreamError, timers, remote>>
    PROVE  StreamTypeOK'
<1>1. sig' \subseteq Signals
  OBVIOUS
<1> QED BY <1>1 DEF StreamTypeOK, socketVars, timers, remote

LEMMA TypeStep == TypeOK /\ [Next]_vars => TypeOK'
<1> SUFFICES ASSUME TypeOK, [Next]_vars PROVE TypeOK'
  OBVIOUS
<1>0. /\ StreamTypeOK /\ {} \subseteq Signals
      /\ reconnectionTimer \in {0, 1, 10, 20, 40, 60} /\ 0 \in {0, 1, 10, 20, 40, 60}
      /\ clientPresence \in {"Available", "Unavailable"} /\ loggedOut \in BOOLEAN
      /\ timeoutTimer \in BOOLEAN /\ d \in StreamData /\ dns \in BOOLEAN
      /\ xmppStreamError \in {"UndefinedCondition", "Conflict", "NotAuthorized"}
  BY DEF TypeOK, ClientTypeOK, StreamTypeOK
<1>1. ASSUME StreamTypeOK' PROVE sig' \subseteq Signals
  BY <1>1 DEF StreamTypeOK
<1>2. CASE StreamEvent
  BY <1>0, <1>1, <1>2, StreamStepTypes, ReactTypes DEF StreamEvent
<1>3. CASE Reconnect
  <2>1. StreamTypeOK'
    BY <1>0, <1>3, ConnectToHostTypes, QuietTypes DEF Reconnect
  <2> QED BY <1>0, <1>1, <1>3, <2>1, ReactTypes DEF Reconnect
<1>4. CASE ConnectToServer
  BY <1>0, <1>1, <1>4, ConnectToHostTypes, ReactTypes DEF ConnectToServer
<1>5. CASE LogOut
  <2>1. StreamTypeOK'
    BY <1>0, <1>5, DisconnectTypes DEF LogOut
  <2> QED BY <1>0, <1>1, <1>5, <2>1, ReactTypes DEF LogOut
<1>6. CASE SetClientPresence /\ ~LogOut
  <2>1. StreamTypeOK'
    BY <1>0, <1>6, ConnectToHostTypes, QuietTypes DEF SetClientPresence
  <2> QED BY <1>0, <1>1, <1>6, <2>1, ReactTypes DEF SetClientPresence
<1>7. CASE UNCHANGED vars
  BY <1>7 DEF vars, streamVars, clientVars, TypeOK, StreamTypeOK, ClientTypeOK
<1> QED BY <1>2, <1>3, <1>4, <1>5, <1>6, <1>7 DEF Next, Calls, DisconnectFromServer

LEMMA TypeInit == Init => TypeOK
<1> SUFFICES ASSUME Init PROVE TypeOK
  OBVIOUS
<1>1. d \in StreamData
  BY DEF Init, StreamInit, StreamData, NoId
<1>2. requests \in Seq(Requests) /\ sig \subseteq Signals
  BY DEF Init, StreamInit
<1>3. StreamTypeOK
  BY <1>1, <1>2 DEF Init, StreamInit, StreamTypeOK
<1>4. ClientTypeOK
  BY DEF Init, ClientTypeOK
<1> QED BY <1>3, <1>4 DEF TypeOK

\* Every variable of the connection and of the client keeps its type, whatever
\* the configuration, the server's offers and refusals, and the program.
THEOREM TypeCorrect == Spec => []TypeOK
BY TypeInit, TypeStep, PTL DEF Spec

-----------------------------------------------------------------------------
(* The inductive invariant.  The client never has more than one request    *)
(* under way, and each stage of a connection knows which: that is what     *)
(* keeps a late answer from being taken for the answer to something else.  *)

OneRequest == requests = <<>> \/ \E r \in Requests : requests = <<r>>

NotConnected ==
    socket \in {"Unconnected", "Connecting"} =>
        requests = <<>> /\ ~starting /\ tls = "off" /\ ~pingTimer /\ ~told

JustConnected ==
    starting => socket = "Connected" /\ requests = <<>> /\ tls = "off"
                /\ ~pingTimer /\ ~told

InHandshake ==
    tls = "handshake" => requests = <<>> /\ ~pingTimer /\ ~told /\ ~d.sessionStarted

Hanging == socket = "Closing" => requests = <<>>

InSession ==
    socket = "Connected" /\ ~starting /\ d.sessionStarted =>
        requests = <<>> /\ server \in {"bound", "session"}

SessionAsked == requests = <<"session">> => server = "bound"

Authenticating == \E r \in {"auth", "response", "bind", "session", "nonSaslQuery", "nonSasl"} :
                     requests = <<r>>

Encrypted ==
    LocalSecurity = "TLSRequired" /\ Authenticating /\ d.streamVersion => tls = "on"

SessionEncrypted ==
    LocalSecurity = "TLSRequired" /\ IsConnected /\ ~starting /\ d.streamVersion
        => tls = "on"

SessionInv ==
    /\ OneRequest /\ NotConnected /\ JustConnected /\ InHandshake
    /\ Hanging /\ InSession /\ SessionAsked /\ Encrypted
    /\ SessionEncrypted /\ KeepAliveOwned /\ ToldMeansSession

\* How told follows the signals of a step (React).
Follows == told' = ((told \/ "connected" \in sig') /\ "disconnected" \notin sig')

LEMMA Tuples == \A r, q : <<r>> # <<>> /\ (<<r>> = <<q>> <=> r = q)
OBVIOUS

LEMMA ClosedInv ==
    ASSUME NEW s, Closed(s), Follows
    PROVE  SessionInv' /\ socket' = "Unconnected" /\ told' = FALSE
<1>1. /\ socket' = "Unconnected" /\ starting' = FALSE /\ tls' = "off"
      /\ pingTimer' = FALSE /\ timeoutTimer' = FALSE /\ requests' = <<>>
  BY DEF Closed
<1>2. told' = FALSE
  BY DEF Closed, Follows
<1>3. ~Authenticating' /\ requests' # <<"session">>
  BY <1>1, Tuples DEF Authenticating
<1>4. OneRequest' /\ NotConnected' /\ JustConnected' /\ InHandshake' /\ Hanging' /\ InSession'
  BY <1>1, <1>2 DEF OneRequest, NotConnected, JustConnected, InHandshake, Hanging, InSession
<1>5. SessionAsked' /\ Encrypted' /\ SessionEncrypted'
  BY <1>1, <1>3 DEF SessionAsked, Encrypted, SessionEncrypted, IsConnected
<1>6. KeepAliveOwned' /\ ToldMeansSession'
  BY <1>1, <1>2 DEF KeepAliveOwned, ToldMeansSession, IsConnected
<1> QED BY <1>1, <1>2, <1>4, <1>5, <1>6 DEF SessionInv

\* The socket is left to write its data and close.
LEMMA ClosingInv ==
    ASSUME SessionInv,
           socket' = "Closing", starting' = FALSE, requests' = <<>>,
           tls' = tls, pingTimer' = pingTimer, told' = told,
           timeoutTimer' => timeoutTimer,
           pingTimer \/ told => d' = d,
           tls = "handshake" => d' = d,
           socket \in {"Connected", "Closing"}
    PROVE  SessionInv'
<1>1. ~Authenticating' /\ requests' # <<"session">>
  BY Tuples DEF Authenticating
<1>2. OneRequest' /\ NotConnected' /\ JustConnected' /\ Hanging' /\ InSession'
  BY DEF OneRequest, NotConnected, JustConnected, Hanging, InSession
<1>3. InHandshake'
  BY DEF InHandshake, SessionInv
<1>4. SessionAsked' /\ Encrypted' /\ SessionEncrypted'
  BY <1>1 DEF SessionAsked, Encrypted, SessionEncrypted, IsConnected
<1>5. KeepAliveOwned' /\ ToldMeansSession'
  BY DEF KeepAliveOwned, ToldMeansSession, SessionInv, IsConnected
<1> QED BY <1>2, <1>3, <1>4, <1>5 DEF SessionInv

\* disconnectFromHost(), in whatever state of the socket.
LEMMA HangUpInv ==
    ASSUME TypeOK, SessionInv, NEW t \in {FALSE, timeoutTimer}, NEW s,
           "connected" \notin s, "disconnected" \notin s,
           DisconnectFromHost(t, s), d' = d, Follows
    PROVE  SessionInv'
<1>1. CASE Closed(s)
  BY <1>1, ClosedInv
<1>2. CASE /\ socket \in {"Connected", "Closing"} /\ socket' = "Closing"
           /\ sig' = s \cup (IF socket = "Connected" THEN {"stateChanged"} ELSE {})
           /\ timeoutTimer' = t /\ starting' = FALSE /\ requests' = <<>>
           /\ UNCHANGED <<tls, pingTimer, server, link>>
  <2>1. told' = told
    BY <1>2 DEF Follows, TypeOK, ClientTypeOK
  <2>2. timeoutTimer' => timeoutTimer
    BY <1>2, Zenon
  <2>3. /\ tls' = tls /\ pingTimer' = pingTimer
    BY <1>2
  <2>4. (pingTimer \/ told => d' = d) /\ (tls = "handshake" => d' = d)
    OBVIOUS
  <2> QED BY <1>2, <2>1, <2>2, <2>3, <2>4, ClosingInv
<1>3. CASE /\ socket \in {"Unconnected", "Connecting"}
           /\ timeoutTimer' = t /\ sig' = s
           /\ UNCHANGED <<socket, starting, tls, pingTimer, remote>>
  <2>1. told' = told
    BY <1>3 DEF Follows, TypeOK, ClientTypeOK
  <2>2. requests' = requests /\ server' = server
    BY <1>3 DEF remote
  <2>3. /\ OneRequest' /\ NotConnected' /\ JustConnected' /\ InHandshake'
        /\ Hanging' /\ InSession' /\ SessionAsked' /\ Encrypted'
    BY <1>3, <2>1, <2>2
    DEF SessionInv, OneRequest, NotConnected, JustConnected, InHandshake,
        Hanging, InSession, SessionAsked, Encrypted, Authenticating
  <2>4. timeoutTimer' => timeoutTimer
    BY <1>3, Zenon
  <2>5. SessionEncrypted' /\ ToldMeansSession'
    BY <1>3, <2>1 DEF SessionInv, SessionEncrypted, IsConnected, ToldMeansSession
  <2>6. KeepAliveOwned'
    BY <1>3, <2>1, <2>4 DEF SessionInv, KeepAliveOwned, NotConnected
  <2> QED BY <2>3, <2>5, <2>6 DEF SessionInv
<1> QED BY <1>1, <1>2, <1>3 DEF DisconnectFromHost

\* A step that changes nothing the invariant is about, timeoutTimer and, where
\* nothing is connected yet, the socket apart.
LEMMA SameInv ==
    ASSUME SessionInv, UNCHANGED <<starting, tls, d, pingTimer, requests, server, told>>,
           timeoutTimer' => pingTimer',
           \/ socket' = socket
           \/ {socket, socket'} \subseteq {"Unconnected", "Connecting"}
    PROVE  SessionInv'
<1>1. (Authenticating' <=> Authenticating) /\ OneRequest'
  BY DEF Authenticating, OneRequest, SessionInv
<1>2. /\ NotConnected' /\ JustConnected' /\ InHandshake'
      /\ Hanging' /\ InSession' /\ SessionAsked'
  BY DEF SessionInv, NotConnected, JustConnected, InHandshake, Hanging, InSession, SessionAsked
<1>3. Encrypted' /\ SessionEncrypted'
  BY <1>1 DEF SessionInv, Encrypted, SessionEncrypted, IsConnected
<1>4. KeepAliveOwned'
  BY DEF SessionInv, KeepAliveOwned, NotConnected
<1>5. ToldMeansSession'
  BY DEF SessionInv, ToldMeansSession, IsConnected, NotConnected
<1> QED BY <1>1, <1>2, <1>3, <1>4, <1>5 DEF SessionInv

LEMMA ConnectInv ==
    ASSUME TypeOK, SessionInv, ConnectSocket, Follows
    PROVE  SessionInv'
<1>1. told' = told
  BY DEF ConnectSocket, Follows, TypeOK, ClientTypeOK
<1>2. /\ UNCHANGED <<starting, tls, d, pingTimer, requests, server, told>>
      /\ timeoutTimer' = timeoutTimer
      /\ socket' = socket \/ {socket, socket'} \subseteq {"Unconnected", "Connecting"}
  BY <1>1 DEF ConnectSocket, timers, remote
<1>3. timeoutTimer' => pingTimer'
  BY <1>2 DEF SessionInv, KeepAliveOwned
<1> QED BY <1>2, <1>3, SameInv

LEMMA QuietInv ==
    ASSUME TypeOK, SessionInv, sig' = {}, Follows,
           UNCHANGED <<socketVars, d, timers, remote>>
    PROVE  SessionInv'
<1>1. told' = told
  BY DEF Follows, TypeOK, ClientTypeOK
<1>2. /\ UNCHANGED <<starting, tls, d, pingTimer, requests, server, told>>
      /\ timeoutTimer' = timeoutTimer /\ socket' = socket
  BY <1>1 DEF socketVars, timers, remote
<1>3. timeoutTimer' => pingTimer'
  BY <1>2 DEF SessionInv, KeepAliveOwned
<1> QED BY <1>2, <1>3, SameInv

LEMMA ConnectToHostInv ==
    ASSUME TypeOK, SessionInv, ConnectToHost, Follows
    PROVE  SessionInv'
BY ConnectInv, QuietInv DEF ConnectToHost

LEMMA FreshSession == ASSUME d \in StreamData
                      PROVE  ~FreshStream.sessionStarted /\ ~FreshStream.streamVersion
BY DEF FreshStream, StreamData

LEMMA SocketInv ==
    ASSUME TypeOK, SessionInv, Follows,
           \/ DnsLookupFinished \/ SocketUp \/ ConnectFails \/ SocketConnected
           \/ SocketEncrypted \/ SocketFails \/ CloseCompletes \/ LinkDies
    PROVE  SessionInv'
<1>0. d \in StreamData /\ told \in BOOLEAN /\ starting \in BOOLEAN
  BY DEF TypeOK, StreamTypeOK, ClientTypeOK
<1>1. CASE DnsLookupFinished
  BY <1>1, ConnectInv DEF DnsLookupFinished
<1>2. CASE SocketUp
  <2>1. /\ socket' = "Connected" /\ starting' = TRUE /\ told' = told
        /\ UNCHANGED <<tls, d, pingTimer, timeoutTimer, requests, server>>
    BY <1>0, <1>2 DEF SocketUp, Follows, timers, remote
  <2>2. requests = <<>> /\ tls = "off" /\ ~pingTimer /\ ~told
    BY <1>2 DEF SocketUp, SessionInv, NotConnected
  <2>3. ~Authenticating' /\ requests' # <<"session">>
    BY <2>1, <2>2, Tuples DEF Authenticating
  <2>4. /\ OneRequest' /\ NotConnected' /\ JustConnected' /\ InHandshake'
        /\ Hanging' /\ InSession' /\ SessionAsked' /\ Encrypted'
    BY <2>1, <2>2, <2>3 DEF OneRequest, NotConnected, JustConnected, InHandshake,
                            Hanging, InSession, SessionAsked, Encrypted
  <2>5. SessionEncrypted' /\ KeepAliveOwned' /\ ToldMeansSession'
    BY <2>1, <2>2 DEF SessionInv, SessionEncrypted, KeepAliveOwned, ToldMeansSession, IsConnected
  <2> QED BY <2>4, <2>5 DEF SessionInv
<1>3. CASE ConnectFails
  <2>1. /\ UNCHANGED <<starting, tls, d, pingTimer, requests, server, told>>
        /\ timeoutTimer' = timeoutTimer
        /\ {socket, socket'} \subseteq {"Unconnected", "Connecting"}
    BY <1>0, <1>3 DEF ConnectFails, Follows, timers, remote
  <2>2. timeoutTimer' => pingTimer'
    BY <2>1 DEF SessionInv, KeepAliveOwned
  <2> QED BY <2>1, <2>2, SameInv
<1>4. CASE SocketConnected
  <2>0. /\ socket = "Connected" /\ requests = <<>> /\ tls = "off" /\ ~pingTimer /\ ~told
        /\ ~timeoutTimer
    BY <1>4 DEF SocketConnected, SessionInv, JustConnected, KeepAliveOwned
  <2>1. CASE /\ HandleStart /\ starting' = FALSE /\ sig' = {}
             /\ UNCHANGED <<socket, pendingClose, tls, timers, server, link>>
    <3>1. requests' = <<"stream">>
      BY <2>0, <2>1 DEF HandleStart
    <3>2. ~d'.sessionStarted /\ told' = told
      BY <1>0, <2>1, FreshSession DEF HandleStart, Follows
    <3>3. "stream" \in Requests /\ ~Authenticating' /\ requests' # <<"session">>
      BY <3>1, Tuples DEF Requests, Authenticating
    <3>4. pingTimer' = pingTimer /\ timeoutTimer' = timeoutTimer
      BY <2>1 DEF timers
    <3>5. OneRequest' /\ SessionAsked' /\ Encrypted'
      BY <3>1, <3>3 DEF OneRequest, SessionAsked, Encrypted
    <3>6. NotConnected' /\ JustConnected' /\ InHandshake' /\ Hanging' /\ InSession'
      BY <2>0, <2>1, <3>2 DEF NotConnected, JustConnected, InHandshake, Hanging, InSession
    <3>7. SessionEncrypted' /\ KeepAliveOwned' /\ ToldMeansSession'
      BY <2>0, <3>2, <3>4 DEF SessionEncrypted, IsConnected, KeepAliveOwned, ToldMeansSession
    <3> QED BY <3>5, <3>6, <3>7 DEF SessionInv
  <2>2. CASE d' = FreshStream /\ DisconnectFromHost(timeoutTimer, {})
    <3>1. CASE Closed({})
      BY <3>1, ClosedInv
    <3>2. CASE /\ socket' = "Closing" /\ starting' = FALSE /\ requests' = <<>>
               /\ sig' = IF socket = "Connected" THEN {"stateChanged"} ELSE {}
               /\ timeoutTimer' = timeoutTimer
               /\ UNCHANGED <<tls, pingTimer, server, link>>
      <4>1. told' = told
        BY <1>0, <3>2 DEF Follows
      <4> QED BY <2>0, <3>2, <4>1, ClosingInv
    <3> QED BY <2>0, <2>2, <3>1, <3>2 DEF DisconnectFromHost
  <2> QED BY <1>4, <2>1, <2>2 DEF SocketConnected
<1>5. CASE SocketEncrypted
  <2>1. /\ requests = <<>> /\ ~pingTimer /\ ~told /\ ~starting
        /\ socket = "Connected" /\ ~timeoutTimer
    BY <1>5 DEF SocketEncrypted, SessionInv, InHandshake, JustConnected, KeepAliveOwned
  <2>2. requests' = <<"stream">>
    BY <1>5, <2>1 DEF SocketEncrypted, HandleStart
  <2>3. ~d'.sessionStarted /\ told' = told
    BY <1>0, <1>5, FreshSession DEF SocketEncrypted, HandleStart, Follows
  <2>4. "stream" \in Requests /\ ~Authenticating' /\ requests' # <<"session">>
    BY <2>2, Tuples DEF Requests, Authenticating
  <2>5. tls' = "on" /\ UNCHANGED <<socket, starting, pingTimer, timeoutTimer>>
    BY <1>5 DEF SocketEncrypted, timers
  <2>6. OneRequest' /\ SessionAsked' /\ Encrypted'
    BY <2>2, <2>4 DEF OneRequest, SessionAsked, Encrypted
  <2>7. NotConnected' /\ JustConnected' /\ InHandshake' /\ Hanging' /\ InSession'
    BY <2>1, <2>3, <2>5 DEF NotConnected, JustConnected, InHandshake, Hanging, InSession
  <2>8. SessionEncrypted' /\ KeepAliveOwned' /\ ToldMeansSession'
    BY <2>1, <2>3, <2>5
    DEF SessionEncrypted, IsConnected, KeepAliveOwned, ToldMeansSession
  <2> QED BY <2>6, <2>7, <2>8 DEF SessionInv
<1>6. CASE SocketFails
  BY <1>6, ClosedInv DEF SocketFails
<1>7. CASE CloseCompletes
  BY <1>7, ClosedInv DEF CloseCompletes
<1>8. CASE LinkDies
  <2>1. /\ UNCHANGED <<starting, tls, d, pingTimer, requests, server, told>>
        /\ timeoutTimer' = timeoutTimer /\ socket' = socket
    BY <1>0, <1>8 DEF LinkDies, Follows, socketVars, timers
  <2>2. timeoutTimer' => pingTimer'
    BY <2>1 DEF SessionInv, KeepAliveOwned
  <2> QED BY <2>1, <2>2, SameInv
<1> QED BY <1>1, <1>2, <1>3, <1>4, <1>5, <1>6, <1>7, <1>8

\* What is known of the connection when the answer to r is read: no session.
LEMMA WhenReading ==
    ASSUME TypeOK, SessionInv, NEW r \in Requests, Reading(r)
    PROVE  /\ requests = <<r>> /\ socket = "Connected" /\ ~starting
           /\ tls # "handshake" /\ ~d.sessionStarted
           /\ ~pingTimer /\ ~timeoutTimer /\ ~told
<1>1. socket = "Connected" /\ ~starting /\ tls # "handshake" /\ requests # <<>>
  BY DEF Reading, CanRead
<1>2. PICK q \in Requests : requests = <<q>>
  BY <1>1 DEF SessionInv, OneRequest
<1>3. requests = <<r>>
  BY <1>2 DEF Reading
<1>4. ~d.sessionStarted
  BY <1>1 DEF SessionInv, InSession
<1>5. ~pingTimer /\ ~timeoutTimer
  BY <1>4 DEF SessionInv, KeepAliveOwned
<1>6. ~told
  BY <1>1, <1>4 DEF SessionInv, ToldMeansSession, IsConnected
<1> QED BY <1>1, <1>3, <1>4, <1>5, <1>6

LEMMA AnswerIs ==
    ASSUME NEW r, requests = <<r>>, NEW new \in Seq(Requests), Answered(new)
    PROVE  requests' = new
<1>1. Tail(requests) = <<>>
  OBVIOUS
<1> QED BY <1>1 DEF Answered

\* A stanza of the negotiation that does not open the session.
LEMMA StanzaInv ==
    ASSUME SessionInv, socket = "Connected", ~starting, ~told, ~pingTimer,
           socket' = socket, starting' = starting, pingTimer' = pingTimer,
           told' = told, timeoutTimer' = FALSE, ~d'.sessionStarted,
           requests' = <<>> \/ \E r \in Requests : requests' = <<r>>,
           tls' = "handshake" => requests' = <<>>,
           requests' = <<"session">> => server' = "bound",
           Encrypted'
    PROVE  SessionInv'
<1>1. OneRequest' /\ NotConnected' /\ JustConnected' /\ InHandshake'
  BY DEF OneRequest, NotConnected, JustConnected, InHandshake
<1>2. Hanging' /\ InSession' /\ SessionAsked' /\ Encrypted'
  BY DEF Hanging, InSession, SessionAsked
<1>3. SessionEncrypted' /\ KeepAliveOwned' /\ ToldMeansSession'
  BY DEF SessionEncrypted, KeepAliveOwned, ToldMeansSession, IsConnected
<1> QED BY <1>1, <1>2, <1>3 DEF SessionInv

\* What the features ask for is one request at most.
LEMMA AuthRequestsOne ==
    ASSUME NEW f \in FeaturesNow
    PROVE  AuthRequests(f) = <<>> \/ \E r \in {"nonSaslQuery", "auth", "bind"} : AuthRequests(f) = <<r>>
<1>1. PICK g \in Features : f = IF g.bind THEN [g EXCEPT !.sasl = "none", !.nonSasl = FALSE] ELSE g
  BY DEF FeaturesNow
<1>2. f.bind => f.sasl = "none" /\ f.nonSasl = FALSE
  BY <1>1 DEF Features
<1>3. /\ <<>> \o <<"bind">> = <<"bind">> /\ <<>> \o <<>> = <<>>
      /\ <<"nonSaslQuery">> \o <<>> = <<"nonSaslQuery">> /\ <<"auth">> \o <<>> = <<"auth">>
  OBVIOUS
<1>4. CASE f.bind
  <2>1. AuthRequests(f) = <<>> \o <<"bind">>
    BY <1>2, <1>4 DEF AuthRequests, NonSaslChosen
  <2> QED BY <1>3, <2>1
<1>5. CASE ~f.bind
  <2>1. AuthRequests(f) \in {<<"nonSaslQuery">> \o <<>>, <<"auth">> \o <<>>, <<>> \o <<>>}
    BY <1>5 DEF AuthRequests
  <2> QED BY <1>3, <2>1
<1> QED BY <1>4, <1>5

\* Under TLSRequired, features are accepted only on an encrypted stream.
LEMMA AcceptedEncrypted ==
    ASSUME NEW f, FeaturesAccepted(f), tls # "handshake", LocalSecurity = "TLSRequired",
           tls \in {"off", "handshake", "on"}
    PROVE  tls = "on"
BY DEF FeaturesAccepted, TlsRefused, TlsWanted

\* The stanzas of the negotiation that keep the connection and open no session.
LEMMA EarlyStanzas ==
    ASSUME TypeOK, SessionInv, Follows,
           StreamHeader \/ TlsProceed \/ SaslSuccess \/ BindAnswer
    PROVE  SessionInv'
<1>0. /\ told \in BOOLEAN /\ d \in StreamData /\ tls \in {"off", "handshake", "on"}
      /\ d.streamVersion \in BOOLEAN
  BY DEF TypeOK, StreamTypeOK, ClientTypeOK, StreamData
<1>a. /\ <<>> \in Seq(Requests) /\ <<"features">> \in Seq(Requests)
      /\ <<"nonSaslQuery">> \in Seq(Requests) /\ <<"stream">> \in Seq(Requests)
      /\ <<"session">> \in Seq(Requests)
  BY DEF Requests
<1>b. /\ "features" \in Requests /\ "nonSaslQuery" \in Requests /\ "stream" \in Requests
      /\ "session" \in Requests /\ "starttls" \in Requests /\ "auth" \in Requests
      /\ "response" \in Requests /\ "bind" \in Requests
  BY DEF Requests
<1>1. CASE StreamHeader
  <2>1. /\ requests = <<"stream">> /\ socket = "Connected" /\ ~starting
        /\ tls # "handshake" /\ ~d.sessionStarted /\ ~pingTimer /\ ~timeoutTimer /\ ~told
    BY <1>b, <1>1, WhenReading DEF StreamHeader
  <2>2. PICK version \in VersionsNow :
          /\ d' = [d EXCEPT !.streamVersion = version]
          /\ Answered(IF version THEN <<"features">> ELSE <<"nonSaslQuery">>)
    BY <1>1 DEF StreamHeader
  <2>3. version \in BOOLEAN
    BY OfferAssumption DEF VersionsNow
  <2>4. requests' = IF version THEN <<"features">> ELSE <<"nonSaslQuery">>
    BY <1>a, <2>1, <2>2, <2>3, AnswerIs
  <2>5. ~d'.sessionStarted /\ d'.streamVersion = version
    BY <1>0, <2>1, <2>2 DEF StreamData
  <2>6. /\ UNCHANGED <<socket, starting, pingTimer, tls>> /\ told' = told
        /\ timeoutTimer' = FALSE
    BY <1>0, <1>1, <2>1 DEF StreamHeader, Follows, socketVars, timers, TypeOK, StreamTypeOK
  <2>7. requests' # <<"session">> /\ (\E r \in Requests : requests' = <<r>>)
    BY <1>b, <2>3, <2>4, Tuples
  <2>8. Encrypted'
    BY <2>3, <2>4, <2>5, Tuples DEF Encrypted, Authenticating
  <2> QED BY <2>1, <2>5, <2>6, <2>7, <2>8, StanzaInv
<1>2. CASE TlsProceed
  <2>1. /\ requests = <<"starttls">> /\ socket = "Connected" /\ ~starting
        /\ ~d.sessionStarted /\ ~pingTimer /\ ~told
    BY <1>b, <1>2, WhenReading DEF TlsProceed
  <2>2. requests' = <<>>
    BY <1>a, <1>2, <2>1, AnswerIs DEF TlsProceed
  <2>3. /\ UNCHANGED <<socket, starting, pingTimer, d>> /\ told' = told
        /\ timeoutTimer' = FALSE
    BY <1>0, <1>2 DEF TlsProceed, Follows
  <2>4. Encrypted' /\ requests' # <<"session">>
    BY <2>2, Tuples DEF Encrypted, Authenticating
  <2> QED BY <2>1, <2>2, <2>3, <2>4, StanzaInv
<1>3. CASE SaslSuccess
  <2>1. PICK r \in {"auth", "response"} : Reading(r)
    BY <1>3 DEF SaslSuccess, SaslRequest
  <2>2. /\ requests = <<r>> /\ socket = "Connected" /\ ~starting
        /\ tls # "handshake" /\ ~pingTimer /\ ~told
    BY <1>b, <2>1, WhenReading
  <2>3. requests' = <<"stream">>
    BY <1>a, <1>3, <2>2, AnswerIs DEF SaslSuccess
  <2>4. /\ UNCHANGED <<socket, starting, pingTimer, tls>> /\ told' = told
        /\ timeoutTimer' = FALSE
    BY <1>0, <1>3 DEF SaslSuccess, Follows, socketVars
  <2>5. ~d'.sessionStarted
    BY <1>0, <1>3, FreshSession DEF SaslSuccess
  <2>6. Encrypted' /\ requests' # <<"session">> /\ (\E q \in Requests : requests' = <<q>>)
    BY <1>b, <2>3, Tuples DEF Encrypted, Authenticating
  <2> QED BY <2>2, <2>3, <2>4, <2>5, <2>6, StanzaInv
<1>4. CASE BindAnswer
  <2>1. /\ requests = <<"bind">> /\ socket = "Connected" /\ ~starting
        /\ tls # "handshake" /\ ~d.sessionStarted /\ ~pingTimer /\ ~told
    BY <1>b, <1>4, WhenReading DEF BindAnswer
  <2>2. requests' = <<>> \/ (requests' = <<"session">> /\ server' = "bound")
    BY <1>a, <1>4, <2>1, AnswerIs DEF BindAnswer
  <2>3. /\ UNCHANGED <<socket, starting, pingTimer, tls>> /\ told' = told
        /\ timeoutTimer' = FALSE
    BY <1>0, <1>4 DEF BindAnswer, Follows, socketVars
  <2>4. ~d'.sessionStarted /\ d'.streamVersion = d.streamVersion
    BY <1>0, <1>4, <2>1 DEF BindAnswer, StreamData
  <2>5. LocalSecurity = "TLSRequired" /\ d.streamVersion => tls = "on"
    BY <2>1 DEF SessionInv, Encrypted, Authenticating
  <2>6. Encrypted'
    BY <2>3, <2>4, <2>5 DEF Encrypted
  <2>7. requests' = <<>> \/ \E q \in Requests : requests' = <<q>>
    BY <1>b, <2>2
  <2>8. requests' = <<"session">> => server' = "bound"
    BY <2>2, Tuples
  <2> QED BY <2>1, <2>3, <2>4, <2>6, <2>7, <2>8, StanzaInv
<1> QED BY <1>1, <1>2, <1>3, <1>4

LEMMA FeaturesInv ==
    ASSUME TypeOK, SessionInv, Follows, StreamFeatures
    PROVE  SessionInv'
<1>0. /\ told \in BOOLEAN /\ d \in StreamData /\ tls \in {"off", "handshake", "on"}
      /\ timeoutTimer \in BOOLEAN
  BY DEF TypeOK, StreamTypeOK, ClientTypeOK
<1>1. /\ "features" \in Requests /\ "starttls" \in Requests
      /\ {"nonSaslQuery", "auth", "bind"} \subseteq Requests
      /\ <<"starttls">> \in Seq(Requests)
  BY DEF Requests
<1>2. /\ requests = <<"features">> /\ socket = "Connected" /\ ~starting
      /\ tls # "handshake" /\ ~d.sessionStarted /\ ~pingTimer /\ ~told
  BY <1>1, WhenReading DEF StreamFeatures
<1>3. PICK f \in FeaturesNow : FeaturesAccepted(f) \/ FeaturesStartTls(f) \/ FeaturesRefused(f)
  BY DEF StreamFeatures
<1>4. CASE FeaturesAccepted(f)
  <2>1. requests' = AuthRequests(f)
    BY <1>2, <1>4, AnswerIs, AuthRequestsType DEF FeaturesAccepted
  <2>2. requests' = <<>> \/ \E r \in {"nonSaslQuery", "auth", "bind"} : requests' = <<r>>
    BY <2>1, AuthRequestsOne
  <2>3. requests' # <<"session">> /\ (requests' = <<>> \/ \E r \in Requests : requests' = <<r>>)
    BY <1>1, <2>2, Tuples
  <2>4. /\ UNCHANGED <<socket, starting, pingTimer, tls>> /\ told' = told
        /\ timeoutTimer' = FALSE
    BY <1>0, <1>4 DEF FeaturesAccepted, Follows, socketVars
  <2>5. ~d'.sessionStarted
    BY <1>0, <1>2, <1>4 DEF FeaturesAccepted, StreamData
  <2>6. LocalSecurity = "TLSRequired" => tls = "on"
    BY <1>0, <1>2, <1>4, AcceptedEncrypted
  <2>7. Encrypted'
    BY <2>4, <2>6 DEF Encrypted
  <2> QED BY <1>2, <2>3, <2>4, <2>5, <2>7, StanzaInv
<1>5. CASE FeaturesStartTls(f)
  <2>1. requests' = <<"starttls">>
    BY <1>1, <1>2, <1>5, AnswerIs DEF FeaturesStartTls
  <2>2. /\ UNCHANGED <<socket, starting, pingTimer, tls, d>> /\ told' = told
        /\ timeoutTimer' = FALSE
    BY <1>0, <1>5 DEF FeaturesStartTls, Follows, socketVars
  <2>3. /\ requests' # <<"session">> /\ (\E r \in Requests : requests' = <<r>>)
        /\ Encrypted'
    BY <1>1, <2>1, Tuples DEF Encrypted, Authenticating
  <2> QED BY <1>2, <2>2, <2>3, StanzaInv
<1>6. CASE FeaturesRefused(f)
  BY <1>6, HangUpInv DEF FeaturesRefused
<1> QED BY <1>3, <1>4, <1>5, <1>6

\* SASL challenges and failures, and the fields of XEP-0078.
LEMMA ChallengeInv ==
    ASSUME TypeOK, SessionInv, Follows, SaslChallenge \/ SaslFailure \/ NonSaslFields
    PROVE  SessionInv'
<1>0. told \in BOOLEAN /\ d \in StreamData
  BY DEF TypeOK, StreamTypeOK, ClientTypeOK
<1>1. /\ {"auth", "response", "nonSaslQuery", "nonSasl"} \subseteq Requests
      /\ <<>> \in Seq(Requests) /\ <<"response">> \in Seq(Requests)
      /\ <<"nonSasl">> \in Seq(Requests)
  BY DEF Requests
<1>2. CASE DisconnectFromHost(FALSE, {}) /\ d' = d
  BY <1>2, HangUpInv
<1>3. CASE SaslFailure
  BY <1>3, HangUpInv DEF SaslFailure
<1>4. ASSUME NEW r \in {"auth", "nonSaslQuery"}, Reading(r),
             NEW new \in {<<>>, <<"response">>, <<"nonSasl">>}, Answered(new),
             timeoutTimer' = FALSE, sig' = {}, UNCHANGED <<socketVars, pingTimer>>,
             d' = d \/ d' = [d EXCEPT !.nonSASLAuthId = "nonSasl"]
      PROVE  SessionInv'
  <2>1. /\ requests = <<r>> /\ socket = "Connected" /\ ~starting
        /\ tls # "handshake" /\ ~d.sessionStarted /\ ~pingTimer /\ ~told
    BY <1>1, <1>4, WhenReading
  <2>2. requests' = new
    BY <1>1, <1>4, <2>1, AnswerIs
  <2>3. /\ UNCHANGED <<socket, starting, pingTimer, tls>> /\ told' = told
    BY <1>0, <1>4 DEF Follows, socketVars
  <2>4. ~d'.sessionStarted /\ d'.streamVersion = d.streamVersion
    BY <1>0, <1>4, <2>1 DEF StreamData
  <2>5. LocalSecurity = "TLSRequired" /\ d.streamVersion => tls = "on"
    BY <2>1 DEF SessionInv, Encrypted, Authenticating
  <2>6. Encrypted'
    BY <2>3, <2>4, <2>5 DEF Encrypted
  <2>7. requests' # <<"session">> /\ (requests' = <<>> \/ \E q \in Requests : requests' = <<q>>)
    BY <1>1, <2>2, Tuples
  <2> QED BY <1>4, <2>1, <2>3, <2>4, <2>6, <2>7, StanzaInv
<1>5. CASE SaslChallenge
  BY <1>2, <1>4, <1>5 DEF SaslChallenge
<1>6. CASE NonSaslFields
  BY <1>2, <1>4, <1>6 DEF NonSaslFields
<1> QED BY <1>3, <1>5, <1>6

\* The session opens: the answer to the session request, or to the
\* credentials of XEP-0078.
LEMMA SessionUpInv ==
    ASSUME TypeOK, SessionInv, Follows, SessionAnswer \/ NonSaslAnswer
    PROVE  SessionInv'
<1>0. told \in BOOLEAN /\ d \in StreamData
  BY DEF TypeOK, StreamTypeOK, ClientTypeOK
<1>1. "session" \in Requests /\ "nonSasl" \in Requests /\ <<>> \in Seq(Requests)
  BY DEF Requests
<1>2. PICK r \in {"session", "nonSasl"} :
        /\ Reading(r) /\ Answered(<<>>) /\ UNCHANGED <<socketVars, dns, xmppStreamError, link>>
        /\ r = "session" => SessionAnswer
        /\ r = "nonSasl" => NonSaslAnswer
  BY DEF SessionAnswer, NonSaslAnswer
<1>3. /\ requests = <<r>> /\ socket = "Connected" /\ ~starting
      /\ tls # "handshake" /\ ~d.sessionStarted /\ ~pingTimer /\ ~told
  BY <1>1, <1>2, WhenReading
<1>4. requests' = <<>>
  BY <1>1, <1>2, <1>3, AnswerIs
<1>5. UNCHANGED <<socket, starting, tls>>
  BY <1>2 DEF socketVars
<1>6. ~Authenticating' /\ requests' # <<"session">>
  BY <1>4, Tuples DEF Authenticating
<1>7. CASE SessionUp /\ server' \in {"bound", "session"}
  <2>1. /\ d'.sessionStarted /\ d'.streamVersion = d.streamVersion
        /\ ~timeoutTimer' /\ told'
    BY <1>0, <1>7 DEF SessionUp, StreamData, Follows
  <2>2. LocalSecurity = "TLSRequired" /\ d.streamVersion => tls = "on"
    BY <1>3 DEF SessionInv, Encrypted, Authenticating
  <2>3. OneRequest' /\ NotConnected' /\ JustConnected' /\ InHandshake' /\ Hanging'
    BY <1>3, <1>4, <1>5 DEF OneRequest, NotConnected, JustConnected, InHandshake, Hanging
  <2>4. InSession' /\ SessionAsked' /\ Encrypted'
    BY <1>4, <1>6, <1>7 DEF InSession, SessionAsked, Encrypted
  <2>5. SessionEncrypted'
    BY <1>5, <2>1, <2>2 DEF SessionEncrypted
  <2>6. KeepAliveOwned' /\ ToldMeansSession'
    BY <1>3, <1>5, <2>1 DEF KeepAliveOwned, ToldMeansSession, IsConnected
  <2> QED BY <2>3, <2>4, <2>5, <2>6 DEF SessionInv
<1>8. CASE timeoutTimer' = FALSE /\ sig' = {} /\ UNCHANGED <<d, pingTimer, server>>
  <2>1. told' = told
    BY <1>0, <1>8 DEF Follows
  <2>2. Encrypted'
    BY <1>6 DEF Encrypted
  <2> QED BY <1>3, <1>4, <1>5, <1>6, <1>8, <2>1, <2>2, StanzaInv
<1>9. CASE r = "session"
  <2>1. server = "bound"
    BY <1>3, <1>9 DEF SessionInv, SessionAsked
  <2> QED BY <1>2, <1>7, <1>9, <2>1 DEF SessionAnswer
<1>10. CASE r = "nonSasl"
  BY <1>2, <1>7, <1>8, <1>10 DEF NonSaslAnswer
<1> QED BY <1>9, <1>10

LEMMA StreamStepInv ==
    ASSUME TypeOK, SessionInv, Follows, StreamStep
    PROVE  SessionInv'
<1>0. told \in BOOLEAN
  BY DEF TypeOK, ClientTypeOK
<1>1. CASE Negotiation
  BY <1>1, EarlyStanzas, FeaturesInv, ChallengeInv, SessionUpInv, SocketInv DEF Negotiation
<1>2. CASE StreamError
  <2>1. /\ UNCHANGED <<socket, starting, tls, d, pingTimer, server>> /\ told' = told
        /\ timeoutTimer' = FALSE /\ requests' = <<>>
    BY <1>0, <1>2 DEF StreamError, Follows, socketVars
  <2>2. ~Authenticating' /\ requests' # <<"session">>
    BY <2>1, Tuples DEF Authenticating
  <2>3. /\ OneRequest' /\ NotConnected' /\ JustConnected' /\ InHandshake'
        /\ Hanging' /\ InSession'
    BY <2>1 DEF SessionInv, OneRequest, NotConnected, JustConnected, InHandshake,
                Hanging, InSession
  <2>4. SessionAsked' /\ Encrypted' /\ SessionEncrypted'
    BY <2>1, <2>2 DEF SessionInv, SessionAsked, Encrypted, SessionEncrypted, IsConnected
  <2>5. KeepAliveOwned' /\ ToldMeansSession'
    BY <2>1 DEF SessionInv, KeepAliveOwned, ToldMeansSession, IsConnected
  <2> QED BY <2>3, <2>4, <2>5 DEF SessionInv
<1>3. CASE OtherStanza \/ PingSend
  <2>1. /\ UNCHANGED <<socket, starting, tls, d, pingTimer, requests, server>>
        /\ told' = told
    BY <1>0, <1>3 DEF OtherStanza, PingSend, Follows, socketVars, remote
  <2>2. timeoutTimer' => pingTimer'
    BY <1>3 DEF OtherStanza, PingSend
  <2> QED BY <2>1, <2>2, SameInv
<1>4. CASE PingTimeout
  <2>1. "connected" \notin {"KeepAliveError"} /\ "disconnected" \notin {"KeepAliveError"}
    OBVIOUS
  <2> QED BY <1>4, <2>1, HangUpInv DEF PingTimeout
<1> QED BY <1>1, <1>2, <1>3, <1>4, SocketInv DEF StreamStep

LEMMA SessionInit0 == Init => SessionInv
<1> SUFFICES ASSUME Init PROVE SessionInv
  OBVIOUS
<1>1. /\ socket = "Unconnected" /\ ~starting /\ tls = "off" /\ ~pingTimer
      /\ ~timeoutTimer /\ ~told /\ requests = <<>>
  BY DEF Init, StreamInit
<1>2. ~Authenticating /\ requests # <<"session">>
  BY <1>1, Tuples DEF Authenticating
<1>3. /\ OneRequest /\ NotConnected /\ JustConnected /\ InHandshake
      /\ Hanging /\ InSession /\ SessionAsked /\ Encrypted
  BY <1>1, <1>2 DEF OneRequest, NotConnected, JustConnected, InHandshake,
                    Hanging, InSession, SessionAsked, Encrypted
<1>4. SessionEncrypted /\ KeepAliveOwned /\ ToldMeansSession
  BY <1>1 DEF SessionEncrypted, KeepAliveOwned, ToldMeansSession, IsConnected
<1> QED BY <1>3, <1>4 DEF SessionInv

LEMMA ReactFollows == ASSUME NEW timer, React(timer) PROVE Follows
BY DEF React, Follows

LEMMA SessionStep == TypeOK /\ SessionInv /\ [Next]_vars => SessionInv'
<1> SUFFICES ASSUME TypeOK, SessionInv, [Next]_vars PROVE SessionInv'
  OBVIOUS
<1>1. CASE StreamEvent
  BY <1>1, ReactFollows, StreamStepInv DEF StreamEvent
<1>2. CASE Reconnect
  BY <1>2, ReactFollows, ConnectToHostInv, QuietInv DEF Reconnect
<1>3. CASE ConnectToServer
  BY <1>3, ReactFollows, ConnectToHostInv DEF ConnectToServer
<1>4. CASE LogOut
  BY <1>4, ReactFollows, HangUpInv DEF LogOut
<1>5. CASE SetClientPresence /\ ~LogOut
  BY <1>5, ReactFollows, ConnectToHostInv, QuietInv DEF SetClientPresence
<1>6. CASE UNCHANGED vars
  <2>1. /\ UNCHANGED <<socket, starting, tls, d, pingTimer, requests, server, told>>
        /\ timeoutTimer' = timeoutTimer
    BY <1>6 DEF vars, streamVars, clientVars
  <2>2. timeoutTimer' => pingTimer'
    BY <2>1 DEF SessionInv, KeepAliveOwned
  <2> QED BY <2>1, <2>2, SameInv
<1> QED BY <1>1, <1>2, <1>3, <1>4, <1>5, <1>6 DEF Next, Calls, DisconnectFromServer

LEMMA SessionAlways == Spec => [](TypeOK /\ SessionInv)
<1>1. Init => TypeOK /\ SessionInv
  BY TypeInit, SessionInit0
<1>2. (TypeOK /\ SessionInv) /\ [Next]_vars => (TypeOK /\ SessionInv)'
  BY TypeStep, SessionStep
<1> QED BY <1>1, <1>2, PTL DEF Spec

\* A connection the client calls established is one whose server has
\* authenticated it and bound its resource.
THEOREM SessionBackedCorrect == Spec => []SessionBacked
<1>1. TypeOK /\ SessionInv => SessionBacked
  BY DEF SessionInv, InSession, SessionBacked, IsConnected
<1> QED BY <1>1, SessionAlways, PTL

\* With TLSRequired and a server that speaks XMPP 1.0, neither the session nor
\* a step of the login is in the clear, whatever the server offers and however
\* often the stream restarts.
THEOREM TlsCorrect == Spec => []NegotiatedMeansEncrypted
<1>1. (\E r \in Login : requests = <<r>>) => Authenticating
  BY DEF Login, Authenticating
<1>2. TypeOK /\ SessionInv => NegotiatedMeansEncrypted
  BY <1>1 DEF SessionInv, SessionEncrypted, Encrypted, NegotiatedMeansEncrypted
<1> QED BY <1>2, SessionAlways, PTL

\* The keep-alive timers run only in the session that started them.
THEOREM KeepAliveCorrect == Spec => []KeepAliveOwned
<1>1. TypeOK /\ SessionInv => KeepAliveOwned
  BY DEF SessionInv
<1> QED BY <1>1, SessionAlways, PTL

\* connected() and disconnected() tell listeners what state() would.
THEOREM ToldCorrect == Spec => []ToldMeansSession
<1>1. TypeOK /\ SessionInv => ToldMeansSession
  BY DEF SessionInv
<1> QED BY <1>1, SessionAlways, PTL

\* Timers and listeners: what belongs to a session comes and goes with it.
THEOREM OwnedCorrect == Spec => []SessionOwned
<1>1. KeepAliveOwned /\ ToldMeansSession => SessionOwned
  BY DEF SessionOwned
<1> QED BY <1>1, KeepAliveCorrect, ToldCorrect, PTL

-----------------------------------------------------------------------------
(* The client implements the abstract session.                             *)

\* Where the socket and the session flag can go in one step.
Moves ==
    /\ "connected" \in sig' => socket' = "Connected"
    /\ socket = "Closing" => socket' \in {"Closing", "Unconnected"}
    /\ socket = "Unconnected" => socket' \in {"Unconnected", "Connecting"}
    /\ IsConnected /\ ~starting =>
         \/ socket' \in {"Closing", "Unconnected"}
         \/ IsConnected' /\ ~starting'

LEMMA HangUpMoves ==
    ASSUME NEW t, NEW s, "connected" \notin s, DisconnectFromHost(t, s)
    PROVE  Moves
<1>1. "connected" \notin sig'
  BY DEF DisconnectFromHost, Closed
<1> QED BY <1>1 DEF DisconnectFromHost, Closed, Moves, IsConnected

LEMMA ConnectMoves == ASSUME ConnectSocket PROVE Moves
BY DEF ConnectSocket, Moves, IsConnected

LEMMA StillMoves ==
    ASSUME socket' = socket, "connected" \notin sig',
           IsConnected /\ ~starting => d' = d /\ ~starting'
    PROVE  Moves
BY DEF Moves, IsConnected

LEMMA NegotiationMoves ==
    ASSUME TypeOK, SessionInv, Negotiation
    PROVE  Moves
<1>0. {"stream", "features", "starttls", "auth", "response", "bind", "session",
       "nonSaslQuery", "nonSasl"} \subseteq Requests
  BY DEF Requests
<1>1. CASE SocketEncrypted
  <2>1. ~d.sessionStarted
    BY <1>1 DEF SocketEncrypted, SessionInv, InHandshake
  <2> QED BY <1>1, <2>1 DEF SocketEncrypted, HandleStart, Moves, IsConnected
<1>2. ASSUME ~SocketEncrypted
      PROVE  socket = "Connected" /\ ~d.sessionStarted
  <2>1. \E r \in Requests : Reading(r)
    BY <1>0, <1>2 DEF Negotiation, StreamHeader, StreamFeatures, TlsProceed, SaslSuccess,
                      SaslChallenge, SaslFailure, SaslRequest, BindAnswer, SessionAnswer,
                      NonSaslFields, NonSaslAnswer
  <2> QED BY <2>1, WhenReading
<1>3. CASE /\ ~SocketEncrypted
           /\ \/ StreamHeader \/ TlsProceed \/ SaslSuccess \/ BindAnswer
              \/ SessionAnswer \/ NonSaslAnswer
  <2>1. socket' = socket
    BY <1>3 DEF StreamHeader, TlsProceed, SaslSuccess, BindAnswer, SessionAnswer,
                NonSaslAnswer, socketVars
  <2> QED BY <1>2, <1>3, <2>1 DEF Moves, IsConnected
<1>4. CASE /\ ~SocketEncrypted
           /\ StreamFeatures \/ SaslChallenge \/ SaslFailure \/ NonSaslFields
  <2>1. \/ socket' = socket
        \/ DisconnectFromHost(FALSE, {}) \/ DisconnectFromHost(FALSE, {"XmppStreamError"})
    BY <1>4 DEF StreamFeatures, FeaturesAccepted, FeaturesStartTls, FeaturesRefused,
                SaslChallenge, SaslFailure, NonSaslFields, socketVars
  <2>2. CASE socket' = socket
    BY <1>2, <1>4, <2>2 DEF Moves, IsConnected
  <2>3. "connected" \notin {} /\ "connected" \notin {"XmppStreamError"}
    OBVIOUS
  <2> QED BY <2>1, <2>2, <2>3, HangUpMoves
<1> QED BY <1>1, <1>3, <1>4 DEF Negotiation

LEMMA StreamStepMoves ==
    ASSUME TypeOK, SessionInv, StreamStep
    PROVE  Moves
<1>1. CASE Negotiation
  BY <1>1, NegotiationMoves
<1>2. CASE DnsLookupFinished
  BY <1>2, ConnectMoves DEF DnsLookupFinished
<1>3. CASE SocketUp \/ ConnectFails
  BY <1>3 DEF SocketUp, ConnectFails, Moves, IsConnected
<1>4. CASE SocketConnected
  <2>1. starting /\ socket = "Connected"
    BY <1>4 DEF SocketConnected, SessionInv, JustConnected
  <2>2. CASE DisconnectFromHost(timeoutTimer, {})
    BY <2>2, HangUpMoves
  <2>3. CASE sig' = {} /\ socket' = socket
    BY <2>1, <2>3, StillMoves
  <2> QED BY <1>4, <2>2, <2>3 DEF SocketConnected
<1>5. CASE SocketFails \/ CloseCompletes
  BY <1>5 DEF SocketFails, CloseCompletes, Closed, Moves, IsConnected
<1>6. CASE LinkDies \/ StreamError \/ OtherStanza \/ PingSend
  BY <1>6, StillMoves DEF LinkDies, StreamError, OtherStanza, PingSend, socketVars
<1>7. CASE PingTimeout
  BY <1>7, HangUpMoves DEF PingTimeout
<1> QED BY <1>1, <1>2, <1>3, <1>4, <1>5, <1>6, <1>7 DEF StreamStep

LEMMA NextMoves ==
    ASSUME TypeOK, SessionInv, Next
    PROVE  Moves /\ Follows
<1>1. CASE StreamEvent
  BY <1>1, StreamStepMoves, ReactFollows DEF StreamEvent
<1>2. ASSUME ConnectToHost PROVE Moves
  BY <1>2, ConnectMoves, StillMoves DEF ConnectToHost, socketVars
<1>3. ASSUME sig' = {}, UNCHANGED <<socketVars, dns, d, xmppStreamError, timers, remote>>
      PROVE  Moves
  BY <1>3, StillMoves DEF socketVars
<1>4. CASE Reconnect
  BY <1>2, <1>3, <1>4, ReactFollows DEF Reconnect
<1>5. CASE LogOut
  BY <1>5, HangUpMoves, ReactFollows DEF LogOut
<1>6. CASE ConnectToServer
  BY <1>2, <1>6, ReactFollows DEF ConnectToServer
<1>7. CASE SetClientPresence /\ ~LogOut
  BY <1>2, <1>3, <1>7, ReactFollows DEF SetClientPresence
<1> QED BY <1>1, <1>4, <1>5, <1>6, <1>7 DEF Next, Calls, DisconnectFromServer

LEMMA RefinedStep ==
    ASSUME TypeOK, SessionInv, TypeOK', SessionInv', [Next]_vars
    PROVE  [Session!SessionNext]_(Session!sessionVars)
<1>0. /\ socket \in {"Unconnected", "Connecting", "Connected", "Closing"}
      /\ socket' \in {"Unconnected", "Connecting", "Connected", "Closing"}
      /\ told \in BOOLEAN /\ told' \in BOOLEAN
  BY DEF TypeOK, StreamTypeOK, ClientTypeOK
<1>1. CASE UNCHANGED vars
  <2>1. phase' = phase /\ told' = told
    BY <1>1 DEF vars, streamVars, clientVars, phase, IsConnected
  <2> QED BY <2>1 DEF Session!sessionVars
<1>2. CASE Next
  <2>1. Moves /\ Follows
    BY <1>2, NextMoves
  <2>2. /\ phase = "Online" <=> IsConnected /\ ~starting
        /\ phase = "Connecting" <=>
             ~(IsConnected /\ ~starting) /\ socket \in {"Connecting", "Connected"}
        /\ phase = "Offline" <=> socket \in {"Unconnected", "Closing"}
    BY <1>0 DEF phase, IsConnected
  <2>3. /\ phase' = "Online" <=> IsConnected' /\ ~starting'
        /\ phase' = "Connecting" <=>
             ~(IsConnected' /\ ~starting') /\ socket' \in {"Connecting", "Connected"}
        /\ phase' = "Offline" <=> socket' \in {"Unconnected", "Closing"}
    BY <1>0 DEF phase, IsConnected
  <2>4. /\ told => socket = "Closing" \/ phase = "Online"
        /\ phase = "Online" => told
    BY <2>2 DEF SessionInv, ToldMeansSession
  <2>5. /\ told' => socket' = "Closing" \/ phase' = "Online"
        /\ phase' = "Online" => told'
    BY <2>3 DEF SessionInv, ToldMeansSession
  <2>6. phase \in {"Offline", "Connecting", "Online"} /\ phase' \in {"Offline", "Connecting", "Online"}
    BY DEF phase
  <2>7. CASE phase = "Online"
    <3>1. phase' \in {"Online", "Offline"}
      BY <2>1, <2>2, <2>3, <2>7 DEF Moves
    <3>2. CASE phase' = "Online"
      BY <1>0, <2>4, <2>5, <2>7, <3>2 DEF Session!sessionVars
    <3>3. CASE phase' = "Offline"
      BY <1>0, <2>7, <3>3 DEF Session!SessionNext, Session!Drop
    <3> QED BY <3>1, <3>2, <3>3
  <2>8. CASE phase = "Connecting"
    <3>1. ~told
      BY <2>2, <2>4, <2>8
    <3>2. CASE phase' = "Connecting"
      <4>1. ~told'
        BY <2>3, <2>5, <3>2
      <4> QED BY <1>0, <2>8, <3>1, <3>2, <4>1 DEF Session!sessionVars
    <3>3. CASE phase' = "Online"
      BY <1>0, <2>5, <2>8, <3>1, <3>3 DEF Session!SessionNext, Session!Establish
    <3>4. CASE phase' = "Offline"
      <4>1. ~told'
        BY <2>1, <2>3, <3>1, <3>4 DEF Moves, Follows
      <4> QED BY <1>0, <2>8, <3>1, <3>4, <4>1 DEF Session!SessionNext, Session!GiveUp
    <3> QED BY <2>6, <3>2, <3>3, <3>4
  <2>9. CASE phase = "Offline"
    <3>1. socket \in {"Unconnected", "Closing"}
      BY <2>2, <2>9
    <3>2. CASE phase' = "Offline"
      <4>1. told' = told \/ told' = FALSE
        BY <1>0, <2>1, <2>3, <3>2 DEF Moves, Follows
      <4> QED BY <2>9, <3>2, <4>1 DEF Session!SessionNext, Session!Notify, Session!sessionVars
    <3>3. CASE phase' = "Connecting"
      <4>1. socket = "Unconnected" /\ ~told /\ ~told'
        BY <2>1, <2>2, <2>3, <2>4, <2>5, <2>9, <3>1, <3>3 DEF Moves
      <4> QED BY <1>0, <2>9, <3>3, <4>1 DEF Session!SessionNext, Session!Attempt
    <3>4. phase' # "Online"
      BY <2>1, <2>3, <3>1 DEF Moves, IsConnected
    <3> QED BY <2>6, <3>2, <3>3, <3>4
  <2> QED BY <2>6, <2>7, <2>8, <2>9
<1> QED BY <1>1, <1>2

\* The client, over any network and any server, is a session as the chat room
\* and the chat widget rely on it: connected() only opens a session that is
\* closed, and disconnected() comes before the next attempt.
THEOREM Refinement == Spec => ImplementsSession
<1>1. Init => Session!SessionInit
  BY DEF Init, StreamInit, Session!SessionInit, phase, IsConnected
<1>2. (TypeOK /\ SessionInv) /\ (TypeOK /\ SessionInv)' /\ [Next]_vars
        => [Session!SessionNext]_(Session!sessionVars)
  BY RefinedStep
<1> QED BY <1>1, <1>2, SessionAlways, PTL DEF Spec, ImplementsSession, Session!SessionSpec
=============================================================================
