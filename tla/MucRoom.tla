------------------------------- MODULE MucRoom -------------------------------
(***************************************************************************)
(* QXmppMucRoom (src/client/QXmppMucManager.cpp): the client's view of one *)
(* chat room and the room as its server sees it, over the session that     *)
(* XmppSession promises.  Participants are named by their nick, the        *)
(* resource of their occupant JID.                                         *)
(*                                                                         *)
(* Requests and presences travel in order, each way, and are lost when the *)
(* session is.  The signals a step emits are the set sig.  Definitions     *)
(* marked "Mutant" are faulty variants of the one that follows; no         *)
(* specification uses them.                                                *)
(***************************************************************************)
EXTENDS XmppSession, Naturals, Sequences, SequencesExt

CONSTANTS
    Nicks,        \* the nicks occupants can have, "" not among them
    EmptyNick,    \* may the program set an empty nick?
    Powers,       \* what the server can grant an occupant
    MaxQueue      \* bound on the stanzas under way in one direction

NoNick == ""

ASSUME RoomAssumption ==
    /\ NoNick \notin Nicks /\ Nicks # {} /\ IsFiniteSet(Nicks)
    /\ EmptyNick \in BOOLEAN
    /\ Powers \subseteq {"none", "moderator", "admin", "owner"} /\ Powers # {}
    /\ MaxQueue \in Nat

VARIABLES
    nickName,       \* d->nickName
    participants,   \* the keys of d->participants
    allowedActions, \* d->allowedActions
    toServer,       \* requests under way
    fromServer,     \* presences under way
    occupants,      \* server: the nicks in the room
    me,             \* server: this client's nick, or NoNick
    grant,          \* server: the power it has given this client
    sig,            \* the signals emitted by the last step
    rash            \* history: in this session the program has changed its nick
                    \* inside the room, or not waited for the last answer

room == <<nickName, participants, allowedActions>>
wire == <<toServer, fromServer>>
chatServer == <<occupants, me, grant>>
roomVars == <<phase, told, room, wire, chatServer, sig, rash>>

Request(kind, nick) == [kind |-> kind, nick |-> nick]
Presence(type, nick, power) == [type |-> type, nick |-> nick, power |-> power]
Signal(kind, nick) == [kind |-> kind, nick |-> nick]

RequestSet == [kind : {"join", "presence", "leave"}, nick : Nicks \cup {NoNick}]
PresenceSet == [type : {"available", "unavailable", "kicked", "error", "plainError"},
                nick : Nicks, power : Powers \cup {"none"}]
SignalSet == [kind : {"added", "removed", "joined", "left", "kicked"},
              nick : Nicks \cup {NoNick}]
Actions == {"Subject", "Configuration", "Permissions", "Kick"}

RoomTypeOK ==
    /\ SessionTypeOK
    /\ nickName \in Nicks \cup {NoNick}
    /\ participants \subseteq Nicks
    /\ allowedActions \subseteq Actions
    /\ toServer \in Seq(RequestSet) /\ fromServer \in Seq(PresenceSet)
    /\ occupants \subseteq Nicks
    /\ me \in occupants \cup {NoNick}
    /\ grant \in Powers \cup {"none"}
    /\ sig \subseteq SignalSet
    /\ rash \in BOOLEAN

RoomInit ==
    /\ SessionInit
    /\ nickName = NoNick /\ participants = {} /\ allowedActions = {}
    /\ toServer = <<>> /\ fromServer = <<>>
    /\ occupants \in SUBSET Nicks /\ me = NoNick /\ grant = "none"
    /\ sig = {} /\ rash = FALSE

IsJoined == nickName \in participants

Quiet == toServer = <<>> /\ fromServer = <<>>

-----------------------------------------------------------------------------
(* Calls.                                                                  *)

\* sendPacket: requests leave only while the session is up.
Send(requests) ==
    /\ Len(toServer) + Len(requests) <= MaxQueue
    /\ toServer' = IF phase = "Online" THEN toServer \o requests ELSE toServer

\* setNickName(nick): a joined room asks the server for the new nick, and is
\* under its new nick at once.
RenameRequests(nick) ==
    IF IsJoined /\ nick # nickName THEN <<Request("presence", nick)>> ELSE <<>>

SetNickName ==
    /\ \E nick \in Nicks \cup (IF EmptyNick THEN {NoNick} ELSE {}) :
         /\ IsJoined => nick # NoNick
         /\ nickName' = nick
         /\ Send(RenameRequests(nick))
         /\ rash' = (rash \/ ~Quiet \/ RenameRequests(nick) # <<>>)
    /\ sig' = {}
    /\ UNCHANGED <<phase, told, participants, allowedActions, fromServer, chatServer>>

\* Mutant: join() does not look at the nick.
JoinRequestsAnyNick(nick) ==
    IF nick \notin participants THEN <<Request("join", nick)>> ELSE <<>>

\* join(), for a room whose nick is nick: false, and nothing sent, when
\* joined or without a nick.
JoinRequests(nick) ==
    IF nick \notin participants /\ nick # NoNick
    THEN <<Request("join", nick)>> ELSE <<>>

Join ==
    /\ Send(JoinRequests(nickName))
    /\ rash' = (rash \/ ~Quiet)
    /\ sig' = {}
    /\ UNCHANGED <<phase, told, room, fromServer, chatServer>>

Leave ==
    /\ Send(<<Request("leave", nickName)>>)
    /\ sig' = {}
    /\ UNCHANGED <<phase, told, room, fromServer, chatServer, rash>>

-----------------------------------------------------------------------------
(* The server.                                                             *)

\* A request is answered when there is room for what it causes.
Answer(kind, presences) ==
    /\ phase = "Online" /\ toServer # <<>> /\ Head(toServer).kind \in kind
    /\ Len(fromServer) + Len(presences) <= MaxQueue
    /\ toServer' = Tail(toServer)
    /\ fromServer' = fromServer \o presences
    /\ sig' = {}
    /\ UNCHANGED <<phase, told, room, rash>>

Asked == Head(toServer).nick

\* Everyone who is there, and then the newcomer.
Roll(nick, power) ==
    LET others == SetToSeq(occupants)
    IN [i \in DOMAIN others |-> Presence("available", others[i], "none")]
       \o <<Presence("available", nick, power)>>

ServerJoins ==
    /\ me = NoNick /\ toServer # <<>> /\ Asked \notin occupants
    /\ \E power \in Powers : Answer({"join"}, Roll(Asked, power)) /\ grant' = power
    /\ me' = Asked /\ occupants' = occupants \cup {me'}

\* The nick is taken.
ServerRefusesJoin ==
    /\ me = NoNick /\ toServer # <<>> /\ Asked \in occupants
    /\ Answer({"join"}, <<Presence("error", Asked, "none")>>)
    /\ UNCHANGED chatServer

\* A presence from an occupant, under its own nick or under another one.
ServerUpdates ==
    /\ me # NoNick /\ toServer # <<>> /\ Asked = me
    /\ Answer({"join", "presence"}, <<Presence("available", me, grant)>>)
    /\ UNCHANGED chatServer

ServerRenames ==
    /\ me # NoNick /\ toServer # <<>> /\ Asked \notin occupants
    /\ Asked # NoNick
    /\ Answer({"join", "presence"}, <<Presence("unavailable", me, "none"),
                                      Presence("available", Asked, grant)>>)
    /\ me' = Asked /\ occupants' = (occupants \ {me}) \cup {me'}
    /\ UNCHANGED grant

\* The error may or may not carry the <x/> of the protocol.
ServerRefusesRename ==
    /\ me # NoNick /\ toServer # <<>> /\ Asked \in occupants \ {me}
    /\ \E type \in {"error", "plainError"} :
         Answer({"join", "presence"}, <<Presence(type, Asked, "none")>>)
    /\ UNCHANGED chatServer

ServerLetsGo ==
    /\ me # NoNick
    /\ Answer({"leave"}, <<Presence("unavailable", me, "none")>>)
    /\ me' = NoNick /\ occupants' = occupants \ {me} /\ grant' = "none"

\* From someone who is not in the room.
ServerIgnores ==
    /\ me = NoNick
    /\ Answer({"leave", "presence"}, <<>>)
    /\ UNCHANGED chatServer

\* What the server does unasked reaches the client if it is in the room.
Announce(presence) ==
    /\ IF me = NoNick THEN UNCHANGED fromServer
       ELSE /\ Len(fromServer) < MaxQueue
            /\ fromServer' = Append(fromServer, presence)
    /\ sig' = {}
    /\ UNCHANGED <<phase, told, room, toServer, rash>>

OtherEnters == \E nick \in Nicks \ occupants :
    /\ Announce(Presence("available", nick, "none"))
    /\ occupants' = occupants \cup {nick} /\ UNCHANGED <<me, grant>>

OtherLeaves == \E nick \in occupants \ {me} :
    /\ Announce(Presence("unavailable", nick, "none"))
    /\ occupants' = occupants \ {nick} /\ UNCHANGED <<me, grant>>

ServerGrants == \E power \in Powers :
    /\ me # NoNick
    /\ power # grant
    /\ Announce(Presence("available", me, power))
    /\ grant' = power /\ UNCHANGED <<occupants, me>>

ServerKicks ==
    /\ me # NoNick
    /\ Announce(Presence("kicked", me, "none"))
    /\ me' = NoNick /\ occupants' = occupants \ {me} /\ grant' = "none"

Server ==
    \/ ServerJoins \/ ServerRefusesJoin \/ ServerUpdates \/ ServerRenames
    \/ ServerRefusesRename \/ ServerLetsGo \/ ServerIgnores

ServerUnasked == OtherEnters \/ OtherLeaves \/ ServerGrants \/ ServerKicks

-----------------------------------------------------------------------------
(* _q_presenceReceived                                                     *)

Receive(types) ==
    /\ phase = "Online" /\ fromServer # <<>> /\ Head(fromServer).type \in types
    /\ fromServer' = Tail(fromServer)
    /\ UNCHANGED <<phase, told, nickName, toServer, chatServer, rash>>

From == Head(fromServer).nick

ActionsOf(power) ==
    CASE power = "none"      -> {}
      [] power = "moderator" -> {"Kick", "Subject"}
      [] power = "admin"     -> {"Permissions", "Subject"}
      [] power = "owner"     -> {"Configuration", "Permissions", "Subject"}

Removed(nicks) == {Signal("removed", nick) : nick \in nicks}

PresenceAvailable ==
    /\ Receive({"available"})
    /\ participants' = participants \cup {From}
    /\ allowedActions' = IF From = nickName THEN ActionsOf(Head(fromServer).power)
                         ELSE allowedActions
    /\ sig' = IF From \in participants THEN {}
              ELSE {Signal("added", From)}
                   \cup (IF From = nickName THEN {Signal("joined", NoNick)} ELSE {})

\* Someone else leaves, or a nick this client has given up.
OtherUnavailable ==
    /\ Receive({"unavailable", "kicked"})
    /\ From # nickName \/ From \notin participants
    /\ participants' = participants \ {From}
    /\ sig' = Removed({From} \cap participants)
    /\ UNCHANGED allowedActions

\* Mutant: only our own entry is removed.
OwnUnavailableKeepsOthers ==
    /\ Receive({"unavailable", "kicked"})
    /\ From = nickName /\ From \in participants
    /\ participants' = participants \ {From} /\ allowedActions' = {}
    /\ sig' = {Signal("removed", From), Signal("left", NoNick)}
              \cup (IF Head(fromServer).type = "kicked"
                    THEN {Signal("kicked", NoNick)} ELSE {})

\* Mutant: the presence of any participant is taken for our own.
OwnUnavailableAnyone ==
    /\ Receive({"unavailable", "kicked"})
    /\ From \in participants
    /\ participants' = {} /\ allowedActions' = {}
    /\ sig' = Removed(participants) \cup {Signal("left", NoNick)}

\* Our own presence: the room is cleared.
OwnUnavailable ==
    /\ Receive({"unavailable", "kicked"})
    /\ From = nickName /\ From \in participants
    /\ participants' = {} /\ allowedActions' = {}
    /\ sig' = Removed(participants) \cup {Signal("left", NoNick)}
              \cup (IF Head(fromServer).type = "kicked"
                    THEN {Signal("kicked", NoNick)} ELSE {})

PresenceError ==
    /\ Receive({"error", "plainError"})
    /\ sig' = IF Head(fromServer).type = "error" THEN {Signal("left", NoNick)} ELSE {}
    /\ UNCHANGED <<participants, allowedActions>>

\* The presence of the client itself comes back from its server and is
\* reflected in a joined room.
OwnPresence ==
    /\ phase = "Online" /\ IsJoined
    /\ Send(<<Request("presence", nickName)>>)
    /\ sig' = {}
    /\ UNCHANGED <<phase, told, room, fromServer, chatServer, rash>>

Presences == PresenceAvailable \/ OtherUnavailable \/ OwnUnavailable \/ PresenceError

-----------------------------------------------------------------------------
(* The session.                                                            *)

\* Mutant: nothing is done if the room is not joined.
DisconnectedIfJoined ==
    /\ IF IsJoined THEN participants' = {} /\ allowedActions' = {}
       ELSE UNCHANGED <<participants, allowedActions>>
    /\ sig' = Removed(participants \ participants')
              \cup (IF IsJoined THEN {Signal("left", NoNick)} ELSE {})
    /\ rash' = FALSE
    /\ UNCHANGED nickName

\* _q_disconnected
Disconnected ==
    /\ participants' = {} /\ allowedActions' = {}
    /\ sig' = Removed(participants)
              \cup (IF IsJoined THEN {Signal("left", NoNick)} ELSE {})
    /\ rash' = FALSE
    /\ UNCHANGED nickName

\* The session is lost, and with it what is under way.  The server takes the
\* client out of the room now or, when it has not noticed, later.
SessionLost ==
    /\ Drop
    /\ toServer' = <<>> /\ fromServer' = <<>>
    /\ me' = NoNick /\ grant' = "none"
    /\ occupants' \in {occupants, occupants \ {me}}
    /\ IF told' THEN sig' = {} /\ UNCHANGED <<room, rash>> ELSE Disconnected

SessionClosed == Notify /\ Disconnected /\ UNCHANGED <<wire, chatServer>>

SessionBegins ==
    /\ Attempt \/ GiveUp \/ Establish
    /\ sig' = {}
    /\ UNCHANGED <<room, wire, chatServer, rash>>

RoomNext ==
    \/ SetNickName \/ Join \/ Leave
    \/ Server \/ ServerUnasked \/ Presences \/ OwnPresence
    \/ SessionLost \/ SessionClosed \/ SessionBegins

RoomSpec == RoomInit /\ [][RoomNext]_roomVars

\* Strong fairness because the bound MaxQueue disables the server now and then.
RoomFairSpec ==
    /\ RoomSpec
    /\ SF_roomVars(Server) /\ WF_roomVars(Presences)
    /\ WF_roomVars(SessionClosed)

-----------------------------------------------------------------------------
(* Properties.                                                             *)

\* isJoined() is what the server says, once nothing is under way: requests,
\* answers, kicks and lost sessions that cross each other leave no client
\* that believes it is in a room it has been put out of, or the reverse.
\* A program that changes its nick outside the room and waits for the answers
\* relies on it; setNickName() inside the room forgoes it (QXmppMucManager.cpp:361).
InStep == phase = "Online" /\ Quiet => (IsJoined <=> me # NoNick)
JoinedAgrees == rash \/ InStep

\* participants() (QXmppMucManager.cpp:390) is the room's roll, and empty
\* outside the room.
RollAgrees ==
    phase = "Online" /\ Quiet /\ ~rash => participants = IF IsJoined THEN occupants ELSE {}

\* Nothing of a room outlives the session: a client that has been told
\* disconnected() lists no participant and offers no action, even when the
\* session was lost in the middle of a change of nick, in which isJoined() is
\* false although the room is full.
NoGhosts == ~told => participants = {} /\ allowedActions = {}

\* "Returns the actions you are allowed to perform on the room"
\* (QXmppMucManager.cpp:222): they follow what the server has granted and do
\* not outlive the stay in the room.
ActionsAgree ==
    /\ phase = "Online" /\ Quiet /\ ~rash => allowedActions = ActionsOf(grant)
    /\ allowedActions # {} /\ ~rash => IsJoined

\* "This signal is emitted once you have left the room"
\* (QXmppMucManager.h:162): when left() is emitted the server does not have
\* this client among the occupants any more.
LeftMeansOut == [][ Signal("left", NoNick) \in sig' => me' = NoNick \/ rash ]_roomVars

\* A join request (QXmppMucManager.cpp:247) sent in a session that lasts is
\* answered: the room is joined, or left() says that it is not.
JoinAnswered ==
    (phase = "Online" /\ \E i \in DOMAIN toServer : toServer[i].kind = "join")
        ~> (IsJoined \/ Signal("left", NoNick) \in sig \/ phase # "Online" \/ rash)
\* What the client believes of the room is what the server says, once nothing is
\* under way: that it is in it, who else is, and what it may do.
RoomAgrees == JoinedAgrees /\ RollAgrees /\ ActionsAgree

\* A stay in the room ends with left() and only then, and so does a refused join.
JoinsEnd == LeftMeansOut /\ JoinAnswered
==============================================================================
