--------------------------- MODULE ChatWidget_proofs ---------------------------
(***************************************************************************)
(* Theorems about the room and the chat window over it, for any nicks,     *)
(* powers and bounds.                                                      *)
(*                                                                         *)
(* Of the room, under whatever client: its types, that nothing of it       *)
(* outlives the session, that client and server agree once nothing is      *)
(* under way, and that left() is true.  Of the window: its types, that it  *)
(* agrees with the room, and that its list holds whoever is taken out of   *)
(* it.                                                                     *)
(***************************************************************************)
EXTENDS ChatWidget, FiniteSetTheorems, SequenceTheorems, TLAPS

-----------------------------------------------------------------------------
(* The room.                                                               *)

\* A request to enter, or to be known by another nick, names one.  Without it the server
\* could not answer with a presence of that nick.
NamedRequests ==
    [kind : {"join", "presence"}, nick : Nicks]
    \cup [kind : {"leave"}, nick : Nicks \cup {NoNick}]

RoomInv == RoomTypeOK /\ toServer \in Seq(NamedRequests)

-----------------------------------------------------------------------------
(* The roll.                                                               *)

\* A finite set of nicks is counted by a sequence of its elements, so that the roll the
\* server sends is one of presences.
LEMMA SetToSeqRange ==
    ASSUME NEW S, IsFiniteSet(S)
    PROVE  /\ SetToSeq(S) \in Seq(S)
           /\ \A x \in S : \E i \in DOMAIN SetToSeq(S) : SetToSeq(S)[i] = x
<1>1. /\ Cardinality(S) \in Nat
      /\ ExistsBijection(1 .. Cardinality(S), S)
    BY FS_CardinalityType
<1>2. PICK f \in Bijection(1 .. Cardinality(S), S) : TRUE
    BY <1>1 DEF ExistsBijection
<1>3. f \in [1 .. Cardinality(S) -> S] /\ IsInjective(f)
    BY <1>2 DEF Bijection, Injection
<1>4. SetToSeq(S) \in [1 .. Cardinality(S) -> S] /\ IsInjective(SetToSeq(S))
    BY <1>3 DEF SetToSeq
<1>5. SetToSeq(S) \in Injection(1 .. Cardinality(S), S)
    BY <1>4 DEF Injection
<1>6. IsFiniteSet(1 .. Cardinality(S)) /\ Cardinality(1 .. Cardinality(S)) = Cardinality(S)
    BY <1>1, FS_Interval
<1>7. SetToSeq(S) \in Surjection(1 .. Cardinality(S), S)
    BY <1>5, <1>6, FS_Injection
<1> QED  BY <1>1, <1>4, <1>7 DEF Surjection

LEMMA RollType ==
    ASSUME NEW S \in SUBSET Nicks, NEW nick \in Nicks, NEW power \in Powers
    PROVE  ([i \in DOMAIN SetToSeq(S) |-> Presence("available", SetToSeq(S)[i], "none")]
              \o <<Presence("available", nick, power)>>) \in Seq(PresenceSet)
<1> DEFINE others == SetToSeq(S)
           rest == [i \in DOMAIN others |-> Presence("available", others[i], "none")]
<1>1. IsFiniteSet(S)
    BY FS_Subset, RoomAssumption DEF RoomAssumption
<1>2. others \in Seq(S)
    BY <1>1, SetToSeqRange
<1>3. /\ Len(others) \in Nat /\ DOMAIN others = 1 .. Len(others)
      /\ \A i \in DOMAIN others : others[i] \in Nicks
    BY <1>2
<1>4. \A i \in DOMAIN others : Presence("available", others[i], "none") \in PresenceSet
    BY <1>3 DEF Presence, PresenceSet
<1>5. rest \in [1 .. Len(others) -> PresenceSet]
    BY <1>3, <1>4
<1>6. rest \in Seq(PresenceSet)
    BY <1>3, <1>5
<1>7. <<Presence("available", nick, power)>> \in Seq(PresenceSet)
    BY DEF Presence, PresenceSet
<1> QED  BY <1>6, <1>7

-----------------------------------------------------------------------------
(* What sending and answering leave behind.                                *)

LEMMA NamedIsRequest == NamedRequests \subseteq RequestSet
    BY DEF NamedRequests, RequestSet

LEMMA OneNamed ==
    ASSUME NEW kind \in {"join", "presence"}, NEW nick \in Nicks
    PROVE  <<Request(kind, nick)>> \in Seq(NamedRequests) /\ <<>> \in Seq(NamedRequests)
<1>1. Request(kind, nick) \in NamedRequests
    BY DEF Request, NamedRequests
<1> QED  BY <1>1

LEMMA SendType ==
    ASSUME NEW requests \in Seq(NamedRequests), toServer \in Seq(NamedRequests), Send(requests)
    PROVE  /\ toServer' \in Seq(NamedRequests)
           /\ toServer' \in Seq(RequestSet)
<1>1. toServer' \in Seq(NamedRequests)
    BY DEF Send
<1> QED  BY <1>1, NamedIsRequest

\* What an answer changes, but for the server itself.
LEMMA AnswerType ==
    ASSUME NEW presences \in Seq(PresenceSet), NEW kind, RoomInv, Answer(kind, presences)
    PROVE  /\ SessionTypeOK'
           /\ nickName' \in Nicks \cup {NoNick} /\ participants' \subseteq Nicks
           /\ allowedActions' \subseteq Actions
           /\ toServer' \in Seq(RequestSet) /\ toServer' \in Seq(NamedRequests)
           /\ fromServer' \in Seq(PresenceSet)
           /\ sig' \subseteq SignalSet /\ rash' \in BOOLEAN
<1>1. toServer # <<>> /\ toServer \in Seq(NamedRequests) /\ toServer \in Seq(RequestSet)
    BY DEF RoomInv, RoomTypeOK, Answer
<1>2. Tail(toServer) \in Seq(NamedRequests) /\ Tail(toServer) \in Seq(RequestSet)
    BY <1>1
<1>3. fromServer' \in Seq(PresenceSet)
    BY DEF RoomInv, RoomTypeOK, Answer
<1> QED  BY <1>2, <1>3 DEF RoomInv, RoomTypeOK, SessionTypeOK, Answer, room

\* The request that is answered names somebody, unless it is one to leave.
LEMMA AskedType ==
    ASSUME RoomInv, toServer # <<>>, NEW kinds, Head(toServer).kind \in kinds
    PROVE  /\ Asked \in Nicks \cup {NoNick}
           /\ kinds \subseteq {"join", "presence"} => Asked \in Nicks
<1>1. Head(toServer) \in NamedRequests
    BY DEF RoomInv
<1> QED  BY <1>1 DEF NamedRequests, Asked

-----------------------------------------------------------------------------
(* Every action keeps the types.                                           *)

LEMMA CallsType ==
    ASSUME RoomInv, SetNickName \/ Join \/ Leave \/ OwnPresence
    PROVE  RoomInv'
<1> USE DEF Request
<1>1. CASE SetNickName
  <2>1. PICK nick \in Nicks \cup {NoNick} :
          /\ IsJoined => nick # NoNick
          /\ nickName' = nick
          /\ Send(RenameRequests(nick))
          /\ rash' = (rash \/ ~Quiet \/ RenameRequests(nick) # <<>>)
      BY <1>1 DEF SetNickName
  <2>2. RenameRequests(nick) \in Seq(NamedRequests)
    <3>1. CASE IsJoined /\ nick # nickName
      <4>1. nick \in Nicks
          BY <2>1, <3>1
      <4> QED  BY <3>1, <4>1, OneNamed DEF RenameRequests
    <3>2. CASE ~(IsJoined /\ nick # nickName)
        BY <3>2 DEF RenameRequests
    <3> QED  BY <3>1, <3>2
  <2>3. toServer' \in Seq(NamedRequests) /\ toServer' \in Seq(RequestSet)
      BY <2>1, <2>2, SendType DEF RoomInv
  <2>4. rash' \in BOOLEAN
      BY <2>1 DEF RoomInv, RoomTypeOK
  <2> QED  BY <1>1, <2>1, <2>3, <2>4 DEF SetNickName, RoomInv, RoomTypeOK, SessionTypeOK, chatServer
<1>2. CASE Join
  <2>1. JoinRequests(nickName) \in Seq(NamedRequests)
    <3>1. CASE nickName \notin participants /\ nickName # NoNick
      <4>1. nickName \in Nicks
          BY <3>1 DEF RoomInv, RoomTypeOK
      <4> QED  BY <3>1, <4>1, OneNamed DEF JoinRequests
    <3>2. CASE ~(nickName \notin participants /\ nickName # NoNick)
        BY <3>2 DEF JoinRequests
    <3> QED  BY <3>1, <3>2
  <2>2. toServer' \in Seq(NamedRequests) /\ toServer' \in Seq(RequestSet)
      BY <1>2, <2>1, SendType DEF RoomInv, Join
  <2>3. rash' \in BOOLEAN
      BY <1>2 DEF RoomInv, RoomTypeOK, Join
  <2> QED  BY <1>2, <2>2, <2>3 DEF Join, RoomInv, RoomTypeOK, SessionTypeOK, room, chatServer
<1>3. CASE Leave
  <2>1. <<Request("leave", nickName)>> \in Seq(NamedRequests)
      BY DEF NamedRequests, RoomInv, RoomTypeOK
  <2>2. toServer' \in Seq(NamedRequests) /\ toServer' \in Seq(RequestSet)
      BY <1>3, <2>1, SendType DEF RoomInv, Leave
  <2> QED  BY <1>3, <2>2 DEF Leave, RoomInv, RoomTypeOK, SessionTypeOK, room, chatServer
<1>4. CASE OwnPresence
  <2>1. <<Request("presence", nickName)>> \in Seq(NamedRequests)
      BY <1>4 DEF OwnPresence, IsJoined, NamedRequests, RoomInv, RoomTypeOK
  <2>2. toServer' \in Seq(NamedRequests) /\ toServer' \in Seq(RequestSet)
      BY <1>4, <2>1, SendType DEF RoomInv, OwnPresence
  <2> QED  BY <1>4, <2>2 DEF OwnPresence, RoomInv, RoomTypeOK, SessionTypeOK, room, chatServer
<1> QED  BY <1>1, <1>2, <1>3, <1>4

\* The server's table stays one of nicks.
LEMMA TableType ==
    ASSUME RoomInv, Server \/ ServerUnasked
    PROVE  occupants' \subseteq Nicks /\ me' \in occupants' \cup {NoNick}
           /\ grant' \in Powers \cup {"none"}
<1>1. occupants \subseteq Nicks /\ me \in occupants \cup {NoNick} /\ grant \in Powers \cup {"none"}
    BY DEF RoomInv, RoomTypeOK
<1>2. ASSUME ServerJoins PROVE Asked \in Nicks
    BY <1>2, AskedType DEF ServerJoins, Answer
<1>3. ASSUME ServerRenames PROVE Asked \in Nicks
    BY <1>3, AskedType DEF ServerRenames, Answer
<1>4. CASE ServerJoins
    BY <1>1, <1>2, <1>4 DEF ServerJoins
<1>5. CASE ServerRenames
    BY <1>1, <1>3, <1>5 DEF ServerRenames
<1>6. CASE ServerRefusesJoin \/ ServerUpdates \/ ServerRefusesRename \/ ServerIgnores
    BY <1>1, <1>6 DEF ServerRefusesJoin, ServerUpdates, ServerRefusesRename, ServerIgnores, chatServer
<1>7. CASE ServerLetsGo \/ ServerKicks
    BY <1>1, <1>7 DEF ServerLetsGo, ServerKicks
<1>8. CASE OtherEnters \/ OtherLeaves \/ ServerGrants
    BY <1>1, <1>8 DEF OtherEnters, OtherLeaves, ServerGrants
<1> QED  BY <1>4, <1>5, <1>6, <1>7, <1>8 DEF Server, ServerUnasked

LEMMA OnePresence ==
    ASSUME NEW type \in {"available", "unavailable", "kicked", "error", "plainError"},
           NEW nick \in Nicks, NEW power \in Powers \cup {"none"}
    PROVE  /\ Presence(type, nick, power) \in PresenceSet
           /\ <<Presence(type, nick, power)>> \in Seq(PresenceSet)
<1>1. Presence(type, nick, power) \in PresenceSet
    BY DEF Presence, PresenceSet
<1> QED  BY <1>1

\* What is answered are presences of nicks.
LEMMA AnsweredType ==
    ASSUME RoomInv, Server
    PROVE  \E kind : \E presences \in Seq(PresenceSet) : Answer(kind, presences)
<1>1. /\ occupants \subseteq Nicks /\ (me # NoNick => me \in Nicks)
      /\ grant \in Powers \cup {"none"}
    BY DEF RoomInv, RoomTypeOK
<1>2. \A kinds : toServer # <<>> /\ Head(toServer).kind \in kinds /\ kinds \subseteq {"join", "presence"}
                   => Asked \in Nicks
    BY AskedType
<1>3. CASE ServerJoins
  <2>1. PICK power \in Powers : Answer({"join"}, Roll(Asked, power))
      BY <1>3 DEF ServerJoins
  <2>2. Asked \in Nicks
      BY <1>2, <2>1 DEF Answer
  <2>3. Roll(Asked, power) \in Seq(PresenceSet)
      BY <1>1, <2>2, RollType DEF Roll
  <2> QED  BY <2>1, <2>3
<1>4. CASE ServerRefusesJoin
  <2>1. Answer({"join"}, <<Presence("error", Asked, "none")>>)
      BY <1>4 DEF ServerRefusesJoin
  <2>2. Asked \in Nicks
      BY <1>2, <2>1 DEF Answer
  <2> QED  BY <2>1, <2>2, OnePresence
<1>5. CASE ServerUpdates
  <2>1. me # NoNick /\ Answer({"join", "presence"}, <<Presence("available", me, grant)>>)
      BY <1>5 DEF ServerUpdates
  <2> QED  BY <1>1, <2>1, OnePresence
<1>6. CASE ServerRenames
  <2> DEFINE presences == <<Presence("unavailable", me, "none"), Presence("available", Asked, grant)>>
  <2>1. me # NoNick /\ Answer({"join", "presence"}, presences)
      BY <1>6 DEF ServerRenames
  <2>2. Asked \in Nicks
      BY <1>2, <2>1 DEF Answer
  <2>3. Presence("unavailable", me, "none") \in PresenceSet
      BY <1>1, <2>1, OnePresence
  <2>4. Presence("available", Asked, grant) \in PresenceSet
      BY <1>1, <2>2, OnePresence
  <2>5. presences \in Seq(PresenceSet)
      BY <2>3, <2>4
  <2> QED  BY <2>1, <2>5
<1>7. CASE ServerRefusesRename
  <2>1. PICK type \in {"error", "plainError"} :
            Answer({"join", "presence"}, <<Presence(type, Asked, "none")>>)
      BY <1>7 DEF ServerRefusesRename
  <2>2. Asked \in Nicks
      BY <1>2, <2>1 DEF Answer
  <2> QED  BY <2>1, <2>2, OnePresence
<1>8. CASE ServerLetsGo
  <2>1. me # NoNick /\ Answer({"leave"}, <<Presence("unavailable", me, "none")>>)
      BY <1>8 DEF ServerLetsGo
  <2> QED  BY <1>1, <2>1, OnePresence
<1>9. CASE ServerIgnores
  <2>1. Answer({"leave", "presence"}, <<>>) /\ <<>> \in Seq(PresenceSet)
      BY <1>9 DEF ServerIgnores
  <2> QED  BY <2>1
<1> QED  BY <1>3, <1>4, <1>5, <1>6, <1>7, <1>8, <1>9 DEF Server

LEMMA ServerType ==
    ASSUME RoomInv, Server
    PROVE  RoomInv'
<1>1. PICK kind : \E presences \in Seq(PresenceSet) : Answer(kind, presences)
    BY AnsweredType
<1>2. /\ SessionTypeOK'
      /\ nickName' \in Nicks \cup {NoNick} /\ participants' \subseteq Nicks
      /\ allowedActions' \subseteq Actions
      /\ toServer' \in Seq(RequestSet) /\ toServer' \in Seq(NamedRequests)
      /\ fromServer' \in Seq(PresenceSet)
      /\ sig' \subseteq SignalSet /\ rash' \in BOOLEAN
    BY <1>1, AnswerType
<1>3. /\ occupants' \subseteq Nicks /\ me' \in occupants' \cup {NoNick}
      /\ grant' \in Powers \cup {"none"}
    BY TableType
<1> QED  BY <1>2, <1>3 DEF RoomInv, RoomTypeOK

LEMMA UnaskedType ==
    ASSUME RoomInv, ServerUnasked
    PROVE  RoomInv'
<1>1. PICK presence : Announce(presence) /\ (me # NoNick => presence \in PresenceSet)
  <2>1. \A nick \in Nicks, type \in {"available", "unavailable", "kicked"}, power \in Powers \cup {"none"} :
            Presence(type, nick, power) \in PresenceSet
      BY OnePresence
  <2>2. me # NoNick => me \in Nicks
      BY DEF RoomInv, RoomTypeOK
  <2>3. occupants \subseteq Nicks
      BY DEF RoomInv, RoomTypeOK
  <2>4. CASE OtherEnters  BY <2>1, <2>4 DEF OtherEnters
  <2>5. CASE OtherLeaves  BY <2>1, <2>3, <2>5 DEF OtherLeaves
  <2>6. CASE ServerGrants BY <2>1, <2>2, <2>6 DEF ServerGrants
  <2>7. CASE ServerKicks  BY <2>1, <2>2, <2>7 DEF ServerKicks
  <2> QED  BY <2>4, <2>5, <2>6, <2>7 DEF ServerUnasked
<1>2. fromServer' \in Seq(PresenceSet)
    BY <1>1 DEF Announce, RoomInv, RoomTypeOK
<1>3. sig' \subseteq SignalSet
    BY <1>1 DEF Announce
<1> QED  BY <1>1, <1>2, <1>3, TableType DEF Announce, RoomInv, RoomTypeOK, SessionTypeOK, room

LEMMA SignalTypes ==
    ASSUME NEW nicks \in SUBSET Nicks
    PROVE  /\ Removed(nicks) \subseteq SignalSet
           /\ \A nick \in Nicks : Signal("added", nick) \in SignalSet
           /\ \A kind \in {"joined", "left", "kicked"} : Signal(kind, NoNick) \in SignalSet
    BY DEF Removed, Signal, SignalSet

LEMMA PresencesType ==
    ASSUME RoomInv, Presences
    PROVE  RoomInv'
<1>1. PICK types : Receive(types)
    BY DEF Presences, PresenceAvailable, OtherUnavailable, OwnUnavailable, PresenceError
<1>2. /\ fromServer # <<>> /\ fromServer \in Seq(PresenceSet)
      /\ participants \subseteq Nicks /\ allowedActions \subseteq Actions
    BY <1>1 DEF Receive, RoomInv, RoomTypeOK
<1>3. Head(fromServer) \in PresenceSet /\ fromServer' \in Seq(PresenceSet)
    BY <1>1, <1>2 DEF Receive
<1>4. From \in Nicks /\ Head(fromServer).power \in {"none", "moderator", "admin", "owner"}
    BY <1>3, RoomAssumption DEF From, PresenceSet, RoomAssumption
<1>5. ActionsOf(Head(fromServer).power) \subseteq Actions
    BY <1>4 DEF ActionsOf, Actions
<1>6. participants' \subseteq Nicks /\ allowedActions' \subseteq Actions
    BY <1>2, <1>4, <1>5
    DEF Presences, PresenceAvailable, OtherUnavailable, OwnUnavailable, PresenceError
<1>7. {From} \cap participants \subseteq Nicks
    BY <1>2
<1>8. sig' \subseteq SignalSet
    BY <1>2, <1>4, <1>7, SignalTypes
    DEF Presences, PresenceAvailable, OtherUnavailable, OwnUnavailable, PresenceError
<1> QED  BY <1>1, <1>3, <1>6, <1>8 DEF Receive, RoomInv, RoomTypeOK, SessionTypeOK, chatServer

LEMMA DisconnectedType ==
    ASSUME RoomInv, Disconnected
    PROVE  /\ nickName' \in Nicks \cup {NoNick} /\ participants' \subseteq Nicks
           /\ allowedActions' \subseteq Actions
           /\ sig' \subseteq SignalSet /\ rash' \in BOOLEAN
<1>1. participants \in SUBSET Nicks
    BY DEF RoomInv, RoomTypeOK
<1>2. sig' \subseteq SignalSet
    BY <1>1, SignalTypes DEF Disconnected
<1> QED  BY <1>2 DEF Disconnected, RoomInv, RoomTypeOK

LEMMA SessionType ==
    ASSUME RoomInv, SessionLost \/ SessionClosed \/ SessionBegins
    PROVE  RoomInv'
<1> USE DEF RoomInv, RoomTypeOK, SessionTypeOK
<1>1. CASE SessionLost
  <2>1. /\ toServer' = <<>> /\ fromServer' = <<>> /\ me' = NoNick /\ grant' = "none"
        /\ occupants' \subseteq Nicks /\ SessionTypeOK'
      BY <1>1 DEF SessionLost, Drop
  <2>2. /\ nickName' \in Nicks \cup {NoNick} /\ participants' \subseteq Nicks
        /\ allowedActions' \subseteq Actions
        /\ sig' \subseteq SignalSet /\ rash' \in BOOLEAN
    <3>1. CASE told'
        BY <1>1, <3>1 DEF SessionLost, room
    <3>2. CASE ~told'
        BY <1>1, <3>2, DisconnectedType DEF SessionLost
    <3> QED  BY <3>1, <3>2
  <2> QED  BY <2>1, <2>2
<1>2. CASE SessionClosed
    BY <1>2, DisconnectedType DEF SessionClosed, Notify, wire, chatServer
<1>3. CASE SessionBegins
    BY <1>3 DEF SessionBegins, Attempt, GiveUp, Establish, room, wire, chatServer
<1> QED  BY <1>1, <1>2, <1>3

-----------------------------------------------------------------------------
(* The types of the room, and that nothing of it outlives the session.     *)

\* Whoever has a session has been told so, and whoever has not lists nobody.
GhostInv == (phase = "Online" => told) /\ NoGhosts

LEMMA RoomBegins ==
    ASSUME RoomInit
    PROVE  RoomInv /\ GhostInv
<1>1. <<>> \in Seq(NamedRequests) /\ <<>> \in Seq(RequestSet) /\ <<>> \in Seq(PresenceSet)
    OBVIOUS
<1> QED  BY <1>1 DEF RoomInit, SessionInit, RoomInv, RoomTypeOK, SessionTypeOK, GhostInv, NoGhosts

LEMMA TypeInductive == RoomSpec => []RoomInv
<1>1. RoomInit => RoomInv
    BY RoomBegins
<1>2. RoomInv /\ [RoomNext]_roomVars => RoomInv'
  <2>1. SUFFICES ASSUME RoomInv, [RoomNext]_roomVars PROVE RoomInv'
      OBVIOUS
  <2>2. CASE UNCHANGED roomVars
      BY <2>1, <2>2 DEF roomVars, room, wire, chatServer, RoomInv, RoomTypeOK, SessionTypeOK
  <2>3. CASE SetNickName \/ Join \/ Leave \/ OwnPresence
      BY <2>1, <2>3, CallsType
  <2>4. CASE Server
      BY <2>1, <2>4, ServerType
  <2>5. CASE ServerUnasked
      BY <2>1, <2>5, UnaskedType
  <2>6. CASE Presences
      BY <2>1, <2>6, PresencesType
  <2>7. CASE SessionLost \/ SessionClosed \/ SessionBegins
      BY <2>1, <2>7, SessionType
  <2> QED  BY <2>1, <2>2, <2>3, <2>4, <2>5, <2>6, <2>7 DEF RoomNext
<1> QED  BY <1>1, <1>2, PTL DEF RoomSpec

\* The types of the room, of what is under way, and of the table of the server: in
\* particular, join() and setNickName() (QXmppMucManager.cpp:247, 361) never ask the
\* server for an empty nick.
THEOREM RoomTypeCorrect == RoomSpec => []RoomTypeOK
<1>1. RoomInv => RoomTypeOK
    BY DEF RoomInv
<1> QED  BY <1>1, TypeInductive, PTL

LEMMA GhostStep ==
    ASSUME GhostInv, RoomNext
    PROVE  GhostInv'
<1> USE DEF GhostInv, NoGhosts
<1>1. CASE SetNickName \/ Join \/ Leave \/ OwnPresence
    BY <1>1 DEF SetNickName, Join, Leave, OwnPresence, room
<1>2. CASE Server
    BY <1>2 DEF Server, ServerJoins, ServerRefusesJoin, ServerUpdates, ServerRenames,
       ServerRefusesRename, ServerLetsGo, ServerIgnores, Answer, room
<1>3. CASE ServerUnasked
    BY <1>3 DEF ServerUnasked, OtherEnters, OtherLeaves, ServerGrants, ServerKicks,
       Announce, room
<1>4. CASE Presences
    BY <1>4 DEF Presences, PresenceAvailable, OtherUnavailable, OwnUnavailable,
       PresenceError, Receive
<1>5. CASE SessionLost
    BY <1>5 DEF SessionLost, Drop, Disconnected, room
<1>6. CASE SessionClosed
    BY <1>6 DEF SessionClosed, Notify, Disconnected
<1>7. CASE SessionBegins
    BY <1>7 DEF SessionBegins, Attempt, GiveUp, Establish, room
<1> QED  BY <1>1, <1>2, <1>3, <1>4, <1>5, <1>6, <1>7 DEF RoomNext

LEMMA GhostInductive == RoomSpec => []GhostInv
<1>1. RoomInit => GhostInv
    BY RoomBegins
<1>2. GhostInv /\ [RoomNext]_roomVars => GhostInv'
  <2>1. ASSUME GhostInv, UNCHANGED roomVars PROVE GhostInv'
      BY <2>1 DEF roomVars, room, GhostInv, NoGhosts
  <2> QED  BY <2>1, GhostStep
<1> QED  BY <1>1, <1>2, PTL DEF RoomSpec

\* _q_disconnected() (QXmppMucManager.cpp:527) leaves nothing of the room to a client
\* without a session, whenever the session is lost, and nothing comes in later.
THEOREM NoGhostsCorrect == RoomSpec => []NoGhosts
<1>1. GhostInv => NoGhosts
    BY DEF GhostInv
<1> QED  BY <1>1, GhostInductive, PTL

-----------------------------------------------------------------------------
(* That the client and the server agree once nothing is under way.         *)
(*                                                                         *)
(* What is under way is read as what the client will believe: of a nick    *)
(* the last presence under way counts, and the list if there is none.      *)

Errors == {"error", "plainError"}
IsExit(p, nick) == p.type \in {"unavailable", "kicked"} /\ p.nick = nick
IsEntry(p, nick) == p.type = "available" /\ p.nick = nick

Speaks(p, nick) == p.type \notin Errors /\ p.nick = nick
LastWord(queue, i, nick) ==
    Speaks(queue[i], nick) /\ \A j \in DOMAIN queue : j > i => ~Speaks(queue[j], nick)

RollTold == \A nick \in Nicks :
    /\ \A i \in DOMAIN fromServer :
         LastWord(fromServer, i, nick) => (fromServer[i].type = "available" <=> nick \in occupants)
    /\ (\A i \in DOMAIN fromServer : ~Speaks(fromServer[i], nick)) =>
         (nick \in participants <=> nick \in occupants)

PowerTold ==
    /\ \A i \in DOMAIN fromServer : LastWord(fromServer, i, nickName) => fromServer[i].power = grant
    /\ (\A i \in DOMAIN fromServer : ~Speaks(fromServer[i], nickName)) =>
         allowedActions = ActionsOf(grant)

Outside == me = NoNick /\ participants = {} /\ allowedActions = {}

\* A join is asked for from outside, when nothing comes in any more, and before whatever
\* else is asked for under the same nick.
AskedInTurn == \A i \in DOMAIN toServer :
    /\ me # NoNick => toServer[i].nick = nickName
    /\ toServer[i].kind = "join" =>
         /\ Outside /\ fromServer = <<>> /\ toServer[i].nick = nickName
         /\ \A j \in DOMAIN toServer :
              j > i => toServer[j].nick = nickName /\ toServer[j].kind # "join"

ExitLast == \A i \in DOMAIN fromServer :
    IsExit(fromServer[i], nickName) => i = Len(fromServer) /\ me = NoNick

ErrorAlone == \A i \in DOMAIN fromServer :
    fromServer[i].type \in Errors => Len(fromServer) = 1 /\ fromServer[i].type = "error" /\ Outside

\* Outside, at most a refusal is under way.  Inside, and on the way out, the client has
\* its own presence, or is about to get it.
InOrOut ==
    \/ Outside /\ \A i \in DOMAIN fromServer : fromServer[i].type \in Errors
    \/ /\ me = nickName \/ \E i \in DOMAIN fromServer : IsExit(fromServer[i], nickName)
       /\ IsJoined \/ \E i \in DOMAIN fromServer : IsEntry(fromServer[i], nickName)

View ==
    /\ me # NoNick => me = nickName /\ RollTold /\ PowerTold
    /\ AskedInTurn /\ ExitLast /\ ErrorAlone /\ InOrOut

ViewInv ==
    /\ phase = "Online" /\ ~rash => View
    /\ phase # "Online" => Quiet /\ me = NoNick
    /\ me = NoNick => grant = "none"
    /\ allowedActions # {} /\ ~rash => IsJoined

-----------------------------------------------------------------------------
(* Sequences.                                                              *)

LEMMA OneMore ==
    ASSUME NEW S, NEW s \in Seq(S), NEW e \in S
    PROVE  /\ Append(s, e) = s \o <<e>> /\ Append(s, e) \in Seq(S)
           /\ Len(Append(s, e)) = Len(s) + 1
           /\ DOMAIN Append(s, e) = 1 .. Len(s) + 1 /\ DOMAIN s = 1 .. Len(s) /\ Len(s) \in Nat
           /\ \A i \in DOMAIN s : Append(s, e)[i] = s[i]
           /\ Append(s, e)[Len(s) + 1] = e
    OBVIOUS

LEMMA OneLess ==
    ASSUME NEW S, NEW s \in Seq(S), s # <<>>
    PROVE  /\ Tail(s) \in Seq(S) /\ Len(Tail(s)) = Len(s) - 1 /\ Len(s) \in Nat \ {0}
           /\ DOMAIN Tail(s) = 1 .. Len(s) - 1 /\ DOMAIN s = 1 .. Len(s)
           /\ \A i \in DOMAIN Tail(s) : i + 1 \in DOMAIN s /\ Tail(s)[i] = s[i + 1]
           /\ \A i \in DOMAIN s \ {1} : i - 1 \in DOMAIN Tail(s) /\ Tail(s)[i - 1] = s[i]
           /\ Head(s) = s[1]
<1>1. /\ Tail(s) \in Seq(S) /\ Len(Tail(s)) = Len(s) - 1 /\ Len(s) \in Nat \ {0}
      /\ DOMAIN Tail(s) = 1 .. Len(s) - 1 /\ DOMAIN s = 1 .. Len(s) /\ Head(s) = s[1]
    OBVIOUS
<1>2. \A i \in DOMAIN Tail(s) : i + 1 \in DOMAIN s /\ Tail(s)[i] = s[i + 1]
    BY <1>1
<1>3. \A i \in DOMAIN s \ {1} : i - 1 \in DOMAIN Tail(s) /\ Tail(s)[i - 1] = s[i]
    BY <1>1
<1> QED  BY <1>1, <1>2, <1>3

LEMMA LastWordAppend ==
    ASSUME NEW S, NEW queue \in Seq(S), NEW p \in S, NEW nick,
           NEW i \in DOMAIN Append(queue, p), LastWord(Append(queue, p), i, nick)
    PROVE  IF Speaks(p, nick) THEN i = Len(queue) + 1
                              ELSE i \in DOMAIN queue /\ LastWord(queue, i, nick)
<1>1. /\ DOMAIN Append(queue, p) = 1 .. Len(queue) + 1 /\ DOMAIN queue = 1 .. Len(queue)
      /\ Len(queue) \in Nat /\ Append(queue, p)[Len(queue) + 1] = p
      /\ \A j \in DOMAIN queue : Append(queue, p)[j] = queue[j]
    BY OneMore
<1>2. CASE Speaks(p, nick)
    BY <1>1, <1>2 DEF LastWord
<1>3. CASE ~Speaks(p, nick)
  <2>1. i # Len(queue) + 1 /\ i \in DOMAIN queue
      BY <1>1, <1>3 DEF LastWord
  <2> QED  BY <1>1, <1>3, <2>1 DEF LastWord
<1> QED  BY <1>2, <1>3

LEMMA LastWordTail ==
    ASSUME NEW S, NEW queue \in Seq(S), queue # <<>>, NEW nick
    PROVE  /\ \A i \in DOMAIN Tail(queue) :
                LastWord(Tail(queue), i, nick) => i + 1 \in DOMAIN queue /\ LastWord(queue, i + 1, nick)
           /\ (\A i \in DOMAIN Tail(queue) : ~Speaks(Tail(queue)[i], nick)) =>
                IF Speaks(Head(queue), nick) THEN LastWord(queue, 1, nick)
                ELSE \A i \in DOMAIN queue : ~Speaks(queue[i], nick)
<1>1. /\ Len(queue) \in Nat \ {0}
      /\ DOMAIN Tail(queue) = 1 .. Len(queue) - 1 /\ DOMAIN queue = 1 .. Len(queue)
      /\ \A i \in DOMAIN Tail(queue) : i + 1 \in DOMAIN queue /\ Tail(queue)[i] = queue[i + 1]
      /\ \A i \in DOMAIN queue \ {1} : i - 1 \in DOMAIN Tail(queue) /\ Tail(queue)[i - 1] = queue[i]
      /\ Head(queue) = queue[1]
    BY OneLess
<1>2. ASSUME NEW i \in DOMAIN Tail(queue), LastWord(Tail(queue), i, nick)
      PROVE  i + 1 \in DOMAIN queue /\ LastWord(queue, i + 1, nick)
  <2>1. ASSUME NEW j \in DOMAIN queue, j > i + 1 PROVE ~Speaks(queue[j], nick)
    <3>1. j - 1 \in DOMAIN Tail(queue) /\ j - 1 > i /\ Tail(queue)[j - 1] = queue[j]
        BY <1>1, <2>1
    <3> QED  BY <1>2, <3>1 DEF LastWord
  <2> QED  BY <1>1, <1>2, <2>1 DEF LastWord
<1>3. ASSUME \A i \in DOMAIN Tail(queue) : ~Speaks(Tail(queue)[i], nick)
      PROVE  \A i \in DOMAIN queue \ {1} : ~Speaks(queue[i], nick)
    BY <1>1, <1>3
<1>4. 1 \in DOMAIN queue
    BY <1>1
<1> QED  BY <1>1, <1>2, <1>3, <1>4 DEF LastWord

-----------------------------------------------------------------------------
(* What the server does to the view of the client.                         *)

\* To a client inside, one presence more is told; it may be the one that ends the stay.
LEMMA OneTold ==
    ASSUME RoomInv, View, me # NoNick, NEW p \in PresenceSet,
           fromServer' = Append(fromServer, p), p.type \notin Errors,
           UNCHANGED <<nickName, participants, allowedActions>>,
           \A nick \in Nicks : IF nick = p.nick THEN p.type = "available" <=> nick \in occupants'
                               ELSE nick \in occupants' <=> nick \in occupants,
           IF p.nick = nickName THEN p.power = grant' ELSE UNCHANGED grant,
           me' = IF IsExit(p, nickName) THEN NoNick ELSE me,
           \A i \in DOMAIN toServer' : \E j \in DOMAIN toServer : toServer'[i] = toServer[j]
    PROVE  View'
<1> DEFINE n == Len(fromServer)
<1>1. fromServer \in Seq(PresenceSet) /\ p.type \in {"available", "unavailable", "kicked"}
    BY DEF RoomInv, RoomTypeOK, PresenceSet, Errors
<1>2. /\ Len(fromServer') = n + 1 /\ DOMAIN fromServer' = 1 .. n + 1
      /\ DOMAIN fromServer = 1 .. n /\ n \in Nat
      /\ \A i \in DOMAIN fromServer : fromServer'[i] = fromServer[i]
      /\ fromServer'[n + 1] = p
    BY <1>1, OneMore
<1>3. /\ me = nickName /\ RollTold /\ PowerTold
      /\ \A i \in DOMAIN fromServer : /\ ~IsExit(fromServer[i], nickName)
                                      /\ fromServer[i].type \notin Errors
      /\ IsJoined \/ \E i \in DOMAIN fromServer : IsEntry(fromServer[i], nickName)
      /\ \A i \in DOMAIN toServer : toServer[i].nick = nickName /\ toServer[i].kind # "join"
    BY DEF View, InOrOut, Outside, ExitLast, ErrorAlone, AskedInTurn
<1>4. RollTold'
  <2>1. SUFFICES ASSUME NEW nick \in Nicks
                 PROVE  /\ \A i \in DOMAIN fromServer' : LastWord(fromServer', i, nick) =>
                              (fromServer'[i].type = "available" <=> nick \in occupants')
                        /\ (\A i \in DOMAIN fromServer' : ~Speaks(fromServer'[i], nick)) =>
                              (nick \in participants' <=> nick \in occupants')
      BY DEF RollTold
  <2>2. CASE nick = p.nick
    <3>1. Speaks(p, nick)
        BY <2>2 DEF Speaks
    <3>2. \A i \in DOMAIN fromServer' : LastWord(fromServer', i, nick) => i = n + 1
        BY <1>1, <3>1, LastWordAppend
    <3> QED  BY <1>2, <2>2, <3>1, <3>2
  <2>3. CASE nick # p.nick
    <3>1. ~Speaks(p, nick)
        BY <2>3 DEF Speaks
    <3>2. \A i \in DOMAIN fromServer' : LastWord(fromServer', i, nick) =>
                                          i \in DOMAIN fromServer /\ LastWord(fromServer, i, nick)
        BY <1>1, <3>1, LastWordAppend
    <3>3. (\A i \in DOMAIN fromServer' : ~Speaks(fromServer'[i], nick)) =>
              \A i \in DOMAIN fromServer : ~Speaks(fromServer[i], nick)
        BY <1>2
    <3>4. nick \in occupants' <=> nick \in occupants
        BY <2>3
    <3> QED  BY <1>2, <1>3, <3>2, <3>3, <3>4 DEF RollTold
  <2> QED  BY <2>2, <2>3
<1>5. PowerTold'
  <2>1. CASE Speaks(p, nickName)
    <3>1. \A i \in DOMAIN fromServer' : LastWord(fromServer', i, nickName) => i = n + 1
        BY <1>1, <2>1, LastWordAppend
    <3>2. p.power = grant'
        BY <2>1 DEF Speaks
    <3> QED  BY <1>2, <2>1, <3>1, <3>2 DEF PowerTold
  <2>2. CASE ~Speaks(p, nickName)
    <3>1. \A i \in DOMAIN fromServer' : LastWord(fromServer', i, nickName) =>
                                          i \in DOMAIN fromServer /\ LastWord(fromServer, i, nickName)
        BY <1>1, <2>2, LastWordAppend
    <3>2. grant' = grant
        BY <2>2 DEF Speaks
    <3> QED  BY <1>2, <1>3, <3>1, <3>2 DEF PowerTold
  <2> QED  BY <2>1, <2>2
<1>6. AskedInTurn'
    BY <1>3 DEF AskedInTurn
<1>7. ErrorAlone'
    BY <1>2, <1>3 DEF ErrorAlone
<1>8. ExitLast'
  <2>1. ASSUME NEW i \in DOMAIN fromServer', IsExit(fromServer'[i], nickName)
        PROVE  i = n + 1 /\ IsExit(p, nickName)
      BY <1>2, <1>3, <2>1
  <2> QED  BY <1>2, <2>1 DEF ExitLast
<1>9. InOrOut'
  <2>1. me' = nickName \/ IsExit(fromServer'[n + 1], nickName)
      BY <1>2, <1>3
  <2>2. IsJoined' \/ \E i \in DOMAIN fromServer' : IsEntry(fromServer'[i], nickName)
      BY <1>2, <1>3 DEF IsJoined
  <2> QED  BY <1>2, <2>1, <2>2 DEF InOrOut
<1>10. me' # NoNick => me' = nickName'
    BY <1>3
<1> QED  BY <1>4, <1>5, <1>6, <1>7, <1>8, <1>9, <1>10 DEF View

\* A stanza of the client is taken: what is left of its requests was asked for before.
LEMMA Asks ==
    ASSUME RoomInv, NEW kinds, NEW presences, Answer(kinds, presences)
    PROVE  /\ toServer # <<>> /\ toServer \in Seq(NamedRequests) /\ Asked = toServer[1].nick
           /\ 1 \in DOMAIN toServer /\ toServer[1].kind \in kinds
           /\ \A i \in DOMAIN toServer' : /\ i + 1 \in DOMAIN toServer /\ i + 1 > 1
                                          /\ toServer'[i] = toServer[i + 1]
           /\ UNCHANGED <<phase, told, room, rash>>
           /\ fromServer' = fromServer \o presences
<1>1. toServer # <<>> /\ toServer \in Seq(NamedRequests)
    BY DEF RoomInv, Answer
<1>2. /\ \A i \in DOMAIN Tail(toServer) : i + 1 \in DOMAIN toServer /\ Tail(toServer)[i] = toServer[i + 1]
      /\ DOMAIN Tail(toServer) = 1 .. Len(toServer) - 1 /\ DOMAIN toServer = 1 .. Len(toServer)
      /\ Len(toServer) \in Nat \ {0} /\ Head(toServer) = toServer[1]
    BY <1>1, OneLess
<1> QED  BY <1>1, <1>2 DEF Answer, Asked

LEMMA PresenceParts ==
    ASSUME NEW type, NEW nick, NEW power
    PROVE  /\ Presence(type, nick, power).type = type
           /\ Presence(type, nick, power).nick = nick
           /\ Presence(type, nick, power).power = power
    BY DEF Presence

LEMMA JoinsView ==
    ASSUME RoomInv, View, ServerJoins
    PROVE  View'
<1>1. PICK power \in Powers : Answer({"join"}, Roll(Asked, power)) /\ grant' = power
    BY DEF ServerJoins
<1>2. /\ 1 \in DOMAIN toServer /\ toServer[1].kind = "join" /\ Asked = toServer[1].nick
      /\ \A i \in DOMAIN toServer' : /\ i + 1 \in DOMAIN toServer /\ i + 1 > 1
                                     /\ toServer'[i] = toServer[i + 1]
      /\ UNCHANGED room /\ fromServer' = fromServer \o Roll(Asked, power)
    BY <1>1, Asks
<1>3. /\ Outside /\ fromServer = <<>> /\ Asked = nickName
      /\ \A i \in DOMAIN toServer' : toServer'[i].nick = nickName /\ toServer'[i].kind # "join"
    BY <1>2 DEF View, AskedInTurn
<1>4. Asked \in Nicks /\ occupants \subseteq Nicks /\ IsFiniteSet(occupants)
  <2>1. Asked \in Nicks
      BY <1>1, AskedType DEF Answer
  <2> QED  BY <2>1, FS_Subset, RoomAssumption DEF RoomAssumption, RoomInv, RoomTypeOK
<1> DEFINE others == SetToSeq(occupants)
           n == Len(others)
<1>5. /\ n \in Nat /\ DOMAIN others = 1 .. n /\ \A i \in 1 .. n : others[i] \in occupants
      /\ \A nick \in occupants : \E i \in 1 .. n : others[i] = nick
    BY <1>4, SetToSeqRange
<1>6. fromServer' = Roll(nickName, power) /\ Roll(nickName, power) \in Seq(PresenceSet)
  <2>1. Roll(nickName, power) \in Seq(PresenceSet)
      BY <1>3, <1>4, RollType DEF Roll
  <2> QED  BY <1>2, <1>3, <2>1
<1>7. /\ Len(fromServer') = n + 1 /\ DOMAIN fromServer' = 1 .. n + 1
      /\ \A i \in 1 .. n : fromServer'[i] = Presence("available", others[i], "none")
      /\ fromServer'[n + 1] = Presence("available", nickName, power)
  <2> DEFINE rest == [i \in DOMAIN others |-> Presence("available", others[i], "none")]
  <2>1. rest \in Seq(PresenceSet) /\ Len(rest) = n /\ DOMAIN rest = 1 .. n
    <3>1. \A i \in 1 .. n : Presence("available", others[i], "none") \in PresenceSet
        BY <1>4, <1>5, OnePresence
    <3>2. rest \in [1 .. n -> PresenceSet]
        BY <1>5, <3>1
    <3> QED  BY <1>5, <3>2
  <2>2. fromServer' = rest \o <<Presence("available", nickName, power)>>
      BY <1>6 DEF Roll
  <2>3. Presence("available", nickName, power) \in PresenceSet
      BY <1>3, <1>4, OnePresence
  <2>4. fromServer' = Append(rest, Presence("available", nickName, power))
      BY <2>1, <2>2, <2>3, OneMore
  <2>5. \A i \in 1 .. n : fromServer'[i] = rest[i]
      BY <2>1, <2>3, <2>4, OneMore
  <2> QED  BY <1>5, <2>1, <2>3, <2>4, <2>5, OneMore
<1> HIDE DEF others, n
<1>8. /\ me' = nickName /\ nickName' = nickName /\ occupants' = occupants \cup {nickName}
      /\ nickName \notin occupants /\ participants' = {}
    BY <1>2, <1>3 DEF ServerJoins, room, Outside
<1>9. \A i \in DOMAIN fromServer' : /\ fromServer'[i].type = "available"
                                    /\ fromServer'[i].nick \in occupants'
  <2>1. TAKE i \in DOMAIN fromServer'
  <2>2. i \in 1 .. n \/ i = n + 1
      BY <1>5, <1>7
  <2>3. CASE i \in 1 .. n
    <3>1. fromServer'[i].type = "available" /\ fromServer'[i].nick = others[i]
        BY <1>7, <2>3, PresenceParts
    <3> QED  BY <1>5, <1>8, <2>3, <3>1
  <2>4. CASE i = n + 1
      BY <1>7, <1>8, <2>4 DEF Presence
  <2> QED  BY <2>2, <2>3, <2>4
<1>10. \A nick \in occupants' : \E i \in DOMAIN fromServer' : Speaks(fromServer'[i], nick)
  <2>1. ASSUME NEW nick \in occupants
        PROVE  \E i \in DOMAIN fromServer' : Speaks(fromServer'[i], nick)
    <3>1. PICK i \in 1 .. n : others[i] = nick
        BY <1>5
    <3>2. i \in DOMAIN fromServer' /\ fromServer'[i] = Presence("available", nick, "none")
        BY <1>5, <1>7, <3>1
    <3>3. Speaks(fromServer'[i], nick)
        BY <3>2 DEF Speaks, Presence, Errors
    <3> QED  BY <3>2, <3>3
  <2>2. n + 1 \in DOMAIN fromServer' /\ Speaks(fromServer'[n + 1], nickName)
      BY <1>5, <1>7 DEF Speaks, Presence, Errors
  <2> QED  BY <1>8, <2>1, <2>2
<1>11. RollTold'
    BY <1>8, <1>9, <1>10 DEF RollTold, LastWord, Speaks
<1>12. PowerTold'
  <2>1. ASSUME NEW i \in DOMAIN fromServer', LastWord(fromServer', i, nickName)
        PROVE  fromServer'[i].power = grant'
    <3>1. fromServer'[i].nick = nickName
        BY <2>1 DEF LastWord, Speaks
    <3>2. i \notin 1 .. n
      <4>1. \A j \in 1 .. n : fromServer'[j].nick = others[j]
          BY <1>7, PresenceParts
      <4> QED  BY <1>5, <1>8, <3>1, <4>1
    <3>3. i = n + 1
        BY <1>5, <1>7, <2>1, <3>2
    <3> QED  BY <1>1, <1>7, <3>3 DEF Presence
  <2>2. nickName \in occupants'
      BY <1>8
  <2> QED  BY <1>8, <1>10, <2>1, <2>2 DEF PowerTold
<1>13. AskedInTurn'
    BY <1>3, <1>8 DEF AskedInTurn
<1>14. ExitLast' /\ ErrorAlone'
    BY <1>9 DEF ExitLast, ErrorAlone, IsExit, Errors
<1>15. InOrOut'
  <2>1. n + 1 \in DOMAIN fromServer' /\ IsEntry(fromServer'[n + 1], nickName)
      BY <1>5, <1>7 DEF IsEntry, Presence
  <2> QED  BY <1>8, <2>1 DEF InOrOut
<1> QED  BY <1>8, <1>11, <1>12, <1>13, <1>14, <1>15 DEF View

\* A client outside is refused, or nothing is answered.
LEMMA OutsideView ==
    ASSUME RoomInv, View, ServerRefusesJoin \/ ServerIgnores
    PROVE  View'
<1>1. CASE ServerRefusesJoin
  <2> DEFINE p == Presence("error", Asked, "none")
  <2>1. Answer({"join"}, <<p>>) /\ UNCHANGED chatServer
      BY <1>1 DEF ServerRefusesJoin
  <2>2. /\ 1 \in DOMAIN toServer /\ toServer[1].kind = "join"
        /\ \A i \in DOMAIN toServer' : /\ i + 1 \in DOMAIN toServer /\ i + 1 > 1
                                       /\ toServer'[i] = toServer[i + 1]
        /\ UNCHANGED room /\ fromServer' = fromServer \o <<p>>
      BY <2>1, Asks
  <2>3. /\ Outside /\ fromServer = <<>>
        /\ \A i \in DOMAIN toServer' : toServer'[i].kind # "join"
      BY <2>2 DEF View, AskedInTurn
  <2>4. fromServer' = <<p>> /\ Outside' /\ me' = NoNick
      BY <2>1, <2>2, <2>3 DEF Outside, room, chatServer
  <2>5. DOMAIN fromServer' = {1} /\ Len(fromServer') = 1 /\ fromServer'[1].type = "error"
      BY <2>4 DEF Presence
  <2> HIDE DEF p
  <2>6. ErrorAlone' /\ ExitLast'
      BY <2>4, <2>5 DEF ErrorAlone, ExitLast, IsExit
  <2>7. InOrOut' /\ AskedInTurn'
      BY <2>3, <2>4, <2>5 DEF InOrOut, AskedInTurn, Errors
  <2> QED  BY <2>4, <2>6, <2>7 DEF View
<1>2. CASE ServerIgnores
  <2>1. me = NoNick /\ Answer({"leave", "presence"}, <<>>) /\ UNCHANGED chatServer
      BY <1>2 DEF ServerIgnores
  <2>2. /\ 1 \in DOMAIN toServer /\ toServer \in Seq(NamedRequests)
        /\ \A i \in DOMAIN toServer' : /\ i + 1 \in DOMAIN toServer
                                       /\ toServer'[i] = toServer[i + 1]
        /\ UNCHANGED room /\ fromServer' = fromServer \o <<>> /\ toServer' = Tail(toServer)
      BY <2>1, Asks DEF Answer
  <2>3. UNCHANGED <<fromServer, room, chatServer>>
      BY <2>1, <2>2 DEF RoomInv, RoomTypeOK
  <2>4. AskedInTurn'
    <3>1. \A i, j \in DOMAIN toServer' : j > i => j + 1 > i + 1
        BY <2>2
    <3> QED  BY <2>1, <2>2, <2>3, <3>1 DEF View, AskedInTurn, Outside, room, chatServer
  <2> QED  BY <2>1, <2>3, <2>4 DEF View, ExitLast, ErrorAlone, InOrOut, IsJoined, Outside, room, chatServer
<1> QED  BY <1>1, <1>2

\* A client inside is answered with a presence.
LEMMA InsideView ==
    ASSUME RoomInv, View, ServerUpdates \/ ServerLetsGo
    PROVE  View'
<1>1. me # NoNick /\ me = nickName /\ me \in Nicks /\ grant \in Powers \cup {"none"} /\ fromServer \in Seq(PresenceSet)
    BY DEF View, ServerUpdates, ServerLetsGo, RoomInv, RoomTypeOK
<1>2. CASE ServerUpdates
  <2> DEFINE p == Presence("available", me, grant)
  <2>1. Answer({"join", "presence"}, <<p>>) /\ UNCHANGED chatServer
      BY <1>2 DEF ServerUpdates
  <2>2. p \in PresenceSet
      BY <1>1, OnePresence
  <2>3. fromServer' = Append(fromServer, p)
    <3>1. fromServer' = fromServer \o <<p>>
        BY <2>1 DEF Answer
    <3> HIDE DEF p
    <3> QED  BY <1>1, <2>2, <3>1, OneMore
  <2>4. \A i \in DOMAIN toServer' : \E j \in DOMAIN toServer : toServer'[i] = toServer[j]
      BY <2>1, Asks
  <2>5. p.type = "available" /\ p.nick = nickName /\ p.power = grant
      BY <1>1 DEF Presence
  <2>6. nickName \in occupants /\ UNCHANGED <<nickName, participants, allowedActions, occupants, me, grant>>
      BY <1>1, <2>1 DEF Answer, room, chatServer, RoomInv, RoomTypeOK
  <2> HIDE DEF p
  <2> QED  BY <1>1, <2>2, <2>3, <2>4, <2>5, <2>6, OneTold DEF Errors, IsExit
<1>3. CASE ServerLetsGo
  <2> DEFINE p == Presence("unavailable", me, "none")
  <2>1. /\ Answer({"leave"}, <<p>>)
        /\ me' = NoNick /\ occupants' = occupants \ {me} /\ grant' = "none"
      BY <1>3 DEF ServerLetsGo
  <2>2. p \in PresenceSet
      BY <1>1, OnePresence
  <2>3. fromServer' = Append(fromServer, p)
    <3>1. fromServer' = fromServer \o <<p>>
        BY <2>1 DEF Answer
    <3> HIDE DEF p
    <3> QED  BY <1>1, <2>2, <3>1, OneMore
  <2>4. \A i \in DOMAIN toServer' : \E j \in DOMAIN toServer : toServer'[i] = toServer[j]
      BY <2>1, Asks
  <2>5. p.type = "unavailable" /\ p.nick = nickName /\ p.power = "none"
      BY <1>1 DEF Presence
  <2>6. UNCHANGED <<nickName, participants, allowedActions>>
      BY <2>1 DEF Answer, room
  <2> HIDE DEF p
  <2> QED  BY <1>1, <2>1, <2>2, <2>3, <2>4, <2>5, <2>6, OneTold DEF Errors, IsExit
<1> QED  BY <1>2, <1>3

LEMMA ServerView ==
    ASSUME RoomInv, View, Server
    PROVE  View'
<1>1. ~ServerRenames /\ ~ServerRefusesRename
  <2>1. ASSUME NEW kinds, NEW presences, Answer(kinds, presences), me # NoNick
        PROVE  Asked = me /\ me \in occupants
      BY <2>1, Asks DEF View, AskedInTurn, RoomInv, RoomTypeOK
  <2> QED  BY <2>1 DEF ServerRenames, ServerRefusesRename
<1> QED  BY <1>1, JoinsView, OutsideView, InsideView DEF Server

LEMMA UnaskedView ==
    ASSUME RoomInv, View, ServerUnasked
    PROVE  View'
<1>1. /\ occupants \subseteq Nicks /\ me \in occupants \cup {NoNick} /\ grant \in Powers \cup {"none"}
      /\ fromServer \in Seq(PresenceSet) /\ (me # NoNick => me = nickName)
    BY DEF RoomInv, RoomTypeOK, View
<1>2. CASE me = NoNick
  <2>1. UNCHANGED <<room, toServer, fromServer, me>>
      BY <1>2 DEF ServerUnasked, OtherEnters, OtherLeaves, ServerGrants, ServerKicks, Announce
  <2> QED  BY <1>2, <2>1 DEF View, AskedInTurn, ExitLast, ErrorAlone, InOrOut, IsJoined, Outside, room
<1>3. CASE me # NoNick
  <2>1. PICK p \in PresenceSet :
          /\ Announce(p) /\ p.type \notin Errors
          /\ \A nick \in Nicks : IF nick = p.nick THEN p.type = "available" <=> nick \in occupants'
                                 ELSE nick \in occupants' <=> nick \in occupants
          /\ IF p.nick = nickName THEN p.power = grant' ELSE UNCHANGED grant
          /\ me' = IF IsExit(p, nickName) THEN NoNick ELSE me
    <3> USE DEF Presence, Errors, IsExit
    <3>1. CASE OtherEnters
      <4>1. PICK nick \in Nicks \ occupants :
              /\ Announce(Presence("available", nick, "none"))
              /\ occupants' = occupants \cup {nick} /\ UNCHANGED <<me, grant>>
          BY <3>1 DEF OtherEnters
      <4>2. Presence("available", nick, "none") \in PresenceSet
          BY OnePresence
      <4> QED  BY <1>1, <1>3, <4>1, <4>2
    <3>2. CASE OtherLeaves
      <4>1. PICK nick \in occupants \ {me} :
              /\ Announce(Presence("unavailable", nick, "none"))
              /\ occupants' = occupants \ {nick} /\ UNCHANGED <<me, grant>>
          BY <3>2 DEF OtherLeaves
      <4>2. Presence("unavailable", nick, "none") \in PresenceSet
          BY <1>1, OnePresence
      <4> QED  BY <1>1, <1>3, <4>1, <4>2
    <3>3. CASE ServerGrants
      <4>1. PICK power \in Powers :
              /\ Announce(Presence("available", me, power))
              /\ grant' = power /\ UNCHANGED <<occupants, me>>
          BY <3>3 DEF ServerGrants
      <4>2. Presence("available", me, power) \in PresenceSet
          BY <1>1, <1>3, OnePresence
      <4> QED  BY <1>1, <1>3, <4>1, <4>2
    <3>4. CASE ServerKicks
      <4>1. /\ Announce(Presence("kicked", me, "none"))
            /\ me' = NoNick /\ occupants' = occupants \ {me} /\ grant' = "none"
          BY <3>4 DEF ServerKicks
      <4>2. Presence("kicked", me, "none") \in PresenceSet
          BY <1>1, <1>3, OnePresence
      <4> QED  BY <1>1, <1>3, <4>1, <4>2
    <3> QED  BY <3>1, <3>2, <3>3, <3>4 DEF ServerUnasked
  <2>2. fromServer' = Append(fromServer, p) /\ UNCHANGED <<nickName, participants, allowedActions, toServer>>
      BY <1>3, <2>1 DEF Announce, room
  <2> QED  BY <1>3, <2>1, <2>2, OneTold
<1> QED  BY <1>2, <1>3

-----------------------------------------------------------------------------
(* What the client makes of a presence.                                    *)

\* The presence is the first under way, and the others move up.
LEMMA Gets ==
    ASSUME RoomInv, View, NEW types, Receive(types)
    PROVE  /\ fromServer # <<>> /\ fromServer \in Seq(PresenceSet) /\ fromServer' = Tail(fromServer)
           /\ 1 \in DOMAIN fromServer /\ From = fromServer[1].nick
           /\ fromServer[1] = Head(fromServer) /\ fromServer[1].type \in types
           /\ Len(fromServer) \in Nat \ {0} /\ Len(fromServer') = Len(fromServer) - 1
           /\ \A i \in DOMAIN fromServer' : /\ i + 1 \in DOMAIN fromServer /\ i \in Nat \ {0}
                                            /\ fromServer'[i] = fromServer[i + 1]
           /\ \A i \in DOMAIN fromServer \ {1} : /\ i - 1 \in DOMAIN fromServer'
                                                 /\ fromServer'[i - 1] = fromServer[i]
           /\ \A i \in DOMAIN toServer : toServer[i].kind # "join"
           /\ From \in Nicks
           /\ UNCHANGED <<phase, told, nickName, toServer, chatServer, rash>>
<1>1. fromServer # <<>> /\ fromServer \in Seq(PresenceSet)
    BY DEF RoomInv, RoomTypeOK, Receive
<1>2. /\ Len(fromServer) \in Nat \ {0} /\ Len(Tail(fromServer)) = Len(fromServer) - 1
      /\ DOMAIN Tail(fromServer) = 1 .. Len(fromServer) - 1 /\ DOMAIN fromServer = 1 .. Len(fromServer)
      /\ \A i \in DOMAIN Tail(fromServer) : /\ i + 1 \in DOMAIN fromServer
                                            /\ Tail(fromServer)[i] = fromServer[i + 1]
      /\ \A i \in DOMAIN fromServer \ {1} : /\ i - 1 \in DOMAIN Tail(fromServer)
                                            /\ Tail(fromServer)[i - 1] = fromServer[i]
      /\ Head(fromServer) = fromServer[1]
    BY <1>1, OneLess
<1>3. fromServer[1] \in PresenceSet
    BY <1>1, <1>2
<1> QED  BY <1>1, <1>2, <1>3 DEF Receive, From, View, AskedInTurn, PresenceSet

\* Our own presence goes away: nothing is behind it, and the client was in the room.
LEMMA LastOfAll ==
    ASSUME View, 1 \in DOMAIN fromServer, IsExit(fromServer[1], nickName)
    PROVE  Len(fromServer) = 1 /\ me = NoNick /\ IsJoined
<1>1. Len(fromServer) = 1 /\ me = NoNick
    BY DEF View, ExitLast
<1>2. \A i \in DOMAIN fromServer : /\ IsExit(fromServer[i], nickName) => i = 1
                                   /\ IsEntry(fromServer[i], nickName) => i # 1
    BY <1>1 DEF View, ExitLast, IsExit, IsEntry
<1>3. DOMAIN fromServer = {1}
  <2>1. ASSUME NEW i \in DOMAIN fromServer, i # 1 PROVE FALSE
    <3> QED  BY <1>1, <2>1 DEF View, ExitLast
  <2> QED  BY <2>1
<1>4. fromServer[1].type \notin Errors
    BY DEF IsExit, Errors
<1> QED  BY <1>1, <1>2, <1>3, <1>4 DEF View, InOrOut

\* Somebody comes, or somebody else goes.
LEMMA AnyoneView ==
    ASSUME RoomInv, View, PresenceAvailable \/ OtherUnavailable
    PROVE  /\ View'
           /\ OtherUnavailable => From # nickName
           /\ me = nickName \/ \E i \in DOMAIN fromServer' : IsExit(fromServer'[i], nickName)
<1> DEFINE head == fromServer[1]
<1>1. /\ fromServer # <<>> /\ fromServer \in Seq(PresenceSet) /\ fromServer' = Tail(fromServer)
      /\ 1 \in DOMAIN fromServer /\ From = head.nick /\ head = Head(fromServer)
      /\ head.type \in {"available", "unavailable", "kicked"}
      /\ Len(fromServer) \in Nat \ {0} /\ Len(fromServer') = Len(fromServer) - 1
      /\ \A i \in DOMAIN fromServer' : /\ i + 1 \in DOMAIN fromServer /\ i \in Nat \ {0}
                                       /\ fromServer'[i] = fromServer[i + 1]
      /\ \A i \in DOMAIN fromServer \ {1} : /\ i - 1 \in DOMAIN fromServer'
                                            /\ fromServer'[i - 1] = fromServer[i]
      /\ \A i \in DOMAIN toServer : toServer[i].kind # "join"
      /\ UNCHANGED <<nickName, toServer, occupants, me, grant>>
    BY Gets DEF PresenceAvailable, OtherUnavailable, chatServer
<1>2. ~IsExit(head, nickName)
  <2>1. CASE PresenceAvailable
      BY <2>1, Gets DEF PresenceAvailable, IsExit
  <2>2. CASE OtherUnavailable
    <3>1. From # nickName \/ nickName \notin participants
        BY <2>2 DEF OtherUnavailable
    <3> QED  BY <1>1, <3>1, LastOfAll DEF IsJoined, IsExit
  <2> QED  BY <2>1, <2>2
<1>3. \/ /\ PresenceAvailable /\ head.type = "available" /\ participants' = participants \cup {head.nick}
         /\ allowedActions' = IF head.nick = nickName THEN ActionsOf(head.power) ELSE allowedActions
      \/ /\ OtherUnavailable /\ head.type # "available" /\ head.nick # nickName
         /\ participants' = participants \ {head.nick} /\ UNCHANGED allowedActions
  <2>1. CASE PresenceAvailable
    <3>1. head.type = "available"
        BY <2>1, Gets DEF PresenceAvailable
    <3> QED  BY <1>1, <2>1, <3>1 DEF PresenceAvailable
  <2>2. CASE OtherUnavailable
    <3>1. head.type # "available" /\ head.nick # nickName
      <4>1. head.type \in {"unavailable", "kicked"}
          BY <2>2, Gets DEF OtherUnavailable
      <4> QED  BY <1>2, <4>1 DEF IsExit
    <3> QED  BY <1>1, <2>2, <3>1 DEF OtherUnavailable
  <2> QED  BY <2>1, <2>2
<1>4. /\ head.type \notin Errors
      /\ me = nickName \/ \E i \in DOMAIN fromServer : IsExit(fromServer[i], nickName)
      /\ IsJoined \/ \E i \in DOMAIN fromServer : IsEntry(fromServer[i], nickName)
  <2>1. head.type \notin Errors
      BY <1>1 DEF Errors
  <2> QED  BY <1>1, <2>1 DEF View, InOrOut
<1> HIDE DEF head
<1>5. me # NoNick => RollTold'
  <2>1. SUFFICES ASSUME me # NoNick, NEW nick \in Nicks
                 PROVE  /\ \A i \in DOMAIN fromServer' : LastWord(fromServer', i, nick) =>
                              (fromServer'[i].type = "available" <=> nick \in occupants)
                        /\ (\A i \in DOMAIN fromServer' : ~Speaks(fromServer'[i], nick)) =>
                              (nick \in participants' <=> nick \in occupants)
      BY <1>1 DEF RollTold
  <2>2. /\ \A i \in DOMAIN fromServer :
              LastWord(fromServer, i, nick) => (fromServer[i].type = "available" <=> nick \in occupants)
        /\ (\A i \in DOMAIN fromServer : ~Speaks(fromServer[i], nick)) =>
              (nick \in participants <=> nick \in occupants)
      BY <2>1 DEF View, RollTold
  <2>3. /\ \A i \in DOMAIN fromServer' :
                LastWord(fromServer', i, nick) => i + 1 \in DOMAIN fromServer /\ LastWord(fromServer, i + 1, nick)
        /\ (\A i \in DOMAIN fromServer' : ~Speaks(fromServer'[i], nick)) =>
                IF Speaks(head, nick) THEN LastWord(fromServer, 1, nick)
                ELSE \A i \in DOMAIN fromServer : ~Speaks(fromServer[i], nick)
      BY <1>1, LastWordTail
  <2>4. ASSUME \A i \in DOMAIN fromServer' : ~Speaks(fromServer'[i], nick)
        PROVE  nick \in participants' <=> nick \in occupants
    <3>1. CASE Speaks(head, nick)
      <4>1. head.type = "available" <=> nick \in occupants
          BY <1>1, <2>2, <2>3, <2>4, <3>1 DEF head
      <4>2. head.nick = nick
          BY <3>1 DEF Speaks
      <4> QED  BY <1>3, <4>1, <4>2
    <3>2. CASE ~Speaks(head, nick)
      <4>1. nick \in participants <=> nick \in occupants
          BY <2>2, <2>3, <2>4, <3>2
      <4>2. head.nick # nick
          BY <1>4, <3>2 DEF Speaks
      <4> QED  BY <1>3, <4>1, <4>2
    <3> QED  BY <3>1, <3>2
  <2> QED  BY <1>1, <2>2, <2>3, <2>4
<1>6. me # NoNick => PowerTold'
  <2>1. SUFFICES ASSUME me # NoNick
                 PROVE  /\ \A i \in DOMAIN fromServer' :
                              LastWord(fromServer', i, nickName) => fromServer'[i].power = grant
                        /\ (\A i \in DOMAIN fromServer' : ~Speaks(fromServer'[i], nickName)) =>
                              allowedActions' = ActionsOf(grant)
      BY <1>1 DEF PowerTold
  <2>2. /\ \A i \in DOMAIN fromServer : LastWord(fromServer, i, nickName) => fromServer[i].power = grant
        /\ (\A i \in DOMAIN fromServer : ~Speaks(fromServer[i], nickName)) => allowedActions = ActionsOf(grant)
      BY <2>1 DEF View, PowerTold
  <2>3. /\ \A i \in DOMAIN fromServer' : LastWord(fromServer', i, nickName) =>
                                             i + 1 \in DOMAIN fromServer /\ LastWord(fromServer, i + 1, nickName)
        /\ (\A i \in DOMAIN fromServer' : ~Speaks(fromServer'[i], nickName)) =>
                IF Speaks(head, nickName) THEN LastWord(fromServer, 1, nickName)
                ELSE \A i \in DOMAIN fromServer : ~Speaks(fromServer[i], nickName)
      BY <1>1, LastWordTail
  <2>4. ASSUME \A i \in DOMAIN fromServer' : ~Speaks(fromServer'[i], nickName)
        PROVE  allowedActions' = ActionsOf(grant)
    <3>1. CASE Speaks(head, nickName)
      <4>1. head.power = grant /\ head.nick = nickName
          BY <1>1, <2>2, <2>3, <2>4, <3>1 DEF head, Speaks
      <4> QED  BY <1>3, <4>1
    <3>2. CASE ~Speaks(head, nickName)
      <4>1. allowedActions = ActionsOf(grant)
          BY <2>2, <2>3, <2>4, <3>2
      <4>2. head.nick # nickName
          BY <1>4, <3>2 DEF Speaks
      <4> QED  BY <1>3, <4>1, <4>2
    <3> QED  BY <3>1, <3>2
  <2> QED  BY <1>1, <2>2, <2>3, <2>4
<1>7. me # NoNick => me = nickName
    BY DEF View
<1>8. AskedInTurn'
    BY <1>1 DEF View, AskedInTurn
<1>9. ExitLast' /\ ErrorAlone'
    BY <1>1 DEF View, ExitLast, ErrorAlone
<1>10. me = nickName \/ \E i \in DOMAIN fromServer' : IsExit(fromServer'[i], nickName)
  <2>1. ASSUME NEW i \in DOMAIN fromServer, IsExit(fromServer[i], nickName)
        PROVE  i - 1 \in DOMAIN fromServer' /\ IsExit(fromServer'[i - 1], nickName)
      BY <1>1, <1>2, <2>1 DEF head
  <2> QED  BY <1>4, <2>1
<1>11. IsJoined' \/ \E i \in DOMAIN fromServer' : IsEntry(fromServer'[i], nickName)
  <2>1. CASE IsJoined
      BY <1>1, <1>3, <2>1 DEF IsJoined
  <2>2. CASE IsEntry(head, nickName)
      BY <1>1, <1>3, <2>2 DEF IsJoined, IsEntry
  <2>3. ASSUME ~IsEntry(head, nickName), NEW i \in DOMAIN fromServer, IsEntry(fromServer[i], nickName)
        PROVE  i - 1 \in DOMAIN fromServer' /\ IsEntry(fromServer'[i - 1], nickName)
      BY <1>1, <2>3 DEF head
  <2> QED  BY <1>4, <2>1, <2>2, <2>3
<1>12. InOrOut'
    BY <1>1, <1>10, <1>11 DEF InOrOut
<1>13. View'
    BY <1>1, <1>5, <1>6, <1>7, <1>8, <1>9, <1>12 DEF View
<1>14. ASSUME OtherUnavailable PROVE From # nickName
  <2>1. head.type \in {"unavailable", "kicked"}
      BY <1>14, Gets DEF OtherUnavailable, head
  <2> QED  BY <1>1, <1>2, <2>1 DEF IsExit, head
<1> QED  BY <1>10, <1>13, <1>14

LEMMA OneQueued ==
    ASSUME NEW S, NEW queue \in Seq(S), Len(queue) = 1
    PROVE  Tail(queue) = <<>>
<1>1. queue # <<>>
    OBVIOUS
<1>2. Tail(queue) \in Seq(S) /\ Len(Tail(queue)) = 0
    BY <1>1, OneLess
<1> QED  BY <1>2, EmptySeq

\* The stay is over, or the room was not entered.
LEMMA OverView ==
    ASSUME RoomInv, View, OwnUnavailable \/ PresenceError
    PROVE  /\ View' /\ Outside' /\ fromServer' = <<>>
           /\ \A i \in DOMAIN toServer' : toServer'[i].kind # "join"
           /\ PresenceError => Head(fromServer).type = "error"
<1>1. /\ fromServer \in Seq(PresenceSet) /\ fromServer' = Tail(fromServer)
      /\ 1 \in DOMAIN fromServer /\ From = fromServer[1].nick /\ Head(fromServer) = fromServer[1]
      /\ \A i \in DOMAIN toServer : toServer[i].kind # "join"
      /\ UNCHANGED <<nickName, toServer, occupants, me, grant>>
    BY Gets DEF OwnUnavailable, PresenceError, chatServer
<1>2. Len(fromServer) = 1 /\ Outside' /\ (PresenceError => fromServer[1].type = "error")
  <2>1. CASE OwnUnavailable
    <3>1. fromServer[1].type \in {"unavailable", "kicked"}
        BY <2>1, Gets DEF OwnUnavailable
    <3>2. IsExit(fromServer[1], nickName) /\ ~PresenceError
      <4>1. ASSUME PresenceError PROVE FALSE
        <5>1. fromServer[1].type \in {"error", "plainError"}
            BY <4>1, Gets DEF PresenceError
        <5> QED  BY <3>1, <5>1
      <4> QED  BY <1>1, <2>1, <3>1, <4>1 DEF OwnUnavailable, IsExit
    <3> QED  BY <1>1, <2>1, <3>2, LastOfAll DEF OwnUnavailable, Outside
  <2>2. CASE PresenceError
    <3>1. fromServer[1].type \in Errors
        BY <2>2, Gets DEF PresenceError, Errors
    <3> QED  BY <1>1, <2>2, <3>1 DEF View, ErrorAlone, PresenceError, Outside
  <2> QED  BY <2>1, <2>2
<1>3. fromServer' = <<>> /\ DOMAIN fromServer' = {}
    BY <1>1, <1>2, OneQueued
<1>4. AskedInTurn' /\ ExitLast' /\ ErrorAlone' /\ InOrOut'
    BY <1>1, <1>2, <1>3 DEF AskedInTurn, ExitLast, ErrorAlone, InOrOut, Outside
<1> QED  BY <1>1, <1>2, <1>3, <1>4 DEF View, Outside

LEMMA PresencesView ==
    ASSUME RoomInv, View, Presences
    PROVE  View'
    BY AnyoneView, OverView DEF Presences

-----------------------------------------------------------------------------
(* What the program asks for, and the session.                             *)

\* A request under the own name, of one who is in the room or on the way out of it, or after
\* a request to join.
LEMMA OneAsked ==
    ASSUME RoomInv, View, NEW request \in NamedRequests, request.nick = nickName,
           request.kind # "join", toServer' = Append(toServer, request),
           UNCHANGED <<room, fromServer, chatServer>>
    PROVE  View'
<1>1. /\ DOMAIN toServer' = 1 .. Len(toServer) + 1 /\ DOMAIN toServer = 1 .. Len(toServer)
      /\ Len(toServer) \in Nat /\ toServer'[Len(toServer) + 1] = request
      /\ \A i \in DOMAIN toServer : toServer'[i] = toServer[i]
    BY OneMore DEF RoomInv
<1>2. UNCHANGED <<nickName, participants, allowedActions, fromServer, occupants, me, grant>>
    BY DEF room, chatServer
<1>3. AskedInTurn'
  <2>1. SUFFICES ASSUME NEW i \in DOMAIN toServer'
                 PROVE  /\ me # NoNick => toServer'[i].nick = nickName
                        /\ toServer'[i].kind = "join" =>
                             /\ Outside /\ fromServer = <<>> /\ toServer'[i].nick = nickName
                             /\ \A j \in DOMAIN toServer' :
                                  j > i => toServer'[j].nick = nickName /\ toServer'[j].kind # "join"
      BY <1>2 DEF AskedInTurn, Outside
  <2>2. CASE i \in DOMAIN toServer
    <3>1. ASSUME NEW j \in DOMAIN toServer', j > i, toServer[i].kind = "join"
          PROVE  toServer'[j].nick = nickName /\ toServer'[j].kind # "join"
        BY <1>1, <2>2, <3>1 DEF View, AskedInTurn
    <3> QED  BY <1>1, <2>2, <3>1 DEF View, AskedInTurn
  <2>3. CASE i = Len(toServer) + 1
      BY <1>1, <2>3
  <2> QED  BY <1>1, <2>2, <2>3
<1> QED  BY <1>2, <1>3 DEF View, RollTold, PowerTold, ExitLast, ErrorAlone, InOrOut, IsJoined, Outside

\* Outside, when nothing is under way but requests to be ignored, a join may be asked for
\* under any name.
LEMMA JoinAsked ==
    ASSUME RoomInv, Outside, fromServer = <<>>, \A i \in DOMAIN toServer : toServer[i].kind # "join",
           \/ toServer' = toServer
           \/ \E request \in NamedRequests : /\ request.nick = nickName'
                                             /\ toServer' = Append(toServer, request),
           UNCHANGED <<participants, allowedActions, fromServer, chatServer>>
    PROVE  View'
<1>1. Outside' /\ fromServer' = <<>> /\ me' = NoNick /\ DOMAIN fromServer' = {}
    BY DEF Outside, chatServer
<1>2. AskedInTurn'
  <2>1. CASE toServer' = toServer
      BY <1>1, <2>1 DEF AskedInTurn
  <2>2. ASSUME NEW request \in NamedRequests, request.nick = nickName',
               toServer' = Append(toServer, request)
        PROVE  AskedInTurn'
    <3>1. /\ DOMAIN toServer' = 1 .. Len(toServer) + 1 /\ DOMAIN toServer = 1 .. Len(toServer)
          /\ Len(toServer) \in Nat /\ toServer'[Len(toServer) + 1] = request
          /\ \A i \in DOMAIN toServer : toServer'[i] = toServer[i]
        BY <2>2, OneMore DEF RoomInv
    <3>2. \A i \in DOMAIN toServer' : toServer'[i].kind = "join" => i = Len(toServer) + 1
        BY <3>1
    <3>3. ASSUME NEW i \in DOMAIN toServer', toServer'[i].kind = "join"
          PROVE  /\ toServer'[i].nick = nickName'
                 /\ \A j \in DOMAIN toServer' : ~(j > i)
      <4>1. i = Len(toServer) + 1
          BY <3>2, <3>3
      <4>2. toServer'[i] = request
          BY <3>1, <4>1
      <4>3. \A j \in 1 .. Len(toServer) + 1 : ~(j > i)
          BY <3>1, <4>1
      <4> QED  BY <2>2, <3>1, <4>2, <4>3
    <3> QED  BY <1>1, <3>3 DEF AskedInTurn
  <2> QED  BY <2>1, <2>2
<1> QED  BY <1>1, <1>2 DEF View, ExitLast, ErrorAlone, InOrOut

\* leave(), and the client's own presence, ask for what is in turn.
LEMMA AskView ==
    ASSUME RoomInv, View, phase = "Online", Leave \/ OwnPresence
    PROVE  View'
<1>1. nickName \in Nicks \cup {NoNick} /\ toServer \in Seq(NamedRequests) /\ participants \subseteq Nicks
    BY DEF RoomInv, RoomTypeOK
<1>2. ASSUME NEW kind, Request(kind, nickName) \in NamedRequests, kind # "join",
             Send(<<Request(kind, nickName)>>), UNCHANGED <<room, fromServer, chatServer>>
      PROVE  View'
  <2> DEFINE request == Request(kind, nickName)
  <2>1. request \in NamedRequests /\ request.nick = nickName /\ request.kind # "join"
      BY <1>2 DEF Request
  <2>2. toServer' = toServer \o <<request>>
      BY <1>2 DEF Send
  <2> HIDE DEF request
  <2>3. toServer' = Append(toServer, request)
      BY <1>1, <2>1, <2>2, OneMore
  <2> QED  BY <1>2, <2>1, <2>3, OneAsked
<1>3. CASE Leave
  <2>1. Request("leave", nickName) \in NamedRequests
      BY <1>1 DEF NamedRequests, Request
  <2> QED  BY <1>2, <1>3, <2>1 DEF Leave
<1>4. CASE OwnPresence
  <2>1. Request("presence", nickName) \in NamedRequests
      BY <1>1, <1>4 DEF NamedRequests, OwnPresence, IsJoined, Request
  <2> QED  BY <1>2, <1>4, <2>1 DEF OwnPresence
<1> QED  BY <1>3, <1>4

\* A program that waits for the answers, and changes its nick outside, keeps the view.
LEMMA CallsView ==
    ASSUME RoomInv, ViewInv, SetNickName \/ Join \/ Leave \/ OwnPresence, ~rash'
    PROVE  /\ phase' = "Online" => View'
           /\ allowedActions' # {} => IsJoined'
<1>1. /\ nickName \in Nicks \cup {NoNick} /\ toServer \in Seq(NamedRequests)
      /\ NoNick \notin Nicks /\ participants \subseteq Nicks
    BY RoomAssumption DEF RoomInv, RoomTypeOK, RoomAssumption
<1>2. ASSUME phase = "Online", NEW request \in NamedRequests, Send(<<request>>)
      PROVE  toServer' = Append(toServer, request)
  <2>1. toServer' = toServer \o <<request>>
      BY <1>2 DEF Send
  <2> QED  BY <1>1, <1>2, <2>1, OneMore
<1>3. ASSUME phase = "Online", ~rash, Quiet, ~IsJoined
      PROVE  Outside /\ fromServer = <<>> /\ \A i \in DOMAIN toServer : toServer[i].kind # "join"
  <2>1. View /\ toServer = <<>> /\ fromServer = <<>> /\ DOMAIN fromServer = {} /\ DOMAIN toServer = {}
      BY <1>3 DEF Quiet, ViewInv
  <2> QED  BY <1>3, <2>1 DEF View, InOrOut
<1>4. ASSUME Send(<<>>) PROVE UNCHANGED toServer
    BY <1>1, <1>4 DEF Send
<1>5. CASE SetNickName
  <2>1. PICK nick \in Nicks \cup {NoNick} :
          /\ nickName' = nick
          /\ Send(RenameRequests(nick))
          /\ ~rash /\ Quiet /\ RenameRequests(nick) = <<>>
      BY <1>5 DEF SetNickName
  <2>2. UNCHANGED <<phase, participants, allowedActions, fromServer, chatServer, toServer>>
      BY <1>4, <1>5, <2>1 DEF SetNickName
  <2>3. CASE nick = nickName
      BY <2>1, <2>2, <2>3
      DEF ViewInv, View, RollTold, PowerTold, AskedInTurn, ExitLast, ErrorAlone, InOrOut, IsJoined,
          Outside, chatServer
  <2>4. CASE nick # nickName
    <3>1. ~IsJoined
      <4>1. <<Request("presence", nick)>> # <<>>
          OBVIOUS
      <4> QED  BY <2>1, <2>4, <4>1 DEF RenameRequests
    <3>2. allowedActions = {}
        BY <2>1, <3>1 DEF ViewInv
    <3>3. phase = "Online" => View'
        BY <1>3, <2>1, <2>2, <3>1, JoinAsked
    <3> QED  BY <2>2, <3>2, <3>3
  <2> QED  BY <2>3, <2>4
<1>6. CASE Join
  <2>1. /\ Send(JoinRequests(nickName)) /\ ~rash /\ Quiet
        /\ UNCHANGED <<phase, room, fromServer, chatServer>>
      BY <1>6 DEF Join
  <2>2. CASE nickName \notin participants /\ nickName # NoNick /\ phase = "Online"
    <3> DEFINE request == Request("join", nickName)
    <3>1. request \in NamedRequests /\ request.nick = nickName
        BY <1>1, <2>2 DEF Request, NamedRequests
    <3>2. Send(<<request>>)
        BY <2>1, <2>2 DEF JoinRequests
    <3> HIDE DEF request
    <3>3. toServer' = Append(toServer, request)
        BY <1>2, <2>2, <3>1, <3>2
    <3>4. View'
        BY <1>3, <2>1, <2>2, <3>1, <3>3, JoinAsked DEF IsJoined, room
    <3> QED  BY <2>1, <3>4 DEF ViewInv, IsJoined, room
  <2>3. CASE ~(nickName \notin participants /\ nickName # NoNick /\ phase = "Online")
    <3>1. UNCHANGED toServer
      <4>1. JoinRequests(nickName) = <<>> \/ phase # "Online"
          BY <2>3 DEF JoinRequests
      <4> QED  BY <1>4, <2>1, <4>1 DEF Send
    <3> QED  BY <2>1, <3>1
        DEF ViewInv, View, RollTold, PowerTold, AskedInTurn, ExitLast, ErrorAlone, InOrOut, IsJoined,
            Outside, chatServer, room
  <2> QED  BY <2>2, <2>3
<1>7. CASE Leave \/ OwnPresence
  <2>1. UNCHANGED <<phase, room, rash>>
      BY <1>7 DEF Leave, OwnPresence
  <2> QED  BY <1>7, <2>1, AskView DEF ViewInv, IsJoined, room
<1> QED  BY <1>5, <1>6, <1>7

\* A new session finds the client outside.
LEMMA NewSessionView ==
    ASSUME GhostInv, Quiet, me = NoNick, SessionBegins, phase' = "Online"
    PROVE  View' /\ Outside' /\ toServer' = <<>> /\ fromServer' = <<>>
<1>1. ~told /\ UNCHANGED <<room, wire, chatServer>>
    BY DEF SessionBegins, Attempt, GiveUp, Establish
<1>2. Outside' /\ toServer' = <<>> /\ fromServer' = <<>> /\ me' = NoNick
    BY <1>1 DEF GhostInv, NoGhosts, Quiet, Outside, room, wire, chatServer
<1>3. DOMAIN fromServer' = {} /\ DOMAIN toServer' = {}
    BY <1>2
<1> QED  BY <1>2, <1>3 DEF View, AskedInTurn, ExitLast, ErrorAlone, InOrOut

\* A session that is lost takes everything under way with it.
LEMMA SessionView ==
    ASSUME RoomInv, ViewInv, GhostInv, SessionLost \/ SessionClosed \/ SessionBegins
    PROVE  ViewInv'
<1>1. CASE SessionLost
  <2>1. phase' = "Offline" /\ Quiet' /\ me' = NoNick /\ grant' = "none"
      BY <1>1 DEF SessionLost, Drop, Quiet
  <2>2. allowedActions' # {} /\ ~rash' => IsJoined'
      BY <1>1 DEF SessionLost, Disconnected, ViewInv, IsJoined, room
  <2> QED  BY <2>1, <2>2 DEF ViewInv
<1>2. CASE SessionClosed
    BY <1>2 DEF SessionClosed, Notify, Disconnected, ViewInv, Quiet, wire, chatServer
<1>3. CASE SessionBegins
  <2>1. phase # "Online" /\ UNCHANGED <<room, wire, chatServer, rash>>
      BY <1>3 DEF SessionBegins, Attempt, GiveUp, Establish
  <2>2. Quiet /\ me = NoNick /\ grant = "none"
      BY <2>1 DEF ViewInv
  <2>3. CASE phase' # "Online"
      BY <2>1, <2>2, <2>3 DEF ViewInv, Quiet, IsJoined, room, wire, chatServer
  <2>4. CASE phase' = "Online"
    <3>1. View' /\ Outside'
        BY <1>3, <2>2, <2>4, NewSessionView
    <3> QED  BY <2>1, <2>2, <2>4, <3>1 DEF ViewInv, Outside, chatServer
  <2> QED  BY <2>3, <2>4
<1> QED  BY <1>1, <1>2, <1>3

LEMMA ViewStep ==
    ASSUME RoomInv, ViewInv, GhostInv, RoomNext
    PROVE  ViewInv'
<1>1. NoNick \notin Nicks
    BY RoomAssumption DEF RoomAssumption
<1>2. CASE SetNickName \/ Join \/ Leave \/ OwnPresence
  <2>1. UNCHANGED <<phase, fromServer, chatServer>> /\ (phase # "Online" => UNCHANGED toServer)
      BY <1>2 DEF SetNickName, Join, Leave, OwnPresence, Send
  <2> QED  BY <1>2, <2>1, CallsView DEF ViewInv, Quiet, chatServer
<1>3. CASE Server
  <2>1. PICK kinds : \E presences : Answer(kinds, presences)
      BY <1>3 DEF Server, ServerJoins, ServerRefusesJoin, ServerUpdates, ServerRenames,
         ServerRefusesRename, ServerLetsGo, ServerIgnores
  <2>2. phase = "Online" /\ UNCHANGED <<phase, room, rash>>
      BY <2>1 DEF Answer
  <2>3. me' = NoNick => grant' = "none"
    <3>1. ServerJoins \/ ServerRenames => Asked \in Nicks
        BY AskedType DEF ServerJoins, ServerRenames, Answer
    <3> QED  BY <1>1, <1>3, <3>1 DEF Server, ServerJoins, ServerRefusesJoin, ServerUpdates, ServerRenames,
         ServerRefusesRename, ServerLetsGo, ServerIgnores, ViewInv, chatServer
  <2> QED  BY <1>3, <2>2, <2>3, ServerView DEF ViewInv, IsJoined, room
<1>4. CASE ServerUnasked
  <2>1. UNCHANGED <<phase, room, toServer, rash>> /\ (me = NoNick => UNCHANGED <<me, fromServer>>)
      BY <1>4 DEF ServerUnasked, OtherEnters, OtherLeaves, ServerGrants, ServerKicks, Announce
  <2>2. me' = NoNick => grant' = "none"
      BY <1>4 DEF ServerUnasked, OtherEnters, OtherLeaves, ServerGrants, ServerKicks, ViewInv
  <2> QED  BY <1>4, <2>1, <2>2, UnaskedView DEF ViewInv, IsJoined, Quiet, room
<1>5. CASE Presences
  <2>1. phase = "Online" /\ UNCHANGED <<phase, nickName, chatServer, rash>>
      BY <1>5 DEF Presences, PresenceAvailable, OtherUnavailable, OwnUnavailable, PresenceError, Receive
  <2>2. ~rash => View'
      BY <1>5, <2>1, PresencesView DEF ViewInv
  <2>3. allowedActions' # {} /\ ~rash => IsJoined'
    <3>1. OtherUnavailable /\ ~rash => From # nickName
        BY <2>1, AnyoneView DEF ViewInv
    <3> QED  BY <1>5, <2>1, <3>1 DEF Presences, PresenceAvailable, OtherUnavailable, OwnUnavailable,
         PresenceError, ViewInv, IsJoined
  <2> QED  BY <2>1, <2>2, <2>3 DEF ViewInv, chatServer
<1>6. CASE SessionLost \/ SessionClosed \/ SessionBegins
    BY <1>6, SessionView
<1> QED  BY <1>2, <1>3, <1>4, <1>5, <1>6 DEF RoomNext

LEMMA ViewInductive == RoomSpec => []ViewInv
<1>1. RoomInit => ViewInv
    BY DEF RoomInit, SessionInit, ViewInv, Quiet
<1>2. RoomInv /\ GhostInv /\ ViewInv /\ [RoomNext]_roomVars => ViewInv'
  <2>1. SUFFICES ASSUME RoomInv, GhostInv, ViewInv, UNCHANGED roomVars PROVE ViewInv'
      BY ViewStep
  <2> QED  BY <2>1 DEF roomVars, room, wire, chatServer, ViewInv, View, RollTold, PowerTold,
       AskedInTurn, ExitLast, ErrorAlone, InOrOut, IsJoined, Outside, Quiet
<1> QED  BY <1>1, <1>2, TypeInductive, GhostInductive, PTL DEF RoomSpec

\* Once nothing is under way, the client is in the room if and only if the server has it
\* there, lists those whom the server lists, and offers what the server grants
\* (_q_presenceReceived(), QXmppMucManager.cpp:564), whatever comes of its requests, unless
\* the program changed its nick inside or asked again before an answer.
THEOREM RoomAgreesCorrect == RoomSpec => []RoomAgrees
<1>1. RoomInv /\ ViewInv => RoomAgrees
  <2>1. SUFFICES ASSUME RoomInv, ViewInv PROVE RoomAgrees
      OBVIOUS
  <2>2. allowedActions # {} /\ ~rash => IsJoined
      BY <2>1 DEF ViewInv
  <2>3. ASSUME phase = "Online", Quiet, ~rash
        PROVE  /\ IsJoined <=> me # NoNick
               /\ participants = IF IsJoined THEN occupants ELSE {}
               /\ allowedActions = ActionsOf(grant)
    <3>1. View /\ DOMAIN fromServer = {} /\ (me = NoNick => grant = "none")
        BY <2>1, <2>3 DEF ViewInv, Quiet
    <3>2. participants \subseteq Nicks /\ occupants \subseteq Nicks /\ NoNick \notin Nicks
        BY <2>1, RoomAssumption DEF RoomInv, RoomTypeOK, RoomAssumption
    <3>3. (Outside \/ (me = nickName /\ IsJoined)) /\ (me # NoNick => RollTold /\ PowerTold)
        BY <3>1 DEF View, InOrOut
    <3>4. IsJoined <=> me # NoNick
        BY <3>2, <3>3 DEF IsJoined, Outside
    <3>5. CASE me = NoNick
      <4>1. ActionsOf("none") = {}
          BY DEF ActionsOf
      <4> QED  BY <3>1, <3>2, <3>3, <3>4, <3>5, <4>1 DEF Outside, IsJoined
    <3>6. CASE me # NoNick
      <4>1. \A nick \in Nicks : nick \in participants <=> nick \in occupants
          BY <3>1, <3>3, <3>6 DEF RollTold
      <4>2. allowedActions = ActionsOf(grant)
          BY <3>1, <3>3, <3>6 DEF PowerTold
      <4> QED  BY <3>2, <3>4, <3>6, <4>1, <4>2
    <3> QED  BY <3>5, <3>6
  <2> QED  BY <2>2, <2>3 DEF RoomAgrees, JoinedAgrees, InStep, RollAgrees, ActionsAgree
<1> QED  BY <1>1, TypeInductive, ViewInductive, PTL

\* The room says left() (QXmppMucManager.cpp:546, 645, 656) only when the server has taken
\* the client out, or has never let it in.
LEMMA LeftStep ==
    ASSUME RoomInv, ViewInv, GhostInv, RoomNext, Signal("left", NoNick) \in sig'
    PROVE  me' = NoNick \/ rash
<1>1. \A nicks : Signal("left", NoNick) \notin Removed(nicks)
    BY DEF Signal, Removed
<1>2. \A nick : Signal("left", NoNick) # Signal("added", nick) /\ Signal("left", NoNick) # Signal("joined", nick)
    BY DEF Signal
<1>3. CASE PresenceAvailable \/ OtherUnavailable
    BY <1>1, <1>2, <1>3 DEF PresenceAvailable, OtherUnavailable
<1>4. CASE OwnUnavailable \/ PresenceError
  <2>1. phase = "Online" /\ UNCHANGED chatServer
      BY <1>4 DEF OwnUnavailable, PresenceError, Receive
  <2> QED  BY <1>4, <2>1, OverView DEF ViewInv, Outside
<1>5. CASE SessionLost
    BY <1>5 DEF SessionLost
<1>6. CASE SessionClosed
    BY <1>6 DEF SessionClosed, Notify, ViewInv, chatServer
<1>7. CASE SetNickName \/ Join \/ Leave \/ OwnPresence \/ SessionBegins
    BY <1>7 DEF SetNickName, Join, Leave, OwnPresence, SessionBegins
<1>8. CASE Server \/ ServerUnasked
  <2>1. sig' = {}
      BY <1>8 DEF Server, ServerJoins, ServerRefusesJoin, ServerUpdates, ServerRenames,
         ServerRefusesRename, ServerLetsGo, ServerIgnores, Answer, ServerUnasked, OtherEnters,
         OtherLeaves, ServerGrants, ServerKicks, Announce
  <2> QED  BY <2>1
<1> QED  BY <1>3, <1>4, <1>5, <1>6, <1>7, <1>8 DEF RoomNext, Presences

\* left() comes with the stay, or with a join that was refused, at an end
\* (_q_disconnected() and _q_presenceReceived(), QXmppMucManager.cpp:527, 564).
THEOREM LeftMeansOutCorrect == RoomSpec => LeftMeansOut
<1>1. RoomInv /\ GhostInv /\ ViewInv /\ [RoomNext]_roomVars
        => [Signal("left", NoNick) \in sig' => me' = NoNick \/ rash]_roomVars
    BY LeftStep
<1> QED  BY <1>1, TypeInductive, GhostInductive, ViewInductive, PTL DEF RoomSpec, LeftMeansOut

-----------------------------------------------------------------------------
(* The window.                                                             *)

\* The window asks for nothing out of turn, whatever its user clicks: the client's view of
\* the room holds without the proviso that the room needs.
NoJoin == \A i \in DOMAIN toServer : toServer[i].kind # "join"
Out == Outside /\ fromServer = <<>> /\ NoJoin

WidgetInv ==
    /\ phase = "Online" => View
    /\ phase # "Online" => Quiet /\ me = NoNick
    /\ "message" \in visible => IsJoined
    /\ "nick" \in visible => Out
    /\ leaving > 0 => leaving = 1 /\ ~logoutEnabled /\ (IsJoined \/ Out)
    /\ participants \subseteq userList

-----------------------------------------------------------------------------
(* Types.                                                                  *)

\* The rename and the join of on_join_button_clicked(): the rename is left out, since the
\* user is outside.
LEMMA JoinClickedSends ==
    ASSUME RoomInv, WidgetInv, JoinClicked
    PROVE  /\ Out /\ nickName' \in Nicks \cup {NoNick} /\ rash' \in BOOLEAN
           /\ \/ toServer' = toServer
              \/ \E request \in NamedRequests : /\ request.nick = nickName'
                                                /\ toServer' = Append(toServer, request)
           /\ phase # "Online" => toServer' = toServer
           /\ toServer' \in Seq(RequestSet) /\ toServer' \in Seq(NamedRequests)
<1>1. PICK nick \in Nicks \cup {NoNick} :
        /\ nickName' = nick
        /\ Send(RenameRequests(nick) \o JoinRequests(nick))
        /\ rash' = (rash \/ ~Quiet \/ RenameRequests(nick) # <<>>)
    BY DEF JoinClicked
<1>2. Out /\ toServer \in Seq(NamedRequests) /\ toServer \in Seq(RequestSet) /\ rash \in BOOLEAN
    BY DEF JoinClicked, WidgetInv, RoomInv, RoomTypeOK
<1>3. RenameRequests(nick) = <<>> /\ nick \notin participants
    BY <1>2 DEF Out, Outside, IsJoined, RenameRequests
<1>4. CASE phase # "Online"
    BY <1>1, <1>2, <1>4 DEF Send
<1>5. CASE phase = "Online" /\ nick = NoNick
  <2>1. toServer' = toServer \o (<<>> \o <<>>)
      BY <1>1, <1>3, <1>5 DEF Send, JoinRequests
  <2>2. toServer' = toServer
      BY <1>2, <2>1
  <2> QED  BY <1>1, <1>2, <1>5, <2>2
<1>6. CASE phase = "Online" /\ nick # NoNick
  <2> DEFINE request == Request("join", nick)
  <2>1. request \in NamedRequests /\ request.nick = nick /\ request \in RequestSet
      BY <1>6 DEF Request, NamedRequests, RequestSet
  <2>2. toServer' = toServer \o (<<>> \o <<request>>)
      BY <1>1, <1>3, <1>6 DEF Send, JoinRequests
  <2> HIDE DEF request
  <2>3. toServer' = toServer \o <<request>>
      BY <2>1, <2>2
  <2>4. toServer' = Append(toServer, request) /\ toServer' \in Seq(NamedRequests) /\ toServer' \in Seq(RequestSet)
      BY <1>2, <2>1, <2>3, OneMore
  <2> QED  BY <1>1, <1>2, <1>6, <2>1, <2>4
<1> QED  BY <1>4, <1>5, <1>6

\* The steps of the window are steps of the room, but for the join button's.
LEMMA RoomMoves ==
    ASSUME Next
    PROVE  \/ UNCHANGED <<phase, told, room, wire, chatServer, rash>> /\ sig' = {}
           \/ JoinClicked \/ Leave
           \/ Server \/ ServerUnasked \/ Presences \/ OwnPresence
           \/ SessionLost \/ SessionClosed \/ SessionBegins
    BY DEF Next, LoginClicked, LogoutClicked, LogoutLeaves, RoomEvent, Shown, SessionStarts, SessionEnds

LEMMA RoomInvKept ==
    ASSUME RoomInv, WidgetInv, Next
    PROVE  RoomInv'
<1>1. CASE UNCHANGED <<phase, told, room, wire, chatServer, rash>> /\ sig' = {}
    BY <1>1 DEF RoomInv, RoomTypeOK, SessionTypeOK, room, wire, chatServer
<1>2. CASE JoinClicked
    BY <1>2, JoinClickedSends DEF JoinClicked, RoomInv, RoomTypeOK, SessionTypeOK, chatServer
<1>3. CASE Leave \/ OwnPresence
    BY <1>3, CallsType
<1>4. CASE Server
    BY <1>4, ServerType
<1>5. CASE ServerUnasked
    BY <1>5, UnaskedType
<1>6. CASE Presences
    BY <1>6, PresencesType
<1>7. CASE SessionLost \/ SessionClosed \/ SessionBegins
    BY <1>7, SessionType
<1> QED  BY <1>1, <1>2, <1>3, <1>4, <1>5, <1>6, <1>7, RoomMoves

LEMMA SlotsType ==
    ASSUME TypeOK, RoomInv', NEW frames, frames \subseteq Frames, RoomSlots(frames)
    PROVE  visible' \subseteq Frames /\ logoutEnabled' \in BOOLEAN /\ userList' \subseteq Nicks
<1>1. participants' \subseteq Nicks /\ userList \subseteq Nicks /\ logoutEnabled \in BOOLEAN
    BY DEF TypeOK, RoomInv, RoomTypeOK
<1>2. RoomJoined(frames) \subseteq Frames /\ UserLeftRoom(frames) \subseteq Frames
    BY DEF Frames, RoomJoined, UserLeftRoom
<1>3. Emitted("joined") \in BOOLEAN
    BY DEF Emitted
<1> QED  BY <1>1, <1>2, <1>3 DEF RoomSlots

LEMMA WidgetType ==
    ASSUME TypeOK, RoomInv, RoomInv', Next
    PROVE  TypeOK'
<1>1. RoomTypeOK'
    BY DEF RoomInv
<1>2. MaxLogoutClicks \in Nat \ {0}
    BY ChatAssumption DEF ChatAssumption
<1>3. CASE LoginClicked \/ JoinClicked
    BY <1>1, <1>3 DEF LoginClicked, JoinClicked, TypeOK, Frames
<1>4. CASE LogoutClicked \/ LogoutLeaves
  <2>1. leaving' \in 0 .. MaxLogoutClicks
      BY <1>2, <1>4 DEF LogoutClicked, LogoutLeaves, TypeOK
  <2>2. visible' \subseteq Frames /\ logoutEnabled' \in BOOLEAN /\ userList' \subseteq Nicks /\ loggedIn' \in BOOLEAN
      BY <1>4 DEF LogoutClicked, LogoutLeaves, TypeOK
  <2> QED  BY <1>1, <2>1, <2>2 DEF TypeOK
<1>5. CASE RoomEvent
    BY <1>1, <1>5, SlotsType DEF RoomEvent, Shown, TypeOK
<1>6. CASE SessionStarts
    BY <1>1, <1>6 DEF SessionStarts, XmppConnected, XmppDisconnected, TypeOK, Frames
<1>7. CASE SessionEnds(SessionLost) \/ SessionEnds(SessionClosed)
  <2> DEFINE frames == IF told' THEN visible ELSE XmppDisconnected(visible)
  <2>1. RoomSlots(frames) /\ UNCHANGED <<loggedIn, leaving>>
      BY <1>7 DEF SessionEnds
  <2>2. frames \subseteq Frames
      BY DEF TypeOK, XmppDisconnected, Frames
  <2> HIDE DEF frames
  <2> QED  BY <1>1, <2>1, <2>2, SlotsType DEF TypeOK
<1> QED  BY <1>3, <1>4, <1>5, <1>6, <1>7 DEF Next

-----------------------------------------------------------------------------
(* The slots.                                                              *)

LEMMA Silent ==
    ASSUME sig' = {}, NEW frames, RoomSlots(frames)
    PROVE  visible' = frames /\ (logoutEnabled' <=> logoutEnabled) /\ userList' = userList
<1>1. ~Emitted("joined") /\ ~Emitted("left") /\ ~Emitted("kicked")
    BY DEF Emitted
<1> QED  BY <1>1 DEF RoomSlots

\* The room is left, or was not entered, or ends with the session.
LEMMA LeftSlots ==
    ASSUME NEW frames, NEW nicks, RoomSlots(frames),
           \/ sig' = Removed(nicks) \cup {Signal("left", NoNick)}
           \/ sig' = Removed(nicks) \cup {Signal("left", NoNick), Signal("kicked", NoNick)}
    PROVE  /\ visible' = UserLeftRoom(frames)
           /\ (logoutEnabled' <=> logoutEnabled) /\ userList' = userList
<1>1. \A s \in Removed(nicks) : s.kind = "removed"
    BY DEF Removed, Signal
<1>2. /\ Signal("left", NoNick).kind = "left" /\ Signal("kicked", NoNick).kind = "kicked"
      /\ \A nick : Signal("added", nick).kind = "added"
    BY DEF Signal
<1>3. Emitted("left") /\ ~Emitted("joined")
    BY <1>1, <1>2 DEF Emitted
<1>4. \A nick \in Nicks : Signal("added", nick) \notin sig'
    BY <1>1, <1>2
<1> QED  BY <1>3, <1>4 DEF RoomSlots

\* Someone is taken out of the list.
LEMMA RemovedSlots ==
    ASSUME NEW frames, NEW nicks, RoomSlots(frames), sig' = Removed(nicks)
    PROVE  visible' = frames /\ (logoutEnabled' <=> logoutEnabled) /\ userList' = userList
<1>1. \A s \in Removed(nicks) : s.kind = "removed"
    BY DEF Removed, Signal
<1>2. \A nick : Signal("added", nick).kind = "added"
    BY DEF Signal
<1>3. ~Emitted("left") /\ ~Emitted("joined") /\ ~Emitted("kicked")
    BY <1>1 DEF Emitted
<1>4. \A nick \in Nicks : Signal("added", nick) \notin sig'
    BY <1>1, <1>2
<1> QED  BY <1>3, <1>4 DEF RoomSlots

\* Someone enters, or, as the first presence of a stay, the user.
LEMMA AddedSlots ==
    ASSUME RoomInv, PresenceAvailable, RoomSlots(visible)
    PROVE  IF From = nickName /\ From \notin participants
           THEN visible' = RoomJoined(visible) /\ userList' = participants'
           ELSE /\ visible' = visible /\ (logoutEnabled' <=> logoutEnabled)
                /\ userList \cup (participants' \ participants) \subseteq userList'
<1>1. From \in Nicks
  <2>1. Head(fromServer) \in PresenceSet
    <3>1. fromServer \in Seq(PresenceSet) /\ fromServer # <<>>
        BY DEF PresenceAvailable, Receive, RoomInv, RoomTypeOK
    <3> QED  BY <3>1
  <2> QED  BY <2>1 DEF PresenceSet, From
<1>2. Signal("added", From).kind = "added" /\ Signal("joined", NoNick).kind = "joined"
    BY DEF Signal
<1>3. sig' = IF From \in participants THEN {}
             ELSE {Signal("added", From)}
                  \cup (IF From = nickName THEN {Signal("joined", NoNick)} ELSE {})
    BY DEF PresenceAvailable
<1>4. CASE From = nickName /\ From \notin participants
  <2>1. Emitted("joined")
      BY <1>2, <1>3, <1>4 DEF Emitted
  <2> QED  BY <1>4, <2>1 DEF RoomSlots
<1>5. CASE ~(From = nickName /\ From \notin participants)
  <2>1. sig' = IF From \in participants THEN {} ELSE {Signal("added", From)}
      BY <1>3, <1>5
  <2>2. ~Emitted("joined") /\ ~Emitted("left") /\ ~Emitted("kicked")
      BY <1>2, <2>1 DEF Emitted
  <2>3. participants' \ participants \subseteq {nick \in Nicks : Signal("added", nick) \in sig'}
      BY <1>1, <2>1 DEF PresenceAvailable
  <2>4. userList' = userList \cup {nick \in Nicks : Signal("added", nick) \in sig'}
      BY <2>2 DEF RoomSlots
  <2> QED  BY <1>5, <2>2, <2>3, <2>4 DEF RoomSlots
<1> QED  BY <1>4, <1>5

-----------------------------------------------------------------------------
(* The window agrees with the room.                                        *)

\* A click.
LEMMA ClicksKeep ==
    ASSUME RoomInv, TypeOK, WidgetInv, LoginClicked \/ JoinClicked \/ LogoutClicked \/ LogoutLeaves
    PROVE  WidgetInv'
<1>1. leaving \in 0 .. MaxLogoutClicks /\ NoNick \notin Nicks
    BY RoomAssumption DEF TypeOK, RoomAssumption
<1>2. ASSUME UNCHANGED <<phase, room, wire, chatServer>>
      PROVE  /\ (phase = "Online" => View)' /\ (phase # "Online" => Quiet /\ me = NoNick)'
             /\ Out' = Out /\ IsJoined' = IsJoined
    BY <1>2 DEF WidgetInv, View, RollTold, PowerTold, AskedInTurn, ExitLast, ErrorAlone, InOrOut, IsJoined,
       Outside, Out, NoJoin, Quiet, room, wire, chatServer
<1>3. CASE LoginClicked
    BY <1>2, <1>3 DEF LoginClicked, WidgetInv, room
<1>4. CASE JoinClicked
  <2>1. /\ Out /\ leaving = 0
        /\ \/ toServer' = toServer
           \/ \E request \in NamedRequests : /\ request.nick = nickName'
                                             /\ toServer' = Append(toServer, request)
        /\ phase # "Online" => toServer' = toServer
      BY <1>4, JoinClickedSends DEF JoinClicked
  <2>2. UNCHANGED <<phase, participants, allowedActions, fromServer, chatServer, userList, leaving>>
      BY <1>4 DEF JoinClicked
  <2>3. View'
      BY <2>1, <2>2, JoinAsked DEF Out, NoJoin
  <2>4. "message" \notin visible' /\ "nick" \notin visible'
      BY <1>4, <2>1 DEF JoinClicked, WidgetInv, Out, Outside, IsJoined
  <2> QED  BY <2>1, <2>2, <2>3, <2>4 DEF WidgetInv, Quiet, chatServer
<1>5. CASE LogoutClicked
  <2>1. leaving' = 1 /\ ~logoutEnabled' /\ IsJoined /\ UNCHANGED <<visible, userList>>
      BY <1>1, <1>5 DEF LogoutClicked, WidgetInv
  <2> QED  BY <1>2, <1>5, <2>1 DEF LogoutClicked, WidgetInv, room
<1>6. CASE LogoutLeaves
  <2>1. /\ leaving' = 0 /\ Leave /\ UNCHANGED <<visible, userList, phase, room, fromServer, chatServer>>
      BY <1>6 DEF LogoutLeaves, Leave, WidgetInv
  <2>2. phase = "Online" => View'
      BY <2>1, AskView DEF WidgetInv
  <2>3. phase # "Online" => toServer' = toServer
      BY <2>1 DEF Leave, Send
  <2>4. NoJoin => NoJoin'
    <3>1. CASE phase = "Online"
      <4>1. Request("leave", nickName) \in NamedRequests
          BY DEF NamedRequests, Request, RoomInv, RoomTypeOK
      <4>2. toServer' = toServer \o <<Request("leave", nickName)>> /\ toServer \in Seq(NamedRequests)
          BY <2>1, <3>1 DEF Leave, Send, RoomInv
      <4>3. Request("leave", nickName).kind # "join"
          BY DEF Request
      <4> DEFINE request == Request("leave", nickName)
      <4> HIDE DEF request
      <4>4. toServer' = Append(toServer, request)
          BY <4>1, <4>2, OneMore DEF request
      <4> QED  BY <4>1, <4>2, <4>3, <4>4, OneMore DEF NoJoin, request
    <3> QED  BY <2>3, <3>1 DEF NoJoin
  <2> QED  BY <2>1, <2>2, <2>3, <2>4 DEF WidgetInv, Out, Outside, IsJoined, Quiet, room, chatServer
<1> QED  BY <1>3, <1>4, <1>5, <1>6

\* Outside and with no join under way, the server tells the client nothing.
LEMMA OutStays ==
    ASSUME RoomInv, Out, Server \/ ServerUnasked
    PROVE  Out'
<1>1. me = NoNick /\ NoJoin
    BY DEF Out, Outside
<1>2. CASE Server
  <2>1. ASSUME NEW presences, Answer({"join"}, presences) PROVE FALSE
    <3>1. 1 \in DOMAIN toServer /\ toServer[1].kind \in {"join"}
        BY <2>1, Asks
    <3> QED  BY <1>1, <3>1 DEF NoJoin
  <2>2. ServerIgnores
      BY <1>1, <1>2, <2>1 DEF Server, ServerJoins, ServerRefusesJoin, ServerUpdates, ServerRenames,
         ServerRefusesRename, ServerLetsGo
  <2>3. Answer({"leave", "presence"}, <<>>) /\ UNCHANGED chatServer
      BY <2>2 DEF ServerIgnores
  <2>4. /\ \A i \in DOMAIN toServer' : i + 1 \in DOMAIN toServer /\ toServer'[i] = toServer[i + 1]
        /\ UNCHANGED room /\ fromServer' = fromServer \o <<>>
      BY <2>3, Asks
  <2>5. fromServer' = <<>>
      BY <2>4 DEF Out
  <2> QED  BY <1>1, <2>3, <2>4, <2>5 DEF Out, Outside, NoJoin, room, chatServer
<1>3. CASE ServerUnasked
    BY <1>1, <1>3 DEF ServerUnasked, OtherEnters, OtherLeaves, ServerGrants, ServerKicks, Announce,
       Out, Outside, NoJoin, room
<1> QED  BY <1>2, <1>3

\* A step of the server, or the client's own presence: the window does nothing.
LEMMA ServerKeeps ==
    ASSUME RoomInv, TypeOK, WidgetInv, Shown(Server \/ ServerUnasked \/ OwnPresence)
    PROVE  WidgetInv'
<1>1. /\ Server \/ ServerUnasked \/ OwnPresence
      /\ RoomSlots(visible) /\ UNCHANGED leaving
    BY DEF Shown
<1>2. sig' = {} /\ UNCHANGED <<phase, room>>
    BY <1>1 DEF Server, ServerJoins, ServerRefusesJoin, ServerUpdates, ServerRenames,
       ServerRefusesRename, ServerLetsGo, ServerIgnores, Answer, ServerUnasked, OtherEnters,
       OtherLeaves, ServerGrants, ServerKicks, Announce, OwnPresence
<1>3. UNCHANGED <<visible, userList>> /\ (logoutEnabled' <=> logoutEnabled)
    BY <1>1, <1>2, Silent
<1>4. phase = "Online" => View'
    BY <1>1, <1>2, ServerView, UnaskedView, AskView DEF WidgetInv
<1>5. phase # "Online" => (Quiet /\ me = NoNick)'
  <2>1. ASSUME phase # "Online" PROVE ServerUnasked
      BY <1>1, <2>1 DEF Server, ServerJoins, ServerRefusesJoin, ServerUpdates, ServerRenames,
         ServerRefusesRename, ServerLetsGo, ServerIgnores, Answer, OwnPresence
  <2> QED  BY <1>2, <2>1 DEF WidgetInv, Quiet, ServerUnasked, OtherEnters, OtherLeaves, ServerGrants,
     ServerKicks, Announce
<1>6. Out => Out'
  <2>1. Out => ~OwnPresence
      BY DEF Out, Outside, OwnPresence, IsJoined
  <2> QED  BY <1>1, <2>1, OutStays
<1> QED  BY <1>1, <1>2, <1>3, <1>4, <1>5, <1>6 DEF WidgetInv, IsJoined, room

\* A presence.
LEMMA PresencesKeep ==
    ASSUME RoomInv, TypeOK, WidgetInv, Shown(Presences)
    PROVE  WidgetInv'
<1>1. /\ Presences /\ RoomSlots(visible) /\ UNCHANGED leaving
      /\ phase = "Online" /\ fromServer # <<>> /\ UNCHANGED <<phase, nickName, toServer>>
    BY DEF Shown, Presences, PresenceAvailable, OtherUnavailable, OwnUnavailable, PresenceError, Receive
<1>2. View /\ View'
    BY <1>1, PresencesView DEF WidgetInv
<1>3. /\ "message" \in visible => IsJoined
      /\ "nick" \notin visible
      /\ leaving > 0 => leaving = 1 /\ ~logoutEnabled /\ IsJoined
      /\ participants \subseteq userList
    BY <1>1 DEF WidgetInv, Out
<1>4. CASE PresenceAvailable
  <2>1. /\ participants' = participants \cup {From}
        /\ IF From = nickName /\ From \notin participants
           THEN visible' = RoomJoined(visible) /\ userList' = participants'
           ELSE /\ visible' = visible /\ (logoutEnabled' <=> logoutEnabled)
                /\ userList \cup (participants' \ participants) \subseteq userList'
      BY <1>1, <1>4, AddedSlots DEF PresenceAvailable
  <2>2. IsJoined => IsJoined'
      BY <1>1, <2>1 DEF IsJoined
  <2>3. CASE From = nickName /\ From \notin participants
    <3>1. IsJoined' /\ ~IsJoined
        BY <1>1, <2>1, <2>3 DEF IsJoined
    <3>2. "nick" \notin visible' /\ ~(leaving > 0) /\ participants' \subseteq userList'
        BY <1>3, <2>1, <2>3, <3>1 DEF RoomJoined
    <3> QED  BY <1>1, <1>2, <3>1, <3>2 DEF WidgetInv
  <2>4. CASE ~(From = nickName /\ From \notin participants)
    <3>1. visible' = visible /\ (logoutEnabled' <=> logoutEnabled) /\ participants' \subseteq userList'
        BY <1>3, <2>1, <2>4
    <3> QED  BY <1>1, <1>2, <1>3, <2>2, <3>1 DEF WidgetInv
  <2> QED  BY <2>3, <2>4
<1>5. CASE OtherUnavailable
  <2>1. From # nickName /\ participants' = participants \ {From} /\ sig' = Removed({From} \cap participants)
      BY <1>2, <1>5, AnyoneView DEF OtherUnavailable
  <2>2. visible' = visible /\ (logoutEnabled' <=> logoutEnabled) /\ userList' = userList
      BY <1>1, <2>1, RemovedSlots
  <2>3. IsJoined => IsJoined'
      BY <1>1, <2>1 DEF IsJoined
  <2>4. participants' \subseteq userList'
      BY <1>3, <2>1, <2>2
  <2> QED  BY <1>1, <1>2, <1>3, <2>2, <2>3, <2>4 DEF WidgetInv
<1>6. CASE OwnUnavailable \/ PresenceError
  <2>1. Out' /\ participants' = {}
      BY <1>2, <1>6, OverView DEF Out, NoJoin, Outside
  <2>2. \E nicks : \/ sig' = Removed(nicks) \cup {Signal("left", NoNick)}
                   \/ sig' = Removed(nicks) \cup {Signal("left", NoNick), Signal("kicked", NoNick)}
    <3>1. CASE OwnUnavailable
        BY <3>1 DEF OwnUnavailable
    <3>2. CASE PresenceError
      <4>1. Head(fromServer).type = "error"
          BY <1>2, <3>2, OverView
      <4>2. sig' = {Signal("left", NoNick)} /\ Removed({}) = {}
          BY <3>2, <4>1 DEF PresenceError, Removed
      <4> QED  BY <4>2
    <3> QED  BY <1>6, <3>1, <3>2
  <2>3. visible' = UserLeftRoom(visible) /\ (logoutEnabled' <=> logoutEnabled) /\ userList' = userList
      BY <1>1, <2>2, LeftSlots
  <2>4. "message" \notin visible'
      BY <2>3 DEF UserLeftRoom
  <2> QED  BY <1>1, <1>2, <1>3, <2>1, <2>3, <2>4 DEF WidgetInv
<1> QED  BY <1>1, <1>4, <1>5, <1>6 DEF Presences

\* The session.
LEMMA BeginningKeeps ==
    ASSUME RoomInv, TypeOK, WidgetInv, GhostInv, SessionStarts
    PROVE  WidgetInv'
<1>1. /\ SessionBegins /\ phase # "Online" /\ Quiet /\ me = NoNick
      /\ UNCHANGED <<room, wire, chatServer, logoutEnabled, userList, leaving>>
    BY DEF SessionStarts, SessionBegins, Attempt, GiveUp, Establish, WidgetInv
<1>2. Quiet' /\ me' = NoNick /\ (Out => Out') /\ (IsJoined <=> IsJoined') /\ participants' \subseteq userList'
    BY <1>1 DEF Quiet, Out, Outside, NoJoin, IsJoined, WidgetInv, room, wire, chatServer
<1>3. CASE phase' = "Online"
  <2>1. View' /\ Outside' /\ toServer' = <<>> /\ fromServer' = <<>>
      BY <1>1, <1>3, NewSessionView
  <2>2. Out'
      BY <2>1 DEF Out, NoJoin
  <2>3. ~IsJoined
      BY <1>2, <2>1 DEF Outside, IsJoined
  <2>4. "message" \notin visible'
      BY <1>3, <2>3 DEF SessionStarts, WidgetInv, XmppConnected
  <2> QED  BY <1>1, <1>2, <1>3, <2>1, <2>2, <2>4 DEF WidgetInv
<1>4. CASE phase' # "Online"
  <2>1. "message" \in visible' => "message" \in visible
      BY <1>4 DEF SessionStarts, XmppDisconnected
  <2>2. "nick" \in visible' => "nick" \in visible
      BY <1>4 DEF SessionStarts, XmppDisconnected
  <2> QED  BY <1>1, <1>2, <1>4, <2>1, <2>2 DEF WidgetInv
<1> QED  BY <1>3, <1>4

LEMMA EndKeeps ==
    ASSUME RoomInv, TypeOK, WidgetInv, SessionEnds(SessionLost) \/ SessionEnds(SessionClosed)
    PROVE  WidgetInv'
<1>1. /\ SessionLost \/ SessionClosed
      /\ RoomSlots(IF told' THEN visible ELSE XmppDisconnected(visible))
      /\ UNCHANGED leaving
    BY DEF SessionEnds
<1>2. phase' = "Offline" /\ Quiet' /\ me' = NoNick
    BY <1>1 DEF SessionLost, Drop, SessionClosed, Notify, WidgetInv, Quiet, wire, chatServer
<1>3. fromServer' = <<>> /\ NoJoin'
    BY <1>2 DEF Quiet, NoJoin
<1>4. CASE told'
  <2>1. sig' = {} /\ UNCHANGED room
      BY <1>1, <1>4 DEF SessionLost, SessionClosed, Notify
  <2>2. UNCHANGED <<visible, userList>> /\ (logoutEnabled' <=> logoutEnabled)
      BY <1>1, <1>4, <2>1, Silent
  <2>3. (Out => Out') /\ (IsJoined <=> IsJoined')
      BY <1>2, <1>3, <2>1 DEF Out, Outside, IsJoined, room
  <2> QED  BY <1>1, <1>2, <2>1, <2>2, <2>3 DEF WidgetInv, room
<1>5. CASE ~told'
  <2>1. Disconnected /\ participants' = {} /\ allowedActions' = {}
      BY <1>1, <1>5 DEF SessionLost, SessionClosed, Disconnected
  <2>2. Out'
      BY <1>2, <1>3, <2>1 DEF Out, Outside
  <2>3. \/ visible' = UserLeftRoom(XmppDisconnected(visible)) /\ (logoutEnabled' <=> logoutEnabled)
        \/ visible' = XmppDisconnected(visible) /\ (logoutEnabled' <=> logoutEnabled)
    <3>1. CASE IsJoined
      <4>1. sig' = Removed(participants) \cup {Signal("left", NoNick)}
          BY <2>1, <3>1 DEF Disconnected
      <4> QED  BY <1>1, <1>5, <4>1, LeftSlots
    <3>2. CASE ~IsJoined
      <4>1. sig' = Removed(participants)
          BY <2>1, <3>2 DEF Disconnected
      <4> QED  BY <1>1, <1>5, <4>1, RemovedSlots
    <3> QED  BY <3>1, <3>2
  <2>4. "message" \notin visible'
      BY <2>3 DEF UserLeftRoom, XmppDisconnected
  <2>5. leaving > 0 => leaving = 1 /\ ~logoutEnabled
      BY DEF WidgetInv
  <2> QED  BY <1>1, <1>2, <2>1, <2>2, <2>3, <2>4, <2>5 DEF WidgetInv
<1> QED  BY <1>4, <1>5

LEMMA WidgetKept ==
    ASSUME RoomInv, TypeOK, WidgetInv, GhostInv, Next
    PROVE  WidgetInv'
<1>1. CASE LoginClicked \/ JoinClicked \/ LogoutClicked \/ LogoutLeaves
    BY <1>1, ClicksKeep
<1>2. CASE RoomEvent
  <2>1. Shown(Presences) \/ Shown(Server \/ ServerUnasked \/ OwnPresence)
      BY <1>2 DEF RoomEvent, Shown
  <2> QED  BY <2>1, ServerKeeps, PresencesKeep
<1>3. CASE SessionStarts
    BY <1>3, BeginningKeeps
<1>4. CASE SessionEnds(SessionLost) \/ SessionEnds(SessionClosed)
    BY <1>4, EndKeeps
<1> QED  BY <1>1, <1>2, <1>3, <1>4 DEF Next

LEMMA GhostKept ==
    ASSUME GhostInv, Next
    PROVE  GhostInv'
<1>1. CASE JoinClicked \/ UNCHANGED <<phase, told, room, wire, chatServer, rash>>
    BY <1>1 DEF JoinClicked, GhostInv, NoGhosts, room
<1>2. CASE ~(JoinClicked \/ UNCHANGED <<phase, told, room, wire, chatServer, rash>>)
  <2>1. RoomNext
      BY <1>2, RoomMoves DEF RoomNext
  <2> QED  BY <2>1, GhostStep
<1> QED  BY <1>1, <1>2

-----------------------------------------------------------------------------
(* The theorems about the window.                                          *)

LEMMA WindowInductive == Spec => [](TypeOK /\ RoomInv /\ GhostInv /\ WidgetInv)
<1> DEFINE Inv == TypeOK /\ RoomInv /\ GhostInv /\ WidgetInv
<1>1. Init => Inv
  <2>1. SUFFICES ASSUME Init PROVE Inv
      OBVIOUS
  <2>2. RoomInv /\ GhostInv
      BY <2>1, RoomBegins DEF Init
  <2>3. TypeOK
    <3>1. 0 \in 0 .. MaxLogoutClicks
        BY ChatAssumption DEF ChatAssumption
    <3> QED  BY <2>1, <2>2, <3>1 DEF Init, TypeOK, RoomInv, Frames
  <2>4. WidgetInv
      BY <2>1 DEF Init, RoomInit, SessionInit, WidgetInv, Quiet
  <2> QED  BY <2>2, <2>3, <2>4
<1>2. Inv /\ [Next]_vars => Inv'
  <2>1. SUFFICES ASSUME Inv, [Next]_vars PROVE Inv'
      OBVIOUS
  <2>2. CASE Next
      BY <2>1, <2>2, RoomInvKept, WidgetType, GhostKept, WidgetKept
  <2>3. CASE UNCHANGED vars
    <3>1. RoomInv' /\ GhostInv' /\ TypeOK'
        BY <2>1, <2>3 DEF vars, roomVars, room, wire, chatServer, widget, RoomInv, RoomTypeOK,
           SessionTypeOK, GhostInv, NoGhosts, TypeOK
    <3>2. WidgetInv'
        BY <2>1, <2>3 DEF vars, roomVars, room, wire, chatServer, widget, WidgetInv, View, RollTold,
           PowerTold, AskedInTurn, ExitLast, ErrorAlone, InOrOut, IsJoined, Outside, Out, NoJoin, Quiet
    <3> QED  BY <3>1, <3>2
  <2> QED  BY <2>1, <2>2, <2>3
<1> QED  BY <1>1, <1>2, PTL DEF Spec

\* The types of the window and of the room beneath it (chatwidget.cpp).
THEOREM WindowTypeCorrect == Spec => []TypeOK
    BY WindowInductive, PTL

\* The frame for messages is shown only inside the room and the one for nicks only outside
\* (room_joined, user_left_room, chatwidget.cpp), the client believes what the server
\* does although no button waits for an answer, and the handler of the logout button is never
\* entered while it runs (on_logout_button_clicked, chatwidget.cpp:326).
THEOREM WindowAgreesCorrect == Spec => []WindowAgrees
<1>1. TypeOK /\ RoomInv /\ WidgetInv => WindowAgrees
  <2>1. SUFFICES ASSUME TypeOK, RoomInv, WidgetInv PROVE WindowAgrees
      OBVIOUS
  <2>2. FramesMatchRoom
      BY <2>1 DEF FramesMatchRoom, WidgetInv, Out, Outside, IsJoined
  <2>3. LogoutNotReentered
      BY <2>1 DEF LogoutNotReentered, WidgetInv, TypeOK
  <2>4. WidgetInStep
    <3>1. SUFFICES ASSUME phase = "Online", Quiet PROVE IsJoined <=> me # NoNick
        BY DEF WidgetInStep, InStep
    <3>2. Outside \/ (me = nickName /\ IsJoined)
        BY <2>1, <3>1 DEF WidgetInv, Quiet, View, InOrOut
    <3> QED  BY <2>1, <3>2, RoomAssumption DEF Outside, IsJoined, RoomInv, RoomTypeOK, RoomAssumption
  <2> QED  BY <2>2, <2>3, <2>4 DEF WindowAgrees
<1> QED  BY <1>1, WindowInductive, PTL

\* user_out (chatwidget.cpp:254) finds an item for whoever is removed from the list.
THEOREM RemovedIsListedCorrect == Spec => RemovedIsListed
<1>1. ASSUME WidgetInv, Next, NEW nick \in Nicks, Signal("removed", nick) \in sig'
      PROVE  nick \in userList
  <2>1. \A nicks : Signal("removed", nick) \in Removed(nicks) => nick \in nicks
      BY DEF Removed, Signal
  <2>2. \A other, kind : kind # "removed" => Signal("removed", nick) # Signal(kind, other)
      BY DEF Signal
  <2>3. CASE Server \/ ServerUnasked \/ Leave \/ OwnPresence \/ SessionBegins \/ JoinClicked \/ sig' = {}
    <3>1. sig' = {}
        BY <2>3 DEF Server, ServerJoins, ServerRefusesJoin, ServerUpdates, ServerRenames,
           ServerRefusesRename, ServerLetsGo, ServerIgnores, Answer, ServerUnasked, OtherEnters,
           OtherLeaves, ServerGrants, ServerKicks, Announce, Leave, OwnPresence, SessionBegins, JoinClicked
    <3> QED  BY <1>1, <3>1
  <2>4. CASE Presences
    <3>1. nick \in participants
        BY <1>1, <2>1, <2>2, <2>4 DEF Presences, PresenceAvailable, OtherUnavailable, OwnUnavailable,
           PresenceError
    <3> QED  BY <1>1, <3>1 DEF WidgetInv
  <2>5. CASE SessionLost \/ SessionClosed
    <3>1. nick \in participants
        BY <1>1, <2>1, <2>2, <2>5 DEF SessionLost, SessionClosed, Disconnected
    <3> QED  BY <1>1, <3>1 DEF WidgetInv
  <2> QED  BY <1>1, <2>3, <2>4, <2>5, RoomMoves
<1>2. WidgetInv /\ [Next]_vars
        => [\A nick \in Nicks : Signal("removed", nick) \in sig' => nick \in userList]_vars
    BY <1>1
<1> QED  BY <1>2, WindowInductive, PTL DEF Spec, RemovedIsListed
=============================================================================
