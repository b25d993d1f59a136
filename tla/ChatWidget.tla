------------------------------ MODULE ChatWidget ------------------------------
(***************************************************************************)
(* ChatWidget (src/chatwidget.cpp): the four frames of the chat window and *)
(* the list of users, on top of one room (MucRoom) and of the session      *)
(* (XmppSession).  The slots of the widget run inside the emission of the  *)
(* signals of the room and the session.                                    *)
(* The widget's own buttons make the calls of the room here.               *)
(***************************************************************************)
EXTENDS MucRoom

CONSTANT MaxLogoutClicks   \* bound on the logout handlers nested in one another

ASSUME ChatAssumption == MaxLogoutClicks \in Nat \ {0}

VARIABLES
    visible,        \* the frames shown: login, connecting, nick, message
    logoutEnabled,  \* the state of logout_button
    userList,       \* the nicks in the user list
    loggedIn,       \* the login button was clicked: the client has an account
    leaving         \* logout handlers inside QApplication::processEvents()

widget == <<visible, logoutEnabled, userList, loggedIn, leaving>>
vars == <<roomVars, widget>>

Frames == {"login", "connecting", "nick", "message"}

TypeOK ==
    /\ RoomTypeOK
    /\ visible \subseteq Frames
    /\ logoutEnabled \in BOOLEAN
    /\ userList \subseteq Nicks
    /\ loggedIn \in BOOLEAN
    /\ leaving \in 0 .. MaxLogoutClicks

Init ==
    /\ RoomInit
    /\ visible = {"login"} /\ logoutEnabled = TRUE
    /\ userList = {} /\ loggedIn = FALSE /\ leaving = 0

-----------------------------------------------------------------------------
(* Slots, as functions of the frames shown.                                *)

\* xmpp_connected
XmppConnected(frames) == (frames \ {"connecting"}) \cup {"nick"}

\* xmpp_disconnected, which runs before the room's own slot
XmppDisconnected(frames) == (frames \ {"connecting", "message", "nick"}) \cup {"login"}

\* room_joined
RoomJoined(frames) == (frames \ {"connecting"}) \cup {"message"}

\* Mutant: the message frame is not hidden.
UserLeftRoomKeeps(frames) ==
    IF "login" \in frames THEN frames ELSE (frames \ {"connecting"}) \cup {"nick"}

\* user_left_room
UserLeftRoom(frames) ==
    LET rest == frames \ {"message", "connecting"}
    IN IF "login" \in rest THEN rest ELSE rest \cup {"nick"}

Emitted(kind) == \E s \in sig' : s.kind = kind

\* What the room's signals do to the widget, frames being those shown before:
\* joined() rebuilds the list, participantAdded() adds to it, and user_out
\* takes nothing out of it (removeItemWidget only clears the item's widget).
RoomSlots(frames) ==
    /\ visible' = IF Emitted("joined") THEN RoomJoined(frames)
                  ELSE IF Emitted("left") \/ Emitted("kicked") THEN UserLeftRoom(frames)
                  ELSE frames
    /\ logoutEnabled' = (logoutEnabled \/ Emitted("joined"))
    /\ userList' = IF Emitted("joined") THEN participants'
                   ELSE userList \cup {nick \in Nicks : Signal("added", nick) \in sig'}

-----------------------------------------------------------------------------
(* Buttons.  processEvents() delivers what is pending: network events and  *)
(* clicks already made, of which only the logout button's can matter.      *)

LoginClicked ==
    /\ "login" \in visible /\ leaving = 0
    /\ visible' = (visible \ {"login"}) \cup {"connecting"}
    /\ loggedIn' = TRUE
    /\ sig' = {}
    /\ UNCHANGED <<phase, told, room, wire, chatServer, rash, logoutEnabled, userList,
                   leaving>>

\* on_join_button_clicked: setNickName() and join(), whose result is ignored.
JoinClicked ==
    /\ "nick" \in visible /\ leaving = 0
    /\ \E nick \in Nicks \cup (IF EmptyNick THEN {NoNick} ELSE {}) :
         /\ nickName' = nick
         /\ Send(RenameRequests(nick) \o JoinRequests(nick))
         /\ rash' = (rash \/ ~Quiet \/ RenameRequests(nick) # <<>>)
    /\ visible' = (visible \ {"nick"}) \cup {"connecting"}
    /\ sig' = {}
    /\ UNCHANGED <<phase, told, participants, allowedActions, fromServer,
                   chatServer, logoutEnabled, userList, loggedIn, leaving>>

\* Mutant: the button is not disabled.
LogoutClickedTwice ==
    /\ "message" \in visible /\ logoutEnabled
    /\ leaving < MaxLogoutClicks
    /\ leaving' = leaving + 1
    /\ sig' = {}
    /\ UNCHANGED <<phase, told, room, wire, chatServer, rash, visible, userList, loggedIn,
                   logoutEnabled>>

\* on_logout_button_clicked, up to processEvents()
LogoutClicked ==
    /\ "message" \in visible /\ logoutEnabled
    /\ leaving < MaxLogoutClicks
    /\ logoutEnabled' = FALSE
    /\ leaving' = leaving + 1
    /\ sig' = {}
    /\ UNCHANGED <<phase, told, room, wire, chatServer, rash, visible, userList, loggedIn>>

\* ... and after it
LogoutLeaves ==
    /\ leaving > 0
    /\ Leave
    /\ leaving' = leaving - 1
    /\ UNCHANGED <<visible, logoutEnabled, userList, loggedIn>>

-----------------------------------------------------------------------------
(* Events.                                                                 *)

\* A step of the room or of its server, with what the widget makes of it.
Shown(roomStep) ==
    /\ roomStep
    /\ RoomSlots(visible)
    /\ UNCHANGED <<loggedIn, leaving>>

RoomEvent == Shown(Server \/ ServerUnasked \/ Presences \/ OwnPresence)

\* The client connects by itself once it has an account.
SessionStarts ==
    /\ loggedIn
    /\ SessionBegins
    /\ \/ visible' = visible /\ ~(phase' = "Online")
       \/ visible' = XmppConnected(visible) /\ phase' = "Online"
       \/ visible' = XmppDisconnected(visible) /\ phase' = "Offline"
    /\ UNCHANGED <<logoutEnabled, userList, loggedIn, leaving>>

SessionEnds(sessionStep) ==
    /\ sessionStep
    /\ RoomSlots(IF told' THEN visible ELSE XmppDisconnected(visible))
    /\ UNCHANGED <<loggedIn, leaving>>

Next ==
    \/ LoginClicked \/ JoinClicked \/ LogoutClicked \/ LogoutLeaves
    \/ RoomEvent \/ SessionStarts
    \/ SessionEnds(SessionLost) \/ SessionEnds(SessionClosed)

Spec == Init /\ [][Next]_vars

-----------------------------------------------------------------------------
(* Properties.                                                             *)

\* The message frame is shown only inside the room and the nick frame only
\* outside it, whatever kick, refusal, disconnection or reconnection comes in
\* between: a message cannot be typed to a room that is not joined, nor a
\* second join started from inside.
FramesMatchRoom ==
    /\ "message" \in visible => IsJoined
    /\ "nick" \in visible => ~IsJoined

\* "prevent from second click" (chatwidget.cpp:328): although the handler
\* lets events in, it is never entered again before it has left the room.
LogoutNotReentered == leaving <= 1

\* user_out takes the first item found for a participant that is removed
\* (items.at(0), chatwidget.cpp:254): there is one, whichever way the
\* participant came into the room, and after any number of joins.
RemovedIsListed ==
    [][ \A nick \in Nicks : Signal("removed", nick) \in sig' => nick \in userList ]_vars

\* A user who has clicked logout gets out of the message frame: the handler
\* (chatwidget.cpp:326) leaves the room, or the session has ended meanwhile.
LogoutCompletes ==
    "message" \in visible /\ ~logoutEnabled ~> "message" \notin visible

\* A user whose join request was sent is not left in the connecting frame that
\* on_join_button_clicked (chatwidget.cpp:296) shows.
JoinSettles ==
    (phase = "Online" /\ \E i \in DOMAIN toServer : toServer[i].kind = "join")
        ~> "connecting" \notin visible

\* isJoined() is what the server says once nothing is under way: the widget's
\* buttons never confuse the room (InStep), although they do not wait.
WidgetInStep == InStep

\* What the window shows and lets its user do agrees with the room.
WindowAgrees == FramesMatchRoom /\ WidgetInStep /\ LogoutNotReentered

\* A user gets in or back, and out, and is listed meanwhile.
UserServed == RemovedIsListed /\ LogoutCompletes /\ JoinSettles
===============================================================================
