-------------------------------- MODULE Requests -------------------------------
(***************************************************************************)
(* Those that ask a server and hold what it answers: three managers over   *)
(* the XMPP session, each with its own stanzas; an object of the Twitter   *)
(* library; and a login.  They share nothing else, so that a behaviour     *)
(* follows one of them, which `part' names.                                *)
(***************************************************************************)
EXTENDS Roster, Bookmarks, Permissions, TwitterRequests, Sasl

VARIABLE part

managersVars == <<wireVars, rosterVars, bookmarksVars, permissionsVars>>
vars == <<part, managersVars, twitterVars, saslVars>>

TypeOK ==
    /\ SessionTypeOK /\ RosterTypeOK /\ BookmarksTypeOK /\ PermissionsTypeOK /\ TwitterTypeOK
    /\ SaslTypeOK
    /\ Len(toServer) <= MaxWire /\ Len(fromServer) <= MaxWire

Parts == {"roster", "bookmarks", "permissions", "twitter", "login"}

\* The parts that do not move begin in one state.
Init ==
    /\ part \in Parts /\ WireInit
    /\ RosterInit /\ (part # "roster" => account = NoEntries)
    /\ BookmarksInit /\ (part # "bookmarks" => stored = None)
    /\ PermissionsInit /\ (part # "permissions" => \A m \in Members : table[m] = NoAffiliation)
    /\ TwitterInit(IF part = "twitter" THEN Classes ELSE {Search})
    /\ SaslInit /\ (part # "login" => login = FirstLogin /\ ownServer)

ManagersNext ==
    \/ part = "roster" /\ RosterNext /\ UNCHANGED <<bookmarksVars, permissionsVars>>
    \/ part = "bookmarks" /\ BookmarksNext /\ UNCHANGED <<rosterVars, permissionsVars>>
    \/ part = "permissions" /\ PermissionsNext /\ UNCHANGED <<rosterVars, bookmarksVars>>

Next ==
    \/ ManagersNext /\ UNCHANGED <<part, twitterVars, saslVars>>
    \/ part = "twitter" /\ TwitterNext /\ UNCHANGED <<part, managersVars, saslVars>>
    \/ part = "login" /\ SaslNext /\ UNCHANGED <<part, managersVars, twitterVars>>

Spec == Init /\ [][Next]_vars
-----------------------------------------------------------------------------
(* Properties, each the sum of what the parts state.                       *)

\* The copies of the roster with its presences, of the bookmarks and of the room's
\* permissions are what the server has, once nothing is under way.
CopiesAgree ==
    /\ TypeOK
    /\ RosterAgrees /\ PresencesAgree
    /\ BookmarksAgree
    /\ ReceivedIsTable /\ SetTakesEffect

\* No copy outlives the session it was made in.
NothingOutlives == RosterForgotten /\ BookmarksForgotten

\* A Twitter request is signed as it is sent, if at all, and its answer reported once.
AnswersKnown == [][SignedAsSent' /\ AnswersReported' /\ AuthenticationObeyed]_twitterVars

\* At a server of this library a login succeeds with the right password and with no other; at
\* any server, a proof that the client is shown is taken from one that knows the password only.
LoginsJust == RightSucceeds /\ OnlyRightSucceeds /\ ServerProven
=============================================================================
