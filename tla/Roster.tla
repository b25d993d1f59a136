-------------------------------- MODULE Roster ---------------------------------
(***************************************************************************)
(* QXmppRosterManager (src/client/QXmppRosterManager.cpp): the copy that   *)
(* the client keeps of the account's roster and of the presences of its    *)
(* contacts, over sessions that come and go, while this program and        *)
(* another client of the account change the roster.  Of an item the name   *)
(* is kept, of the resources of a contact whether one is available.        *)
(***************************************************************************)
EXTENDS StanzaWire, FiniteSets, SequencesExt

CONSTANTS
    Contacts,      \* bare JIDs
    Names          \* names of items

NoItem == "no item"

ASSUME RosterAssumption == IsFiniteSet(Contacts) /\ Names # {} /\ NoItem \notin Names

VARIABLES
    entries,       \* entries: the item of each contact, or NoItem
    presences,     \* the contacts with a presence in presences
    received,      \* isRosterReceived
    account,       \* at the server: the roster of the account
    available,     \* at the server: the contacts that are available
    interested     \* what the server has been asked for: "roster", "presence"

rosterView == <<entries, presences, received>>
rosterServer == <<account, available, interested>>
rosterVars == <<rosterView, rosterServer>>

Rosters == [Contacts -> Names \cup {NoItem}]
NoEntries == [c \in Contacts |-> NoItem]

\* from: "account" if the stanza is from the account's own address or has
\* none, "contact" if somebody else has sent it.
Push(c, item) == [kind |-> "push", from |-> "account", contact |-> c, item |-> item]
Foreign(c, item) == [Push(c, item) EXCEPT !.from = "contact"]
Result(roster) == [kind |-> "result", from |-> "account", roster |-> roster]
Presence(kind, c) == [kind |-> kind, contact |-> c]
Set(c, item) == [kind |-> "set", contact |-> c, item |-> item]
Bare(kind) == [kind |-> kind]

RosterTypeOK ==
    /\ {entries, account} \subseteq Rosters /\ received \in BOOLEAN
    /\ {presences, available} \subseteq SUBSET Contacts
    /\ interested \subseteq {"roster", "presence"}

RosterInit ==
    /\ entries = NoEntries /\ presences = {} /\ received = FALSE
    /\ account \in Rosters /\ available = {} /\ interested = {}

-----------------------------------------------------------------------------
(* The session.                                                            *)

\* _q_connected() asks for the roster; the client sends its presence then.
RosterOpens ==
    /\ Opens(<<Bare("get"), Bare("presence")>>) /\ interested' = {}
    /\ UNCHANGED <<rosterView, account, available>>

\* Mutant: the roster of the last session is kept.
DisconnectedKeeps == presences' = {} /\ received' = FALSE /\ UNCHANGED entries

\* _q_disconnected()
Disconnected == entries' = NoEntries /\ presences' = {} /\ received' = FALSE

RosterCloses ==
    /\ Closes /\ interested' = {}
    /\ IF told' THEN UNCHANGED rosterView ELSE Disconnected
    /\ UNCHANGED <<account, available>>

-----------------------------------------------------------------------------
(* Calls.                                                                  *)

\* addItem() and removeItem(), whatever is known; renameItem() of an entry.
Calls ==
    /\ \E c \in Contacts :
         \/ \E name \in Names : Send(<<Set(c, name)>>)
         \/ Send(<<Set(c, NoItem)>>)
         \/ entries[c] # NoItem /\ \E name \in Names \ {entries[c]} : Send(<<Set(c, name)>>)
    /\ UNCHANGED <<phase, told, fromServer, rosterVars>>

-----------------------------------------------------------------------------
(* The server and the other client.                                        *)

\* What the clients that have asked for the roster are sent of a change.
Pushes(c, item) == IF "roster" \in interested THEN <<Push(c, item)>> ELSE <<>>

ServerGives ==
    /\ Answer({"get"}, <<Result(account)>>)
    /\ interested' = interested \cup {"roster"}
    /\ UNCHANGED <<rosterView, account, available>>

ServerGreets ==
    /\ LET there == SetToSeq(available)
       IN Answer({"presence"}, [i \in DOMAIN there |-> Presence("available", there[i])])
    /\ interested' = interested \cup {"presence"}
    /\ UNCHANGED <<rosterView, account, available>>

\* A set is done, and pushed, or refused.
ServerSets ==
    /\ toServer # <<>>
    /\ \/ LET set == Head(toServer) IN
          /\ Answer({"set"}, Pushes(set.contact, set.item))
          /\ account' = [account EXCEPT ![set.contact] = set.item]
       \/ Answer({"set"}, <<>>) /\ UNCHANGED account
    /\ UNCHANGED <<rosterView, available, interested>>

ServerIgnores ==
    /\ Answer({"iq", "subscribed"}, <<>>)
    /\ UNCHANGED rosterVars

\* subscribe() puts the contact into the roster.
ServerSubscribes ==
    /\ toServer # <<>>
    /\ LET c == Head(toServer).contact
           name == IF account[c] = NoItem THEN CHOOSE n \in Names : TRUE ELSE account[c]
       IN /\ Answer({"subscribe"}, Pushes(c, name))
          /\ account' = [account EXCEPT ![c] = name]
    /\ UNCHANGED <<rosterView, available, interested>>

OtherClientSets ==
    /\ \E c \in Contacts : \E item \in (Names \cup {NoItem}) \ {account[c]} :
         /\ account' = [account EXCEPT ![c] = item]
         /\ IF Pushes(c, item) = <<>> THEN UNCHANGED wireVars ELSE Announce(Pushes(c, item))
    /\ UNCHANGED <<rosterView, available, interested>>

ContactComesOrGoes ==
    /\ \E c \in Contacts :
         LET comes == c \notin available IN
         /\ available' = IF comes THEN available \cup {c} ELSE available \ {c}
         /\ IF "presence" \in interested
            THEN Announce(<<Presence(IF comes THEN "available" ELSE "unavailable", c)>>)
            ELSE UNCHANGED wireVars
    /\ UNCHANGED <<rosterView, account, interested>>

\* A contact asks for a subscription, or sends a roster of its own.
ContactSends ==
    /\ \E c \in Contacts :
         \/ Announce(<<Presence("subscribe", c)>>)
         \/ \E item \in Names \cup {NoItem} : Announce(<<Foreign(c, item)>>)
    /\ UNCHANGED rosterVars

-----------------------------------------------------------------------------
(* handleStanza() and _q_presenceReceived().                               *)

Stanza == Head(fromServer)

\* A push is answered and taken; one that is not the account's is left to the
\* other managers, and at last refused by the stream.
GetPush ==
    /\ Take /\ Stanza.kind = "push"
    /\ Send(<<Bare("iq")>>)
    /\ entries' = IF Stanza.from = "account"
                  THEN [entries EXCEPT ![Stanza.contact] = Stanza.item] ELSE entries
    /\ UNCHANGED <<phase, told, presences, received, rosterServer>>

\* The items of a result are put in; nothing is taken out.
GetResult ==
    /\ Take /\ Stanza.kind = "result"
    /\ entries' = [c \in Contacts |-> IF Stanza.roster[c] = NoItem THEN entries[c]
                                                                  ELSE Stanza.roster[c]]
    /\ received' = TRUE
    /\ UNCHANGED <<phase, told, toServer, presences, rosterServer>>

GetPresence ==
    /\ Take /\ Stanza.kind \in {"available", "unavailable"}
    /\ presences' = IF Stanza.kind = "available" THEN presences \cup {Stanza.contact}
                                                ELSE presences \ {Stanza.contact}
    /\ UNCHANGED <<phase, told, toServer, entries, received, rosterServer>>

\* With autoAcceptSubscriptions the request is granted and returned.
GetSubscribe ==
    /\ Take /\ Stanza.kind = "subscribe"
    /\ \/ Send(<<Bare("subscribed"), Presence("subscribe", Stanza.contact)>>)
       \/ UNCHANGED toServer
    /\ UNCHANGED <<phase, told, rosterVars>>

RosterNext ==
    \/ Tries /\ UNCHANGED rosterVars
    \/ RosterOpens \/ RosterCloses \/ Calls
    \/ ServerGives \/ ServerGreets \/ ServerSets \/ ServerIgnores \/ ServerSubscribes
    \/ OtherClientSets \/ ContactComesOrGoes \/ ContactSends
    \/ GetPush \/ GetResult \/ GetPresence \/ GetSubscribe

-----------------------------------------------------------------------------
(* Properties.                                                             *)

Kinds(queue) == {queue[i].kind : i \in DOMAIN queue}

(* Once the roster is received and no part of it is under way the client   *)
(* has the account's roster, whoever has changed it and however often the  *)
(* session was lost.                                                       *)
RosterAgrees ==
    received /\ phase = "Online" /\ Kinds(fromServer) \cap {"push", "result"} = {} =>
        entries = account

(* The client takes for available exactly the contacts that are.           *)
PresencesAgree ==
    /\ "presence" \in interested /\ Kinds(fromServer) \cap {"available", "unavailable"} = {} =>
         presences = available
    /\ ~told => presences = {}

(* Nothing of an earlier session is left in the next one.                  *)
RosterForgotten == ~told => entries = NoEntries /\ ~received
=============================================================================
