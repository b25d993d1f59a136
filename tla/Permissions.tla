------------------------------ MODULE Permissions ------------------------------
(***************************************************************************)
(* The permissions of a chat room (src/client/QXmppMucManager.cpp): the    *)
(* program asks for the lists of the affiliations, gets them together when *)
(* the last has come, and sets a new table, of which the differences to    *)
(* what was received are sent.                                             *)
(***************************************************************************)
EXTENDS StanzaWire, FiniteSets, SequencesExt

CONSTANTS
    Members,       \* the people the room knows
    Affiliations,  \* the affiliations that are asked for
    MaxRounds      \* bound on the calls of requestPermissions()

NoAffiliation == "none"
Unspecified == "unspecified"

ASSUME PermissionsAssumption ==
    /\ IsFiniteSet(Affiliations) /\ {NoAffiliation, Unspecified} \cap Affiliations = {}
    /\ MaxRounds \in Nat

VARIABLES
    permissions,   \* permissions: affiliation of each member, or Unspecified
    queue,         \* permissionsQueue: <<round, affiliation>> asked for
    round,         \* how often the permissions were asked for
    table,         \* at the server: the affiliations
    stage,         \* history: "asked" and then "received" in this session, with
                   \* no change of the table, "none" otherwise
    wanted         \* history: the table set last, upon what was received, or
                   \* NoTable, also if the server has refused it or others change it

permissionsVars == <<permissions, queue, round, table, stage, wanted>>

Tables == [Members -> Affiliations \cup {NoAffiliation}]
Nothing == [m \in Members |-> Unspecified]
NoTable == <<>>

Ask(n, affiliation) == [kind |-> "ask", id |-> <<n, affiliation>>]
List(id, who) == [kind |-> "list", id |-> id, who |-> who]
Change(items) == [kind |-> "change", items |-> items]

PermissionsTypeOK ==
    /\ permissions \in [Members -> Affiliations \cup {NoAffiliation, Unspecified}]
    /\ queue \subseteq (1 .. MaxRounds) \X Affiliations /\ round \in 0 .. MaxRounds
    /\ table \in Tables /\ stage \in {"none", "asked", "received"} /\ wanted \in Tables \cup {NoTable}

PermissionsInit ==
    /\ permissions = Nothing /\ queue = {} /\ round = 0
    /\ table \in Tables /\ stage = "none" /\ wanted = NoTable

PermissionsOpens ==
    /\ Opens(<<>>) /\ stage' = "none" /\ wanted' = NoTable
    /\ UNCHANGED <<permissions, queue, round, table>>

\* The room's slot leaves the permissions alone.
PermissionsCloses ==
    /\ Closes /\ stage' = "none" /\ wanted' = NoTable
    /\ UNCHANGED <<permissions, queue, round, table>>

\* requestPermissions(): without a session it stops at the first packet.
RequestPermissions ==
    /\ permissions' = Nothing
    /\ \/ /\ phase = "Online" /\ round < MaxRounds /\ round' = round + 1
          /\ LET order == SetToSeq(Affiliations)
             IN Send([i \in DOMAIN order |-> Ask(round', order[i])])
          /\ queue' = {<<round', a>> : a \in Affiliations} /\ stage' = "asked"
       \/ /\ phase # "Online" /\ queue' = {} /\ stage' = "none"
          /\ UNCHANGED <<toServer, round>>
    /\ wanted' = NoTable
    /\ UNCHANGED <<phase, told, fromServer, table>>

\* The items that setPermissions() sends for a new table, which leaves out
\* those without affiliation: the changed ones, and the ones left out.
Changes(new) ==
    {<<m, new[m]>> : m \in {x \in Members : new[x] # NoAffiliation /\ permissions[x] # new[x]}}
    \cup {<<m, NoAffiliation>> : m \in {x \in Members : new[x] = NoAffiliation
                                                        /\ permissions[x] # Unspecified}}

\* setPermissions(): the local table is used up, sent or not.
SetPermissions ==
    /\ \E new \in Tables :
         /\ permissions' = Nothing
         /\ Send(IF Changes(new) = {} THEN <<>> ELSE <<Change(Changes(new))>>)
         /\ wanted' = IF stage = "received" THEN new ELSE NoTable
    /\ stage' = "none"
    /\ UNCHANGED <<phase, told, fromServer, queue, round, table>>

-----------------------------------------------------------------------------
(* The room's server.                                                      *)

ServerLists ==
    /\ toServer # <<>>
    /\ Answer({"ask"}, <<List(Head(toServer).id,
                              {m \in Members : table[m] = Head(toServer).id[2]})>>)
    /\ UNCHANGED permissionsVars

\* The change is made, or refused as a whole.
ServerChanges ==
    /\ toServer # <<>> /\ Answer({"change"}, <<>>)
    /\ \/ /\ table' = [m \in Members |->
                         IF \E a \in Affiliations \cup {NoAffiliation} : <<m, a>> \in Head(toServer).items
                         THEN CHOOSE a \in Affiliations \cup {NoAffiliation} :
                                <<m, a>> \in Head(toServer).items
                         ELSE table[m]]
          /\ UNCHANGED wanted
       \/ wanted' = NoTable /\ UNCHANGED table
    /\ UNCHANGED <<permissions, queue, round, stage>>

\* Another administrator changes the room.
OthersChange ==
    /\ phase = "Online"
    /\ \E m \in Members : \E a \in (Affiliations \cup {NoAffiliation}) \ {table[m]} :
         table' = [table EXCEPT ![m] = a]
    /\ stage' = "none" /\ wanted' = NoTable
    /\ UNCHANGED <<wireVars, permissions, queue, round>>

-----------------------------------------------------------------------------
(* QXmppMucManager::handleStanza().                                        *)

\* A list that was asked for in the last round is put in; the last one
\* completes the table: permissionsReceived().
GetList ==
    /\ Take /\ Head(fromServer).kind = "list"
    /\ LET id == Head(fromServer).id IN
       IF id \in queue
       THEN /\ queue' = queue \ {id}
            /\ permissions' = [m \in Members |->
                   IF m \in Head(fromServer).who /\ permissions[m] = Unspecified
                   THEN id[2] ELSE permissions[m]]
            /\ stage' = IF stage = "asked" /\ queue' = {} THEN "received" ELSE stage
       ELSE UNCHANGED <<queue, permissions, stage>>
    /\ UNCHANGED <<phase, told, toServer, round, table, wanted>>

PermissionsNext ==
    \/ Tries /\ UNCHANGED permissionsVars
    \/ PermissionsOpens \/ PermissionsCloses
    \/ RequestPermissions \/ SetPermissions
    \/ ServerLists \/ ServerChanges \/ OthersChange \/ GetList

-----------------------------------------------------------------------------
(* Properties.                                                             *)

(* The table that permissionsReceived() gives is the room's, though it is  *)
(* put together from several answers, of which those to an earlier request *)
(* may still be under way.                                                 *)
ReceivedIsTable ==
    stage = "received" => \A m \in Members :
        permissions[m] = IF table[m] = NoAffiliation THEN Unspecified ELSE table[m]

(* A table set after a table was received becomes the room's, those left   *)
(* out of it included, if the server accepts.  (A second one set without   *)
(* receiving again does not remove those left out: the local table is used *)
(* up.)                                                                    *)
SetTakesEffect == wanted # NoTable /\ Quiet /\ phase = "Online" => table = wanted
=============================================================================
