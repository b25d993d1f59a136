------------------------------ MODULE StanzaWire -------------------------------
(***************************************************************************)
(* The session as a manager uses it: stanzas in order each way while it is *)
(* up, and none that outlives it.                                          *)
(***************************************************************************)
EXTENDS XmppSession, Naturals, Sequences

CONSTANT MaxWire   \* bound on the stanzas under way in one direction

\* There is room for the two requests a session begins with.
ASSUME WireAssumption == MaxWire \in Nat \ {0, 1}

VARIABLES toServer, fromServer

wire == <<toServer, fromServer>>
wireVars == <<phase, told, wire>>

Quiet == toServer = <<>> /\ fromServer = <<>>

\* sendPacket(): false, and nothing sent, without a session.
Send(stanzas) ==
    /\ Len(toServer) + Len(stanzas) <= MaxWire
    /\ toServer' = IF phase = "Online" THEN toServer \o stanzas ELSE toServer

Take == phase = "Online" /\ fromServer # <<>> /\ fromServer' = Tail(fromServer)

\* The server takes a stanza and sends others.
Answer(kinds, stanzas) ==
    /\ phase = "Online" /\ toServer # <<>> /\ Head(toServer).kind \in kinds
    /\ Len(fromServer) + Len(stanzas) <= MaxWire
    /\ toServer' = Tail(toServer) /\ fromServer' = fromServer \o stanzas
    /\ UNCHANGED <<phase, told>>

\* The server sends a stanza unasked.
Announce(stanzas) ==
    /\ phase = "Online" /\ Len(fromServer) + Len(stanzas) <= MaxWire
    /\ fromServer' = fromServer \o stanzas
    /\ UNCHANGED <<phase, told, toServer>>

WireInit == SessionInit /\ toServer = <<>> /\ fromServer = <<>>

\* connected(), in which a manager sends its first requests.
Opens(stanzas) == Establish /\ toServer' = stanzas /\ fromServer' = <<>>

\* The end of the session, told at once or later; stanzas under way are lost.
Closes == (Drop \/ Notify) /\ toServer' = <<>> /\ fromServer' = <<>>

\* An attempt and its failure: no manager is told.
Tries == (Attempt \/ GiveUp) /\ UNCHANGED wire
=============================================================================
