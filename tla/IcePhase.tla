-------------------------------- MODULE IcePhase --------------------------------
(***************************************************************************)
(* What the owner of a QXmppIceConnection (src/base/QXmppStun.cpp) sees of *)
(* it: the checks start once, they end in connected() or, with the sockets *)
(* closed, in disconnected() or close(); a connection that is started      *)
(* again after that never connects.                                        *)
(***************************************************************************)
VARIABLE phase

TypeOK == phase \in {"new", "checking", "connected", "closed", "hopeless"}

Init == phase = "new"

Start == phase = "new" /\ phase' = "checking"
Connect == phase = "checking" /\ phase' = "connected"
Close == phase' = "closed"
Restart == phase = "closed" /\ phase' = "hopeless"

Next == Start \/ Connect \/ Close \/ Restart

Spec == Init /\ [][Next]_phase
===============================================================================
