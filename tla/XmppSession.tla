----------------------------- MODULE XmppSession -----------------------------
(***************************************************************************)
(* What QXmppClient promises to the objects that listen to it: the         *)
(* managers, the chat room and the chat widget.  A session goes through    *)
(* phases; connected() opens it, and whoever has been told connected() is  *)
(* told disconnected() before the next attempt to connect.                 *)
(***************************************************************************)

VARIABLES
    phase,     \* "Offline", "Connecting" or "Online"
    told       \* listeners have seen connected() and not disconnected() since

sessionVars == <<phase, told>>

SessionTypeOK == phase \in {"Offline", "Connecting", "Online"} /\ told \in BOOLEAN

SessionInit == phase = "Offline" /\ told = FALSE

\* A connection attempt, by the user or by the reconnection timer.
Attempt == /\ phase = "Offline" /\ ~told
           /\ phase' = "Connecting" /\ UNCHANGED told

\* The attempt fails, or the connection is closed before the session is up.
GiveUp == /\ phase = "Connecting"
          /\ phase' = "Offline" /\ UNCHANGED told

\* connected()
Establish == /\ phase = "Connecting" /\ ~told
             /\ phase' = "Online" /\ told' = TRUE

\* The session ends.  disconnected() comes with it or, when data is still to
\* be written, later.
Drop == /\ phase = "Online"
        /\ phase' = "Offline"
        /\ told' \in BOOLEAN

\* disconnected(), which also ends an attempt that connected() did not end.
Notify == /\ phase = "Offline"
          /\ told' = FALSE /\ UNCHANGED phase

SessionNext == Attempt \/ GiveUp \/ Establish \/ Drop \/ Notify

SessionSpec == SessionInit /\ [][SessionNext]_sessionVars
==============================================================================
