------------------------------ MODULE Connections ------------------------------
(***************************************************************************)
(* The two protocols that a media stream uses over STUN messages: the      *)
(* checks between its ends, and the allocation of a relayed address.  They *)
(* share nothing but the transactions, which Turn has in detail, so that a *)
(* behaviour follows one of them, which `part' names.                      *)
(***************************************************************************)
EXTENDS Ice, Turn

VARIABLE part

vars == <<part, iceVars, turnVars>>

TypeOK == IceTypeOK /\ TurnTypeOK /\ part \in {"ice", "turn"}

\* The part that does not move begins in one state.
Init ==
    /\ part \in {"ice", "turn"}
    /\ IceInit /\ (part = "turn" => behind = {})
    /\ TurnInit /\ (part = "ice" => server.knows /\ \A s \in Lifetimes : server.grants <= s)

IceMoves == part = "ice" /\ IceNext /\ UNCHANGED <<part, turnVars>>
TurnMoves == part = "turn" /\ TurnNext /\ UNCHANGED <<part, iceVars>>

Next == IceMoves \/ TurnMoves

\* The timers of the transactions fire, and what is not lost arrives.
Fairness == WF_vars(part = "turn" /\ (Timers \/ Answers) /\ UNCHANGED <<part, iceVars>>)

Spec == Init /\ [][Next]_vars /\ Fairness
-----------------------------------------------------------------------------
(* Properties, each the sum of what the parts state.                       *)

\* What is believed is so: a selected pair carries media and was checked both ways, and a
\* channel of the relay means the same peer at both ends.  And nobody waits in vain: what
\* the client of the relay waits for is under way, and its allocation will be refreshed.
BeliefsHold == ActiveReaches /\ CheckedBothWays /\ Attributed /\ NotStuck /\ KeptAlive

\* What is attempted succeeds: a few rounds of checks find a connection, the relay serves
\* the channels its client writes to, and what was allocated is released.
AttemptsSucceed == TypeOK /\ ChecksSuffice /\ ChannelsServed /\ Released
===============================================================================
