----------------------------------- MODULE Ice -----------------------------------
(***************************************************************************)
(* The connectivity checks of QXmppIceComponent and QXmppIceConnection     *)
(* (src/base/QXmppStun.cpp) between the two ends of a media stream: "a",   *)
(* which has called and controls, and "b".  Each end has one component     *)
(* with one socket, possibly behind an address translator, which lets      *)
(* datagrams in only once one went out.  Datagrams are lost or overtake    *)
(* each other; the candidates travel with the Jingle requests, in order.   *)
(***************************************************************************)
EXTENDS Naturals, Sequences

CONSTANTS
    Enough,         \* the rounds of checks that find a connection, far below 60
    MaxLoss,        \* bound on the datagrams that are lost
    Translated      \* the ends that may be behind a translator

Ends == {"a", "b"}

\* Three rounds are too few: after them only one of the ends may have been answered.
ASSUME IceAssumption ==
    Enough \in Nat /\ Enough >= 4 /\ MaxLoss \in Nat /\ Translated \subseteq Ends

Other(e) == IF e = "a" THEN "b" ELSE "a"
Controlling(e) == e = "a"

VARIABLES
    behind,         \* the ends behind a translator
    hole,           \* the ends whose translator lets datagrams in
    agent,          \* the connection of each end
    signals,        \* the candidates under way to each end
    datagrams,      \* the datagrams under way
    lostDatagrams,  \* the number of datagrams lost
    accepted,       \* has "b" sent its candidates?
    latest,         \* the end whose timer fired last: both have the same period
    clear           \* the rounds since the last loss with nothing else under way

iceVars == <<behind, hole, agent, signals, datagrams, lostDatagrams, accepted, latest, clear>>

\* The address of an end, as it knows it and as the other end sees it.
Host(e) == <<e, "host">>
Mapped(e) == <<e, "mapped">>
Seen(e) == IF e \in behind THEN Mapped(e) ELSE Host(e)
Addresses == Ends \X {"host", "mapped"}
None == <<"none", "none">>

\* candidatePriority(): with one socket the type decides.
Preference == [host |-> 126, peerReflexive |-> 110, serverReflexive |-> 100]

\* A request names the pair it checks; its answer names the same pair, which is
\* how the transaction id is matched.
Datagrams == [from : Ends, type : {"request", "response"}, pair : Addresses]

IceTypeOK ==
    /\ behind \subseteq Translated /\ hole \subseteq Ends
    /\ \A e \in Ends :
         /\ DOMAIN agent[e].pairs \subseteq {Host(Other(e)), Mapped(Other(e))}
         /\ \A x \in DOMAIN agent[e].pairs : agent[e].pairs[x] \in
                [type : DOMAIN Preference, checked : SUBSET {"read", "write"}]
         /\ agent[e].active \in DOMAIN agent[e].pairs \cup {None}
         /\ {agent[e].told, agent[e].checking, agent[e].connecting, agent[e].closed,
             agent[e].reflexive} \subseteq BOOLEAN
    /\ signals \in [Ends -> Seq(SUBSET {"host", "serverReflexive"})]
    /\ datagrams \subseteq Datagrams
    /\ lostDatagrams \in 0 .. MaxLoss
    /\ accepted \in BOOLEAN
    /\ latest \in Ends /\ clear \in 0 .. Enough

\* "b" has been invited: the candidates of "a" are on their way.
IceInit ==
    /\ behind \in SUBSET Translated /\ hole = {}
    /\ agent = [e \in Ends |->
                  [told |-> FALSE, pairs |-> [x \in {} |-> 0], active |-> None,
                   checking |-> FALSE, connecting |-> FALSE, closed |-> FALSE,
                   reflexive |-> FALSE]]
    /\ signals = [e \in Ends |-> IF e = "b" THEN <<{"host"}>> ELSE <<>>]
    /\ datagrams = {} /\ lostDatagrams = 0 /\ accepted = FALSE
    /\ latest = "a" /\ clear = 0

-----------------------------------------------------------------------------
(* Sending.                                                                *)

\* Does the network carry a datagram of e to the address x?
Carried(e, x) == x = Seen(Other(e)) /\ (Other(e) \in behind => Other(e) \in hole)

Message(e, type, x) == [from |-> e, type |-> type, pair |-> x]

\* The end e, which has become ag, asks on the pairs with the addresses asked,
\* and answers the requests in answered; rest is under way already.
Send(e, ag, asked, answered, rest) ==
    /\ agent' = [agent EXCEPT ![e] = ag]
    /\ hole' = IF asked # {} \/ answered # {} THEN hole \cup {e} ELSE hole
    /\ datagrams' = rest \cup {Message(e, "request", x) : x \in {y \in asked : Carried(e, y)}}
                   \cup {Message(e, "response", d.pair) : d \in answered}

\* checkCandidates(): the pairs on which a request goes out.
Candidates(ag) == IF ag.told /\ ~ag.closed THEN DOMAIN ag.pairs ELSE {}

-----------------------------------------------------------------------------
(* Candidates.                                                             *)

\* addRemoteCandidate(), signalled or discovered
WithPair(ag, x, type) ==
    IF x \in DOMAIN ag.pairs THEN ag
    ELSE [ag EXCEPT !.pairs =
            [y \in DOMAIN ag.pairs \cup {x} |->
                IF y = x THEN [type |-> type, checked |-> {}] ELSE ag.pairs[y]]]

\* QXmppCall::accept(): the candidates of "b" are sent.
Local(e) == IF agent[e].reflexive THEN {"host", "serverReflexive"} ELSE {"host"}

Accept ==
    /\ ~accepted /\ agent["b"].told
    /\ accepted' = TRUE
    /\ signals' = [signals EXCEPT !["a"] = Append(@, Local("b"))]
    /\ UNCHANGED <<behind, hole, agent, datagrams, lostDatagrams, latest, clear>>

\* handleDatagram() of an answer of the STUN server: a new local candidate.
StunAnswers(e) ==
    /\ e \in behind /\ ~agent[e].reflexive /\ ~agent[e].closed
    /\ agent' = [agent EXCEPT ![e].reflexive = TRUE]
    /\ signals' = [signals EXCEPT ![Other(e)] = Append(@, {"host", "serverReflexive"})]
    /\ UNCHANGED <<behind, hole, datagrams, lostDatagrams, accepted, latest, clear>>

\* handleTransport() of the call: the candidates, then connectToHost().
ConnectToHost(e, ag) ==
    IF ag.connecting \/ ag.active # None
    THEN Send(e, ag, {}, {}, datagrams)
    ELSE Send(e, [ag EXCEPT !.checking = TRUE, !.connecting = TRUE],
              Candidates(ag), {}, datagrams)

Signalled(e) ==
    /\ signals[e] # <<>>
    /\ LET types == Head(signals[e])
           one == WithPair([agent[e] EXCEPT !.told = TRUE], Host(Other(e)), "host")
           both == WithPair(one, Mapped(Other(e)), "serverReflexive")
       IN  ConnectToHost(e, IF "serverReflexive" \in types THEN both ELSE one)
    /\ signals' = [signals EXCEPT ![e] = Tail(@)]
    /\ latest' = IF agent'[e].checking /\ ~agent[e].checking THEN e ELSE latest
    /\ UNCHANGED <<behind, lostDatagrams, accepted, clear>>

-----------------------------------------------------------------------------
(* The checks.                                                             *)

\* Can the two ends find each other, with what they have been told?
Ready ==
    /\ \A e \in Ends : agent[e].told /\ ~agent[e].closed
    /\ behind = Ends => \A e \in Ends : Mapped(Other(e)) \in DOMAIN agent[e].pairs

\* The timer of the component: checkCandidates()
Check(e) ==
    /\ agent[e].checking
    /\ agent[Other(e)].checking => latest # e
    /\ Send(e, agent[e], Candidates(agent[e]), {}, datagrams)
    /\ latest' = e
    /\ clear' = IF Ready /\ datagrams = {} /\ clear < Enough THEN clear + 1 ELSE clear
    /\ UNCHANGED <<behind, signals, lostDatagrams, accepted>>

\* Mutant: a pair that is checked in one direction is selected.
CompletedOneWay(ag, x) ==
    IF ag.pairs[x].checked = {} THEN ag
    ELSE [ag EXCEPT !.checking = FALSE, !.connecting = FALSE,
                    !.active = IF @ = None THEN x ELSE @]

\* The end of handleDatagram(): a pair that is checked both ways is selected,
\* unless a better one is.
Completed(ag, x) ==
    LET better == \/ ag.active = None
                  \/ Preference[ag.pairs[x].type] > Preference[ag.pairs[ag.active].type]
    IN  IF ag.pairs[x].checked # {"read", "write"} THEN ag
        ELSE [ag EXCEPT !.checking = FALSE,
                        !.active = IF better THEN x ELSE @,
                        !.connecting = @ /\ ag.active # None]

\* Mutant: the sockets are left open.
GetRequestLate(e) ==
    \E d \in datagrams :
      /\ d.type = "request" /\ d.from = Other(e)
      /\ LET x == Seen(Other(e))
             read == [WithPair(agent[e], x, "peerReflexive")
                        EXCEPT !.pairs[x].checked = @ \cup {"read"}]
         IN  Send(e, Completed(read, x), {}, {d}, datagrams \ {d})
      /\ UNCHANGED <<behind, signals, lostDatagrams, accepted, latest, clear>>

\* handleDatagram(), a binding request: of the two ends one always controls, and
\* its requests nominate the pair, so that each request makes it readable.
GetRequest(e) ==
    \E d \in datagrams :
      /\ d.type = "request" /\ d.from = Other(e) /\ ~agent[e].closed
      /\ LET x == Seen(Other(e))
             known == WithPair(agent[e], x, "peerReflexive")
             read == [known EXCEPT !.pairs[x].checked = @ \cup {"read"}]
             trigger == ~Controlling(e) /\ agent[e].active = None /\ agent[e].told
         IN  Send(e, Completed(read, x), IF trigger THEN {x} ELSE {}, {d}, datagrams \ {d})
      /\ UNCHANGED <<behind, signals, lostDatagrams, accepted, latest, clear>>

\* handleDatagram(), a binding response: without password it cannot be read.
GetResponse(e) ==
    \E d \in datagrams :
      /\ d.type = "response" /\ d.from = Other(e) /\ ~agent[e].closed
      /\ LET ag == [agent[e] EXCEPT !.pairs[d.pair].checked = @ \cup {"write"}]
         IN  Send(e, Completed(ag, d.pair), {}, {}, datagrams \ {d})
      /\ UNCHANGED <<behind, signals, lostDatagrams, accepted, latest, clear>>

-----------------------------------------------------------------------------
(* The end of a connection, and the network.                               *)

Closed(ag) == [ag EXCEPT !.active = None, !.checking = FALSE, !.connecting = FALSE,
                         !.closed = TRUE]

\* close(): what arrives at the sockets afterwards is not read.
Close(e) ==
    /\ ~agent[e].closed \/ agent[e].connecting
    /\ Send(e, Closed(agent[e]), {}, {}, {d \in datagrams : d.from = e})
    /\ UNCHANGED <<behind, signals, lostDatagrams, accepted, latest, clear>>

\* slotTimeout(): 30 s after connectToHost()
Timeout(e) ==
    /\ agent[e].connecting
    /\ Send(e, Closed(agent[e]), {}, {}, {d \in datagrams : d.from = e})
    /\ UNCHANGED <<behind, signals, lostDatagrams, accepted, latest, clear>>

LoseDatagram ==
    /\ lostDatagrams < MaxLoss
    /\ \E d \in datagrams : datagrams' = datagrams \ {d}
    /\ lostDatagrams' = lostDatagrams + 1 /\ clear' = 0
    /\ UNCHANGED <<behind, hole, agent, signals, accepted, latest>>

IceNext ==
    \/ Accept \/ LoseDatagram
    \/ \E e \in Ends :
         \/ StunAnswers(e) \/ Signalled(e) \/ Check(e)
         \/ GetRequest(e) \/ GetResponse(e) \/ Close(e) \/ Timeout(e)

-----------------------------------------------------------------------------
(* Properties.                                                             *)

\* A selected pair carries media: datagrams sent on it reach the other end.
ActiveReaches ==
    \A e \in Ends : agent[e].active # None => Carried(e, agent[e].active)

\* A selected pair was checked both ways: the other end has read a request of
\* this end, though it may have selected another pair, or none yet.
CheckedBothWays ==
    \A e \in Ends : agent[e].active # None =>
        /\ Seen(e) \in DOMAIN agent[Other(e)].pairs
        /\ "read" \in agent[Other(e)].pairs[Seen(e)].checked

\* The checks find a connection if there is one: once both ends could find each
\* other, Enough rounds without a loss connect both.  A half-open connection
\* therefore never lasts until the timeout closes it.
ChecksSuffice ==
    Ready /\ clear = Enough /\ datagrams = {} => \A e \in Ends : agent[e].active # None

Phase(e) ==
    LET ag == agent[e]
    IN  IF ag.active # None THEN "connected"
        ELSE IF ag.closed THEN IF ag.connecting THEN "hopeless" ELSE "closed"
        ELSE IF ag.connecting THEN "checking" ELSE "new"

PhaseOfA == INSTANCE IcePhase WITH phase <- Phase("a")
PhaseOfB == INSTANCE IcePhase WITH phase <- Phase("b")

\* Each end is to its owner the connection the call relies on (module Call): it
\* connects only while it checks, and never again once it was closed.
ImplementsPhase == PhaseOfA!Spec /\ PhaseOfB!Spec
===============================================================================
