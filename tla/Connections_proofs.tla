-------------------------- MODULE Connections_proofs --------------------------
(***************************************************************************)
(* Theorems about the checks between two ends, behind any translators, and *)
(* about the client of a relay, for any bounds.                            *)
(***************************************************************************)
EXTENDS Connections, FiniteSetTheorems, FunctionTheorems, SequenceTheorems, TLAPS

PairSet == [type : DOMAIN Preference, checked : SUBSET {"read", "write"}]
PairMaps == UNION {[known -> PairSet] : known \in SUBSET Addresses}
Agents == [told : BOOLEAN, pairs : PairMaps, active : Addresses \cup {None}, checking : BOOLEAN,
           connecting : BOOLEAN, closed : BOOLEAN, reflexive : BOOLEAN]

\* The end e may have sent a request on the pair with x, which reaches the other end.
Sent(e, x) == agent[e].told /\ x \in DOMAIN agent[e].pairs /\ Carried(e, x)

\* The end e has read a request of the other one.
HasRead(e) ==
    /\ Seen(Other(e)) \in DOMAIN agent[e].pairs
    /\ "read" \in agent[e].pairs[Seen(Other(e))].checked

\* The selected pair was checked both ways.
AgentOk(ag) ==
    /\ ag \in Agents
    /\ ag.active # None => /\ ag.active \in DOMAIN ag.pairs
                           /\ ag.pairs[ag.active].checked = {"read", "write"}

\* Who was told the candidates of the other end checks, is connected or has given up: so
\* an end that finds a pair was checking.
AgentInv(ag) == AgentOk(ag) /\ (ag.told => ag.connecting \/ ag.active # None \/ ag.closed)

IceInv ==
    /\ DOMAIN agent = Ends /\ behind \subseteq Ends
    /\ \A e \in Ends : AgentInv(agent[e])
    /\ \A e \in Ends : \A x \in DOMAIN agent[e].pairs :
         "write" \in agent[e].pairs[x].checked => Sent(e, x) /\ HasRead(Other(e))
    /\ datagrams \subseteq Datagrams
    /\ \A d \in datagrams :
         IF d.type = "request" THEN Sent(d.from, d.pair)
         ELSE Sent(Other(d.from), d.pair) /\ HasRead(d.from)

\* But for its pairs, an end is as it was.
SameBut(ag, next) ==
    /\ next.told = ag.told /\ next.active = ag.active /\ next.checking = ag.checking
    /\ next.connecting = ag.connecting /\ next.closed = ag.closed /\ next.reflexive = ag.reflexive

PhaseOf(ag) ==
    IF ag.active # None THEN "connected"
    ELSE IF ag.closed THEN IF ag.connecting THEN "hopeless" ELSE "closed"
    ELSE IF ag.connecting THEN "checking" ELSE "new"

\* A step of IcePhase, or none.
Moves(p, q) ==
    q \in {p, "closed"} \/ <<p, q>> \in {<<"new", "checking">>, <<"checking", "connected">>, <<"closed", "hopeless">>}

-----------------------------------------------------------------------------
(* Pairs.                                                                  *)

LEMMA Ends2 ==
    ASSUME NEW e \in Ends
    PROVE  /\ Other(e) \in Ends /\ Other(Other(e)) = e /\ Other(e) # e
           /\ \A f \in Ends : f = e \/ f = Other(e)
           /\ Host(e) \in Addresses /\ Mapped(e) \in Addresses /\ Seen(e) \in Addresses
           /\ None \notin Addresses
    BY DEF Ends, Other, Host, Mapped, Seen, Addresses, None

LEMMA PairsType ==
    ASSUME NEW pairs \in PairMaps
    PROVE  /\ DOMAIN pairs \subseteq Addresses /\ pairs \in [DOMAIN pairs -> PairSet]
           /\ \A x \in DOMAIN pairs : /\ pairs[x] \in PairSet
                                      /\ pairs[x].type \in DOMAIN Preference
                                      /\ pairs[x].checked \subseteq {"read", "write"}
    BY DEF PairMaps, PairSet

\* A pair is added, and none that was known is changed.
LEMMA WithPairInv ==
    ASSUME NEW ag, AgentOk(ag), NEW x \in Addresses, NEW type \in DOMAIN Preference,
           NEW next, next = WithPair(ag, x, type)
    PROVE  /\ AgentOk(next) /\ SameBut(ag, next)
           /\ DOMAIN next.pairs = DOMAIN ag.pairs \cup {x}
           /\ \A y \in DOMAIN ag.pairs : next.pairs[y] = ag.pairs[y]
           /\ x \notin DOMAIN ag.pairs => next.pairs[x].checked = {}
<1> DEFINE new == [y \in DOMAIN ag.pairs \cup {x} |->
                     IF y = x THEN [type |-> type, checked |-> {}] ELSE ag.pairs[y]]
<1>1. ag \in Agents /\ ag.pairs \in PairMaps
    BY DEF AgentOk, Agents
<1>2. CASE x \in DOMAIN ag.pairs
  <2>1. next = ag /\ DOMAIN ag.pairs \cup {x} = DOMAIN ag.pairs
      BY <1>2 DEF WithPair
  <2> QED  BY <1>2, <2>1 DEF SameBut
<1>3. CASE x \notin DOMAIN ag.pairs
  <2>1. next = [ag EXCEPT !.pairs = new]
      BY <1>3 DEF WithPair
  <2>2. new \in [DOMAIN ag.pairs \cup {x} -> PairSet] /\ DOMAIN ag.pairs \cup {x} \subseteq Addresses
      BY <1>1, <1>3, PairsType DEF PairSet
  <2>3. new \in PairMaps
      BY <2>2 DEF PairMaps
  <2>4. /\ DOMAIN new = DOMAIN ag.pairs \cup {x} /\ new[x].checked = {}
        /\ \A y \in DOMAIN ag.pairs : new[y] = ag.pairs[y]
      BY <1>3
  <2> HIDE DEF new
  <2>5. /\ next \in Agents /\ next.pairs = new /\ SameBut(ag, next)
      BY <1>1, <2>1, <2>3 DEF Agents, SameBut
  <2>6. AgentOk(next)
      BY <2>4, <2>5 DEF AgentOk, SameBut
  <2> QED  BY <1>3, <2>4, <2>5, <2>6
<1> QED  BY <1>2, <1>3

\* A pair is found to work in one direction.
LEMMA CheckedInv ==
    ASSUME NEW ag, AgentInv(ag), NEW x \in DOMAIN ag.pairs, NEW way \in {"read", "write"},
           NEW next, next = [ag EXCEPT !.pairs[x].checked = @ \cup {way}]
    PROVE  /\ AgentInv(next) /\ SameBut(ag, next)
           /\ DOMAIN next.pairs = DOMAIN ag.pairs
           /\ next.pairs[x].checked = ag.pairs[x].checked \cup {way}
           /\ \A y \in DOMAIN ag.pairs \ {x} : next.pairs[y] = ag.pairs[y]
<1> DEFINE new == [ag.pairs EXCEPT ![x] = [ag.pairs[x] EXCEPT !.checked = ag.pairs[x].checked \cup {way}]]
<1>1. ag \in Agents /\ ag.pairs \in PairMaps
    BY DEF AgentOk, AgentInv, Agents
<1>2. next = [ag EXCEPT !.pairs = new]
    BY <1>1 DEF Agents
<1>3. /\ new \in [DOMAIN ag.pairs -> PairSet] /\ DOMAIN ag.pairs \subseteq Addresses
      /\ new[x].checked = ag.pairs[x].checked \cup {way}
      /\ \A y \in DOMAIN ag.pairs \ {x} : new[y] = ag.pairs[y]
  <2>1. [ag.pairs[x] EXCEPT !.checked = ag.pairs[x].checked \cup {way}] \in PairSet
      BY <1>1, PairsType DEF PairSet
  <2>2. ag.pairs \in [DOMAIN ag.pairs -> PairSet] /\ DOMAIN ag.pairs \subseteq Addresses
      BY <1>1, PairsType
  <2>3. [ag.pairs[x] EXCEPT !.checked = ag.pairs[x].checked \cup {way}].checked = ag.pairs[x].checked \cup {way}
      BY <2>2 DEF PairSet
  <2> QED  BY <2>1, <2>2, <2>3
<1>4. new \in PairMaps /\ DOMAIN new = DOMAIN ag.pairs
    BY <1>3 DEF PairMaps
<1> HIDE DEF new
<1>5. next \in Agents /\ next.pairs = new /\ SameBut(ag, next)
    BY <1>1, <1>2, <1>4 DEF Agents, SameBut
<1>6. AgentInv(next)
  <2>1. ASSUME ag.active # None PROVE new[ag.active].checked = {"read", "write"}
      BY <1>3, <2>1 DEF AgentOk, AgentInv
  <2> QED  BY <1>4, <1>5, <2>1 DEF AgentOk, AgentInv, SameBut
<1> QED  BY <1>3, <1>4, <1>5, <1>6

\* The end of a check: a pair is selected by an end that was checking, or that had one.
LEMMA CompletedInv ==
    ASSUME NEW ag, AgentInv(ag), NEW x \in DOMAIN ag.pairs, ~ag.closed,
           ag.pairs[x].checked = {"read", "write"} => ag.told,
           NEW next, next = Completed(ag, x)
    PROVE  /\ AgentInv(next) /\ next.pairs = ag.pairs /\ next.told = ag.told
           /\ Moves(PhaseOf(ag), PhaseOf(next))
<1>1. ag \in Agents /\ ag.pairs \in PairMaps /\ x \in Addresses /\ x # None
  <2>1. ag \in Agents /\ ag.pairs \in PairMaps
      BY DEF AgentOk, AgentInv, Agents
  <2>2. x \in Addresses
      BY <2>1, PairsType
  <2> QED  BY <2>1, <2>2 DEF Addresses, Ends, None
<1>2. CASE ag.pairs[x].checked # {"read", "write"}
  <2>1. next = ag
      BY <1>2 DEF Completed
  <2> QED  BY <2>1 DEF Moves
<1>3. CASE ag.pairs[x].checked = {"read", "write"}
  <2>1. PICK active \in {x, ag.active}, connecting \in BOOLEAN :
          /\ active # None
          /\ next = [ag EXCEPT !.checking = FALSE, !.active = active, !.connecting = connecting]
    <3>1. (ag.connecting /\ ag.active # None) \in BOOLEAN
        OBVIOUS
    <3> QED  BY <1>1, <1>3, <3>1 DEF Completed
  <2>2. /\ next \in Agents /\ next.pairs = ag.pairs /\ next.told = ag.told /\ next.active = active
    <3> DEFINE one == [ag EXCEPT !.checking = FALSE]
               two == [one EXCEPT !.active = active]
    <3>1. one \in Agents /\ one.pairs = ag.pairs /\ one.told = ag.told
        BY <1>1 DEF Agents
    <3> HIDE DEF one
    <3>2. two \in Agents /\ two.pairs = ag.pairs /\ two.told = ag.told /\ two.active = active
        BY <1>1, <2>1, <3>1 DEF Agents
    <3>3. next = [two EXCEPT !.connecting = connecting]
        BY <2>1 DEF one
    <3> HIDE DEF two
    <3> QED  BY <2>1, <3>2, <3>3 DEF Agents
  <2>3. AgentInv(next)
      BY <1>3, <2>1, <2>2 DEF AgentOk, AgentInv
  <2>4. PhaseOf(next) = "connected" /\ PhaseOf(ag) \in {"connected", "checking"}
      BY <1>3, <2>1, <2>2 DEF PhaseOf, AgentInv
  <2> QED  BY <2>2, <2>3, <2>4 DEF Moves
<1> QED  BY <1>2, <1>3

-----------------------------------------------------------------------------
(* Steps.                                                                  *)

\* An end forgets nothing.
Grows(ag, next) ==
    /\ ag.told => next.told
    /\ DOMAIN ag.pairs \subseteq DOMAIN next.pairs
    /\ \A x \in DOMAIN ag.pairs : ag.pairs[x].checked \subseteq next.pairs[x].checked

\* What an end sends is on its pairs, and what it answers it has read.
LEMMA Sends ==
    ASSUME IceInv, NEW e \in Ends, NEW ag, AgentInv(ag), Grows(agent[e], ag),
           NEW asked, asked \subseteq DOMAIN ag.pairs, asked # {} => ag.told,
           NEW answered, \A d \in answered : d \in datagrams /\ d.type = "request" /\ d.from = Other(e),
           answered # {} => /\ Seen(Other(e)) \in DOMAIN ag.pairs
                            /\ "read" \in ag.pairs[Seen(Other(e))].checked,
           \A x \in DOMAIN ag.pairs :
             "write" \in ag.pairs[x].checked => Sent(e, x) /\ HasRead(Other(e)),
           NEW rest, rest \subseteq datagrams, Send(e, ag, asked, answered, rest), UNCHANGED behind
    PROVE  IceInv' /\ agent'[e] = ag /\ \A f \in Ends \ {e} : agent'[f] = agent[f]
<1>1. /\ Other(e) \in Ends /\ Other(Other(e)) = e /\ Other(e) # e
      /\ \A f \in Ends : f = e \/ f = Other(e)
    BY Ends2
<1>2. /\ DOMAIN agent' = Ends /\ agent'[e] = ag /\ agent'[Other(e)] = agent[Other(e)]
      /\ hole \subseteq hole'
      /\ datagrams' = rest \cup {Message(e, "request", x) : x \in {y \in asked : Carried(e, y)}}
                           \cup {Message(e, "response", d.pair) : d \in answered}
    BY <1>1 DEF Send, IceInv
<1>3. \A f \in Ends : Seen(f)' = Seen(f)
    BY DEF Seen
<1>4. \A f \in Ends : \A x : Carried(f, x) => Carried(f, x)'
    BY <1>2, <1>3, Ends2 DEF Carried
<1>5. \A f \in Ends : \A x : Sent(f, x) => Sent(f, x)'
    BY <1>1, <1>2, <1>4 DEF Sent, Grows
<1>6. \A f \in Ends : HasRead(f) => HasRead(f)'
    BY <1>1, <1>2, <1>3 DEF HasRead, Grows
<1>7. \A f \in Ends : \A x \in DOMAIN agent'[f].pairs :
          "write" \in agent'[f].pairs[x].checked => Sent(f, x)' /\ HasRead(Other(f))'
    BY <1>1, <1>2, <1>5, <1>6 DEF IceInv
<1>8. \A d \in datagrams' : /\ d \in Datagrams
                            /\ IF d.type = "request" THEN Sent(d.from, d.pair)'
                               ELSE Sent(Other(d.from), d.pair)' /\ HasRead(d.from)'
  <2>1. TAKE d \in datagrams'
  <2>2. CASE d \in rest
    <3>1. d \in Datagrams /\ d.from \in Ends /\ Other(d.from) \in Ends
        BY <2>2, Ends2 DEF IceInv, Datagrams
    <3> QED  BY <1>5, <1>6, <2>2, <3>1 DEF IceInv
  <2>3. CASE \E x \in {y \in asked : Carried(e, y)} : d = Message(e, "request", x)
    <3>1. PICK x \in asked : Carried(e, x) /\ d = Message(e, "request", x)
        BY <2>3
    <3>2. x \in Addresses /\ x \in DOMAIN ag.pairs /\ ag.told
        BY PairsType DEF AgentOk, AgentInv, Agents
    <3>3. Sent(e, x)'
        BY <1>2, <1>4, <3>1, <3>2 DEF Sent
    <3> QED  BY <3>1, <3>2, <3>3 DEF Message, Datagrams
  <2>4. CASE \E m \in answered : d = Message(e, "response", m.pair)
    <3>1. PICK m \in answered : d = Message(e, "response", m.pair)
        BY <2>4
    <3>2. m \in Datagrams /\ m.pair \in Addresses /\ Sent(Other(e), m.pair)
        BY DEF IceInv, Datagrams
    <3>3. Sent(Other(e), m.pair)' /\ HasRead(e)'
        BY <1>1, <1>2, <1>3, <1>5, <3>2 DEF HasRead
    <3> QED  BY <3>1, <3>2, <3>3 DEF Message, Datagrams
  <2> QED  BY <1>2, <2>2, <2>3, <2>4
<1>9. \A f \in Ends : AgentInv(agent'[f])
    BY <1>1, <1>2 DEF IceInv
<1> QED  BY <1>1, <1>2, <1>7, <1>8, <1>9 DEF IceInv

\* The invariant, and how the owners of the two ends see the step.
StepHolds == IceInv' /\ \A e \in Ends : Moves(PhaseOf(agent[e]), PhaseOf(agent'[e]))

\* Nothing but the datagrams under way changes, and none is new.
LEMMA LosesOrWaits ==
    ASSUME IceInv, UNCHANGED <<behind, hole, agent>>, datagrams' \subseteq datagrams
    PROVE  StepHolds
<1>1. /\ \A e \in Ends : Seen(e)' = Seen(e)
      /\ \A e \in Ends : Other(e) \in Ends
    BY Ends2 DEF Seen
<1>2. \A e \in Ends : (\A x : Sent(e, x)' <=> Sent(e, x)) /\ (HasRead(e)' <=> HasRead(e))
    BY <1>1 DEF Sent, HasRead, Carried
<1>3. \A d \in datagrams' : /\ d.from \in Ends
                            /\ IF d.type = "request" THEN Sent(d.from, d.pair)'
                               ELSE Sent(Other(d.from), d.pair)' /\ HasRead(d.from)'
    BY <1>1, <1>2 DEF IceInv, Datagrams
<1>4. IceInv'
    BY <1>1, <1>2, <1>3 DEF IceInv
<1> QED  BY <1>4 DEF StepHolds, Moves

LEMMA StunAnswersStep ==
    ASSUME IceInv, NEW e \in Ends, StunAnswers(e)
    PROVE  StepHolds
<1> DEFINE ag == [agent[e] EXCEPT !.reflexive = TRUE]
<1>1. AgentInv(agent[e]) /\ agent[e] \in Agents
    BY DEF IceInv, AgentInv, AgentOk
<1>2. /\ ag \in Agents /\ ag.pairs = agent[e].pairs /\ ag.active = agent[e].active
      /\ ag.connecting = agent[e].connecting /\ ag.closed = agent[e].closed /\ ag.told = agent[e].told
    BY <1>1 DEF Agents
<1>3. Send(e, ag, {}, {}, datagrams)
    BY DEF Send, StunAnswers, IceInv
<1> HIDE DEF ag
<1>4. AgentInv(ag) /\ Grows(agent[e], ag) /\ PhaseOf(ag) = PhaseOf(agent[e])
    BY <1>1, <1>2 DEF AgentInv, AgentOk, Grows, PhaseOf
<1>5. \A x \in DOMAIN ag.pairs :
         "write" \in ag.pairs[x].checked => Sent(e, x) /\ HasRead(Other(e))
    BY <1>2 DEF IceInv
<1>6. UNCHANGED behind
    BY DEF StunAnswers
<1>7. IceInv' /\ agent'[e] = ag /\ \A f \in Ends \ {e} : agent'[f] = agent[f]
    BY <1>3, <1>4, <1>5, <1>6, Sends
<1> QED  BY <1>4, <1>7 DEF StepHolds, Moves

\* The sockets are closed; what the end has sent is still under way.
LEMMA ClosedStep ==
    ASSUME IceInv, NEW e \in Ends, UNCHANGED behind,
           Send(e, Closed(agent[e]), {}, {}, {d \in datagrams : d.from = e})
    PROVE  StepHolds
<1> DEFINE ag == Closed(agent[e])
<1>1. AgentInv(agent[e]) /\ agent[e] \in Agents
    BY DEF IceInv, AgentInv, AgentOk
<1>2. /\ ag \in Agents /\ ag.pairs = agent[e].pairs /\ ag.active = None
      /\ ag.connecting = FALSE /\ ag.closed = TRUE /\ ag.told = agent[e].told
  <2> DEFINE one == [agent[e] EXCEPT !.active = None]
             two == [one EXCEPT !.checking = FALSE]
             three == [two EXCEPT !.connecting = FALSE]
  <2>1. /\ one \in Agents /\ one.pairs = agent[e].pairs /\ one.active = None /\ one.told = agent[e].told
      BY <1>1 DEF Agents
  <2> HIDE DEF one
  <2>2. /\ two \in Agents /\ two.pairs = agent[e].pairs /\ two.active = None /\ two.told = agent[e].told
      BY <2>1 DEF Agents
  <2> HIDE DEF two
  <2>3. /\ three \in Agents /\ three.pairs = agent[e].pairs /\ three.active = None
        /\ three.told = agent[e].told /\ three.connecting = FALSE
      BY <2>2 DEF Agents
  <2>4. ag = [three EXCEPT !.closed = TRUE]
      BY DEF Closed, one, two
  <2> HIDE DEF three, ag
  <2> QED  BY <2>3, <2>4 DEF Agents
<1> HIDE DEF ag
<1>4. AgentInv(ag) /\ Grows(agent[e], ag) /\ PhaseOf(ag) = "closed"
    BY <1>1, <1>2 DEF AgentInv, AgentOk, Grows, PhaseOf
<1>5. \A x \in DOMAIN ag.pairs :
         "write" \in ag.pairs[x].checked => Sent(e, x) /\ HasRead(Other(e))
    BY <1>2 DEF IceInv
<1>6. Send(e, ag, {}, {}, {d \in datagrams : d.from = e})
    BY DEF ag
<1>7. IceInv' /\ agent'[e] = ag /\ \A f \in Ends \ {e} : agent'[f] = agent[f]
    BY <1>4, <1>5, <1>6, Sends
<1> QED  BY <1>4, <1>7 DEF StepHolds, Moves

LEMMA CheckStep ==
    ASSUME IceInv, NEW e \in Ends, Check(e)
    PROVE  StepHolds
<1>1. AgentInv(agent[e]) /\ agent[e] \in Agents
    BY DEF IceInv, AgentInv, AgentOk
<1>2. \A x \in DOMAIN agent[e].pairs :
         "write" \in agent[e].pairs[x].checked => Sent(e, x) /\ HasRead(Other(e))
    BY DEF IceInv
<1>3. Candidates(agent[e]) \subseteq DOMAIN agent[e].pairs /\ (Candidates(agent[e]) # {} => agent[e].told)
    BY DEF Candidates
<1>4. Send(e, agent[e], Candidates(agent[e]), {}, datagrams) /\ UNCHANGED behind /\ Grows(agent[e], agent[e])
    BY DEF Check, Grows
<1>5. IceInv' /\ agent'[e] = agent[e] /\ \A f \in Ends \ {e} : agent'[f] = agent[f]
    BY <1>1, <1>2, <1>3, <1>4, Sends
<1> QED  BY <1>5 DEF StepHolds, Moves

\* Candidates become pairs that nothing has checked yet.
Learns(ag, next) ==
    /\ AgentOk(next) /\ SameBut(ag, next)
    /\ DOMAIN ag.pairs \subseteq DOMAIN next.pairs
    /\ \A y \in DOMAIN next.pairs :
         next.pairs[y].checked = IF y \in DOMAIN ag.pairs THEN ag.pairs[y].checked ELSE {}

LEMMA WithPairLearns ==
    ASSUME NEW old, NEW ag, Learns(old, ag), NEW x \in Addresses, NEW type \in DOMAIN Preference
    PROVE  Learns(old, WithPair(ag, x, type))
<1>1. PICK next : next = WithPair(ag, x, type)
    OBVIOUS
<1>2. /\ AgentOk(next) /\ SameBut(ag, next)
      /\ DOMAIN next.pairs = DOMAIN ag.pairs \cup {x}
      /\ \A y \in DOMAIN ag.pairs : next.pairs[y] = ag.pairs[y]
      /\ x \notin DOMAIN ag.pairs => next.pairs[x].checked = {}
    BY <1>1, WithPairInv DEF Learns
<1> QED  BY <1>1, <1>2 DEF Learns, SameBut

LEMMA SignalledStep ==
    ASSUME IceInv, NEW e \in Ends, Signalled(e)
    PROVE  StepHolds
<1> DEFINE told == [agent[e] EXCEPT !.told = TRUE]
           one == WithPair(told, Host(Other(e)), "host")
           both == WithPair(one, Mapped(Other(e)), "serverReflexive")
<1>1. AgentInv(agent[e]) /\ AgentOk(agent[e]) /\ agent[e] \in Agents
    BY DEF IceInv, AgentInv, AgentOk
<1>2. /\ told \in Agents /\ told.pairs = agent[e].pairs /\ told.active = agent[e].active
      /\ told.connecting = agent[e].connecting /\ told.closed = agent[e].closed /\ told.told = TRUE
    BY <1>1 DEF Agents
<1> HIDE DEF told
<1>3. Learns(told, told)
    BY <1>1, <1>2 DEF Learns, AgentOk, SameBut
<1>4. Learns(told, one)
    BY <1>3, Ends2, WithPairLearns DEF Preference
<1>5. Learns(told, both)
  <2> HIDE DEF one
  <2> QED  BY <1>4, Ends2, WithPairLearns DEF Preference
<1>6. PICK ag \in {one, both} : ConnectToHost(e, ag)
    BY DEF Signalled, told
<1> HIDE DEF one, both
<1>7. Learns(told, ag)
    BY <1>4, <1>5, <1>6
<1>8. ag \in Agents /\ ag.told /\ UNCHANGED behind
    BY <1>2, <1>7 DEF Learns, AgentOk, SameBut, Signalled
<1>9. \A x \in DOMAIN ag.pairs :
         "write" \in ag.pairs[x].checked => Sent(e, x) /\ HasRead(Other(e))
    BY <1>2, <1>7 DEF Learns, IceInv
<1>10. /\ ag.active = agent[e].active /\ ag.connecting = agent[e].connecting
       /\ ag.closed = agent[e].closed /\ Grows(agent[e], ag)
    BY <1>2, <1>7 DEF Learns, Grows, SameBut
<1>11. CASE ag.connecting \/ ag.active # None
  <2>1. Send(e, ag, {}, {}, datagrams)
      BY <1>6, <1>11 DEF ConnectToHost
  <2>2. AgentInv(ag)
      BY <1>7, <1>11 DEF Learns, AgentInv
  <2>3. IceInv' /\ agent'[e] = ag /\ \A f \in Ends \ {e} : agent'[f] = agent[f]
      BY <1>8, <1>9, <1>10, <2>1, <2>2, Sends
  <2>4. PhaseOf(ag) = PhaseOf(agent[e])
      BY <1>10 DEF PhaseOf
  <2> QED  BY <2>3, <2>4 DEF StepHolds, Moves
<1>12. CASE ~(ag.connecting \/ ag.active # None)
  <2> DEFINE half == [ag EXCEPT !.checking = TRUE]
             next == [half EXCEPT !.connecting = TRUE]
  <2>1. /\ half \in Agents /\ half.pairs = ag.pairs /\ half.active = ag.active
        /\ half.closed = ag.closed /\ half.told = ag.told
      BY <1>8 DEF Agents
  <2>2. Send(e, next, Candidates(ag), {}, datagrams)
      BY <1>6, <1>12 DEF ConnectToHost
  <2> HIDE DEF half
  <2>3. /\ next \in Agents /\ next.pairs = ag.pairs /\ next.active = ag.active
        /\ next.closed = ag.closed /\ next.told = ag.told /\ next.connecting = TRUE
      BY <2>1 DEF Agents
  <2> HIDE DEF next
  <2>4. AgentInv(next) /\ Grows(agent[e], next)
      BY <1>7, <1>10, <2>3 DEF Learns, AgentOk, AgentInv, Grows
  <2>5. Candidates(ag) \subseteq DOMAIN next.pairs /\ (Candidates(ag) # {} => next.told)
      BY <1>8, <2>3 DEF Candidates
  <2>6. IceInv' /\ agent'[e] = next /\ \A f \in Ends \ {e} : agent'[f] = agent[f]
      BY <1>8, <1>9, <2>2, <2>3, <2>4, <2>5, Sends
  <2>7. Moves(PhaseOf(agent[e]), PhaseOf(next))
      BY <1>8, <1>10, <1>12, <2>3 DEF PhaseOf, Moves, Agents
  <2> QED  BY <2>6, <2>7 DEF StepHolds, Moves
<1> QED  BY <1>11, <1>12

\* The pair that is selected was checked both ways: by the request just read, or before.
LEMMA GetRequestStep ==
    ASSUME IceInv, NEW e \in Ends, GetRequest(e)
    PROVE  StepHolds
<1> DEFINE x == Seen(Other(e))
           known == WithPair(agent[e], x, "peerReflexive")
           read == [known EXCEPT !.pairs[x].checked = @ \cup {"read"}]
           next == Completed(read, x)
           trigger == ~Controlling(e) /\ agent[e].active = None /\ agent[e].told
           asked == IF trigger THEN {x} ELSE {}
<1>1. PICK d \in datagrams :
        /\ d.type = "request" /\ d.from = Other(e) /\ ~agent[e].closed
        /\ Send(e, next, asked, {d}, datagrams \ {d})
    BY DEF GetRequest
<1>2. UNCHANGED behind
    BY DEF GetRequest
<1>3. AgentInv(agent[e]) /\ AgentOk(agent[e]) /\ x \in Addresses
    BY Ends2 DEF IceInv, AgentInv
<1>4. asked \subseteq {x} /\ (asked # {} => agent[e].told)
    OBVIOUS
<1> HIDE DEF asked, trigger
<1>5. /\ AgentOk(known) /\ SameBut(agent[e], known)
      /\ DOMAIN known.pairs = DOMAIN agent[e].pairs \cup {x}
      /\ \A y \in DOMAIN agent[e].pairs : known.pairs[y] = agent[e].pairs[y]
      /\ x \notin DOMAIN agent[e].pairs => known.pairs[x].checked = {}
    BY <1>3, WithPairInv DEF Preference
<1>6. AgentInv(known)
    BY <1>3, <1>5 DEF AgentInv, SameBut
<1> HIDE DEF known
<1>7. /\ AgentInv(read) /\ SameBut(known, read)
      /\ DOMAIN read.pairs = DOMAIN known.pairs
      /\ read.pairs[x].checked = known.pairs[x].checked \cup {"read"}
      /\ \A y \in DOMAIN known.pairs \ {x} : read.pairs[y] = known.pairs[y]
    BY <1>5, <1>6, CheckedInv
<1> HIDE DEF read
<1>8. \A y \in DOMAIN read.pairs :
         "write" \in read.pairs[y].checked => Sent(e, y) /\ HasRead(Other(e))
    BY <1>5, <1>7 DEF IceInv
<1>9. SameBut(agent[e], read) /\ Grows(agent[e], read)
    BY <1>5, <1>7 DEF SameBut, Grows
<1>10. /\ x \in DOMAIN read.pairs /\ ~read.closed
       /\ read.pairs[x].checked = {"read", "write"} => read.told
    BY <1>1, <1>5, <1>7, <1>8, <1>9 DEF Sent, SameBut
<1>11. /\ AgentInv(next) /\ next.pairs = read.pairs /\ next.told = read.told
       /\ Moves(PhaseOf(read), PhaseOf(next))
    BY <1>7, <1>10, CompletedInv
<1>12. PhaseOf(read) = PhaseOf(agent[e])
    BY <1>9 DEF SameBut, PhaseOf
<1> HIDE DEF next
<1>13. IceInv' /\ agent'[e] = next /\ \A f \in Ends \ {e} : agent'[f] = agent[f]
  <2>1. Grows(agent[e], next)
      BY <1>9, <1>11 DEF Grows
  <2>2. asked \subseteq DOMAIN next.pairs /\ (asked # {} => next.told)
      BY <1>4, <1>9, <1>10, <1>11 DEF SameBut
  <2>3. Seen(Other(e)) \in DOMAIN next.pairs /\ "read" \in next.pairs[Seen(Other(e))].checked
      BY <1>7, <1>10, <1>11
  <2>4. \A y \in DOMAIN next.pairs :
          "write" \in next.pairs[y].checked => Sent(e, y) /\ HasRead(Other(e))
      BY <1>8, <1>11
  <2> HIDE DEF x
  <2> QED  BY <1>1, <1>2, <1>11, <2>1, <2>2, <2>3, <2>4, Sends
<1> QED  BY <1>11, <1>12, <1>13 DEF StepHolds, Moves

LEMMA GetResponseStep ==
    ASSUME IceInv, NEW e \in Ends, GetResponse(e)
    PROVE  StepHolds
<1>1. PICK d \in datagrams :
        /\ d.type = "response" /\ d.from = Other(e) /\ ~agent[e].closed
        /\ Send(e, Completed([agent[e] EXCEPT !.pairs[d.pair].checked = @ \cup {"write"}], d.pair),
                {}, {}, datagrams \ {d})
    BY DEF GetResponse
<1> DEFINE x == d.pair
           ag == [agent[e] EXCEPT !.pairs[x].checked = @ \cup {"write"}]
           next == Completed(ag, x)
<1>2. UNCHANGED behind
    BY DEF GetResponse
<1>3. AgentInv(agent[e]) /\ AgentOk(agent[e])
    BY DEF IceInv, AgentInv
<1>4. Sent(e, x) /\ HasRead(Other(e))
    BY <1>1, Ends2 DEF IceInv
<1>5. Send(e, next, {}, {}, datagrams \ {d})
    BY <1>1
<1> HIDE DEF x
<1>6. x \in DOMAIN agent[e].pairs /\ agent[e].told
    BY <1>4 DEF Sent
<1>7. /\ AgentInv(ag) /\ SameBut(agent[e], ag)
      /\ DOMAIN ag.pairs = DOMAIN agent[e].pairs
      /\ ag.pairs[x].checked = agent[e].pairs[x].checked \cup {"write"}
      /\ \A y \in DOMAIN agent[e].pairs \ {x} : ag.pairs[y] = agent[e].pairs[y]
    BY <1>3, <1>6, CheckedInv
<1> HIDE DEF ag
<1>8. \A y \in DOMAIN ag.pairs :
         "write" \in ag.pairs[y].checked => Sent(e, y) /\ HasRead(Other(e))
    BY <1>4, <1>7 DEF IceInv
<1>9. Grows(agent[e], ag) /\ ag.told /\ ~ag.closed /\ PhaseOf(ag) = PhaseOf(agent[e])
    BY <1>1, <1>6, <1>7 DEF SameBut, Grows, PhaseOf
<1>10. /\ AgentInv(next) /\ next.pairs = ag.pairs /\ next.told = ag.told
       /\ Moves(PhaseOf(ag), PhaseOf(next))
    BY <1>6, <1>7, <1>9, CompletedInv
<1> HIDE DEF next
<1>11. Grows(agent[e], next)
    BY <1>9, <1>10 DEF Grows
<1>12. IceInv' /\ agent'[e] = next /\ \A f \in Ends \ {e} : agent'[f] = agent[f]
  <2>1. \A y \in DOMAIN next.pairs :
          "write" \in next.pairs[y].checked => Sent(e, y) /\ HasRead(Other(e))
      BY <1>8, <1>10
  <2>2. PICK rest \in SUBSET datagrams : Send(e, next, {}, {}, rest)
      BY <1>5
  <2>3. AgentInv(next)
      BY <1>10
  <2> QED  BY <1>2, <1>11, <2>1, <2>2, <2>3, Sends
<1> QED  BY <1>9, <1>10, <1>12 DEF StepHolds, Moves

LEMMA IceBegins ==
    ASSUME IceInit
    PROVE  IceInv /\ \A e \in Ends : PhaseOf(agent[e]) = "new"
<1> DEFINE none == [x \in {} |-> 0]
           fresh == [told |-> FALSE, pairs |-> none, active |-> None, checking |-> FALSE,
                     connecting |-> FALSE, closed |-> FALSE, reflexive |-> FALSE]
<1>1. /\ agent = [e \in Ends |-> fresh] /\ datagrams = {}
      /\ behind \subseteq Ends
    BY IceAssumption DEF IceInit
<1>2. none \in PairMaps /\ DOMAIN none = {}
  <2>1. none \in [{} -> PairSet] /\ {} \in SUBSET Addresses
      OBVIOUS
  <2> QED  BY <2>1 DEF PairMaps
<1> HIDE DEF none
<1>3. fresh \in Agents
    BY <1>2 DEF Agents
<1>4. AgentInv(fresh)
    BY <1>3 DEF AgentInv, AgentOk
<1>5. IceInv
    BY <1>1, <1>2, <1>4 DEF IceInv
<1>6. PhaseOf(fresh) = "new"
    BY DEF PhaseOf
<1> QED  BY <1>1, <1>5, <1>6

\* Every step of the checks keeps the invariant, and each end moves as IcePhase allows.
LEMMA IceStep ==
    ASSUME IceInv, IceNext
    PROVE  StepHolds
<1>1. CASE Accept
    BY <1>1, LosesOrWaits DEF Accept
<1>2. CASE LoseDatagram
  <2>1. datagrams' \subseteq datagrams /\ UNCHANGED <<behind, hole, agent>>
      BY <1>2 DEF LoseDatagram
  <2> QED  BY <2>1, LosesOrWaits
<1>3. ASSUME NEW e \in Ends, Close(e) \/ Timeout(e) PROVE StepHolds
    BY <1>3, ClosedStep DEF Close, Timeout
<1> QED  BY <1>1, <1>2, <1>3, StunAnswersStep, SignalledStep, CheckStep, GetRequestStep,
            GetResponseStep DEF IceNext

\* What the invariant says of the pairs that are selected.
LEMMA IceSafe ==
    ASSUME IceInv
    PROVE  ActiveReaches /\ CheckedBothWays
<1>1. ASSUME NEW e \in Ends, agent[e].active # None
      PROVE  Sent(e, agent[e].active) /\ HasRead(Other(e))
  <2>1. AgentOk(agent[e])
      BY DEF IceInv, AgentInv
  <2>2. /\ agent[e].active \in DOMAIN agent[e].pairs
        /\ "write" \in agent[e].pairs[agent[e].active].checked
      BY <1>1, <2>1 DEF AgentOk
  <2> QED  BY <2>2 DEF IceInv
<1> QED  BY Ends2, <1>1 DEF Sent, HasRead, ActiveReaches, CheckedBothWays

-----------------------------------------------------------------------------
(* How far the checks have come.                                           *)

\* What holds of an end: who was told the other's candidates knows its host and, until it is
\* closed, checks or is connected; and a pair that was checked both ways has been selected.
EndOk(e, ag) ==
    /\ ag.connecting => ag.told
    /\ ag.told => Host(Other(e)) \in DOMAIN ag.pairs
    /\ DOMAIN ag.pairs \subseteq {Host(Other(e)), Mapped(Other(e))}
    /\ ~ag.closed =>
         /\ ag.told => ag.checking \/ ag.active # None
         /\ \A x \in DOMAIN ag.pairs : ag.pairs[x].checked = {"read", "write"} => ag.active # None

\* Who checks has sent something, which opens its translator.
ChecksInv ==
    /\ hole \subseteq Ends
    /\ \A e \in Ends : /\ EndOk(e, agent[e])
                       /\ agent[e].told /\ ~agent[e].closed => e \in hole

Knows(e) == Seen(Other(e)) \in DOMAIN agent[e].pairs

Written(e) == Knows(e) /\ "write" \in agent[e].pairs[Seen(Other(e))].checked
Asking(e) == \E d \in datagrams : d.type = "request" /\ d.from = e
Replied(e) == \E d \in datagrams : d.type = "response" /\ d.from = Other(e)

\* The end e has asked the other one, and the answer has come or will.
Asked(e) == Written(e) \/ Asking(e) \/ Replied(e)

Open == \A e \in Ends : ~agent[e].closed

\* What the rounds without a loss have brought about.
RoundsInv ==
    /\ latest \in Ends /\ clear \in 0 .. Enough
    /\ clear > 0 =>
      /\ \A e \in Ends : agent[e].told
      /\ behind = Ends => \A e \in Ends : Mapped(Other(e)) \in DOMAIN agent[e].pairs
      /\ Open =>
           /\ (\E e \in Ends : Asked(e)) \/ Knows(Other(latest))
           /\ clear > 1 => \E e \in Ends : Asked(e)
           /\ clear > 2 => Asked(latest) /\ \A e \in Ends : Knows(e)
           /\ clear > 3 => \A e \in Ends : Asked(e)

\* The ends forget nothing, and unless one is closed no question is lost.
Onward ==
    /\ UNCHANGED behind
    /\ \A e \in Ends : Grows(agent[e], agent'[e]) /\ (agent[e].closed => agent'[e].closed)
    /\ Open' => \A e \in Ends : Asked(e) => Asked(e)'

LEMMA CompletedChecks ==
    ASSUME NEW ag \in Agents, NEW x \in DOMAIN ag.pairs, x # None, NEW next, next = Completed(ag, x)
    PROVE  /\ next.pairs = ag.pairs /\ next.told = ag.told /\ next.closed = ag.closed
           /\ next.connecting => ag.connecting
           /\ ag.active # None => next.active # None
           /\ ag.checking => next.checking \/ next.active # None
           /\ ag.pairs[x].checked = {"read", "write"} => next.active # None
<1>1. CASE ag.pairs[x].checked # {"read", "write"}
  <2>1. next = ag
      BY <1>1 DEF Completed
  <2> QED  BY <1>1, <2>1
<1>2. CASE ag.pairs[x].checked = {"read", "write"}
  <2>1. PICK active \in {x, ag.active}, connecting \in BOOLEAN :
          /\ active # None /\ (connecting => ag.connecting)
          /\ next = [ag EXCEPT !.checking = FALSE, !.active = active, !.connecting = connecting]
    <3>1. (ag.connecting /\ ag.active # None) \in BOOLEAN
        OBVIOUS
    <3> QED  BY <1>2, <3>1 DEF Completed
  <2> DEFINE one == [ag EXCEPT !.checking = FALSE]
             two == [one EXCEPT !.active = active]
  <2>2. /\ DOMAIN one = DOMAIN ag /\ one.pairs = ag.pairs /\ one.told = ag.told /\ one.closed = ag.closed
      BY DEF Agents
  <2>3. next = [[one EXCEPT !.active = active] EXCEPT !.connecting = connecting]
      BY <2>1
  <2> HIDE DEF one
  <2>4. /\ DOMAIN two = DOMAIN ag /\ two.pairs = ag.pairs /\ two.told = ag.told /\ two.closed = ag.closed
        /\ two.active = active
      BY <2>2 DEF Agents
  <2>5. next = [two EXCEPT !.connecting = connecting]
      BY <2>3
  <2> HIDE DEF two
  <2>6. /\ next.pairs = ag.pairs /\ next.told = ag.told /\ next.closed = ag.closed
        /\ next.active = active /\ next.connecting = connecting
      BY <2>4, <2>5 DEF Agents
  <2> QED  BY <1>2, <2>1, <2>6
<1> QED  BY <1>1, <1>2

LEMMA SendParts ==
    ASSUME DOMAIN agent = Ends, NEW e \in Ends, NEW ag, NEW asked, NEW answered, NEW rest,
           Send(e, ag, asked, answered, rest)
    PROVE  /\ agent'[e] = ag /\ \A f \in Ends \ {e} : agent'[f] = agent[f]
           /\ hole \subseteq hole' /\ hole' \subseteq hole \cup {e}
           /\ (asked # {} => e \in hole')
           /\ rest \subseteq datagrams'
           /\ \A x \in asked : Carried(e, x) => Message(e, "request", x) \in datagrams'
           /\ \A d \in answered : Message(e, "response", d.pair) \in datagrams'
    BY DEF Send

\* What is asked stays asked: a request is answered, and an answer is believed.
LEMMA AskedKept ==
    ASSUME IceInv, UNCHANGED behind, \A e \in Ends : Grows(agent[e], agent'[e]),
           \A d \in datagrams :
             \/ d \in datagrams'
             \/ d.type = "request" /\ \E m \in datagrams' : m.type = "response" /\ m.from = Other(d.from)
             \/ d.type = "response" /\ Written(Other(d.from))'
    PROVE  \A e \in Ends : Asked(e) => Asked(e)'
<1> TAKE e \in Ends
<1>1. Seen(Other(e))' = Seen(Other(e)) /\ Other(e) \in Ends /\ Other(Other(e)) = e
    BY Ends2 DEF Seen
<1>2. Written(e) => Written(e)'
    BY <1>1 DEF Written, Knows, Grows
<1>3. Asking(e) => Asking(e)' \/ Replied(e)'
    BY DEF Asking, Replied
<1>4. Replied(e) => Replied(e)' \/ Written(e)'
    BY <1>1 DEF Replied
<1> QED  BY <1>2, <1>3, <1>4 DEF Asked

\* Only the end e changes.
LEMMA EndMoves ==
    ASSUME ChecksInv, DOMAIN agent = Ends, NEW e \in Ends, NEW ag, agent'[e] = ag,
           \A f \in Ends \ {e} : agent'[f] = agent[f],
           hole \subseteq hole', hole' \subseteq hole \cup {e},
           EndOk(e, ag), ag.told /\ ~ag.closed => e \in hole',
           Grows(agent[e], ag), agent[e].closed => ag.closed
    PROVE  /\ ChecksInv'
           /\ \A f \in Ends : Grows(agent[f], agent'[f]) /\ (agent[f].closed => agent'[f].closed)
<1>1. \A f \in Ends : Grows(agent[f], agent[f])
    BY DEF Grows
<1>2. \A f \in Ends : EndOk(f, agent'[f]) /\ (agent'[f].told /\ ~agent'[f].closed => f \in hole')
    BY DEF ChecksInv
<1>3. hole' \subseteq Ends
    BY DEF ChecksInv
<1>4. \A f \in Ends : EndOk(f, agent[f])' <=> EndOk(f, agent'[f])
    BY DEF EndOk, Host, Mapped, Other
<1> QED  BY <1>1, <1>2, <1>3, <1>4 DEF ChecksInv

Reaches == ChecksInv' /\ Onward

\* The translator of an end that was told lets the other's datagrams in.
LEMMA OpenCarried ==
    ASSUME ChecksInv, NEW e \in Ends, agent[Other(e)].told, ~agent[Other(e)].closed
    PROVE  Carried(e, Seen(Other(e)))
    BY Ends2 DEF ChecksInv, Carried

LEMMA StunAnswersChecks ==
    ASSUME IceInv, ChecksInv, NEW e \in Ends, StunAnswers(e)
    PROVE  Reaches
<1>1. agent[e] \in Agents /\ DOMAIN agent = Ends
    BY DEF IceInv, AgentInv, AgentOk
<1>2. PICK ag : ag = [agent[e] EXCEPT !.reflexive = TRUE]
    OBVIOUS
<1>3. /\ ag.pairs = agent[e].pairs /\ ag.active = agent[e].active /\ ag.checking = agent[e].checking
      /\ ag.connecting = agent[e].connecting /\ ag.closed = agent[e].closed /\ ag.told = agent[e].told
    BY <1>1, <1>2 DEF Agents
<1>4. agent'[e] = ag /\ \A f \in Ends \ {e} : agent'[f] = agent[f]
    BY <1>1, <1>2 DEF StunAnswers
<1>5. UNCHANGED <<behind, hole, datagrams>>
    BY DEF StunAnswers
<1>6. EndOk(e, ag) /\ (ag.told /\ ~ag.closed => e \in hole) /\ Grows(agent[e], ag)
    BY <1>3 DEF ChecksInv, EndOk, Grows
<1>7. ChecksInv' /\ \A f \in Ends : Grows(agent[f], agent'[f]) /\ (agent[f].closed => agent'[f].closed)
    BY <1>1, <1>3, <1>4, <1>5, <1>6, EndMoves
<1>8. \A f \in Ends : Asked(f) => Asked(f)'
    BY <1>5, <1>7, AskedKept
<1> QED  BY <1>5, <1>7, <1>8 DEF Reaches, Onward

LEMMA ClosedChecks ==
    ASSUME IceInv, ChecksInv, NEW e \in Ends, UNCHANGED behind,
           Send(e, Closed(agent[e]), {}, {}, {d \in datagrams : d.from = e})
    PROVE  Reaches
<1>1. agent[e] \in Agents /\ DOMAIN agent = Ends
    BY DEF IceInv, AgentInv, AgentOk
<1>2. PICK ag : ag = Closed(agent[e])
    OBVIOUS
<1>3. /\ ag.pairs = agent[e].pairs /\ ag.connecting = FALSE /\ ag.closed = TRUE /\ ag.told = agent[e].told
  <2> DEFINE one == [agent[e] EXCEPT !.active = None]
             two == [one EXCEPT !.checking = FALSE]
             three == [two EXCEPT !.connecting = FALSE]
  <2>1. /\ DOMAIN one = DOMAIN agent[e] /\ one.pairs = agent[e].pairs /\ one.told = agent[e].told
      BY <1>1 DEF Agents
  <2> HIDE DEF one
  <2>2. /\ DOMAIN two = DOMAIN agent[e] /\ two.pairs = agent[e].pairs /\ two.told = agent[e].told
      BY <1>1, <2>1 DEF Agents
  <2> HIDE DEF two
  <2>3. /\ DOMAIN three = DOMAIN agent[e] /\ three.pairs = agent[e].pairs
        /\ three.told = agent[e].told /\ three.connecting = FALSE
      BY <1>1, <2>2 DEF Agents
  <2>4. ag = [three EXCEPT !.closed = TRUE]
      BY <1>2 DEF Closed, one, two
  <2> HIDE DEF three
  <2> QED  BY <1>1, <2>3, <2>4 DEF Agents
<1>4. PICK rest : rest = {d \in datagrams : d.from = e}
    OBVIOUS
<1>5. Send(e, ag, {}, {}, rest)
    BY <1>2, <1>4
<1>6. /\ agent'[e] = ag /\ \A f \in Ends \ {e} : agent'[f] = agent[f]
      /\ hole \subseteq hole' /\ hole' \subseteq hole \cup {e}
    BY <1>1, <1>5, SendParts
<1>7. EndOk(e, ag) /\ Grows(agent[e], ag) /\ ag.closed
    BY <1>3 DEF ChecksInv, EndOk, Grows
<1>8. ChecksInv' /\ \A f \in Ends : Grows(agent[f], agent'[f]) /\ (agent[f].closed => agent'[f].closed)
    BY <1>1, <1>6, <1>7, EndMoves
<1>9. ~Open'
    BY <1>6, <1>7 DEF Open
<1> QED  BY <1>8, <1>9 DEF Reaches, Onward

LEMMA CheckChecks ==
    ASSUME IceInv, ChecksInv, NEW e \in Ends, Check(e)
    PROVE  /\ Reaches /\ \A f \in Ends : agent'[f] = agent[f]
           /\ Knows(e) /\ agent[e].told /\ ~agent[e].closed /\ Carried(e, Seen(Other(e))) => Asked(e)'
<1>1. agent[e] \in Agents /\ DOMAIN agent = Ends
    BY DEF IceInv, AgentInv, AgentOk
<1>2. PICK ag, asked, rest : ag = agent[e] /\ asked = Candidates(agent[e]) /\ rest = datagrams
    OBVIOUS
<1>3. Send(e, ag, asked, {}, rest) /\ UNCHANGED behind
    BY <1>2 DEF Check
<1>4. /\ agent'[e] = ag /\ \A f \in Ends \ {e} : agent'[f] = agent[f]
      /\ hole \subseteq hole' /\ hole' \subseteq hole \cup {e} /\ datagrams \subseteq datagrams'
      /\ \A x \in asked : Carried(e, x) => Message(e, "request", x) \in datagrams'
    BY <1>1, <1>2, <1>3, SendParts
<1>5. \A f \in Ends : agent'[f] = agent[f]
    BY <1>2, <1>4
<1>6. EndOk(e, ag) /\ (ag.told /\ ~ag.closed => e \in hole) /\ Grows(agent[e], ag)
    BY <1>2 DEF ChecksInv, Grows
<1>7. ChecksInv' /\ \A f \in Ends : Grows(agent[f], agent'[f]) /\ (agent[f].closed => agent'[f].closed)
    BY <1>1, <1>2, <1>4, <1>6, EndMoves
<1>8. \A f \in Ends : Asked(f) => Asked(f)'
    BY <1>3, <1>4, <1>7, AskedKept
<1>9. Reaches
    BY <1>3, <1>7, <1>8 DEF Reaches, Onward
<1>10. ASSUME Knows(e), agent[e].told, ~agent[e].closed, Carried(e, Seen(Other(e)))
       PROVE  Asked(e)'
  <2>1. Seen(Other(e)) \in asked
      BY <1>2, <1>10 DEF Candidates, Knows
  <2>2. Message(e, "request", Seen(Other(e))) \in datagrams'
      BY <1>4, <1>10, <2>1
  <2>3. \E d \in datagrams' : d.type = "request" /\ d.from = e
      BY <2>2 DEF Message
  <2> QED  BY <2>3 DEF Asked, Asking
<1> QED  BY <1>5, <1>9, <1>10

LEMMA WithPairEnd ==
    ASSUME NEW e \in Ends, NEW ag, AgentOk(ag), EndOk(e, ag),
           NEW x \in {Host(Other(e)), Mapped(Other(e))}, NEW type \in DOMAIN Preference
    PROVE  /\ EndOk(e, WithPair(ag, x, type)) /\ AgentOk(WithPair(ag, x, type))
           /\ SameBut(ag, WithPair(ag, x, type))
           /\ DOMAIN WithPair(ag, x, type).pairs = DOMAIN ag.pairs \cup {x}
           /\ \A y \in DOMAIN ag.pairs : WithPair(ag, x, type).pairs[y] = ag.pairs[y]
           /\ x \notin DOMAIN ag.pairs => WithPair(ag, x, type).pairs[x].checked = {}
<1>1. PICK next : next = WithPair(ag, x, type)
    OBVIOUS
<1>2. x \in Addresses
    BY Ends2
<1>3. /\ AgentOk(next) /\ SameBut(ag, next)
      /\ DOMAIN next.pairs = DOMAIN ag.pairs \cup {x}
      /\ \A y \in DOMAIN ag.pairs : next.pairs[y] = ag.pairs[y]
      /\ x \notin DOMAIN ag.pairs => next.pairs[x].checked = {}
    BY <1>1, <1>2, WithPairInv
<1>4. \A y \in DOMAIN next.pairs : next.pairs[y].checked = {"read", "write"} =>
        ag.pairs[y].checked = {"read", "write"} /\ y \in DOMAIN ag.pairs
    BY <1>3
<1>5. EndOk(e, next)
    BY <1>3, <1>4 DEF EndOk, SameBut
<1> QED  BY <1>1, <1>3, <1>5

LEMMA SignalledChecks ==
    ASSUME IceInv, ChecksInv, NEW e \in Ends, Signalled(e)
    PROVE  Reaches /\ (agent[e].told /\ ~agent[e].closed => latest' = latest)
<1> DEFINE told == [agent[e] EXCEPT !.told = TRUE]
           one == WithPair(told, Host(Other(e)), "host")
           both == WithPair(one, Mapped(Other(e)), "serverReflexive")
<1>1. AgentInv(agent[e]) /\ AgentOk(agent[e]) /\ agent[e] \in Agents /\ DOMAIN agent = Ends
    BY DEF IceInv, AgentInv, AgentOk
<1>2. /\ told \in Agents /\ told.pairs = agent[e].pairs /\ told.active = agent[e].active
      /\ told.checking = agent[e].checking /\ told.told = TRUE
      /\ told.connecting = agent[e].connecting /\ told.closed = agent[e].closed
    BY <1>1 DEF Agents
<1> HIDE DEF told
<1>3. Learns(told, told)
    BY <1>1, <1>2 DEF Learns, AgentOk, SameBut
<1>4. Learns(told, one) /\ DOMAIN one.pairs = DOMAIN agent[e].pairs \cup {Host(Other(e))}
  <2>1. Learns(told, one)
      BY <1>3, Ends2, WithPairLearns DEF Preference
  <2>2. AgentOk(told)
      BY <1>3 DEF Learns
  <2>3. Host(Other(e)) \in Addresses /\ "host" \in DOMAIN Preference
      BY Ends2 DEF Preference
  <2>4. DOMAIN one.pairs = DOMAIN told.pairs \cup {Host(Other(e))}
      BY <2>2, <2>3, WithPairInv
  <2> QED  BY <1>2, <2>1, <2>4
<1> HIDE DEF one
<1>5. Learns(told, both) /\ DOMAIN both.pairs = DOMAIN one.pairs \cup {Mapped(Other(e))}
  <2>1. Learns(told, both)
      BY <1>4, Ends2, WithPairLearns DEF Preference
  <2>2. AgentOk(one)
      BY <1>4 DEF Learns
  <2>3. Mapped(Other(e)) \in Addresses /\ "serverReflexive" \in DOMAIN Preference
      BY Ends2 DEF Preference
  <2>4. DOMAIN both.pairs = DOMAIN one.pairs \cup {Mapped(Other(e))}
      BY <2>2, <2>3, WithPairInv
  <2> QED  BY <2>1, <2>4
<1>6. PICK ag \in {one, both} : ConnectToHost(e, ag)
    BY DEF Signalled, told, one
<1> HIDE DEF both
<1>7. EndOk(e, agent[e]) /\ (agent[e].told /\ ~agent[e].closed => e \in hole)
    BY DEF ChecksInv
<1>8. /\ Learns(told, ag) /\ Host(Other(e)) \in DOMAIN ag.pairs
      /\ DOMAIN ag.pairs \subseteq {Host(Other(e)), Mapped(Other(e))}
    BY <1>4, <1>5, <1>6, <1>7 DEF EndOk
<1>9. /\ ag \in Agents /\ ag.told /\ ag.active = agent[e].active /\ ag.connecting = agent[e].connecting
      /\ ag.closed = agent[e].closed /\ ag.checking = agent[e].checking /\ Grows(agent[e], ag)
    BY <1>2, <1>8 DEF Learns, Grows, SameBut, AgentOk
<1>10. \A x \in DOMAIN ag.pairs : ag.pairs[x].checked = {"read", "write"} /\ ~ag.closed => ag.active # None
  <2>1. \A x \in DOMAIN ag.pairs : ag.pairs[x].checked = {"read", "write"} =>
          x \in DOMAIN agent[e].pairs /\ agent[e].pairs[x].checked = {"read", "write"}
      BY <1>2, <1>8 DEF Learns
  <2> QED  BY <1>7, <1>9, <2>1 DEF EndOk
<1>11. agent[e].active # None => agent[e].told
  <2>1. agent[e].active # None =>
          /\ agent[e].active \in DOMAIN agent[e].pairs
          /\ "write" \in agent[e].pairs[agent[e].active].checked
      BY <1>1 DEF AgentOk
  <2> QED  BY <2>1 DEF IceInv, Sent
<1>12. UNCHANGED behind /\ latest' = IF agent'[e].checking /\ ~agent[e].checking THEN e ELSE latest
    BY DEF Signalled
<1>13. ASSUME NEW next, agent'[e] = next, \A f \in Ends \ {e} : agent'[f] = agent[f],
              hole \subseteq hole', hole' \subseteq hole \cup {e}, datagrams \subseteq datagrams',
              EndOk(e, next), next.told /\ ~next.closed => e \in hole', Grows(agent[e], next),
              agent[e].closed => next.closed
       PROVE  Reaches
  <2>1. ChecksInv' /\ \A f \in Ends : Grows(agent[f], agent'[f]) /\ (agent[f].closed => agent'[f].closed)
      BY <1>1, <1>13, EndMoves
  <2>2. \A f \in Ends : Asked(f) => Asked(f)'
      BY <1>12, <1>13, <2>1, AskedKept
  <2> QED  BY <1>12, <2>1, <2>2 DEF Reaches, Onward
<1>14. CASE ag.connecting \/ ag.active # None
  <2>1. PICK none, rest : none = {} /\ rest = datagrams
      OBVIOUS
  <2>2. Send(e, ag, none, none, rest)
      BY <1>6, <1>14, <2>1 DEF ConnectToHost
  <2>3. /\ agent'[e] = ag /\ \A f \in Ends \ {e} : agent'[f] = agent[f]
        /\ hole \subseteq hole' /\ hole' \subseteq hole \cup {e} /\ datagrams \subseteq datagrams'
      BY <1>1, <2>1, <2>2, SendParts
  <2>4. agent[e].told
      BY <1>7, <1>9, <1>11, <1>14 DEF EndOk
  <2>5. EndOk(e, ag)
    <3>1. ~ag.closed => ag.checking \/ ag.active # None
        BY <1>7, <1>9, <2>4 DEF EndOk
    <3> QED  BY <1>8, <1>9, <1>10, <3>1 DEF EndOk
  <2>6. Reaches
      BY <1>7, <1>9, <1>13, <2>3, <2>4, <2>5
  <2>7. latest' = latest
      BY <1>9, <1>12, <2>3
  <2> QED  BY <2>6, <2>7
<1>15. CASE ~(ag.connecting \/ ag.active # None)
  <2> DEFINE half == [ag EXCEPT !.checking = TRUE]
             next == [half EXCEPT !.connecting = TRUE]
  <2>1. /\ half \in Agents /\ half.pairs = ag.pairs /\ half.active = ag.active
        /\ half.closed = ag.closed /\ half.told = ag.told /\ half.checking = TRUE
      BY <1>9 DEF Agents
  <2>2. Send(e, next, Candidates(ag), {}, datagrams)
      BY <1>6, <1>15 DEF ConnectToHost
  <2> HIDE DEF half
  <2>3. /\ next.pairs = ag.pairs /\ next.active = ag.active /\ next.checking = TRUE
        /\ next.closed = ag.closed /\ next.told = ag.told /\ next.connecting = TRUE
      BY <2>1 DEF Agents
  <2>4. PICK after, asked, none, rest :
          after = next /\ asked = Candidates(ag) /\ none = {} /\ rest = datagrams
      OBVIOUS
  <2>5. Send(e, after, asked, none, rest)
      BY <2>2, <2>4
  <2> HIDE DEF next
  <2>6. /\ agent'[e] = after /\ \A f \in Ends \ {e} : agent'[f] = agent[f]
        /\ hole \subseteq hole' /\ hole' \subseteq hole \cup {e} /\ datagrams \subseteq datagrams'
        /\ asked # {} => e \in hole'
      BY <1>1, <2>4, <2>5, SendParts
  <2>7. ~after.closed => e \in hole'
      BY <1>8, <1>9, <2>3, <2>4, <2>6 DEF Candidates
  <2>8. EndOk(e, after) /\ Grows(agent[e], after) /\ (agent[e].closed => after.closed)
    <3>1. after.told /\ after.checking /\ after.pairs = ag.pairs /\ after.active = ag.active
        BY <1>9, <2>3, <2>4
    <3>2. after.closed = ag.closed
        BY <2>3, <2>4
    <3>3. EndOk(e, after)
        BY <1>8, <1>10, <3>1, <3>2 DEF EndOk
    <3>4. Grows(agent[e], after)
        BY <1>9, <3>1 DEF Grows
    <3> QED  BY <1>9, <3>2, <3>3, <3>4
  <2>9. Reaches
      BY <1>13, <2>6, <2>7, <2>8
  <2>10. agent[e].told /\ ~agent[e].closed => agent[e].checking
      BY <1>7, <1>9, <1>15 DEF EndOk
  <2> QED  BY <1>12, <2>9, <2>10
<1> QED  BY <1>14, <1>15

LEMMA GetRequestChecks ==
    ASSUME IceInv, ChecksInv, NEW e \in Ends, GetRequest(e)
    PROVE  Reaches
<1> DEFINE x == Seen(Other(e))
           known == WithPair(agent[e], x, "peerReflexive")
           read == [known EXCEPT !.pairs[x].checked = @ \cup {"read"}]
           next == Completed(read, x)
           trigger == ~Controlling(e) /\ agent[e].active = None /\ agent[e].told
           asked == IF trigger THEN {x} ELSE {}
<1>1. PICK d \in datagrams :
        /\ d.type = "request" /\ d.from = Other(e) /\ ~agent[e].closed
        /\ Send(e, next, asked, {d}, datagrams \ {d})
    BY DEF GetRequest
<1>2. UNCHANGED behind
    BY DEF GetRequest
<1>3. /\ AgentInv(agent[e]) /\ AgentOk(agent[e]) /\ DOMAIN agent = Ends
      /\ EndOk(e, agent[e]) /\ (agent[e].told /\ ~agent[e].closed => e \in hole)
      /\ x \in {Host(Other(e)), Mapped(Other(e))} /\ x \in Addresses /\ x # None
    BY Ends2 DEF IceInv, AgentInv, ChecksInv, Seen
<1> HIDE DEF asked, trigger
<1>4. /\ EndOk(e, known) /\ AgentOk(known) /\ SameBut(agent[e], known)
      /\ DOMAIN known.pairs = DOMAIN agent[e].pairs \cup {x}
      /\ \A y \in DOMAIN agent[e].pairs : known.pairs[y] = agent[e].pairs[y]
      /\ x \notin DOMAIN agent[e].pairs => known.pairs[x].checked = {}
  <2>1. "peerReflexive" \in DOMAIN Preference
      BY DEF Preference
  <2> HIDE DEF x
  <2> QED  BY <1>3, <2>1, WithPairEnd
<1>5. AgentInv(known)
    BY <1>3, <1>4 DEF AgentInv, SameBut
<1> HIDE DEF known
<1>6. /\ AgentInv(read) /\ SameBut(known, read)
      /\ DOMAIN read.pairs = DOMAIN known.pairs
      /\ read.pairs[x].checked = known.pairs[x].checked \cup {"read"}
      /\ \A y \in DOMAIN known.pairs \ {x} : read.pairs[y] = known.pairs[y]
    BY <1>4, <1>5, CheckedInv
<1> HIDE DEF read
<1>7. read \in Agents /\ x \in DOMAIN read.pairs
    BY <1>4, <1>6 DEF AgentInv, AgentOk
<1>8. /\ next.pairs = read.pairs /\ next.told = read.told /\ next.closed = read.closed
      /\ next.connecting => read.connecting
      /\ read.active # None => next.active # None
      /\ read.checking => next.checking \/ next.active # None
      /\ read.pairs[x].checked = {"read", "write"} => next.active # None
    BY <1>3, <1>7, CompletedChecks
<1> HIDE DEF next
<1>9. EndOk(e, next)
  <2>1. \A y \in DOMAIN next.pairs : next.pairs[y].checked = {"read", "write"} /\ ~next.closed => next.active # None
    <3> TAKE y \in DOMAIN next.pairs
    <3>1. CASE y = x
        BY <1>8, <3>1
    <3>2. CASE y # x
        BY <1>4, <1>6, <1>8, <3>2 DEF EndOk, SameBut
    <3> QED  BY <3>1, <3>2
  <2>2. next.connecting => next.told
      BY <1>4, <1>6, <1>8 DEF EndOk, SameBut
  <2>3. next.told => Host(Other(e)) \in DOMAIN next.pairs
      BY <1>4, <1>6, <1>8 DEF EndOk, SameBut
  <2>4. DOMAIN next.pairs \subseteq {Host(Other(e)), Mapped(Other(e))}
      BY <1>4, <1>6, <1>8 DEF EndOk
  <2>5. ~next.closed /\ next.told => next.checking \/ next.active # None
      BY <1>4, <1>6, <1>8 DEF EndOk, SameBut
  <2> QED  BY <2>1, <2>2, <2>3, <2>4, <2>5 DEF EndOk
<1>10. PICK answered, rest : answered = {d} /\ rest = datagrams \ {d}
    OBVIOUS
<1>11. Send(e, next, asked, answered, rest)
    BY <1>1, <1>10
<1>12. /\ agent'[e] = next /\ \A f \in Ends \ {e} : agent'[f] = agent[f]
       /\ hole \subseteq hole' /\ hole' \subseteq hole \cup {e} /\ rest \subseteq datagrams'
       /\ \A m \in answered : Message(e, "response", m.pair) \in datagrams'
    BY <1>3, <1>11, SendParts
<1>13. Grows(agent[e], next)
    BY <1>4, <1>6, <1>8 DEF Grows, SameBut
<1>14. next.told = agent[e].told /\ next.closed = agent[e].closed
    BY <1>4, <1>6, <1>8 DEF SameBut
<1>15. ChecksInv' /\ \A f \in Ends : Grows(agent[f], agent'[f]) /\ (agent[f].closed => agent'[f].closed)
    BY <1>3, <1>9, <1>12, <1>13, <1>14, EndMoves
<1>16. \A m \in datagrams :
         \/ m \in datagrams'
         \/ m.type = "request" /\ \E a \in datagrams' : a.type = "response" /\ a.from = Other(m.from)
  <2>1. Message(e, "response", d.pair) \in datagrams'
      BY <1>10, <1>12
  <2>2. \E a \in datagrams' : a.type = "response" /\ a.from = Other(d.from)
      BY <1>1, <2>1, Ends2 DEF Message
  <2> QED  BY <1>1, <1>10, <1>12, <2>2
<1>17. \A f \in Ends : Asked(f) => Asked(f)'
    BY <1>2, <1>15, <1>16, AskedKept
<1> QED  BY <1>2, <1>15, <1>17 DEF Reaches, Onward

LEMMA GetResponseChecks ==
    ASSUME IceInv, ChecksInv, NEW e \in Ends, GetResponse(e)
    PROVE  Reaches
<1>1. PICK d \in datagrams :
        /\ d.type = "response" /\ d.from = Other(e) /\ ~agent[e].closed
        /\ Send(e, Completed([agent[e] EXCEPT !.pairs[d.pair].checked = @ \cup {"write"}], d.pair),
                {}, {}, datagrams \ {d})
    BY DEF GetResponse
<1> DEFINE x == d.pair
           ag == [agent[e] EXCEPT !.pairs[x].checked = @ \cup {"write"}]
           next == Completed(ag, x)
<1>2. UNCHANGED behind
    BY DEF GetResponse
<1>3. /\ AgentInv(agent[e]) /\ AgentOk(agent[e]) /\ DOMAIN agent = Ends
      /\ EndOk(e, agent[e]) /\ (agent[e].told /\ ~agent[e].closed => e \in hole)
    BY DEF IceInv, AgentInv, ChecksInv
<1>4. x \in DOMAIN agent[e].pairs /\ x = Seen(Other(e)) /\ x # None
  <2>1. Sent(e, x)
      BY <1>1, Ends2 DEF IceInv
  <2> QED  BY <2>1, Ends2 DEF Sent, Carried
<1>5. Send(e, next, {}, {}, datagrams \ {d})
    BY <1>1
<1> HIDE DEF x
<1>6. /\ AgentInv(ag) /\ SameBut(agent[e], ag)
      /\ DOMAIN ag.pairs = DOMAIN agent[e].pairs
      /\ ag.pairs[x].checked = agent[e].pairs[x].checked \cup {"write"}
      /\ \A y \in DOMAIN agent[e].pairs \ {x} : ag.pairs[y] = agent[e].pairs[y]
    BY <1>3, <1>4, CheckedInv
<1> HIDE DEF ag
<1>7. ag \in Agents /\ x \in DOMAIN ag.pairs
    BY <1>4, <1>6 DEF AgentInv, AgentOk
<1>8. /\ next.pairs = ag.pairs /\ next.told = ag.told /\ next.closed = ag.closed
      /\ next.connecting => ag.connecting
      /\ ag.active # None => next.active # None
      /\ ag.checking => next.checking \/ next.active # None
      /\ ag.pairs[x].checked = {"read", "write"} => next.active # None
    BY <1>4, <1>7, CompletedChecks
<1> HIDE DEF next
<1>9. EndOk(e, next)
  <2>1. \A y \in DOMAIN next.pairs : next.pairs[y].checked = {"read", "write"} /\ ~next.closed => next.active # None
    <3> TAKE y \in DOMAIN next.pairs
    <3>1. CASE y = x
        BY <1>8, <3>1
    <3>2. CASE y # x
        BY <1>3, <1>6, <1>8, <3>2 DEF EndOk, SameBut
    <3> QED  BY <3>1, <3>2
  <2>2. next.connecting => next.told
      BY <1>3, <1>6, <1>8 DEF EndOk, SameBut
  <2>3. next.told => Host(Other(e)) \in DOMAIN next.pairs
      BY <1>3, <1>6, <1>8 DEF EndOk, SameBut
  <2>4. DOMAIN next.pairs \subseteq {Host(Other(e)), Mapped(Other(e))}
      BY <1>3, <1>6, <1>8 DEF EndOk
  <2>5. ~next.closed /\ next.told => next.checking \/ next.active # None
      BY <1>3, <1>6, <1>8 DEF EndOk, SameBut
  <2> QED  BY <2>1, <2>2, <2>3, <2>4, <2>5 DEF EndOk
<1>10. PICK none, rest : none = {} /\ rest = datagrams \ {d}
    OBVIOUS
<1>11. Send(e, next, none, none, rest)
    BY <1>5, <1>10
<1>12. /\ agent'[e] = next /\ \A f \in Ends \ {e} : agent'[f] = agent[f]
       /\ hole \subseteq hole' /\ hole' \subseteq hole \cup {e} /\ rest \subseteq datagrams'
    BY <1>3, <1>11, SendParts
<1>13. Grows(agent[e], next)
    BY <1>6, <1>8 DEF Grows, SameBut
<1>14. next.told = agent[e].told /\ next.closed = agent[e].closed
    BY <1>6, <1>8 DEF SameBut
<1>15. ChecksInv' /\ \A f \in Ends : Grows(agent[f], agent'[f]) /\ (agent[f].closed => agent'[f].closed)
    BY <1>3, <1>9, <1>12, <1>13, <1>14, EndMoves
<1>16. Written(e)'
  <2>1. x \in DOMAIN next.pairs /\ "write" \in next.pairs[x].checked
      BY <1>6, <1>7, <1>8
  <2>2. Seen(Other(e))' = x
      BY <1>2, <1>4 DEF Seen
  <2> QED  BY <1>12, <2>1, <2>2 DEF Written, Knows
<1>17. \A m \in datagrams :
         \/ m \in datagrams'
         \/ m.type = "response" /\ Written(Other(m.from))'
  <2>1. Other(d.from) = e
      BY <1>1, Ends2
  <2> QED  BY <1>1, <1>10, <1>12, <1>16, <2>1
<1>18. \A f \in Ends : Asked(f) => Asked(f)'
    BY <1>2, <1>15, <1>17, AskedKept
<1> QED  BY <1>2, <1>15, <1>18 DEF Reaches, Onward

LEMMA RoundsKept ==
    ASSUME RoundsInv, Onward, clear' = clear, latest' \in Ends,
           clear > 0 /\ Open => latest' = latest
    PROVE  RoundsInv'
<1>1. \A e \in Ends : Seen(e)' = Seen(e) /\ Other(e) \in Ends
    BY Ends2 DEF Onward, Seen
<1>2. \A e \in Ends : Knows(e) => Knows(e)'
    BY <1>1 DEF Knows, Onward, Grows
<1>3. Open' => Open /\ \A e \in Ends : Asked(e) => Asked(e)'
    BY DEF Onward, Open
<1>4. CASE clear > 0
  <2>1. \A e \in Ends : agent'[e].told
      BY <1>4 DEF RoundsInv, Onward, Grows
  <2>2. behind' = Ends => \A e \in Ends : Mapped(Other(e)) \in DOMAIN agent'[e].pairs
      BY <1>4 DEF RoundsInv, Onward, Grows
  <2>3. ASSUME Open'
        PROVE  /\ (\E e \in Ends : Asked(e)') \/ Knows(Other(latest))'
               /\ clear > 1 => \E e \in Ends : Asked(e)'
               /\ clear > 2 => Asked(latest)' /\ \A e \in Ends : Knows(e)'
               /\ clear > 3 => \A e \in Ends : Asked(e)'
    <3>1. Open /\ latest' = latest /\ \A e \in Ends : Asked(e) => Asked(e)'
        BY <1>3, <1>4, <2>3
    <3>2. Knows(Other(latest)) => Knows(Other(latest))'
        BY <1>1, <1>2, <3>1 DEF RoundsInv, Knows
    <3>3. Asked(latest) => Asked(latest)'
        BY <1>1, <3>1 DEF RoundsInv, Asked, Written, Knows, Asking, Replied
    <3> QED  BY <1>2, <1>4, <3>1, <3>2, <3>3 DEF RoundsInv
  <2> QED  BY <1>4, <2>1, <2>2, <2>3 DEF RoundsInv
<1>5. CASE ~(clear > 0)
    BY <1>5 DEF RoundsInv
<1> QED  BY <1>4, <1>5

\* With nothing under way, a question was answered, and both ends know each other.
LEMMA Heard ==
    ASSUME IceInv, datagrams = {}, NEW e \in Ends, Asked(e)
    PROVE  Written(e) /\ Knows(e) /\ HasRead(Other(e)) /\ Knows(Other(e))
<1>1. Written(e) /\ Knows(e)
    BY DEF Asked, Asking, Replied, Written
<1>2. HasRead(Other(e))
    BY <1>1 DEF Written, Knows, IceInv
<1> QED  BY <1>1, <1>2 DEF HasRead, Knows

\* Who was told and does not check any more has asked, and was answered.
LEMMA AtRest ==
    ASSUME IceInv, ChecksInv, NEW e \in Ends, agent[e].told, ~agent[e].closed, ~agent[e].checking
    PROVE  Asked(e)
<1>1. agent[e].active # None
    BY DEF ChecksInv, EndOk
<1>2. /\ agent[e].active \in DOMAIN agent[e].pairs
      /\ "write" \in agent[e].pairs[agent[e].active].checked
    BY <1>1 DEF IceInv, AgentInv, AgentOk
<1>3. agent[e].active = Seen(Other(e))
    BY <1>2 DEF IceInv, Sent, Carried
<1> QED  BY <1>2, <1>3 DEF Asked, Written, Knows

LEMMA CheckRounds ==
    ASSUME IceInv, ChecksInv, RoundsInv, NEW e \in Ends, Check(e)
    PROVE  RoundsInv'
<1>1. /\ Reaches /\ \A f \in Ends : agent'[f] = agent[f]
      /\ Knows(e) /\ agent[e].told /\ ~agent[e].closed /\ Carried(e, Seen(Other(e))) => Asked(e)'
    BY CheckChecks
<1>2. /\ UNCHANGED behind /\ latest' = e
      /\ clear' = IF Ready /\ datagrams = {} /\ clear < Enough THEN clear + 1 ELSE clear
      /\ agent[Other(e)].checking => latest # e
    BY DEF Check
<1>3. /\ Other(e) \in Ends /\ Other(Other(e)) = e /\ Other(e) # e
      /\ \A f \in Ends : f = e \/ f = Other(e)
    BY Ends2
<1>4. \A f \in Ends : Knows(f)' <=> Knows(f)
  <2>1. \A f \in Ends : Seen(Other(f))' = Seen(Other(f))
      BY <1>2 DEF Seen
  <2> QED  BY <1>1, <2>1 DEF Knows
<1>5. Open' <=> Open
    BY <1>1 DEF Open
<1>6. Open => \A f \in Ends : Asked(f) => Asked(f)'
    BY <1>1, <1>5 DEF Reaches, Onward
<1> DEFINE Told == \A f \in Ends : agent[f].told
<1>7. Open /\ Told /\ Knows(e) => Asked(e)'
    BY <1>1, <1>3, OpenCarried DEF Open
<1>8. Open /\ Told => latest # e \/ Asked(Other(e))'
    BY <1>2, <1>3, <1>6, AtRest DEF Open
<1>9. latest \in Ends /\ clear \in 0 .. Enough /\ Enough \in Nat
    BY IceAssumption DEF RoundsInv
<1>10. clear' \in 0 .. Enough
    BY <1>2, <1>9
<1> DEFINE Mutual == \E f \in Ends : Asked(f)'
           AllAsked == \A f \in Ends : Asked(f)'
           AllKnow == \A f \in Ends : Knows(f)
           Nat2 == behind = Ends => \A f \in Ends : Mapped(Other(f)) \in DOMAIN agent[f].pairs
<1>11. CASE clear' = clear /\ clear > 0
  <2>1. Told /\ Nat2
      BY <1>11 DEF RoundsInv
  <2>2. ASSUME Open
        PROVE  /\ Mutual \/ Knows(Other(e))
               /\ clear > 1 => Mutual
               /\ clear > 2 => Asked(e)' /\ AllKnow
               /\ clear > 3 => AllAsked
    <3>1. /\ (\E f \in Ends : Asked(f)) \/ Knows(Other(latest))
          /\ clear > 1 => \E f \in Ends : Asked(f)
          /\ clear > 2 => AllKnow
          /\ clear > 3 => \A f \in Ends : Asked(f)
        BY <1>11, <2>2 DEF RoundsInv
    <3>2. clear > 1 => Mutual
        BY <1>6, <2>2, <3>1
    <3>3. clear > 2 => Asked(e)' /\ AllKnow
        BY <1>7, <2>1, <2>2, <3>1
    <3>4. clear > 3 => AllAsked
        BY <1>6, <2>2, <3>1
    <3>5. Mutual
      <4>1. CASE \E f \in Ends : Asked(f)
          BY <1>6, <2>2, <4>1
      <4>2. CASE Knows(Other(latest)) /\ latest # e
        <5>1. Other(latest) = e
            BY <1>3, <1>9, <4>2
        <5>2. Asked(e)'
            BY <1>7, <2>1, <2>2, <4>2, <5>1
        <5> QED  BY <5>2
      <4>3. CASE latest = e
        <5>1. Asked(Other(e))'
            BY <1>8, <2>1, <2>2, <4>3
        <5> QED  BY <1>3, <5>1
      <4> QED  BY <3>1, <4>1, <4>2, <4>3
    <3> QED  BY <3>2, <3>3, <3>4, <3>5
  <2> QED  BY <1>1, <1>2, <1>3, <1>4, <1>5, <1>10, <1>11, <2>1, <2>2 DEF RoundsInv
<1>12. CASE clear' = clear + 1
  <2>1. Ready /\ datagrams = {}
      BY <1>2, <1>9, <1>12
  <2>2. Told /\ Nat2 /\ Open
      BY <2>1 DEF Ready, Open
  <2>3. \A f \in Ends : Asked(f) => Written(f) /\ AllKnow
    <3> TAKE f \in Ends
    <3>1. Asked(f) => Written(f) /\ Knows(f) /\ Knows(Other(f))
        BY <2>1, Heard
    <3> QED  BY <3>1, Ends2
  <2>4. clear > 0 => /\ (\E f \in Ends : Asked(f)) \/ Knows(Other(latest))
                     /\ clear > 1 => \E f \in Ends : Asked(f)
                     /\ clear > 2 => Asked(latest) /\ AllKnow
                     /\ clear > 3 => \A f \in Ends : Asked(f)
      BY <2>2 DEF RoundsInv
  <2>5. Mutual \/ Knows(Other(e))
    <3>1. CASE Other(e) \notin behind
      <4>1. Knows(e)
          BY <1>3, <2>2, <3>1 DEF Knows, Seen, ChecksInv, EndOk
      <4> QED  BY <1>7, <2>2, <4>1
    <3>2. CASE e \notin behind
        BY <1>3, <2>2, <3>2 DEF Knows, Seen, ChecksInv, EndOk
    <3>3. CASE e \in behind /\ Other(e) \in behind
      <4>1. behind = Ends
          BY <1>3, <3>3 DEF IceInv
      <4>2. Knows(e)
          BY <1>3, <2>2, <3>3, <4>1 DEF Knows, Seen
      <4> QED  BY <1>7, <2>2, <4>2
    <3> QED  BY <3>1, <3>2, <3>3
  <2>6. clear > 0 => Mutual
    <3>1. CASE \E f \in Ends : Asked(f)
        BY <1>6, <2>2, <3>1
    <3>2. CASE Knows(Other(latest)) /\ latest # e
      <4>1. Other(latest) = e
          BY <1>3, <1>9, <3>2
      <4> QED  BY <1>7, <2>2, <3>2, <4>1
    <3>3. CASE latest = e
      <4>1. Asked(Other(e))'
          BY <1>8, <2>2, <3>3
      <4> QED  BY <1>3, <4>1
    <3> QED  BY <2>4, <3>1, <3>2, <3>3
  <2>7. clear > 1 => AllKnow /\ Asked(e)'
    <3>1. clear > 1 => clear > 0 /\ \E f \in Ends : Asked(f)
        BY <1>9, <2>4
    <3>2. clear > 1 => AllKnow
        BY <2>3, <3>1
    <3> QED  BY <1>7, <2>2, <3>2
  <2>8. clear > 2 => AllAsked
    <3>1. clear > 2 => clear > 0 /\ Asked(latest) /\ Asked(e)'
        BY <1>9, <2>4, <2>7
    <3>2. CASE clear > 2 /\ latest # e
      <4>1. latest = Other(e)
          BY <1>3, <1>9, <3>2
      <4>2. Asked(Other(e))'
          BY <1>3, <1>6, <2>2, <3>1, <3>2, <4>1
      <4> QED  BY <1>3, <3>1, <3>2, <4>2
    <3>3. CASE clear > 2 /\ latest = e
      <4>1. Asked(Other(e))'
          BY <1>8, <2>2, <3>3
      <4> QED  BY <1>3, <3>1, <3>3, <4>1
    <3> QED  BY <3>2, <3>3
  <2>9. clear' > 1 => clear > 0
      BY <1>9, <1>12
  <2>10. clear' > 2 => clear > 1
      BY <1>9, <1>12
  <2>11. clear' > 3 => clear > 2
      BY <1>9, <1>12
  <2>12. clear' > 2 => Asked(latest)' /\ \A f \in Ends : Knows(f)'
    <3>1. Asked(e)' => Asked(latest)'
        BY <1>2 DEF Asked, Written, Knows, Asking, Replied
    <3> QED  BY <1>4, <2>7, <2>10, <3>1
  <2>13. Knows(Other(e)) => Knows(Other(latest))'
      BY <1>2, <1>3, <1>4 DEF Knows
  <2>14. \A f \in Ends : agent'[f].told
      BY <1>1, <2>2
  <2>15. behind' = Ends => \A f \in Ends : Mapped(Other(f)) \in DOMAIN agent'[f].pairs
      BY <1>1, <1>2, <2>2
  <2> HIDE DEF Told, Nat2, AllKnow
  <2> QED  BY <1>2, <1>10, <2>5, <2>6, <2>8, <2>9, <2>11, <2>12, <2>13, <2>14, <2>15 DEF RoundsInv
<1>13. CASE clear' = clear /\ ~(clear > 0)
    BY <1>2, <1>10, <1>13 DEF RoundsInv
<1> QED  BY <1>2, <1>11, <1>12, <1>13

Signals == SUBSET {"host", "serverReflexive"}

SignalsInv ==
    /\ behind \subseteq Translated /\ accepted \in BOOLEAN /\ lostDatagrams \in 0 .. MaxLoss
    /\ signals \in [Ends -> Seq(Signals)]

IceMore == ChecksInv /\ RoundsInv /\ SignalsInv

LEMMA MoreBegins ==
    ASSUME IceInit
    PROVE  IceMore
<1> DEFINE none == [x \in {} |-> 0]
           fresh == [told |-> FALSE, pairs |-> none, active |-> None, checking |-> FALSE,
                     connecting |-> FALSE, closed |-> FALSE, reflexive |-> FALSE]
<1>1. /\ \A e \in Ends : agent[e] = fresh
      /\ hole = {} /\ behind \subseteq Translated /\ accepted = FALSE
      /\ lostDatagrams = 0 /\ latest = "a" /\ clear = 0
    BY DEF IceInit
<1>2. signals \in [Ends -> Seq(Signals)]
  <2>1. {"host"} \in Signals
      BY DEF Signals
  <2> HIDE DEF Signals
  <2>2. <<>> \in Seq(Signals) /\ <<{"host"}>> \in Seq(Signals)
      BY <2>1
  <2>3. signals = [e \in Ends |-> IF e = "b" THEN <<{"host"}>> ELSE <<>>]
      BY DEF IceInit
  <2> QED  BY <2>2, <2>3
<1>3. DOMAIN none = {}
    OBVIOUS
<1> HIDE DEF none
<1>4. /\ fresh.pairs = none /\ ~fresh.told /\ ~fresh.connecting
    OBVIOUS
<1> HIDE DEF fresh
<1>5. \A e \in Ends : EndOk(e, agent[e]) /\ ~agent[e].told
    BY <1>1, <1>3, <1>4 DEF EndOk
<1>6. ChecksInv
    BY <1>1, <1>5 DEF ChecksInv
<1>7. RoundsInv
    BY <1>1, IceAssumption DEF RoundsInv, Ends
<1>8. SignalsInv
  <2>1. lostDatagrams \in 0 .. MaxLoss
      BY <1>1, IceAssumption
  <2> HIDE DEF Signals
  <2> QED  BY <1>1, <1>2, <2>1 DEF SignalsInv
<1> QED  BY <1>6, <1>7, <1>8 DEF IceMore

LEMMA MoreSignals ==
    ASSUME SignalsInv, IceNext
    PROVE  SignalsInv'
<1> USE DEF SignalsInv
<1>1. MaxLoss \in Nat
    BY IceAssumption
<1>2. {"host"} \in Signals /\ {"host", "serverReflexive"} \in Signals
    BY DEF Signals
<1> HIDE DEF Signals
<1>3. CASE Accept
  <2>1. Local("b") \in Signals
      BY <1>2 DEF Local
  <2>2. signals["a"] \in Seq(Signals)
      BY DEF Ends
  <2>3. Append(signals["a"], Local("b")) \in Seq(Signals)
      BY <2>1, <2>2, AppendProperties
  <2> QED  BY <1>3, <2>3 DEF Accept
<1>4. CASE LoseDatagram
    BY <1>1, <1>4 DEF LoseDatagram
<1>5. ASSUME NEW e \in Ends, StunAnswers(e) PROVE SignalsInv'
  <2>1. Append(signals[Other(e)], {"host", "serverReflexive"}) \in Seq(Signals)
    <3>1. signals[Other(e)] \in Seq(Signals)
        BY Ends2
    <3> QED  BY <1>2, <3>1, AppendProperties
  <2>2. /\ signals' = [signals EXCEPT ![Other(e)] = Append(signals[Other(e)], {"host", "serverReflexive"})]
        /\ UNCHANGED <<behind, lostDatagrams, accepted>>
      BY <1>5 DEF StunAnswers
  <2> QED  BY <2>1, <2>2
<1>6. ASSUME NEW e \in Ends, Signalled(e) PROVE SignalsInv'
  <2>1. /\ signals[e] # <<>> /\ signals' = [signals EXCEPT ![e] = Tail(signals[e])]
        /\ UNCHANGED <<behind, lostDatagrams, accepted>>
      BY <1>6 DEF Signalled
  <2>2. Tail(signals[e]) \in Seq(Signals)
      BY <2>1, HeadTailProperties
  <2> QED  BY <2>1, <2>2
<1>7. ASSUME NEW e \in Ends, Check(e) \/ GetRequest(e) \/ GetResponse(e) \/ Close(e) \/ Timeout(e)
      PROVE  SignalsInv'
  <2>1. UNCHANGED <<behind, signals, lostDatagrams, accepted>>
      BY <1>7 DEF Check, GetRequest, GetResponse, Close, Timeout
  <2> QED  BY <2>1
<1> QED  BY <1>3, <1>4, <1>5, <1>6, <1>7 DEF IceNext

LEMMA MoreStep ==
    ASSUME IceInv, IceMore, IceNext
    PROVE  IceMore'
<1> USE DEF IceMore
<1>1. SignalsInv'
    BY MoreSignals
<1>2. latest \in Ends
    BY DEF RoundsInv
<1>3. ASSUME UNCHANGED <<behind, hole, agent>>
      PROVE  /\ ChecksInv' /\ \A e \in Ends : Grows(agent[e], agent'[e])
             /\ \A e \in Ends : agent'[e].closed <=> agent[e].closed
  <2>1. \A e \in Ends : EndOk(e, agent[e])' <=> EndOk(e, agent[e])
      BY <1>3 DEF EndOk
  <2> QED  BY <1>3, <2>1 DEF ChecksInv, Grows
<1>4. CASE Accept
  <2>1. UNCHANGED <<behind, hole, agent, datagrams, latest, clear>>
      BY <1>4 DEF Accept
  <2>2. \A e \in Ends : Asked(e) => Asked(e)'
      BY <1>3, <2>1, AskedKept
  <2>3. Onward
      BY <1>3, <2>1, <2>2 DEF Onward
  <2> QED  BY <1>1, <1>2, <1>3, <2>1, <2>3, RoundsKept
<1>5. CASE LoseDatagram
  <2>1. UNCHANGED <<behind, hole, agent, latest>> /\ clear' = 0
      BY <1>5 DEF LoseDatagram
  <2>2. RoundsInv'
      BY <2>1, IceAssumption DEF RoundsInv
  <2> QED  BY <1>1, <1>3, <2>1, <2>2
<1>6. ASSUME NEW e \in Ends, Signalled(e) PROVE IceMore'
  <2>1. Reaches /\ (agent[e].told /\ ~agent[e].closed => latest' = latest)
      BY <1>6, SignalledChecks
  <2>2. latest' \in Ends /\ clear' = clear
      BY <1>2, <1>6 DEF Signalled
  <2>3. clear > 0 /\ Open => latest' = latest
      BY <2>1 DEF RoundsInv, Open
  <2> QED  BY <1>1, <2>1, <2>2, <2>3, RoundsKept DEF Reaches
<1>7. ASSUME NEW e \in Ends, Check(e) PROVE IceMore'
    BY <1>1, <1>7, CheckChecks, CheckRounds DEF Reaches
<1>8. ASSUME NEW e \in Ends,
             StunAnswers(e) \/ GetRequest(e) \/ GetResponse(e) \/ Close(e) \/ Timeout(e)
      PROVE  IceMore'
  <2>1. UNCHANGED <<latest, clear>>
      BY <1>8 DEF StunAnswers, GetRequest, GetResponse, Close, Timeout
  <2>2. Close(e) \/ Timeout(e) => Reaches
    <3>1. Close(e) \/ Timeout(e) =>
            Send(e, Closed(agent[e]), {}, {}, {d \in datagrams : d.from = e}) /\ UNCHANGED behind
        BY DEF Close, Timeout
    <3> QED  BY <3>1, ClosedChecks
  <2>3. Reaches
      BY <1>8, <2>2, StunAnswersChecks, GetRequestChecks, GetResponseChecks
  <2> QED  BY <1>1, <1>2, <2>1, <2>3, RoundsKept DEF Reaches
<1> QED  BY <1>4, <1>5, <1>6, <1>7, <1>8 DEF IceNext

\* What the invariant says of the rounds, and of the types.
LEMMA MoreSafe ==
    ASSUME IceInv, IceMore
    PROVE  IceTypeOK /\ ChecksSuffice
<1> USE DEF IceMore
<1>1. ChecksSuffice
  <2>1. SUFFICES ASSUME Ready, clear = Enough, datagrams = {}, NEW e \in Ends
                 PROVE  agent[e].active # None
      BY DEF ChecksSuffice
  <2>2. Open /\ clear > 3 /\ clear > 0
      BY <2>1, IceAssumption DEF Ready, Open
  <2>3. \A f \in Ends : Asked(f)
      BY <2>2 DEF RoundsInv
  <2>4. Other(e) \in Ends /\ Other(Other(e)) = e
      BY Ends2
  <2>5. Written(e) /\ HasRead(e)
      BY <2>1, <2>3, <2>4, Heard
  <2>6. agent[e].pairs \in PairMaps
      BY DEF IceInv, AgentInv, AgentOk, Agents
  <2>7. agent[e].pairs[Seen(Other(e))].checked = {"read", "write"}
    <3>1. agent[e].pairs[Seen(Other(e))].checked \subseteq {"read", "write"}
        BY <2>5, <2>6, PairsType DEF Written, Knows
    <3> QED  BY <2>5, <3>1 DEF Written, HasRead
  <2> QED  BY <2>2, <2>5, <2>7 DEF ChecksInv, EndOk, Open, Written, Knows
<1>2. \A e \in Ends :
        /\ DOMAIN agent[e].pairs \subseteq {Host(Other(e)), Mapped(Other(e))}
        /\ \A x \in DOMAIN agent[e].pairs : agent[e].pairs[x] \in PairSet
        /\ agent[e].active \in DOMAIN agent[e].pairs \cup {None}
        /\ {agent[e].told, agent[e].checking, agent[e].connecting, agent[e].closed,
            agent[e].reflexive} \subseteq BOOLEAN
  <2> TAKE e \in Ends
  <2>1. agent[e] \in Agents /\ agent[e].pairs \in PairMaps
      BY DEF IceInv, AgentInv, AgentOk, Agents
  <2>2. {agent[e].told, agent[e].checking, agent[e].connecting, agent[e].closed,
         agent[e].reflexive} \subseteq BOOLEAN
      BY <2>1 DEF Agents
  <2>3. \A x \in DOMAIN agent[e].pairs : agent[e].pairs[x] \in PairSet
      BY <2>1, PairsType
  <2>4. agent[e].active \in DOMAIN agent[e].pairs \cup {None}
      BY DEF IceInv, AgentInv, AgentOk
  <2>5. DOMAIN agent[e].pairs \subseteq {Host(Other(e)), Mapped(Other(e))}
      BY DEF ChecksInv, EndOk
  <2> QED  BY <2>2, <2>3, <2>4, <2>5
<1>3. IceTypeOK
    BY <1>2 DEF IceTypeOK, IceInv, ChecksInv, RoundsInv, SignalsInv, Signals, PairSet
<1> QED  BY <1>1, <1>3

-----------------------------------------------------------------------------
(* The relay.                                                              *)

\* The number c was given out, to p if the client still has it.
Bound(c, p) ==
    c \in Nat /\ c < nextChannel /\ (c \in DOMAIN channels => channels[c] = p)

\* Every number in a request or on the server was given out to the peer it stands for.
BoundInv ==
    /\ nextChannel \in Nat
    /\ \A c \in DOMAIN channels : c \in Nat /\ c < nextChannel
    /\ \A t \in transactions : t.method = "ChannelBind" => Bound(t.channel, t.peer)
    /\ \A m \in net : m.kind = "request" /\ m.method = "ChannelBind" => Bound(m.channel, m.peer)
    /\ \A c \in DOMAIN server.channels : Bound(c, server.channels[c])

\* What the steps read of the records they change.
ShapeInv ==
    /\ \A t \in transactions : /\ t.method \in Methods
                               /\ DOMAIN t = {"id", "method", "nonce", "channel", "peer", "tries"}
    /\ \A m \in net : m.kind = "request" => m.method \in Methods
    /\ DOMAIN server = {"by", "channels", "nonce", "grants", "knows"}
    /\ server.grants \in Nat /\ lifetime \in Nat

TurnInv == BoundInv /\ ShapeInv /\ NotStuck /\ KeptAlive

\* Numbers are given out in turn, and a channel that is left means what it meant.
ChannelsStep ==
    /\ nextChannel' \in Nat /\ nextChannel <= nextChannel'
    /\ \A c \in DOMAIN channels' :
         /\ c \in Nat /\ c < nextChannel'
         /\ c < nextChannel => c \in DOMAIN channels /\ channels'[c] = channels[c]

LEMMA BoundStep ==
    ASSUME BoundInv, ChannelsStep,
           \A t \in transactions' :
             t \in transactions \/ (t.method = "ChannelBind" => Bound(t.channel, t.peer)'),
           \A m \in net' :
             m \in net \/ (m.kind = "request" /\ m.method = "ChannelBind" => Bound(m.channel, m.peer)'),
           \A c \in DOMAIN server.channels' :
             \/ c \in DOMAIN server.channels /\ server.channels'[c] = server.channels[c]
             \/ Bound(c, server.channels[c])'
    PROVE  BoundInv'
<1>1. \A c : \A p : Bound(c, p) => Bound(c, p)'
    BY DEF BoundInv, ChannelsStep, Bound
<1>2. \A c \in DOMAIN server.channels' : Bound(c, server.channels[c])'
    BY <1>1 DEF BoundInv
<1> QED  BY <1>1, <1>2 DEF BoundInv, ChannelsStep

\* The client leaves its numbers alone, gives some up, or all.
LEMMA ChannelsKept ==
    ASSUME BoundInv, UNCHANGED nextChannel,
           \/ UNCHANGED channels
           \/ channels' = Empty
           \/ \E c : channels' = Without(channels, c)
    PROVE  ChannelsStep
<1>1. CASE UNCHANGED channels
    BY <1>1 DEF BoundInv, ChannelsStep
<1>2. CASE channels' = Empty
    BY <1>2 DEF BoundInv, ChannelsStep, Empty
<1>3. CASE \E c : channels' = Without(channels, c)
    BY <1>3 DEF BoundInv, ChannelsStep, Without, Restrict
<1> QED  BY <1>1, <1>2, <1>3

\* A transaction begins, under any identifier.
LEMMA NewParts ==
    ASSUME NEW known, NEW method, NEW n, NEW c, NEW p, NEW t, t = New(known, method, n, c, p)
    PROVE  /\ DOMAIN t = {"id", "method", "nonce", "channel", "peer", "tries"}
           /\ t.method = method /\ t.channel = c /\ t.peer = p
           /\ Wire(t).kind = "request" /\ Wire(t).method = method
           /\ Wire(t).channel = c /\ Wire(t).peer = p
    BY DEF New, Wire

LEMMA TurnBegins ==
    ASSUME TurnInit
    PROVE  TurnInv
<1>1. PICK seconds \in Lifetimes, known \in BOOLEAN :
         server = [by |-> -1, channels |-> Empty, nonce |-> 1, grants |-> seconds, knows |-> known]
    BY DEF TurnInit
<1>2. /\ DOMAIN server = {"by", "channels", "nonce", "grants", "knows"}
      /\ server.channels = Empty /\ server.grants \in Nat
    BY <1>1, TurnAssumption
<1>3. DOMAIN Empty = {}
    BY DEF Empty
<1> QED  BY <1>2, <1>3 DEF TurnInit, TurnInv, BoundInv, ShapeInv, NotStuck, KeptAlive

LEMMA RetryStep ==
    ASSUME TurnInv, Retry
    PROVE  TurnInv'
<1>1. PICK t \in transactions :
        /\ transactions' = (transactions \ {t}) \cup {[t EXCEPT !.tries = @ + 1]}
        /\ net' = net \cup {Wire(t)}
        /\ UNCHANGED <<state, used, channels, nextChannel, nonce, timer, channelTimer,
                       lifetime, server, lost, excused>>
    BY DEF Retry
<1> DEFINE again == [t EXCEPT !.tries = @ + 1]
<1>2. /\ DOMAIN again = {"id", "method", "nonce", "channel", "peer", "tries"}
      /\ again.method = t.method /\ again.channel = t.channel /\ again.peer = t.peer
    BY DEF TurnInv, ShapeInv
<1> HIDE DEF again
<1>3. \A m : Outstanding(m) => Outstanding(m)'
    BY <1>1, <1>2 DEF Outstanding, again
<1>4. BoundInv'
  <2>1. t.method = "ChannelBind" => Bound(t.channel, t.peer)'
      BY <1>1 DEF TurnInv, BoundInv, Bound
  <2>2. ChannelsStep
      BY <1>1, ChannelsKept DEF TurnInv
  <2>3. \A u \in transactions' :
          u \in transactions \/ (u.method = "ChannelBind" => Bound(u.channel, u.peer)')
      BY <1>1, <1>2, <2>1 DEF again
  <2>4. \A m \in net' :
          m \in net \/ (m.kind = "request" /\ m.method = "ChannelBind" => Bound(m.channel, m.peer)')
      BY <1>1, <2>1 DEF Wire
  <2> QED  BY <1>1, <2>2, <2>3, <2>4, BoundStep DEF TurnInv
<1> QED  BY <1>1, <1>2, <1>3, <1>4 DEF TurnInv, ShapeInv, Methods, NotStuck, KeptAlive, again, Wire

\* The requests that calls and timers begin.
LEMMA CallStep ==
    ASSUME TurnInv,
           \/ AllocationConnects \/ DisconnectFromHost \/ WriteDatagram
           \/ Refresh \/ RefreshChannel
    PROVE  TurnInv'
<1>1. CASE AllocationConnects
  <2>1. PICK t : t = New(transactions, "Allocate", NoNonce, 0, NoPeer)
      OBVIOUS
  <2>2. /\ transactions' = transactions \cup {t} /\ net' = net \cup {Wire(t)}
        /\ state' = "Connecting"
        /\ UNCHANGED <<channels, nextChannel, timer, lifetime, server>>
      BY <1>1, <2>1 DEF AllocationConnects, Begin
  <2>3. t.method = "Allocate" /\ Wire(t).method = "Allocate"
        /\ DOMAIN t = {"id", "method", "nonce", "channel", "peer", "tries"}
      BY <2>1, NewParts
  <2>4. BoundInv'
      BY <2>2, <2>3, ChannelsKept, BoundStep DEF TurnInv
  <2> QED  BY <2>2, <2>3, <2>4 DEF TurnInv, ShapeInv, Methods, NotStuck, KeptAlive, Outstanding
<1>2. CASE DisconnectFromHost
  <2>1. ChannelsStep /\ UNCHANGED <<lifetime, server>>
      BY <1>2, ChannelsKept DEF DisconnectFromHost, TurnInv
  <2>2. CASE state = "Connected"
    <3>1. PICK t : t = New({}, "Release", nonce, 0, NoPeer)
        OBVIOUS
    <3>2. transactions' = {} \cup {t} /\ net' = net \cup {Wire(t)} /\ state' = "Closing"
        BY <1>2, <2>2, <3>1 DEF DisconnectFromHost, Begin
    <3>3. t.method = "Release" /\ Wire(t).method = "Release"
          /\ DOMAIN t = {"id", "method", "nonce", "channel", "peer", "tries"}
        BY <3>1, NewParts
    <3>4. BoundInv'
        BY <2>1, <3>2, <3>3, BoundStep DEF TurnInv
    <3> QED  BY <2>1, <3>2, <3>3, <3>4 DEF TurnInv, ShapeInv, Methods, NotStuck, KeptAlive, Outstanding
  <2>3. CASE state # "Connected"
    <3>1. transactions' = {} /\ net' = net /\ state' = "Unconnected"
        BY <1>2, <2>3 DEF DisconnectFromHost
    <3>2. BoundInv'
        BY <2>1, <3>1, BoundStep DEF TurnInv
    <3> QED  BY <2>1, <3>1, <3>2 DEF TurnInv, ShapeInv, Methods, NotStuck, KeptAlive
  <2> QED  BY <2>2, <2>3
<1>3. CASE WriteDatagram
  <2>1. PICK p \in Peers :
          /\ state = "Connected" /\ channels' = With(channels, nextChannel, p)
          /\ nextChannel' = nextChannel + 1
          /\ Begin(transactions, New(transactions, "ChannelBind", nonce, nextChannel, p))
          /\ UNCHANGED <<state, timer, lifetime, server>>
      BY <1>3 DEF WriteDatagram, Number
  <2>2. PICK c, t : c = nextChannel /\ t = New(transactions, "ChannelBind", nonce, c, p)
      OBVIOUS
  <2>3. transactions' = transactions \cup {t} /\ net' = net \cup {Wire(t)}
      BY <2>1, <2>2 DEF Begin
  <2>4. /\ t.method = "ChannelBind" /\ Wire(t).method = "ChannelBind" /\ t.channel = c /\ t.peer = p
        /\ Wire(t).channel = c /\ Wire(t).peer = p
        /\ DOMAIN t = {"id", "method", "nonce", "channel", "peer", "tries"}
      BY <2>2, NewParts
  <2>5. ChannelsStep
      BY <2>1 DEF TurnInv, BoundInv, ChannelsStep, With
  <2>6. Bound(c, p)'
    <3>1. c \in Nat /\ c < nextChannel'
        BY <2>1, <2>2 DEF TurnInv, BoundInv
    <3>2. channels'[c] = p
        BY <2>1, <2>2 DEF With
    <3> QED  BY <3>1, <3>2 DEF Bound
  <2>7. BoundInv'
    <3>1. /\ t.method = "ChannelBind" => Bound(t.channel, t.peer)'
          /\ Bound(Wire(t).channel, Wire(t).peer)'
        BY <2>4, <2>6 DEF Bound
    <3> QED  BY <2>1, <2>3, <2>5, <3>1, BoundStep DEF TurnInv
  <2>8. \A m : Outstanding(m) => Outstanding(m)'
      BY <2>3 DEF Outstanding
  <2> QED  BY <2>1, <2>3, <2>4, <2>7, <2>8 DEF TurnInv, ShapeInv, Methods, NotStuck, KeptAlive
<1>4. CASE Refresh
  <2>1. PICK t : t = New(transactions, "Refresh", nonce, 0, NoPeer)
      OBVIOUS
  <2>2. /\ transactions' = transactions \cup {t} /\ net' = net \cup {Wire(t)}
        /\ UNCHANGED <<state, channels, nextChannel, lifetime, server>>
      BY <1>4, <2>1 DEF Refresh, Begin
  <2>3. t.method = "Refresh" /\ Wire(t).method = "Refresh"
        /\ DOMAIN t = {"id", "method", "nonce", "channel", "peer", "tries"}
      BY <2>1, NewParts
  <2>4. BoundInv'
      BY <2>2, <2>3, ChannelsKept, BoundStep DEF TurnInv
  <2>5. (\A m : Outstanding(m) => Outstanding(m)') /\ Outstanding("Refresh")'
      BY <2>2, <2>3 DEF Outstanding
  <2> QED  BY <2>2, <2>3, <2>4, <2>5 DEF TurnInv, ShapeInv, Methods, NotStuck, KeptAlive
<1>5. CASE RefreshChannel
  <2>1. PICK c \in DOMAIN channels :
          /\ Begin(transactions, New(transactions, "ChannelBind", nonce, c, channels[c]))
          /\ UNCHANGED <<state, channels, nextChannel, timer, lifetime, server>>
      BY <1>5 DEF RefreshChannel
  <2>2. PICK t : t = New(transactions, "ChannelBind", nonce, c, channels[c])
      OBVIOUS
  <2>3. transactions' = transactions \cup {t} /\ net' = net \cup {Wire(t)}
      BY <2>1, <2>2 DEF Begin
  <2>4. /\ t.method = "ChannelBind" /\ Wire(t).method = "ChannelBind" /\ t.channel = c /\ t.peer = channels[c]
        /\ Wire(t).channel = c /\ Wire(t).peer = channels[c]
        /\ DOMAIN t = {"id", "method", "nonce", "channel", "peer", "tries"}
      BY <2>2, NewParts
  <2>5. ChannelsStep
      BY <2>1, ChannelsKept DEF TurnInv
  <2>6. Bound(c, channels[c])'
      BY <2>1 DEF Bound, TurnInv, BoundInv
  <2>7. BoundInv'
    <3>1. /\ t.method = "ChannelBind" => Bound(t.channel, t.peer)'
          /\ Bound(Wire(t).channel, Wire(t).peer)'
        BY <2>1, <2>4, <2>6 DEF Bound
    <3> QED  BY <2>1, <2>3, <2>5, <3>1, BoundStep DEF TurnInv
  <2>8. \A m : Outstanding(m) => Outstanding(m)'
      BY <2>3 DEF Outstanding
  <2> QED  BY <2>1, <2>3, <2>4, <2>7, <2>8 DEF TurnInv, ShapeInv, Methods, NotStuck, KeptAlive
<1> QED  BY <1>1, <1>2, <1>3, <1>4, <1>5

\* A transaction ends, with an answer or without one.
LEMMA FinishStep ==
    ASSUME TurnInv, NEW t \in transactions, Succeeded(t) \/ Failed(t), Finished(t),
           net' \subseteq net, UNCHANGED server
    PROVE  TurnInv'
<1>1. /\ transactions' = transactions \ {t} /\ UNCHANGED nextChannel /\ t.method \in Methods
    BY DEF Finished, TurnInv, ShapeInv
<1>2. ChannelsStep
  <2>1. \/ UNCHANGED channels \/ \E c : channels' = Without(channels, c)
      BY DEF Succeeded, Failed
  <2> QED  BY <1>1, <2>1, ChannelsKept DEF TurnInv
<1>3. BoundInv'
    BY <1>1, <1>2, BoundStep DEF TurnInv
<1>4. \A m : Outstanding(m) /\ m # t.method => Outstanding(m)'
    BY <1>1 DEF Outstanding
<1>5. /\ lifetime \in Nat /\ server.grants \in Nat /\ lifetime' \in {lifetime, server.grants}
    BY DEF Succeeded, Failed, TurnInv, ShapeInv
<1>6. ShapeInv'
    BY <1>1, <1>5 DEF TurnInv, ShapeInv
<1>7. NotStuck' /\ KeptAlive'
  <2>1. CASE Failed(t)
    <3>1. CASE t.method = "ChannelBind"
        BY <1>4, <2>1, <3>1 DEF Failed, TurnInv, NotStuck, KeptAlive
    <3>2. CASE t.method # "ChannelBind"
        BY <2>1, <3>2 DEF Failed, NotStuck, KeptAlive
    <3> QED  BY <3>1, <3>2
  <2>2. CASE Succeeded(t)
    <3>1. t.method \in {"Allocate", "Refresh"} => timer' \/ lifetime' < 60
      <4>1. Scheduled(server.grants) \in BOOLEAN /\ (Scheduled(server.grants) \/ server.grants < 60)
          BY <1>5 DEF Scheduled
      <4>2. t.method \in {"Allocate", "Refresh"} =>
              lifetime' = server.grants /\ timer' = Scheduled(server.grants)
          BY <2>2 DEF Succeeded
      <4> QED  BY <4>1, <4>2
    <3>2. t.method \notin {"Allocate", "Refresh"} => UNCHANGED <<lifetime, timer>>
        BY <2>2 DEF Succeeded
    <3>3. CASE t.method = "Allocate"
        BY <2>2, <3>1, <3>3 DEF Succeeded, NotStuck, KeptAlive
    <3>4. CASE t.method = "Release"
        BY <2>2, <3>4 DEF Succeeded, NotStuck, KeptAlive
    <3>5. CASE t.method \in {"Refresh", "ChannelBind"}
      <4>1. state' = state
          BY <2>2, <3>5 DEF Succeeded
      <4> QED  BY <1>4, <3>1, <3>2, <3>5, <4>1 DEF TurnInv, NotStuck, KeptAlive
    <3> QED  BY <1>1, <3>3, <3>4, <3>5 DEF Methods
  <2> QED  BY <2>1, <2>2
<1> QED  BY <1>3, <1>6, <1>7 DEF TurnInv

\* The request is repeated, with the nonce the server asks for.
LEMMA AuthenticatedStep ==
    ASSUME TurnInv, NEW t \in transactions, NEW m \in net, Authenticated(t, m),
           UNCHANGED server
    PROVE  TurnInv'
<1>1. PICK again : again = New(transactions, t.method, m.nonce, t.channel, t.peer)
    OBVIOUS
<1>2. /\ transactions' = (transactions \ {t}) \cup {again}
      /\ net' = (net \ {m}) \cup {Wire(again)}
      /\ UNCHANGED <<state, channels, nextChannel, timer, lifetime>>
    BY <1>1 DEF Authenticated
<1>3. /\ again.method = t.method /\ again.channel = t.channel /\ again.peer = t.peer
      /\ Wire(again).method = t.method /\ Wire(again).channel = t.channel
      /\ Wire(again).peer = t.peer
      /\ DOMAIN again = {"id", "method", "nonce", "channel", "peer", "tries"}
    BY <1>1, NewParts
<1>4. \A method : Outstanding(method) => Outstanding(method)'
    BY <1>2, <1>3 DEF Outstanding
<1>5. BoundInv'
  <2>1. /\ again.method = "ChannelBind" => Bound(again.channel, again.peer)'
        /\ again.method = "ChannelBind" => Bound(Wire(again).channel, Wire(again).peer)'
      BY <1>2, <1>3 DEF TurnInv, BoundInv, Bound
  <2>2. ChannelsStep
      BY <1>2, ChannelsKept DEF TurnInv
  <2> QED  BY <1>2, <1>3, <2>1, <2>2, BoundStep DEF TurnInv
<1> QED  BY <1>2, <1>3, <1>4, <1>5 DEF TurnInv, ShapeInv, NotStuck, KeptAlive

\* What the server gives, it gives to the peer of the request.
LEMMA ServerStep ==
    ASSUME TurnInv, ServerAnswers
    PROVE  TurnInv'
<1>1. PICK q \in net, code \in {"401", "ok", "error"} :
        /\ q.kind = "request" /\ net' = (net \ {q}) \cup {Answer(q, code)}
        /\ server' \in {server, Granted(q)}
        /\ UNCHANGED client
    BY DEF ServerAnswers
<1>2. /\ Answer(q, code).kind = "response" /\ q.method \in Methods
      /\ UNCHANGED <<state, transactions, channels, nextChannel, timer, lifetime>>
    BY <1>1 DEF Answer, client, TurnInv, ShapeInv
<1>3. /\ DOMAIN server' = DOMAIN server /\ server'.grants = server.grants
      /\ \A c \in DOMAIN server'.channels :
           \/ c \in DOMAIN server.channels /\ server'.channels[c] = server.channels[c]
           \/ q.method = "ChannelBind" /\ c = q.channel /\ server'.channels[c] = q.peer
  <2> USE DEF TurnInv, ShapeInv
  <2>1. CASE server' = server
      BY <2>1
  <2>2. CASE server' = [server EXCEPT !.by = q.id]
      BY <2>2
  <2>3. CASE server' = [server EXCEPT !.by = -1, !.channels = Empty]
      BY <2>3 DEF Empty
  <2>4. CASE q.method = "ChannelBind" /\ server' = [server EXCEPT !.channels = With(@, q.channel, q.peer)]
      BY <2>4 DEF With
  <2>5. /\ q.method = "Allocate" => Granted(q) = [server EXCEPT !.by = q.id]
        /\ q.method = "Refresh" => Granted(q) = server
        /\ q.method = "Release" => Granted(q) = [server EXCEPT !.by = -1, !.channels = Empty]
        /\ q.method = "ChannelBind" =>
             Granted(q) = [server EXCEPT !.channels = With(@, q.channel, q.peer)]
      BY DEF Granted
  <2> QED  BY <1>1, <1>2, <2>1, <2>2, <2>3, <2>4, <2>5 DEF Methods
<1>4. ChannelsStep
    BY <1>2, ChannelsKept DEF TurnInv
<1>5. q.method = "ChannelBind" => Bound(q.channel, q.peer)'
    BY <1>1, <1>2 DEF TurnInv, BoundInv, Bound
<1>6. BoundInv'
  <2>1. \A m \in net' :
          m \in net \/ (m.kind = "request" /\ m.method = "ChannelBind" => Bound(m.channel, m.peer)')
      BY <1>1, <1>2
  <2>2. \A c \in DOMAIN server.channels' :
          \/ c \in DOMAIN server.channels /\ server.channels'[c] = server.channels[c]
          \/ Bound(c, server.channels[c])'
      BY <1>3, <1>5
  <2> QED  BY <1>2, <1>4, <2>1, <2>2, BoundStep DEF TurnInv
<1>7. NotStuck' /\ KeptAlive'
    BY <1>2 DEF TurnInv, NotStuck, KeptAlive, Outstanding
<1>8. ShapeInv'
    BY <1>1, <1>2, <1>3 DEF TurnInv, ShapeInv
<1> QED  BY <1>6, <1>7, <1>8 DEF TurnInv

\* Every step of the allocation and of its server keeps the invariant.
LEMMA TurnStep ==
    ASSUME TurnInv, TurnNext
    PROVE  TurnInv'
<1>1. ASSUME net' \subseteq net, UNCHANGED client,
             \/ UNCHANGED server
             \/ server' = [server EXCEPT !.nonce = @ + 1]
             \/ server' = [server EXCEPT !.by = -1, !.channels = Empty]
      PROVE  TurnInv'
  <2>1. /\ DOMAIN server' = DOMAIN server /\ server'.grants = server.grants
        /\ DOMAIN server'.channels \subseteq DOMAIN server.channels
        /\ \A c \in DOMAIN server'.channels : server'.channels[c] = server.channels[c]
    <3> USE DEF TurnInv, ShapeInv
    <3>1. CASE UNCHANGED server
        BY <3>1
    <3>2. CASE server' = [server EXCEPT !.nonce = @ + 1]
        BY <3>2
    <3>3. CASE server' = [server EXCEPT !.by = -1, !.channels = Empty]
      <4>1. server'.channels = Empty /\ DOMAIN Empty = {}
          BY <3>3 DEF Empty
      <4>2. DOMAIN server' = DOMAIN server /\ server'.grants = server.grants
          BY <3>3
      <4> QED  BY <4>1, <4>2
    <3> QED  BY <1>1, <3>1, <3>2, <3>3
  <2>2. UNCHANGED <<state, transactions, channels, nextChannel, timer, lifetime>>
      BY <1>1 DEF client
  <2>3. BoundInv'
      BY <1>1, <2>1, <2>2, ChannelsKept, BoundStep DEF TurnInv
  <2>4. ShapeInv'
      BY <1>1, <2>1, <2>2 DEF TurnInv, ShapeInv
  <2> QED  BY <2>2, <2>3, <2>4 DEF TurnInv, NotStuck, KeptAlive, Outstanding
<1>2. CASE Rotate \/ Expire \/ Lose \/ GetLateAnswer
    BY <1>1, <1>2 DEF Rotate, Expire, Lose, GetLateAnswer
<1>3. CASE GiveUp
  <2>1. PICK t \in transactions : Failed(t) /\ Finished(t)
      BY <1>3 DEF GiveUp
  <2> QED  BY <1>3, <2>1, FinishStep DEF GiveUp
<1>4. CASE GetAnswer
  <2>1. PICK m \in net, t \in transactions :
          IF WantsNonce(m.code) THEN Authenticated(t, m)
          ELSE /\ IF m.code = "ok" THEN Succeeded(t) ELSE Failed(t)
               /\ Finished(t) /\ net' = net \ {m}
      BY <1>4 DEF GetAnswer
  <2>2. UNCHANGED server
      BY <1>4 DEF GetAnswer
  <2> QED  BY <2>1, <2>2, FinishStep, AuthenticatedStep
<1> QED  BY <1>2, <1>3, <1>4, RetryStep, CallStep, ServerStep DEF TurnNext, Timers, Answers

-----------------------------------------------------------------------------
(* What the requests and the answers under way say of the allocation.      *)

\* Whatever has the identifier of a transaction is its request or the answer to it.
IdsInv ==
    /\ IsFiniteSet(transactions) /\ IsFiniteSet(net) /\ server.by \in Nat \cup {-1}
    /\ \A t \in transactions : t.id \in Nat
    /\ \A t, u \in transactions : t.id = u.id => t = u
    /\ \A m \in net : m.id \in Nat /\ m.kind \in {"request", "response"}
    /\ \A t \in transactions, m \in net : m.id = t.id =>
         /\ m.method = t.method
         /\ m.kind = "request" => m.channel = t.channel /\ m.nonce = t.nonce

NoncesInv ==
    /\ server.nonce \in Nat \ {0} /\ nonce \in 0 .. server.nonce
    /\ \A t \in transactions : t.nonce = nonce
    /\ \A m \in net : m.nonce \in 0 .. server.nonce

\* Before it knows the nonce the client has only asked for the allocation.
Beginning ==
    /\ ~used => /\ state = "Unconnected" /\ transactions = {} /\ net = {}
                /\ nonce = NoNonce /\ DOMAIN channels = {}
    /\ nonce = NoNonce =>
         /\ state = "Connecting" \/ (state = "Unconnected" /\ transactions = {})
         /\ ~timer /\ ~channelTimer /\ ~Allocated
         /\ \A m \in net : m.kind = "request" => m.nonce = NoNonce

\* What is under way in each state.
StatesInv ==
    /\ state \in {"Unconnected", "Connecting", "Connected", "Closing"}
    /\ \A t \in transactions : /\ state = "Connecting" <=> t.method = "Allocate"
                               /\ state = "Closing" <=> t.method = "Release"
    /\ state \in {"Connecting", "Closing"} =>
         ~timer /\ ~channelTimer /\ \A t, u \in transactions : t = u
    /\ \A m \in net : m.method = "Release" => state \in {"Closing", "Unconnected"}
    /\ state = "Connecting" => DOMAIN channels = {}

\* The allocation of a connecting client is that of its transaction.
AllocatesInv ==
    /\ ~server.knows => ~Allocated
    /\ state = "Connecting" => \A t \in transactions :
         /\ server.by \in {-1, t.id}
         /\ \A m \in net : m.kind = "request" /\ m.nonce # NoNonce => m.id = t.id
         /\ \A m \in net : m.kind = "response" /\ m.id = t.id /\ m.code = "ok" => server.by = t.id

\* A connected client either has its allocation or will never have one again.
ServesInv ==
    state = "Connected" =>
      IF Allocated
      THEN /\ \A c \in DOMAIN channels : Binding(c) \/ c \in DOMAIN server.channels
           /\ \A t \in transactions, m \in net :
                /\ t.method = "ChannelBind" /\ m.kind = "response" /\ m.id = t.id /\ m.code = "ok"
                => t.channel \in DOMAIN server.channels
      ELSE ~LateAllocate

\* What an answer says of the allocation, as long as the nonce lasts.
ReleasesInv ==
    ~excused =>
      /\ server.nonce = 1
      /\ state \in {"Closing", "Unconnected"} => ~LateAllocate \/ ~server.knows
      /\ state = "Unconnected" => ~Allocated
      /\ \A t \in transactions, m \in net : m.kind = "response" /\ m.id = t.id =>
           /\ t.method = "Release" => ~Allocated
           /\ t.method = "Refresh" /\ state = "Connected" /\ m.code # "ok" => ~Allocated
           /\ t.method = "Allocate" /\ m.code # "ok" =>
                (nonce = NoNonce /\ m.code = "401") \/ ~server.knows

RelayInv ==
    /\ IdsInv /\ NoncesInv /\ Beginning /\ StatesInv
    /\ AllocatesInv /\ ServesInv /\ ReleasesInv
LEMMA IdsCounted ==
    ASSUME NEW S, IsFiniteSet(S)
    PROVE  /\ IsFiniteSet({x.id : x \in S}) /\ Cardinality({x.id : x \in S}) \in Nat
           /\ Cardinality({x.id : x \in S}) <= Cardinality(S) /\ Cardinality(S) \in Nat
<1> DEFINE T == {x.id : x \in S}
           f == [x \in S |-> x.id]
<1>1. f \in Surjection(S, T)
    BY DEF Surjection
<1> HIDE DEF T, f
<1>2. IsFiniteSet(T) /\ Cardinality(T) <= Cardinality(S)
    BY <1>1, FS_Surjection
<1> QED  BY <1>2, FS_CardinalityType DEF T

LEMMA Fresh ==
    ASSUME IdsInv, NEW known, known \subseteq transactions
    PROVE  /\ FreshId(known) \in Nat /\ server.by # FreshId(known)
           /\ \A t \in known : t.id # FreshId(known)
           /\ \A m \in net : m.id # FreshId(known)
<1> DEFINE A == {t.id : t \in known}
           B == {m.id : m \in net}
           n == Cardinality(known) + Cardinality(net) + 1
<1>1. IsFiniteSet(known) /\ IsFiniteSet(net)
    BY FS_Subset DEF IdsInv
<1>2. /\ IsFiniteSet(A) /\ Cardinality(A) \in Nat /\ Cardinality(A) <= Cardinality(known)
      /\ Cardinality(known) \in Nat
    BY <1>1, IdsCounted
<1>3. /\ IsFiniteSet(B) /\ Cardinality(B) \in Nat /\ Cardinality(B) <= Cardinality(net)
      /\ Cardinality(net) \in Nat
    BY <1>1, IdsCounted
<1>4. \A t \in known : t.id \in A
    OBVIOUS
<1>5. \A m \in net : m.id \in B
    OBVIOUS
<1> HIDE DEF A, B
<1>6. IsFiniteSet(A \cup B) /\ Cardinality(A \cup B) <= Cardinality(A) + Cardinality(B) /\ Cardinality(A \cup B) \in Nat
  <2>1. IsFiniteSet(A \cap B) /\ Cardinality(A \cap B) \in Nat
    <3>1. (A \cap B) \in SUBSET A
        OBVIOUS
    <3>2. IsFiniteSet(A \cap B)
        BY <1>2, <3>1, FS_Subset
    <3> QED  BY <3>2, FS_CardinalityType
  <2>2. IsFiniteSet(A \cup B) /\ Cardinality(A \cup B) = Cardinality(A) + Cardinality(B) - Cardinality(A \cap B)
      BY <1>2, <1>3, FS_Union
  <2>3. Cardinality(A \cup B) \in Nat
      BY <2>2, FS_CardinalityType
  <2> QED  BY <1>2, <1>3, <2>1, <2>2, <2>3
<1> DEFINE C == (A \cup B) \cup {server.by}
<1>7. IsFiniteSet(C) /\ Cardinality(C) <= Cardinality(A \cup B) + 1 /\ Cardinality(C) \in Nat
  <2>1. /\ IsFiniteSet(C)
        /\ Cardinality(C) = IF server.by \in A \cup B THEN Cardinality(A \cup B) ELSE Cardinality(A \cup B) + 1
      BY <1>6, FS_AddElement
  <2> QED  BY <1>6, <2>1
<1>8. n \in Nat /\ Cardinality(C) < n + 1
    BY <1>2, <1>3, <1>6, <1>7
<1> HIDE DEF C
<1>9. \E i \in 0 .. n : i \notin C
  <2>1. SUFFICES ASSUME \A i \in 0 .. n : i \in C PROVE FALSE
      OBVIOUS
  <2>2. (0 .. n) \in SUBSET C
      BY <2>1
  <2>3. Cardinality(0 .. n) <= Cardinality(C)
      BY <1>7, <2>2, FS_Subset
  <2>4. Cardinality(0 .. n) = n + 1
    <3> HIDE DEF n
    <3>1. 0 \in Int /\ n \in Int /\ ~(0 > n) /\ n - 0 + 1 = n + 1
        BY <1>8
    <3> QED  BY <3>1, FS_Interval
  <2> QED  BY <1>7, <1>8, <2>3, <2>4
<1> DEFINE Free1(i) == (\A t \in known : t.id # i) /\ (\A m \in net : m.id # i) /\ server.by # i
<1>10. \E i \in 0 .. n : Free1(i)
    BY <1>4, <1>5, <1>9 DEF C
<1>11. FreshId(known) = CHOOSE i \in 0 .. n : Free1(i)
    BY DEF FreshId
<1> HIDE DEF Free1
<1>12. FreshId(known) \in 0 .. n /\ Free1(FreshId(known))
    BY <1>10, <1>11
<1> QED  BY <1>8, <1>12 DEF Free1

LEMMA NewNames ==
    ASSUME IdsInv, NEW known, known \subseteq transactions,
           NEW method, NEW n, NEW c, NEW p, NEW t, t = New(known, method, n, c, p)
    PROVE  /\ t.id \in Nat /\ server.by # t.id
           /\ \A u \in known : u.id # t.id
           /\ \A m \in net : m.id # t.id
           /\ t.method = method /\ t.nonce = n /\ t.channel = c
<1>1. t.id = FreshId(known) /\ t.method = method /\ t.nonce = n /\ t.channel = c
    BY DEF New
<1> QED  BY <1>1, Fresh

LEMMA WireNames ==
    ASSUME NEW t
    PROVE  /\ Wire(t).kind = "request" /\ Wire(t).id = t.id /\ Wire(t).method = t.method
           /\ Wire(t).nonce = t.nonce /\ Wire(t).channel = t.channel
    BY DEF Wire

\* A transaction that begins has its identifier to itself.
LEMMA IdsBegin ==
    ASSUME IdsInv, NEW rest, rest \subseteq transactions, NEW t, t.id \in Nat,
           \A u \in rest : u.id # t.id, \A m \in net : m.id # t.id,
           transactions' = rest \cup {t}, net' \subseteq net \cup {Wire(t)}, server'.by = server.by
    PROVE  IdsInv'
<1>1. IsFiniteSet(transactions')
  <2>1. IsFiniteSet(rest)
      BY FS_Subset DEF IdsInv
  <2> QED  BY <2>1, FS_AddElement
<1>2. IsFiniteSet(net')
  <2>1. IsFiniteSet(net \cup {Wire(t)})
      BY FS_AddElement DEF IdsInv
  <2> QED  BY <2>1, FS_Subset
<1>3. \A u, v \in transactions' : u.id = v.id => u = v
    BY DEF IdsInv
<1>4. \A m \in net' : m \in net \/ m = Wire(t)
    OBVIOUS
<1>5. \A m \in net' : m.id \in Nat /\ m.kind \in {"request", "response"}
    BY <1>4, WireNames DEF IdsInv
<1>6. \A u \in transactions', m \in net' : m.id = u.id =>
        /\ m.method = u.method
        /\ m.kind = "request" => m.channel = u.channel /\ m.nonce = u.nonce
    BY <1>4, WireNames DEF IdsInv
<1> QED  BY <1>1, <1>2, <1>3, <1>5, <1>6 DEF IdsInv

LEMMA IdsFewer ==
    ASSUME IdsInv, transactions' \subseteq transactions, net' \subseteq net, server'.by \in {server.by, -1}
    PROVE  IdsInv'
<1>1. IsFiniteSet(transactions') /\ IsFiniteSet(net')
    BY FS_Subset DEF IdsInv
<1> QED  BY <1>1 DEF IdsInv

LEMMA NoncesKept ==
    ASSUME NoncesInv, server'.nonce = server.nonce, nonce' = nonce,
           \A t \in transactions' : t \in transactions \/ t.nonce = nonce,
           \A m \in net' : m \in net \/ m.nonce = nonce \/ m.nonce = server.nonce
    PROVE  NoncesInv'
    BY DEF NoncesInv

\* A refresh, or the binding of a channel.
LEMMA AsksStep ==
    ASSUME RelayInv, NEW t, NEW n, NEW p,
           t = New(transactions, t.method, nonce, n, p), t.method \in {"Refresh", "ChannelBind"},
           transactions' = transactions \cup {t}, net' = net \cup {Wire(t)},
           state \notin {"Connecting", "Closing"}, nonce # NoNonce,
           UNCHANGED <<state, used, nonce, server, excused>>,
           \A c \in DOMAIN channels' : c \in DOMAIN channels \/ (t.method = "ChannelBind" /\ c = t.channel)
    PROVE  RelayInv'
<1> USE DEF RelayInv
<1>1. /\ t.id \in Nat /\ server.by # t.id /\ t.nonce = nonce
      /\ \A u \in transactions : u.id # t.id
      /\ \A m \in net : m.id # t.id
    BY NewNames
<1>2. /\ Wire(t).kind = "request" /\ Wire(t).id = t.id /\ Wire(t).method = t.method /\ Wire(t).nonce = nonce
    BY <1>1, WireNames
<1>3. IdsInv'
    BY <1>1, IdsBegin
<1>4. NoncesInv'
    BY <1>1, <1>2, NoncesKept
<1>5. Beginning'
    BY DEF Beginning
<1>6. StatesInv'
    BY <1>2 DEF StatesInv
<1>7. AllocatesInv'
    BY <1>1, <1>2 DEF AllocatesInv, Allocated
<1>8. LateAllocate' => LateAllocate
    BY <1>2 DEF LateAllocate
<1>9. \A m \in net', u \in transactions' : m.kind = "response" /\ m.id = u.id => m \in net /\ u \in transactions
  <2>1. \A m \in net' : m.kind = "response" => m \in net
      BY <1>2
  <2>2. \A m \in net : m.id # t.id
      BY <1>1
  <2> QED  BY <2>1, <2>2
<1>10. ServesInv'
  <2>1. \A c : Binding(c) => Binding(c)'
      BY DEF Binding
  <2>2. t.method = "ChannelBind" => Binding(t.channel)'
      BY DEF Binding
  <2> QED  BY <1>8, <1>9, <2>1, <2>2 DEF ServesInv, Allocated
<1>11. ReleasesInv'
    BY <1>8, <1>9 DEF ReleasesInv, Allocated
<1> QED  BY <1>3, <1>4, <1>5, <1>6, <1>7, <1>10, <1>11

\* What is begun by a call or by a timer.
LEMMA RelayCalls ==
    ASSUME RelayInv, TurnInv,
           \/ AllocationConnects \/ DisconnectFromHost \/ WriteDatagram
           \/ Refresh \/ RefreshChannel
    PROVE  RelayInv'
<1> USE DEF RelayInv
<1>1. CASE AllocationConnects
  <2>1. PICK t : t = New(transactions, "Allocate", NoNonce, 0, NoPeer)
      OBVIOUS
  <2>2. /\ state = "Unconnected" /\ ~used /\ used' = TRUE /\ state' = "Connecting"
        /\ transactions' = transactions \cup {t} /\ net' = net \cup {Wire(t)}
        /\ UNCHANGED <<channels, nonce, timer, channelTimer, server, excused>>
      BY <1>1, <2>1 DEF AllocationConnects, Begin
  <2>3. transactions = {} /\ net = {} /\ nonce = NoNonce /\ DOMAIN channels = {} /\ ~timer /\ ~channelTimer
        /\ ~Allocated
      BY <2>2 DEF Beginning
  <2>4. /\ t.id \in Nat /\ t.method = "Allocate" /\ t.nonce = NoNonce
        /\ \A m \in net : m.id # t.id
      BY <2>1, NewNames
  <2>5. /\ Wire(t).kind = "request" /\ Wire(t).id = t.id /\ Wire(t).method = "Allocate" /\ Wire(t).nonce = NoNonce
      BY <2>4, WireNames
  <2>6. transactions' = {t} /\ net' = {Wire(t)}
      BY <2>2, <2>3
  <2>7. IdsInv'
      BY <2>2, <2>3, <2>4, IdsBegin
  <2>8. NoncesInv'
      BY <2>2, <2>3, <2>4, <2>5, NoncesKept
  <2>9. Beginning'
      BY <2>2, <2>3, <2>5, <2>6 DEF Beginning, Allocated
  <2>10. StatesInv'
      BY <2>2, <2>3, <2>4, <2>5, <2>6 DEF StatesInv
  <2>11. AllocatesInv'
      BY <2>2, <2>3, <2>5, <2>6 DEF AllocatesInv, Allocated
  <2>12. ServesInv'
      BY <2>2 DEF ServesInv
  <2>13. ReleasesInv'
      BY <2>2, <2>5, <2>6 DEF ReleasesInv
  <2> QED  BY <2>7, <2>8, <2>9, <2>10, <2>11, <2>12, <2>13
<1>2. CASE DisconnectFromHost
  <2>1. /\ used /\ channelTimer' = FALSE /\ timer' = FALSE /\ channels' = Empty
        /\ UNCHANGED <<used, nonce, server>>
      BY <1>2 DEF DisconnectFromHost
  <2>2. CASE state = "Connected"
    <3>1. PICK t : t = New({}, "Release", nonce, 0, NoPeer)
        OBVIOUS
    <3>2. /\ transactions' = {t} /\ net' = net \cup {Wire(t)} /\ state' = "Closing"
          /\ excused' = (excused \/ LateAllocate)
        BY <1>2, <2>2, <3>1 DEF DisconnectFromHost, Begin
    <3>3. /\ t.id \in Nat /\ t.method = "Release" /\ t.nonce = nonce /\ nonce # NoNonce
          /\ \A m \in net : m.id # t.id
      <4>1. nonce # NoNonce
          BY <2>2 DEF Beginning
      <4> QED  BY <3>1, <4>1, NewNames
    <3>4. /\ Wire(t).kind = "request" /\ Wire(t).id = t.id /\ Wire(t).method = "Release" /\ Wire(t).nonce = nonce
        BY <3>3, WireNames
    <3>5. IdsInv'
      <4>1. PICK rest : rest = {}
          OBVIOUS
      <4>2. /\ rest \subseteq transactions /\ transactions' = rest \cup {t}
            /\ \A u \in rest : u.id # t.id
          BY <3>2, <4>1
      <4>3. net' \subseteq net \cup {Wire(t)} /\ server'.by = server.by
          BY <2>1, <3>2
      <4> QED  BY <3>3, <4>2, <4>3, IdsBegin
    <3>6. NoncesInv'
        BY <2>1, <3>2, <3>3, <3>4, NoncesKept
    <3>7. Beginning'
        BY <2>1, <3>3 DEF Beginning
    <3>8. StatesInv'
        BY <2>1, <2>2, <3>2, <3>3, <3>4 DEF StatesInv
    <3>9. AllocatesInv' /\ ServesInv'
        BY <2>1, <3>2 DEF AllocatesInv, ServesInv, Allocated
    <3>10. ReleasesInv'
      <4>1. LateAllocate' => LateAllocate
          BY <3>2, <3>4 DEF LateAllocate
      <4>2. \A m \in net' : m.kind = "response" => m.id # t.id
          BY <3>2, <3>3, <3>4
      <4>3. ~excused' => ~excused /\ ~LateAllocate'
          BY <3>2, <4>1
      <4> QED  BY <2>1, <3>2, <4>2, <4>3 DEF ReleasesInv
    <3> QED  BY <3>5, <3>6, <3>7, <3>8, <3>9, <3>10
  <2>3. CASE state # "Connected"
    <3>1. /\ transactions' = {} /\ net' = net /\ state' = "Unconnected"
          /\ excused' = (excused \/ state # "Unconnected")
        BY <1>2, <2>3 DEF DisconnectFromHost
    <3>2. IdsInv'
        BY <2>1, <3>1, IdsFewer
    <3>3. NoncesInv'
        BY <2>1, <3>1, NoncesKept
    <3>4. Beginning'
        BY <2>1, <3>1 DEF Beginning, Allocated
    <3>5. StatesInv' /\ AllocatesInv' /\ ServesInv'
        BY <2>1, <3>1 DEF StatesInv, AllocatesInv, ServesInv, Allocated
    <3>6. ReleasesInv'
      <4>1. ~excused' => ~excused /\ state = "Unconnected"
          BY <3>1
      <4> QED  BY <2>1, <3>1, <4>1 DEF ReleasesInv, LateAllocate, Allocated
    <3> QED  BY <3>2, <3>3, <3>4, <3>5, <3>6
  <2> QED  BY <2>2, <2>3
<1>3. CASE WriteDatagram
  <2>1. PICK p \in Peers :
          /\ state = "Connected" /\ channels' = With(channels, nextChannel, p)
          /\ Begin(transactions, New(transactions, "ChannelBind", nonce, nextChannel, p))
          /\ UNCHANGED <<state, used, nonce, server, excused>>
      BY <1>3 DEF WriteDatagram, Number
  <2>2. PICK t : t = New(transactions, "ChannelBind", nonce, nextChannel, p)
      OBVIOUS
  <2>3. /\ transactions' = transactions \cup {t} /\ net' = net \cup {Wire(t)}
        /\ t.method = "ChannelBind" /\ t.channel = nextChannel
      BY <2>1, <2>2, NewNames DEF Begin
  <2>4. nonce # NoNonce
      BY <2>1 DEF Beginning
  <2>5. \A c \in DOMAIN channels' : c \in DOMAIN channels \/ c = t.channel
      BY <2>1, <2>3 DEF With
  <2> QED  BY <2>1, <2>2, <2>3, <2>4, <2>5, AsksStep
<1>4. CASE Refresh
  <2>1. PICK t : t = New(transactions, "Refresh", nonce, 0, NoPeer)
      OBVIOUS
  <2>2. /\ timer /\ transactions' = transactions \cup {t} /\ net' = net \cup {Wire(t)}
        /\ UNCHANGED <<state, used, channels, nonce, server, excused>>
      BY <1>4, <2>1 DEF Refresh, Begin
  <2>3. t.method = "Refresh"
      BY <2>1, NewNames
  <2>4. nonce # NoNonce /\ state \notin {"Connecting", "Closing"}
      BY <2>2 DEF Beginning, StatesInv
  <2> QED  BY <2>1, <2>2, <2>3, <2>4, AsksStep
<1>5. CASE RefreshChannel
  <2>1. PICK c \in DOMAIN channels :
          /\ channelTimer
          /\ Begin(transactions, New(transactions, "ChannelBind", nonce, c, channels[c]))
          /\ UNCHANGED <<state, used, channels, nonce, server, excused>>
      BY <1>5 DEF RefreshChannel
  <2>2. PICK t : t = New(transactions, "ChannelBind", nonce, c, channels[c])
      OBVIOUS
  <2>3. /\ transactions' = transactions \cup {t} /\ net' = net \cup {Wire(t)}
        /\ t.method = "ChannelBind"
      BY <2>1, <2>2, NewNames DEF Begin
  <2>4. nonce # NoNonce /\ state \notin {"Connecting", "Closing"}
      BY <2>1 DEF Beginning, StatesInv
  <2> QED  BY <2>1, <2>2, <2>3, <2>4, AsksStep
<1> QED  BY <1>1, <1>2, <1>3, <1>4, <1>5

\* A request that is repeated.
LEMMA RelayRetries ==
    ASSUME RelayInv, TurnInv, Retry
    PROVE  RelayInv'
<1> USE DEF RelayInv
<1>1. PICK t \in transactions :
        /\ transactions' = (transactions \ {t}) \cup {[t EXCEPT !.tries = @ + 1]}
        /\ net' = net \cup {Wire(t)}
        /\ UNCHANGED <<state, used, channels, nonce, timer, channelTimer, server, excused>>
    BY DEF Retry
<1> DEFINE again == [t EXCEPT !.tries = @ + 1]
<1>2. /\ again.id = t.id /\ again.method = t.method /\ again.nonce = t.nonce /\ again.channel = t.channel
    BY DEF TurnInv, ShapeInv
<1>3. transactions' = (transactions \ {t}) \cup {again}
    BY <1>1
<1> HIDE DEF again
<1>4. \A u \in transactions' : \E v \in transactions :
        u.id = v.id /\ u.method = v.method /\ u.nonce = v.nonce /\ u.channel = v.channel
    BY <1>2, <1>3
<1>5. /\ Wire(t).kind = "request" /\ Wire(t).id = t.id /\ Wire(t).method = t.method /\ Wire(t).nonce = t.nonce
      /\ Wire(t).channel = t.channel
    BY WireNames
<1>6. IdsInv'
  <2>1. IsFiniteSet(transactions') /\ IsFiniteSet(net')
    <3>1. IsFiniteSet(transactions) /\ IsFiniteSet(net)
        BY DEF IdsInv
    <3>2. IsFiniteSet(transactions \ {t})
        BY <3>1, FS_RemoveElement
    <3>3. IsFiniteSet((transactions \ {t}) \cup {again})
        BY <3>2, FS_AddElement
    <3>4. IsFiniteSet(net \cup {Wire(t)})
        BY <3>1, FS_AddElement
    <3> QED  BY <1>1, <1>3, <3>3, <3>4
  <2>2. \A u, v \in transactions' : u.id = v.id => u = v
      BY <1>2, <1>3 DEF IdsInv
  <2>3. \A u \in transactions', m \in net' : m.id = u.id =>
          /\ m.method = u.method
          /\ m.kind = "request" => m.channel = u.channel /\ m.nonce = u.nonce
    <3>1. \A v \in transactions, m \in net' : m.id = v.id =>
            /\ m.method = v.method
            /\ m.kind = "request" => m.channel = v.channel /\ m.nonce = v.nonce
        BY <1>1, <1>5 DEF IdsInv
    <3> QED  BY <1>4, <3>1
  <2> QED  BY <1>1, <1>4, <1>5, <2>1, <2>2, <2>3 DEF IdsInv
<1>7. NoncesInv'
    BY <1>1, <1>4, <1>5 DEF NoncesInv
<1>8. Beginning'
  <2>1. used
      BY DEF Beginning
  <2>2. t.nonce = nonce
      BY DEF NoncesInv
  <2> QED  BY <1>1, <1>5, <2>1, <2>2 DEF Beginning, Allocated
<1>9. StatesInv'
  <2>1. \A u \in transactions' : /\ state = "Connecting" <=> u.method = "Allocate"
                                 /\ state = "Closing" <=> u.method = "Release"
      BY <1>4 DEF StatesInv
  <2>2. state \in {"Connecting", "Closing"} => \A u, v \in transactions' : u = v
      BY <1>3 DEF StatesInv
  <2> QED  BY <1>1, <1>5, <2>1, <2>2 DEF StatesInv
<1>10. \A u \in transactions', m \in net' : m.kind = "response" /\ m.id = u.id =>
         m \in net /\ \E v \in transactions : v.id = u.id /\ v.method = u.method /\ v.channel = u.channel
    BY <1>1, <1>4, <1>5
<1>11. AllocatesInv'
  <2>1. CASE state = "Connecting"
    <3>1. transactions' = {again} /\ \A v \in transactions : v = t
        BY <1>3, <2>1 DEF StatesInv
    <3> QED  BY <1>1, <1>2, <1>5, <3>1 DEF AllocatesInv, Allocated
  <2> QED  BY <1>1, <2>1 DEF AllocatesInv, Allocated
<1>12. LateAllocate' /\ state # "Connecting" => LateAllocate
    BY <1>1, <1>5 DEF LateAllocate, StatesInv
<1>13. ServesInv'
  <2>1. \A c : Binding(c) => Binding(c)'
      BY <1>2, <1>3 DEF Binding
  <2> QED  BY <1>1, <1>10, <1>12, <2>1 DEF ServesInv, Allocated
<1>14. ReleasesInv'
    BY <1>1, <1>10, <1>12 DEF ReleasesInv, Allocated
<1> QED  BY <1>6, <1>7, <1>8, <1>9, <1>11, <1>13, <1>14

\* The request is repeated with the nonce: there was no other, and no allocation.
LEMMA RelayAuthenticated ==
    ASSUME RelayInv, NEW t \in transactions, NEW m \in net, nonce = NoNonce, Authenticated(t, m),
           UNCHANGED <<server, excused>>
    PROVE  RelayInv'
<1> USE DEF RelayInv
<1>1. PICK again : again = New(transactions, t.method, m.nonce, t.channel, t.peer)
    OBVIOUS
<1>2. /\ transactions' = (transactions \ {t}) \cup {again}
      /\ net' = (net \ {m}) \cup {Wire(again)} /\ nonce' = m.nonce
      /\ UNCHANGED <<state, used, channels, timer, channelTimer>>
    BY <1>1 DEF Authenticated
<1>3. /\ again.id \in Nat /\ again.method = t.method /\ again.nonce = m.nonce
      /\ \A u \in transactions : u.id # again.id
      /\ \A k \in net : k.id # again.id
    BY <1>1, NewNames
<1>4. /\ Wire(again).kind = "request" /\ Wire(again).id = again.id /\ Wire(again).method = t.method
      /\ Wire(again).nonce = m.nonce
    BY <1>3, WireNames
<1>5. used /\ state = "Connecting" /\ ~timer /\ ~channelTimer /\ ~Allocated /\ DOMAIN channels = {}
    BY DEF Beginning, StatesInv
<1>6. t.method = "Allocate" /\ transactions' = {again}
    BY <1>2, <1>5 DEF StatesInv
<1>7. \A k \in net' : k \in net \/ k = Wire(again)
    BY <1>2
<1>8. IdsInv'
  <2>1. PICK rest : rest = transactions \ {t}
      OBVIOUS
  <2>2. /\ rest \subseteq transactions /\ transactions' = rest \cup {again}
        /\ \A u \in rest : u.id # again.id
      BY <1>2, <1>3, <2>1
  <2>3. net' \subseteq net \cup {Wire(again)} /\ server'.by = server.by
      BY <1>2
  <2> QED  BY <1>3, <2>2, <2>3, IdsBegin
<1>9. NoncesInv'
    BY <1>2, <1>3, <1>4, <1>6, <1>7 DEF NoncesInv
<1>10. Beginning'
    BY <1>2, <1>4, <1>5, <1>7 DEF Beginning, Allocated
<1>11. StatesInv'
    BY <1>2, <1>3, <1>4, <1>5, <1>6, <1>7 DEF StatesInv
<1>12. AllocatesInv'
    BY <1>2, <1>3, <1>4, <1>5, <1>6, <1>7 DEF AllocatesInv, Allocated, Beginning
<1>13. ServesInv' /\ ReleasesInv'
  <2>1. ServesInv'
      BY <1>2, <1>5 DEF ServesInv
  <2>2. \A k \in net' : k.kind = "response" => k.id # again.id
      BY <1>3, <1>4, <1>7
  <2> QED  BY <1>2, <1>5, <1>6, <2>1, <2>2 DEF ReleasesInv
<1> QED  BY <1>8, <1>9, <1>10, <1>11, <1>12, <1>13

\* Nothing but what is under way changes, and nothing is new.
LEMMA LateKept ==
    ASSUME \A m \in net' : m \in net \/ m.kind = "response", LateAllocate'
    PROVE  LateAllocate
    BY DEF LateAllocate

LEMMA RelaySucceeded ==
    ASSUME RelayInv, TurnInv, NEW t \in transactions, NEW m \in net, m.kind = "response", m.id = t.id,
           m.code = "ok", Succeeded(t), Finished(t), net' = net \ {m}, UNCHANGED <<server, excused>>
    PROVE  RelayInv'
<1> USE DEF RelayInv
<1>1. transactions' = transactions \ {t} /\ UNCHANGED <<used, nonce, channels, channelTimer>>
    BY DEF Finished, Succeeded
<1>2. t.method \in Methods
    BY DEF TurnInv, ShapeInv
<1>3. IdsInv' /\ NoncesInv'
    BY <1>1, IdsFewer, NoncesKept
<1>4. used /\ nonce # NoNonce
  <2>1. SUFFICES ASSUME nonce = NoNonce PROVE FALSE
      BY DEF Beginning
  <2>2. state = "Connecting" /\ ~Allocated
      BY <2>1 DEF Beginning
  <2> QED  BY <2>2 DEF AllocatesInv, Allocated, IdsInv
<1>5. Beginning'
    BY <1>1, <1>4 DEF Beginning
<1>6. LateAllocate' => LateAllocate
    BY LateKept
<1>7. CASE t.method = "Allocate"
  <2>1. state = "Connecting" /\ transactions' = {} /\ state' = "Connected"
      BY <1>1, <1>7 DEF StatesInv, Succeeded
  <2>2. DOMAIN channels = {} /\ Allocated
      BY <2>1 DEF StatesInv, AllocatesInv, IdsInv, Allocated
  <2>3. StatesInv' /\ AllocatesInv'
      BY <2>1 DEF StatesInv, AllocatesInv, Allocated
  <2>4. ServesInv'
      BY <1>1, <2>1, <2>2 DEF ServesInv, Allocated
  <2>5. ReleasesInv'
      BY <2>1 DEF ReleasesInv
  <2> QED  BY <1>3, <1>5, <2>3, <2>4, <2>5
<1>8. CASE t.method = "Release"
  <2>1. state = "Closing" /\ transactions' = {} /\ state' = "Unconnected"
      BY <1>1, <1>8 DEF StatesInv, Succeeded
  <2>2. StatesInv' /\ AllocatesInv' /\ ServesInv'
      BY <2>1 DEF StatesInv, AllocatesInv, ServesInv, Allocated
  <2>3. ReleasesInv'
      BY <1>6, <1>8, <2>1 DEF ReleasesInv, Allocated
  <2> QED  BY <1>3, <1>5, <2>2, <2>3
<1>9. CASE t.method \in {"Refresh", "ChannelBind"}
  <2>1. state' = state /\ state \notin {"Connecting", "Closing"}
      BY <1>9 DEF StatesInv, Succeeded
  <2>2. StatesInv' /\ AllocatesInv'
      BY <1>1, <2>1 DEF StatesInv, AllocatesInv, Allocated
  <2>3. ServesInv'
    <3>1. \A c : Binding(c) => Binding(c)' \/ (t.method = "ChannelBind" /\ t.channel = c)
        BY <1>1 DEF Binding
    <3> QED  BY <1>1, <1>6, <2>1, <3>1 DEF ServesInv, Allocated
  <2>4. ReleasesInv'
      BY <1>1, <1>6, <2>1 DEF ReleasesInv, Allocated
  <2> QED  BY <1>3, <1>5, <2>2, <2>3, <2>4
<1> QED  BY <1>2, <1>7, <1>8, <1>9 DEF Methods

\* A transaction fails: nothing is expected any more, or its answer says why.
LEMMA RelayFailed ==
    ASSUME RelayInv, TurnInv, NEW t \in transactions, Failed(t), Finished(t), net' \subseteq net,
           UNCHANGED server,
           \/ excused'
           \/ /\ UNCHANGED excused
              /\ \E m \in net : /\ m.kind = "response" /\ m.id = t.id /\ m.code # "ok"
                                /\ ~WantsNonce(m.code)
    PROVE  RelayInv'
<1> USE DEF RelayInv
<1>1. transactions' = transactions \ {t} /\ UNCHANGED <<used, nonce>>
    BY DEF Finished
<1>2. t.method \in Methods
    BY DEF TurnInv, ShapeInv
<1>3. IdsInv' /\ NoncesInv'
    BY <1>1, IdsFewer, NoncesKept
<1>4. LateAllocate' => LateAllocate
    BY LateKept
<1>5. used
    BY DEF Beginning
<1>6. CASE t.method = "ChannelBind"
  <2>1. /\ channels' = Without(channels, t.channel) /\ state' = state
        /\ state \notin {"Connecting", "Closing"}
      BY <1>6 DEF Failed, StatesInv
  <2>2. nonce # NoNonce
      BY <2>1 DEF Beginning
  <2>3. Beginning'
      BY <1>1, <1>5, <2>2 DEF Beginning
  <2>4. StatesInv' /\ AllocatesInv'
      BY <1>1, <2>1 DEF StatesInv, AllocatesInv, Allocated
  <2>5. ServesInv'
    <3>1. DOMAIN channels' = DOMAIN channels \ {t.channel}
        BY <2>1 DEF Without, Restrict
    <3>2. \A c : Binding(c) /\ c # t.channel => Binding(c)'
        BY <1>1 DEF Binding
    <3> QED  BY <1>1, <1>4, <2>1, <3>1, <3>2 DEF ServesInv, Allocated
  <2>6. ReleasesInv'
      BY <1>1, <1>4, <2>1 DEF ReleasesInv, Allocated
  <2> QED  BY <1>3, <2>3, <2>4, <2>5, <2>6
<1>7. CASE t.method # "ChannelBind"
  <2>1. state' = "Unconnected" /\ ~timer' /\ UNCHANGED <<channels, channelTimer>>
      BY <1>7 DEF Failed
  <2>2. state \in {"Connecting", "Closing"} => transactions' = {}
      BY <1>1 DEF StatesInv
  <2>3. Beginning'
      BY <1>1, <1>5, <2>1, <2>2 DEF Beginning, Allocated
  <2>4. StatesInv' /\ AllocatesInv' /\ ServesInv'
      BY <1>1, <2>1, <2>2 DEF StatesInv, AllocatesInv, ServesInv, Allocated
  <2>5. ReleasesInv'
    <3>1. SUFFICES ASSUME ~excused' PROVE ReleasesInv'
        BY DEF ReleasesInv
    <3>2. PICK m \in net : /\ m.kind = "response" /\ m.id = t.id /\ m.code # "ok"
                           /\ ~WantsNonce(m.code)
        BY <3>1
    <3>3. ~excused /\ server.nonce = 1
        BY <3>1 DEF ReleasesInv
    <3>4. ~Allocated /\ (~LateAllocate \/ ~server.knows)
      <4>1. CASE t.method = "Allocate"
        <5>1. ~server.knows
            BY <3>2, <3>3, <4>1 DEF ReleasesInv, WantsNonce
        <5> QED  BY <5>1 DEF AllocatesInv
      <4>2. CASE t.method = "Release"
          BY <3>2, <3>3, <4>2 DEF ReleasesInv, StatesInv
      <4>3. CASE t.method = "Refresh"
        <5>1. state \notin {"Connecting", "Closing"}
            BY <4>3 DEF StatesInv
        <5>2. CASE state = "Connected"
            BY <3>2, <3>3, <4>3, <5>2 DEF ReleasesInv, ServesInv
        <5>3. CASE state = "Unconnected"
            BY <3>3, <5>3 DEF ReleasesInv
        <5> QED  BY <5>1, <5>2, <5>3 DEF StatesInv
      <4> QED  BY <1>2, <1>7, <4>1, <4>2, <4>3 DEF Methods
    <3> QED  BY <1>1, <1>4, <2>1, <3>3, <3>4 DEF ReleasesInv, Allocated
  <2> QED  BY <1>3, <2>3, <2>4, <2>5
<1> QED  BY <1>6, <1>7

\* What a request changes, when it is granted.
LEMMA GrantedParts ==
    ASSUME ShapeInv, NEW q, q.method \in Methods, server' = Granted(q)
    PROVE  /\ server'.nonce = server.nonce /\ server'.knows = server.knows /\ server'.grants = server.grants
           /\ q.method = "Allocate" => server'.by = q.id /\ server'.channels = server.channels
           /\ q.method = "Refresh" => server' = server
           /\ q.method = "Release" => server'.by = -1 /\ server'.channels = Empty
           /\ q.method = "ChannelBind" =>
                /\ server'.by = server.by
                /\ DOMAIN server'.channels = DOMAIN server.channels \cup {q.channel}
                /\ server'.channels = With(server.channels, q.channel, q.peer)
<1>1. /\ q.method = "Allocate" => server' = [server EXCEPT !.by = q.id]
      /\ q.method = "Refresh" => server' = server
      /\ q.method = "Release" => server' = [server EXCEPT !.by = -1, !.channels = Empty]
      /\ q.method = "ChannelBind" =>
           server' = [server EXCEPT !.channels = With(server.channels, q.channel, q.peer)]
    BY DEF Granted
<1>2. DOMAIN With(server.channels, q.channel, q.peer) = DOMAIN server.channels \cup {q.channel}
    BY DEF With
<1> DEFINE bound == With(server.channels, q.channel, q.peer)
           empty == Empty
<1> HIDE DEF bound, empty
<1>3. CASE q.method = "Allocate"
    BY <1>1, <1>3 DEF ShapeInv
<1>4. CASE q.method = "Refresh"
    BY <1>1, <1>4
<1>5. CASE q.method = "Release"
  <2>1. server' = [server EXCEPT !.by = -1, !.channels = empty]
      BY <1>1, <1>5 DEF empty
  <2>2. /\ server'.nonce = server.nonce /\ server'.knows = server.knows /\ server'.grants = server.grants
        /\ server'.by = -1 /\ server'.channels = empty
      BY <2>1 DEF ShapeInv
  <2> QED  BY <1>5, <2>2 DEF empty
<1>6. CASE q.method = "ChannelBind"
  <2>1. server' = [server EXCEPT !.channels = bound]
      BY <1>1, <1>6 DEF bound
  <2>2. /\ server'.nonce = server.nonce /\ server'.knows = server.knows /\ server'.grants = server.grants
        /\ server'.by = server.by /\ server'.channels = bound
      BY <2>1 DEF ShapeInv
  <2> QED  BY <1>2, <1>6, <2>2 DEF bound
<1> QED  BY <1>3, <1>4, <1>5, <1>6 DEF Methods

\* How a request is answered, case by case.
LEMMA Answering ==
    ASSUME ShapeInv, ServerAnswers
    PROVE  \E q \in net : \E code \in {"ok", "error", "401"} :
             /\ q.kind = "request" /\ q.method \in Methods
             /\ net' = (net \ {q}) \cup {Answer(q, code)}
             /\ code = "ok" => /\ q.nonce = server.nonce /\ server.knows
                               /\ Success(q) /\ server' = Granted(q)
             /\ code # "ok" => server' = server
             /\ code = "error" => ~Success(q)
             /\ code = "401" => q.nonce # server.nonce \/ ~server.knows
             /\ UNCHANGED <<client, lost, excused>>
<1>1. PICK q \in net, code \in {"ok", "error", "401"} :
        /\ q.kind = "request"
        /\ code = IF q.nonce # server.nonce \/ ~server.knows THEN "401"
                  ELSE IF Success(q) THEN "ok" ELSE "error"
        /\ net' = (net \ {q}) \cup {Answer(q, code)}
        /\ server' = IF code = "ok" THEN Granted(q) ELSE server
        /\ UNCHANGED <<client, lost, excused>>
    BY DEF ServerAnswers
<1> DEFINE refused == q.nonce # server.nonce \/ ~server.knows
           succeeds == Success(q)
<1>2. code = IF refused THEN "401" ELSE IF succeeds THEN "ok" ELSE "error"
    BY <1>1
<1> HIDE DEF succeeds
<1>3. /\ code \in {"ok", "error", "401"}
      /\ code = "ok" => q.nonce = server.nonce /\ server.knows /\ succeeds
      /\ code = "error" => ~succeeds
      /\ code = "401" => q.nonce # server.nonce \/ ~server.knows
    BY <1>2
<1>4. q.method \in Methods
    BY <1>1 DEF ShapeInv
<1> QED  BY <1>1, <1>3, <1>4 DEF succeeds

\* What is granted and refused says what the answers claim.
LEMMA RelayAnswers ==
    ASSUME RelayInv, TurnInv, ServerAnswers
    PROVE  RelayInv'
<1> USE DEF RelayInv
<1>1. PICK q \in net, code \in {"ok", "error", "401"} :
        /\ q.kind = "request" /\ q.method \in Methods
        /\ net' = (net \ {q}) \cup {Answer(q, code)}
        /\ code = "ok" => /\ q.nonce = server.nonce /\ server.knows
                          /\ Success(q) /\ server' = Granted(q)
        /\ code # "ok" => server' = server
        /\ code = "error" => ~Success(q)
        /\ code = "401" => q.nonce # server.nonce \/ ~server.knows
        /\ UNCHANGED <<client, lost, excused>>
    BY Answering DEF TurnInv
<1>2. PICK a : a = Answer(q, code)
    OBVIOUS
<1>3. /\ a.kind = "response" /\ a.id = q.id /\ a.method = q.method /\ a.code = code /\ a.nonce = server.nonce
    BY <1>2 DEF Answer
<1>4. net' = (net \ {q}) \cup {a}
    BY <1>1, <1>2
<1>5. UNCHANGED <<state, used, transactions, channels, nonce, timer, channelTimer, excused>>
    BY <1>1 DEF client
<1>6. /\ server'.nonce = server.nonce /\ server'.knows = server.knows
      /\ code # "ok" => server'.by = server.by /\ server'.channels = server.channels
    BY <1>1, GrantedParts DEF TurnInv
<1>7. code = "ok" =>
        /\ q.method = "Allocate" => server'.by = q.id /\ server'.channels = server.channels
        /\ q.method = "Refresh" => server'.by = server.by /\ server'.channels = server.channels
        /\ q.method = "Release" => server'.by = -1
        /\ q.method = "ChannelBind" =>
             /\ server'.by = server.by
             /\ DOMAIN server'.channels = DOMAIN server.channels \cup {q.channel}
    BY <1>1, GrantedParts DEF TurnInv
<1>8. /\ q.id \in Nat /\ used
    BY DEF IdsInv, Beginning
<1>9. \A t \in transactions : t.id = q.id =>
        q.method = t.method /\ q.channel = t.channel /\ q.nonce = nonce
    BY <1>1 DEF IdsInv, NoncesInv
<1>10. IdsInv'
  <2>1. IsFiniteSet(net')
    <3>1. IsFiniteSet(net)
        BY DEF IdsInv
    <3>2. IsFiniteSet(net \ {q})
        BY <3>1, FS_RemoveElement
    <3>3. IsFiniteSet((net \ {q}) \cup {a})
        BY <3>2, FS_AddElement
    <3> QED  BY <1>4, <3>3
  <2>2. server'.by \in Nat \cup {-1}
      BY <1>1, <1>6, <1>7, <1>8 DEF IdsInv, Methods
  <2> QED  BY <1>3, <1>4, <1>5, <1>8, <1>9, <2>1, <2>2 DEF IdsInv
<1>11. NoncesInv'
    BY <1>3, <1>4, <1>5, <1>6 DEF NoncesInv
<1>12. Beginning'
  <2>1. CASE nonce = NoNonce
    <3>1. q.nonce = NoNonce /\ NoNonce # server.nonce
        BY <1>1, <2>1 DEF Beginning, NoncesInv, NoNonce
    <3>2. server'.by = server.by
        BY <1>1, <1>6, <3>1
    <3> QED  BY <1>3, <1>4, <1>5, <1>8, <2>1, <3>2 DEF Beginning, Allocated
  <2>2. CASE nonce # NoNonce
      BY <1>5, <1>8, <2>2 DEF Beginning
  <2> QED  BY <2>1, <2>2
<1>13. StatesInv'
    BY <1>3, <1>4, <1>5 DEF StatesInv
<1>14. AllocatesInv'
  <2>1. ~server'.knows => ~Allocated'
      BY <1>1, <1>6 DEF AllocatesInv, Allocated
  <2>2. ASSUME state = "Connecting", NEW t \in transactions
        PROVE  /\ server'.by \in {-1, t.id} /\ (server.by = t.id => server'.by = t.id)
               /\ code = "ok" => q.id = t.id /\ server'.by = t.id
    <3>1. t.method = "Allocate"
        BY <2>2 DEF StatesInv
    <3>2. server.by \in {-1, t.id}
        BY <2>2 DEF AllocatesInv
    <3>3. ASSUME code = "ok" PROVE q.id = t.id
        BY <1>1, <2>2, <3>3 DEF AllocatesInv, NoncesInv, NoNonce
    <3> QED  BY <1>6, <1>7, <1>9, <3>1, <3>2, <3>3
  <2> QED  BY <1>3, <1>4, <1>5, <2>1, <2>2 DEF AllocatesInv
<1>15. LateAllocate' => LateAllocate
    BY <1>3, <1>4, LateKept
<1>16. state \in {"Connected", "Closing", "Unconnected"} /\ ~Allocated /\ Allocated' =>
         q.method = "Allocate" /\ LateAllocate /\ server.knows
  <2>1. SUFFICES ASSUME ~Allocated, Allocated' PROVE q.method = "Allocate" /\ server.knows
      BY <1>1 DEF LateAllocate
  <2>2. code = "ok"
      BY <1>6, <2>1 DEF Allocated
  <2>3. Success(q) /\ server.knows
      BY <1>1, <2>2
  <2>4. q.method # "Allocate" => q.method \in {"Refresh", "Release", "ChannelBind"}
      BY <1>1 DEF Methods
  <2>5. q.method \in {"Refresh", "Release", "ChannelBind"} => Allocated
      BY <2>3 DEF Success
  <2> QED  BY <2>1, <2>3, <2>4, <2>5
<1>17. ServesInv'
  <2>1. SUFFICES ASSUME state = "Connected" PROVE ServesInv'
      BY <1>5 DEF ServesInv
  <2>2. CASE Allocated
    <3>1. code = "ok" => q.method # "Release"
        BY <2>1 DEF StatesInv
    <3>2. DOMAIN server.channels \subseteq DOMAIN server'.channels
        BY <1>1, <1>6, <1>7, <3>1 DEF Methods
    <3>3. Allocated'
        BY <1>1, <1>6, <1>7, <1>8, <2>2, <3>1 DEF Methods, Allocated
    <3>4. \A c : Binding(c) => Binding(c)'
        BY <1>5 DEF Binding
    <3>5. \A t \in transactions :
            t.method = "ChannelBind" /\ a.id = t.id /\ a.code = "ok" => t.channel \in DOMAIN server'.channels
        BY <1>3, <1>7, <1>9
    <3>6. \A t \in transactions', m \in net' :
             t.method = "ChannelBind" /\ m.kind = "response" /\ m.id = t.id /\ m.code = "ok"
             => t.channel \in DOMAIN server'.channels
      <4>1. \A t \in transactions, m \in net :
               t.method = "ChannelBind" /\ m.kind = "response" /\ m.id = t.id /\ m.code = "ok"
               => t.channel \in DOMAIN server.channels
          BY <2>1, <2>2 DEF ServesInv
      <4> QED  BY <1>4, <1>5, <3>2, <3>5, <4>1
    <3>7. \A c \in DOMAIN channels : Binding(c) \/ c \in DOMAIN server.channels
        BY <2>1, <2>2 DEF ServesInv
    <3> QED  BY <1>5, <2>1, <3>2, <3>3, <3>4, <3>6, <3>7 DEF ServesInv
  <2>3. CASE ~Allocated
      BY <1>15, <1>16, <2>1, <2>3 DEF ServesInv
  <2> QED  BY <2>2, <2>3
<1>18. ReleasesInv'
  <2>1. SUFFICES ASSUME ~excused PROVE ReleasesInv'
      BY <1>5 DEF ReleasesInv
  <2>2. /\ server.nonce = 1
        /\ state \in {"Closing", "Unconnected"} => ~LateAllocate \/ ~server.knows
        /\ state = "Unconnected" => ~Allocated
      BY <2>1 DEF ReleasesInv
  <2>3. state \in {"Connected", "Closing", "Unconnected"} /\ ~Allocated => ~Allocated'
      BY <1>16, <2>2 DEF ServesInv
  <2>4. \A t \in transactions, m \in net : m.kind = "response" /\ m.id = t.id =>
          /\ t.method = "Release" => ~Allocated
          /\ t.method = "Refresh" /\ state = "Connected" /\ m.code # "ok" => ~Allocated
          /\ t.method = "Allocate" /\ m.code # "ok" =>
               (nonce = NoNonce /\ m.code = "401") \/ ~server.knows
      BY <2>1 DEF ReleasesInv
  <2>5. ASSUME NEW t \in transactions, t.id = q.id
        PROVE  /\ t.method = "Release" => ~Allocated'
               /\ t.method = "Refresh" /\ state = "Connected" /\ code # "ok" => ~Allocated'
               /\ t.method = "Allocate" /\ code # "ok" =>
                    (nonce = NoNonce /\ code = "401") \/ ~server.knows
    <3>1. q.method = t.method /\ q.nonce = nonce /\ nonce \in {0, 1}
        BY <1>9, <2>2, <2>5 DEF NoncesInv
    <3>2. code = "401" => nonce = NoNonce \/ ~server.knows
        BY <1>1, <2>2, <3>1 DEF NoNonce
    <3>3. code = "401" => ~Allocated
        BY <3>2 DEF Beginning, AllocatesInv
    <3>4. CASE t.method = "Release"
      <4>1. code = "ok" => ~Allocated'
          BY <1>7, <3>1, <3>4 DEF Allocated
      <4>2. code = "error" => ~Allocated
          BY <1>1, <3>1, <3>4 DEF Success
      <4>3. state = "Closing"
          BY <3>4 DEF StatesInv
      <4> QED  BY <2>3, <3>3, <3>4, <4>1, <4>2, <4>3
    <3>5. CASE t.method = "Refresh"
      <4>1. code = "error" => ~Allocated
          BY <1>1, <3>1, <3>5 DEF Success
      <4> QED  BY <2>3, <3>3, <3>5, <4>1
    <3>6. CASE t.method = "Allocate"
      <4>1. state = "Connecting" /\ server.by \in {-1, q.id}
        <5>1. state = "Connecting"
            BY <3>6 DEF StatesInv
        <5> QED  BY <2>5, <5>1 DEF AllocatesInv
      <4>2. code # "error"
          BY <1>1, <3>1, <3>6, <4>1 DEF Success, Allocated
      <4> QED  BY <3>2, <3>6, <4>2
    <3>7. t.method \notin {"Release", "Refresh", "Allocate"} => t.method = "ChannelBind"
        BY DEF TurnInv, ShapeInv, Methods
    <3> QED  BY <3>4, <3>5, <3>6, <3>7
  <2>6. \A t \in transactions : t.method = "Release" => state = "Closing"
      BY DEF StatesInv
  <2>7. \A t \in transactions', m \in net' : m.kind = "response" /\ m.id = t.id =>
          /\ t.method = "Release" => ~Allocated'
          /\ t.method = "Refresh" /\ state = "Connected" /\ m.code # "ok" => ~Allocated'
          /\ t.method = "Allocate" /\ m.code # "ok" =>
               (nonce = NoNonce /\ m.code = "401") \/ ~server.knows
    <3> TAKE t \in transactions', m \in net'
    <3>1. t \in transactions
        BY <1>5
    <3>2. CASE m \in net
        BY <2>3, <2>4, <2>6, <3>1, <3>2
    <3>3. CASE m = a
        BY <1>3, <2>5, <3>1, <3>3
    <3> QED  BY <1>4, <3>2, <3>3
  <2> QED  BY <1>5, <1>6, <1>15, <2>2, <2>3, <2>7 DEF ReleasesInv
<1> QED  BY <1>10, <1>11, <1>12, <1>13, <1>14, <1>17, <1>18

\* Nothing is asked or answered: what is under way is lost, or the server changes.
LEMMA RelayEnds ==
    ASSUME RelayInv, TurnInv, Rotate \/ Expire \/ Lose \/ GetLateAnswer
    PROVE  RelayInv'
<1> USE DEF RelayInv
<1>1. CASE Lose \/ GetLateAnswer
  <2>1. net' \subseteq net /\ UNCHANGED <<client, server, excused>>
      BY <1>1 DEF Lose, GetLateAnswer
  <2>2. UNCHANGED <<state, used, transactions, channels, nonce, timer, channelTimer>>
      BY <2>1 DEF client
  <2>3. IdsInv' /\ NoncesInv'
      BY <2>1, <2>2, IdsFewer, NoncesKept
  <2>4. Beginning' /\ StatesInv' /\ AllocatesInv'
      BY <2>1, <2>2 DEF Beginning, StatesInv, AllocatesInv, Allocated
  <2>5. LateAllocate' => LateAllocate
      BY <2>1, LateKept
  <2>6. ServesInv' /\ ReleasesInv'
      BY <2>1, <2>2, <2>5 DEF ServesInv, ReleasesInv, Allocated, Binding
  <2> QED  BY <2>3, <2>4, <2>6
<1>2. CASE Rotate
  <2>1. server' = [server EXCEPT !.nonce = @ + 1] /\ excused' = TRUE /\ UNCHANGED <<client, net>>
      BY <1>2 DEF Rotate
  <2>2. UNCHANGED <<state, used, transactions, channels, nonce, timer, channelTimer>>
      BY <2>1 DEF client
  <2>3. /\ server'.nonce = server.nonce + 1 /\ server'.knows = server.knows
        /\ server'.by = server.by /\ server'.channels = server.channels
      BY <2>1 DEF TurnInv, ShapeInv
  <2>4. IdsInv'
      BY <2>1, <2>2, <2>3, IdsFewer
  <2>5. NoncesInv'
      BY <2>1, <2>2, <2>3 DEF NoncesInv
  <2>6. Beginning' /\ StatesInv' /\ AllocatesInv'
      BY <2>1, <2>2, <2>3 DEF Beginning, StatesInv, AllocatesInv, Allocated
  <2>7. ServesInv' /\ ReleasesInv'
      BY <2>1, <2>2, <2>3 DEF ServesInv, ReleasesInv, Allocated, Binding, LateAllocate
  <2> QED  BY <2>4, <2>5, <2>6, <2>7
<1>3. CASE Expire
  <2>1. /\ ~LateAllocate /\ Allocated
        /\ server' = [server EXCEPT !.by = -1, !.channels = Empty] /\ UNCHANGED <<client, net, excused>>
      BY <1>3 DEF Expire
  <2>2. UNCHANGED <<state, used, transactions, channels, nonce, timer, channelTimer>>
      BY <2>1 DEF client
  <2>3. server'.nonce = server.nonce /\ server'.knows = server.knows /\ server'.by = -1
      BY <2>1 DEF TurnInv, ShapeInv
  <2>4. state # "Connecting"
      BY <1>3 DEF Expire, StatesInv
  <2>5. IdsInv' /\ NoncesInv'
      BY <2>1, <2>2, <2>3, IdsFewer, NoncesKept
  <2>6. Beginning' /\ StatesInv' /\ AllocatesInv'
      BY <2>1, <2>2, <2>3, <2>4 DEF Beginning, StatesInv, AllocatesInv, Allocated
  <2>7. ServesInv' /\ ReleasesInv'
      BY <2>1, <2>2, <2>3 DEF ServesInv, ReleasesInv, Allocated, LateAllocate
  <2> QED  BY <2>5, <2>6, <2>7
<1> QED  BY <1>1, <1>2, <1>3

LEMMA RelayStep ==
    ASSUME RelayInv, TurnInv, TurnNext
    PROVE  RelayInv'
<1>1. CASE GiveUp
  <2>1. PICK t \in transactions : Failed(t) /\ Finished(t)
      BY <1>1 DEF GiveUp
  <2>2. net' \subseteq net /\ excused' /\ UNCHANGED server
      BY <1>1 DEF GiveUp
  <2> QED  BY <2>1, <2>2, RelayFailed
<1>2. CASE GetAnswer
  <2>1. PICK m \in net, t \in transactions :
          /\ m.kind = "response" /\ t.id = m.id
          /\ IF WantsNonce(m.code) THEN Authenticated(t, m)
             ELSE /\ IF m.code = "ok" THEN Succeeded(t) ELSE Failed(t)
                  /\ Finished(t) /\ net' = net \ {m}
      BY <1>2 DEF GetAnswer
  <2>2. UNCHANGED <<server, excused>>
      BY <1>2 DEF GetAnswer
  <2>3. CASE WantsNonce(m.code)
    <3>1. nonce = NoNonce /\ Authenticated(t, m)
        BY <2>1, <2>3 DEF WantsNonce
    <3> QED  BY <2>2, <3>1, RelayAuthenticated
  <2>4. CASE ~WantsNonce(m.code) /\ m.code = "ok"
      BY <2>1, <2>2, <2>4, RelaySucceeded
  <2>5. CASE ~WantsNonce(m.code) /\ m.code # "ok"
    <3>1. Failed(t) /\ Finished(t) /\ net' \subseteq net
        BY <2>1, <2>5
    <3> QED  BY <2>1, <2>2, <2>5, <3>1, RelayFailed
  <2> QED  BY <2>3, <2>4, <2>5
<1> QED  BY <1>1, <1>2, RelayCalls, RelayRetries, RelayAnswers, RelayEnds DEF TurnNext, Timers, Answers

LEMMA RelayBegins ==
    ASSUME TurnInit
    PROVE  RelayInv
<1>1. /\ server.by = -1 /\ server.nonce = 1
      /\ state = "Unconnected" /\ transactions = {} /\ net = {} /\ nonce = NoNonce /\ channels = Empty
      /\ ~timer /\ ~channelTimer
    BY DEF TurnInit
<1>2. DOMAIN Empty = {}
    BY DEF Empty
<1>3. IdsInv
    BY <1>1, FS_EmptySet DEF IdsInv
<1>4. NoncesInv /\ Beginning /\ StatesInv
    BY <1>1, <1>2 DEF NoncesInv, Beginning, StatesInv, NoNonce, Allocated
<1>5. AllocatesInv /\ ServesInv /\ ReleasesInv
    BY <1>1 DEF AllocatesInv, ServesInv, ReleasesInv, Allocated, LateAllocate
<1> QED  BY <1>3, <1>4, <1>5 DEF RelayInv

\* What the two properties of the relay say.
LEMMA RelaySafe ==
    ASSUME RelayInv, TurnInv
    PROVE  ChannelsServed /\ Released
<1>1. ChannelsServed
    BY DEF RelayInv, ServesInv, TurnInv, BoundInv, Bound, ChannelsServed
<1>2. Released
    BY DEF RelayInv, ReleasesInv, Released
<1> QED  BY <1>1, <1>2

-----------------------------------------------------------------------------
(* The types of the relay.                                                 *)

\* Requests, under way or repeated later, name channels and peers that are given out.
TransactionOk(t) ==
    /\ t.tries \in 1 .. MaxTries /\ t.channel \in Numbers \cup {0}
    /\ t.method = "ChannelBind" => t.channel \in Numbers /\ t.peer \in Peers

RequestOk(m) ==
    m.kind = "request" /\ m.method = "ChannelBind" => m.channel \in Numbers /\ m.peer \in Peers

FlagsOk == {used, timer, channelTimer, excused} \subseteq BOOLEAN

ClientOk ==
    /\ DOMAIN channels \subseteq Numbers /\ Range0(channels) \subseteq Peers
    /\ nextChannel \in 1 .. MaxChannels + 1 /\ lifetime \in Lifetimes \cup {600}

ServerOk ==
    /\ lost \in Nat /\ lost + (server.nonce - 1) <= MaxFaults
    /\ server.grants \in Lifetimes /\ server.knows \in BOOLEAN
    /\ DOMAIN server.channels \subseteq Numbers /\ Range0(server.channels) \subseteq Peers

UnderWayOk == (\A t \in transactions : TransactionOk(t)) /\ (\A m \in net : RequestOk(m))

TypesInv == FlagsOk /\ ClientOk /\ ServerOk /\ UnderWayOk

LEMMA TypesSuffice ==
    ASSUME RelayInv, TurnInv, TypesInv
    PROVE  TurnTypeOK
<1>1. {MaxFaults, MaxChannels} \subseteq Nat
    BY TurnAssumption
<1>2. server.nonce \in 1 .. MaxFaults + 1 /\ Faults \in 0 .. MaxFaults
    BY <1>1 DEF RelayInv, NoncesInv, TypesInv, ServerOk, Faults
<1>3. nonce \in 0 .. MaxFaults + 1 /\ \A t \in transactions : t.nonce \in 0 .. MaxFaults + 1
    BY <1>1, <1>2 DEF RelayInv, NoncesInv
<1>4. \A t \in transactions :
         /\ t.id \in Nat /\ t.method \in Methods
         /\ t.channel \in Numbers \cup {0} /\ t.tries \in 1 .. MaxTries
    BY DEF RelayInv, IdsInv, TurnInv, ShapeInv, TypesInv, UnderWayOk, TransactionOk
<1>5. DOMAIN channels \subseteq 1 .. (nextChannel - 1) /\ Range0(channels) \subseteq Peers
    BY <1>1 DEF TurnInv, BoundInv, TypesInv, ClientOk, Numbers
<1>6. /\ nextChannel \in 1 .. MaxChannels + 1 /\ lifetime \in Lifetimes \cup {600}
      /\ server.by \in Nat \cup {-1}
      /\ server.grants \in Lifetimes /\ server.knows \in BOOLEAN
      /\ DOMAIN server.channels \subseteq Numbers /\ Range0(server.channels) \subseteq Peers
    BY DEF RelayInv, IdsInv, TypesInv, ClientOk, ServerOk
<1>7. state \in {"Unconnected", "Connecting", "Connected", "Closing"}
    BY DEF RelayInv, StatesInv
<1>8. {used, timer, channelTimer, excused} \subseteq BOOLEAN
    BY DEF TypesInv, FlagsOk
<1> QED  BY <1>2, <1>3, <1>4, <1>5, <1>6, <1>7, <1>8 DEF TurnTypeOK

LEMMA TypesBegin ==
    ASSUME TurnInit
    PROVE  TypesInv
<1>1. PICK seconds \in Lifetimes, known \in BOOLEAN :
         server = [by |-> -1, channels |-> Empty, nonce |-> 1, grants |-> seconds, knows |-> known]
    BY DEF TurnInit
<1>2. DOMAIN Empty = {} /\ Range0(Empty) = {}
    BY DEF Empty, Range0
<1>3. FlagsOk
    BY DEF TurnInit, FlagsOk
<1>4. ClientOk
    BY <1>2, TurnAssumption DEF TurnInit, ClientOk
<1>5. ServerOk
  <2>1. server.knows \in BOOLEAN
      BY <1>1, Zenon
  <2>2. server.nonce = 1 /\ server.grants \in Lifetimes /\ server.channels = Empty
      BY <1>1
  <2> QED  BY <1>2, <2>1, <2>2, TurnAssumption DEF TurnInit, ServerOk
<1>6. UnderWayOk
    BY DEF TurnInit, UnderWayOk
<1> QED  BY <1>3, <1>4, <1>5, <1>6 DEF TypesInv

LEMMA NewTypes ==
    ASSUME NEW known, NEW method, NEW n, NEW c \in Numbers \cup {0}, NEW p, NEW t,
           t = New(known, method, n, c, p),
           method = "ChannelBind" => c \in Numbers /\ p \in Peers
    PROVE  TransactionOk(t) /\ RequestOk(Wire(t))
<1>1. /\ t.method = method /\ t.channel = c /\ t.peer = p /\ t.tries = 1
      /\ Wire(t).kind = "request" /\ Wire(t).method = method
      /\ Wire(t).channel = c /\ Wire(t).peer = p
    BY DEF New, Wire
<1>2. 1 \in 1 .. MaxTries
    BY TurnAssumption
<1> QED  BY <1>1, <1>2 DEF TransactionOk, RequestOk

LEMMA UnderWayKept ==
    ASSUME UnderWayOk,
           \A t \in transactions' : t \in transactions \/ TransactionOk(t),
           \A m \in net' : m \in net \/ RequestOk(m)
    PROVE  UnderWayOk'
    BY DEF UnderWayOk, TransactionOk, RequestOk

LEMMA ClientKept ==
    ASSUME ClientOk, UNCHANGED <<nextChannel, lifetime>>,
           \/ UNCHANGED channels
           \/ channels' = Empty
           \/ \E c : channels' = Without(channels, c)
    PROVE  ClientOk'
<1>1. CASE UNCHANGED channels
    BY <1>1 DEF ClientOk
<1>2. CASE channels' = Empty
    BY <1>2 DEF ClientOk, Empty, Range0
<1>3. CASE \E c : channels' = Without(channels, c)
  <2>1. /\ DOMAIN channels' \subseteq DOMAIN channels
        /\ \A c \in DOMAIN channels' : channels'[c] = channels[c]
      BY <1>3 DEF Without, Restrict
  <2> QED  BY <2>1 DEF ClientOk, Range0
<1> QED  BY <1>1, <1>2, <1>3

LEMMA TypesCalls ==
    ASSUME TypesInv,
           \/ AllocationConnects \/ DisconnectFromHost \/ WriteDatagram
           \/ Refresh \/ RefreshChannel
    PROVE  TypesInv'
<1> USE DEF TypesInv
<1>1. CASE AllocationConnects
  <2>1. PICK t : t = New(transactions, "Allocate", NoNonce, 0, NoPeer)
      OBVIOUS
  <2>2. /\ transactions' = transactions \cup {t} /\ net' = net \cup {Wire(t)} /\ used' = TRUE
        /\ UNCHANGED <<channels, nextChannel, timer, channelTimer, lifetime, server, lost, excused>>
      BY <1>1, <2>1 DEF AllocationConnects, Begin
  <2>3. TransactionOk(t) /\ RequestOk(Wire(t))
      BY <2>1, NewTypes
  <2>4. UnderWayOk'
      BY <2>2, <2>3, UnderWayKept
  <2> QED  BY <2>2, <2>4, ClientKept DEF FlagsOk, ServerOk
<1>2. CASE DisconnectFromHost
  <2>1. /\ channelTimer' = FALSE /\ timer' = FALSE /\ channels' = Empty
        /\ UNCHANGED <<used, nextChannel, lifetime, server, lost>>
      BY <1>2 DEF DisconnectFromHost
  <2>2. ClientOk' /\ ServerOk'
      BY <2>1, ClientKept DEF ServerOk
  <2>3. excused' \in BOOLEAN
      BY <1>2 DEF DisconnectFromHost
  <2>4. FlagsOk'
      BY <2>1, <2>3 DEF FlagsOk
  <2>5. UnderWayOk'
    <3>1. CASE state = "Connected"
      <4>1. PICK t : t = New({}, "Release", nonce, 0, NoPeer)
          OBVIOUS
      <4>2. transactions' = {t} /\ net' = net \cup {Wire(t)}
          BY <1>2, <3>1, <4>1 DEF DisconnectFromHost, Begin
      <4>3. TransactionOk(t) /\ RequestOk(Wire(t))
          BY <4>1, NewTypes
      <4> QED  BY <4>2, <4>3, UnderWayKept
    <3>2. CASE state # "Connected"
      <4>1. transactions' = {} /\ net' = net
          BY <1>2, <3>2 DEF DisconnectFromHost
      <4> QED  BY <4>1, UnderWayKept
    <3> QED  BY <3>1, <3>2
  <2> QED  BY <2>2, <2>4, <2>5
<1>3. CASE WriteDatagram
  <2>1. PICK p \in Peers :
          /\ nextChannel <= MaxChannels /\ channels' = With(channels, nextChannel, p)
          /\ nextChannel' = nextChannel + 1 /\ channelTimer' = TRUE
          /\ Begin(transactions, New(transactions, "ChannelBind", nonce, nextChannel, p))
          /\ UNCHANGED <<used, timer, lifetime, server, lost, excused>>
      BY <1>3 DEF WriteDatagram, Number
  <2>2. PICK t : t = New(transactions, "ChannelBind", nonce, nextChannel, p)
      OBVIOUS
  <2>3. transactions' = transactions \cup {t} /\ net' = net \cup {Wire(t)}
      BY <2>1, <2>2 DEF Begin
  <2>4. nextChannel \in Numbers /\ nextChannel + 1 \in 1 .. MaxChannels + 1
      BY <2>1, TurnAssumption DEF ClientOk, Numbers
  <2>5. TransactionOk(t) /\ RequestOk(Wire(t))
      BY <2>2, <2>4, NewTypes
  <2>6. UnderWayOk'
      BY <2>3, <2>5, UnderWayKept
  <2>7. ClientOk'
    <3>1. DOMAIN channels' = DOMAIN channels \cup {nextChannel}
        BY <2>1 DEF With
    <3>2. \A c \in DOMAIN channels' : channels'[c] = p \/ (c \in DOMAIN channels /\ channels'[c] = channels[c])
        BY <2>1 DEF With
    <3> QED  BY <2>1, <2>4, <3>1, <3>2 DEF ClientOk, Range0
  <2>8. FlagsOk' /\ ServerOk'
      BY <2>1 DEF FlagsOk, ServerOk
  <2> QED  BY <2>6, <2>7, <2>8
<1>4. CASE Refresh
  <2>1. PICK t : t = New(transactions, "Refresh", nonce, 0, NoPeer)
      OBVIOUS
  <2>2. /\ timer' = FALSE /\ transactions' = transactions \cup {t} /\ net' = net \cup {Wire(t)}
        /\ UNCHANGED <<used, channels, nextChannel, channelTimer, lifetime, server, lost, excused>>
      BY <1>4, <2>1 DEF Refresh, Begin
  <2>3. TransactionOk(t) /\ RequestOk(Wire(t))
      BY <2>1, NewTypes
  <2>4. UnderWayOk'
      BY <2>2, <2>3, UnderWayKept
  <2> QED  BY <2>2, <2>4, ClientKept DEF FlagsOk, ServerOk
<1>5. CASE RefreshChannel
  <2>1. PICK c \in DOMAIN channels :
          /\ Begin(transactions, New(transactions, "ChannelBind", nonce, c, channels[c]))
          /\ UNCHANGED <<used, channels, nextChannel, timer, channelTimer, lifetime, server, lost, excused>>
      BY <1>5 DEF RefreshChannel
  <2>2. PICK t : t = New(transactions, "ChannelBind", nonce, c, channels[c])
      OBVIOUS
  <2>3. transactions' = transactions \cup {t} /\ net' = net \cup {Wire(t)}
      BY <2>1, <2>2 DEF Begin
  <2>4. c \in Numbers /\ channels[c] \in Peers
      BY <2>1 DEF ClientOk, Range0
  <2>5. TransactionOk(t) /\ RequestOk(Wire(t))
      BY <2>2, <2>4, NewTypes
  <2>6. UnderWayOk'
      BY <2>3, <2>5, UnderWayKept
  <2> QED  BY <2>1, <2>6, ClientKept DEF FlagsOk, ServerOk
<1> QED  BY <1>1, <1>2, <1>3, <1>4, <1>5

LEMMA TypesRetries ==
    ASSUME TypesInv, TurnInv, Retry
    PROVE  TypesInv'
<1>1. PICK t \in transactions :
        /\ t.tries < MaxTries
        /\ transactions' = (transactions \ {t}) \cup {[t EXCEPT !.tries = @ + 1]}
        /\ net' = net \cup {Wire(t)}
        /\ UNCHANGED <<used, channels, nextChannel, timer, channelTimer, lifetime, server, lost, excused>>
    BY DEF Retry
<1> DEFINE again == [t EXCEPT !.tries = @ + 1]
<1>2. /\ again.tries = t.tries + 1 /\ again.method = t.method /\ again.channel = t.channel /\ again.peer = t.peer
    BY DEF TurnInv, ShapeInv
<1>3. transactions' = (transactions \ {t}) \cup {again}
    BY <1>1
<1> HIDE DEF again
<1>4. TransactionOk(t)
    BY DEF TypesInv, UnderWayOk
<1>5. TransactionOk(again)
    BY <1>1, <1>2, <1>4, TurnAssumption DEF TransactionOk
<1>6. RequestOk(Wire(t))
    BY <1>4 DEF RequestOk, TransactionOk, Wire
<1>7. UnderWayOk'
    BY <1>1, <1>3, <1>5, <1>6, UnderWayKept DEF TypesInv
<1> QED  BY <1>1, <1>7, ClientKept DEF TypesInv, FlagsOk, ServerOk

LEMMA TypesServes ==
    ASSUME TypesInv, TurnInv, ServerAnswers
    PROVE  TypesInv'
<1>1. PICK q \in net, code \in {"ok", "error", "401"} :
        /\ q.kind = "request" /\ q.method \in Methods
        /\ net' = (net \ {q}) \cup {Answer(q, code)}
        /\ code = "ok" => server' = Granted(q)
        /\ code # "ok" => server' = server
        /\ UNCHANGED <<client, lost, excused>>
  <2>1. ShapeInv
      BY DEF TurnInv
  <2> QED  BY <2>1, Answering
<1>2. /\ UNCHANGED <<used, transactions, channels, nextChannel, timer, channelTimer, lifetime, lost, excused>>
    BY <1>1 DEF client
<1>3. UnderWayOk'
  <2>1. RequestOk(Answer(q, code))
      BY DEF RequestOk, Answer
  <2> QED  BY <1>1, <1>2, <2>1, UnderWayKept DEF TypesInv
<1>4. ServerOk'
  <2>1. CASE code # "ok"
      BY <1>1, <1>2, <2>1 DEF TypesInv, ServerOk
  <2>2. CASE code = "ok"
    <3>1. /\ server'.nonce = server.nonce /\ server'.knows = server.knows /\ server'.grants = server.grants
          /\ \/ server'.channels = server.channels
             \/ server'.channels = Empty
             \/ q.method = "ChannelBind" /\ server'.channels = With(server.channels, q.channel, q.peer)
        BY <1>1, <2>2, GrantedParts DEF TurnInv, Methods
    <3>2. DOMAIN server'.channels \subseteq Numbers /\ Range0(server'.channels) \subseteq Peers
      <4>1. DOMAIN server.channels \subseteq Numbers /\ Range0(server.channels) \subseteq Peers
          BY DEF TypesInv, ServerOk
      <4>2. CASE server'.channels = server.channels
          BY <4>1, <4>2
      <4>3. CASE server'.channels = Empty
          BY <4>3 DEF Empty, Range0
      <4>4. CASE q.method = "ChannelBind" /\ server'.channels = With(server.channels, q.channel, q.peer)
        <5>1. q.channel \in Numbers /\ q.peer \in Peers
            BY <1>1, <4>4 DEF TypesInv, UnderWayOk, RequestOk
        <5> QED  BY <4>1, <4>4, <5>1 DEF With, Range0
      <4> QED  BY <3>1, <4>2, <4>3, <4>4
    <3>3. server'.knows \in BOOLEAN
        BY <3>1 DEF TypesInv, ServerOk
    <3> QED  BY <1>2, <3>1, <3>2, <3>3 DEF TypesInv, ServerOk
  <2> QED  BY <2>1, <2>2
<1> QED  BY <1>2, <1>3, <1>4 DEF TypesInv, FlagsOk, ClientOk

LEMMA TypesEnds ==
    ASSUME RelayInv, TypesInv, TurnInv, Rotate \/ Expire \/ Lose \/ GetLateAnswer
    PROVE  TypesInv'
<1>1. /\ UNCHANGED client /\ net' \subseteq net /\ excused' \in {excused, TRUE}
    BY DEF Rotate, Expire, Lose, GetLateAnswer
<1>2. /\ UNCHANGED <<used, transactions, channels, nextChannel, timer, channelTimer, lifetime>>
    BY <1>1 DEF client
<1>3. UnderWayOk'
    BY <1>1, <1>2, UnderWayKept DEF TypesInv
<1>4. FlagsOk' /\ ClientOk'
  <2>1. excused' \in BOOLEAN
      BY <1>1 DEF TypesInv, FlagsOk
  <2> QED  BY <1>2, <2>1 DEF TypesInv, FlagsOk, ClientOk
<1>5. ServerOk'
  <2>1. server.nonce \in Nat \ {0} /\ MaxFaults \in Nat
      BY TurnAssumption DEF RelayInv, NoncesInv
  <2>2. CASE Lose \/ GetLateAnswer
    <3>1. UNCHANGED server /\ (lost' = lost \/ (Faults < MaxFaults /\ lost' = lost + 1))
        BY <2>2 DEF Lose, GetLateAnswer
    <3> QED  BY <2>1, <3>1 DEF TypesInv, ServerOk, Faults
  <2>3. CASE Rotate
    <3>1. /\ server' = [server EXCEPT !.nonce = server.nonce + 1] /\ lost' = lost /\ Faults < MaxFaults
        BY <2>3 DEF Rotate
    <3>2. /\ server'.nonce = server.nonce + 1 /\ server'.knows = server.knows
          /\ server'.grants = server.grants /\ server'.channels = server.channels
        BY <3>1 DEF TurnInv, ShapeInv
    <3> QED  BY <2>1, <3>1, <3>2 DEF TypesInv, ServerOk, Faults
  <2>4. CASE Expire
    <3>1. /\ server' = [server EXCEPT !.by = -1, !.channels = Empty] /\ lost' = lost
        BY <2>4 DEF Expire
    <3>2. /\ server'.nonce = server.nonce /\ server'.knows = server.knows
          /\ server'.grants = server.grants /\ server'.channels = Empty
        BY <3>1 DEF TurnInv, ShapeInv
    <3>3. DOMAIN Empty = {} /\ Range0(Empty) = {}
        BY DEF Empty, Range0
    <3> QED  BY <3>1, <3>2, <3>3 DEF TypesInv, ServerOk
  <2> QED  BY <2>2, <2>3, <2>4
<1> QED  BY <1>3, <1>4, <1>5 DEF TypesInv

LEMMA TypesFinish ==
    ASSUME TypesInv, TurnInv, NEW t \in transactions, Succeeded(t) \/ Failed(t), Finished(t),
           net' \subseteq net, UNCHANGED <<server, lost>>, excused' \in BOOLEAN
    PROVE  TypesInv'
<1>1. transactions' = transactions \ {t} /\ UNCHANGED <<used, nextChannel>>
    BY DEF Finished
<1>2. UnderWayOk'
    BY <1>1, UnderWayKept DEF TypesInv
<1>3. ServerOk'
    BY DEF TypesInv, ServerOk
<1>4. CASE Succeeded(t)
  <2>1. Scheduled(server.grants) \in BOOLEAN
      BY DEF Scheduled
  <2>2. UNCHANGED <<channels, channelTimer>>
      BY <1>4 DEF Succeeded
  <2>3. \/ lifetime' = server.grants /\ timer' = Scheduled(server.grants)
        \/ UNCHANGED <<lifetime, timer>>
      BY <1>4 DEF Succeeded
  <2>4. timer' \in BOOLEAN
      BY <2>1, <2>3 DEF TypesInv, FlagsOk
  <2>5. FlagsOk'
      BY <1>1, <2>2, <2>4 DEF TypesInv, FlagsOk
  <2>6. ClientOk'
      BY <1>1, <2>2, <2>3 DEF TypesInv, ClientOk, ServerOk
  <2> QED  BY <1>2, <1>3, <2>5, <2>6 DEF TypesInv
<1>5. CASE Failed(t)
  <2>1. /\ UNCHANGED lifetime
        /\ UNCHANGED channels \/ \E c : channels' = Without(channels, c)
      BY <1>5 DEF Failed
  <2>2. timer' \in BOOLEAN
      BY <1>5 DEF Failed, TypesInv, FlagsOk
  <2>3. channelTimer' \in BOOLEAN
      BY <1>5 DEF Failed, TypesInv, FlagsOk
  <2>4. FlagsOk'
      BY <1>1, <2>2, <2>3 DEF TypesInv, FlagsOk
  <2>5. ClientOk'
      BY <1>1, <2>1, ClientKept DEF TypesInv
  <2> QED  BY <1>2, <1>3, <2>4, <2>5 DEF TypesInv
<1> QED  BY <1>4, <1>5

LEMMA TypesAuthenticated ==
    ASSUME TypesInv, NEW t \in transactions, NEW m \in net, Authenticated(t, m),
           UNCHANGED <<server, lost, excused>>
    PROVE  TypesInv'
<1>1. PICK again : again = New(transactions, t.method, m.nonce, t.channel, t.peer)
    OBVIOUS
<1>2. /\ transactions' = (transactions \ {t}) \cup {again}
      /\ net' = (net \ {m}) \cup {Wire(again)}
      /\ UNCHANGED <<used, channels, nextChannel, timer, channelTimer, lifetime>>
    BY <1>1 DEF Authenticated
<1>3. /\ t.channel \in Numbers \cup {0}
      /\ t.method = "ChannelBind" => t.channel \in Numbers /\ t.peer \in Peers
    BY DEF TypesInv, UnderWayOk, TransactionOk
<1>4. TransactionOk(again) /\ RequestOk(Wire(again))
    BY <1>1, <1>3, NewTypes
<1>5. UnderWayOk'
    BY <1>2, <1>4, UnderWayKept DEF TypesInv
<1> QED  BY <1>2, <1>5 DEF TypesInv, FlagsOk, ClientOk, ServerOk

LEMMA TypesStep ==
    ASSUME RelayInv, TypesInv, TurnInv, TurnNext
    PROVE  TypesInv'
<1>1. CASE GiveUp
  <2>1. PICK t \in transactions : Failed(t) /\ Finished(t)
      BY <1>1 DEF GiveUp
  <2>2. excused' \in BOOLEAN /\ net' \subseteq net /\ UNCHANGED <<server, lost>>
      BY <1>1 DEF GiveUp
  <2> QED  BY <2>1, <2>2, TypesFinish
<1>2. CASE GetAnswer
  <2>1. PICK m \in net, t \in transactions :
          IF WantsNonce(m.code) THEN Authenticated(t, m)
          ELSE /\ IF m.code = "ok" THEN Succeeded(t) ELSE Failed(t)
               /\ Finished(t) /\ net' = net \ {m}
      BY <1>2 DEF GetAnswer
  <2>2. UNCHANGED <<server, lost, excused>> /\ excused' \in BOOLEAN
      BY <1>2 DEF GetAnswer, TypesInv, FlagsOk
  <2>3. CASE WantsNonce(m.code)
      BY <2>1, <2>2, <2>3, TypesAuthenticated
  <2>4. CASE ~WantsNonce(m.code)
    <3>1. (Succeeded(t) \/ Failed(t)) /\ Finished(t) /\ net' \subseteq net
        BY <2>1, <2>4
    <3> QED  BY <2>2, <3>1, TypesFinish
  <2> QED  BY <2>3, <2>4
<1> QED  BY <1>1, <1>2, TypesCalls, TypesRetries, TypesServes, TypesEnds DEF TurnNext, Timers, Answers

-----------------------------------------------------------------------------
(* Both.                                                                   *)

LEMMA ConnectionsInductive == Spec => [](IceInv /\ TurnInv)
<1>1. Init => IceInv /\ TurnInv
    BY IceBegins, TurnBegins DEF Init
<1>2. IceInv /\ TurnInv /\ [Next]_vars => IceInv' /\ TurnInv'
  <2> SUFFICES ASSUME IceInv, TurnInv, [Next]_vars PROVE IceInv' /\ TurnInv'
      OBVIOUS
  <2>1. CASE IceMoves
    <3>1. UNCHANGED turnVars
        BY <2>1 DEF IceMoves
    <3>2. TurnInv'
        BY <3>1 DEF turnVars, client, TurnInv, BoundInv, Bound, ShapeInv, NotStuck, KeptAlive, Outstanding
    <3> QED  BY <2>1, <3>2, IceStep DEF IceMoves, StepHolds
  <2>2. CASE TurnMoves
    <3>1. UNCHANGED <<behind, hole, agent, datagrams>>
        BY <2>2 DEF TurnMoves, iceVars
    <3> QED  BY <2>2, <3>1, LosesOrWaits, TurnStep DEF TurnMoves, StepHolds
  <2>3. CASE UNCHANGED vars
    <3>1. UNCHANGED <<behind, hole, agent, datagrams>> /\ UNCHANGED turnVars
        BY <2>3 DEF vars, iceVars
    <3>2. TurnInv'
        BY <3>1 DEF turnVars, client, TurnInv, BoundInv, Bound, ShapeInv, NotStuck, KeptAlive, Outstanding
    <3> QED  BY <3>1, <3>2, LosesOrWaits DEF StepHolds
  <2> QED  BY <2>1, <2>2, <2>3 DEF Next
<1> QED  BY <1>1, <1>2, PTL DEF Spec

\* What the ends of a connection and the client of a relay believe is so, and neither waits
\* in vain (handleDatagram() of QXmppIceComponent and QXmppTurnAllocation,
\* src/base/QXmppStun.cpp): for any lifetimes that the server grants, any number of
\* channels, retries, losses and changes of nonce, and any ends behind a translator.
THEOREM BeliefsHoldCorrect == Spec => []BeliefsHold
<1>1. IceInv /\ TurnInv => BeliefsHold
  <2>1. TurnInv => Attributed
      BY DEF TurnInv, BoundInv, Bound, Attributed
  <2> QED  BY <2>1, IceSafe DEF BeliefsHold, TurnInv
<1> QED  BY <1>1, ConnectionsInductive, PTL

\* The rest of the invariant, for which one step needs the part above.
More == IceMore /\ RelayInv /\ TypesInv /\ part \in {"ice", "turn"}

LEMMA MoreInductive == Spec => []More
<1>1. Init => More
    BY MoreBegins, RelayBegins, TypesBegin DEF Init, More
<1>2. ASSUME UNCHANGED turnVars, RelayInv, TypesInv PROVE RelayInv' /\ TypesInv'
  <2>1. UNCHANGED <<state, used, transactions, channels, nextChannel, nonce, timer, channelTimer,
                    lifetime, net, server, lost, excused>>
      BY <1>2 DEF turnVars, client
  <2>2. IdsInv' /\ NoncesInv' /\ Beginning' /\ StatesInv'
      BY <1>2, <2>1 DEF RelayInv, IdsInv, NoncesInv, Beginning, StatesInv, Allocated
  <2>3. AllocatesInv' /\ ServesInv' /\ ReleasesInv'
      BY <1>2, <2>1 DEF RelayInv, AllocatesInv, ServesInv, ReleasesInv, Allocated, Binding, LateAllocate
  <2>4. FlagsOk' /\ ClientOk' /\ ServerOk'
      BY <1>2, <2>1 DEF TypesInv, FlagsOk, ClientOk, ServerOk
  <2>5. UnderWayOk'
      BY <1>2, <2>1 DEF TypesInv, UnderWayOk
  <2> QED  BY <2>2, <2>3, <2>4, <2>5 DEF RelayInv, TypesInv
<1>3. ASSUME UNCHANGED iceVars, IceMore PROVE IceMore'
  <2>1. UNCHANGED <<behind, hole, agent, signals, datagrams, lostDatagrams, accepted, latest, clear>>
      BY <1>3 DEF iceVars
  <2>2. \A e \in Ends : EndOk(e, agent[e])' <=> EndOk(e, agent[e])
      BY <2>1 DEF EndOk
  <2>3. ChecksInv' /\ SignalsInv'
      BY <1>3, <2>1, <2>2 DEF IceMore, ChecksInv, SignalsInv
  <2>4. \A e : (Knows(e)' <=> Knows(e)) /\ (Asked(e)' <=> Asked(e))
      BY <2>1 DEF Knows, Asked, Written, Asking, Replied, Seen
  <2>5. Knows(Other(latest))' <=> Knows(Other(latest))
      BY <2>1 DEF Knows, Seen
  <2>6. Asked(latest)' <=> Asked(latest)
      BY <2>1, <2>4 DEF Asked, Written, Knows, Asking, Replied, Seen
  <2>7. Open' <=> Open
      BY <2>1 DEF Open
  <2>8. RoundsInv'
      BY <1>3, <2>1, <2>4, <2>5, <2>6, <2>7 DEF IceMore, RoundsInv
  <2> QED  BY <2>3, <2>8 DEF IceMore
<1>4. IceInv /\ TurnInv /\ More /\ [Next]_vars => More'
  <2> SUFFICES ASSUME IceInv, TurnInv, More, [Next]_vars PROVE More'
      OBVIOUS
  <2>1. CASE IceMoves
    <3>1. IceNext /\ UNCHANGED <<part, turnVars>>
        BY <2>1 DEF IceMoves
    <3> QED  BY <1>2, <3>1, MoreStep DEF More
  <2>2. CASE TurnMoves
    <3>1. TurnNext /\ UNCHANGED <<part, iceVars>>
        BY <2>2 DEF TurnMoves
    <3> QED  BY <1>3, <3>1, RelayStep, TypesStep DEF More
  <2>3. CASE UNCHANGED vars
      BY <1>2, <1>3, <2>3 DEF vars, More
  <2> QED  BY <2>1, <2>2, <2>3 DEF Next
<1> QED  BY <1>1, <1>4, ConnectionsInductive, PTL DEF Spec

\* What is attempted succeeds (checkCandidates() and handleDatagram() of QXmppIceComponent,
\* transactionFinished() of QXmppTurnAllocation, src/base/QXmppStun.cpp): four rounds of checks
\* without a loss find a connection, whatever was lost before; the server knows the channels that
\* the client writes to; and an allocation is released unless its release could not be expected,
\* for any number of channels, retries, losses and changes of nonce.
THEOREM AttemptsSucceedCorrect == Spec => []AttemptsSucceed
<1>1. IceInv /\ TurnInv /\ More => AttemptsSucceed
  <2> SUFFICES ASSUME IceInv, TurnInv, More PROVE AttemptsSucceed
      OBVIOUS
  <2>1. IceTypeOK /\ ChecksSuffice
      BY MoreSafe DEF More
  <2>2. TurnTypeOK /\ ChannelsServed /\ Released
      BY TypesSuffice, RelaySafe DEF More
  <2> QED  BY <2>1, <2>2 DEF AttemptsSucceed, TypeOK, More
<1> QED  BY <1>1, ConnectionsInductive, MoreInductive, PTL

\* Each end implements IcePhase, the connection as the call sees it (connected(),
\* disconnected() and close() of QXmppIceConnection, src/base/QXmppStun.cpp): it connects
\* only from its checks, and never again once it was closed.
THEOREM PhaseImplemented == Spec => ImplementsPhase
<1>1. Init => PhaseOfA!Init /\ PhaseOfB!Init
  <2>1. \A e \in Ends : Phase(e) = PhaseOf(agent[e])
      BY DEF Phase, PhaseOf
  <2> QED  BY <2>1, IceBegins DEF Init, Ends, PhaseOfA!Init, PhaseOfB!Init
<1>2. IceInv /\ [Next]_vars => /\ [PhaseOfA!Next]_(Phase("a"))
                               /\ [PhaseOfB!Next]_(Phase("b"))
  <2> SUFFICES ASSUME IceInv, [Next]_vars
               PROVE  [PhaseOfA!Next]_(Phase("a")) /\ [PhaseOfB!Next]_(Phase("b"))
      OBVIOUS
  <2>1. CASE IceMoves
    <3>1. \A e \in Ends : Moves(PhaseOf(agent[e]), PhaseOf(agent'[e]))
        BY <2>1, IceStep DEF IceMoves, StepHolds
    <3>2. \A e \in Ends : Phase(e) = PhaseOf(agent[e]) /\ Phase(e)' = PhaseOf(agent'[e])
        BY DEF Phase, PhaseOf
    <3>3. \A e \in Ends : Moves(Phase(e), Phase(e)')
        BY <3>1, <3>2
    <3> QED  BY <3>3 DEF Ends, Moves, PhaseOfA!Next, PhaseOfB!Next, PhaseOfA!Start, PhaseOfB!Start,
                PhaseOfA!Connect, PhaseOfB!Connect, PhaseOfA!Close, PhaseOfB!Close,
                PhaseOfA!Restart, PhaseOfB!Restart
  <2>2. CASE UNCHANGED agent
      BY <2>2 DEF Phase
  <2> QED  BY <2>1, <2>2 DEF Next, TurnMoves, vars, iceVars
<1> QED  BY <1>1, <1>2, ConnectionsInductive, PTL
         DEF Spec, ImplementsPhase, PhaseOfA!Spec, PhaseOfB!Spec
=============================================================================
