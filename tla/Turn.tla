---------------------------------- MODULE Turn ----------------------------------
(***************************************************************************)
(* QXmppTurnAllocation and its QXmppStunTransactions                       *)
(* (src/base/QXmppStun.cpp): a relayed address on a server, kept alive by  *)
(* refreshes, with one numbered channel per peer.  Datagrams are lost,     *)
(* overtake each other and, since requests are repeated, arrive twice.     *)
(* The server asks for its current nonce and may change it.                *)
(***************************************************************************)
EXTENDS Integers, FiniteSets, Functions

CONSTANTS
    Peers,          \* the addresses data is written to
    Lifetimes,      \* what the server grants, in seconds; 0: it does not say
    MaxTries,       \* STUN_RTO_MAX
    MaxFaults,      \* bound on the datagrams lost and the changes of nonce
    MaxChannels,    \* bound on the channel numbers given out
    MaxPending,     \* bound on the transactions under way at a time
    MaxNet          \* bound on the datagrams under way when a request is repeated

ASSUME TurnAssumption ==
    /\ Lifetimes \subseteq Nat /\ Lifetimes # {} /\ Peers # {}
    /\ MaxTries \in Nat \ {0} /\ {MaxFaults, MaxChannels, MaxPending, MaxNet} \subseteq Nat

VARIABLES
    state,          \* m_state
    used,           \* connectToHost() is called once, by setSockets()
    transactions,   \* m_transactions
    channels,       \* m_channels, from numbers to peers
    nextChannel,    \* m_channelNumber
    nonce,          \* m_nonce; the realm is known when it is
    timer,          \* m_timer is active
    channelTimer,   \* m_channelTimer is active
    lifetime,       \* m_lifetime
    net,            \* the datagrams under way
    server,         \* the allocation, its channels, the nonce it asks for, and the
                    \* lifetime its answers grant; does it know the user?
    lost,           \* the number of datagrams lost
    excused         \* history: no release can be expected (Released)

client == <<state, used, transactions, channels, nextChannel, nonce, timer,
            channelTimer, lifetime>>
turnVars == <<client, net, server, lost, excused>>

NoNonce == 0
Methods == {"Allocate", "Refresh", "Release", "ChannelBind"}
Numbers == 1 .. MaxChannels

Range0(f) == {f[x] : x \in DOMAIN f}
Without(f, x) == Restrict(f, DOMAIN f \ {x})
With(f, x, y) == [z \in DOMAIN f \cup {x} |-> IF z = x THEN y ELSE f[z]]
Empty == [x \in {} |-> 0]

\* What has gone wrong so far outside the client.
Faults == lost + (server.nonce - 1)

TurnTypeOK ==
    /\ state \in {"Unconnected", "Connecting", "Connected", "Closing"}
    /\ {used, timer, channelTimer, excused} \subseteq BOOLEAN
    /\ \A t \in transactions :
         /\ t.id \in Nat /\ t.method \in Methods /\ t.nonce \in 0 .. MaxFaults + 1
         /\ t.channel \in Numbers \cup {0} /\ t.tries \in 1 .. MaxTries
    /\ DOMAIN channels \subseteq 1 .. (nextChannel - 1) /\ Range0(channels) \subseteq Peers
    /\ nextChannel \in 1 .. MaxChannels + 1
    /\ nonce \in 0 .. MaxFaults + 1
    /\ lifetime \in Lifetimes \cup {600}
    /\ Faults \in 0 .. MaxFaults
    /\ server.by \in Nat \cup {-1} /\ server.nonce \in 1 .. MaxFaults + 1
    /\ server.grants \in Lifetimes /\ server.knows \in BOOLEAN
    /\ DOMAIN server.channels \subseteq Numbers /\ Range0(server.channels) \subseteq Peers

TurnInit ==
    /\ state = "Unconnected" /\ used = FALSE /\ transactions = {}
    /\ channels = Empty /\ nextChannel = 1 /\ nonce = NoNonce
    /\ timer = FALSE /\ channelTimer = FALSE /\ lifetime = 600
    /\ net = {} /\ lost = 0 /\ excused = FALSE
    /\ \E seconds \in Lifetimes, known \in BOOLEAN :
         server = [by |-> -1, channels |-> Empty, nonce |-> 1, grants |-> seconds,
                   knows |-> known]

-----------------------------------------------------------------------------
(* Transactions.                                                           *)

\* A random identifier: one that nothing under way has.
FreshId(known) ==
    CHOOSE i \in 0 .. Cardinality(known) + Cardinality(net) + 1 :
        (\A t \in known : t.id # i) /\ (\A m \in net : m.id # i) /\ server.by # i

\* The request of a transaction on the wire.
Wire(t) == [kind |-> "request", id |-> t.id, method |-> t.method, nonce |-> t.nonce,
            channel |-> t.channel, peer |-> t.peer]

\* The constructor sends the request at once.
New(known, method, n, channel, peer) ==
    [id |-> FreshId(known), method |-> method, nonce |-> n, channel |-> channel,
     peer |-> peer, tries |-> 1]

NoPeer == "none"
Free == Cardinality(transactions) < MaxPending
Begin(rest, t) == transactions' = rest \cup {t} /\ net' = net \cup {Wire(t)}

\* retry(): the request again
Retry == \E t \in transactions :
    /\ t.tries < MaxTries /\ Cardinality(net) < MaxNet
    /\ transactions' = (transactions \ {t}) \cup {[t EXCEPT !.tries = @ + 1]}
    /\ net' = net \cup {Wire(t)}
    /\ UNCHANGED <<state, used, channels, nextChannel, nonce, timer, channelTimer,
                   lifetime, server, lost, excused>>

-----------------------------------------------------------------------------
(* Calls and timers.                                                       *)

AllocationConnects ==
    /\ state = "Unconnected" /\ ~used
    /\ used' = TRUE /\ state' = "Connecting"
    /\ Begin(transactions, New(transactions, "Allocate", NoNonce, 0, NoPeer))
    /\ UNCHANGED <<channels, nextChannel, nonce, timer, channelTimer, lifetime,
                   server, lost, excused>>

\* A repeated request to allocate is still under way, and may overtake.
LateAllocate == \E m \in net : m.kind = "request" /\ m.method = "Allocate"

\* disconnectFromHost(): only a connected allocation is released.
DisconnectFromHost ==
    /\ used
    /\ channelTimer' = FALSE /\ timer' = FALSE /\ channels' = Empty
    /\ IF state = "Connected"
       THEN /\ state' = "Closing"
            /\ Begin({}, New({}, "Release", nonce, 0, NoPeer))
            /\ excused' = (excused \/ LateAllocate)
       ELSE /\ state' = "Unconnected" /\ transactions' = {}
            /\ excused' = (excused \/ state # "Unconnected")
            /\ net' = net
    /\ UNCHANGED <<used, nextChannel, nonce, lifetime, server, lost>>

\* m_timer: refresh()
Refresh ==
    /\ timer /\ timer' = FALSE /\ Free
    /\ Begin(transactions, New(transactions, "Refresh", nonce, 0, NoPeer))
    /\ UNCHANGED <<state, used, channels, nextChannel, nonce, channelTimer, lifetime,
                   server, lost, excused>>

Binding(c) == \E t \in transactions : t.method = "ChannelBind" /\ t.channel = c

\* m_channelTimer: refreshChannels().  The requests of the last round, 500 s ago,
\* have been answered or have timed out after 63.5 s.
RefreshChannel ==
    /\ channelTimer /\ Free
    /\ \E c \in DOMAIN channels :
         /\ ~Binding(c)
         /\ Begin(transactions, New(transactions, "ChannelBind", nonce, c, channels[c]))
    /\ UNCHANGED <<state, used, channels, nextChannel, nonce, timer, channelTimer,
                   lifetime, server, lost, excused>>

\* Mutant: the smallest number that is free is given out again.
NumberFree == CHOOSE c \in 1 .. MaxChannels + 1 :
    c \notin DOMAIN channels /\ \A b \in 1 .. c - 1 : b \in DOMAIN channels

\* The number of a new channel.
Number == nextChannel

\* writeDatagram() to a peer without a channel
WriteDatagram == \E p \in Peers :
    /\ state = "Connected" /\ p \notin Range0(channels) /\ nextChannel <= MaxChannels /\ Free
    /\ channels' = With(channels, Number, p) /\ nextChannel' = nextChannel + 1
    /\ Begin(transactions, New(transactions, "ChannelBind", nonce, Number, p))
    /\ channelTimer' = TRUE
    /\ UNCHANGED <<state, used, nonce, timer, lifetime, server, lost, excused>>

-----------------------------------------------------------------------------
(* The server.                                                             *)

Answer(q, code) == [kind |-> "response", id |-> q.id, method |-> q.method, code |-> code,
                    nonce |-> server.nonce]

Allocated == server.by # -1

\* The answer to the request q, and what it makes of the allocation.
Success(q) ==
    CASE q.method = "Allocate" -> ~Allocated \/ server.by = q.id
      [] q.method \in {"Refresh", "Release"} -> Allocated
      [] q.method = "ChannelBind" ->
           /\ Allocated
           /\ \A c \in DOMAIN server.channels :
                (c = q.channel) <=> (server.channels[c] = q.peer)

Granted(q) ==
    CASE q.method = "Allocate" -> [server EXCEPT !.by = q.id]
      [] q.method = "Refresh" -> server
      [] q.method = "Release" -> [server EXCEPT !.by = -1, !.channels = Empty]
      [] q.method = "ChannelBind" ->
           [server EXCEPT !.channels = With(@, q.channel, q.peer)]

\* It answers with what it grants, with an error, or asks for its nonce.
ServerAnswers == \E q \in net :
    /\ q.kind = "request"
    /\ LET code == IF q.nonce # server.nonce \/ ~server.knows THEN "401"
                   ELSE IF Success(q) THEN "ok" ELSE "error"
       IN  /\ net' = (net \ {q}) \cup {Answer(q, code)}
           /\ server' = IF code = "ok" THEN Granted(q) ELSE server
    /\ UNCHANGED <<client, lost, excused>>

Rotate ==
    /\ Faults < MaxFaults
    /\ server' = [server EXCEPT !.nonce = @ + 1]
    /\ excused' = TRUE
    /\ UNCHANGED <<client, net, lost>>

\* The lifetime is over: the first six tries of a refresh, 60 s before the end,
\* were in vain, or nobody refreshes the allocation any more.  No datagram is as old.
Expire ==
    /\ Allocated /\ ~LateAllocate
    /\ \/ state \in {"Unconnected", "Closing"}
       \/ \E t \in transactions : t.method = "Refresh" /\ t.tries = MaxTries
       \/ state = "Connected" /\ lifetime < 60
    /\ server' = [server EXCEPT !.by = -1, !.channels = Empty]
    /\ UNCHANGED <<client, net, lost, excused>>

Lose == \E m \in net :
    /\ Faults < MaxFaults
    /\ net' = net \ {m} /\ lost' = lost + 1
    /\ UNCHANGED <<client, server, excused>>

-----------------------------------------------------------------------------
(* Answers.                                                                *)

\* (m_lifetime - 60) * 1000 is unsigned, and a negative interval once it is an
\* int: such a timer is not started.
Scheduled(seconds) == seconds - 60 >= 0

\* Mutant: the nonce alone decides.
WantsNonceAlways(code) == code = "401"

\* An answer that asks for a nonce is followed once: the realm must have changed,
\* too, and it changes when the first answer is read.
WantsNonce(code) == code = "401" /\ nonce = NoNonce

\* transactionFinished(), the request repeated with the nonce
Authenticated(t, m) ==
    LET again == New(transactions, t.method, m.nonce, t.channel, t.peer)
    IN  /\ nonce' = m.nonce
        /\ transactions' = (transactions \ {t}) \cup {again}
        /\ net' = (net \ {m}) \cup {Wire(again)}
        /\ UNCHANGED <<state, used, channels, nextChannel, timer, channelTimer, lifetime>>

\* transactionFinished(), an answer of success.  The relay modelled always names the address it
\* allocated; an answer without a valid one ends the attempt (QXmppStun.cpp:1427-1433).
Succeeded(t) ==
    /\ state' = CASE t.method = "Allocate" -> "Connected"
                  [] t.method = "Release" -> "Unconnected"
                  [] OTHER -> state
    /\ IF t.method \in {"Allocate", "Refresh"}
       THEN lifetime' = server.grants /\ timer' = Scheduled(server.grants)
       ELSE UNCHANGED <<lifetime, timer>>
    /\ UNCHANGED <<channels, channelTimer>>

\* Mutant: a channel that could not be bound stays in use.
FailedKeeps(t) ==
    /\ UNCHANGED <<lifetime, channels, channelTimer>>
    /\ IF t.method = "ChannelBind" THEN UNCHANGED <<state, timer>>
       ELSE state' = "Unconnected" /\ timer' = FALSE

\* transactionFinished(), an error or no answer at all: without its allocation the
\* client keeps its channels.
Failed(t) ==
    /\ UNCHANGED lifetime
    /\ IF t.method = "ChannelBind"
       THEN /\ channels' = Without(channels, t.channel)
            /\ channelTimer' = (channelTimer /\ channels' # Empty)
            /\ UNCHANGED <<state, timer>>
       ELSE state' = "Unconnected" /\ timer' = FALSE /\ UNCHANGED <<channels, channelTimer>>

Finished(t) ==
    /\ transactions' = transactions \ {t}
    /\ UNCHANGED <<used, nextChannel, nonce>>

\* handleDatagram(): an answer, to a transaction that is known
GetAnswer == \E m \in net :
    /\ m.kind = "response"
    /\ \E t \in transactions :
         /\ t.id = m.id /\ t.method = m.method
         /\ IF WantsNonce(m.code) THEN Authenticated(t, m)
            ELSE /\ IF m.code = "ok" THEN Succeeded(t) ELSE Failed(t)
                 /\ Finished(t) /\ net' = net \ {m}
    /\ UNCHANGED <<server, lost, excused>>

GetLateAnswer == \E m \in net :
    /\ m.kind = "response"
    /\ \A t \in transactions : t.id # m.id
    /\ net' = net \ {m}
    /\ UNCHANGED <<client, server, lost, excused>>

\* retry(), the last time: an answer takes less than the 32 s before it.
GiveUp == \E t \in transactions :
    /\ t.tries = MaxTries /\ \A m \in net : m.id # t.id
    /\ Failed(t) /\ Finished(t)
    /\ excused' = TRUE
    /\ UNCHANGED <<net, server, lost>>

Timers == Retry \/ GiveUp
Answers == ServerAnswers \/ GetAnswer \/ GetLateAnswer

TurnNext ==
    \/ AllocationConnects \/ DisconnectFromHost \/ WriteDatagram
    \/ Refresh \/ RefreshChannel \/ Timers \/ Answers
    \/ Rotate \/ Expire \/ Lose

-----------------------------------------------------------------------------
(* Properties.                                                             *)

Outstanding(method) == \E t \in transactions : t.method = method

\* The state waits for something: a connecting or a closing allocation has its
\* request under way, repeated by a timer, and nothing else ends the state.
NotStuck ==
    /\ state = "Connecting" => Outstanding("Allocate")
    /\ state = "Closing" => Outstanding("Release")

\* A connected allocation will be refreshed: by the timer, or by a request that
\* is under way; unless the server grants less than a minute.
KeptAlive ==
    state = "Connected" => timer \/ Outstanding("Refresh") \/ lifetime < 60

\* The data that the server relays on a channel is attributed to the peer it came
\* from (handleDatagram, QXmppStun.cpp:1258): a number that the client has given up,
\* because an answer was late, never means another peer.
Attributed ==
    \A c \in DOMAIN server.channels \cap DOMAIN channels :
        channels[c] = server.channels[c]

\* Data is written to channels that the server knows, once the binding is answered.
ChannelsServed ==
    state = "Connected" /\ Allocated =>
        \A c \in DOMAIN channels :
            Binding(c) \/ (c \in DOMAIN server.channels /\ server.channels[c] = channels[c])

\* What was allocated is released, whatever is lost or repeated, as long as every
\* request is answered in the end, the nonce lasts, no allocation is cancelled while
\* it is requested, and no repeated request to allocate arrives after the release.
Released ==
    state = "Unconnected" /\ ~excused => ~Allocated

\* No request goes on for ever: a connecting allocation ends up connected or not,
\* and a closing one unconnected, also when the server refuses the credentials.
Settles == state \in {"Connecting", "Closing"} ~> state \in {"Connected", "Unconnected"}
===============================================================================
