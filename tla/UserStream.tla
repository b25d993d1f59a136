------------------------------ MODULE UserStream ------------------------------
(***************************************************************************)
(* QTweetUserStream (src/qtweetlib/qtweetuserstream.cpp): a reply of       *)
(* Twitter that does not end, whose messages end in CR LF and come in      *)
(* chunks that know nothing of them; it is asked for again when it has     *)
(* ended, after a while if that was an error, and dropped when it falls    *)
(* silent.  A message is two bytes long; an empty one keeps the line open. *)
(***************************************************************************)
EXTENDS Naturals, SequencesExt

CONSTANTS
    Kinds,      \* the kinds of messages: their members "friends", "direct_message", ...
    MaxSent     \* bound on the messages of a connection

CR == <<"CR", 0>>
LF == <<"LF", 0>>
KeepAlive == "keep-alive"
ASSUME StreamAssumption ==
    /\ Kinds \subseteq {"friends", "direct_message", "text", "delete"} /\ MaxSent \in Nat

VARIABLES
    reply,            \* m_reply: "none" or "open"
    link,             \* whether its connection is "alive" or "dead", which nobody is told
    sent,             \* the messages that Twitter has sent on it
    wire,             \* the bytes of them that are under way
    stream,           \* the elements that were handed on since it was opened
    cachedResponse,   \* m_cachedResponse
    backoff,          \* m_backofftimer: whether it is active, and its interval in seconds
    timeoutTimer,     \* m_timeoutTimer is active
    tryingReconnect,  \* m_streamTryingReconnect
    crashed,          \* a null m_reply was called
    torn,             \* history: a connection was lost with an element cached
    rash,             \* history: startFetching() was called with a stream open or about to be
    stopped           \* history: streamDisconnect() was called

streamVars == <<reply, link, sent, wire, stream, cachedResponse, backoff, timeoutTimer,
                tryingReconnect, crashed, torn, rash, stopped>>

Intervals == {20, 40, 80, 160, 300}
Bytes(message) == IF message = KeepAlive THEN <<CR, LF>> ELSE <<<<message, 1>>, <<message, 2>>, CR, LF>>

StreamTypeOK ==
    /\ reply \in {"none", "open"} /\ link \in {"alive", "dead"}
    /\ sent \in BoundedSeq(Kinds \cup {KeepAlive}, MaxSent)
    /\ backoff \in [active : BOOLEAN, interval : Intervals]
    /\ {timeoutTimer, tryingReconnect, crashed, torn, rash, stopped} \subseteq BOOLEAN

StreamInit ==
    /\ reply = "none" /\ link = "dead" /\ sent = << >> /\ wire = << >> /\ stream = << >>
    /\ cachedResponse = << >> /\ backoff = [active |-> FALSE, interval |-> 20]
    /\ timeoutTimer = FALSE /\ tryingReconnect = FALSE
    /\ crashed = FALSE /\ torn = FALSE /\ rash = FALSE /\ stopped = FALSE

Connection == <<reply, link, sent, wire, stream, torn>>

\* The next reply of the network manager, whose connection may turn out dead.
Opens ==
    /\ reply' = "open" /\ link' \in {"alive", "dead"}
    /\ sent' = << >> /\ wire' = << >> /\ stream' = << >>
    /\ torn' = (torn \/ cachedResponse # << >>)

Ends ==
    /\ reply' = "none" /\ link' = "dead"
    /\ sent' = << >> /\ wire' = << >> /\ stream' = << >> /\ UNCHANGED torn

\* The interval after a failure.
Longer(interval) == IF 2 * interval > 300 THEN 300 ELSE 2 * interval

BackOff == backoff' = [active |-> TRUE, interval |-> Longer(backoff.interval)]

\* startFetching(): abort() runs replyFinished(), with an error, before it returns; what is
\* deleted after that is null, which Qt passes over.
StartFetching(timer) ==
    IF reply = "open"
    THEN Opens /\ BackOff /\ tryingReconnect' = TRUE /\ timeoutTimer' = FALSE
    ELSE Opens /\ backoff' = timer /\ UNCHANGED <<tryingReconnect, timeoutTimer>>

\* The program starts the stream, maybe anew.
StartStream ==
    /\ ~crashed /\ StartFetching(backoff)
    /\ rash' = (rash \/ reply = "open" \/ backoff.active) /\ stopped' = FALSE
    /\ UNCHANGED <<cachedResponse, crashed>>

BackoffFires ==
    /\ ~crashed /\ backoff.active
    /\ StartFetching([backoff EXCEPT !.active = FALSE])
    /\ UNCHANGED <<cachedResponse, crashed, rash, stopped>>

\* streamDisconnect(): no signal of the reply arrives any more; the timers go on.
StreamDisconnect ==
    /\ ~crashed
    /\ IF reply = "open" THEN Ends ELSE UNCHANGED Connection
    /\ stopped' = TRUE
    /\ UNCHANGED <<cachedResponse, backoff, timeoutTimer, tryingReconnect, crashed, rash>>

\* Mutant: it is asked for again, and later once more.
ReplyFinishedTwice(error) ==
    /\ tryingReconnect' = TRUE /\ timeoutTimer' = FALSE
    /\ BackOff /\ IF error THEN Ends ELSE Opens

\* replyFinished(), and after it the timer of the silence is stopped.
ReplyFinished(error) ==
    /\ tryingReconnect' = TRUE /\ timeoutTimer' = FALSE
    /\ IF error THEN Ends /\ BackOff ELSE Opens /\ UNCHANGED backoff

\* The connection ends, with what is under way on it.
ConnectionEnds ==
    /\ ~crashed /\ reply = "open" /\ link = "alive"
    /\ \E error \in BOOLEAN : ReplyFinished(error)
    /\ UNCHANGED <<cachedResponse, crashed, rash, stopped>>

ConnectionDies ==
    /\ ~crashed /\ reply = "open" /\ link = "alive" /\ link' = "dead" /\ wire' = << >>
    /\ UNCHANGED <<reply, sent, stream, cachedResponse, backoff, timeoutTimer, tryingReconnect,
                   crashed, torn, rash, stopped>>

\* replyTimeout(): as long as the connection is alive, Twitter keeps it from falling silent.
TimeoutFires ==
    /\ ~crashed /\ timeoutTimer
    /\ \/ /\ reply = "open" /\ link = "dead" /\ ReplyFinished(TRUE) /\ UNCHANGED crashed
       \/ /\ reply = "none" /\ crashed' = TRUE
          /\ UNCHANGED <<Connection, backoff, timeoutTimer, tryingReconnect>>
    /\ UNCHANGED <<cachedResponse, rash, stopped>>

TwitterSends ==
    /\ ~crashed /\ reply = "open" /\ link = "alive" /\ Len(sent) < MaxSent
    /\ \E m \in Kinds \cup {KeepAlive} : sent' = Append(sent, m) /\ wire' = wire \o Bytes(m)
    /\ UNCHANGED <<reply, link, stream, cachedResponse, backoff, timeoutTimer, tryingReconnect,
                   crashed, torn, rash, stopped>>
-----------------------------------------------------------------------------

Cuts(data) == SetToSortSeq({i \in DOMAIN data : data[i] = CR}, <)

\* Where the next element starts after the CR at i: the LF may be in the chunk to come.
After(data, i) == IF i < Len(data) /\ data[i + 1] = LF THEN i + 2 ELSE i + 1

Starts(data) == <<1>> \o [k \in DOMAIN Cuts(data) |-> After(data, Cuts(data)[k])]

\* The elements of the data, the empty ones left out, and what is left over.
Elements(data) ==
    LET cuts == Cuts(data) starts == Starts(data)
    IN  SelectSeq([k \in DOMAIN cuts |-> SubSeq(data, starts[k], cuts[k] - 1)], LAMBDA e : e # << >>)

Rest(data) == SubSeq(data, Last(Starts(data)), Len(data))

\* replyReadyRead(), and the timer of the silence starts again.  (Bound: once a part of a
\* message was lost, no other message is cut.)
ReplyReadyRead ==
    /\ ~crashed /\ reply = "open"
    /\ \E n \in IF torn THEN {Len(wire)} \ {0} ELSE DOMAIN wire :
         LET data == cachedResponse \o SubSeq(wire, 1, n)
         IN  /\ stream' = stream \o Elements(data) /\ cachedResponse' = Rest(data)
             /\ wire' = SubSeq(wire, n + 1, Len(wire))
    /\ tryingReconnect' = FALSE /\ backoff' = [backoff EXCEPT !.interval = 20] /\ timeoutTimer' = TRUE
    /\ UNCHANGED <<reply, link, sent, crashed, torn, rash, stopped>>

StreamNext ==
    \/ StartStream \/ StreamDisconnect \/ BackoffFires \/ ConnectionEnds \/ ConnectionDies
    \/ TimeoutFires \/ TwitterSends \/ ReplyReadyRead

\* parseStream(): the signal for an element.  White space before it does not matter; what
\* is not a whole message is no JSON.
SignalOf(element) ==
    LET bytes == SelectSeq(element, LAMBDA b : b # LF)
    IN  IF \E k \in Kinds : bytes = <<<<k, 1>>, <<k, 2>>>> THEN bytes[1][1] ELSE "none"
-----------------------------------------------------------------------------
(* Properties.                                                             *)

\* The messages are handed on whole, once and in order, however they were cut into chunks;
\* unless an earlier connection had left a part of one, which is kept for the next.
WholeMessages ==
    ~torn => IsPrefix(SelectSeq([k \in DOMAIN stream |-> SignalOf(stream[k])], LAMBDA s : s # "none"),
                      SelectSeq(sent, LAMBDA m : m # KeepAlive))

\* When all has arrived, all was handed on, and nothing else.
AllHandedOn ==
    ~torn /\ reply = "open" /\ link = "alive" /\ wire = << >> =>
      Len(SelectSeq(stream, LAMBDA e : SignalOf(e) # "none")) = Len(SelectSeq(sent, LAMBDA m : m # KeepAlive))

\* The timer of the silence finds a reply to abort, unless the program has disconnected.
SomethingToAbort == crashed => stopped

\* No reconnection is planned while the stream is open; but once it was started while it
\* was open, or about to be, it is torn down again and again.
NoPlanWhileOpen == reply = "open" /\ backoff.active => rash

\* A stream that has failed comes back, unless the program has disconnected.
Failed == tryingReconnect /\ reply = "none" /\ ~stopped
StreamComesBack == Failed ~> ~Failed \/ crashed

\* A connection that has died is noticed, if a message has come over it before.
SilentlyDead == reply = "open" /\ link = "dead" /\ stream # << >>
DeadStreamDropped == SilentlyDead ~> ~SilentlyDead
=============================================================================
