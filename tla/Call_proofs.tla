----------------------------- MODULE Call_proofs ------------------------------
(***************************************************************************)
(* Theorems about a call, for any number of candidates and lost sessions   *)
(* and whoever may send video: each end was told the mode its streams      *)
(* have, and the two ends agree whether the call is active.                *)
(***************************************************************************)
EXTENDS Call, SequenceTheorems, TLAPS

-----------------------------------------------------------------------------
(* What the handlers make of one call.                                     *)

States == {"none", "connecting", "active", "disconnecting", "finished", "deleted"}
Streams == [there : BOOLEAN, open : BOOLEAN, ice : Phases]
Modes == SUBSET {"read", "write"}
Calls == [state : States, stream : [Media -> Streams], mode : [Media -> Modes],
          sendVideo : BOOLEAN, hangups : Nat, timers : Nat]

\* The program was told the mode each stream has; and a video that is not there is not started.
Told(c) == \A m \in Media : c.mode[m] = Mode(c, m)
VideoNew(c) == ~c.stream["video"].there => c.stream["video"].ice = "new"
Sound(c) == c \in Calls /\ Told(c) /\ VideoNew(c)

\* The same but for the mode and the state of the connections.
Like(d, c) ==
  /\ d.hangups = c.hangups /\ d.timers = c.timers
  /\ \A m \in Media : d.stream[m].there = c.stream[m].there

LEMMA ModeIsOne == \A c, m : Mode(c, m) \in Modes
    BY DEF Mode, Modes

LEMMA Updated ==
    ASSUME NEW c \in Calls, VideoNew(c)
    PROVE  /\ Sound(UpdateOpenMode(c)) /\ UpdateOpenMode(c).state = c.state
           /\ UpdateOpenMode(c).stream = c.stream /\ Like(UpdateOpenMode(c), c)
<1> DEFINE new == [m \in Media |-> Mode(c, m)]
           d == UpdateOpenMode(c)
<1>1. new \in [Media -> Modes]
    BY ModeIsOne
<1> HIDE DEF new
<1>2. d = [c EXCEPT !.mode = new]
    BY DEF UpdateOpenMode, new
<1>3. d \in Calls
    BY <1>1, <1>2 DEF Calls
<1>4. /\ d.mode = new /\ d.state = c.state /\ d.stream = c.stream /\ d.sendVideo = c.sendVideo
      /\ d.hangups = c.hangups /\ d.timers = c.timers
    BY <1>2 DEF Calls
<1> HIDE DEF d
<1>5. \A m \in Media : Mode(d, m) = Mode(c, m)
    BY <1>4, Zenon DEF Mode
<1>6. Told(d)
    BY <1>4, <1>5 DEF Told, new
<1>7. VideoNew(d)
    BY <1>4, Zenon DEF VideoNew
<1> QED  BY <1>3, <1>4, <1>6, <1>7 DEF Sound, Like, d

\* The mode is not open unless the call is active and the stream connected.
LEMMA ModeClosed ==
    \A c, m : c.state # "active" \/ c.stream[m].ice # "connected" => Mode(c, m) = {}
    BY Zenon DEF Mode

LEMMA StateSet ==
    ASSUME NEW c \in Calls, VideoNew(c), NEW new \in States, c.state = new => Told(c)
    PROVE  /\ Sound(SetState(c, new)) /\ SetState(c, new).state = new
           /\ SetState(c, new).stream = c.stream /\ Like(SetState(c, new), c)
<1>1. CASE c.state = new
  <2>1. SetState(c, new) = c
      BY <1>1 DEF SetState
  <2> QED  BY <1>1, <2>1 DEF Sound, Like
<1>2. CASE c.state # new
  <2> DEFINE d == [c EXCEPT !.state = new]
  <2>1. SetState(c, new) = UpdateOpenMode(d)
      BY <1>2 DEF SetState
  <2>2. d \in Calls /\ d.state = new /\ d.stream = c.stream /\ d.hangups = c.hangups /\ d.timers = c.timers
      BY DEF Calls
  <2> HIDE DEF d
  <2>3. VideoNew(d)
      BY <2>2, Zenon DEF VideoNew
  <2>4. /\ Sound(UpdateOpenMode(d)) /\ UpdateOpenMode(d).state = d.state
        /\ UpdateOpenMode(d).stream = d.stream /\ Like(UpdateOpenMode(d), d)
      BY <2>2, <2>3, Updated
  <2> QED  BY <2>1, <2>2, <2>4 DEF Like
<1> QED  BY <1>1, <1>2

LEMMA TerminateMakes ==
    ASSUME NEW c \in Calls, VideoNew(c), Ended(c) => Told(c)
    PROVE  /\ Sound(Terminate(c)) /\ Terminate(c).stream = c.stream
           /\ Ended(c) => Terminate(c) = c
           /\ ~Ended(c) => /\ Terminate(c).state = "disconnecting"
                           /\ Terminate(c).hangups = c.hangups + 1 /\ Terminate(c).timers = c.timers + 1
<1>1. CASE Ended(c)
    BY <1>1 DEF Terminate, Sound
<1>2. CASE ~Ended(c)
  <2> DEFINE d == [c EXCEPT !.hangups = @ + 1, !.timers = @ + 1]
  <2>1. Terminate(c) = SetState(d, "disconnecting")
      BY <1>2 DEF Terminate
  <2>2. c.hangups \in Nat /\ c.timers \in Nat
      BY DEF Calls
  <2>3. c.hangups + 1 \in Nat /\ c.timers + 1 \in Nat
      BY <2>2
  <2>4. /\ d \in Calls /\ d.state = c.state /\ d.stream = c.stream /\ d.hangups = c.hangups + 1
        /\ d.timers = c.timers + 1
      BY <2>3 DEF Calls
  <2> HIDE DEF d
  <2>5. VideoNew(d)
      BY <2>4, Zenon DEF VideoNew
  <2>6. d.state # "disconnecting" /\ "disconnecting" \in States
      BY <1>2, <2>4 DEF Ended, States
  <2>7. /\ Sound(SetState(d, "disconnecting")) /\ SetState(d, "disconnecting").state = "disconnecting"
        /\ SetState(d, "disconnecting").stream = d.stream /\ Like(SetState(d, "disconnecting"), d)
      BY <2>4, <2>5, <2>6, StateSet
  <2> QED  BY <1>2, <2>1, <2>4, <2>7 DEF Like
<1> QED  BY <1>1, <1>2

LEMMA TerminatedMakes ==
    ASSUME NEW c \in Calls, VideoNew(c), c.state = "finished" => Told(c)
    PROVE  Sound(Terminated(c)) /\ Terminated(c).state = "finished" /\ Like(Terminated(c), c)
<1> DEFINE closed == [m \in Media |->
             [c.stream[m] EXCEPT !.ice = IF c.stream[m].there THEN "closed" ELSE @,
                                 !.open = @ /\ m = "video"]]
           d == [c EXCEPT !.stream = closed]
<1>1. ASSUME NEW m \in Media
      PROVE  /\ closed[m] \in Streams /\ closed[m].there = c.stream[m].there
             /\ closed[m].ice = IF c.stream[m].there THEN "closed" ELSE c.stream[m].ice
  <2> DEFINE s == c.stream[m]
             ice == IF s.there THEN "closed" ELSE s.ice
             open == s.open /\ m = "video"
  <2>1. s \in Streams /\ closed[m] = [s EXCEPT !.ice = ice, !.open = open]
      BY <1>1 DEF Calls
  <2>2. open \in BOOLEAN
      OBVIOUS
  <2>3. ice \in Phases
      BY <2>1 DEF Streams, Phases
  <2> HIDE DEF s, ice, open, closed
  <2>4. closed[m] \in Streams /\ closed[m].there = s.there /\ closed[m].ice = ice
      BY <2>1, <2>2, <2>3 DEF Streams
  <2> QED  BY <2>4, Zenon DEF s, ice
<1>2. closed \in [Media -> Streams]
    BY <1>1
<1>3. Terminated(c) = SetState(d, "finished")
    BY DEF Terminated
<1> HIDE DEF closed
<1>4. /\ d \in Calls /\ d.state = c.state /\ d.stream = closed /\ d.mode = c.mode
      /\ d.hangups = c.hangups /\ d.timers = c.timers
    BY <1>2 DEF Calls
<1> HIDE DEF d
<1>5. VideoNew(d)
  <2>1. closed["video"].there = c.stream["video"].there
        /\ (~c.stream["video"].there => closed["video"].ice = c.stream["video"].ice)
      BY <1>1, Zenon DEF Media
  <2> QED  BY <1>4, <2>1, Zenon DEF VideoNew
<1>6. d.state = "finished" => Told(d)
  <2> HAVE d.state = "finished"
  <2>1. Told(c) /\ c.state = "finished" /\ "finished" # "active"
      BY <1>4
  <2>2. \A m \in Media : Mode(c, m) = {} /\ Mode(d, m) = {}
      BY <1>4, <2>1, ModeClosed
  <2> QED  BY <1>4, <2>1, <2>2 DEF Told
<1>7. "finished" \in States
    BY DEF States
<1>8. /\ Sound(SetState(d, "finished")) /\ SetState(d, "finished").state = "finished"
      /\ SetState(d, "finished").stream = d.stream /\ Like(SetState(d, "finished"), d)
    BY <1>4, <1>5, <1>6, <1>7, StateSet
<1>9. \A m \in Media : d.stream[m].there = c.stream[m].there
    BY <1>1, <1>4
<1> QED  BY <1>3, <1>4, <1>8, <1>9 DEF Like

-----------------------------------------------------------------------------
(* What the queues do.                                                     *)

Held(q) == {q[i] : i \in 1 .. Len(q)}
Front(q) == IF q = <<>> THEN "nothing" ELSE Head(q)

\* What is held more than once; what was sent after the end was told.
Doubled(q) == {k \in Kinds : \E i, j \in 1 .. Len(q) : i < j /\ q[i] = k /\ q[j] = k}
Late(q) == {k \in Kinds : \E i, j \in 1 .. Len(q) : i < j /\ q[i] \in {"terminate", "ack"} /\ q[j] = k}

\* r is q after k was taken from its head, or appended to its end.
Eaten(r, q, k) ==
  /\ q # <<>> /\ Front(q) = k /\ k \in Held(q)
  /\ Held(q) \subseteq Held(r) \cup {k} /\ Held(r) \subseteq Held(q)
  /\ k \notin Doubled(q) => k \notin Held(r)
  /\ Doubled(r) \subseteq Doubled(q) /\ Late(r) \subseteq Late(q)
  /\ k \in {"terminate", "ack"} => Held(r) \subseteq Late(q)
Longer(r, q, k) ==
  /\ r # <<>> /\ Front(r) = IF q = <<>> THEN k ELSE Front(q)
  /\ k \in Held(r) /\ Held(q) \subseteq Held(r)
  /\ \A l \in Held(r) : l \in Held(q) \/ l = k
  /\ \A l \in Doubled(r) : l \in Doubled(q) \/ (l = k /\ l \in Held(q))
  /\ \A l \in Late(r) : l \in Late(q) \/ (l = k /\ ("terminate" \in Held(q) \/ "ack" \in Held(q)))

LEMMA DoubledIsHeld ==
    ASSUME NEW q
    PROVE  Doubled(q) \subseteq Held(q)
    BY DEF Doubled, Held

LEMMA TailIsEaten ==
    ASSUME NEW q \in Seq(Kinds), q # <<>>
    PROVE  Eaten(Tail(q), q, Head(q)) /\ Tail(q) \in Seq(Kinds)
<1> DEFINE r == Tail(q)
<1>1. /\ r \in Seq(Kinds) /\ Len(q) \in Nat /\ Len(q) >= 1 /\ Len(r) = Len(q) - 1 /\ Head(q) = q[1]
      /\ \A i \in 1 .. Len(r) : r[i] = q[i + 1] /\ r[i] \in Kinds
    BY HeadTailProperties
<1> HIDE DEF r
<1>2. Held(r) \subseteq Held(q)
    BY <1>1 DEF Held
<1>3. Held(q) \subseteq Held(r) \cup {Head(q)}
  <2> SUFFICES ASSUME NEW i \in 1 .. Len(q), q[i] # Head(q)  PROVE q[i] \in Held(r)
      BY DEF Held
  <2>1. i - 1 \in 1 .. Len(r) /\ r[i - 1] = q[i]
      BY <1>1
  <2> QED  BY <2>1 DEF Held
<1>4. Head(q) \notin Doubled(q) => Head(q) \notin Held(r)
  <2> SUFFICES ASSUME NEW i \in 1 .. Len(r), r[i] = Head(q)  PROVE Head(q) \in Doubled(q)
      BY DEF Held
  <2>1. /\ q[i + 1] = Head(q) /\ q[1] = Head(q) /\ i + 1 \in 1 .. Len(q) /\ 1 \in 1 .. Len(q)
        /\ 1 < i + 1 /\ Head(q) \in Kinds
      BY <1>1
  <2> QED  BY <2>1 DEF Doubled
<1>5. Doubled(r) \subseteq Doubled(q)
  <2> SUFFICES ASSUME NEW i \in 1 .. Len(r), NEW j \in 1 .. Len(r), i < j, r[i] = r[j]
               PROVE  r[i] \in Doubled(q)
      BY DEF Doubled
  <2>1. /\ q[i + 1] = r[i] /\ q[j + 1] = r[i] /\ i + 1 \in 1 .. Len(q) /\ j + 1 \in 1 .. Len(q)
        /\ i + 1 < j + 1 /\ r[i] \in Kinds
      BY <1>1
  <2> QED  BY <2>1 DEF Doubled
<1>6. Late(r) \subseteq Late(q)
  <2> SUFFICES ASSUME NEW i \in 1 .. Len(r), NEW j \in 1 .. Len(r), i < j, r[i] \in {"terminate", "ack"}
               PROVE  r[j] \in Late(q)
      BY DEF Late
  <2>1. /\ q[i + 1] = r[i] /\ q[j + 1] = r[j] /\ i + 1 \in 1 .. Len(q) /\ j + 1 \in 1 .. Len(q)
        /\ i + 1 < j + 1 /\ r[j] \in Kinds
      BY <1>1
  <2> QED  BY <2>1 DEF Late
<1>7. Head(q) \in {"terminate", "ack"} => Held(r) \subseteq Late(q)
  <2> SUFFICES ASSUME Head(q) \in {"terminate", "ack"}, NEW j \in 1 .. Len(r)  PROVE r[j] \in Late(q)
      BY DEF Held
  <2>1. /\ q[j + 1] = r[j] /\ 1 \in 1 .. Len(q) /\ j + 1 \in 1 .. Len(q) /\ 1 < j + 1 /\ r[j] \in Kinds
        /\ q[1] \in {"terminate", "ack"}
      BY <1>1
  <2> QED  BY <2>1 DEF Late
<1>8. Head(q) \in Held(q) /\ Front(q) = Head(q)
    BY <1>1 DEF Held, Front
<1>9. Eaten(r, q, Head(q))
    BY <1>2, <1>3, <1>4, <1>5, <1>6, <1>7, <1>8, Zenon DEF Eaten
<1> QED  BY <1>1, <1>9 DEF r

LEMMA AppendIsLonger ==
    ASSUME NEW q \in Seq(Kinds), NEW k \in Kinds
    PROVE  Longer(Append(q, k), q, k) /\ Append(q, k) \in Seq(Kinds)
<1> DEFINE r == Append(q, k)
<1>1. /\ r \in Seq(Kinds) /\ Len(q) \in Nat /\ Len(r) = Len(q) + 1 /\ r[Len(q) + 1] = k
      /\ \A i \in 1 .. Len(q) : r[i] = q[i]
      /\ r # <<>> /\ Len(r) \in 1 .. Len(r)
    BY AppendProperties
<1>2. Front(r) = IF q = <<>> THEN k ELSE Front(q)
    BY <1>1 DEF Front
<1> HIDE DEF r
<1>3. Held(r) = Held(q) \cup {k}
  <2>1. ASSUME NEW i \in 1 .. Len(r)  PROVE r[i] \in Held(q) \cup {k}
      BY <1>1 DEF Held
  <2>2. ASSUME NEW i \in 1 .. Len(q)  PROVE q[i] \in Held(r)
      BY <1>1 DEF Held
  <2>3. k \in Held(r)
      BY <1>1 DEF Held
  <2> QED  BY <2>1, <2>2, <2>3 DEF Held
<1>4. \A l \in Doubled(r) : l \in Doubled(q) \/ (l = k /\ l \in Held(q))
  <2> SUFFICES ASSUME NEW i \in 1 .. Len(r), NEW j \in 1 .. Len(r), i < j, r[i] = r[j], r[i] \in Kinds
               PROVE  r[i] \in Doubled(q) \/ (r[i] = k /\ k \in Held(q))
      BY DEF Doubled
  <2>1. i \in 1 .. Len(q) /\ q[i] = r[i]
      BY <1>1
  <2>2. CASE j \in 1 .. Len(q)
    <3>1. q[j] = r[i]
        BY <1>1, <2>2
    <3> QED  BY <2>1, <2>2, <3>1 DEF Doubled
  <2>3. CASE j = Len(q) + 1
    <3>1. r[i] = k
        BY <1>1, <2>3
    <3> QED  BY <2>1, <3>1 DEF Held
  <2> QED  BY <1>1, <2>2, <2>3
<1>5. \A l \in Late(r) : l \in Late(q) \/ (l = k /\ ("terminate" \in Held(q) \/ "ack" \in Held(q)))
  <2> SUFFICES ASSUME NEW i \in 1 .. Len(r), NEW j \in 1 .. Len(r), i < j, r[i] \in {"terminate", "ack"},
                      r[j] \in Kinds
               PROVE  r[j] \in Late(q) \/ (r[j] = k /\ ("terminate" \in Held(q) \/ "ack" \in Held(q)))
      BY DEF Late
  <2>1. i \in 1 .. Len(q) /\ q[i] = r[i]
      BY <1>1
  <2>2. CASE j \in 1 .. Len(q)
    <3>1. q[j] = r[j]
        BY <1>1, <2>2
    <3> QED  BY <2>1, <2>2, <3>1 DEF Late
  <2>3. CASE j = Len(q) + 1
    <3>1. r[j] = k
        BY <1>1, <2>3
    <3>2. r[i] \in Held(q)
        BY <2>1 DEF Held
    <3> QED  BY <3>1, <3>2
  <2> QED  BY <1>1, <2>2, <2>3
<1>6. Longer(r, q, k)
    BY <1>1, <1>2, <1>3, <1>4, <1>5, Zenon DEF Longer
<1> QED  BY <1>1, <1>6 DEF r

-----------------------------------------------------------------------------
(* What the ends know of each other, said of the two calls c and the two queues q.               *)

Early(x) == x.state \in {"none", "connecting"}
Past(x) == x.state \in {"disconnecting", "finished", "deleted"}
Ahead(c, q) == Early(c["b"]) \/ "accept" \in Held(q["a"])

\* The call is offered once, and accepted once.
Asked(c, q) ==
  /\ "accept" \notin Doubled(q["a"]) /\ ("accept" \in Held(q["a"]) => ~Early(c["b"]))
  /\ "initiate" \notin Doubled(q["b"])
  /\ "initiate" \in Held(q["b"]) => c["b"].state = "none" /\ c["a"].state # "none"
  /\ c["a"].state = "none" => c["b"].state = "none"

\* A call is hung up once more for the accept that revives it, which only the caller gets.
Counted(c, q) ==
  /\ ~Ended(c["a"]) => c["a"].hangups <= 1 /\ c["a"].timers <= 1
  /\ Ahead(c, q) => c["a"].hangups <= 1 /\ c["a"].timers <= 1
  /\ ~Ended(c["a"]) /\ Ahead(c, q) => c["a"].hangups = 0 /\ c["a"].timers = 0
  /\ c["a"].hangups <= 2 /\ c["a"].timers <= 2
  /\ ~Ended(c["b"]) => c["b"].hangups = 0 /\ c["b"].timers = 0
  /\ c["b"].hangups <= 1 /\ c["b"].timers <= 1

Begins(c, q) ==
  /\ c["a"].state = "none" => q["a"] = <<>> /\ q["b"] = <<>>
  /\ c["b"].state = "none" /\ c["a"].state # "none" => q["b"] # <<>> /\ Front(q["b"]) = "initiate"
  /\ c["b"].state = "active" /\ c["a"].state = "connecting" => "accept" \in Held(q["a"])
  /\ c["a"].state = "active" => ~Early(c["b"]) /\ "accept" \notin Held(q["a"])

\* An end whose call is over has told the other one, or was told.
Hears(c, q) ==
  /\ Past(c["a"]) \/ c["a"].timers > 0 => Past(c["b"]) \/ "terminate" \in Held(q["b"])
  /\ Past(c["b"]) /\ (c["a"].state = "active" \/ "accept" \in Held(q["a"])) =>
        "terminate" \in Held(q["a"]) \/ "ack" \in Held(q["a"])
  /\ "terminate" \in Held(q["a"]) \/ "ack" \in Held(q["a"]) => Past(c["b"])
  /\ "accept" \notin Late(q["a"])

\* A caller whose call may be active yet waits for the answer to its one request to end it, if
\* one is under way: the answer will find the request.
Awaits(c, q) ==
  /\ c["a"].state = "connecting" => "ack" \notin Held(q["a"]) /\ "terminate" \notin Held(q["b"])
  /\ c["a"].state = "active" \/ (Ended(c["a"]) /\ Ahead(c, q)) =>
       /\ "ack" \notin Doubled(q["a"]) /\ "terminate" \notin Doubled(q["b"])
       /\ ~("ack" \in Held(q["a"]) /\ "terminate" \in Held(q["b"]))
       /\ "ack" \in Held(q["a"]) \/ "terminate" \in Held(q["b"]) => c["a"].hangups > 0

Noted(q) == \A e \in Ends : "unavailable" \notin Held(q[e])

Always(c, q) == Asked(c, q) /\ Counted(c, q)
Together(c, q) == Begins(c, q) /\ Hears(c, q) /\ Awaits(c, q) /\ Noted(q)

-----------------------------------------------------------------------------
(* The kinds of steps, said of the call x of the end that acts, of what it becomes, of what is    *)
(* taken from its queue and what is sent.                                                        *)

Nothing == "nothing"
Idle == {Nothing, "ringing", "info audio", "info video", "content-add", "content-accept", "content-reject"}

Same(y, x) == y.state = x.state /\ y.hangups = x.hangups /\ y.timers = x.timers

Known(c) == \A e \in Ends : c[e].state \in States /\ c[e].hangups \in Nat /\ c[e].timers \in Nat

\* The end e acts: it takes eats and sends sends, which is lost if a session is.
Moves(c, q, d, r, e, eats, sends) ==
  /\ Known(c) /\ Known(d) /\ d[Other(e)] = c[Other(e)]
  /\ IF eats = Nothing THEN r[e] = q[e] ELSE Eaten(r[e], q[e], eats)
  /\ r[Other(e)] = q[Other(e)] \/ (sends # Nothing /\ Longer(r[Other(e)], q[Other(e)], sends))
Arrives(q, r, e, sends) ==
  sends # Nothing => Longer(r[Other(e)], q[Other(e)], sends)

Quiet(y, x, eats, sends) ==
  /\ x.state # "none" /\ Same(y, x) /\ eats \in Idle /\ sends \in Idle
Ignores(y, x, eats, sends) ==
  /\ x.state \in {"none", "deleted"} /\ y = x /\ eats # "initiate" /\ eats # Nothing /\ sends = Nothing
Invites(y, x, eats, sends) ==
  /\ x.state = "none" /\ y.state = "connecting" /\ y.hangups = 0 /\ y.timers = 0
  /\ eats = Nothing /\ sends = "initiate"
Rings(y, x, eats, sends) ==
  /\ y.state = "connecting" /\ y.hangups = 0 /\ y.timers = 0 /\ eats = "initiate" /\ sends = "ringing"
Refuses(y, x, eats, sends) ==
  /\ y.state = "deleted" /\ y.hangups = 0 /\ y.timers = 0 /\ eats = "initiate" /\ sends = "terminate"
Accepts(y, x, eats, sends) ==
  /\ x.state = "connecting" /\ y.state = "active" /\ y.hangups = x.hangups /\ y.timers = x.timers
  /\ eats = Nothing /\ sends = "accept"
Starts(y, x, eats, sends) ==
  /\ x.state \notin {"none", "deleted"} /\ y.state = "active" /\ y.hangups = x.hangups /\ y.timers = x.timers
  /\ eats = "accept" /\ sends = Nothing
HangsUp(y, x, eats, sends) ==
  /\ x.state \in {"connecting", "active"} /\ y.state = "disconnecting"
  /\ y.hangups = x.hangups + 1 /\ y.timers = x.timers + 1
  /\ eats \in Idle \cup {"accept", "unavailable"} /\ sends = "terminate"
\* What comes after the end changes nothing.
Shrugs(y, x, eats, sends) ==
  /\ Ended(x) /\ Same(y, x) /\ eats \in {"accept", "unavailable"} /\ sends = Nothing
EndsOn(y, x, eats, sends) ==
  /\ x.state \notin {"none", "deleted"} /\ y.state = "finished" /\ y.hangups = x.hangups /\ y.timers = x.timers
  /\ eats = "terminate" /\ sends = "ack"
Answered(y, x, eats, sends) ==
  /\ x.state \notin {"none", "deleted"} /\ x.hangups > 0
  /\ y.state = "finished" /\ y.hangups = x.hangups - 1 /\ y.timers = x.timers
  /\ eats = "ack" /\ sends = Nothing
Misses(y, x, eats, sends) ==
  /\ x.state \notin {"none", "deleted"} /\ x.hangups = 0 /\ Same(y, x) /\ eats = "ack" /\ sends = Nothing
Expires(y, x, eats, sends) ==
  /\ x.state \notin {"none", "deleted"} /\ x.timers > 0
  /\ y.state = "finished" /\ y.hangups = x.hangups /\ y.timers = x.timers - 1
  /\ eats = Nothing /\ sends = Nothing
Deletes(y, x, eats, sends) ==
  /\ x.state = "finished" /\ y.state = "deleted" /\ y.hangups = 0 /\ y.timers = 0
  /\ eats = Nothing /\ sends = Nothing

\* The two ends are told apart everywhere below.
USE DEF Ends, Other

LEMMA QuietKeeps ==
    ASSUME NEW c, NEW q, NEW d, NEW r, NEW e \in Ends, NEW eats, NEW sends,
           Moves(c, q, d, r, e, eats, sends), Quiet(d[e], c[e], eats, sends), Always(c, q)
    PROVE  Always(d, r) /\ (Together(c, q) /\ Arrives(q, r, e, sends) => Together(d, r))
<1> USE DEF Quiet, Always, Together, Asked, Counted, Begins, Hears, Awaits, Noted, Early, Past,
          Ahead, Ended, Known, Moves, Arrives, Eaten, Longer, Idle, Nothing, Same, States
<1>1. CASE e = "a"
  <2>1. Asked(d, r)
      BY <1>1
  <2>2. Counted(d, r)
      BY <1>1
  <2>3. Together(c, q) /\ Arrives(q, r, e, sends) => Begins(d, r)
      BY <1>1
  <2>4. Together(c, q) /\ Arrives(q, r, e, sends) => Hears(d, r)
      BY <1>1
  <2>5. Together(c, q) /\ Arrives(q, r, e, sends) => Awaits(d, r)
      BY <1>1
  <2>6. Together(c, q) /\ Arrives(q, r, e, sends) => Noted(r)
      BY <1>1
  <2> QED  BY <2>1, <2>2, <2>3, <2>4, <2>5, <2>6, Zenon DEF Always, Together
<1>2. CASE e = "b"
  <2>1. Asked(d, r)
      BY <1>2
  <2>2. Counted(d, r)
      BY <1>2
  <2>3. Together(c, q) /\ Arrives(q, r, e, sends) => Begins(d, r)
      BY <1>2
  <2>4. Together(c, q) /\ Arrives(q, r, e, sends) => Hears(d, r)
      BY <1>2
  <2>5. Together(c, q) /\ Arrives(q, r, e, sends) => Awaits(d, r)
      BY <1>2
  <2>6. Together(c, q) /\ Arrives(q, r, e, sends) => Noted(r)
      BY <1>2
  <2> QED  BY <2>1, <2>2, <2>3, <2>4, <2>5, <2>6, Zenon DEF Always, Together
<1> QED  BY <1>1, <1>2 DEF Ends

LEMMA IgnoresKeeps ==
    ASSUME NEW c, NEW q, NEW d, NEW r, NEW e \in Ends, NEW eats, NEW sends,
           Moves(c, q, d, r, e, eats, sends), Ignores(d[e], c[e], eats, sends), Always(c, q)
    PROVE  Always(d, r) /\ (Together(c, q) /\ Arrives(q, r, e, sends) => Together(d, r))
<1> USE DEF Ignores, Always, Together, Asked, Counted, Begins, Hears, Awaits, Noted, Early, Past,
          Ahead, Ended, Known, Moves, Arrives, Eaten, Longer, Idle, Nothing, Same, States
<1>1. CASE e = "a"
  <2>1. Asked(d, r)
      BY <1>1
  <2>2. Counted(d, r)
      BY <1>1
  <2>3. Together(c, q) /\ Arrives(q, r, e, sends) => Begins(d, r)
      BY <1>1
  <2>4. Together(c, q) /\ Arrives(q, r, e, sends) => Hears(d, r)
      BY <1>1
  <2>5. Together(c, q) /\ Arrives(q, r, e, sends) => Awaits(d, r)
      BY <1>1
  <2>6. Together(c, q) /\ Arrives(q, r, e, sends) => Noted(r)
      BY <1>1
  <2> QED  BY <2>1, <2>2, <2>3, <2>4, <2>5, <2>6, Zenon DEF Always, Together
<1>2. CASE e = "b"
  <2>1. Asked(d, r)
      BY <1>2
  <2>2. Counted(d, r)
      BY <1>2
  <2>3. Together(c, q) /\ Arrives(q, r, e, sends) => Begins(d, r)
      BY <1>2
  <2>4. Together(c, q) /\ Arrives(q, r, e, sends) => Hears(d, r)
      BY <1>2
  <2>5. Together(c, q) /\ Arrives(q, r, e, sends) => Awaits(d, r)
      BY <1>2
  <2>6. Together(c, q) /\ Arrives(q, r, e, sends) => Noted(r)
      BY <1>2
  <2> QED  BY <2>1, <2>2, <2>3, <2>4, <2>5, <2>6, Zenon DEF Always, Together
<1> QED  BY <1>1, <1>2 DEF Ends

LEMMA InvitesKeeps ==
    ASSUME NEW c, NEW q, NEW d, NEW r, NEW e \in Ends, NEW eats, NEW sends,
           Moves(c, q, d, r, e, eats, sends), Invites(d[e], c[e], eats, sends), Always(c, q),
           e = "a"
    PROVE  Always(d, r) /\ (Together(c, q) /\ Arrives(q, r, e, sends) => Together(d, r))
<1> USE DEF Invites, Always, Together, Asked, Counted, Begins, Hears, Awaits, Noted, Early, Past,
          Ahead, Ended, Known, Moves, Arrives, Eaten, Longer, Idle, Nothing, Same, States
<1>1. Asked(d, r)
    OBVIOUS
<1>2. Counted(d, r)
    OBVIOUS
<1>3. Together(c, q) /\ Arrives(q, r, e, sends) => Begins(d, r)
    OBVIOUS
<1>4. Together(c, q) /\ Arrives(q, r, e, sends) => Hears(d, r)
    OBVIOUS
<1>5. Together(c, q) /\ Arrives(q, r, e, sends) => Awaits(d, r)
    OBVIOUS
<1>6. Together(c, q) /\ Arrives(q, r, e, sends) => Noted(r)
    OBVIOUS
<1> QED  BY <1>1, <1>2, <1>3, <1>4, <1>5, <1>6, Zenon DEF Always, Together

LEMMA RingsKeeps ==
    ASSUME NEW c, NEW q, NEW d, NEW r, NEW e \in Ends, NEW eats, NEW sends,
           Moves(c, q, d, r, e, eats, sends), Rings(d[e], c[e], eats, sends), Always(c, q),
           e = "b"
    PROVE  Always(d, r) /\ (Together(c, q) /\ Arrives(q, r, e, sends) => Together(d, r))
<1> USE DEF Rings, Always, Together, Asked, Counted, Begins, Hears, Awaits, Noted, Early, Past,
          Ahead, Ended, Known, Moves, Arrives, Eaten, Longer, Idle, Nothing, Same, States
<1>1. Asked(d, r)
    OBVIOUS
<1>2. Counted(d, r)
    OBVIOUS
<1>3. Together(c, q) /\ Arrives(q, r, e, sends) => Begins(d, r)
    OBVIOUS
<1>4. Together(c, q) /\ Arrives(q, r, e, sends) => Hears(d, r)
    OBVIOUS
<1>5. Together(c, q) /\ Arrives(q, r, e, sends) => Awaits(d, r)
    OBVIOUS
<1>6. Together(c, q) /\ Arrives(q, r, e, sends) => Noted(r)
    OBVIOUS
<1> QED  BY <1>1, <1>2, <1>3, <1>4, <1>5, <1>6, Zenon DEF Always, Together

LEMMA RefusesKeeps ==
    ASSUME NEW c, NEW q, NEW d, NEW r, NEW e \in Ends, NEW eats, NEW sends,
           Moves(c, q, d, r, e, eats, sends), Refuses(d[e], c[e], eats, sends), Always(c, q),
           e = "b"
    PROVE  Always(d, r) /\ (Together(c, q) /\ Arrives(q, r, e, sends) => Together(d, r))
<1> USE DEF Refuses, Always, Together, Asked, Counted, Begins, Hears, Awaits, Noted, Early, Past,
          Ahead, Ended, Known, Moves, Arrives, Eaten, Longer, Idle, Nothing, Same, States
<1>1. Asked(d, r)
    OBVIOUS
<1>2. Counted(d, r)
    OBVIOUS
<1>3. Together(c, q) /\ Arrives(q, r, e, sends) => Begins(d, r)
    OBVIOUS
<1>4. Together(c, q) /\ Arrives(q, r, e, sends) => Hears(d, r)
    OBVIOUS
<1>5. Together(c, q) /\ Arrives(q, r, e, sends) => Awaits(d, r)
    OBVIOUS
<1>6. Together(c, q) /\ Arrives(q, r, e, sends) => Noted(r)
    OBVIOUS
<1> QED  BY <1>1, <1>2, <1>3, <1>4, <1>5, <1>6, Zenon DEF Always, Together

LEMMA AcceptsKeeps ==
    ASSUME NEW c, NEW q, NEW d, NEW r, NEW e \in Ends, NEW eats, NEW sends,
           Moves(c, q, d, r, e, eats, sends), Accepts(d[e], c[e], eats, sends), Always(c, q),
           e = "b"
    PROVE  Always(d, r) /\ (Together(c, q) /\ Arrives(q, r, e, sends) => Together(d, r))
<1> USE DEF Accepts, Always, Together, Asked, Counted, Begins, Hears, Awaits, Noted, Early, Past,
          Ahead, Ended, Known, Moves, Arrives, Eaten, Longer, Idle, Nothing, Same, States
<1>1. Asked(d, r)
    OBVIOUS
<1>2. Counted(d, r)
    OBVIOUS
<1>3. Together(c, q) /\ Arrives(q, r, e, sends) => Begins(d, r)
    OBVIOUS
<1>4. Together(c, q) /\ Arrives(q, r, e, sends) => Hears(d, r)
    OBVIOUS
<1>5. Together(c, q) /\ Arrives(q, r, e, sends) => Awaits(d, r)
    OBVIOUS
<1>6. Together(c, q) /\ Arrives(q, r, e, sends) => Noted(r)
    OBVIOUS
<1> QED  BY <1>1, <1>2, <1>3, <1>4, <1>5, <1>6, Zenon DEF Always, Together

LEMMA StartsKeeps ==
    ASSUME NEW c, NEW q, NEW d, NEW r, NEW e \in Ends, NEW eats, NEW sends,
           Moves(c, q, d, r, e, eats, sends), Starts(d[e], c[e], eats, sends), Always(c, q),
           e = "a"
    PROVE  Always(d, r) /\ (Together(c, q) /\ Arrives(q, r, e, sends) => Together(d, r))
<1> USE DEF Starts, Always, Together, Asked, Counted, Begins, Hears, Awaits, Noted, Early, Past,
          Ahead, Ended, Known, Moves, Arrives, Eaten, Longer, Idle, Nothing, Same, States
<1>1. Asked(d, r)
    OBVIOUS
<1>2. Counted(d, r)
    OBVIOUS
<1>3. Together(c, q) /\ Arrives(q, r, e, sends) => Begins(d, r)
    OBVIOUS
<1>4. Together(c, q) /\ Arrives(q, r, e, sends) => Hears(d, r)
    OBVIOUS
<1>5. Together(c, q) /\ Arrives(q, r, e, sends) => Awaits(d, r)
  <2> SUFFICES ASSUME Together(c, q), Arrives(q, r, e, sends)  PROVE Awaits(d, r)
      OBVIOUS
  <2>1. d["a"].hangups = c["a"].hangups /\ r["b"] = q["b"] /\ Held(r["a"]) \subseteq Held(q["a"])
        /\ Doubled(r["a"]) \subseteq Doubled(q["a"]) /\ d["a"].state = "active"
      OBVIOUS
  <2>2. CASE c["a"].state = "connecting"
    <3>1. "ack" \notin Held(q["a"]) /\ "terminate" \notin Held(q["b"])
        BY <2>2
    <3>2. "ack" \notin Doubled(q["a"]) /\ "terminate" \notin Doubled(q["b"])
        BY <3>1, DoubledIsHeld
    <3> QED  BY <2>1, <3>1, <3>2
  <2>3. CASE c["a"].state # "connecting"
      BY <2>1, <2>3
  <2> QED  BY <2>2, <2>3
<1>6. Together(c, q) /\ Arrives(q, r, e, sends) => Noted(r)
    OBVIOUS
<1> QED  BY <1>1, <1>2, <1>3, <1>4, <1>5, <1>6, Zenon DEF Always, Together

LEMMA HangsUpKeeps ==
    ASSUME NEW c, NEW q, NEW d, NEW r, NEW e \in Ends, NEW eats, NEW sends,
           Moves(c, q, d, r, e, eats, sends), HangsUp(d[e], c[e], eats, sends), Always(c, q)
    PROVE  Always(d, r) /\ (Together(c, q) /\ Arrives(q, r, e, sends) => Together(d, r))
<1> USE DEF HangsUp, Always, Together, Asked, Counted, Begins, Hears, Awaits, Noted, Early, Past,
          Ahead, Ended, Known, Moves, Arrives, Eaten, Longer, Idle, Nothing, Same, States
<1>1. CASE e = "a"
  <2>1. Asked(d, r)
      BY <1>1
  <2>2. Counted(d, r)
    <3>1. /\ c["a"].hangups \in Nat /\ c["a"].timers \in Nat
          /\ d["a"].hangups = c["a"].hangups + 1 /\ d["a"].timers = c["a"].timers + 1
        BY <1>1
    <3>2. ~Ended(c["a"]) /\ Ended(d["a"]) /\ d["b"] = c["b"] /\ (Ahead(d, r) => Ahead(c, q))
        BY <1>1
    <3> QED  BY ONLY <3>1, <3>2, Always(c, q) DEF Always, Counted
  <2>3. Together(c, q) /\ Arrives(q, r, e, sends) => Begins(d, r)
      BY <1>1
  <2>4. Together(c, q) /\ Arrives(q, r, e, sends) => Hears(d, r)
      BY <1>1
  <2>5. Together(c, q) /\ Arrives(q, r, e, sends) => Awaits(d, r)
    <3> SUFFICES ASSUME Together(c, q), Arrives(q, r, e, sends), Ahead(d, r)
                 PROVE  /\ "ack" \notin Held(r["a"]) /\ "terminate" \notin Doubled(r["b"])
                        /\ "ack" \notin Doubled(r["a"]) /\ d["a"].hangups > 0
        BY <1>1
    <3>1. c["a"].state = "connecting"
        BY <1>1
    <3>2. "ack" \notin Held(q["a"]) /\ "terminate" \notin Held(q["b"])
        BY <3>1
    <3>3. "ack" \notin Doubled(q["a"]) /\ "terminate" \notin Doubled(q["b"])
        BY <3>2, DoubledIsHeld
    <3>4. "ack" \notin Held(r["a"]) /\ "ack" \notin Doubled(r["a"])
        BY <1>1, <3>2, <3>3
    <3>5. "terminate" \notin Doubled(r["b"])
        BY <1>1, <3>2, <3>3
    <3>6. c["a"].hangups \in Nat /\ d["a"].hangups = c["a"].hangups + 1
        BY <1>1
    <3>7. d["a"].hangups > 0
        BY ONLY <3>6
    <3> QED  BY <3>4, <3>5, <3>7
  <2>6. Together(c, q) /\ Arrives(q, r, e, sends) => Noted(r)
      BY <1>1
  <2> QED  BY <2>1, <2>2, <2>3, <2>4, <2>5, <2>6, Zenon DEF Always, Together
<1>2. CASE e = "b"
  <2>1. Asked(d, r)
      BY <1>2
  <2>2. Counted(d, r)
    <3>1. /\ c["b"].hangups \in Nat /\ c["b"].timers \in Nat
          /\ d["b"].hangups = c["b"].hangups + 1 /\ d["b"].timers = c["b"].timers + 1
        BY <1>2
    <3>2. ~Ended(c["b"]) /\ Ended(d["b"]) /\ d["a"] = c["a"] /\ (Ahead(d, r) => Ahead(c, q))
        BY <1>2
    <3> QED  BY ONLY <3>1, <3>2, Always(c, q) DEF Always, Counted
  <2>3. Together(c, q) /\ Arrives(q, r, e, sends) => Begins(d, r)
      BY <1>2
  <2>4. Together(c, q) /\ Arrives(q, r, e, sends) => Hears(d, r)
      BY <1>2
  <2>5. Together(c, q) /\ Arrives(q, r, e, sends) => Awaits(d, r)
      BY <1>2
  <2>6. Together(c, q) /\ Arrives(q, r, e, sends) => Noted(r)
      BY <1>2
  <2> QED  BY <2>1, <2>2, <2>3, <2>4, <2>5, <2>6, Zenon DEF Always, Together
<1> QED  BY <1>1, <1>2 DEF Ends

LEMMA ShrugsKeeps ==
    ASSUME NEW c, NEW q, NEW d, NEW r, NEW e \in Ends, NEW eats, NEW sends,
           Moves(c, q, d, r, e, eats, sends), Shrugs(d[e], c[e], eats, sends), Always(c, q)
    PROVE  Always(d, r) /\ (Together(c, q) /\ Arrives(q, r, e, sends) => Together(d, r))
<1> USE DEF Shrugs, Always, Together, Asked, Counted, Begins, Hears, Awaits, Noted, Early, Past,
          Ahead, Ended, Known, Moves, Arrives, Eaten, Longer, Idle, Nothing, Same, States
<1>1. CASE e = "a"
  <2>1. Asked(d, r)
      BY <1>1
  <2>2. Counted(d, r)
      BY <1>1
  <2>3. Together(c, q) /\ Arrives(q, r, e, sends) => Begins(d, r)
      BY <1>1
  <2>4. Together(c, q) /\ Arrives(q, r, e, sends) => Hears(d, r)
      BY <1>1
  <2>5. Together(c, q) /\ Arrives(q, r, e, sends) => Awaits(d, r)
      BY <1>1
  <2>6. Together(c, q) /\ Arrives(q, r, e, sends) => Noted(r)
      BY <1>1
  <2> QED  BY <2>1, <2>2, <2>3, <2>4, <2>5, <2>6, Zenon DEF Always, Together
<1>2. CASE e = "b"
  <2>1. Asked(d, r)
      BY <1>2
  <2>2. Counted(d, r)
      BY <1>2
  <2>3. Together(c, q) /\ Arrives(q, r, e, sends) => Begins(d, r)
      BY <1>2
  <2>4. Together(c, q) /\ Arrives(q, r, e, sends) => Hears(d, r)
      BY <1>2
  <2>5. Together(c, q) /\ Arrives(q, r, e, sends) => Awaits(d, r)
      BY <1>2
  <2>6. Together(c, q) /\ Arrives(q, r, e, sends) => Noted(r)
      BY <1>2
  <2> QED  BY <2>1, <2>2, <2>3, <2>4, <2>5, <2>6, Zenon DEF Always, Together
<1> QED  BY <1>1, <1>2 DEF Ends

LEMMA EndsOnKeeps ==
    ASSUME NEW c, NEW q, NEW d, NEW r, NEW e \in Ends, NEW eats, NEW sends,
           Moves(c, q, d, r, e, eats, sends), EndsOn(d[e], c[e], eats, sends), Always(c, q)
    PROVE  Always(d, r) /\ (Together(c, q) /\ Arrives(q, r, e, sends) => Together(d, r))
<1> USE DEF EndsOn, Always, Together, Asked, Counted, Begins, Hears, Awaits, Noted, Early, Past,
          Ahead, Ended, Known, Moves, Arrives, Eaten, Longer, Idle, Nothing, Same, States
<1>1. CASE e = "a"
  <2>1. Asked(d, r)
      BY <1>1
  <2>2. Counted(d, r)
      BY <1>1
  <2>3. Together(c, q) /\ Arrives(q, r, e, sends) => Begins(d, r)
      BY <1>1
  <2>4. Together(c, q) /\ Arrives(q, r, e, sends) => Hears(d, r)
      BY <1>1
  <2>5. Together(c, q) /\ Arrives(q, r, e, sends) => Awaits(d, r)
      BY <1>1
  <2>6. Together(c, q) /\ Arrives(q, r, e, sends) => Noted(r)
      BY <1>1
  <2> QED  BY <2>1, <2>2, <2>3, <2>4, <2>5, <2>6, Zenon DEF Always, Together
<1>2. CASE e = "b"
  <2>1. Asked(d, r)
      BY <1>2
  <2>2. Counted(d, r)
      BY <1>2
  <2>3. Together(c, q) /\ Arrives(q, r, e, sends) => Begins(d, r)
      BY <1>2
  <2>4. Together(c, q) /\ Arrives(q, r, e, sends) => Hears(d, r)
      BY <1>2
  <2>5. Together(c, q) /\ Arrives(q, r, e, sends) => Awaits(d, r)
      BY <1>2
  <2>6. Together(c, q) /\ Arrives(q, r, e, sends) => Noted(r)
      BY <1>2
  <2> QED  BY <2>1, <2>2, <2>3, <2>4, <2>5, <2>6, Zenon DEF Always, Together
<1> QED  BY <1>1, <1>2 DEF Ends

LEMMA AnsweredKeeps ==
    ASSUME NEW c, NEW q, NEW d, NEW r, NEW e \in Ends, NEW eats, NEW sends,
           Moves(c, q, d, r, e, eats, sends), Answered(d[e], c[e], eats, sends), Always(c, q)
    PROVE  Always(d, r) /\ (Together(c, q) /\ Arrives(q, r, e, sends) => Together(d, r))
<1> USE DEF Answered, Always, Together, Asked, Counted, Begins, Hears, Awaits, Noted, Early, Past,
          Ahead, Ended, Known, Moves, Arrives, Eaten, Longer, Idle, Nothing, Same, States
<1>1. CASE e = "a"
  <2>1. Asked(d, r)
      BY <1>1
  <2>2. Counted(d, r)
      BY <1>1
  <2>3. Together(c, q) /\ Arrives(q, r, e, sends) => Begins(d, r)
      BY <1>1
  <2>4. Together(c, q) /\ Arrives(q, r, e, sends) => Hears(d, r)
      BY <1>1
  <2>5. Together(c, q) /\ Arrives(q, r, e, sends) => Awaits(d, r)
      BY <1>1
  <2>6. Together(c, q) /\ Arrives(q, r, e, sends) => Noted(r)
      BY <1>1
  <2> QED  BY <2>1, <2>2, <2>3, <2>4, <2>5, <2>6, Zenon DEF Always, Together
<1>2. CASE e = "b"
  <2>1. Asked(d, r)
      BY <1>2
  <2>2. Counted(d, r)
      BY <1>2
  <2>3. Together(c, q) /\ Arrives(q, r, e, sends) => Begins(d, r)
      BY <1>2
  <2>4. Together(c, q) /\ Arrives(q, r, e, sends) => Hears(d, r)
      BY <1>2
  <2>5. Together(c, q) /\ Arrives(q, r, e, sends) => Awaits(d, r)
      BY <1>2
  <2>6. Together(c, q) /\ Arrives(q, r, e, sends) => Noted(r)
      BY <1>2
  <2> QED  BY <2>1, <2>2, <2>3, <2>4, <2>5, <2>6, Zenon DEF Always, Together
<1> QED  BY <1>1, <1>2 DEF Ends

LEMMA MissesKeeps ==
    ASSUME NEW c, NEW q, NEW d, NEW r, NEW e \in Ends, NEW eats, NEW sends,
           Moves(c, q, d, r, e, eats, sends), Misses(d[e], c[e], eats, sends), Always(c, q)
    PROVE  Always(d, r) /\ (Together(c, q) /\ Arrives(q, r, e, sends) => Together(d, r))
<1> USE DEF Misses, Always, Together, Asked, Counted, Begins, Hears, Awaits, Noted, Early, Past,
          Ahead, Ended, Known, Moves, Arrives, Eaten, Longer, Idle, Nothing, Same, States
<1>1. CASE e = "a"
  <2>1. Asked(d, r)
      BY <1>1
  <2>2. Counted(d, r)
      BY <1>1
  <2>3. Together(c, q) /\ Arrives(q, r, e, sends) => Begins(d, r)
      BY <1>1
  <2>4. Together(c, q) /\ Arrives(q, r, e, sends) => Hears(d, r)
      BY <1>1
  <2>5. Together(c, q) /\ Arrives(q, r, e, sends) => Awaits(d, r)
      BY <1>1
  <2>6. Together(c, q) /\ Arrives(q, r, e, sends) => Noted(r)
      BY <1>1
  <2> QED  BY <2>1, <2>2, <2>3, <2>4, <2>5, <2>6, Zenon DEF Always, Together
<1>2. CASE e = "b"
  <2>1. Asked(d, r)
      BY <1>2
  <2>2. Counted(d, r)
      BY <1>2
  <2>3. Together(c, q) /\ Arrives(q, r, e, sends) => Begins(d, r)
      BY <1>2
  <2>4. Together(c, q) /\ Arrives(q, r, e, sends) => Hears(d, r)
      BY <1>2
  <2>5. Together(c, q) /\ Arrives(q, r, e, sends) => Awaits(d, r)
      BY <1>2
  <2>6. Together(c, q) /\ Arrives(q, r, e, sends) => Noted(r)
      BY <1>2
  <2> QED  BY <2>1, <2>2, <2>3, <2>4, <2>5, <2>6, Zenon DEF Always, Together
<1> QED  BY <1>1, <1>2 DEF Ends

LEMMA ExpiresKeeps ==
    ASSUME NEW c, NEW q, NEW d, NEW r, NEW e \in Ends, NEW eats, NEW sends,
           Moves(c, q, d, r, e, eats, sends), Expires(d[e], c[e], eats, sends), Always(c, q)
    PROVE  Always(d, r) /\ (Together(c, q) /\ Arrives(q, r, e, sends) => Together(d, r))
<1> USE DEF Expires, Always, Together, Asked, Counted, Begins, Hears, Awaits, Noted, Early, Past,
          Ahead, Ended, Known, Moves, Arrives, Eaten, Longer, Idle, Nothing, Same, States
<1>1. CASE e = "a"
  <2>1. Asked(d, r)
      BY <1>1
  <2>2. Counted(d, r)
      BY <1>1
  <2>3. Together(c, q) /\ Arrives(q, r, e, sends) => Begins(d, r)
      BY <1>1
  <2>4. Together(c, q) /\ Arrives(q, r, e, sends) => Hears(d, r)
      BY <1>1
  <2>5. Together(c, q) /\ Arrives(q, r, e, sends) => Awaits(d, r)
      BY <1>1
  <2>6. Together(c, q) /\ Arrives(q, r, e, sends) => Noted(r)
      BY <1>1
  <2> QED  BY <2>1, <2>2, <2>3, <2>4, <2>5, <2>6, Zenon DEF Always, Together
<1>2. CASE e = "b"
  <2>1. Asked(d, r)
      BY <1>2
  <2>2. Counted(d, r)
      BY <1>2
  <2>3. Together(c, q) /\ Arrives(q, r, e, sends) => Begins(d, r)
      BY <1>2
  <2>4. Together(c, q) /\ Arrives(q, r, e, sends) => Hears(d, r)
      BY <1>2
  <2>5. Together(c, q) /\ Arrives(q, r, e, sends) => Awaits(d, r)
      BY <1>2
  <2>6. Together(c, q) /\ Arrives(q, r, e, sends) => Noted(r)
      BY <1>2
  <2> QED  BY <2>1, <2>2, <2>3, <2>4, <2>5, <2>6, Zenon DEF Always, Together
<1> QED  BY <1>1, <1>2 DEF Ends

LEMMA DeletesKeeps ==
    ASSUME NEW c, NEW q, NEW d, NEW r, NEW e \in Ends, NEW eats, NEW sends,
           Moves(c, q, d, r, e, eats, sends), Deletes(d[e], c[e], eats, sends), Always(c, q)
    PROVE  Always(d, r) /\ (Together(c, q) /\ Arrives(q, r, e, sends) => Together(d, r))
<1> USE DEF Deletes, Always, Together, Asked, Counted, Begins, Hears, Awaits, Noted, Early, Past,
          Ahead, Ended, Known, Moves, Arrives, Eaten, Longer, Idle, Nothing, Same, States
<1>1. CASE e = "a"
  <2>1. Asked(d, r)
      BY <1>1
  <2>2. Counted(d, r)
      BY <1>1
  <2>3. Together(c, q) /\ Arrives(q, r, e, sends) => Begins(d, r)
      BY <1>1
  <2>4. Together(c, q) /\ Arrives(q, r, e, sends) => Hears(d, r)
      BY <1>1
  <2>5. Together(c, q) /\ Arrives(q, r, e, sends) => Awaits(d, r)
      BY <1>1
  <2>6. Together(c, q) /\ Arrives(q, r, e, sends) => Noted(r)
      BY <1>1
  <2> QED  BY <2>1, <2>2, <2>3, <2>4, <2>5, <2>6, Zenon DEF Always, Together
<1>2. CASE e = "b"
  <2>1. Asked(d, r)
      BY <1>2
  <2>2. Counted(d, r)
      BY <1>2
  <2>3. Together(c, q) /\ Arrives(q, r, e, sends) => Begins(d, r)
      BY <1>2
  <2>4. Together(c, q) /\ Arrives(q, r, e, sends) => Hears(d, r)
      BY <1>2
  <2>5. Together(c, q) /\ Arrives(q, r, e, sends) => Awaits(d, r)
      BY <1>2
  <2>6. Together(c, q) /\ Arrives(q, r, e, sends) => Noted(r)
      BY <1>2
  <2> QED  BY <2>1, <2>2, <2>3, <2>4, <2>5, <2>6, Zenon DEF Always, Together
<1> QED  BY <1>1, <1>2 DEF Ends

-----------------------------------------------------------------------------
(* What is known of the two calls, and the steps they take.                                      *)

Acts(e, y, x, eats, sends) ==
  \/ Quiet(y, x, eats, sends) \/ Ignores(y, x, eats, sends) \/ HangsUp(y, x, eats, sends)
  \/ Shrugs(y, x, eats, sends) \/ EndsOn(y, x, eats, sends) \/ Answered(y, x, eats, sends)
  \/ Misses(y, x, eats, sends) \/ Expires(y, x, eats, sends) \/ Deletes(y, x, eats, sends)
  \/ e = "a" /\ (Invites(y, x, eats, sends) \/ Starts(y, x, eats, sends))
  \/ e = "b" /\ (Rings(y, x, eats, sends) \/ Refuses(y, x, eats, sends) \/ Accepts(y, x, eats, sends))

LEMMA ActsKeep ==
    ASSUME NEW c, NEW q, NEW d, NEW r, NEW e \in Ends, NEW eats, NEW sends,
           Moves(c, q, d, r, e, eats, sends), Acts(e, d[e], c[e], eats, sends), Always(c, q)
    PROVE  Always(d, r) /\ (Together(c, q) /\ Arrives(q, r, e, sends) => Together(d, r))
<1>1. CASE Quiet(d[e], c[e], eats, sends)
    BY <1>1, QuietKeeps
<1>2. CASE Ignores(d[e], c[e], eats, sends)
    BY <1>2, IgnoresKeeps
<1>3. CASE HangsUp(d[e], c[e], eats, sends)
    BY <1>3, HangsUpKeeps
<1>4. CASE Shrugs(d[e], c[e], eats, sends)
    BY <1>4, ShrugsKeeps
<1>5. CASE EndsOn(d[e], c[e], eats, sends)
    BY <1>5, EndsOnKeeps
<1>6. CASE Answered(d[e], c[e], eats, sends)
    BY <1>6, AnsweredKeeps
<1>7. CASE Misses(d[e], c[e], eats, sends)
    BY <1>7, MissesKeeps
<1>8. CASE Expires(d[e], c[e], eats, sends)
    BY <1>8, ExpiresKeeps
<1>9. CASE Deletes(d[e], c[e], eats, sends)
    BY <1>9, DeletesKeeps
<1>10. CASE e = "a" /\ Invites(d[e], c[e], eats, sends)
    BY <1>10, InvitesKeeps
<1>11. CASE e = "a" /\ Starts(d[e], c[e], eats, sends)
    BY <1>11, StartsKeeps
<1>12. CASE e = "b" /\ Rings(d[e], c[e], eats, sends)
    BY <1>12, RingsKeeps
<1>13. CASE e = "b" /\ Refuses(d[e], c[e], eats, sends)
    BY <1>13, RefusesKeeps
<1>14. CASE e = "b" /\ Accepts(d[e], c[e], eats, sends)
    BY <1>14, AcceptsKeeps
<1> QED  BY <1>1, <1>2, <1>3, <1>4, <1>5, <1>6, <1>7, <1>8, <1>9, <1>10, <1>11, <1>12, <1>13, <1>14, Zenon DEF Acts

LEMMA ActsKeepTogether ==
    ASSUME NEW c, NEW q, NEW d, NEW r, NEW e \in Ends, NEW eats, NEW sends,
           Moves(c, q, d, r, e, eats, sends), Acts(e, d[e], c[e], eats, sends), Always(c, q),
           Together(c, q), Arrives(q, r, e, sends)
    PROVE  Together(d, r)
<1>1. Always(d, r) /\ (Together(c, q) /\ Arrives(q, r, e, sends) => Together(d, r))
    BY ActsKeep
<1> QED  BY <1>1

Filmed(x) == x.stream["video"].there
Shown(x) == x.state = "deleted" \/ Filmed(x)

\* Video is offered, and its acceptance awaited, by an end that has the stream.
Added(c, q) ==
  \A e \in Ends : "content-add" \in Held(q[Other(e)]) \/ "content-accept" \in Held(q[e]) => Shown(c[e])

Typed ==
  /\ fits \in [offer : BOOLEAN, answer : BOOLEAN, video : BOOLEAN] /\ turns \in 0 .. MaxTurns
  /\ online \in [Ends -> BOOLEAN] /\ blind \in BOOLEAN /\ glare \in BOOLEAN

\* A call that was never made has nothing.
Fresh(x) == x.state = "none" => x = NoCall
Whole ==
  /\ call \in [Ends -> Calls] /\ under \in [Ends -> Seq(Kinds)]
  /\ \A e \in Ends : Sound(call[e]) /\ Fresh(call[e])

Joined == online["a"] /\ online["b"]

CallInv ==
  /\ Typed /\ Whole /\ Added(call, under)
  /\ Always(call, under) /\ (Joined => Together(call, under))

\* The end e takes eats from its queue, if anything, its call becomes y, and it sends sends.
Taken(e, eats) == IF eats = Nothing THEN under ELSE Rest(e)
Given(e, sends, q) == IF sends = Nothing THEN q ELSE Sent(e, sends, q)
Films(y, x, eats, sends) ==
  /\ Shown(x) => Shown(y)
  /\ sends = "content-add" => Shown(y)
  /\ sends = "content-accept" => eats = "content-add"
Does(e, y, eats, sends) ==
  /\ call' = [call EXCEPT ![e] = y] /\ Sound(y) /\ Fresh(y)
  /\ eats = Nothing \/ Gets(e, eats)
  /\ sends \in Kinds \cup {Nothing}
  /\ under' = Given(e, sends, Taken(e, eats))
  /\ Acts(e, y, call[e], eats, sends) /\ Films(y, call[e], eats, sends)
  /\ online' = online

LEMMA QueuesMade ==
    ASSUME NEW e \in Ends, NEW eats, NEW sends \in Kinds \cup {Nothing},
           under \in [Ends -> Seq(Kinds)], eats = Nothing \/ Gets(e, eats),
           under' = Given(e, sends, Taken(e, eats))
    PROVE  /\ under' \in [Ends -> Seq(Kinds)]
           /\ IF eats = Nothing THEN under'[e] = under[e] ELSE Eaten(under'[e], under[e], eats)
           /\ \/ under'[Other(e)] = under[Other(e)]
              \/ sends # Nothing /\ Longer(under'[Other(e)], under[Other(e)], sends)
           /\ Joined => Arrives(under, under', e, sends)
<1> DEFINE q == Taken(e, eats)
<1>1. /\ q \in [Ends -> Seq(Kinds)] /\ q[Other(e)] = under[Other(e)]
      /\ IF eats = Nothing THEN q[e] = under[e] ELSE Eaten(q[e], under[e], eats)
  <2>1. CASE eats = Nothing
      BY <2>1 DEF Taken
  <2>2. CASE eats # Nothing
    <3>1. under[e] # <<>> /\ Head(under[e]) = eats
        BY <2>2 DEF Gets
    <3>2. Eaten(Tail(under[e]), under[e], eats) /\ Tail(under[e]) \in Seq(Kinds)
        BY <3>1, TailIsEaten
    <3>3. q = [under EXCEPT ![e] = Tail(under[e])]
        BY <2>2 DEF Taken, Rest
    <3> QED  BY <2>2, <3>2, <3>3
  <2> QED  BY <2>1, <2>2
<1> HIDE DEF q
<1>2. CASE sends = Nothing
  <2>1. under' = q
      BY <1>2 DEF Given, q
  <2> QED  BY <1>1, <1>2, <2>1 DEF Arrives
<1>3. CASE sends # Nothing /\ online[e] /\ online[Other(e)]
  <2>1. under' = [q EXCEPT ![Other(e)] = Append(q[Other(e)], sends)]
      BY <1>3 DEF Given, Sent, q
  <2>2. /\ Longer(Append(under[Other(e)], sends), under[Other(e)], sends)
        /\ Append(under[Other(e)], sends) \in Seq(Kinds)
      BY <1>3, AppendIsLonger
  <2> QED  BY <1>1, <1>3, <2>1, <2>2 DEF Arrives
<1>4. CASE sends # Nothing /\ ~(online[e] /\ online[Other(e)])
  <2>1. under' = q /\ ~Joined
      BY <1>4 DEF Given, Sent, q, Joined
  <2> QED  BY <1>1, <2>1
<1> QED  BY <1>2, <1>3, <1>4

LEMMA AddedKept ==
    ASSUME NEW c, NEW q, NEW d, NEW r, NEW e \in Ends, NEW eats, NEW sends,
           Moves(c, q, d, r, e, eats, sends), Films(d[e], c[e], eats, sends), Added(c, q)
    PROVE  Added(d, r)
<1>1. /\ "content-add" \in Held(r[e]) => "content-add" \in Held(q[e])
      /\ "content-accept" \in Held(r[e]) => "content-accept" \in Held(q[e])
    BY DEF Moves, Eaten
<1>2. /\ "content-add" \in Held(r[Other(e)]) => "content-add" \in Held(q[Other(e)]) \/ sends = "content-add"
      /\ "content-accept" \in Held(r[Other(e)]) =>
           "content-accept" \in Held(q[Other(e)]) \/ (sends = "content-accept" /\ eats = "content-add")
    BY DEF Moves, Longer, Films
<1>3. eats = "content-add" => "content-add" \in Held(q[e])
    BY DEF Moves, Eaten, Nothing
<1>4. d[Other(e)] = c[Other(e)] /\ (Shown(c[e]) => Shown(d[e])) /\ (sends = "content-add" => Shown(d[e]))
    BY DEF Moves, Films
<1>5. "content-add" \in Held(r[Other(e)]) \/ "content-accept" \in Held(r[e]) => Shown(d[e])
    BY <1>1, <1>2, <1>4 DEF Added
<1>6. "content-add" \in Held(r[e]) \/ "content-accept" \in Held(r[Other(e)]) => Shown(d[Other(e)])
    BY <1>1, <1>2, <1>3, <1>4 DEF Added
<1>7. CASE e = "a"
    BY <1>5, <1>6, <1>7 DEF Added
<1>8. CASE e = "b"
    BY <1>5, <1>6, <1>8 DEF Added
<1> QED  BY <1>7, <1>8

LEMMA DoesKeeps ==
    ASSUME CallInv, Typed', NEW e \in Ends, NEW y, NEW eats, NEW sends, Does(e, y, eats, sends)
    PROVE  CallInv'
<1>1. call \in [Ends -> Calls] /\ under \in [Ends -> Seq(Kinds)] /\ sends \in Kinds \cup {Nothing}
    BY DEF CallInv, Whole, Does
<1>2. call' = [call EXCEPT ![e] = y] /\ y \in Calls /\ Sound(y) /\ Fresh(y)
    BY DEF Does, Sound
<1>3. call' \in [Ends -> Calls] /\ call'[e] = y /\ call'[Other(e)] = call[Other(e)]
    BY <1>1, <1>2
<1>4. /\ under' \in [Ends -> Seq(Kinds)]
      /\ IF eats = Nothing THEN under'[e] = under[e] ELSE Eaten(under'[e], under[e], eats)
      /\ \/ under'[Other(e)] = under[Other(e)]
         \/ sends # Nothing /\ Longer(under'[Other(e)], under[Other(e)], sends)
      /\ Joined => Arrives(under, under', e, sends)
    BY <1>1, QueuesMade DEF Does
<1>5. Whole'
  <2>1. \A f \in Ends : Sound(call'[f]) /\ Fresh(call'[f])
      BY <1>1, <1>2, <1>3 DEF CallInv, Whole
  <2> QED  BY <1>3, <1>4, <2>1 DEF Whole
<1>6. Known(call) /\ Known(call')
    BY <1>1, <1>3 DEF Known, Calls
<1>7. Moves(call, under, call', under', e, eats, sends)
    BY <1>3, <1>4, <1>6 DEF Moves
<1>8. Acts(e, call'[e], call[e], eats, sends) /\ Films(call'[e], call[e], eats, sends)
    BY <1>3 DEF Does
<1>9. Always(call', under')
    BY <1>7, <1>8, ActsKeep DEF CallInv
<1>10. Joined' => Together(call', under')
  <2>1. Joined' => Joined
      BY DEF Joined, Does
  <2>2. Always(call, under)
      BY Zenon DEF CallInv
  <2>3. ASSUME Together(call, under), Arrives(under, under', e, sends)  PROVE Together(call', under')
      BY <1>7, <1>8, <2>2, <2>3, ActsKeepTogether
  <2> QED  BY <1>4, <2>1, <2>3, Zenon DEF CallInv
<1>11. Added(call', under')
    BY <1>7, <1>8, AddedKept DEF CallInv
<1> QED  BY <1>5, <1>9, <1>10, <1>11 DEF CallInv

-----------------------------------------------------------------------------
(* The calls the steps make.                                                                     *)

LEMMA StreamSet ==
    ASSUME NEW c \in Calls, NEW m \in Media, NEW s \in Streams, NEW d, d = [c EXCEPT !.stream[m] = s]
    PROVE  /\ d \in Calls /\ Same(d, c) /\ d.mode = c.mode /\ d.sendVideo = c.sendVideo
           /\ d.stream[m] = s /\ \A n \in Media : n # m => d.stream[n] = c.stream[n]
<1>1. /\ c.stream \in [Media -> Streams]
      /\ d = [c EXCEPT !.stream = [c.stream EXCEPT ![m] = s]]
    BY DEF Calls
<1>2. [c.stream EXCEPT ![m] = s] \in [Media -> Streams]
    BY <1>1
<1> QED  BY <1>1, <1>2 DEF Calls, Same

\* The mode a stream has does not depend on whether its connection is new or closed.
LEMMA ToldStill ==
    ASSUME NEW c, NEW d, Told(c), NEW m \in Media, d.mode = c.mode, d.state = c.state,
           d.sendVideo = c.sendVideo, \A n \in Media : n # m => d.stream[n] = c.stream[n],
           Mode(c, m) = {}, Mode(d, m) = {}
    PROVE  Told(d)
<1>1. ASSUME NEW n \in Media, n # m  PROVE Mode(d, n) = Mode(c, n)
  <2>1. d.stream[n] = c.stream[n]
      BY <1>1
  <2> QED  BY <2>1, Zenon DEF Mode
<1> QED  BY <1>1 DEF Told

LEMMA TransportMakes ==
    ASSUME NEW c, Sound(c), NEW m \in Media, m = "video" => Filmed(c)
    PROVE  Sound(Transport(c, m)) /\ Same(Transport(c, m), c) /\ (Filmed(c) => Filmed(Transport(c, m)))
<1> DEFINE d == Transport(c, m)
           old == c.stream[m]
           ice == CASE old.ice = "new" -> "checking" [] old.ice = "closed" -> "hopeless" [] OTHER -> old.ice
           s == [old EXCEPT !.ice = ice]
<1>1. c \in Calls /\ Told(c) /\ VideoNew(c) /\ old \in Streams
    BY DEF Sound, Calls
<1>2. d = [c EXCEPT !.stream[m] = s]
    BY DEF Transport
<1>3. ice \in Phases /\ (ice = "connected" <=> old.ice = "connected") /\ (old.ice = "connected" => ice = old.ice)
    BY <1>1 DEF Streams, Phases
<1> HIDE DEF ice, d
<1>4. s \in Streams /\ s.ice = ice /\ s.there = old.there /\ s.open = old.open
    BY <1>1, <1>3 DEF Streams
<1> HIDE DEF s
<1>5. /\ d \in Calls /\ Same(d, c) /\ d.mode = c.mode /\ d.sendVideo = c.sendVideo
      /\ d.stream[m] = s /\ \A n \in Media : n # m => d.stream[n] = c.stream[n]
    BY <1>1, <1>2, <1>4, StreamSet
<1>6. Told(d)
  <2>1. CASE old.ice = "connected"
    <3>1. s.ice = old.ice
        BY <1>3, <1>4, <2>1
    <3>2. Mode(d, m) = Mode(c, m)
        BY <1>4, <1>5, <3>1, Zenon DEF Mode, Same
    <3>3. ASSUME NEW n \in Media, n # m  PROVE Mode(d, n) = Mode(c, n)
      <4>1. d.stream[n] = c.stream[n]
          BY <1>5, <3>3
      <4> QED  BY <1>5, <4>1, Zenon DEF Mode, Same
    <3> QED  BY <1>1, <1>5, <3>2, <3>3 DEF Told
  <2>2. CASE old.ice # "connected"
    <3>1. Mode(c, m) = {} /\ Mode(d, m) = {}
        BY <1>3, <1>4, <1>5, <2>2, ModeClosed
    <3> QED  BY <1>1, <1>5, <3>1, ToldStill DEF Same
  <2> QED  BY <2>1, <2>2
<1>7. VideoNew(d) /\ (Filmed(c) => Filmed(d))
  <2>1. CASE m = "video"
    <3>1. Filmed(c) /\ d.stream["video"].there = c.stream["video"].there
        BY <1>4, <1>5, <2>1
    <3> QED  BY <3>1, Zenon DEF Filmed, VideoNew
  <2>2. CASE m # "video"
    <3>1. d.stream["video"] = c.stream["video"]
        BY <1>5, <2>2 DEF Media
    <3> QED  BY <1>1, <3>1, Zenon DEF Filmed, VideoNew
  <2> QED  BY <2>1, <2>2
<1> QED  BY <1>1, <1>5, <1>6, <1>7 DEF Sound, d

LEMMA DescribeMakes ==
    ASSUME NEW c, Sound(c), NEW m \in Media
    PROVE  /\ Sound(Describe(c, m)) /\ Same(Describe(c, m), c)
           /\ Filmed(c) <=> Filmed(Describe(c, m))
<1> DEFINE old == c.stream[m]
           s == [old EXCEPT !.open = TRUE]
           d == [c EXCEPT !.stream[m].open = TRUE]
<1>1. c \in Calls /\ VideoNew(c) /\ old \in Streams
    BY DEF Sound, Calls
<1>2. d = [c EXCEPT !.stream[m] = s] /\ Describe(c, m) = UpdateOpenMode(d)
    BY DEF Describe
<1> HIDE DEF d
<1>3. s \in Streams /\ s.ice = old.ice /\ s.there = old.there
    BY <1>1 DEF Streams
<1> HIDE DEF s
<1>4. /\ d \in Calls /\ Same(d, c)
      /\ d.stream[m] = s /\ \A n \in Media : n # m => d.stream[n] = c.stream[n]
    BY <1>1, <1>2, <1>3, StreamSet
<1>5. d.stream["video"].ice = c.stream["video"].ice /\ d.stream["video"].there = c.stream["video"].there
    BY <1>3, <1>4 DEF Media
<1>6. VideoNew(d)
    BY <1>1, <1>5, Zenon DEF VideoNew
<1>7. /\ Sound(UpdateOpenMode(d)) /\ UpdateOpenMode(d).state = d.state
      /\ UpdateOpenMode(d).stream = d.stream /\ Like(UpdateOpenMode(d), d)
    BY <1>4, <1>6, Updated
<1>8. Same(UpdateOpenMode(d), c)
    BY <1>4, <1>7 DEF Same, Like
<1>9. Filmed(c) <=> Filmed(UpdateOpenMode(d))
    BY <1>5, <1>7, Zenon DEF Filmed
<1> QED  BY <1>2, <1>7, <1>8, <1>9

LEMMA NoCallIsSound ==
    /\ Sound(NoCall) /\ NoCall.state = "none" /\ NoCall.hangups = 0 /\ NoCall.timers = 0
    /\ ~Filmed(NoCall)
<1> DEFINE quiet == [m \in Media |-> NewStream]
           modes == [m \in Media |-> {}]
<1>1. NewStream \in Streams /\ NewStream.ice = "new" /\ NewStream.there = FALSE
    BY DEF NewStream, Streams, Phases
<1>2. quiet \in [Media -> Streams] /\ modes \in [Media -> Modes]
    BY <1>1 DEF Modes
<1>3. NoCall = [state |-> "none", stream |-> quiet, mode |-> modes, sendVideo |-> FALSE,
                hangups |-> 0, timers |-> 0]
    BY Zenon DEF NoCall
<1>4. NoCall \in Calls /\ NoCall.state = "none" /\ NoCall.stream = quiet /\ NoCall.mode = modes
      /\ NoCall.hangups = 0 /\ NoCall.timers = 0
    BY <1>2, <1>3 DEF Calls, States
<1>5. Told(NoCall)
    BY <1>4, ModeClosed DEF Told
<1>6. NoCall.stream["video"] = NewStream
    BY <1>4 DEF Media
<1> QED  BY <1>1, <1>4, <1>5, <1>6 DEF Sound, VideoNew, Filmed

LEMMA DeletedIsSound ==
    LET y == [NoCall EXCEPT !.state = "deleted"]
    IN  Sound(y) /\ y.state = "deleted" /\ y.hangups = 0 /\ y.timers = 0
<1> DEFINE y == [NoCall EXCEPT !.state = "deleted"]
<1>1. /\ y \in Calls /\ y.state = "deleted" /\ y.stream = NoCall.stream /\ y.mode = NoCall.mode
      /\ y.hangups = 0 /\ y.timers = 0
    BY NoCallIsSound DEF Sound, Calls, States
<1> HIDE DEF y
<1>2. \A m \in Media : Mode(y, m) = {} /\ Mode(NoCall, m) = {}
    BY <1>1, NoCallIsSound, ModeClosed
<1>3. Told(y)
    BY <1>1, <1>2, NoCallIsSound DEF Told, Sound
<1>4. VideoNew(y)
    BY <1>1, NoCallIsSound, Zenon DEF VideoNew, Sound
<1> QED  BY <1>1, <1>3, <1>4 DEF Sound, y

LEMMA NewCallIsSound ==
    Sound(NewCall) /\ NewCall.state = "connecting" /\ NewCall.hangups = 0 /\ NewCall.timers = 0
<1> DEFINE fresh == [m \in Media |-> There(m)]
<1>1. ASSUME NEW m \in Media  PROVE There(m) \in Streams /\ There(m).ice = "new"
  <2>1. NewStream \in Streams /\ NewStream.ice = "new"
      BY DEF NewStream, Streams, Phases
  <2>2. (m = "audio") \in BOOLEAN
      OBVIOUS
  <2> QED  BY <2>1, <2>2 DEF There, Streams
<1>2. fresh \in [Media -> Streams] /\ fresh["video"] = There("video")
    BY <1>1 DEF Media
<1>3. NewCall = [NoCall EXCEPT !.state = "connecting", !.stream = fresh]
    BY DEF NewCall
<1> HIDE DEF fresh
<1>4. /\ NewCall \in Calls /\ NewCall.state = "connecting" /\ NewCall.stream = fresh
      /\ NewCall.mode = NoCall.mode /\ NewCall.hangups = 0 /\ NewCall.timers = 0
    BY <1>2, <1>3, NoCallIsSound DEF Sound, Calls, States
<1>5. \A m \in Media : Mode(NewCall, m) = {} /\ Mode(NoCall, m) = {}
    BY <1>4, NoCallIsSound, ModeClosed
<1>6. Told(NewCall)
    BY <1>4, <1>5, NoCallIsSound DEF Told, Sound
<1>7. VideoNew(NewCall)
    BY <1>1, <1>2, <1>4, Zenon DEF VideoNew, Media
<1> QED  BY <1>4, <1>6, <1>7 DEF Sound

-----------------------------------------------------------------------------
(* The steps of the users.                                                                       *)

LEMMA KnownOf ==
    ASSUME CallInv, NEW e \in Ends
    PROVE  /\ call \in [Ends -> Calls] /\ call[e] \in Calls
           /\ Sound(call[e]) /\ Told(call[e]) /\ VideoNew(call[e]) /\ Fresh(call[e])
           /\ call[e].state \in States /\ call[e].hangups \in Nat /\ call[e].timers \in Nat
           /\ call[e] = NoCall \/ call[e].state # "none"
    BY DEF CallInv, Whole, Sound, Fresh, Calls

\* An end that neither takes nor changes anything but its own call.
LEMMA AloneDoes ==
    ASSUME CallInv, Typed', NEW e \in Ends, NEW y, Sound(y), Fresh(y), UNCHANGED <<under, online>>,
           call' = [call EXCEPT ![e] = y], Acts(e, y, call[e], Nothing, Nothing),
           Shown(call[e]) => Shown(y)
    PROVE  CallInv'
<1>1. under' = Given(e, Nothing, Taken(e, Nothing))
    BY DEF Given, Taken
<1>2. Films(y, call[e], Nothing, Nothing)
    BY DEF Films, Nothing
<1>3. Does(e, y, Nothing, Nothing)
    BY <1>1, <1>2, Zenon DEF Does
<1> QED  BY <1>3, DoesKeeps

\* One that only sends.
LEMMA SenderDoes ==
    ASSUME CallInv, Typed', NEW e \in Ends, NEW y, Sound(y), Fresh(y), online' = online,
           NEW sends \in Kinds, under' = Sent(e, sends, under), sends # "content-accept",
           call' = [call EXCEPT ![e] = y], Acts(e, y, call[e], Nothing, sends),
           Shown(call[e]) => Shown(y), sends = "content-add" => Shown(y)
    PROVE  CallInv'
<1>1. sends # Nothing
    BY DEF Kinds, Nothing
<1>2. under' = Given(e, sends, Taken(e, Nothing))
    BY <1>1 DEF Given, Taken
<1>3. Films(y, call[e], Nothing, sends)
    BY DEF Films
<1>4. Does(e, y, Nothing, sends)
    BY <1>2, <1>3 DEF Does
<1> QED  BY <1>4, DoesKeeps

\* One that only takes.
LEMMA TakerDoes ==
    ASSUME CallInv, Typed', NEW e \in Ends, NEW y, Sound(y), Fresh(y), online' = online,
           NEW eats, Gets(e, eats), eats # Nothing, under' = Rest(e),
           call' = [call EXCEPT ![e] = y], Acts(e, y, call[e], eats, Nothing),
           Shown(call[e]) => Shown(y)
    PROVE  CallInv'
<1>1. under' = Given(e, Nothing, Taken(e, eats))
    BY DEF Given, Taken
<1>2. Films(y, call[e], eats, Nothing)
    BY DEF Films, Nothing
<1>3. Does(e, y, eats, Nothing)
    BY <1>1, <1>2, Zenon DEF Does
<1> QED  BY <1>3, DoesKeeps

\* One that takes and answers.
LEMMA AnswerDoes ==
    ASSUME CallInv, Typed', NEW e \in Ends, NEW y, Sound(y), Fresh(y), online' = online,
           NEW eats, Gets(e, eats), eats # Nothing, NEW sends \in Kinds, under' = Sent(e, sends, Rest(e)),
           call' = [call EXCEPT ![e] = y], Acts(e, y, call[e], eats, sends),
           Shown(call[e]) => Shown(y), sends # "content-add",
           sends = "content-accept" => eats = "content-add"
    PROVE  CallInv'
<1>1. sends # Nothing
    BY DEF Kinds, Nothing
<1>2. under' = Given(e, sends, Taken(e, eats))
    BY <1>1 DEF Given, Taken
<1>3. Films(y, call[e], eats, sends)
    BY DEF Films
<1>4. Does(e, y, eats, sends)
    BY <1>2, <1>3 DEF Does
<1> QED  BY <1>4, DoesKeeps

\* Nothing changes in what the other end counts on, unless the call is not there.
LEMMA SameIsQuiet ==
    ASSUME NEW e, NEW y, NEW x, x.state # "none", Same(y, x),
           NEW eats \in Idle, NEW sends \in Idle
    PROVE  Acts(e, y, x, eats, sends)
<1>1. Quiet(y, x, eats, sends)
    BY DEF Quiet
<1> QED  BY <1>1, Zenon DEF Acts

\* terminate() of a call with some of its streams changed.
LEMMA HangUpMakes ==
    ASSUME NEW x \in Calls, NEW c \in Calls, VideoNew(c), Same(c, x), Ended(c) => Told(c),
           Shown(x) => Shown(c), x.state \notin {"none", "deleted"}
    PROVE  /\ Sound(Terminate(c)) /\ Fresh(Terminate(c)) /\ (Shown(x) => Shown(Terminate(c)))
           /\ Ended(c) => Same(Terminate(c), x) /\ Ended(x)
           /\ ~Ended(c) => /\ x.state \in {"connecting", "active"} /\ Terminate(c).state = "disconnecting"
                           /\ Terminate(c).hangups = x.hangups + 1 /\ Terminate(c).timers = x.timers + 1
<1>1. /\ Sound(Terminate(c)) /\ Terminate(c).stream = c.stream
      /\ Ended(c) => Terminate(c) = c
      /\ ~Ended(c) => /\ Terminate(c).state = "disconnecting"
                      /\ Terminate(c).hangups = c.hangups + 1 /\ Terminate(c).timers = c.timers + 1
    BY TerminateMakes
<1>2. c.state = x.state /\ c.hangups = x.hangups /\ c.timers = x.timers /\ x.state \in States
    BY DEF Same, Calls
<1>3. Terminate(c).state # "none"
    BY <1>1, <1>2 DEF Ended
<1>4. Shown(x) => Shown(Terminate(c))
  <2>1. Filmed(c) <=> Filmed(Terminate(c))
      BY <1>1, Zenon DEF Filmed
  <2>2. Shown(x) => Filmed(c)
      BY <1>2 DEF Shown
  <2> QED  BY <2>1, <2>2 DEF Shown
<1>5. Ended(c) => Same(Terminate(c), x) /\ Ended(x)
    BY <1>1, <1>2 DEF Ended, Same
<1>6. ~Ended(c) => x.state \in {"connecting", "active"}
    BY <1>2 DEF Ended, States
<1> QED  BY <1>1, <1>2, <1>3, <1>4, <1>5, <1>6 DEF Fresh

LEMMA HangUpDoes ==
    ASSUME CallInv, Typed', NEW e \in Ends, NEW c \in Calls, VideoNew(c), Same(c, call[e]),
           Ended(c) => Told(c), Shown(call[e]) => Shown(c), Exists(e), online' = online,
           NEW eats, eats = Nothing \/ (eats \in {"accept", "unavailable"} /\ Gets(e, eats)),
           HangUpWith(e, c, Taken(e, eats))
    PROVE  CallInv'
<1> DEFINE x == call[e]
           y == Terminate(c)
<1>1. x \in Calls /\ x.state \notin {"none", "deleted"}
    BY KnownOf DEF Exists
<1>2. /\ Sound(y) /\ Fresh(y) /\ (Shown(x) => Shown(y))
      /\ Ended(c) => Same(y, x) /\ Ended(x)
      /\ ~Ended(c) => /\ x.state \in {"connecting", "active"} /\ y.state = "disconnecting"
                      /\ y.hangups = x.hangups + 1 /\ y.timers = x.timers + 1
    BY <1>1, HangUpMakes
<1>3. call' = [call EXCEPT ![e] = y]
    BY DEF HangUpWith, Become
<1> HIDE DEF y
<1>4. CASE ~Ended(c)
  <2>1. under' = Given(e, "terminate", Taken(e, eats)) /\ "terminate" \in Kinds
      BY <1>4 DEF HangUpWith, Given, Kinds, Nothing
  <2>2. HangsUp(y, x, eats, "terminate")
      BY <1>2, <1>4 DEF HangsUp, Idle
  <2>3. Acts(e, y, x, eats, "terminate")
      BY <2>2, Zenon DEF Acts
  <2>4. Films(y, x, eats, "terminate")
      BY <1>2 DEF Films
  <2>5. Does(e, y, eats, "terminate")
      BY <1>2, <1>3, <2>1, <2>3, <2>4 DEF Does
  <2> QED  BY <2>5, DoesKeeps
<1>5. CASE Ended(c)
  <2>1. under' = Given(e, Nothing, Taken(e, eats))
      BY <1>5 DEF HangUpWith, Given
  <2>2. Acts(e, y, x, eats, Nothing)
    <3>1. CASE eats = Nothing
        BY <1>1, <1>2, <1>5, <3>1, SameIsQuiet DEF Idle
    <3>2. CASE eats # Nothing
      <4>1. Shrugs(y, x, eats, Nothing)
          BY <1>2, <1>5, <3>2 DEF Shrugs
      <4> QED  BY <4>1, Zenon DEF Acts
    <3> QED  BY <3>1, <3>2
  <2>3. Films(y, x, eats, Nothing)
      BY <1>2 DEF Films, Nothing
  <2>4. Does(e, y, eats, Nothing)
      BY <1>2, <1>3, <2>1, <2>2, <2>3 DEF Does
  <2> QED  BY <2>4, DoesKeeps
<1> QED  BY <1>4, <1>5

LEMMA InviteInv ==
    ASSUME CallInv, Typed', Invite
    PROVE  CallInv'
<1> DEFINE y == NewCall
<1>1. Sound(y) /\ y.state = "connecting" /\ y.hangups = 0 /\ y.timers = 0
    BY NewCallIsSound
<1> HIDE DEF y
<1>2. call["a"].state = "none" /\ call' = [call EXCEPT !["a"] = y] /\ under' = Sent("a", "initiate", under)
      /\ online' = online
    BY DEF Invite, Become, y
<1>3. Acts("a", y, call["a"], Nothing, "initiate")
  <2>1. Invites(y, call["a"], Nothing, "initiate")
      BY <1>1, <1>2 DEF Invites
  <2> QED  BY <2>1, Zenon DEF Acts
<1>4. ~Shown(call["a"])
  <2>1. call["a"] = NoCall
      BY <1>2, KnownOf
  <2> QED  BY <1>2, <2>1, NoCallIsSound DEF Shown
<1>5. Fresh(y) /\ "initiate" \in Kinds
    BY <1>1 DEF Fresh, Kinds
<1> QED  BY <1>1, <1>2, <1>3, <1>4, <1>5, SenderDoes

LEMMA AcceptInv ==
    ASSUME CallInv, Typed', Accept
    PROVE  CallInv'
<1> DEFINE x == call["b"]
           y == SetState(x, "active")
<1>1. x \in Calls /\ VideoNew(x) /\ x.state = "connecting" /\ "active" \in States
    BY KnownOf DEF Accept, States
<1>2. /\ Sound(y) /\ y.state = "active" /\ y.stream = x.stream /\ Like(y, x)
    BY <1>1, StateSet
<1>3. call' = [call EXCEPT !["b"] = y] /\ under' = Sent("b", "accept", under) /\ online' = online
    BY DEF Accept, Become
<1> HIDE DEF y
<1>4. Acts("b", y, x, Nothing, "accept")
  <2>1. Accepts(y, x, Nothing, "accept")
      BY <1>1, <1>2 DEF Accepts, Like
  <2> QED  BY <2>1, Zenon DEF Acts
<1>5. Shown(x) => Shown(y)
  <2>1. Filmed(x) <=> Filmed(y)
      BY <1>2, Zenon DEF Filmed
  <2> QED  BY <1>1, <2>1 DEF Shown
<1>6. Fresh(y) /\ "accept" \in Kinds
    BY <1>2 DEF Fresh, Kinds
<1> QED  BY <1>2, <1>3, <1>4, <1>5, <1>6, SenderDoes

LEMMA HangupInv ==
    ASSUME CallInv, Typed', NEW e \in Ends, Hangup(e)
    PROVE  CallInv'
<1>1. call[e] \in Calls /\ VideoNew(call[e]) /\ Told(call[e])
    BY KnownOf
<1>2. Exists(e) /\ online' = online /\ HangUpWith(e, call[e], Taken(e, Nothing))
    BY DEF Hangup, Taken
<1>3. Same(call[e], call[e])
    BY DEF Same
<1> QED  BY <1>1, <1>2, <1>3, HangUpDoes

LEMMA DeleteInv ==
    ASSUME CallInv, Typed', NEW e \in Ends, Delete(e)
    PROVE  CallInv'
<1> DEFINE y == [NoCall EXCEPT !.state = "deleted"]
<1>1. Sound(y) /\ y.state = "deleted" /\ y.hangups = 0 /\ y.timers = 0
    BY DeletedIsSound
<1>2. call' = [call EXCEPT ![e] = y] /\ UNCHANGED <<under, online>> /\ call[e].state = "finished"
    BY DEF Delete, Become
<1> HIDE DEF y
<1>3. Acts(e, y, call[e], Nothing, Nothing)
  <2>1. Deletes(y, call[e], Nothing, Nothing)
      BY <1>1, <1>2 DEF Deletes
  <2> QED  BY <2>1, Zenon DEF Acts
<1>4. Fresh(y) /\ Shown(y)
    BY <1>1 DEF Fresh, Shown
<1> QED  BY <1>1, <1>2, <1>3, <1>4, AloneDoes

\* A call gets its video stream, of which nothing is known yet.
LEMMA VideoMade ==
    ASSUME NEW c \in Calls, Told(c), VideoNew(c), ~Filmed(c)
    PROVE  LET d == [c EXCEPT !.stream["video"].there = TRUE]
           IN  Sound(d) /\ Same(d, c) /\ Filmed(d)
<1> DEFINE d == [c EXCEPT !.stream["video"].there = TRUE]
           s == [c.stream["video"] EXCEPT !.there = TRUE]
<1>1. c.stream["video"] \in Streams /\ "video" \in Media
    BY DEF Calls, Media
<1>2. c.stream["video"].ice = "new"
    BY Zenon DEF VideoNew, Filmed
<1>3. s \in Streams /\ s.ice = "new" /\ s.there = TRUE
    BY <1>1, <1>2 DEF Streams
<1>4. d = [c EXCEPT !.stream["video"] = s]
    OBVIOUS
<1> HIDE DEF s, d
<1>5. /\ d \in Calls /\ Same(d, c) /\ d.mode = c.mode /\ d.sendVideo = c.sendVideo
      /\ d.stream["video"] = s /\ \A n \in Media : n # "video" => d.stream[n] = c.stream[n]
    BY <1>1, <1>3, <1>4, StreamSet
<1>6. Mode(c, "video") = {} /\ Mode(d, "video") = {}
    BY <1>2, <1>3, <1>5, ModeClosed
<1>7. Told(d)
    BY <1>1, <1>5, <1>6, ToldStill DEF Same
<1>8. d.stream["video"].there = TRUE
    BY <1>3, <1>5
<1>9. Filmed(d) /\ VideoNew(d)
    BY <1>8, Zenon DEF Filmed, VideoNew
<1> QED  BY <1>5, <1>7, <1>9 DEF Sound, d

\* The wish to send video changes.
LEMMA WishMade ==
    ASSUME NEW c \in Calls, VideoNew(c), NEW wish \in BOOLEAN, NEW d, d = [c EXCEPT !.sendVideo = wish]
    PROVE  /\ d \in Calls /\ VideoNew(d) /\ Same(d, c) /\ (Filmed(d) <=> Filmed(c))
           /\ d.stream = c.stream /\ d.mode = c.mode
           /\ Told(c) /\ ~Filmed(c) => Told(d)
<1>1. d \in Calls /\ Same(d, c) /\ d.stream = c.stream /\ d.mode = c.mode /\ d.state = c.state
    BY DEF Calls, Same
<1>2. VideoNew(d) /\ (Filmed(d) <=> Filmed(c))
    BY <1>1, Zenon DEF VideoNew, Filmed
<1>3. ASSUME Told(c), ~Filmed(c)  PROVE Told(d)
  <2>1. Mode(c, "video") = {} /\ Mode(d, "video") = {}
      BY <1>1, <1>2, <1>3, Zenon DEF Mode, Filmed
  <2>2. Mode(d, "audio") = Mode(c, "audio")
    <3>1. "audio" # "video"
        OBVIOUS
    <3> QED  BY <1>1, <3>1, Zenon DEF Mode
  <2> QED  BY <1>1, <1>3, <2>1, <2>2 DEF Told, Media
<1> QED  BY <1>1, <1>2, <1>3

LEMMA UpdateIsSame ==
    ASSUME NEW c \in Calls, VideoNew(c)
    PROVE  /\ Sound(UpdateOpenMode(c)) /\ Same(UpdateOpenMode(c), c)
           /\ Filmed(UpdateOpenMode(c)) <=> Filmed(c)
<1>1. /\ Sound(UpdateOpenMode(c)) /\ UpdateOpenMode(c).state = c.state
      /\ UpdateOpenMode(c).stream = c.stream /\ Like(UpdateOpenMode(c), c)
    BY Updated
<1>2. Filmed(UpdateOpenMode(c)) <=> Filmed(c)
    BY <1>1, Zenon DEF Filmed
<1> QED  BY <1>1, <1>2 DEF Like, Same

LEMMA StartVideoInv ==
    ASSUME CallInv, Typed', NEW e \in Ends, StartVideo(e)
    PROVE  CallInv'
<1> DEFINE x == call[e]
           c == [x EXCEPT !.sendVideo = TRUE]
<1>1. x \in Calls /\ VideoNew(x) /\ Told(x) /\ x.state = "active" /\ online' = online
    BY KnownOf DEF StartVideo
<1>2. /\ c \in Calls /\ VideoNew(c) /\ Same(c, x) /\ (Filmed(c) <=> Filmed(x))
      /\ c.stream = x.stream /\ c.mode = x.mode
      /\ Told(x) /\ ~Filmed(x) => Told(c)
    BY <1>1, WishMade
<1>3. CASE Filmed(x)
  <2> DEFINE y == UpdateOpenMode(c)
  <2>1. c.stream["video"].there
      BY <1>2, <1>3, Zenon DEF Filmed
  <2>2. call' = [call EXCEPT ![e] = y] /\ under' = under
      BY <2>1 DEF StartVideo, Become
  <2>3. Sound(y) /\ Same(y, c) /\ (Filmed(y) <=> Filmed(c))
      BY <1>2, UpdateIsSame
  <2> HIDE DEF y, c
  <2>4. Same(y, x) /\ y.state = "active" /\ Fresh(y)
      BY <1>1, <1>2, <2>3 DEF Same, Fresh
  <2>5. Shown(y)
      BY <1>2, <1>3, <2>3 DEF Shown
  <2>6. Acts(e, y, x, Nothing, Nothing)
      BY <1>1, <2>4, SameIsQuiet DEF Idle
  <2> QED  BY <1>1, <2>2, <2>3, <2>4, <2>5, <2>6, AloneDoes
<1>4. CASE ~Filmed(x)
  <2> DEFINE y == [c EXCEPT !.stream["video"].there = TRUE]
  <2>1. ~c.stream["video"].there
      BY <1>2, <1>4, Zenon DEF Filmed
  <2>2. call' = [call EXCEPT ![e] = y] /\ under' = Sent(e, "content-add", under)
      BY <2>1 DEF StartVideo, Become
  <2>3. Sound(y) /\ Same(y, c) /\ Filmed(y)
      BY <1>1, <1>2, <1>4, VideoMade
  <2> HIDE DEF y, c
  <2>4. Same(y, x) /\ y.state = "active" /\ Fresh(y) /\ Shown(y)
      BY <1>1, <1>2, <2>3 DEF Same, Fresh, Shown
  <2>5. "content-add" \in Kinds /\ "content-add" \in Idle /\ Nothing \in Idle
      BY DEF Kinds, Idle
  <2>6. Acts(e, y, x, Nothing, "content-add")
      BY <1>1, <2>4, <2>5, SameIsQuiet
  <2> QED  BY <1>1, <2>2, <2>3, <2>4, <2>5, <2>6, SenderDoes
<1> QED  BY <1>3, <1>4

LEMMA StopVideoInv ==
    ASSUME CallInv, Typed', NEW e \in Ends, StopVideo(e)
    PROVE  CallInv'
<1> DEFINE x == call[e]
           c == [x EXCEPT !.sendVideo = FALSE]
           y == IF c.stream["video"].there THEN UpdateOpenMode(c) ELSE c
<1>1. x \in Calls /\ VideoNew(x) /\ Told(x) /\ UNCHANGED <<under, online>>
    BY KnownOf DEF StopVideo
<1>2. x.state # "none"
  <2>1. x.sendVideo /\ (x = NoCall \/ x.state # "none")
      BY KnownOf DEF StopVideo
  <2>2. NoCall.sendVideo = FALSE
      BY DEF NoCall
  <2> QED  BY <2>1, <2>2, Zenon
<1>3. /\ c \in Calls /\ VideoNew(c) /\ Same(c, x) /\ (Filmed(c) <=> Filmed(x))
      /\ c.stream = x.stream /\ c.mode = x.mode
      /\ Told(x) /\ ~Filmed(x) => Told(c)
    BY <1>1, WishMade
<1>4. call' = [call EXCEPT ![e] = y]
    BY DEF StopVideo, Become
<1> HIDE DEF c
<1>5. Sound(y) /\ Same(y, c) /\ (Filmed(y) <=> Filmed(c))
  <2>1. CASE Filmed(c)
    <3>1. y = UpdateOpenMode(c)
        BY <2>1, Zenon DEF Filmed
    <3> QED  BY <1>3, <3>1, UpdateIsSame
  <2>2. CASE ~Filmed(c)
    <3>1. y = c
        BY <2>2, Zenon DEF Filmed
    <3> QED  BY <1>1, <1>3, <2>2, <3>1 DEF Sound, Same
  <2> QED  BY <2>1, <2>2
<1> HIDE DEF y
<1>6. Same(y, x) /\ Fresh(y) /\ y.state = x.state
    BY <1>2, <1>3, <1>5 DEF Same, Fresh
<1>7. Shown(x) => Shown(y)
    BY <1>3, <1>5, <1>6 DEF Shown
<1>8. Acts(e, y, x, Nothing, Nothing)
    BY <1>2, <1>6, SameIsQuiet DEF Idle
<1> QED  BY <1>1, <1>4, <1>5, <1>6, <1>7, <1>8, AloneDoes

-----------------------------------------------------------------------------
(* The stanzas that come.                                                                        *)

\* A stanza that changes nothing.
LEMMA SameTaken ==
    ASSUME CallInv, Typed', NEW e \in Ends, UNCHANGED <<call, online>>, under' = Rest(e),
           NEW eats, Gets(e, eats), eats # Nothing, Acts(e, call[e], call[e], eats, Nothing)
    PROVE  CallInv'
<1>1. call' = [call EXCEPT ![e] = call[e]]
    BY KnownOf
<1>2. Sound(call[e]) /\ Fresh(call[e])
    BY KnownOf
<1> QED  BY <1>1, <1>2, TakerDoes

LEMMA GetInitiateInv ==
    ASSUME CallInv, Typed', GetInitiate
    PROVE  CallInv'
<1> DEFINE x == call["b"]
<1>1. Gets("b", "initiate") /\ "initiate" # Nothing /\ online' = online
    BY DEF GetInitiate, Unchanged, Nothing
<1>2. ~Shown(x)
  <2>1. "initiate" \in Held(under["b"])
    <3>1. under["b"] # <<>> /\ Head(under["b"]) = "initiate" /\ under["b"] \in Seq(Kinds)
        BY <1>1 DEF Gets, CallInv, Whole
    <3>2. Eaten(Tail(under["b"]), under["b"], "initiate")
        BY <3>1, TailIsEaten
    <3> QED  BY <3>2 DEF Eaten
  <2>2. x.state = "none" /\ x = NoCall
    <3>1. x.state = "none"
        BY <2>1 DEF CallInv, Always, Asked
    <3> QED  BY <3>1, KnownOf
  <2> QED  BY <2>2, NoCallIsSound DEF Shown
<1>3. "ringing" \in Kinds /\ "terminate" \in Kinds
    BY DEF Kinds
<1>4. CASE fits.offer
  <2> DEFINE d == Describe(NewCall, "audio")
             y == Transport(d, "audio")
  <2>1. call' = [call EXCEPT !["b"] = y] /\ under' = Sent("b", "ringing", Rest("b"))
      BY <1>4 DEF GetInitiate, Become
  <2>2. "audio" \in Media /\ "audio" # "video"
      BY DEF Media
  <2>3. Sound(d) /\ Same(d, NewCall)
      BY <2>2, NewCallIsSound, DescribeMakes
  <2> HIDE DEF d
  <2>4. Sound(y) /\ Same(y, d)
      BY <2>2, <2>3, TransportMakes
  <2> HIDE DEF y
  <2>5. y.state = "connecting" /\ y.hangups = 0 /\ y.timers = 0 /\ Fresh(y)
      BY <2>3, <2>4, NewCallIsSound DEF Same, Fresh
  <2>6. Acts("b", y, x, "initiate", "ringing")
    <3>1. Rings(y, x, "initiate", "ringing")
        BY <2>5 DEF Rings
    <3> QED  BY <3>1, Zenon DEF Acts
  <2> QED  BY <1>1, <1>2, <1>3, <2>1, <2>4, <2>5, <2>6, AnswerDoes
<1>5. CASE ~fits.offer
  <2> DEFINE y == [NoCall EXCEPT !.state = "deleted"]
  <2>1. call' = [call EXCEPT !["b"] = y] /\ under' = Sent("b", "terminate", Rest("b"))
      BY <1>5 DEF GetInitiate, Become
  <2>2. Sound(y) /\ y.state = "deleted" /\ y.hangups = 0 /\ y.timers = 0
      BY DeletedIsSound
  <2> HIDE DEF y
  <2>3. Acts("b", y, x, "initiate", "terminate")
    <3>1. Refuses(y, x, "initiate", "terminate")
        BY <2>2 DEF Refuses
    <3> QED  BY <3>1, Zenon DEF Acts
  <2>4. Fresh(y)
      BY <2>2 DEF Fresh
  <2> QED  BY <1>1, <1>2, <1>3, <2>1, <2>2, <2>3, <2>4, AnswerDoes
<1> QED  BY <1>4, <1>5

LEMMA GetUnknownInv ==
    ASSUME CallInv, Typed', NEW e \in Ends, GetUnknown(e)
    PROVE  CallInv'
<1> DEFINE k == Head(under[e])
<1>1. /\ under[e] \in Seq(Kinds) /\ under[e] # <<>> /\ k # "initiate" /\ Gets(e, k)
      /\ UNCHANGED <<call, online>> /\ under' = Rest(e) /\ call[e].state \in {"none", "deleted"}
    BY DEF CallInv, Whole, GetUnknown, Gets, Unchanged, Exists
<1>2. k \in Kinds
    BY <1>1, HeadTailProperties
<1>3. k # Nothing
    BY <1>2 DEF Kinds, Nothing
<1>4. Acts(e, call[e], call[e], k, Nothing)
  <2>1. Ignores(call[e], call[e], k, Nothing)
      BY <1>1, <1>3 DEF Ignores
  <2> QED  BY <2>1, Zenon DEF Acts
<1> QED  BY <1>1, <1>3, <1>4, SameTaken

LEMMA GetNoticeInv ==
    ASSUME CallInv, Typed', NEW e \in Ends, GetNotice(e)
    PROVE  CallInv'
<1>1. PICK k \in {"ringing", "content-reject"} : Gets(e, k)
    BY DEF GetNotice
<1>2. call[e].state # "none" /\ UNCHANGED <<call, online>> /\ under' = Rest(e)
    BY DEF GetNotice, Unchanged, Exists
<1>3. k \in Idle /\ Nothing \in Idle /\ k # Nothing /\ Same(call[e], call[e])
    BY <1>1 DEF Idle, Nothing, Same
<1>4. Acts(e, call[e], call[e], k, Nothing)
    BY <1>2, <1>3, SameIsQuiet
<1> QED  BY <1>1, <1>2, <1>3, <1>4, SameTaken

LEMMA GetAcceptInv ==
    ASSUME CallInv, Typed', GetAccept
    PROVE  CallInv'
<1> DEFINE x == call["a"]
<1>1. /\ Gets("a", "accept") /\ "accept" # Nothing /\ online' = online
      /\ Exists("a") /\ x.state \notin {"none", "deleted"}
    BY DEF GetAccept, Unchanged, Nothing, Exists
<1>2. Sound(x) /\ x \in Calls /\ VideoNew(x) /\ Told(x) /\ Same(x, x)
    BY KnownOf DEF Same
<1>3. CASE fits.answer
  <2> DEFINE d == Describe(x, "audio")
             t == Transport(d, "audio")
             y == SetState(t, "active")
  <2>1. call' = [call EXCEPT !["a"] = y] /\ under' = Rest("a")
      BY <1>3 DEF GetAccept, Become
  <2>2. "audio" \in Media /\ "audio" # "video" /\ "active" \in States
      BY DEF Media, States
  <2>3. Sound(d) /\ Same(d, x) /\ (Filmed(x) <=> Filmed(d))
      BY <1>2, <2>2, DescribeMakes
  <2> HIDE DEF d
  <2>4. Sound(t) /\ Same(t, d) /\ (Filmed(d) => Filmed(t))
      BY <2>2, <2>3, TransportMakes
  <2> HIDE DEF t
  <2>5. t \in Calls /\ VideoNew(t) /\ Told(t)
      BY <2>4 DEF Sound
  <2>6. Sound(y) /\ y.state = "active" /\ y.stream = t.stream /\ Like(y, t)
      BY <2>2, <2>5, StateSet
  <2> HIDE DEF y
  <2>7. Fresh(y)
      BY <2>6 DEF Fresh
  <2>8. Acts("a", y, x, "accept", Nothing)
    <3>1. Starts(y, x, "accept", Nothing)
        BY <1>1, <2>3, <2>4, <2>6 DEF Starts, Same, Like
    <3> QED  BY <3>1, Zenon DEF Acts
  <2>9. Shown(x) => Shown(y)
    <3>1. Filmed(t) <=> Filmed(y)
        BY <2>6, Zenon DEF Filmed
    <3> QED  BY <1>1, <2>3, <2>4, <3>1 DEF Shown
  <2> QED  BY <1>1, <2>1, <2>6, <2>7, <2>8, <2>9, TakerDoes
<1>4. CASE ~fits.answer
  <2>1. HangUpWith("a", x, Taken("a", "accept"))
      BY <1>1, <1>4 DEF GetAccept, Taken
  <2> QED  BY <1>1, <1>2, <2>1, HangUpDoes
<1> QED  BY <1>3, <1>4

LEMMA EndMakes ==
    ASSUME NEW c \in Calls, VideoNew(c), Told(c)
    PROVE  /\ Sound(Terminated(c)) /\ Fresh(Terminated(c)) /\ Terminated(c).state = "finished"
           /\ Terminated(c).hangups = c.hangups /\ Terminated(c).timers = c.timers
           /\ Filmed(c) => Filmed(Terminated(c))
<1>1. Sound(Terminated(c)) /\ Terminated(c).state = "finished" /\ Like(Terminated(c), c)
    BY TerminatedMakes
<1>2. Filmed(c) => Filmed(Terminated(c))
  <2>1. Terminated(c).stream["video"].there = c.stream["video"].there
      BY <1>1 DEF Like, Media
  <2> QED  BY <2>1, Zenon DEF Filmed
<1> QED  BY <1>1, <1>2 DEF Fresh, Like

\* Some of the counts of a call change.
LEMMA CountsMade ==
    ASSUME NEW x \in Calls, VideoNew(x), Told(x), NEW c \in Calls,
           c.state = x.state, c.stream = x.stream, c.mode = x.mode, c.sendVideo = x.sendVideo
    PROVE  VideoNew(c) /\ Told(c) /\ (Filmed(x) <=> Filmed(c))
<1>1. \A m : Mode(c, m) = Mode(x, m)
    BY Zenon DEF Mode
<1>2. VideoNew(c) /\ (Filmed(x) <=> Filmed(c))
    BY Zenon DEF VideoNew, Filmed
<1> QED  BY <1>1, <1>2 DEF Told

LEMMA GetTerminateInv ==
    ASSUME CallInv, Typed', NEW e \in Ends, GetTerminate(e)
    PROVE  CallInv'
<1> DEFINE x == call[e]
           y == Terminated(x)
<1>1. /\ Gets(e, "terminate") /\ "terminate" # Nothing /\ online' = online
      /\ x.state \notin {"none", "deleted"}
      /\ call' = [call EXCEPT ![e] = y] /\ under' = Sent(e, "ack", Rest(e))
    BY DEF GetTerminate, Unchanged, Nothing, Exists, Become
<1>2. x \in Calls /\ VideoNew(x) /\ Told(x)
    BY KnownOf
<1>3. /\ Sound(y) /\ Fresh(y) /\ y.state = "finished" /\ y.hangups = x.hangups /\ y.timers = x.timers
      /\ Filmed(x) => Filmed(y)
    BY <1>2, EndMakes
<1> HIDE DEF y
<1>4. Acts(e, y, x, "terminate", "ack")
  <2>1. EndsOn(y, x, "terminate", "ack")
      BY <1>1, <1>3 DEF EndsOn
  <2> QED  BY <2>1, Zenon DEF Acts
<1>5. (Shown(x) => Shown(y)) /\ "ack" \in Kinds
    BY <1>1, <1>3 DEF Shown, Kinds
<1> QED  BY <1>1, <1>3, <1>4, <1>5, AnswerDoes

LEMMA GetAckInv ==
    ASSUME CallInv, Typed', NEW e \in Ends, GetAck(e)
    PROVE  CallInv'
<1> DEFINE x == call[e]
<1>1. /\ Gets(e, "ack") /\ "ack" # Nothing /\ online' = online
      /\ x.state \notin {"none", "deleted"} /\ under' = Rest(e)
    BY DEF GetAck, Unchanged, Nothing, Exists
<1>2. x \in Calls /\ VideoNew(x) /\ Told(x) /\ call \in [Ends -> Calls]
    BY KnownOf
<1>3. CASE x.hangups > 0
  <2> DEFINE c == [x EXCEPT !.hangups = @ - 1]
             y == Terminated(c)
  <2>1. call' = [call EXCEPT ![e] = y]
      BY <1>3 DEF GetAck, Become
  <2>2. x.hangups \in Nat /\ x.hangups > 0
      BY <1>2, <1>3 DEF Calls
  <2>3. x.hangups - 1 \in Nat
      BY ONLY <2>2
  <2>4. /\ c \in Calls /\ c.state = x.state /\ c.stream = x.stream /\ c.mode = x.mode
        /\ c.sendVideo = x.sendVideo /\ c.hangups = x.hangups - 1 /\ c.timers = x.timers
      BY <1>2, <2>3 DEF Calls
  <2> HIDE DEF c
  <2>5. VideoNew(c) /\ Told(c) /\ (Filmed(x) <=> Filmed(c))
      BY <1>2, <2>4, CountsMade
  <2>6. /\ Sound(y) /\ Fresh(y) /\ y.state = "finished" /\ y.hangups = c.hangups /\ y.timers = c.timers
        /\ Filmed(c) => Filmed(y)
      BY <2>4, <2>5, EndMakes
  <2> HIDE DEF y
  <2>7. Acts(e, y, x, "ack", Nothing)
    <3>1. Answered(y, x, "ack", Nothing)
        BY <1>1, <1>3, <2>4, <2>6 DEF Answered
    <3> QED  BY <3>1, Zenon DEF Acts
  <2>8. Shown(x) => Shown(y)
      BY <1>1, <2>5, <2>6 DEF Shown
  <2> QED  BY <1>1, <2>1, <2>6, <2>7, <2>8, TakerDoes
<1>4. CASE ~(x.hangups > 0)
  <2>1. call' = call /\ x.hangups = 0
      BY <1>2, <1>4 DEF GetAck, Become, Calls
  <2>2. Acts(e, x, x, "ack", Nothing)
    <3>1. Misses(x, x, "ack", Nothing)
        BY <1>1, <2>1 DEF Misses, Same
    <3> QED  BY <3>1, Zenon DEF Acts
  <2> QED  BY <1>1, <2>1, <2>2, SameTaken
<1> QED  BY <1>3, <1>4

\* An offer of video is taken: the stream is made, described and starts to check.
LEMMA OfferMade ==
    ASSUME NEW c, Sound(c), ~Filmed(c)
    PROVE  LET y == [Transport(Describe(c, "video"), "video") EXCEPT !.stream["video"].there = TRUE]
           IN  Sound(y) /\ Same(y, c) /\ Filmed(y)
<1> DEFINE d == Describe(c, "video")
           old == d.stream["video"]
           s == [old EXCEPT !.ice = "checking", !.there = TRUE]
           y == [Transport(d, "video") EXCEPT !.stream["video"].there = TRUE]
<1>1. Sound(d) /\ Same(d, c) /\ (Filmed(c) <=> Filmed(d)) /\ "video" \in Media
    BY DescribeMakes DEF Media
<1> HIDE DEF d
<1>2. d \in Calls /\ Told(d) /\ VideoNew(d) /\ old \in Streams
    BY <1>1 DEF Sound, Calls
<1>3. old.ice = "new"
    BY <1>1, <1>2, Zenon DEF VideoNew, Filmed
<1>4. s \in Streams /\ s.ice = "checking" /\ s.there = TRUE
    BY <1>2 DEF Streams, Phases
<1>5. y = [d EXCEPT !.stream["video"] = s]
    BY <1>1, <1>2, <1>3 DEF Transport, Calls, Streams
<1> HIDE DEF s, y
<1>6. /\ y \in Calls /\ Same(y, d) /\ y.mode = d.mode /\ y.sendVideo = d.sendVideo
      /\ y.stream["video"] = s /\ \A n \in Media : n # "video" => y.stream[n] = d.stream[n]
    BY <1>1, <1>2, <1>4, <1>5, StreamSet
<1>7. Mode(d, "video") = {} /\ Mode(y, "video") = {}
    BY <1>3, <1>4, <1>6, ModeClosed
<1>8. Told(y)
    BY <1>1, <1>2, <1>6, <1>7, ToldStill DEF Same
<1>9. y.stream["video"].there = TRUE
    BY <1>4, <1>6
<1>10. Filmed(y) /\ VideoNew(y)
    BY <1>9, Zenon DEF Filmed, VideoNew
<1>11. Same(y, c)
    BY <1>1, <1>6 DEF Same
<1> QED  BY <1>6, <1>8, <1>10, <1>11 DEF Sound, y, d

LEMMA GetContentAddInv ==
    ASSUME CallInv, Typed', NEW e \in Ends, GetContentAdd(e)
    PROVE  CallInv'
<1> DEFINE x == call[e]
<1>1. /\ Gets(e, "content-add") /\ "content-add" # Nothing /\ online' = online
      /\ x.state \notin {"none", "deleted"}
    BY DEF GetContentAdd, Nothing, Exists
<1>2. Sound(x) /\ Fresh(x) /\ Same(x, x) /\ call = [call EXCEPT ![e] = x]
    BY KnownOf DEF Same
<1>3. /\ "content-add" \in Idle /\ "content-reject" \in Idle /\ "content-accept" \in Idle /\ Nothing \in Idle
      /\ "content-reject" \in Kinds /\ "content-accept" \in Kinds
    BY DEF Idle, Kinds
<1>4. CASE x.stream["video"].there
  <2>1. call' = call /\ under' = Rest(e)
      BY <1>4 DEF GetContentAdd
  <2>2. Acts(e, x, x, "content-add", Nothing)
      BY <1>1, <1>2, <1>3, SameIsQuiet
  <2> QED  BY <1>1, <2>1, <2>2, SameTaken
<1>5. CASE ~x.stream["video"].there /\ ~fits.video
  <2>1. call' = [call EXCEPT ![e] = x] /\ under' = Sent(e, "content-reject", Rest(e))
      BY <1>2, <1>5 DEF GetContentAdd
  <2>2. Acts(e, x, x, "content-add", "content-reject")
      BY <1>1, <1>2, <1>3, SameIsQuiet
  <2> QED  BY <1>1, <1>2, <1>3, <2>1, <2>2, AnswerDoes
<1>6. CASE ~x.stream["video"].there /\ fits.video
  <2> DEFINE y == [Transport(Describe(x, "video"), "video") EXCEPT !.stream["video"].there = TRUE]
  <2>1. call' = [call EXCEPT ![e] = y] /\ under' = Sent(e, "content-accept", Rest(e))
      BY <1>6 DEF GetContentAdd, Become, Describe
  <2>2. ~Filmed(x)
      BY <1>6, Zenon DEF Filmed
  <2>3. Sound(y) /\ Same(y, x) /\ Filmed(y)
      BY <1>2, <2>2, OfferMade
  <2> HIDE DEF y
  <2>4. Fresh(y) /\ Shown(y)
      BY <1>1, <2>3 DEF Fresh, Shown, Same
  <2>5. Acts(e, y, x, "content-add", "content-accept")
      BY <1>1, <1>3, <2>3, SameIsQuiet
  <2> QED  BY <1>1, <1>3, <2>1, <2>3, <2>4, <2>5, AnswerDoes
<1> QED  BY <1>4, <1>5, <1>6

\* An acceptance of video comes only to an end that has offered it, and has the stream.
LEMMA GetContentAcceptInv ==
    ASSUME CallInv, Typed', NEW e \in Ends, GetContentAccept(e)
    PROVE  CallInv'
<1> DEFINE x == call[e]
           d == Describe(x, "video")
           y == Transport(d, "video")
<1>1. /\ Gets(e, "content-accept") /\ "content-accept" # Nothing /\ online' = online
      /\ x.state \notin {"none", "deleted"}
      /\ call' = [call EXCEPT ![e] = y] /\ under' = Rest(e)
    BY DEF GetContentAccept, Unchanged, Nothing, Exists, Become
<1>2. Sound(x) /\ Same(x, x) /\ under[e] \in Seq(Kinds)
    BY KnownOf DEF Same, CallInv, Whole
<1>3. Filmed(x)
  <2>1. under[e] # <<>> /\ Head(under[e]) = "content-accept"
      BY <1>1 DEF Gets
  <2>2. Eaten(Tail(under[e]), under[e], "content-accept")
      BY <1>2, <2>1, TailIsEaten
  <2>3. "content-accept" \in Held(under[e])
      BY <2>2 DEF Eaten
  <2>4. Shown(x)
      BY <2>3 DEF CallInv, Added
  <2> QED  BY <1>1, <2>4 DEF Shown
<1>4. Sound(d) /\ Same(d, x) /\ (Filmed(x) <=> Filmed(d)) /\ "video" \in Media
    BY <1>2, DescribeMakes DEF Media
<1> HIDE DEF d
<1>5. Sound(y) /\ Same(y, d)
    BY <1>3, <1>4, TransportMakes
<1>6. Filmed(y)
    BY <1>3, <1>4, TransportMakes
<1> HIDE DEF y
<1>7. Same(y, x) /\ Fresh(y) /\ Shown(y)
    BY <1>1, <1>4, <1>5, <1>6 DEF Same, Fresh, Shown
<1>8. Acts(e, y, x, "content-accept", Nothing)
    BY <1>1, <1>7, SameIsQuiet DEF Idle
<1> QED  BY <1>1, <1>5, <1>7, <1>8, TakerDoes

LEMMA GetTransportInfoInv ==
    ASSUME CallInv, Typed', NEW e \in Ends, GetTransportInfo(e)
    PROVE  CallInv'
<1> DEFINE x == call[e]
<1>1. PICK m \in Media :
        /\ Gets(e, IF m = "audio" THEN "info audio" ELSE "info video")
        /\ Become(e, IF x.stream[m].there THEN Transport(x, m) ELSE x)
    BY DEF GetTransportInfo
<1> DEFINE k == IF m = "audio" THEN "info audio" ELSE "info video"
           y == IF x.stream[m].there THEN Transport(x, m) ELSE x
<1>2. /\ Gets(e, k) /\ k # Nothing /\ k \in Idle /\ Nothing \in Idle /\ online' = online
      /\ x.state \notin {"none", "deleted"}
      /\ call' = [call EXCEPT ![e] = y] /\ under' = Rest(e)
    BY <1>1 DEF GetTransportInfo, Unchanged, Nothing, Exists, Become, Idle
<1> HIDE DEF k
<1>3. Sound(x) /\ Same(x, x)
    BY KnownOf DEF Same
<1>4. Sound(y) /\ Same(y, x) /\ (Filmed(x) => Filmed(y))
  <2>1. CASE x.stream[m].there
    <3>1. m = "video" => Filmed(x)
        BY <2>1, Zenon DEF Filmed
    <3>2. y = Transport(x, m)
        BY <2>1
    <3> QED  BY <1>3, <3>1, <3>2, TransportMakes
  <2>2. CASE ~x.stream[m].there
      BY <1>3, <2>2
  <2> QED  BY <2>1, <2>2
<1> HIDE DEF y
<1>5. Fresh(y) /\ (Shown(x) => Shown(y))
    BY <1>2, <1>4 DEF Same, Fresh, Shown
<1>6. Acts(e, y, x, k, Nothing)
    BY <1>2, <1>4, SameIsQuiet
<1> QED  BY <1>2, <1>4, <1>5, <1>6, TakerDoes

LEMMA GetUnavailableInv ==
    ASSUME CallInv, Typed', NEW e \in Ends, GetUnavailable(e)
    PROVE  CallInv'
<1>1. call[e] \in Calls /\ VideoNew(call[e]) /\ Told(call[e])
    BY KnownOf
<1>2. /\ Exists(e) /\ online' = online /\ Gets(e, "unavailable")
      /\ HangUpWith(e, call[e], Taken(e, "unavailable"))
    BY DEF GetUnavailable, Taken, Unchanged, Nothing
<1>3. Same(call[e], call[e])
    BY DEF Same
<1> QED  BY <1>1, <1>2, <1>3, HangUpDoes

-----------------------------------------------------------------------------
(* Timers, the connections, and the session with the server.                                     *)

LEMMA TimerFiresInv ==
    ASSUME CallInv, Typed', NEW e \in Ends, TimerFires(e)
    PROVE  CallInv'
<1> DEFINE x == call[e]
           c == [x EXCEPT !.timers = @ - 1]
           y == Terminated(c)
<1>1. /\ UNCHANGED <<under, online>> /\ x.state \notin {"none", "deleted"} /\ x.timers > 0
      /\ call' = [call EXCEPT ![e] = y]
    BY DEF TimerFires, Unchanged, Exists, Become
<1>2. x \in Calls /\ VideoNew(x) /\ Told(x)
    BY KnownOf
<1>3. x.timers \in Nat /\ x.timers > 0
    BY <1>1, <1>2 DEF Calls
<1>4. x.timers - 1 \in Nat
    BY ONLY <1>3
<1>5. /\ c \in Calls /\ c.state = x.state /\ c.stream = x.stream /\ c.mode = x.mode
      /\ c.sendVideo = x.sendVideo /\ c.hangups = x.hangups /\ c.timers = x.timers - 1
    BY <1>2, <1>4 DEF Calls
<1> HIDE DEF c
<1>6. VideoNew(c) /\ Told(c) /\ (Filmed(x) <=> Filmed(c))
    BY <1>2, <1>5, CountsMade
<1>7. /\ Sound(y) /\ Fresh(y) /\ y.state = "finished" /\ y.hangups = c.hangups /\ y.timers = c.timers
      /\ Filmed(c) => Filmed(y)
    BY <1>5, <1>6, EndMakes
<1> HIDE DEF y
<1>8. Acts(e, y, x, Nothing, Nothing)
  <2>1. Expires(y, x, Nothing, Nothing)
      BY <1>1, <1>5, <1>7 DEF Expires
  <2> QED  BY <2>1, Zenon DEF Acts
<1>9. Shown(x) => Shown(y)
    BY <1>1, <1>6, <1>7 DEF Shown
<1> QED  BY <1>1, <1>7, <1>8, <1>9, AloneDoes

\* The connection of a stream that is there is in another phase.
LEMMA IceSet ==
    ASSUME NEW c, Sound(c), NEW m \in Media, NEW ice \in Phases, c.stream[m].ice # "new"
    PROVE  LET d == [c EXCEPT !.stream[m].ice = ice]
           IN  /\ d \in Calls /\ VideoNew(d) /\ Same(d, c) /\ (Filmed(d) <=> Filmed(c))
               /\ c.stream[m].ice # "connected" /\ ice # "connected" => Told(d)
<1> DEFINE d == [c EXCEPT !.stream[m].ice = ice]
           old == c.stream[m]
           s == [old EXCEPT !.ice = ice]
<1>1. c \in Calls /\ Told(c) /\ VideoNew(c) /\ old \in Streams
    BY DEF Sound, Calls
<1>2. d = [c EXCEPT !.stream[m] = s]
    OBVIOUS
<1>3. s \in Streams /\ s.ice = ice /\ s.there = old.there
    BY <1>1 DEF Streams
<1> HIDE DEF s, d
<1>4. /\ d \in Calls /\ Same(d, c) /\ d.mode = c.mode /\ d.sendVideo = c.sendVideo
      /\ d.stream[m] = s /\ \A n \in Media : n # m => d.stream[n] = c.stream[n]
    BY <1>1, <1>2, <1>3, StreamSet
<1>5. d.stream["video"].there = c.stream["video"].there
    BY <1>3, <1>4 DEF Media
<1>6. Filmed(d) <=> Filmed(c)
    BY <1>5, Zenon DEF Filmed
<1>7. VideoNew(d)
  <2>1. CASE m = "video"
    <3>1. Filmed(c)
        BY <1>1, <2>1, Zenon DEF VideoNew, Filmed
    <3> QED  BY <1>6, <3>1, Zenon DEF VideoNew, Filmed
  <2>2. CASE m # "video"
    <3>1. d.stream["video"] = c.stream["video"]
        BY <1>4, <2>2 DEF Media
    <3> QED  BY <1>1, <3>1, Zenon DEF VideoNew
  <2> QED  BY <2>1, <2>2
<1>8. ASSUME c.stream[m].ice # "connected", ice # "connected"  PROVE Told(d)
  <2>1. Mode(c, m) = {} /\ Mode(d, m) = {}
      BY <1>3, <1>4, <1>8, ModeClosed
  <2> QED  BY <1>1, <1>4, <2>1, ToldStill DEF Same
<1> QED  BY <1>4, <1>6, <1>7, <1>8 DEF d

LEMMA IceConnectsInv ==
    ASSUME CallInv, Typed', NEW e \in Ends, NEW m \in Media, IceConnects(e, m)
    PROVE  CallInv'
<1> DEFINE x == call[e]
           c == [x EXCEPT !.stream[m].ice = "connected"]
           y == UpdateOpenMode(c)
<1>1. /\ UNCHANGED <<under, online>> /\ x.state \notin {"none", "deleted"}
      /\ x.stream[m].ice # "new" /\ call' = [call EXCEPT ![e] = y]
    BY DEF IceConnects, Unchanged, Exists, Become
<1>2. Sound(x) /\ "connected" \in Phases
    BY KnownOf DEF Phases
<1>3. c \in Calls /\ VideoNew(c) /\ Same(c, x) /\ (Filmed(c) <=> Filmed(x))
    BY <1>1, <1>2, IceSet
<1> HIDE DEF c
<1>4. Sound(y) /\ Same(y, c) /\ (Filmed(y) <=> Filmed(c))
    BY <1>3, UpdateIsSame
<1> HIDE DEF y
<1>5. Same(y, x) /\ Fresh(y) /\ (Shown(x) => Shown(y))
    BY <1>1, <1>3, <1>4 DEF Same, Fresh, Shown
<1>6. Acts(e, y, x, Nothing, Nothing)
    BY <1>1, <1>5, SameIsQuiet DEF Idle
<1> QED  BY <1>1, <1>4, <1>5, <1>6, AloneDoes

LEMMA IceTimesOutInv ==
    ASSUME CallInv, Typed', NEW e \in Ends, NEW m \in Media, IceTimesOut(e, m)
    PROVE  CallInv'
<1> DEFINE x == call[e]
           c == [x EXCEPT !.stream[m].ice = "closed"]
<1>1. /\ Exists(e) /\ online' = online /\ HangUpWith(e, c, Taken(e, Nothing))
      /\ x.stream[m].ice # "new" /\ x.stream[m].ice # "connected" /\ x.state # "deleted"
    BY DEF IceTimesOut, Unchanged, Taken, Exists
<1>2. Sound(x) /\ "closed" \in Phases /\ "closed" # "connected"
    BY KnownOf DEF Phases
<1>3. c \in Calls /\ VideoNew(c) /\ Same(c, x) /\ (Filmed(c) <=> Filmed(x)) /\ Told(c)
    BY <1>1, <1>2, IceSet
<1> HIDE DEF c
<1>4. Shown(x) => Shown(c)
    BY <1>1, <1>3 DEF Shown
<1> QED  BY <1>1, <1>3, <1>4, HangUpDoes

LEMMA LocalCandidatesChangedInv ==
    ASSUME CallInv, Typed', NEW e \in Ends, NEW m \in Media, LocalCandidatesChanged(e, m)
    PROVE  CallInv'
<1> DEFINE x == call[e]
           k == IF m = "audio" THEN "info audio" ELSE "info video"
<1>1. /\ x.state # "none" /\ online' = online /\ under' = Sent(e, k, under) /\ call' = call
      /\ k \in Kinds /\ k \in Idle /\ Nothing \in Idle /\ k # "content-accept" /\ k # "content-add"
    BY DEF LocalCandidatesChanged, Exists, Idle, Kinds
<1> HIDE DEF k
<1>2. Sound(x) /\ Fresh(x) /\ Same(x, x) /\ call' = [call EXCEPT ![e] = x]
    BY <1>1, KnownOf DEF Same
<1>3. Acts(e, x, x, Nothing, k)
    BY <1>1, <1>2, SameIsQuiet
<1> QED  BY <1>1, <1>2, <1>3, SenderDoes

\* A lost session: the queue of the end is dropped, and its call is hung up.
Drops(c, q, d, r, e) ==
  /\ Known(c) /\ Known(d) /\ d[Other(e)] = c[Other(e)]
  /\ Held(r[e]) = {} /\ Doubled(r[e]) = {}
  /\ r[Other(e)] = q[Other(e)] \/ Longer(r[Other(e)], q[Other(e)], "unavailable")
  /\ \/ Same(d[e], c[e])
     \/ /\ c[e].state \in {"connecting", "active"} /\ d[e].state = "disconnecting"
        /\ d[e].hangups = c[e].hangups + 1 /\ d[e].timers = c[e].timers + 1

LEMMA DropsKeep ==
    ASSUME NEW c, NEW q, NEW d, NEW r, NEW e \in Ends, Drops(c, q, d, r, e), Always(c, q)
    PROVE  Always(d, r)
<1> DEFINE more == /\ d[e].hangups = c[e].hangups + 1 /\ d[e].timers = c[e].timers + 1
<1> HIDE DEF more
<1>1. \/ Same(d[e], c[e])
      \/ c[e].state \in {"connecting", "active"} /\ d[e].state = "disconnecting" /\ more
    BY DEF Drops, more
<1>2. /\ "accept" \in Held(r["a"]) => "accept" \in Held(q["a"])
      /\ "accept" \in Doubled(r["a"]) => "accept" \in Doubled(q["a"])
      /\ "initiate" \in Held(r["b"]) => "initiate" \in Held(q["b"])
      /\ "initiate" \in Doubled(r["b"]) => "initiate" \in Doubled(q["b"])
      /\ e = "a" => "accept" \notin Held(r["a"])
      /\ e = "b" => "initiate" \notin Held(r["b"])
    BY DEF Drops, Longer
<1>3. CASE e = "a"
  <2>1. d["b"] = c["b"] /\ Known(c) /\ Known(d)
      BY <1>3 DEF Drops
  <2>2. Asked(d, r)
      BY <1>1, <1>2, <1>3, <2>1 DEF Always, Asked, Same
  <2>3. Counted(d, r)
    <3>1. Ahead(d, r) => Ahead(c, q)
        BY <1>2, <2>1 DEF Ahead
    <3>2. CASE Same(d["a"], c["a"])
        BY <3>1, <3>2, <2>1 DEF Always, Counted, Same, Ended
    <3>3. CASE c["a"].state \in {"connecting", "active"} /\ d["a"].state = "disconnecting" /\ more
      <4>1. /\ c["a"].hangups \in Nat /\ c["a"].timers \in Nat
            /\ d["a"].hangups = c["a"].hangups + 1 /\ d["a"].timers = c["a"].timers + 1
          BY <1>3, <2>1, <3>3 DEF Known, more
      <4>2. ~Ended(c["a"]) /\ Ended(d["a"])
          BY <3>3 DEF Ended
      <4> QED  BY ONLY <2>1, <3>1, <4>1, <4>2, Always(c, q) DEF Always, Counted
    <3> QED  BY <1>1, <1>3, <3>2, <3>3
  <2> QED  BY <2>2, <2>3, Zenon DEF Always
<1>4. CASE e = "b"
  <2>1. d["a"] = c["a"] /\ Known(c) /\ Known(d)
      BY <1>4 DEF Drops
  <2>2. Early(d["b"]) => Early(c["b"])
      BY <1>1, <1>4 DEF Early, Same
  <2>3. Asked(d, r)
      BY <1>1, <1>2, <1>4, <2>1, <2>2 DEF Always, Asked, Same
  <2>4. Counted(d, r)
    <3>1. Ahead(d, r) => Ahead(c, q)
        BY <1>2, <2>2 DEF Ahead
    <3>2. CASE Same(d["b"], c["b"])
        BY <3>1, <3>2, <2>1 DEF Always, Counted, Same, Ended
    <3>3. CASE c["b"].state \in {"connecting", "active"} /\ d["b"].state = "disconnecting" /\ more
      <4>1. /\ c["b"].hangups \in Nat /\ c["b"].timers \in Nat
            /\ d["b"].hangups = c["b"].hangups + 1 /\ d["b"].timers = c["b"].timers + 1
          BY <1>4, <2>1, <3>3 DEF Known, more
      <4>2. ~Ended(c["b"]) /\ Ended(d["b"])
          BY <3>3 DEF Ended
      <4> QED  BY ONLY <2>1, <3>1, <4>1, <4>2, Always(c, q) DEF Always, Counted
    <3> QED  BY <1>1, <1>4, <3>2, <3>3
  <2> QED  BY <2>3, <2>4, Zenon DEF Always
<1> QED  BY <1>3, <1>4

LEMMA DisconnectedInv ==
    ASSUME CallInv, Typed', NEW e \in Ends, Disconnected(e)
    PROVE  CallInv'
<1> DEFINE o == Other(e)
           x == call[e]
           y == IF Exists(e) THEN Terminate(x) ELSE x
<1>1. x \in Calls /\ VideoNew(x) /\ Told(x) /\ Sound(x) /\ Fresh(x) /\ call \in [Ends -> Calls]
    BY KnownOf
<1>2. /\ Sound(y) /\ Fresh(y) /\ (Shown(x) => Shown(y))
      /\ \/ Same(y, x)
         \/ /\ x.state \in {"connecting", "active"} /\ y.state = "disconnecting"
            /\ y.hangups = x.hangups + 1 /\ y.timers = x.timers + 1
  <2>1. CASE Exists(e)
    <3>1. x.state \notin {"none", "deleted"} /\ Same(x, x) /\ y = Terminate(x)
        BY <2>1 DEF Exists, Same
    <3>2. /\ Sound(Terminate(x)) /\ Fresh(Terminate(x)) /\ (Shown(x) => Shown(Terminate(x)))
          /\ Ended(x) => Same(Terminate(x), x) /\ Ended(x)
          /\ ~Ended(x) => /\ x.state \in {"connecting", "active"} /\ Terminate(x).state = "disconnecting"
                          /\ Terminate(x).hangups = x.hangups + 1 /\ Terminate(x).timers = x.timers + 1
        BY <1>1, <3>1, HangUpMakes
    <3> QED  BY <3>1, <3>2
  <2>2. CASE ~Exists(e)
      BY <1>1, <2>2 DEF Same
  <2> QED  BY <2>1, <2>2
<1>3. call' = [call EXCEPT ![e] = y]
  <2>1. CASE Exists(e)
      BY <2>1 DEF Disconnected
  <2>2. CASE ~Exists(e)
      BY <1>1, <2>2 DEF Disconnected
  <2> QED  BY <2>1, <2>2
<1> HIDE DEF y
<1>4. call' \in [Ends -> Calls] /\ call'[e] = y /\ call'[o] = call[o]
    BY <1>1, <1>2, <1>3 DEF Sound
<1>5. /\ under' \in [Ends -> Seq(Kinds)] /\ under'[e] = <<>>
      /\ under'[o] = under[o] \/ Longer(under'[o], under[o], "unavailable")
  <2>1. under \in [Ends -> Seq(Kinds)] /\ under[o] \in Seq(Kinds) /\ "unavailable" \in Kinds
      BY DEF CallInv, Whole, Kinds
  <2>2. Append(under[o], "unavailable") \in Seq(Kinds) /\ Longer(Append(under[o], "unavailable"), under[o], "unavailable")
      BY <2>1, AppendIsLonger
  <2>3. PICK told \in {TRUE, FALSE} :
           under' = [under EXCEPT ![e] = <<>>, ![o] = IF told THEN Append(@, "unavailable") ELSE @]
      BY DEF Disconnected
  <2>4. e # o /\ <<>> \in Seq(Kinds)
      OBVIOUS
  <2> QED  BY <2>1, <2>2, <2>3, <2>4
<1>6. Held(under'[e]) = {} /\ Doubled(under'[e]) = {}
    BY <1>5 DEF Held, Doubled
<1>7. ~Joined'
  <2>1. online' = [online EXCEPT ![e] = FALSE] /\ online \in [Ends -> BOOLEAN]
      BY DEF Disconnected, CallInv, Typed
  <2>2. online'[e] = FALSE
      BY <2>1
  <2> QED  BY <2>2, Zenon DEF Joined
<1>8. Whole'
  <2>1. \A f \in Ends : Sound(call'[f]) /\ Fresh(call'[f])
      BY <1>2, <1>4 DEF CallInv, Whole
  <2> QED  BY <1>4, <1>5, <2>1 DEF Whole
<1>9. Always(call', under')
  <2>1. Known(call) /\ Known(call')
      BY <1>1, <1>4 DEF Known, Calls
  <2>2. Drops(call, under, call', under', e)
      BY <1>2, <1>4, <1>5, <1>6, <2>1 DEF Drops
  <2> QED  BY <2>2, DropsKeep DEF CallInv
<1>10. Added(call', under')
  <2>1. /\ \A k \in {"content-add", "content-accept"} : k \notin Held(under'[e])
        /\ \A k \in {"content-add", "content-accept"} : k \in Held(under'[o]) => k \in Held(under[o])
      BY <1>5, <1>6 DEF Longer
  <2>2. Shown(call[e]) => Shown(call'[e])
      BY <1>2, <1>4
  <2> QED  BY <1>4, <2>1, <2>2 DEF CallInv, Added
<1> QED  BY <1>7, <1>8, <1>9, <1>10 DEF CallInv

-----------------------------------------------------------------------------
(* The theorem.                                                                                  *)

LEMMA NothingHeld ==
    Held(<<>>) = {} /\ Doubled(<<>>) = {} /\ Late(<<>>) = {}
    BY DEF Held, Doubled, Late

LEMMA InitHasInv ==
    ASSUME Init
    PROVE  CallInv
<1>1. /\ call \in [Ends -> Calls] /\ under \in [Ends -> Seq(Kinds)]
      /\ \A e \in Ends : call[e] = NoCall /\ under[e] = <<>>
    BY NoCallIsSound DEF Init, Sound
<1>2. Typed /\ Joined
  <2>1. turns \in 0 .. MaxTurns
      BY CallAssumption DEF Init
  <2>2. online \in [Ends -> BOOLEAN] /\ online["a"] = TRUE /\ online["b"] = TRUE
      BY DEF Init
  <2>3. blind \in BOOLEAN /\ glare \in BOOLEAN /\ fits \in [offer : BOOLEAN, answer : BOOLEAN, video : BOOLEAN]
      BY Zenon DEF Init
  <2> QED  BY <2>1, <2>2, <2>3, Zenon DEF Typed, Joined
<1>3. Whole
    BY <1>1, NoCallIsSound DEF Whole, Fresh
<1>4. \A e \in Ends : Held(under[e]) = {} /\ Doubled(under[e]) = {} /\ Late(under[e]) = {}
    BY <1>1, NothingHeld
<1>5. \A e \in Ends : call[e].state = "none" /\ call[e].hangups = 0 /\ call[e].timers = 0
    BY <1>1, NoCallIsSound
<1>6. Always(call, under)
    BY <1>4, <1>5 DEF Always, Asked, Counted
<1>7. Together(call, under)
  <2>1. Begins(call, under)
      BY <1>1, <1>5 DEF Begins
  <2>2. Hears(call, under)
      BY <1>4, <1>5 DEF Hears, Past
  <2>3. Awaits(call, under)
      BY <1>4, <1>5 DEF Awaits, Ended
  <2>4. Noted(under)
      BY <1>4 DEF Noted
  <2> QED  BY <2>1, <2>2, <2>3, <2>4, Zenon DEF Together
<1>8. Added(call, under)
    BY <1>4 DEF Added
<1> QED  BY <1>2, <1>3, <1>6, <1>7, <1>8, Zenon DEF CallInv

LEMMA TypedKept ==
    ASSUME Typed, [Next]_vars
    PROVE  Typed'
<1>1. CASE UNCHANGED <<fits, turns, online, blind, glare>>
    BY <1>1 DEF Typed
<1>2. CASE \E e \in Ends : GetContentAdd(e)
    BY <1>2 DEF Typed, GetContentAdd
<1>3. ASSUME turns > 0, turns' = turns - 1  PROVE turns' \in 0 .. MaxTurns
    BY <1>3, CallAssumption DEF Typed
<1>4. CASE \E e \in Ends, m \in Media : LocalCandidatesChanged(e, m)
    BY <1>3, <1>4 DEF Typed, LocalCandidatesChanged
<1>5. CASE \E e \in Ends : Disconnected(e)
    BY <1>3, <1>5 DEF Typed, Disconnected
<1>6. CASE UNCHANGED vars
    BY <1>1, <1>6 DEF vars
<1>7. CASE Next
  <2>1. CASE Invite \/ Accept
      BY <1>1, <2>1 DEF Invite, Accept
  <2>2. ASSUME NEW e \in Ends, Hangup(e) \/ Delete(e) \/ StartVideo(e) \/ StopVideo(e) \/ TimerFires(e)
        PROVE  Typed'
      BY <1>1, <2>2 DEF Hangup, Delete, StartVideo, StopVideo, TimerFires, Unchanged
  <2>3. ASSUME NEW e \in Ends, Receive(e)
        PROVE  Typed'
    <3>1. CASE GetContentAdd(e)
        BY <1>2, <3>1
    <3>2. CASE GetInitiate \/ GetAccept \/ GetUnknown(e) \/ GetNotice(e) \/ GetTerminate(e) \/ GetAck(e)
        BY <1>1, <3>2 DEF GetInitiate, GetAccept, GetUnknown, GetNotice, GetTerminate, GetAck, Unchanged
    <3>3. CASE GetContentAccept(e) \/ GetTransportInfo(e) \/ GetUnavailable(e)
        BY <1>1, <3>3 DEF GetContentAccept, GetTransportInfo, GetUnavailable, Unchanged
    <3> QED  BY <2>3, <3>1, <3>2, <3>3 DEF Receive
  <2>4. ASSUME NEW e \in Ends, NEW m \in Media, IceConnects(e, m) \/ IceTimesOut(e, m)
        PROVE  Typed'
      BY <1>1, <2>4 DEF IceConnects, IceTimesOut, Unchanged
  <2> QED  BY <1>4, <1>5, <1>7, <2>1, <2>2, <2>3, <2>4 DEF Next
<1> QED  BY <1>6, <1>7

LEMMA StepKeepsInv ==
    ASSUME CallInv, [Next]_vars
    PROVE  CallInv'
<1>1. Typed'
    BY TypedKept DEF CallInv
<1>2. CASE UNCHANGED vars
  <2>1. call' = call /\ under' = under /\ online' = online
      BY <1>2 DEF vars
  <2>2. Whole' /\ Added(call', under') /\ Always(call', under')
      BY <2>1 DEF CallInv, Whole
  <2>3. Joined' => Together(call', under')
      BY <2>1 DEF CallInv, Joined
  <2> QED  BY <1>1, <2>2, <2>3, Zenon DEF CallInv
<1>3. CASE Invite
    BY <1>1, <1>3, InviteInv
<1>4. CASE Accept
    BY <1>1, <1>4, AcceptInv
<1>5. ASSUME NEW e \in Ends, Hangup(e) \/ Delete(e) \/ StartVideo(e) \/ StopVideo(e)
      PROVE  CallInv'
    BY <1>1, <1>5, HangupInv, DeleteInv, StartVideoInv, StopVideoInv
<1>6. ASSUME NEW e \in Ends, TimerFires(e) \/ Disconnected(e)
      PROVE  CallInv'
    BY <1>1, <1>6, TimerFiresInv, DisconnectedInv
<1>7. ASSUME NEW e \in Ends, NEW m \in Media,
             IceConnects(e, m) \/ IceTimesOut(e, m) \/ LocalCandidatesChanged(e, m)
      PROVE  CallInv'
    BY <1>1, <1>7, IceConnectsInv, IceTimesOutInv, LocalCandidatesChangedInv
<1>8. ASSUME NEW e \in Ends, Receive(e)
      PROVE  CallInv'
  <2>1. CASE GetInitiate \/ GetAccept \/ GetUnknown(e) \/ GetNotice(e)
      BY <1>1, <2>1, GetInitiateInv, GetAcceptInv, GetUnknownInv, GetNoticeInv
  <2>2. CASE GetTerminate(e) \/ GetAck(e) \/ GetContentAdd(e)
      BY <1>1, <2>2, GetTerminateInv, GetAckInv, GetContentAddInv
  <2>3. CASE GetContentAccept(e) \/ GetTransportInfo(e) \/ GetUnavailable(e)
      BY <1>1, <2>3, GetContentAcceptInv, GetTransportInfoInv, GetUnavailableInv
  <2> QED  BY <1>8, <2>1, <2>2, <2>3 DEF Receive
<1> QED  BY <1>2, <1>3, <1>4, <1>5, <1>6, <1>7, <1>8 DEF Next

LEMMA CallInvCorrect == Spec => []CallInv
<1>1. Init => CallInv
    BY InitHasInv
<1>2. CallInv /\ [Next]_vars => CallInv'
    BY StepKeepsInv
<1> QED  BY <1>1, <1>2, PTL DEF Spec

LEMMA InvIsTyped ==
    ASSUME CallInv
    PROVE  TypeOK
<1>1. \A e \in Ends : call[e] \in Calls /\ call[e].hangups \in Nat /\ call[e].timers \in Nat
    BY KnownOf
<1>2. \A e \in Ends : call[e].hangups <= 2 /\ call[e].timers <= 2
    BY <1>1 DEF CallInv, Always, Counted
<1>3. \A e \in Ends : call[e].hangups \in 0 .. 2 /\ call[e].timers \in 0 .. 2
    BY <1>1, <1>2
<1> DEFINE Small == [state : States, stream : [Media -> Streams], mode : [Media -> Modes],
                     sendVideo : BOOLEAN, hangups : 0 .. 2, timers : 0 .. 2]
<1>4. call \in [Ends -> Small]
  <2>1. ASSUME NEW c \in Calls, c.hangups \in 0 .. 2, c.timers \in 0 .. 2  PROVE c \in Small
      BY <2>1 DEF Calls
  <2>2. call \in [Ends -> Calls]
      BY DEF CallInv, Whole
  <2> QED  BY <1>3, <2>1, <2>2
<1>5. Typed /\ under \in [Ends -> Seq(Kinds)]
    BY DEF CallInv, Whole
<1> QED  BY <1>4, <1>5, Zenon DEF TypeOK, Typed, States, Streams, Modes

LEMMA InvModesAgree ==
    ASSUME CallInv
    PROVE  ModesAgree
<1>1. \A e \in Ends : Told(call[e])
    BY KnownOf
<1> QED  BY <1>1 DEF ModesAgree, Told

LEMMA InvCallAgrees ==
    ASSUME CallInv
    PROVE  CallAgrees
<1> SUFFICES ASSUME under = [e \in Ends |-> <<>>], \A e \in Ends : online[e]
             PROVE  call["a"].state = "active" <=> call["b"].state = "active"
    BY DEF CallAgrees
<1>1. Together(call, under) /\ Always(call, under)
    BY DEF CallInv, Joined
<1>2. Held(under["a"]) = {} /\ Held(under["b"]) = {}
    BY NothingHeld
<1>3. \A e \in Ends : call[e].state \in States
    BY KnownOf
<1>4. ASSUME call["a"].state = "active"  PROVE call["b"].state = "active"
  <2>1. ~Early(call["b"])
      BY <1>1, <1>4 DEF Together, Begins
  <2>2. ~Past(call["b"])
      BY <1>1, <1>2, <1>4 DEF Together, Hears
  <2> QED  BY <1>3, <2>1, <2>2 DEF Early, Past, States
<1>5. ASSUME call["b"].state = "active"  PROVE call["a"].state = "active"
  <2>1. call["a"].state # "none"
      BY <1>1, <1>5 DEF Always, Asked
  <2>2. call["a"].state # "connecting"
      BY <1>1, <1>2, <1>5 DEF Together, Begins
  <2>3. ~Past(call["a"])
      BY <1>1, <1>2, <1>5 DEF Together, Hears, Past
  <2> QED  BY <1>3, <2>1, <2>2, <2>3 DEF Past, States
<1> QED  BY <1>4, <1>5

\* The two ends agree about a call (QXmppCallManager.cpp): an accept that crosses a hang-up makes
\* the caller's call active once more, but the answer to the hang-up, which is under way with the
\* request it answers still in the list, ends it again; so once nothing is under way and no session
\* was lost, the call is active at both ends or at neither.  And whatever the order of the steps,
\* updateOpenMode() has told each program the mode its streams have.
THEOREM CallConsistentCorrect == Spec => []CallConsistent
<1>1. CallInv => CallConsistent
    BY InvIsTyped, InvModesAgree, InvCallAgrees DEF CallConsistent
<1> QED  BY <1>1, CallInvCorrect, PTL
===============================================================================
