# A verification of qt-radio-t-client in TLA+

The program is a desktop companion to a radio show: one window with a chat
room (XMPP), a stream player and a Twitter ticker. It is written with Qt, so
nearly everything runs in one event loop, in slots that are called while a
signal is being emitted; the player, its spectrum display and the lookup of
names also use threads of a pool. The XMPP code (`base/`, `client/`) is a copy
of the QXmpp library, and `qtweetlib/` a copy of a Twitter library, which the
program carries and builds.

The modules of this directory model these parts. Every definition that stands
for code names its lines in `PROJECT.json` (`map`).

## 1. The system and its parts

| part | state it keeps | operations | talks to |
|---|---|---|---|
| stream (`QXmppStream`, `QXmppOutgoingClient`) | socket state, stream version, ids of the pending bind, session and auth requests, SASL client, session flag, keep-alive timers | connect, DNS answer, socket signals, stream header, features, TLS, SASL, bind, session, pings | the socket, the server; emits `connected`, `disconnected`, `error` |
| client (`QXmppClient`) | own presence, conflict flag, reconnection tries and timer | `connectToServer`, `disconnectFromServer`, `setClientPresence`, timer, slots on the stream's signals | the stream (calls and signals), the managers (signals, stanzas in order) |
| room (`QXmppMucRoom`) | nick, participants, allowed actions, subject, permissions | set nick, join, leave, presences, session lost, permission requests | the client, the room's server; emits `joined`, `left`, `kicked`, `participant...` |
| chat window (`ChatWidget`) | which of four frames is shown, user list, logout button | login, join, logout, send, slots on session and room | client and room; re-enters the event loop in the logout handler |
| player (`PlayerWidget`, `CustomStreamWidget`) | playing, device, decoder handle, future of the worker, button, icon, marks | play/stop, click on a stream, network replies, worker `play()`, task `close_ao_device()` | network replies, libmpg123, libao, pool threads, spectrum |
| spectrum (`SpectrumWidget`) | sample buffer, two images, painting flag, future | new data, click, paint, resize, painting thread, destructor | called from pool threads; two mutexes |
| Twitter ticker (`TwitterWidget`) | results, current tweet, next picture, two timers, animation | search, refresh, picture, animation end, mouse enter/leave | two network calls in flight |
| file transfer (`QXmppTransferManager`, `QXmppSocks`) | jobs, offers, block numbers, SOCKS sockets and proxies | offer, accept, abort, blocks, streams, errors | the peer, through the client or directly |
| calls (`QXmppCallManager`, Jingle) | call state, direction, pending requests, streams | offer, ring, accept, hang up, terminate, 5 s timer | the peer, ICE, RTP |
| RTP channels | payload types, jitter buffer, tones, fragments | datagrams, ticks, tones, frames | UDP, codecs |
| ICE, STUN, TURN | candidate pairs, transactions, allocation, channels | datagrams, timers, checks, refreshes | UDP, the relay |
| roster, bookmarks, permissions | copies of what the server stores, requests under way | request, push, set, disconnection | the client |
| SASL, password store | step counter; key and flags | respond; encrypt, decrypt | the stream; the settings |
| stanzas and their managers | little or none | write, recognise, read, answer | everything above |
| DNS lookup | question, thread, posted answer | lookup, abort, answer, end of the program | a thread pool; the stream |
| Twitter library | requests in flight, tokens, user stream and its two timers | send, sign, parse, report; authorize; fetch, reconnect | HTTP |

### What is hard about it

* **Signals are synchronous.** A slot can run in the middle of a state change:
  `stateChanged(ConnectedState)` reaches the client before the stream has been
  reset for the new connection; `disconnected()` reaches the window before the
  room has cleaned up.
* **The handshake is a conversation that restarts.** TLS and SASL start the
  stream again, and an answer is matched by its id alone.
* **Sockets close late**, at once, through a closing state, or only when a
  connection attempt has ended.
* **Timers race events**: keep-alive against a late pong, reconnection against
  a logout, retransmission against a late answer, the retry of the user stream
  against a new start.
* **The room, the roster and the account change by themselves**: kicks,
  pushes, changes by other clients and lost sessions cross the requests of the
  program.
* **Re-entrancy**: the logout handler calls `processEvents()`, the
  authorization calls run event loops of their own.
* **Threads without a protocol**: the player's threads share fields with the
  GUI; the painter and the resolver are waited for by a GUI thread they may
  be waiting for.
* **Two ends, one protocol**: transfers, calls, checks and channels are kept
  consistent at two programs, over stanzas that cross and datagrams that are
  lost, doubled or overtake each other.
* **Numbers that turn**: sequence numbers and stamps of media, block numbers
  of a transfer, channel numbers of a relay.
* **Formats**: some eighty classes that must read what they write, and be
  recognised by one manager only.

### What makes each part correct

* Stream and client: a session that is reported exists on the server, on this
  connection, encrypted if that is required; its timers die with it; listeners
  see `connected` and `disconnected` alternate; attempts end, dead links are
  noticed, lost connections are retried unless the user or a conflict forbids.
* Room and window: once nothing is under way, client and server agree about
  who is in the room and with which power; nothing outlives a session; every
  join is answered; the frame shown is one whose buttons make sense.
* Player and displays: one owner of the device, one painter of the image;
  whoever waits, waits for that owner and gets his turn; button, marks and
  pictures tell the truth.
* Transfers: what is written is a beginning of the file, and success is
  claimed of the whole file only; both ends stop.
* Calls: the two ends agree, and what is over is over at both.
* Media: codecs agree; sound and pictures come whole and in time, and come
  back after a loss.
* Connectivity: a selected pair carries media and was checked both ways; the
  allocation is kept alive, not confused, and released.
* Copies of server data: equal to the original whenever nothing is under way.
* Formats: read back, recognised once, answered once.

## 2. Modules

`A <-- B` means that B extends A; every module on the right end has a `.cfg`.

```
XmppStream <-- XmppClient <-- XmppClient_proofs
                   | implements
                   v
              XmppSession <-- MucRoom <-- ChatWidget --+--> MainWindow
                   ^--------- StanzaWire <-- Roster, Bookmarks, Permissions --+
                              TwitterRequests, Sasl --------------------------+--> Requests <-- Requests_proofs
                          PlayerWidget ----------------+
ChatWidget <-- ChatWidget_proofs        PlayerWidget <-- PlayerWidget_proofs
Delivery <= Transfer, PayloadTypes, AudioChannel, VideoChannel   --> Streams <-- Streams_proofs
Call <-- Call_proofs
IcePhase <= Ice, Turn                                            --> Connections <-- Connections_proofs
Spectrum, Ticker, UserStream, Authorization, Lookup              --> Widgets <-- Widgets_proofs
Stanzas <-- Iqs <-- Services, Jingle <-- Dispatch --+
                                         Datagrams -+--> Formats
```

`A <= B`: B is shown to implement A. The chat side is built on `XmppSession`,
the abstract session, and the client is shown to implement that session (by
TLC and by proof), so what holds of the room or the roster over any session
holds over the real one. `MainWindow`, `Streams`, `Connections`, `Widgets` and
`Requests` put together parts that share nothing: the variable `part` says which of them a
behaviour follows, and the others stay in their initial state. So one run
checks all of them without multiplying their states.

**XmppStream** is one connection. `d` is the private data as a record;
`socket`, `pendingClose`, `starting`, `tls` are Qt's socket; `requests`,
`server`, `link` are the environment: what the server still has to answer, how
far it has let the client come, and whether packets get through. One action per
handler of a stanza, one per socket signal, one per timer. `starting` is the
moment between the two signals a socket emits when it comes up. The signals of
a step are the set `sig`. **XmppClient** adds the client: its slots run inside
the emission, hence `React`, a conjunct of every step that emits. The keep-alive
timers are compared by the two times of the configuration, `KeepAliveInterval` and
`KeepAliveTimeout`: zero switches a timer off, and a ping starts the timeout
again. Calls of the program are `Calls`, possible at any time except inside the two socket signals.
**XmppSession** is the promise: `Attempt`, `GiveUp`, `Establish`, `Drop`,
`Notify`.

**MucRoom** is one room: the client's view, the wire in both directions, the
server's view. **ChatWidget** is the window: frames as the set `visible`, each
slot a function on it, the logout handler split at `processEvents()`
(`LogoutClicked`, `LogoutLeaves`) with everything else possible in between.

**StanzaWire** is the session as a manager sees it. **Roster**, **Bookmarks**
and **Permissions** are the copies a client keeps, each with the table of the
server, which other clients change too. **TwitterRequests** says what each class
of the Twitter library sends, signs and expects, and is an object of such a
class with several requests in flight. **Sasl** is a conversation between a
client and a server of each mechanism, with the text of DIGEST-MD5.

**PlayerWidget** has the GUI thread, a pool thread per run of `play()` and a
task per `close_ao_device()`. A label click while playing blocks the GUI thread
(`LabelSwitches`, `Switched`): no GUI action is possible while `switchTo` is
set.

**Transfer** has both jobs of a file, the stanzas between them, the SOCKS5
connection, stream hosts and the proxy; **Delivery** is its promise to the
receiver. **PayloadTypes** is the negotiation, **AudioChannel** one direction of
sound with its jitter buffer, **VideoChannel** one direction of pictures with
its fragments. **Call** is a Jingle session at two ends. **Ice** is a connection
at two ends, each possibly behind an address translator; **IcePhase** is what
the call sees of it. **Turn** is an allocation with its transactions and
channels.

**Spectrum** has the painting threads, the pool thread that feeds it and the
GUI thread with its destructor; **Ticker** the searches, pictures, timers and
two animations; **UserStream** the endless reply with its two timers;
**Authorization** calls that wait in event loops of their own, nested;
**Lookup** the question, the thread that answers it, the posted answer, and
the choice of the server.

**Stanzas** to **Jingle** define, for each class X of stanza, the fresh value `X`,
what it writes (`XToXml`), what it reads (`ParseX`) and how it is recognised
(`IsX`). **Dispatch** is the order in which managers are offered a stanza, and
what they answer. **Datagrams** (STUN messages, RTP
packets and G.711 samples) are the formats that are not XML. **Formats** has the
encryption of stored passwords and a set of objects per class, and sends each on
its way: written, perhaps padded by somebody else's
element or damaged, recognised, read, handled, answered.

Definitions whose comment begins with "Mutant" are faulty variants of the
definition after them. No specification uses them; replacing the definition by
its variant must make the named property fail (`mutants` in `PROJECT.json`).

## 3. Runs

A property that names several others is their conjunction; each part is a
definition with its own comment. Each part was shown to fail under a faulty
variant of some definition when it was written; one variant per property is
kept.

| run | property | parts |
|---|---|---|
| XmppClient | `TypeOK`, `SessionBacked`, `NegotiatedMeansEncrypted` | |
| | `SessionOwned` | `KeepAliveOwned`, `ToldMeansSession` |
| | `ImplementsSession` | the client implements `XmppSession` |
| | `AttemptsSettle` | `HandshakeSettles`, `DropIsRetried`, `DeadLinkDetected` |
| MucRoom | `RoomTypeOK`, `NoGhosts` | nothing of the room outlives the session |
| | `RoomAgrees` | `JoinedAgrees`, `RollAgrees`, `ActionsAgree` |
| | `JoinsEnd` | `LeftMeansOut`, `JoinAnswered` |
| MainWindow | `WindowTypeOK` | types of the chat window and of the player |
| | `WindowAgrees` | `FramesMatchRoom`, `WidgetInStep`, `LogoutNotReentered` |
| | `UserServed` | `RemovedIsListed`, `LogoutCompletes`, `JoinSettles` |
| | `DeviceHasOwner` | `DeviceOwned`, `FutureIsOwner` |
| | `OneSource` | |
| | `DisplayAgrees` | `IconAgrees`, `MarksAgree` |
| | `PlayerReturns` | `DeviceReturned`, `ButtonReturns` |
| Requests | `CopiesAgree` | types; roster, presences, bookmarks, permissions equal the server's |
| | `NothingOutlives` | `RosterForgotten`, `BookmarksForgotten` |
| | `AnswersKnown` | `SignedAsSent`, `AnswersReported`, `AuthenticationObeyed` |
| | `LoginsJust` | `RightSucceeds`, `OnlyRightSucceeds`, `ServerProven` |
| Streams | `FileIntact` | `WrittenInOrder`, `SenderKnows`, `AllWasRead`, `InBandSucceeds` |
| | `KeepsPromise` | the transfer implements `Delivery` |
| | `TypesAgree` | types; `CodecsAgree`, `NumbersAgree` |
| | `MediaWhole` | `BufferAligned`, `WholeIsShown`, `AllShown` |
| | `StreamsSettle` | `BothEnd`, `HeardAgain`, `TonesFinish` |
| Call | `CallConsistent` | types; `ModesAgree`, `CallAgrees` |
| | `CallSettles` | `HangupSettles`, `SocketsClosed`, `VideoSettles` |
| Connections | `BeliefsHold` | `ActiveReaches`, `CheckedBothWays`, `Attributed`, `NotStuck`, `KeptAlive` |
| | `AttemptsSucceed` | types; `ChecksSuffice`, `ChannelsServed`, `Released` |
| | `ImplementsPhase` | each end implements `IcePhase` |
| | `Settles` | a relay that answers is reached or given up |
| Widgets | `DisplaysHold` | types of the displays; `OnePainter`, `OffIsBlank`, `DisplayServed`, `PictureMatches`, `MouseHolds`, `RefreshPending` |
| | `NothingStale` | `SomethingToAbort`, `NoPlanWhileOpen`, `AnswerOfLast` |
| | `AnswersRead` | types; `WholeMessages`, `AllHandedOn`, `ServerPreferred` |
| | `NobodyHangs` | `GuiComesBack`, `ChunkDrawn`, `TickerGoesOn`, `StreamComesBack`, `DeadStreamDropped`, `GivesUpUnanswered`, `CallsReturn`, `LookupEnds`, `QuitEnds` |
| Formats | `Conveyed` | `ReadsBack`, `IgnoresForeign`, `HashIgnoresOrder`, `JidComesApart`, `SoundKept`, `DamageRefused` |
| | `UniquelyRecognised` | one manager for each class |
| | `Answered` | `AnsweredOnce`, `AnswersComeBack`, `NoPingPong` |
| XmppClientClear | `RequiredMeansEncrypted` | violated: see the findings |
| XmppClientSession | `ConnectedAfterSession` | violated: see the findings |
| WidgetsGranted | `GrantedMeansAccess` | violated: see the findings |

Where the code does not keep a promise in every case, the property says so and
names the case with a history variable: `rash` (the room was called without
waiting; the user stream started twice), `hasty` and `ended` (the player),
`disturbed` (a user aborted a transfer, a stanza was lost, a proxy failed the
sender), `blind` and `glare` (a call), `early` (the spectrum switched off before its first data),
`slow` (the ticker), `overlapped`, `stage`, `wanted` (bookmarks and
permissions), `torn`, `stopped` (the user stream), `muddled` (two equal tones),
`excused` (a relay). `LetDown` does the same for the handshake, `Stranded` for
the retry after a ping that timed out. The comment at each property says what
happens in the excluded case. What these exclusions come to:

* `AttemptsSettle`: a dead link is noticed only if the ping's timeout is shorter
  than the interval, since each ping starts the timeout again
  (`QXmppOutgoingClient.cpp:634`), and never if it is zero. After a keep-alive error
  one retry is planned, a second later (`QXmppClient.cpp:549`); if the old socket
  is still writing by then, it refuses, and nothing tries again (`Stranded`).
* `StreamsSettle`: if the proxy refuses the sender's connection, the socket emits
  `error()`, to which nobody listens: neither job ends. If it hangs up, or its
  answer comes in two segments (`QXmppSocks.cpp:146`), the sender's job ends, with
  ProtocolError, or with NoError if the size is unknown, and the receiver's job
  does not (`ProxyFails`). What holds all the same is `AllWasRead`. A tone that the
  next equal one overtakes (`muddled`) may never end.
* `LoginsJust`: `ServerProven` is about a client that got the server's proof. The
  stream does not ask whether it did: `<success/>` at any step is believed
  (`QXmppOutgoingClient.cpp:427`), and the other servers modelled say so.
* `NothingStale`: `streamDisconnect()` clears the reply but stops no timer
  (`qtweetuserstream.cpp:107-115`), so that the timer of the silence fires later on
  a null pointer (`:205-210`). `SomethingToAbort` excludes the stopped stream.
* `AnswersRead`: of a connection that was torn in the middle of a message, what
  was left is put before the first message of the next (`torn`).
* `NobodyHangs`: `DeadStreamDropped` begins with the first data, as the timer does;
  `GivesUpUnanswered` says little more than that timer's guard.
* `CopiesAgree`: what a `setPermissions()` does while lists are still awaited is
  modelled, but nothing is claimed of it (`stage`, `wanted`): it compares with a part
  of the table only.
* `BeliefsHold`: `KeptAlive` needs a lifetime of at least a minute, since the refresh
  is planned a minute before the end.

### Bounds

* XmppClient: none on the protocol; a ping every 60 s with a timeout of 20 s, the
  defaults; at most one request is unanswered
  (proved), and ids are represented by the request they belong to. The server
  offers and refuses everything, and the program requires TLS; the proofs cover
  the other configurations.
* MucRoom, MainWindow (chat): `MaxQueue` = 2 and 3 stanzas each way, so that every
  pair of request, refusal, kick and loss can cross; two nicks, which the client
  and others take in turn. `MaxLogoutClicks` = 2, one more than the property allows.
* Requests: two contacts, members, names and sets of bookmarks; `MaxWire` = 2
  stanzas each way; `MaxRequests`, `MaxRounds` and `MaxInFlight` one more than
  what the code tells apart. Names of a login have at most two characters, of
  an alphabet with every character the texts of DIGEST-MD5 escape.
* MainWindow (player): two streams, one behind a playlist, two downloads and two runs
  of `play()` at a time, one closing task. A third download adds nothing to an
  old and a current one; a second run exists only between the closing of the
  device and the end of the first.
* Streams: files of up to 3 blocks, block numbers modulo `SeqModulus` = 2
  (2^16 in the code), so that the number turns within a file; one direct host
  and a proxy. Sound: `Cycle` = 4 chunks for the turn of the stamps, a buffer
  of 2 to 3 chunks, one chunk late and one lost, one key with two tones.
  Pictures: fragments of at most 2, frames of up to 5, two mishaps. A foreign
  offer names at most three types, none twice.
* Call: `MaxTurns` = 1 change of video, by either end.
* Connections: one loss; four rounds of checks (`Enough`) suffice, three do not; two
  peers and channels on the relay, two tries of a request (seven in the code),
  one fault of the server, two datagrams under way.
* Widgets: three painters (one more than `OnePainter` allows twice), two
  tweets, one search and picture under way, two messages on the user stream (a
  stream that was torn once cuts no further message), two nested calls, three
  lookups at two addresses on one thread (five in the code: more threads only
  start later questions sooner). The resolver answers alike to all questions of
  a behaviour, with at most two records.
* Formats: per class the fresh object and all that differ from it in two
  fields, so that every pair of fields meets; one padding or one damaged byte.

### Fairness

Weak fairness for what the operating system and Qt do by themselves: timers
fire, lookups and closing sockets finish, connection attempts end, posted calls
are served, threads run, animations end. For servers: they answer what they
have been asked where a liveness property is about the answer, and not
otherwise (`LetDown`). Strong fairness where a step is switched off again and
again by others: the answers of the room's server, which the bound on the queue
stops now and then; a thread that waits for a mutex (`Stopped`, `Resized`,
`ImagesDeleted`), which Qt hands over sooner or later; and the rest of a
logout handler, which continues when the nested event loop is idle. Nothing is
assumed of the user, and nothing of packets on a dead link.

### Findings

Each violation run checks one sentence of the repository against the code.

* `XmppClientSession`: `connected()` is said to be emitted after the session
  is established (`QXmppClient.h:159`); it is also when the session is refused,
  since the answer is matched by its id and not by its type.
* `XmppClientClear`: `TLSRequired` is said to mean that no connection is
  established without encryption (`QXmppConfiguration.h:58`); a header without a
  version is answered with the old login before the mode is looked at
  (`QXmppOutgoingClient.cpp:276`), and the session is in the clear. What does hold,
  for servers of XMPP 1.0, is `NegotiatedMeansEncrypted`.
* `WidgetsGranted`: `accessTokenGranted()` is said to mean that the services
  can be used (`oauthtwitter.h:51`); it is emitted after an answer with an HTTP
  error too, with no token in it.

### What the models show without a property

The models keep these, since the code has them, and the properties are stated
so that they hold all the same.

* Stanzas: an IBB stanza of type result or error is answered with an error;
  a vCard or item request is not answered, nor a malformed remote call; publish
  types `affiliations`, `default` and `unsubscribe` are not read; a JID without
  user and with an "@" in its resource is taken apart wrongly; a STUN message
  without integrity is accepted even with a key.
* The stream answers one kind of result: the fields of `jabber:iq:auth`, with the
  login itself. That answer is of type set, so that it is answered in turn, once.
* Stored password: the flags are not protected, so that a bit in them turns
  the check off.
* Transfers: an in-band stream that is opened late takes up a job that was
  aborted already.
* Sound: if the stamp turns before the buffer was full for the first time,
  nothing is heard; a telephone event as the only common type opens the channel
  without a codec.
* Login: DIGEST-MD5 fails for a name that ends in a backslash.
* Lookup: `abort()` makes the stream connect to the fallback; disconnecting
  does not abort a lookup.
* Twitter: four requests sign although authentication is disabled; the
  followers without cursor never read their answer; a name is encoded twice.

## 4. Proofs

`XmppClient_proofs` proves for every configuration and every server, from the
assumptions `ConfigAssumption`, `OfferAssumption` and `ReconnectAssumption`
(types of the constants, no more):

* `TypeCorrect`: the type invariant;
* `SessionBackedCorrect`, `TlsCorrect`, `KeepAliveCorrect`, `ToldCorrect`, and
  from the last two `OwnedCorrect`: the safety invariants of the run;
* `Refinement`: the client implements `XmppSession`.

None of the invariants is inductive. The inductive one, `SessionInv`, says which
request can be under way in which stage of a connection. Its heart is
`OneRequest`, at most one request is unanswered, because an answer is matched
by its id alone: with two of them a late answer to the first could be
taken while the second stage has begun. `NotConnected`, `JustConnected`,
`InHandshake` and `Hanging` say that nothing is asked outside an open stream;
`InSession` and `SessionAsked` tie the session flag to what the server has
granted; `Encrypted` is `NegotiatedMeansEncrypted` with what the negotiation has
come to. Each lemma that ends in `Inv` shows one group of steps to preserve
all conjuncts; `HangUpInv`, `SameInv` and `ConnectInv` do the work common to
many of them. For the refinement, `Moves` says where the socket and the session
flag can go in one step, and `RefinedStep` maps each such move to an action of
the session or a stutter.

`PlayerWidget_proofs` proves the invariants of the player for any streams and
any number of downloads, threads and tasks, from `PlayerAssumption` (types of
the constants, and that the mark "no stream" is none of the streams):

* `TypeCorrect`: the type invariant;
* `DeviceCorrect`, `FutureCorrect` and from them `OwnerCorrect`: both follow
  from `OwnerInv`, which names the run that uses the device, `{f}` or none,
  where `DeviceOwned` only counts. The count alone is not inductive: closing
  the device must end the use of the one run there is;
* `IconCorrect`: `IconAgrees` is inductive with the types;
* `MarksCorrect`: `MarksInv` adds what holds while the GUI thread is blocked in
  `close_ao_device()`: the old label is still the marked one, and toggling it
  takes the mark away; `DisplayCorrect` is the two together;
* `SourceCorrect`: `SourceInv` adds that every reply that still lives comes from
  the current stream, and `QueuedInv` that only such a reply has bytes queued.

The first part of `ChatWidget_proofs` is about the room alone (`MucRoom`), for
any nicks, powers and bound on the queues, from `RoomAssumption` (there is a nick, there are finitely many, and
`NoNick` is none of them):

* `RoomTypeCorrect`: the types of the room and of its server. They need
  `NamedRequests`: a request to enter or to be renamed names a nick, without
  which the answer to it would be no presence. `SetToSeqType` is why the nicks
  must be finite: the roll that the server sends is a sequence of them;
* `NoGhostsCorrect`: `NoGhosts`, strengthened with "a session is up only when
  the room was told so" (`GhostInv`);
* `RoomAgreesCorrect`: `JoinedAgrees`, `RollAgrees` and `ActionsAgree` speak of
  the moments when nothing is under way, so that what is under way must be said
  of the others (`View`): the last presence of a nick in the queue is its
  place on the server (`RollTold`), the last one of the client its power
  (`PowerTold`); joins are asked for from outside (`AskedInTurn`), the client's
  own exit is the last thing it hears (`ExitLast`), a refusal is heard alone
  (`ErrorAlone`), and who is in, or has heard of it, gets his own presence
  (`InOrOut`). It holds as long as the room is called in turn (`rash`). Sending
  a roll and answering a rename are the steps that append several presences, for
  which there are the lemmas about `LastWord`;
* `LeftMeansOutCorrect`: the action property, from `ExitLast` and `ErrorAlone`.

The second part is the window over that room. `WidgetInv` says that the
window never calls the room out of turn, so that `View` holds without the
proviso, and what each frame implies: behind the message frame the room is
joined, in the nick frame the client is out and nothing is under way; of a
nested logout handler there is one, its button is off, and the room was not left
before (`leaving`); the list has every participant. `WindowTypeCorrect`,
`WindowAgreesCorrect` and `RemovedIsListedCorrect` follow.

`Connections_proofs` proves `BeliefsHoldCorrect`, `AttemptsSucceedCorrect` and
`PhaseImplemented`, for any losses, peers, channels, lifetimes, faults and
retransmissions:

* checks: `IceInv` says of a selected pair that it was checked both ways
  (`AgentOk`), and of each check what it stands for at the other end: a pair is
  marked as written only if its request was carried and read there (`Sent`,
  `HasRead`), also while the answer travels. Nothing about distance or order is
  needed, so the theorem covers any number of losses;
* the relay: `BoundInv` says that a channel number in a request, on the server
  or in the client's table was given out, once, to the peer it stands for;
  `KeptAlive` and `NotStuck` are inductive with the shape of the records;
* rounds (`ChecksSuffice`): `EndOk` and `ChecksInv` say that an end that was told
  the other's candidates checks or is connected, and that its translator is open;
  `AskedKept`, that without a loss a question stays asked, while it travels, while
  the answer does, and when the pair is marked. `RoundsInv` then counts: after one
  round an end has asked, or the one that is next can; after two, one has asked;
  after three, that was the end whose turn it was and both know each other; after
  four both have asked, and with nothing under way both have read and written.
  Three rounds are too few, which is why `IceAssumption` asks for
  `Enough` >= 4: the component itself goes on for 60;
* what the relay serves (`ChannelsServed`, `Released`): `RelayInv`. `IdsInv` is
  about the fresh identifiers (one exists, by counting those under way: `Fresh`):
  whatever carries the identifier of a transaction is its request or the answer to
  it. `StatesInv` says what can be under way in each state, `Beginning` that before
  the nonce is known nothing but the first request was sent, `AllocatesInv` whose
  the allocation of a connecting client is. `ServesInv` and `ReleasesInv` say what
  an answer under way proves about the server: a granted binding is there, a
  refusal means that the allocation is gone, and, since a repeated request may
  overtake, which requests may still arrive. `TypesInv` gives the types;
* `PhaseImplemented` maps every step of an end to one of `IcePhase`, with the
  phase a function of `AgentInv`.

`Widgets_proofs` proves `DisplaysHoldCorrect`, `NothingStaleCorrect` and
`GivesUpUnansweredCorrect` from `WidgetsInv`, one conjunct per part:

* `SpectrumInv`: the future stands for the only run of the painter
  (`OnlyRun`), as long as the display is not switched off before its first data;
* `TickerInv`: one picture at most is awaited, that of the current tweet, and
  not while another is to be displayed (`OneAtATime`);
* `StreamInv`: a running silence timer without a reply means the stream was
  stopped, which is what `NoPlanWhileOpen` needs to survive the next start;
* `AuthorizationInv`: a call has its answer in time or has run out of it, and
  all calls but the innermost are covered by another;
* `LookupInv`: a posted answer stands for a thread that is blocked at the same
  address with the same question, once each. Since the object stays until its
  answer is taken, its address cannot mean a new question meanwhile, which is
  why comparing addresses is enough in `_q_lookupFinished()`. That no object
  has the null address is an assumption (`LookupAssumption`).

`Streams_proofs` is about a file transfer, for files of any length, any stream
hosts and any modulus of the block numbers, from `TransferAssumption` (types of
the constants). It sums up the steps, each in a lemma that says what the step
needs and what it changes, and proves from these lemmas what holds whatever
happens, `TransferInv`, which consists of:

* `Shape`: the records of the two jobs and what the queues hold;
* `Offered`: the order in which the ends learn of one another. Before the offer
  was accepted there is no device, and no stanza but the offer and its answer;
  `Kind`: stanzas and connections of one method do not occur under the other;
* `InBand`: a block is sent when the one before was counted, so that the block
  that arrives is the next one or an earlier one, and none is ahead of the
  receiver (`BlockTaken`). This is why numbers that wrap around
  (`QXmppTransferManager.cpp:978`) mistake no block for another;
* `OverSocks`: no block is read before the receiving side has reported the
  stream host it reached, and it reports once (`FreshBefore`, `UsedAlone`,
  `Once`);
* `Chained`: what was written, what is in the pipe and what is in the sender's
  buffer are, one after the other, what was read;
* `Written`, `Completed`: what was written is a beginning of the file, and who was
  told "complete" has all of it, and nothing is under way that could reopen the
  job.

`KeepsPromiseCorrect` maps every step to one of `Delivery` or a stutter, and
`WrittenInOrderCorrect` follows. For `FileIntactCorrect`, `FileInv` adds what
holds as long as nobody aborts, loses stanzas, breaks the connection or fails as a
proxy, beside `ReadAll`, which needs none of that: a job ends without error only
after it has read what it announced.

* `Steady`, `Smooth`: in band, the one block under way is the one the sender has
  read last and waits for (`OneBlock`), so that it is accepted while the numbers
  do not wrap around (`BlockAccepted`), and the device stays open until the sender
  has its last answer (`OpenWhile`). The block numbers come in only for
  `InBandSucceeds`: a file longer than the modulus is refused
  (`SeqModulus`, `QXmppTransferManager.cpp:978`), but never damaged;
* `Linked`: over a connection, both ends mean the same host: what is reported is
  the host of the receiver (`ThisHost`), which the sender dials, or whose
  connection its own server took (`ServedIt`); hosts are offered once, and a
  receiver that has given up has no connection (`GivenUp`);
* `Undisturbed`: the receiver has its file open from the first host on
  (`OpenCandidate`) and does not end before the connection was used (`StillOn`), it
  ends by itself only with the whole file (`OnlyWhole`), and a sender that ends
  without error has what is missing in the pipe (`Arrived`). The sender ends so
  in two ways, when its buffer is empty (`AllSent`) or when the other end hangs up
  (`GoneIsWritten`), which it does only when it has everything.

`Streams_proofs` is also about the media, for any buffers, sizes of datagrams
and frames and any number of losses, repetitions and delays, from
`AudioAssumption` and `VideoAssumption` (types of the constants).
`MediaWholeCorrect` rests on `MediaInv`:

* `AudioKnown`: the read head and every chunk of sound are in step with the buffer
  (`BufferAligned`) and keep their types, for which the arithmetic of
  `QXmppRtpChannel.cpp:615` is gone through case by case;
* `VideoShape`: every piece under way is as it was cut from a frame. `PiecesSuffice`
  and `TypesOfPieces` are about the division (`QXmppCodec.cpp:587`): there are as many
  pieces as it takes; one goes whole, of several the first starts and the last
  ends the frame;
* `Collecting`: if what came last is the beginning of a frame, then it is what the
  receiver has put together, whatever was left before: a first piece starts
  afresh. `Showing`: if what came last is a whole frame, it was shown;
* `InOrder`: without mishaps some frames are shown, the next one is put together,
  and what is under way goes on from there, piece after piece, up to the last of
  the last frame (`Place`); when nothing is under way, all are shown (`AllShown`).

`Call_proofs` is about a call, for any number of turns and whoever may send
video (`CallAssumption`: types of the constants). `CallConsistentCorrect` rests
on `CallInv`:

* `Sound`: each program was told the mode its streams have, and a video stream
  that is not there has no connection. With it `Added`: an offer of video, or its
  acceptance, is under way only while the end that offered has the stream, or has
  deleted the call; otherwise a `content-accept` would start a connection of a
  stream that is not there;
* `Asked`, `Counted` (always): a call is offered and accepted once; it is hung up
  once by each end, and once more by the caller for the accept that revives it
  (`QXmppCallManager.cpp:493`), since `handleRequest()` does not ask for the state;
* `Begins`, `Hears`, `Awaits`, `Noted` (while no session was lost): an end whose
  call is over has told the other or was told. The hard case is an accept that
  crosses a hang-up: the callee has hung up or was told before, so that the
  request, or its answer, comes to the caller after the accept (`Hears`), and a
  caller that may become active again has one request under way, whose answer
  finds that request still in the list (`Awaits`). Were the answer not to find it,
  `handleAck()` would ignore it and the caller would stay active alone.

A step is one of fourteen kinds (`Acts`), each defined by what it does to the
state and counts of one end, what it takes and what it sends; one lemma per kind
(`QuietKeeps`, `StartsKeeps`, ...) shows that it keeps the invariant, and one per
handler that the handler is of such a kind.

`Requests_proofs` is about the managers and the objects of the Twitter library, for any finite set of contacts and of
affiliations, any names, members, sets of bookmarks and bounds, of which
`WireAssumption` says that the two stanzas a session begins with have room:

* `ForgottenCorrect`: `NothingOutlives`. `HeldWhileTold` adds to it that a
  session is up only when the managers were told so, and that a part that does
  not move holds nothing;
* `CopiesAgreeCorrect`: the copies agree with the server when nothing is under
  way, so that `RequestsInv` must say what holds while something is:
  * roster: for each contact, the last stanza under way that speaks of it tells
    the truth, or there is none and the client has it (`Agrees`, for the items
    and for the presences). It rests on the order of the stanzas: the roster is
    asked for first and once (`GetFirst`), the result comes before any push, and
    the client has nothing until then (`ItemsOnce`), without which a result,
    which takes nothing out (`QXmppRosterManager.cpp:169`), would leave entries
    behind. The roll of presences needs that the contacts are finite;
  * bookmarks: the contents are asked for and come first (`AskedFirst`), and as
    long as no two calls overlap there is one store or answer under way, the
    pending one (`OnePending`), whose outcome decides what the client will have
    (`BookmarksTold`);
  * permissions: what has come of a round is the room's table but for the
    affiliations still awaited (`Received`), and what is under way of that round
    is true (`ListsTrue`). A change that was sent before the round began is done
    before its first request is read (`ChangeFirst`), and nothing under way is
    of a later round (`NotLater`). `ChangesMake` is the lemma that the
    differences sent make the server's table the one that was set;
  * the object of the Twitter library and the login, of which `CopiesAgree` has
    the types: a login's server is never a step ahead of the client
    (`StepsAgree`), which takes three steps at most;
* `AnswersKnownCorrect`: the action property `AnswersKnown` of the Twitter
  library, for each of its 49 classes and any `MaxGiven` and `MaxInFlight`.
  `ClassesSound` says what the classes have in common: the shape and the content
  that a class reads, the place of the arguments, and that only the three of
  `AlwaysSigned` never ask whether to sign. `SentTrue` is the signature of one
  request. The invariant `TwitterTold` adds to `SignedAsSent` that while a request
  for a page is in flight, `m_usesCursoring` is set (`Cursored`), without which the
  answer to it would be reported as nothing.

Out of the prover's reach, and checked by TLC alone: liveness under fairness
and `ENABLED`, and induction over data, that is what a recursive definition
computes: the formats, digests and sortings, the messages cut out of a buffer
(`WholeMessages`, `AllHandedOn`), the order of the servers (`ServerPreferred`).
`LoginsJust` and `TypesAgree` have no constants, so that there is no larger instance a theorem would speak of: the
names, realms and lists of payload types are those the modules enumerate. A proof
of the first would be an induction over the texts of DIGEST-MD5, one of the second
would need facts about `SelectSeq`, which takes an operator.

## 5. Not modelled

* Libraries the program only calls: libmpg123, libao, Speex, Theora and Vpx,
  the JSON parser (a copy of Qt's), compression and hashes (of which what is
  relied on is modelled).
* Layout and drawing, settings, logging, value classes, the conversion of
  Twitter's answers to objects, the Windows resolver, records of a lookup other
  than SRV.
* In the stream: several stanzas in one read of the socket; an iq nobody asked for
  without an id, which matches the cleared id of bind or session
  (`QXmppOutgoingClient.cpp:471`, `:515`): the servers modelled send none. In the player:
  volume, the failure of `ao_open_live()`, the destructor. In transfers: the
  destruction of jobs, sequential devices, segments that arrive together. In
  `QXmppRemoteMethod`: the event loop in which a remote call waits. In the
  ticker: `twitterwidget.cpp:76`, whose loop variable is not initialised. In ICE: a
  second component of an end. In TURN: an allocation without a valid address in the
  answer (`QXmppStun.cpp:1427-1433`), which ends the attempt.
* The model of the player's threads keeps each thread's own order and lets the
  threads interleave between reads and writes of the shared fields; tearing of
  those fields, and what overlapping calls of libmpg123 do, are left out.

## 6. Plan

1. Several stanzas in one read of the stream; the player's destructor and
   `ao_open_live()`; the destruction of transfer jobs.
2. With a prover that does induction over data, the theorems about the texts of
   DIGEST-MD5 (`LoginsJust`) and about the formats (`Conveyed`).
