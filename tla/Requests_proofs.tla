---------------------------- MODULE Requests_proofs ----------------------------
(***************************************************************************)
(* Theorems about the managers: that no copy outlives its session, and     *)
(* that the copies agree with the server; and about the objects of the     *)
(* Twitter library: what they send and what they report of the answers.    *)
(***************************************************************************)
EXTENDS Requests, FiniteSetTheorems, SequenceTheorems, TLAPS

-----------------------------------------------------------------------------
(* Proof that no copy outlives its session, for any contacts, names,       *)
(* bookmarks and bounds: a manager has a session only when it was told so, *)
(* hence it is emptied after the last stanza of a session and before the   *)
(* first of the next one.  A part that does not move has nothing to empty. *)

Told == phase = "Online" => told

HeldWhileTold ==
    /\ Told
    /\ part # "roster" \/ ~told => entries = NoEntries /\ ~received
    /\ part # "bookmarks" \/ ~told => bookmarks = None /\ ~have

LEMMA RosterKeeps ==
    ASSUME Told, RosterForgotten, RosterNext
    PROVE  Told' /\ RosterForgotten'
<1> USE DEF Told, RosterForgotten
<1>1. CASE Tries /\ UNCHANGED rosterVars
    BY <1>1 DEF Tries, Attempt, GiveUp, rosterVars, rosterView, NoEntries
<1>2. CASE RosterOpens
    BY <1>2 DEF RosterOpens, Opens, Establish
<1>3. CASE RosterCloses
  <2>1. phase' = "Offline"
      BY <1>3 DEF RosterCloses, Closes, Drop, Notify
  <2>2. CASE ~told'
      BY <1>3, <2>1, <2>2 DEF RosterCloses, Disconnected, NoEntries
  <2> QED  BY <2>1, <2>2
<1>4. CASE \/ Calls \/ ContactSends \/ GetSubscribe \/ ServerGives \/ ServerGreets \/ ServerSets
           \/ ServerIgnores \/ ServerSubscribes \/ OtherClientSets \/ ContactComesOrGoes
  <2>1. UNCHANGED <<phase, told, entries, received>>
      BY <1>4 DEF Calls, ContactSends, GetSubscribe, ServerGives, ServerGreets, ServerSets,
         ServerIgnores, ServerSubscribes, OtherClientSets, ContactComesOrGoes, Announce, Answer,
         wireVars, rosterVars, rosterView
  <2> QED  BY <2>1 DEF NoEntries
<1>5. CASE GetPush \/ GetResult \/ GetPresence
    BY <1>5 DEF GetPush, GetResult, GetPresence, Take
<1> QED  BY <1>1, <1>2, <1>3, <1>4, <1>5 DEF RosterNext

LEMMA BookmarksKeep ==
    ASSUME Told, BookmarksForgotten, BookmarksNext
    PROVE  Told' /\ BookmarksForgotten'
<1> USE DEF Told, BookmarksForgotten
<1>1. CASE Tries /\ UNCHANGED bookmarksVars
    BY <1>1 DEF Tries, Attempt, GiveUp, bookmarksVars
<1>2. CASE BookmarksOpens
    BY <1>2 DEF BookmarksOpens, Opens, Establish
<1>3. CASE BookmarksCloses
  <2>1. phase' = "Offline"
      BY <1>3 DEF BookmarksCloses, Closes, Drop, Notify
  <2>2. CASE ~told'
      BY <1>3, <2>1, <2>2 DEF BookmarksCloses, Forget
  <2> QED  BY <2>1, <2>2
<1>4. CASE SetBookmarks \/ ServerShows \/ ServerStores
    BY <1>4 DEF SetBookmarks, ServerShows, ServerStores, Answer, bookmarksVars
<1>5. CASE GetContents \/ GetAnswer
    BY <1>5 DEF GetContents, GetAnswer, Take
<1> QED  BY <1>1, <1>2, <1>3, <1>4, <1>5 DEF BookmarksNext

LEMMA PermissionsKeep ==
    ASSUME Told, PermissionsNext
    PROVE  Told'
<1> USE DEF Told
<1>1. CASE Tries
    BY <1>1 DEF Tries, Attempt, GiveUp
<1>2. CASE PermissionsOpens \/ PermissionsCloses
    BY <1>2 DEF PermissionsOpens, PermissionsCloses, Opens, Establish, Closes, Drop, Notify
<1>3. CASE \/ RequestPermissions \/ SetPermissions
           \/ ServerLists \/ ServerChanges \/ OthersChange \/ GetList
    BY <1>3 DEF RequestPermissions, SetPermissions, ServerLists, ServerChanges, OthersChange,
       GetList, Answer, wireVars
<1> QED  BY <1>1, <1>2, <1>3 DEF PermissionsNext

\* _q_disconnected() of the roster (QXmppRosterManager.cpp:111) and slotDisconnected() of the
\* bookmarks (QXmppBookmarkManager.cpp:203) leave nothing for the next session.
THEOREM ForgottenCorrect == Spec => []NothingOutlives
<1> USE DEF HeldWhileTold, RosterForgotten, BookmarksForgotten, NoEntries
<1>1. Init => HeldWhileTold
    BY DEF Init, WireInit, SessionInit, RosterInit, BookmarksInit, Told
<1>2. HeldWhileTold /\ [Next]_vars => HeldWhileTold'
  <2>1. SUFFICES ASSUME HeldWhileTold, [Next]_vars PROVE HeldWhileTold'
      OBVIOUS
  <2>2. CASE part = "roster" /\ RosterNext /\ UNCHANGED <<part, bookmarksVars>>
    <3>1. Told' /\ RosterForgotten'
        BY <2>1, <2>2, RosterKeeps
    <3> QED  BY <2>1, <2>2, <3>1 DEF bookmarksVars
  <2>3. CASE part = "bookmarks" /\ BookmarksNext /\ UNCHANGED <<part, rosterVars>>
    <3>1. Told' /\ BookmarksForgotten'
        BY <2>1, <2>3, BookmarksKeep
    <3> QED  BY <2>1, <2>3, <3>1 DEF rosterVars, rosterView
  <2>4. CASE part = "permissions" /\ PermissionsNext /\ UNCHANGED <<part, rosterVars, bookmarksVars>>
    <3>1. Told'
        BY <2>1, <2>4, PermissionsKeep
    <3> QED  BY <2>1, <2>4, <3>1 DEF rosterVars, rosterView, bookmarksVars
  <2>5. CASE UNCHANGED <<part, managersVars>>
      BY <2>1, <2>5 DEF Told, managersVars, wireVars, rosterVars, rosterView, bookmarksVars
  <2> QED  BY <2>1, <2>2, <2>3, <2>4, <2>5 DEF Next, ManagersNext, vars
<1>3. HeldWhileTold => NothingOutlives
    BY DEF NothingOutlives
<1> QED  BY <1>1, <1>2, <1>3, PTL DEF Spec

-----------------------------------------------------------------------------
(* What is under way.  The last stanza that speaks of something tells what *)
(* the client will have of it: it is one of those that speak the truth, or *)
(* there is none and the client has it already.                            *)

Agrees(line, words, truths, has, is) ==
    \/ \E i \in DOMAIN line :
         line[i] \in truths /\ \A j \in DOMAIN line : j > i => line[j] \notin words
    \/ (\A i \in DOMAIN line : line[i] \notin words) /\ has = is

-----------------------------------------------------------------------------
(* The roster.                                                             *)

Items == Names \cup {NoItem}
RosterRequests ==
    [kind : {"get", "presence", "iq", "subscribed"}]
    \cup [kind : {"subscribe"}, contact : Contacts]
    \cup [kind : {"set"}, contact : Contacts, item : Items]
RosterStanzas ==
    [kind : {"push"}, from : {"account", "contact"}, contact : Contacts, item : Items]
    \cup [kind : {"result"}, from : {"account"}, roster : Rosters]
    \cup [kind : {"available", "unavailable", "subscribe"}, contact : Contacts]

Results == {s \in RosterStanzas : s.kind = "result"}
PushesOf(c) == {s \in RosterStanzas : s.kind = "push" /\ s.from = "account" /\ s.contact = c}
AnyItem == {s \in RosterStanzas : s.kind = "result" \/ (s.kind = "push" /\ s.from = "account")}
ItemWords(c) == Results \cup PushesOf(c)
ItemTruths(c) ==
    {s \in Results : s.roster[c] = account[c]} \cup {s \in PushesOf(c) : s.item = account[c]}

ComesOf(c) == {s \in RosterStanzas : s.kind = "available" /\ s.contact = c}
GoesOf(c) == {s \in RosterStanzas : s.kind = "unavailable" /\ s.contact = c}
PresenceWords(c) == ComesOf(c) \cup GoesOf(c)
PresenceTruths(c) == IF c \in available THEN ComesOf(c) ELSE GoesOf(c)

RosterShape ==
    /\ RosterTypeOK
    /\ toServer \in Seq(RosterRequests) /\ fromServer \in Seq(RosterStanzas)

\* Without a session nothing is under way, nor has anything been asked for.
RosterOffline ==
    /\ phase # "Online" => toServer = <<>> /\ fromServer = <<>> /\ interested = {}
    /\ ~told => presences = {}

\* The roster is asked for once in a session, and no push comes before it.
GetFirst == \A i \in DOMAIN toServer : toServer[i].kind = "get" => i = 1 /\ "roster" \notin interested
ItemsOnce ==
    /\ ~received => entries = NoEntries
    /\ phase = "Online" /\ "roster" \notin interested =>
         ~received /\ \A i \in DOMAIN fromServer : fromServer[i] \notin AnyItem
    /\ phase = "Online" /\ "roster" \in interested /\ ~received =>
         \E i \in DOMAIN fromServer : fromServer[i] \in Results
    /\ \A i \in DOMAIN fromServer : fromServer[i] \in Results =>
         ~received /\ \A j \in DOMAIN fromServer : fromServer[j] \in AnyItem => i <= j

RosterTold ==
    "roster" \in interested =>
      \A c \in Contacts : Agrees(fromServer, ItemWords(c), ItemTruths(c), entries[c], account[c])

PresencesTold ==
    /\ phase = "Online" /\ "presence" \notin interested =>
         /\ presences = {}
         /\ \A c \in Contacts : \A i \in DOMAIN fromServer : fromServer[i] \notin PresenceWords(c)
    /\ "presence" \in interested =>
         \A c \in Contacts : Agrees(fromServer, PresenceWords(c), PresenceTruths(c),
                                    presences \cap {c}, available \cap {c})

RosterHeld == RosterShape /\ RosterOffline /\ GetFirst /\ ItemsOnce /\ RosterTold /\ PresencesTold

RosterRests ==
    /\ entries = NoEntries /\ presences = {} /\ received = FALSE
    /\ account = NoEntries /\ available = {} /\ interested = {}

RosterInv == IF part = "roster" THEN Told /\ RosterForgotten /\ RosterHeld ELSE RosterRests

-----------------------------------------------------------------------------
(* The bookmarks.                                                          *)

Sets == BookmarkSets \cup {None}
BookmarkRequests ==
    [kind : {"ask"}] \cup [kind : {"store"}, id : Nat \ {0}, set : BookmarkSets]
BookmarkStanzas ==
    [kind : {"contents"}, set : Sets] \cup [kind : {"stored", "refused"}, id : Nat \ {0}]
Asks == {s \in BookmarkRequests : s.kind = "ask"}
Stores == {s \in BookmarkRequests : s.kind = "store"}
Shown == {s \in BookmarkStanzas : s.kind = "contents"}
Verdicts == {s \in BookmarkStanzas : s.kind # "contents"}

BookmarksShape ==
    /\ BookmarksTypeOK /\ DOMAIN pending = {"id", "set"}
    /\ toServer \in Seq(BookmarkRequests) /\ fromServer \in Seq(BookmarkStanzas)
    /\ phase # "Online" => toServer = <<>> /\ fromServer = <<>>

\* The contents are asked for first, and are the first answer.
AskedFirst ==
    /\ \A i \in DOMAIN toServer : toServer[i] \in Asks => i = 1 /\ fromServer = <<>>
    /\ \A i \in DOMAIN fromServer : fromServer[i] \in Shown => i = 1

\* One store or its answer is under way, and it is the pending one.
OnePending ==
    /\ \A i, j \in DOMAIN toServer : toServer[i] \in Stores /\ toServer[j] \in Stores => i = j
    /\ \A i, j \in DOMAIN fromServer : fromServer[i] \in Verdicts /\ fromServer[j] \in Verdicts => i = j
    /\ \A i \in DOMAIN toServer : toServer[i] \in Stores =>
         /\ toServer[i].id = pending.id /\ toServer[i].set = pending.set
         /\ \A j \in DOMAIN fromServer : fromServer[j] \notin Verdicts
    /\ \A i \in DOMAIN fromServer : fromServer[i] \in Verdicts => fromServer[i].id = pending.id

\* What the client has when it has read what is under way is what the server has.
BookmarksTold ==
    (\A i \in DOMAIN toServer : toServer[i] \notin Asks) /\ phase = "Online" =>
      \/ \E i \in DOMAIN fromServer : fromServer[i].kind = "stored" /\ pending.set = stored
      \/ /\ \A i \in DOMAIN fromServer : fromServer[i].kind # "stored"
         /\ \/ \E i \in DOMAIN fromServer : fromServer[i].kind = "contents" /\ fromServer[i].set = stored
            \/ /\ \A i \in DOMAIN fromServer : fromServer[i].kind # "contents"
               /\ bookmarks = stored

BookmarksHeld == BookmarksShape /\ AskedFirst /\ (~overlapped => OnePending /\ BookmarksTold)

BookmarksRest == BookmarksTypeOK /\ bookmarks = None /\ have = FALSE

BookmarksInv == IF part = "bookmarks" THEN Told /\ BookmarksForgotten /\ BookmarksHeld ELSE BookmarksRest

-----------------------------------------------------------------------------
(* The permissions.                                                        *)

Ids == Nat \X Affiliations
Grants == SUBSET (Members \X (Affiliations \cup {NoAffiliation}))
PermissionRequests == [kind : {"ask"}, id : Ids] \cup [kind : {"change"}, items : Grants]
PermissionLists == [kind : {"list"}, id : Ids, who : SUBSET Members]
Of(n) == {n} \X Affiliations

\* What is received of a table while some affiliations are still awaited.
Received(awaited) ==
    [m \in Members |-> IF table[m] = NoAffiliation \/ <<round, table[m]>> \in awaited
                       THEN Unspecified ELSE table[m]]

PermissionsShape ==
    /\ PermissionsTypeOK
    /\ toServer \in Seq(PermissionRequests) /\ fromServer \in Seq(PermissionLists)
    /\ phase # "Online" => toServer = <<>> /\ fromServer = <<>> /\ stage = "none" /\ wanted = NoTable

\* Nothing that is under way is of a later round.
NotLater ==
    /\ \A i \in DOMAIN toServer : toServer[i].kind = "ask" => toServer[i].id[1] <= round
    /\ \A i \in DOMAIN fromServer : fromServer[i].id[1] <= round
    /\ queue \subseteq Of(round)

\* A change that is under way comes before the first request of the round.
ChangeFirst ==
    stage # "none" => \A i \in DOMAIN toServer : toServer[i].kind = "change" =>
        /\ queue = Of(round) /\ stage = "asked" /\ wanted = NoTable
        /\ \A j \in DOMAIN toServer : j < i /\ toServer[j].kind = "ask" => toServer[j].id[1] # round
        /\ \A j \in DOMAIN fromServer : fromServer[j].id[1] # round

ListsTrue ==
    stage # "none" =>
      /\ permissions = Received(queue)
      /\ stage = "received" => queue = {}
      /\ \A i \in DOMAIN fromServer : fromServer[i].id[1] = round =>
           fromServer[i].who = {m \in Members : table[m] = fromServer[i].id[2]}

\* The server's table once a change is made.
Made(before, items) ==
    [m \in Members |->
       IF \E a \in Affiliations \cup {NoAffiliation} : <<m, a>> \in items
       THEN CHOOSE a \in Affiliations \cup {NoAffiliation} : <<m, a>> \in items
       ELSE before[m]]

WantedComes ==
    wanted # NoTable =>
      \/ /\ \A i \in DOMAIN toServer : toServer[i].kind # "change"
         /\ table = wanted
      \/ \E i \in DOMAIN toServer :
           /\ toServer[i].kind = "change" /\ Made(table, toServer[i].items) = wanted
           /\ \A j \in DOMAIN toServer : toServer[j].kind = "change" => j = i

PermissionsHeld == PermissionsShape /\ NotLater /\ ChangeFirst /\ ListsTrue /\ WantedComes

PermissionsRest == PermissionsTypeOK /\ stage = "none" /\ wanted = NoTable

PermissionsInv == IF part = "permissions" THEN Told /\ PermissionsHeld ELSE PermissionsRest

-----------------------------------------------------------------------------
(* The object of the Twitter library, and the login.                       *)

TwitterInv == TwitterTypeOK /\ inFlight \in Seq({inFlight[i] : i \in DOMAIN inFlight})

StepsAgree ==
    /\ serverStep <= clientStep
    /\ message.to = "server" => serverStep < clientStep
SaslSteps == SaslTypeOK /\ StepsAgree

Bounded == Len(toServer) <= MaxWire /\ Len(fromServer) <= MaxWire

RequestsInv ==
    /\ part \in Parts /\ SessionTypeOK /\ Bounded
    /\ RosterInv /\ BookmarksInv /\ PermissionsInv /\ TwitterInv /\ SaslSteps
    /\ part \in {"twitter", "login"} => phase = "Offline" /\ told = FALSE /\ Quiet

-----------------------------------------------------------------------------
(* Sequences, and what the operators of the wire leave behind.             *)

LEMMA OneMore ==
    ASSUME NEW S, NEW s \in Seq(S), NEW e \in S
    PROVE  /\ s \o <<e>> \in Seq(S) /\ Len(s \o <<e>>) = Len(s) + 1
           /\ DOMAIN (s \o <<e>>) = 1 .. Len(s) + 1 /\ DOMAIN s = 1 .. Len(s) /\ Len(s) \in Nat
           /\ \A i \in DOMAIN s : (s \o <<e>>)[i] = s[i]
           /\ (s \o <<e>>)[Len(s) + 1] = e
    OBVIOUS

LEMMA OneLess ==
    ASSUME NEW S, NEW s \in Seq(S), s # <<>>
    PROVE  /\ Tail(s) \in Seq(S) /\ Len(Tail(s)) = Len(s) - 1 /\ Len(s) \in Nat \ {0}
           /\ DOMAIN Tail(s) = 1 .. Len(s) - 1 /\ DOMAIN s = 1 .. Len(s)
           /\ \A i \in DOMAIN Tail(s) : i + 1 \in DOMAIN s /\ Tail(s)[i] = s[i + 1]
           /\ \A i \in DOMAIN s \ {1} : i - 1 \in DOMAIN Tail(s) /\ Tail(s)[i - 1] = s[i]
           /\ Head(s) = s[1] /\ 1 \in DOMAIN s /\ Head(s) \in S
<1>1. /\ Tail(s) \in Seq(S) /\ Len(Tail(s)) = Len(s) - 1 /\ Len(s) \in Nat \ {0}
      /\ DOMAIN Tail(s) = 1 .. Len(s) - 1 /\ DOMAIN s = 1 .. Len(s) /\ Head(s) = s[1]
    OBVIOUS
<1>2. \A i \in DOMAIN Tail(s) : i + 1 \in DOMAIN s /\ Tail(s)[i] = s[i + 1]
    BY <1>1
<1>3. \A i \in DOMAIN s \ {1} : i - 1 \in DOMAIN Tail(s) /\ Tail(s)[i - 1] = s[i]
    BY <1>1
<1> QED  BY <1>1, <1>2, <1>3

LEMMA Joined ==
    ASSUME NEW S, NEW s \in Seq(S), NEW t \in Seq(S)
    PROVE  /\ s \o t \in Seq(S) /\ Len(s \o t) = Len(s) + Len(t) /\ {Len(s), Len(t)} \subseteq Nat
           /\ DOMAIN (s \o t) = 1 .. Len(s) + Len(t)
           /\ DOMAIN s = 1 .. Len(s) /\ DOMAIN t = 1 .. Len(t)
           /\ \A i \in DOMAIN s : (s \o t)[i] = s[i]
           /\ \A i \in DOMAIN (s \o t) : i \notin DOMAIN s =>
                i - Len(s) \in DOMAIN t /\ (s \o t)[i] = t[i - Len(s)]
           /\ \A i \in DOMAIN t : Len(s) + i \in DOMAIN (s \o t) /\ (s \o t)[Len(s) + i] = t[i]
<1>1. /\ s \o t \in Seq(S) /\ Len(s \o t) = Len(s) + Len(t) /\ {Len(s), Len(t)} \subseteq Nat
      /\ DOMAIN (s \o t) = 1 .. Len(s) + Len(t)
      /\ DOMAIN s = 1 .. Len(s) /\ DOMAIN t = 1 .. Len(t)
    OBVIOUS
<1>2. \A i \in DOMAIN s : (s \o t)[i] = s[i]
    OBVIOUS
<1>3. \A i \in DOMAIN (s \o t) : i \notin DOMAIN s =>
        i - Len(s) \in DOMAIN t /\ (s \o t)[i] = t[i - Len(s)]
    BY <1>1
<1>4. \A i \in DOMAIN t : Len(s) + i \in DOMAIN (s \o t) /\ (s \o t)[Len(s) + i] = t[i]
  <2>1. SUFFICES ASSUME NEW i \in DOMAIN t
                 PROVE  Len(s) + i \in DOMAIN (s \o t) /\ (s \o t)[Len(s) + i] = t[i]
      OBVIOUS
  <2>2. Len(s) + i \in DOMAIN (s \o t) /\ Len(s) + i \notin DOMAIN s /\ (Len(s) + i) - Len(s) = i
      BY <1>1
  <2> QED  BY <1>3, <2>2
<1> QED  BY <1>1, <1>2, <1>3, <1>4

Wired(S, T) == toServer \in Seq(S) /\ fromServer \in Seq(T) /\ Bounded

LEMMA SendWire ==
    ASSUME NEW S, NEW T, Wired(S, T), NEW p \in Seq(S), Send(p)
    PROVE  /\ toServer' \in Seq(S) /\ Len(toServer') <= MaxWire
           /\ toServer' \in {toServer, toServer \o p}
           /\ phase # "Online" => toServer' = toServer
<1>1. toServer' \in {toServer, toServer \o p} /\ (phase # "Online" => toServer' = toServer)
    BY DEF Send
<1>2. Len(toServer') <= MaxWire /\ toServer' \in Seq(S)
    BY <1>1, Joined DEF Send, Wired, Bounded
<1> QED  BY <1>1, <1>2

LEMMA AnswerWire ==
    ASSUME NEW S, NEW T, Wired(S, T), NEW kinds, NEW p \in Seq(T), Answer(kinds, p)
    PROVE  /\ Wired(S, T)' /\ phase = "Online" /\ UNCHANGED <<phase, told>>
           /\ toServer # <<>> /\ Head(toServer) \in S /\ Head(toServer).kind \in kinds
           /\ toServer' = Tail(toServer) /\ fromServer' = fromServer \o p
<1>1. /\ phase = "Online" /\ UNCHANGED <<phase, told>> /\ toServer # <<>>
      /\ Head(toServer).kind \in kinds
      /\ toServer' = Tail(toServer) /\ fromServer' = fromServer \o p
      /\ Len(fromServer) + Len(p) <= MaxWire
    BY DEF Answer
<1>2. Len(toServer') <= MaxWire /\ toServer' \in Seq(S) /\ Head(toServer) \in S
    BY <1>1, OneLess, WireAssumption DEF Wired, Bounded
<1>3. Len(fromServer') <= MaxWire /\ fromServer' \in Seq(T)
    BY <1>1, Joined DEF Wired
<1> QED  BY <1>1, <1>2, <1>3 DEF Wired, Bounded

LEMMA AnnounceWire ==
    ASSUME NEW S, NEW T, Wired(S, T), NEW p \in Seq(T), Announce(p)
    PROVE  /\ Wired(S, T)' /\ phase = "Online" /\ UNCHANGED <<phase, told, toServer>>
           /\ fromServer' = fromServer \o p
<1>1. /\ phase = "Online" /\ UNCHANGED <<phase, told, toServer>> /\ fromServer' = fromServer \o p
      /\ Len(fromServer) + Len(p) <= MaxWire
    BY DEF Announce
<1>2. Len(fromServer') <= MaxWire /\ fromServer' \in Seq(T)
    BY <1>1, Joined DEF Wired
<1> QED  BY <1>1, <1>2 DEF Wired, Bounded

LEMMA TakeWire ==
    ASSUME NEW S, NEW T, Wired(S, T), Take
    PROVE  /\ phase = "Online" /\ fromServer # <<>> /\ Head(fromServer) \in T
           /\ fromServer' = Tail(fromServer) /\ fromServer' \in Seq(T) /\ Len(fromServer') <= MaxWire
<1>1. phase = "Online" /\ fromServer # <<>> /\ fromServer' = Tail(fromServer)
    BY DEF Take
<1> QED  BY <1>1, OneLess, WireAssumption DEF Wired, Bounded

-----------------------------------------------------------------------------
(* Agreement, as stanzas are sent and read.                                *)

LEMMA AgreesMore ==
    ASSUME NEW S, NEW line \in Seq(S), NEW s \in S, NEW words, NEW truths, NEW has, NEW is, s \in truths
    PROVE  Agrees(line \o <<s>>, words, truths, has, is)
<1>1. /\ Len(line) + 1 \in DOMAIN (line \o <<s>>) /\ (line \o <<s>>)[Len(line) + 1] = s
      /\ \A j \in DOMAIN (line \o <<s>>) : ~(j > Len(line) + 1)
    BY OneMore
<1> QED  BY <1>1 DEF Agrees

LEMMA AgreesStill ==
    ASSUME NEW S, NEW line \in Seq(S), NEW p \in Seq(S), NEW words, NEW truths, NEW has, NEW is,
           \A i \in DOMAIN p : p[i] \notin words, Agrees(line, words, truths, has, is)
    PROVE  Agrees(line \o p, words, truths, has, is)
<1>1. /\ \A i \in DOMAIN (line \o p) :
           (i \in DOMAIN line /\ (line \o p)[i] = line[i]) \/ (line \o p)[i] \notin words
      /\ \A i \in DOMAIN line : i \in DOMAIN (line \o p) /\ (line \o p)[i] = line[i]
    BY Joined
<1> QED  BY <1>1 DEF Agrees

LEMMA AgreesLess ==
    ASSUME NEW S, NEW line \in Seq(S), line # <<>>, NEW words, NEW truths, NEW has, NEW is, NEW now,
           truths \subseteq words, Agrees(line, words, truths, has, is),
           Head(line) \in truths => now = is, Head(line) \notin words => now = has
    PROVE  Agrees(Tail(line), words, truths, now, is)
<1>1. /\ Len(line) \in Nat \ {0} /\ Head(line) = line[1] /\ 1 \in DOMAIN line
      /\ DOMAIN Tail(line) = 1 .. Len(line) - 1 /\ DOMAIN line = 1 .. Len(line)
      /\ \A i \in DOMAIN Tail(line) : i + 1 \in DOMAIN line /\ Tail(line)[i] = line[i + 1]
      /\ \A i \in DOMAIN line \ {1} : i - 1 \in DOMAIN Tail(line) /\ Tail(line)[i - 1] = line[i]
    BY OneLess
<1>2. CASE \E i \in DOMAIN line :
             line[i] \in truths /\ \A j \in DOMAIN line : j > i => line[j] \notin words
  <2>1. PICK i \in DOMAIN line :
               line[i] \in truths /\ \A j \in DOMAIN line : j > i => line[j] \notin words
      BY <1>2
  <2>2. CASE i = 1
    <3>1. \A j \in DOMAIN Tail(line) : Tail(line)[j] \notin words
        BY <1>1, <2>1, <2>2
    <3> QED  BY <1>1, <2>1, <2>2, <3>1 DEF Agrees
  <2>3. CASE i # 1
    <3>1. i - 1 \in DOMAIN Tail(line) /\ Tail(line)[i - 1] \in truths
        BY <1>1, <2>1, <2>3
    <3>2. \A j \in DOMAIN Tail(line) : j > i - 1 => Tail(line)[j] \notin words
        BY <1>1, <2>1
    <3> QED  BY <3>1, <3>2 DEF Agrees
  <2> QED  BY <2>2, <2>3
<1>3. CASE (\A i \in DOMAIN line : line[i] \notin words) /\ has = is
    BY <1>1, <1>3 DEF Agrees
<1> QED  BY <1>2, <1>3 DEF Agrees

LEMMA AgreesAtLast ==
    ASSUME NEW line, NEW words, NEW truths, NEW has, NEW is, truths \subseteq words,
           Agrees(line, words, truths, has, is), \A i \in DOMAIN line : line[i] \notin words
    PROVE  has = is
    BY DEF Agrees

-----------------------------------------------------------------------------
(* The roster, step by step.                                               *)

LEMMA TruthsAreWords ==
    ASSUME NEW c
    PROVE  ItemTruths(c) \subseteq ItemWords(c) /\ PresenceTruths(c) \subseteq PresenceWords(c)
    BY DEF ItemTruths, ItemWords, PresenceTruths, PresenceWords

LEMMA RosterTried ==
    ASSUME RosterHeld, SessionTypeOK, Bounded, Tries, UNCHANGED rosterVars
    PROVE  RosterHeld' /\ SessionTypeOK' /\ Bounded'
<1> USE DEF RosterHeld
<1>1. /\ phase # "Online" /\ phase' # "Online" /\ SessionTypeOK'
      /\ UNCHANGED <<told, toServer, fromServer, rosterVars>>
    BY DEF Tries, Attempt, GiveUp, SessionTypeOK, wire
<1>2. toServer = <<>> /\ fromServer = <<>> /\ interested = {}
    BY <1>1 DEF RosterOffline
<1>3. RosterShape' /\ RosterOffline' /\ Bounded'
    BY <1>1, <1>2 DEF RosterShape, RosterTypeOK, RosterOffline, Bounded, rosterVars, rosterView,
       rosterServer
<1>4. GetFirst' /\ ItemsOnce'
    BY <1>1, <1>2 DEF GetFirst, ItemsOnce, rosterVars, rosterView, rosterServer, NoEntries
<1>5. RosterTold' /\ PresencesTold'
    BY <1>1, <1>2 DEF RosterTold, PresencesTold, rosterVars, rosterServer
<1> QED  BY <1>1, <1>3, <1>4, <1>5

LEMMA RosterOpened ==
    ASSUME RosterHeld, RosterForgotten, SessionTypeOK, RosterOpens
    PROVE  RosterHeld' /\ SessionTypeOK' /\ Bounded'
<1> USE DEF RosterHeld
<1>1. /\ ~told /\ told' = TRUE /\ phase' = "Online" /\ interested' = {} /\ fromServer' = <<>>
      /\ toServer' = <<Bare("get"), Bare("presence")>>
      /\ UNCHANGED <<entries, presences, received, account, available>>
    BY DEF RosterOpens, Opens, Establish, rosterView
<1>2. entries = NoEntries /\ ~received /\ presences = {}
    BY <1>1 DEF RosterForgotten, RosterOffline
<1>3. RosterShape' /\ Bounded'
  <2>1. {Bare("get"), Bare("presence")} \subseteq RosterRequests
      BY DEF Bare, RosterRequests
  <2>2. toServer' \in Seq(RosterRequests) /\ Len(toServer') = 2
      BY <1>1, <2>1
  <2> QED  BY <1>1, <2>2, WireAssumption DEF RosterShape, RosterTypeOK, Bounded, WireAssumption
<1>4. GetFirst' /\ ItemsOnce'
  <2>1. GetFirst'
      BY <1>1 DEF GetFirst, Bare
  <2> QED  BY <1>1, <1>2, <2>1 DEF ItemsOnce, NoEntries
<1>5. RosterOffline' /\ RosterTold' /\ PresencesTold' /\ SessionTypeOK'
    BY <1>1, <1>2 DEF RosterOffline, RosterTold, PresencesTold, SessionTypeOK
<1> QED  BY <1>3, <1>4, <1>5

LEMMA RosterClosed ==
    ASSUME RosterHeld, SessionTypeOK, RosterCloses
    PROVE  RosterHeld' /\ SessionTypeOK' /\ Bounded'
<1> USE DEF RosterHeld
<1>1. /\ phase' = "Offline" /\ told' \in BOOLEAN /\ interested' = {}
      /\ fromServer' = <<>> /\ toServer' = <<>> /\ UNCHANGED <<account, available>>
    BY DEF RosterCloses, Closes, Drop, Notify
<1>2. \/ told' /\ UNCHANGED <<entries, presences, received>>
      \/ entries' = NoEntries /\ presences' = {} /\ received' = FALSE
    BY Zenon DEF RosterCloses, rosterView, Disconnected
<1>3. RosterShape' /\ Bounded'
  <2>1. NoEntries \in Rosters
      BY DEF NoEntries, Rosters
  <2>2. RosterTypeOK'
      BY <1>1, <1>2, <2>1 DEF RosterShape, RosterTypeOK
  <2> QED  BY <1>1, <2>2, WireAssumption DEF RosterShape, Bounded, WireAssumption
<1>4. GetFirst' /\ ItemsOnce'
  <2>1. ~received' => entries' = NoEntries
      BY <1>2 DEF ItemsOnce
  <2> QED  BY <1>1, <2>1 DEF GetFirst, ItemsOnce, NoEntries
<1>5. RosterOffline' /\ RosterTold' /\ PresencesTold' /\ SessionTypeOK'
    BY <1>1, <1>2 DEF RosterOffline, RosterTold, PresencesTold, SessionTypeOK
<1> QED  BY <1>3, <1>4, <1>5

\* What is known of the items depends on nothing but these; and so it is with the presences.
itemVars == <<phase, received, entries, account, fromServer>>
presenceVars == <<phase, told, presences, available, fromServer>>

LEMMA ItemsRest ==
    ASSUME ItemsOnce, RosterTold, UNCHANGED itemVars,
           "roster" \in interested' <=> "roster" \in interested
    PROVE  ItemsOnce' /\ RosterTold'
<1>1. \A c : ItemTruths(c)' = ItemTruths(c)
    BY DEF itemVars, ItemTruths
<1>2. ItemsOnce'
    BY DEF ItemsOnce, itemVars, NoEntries
<1> QED  BY <1>1, <1>2 DEF RosterTold, itemVars

LEMMA PresencesRest ==
    ASSUME PresencesTold, UNCHANGED presenceVars,
           "presence" \in interested' <=> "presence" \in interested
    PROVE  PresencesTold'
<1>1. \A c : PresenceTruths(c)' = PresenceTruths(c)
    BY DEF presenceVars, PresenceTruths
<1> QED  BY <1>1 DEF PresencesTold, presenceVars

\* Stanzas that speak of no item are sent.
LEMMA ItemsMore ==
    ASSUME RosterShape, ItemsOnce, RosterTold, NEW p \in Seq(RosterStanzas), fromServer' = fromServer \o p,
           UNCHANGED <<phase, received, entries, account>>,
           "roster" \in interested' <=> "roster" \in interested,
           \A i \in DOMAIN p : p[i] \notin AnyItem
    PROVE  ItemsOnce' /\ RosterTold'
<1>1. /\ \A i \in DOMAIN fromServer' :
           (i \in DOMAIN fromServer /\ fromServer'[i] = fromServer[i]) \/ fromServer'[i] \notin AnyItem
      /\ \A i \in DOMAIN fromServer : i \in DOMAIN fromServer' /\ fromServer'[i] = fromServer[i]
    BY Joined DEF RosterShape
<1>2. Results \subseteq AnyItem /\ \A c : ItemWords(c) \subseteq AnyItem
    BY DEF Results, AnyItem, ItemWords, PushesOf
<1>3. ItemsOnce'
    BY <1>1, <1>2 DEF ItemsOnce, NoEntries
<1>4. \A c : ItemTruths(c)' = ItemTruths(c)
    BY DEF ItemTruths
<1>5. RosterTold'
  <2>1. SUFFICES ASSUME "roster" \in interested, NEW c \in Contacts
                 PROVE  Agrees(fromServer \o p, ItemWords(c), ItemTruths(c), entries[c], account[c])
      BY <1>4 DEF RosterTold
  <2>2. \A i \in DOMAIN p : p[i] \notin ItemWords(c)
      BY <1>2
  <2> QED  BY <2>1, <2>2, AgreesStill DEF RosterTold, RosterShape
<1> QED  BY <1>3, <1>5

LEMMA PresencesMore ==
    ASSUME RosterShape, PresencesTold, NEW p \in Seq(RosterStanzas), fromServer' = fromServer \o p,
           UNCHANGED <<phase, presences, available>>,
           "presence" \in interested' <=> "presence" \in interested,
           \A i \in DOMAIN p : \A c \in Contacts : p[i] \notin PresenceWords(c)
    PROVE  PresencesTold'
<1>1. \A i \in DOMAIN fromServer' :
        (i \in DOMAIN fromServer /\ fromServer'[i] = fromServer[i])
        \/ \A c \in Contacts : fromServer'[i] \notin PresenceWords(c)
    BY Joined DEF RosterShape
<1>2. \A c : PresenceTruths(c)' = PresenceTruths(c)
    BY DEF PresenceTruths
<1>3. ASSUME "presence" \in interested, NEW c \in Contacts
      PROVE  Agrees(fromServer \o p, PresenceWords(c), PresenceTruths(c), presences \cap {c}, available \cap {c})
    BY <1>3, AgreesStill DEF PresencesTold, RosterShape
<1> QED  BY <1>1, <1>2, <1>3 DEF PresencesTold

\* A stanza is read, and what it says of the items taken.
LEMMA ItemsLess ==
    ASSUME RosterShape, ItemsOnce, RosterTold, fromServer # <<>>, fromServer' = Tail(fromServer),
           UNCHANGED <<phase, account, interested>>,
           phase = "Online",
           Head(fromServer) \notin Results => received' = received,
           Head(fromServer) \in Results => received',
           ~received' => entries' = NoEntries,
           \A c \in Contacts :
             /\ Head(fromServer) \in ItemTruths(c) => entries'[c] = account[c]
             /\ Head(fromServer) \notin ItemWords(c) => entries'[c] = entries[c]
    PROVE  ItemsOnce' /\ RosterTold'
<1>1. /\ \A i \in DOMAIN fromServer' :
           i \in Nat /\ i + 1 \in DOMAIN fromServer /\ fromServer'[i] = fromServer[i + 1]
      /\ \A i \in DOMAIN fromServer \ {1} : i - 1 \in DOMAIN fromServer' /\ fromServer'[i - 1] = fromServer[i]
      /\ Head(fromServer) = fromServer[1] /\ 1 \in DOMAIN fromServer
      /\ \A i \in DOMAIN fromServer : i \in Nat
    BY OneLess DEF RosterShape
<1>2. Results \subseteq AnyItem
    BY DEF Results, AnyItem
<1>3. ItemsOnce'
  <2>1. ASSUME "roster" \notin interested
        PROVE  ~received' /\ \A i \in DOMAIN fromServer' : fromServer'[i] \notin AnyItem
      BY <1>1, <1>2, <2>1 DEF ItemsOnce
  <2>2. ASSUME "roster" \in interested, ~received'
        PROVE  \E i \in DOMAIN fromServer' : fromServer'[i] \in Results
    <3>1. fromServer[1] \notin Results /\ ~received
        BY <1>1, <2>2
    <3>2. PICK i \in DOMAIN fromServer : fromServer[i] \in Results
        BY <2>2, <3>1 DEF ItemsOnce
    <3> QED  BY <1>1, <3>1, <3>2
  <2>3. ASSUME NEW i \in DOMAIN fromServer', fromServer'[i] \in Results
        PROVE  ~received' /\ \A j \in DOMAIN fromServer' : fromServer'[j] \in AnyItem => i <= j
    <3>1. i + 1 \in DOMAIN fromServer /\ fromServer[i + 1] \in Results /\ i \in Nat /\ i + 1 # 1 /\ ~(i + 1 <= 1)
        BY <1>1, <2>3
    <3>2. ~received /\ \A j \in DOMAIN fromServer : fromServer[j] \in AnyItem => i + 1 <= j
        BY <3>1 DEF ItemsOnce
    <3>3. fromServer[1] \notin Results
        BY <1>1, <1>2, <3>1, <3>2
    <3> QED  BY <1>1, <3>1, <3>2, <3>3
  <2> QED  BY <2>1, <2>2, <2>3 DEF ItemsOnce, NoEntries
<1>4. \A c : ItemTruths(c)' = ItemTruths(c)
    BY DEF ItemTruths
<1>5. RosterTold'
  <2>1. SUFFICES ASSUME "roster" \in interested, NEW c \in Contacts
                 PROVE  Agrees(Tail(fromServer), ItemWords(c), ItemTruths(c), entries'[c], account[c])
      BY <1>4 DEF RosterTold
  <2> QED  BY <2>1, AgreesLess, TruthsAreWords DEF RosterTold, RosterShape
<1> QED  BY <1>3, <1>5

LEMMA PresencesLess ==
    ASSUME RosterShape, PresencesTold, fromServer # <<>>, fromServer' = Tail(fromServer),
           UNCHANGED <<phase, available, interested>>, phase = "Online",
           (\A c \in Contacts : Head(fromServer) \notin PresenceWords(c)) => presences' = presences,
           \A c \in Contacts :
             /\ Head(fromServer) \in PresenceTruths(c) => presences' \cap {c} = available \cap {c}
             /\ Head(fromServer) \notin PresenceWords(c) => presences' \cap {c} = presences \cap {c}
    PROVE  PresencesTold'
<1>1. /\ \A i \in DOMAIN fromServer' : i + 1 \in DOMAIN fromServer /\ fromServer'[i] = fromServer[i + 1]
      /\ Head(fromServer) = fromServer[1] /\ 1 \in DOMAIN fromServer
    BY OneLess DEF RosterShape
<1>2. \A c : PresenceTruths(c)' = PresenceTruths(c)
    BY DEF PresenceTruths
<1>3. ASSUME "presence" \in interested, NEW c \in Contacts
      PROVE  Agrees(Tail(fromServer), PresenceWords(c), PresenceTruths(c), presences' \cap {c}, available \cap {c})
    BY <1>3, AgreesLess, TruthsAreWords DEF PresencesTold, RosterShape
<1>4. ASSUME "presence" \notin interested
      PROVE  /\ presences' = {}
             /\ \A c \in Contacts : \A i \in DOMAIN fromServer' : fromServer'[i] \notin PresenceWords(c)
    BY <1>1, <1>4 DEF PresencesTold
<1> QED  BY <1>2, <1>3, <1>4 DEF PresencesTold

LEMMA GetFirstMore ==
    ASSUME RosterShape, GetFirst, UNCHANGED interested, NEW p \in Seq(RosterRequests),
           toServer' \in {toServer, toServer \o p}, \A i \in DOMAIN p : p[i].kind # "get"
    PROVE  GetFirst'
<1>1. \A i \in DOMAIN toServer' :
        (i \in DOMAIN toServer /\ toServer'[i] = toServer[i]) \/ toServer'[i].kind # "get"
  <2>1. CASE toServer' = toServer
      BY <2>1
  <2>2. CASE toServer' = toServer \o p
      BY <2>2, Joined DEF RosterShape
  <2> QED  BY <2>1, <2>2
<1> QED  BY <1>1 DEF GetFirst

LEMMA GetFirstLess ==
    ASSUME RosterShape, GetFirst, toServer # <<>>, toServer' = Tail(toServer)
    PROVE  GetFirst'
<1>1. \A i \in DOMAIN toServer' : i \in Nat \ {0} /\ i + 1 \in DOMAIN toServer /\ toServer'[i] = toServer[i + 1]
    BY OneLess DEF RosterShape
<1> QED  BY <1>1 DEF GetFirst

RosterWired == Wired(RosterRequests, RosterStanzas)

LEMMA RosterCalled ==
    ASSUME RosterHeld, Bounded, SessionTypeOK, Calls
    PROVE  RosterHeld' /\ SessionTypeOK' /\ Bounded'
<1> USE DEF RosterHeld
<1>1. PICK s \in RosterRequests : s.kind = "set" /\ Send(<<s>>)
  <2>1. \A c \in Contacts : \A item \in Items : Set(c, item) \in RosterRequests /\ Set(c, item).kind = "set"
      BY DEF Set, RosterRequests
  <2>2. \E c \in Contacts : \E item \in Items : Send(<<Set(c, item)>>)
      BY DEF Calls, Items
  <2> QED  BY <2>1, <2>2
<1>2. UNCHANGED <<phase, told, fromServer, rosterVars>> /\ RosterWired
    BY DEF Calls, RosterWired, Wired, RosterShape
<1>3. <<s>> \in Seq(RosterRequests) /\ \A i \in DOMAIN <<s>> : <<s>>[i].kind # "get"
    BY <1>1
<1>4. /\ toServer' \in Seq(RosterRequests) /\ Len(toServer') <= MaxWire
      /\ toServer' \in {toServer, toServer \o <<s>>}
      /\ phase # "Online" => toServer' = toServer
    BY <1>1, <1>2, <1>3, SendWire DEF RosterWired
<1>5. GetFirst'
    BY <1>2, <1>3, <1>4, GetFirstMore DEF rosterVars, rosterServer
<1>6. RosterShape' /\ RosterOffline' /\ SessionTypeOK' /\ Bounded'
    BY <1>2, <1>4 DEF RosterShape, RosterTypeOK, RosterOffline, SessionTypeOK, Bounded,
       rosterVars, rosterView, rosterServer
<1>7. ItemsOnce' /\ RosterTold' /\ PresencesTold'
    BY <1>2, ItemsRest, PresencesRest DEF itemVars, presenceVars, rosterVars, rosterView, rosterServer
<1> QED  BY <1>5, <1>6, <1>7

\* What every answer leaves behind.
LEMMA Answered ==
    ASSUME RosterHeld, Bounded, SessionTypeOK, NEW kinds, NEW p \in Seq(RosterStanzas), Answer(kinds, p),
           UNCHANGED presences
    PROVE  /\ phase = "Online" /\ UNCHANGED <<phase, told>> /\ fromServer' = fromServer \o p
           /\ toServer' \in Seq(RosterRequests) /\ fromServer' \in Seq(RosterStanzas)
           /\ toServer # <<>> /\ Head(toServer) \in RosterRequests /\ Head(toServer).kind \in kinds
           /\ Head(toServer).kind = "get" => "roster" \notin interested
           /\ GetFirst' /\ RosterOffline' /\ SessionTypeOK' /\ Bounded'
<1>1. RosterWired
    BY DEF RosterWired, Wired, RosterHeld, RosterShape
<1>2. /\ RosterWired' /\ phase = "Online" /\ UNCHANGED <<phase, told>> /\ fromServer' = fromServer \o p
      /\ toServer # <<>> /\ Head(toServer) \in RosterRequests /\ Head(toServer).kind \in kinds
      /\ toServer' = Tail(toServer)
    BY <1>1, AnswerWire DEF RosterWired
<1>3. GetFirst'
    BY <1>2, GetFirstLess DEF RosterHeld
<1>4. Head(toServer).kind = "get" => "roster" \notin interested
    BY <1>2, OneLess DEF RosterHeld, RosterShape, GetFirst
<1> QED  BY <1>2, <1>3, <1>4 DEF RosterHeld, RosterOffline, SessionTypeOK, RosterWired, Wired

LEMMA RosterGiven ==
    ASSUME RosterHeld, Bounded, SessionTypeOK, ServerGives
    PROVE  RosterHeld' /\ SessionTypeOK' /\ Bounded'
<1> DEFINE s == Result(account)
<1>1. /\ Answer({"get"}, <<s>>) /\ interested' = interested \cup {"roster"}
      /\ UNCHANGED <<entries, presences, received, account, available>>
    BY DEF ServerGives, rosterView
<1>2. /\ s \in RosterStanzas /\ s \in Results /\ s \in AnyItem
      /\ \A c \in Contacts : s \in ItemTruths(c) /\ s \notin PresenceWords(c)
    BY DEF Result, RosterStanzas, Results, AnyItem, ItemTruths, PresenceWords, ComesOf, GoesOf,
       RosterHeld, RosterShape, RosterTypeOK
<1> HIDE DEF s
<1>3. /\ phase = "Online" /\ UNCHANGED <<phase, told>> /\ fromServer' = fromServer \o <<s>>
      /\ toServer' \in Seq(RosterRequests) /\ fromServer' \in Seq(RosterStanzas)
      /\ "roster" \notin interested
      /\ GetFirst' /\ RosterOffline' /\ SessionTypeOK' /\ Bounded'
  <2>1. <<s>> \in Seq(RosterStanzas) /\ UNCHANGED presences
      BY <1>1, <1>2
  <2>2. Head(toServer).kind \in {"get"}
      BY <1>1, <2>1, Answered
  <2> QED  BY <1>1, <2>1, <2>2, Answered
<1>4. RosterShape'
    BY <1>1, <1>3 DEF RosterHeld, RosterShape, RosterTypeOK
<1>5. PresencesTold'
  <2>1. <<s>> \in Seq(RosterStanzas) /\ \A i \in DOMAIN <<s>> : \A c \in Contacts : <<s>>[i] \notin PresenceWords(c)
      BY <1>2
  <2> QED  BY <1>1, <1>3, <2>1, PresencesMore DEF RosterHeld
<1>6. ItemsOnce' /\ RosterTold'
  <2>1. /\ DOMAIN fromServer' = 1 .. Len(fromServer) + 1 /\ DOMAIN fromServer = 1 .. Len(fromServer)
        /\ Len(fromServer) \in Nat /\ fromServer'[Len(fromServer) + 1] = s
        /\ \A i \in DOMAIN fromServer : fromServer'[i] = fromServer[i]
      BY <1>2, <1>3, OneMore DEF RosterHeld, RosterShape
  <2>2. ~received /\ entries = NoEntries /\ \A i \in DOMAIN fromServer : fromServer[i] \notin AnyItem
      BY <1>3 DEF RosterHeld, ItemsOnce
  <2>3. Results \subseteq AnyItem
      BY DEF Results, AnyItem
  <2>4. \A i \in DOMAIN fromServer' : fromServer'[i] \in AnyItem => i = Len(fromServer) + 1
      BY <2>1, <2>2
  <2>5. ItemsOnce'
      BY <1>1, <1>2, <1>3, <2>1, <2>2, <2>3, <2>4 DEF ItemsOnce, NoEntries
  <2>6. \A c : ItemTruths(c)' = ItemTruths(c)
      BY <1>1 DEF ItemTruths
  <2>7. \A c \in Contacts : Agrees(fromServer \o <<s>>, ItemWords(c), ItemTruths(c), entries[c], account[c])
      BY <1>2, AgreesMore DEF RosterHeld, RosterShape
  <2> QED  BY <1>1, <1>3, <2>5, <2>6, <2>7 DEF RosterTold
<1> QED  BY <1>3, <1>4, <1>5, <1>6 DEF RosterHeld

\* An item is changed at the server, and pushed to who has asked for the roster.
LEMMA ItemChanged ==
    ASSUME RosterHeld, NEW c \in Contacts, NEW item \in Items, account' = [account EXCEPT ![c] = item],
           UNCHANGED <<rosterView, available, interested, phase>>,
           fromServer' = fromServer \o Pushes(c, item)
    PROVE  RosterTypeOK' /\ ItemsOnce' /\ RosterTold' /\ PresencesTold'
<1> DEFINE s == Push(c, item)
<1>1. UNCHANGED <<entries, presences, received, available, interested, phase>>
    BY DEF rosterView
<1>2. /\ s \in RosterStanzas /\ s \notin Results /\ s \in PushesOf(c) /\ s.item = item
      /\ \A d \in Contacts : s \notin PresenceWords(d) /\ (d # c => s \notin ItemWords(d))
      /\ s \in AnyItem
    BY DEF Push, RosterStanzas, Results, AnyItem, PushesOf, ItemWords, PresenceWords, ComesOf, GoesOf
<1>3. Pushes(c, item) \in Seq(RosterStanzas) /\ Pushes(c, item) \in {<<>>, <<s>>}
    BY <1>2 DEF Pushes
<1>4. /\ account' \in Rosters /\ account'[c] = item
      /\ \A d \in Contacts : d # c => account'[d] = account[d]
    BY DEF RosterHeld, RosterShape, RosterTypeOK, Rosters, Items
<1>5. RosterTypeOK'
    BY <1>1, <1>4 DEF RosterHeld, RosterShape, RosterTypeOK
<1>6. PresencesTold'
  <2>1. \A i \in DOMAIN Pushes(c, item) : \A d \in Contacts : Pushes(c, item)[i] \notin PresenceWords(d)
      BY <1>2, <1>3
  <2> QED  BY <1>1, <1>3, <2>1, PresencesMore DEF RosterHeld
<1>7. CASE "roster" \notin interested
  <2>1. fromServer' = fromServer
      BY <1>7 DEF Pushes, RosterHeld, RosterShape
  <2> QED  BY <1>1, <1>5, <1>6, <1>7, <2>1 DEF RosterHeld, ItemsOnce, RosterTold, NoEntries
<1>8. CASE "roster" \in interested
  <2>1. fromServer' = fromServer \o <<s>> /\ phase = "Online"
      BY <1>8 DEF Pushes, RosterHeld, RosterOffline
  <2>2. /\ DOMAIN fromServer' = 1 .. Len(fromServer) + 1 /\ DOMAIN fromServer = 1 .. Len(fromServer)
        /\ Len(fromServer) \in Nat /\ fromServer'[Len(fromServer) + 1] = s
        /\ \A i \in DOMAIN fromServer : fromServer'[i] = fromServer[i]
      BY <1>2, <2>1, OneMore DEF RosterHeld, RosterShape
  <2>3. ItemsOnce'
    <3>1. ASSUME ~received PROVE \E i \in DOMAIN fromServer' : fromServer'[i] \in Results
      <4>1. PICK i \in DOMAIN fromServer : fromServer[i] \in Results
          BY <1>8, <2>1, <3>1 DEF RosterHeld, ItemsOnce
      <4> QED  BY <2>2, <4>1
    <3>2. ASSUME NEW i \in DOMAIN fromServer', fromServer'[i] \in Results
          PROVE  ~received /\ \A j \in DOMAIN fromServer' : fromServer'[j] \in AnyItem => i <= j
      <4>1. i \in DOMAIN fromServer /\ fromServer[i] \in Results /\ i <= Len(fromServer) + 1
          BY <1>2, <2>2, <3>2
      <4>2. ~received /\ \A j \in DOMAIN fromServer : fromServer[j] \in AnyItem => i <= j
          BY <4>1 DEF RosterHeld, ItemsOnce
      <4> QED  BY <2>2, <4>1, <4>2
    <3> QED  BY <1>1, <1>8, <3>1, <3>2 DEF RosterHeld, ItemsOnce, NoEntries
  <2>4. ASSUME NEW d \in Contacts
        PROVE  Agrees(fromServer \o <<s>>, ItemWords(d), ItemTruths(d)', entries[d], account'[d])
    <3>1. CASE d = c
      <4>1. s \in ItemTruths(d)'
          BY <1>2, <1>4, <3>1 DEF ItemTruths
      <4> QED  BY <1>2, <4>1, AgreesMore DEF RosterHeld, RosterShape
    <3>2. CASE d # c
      <4>1. ItemTruths(d)' = ItemTruths(d) /\ account'[d] = account[d]
          BY <1>4, <3>2 DEF ItemTruths
      <4>2. <<s>> \in Seq(RosterStanzas) /\ \A i \in DOMAIN <<s>> : <<s>>[i] \notin ItemWords(d)
          BY <1>2, <3>2
      <4>3. Agrees(fromServer, ItemWords(d), ItemTruths(d), entries[d], account[d])
          BY <1>8 DEF RosterHeld, RosterTold
      <4> QED  BY <4>1, <4>2, <4>3, AgreesStill DEF RosterHeld, RosterShape
    <3> QED  BY <3>1, <3>2
  <2> QED  BY <1>1, <1>5, <1>6, <2>1, <2>3, <2>4 DEF RosterTold
<1> QED  BY <1>7, <1>8

\* A finite set is counted by a sequence of its elements, each once.
LEMMA SetToSeqCounts ==
    ASSUME NEW S, IsFiniteSet(S)
    PROVE  /\ SetToSeq(S) \in Seq(S)
           /\ \A x \in S : \E i \in DOMAIN SetToSeq(S) : SetToSeq(S)[i] = x
           /\ \A i, j \in DOMAIN SetToSeq(S) : SetToSeq(S)[i] = SetToSeq(S)[j] => i = j
<1>1. /\ Cardinality(S) \in Nat
      /\ ExistsBijection(1 .. Cardinality(S), S)
    BY FS_CardinalityType
<1>2. PICK f \in Bijection(1 .. Cardinality(S), S) : TRUE
    BY <1>1 DEF ExistsBijection
<1>3. f \in [1 .. Cardinality(S) -> S] /\ IsInjective(f)
    BY <1>2 DEF Bijection, Injection
<1>4. SetToSeq(S) \in [1 .. Cardinality(S) -> S] /\ IsInjective(SetToSeq(S))
    BY <1>3 DEF SetToSeq
<1>5. SetToSeq(S) \in Injection(1 .. Cardinality(S), S)
    BY <1>4 DEF Injection
<1>6. IsFiniteSet(1 .. Cardinality(S)) /\ Cardinality(1 .. Cardinality(S)) = Cardinality(S)
    BY <1>1, FS_Interval
<1>7. SetToSeq(S) \in Surjection(1 .. Cardinality(S), S)
    BY <1>5, <1>6, FS_Injection
<1> QED  BY <1>1, <1>4, <1>7 DEF Surjection, IsInjective

LEMMA RosterGreeted ==
    ASSUME RosterHeld, Bounded, SessionTypeOK, ServerGreets
    PROVE  RosterHeld' /\ SessionTypeOK' /\ Bounded'
<1> DEFINE there == SetToSeq(available)
           p == [i \in DOMAIN there |-> Presence("available", there[i])]
<1>1. /\ Answer({"presence"}, p) /\ interested' = interested \cup {"presence"}
      /\ UNCHANGED <<entries, presences, received, account, available>>
    BY DEF ServerGreets, rosterView
<1>2. /\ available \subseteq Contacts /\ there \in Seq(available)
      /\ \A x \in available : \E i \in DOMAIN there : there[i] = x
      /\ \A i, j \in DOMAIN there : there[i] = there[j] => i = j
  <2>1. available \subseteq Contacts /\ IsFiniteSet(available)
      BY FS_Subset, RosterAssumption DEF RosterAssumption, RosterHeld, RosterShape, RosterTypeOK
  <2> QED  BY <2>1, SetToSeqCounts
<1>3. /\ Len(there) \in Nat /\ DOMAIN there = 1 .. Len(there)
      /\ \A i \in DOMAIN there : there[i] \in available
    BY <1>2
<1> HIDE DEF there
<1>4. /\ DOMAIN p = DOMAIN there
      /\ \A i \in DOMAIN p : /\ p[i] \in RosterStanzas /\ p[i] \notin AnyItem
                             /\ p[i] \in ComesOf(there[i])
                             /\ \A c \in Contacts : c # there[i] => p[i] \notin PresenceWords(c)
    BY <1>2, <1>3 DEF Presence, RosterStanzas, AnyItem, ComesOf, GoesOf, PresenceWords
<1>5. p \in Seq(RosterStanzas)
  <2>1. p \in [1 .. Len(there) -> RosterStanzas]
      BY <1>3, <1>4
  <2> QED  BY <1>3, <2>1
<1> HIDE DEF p
<1>6. /\ phase = "Online" /\ UNCHANGED <<phase, told>> /\ fromServer' = fromServer \o p
      /\ toServer' \in Seq(RosterRequests) /\ fromServer' \in Seq(RosterStanzas)
      /\ GetFirst' /\ RosterOffline' /\ SessionTypeOK' /\ Bounded'
    BY <1>1, <1>5, Answered
<1>7. RosterShape'
    BY <1>1, <1>6 DEF RosterHeld, RosterShape, RosterTypeOK
<1>8. ItemsOnce' /\ RosterTold'
    BY <1>1, <1>4, <1>5, <1>6, ItemsMore DEF RosterHeld
<1>9. PresencesTold'
  <2>1. \A c : PresenceTruths(c)' = PresenceTruths(c)
      BY <1>1 DEF PresenceTruths
  <2>2. ASSUME NEW c \in Contacts
        PROVE  Agrees(fromServer \o p, PresenceWords(c), PresenceTruths(c), presences \cap {c}, available \cap {c})
    <3>1. CASE c \in available
      <4>1. PICK k \in DOMAIN p : there[k] = c
          BY <1>2, <1>4, <3>1
      <4>2. /\ Len(fromServer) + k \in DOMAIN (fromServer \o p)
            /\ (fromServer \o p)[Len(fromServer) + k] = p[k]
            /\ k \in Nat \ {0} /\ Len(fromServer) \in Nat
          BY <1>5, Joined DEF RosterHeld, RosterShape
      <4>3. p[k] \in PresenceTruths(c)
          BY <1>4, <3>1, <4>1 DEF PresenceTruths
      <4>4. ASSUME NEW j \in DOMAIN (fromServer \o p), j > Len(fromServer) + k
            PROVE  (fromServer \o p)[j] \notin PresenceWords(c)
        <5>1. j \notin DOMAIN fromServer
            BY <1>5, <4>2, <4>4, Joined DEF RosterHeld, RosterShape
        <5>2. /\ j - Len(fromServer) \in DOMAIN p /\ (fromServer \o p)[j] = p[j - Len(fromServer)]
              /\ j \in Nat
            BY <1>5, <5>1, Joined DEF RosterHeld, RosterShape
        <5>3. j - Len(fromServer) # k
            BY <4>2, <4>4, <5>2
        <5>4. there[j - Len(fromServer)] # c
            BY <1>2, <1>4, <4>1, <5>2, <5>3
        <5> QED  BY <1>4, <5>2, <5>4
      <4> QED  BY <4>2, <4>3, <4>4 DEF Agrees
    <3>2. CASE c \notin available
      <4>1. \A i \in DOMAIN p : p[i] \notin PresenceWords(c)
          BY <1>3, <1>4, <3>2
      <4>2. Agrees(fromServer, PresenceWords(c), PresenceTruths(c), presences \cap {c}, available \cap {c})
        <5>1. CASE "presence" \in interested
            BY <5>1 DEF RosterHeld, PresencesTold
        <5>2. CASE "presence" \notin interested
            BY <1>6, <3>2, <5>2 DEF RosterHeld, PresencesTold, Agrees
        <5> QED  BY <5>1, <5>2
      <4> QED  BY <1>5, <4>1, <4>2, AgreesStill DEF RosterHeld, RosterShape
    <3> QED  BY <3>1, <3>2
  <2> QED  BY <1>1, <1>6, <2>1, <2>2 DEF PresencesTold
<1> QED  BY <1>6, <1>7, <1>8, <1>9 DEF RosterHeld

LEMMA PushesType ==
    ASSUME NEW c \in Contacts, NEW item \in Items
    PROVE  Pushes(c, item) \in Seq(RosterStanzas)
<1>1. Push(c, item) \in RosterStanzas
    BY DEF Push, RosterStanzas
<1> QED  BY <1>1 DEF Pushes

LEMMA RosterSet ==
    ASSUME RosterHeld, Bounded, SessionTypeOK, ServerSets \/ ServerSubscribes \/ ServerIgnores
    PROVE  RosterHeld' /\ SessionTypeOK' /\ Bounded'
<1>1. ASSUME NEW kinds, NEW c \in Contacts, NEW item \in Items, Answer(kinds, Pushes(c, item)),
             account' = [account EXCEPT ![c] = item], UNCHANGED <<rosterView, available, interested>>
      PROVE  RosterHeld' /\ SessionTypeOK' /\ Bounded'
  <2>1. Pushes(c, item) \in Seq(RosterStanzas) /\ UNCHANGED <<presences, interested>>
      BY <1>1, PushesType DEF rosterView
  <2>2. /\ UNCHANGED phase /\ fromServer' = fromServer \o Pushes(c, item)
        /\ toServer' \in Seq(RosterRequests) /\ fromServer' \in Seq(RosterStanzas)
        /\ GetFirst' /\ RosterOffline' /\ SessionTypeOK' /\ Bounded'
      BY <1>1, <2>1, Answered
  <2>3. RosterTypeOK' /\ ItemsOnce' /\ RosterTold' /\ PresencesTold'
      BY <1>1, <2>2, ItemChanged
  <2> QED  BY <2>2, <2>3 DEF RosterHeld, RosterShape
<1>2. ASSUME NEW kinds, Answer(kinds, <<>>), UNCHANGED rosterVars
      PROVE  RosterHeld' /\ SessionTypeOK' /\ Bounded'
  <2>1. <<>> \in Seq(RosterStanzas) /\ UNCHANGED <<entries, presences, received, account, available, interested>>
      BY <1>2 DEF rosterVars, rosterView, rosterServer
  <2>2. /\ UNCHANGED <<phase, told>> /\ fromServer' = fromServer \o <<>>
        /\ toServer' \in Seq(RosterRequests) /\ fromServer' \in Seq(RosterStanzas)
        /\ GetFirst' /\ RosterOffline' /\ SessionTypeOK' /\ Bounded'
      BY <1>2, <2>1, Answered
  <2>3. fromServer' = fromServer
      BY <2>2 DEF RosterHeld, RosterShape
  <2>4. ItemsOnce' /\ RosterTold' /\ PresencesTold'
      BY <2>1, <2>2, <2>3, ItemsRest, PresencesRest DEF RosterHeld, itemVars, presenceVars
  <2> QED  BY <2>1, <2>2, <2>4 DEF RosterHeld, RosterShape, RosterTypeOK
<1>3. CASE ServerSets
  <2>1. CASE Answer({"set"}, <<>>) /\ UNCHANGED rosterVars
      BY <1>2, <2>1
  <2>2. CASE LET set == Head(toServer)
             IN  /\ Answer({"set"}, Pushes(set.contact, set.item))
                 /\ account' = [account EXCEPT ![set.contact] = set.item]
    <3>1. Head(toServer) \in RosterRequests /\ Head(toServer).kind = "set"
        BY <2>2, OneLess DEF Answer, RosterHeld, RosterShape
    <3>2. Head(toServer).contact \in Contacts /\ Head(toServer).item \in Items
        BY <3>1 DEF RosterRequests
    <3> QED  BY <1>1, <1>3, <2>2, <3>2 DEF ServerSets
  <2> QED  BY <1>3, <2>1, <2>2 DEF ServerSets, rosterVars, rosterServer, rosterView
<1>4. CASE ServerSubscribes
  <2> DEFINE c == Head(toServer).contact
             name == IF account[c] = NoItem THEN CHOOSE n \in Names : TRUE ELSE account[c]
  <2>1. /\ Answer({"subscribe"}, Pushes(c, name)) /\ account' = [account EXCEPT ![c] = name]
        /\ UNCHANGED <<rosterView, available, interested>>
      BY <1>4 DEF ServerSubscribes
  <2>2. Head(toServer) \in RosterRequests /\ Head(toServer).kind = "subscribe"
      BY <2>1, OneLess DEF Answer, RosterHeld, RosterShape
  <2>3. c \in Contacts
      BY <2>2 DEF RosterRequests
  <2>4. name \in Items
      BY <2>3, RosterAssumption DEF RosterAssumption, Items, RosterHeld, RosterShape, RosterTypeOK, Rosters
  <2> QED  BY <1>1, <2>1, <2>3, <2>4
<1>5. CASE ServerIgnores
    BY <1>2, <1>5 DEF ServerIgnores
<1> QED  BY <1>3, <1>4, <1>5

\* What an unasked stanza leaves behind.
LEMMA Announced ==
    ASSUME RosterHeld, Bounded, SessionTypeOK, NEW p \in Seq(RosterStanzas), Announce(p),
           UNCHANGED <<presences, interested>>
    PROVE  /\ phase = "Online" /\ UNCHANGED <<phase, told, toServer>> /\ fromServer' = fromServer \o p
           /\ toServer' \in Seq(RosterRequests) /\ fromServer' \in Seq(RosterStanzas)
           /\ GetFirst' /\ RosterOffline' /\ SessionTypeOK' /\ Bounded'
<1>1. RosterWired
    BY DEF RosterWired, Wired, RosterHeld, RosterShape
<1>2. /\ RosterWired' /\ phase = "Online" /\ UNCHANGED <<phase, told, toServer>>
      /\ fromServer' = fromServer \o p
    BY <1>1, AnnounceWire DEF RosterWired
<1> QED  BY <1>2 DEF RosterHeld, GetFirst, RosterOffline, SessionTypeOK, RosterWired, Wired

LEMMA RosterChangedElsewhere ==
    ASSUME RosterHeld, Bounded, SessionTypeOK, OtherClientSets
    PROVE  RosterHeld' /\ SessionTypeOK' /\ Bounded'
<1>1. PICK c \in Contacts, item \in Items :
        /\ account' = [account EXCEPT ![c] = item]
        /\ IF Pushes(c, item) = <<>> THEN UNCHANGED wireVars ELSE Announce(Pushes(c, item))
    BY DEF OtherClientSets, Items
<1>2. UNCHANGED <<rosterView, available, interested, presences>>
    BY DEF OtherClientSets, rosterView
<1>3. Pushes(c, item) \in Seq(RosterStanzas)
    BY PushesType
<1>4. /\ UNCHANGED phase /\ fromServer' = fromServer \o Pushes(c, item)
      /\ toServer' \in Seq(RosterRequests) /\ fromServer' \in Seq(RosterStanzas)
      /\ GetFirst' /\ RosterOffline' /\ SessionTypeOK' /\ Bounded'
  <2>1. CASE Pushes(c, item) # <<>>
    <3>1. Announce(Pushes(c, item))
        BY <1>1, <2>1
    <3> QED  BY <1>2, <1>3, <3>1, Announced
  <2>2. CASE Pushes(c, item) = <<>>
    <3>1. UNCHANGED <<phase, told, toServer, fromServer>>
        BY <1>1, <2>2 DEF wireVars, wire
    <3> QED  BY <1>2, <2>2, <3>1 DEF RosterHeld, RosterShape, GetFirst, RosterOffline, SessionTypeOK, Bounded
  <2> QED  BY <2>1, <2>2
<1>5. RosterTypeOK' /\ ItemsOnce' /\ RosterTold' /\ PresencesTold'
    BY <1>1, <1>2, <1>4, ItemChanged
<1> QED  BY <1>4, <1>5 DEF RosterHeld, RosterShape

LEMMA ContactMoved ==
    ASSUME RosterHeld, Bounded, SessionTypeOK, ContactComesOrGoes
    PROVE  RosterHeld' /\ SessionTypeOK' /\ Bounded'
<1>1. PICK c \in Contacts :
        /\ available' = IF c \notin available THEN available \cup {c} ELSE available \ {c}
        /\ IF "presence" \in interested
           THEN Announce(<<Presence(IF c \notin available THEN "available" ELSE "unavailable", c)>>)
           ELSE UNCHANGED wireVars
    BY DEF ContactComesOrGoes
<1>2. UNCHANGED <<entries, presences, received, account, interested>>
    BY DEF ContactComesOrGoes, rosterView
<1> DEFINE s == Presence(IF c \notin available THEN "available" ELSE "unavailable", c)
<1>3. /\ s \in RosterStanzas /\ s \notin AnyItem
      /\ s \in IF c \in available' THEN ComesOf(c) ELSE GoesOf(c)
      /\ \A d \in Contacts : d # c => s \notin PresenceWords(d)
    BY <1>1 DEF Presence, RosterStanzas, AnyItem, ComesOf, GoesOf, PresenceWords
<1>4. s \in PresenceTruths(c)'
    BY <1>3 DEF PresenceTruths
<1>5. /\ available' \subseteq Contacts
      /\ \A d \in Contacts : d # c => /\ PresenceTruths(d)' = PresenceTruths(d)
                                      /\ available' \cap {d} = available \cap {d}
    BY <1>1 DEF PresenceTruths, RosterHeld, RosterShape, RosterTypeOK
<1>6. \A d \in Contacts : d # c => <<s>> \in Seq(RosterStanzas) /\ \A i \in DOMAIN <<s>> : <<s>>[i] \notin PresenceWords(d)
    BY <1>3
<1>7. <<s>> \in Seq(RosterStanzas) /\ \A i \in DOMAIN <<s>> : <<s>>[i] \notin AnyItem
    BY <1>3
<1>8. CASE "presence" \in interested
  <2>1. Announce(<<s>>)
      BY <1>1, <1>8
  <2> HIDE DEF s
  <2>2. /\ phase = "Online" /\ UNCHANGED <<phase, told, toServer>> /\ fromServer' = fromServer \o <<s>>
        /\ toServer' \in Seq(RosterRequests) /\ fromServer' \in Seq(RosterStanzas)
        /\ GetFirst' /\ RosterOffline' /\ SessionTypeOK' /\ Bounded'
      BY <1>2, <1>7, <2>1, Announced
  <2>3. ItemsOnce' /\ RosterTold'
      BY <1>2, <1>7, <2>2, ItemsMore DEF RosterHeld
  <2>4. ASSUME NEW d \in Contacts
        PROVE  Agrees(fromServer \o <<s>>, PresenceWords(d), PresenceTruths(d)', presences \cap {d}, available' \cap {d})
    <3>1. CASE d = c
        BY <1>3, <1>4, <3>1, AgreesMore DEF RosterHeld, RosterShape
    <3>2. CASE d # c
      <4>1. Agrees(fromServer, PresenceWords(d), PresenceTruths(d), presences \cap {d}, available \cap {d})
          BY <1>8 DEF RosterHeld, PresencesTold
      <4> QED  BY <1>5, <1>6, <3>2, <4>1, AgreesStill DEF RosterHeld, RosterShape
    <3> QED  BY <3>1, <3>2
  <2>5. PresencesTold'
      BY <1>2, <1>8, <2>2, <2>4 DEF PresencesTold
  <2> QED  BY <1>2, <1>5, <2>2, <2>3, <2>5 DEF RosterHeld, RosterShape, RosterTypeOK
<1>9. CASE "presence" \notin interested
  <2>1. UNCHANGED <<phase, told, toServer, fromServer>>
      BY <1>1, <1>9 DEF wireVars, wire
  <2>2. ItemsOnce' /\ RosterTold'
      BY <1>2, <2>1, ItemsRest DEF RosterHeld, itemVars
  <2>3. PresencesTold'
      BY <1>2, <1>9, <2>1 DEF RosterHeld, PresencesTold
  <2> QED  BY <1>2, <1>5, <2>1, <2>2, <2>3 DEF RosterHeld, RosterShape, RosterTypeOK, GetFirst,
           RosterOffline, SessionTypeOK, Bounded
<1> QED  BY <1>8, <1>9

LEMMA ContactSent ==
    ASSUME RosterHeld, Bounded, SessionTypeOK, ContactSends
    PROVE  RosterHeld' /\ SessionTypeOK' /\ Bounded'
<1>1. PICK s \in RosterStanzas :
        Announce(<<s>>) /\ s \notin AnyItem /\ \A c \in Contacts : s \notin PresenceWords(c)
  <2>1. ASSUME NEW c \in Contacts, NEW s \in {Presence("subscribe", c)} \cup {Foreign(c, item) : item \in Items}
        PROVE  s \in RosterStanzas /\ s \notin AnyItem /\ \A d \in Contacts : s \notin PresenceWords(d)
    <3>1. CASE s = Presence("subscribe", c)
        BY <3>1 DEF Presence, RosterStanzas, AnyItem, PresenceWords, ComesOf, GoesOf
    <3>2. CASE \E item \in Items : s = Foreign(c, item)
      <4>1. PICK item \in Items : s = [kind |-> "push", from |-> "contact", contact |-> c, item |-> item]
          BY <3>2 DEF Foreign, Push
      <4> QED  BY <4>1 DEF RosterStanzas, AnyItem, PresenceWords, ComesOf, GoesOf
    <3> QED  BY <2>1, <3>1, <3>2
  <2>2. PICK c \in Contacts : \/ Announce(<<Presence("subscribe", c)>>)
                              \/ \E item \in Items : Announce(<<Foreign(c, item)>>)
      BY DEF ContactSends, Items
  <2> QED  BY <2>1, <2>2
<1>2. UNCHANGED <<entries, presences, received, account, available, interested>>
    BY DEF ContactSends, rosterVars, rosterView, rosterServer
<1>3. /\ <<s>> \in Seq(RosterStanzas) /\ \A i \in DOMAIN <<s>> : <<s>>[i] \notin AnyItem
      /\ \A i \in DOMAIN <<s>> : \A c \in Contacts : <<s>>[i] \notin PresenceWords(c)
    BY <1>1
<1>4. /\ phase = "Online" /\ UNCHANGED <<phase, told, toServer>> /\ fromServer' = fromServer \o <<s>>
      /\ toServer' \in Seq(RosterRequests) /\ fromServer' \in Seq(RosterStanzas)
      /\ GetFirst' /\ RosterOffline' /\ SessionTypeOK' /\ Bounded'
    BY <1>1, <1>2, <1>3, Announced
<1>5. ItemsOnce' /\ RosterTold' /\ PresencesTold'
    BY <1>2, <1>3, <1>4, ItemsMore, PresencesMore DEF RosterHeld
<1> QED  BY <1>2, <1>4, <1>5 DEF RosterHeld, RosterShape, RosterTypeOK

\* What reading a stanza leaves behind.
LEMMA Taken ==
    ASSUME RosterHeld, Bounded, SessionTypeOK, Take, UNCHANGED <<phase, told, rosterServer>>,
           \E p \in Seq(RosterRequests) :
             /\ Send(p) \/ toServer' = toServer
             /\ \A i \in DOMAIN p : p[i].kind # "get"
    PROVE  /\ phase = "Online" /\ fromServer # <<>> /\ Head(fromServer) \in RosterStanzas
           /\ fromServer' = Tail(fromServer)
           /\ toServer' \in Seq(RosterRequests) /\ fromServer' \in Seq(RosterStanzas)
           /\ UNCHANGED <<account, available, interested>>
           /\ GetFirst' /\ SessionTypeOK' /\ Bounded'
<1>1. RosterWired /\ UNCHANGED <<account, available, interested>>
    BY DEF RosterWired, Wired, RosterHeld, RosterShape, rosterServer
<1>2. /\ phase = "Online" /\ fromServer # <<>> /\ Head(fromServer) \in RosterStanzas
      /\ fromServer' = Tail(fromServer) /\ fromServer' \in Seq(RosterStanzas) /\ Len(fromServer') <= MaxWire
    BY <1>1, TakeWire DEF RosterWired
<1>3. PICK p \in Seq(RosterRequests) :
        /\ Send(p) \/ toServer' = toServer
        /\ \A i \in DOMAIN p : p[i].kind # "get"
    OBVIOUS
<1>4. /\ toServer' \in Seq(RosterRequests) /\ Len(toServer') <= MaxWire
      /\ toServer' \in {toServer, toServer \o p}
  <2>1. CASE Send(p)
      BY <1>1, <2>1, SendWire DEF RosterWired
  <2>2. CASE toServer' = toServer
      BY <2>2 DEF RosterHeld, RosterShape, Bounded
  <2> QED  BY <1>3, <2>1, <2>2
<1>5. GetFirst'
    BY <1>1, <1>3, <1>4, GetFirstMore DEF RosterHeld
<1> QED  BY <1>1, <1>2, <1>4, <1>5 DEF SessionTypeOK, Bounded

LEMMA NoneSent == \E p \in Seq(RosterRequests) : \A i \in DOMAIN p : p[i].kind # "get"
<1>1. <<>> \in Seq(RosterRequests) /\ DOMAIN <<>> = {}
    OBVIOUS
<1> QED  BY <1>1

LEMMA PushGot ==
    ASSUME RosterHeld, Bounded, SessionTypeOK, GetPush
    PROVE  RosterHeld' /\ SessionTypeOK' /\ Bounded'
<1> DEFINE s == Head(fromServer)
<1>1. /\ Take /\ Send(<<Bare("iq")>>) /\ s.kind = "push"
      /\ entries' = IF s.from = "account" THEN [entries EXCEPT ![s.contact] = s.item] ELSE entries
      /\ UNCHANGED <<phase, told, presences, received, rosterServer>>
    BY DEF GetPush, Stanza
<1>2. <<Bare("iq")>> \in Seq(RosterRequests) /\ \A i \in DOMAIN <<Bare("iq")>> : <<Bare("iq")>>[i].kind # "get"
  <2>1. Bare("iq") \in RosterRequests /\ Bare("iq").kind # "get"
      BY DEF Bare, RosterRequests
  <2> QED  BY <2>1
<1>3. /\ phase = "Online" /\ fromServer # <<>> /\ s \in RosterStanzas
      /\ fromServer' = Tail(fromServer)
      /\ toServer' \in Seq(RosterRequests) /\ fromServer' \in Seq(RosterStanzas)
      /\ UNCHANGED <<account, available, interested>>
      /\ GetFirst' /\ SessionTypeOK' /\ Bounded'
    BY <1>1, <1>2, Taken
<1>4. /\ s.contact \in Contacts /\ s.item \in Items /\ s.from \in {"account", "contact"}
      /\ s \notin Results
      /\ \A c \in Contacts :
           /\ s \notin PresenceWords(c)
           /\ s \in ItemWords(c) <=> s.from = "account" /\ s.contact = c
           /\ s \in ItemTruths(c) => s.from = "account" /\ s.contact = c /\ s.item = account[c]
    BY <1>1, <1>3 DEF RosterStanzas, Results, PresenceWords, ComesOf, GoesOf, ItemWords, ItemTruths, PushesOf
<1>5. /\ entries \in Rosters /\ entries' \in Rosters
      /\ \A c \in Contacts : /\ s \in ItemTruths(c) => entries'[c] = account[c]
                             /\ s \notin ItemWords(c) => entries'[c] = entries[c]
  <2>1. entries \in Rosters
      BY DEF RosterHeld, RosterShape, RosterTypeOK
  <2> QED  BY <1>1, <1>4, <2>1 DEF Rosters, Items
<1>6. ~received => s.from # "account"
  <2>1. SUFFICES ASSUME ~received, s.from = "account" PROVE FALSE
      OBVIOUS
  <2>2. s \in AnyItem /\ s = fromServer[1] /\ 1 \in DOMAIN fromServer
      BY <1>1, <1>3, <2>1, OneLess DEF AnyItem, RosterHeld, RosterShape
  <2>3. PICK i \in DOMAIN fromServer : fromServer[i] \in Results
      BY <1>3, <2>1, <2>2 DEF RosterHeld, ItemsOnce
  <2>4. i <= 1 /\ i \in Nat \ {0}
      BY <2>2, <2>3 DEF RosterHeld, RosterShape, ItemsOnce
  <2> QED  BY <1>4, <2>2, <2>3, <2>4
<1>7. ~received' => entries' = NoEntries
    BY <1>1, <1>6 DEF RosterHeld, ItemsOnce
<1>8. \A c \in Contacts : s \notin PresenceTruths(c)
    BY <1>4, TruthsAreWords
<1> HIDE DEF s
<1>9. ItemsOnce' /\ RosterTold'
    BY <1>1, <1>3, <1>4, <1>5, <1>7, ItemsLess DEF RosterHeld, s
<1>10. PresencesTold'
    BY <1>1, <1>3, <1>4, <1>8, PresencesLess DEF RosterHeld, s
<1> QED  BY <1>1, <1>3, <1>5, <1>9, <1>10 DEF RosterHeld, RosterShape, RosterTypeOK, RosterOffline

LEMMA ResultGot ==
    ASSUME RosterHeld, Bounded, SessionTypeOK, GetResult
    PROVE  RosterHeld' /\ SessionTypeOK' /\ Bounded'
<1> DEFINE s == Head(fromServer)
<1>1. /\ Take /\ s.kind = "result" /\ received' = TRUE /\ toServer' = toServer
      /\ entries' = [c \in Contacts |-> IF s.roster[c] = NoItem THEN entries[c] ELSE s.roster[c]]
      /\ UNCHANGED <<phase, told, presences, rosterServer>>
    BY DEF GetResult, Stanza
<1>2. /\ phase = "Online" /\ fromServer # <<>> /\ s \in RosterStanzas
      /\ fromServer' = Tail(fromServer)
      /\ toServer' \in Seq(RosterRequests) /\ fromServer' \in Seq(RosterStanzas)
      /\ UNCHANGED <<account, available, interested>>
      /\ GetFirst' /\ SessionTypeOK' /\ Bounded'
    BY <1>1, NoneSent, Taken
<1>3. /\ s \in Results /\ s.roster \in Rosters
      /\ \A c \in Contacts : /\ s \notin PresenceWords(c) /\ s \in ItemWords(c)
                             /\ s \in ItemTruths(c) => s.roster[c] = account[c]
    BY <1>1, <1>2 DEF RosterStanzas, Results, PresenceWords, ComesOf, GoesOf, ItemWords, ItemTruths, PushesOf
<1>4. entries = NoEntries
    BY <1>2, <1>3, OneLess DEF RosterHeld, RosterShape, ItemsOnce
<1>5. entries' \in Rosters /\ \A c \in Contacts : entries'[c] = s.roster[c]
    BY <1>1, <1>3, <1>4 DEF Rosters, NoEntries
<1>6. \A c \in Contacts : s \notin PresenceTruths(c)
    BY <1>3, TruthsAreWords
<1> HIDE DEF s
<1>7. ItemsOnce' /\ RosterTold'
    BY <1>1, <1>2, <1>3, <1>5, ItemsLess DEF RosterHeld, s
<1>8. PresencesTold'
    BY <1>1, <1>2, <1>3, <1>6, PresencesLess DEF RosterHeld, s
<1> QED  BY <1>1, <1>2, <1>5, <1>7, <1>8 DEF RosterHeld, RosterShape, RosterTypeOK, RosterOffline

LEMMA PresenceGot ==
    ASSUME RosterHeld, Bounded, SessionTypeOK, Told, GetPresence
    PROVE  RosterHeld' /\ SessionTypeOK' /\ Bounded'
<1> DEFINE s == Head(fromServer)
<1>1. /\ Take /\ s.kind \in {"available", "unavailable"} /\ toServer' = toServer
      /\ presences' = IF s.kind = "available" THEN presences \cup {s.contact} ELSE presences \ {s.contact}
      /\ UNCHANGED <<phase, told, entries, received, rosterServer>>
    BY DEF GetPresence, Stanza
<1>2. /\ phase = "Online" /\ fromServer # <<>> /\ s \in RosterStanzas
      /\ fromServer' = Tail(fromServer)
      /\ toServer' \in Seq(RosterRequests) /\ fromServer' \in Seq(RosterStanzas)
      /\ UNCHANGED <<account, available, interested>>
      /\ GetFirst' /\ SessionTypeOK' /\ Bounded'
    BY <1>1, NoneSent, Taken
<1>3. /\ s.contact \in Contacts /\ s \notin Results
      /\ \A c \in Contacts :
           /\ s \notin ItemWords(c)
           /\ s \in PresenceWords(c) <=> s.contact = c
           /\ s \in PresenceTruths(c) => s.contact = c /\ (s.kind = "available" <=> c \in available)
    BY <1>1, <1>2 DEF RosterStanzas, Results, PresenceWords, PresenceTruths, ComesOf, GoesOf, ItemWords,
       PushesOf
<1>4. presences' \subseteq Contacts
    BY <1>1, <1>3 DEF RosterHeld, RosterShape, RosterTypeOK
<1>5. \A c \in Contacts :
        /\ s \in PresenceTruths(c) => presences' \cap {c} = available \cap {c}
        /\ s \notin PresenceWords(c) => presences' \cap {c} = presences \cap {c}
    BY <1>1, <1>3
<1>6. \A c \in Contacts : s \in ItemTruths(c) => s \in ItemWords(c)
    BY TruthsAreWords
<1> HIDE DEF s
<1>7. ItemsOnce' /\ RosterTold'
  <2>1. ~received' => entries' = NoEntries
      BY <1>1 DEF RosterHeld, ItemsOnce
  <2> QED  BY <1>1, <1>2, <1>3, <1>6, <2>1, ItemsLess DEF RosterHeld, s
<1>8. PresencesTold'
    BY <1>1, <1>2, <1>3, <1>5, PresencesLess DEF RosterHeld, s
<1>9. RosterOffline'
    BY <1>1, <1>2 DEF Told, RosterOffline
<1> QED  BY <1>1, <1>2, <1>4, <1>7, <1>8, <1>9 DEF RosterHeld, RosterShape, RosterTypeOK

LEMMA SubscribeGot ==
    ASSUME RosterHeld, Bounded, SessionTypeOK, GetSubscribe
    PROVE  RosterHeld' /\ SessionTypeOK' /\ Bounded'
<1> DEFINE s == Head(fromServer)
           p == <<Bare("subscribed"), Presence("subscribe", s.contact)>>
<1>1. /\ Take /\ s.kind = "subscribe" /\ (Send(p) \/ toServer' = toServer)
      /\ UNCHANGED <<phase, told, entries, presences, received, rosterServer>>
    BY DEF GetSubscribe, Stanza, rosterVars, rosterView
<1>2. s \in RosterStanzas
    BY <1>1, OneLess DEF Take, RosterHeld, RosterShape
<1>3. /\ s.contact \in Contacts /\ s \notin Results
      /\ \A c \in Contacts : s \notin PresenceWords(c) /\ s \notin ItemWords(c)
    BY <1>1, <1>2 DEF RosterStanzas, Results, PresenceWords, ComesOf, GoesOf, ItemWords, PushesOf
<1>4. p \in Seq(RosterRequests) /\ \A i \in DOMAIN p : p[i].kind # "get"
  <2>1. /\ Bare("subscribed") \in RosterRequests /\ Presence("subscribe", s.contact) \in RosterRequests
        /\ Bare("subscribed").kind # "get" /\ Presence("subscribe", s.contact).kind # "get"
      BY <1>3 DEF Bare, Presence, RosterRequests
  <2> QED  BY <2>1
<1> HIDE DEF p
<1>5. /\ phase = "Online" /\ fromServer # <<>>
      /\ fromServer' = Tail(fromServer)
      /\ toServer' \in Seq(RosterRequests) /\ fromServer' \in Seq(RosterStanzas)
      /\ UNCHANGED <<account, available, interested>>
      /\ GetFirst' /\ SessionTypeOK' /\ Bounded'
    BY <1>1, <1>4, Taken
<1>6. \A c \in Contacts : s \notin ItemTruths(c) /\ s \notin PresenceTruths(c)
    BY <1>3, TruthsAreWords
<1> HIDE DEF s
<1>7. ItemsOnce' /\ RosterTold'
  <2>1. ~received' => entries' = NoEntries
      BY <1>1 DEF RosterHeld, ItemsOnce
  <2> QED  BY <1>1, <1>3, <1>5, <1>6, <2>1, ItemsLess DEF RosterHeld, s
<1>8. PresencesTold'
    BY <1>1, <1>3, <1>5, <1>6, PresencesLess DEF RosterHeld, s
<1> QED  BY <1>1, <1>5, <1>7, <1>8 DEF RosterHeld, RosterShape, RosterTypeOK, RosterOffline

LEMMA RosterStep ==
    ASSUME Told, RosterForgotten, RosterHeld, Bounded, SessionTypeOK, RosterNext
    PROVE  Told' /\ RosterForgotten' /\ RosterHeld' /\ SessionTypeOK' /\ Bounded'
<1>1. Told' /\ RosterForgotten'
    BY RosterKeeps
<1>2. RosterHeld' /\ SessionTypeOK' /\ Bounded'
    BY RosterTried, RosterOpened, RosterClosed, RosterCalled, RosterGiven, RosterGreeted, RosterSet,
       RosterChangedElsewhere, ContactMoved, ContactSent, PushGot, ResultGot, PresenceGot, SubscribeGot
       DEF RosterNext
<1> QED  BY <1>1, <1>2

LEMMA RosterMeans ==
    ASSUME RosterHeld
    PROVE  RosterAgrees /\ PresencesAgree
<1>1. ASSUME received, phase = "Online", Kinds(fromServer) \cap {"push", "result"} = {}
      PROVE  entries = account
  <2>1. \A i \in DOMAIN fromServer : fromServer[i].kind # "push" /\ fromServer[i].kind # "result"
      BY <1>1 DEF Kinds
  <2>2. \A c \in Contacts : \A i \in DOMAIN fromServer : fromServer[i] \notin ItemWords(c)
      BY <2>1 DEF ItemWords, Results, PushesOf
  <2>3. "roster" \in interested
      BY <1>1 DEF RosterHeld, ItemsOnce
  <2>4. \A c \in Contacts : entries[c] = account[c]
      BY <2>2, <2>3, AgreesAtLast, TruthsAreWords DEF RosterHeld, RosterTold
  <2> QED  BY <2>4 DEF RosterHeld, RosterShape, RosterTypeOK, Rosters
<1>2. ASSUME "presence" \in interested, Kinds(fromServer) \cap {"available", "unavailable"} = {}
      PROVE  presences = available
  <2>1. \A i \in DOMAIN fromServer : fromServer[i].kind # "available" /\ fromServer[i].kind # "unavailable"
      BY <1>2 DEF Kinds
  <2>2. \A c \in Contacts : \A i \in DOMAIN fromServer : fromServer[i] \notin PresenceWords(c)
      BY <2>1 DEF PresenceWords, ComesOf, GoesOf
  <2>3. \A c \in Contacts : presences \cap {c} = available \cap {c}
      BY <1>2, <2>2, AgreesAtLast, TruthsAreWords DEF RosterHeld, PresencesTold
  <2> QED  BY <2>3 DEF RosterHeld, RosterShape, RosterTypeOK
<1> QED  BY <1>1, <1>2 DEF RosterAgrees, PresencesAgree, RosterHeld, RosterOffline

-----------------------------------------------------------------------------
(* The bookmarks, step by step.                                            *)

LEMMA BookmarkWords ==
    /\ \A s \in BookmarkRequests :
         /\ s.kind = "ask" <=> s \in Asks
         /\ s.kind = "store" <=> s \in Stores
         /\ s \in Asks <=> s \notin Stores
         /\ s \in Stores => s.id \in Nat \ {0} /\ s.set \in BookmarkSets
    /\ \A s \in BookmarkStanzas :
         /\ s.kind = "contents" <=> s \in Shown
         /\ s \in Verdicts <=> s.kind \in {"stored", "refused"}
         /\ s \in Shown <=> s \notin Verdicts
         /\ s \in Shown => s.set \in Sets
         /\ s \in Verdicts => s.id \in Nat \ {0}
<1>1. \A s \in BookmarkRequests :
        \/ s \in [kind : {"ask"}] /\ s.kind = "ask"
        \/ s \in [kind : {"store"}, id : Nat \ {0}, set : BookmarkSets] /\ s.kind = "store"
    BY DEF BookmarkRequests
<1>2. \A s \in BookmarkStanzas :
        \/ s \in [kind : {"contents"}, set : Sets] /\ s.kind = "contents"
        \/ s \in [kind : {"stored", "refused"}, id : Nat \ {0}] /\ s.kind \in {"stored", "refused"}
    BY DEF BookmarkStanzas
<1> QED  BY <1>1, <1>2 DEF Asks, Stores, Shown, Verdicts

BookmarksWired == Wired(BookmarkRequests, BookmarkStanzas)

\* Before and after a session nothing is under way.
LEMMA BookmarksAway ==
    ASSUME BookmarksTypeOK', DOMAIN pending' = {"id", "set"}, phase' # "Online",
           toServer' = <<>>, fromServer' = <<>>
    PROVE  BookmarksHeld' /\ Bounded'
<1>1. toServer' \in Seq(BookmarkRequests) /\ fromServer' \in Seq(BookmarkStanzas) /\ Bounded'
    BY WireAssumption DEF Bounded
<1>2. BookmarksShape' /\ AskedFirst'
    BY <1>1 DEF BookmarksShape, AskedFirst
<1>3. OnePending' /\ BookmarksTold'
    BY DEF OnePending, BookmarksTold
<1> QED  BY <1>1, <1>2, <1>3 DEF BookmarksHeld

LEMMA BookmarksTried ==
    ASSUME BookmarksHeld, SessionTypeOK, Tries, UNCHANGED bookmarksVars
    PROVE  BookmarksHeld' /\ SessionTypeOK' /\ Bounded'
<1>1. /\ phase # "Online" /\ phase' # "Online" /\ SessionTypeOK'
      /\ UNCHANGED <<told, toServer, fromServer, bookmarksVars>>
    BY DEF Tries, Attempt, GiveUp, SessionTypeOK, wire
<1>2. toServer' = <<>> /\ fromServer' = <<>>
    BY <1>1 DEF BookmarksHeld, BookmarksShape
<1>3. BookmarksTypeOK' /\ DOMAIN pending' = {"id", "set"}
    BY <1>1 DEF BookmarksHeld, BookmarksShape, BookmarksTypeOK, bookmarksVars
<1> QED  BY <1>1, <1>2, <1>3, BookmarksAway

LEMMA BookmarksClosed ==
    ASSUME BookmarksHeld, SessionTypeOK, BookmarksCloses
    PROVE  BookmarksHeld' /\ SessionTypeOK' /\ Bounded'
<1>1. /\ phase' = "Offline" /\ told' \in BOOLEAN /\ fromServer' = <<>> /\ toServer' = <<>>
      /\ UNCHANGED <<pending, ids, stored, overlapped>>
    BY DEF BookmarksCloses, Closes, Drop, Notify
<1>2. UNCHANGED <<bookmarks, have>> \/ (bookmarks' = None /\ have' = FALSE)
    BY Zenon DEF BookmarksCloses, Forget
<1>3. BookmarksTypeOK' /\ DOMAIN pending' = {"id", "set"}
    BY <1>1, <1>2 DEF BookmarksHeld, BookmarksShape, BookmarksTypeOK
<1> QED  BY <1>1, <1>3, BookmarksAway DEF SessionTypeOK

LEMMA BookmarksOpened ==
    ASSUME BookmarksHeld, SessionTypeOK, BookmarksOpens
    PROVE  BookmarksHeld' /\ SessionTypeOK' /\ Bounded'
<1>1. /\ told' = TRUE /\ phase' = "Online" /\ fromServer' = <<>> /\ toServer' = <<AskForThem>>
      /\ overlapped' = FALSE /\ UNCHANGED <<bookmarks, have, pending, ids, stored>>
    BY DEF BookmarksOpens, Opens, Establish
<1>2. AskForThem \in BookmarkRequests /\ AskForThem \in Asks /\ AskForThem \notin Stores
    BY DEF AskForThem, BookmarkRequests, Asks, Stores
<1>3. BookmarksShape' /\ Bounded'
  <2>1. toServer' \in Seq(BookmarkRequests) /\ Len(toServer') = 1
      BY <1>1, <1>2
  <2>2. BookmarksTypeOK'
      BY <1>1 DEF BookmarksHeld, BookmarksShape, BookmarksTypeOK
  <2>3. fromServer' \in Seq(BookmarkStanzas) /\ Len(fromServer') = 0
      BY <1>1
  <2> QED  BY <1>1, <2>1, <2>2, <2>3, WireAssumption DEF BookmarksHeld, BookmarksShape, Bounded
<1>4. 1 \in DOMAIN toServer' /\ toServer'[1] \in Asks
      /\ \A i \in DOMAIN toServer' : i = 1 /\ toServer'[i] \notin Stores
    BY <1>1, <1>2
<1>5. AskedFirst' /\ OnePending' /\ BookmarksTold'
    BY <1>1, <1>4 DEF AskedFirst, OnePending, BookmarksTold
<1> QED  BY <1>1, <1>3, <1>5 DEF BookmarksHeld, SessionTypeOK

LEMMA BookmarksSet ==
    ASSUME BookmarksHeld, Bounded, SessionTypeOK, SetBookmarks
    PROVE  BookmarksHeld' /\ SessionTypeOK' /\ Bounded'
<1>1. PICK set \in BookmarkSets : Send(<<Store(ids', set)>>) /\ pending' = [id |-> ids', set |-> set]
    BY DEF SetBookmarks
<1> DEFINE s == Store(ids', set)
<1>2. /\ phase = "Online" /\ ids < MaxRequests /\ ids' = ids + 1 /\ overlapped' = (overlapped \/ Unanswered)
      /\ UNCHANGED <<phase, told, fromServer, bookmarks, have, stored>>
    BY DEF SetBookmarks
<1>3. ids \in 0 .. MaxRequests /\ ids' \in 1 .. MaxRequests /\ ids' \in Nat \ {0}
    BY <1>2, BookmarksAssumption DEF BookmarksHeld, BookmarksShape, BookmarksTypeOK
<1>4. /\ s \in BookmarkRequests /\ s \in Stores /\ s \notin Asks /\ s.id = pending'.id /\ s.set = pending'.set
      /\ pending'.id = ids' /\ pending'.set = set /\ DOMAIN pending' = {"id", "set"}
    BY <1>1, <1>3 DEF Store, BookmarkRequests, Stores, Asks
<1>5. overlapped' \in BOOLEAN /\ (~overlapped' => ~overlapped /\ ~Unanswered)
    BY <1>2, Zenon DEF BookmarksHeld, BookmarksShape, BookmarksTypeOK
<1> HIDE DEF s
<1>6. BookmarksWired /\ <<s>> \in Seq(BookmarkRequests)
    BY <1>4 DEF BookmarksWired, Wired, BookmarksHeld, BookmarksShape
<1>7. toServer' \in Seq(BookmarkRequests) /\ Len(toServer') <= MaxWire
    BY <1>1, <1>6, SendWire DEF BookmarksWired, s
<1>8. toServer' = toServer \o <<s>>
    BY <1>1, <1>2 DEF Send, s
<1>9. BookmarksShape' /\ SessionTypeOK' /\ Bounded'
    BY <1>1, <1>2, <1>3, <1>4, <1>5, <1>7 DEF BookmarksHeld, BookmarksShape, BookmarksTypeOK, Sets,
       SessionTypeOK, Bounded
<1>10. /\ DOMAIN toServer' = 1 .. Len(toServer) + 1 /\ DOMAIN toServer = 1 .. Len(toServer)
       /\ Len(toServer) \in Nat /\ toServer'[Len(toServer) + 1] = s
       /\ \A i \in DOMAIN toServer : toServer'[i] = toServer[i]
    BY <1>4, <1>8, OneMore DEF BookmarksHeld, BookmarksShape
<1>11. AskedFirst'
  <2>1. ASSUME NEW i \in DOMAIN toServer', toServer'[i] \in Asks
        PROVE  i = 1 /\ fromServer = <<>>
      BY <1>4, <1>10, <2>1 DEF BookmarksHeld, AskedFirst
  <2> QED  BY <1>2, <2>1 DEF BookmarksHeld, AskedFirst
<1>12. ASSUME ~overlapped'
       PROVE  OnePending' /\ BookmarksTold'
  <2>1. OnePending /\ BookmarksTold
      BY <1>5, <1>12 DEF BookmarksHeld
  <2>2. /\ \A i \in DOMAIN toServer : toServer[i] \notin Stores
        /\ \A i \in DOMAIN fromServer : fromServer[i] \notin Verdicts
      BY <1>5, <1>12 DEF Unanswered, Stores, Verdicts
  <2>3. OnePending'
      BY <1>2, <1>4, <1>10, <2>2 DEF OnePending
  <2>4. BookmarksTold'
    <3>1. SUFFICES ASSUME \A i \in DOMAIN toServer' : toServer'[i] \notin Asks
                   PROVE  BookmarksTold'
        BY DEF BookmarksTold
    <3>2. \A i \in DOMAIN toServer : toServer[i] \notin Asks
        BY <1>10, <3>1
    <3>3. \A i \in DOMAIN fromServer : fromServer[i].kind # "stored"
        BY <2>2, BookmarkWords DEF BookmarksHeld, BookmarksShape
    <3> QED  BY <1>2, <2>1, <3>2, <3>3 DEF BookmarksTold
  <2> QED  BY <2>3, <2>4
<1> QED  BY <1>9, <1>11, <1>12 DEF BookmarksHeld

LEMMA BookmarksShown ==
    ASSUME BookmarksHeld, Bounded, SessionTypeOK, ServerShows
    PROVE  BookmarksHeld' /\ SessionTypeOK' /\ Bounded'
<1> DEFINE s == Contents(stored)
<1>1. Answer({"ask"}, <<s>>) /\ UNCHANGED <<bookmarks, have, pending, ids, stored, overlapped>>
    BY DEF ServerShows, bookmarksVars
<1>2. s \in BookmarkStanzas /\ s \in Shown /\ s \notin Verdicts /\ s.set = stored /\ s.kind = "contents"
    BY DEF Contents, BookmarkStanzas, Shown, Verdicts, Sets, BookmarksHeld, BookmarksShape, BookmarksTypeOK
<1> HIDE DEF s
<1>3. BookmarksWired /\ <<s>> \in Seq(BookmarkStanzas)
    BY <1>2 DEF BookmarksWired, Wired, BookmarksHeld, BookmarksShape
<1>4. /\ BookmarksWired' /\ phase = "Online" /\ UNCHANGED <<phase, told>>
      /\ toServer # <<>> /\ Head(toServer) \in BookmarkRequests /\ Head(toServer).kind = "ask"
      /\ toServer' = Tail(toServer) /\ fromServer' = fromServer \o <<s>>
  <2>1. Head(toServer).kind \in {"ask"}
      BY <1>1, <1>3, AnswerWire DEF BookmarksWired
  <2> QED  BY <1>1, <1>3, <2>1, AnswerWire DEF BookmarksWired
<1>5. /\ Head(toServer) = toServer[1] /\ 1 \in DOMAIN toServer
      /\ \A i \in DOMAIN toServer' : i + 1 \in DOMAIN toServer /\ toServer'[i] = toServer[i + 1]
                                     /\ i \in Nat \ {0}
    BY <1>4, OneLess DEF BookmarksHeld, BookmarksShape
<1>6. fromServer = <<>> /\ \A i \in DOMAIN toServer' : toServer'[i] \notin Asks
  <2>1. toServer[1] \in Asks
      BY <1>4, <1>5, BookmarkWords
  <2> QED  BY <1>5, <2>1 DEF BookmarksHeld, AskedFirst
<1>7. fromServer' = <<s>>
    BY <1>3, <1>4, <1>6
<1>8. 1 \in DOMAIN fromServer' /\ \A i \in DOMAIN fromServer' : i = 1 /\ fromServer'[i] = s
    BY <1>7
<1>9. BookmarksShape' /\ SessionTypeOK' /\ Bounded' /\ AskedFirst'
    BY <1>1, <1>4, <1>6, <1>8 DEF BookmarksHeld, BookmarksShape, BookmarksTypeOK, SessionTypeOK,
       BookmarksWired, Wired, AskedFirst
<1>10. BookmarksTold'
    BY <1>1, <1>2, <1>8 DEF BookmarksTold
<1>11. ASSUME OnePending PROVE OnePending'
  <2>1. \A i, j \in DOMAIN toServer' : toServer'[i] \in Stores /\ toServer'[j] \in Stores => i = j
    <3>1. SUFFICES ASSUME NEW i \in DOMAIN toServer', NEW j \in DOMAIN toServer',
                          toServer'[i] \in Stores, toServer'[j] \in Stores
                   PROVE  i = j
        OBVIOUS
    <3>2. i + 1 = j + 1
        BY <1>5, <1>11, <3>1 DEF OnePending
    <3> QED  BY <1>5, <3>2
  <2> QED  BY <1>1, <1>2, <1>5, <1>8, <1>11, <2>1 DEF OnePending
<1> QED  BY <1>1, <1>9, <1>10, <1>11 DEF BookmarksHeld

LEMMA BookmarksStored ==
    ASSUME BookmarksHeld, Bounded, SessionTypeOK, ServerStores
    PROVE  BookmarksHeld' /\ SessionTypeOK' /\ Bounded'
<1> DEFINE r == Head(toServer)
<1>1. UNCHANGED <<bookmarks, have, pending, ids, overlapped>>
    BY DEF ServerStores
<1>2. PICK s \in {Stored(r.id), Refused(r.id)} :
        /\ Answer({"store"}, <<s>>)
        /\ IF s = Stored(r.id) THEN stored' = r.set ELSE stored' = stored
  <2>1. Stored(r.id) # Refused(r.id)
      BY DEF Stored, Refused
  <2> QED  BY <2>1 DEF ServerStores
<1>3. toServer # <<>> /\ r.kind = "store" /\ r \in BookmarkRequests
    BY <1>2, OneLess DEF Answer, BookmarksHeld, BookmarksShape
<1>4. r \in Stores /\ r.id \in Nat \ {0} /\ r.set \in BookmarkSets
    BY <1>3, BookmarkWords
<1>5. /\ s \in BookmarkStanzas /\ s \in Verdicts /\ s \notin Shown /\ s.id = r.id
      /\ s.kind = "stored" => stored' = r.set
      /\ s.kind # "stored" => stored' = stored
    BY <1>2, <1>4 DEF Stored, Refused, BookmarkStanzas, Shown, Verdicts
<1>6. BookmarksWired /\ <<s>> \in Seq(BookmarkStanzas)
    BY <1>5 DEF BookmarksWired, Wired, BookmarksHeld, BookmarksShape
<1>7. /\ BookmarksWired' /\ phase = "Online" /\ UNCHANGED <<phase, told>>
      /\ toServer' = Tail(toServer) /\ fromServer' = fromServer \o <<s>>
    BY <1>2, <1>6, AnswerWire DEF BookmarksWired
<1>8. /\ r = toServer[1] /\ 1 \in DOMAIN toServer
      /\ \A i \in DOMAIN toServer' : i + 1 \in DOMAIN toServer /\ toServer'[i] = toServer[i + 1]
                                     /\ i \in Nat \ {0}
    BY <1>3, <1>7, OneLess DEF BookmarksHeld, BookmarksShape
<1>9. /\ DOMAIN fromServer' = 1 .. Len(fromServer) + 1 /\ DOMAIN fromServer = 1 .. Len(fromServer)
      /\ Len(fromServer) \in Nat /\ fromServer'[Len(fromServer) + 1] = s
      /\ \A i \in DOMAIN fromServer : fromServer'[i] = fromServer[i]
    BY <1>5, <1>7, OneMore DEF BookmarksHeld, BookmarksShape
<1> HIDE DEF r
<1>10. \A i \in DOMAIN toServer : toServer[i] \notin Asks
    BY <1>3, <1>4, <1>8, BookmarkWords DEF BookmarksHeld, AskedFirst
<1>11. stored' \in Sets
    BY <1>4, <1>5 DEF Sets, BookmarksHeld, BookmarksShape, BookmarksTypeOK
<1>12. BookmarksShape' /\ SessionTypeOK' /\ Bounded'
    BY <1>1, <1>7, <1>11 DEF BookmarksHeld, BookmarksShape, BookmarksTypeOK, Sets, SessionTypeOK,
       BookmarksWired, Wired
<1>13. AskedFirst'
    BY <1>5, <1>8, <1>9, <1>10 DEF BookmarksHeld, AskedFirst
<1>14. ASSUME OnePending, BookmarksTold
       PROVE  OnePending' /\ BookmarksTold'
  <2>1. /\ r.id = pending.id /\ r.set = pending.set
        /\ \A i \in DOMAIN fromServer : fromServer[i] \notin Verdicts
        /\ \A i \in DOMAIN toServer : toServer[i] \in Stores => i = 1
      BY <1>4, <1>8, <1>14 DEF OnePending
  <2>2. \A i \in DOMAIN toServer' : toServer'[i] \notin Stores
      BY <1>8, <2>1
  <2>3. OnePending'
      BY <1>1, <1>5, <1>9, <2>1, <2>2 DEF OnePending
  <2>4. Len(fromServer) + 1 \in DOMAIN fromServer'
      BY <1>9
  <2>5. CASE s.kind = "stored"
      BY <1>1, <1>5, <1>9, <2>1, <2>3, <2>4, <2>5 DEF BookmarksTold
  <2>6. CASE s.kind # "stored"
    <3>1. /\ \A i \in DOMAIN fromServer : fromServer[i].kind # "stored"
          /\ s.kind # "contents"
        BY <1>5, <2>1, BookmarkWords DEF BookmarksHeld, BookmarksShape
    <3>2. CASE \E i \in DOMAIN fromServer : fromServer[i].kind = "contents" /\ fromServer[i].set = stored
      <4>1. PICK i \in DOMAIN fromServer : fromServer[i].kind = "contents" /\ fromServer[i].set = stored
          BY <3>2
      <4>2. i \in DOMAIN fromServer' /\ fromServer'[i].kind = "contents" /\ fromServer'[i].set = stored'
          BY <1>5, <1>9, <2>6, <4>1
      <4>3. \A j \in DOMAIN fromServer' : fromServer'[j].kind # "stored"
          BY <1>9, <2>6, <3>1
      <4> QED  BY <2>3, <4>2, <4>3 DEF BookmarksTold
    <3>3. CASE (\A i \in DOMAIN fromServer : fromServer[i].kind # "contents") /\ bookmarks = stored
        BY <1>1, <1>5, <1>9, <2>3, <2>6, <3>1, <3>3 DEF BookmarksTold
    <3> QED  BY <1>7, <1>10, <1>14, <3>1, <3>2, <3>3 DEF BookmarksTold
  <2> QED  BY <2>3, <2>5, <2>6
<1> QED  BY <1>1, <1>12, <1>13, <1>14 DEF BookmarksHeld

\* What reading a stanza leaves behind.
LEMMA BookmarksTaken ==
    ASSUME BookmarksHeld, Bounded, SessionTypeOK, Take, UNCHANGED <<phase, told, toServer>>
    PROVE  /\ phase = "Online" /\ fromServer' \in Seq(BookmarkStanzas) /\ SessionTypeOK' /\ Bounded'
           /\ Head(fromServer) \in BookmarkStanzas /\ Head(fromServer) = fromServer[1]
           /\ 1 \in DOMAIN fromServer
           /\ \A i \in DOMAIN fromServer' : /\ i \in Nat \ {0} /\ i + 1 \in DOMAIN fromServer
                                            /\ fromServer'[i] = fromServer[i + 1]
           /\ \A i \in DOMAIN fromServer \ {1} : /\ i - 1 \in DOMAIN fromServer'
                                                 /\ fromServer'[i - 1] = fromServer[i]
           /\ \A i \in DOMAIN toServer : toServer[i] \notin Asks
           /\ \A i \in DOMAIN fromServer' : fromServer'[i] \notin Shown
           /\ AskedFirst'
<1>1. BookmarksWired
    BY DEF BookmarksWired, Wired, BookmarksHeld, BookmarksShape
<1>2. /\ phase = "Online" /\ fromServer # <<>> /\ fromServer' = Tail(fromServer)
      /\ fromServer' \in Seq(BookmarkStanzas) /\ Len(fromServer') <= MaxWire
    BY <1>1, TakeWire DEF BookmarksWired
<1>3. /\ Head(fromServer) \in BookmarkStanzas /\ Head(fromServer) = fromServer[1]
      /\ 1 \in DOMAIN fromServer
      /\ \A i \in DOMAIN fromServer' : /\ i \in Nat \ {0} /\ i + 1 \in DOMAIN fromServer
                                       /\ fromServer'[i] = fromServer[i + 1]
      /\ \A i \in DOMAIN fromServer \ {1} : /\ i - 1 \in DOMAIN fromServer'
                                            /\ fromServer'[i - 1] = fromServer[i]
    BY <1>2, OneLess DEF BookmarksHeld, BookmarksShape
<1>4. /\ \A i \in DOMAIN toServer : toServer[i] \notin Asks
      /\ \A i \in DOMAIN fromServer' : fromServer'[i] \notin Shown
  <2>1. ASSUME NEW i \in DOMAIN fromServer', fromServer'[i] \in Shown PROVE FALSE
    <3>1. i + 1 = 1 /\ i \in Nat \ {0}
        BY <1>3, <2>1 DEF BookmarksHeld, AskedFirst
    <3> QED  BY <3>1
  <2> QED  BY <1>2, <2>1 DEF BookmarksHeld, AskedFirst
<1>5. AskedFirst'
    BY <1>4 DEF AskedFirst
<1> QED  BY <1>2, <1>3, <1>4, <1>5 DEF SessionTypeOK, Bounded

LEMMA ContentsGot ==
    ASSUME BookmarksHeld, Bounded, SessionTypeOK, GetContents
    PROVE  BookmarksHeld' /\ SessionTypeOK' /\ Bounded'
<1> DEFINE s == Head(fromServer)
<1>1. /\ Take /\ s.kind = "contents" /\ bookmarks' = s.set /\ have' = TRUE
      /\ UNCHANGED <<phase, told, toServer, pending, ids, stored, overlapped>>
    BY DEF GetContents
<1>2. /\ phase = "Online" /\ fromServer' \in Seq(BookmarkStanzas) /\ SessionTypeOK' /\ Bounded'
      /\ s \in BookmarkStanzas /\ s = fromServer[1] /\ 1 \in DOMAIN fromServer
      /\ \A i \in DOMAIN fromServer' : /\ i \in Nat \ {0} /\ i + 1 \in DOMAIN fromServer
                                       /\ fromServer'[i] = fromServer[i + 1]
      /\ \A i \in DOMAIN fromServer \ {1} : /\ i - 1 \in DOMAIN fromServer'
                                            /\ fromServer'[i - 1] = fromServer[i]
      /\ \A i \in DOMAIN toServer : toServer[i] \notin Asks
      /\ \A i \in DOMAIN fromServer' : fromServer'[i] \notin Shown
      /\ AskedFirst'
    BY <1>1, BookmarksTaken
<1>3. s \in Shown /\ s \notin Verdicts /\ s.set \in Sets
    BY <1>1, <1>2, BookmarkWords DEF Verdicts
<1> HIDE DEF s
<1>4. BookmarksShape'
    BY <1>1, <1>2, <1>3 DEF BookmarksHeld, BookmarksShape, BookmarksTypeOK, Sets
<1>5. ASSUME OnePending PROVE OnePending'
  <2>1. ASSUME NEW i \in DOMAIN fromServer', NEW j \in DOMAIN fromServer',
               fromServer'[i] \in Verdicts, fromServer'[j] \in Verdicts
        PROVE  i = j
    <3>1. i + 1 = j + 1 /\ i \in Nat /\ j \in Nat
        BY <1>2, <1>5, <2>1 DEF OnePending
    <3> QED  BY <3>1
  <2> QED  BY <1>1, <1>2, <1>5, <2>1 DEF OnePending
<1>6. ASSUME BookmarksTold PROVE BookmarksTold'
  <2>1. CASE \E i \in DOMAIN fromServer : fromServer[i].kind = "stored" /\ pending.set = stored
    <3>1. PICK i \in DOMAIN fromServer : fromServer[i].kind = "stored" /\ pending.set = stored
        BY <2>1
    <3>2. i # 1
        BY <1>1, <1>2, <3>1 DEF s
    <3>3. i - 1 \in DOMAIN fromServer' /\ fromServer'[i - 1].kind = "stored"
        BY <1>2, <3>1, <3>2
    <3> QED  BY <1>1, <3>1, <3>3 DEF BookmarksTold
  <2>2. CASE /\ \A i \in DOMAIN fromServer : fromServer[i].kind # "stored"
             /\ \E i \in DOMAIN fromServer : fromServer[i].kind = "contents" /\ fromServer[i].set = stored
    <3>1. PICK i \in DOMAIN fromServer : fromServer[i].kind = "contents" /\ fromServer[i].set = stored
        BY <2>2
    <3>2. i = 1
      <4>1. fromServer[i] \in Shown
          BY <3>1, BookmarkWords DEF BookmarksHeld, BookmarksShape
      <4> QED  BY <4>1 DEF BookmarksHeld, AskedFirst
    <3>3. bookmarks' = stored'
        BY <1>1, <1>2, <3>1, <3>2
    <3>4. \A j \in DOMAIN fromServer' : fromServer'[j].kind # "contents"
        BY <1>2, BookmarkWords
    <3> QED  BY <1>2, <2>2, <3>3, <3>4 DEF BookmarksTold
  <2>3. fromServer[1].kind = "contents"
      BY <1>1, <1>2 DEF s
  <2> QED  BY <1>2, <1>6, <2>1, <2>2, <2>3 DEF BookmarksTold
<1> QED  BY <1>1, <1>2, <1>4, <1>5, <1>6 DEF BookmarksHeld

LEMMA AnswerGot ==
    ASSUME BookmarksHeld, Bounded, SessionTypeOK, GetAnswer
    PROVE  BookmarksHeld' /\ SessionTypeOK' /\ Bounded'
<1> DEFINE s == Head(fromServer)
<1>1. /\ Take /\ s.kind \in {"stored", "refused"}
      /\ UNCHANGED <<phase, told, toServer, have, ids, stored, overlapped>>
    BY DEF GetAnswer
<1>2. IF s.id = pending.id
      THEN /\ pending' = [pending EXCEPT !.id = 0]
           /\ bookmarks' = IF s.kind = "stored" THEN pending.set ELSE bookmarks
      ELSE UNCHANGED <<bookmarks, pending>>
    BY DEF GetAnswer
<1>3. /\ phase = "Online" /\ fromServer' \in Seq(BookmarkStanzas) /\ SessionTypeOK' /\ Bounded'
      /\ s \in BookmarkStanzas /\ s = fromServer[1] /\ 1 \in DOMAIN fromServer
      /\ \A i \in DOMAIN fromServer' : /\ i \in Nat \ {0} /\ i + 1 \in DOMAIN fromServer
                                       /\ fromServer'[i] = fromServer[i + 1]
      /\ \A i \in DOMAIN fromServer \ {1} : /\ i - 1 \in DOMAIN fromServer'
                                            /\ fromServer'[i - 1] = fromServer[i]
      /\ \A i \in DOMAIN toServer : toServer[i] \notin Asks
      /\ \A i \in DOMAIN fromServer' : fromServer'[i] \notin Shown
      /\ AskedFirst'
    BY <1>1, BookmarksTaken
<1>4. s \in Verdicts /\ s \notin Shown /\ s.kind # "contents"
    BY <1>1, <1>3, BookmarkWords
<1> HIDE DEF s
<1>5. BookmarksShape'
  <2>1. /\ pending'.set = pending.set /\ pending'.id \in {0, pending.id} /\ DOMAIN pending' = {"id", "set"}
        /\ bookmarks' \in {bookmarks, pending.set}
      BY <1>2 DEF BookmarksHeld, BookmarksShape
  <2> QED  BY <1>1, <1>3, <2>1, BookmarksAssumption DEF BookmarksHeld, BookmarksShape, BookmarksTypeOK
<1>6. ASSUME OnePending, BookmarksTold
      PROVE  OnePending' /\ BookmarksTold'
  <2>1. /\ s.id = pending.id
        /\ \A i \in DOMAIN fromServer : fromServer[i] \in Verdicts => i = 1
        /\ \A i \in DOMAIN toServer : toServer[i] \notin Stores
      BY <1>3, <1>4, <1>6 DEF OnePending
  <2>2. \A i \in DOMAIN fromServer' : fromServer'[i] \notin Verdicts
    <3>1. ASSUME NEW i \in DOMAIN fromServer', fromServer'[i] \in Verdicts PROVE FALSE
      <4>1. i + 1 = 1 /\ i \in Nat \ {0}
          BY <1>3, <2>1, <3>1
      <4> QED  BY <4>1
    <3> QED  BY <3>1
  <2>3. OnePending'
      BY <1>1, <2>1, <2>2 DEF OnePending
  <2>4. \A i \in DOMAIN fromServer' : fromServer'[i].kind # "stored" /\ fromServer'[i].kind # "contents"
      BY <1>3, <2>2, BookmarkWords
  <2>5. bookmarks' = stored
    <3>1. CASE s.kind = "stored"
      <4>1. pending.set = stored
          BY <1>3, <1>6, <3>1 DEF BookmarksTold
      <4> QED  BY <1>2, <2>1, <3>1, <4>1
    <3>2. CASE s.kind = "refused"
      <4>1. \A i \in DOMAIN fromServer : fromServer[i].kind # "stored"
          BY <1>3, <2>1, <3>2, BookmarkWords DEF BookmarksHeld, BookmarksShape
      <4>2. \A i \in DOMAIN fromServer : fromServer[i].kind # "contents"
          BY <1>3, <1>4, BookmarkWords DEF BookmarksHeld, BookmarksShape, AskedFirst
      <4>3. bookmarks = stored
          BY <1>3, <1>6, <4>1, <4>2 DEF BookmarksTold
      <4> QED  BY <1>2, <2>1, <3>2, <4>3
    <3> QED  BY <1>1, <3>1, <3>2 DEF s
  <2> QED  BY <1>1, <2>3, <2>4, <2>5 DEF BookmarksTold
<1> QED  BY <1>1, <1>3, <1>5, <1>6 DEF BookmarksHeld

LEMMA BookmarksStep ==
    ASSUME Told, BookmarksForgotten, BookmarksHeld, Bounded, SessionTypeOK, BookmarksNext
    PROVE  Told' /\ BookmarksForgotten' /\ BookmarksHeld' /\ SessionTypeOK' /\ Bounded'
<1>1. Told' /\ BookmarksForgotten'
    BY BookmarksKeep
<1>2. BookmarksHeld' /\ SessionTypeOK' /\ Bounded'
    BY BookmarksTried, BookmarksOpened, BookmarksClosed, BookmarksSet, BookmarksShown, BookmarksStored,
       ContentsGot, AnswerGot
       DEF BookmarksNext
<1> QED  BY <1>1, <1>2

LEMMA BookmarksMean ==
    ASSUME BookmarksHeld
    PROVE  BookmarksAgree
    BY DEF BookmarksHeld, BookmarksTold, BookmarksAgree, Quiet

-----------------------------------------------------------------------------
(* The permissions, step by step.                                          *)

LEMMA PermissionWords ==
    /\ \A s \in PermissionRequests :
         /\ s.kind \in {"ask", "change"}
         /\ s.kind = "ask" => s.id \in Ids
         /\ s.kind = "change" => s.items \in Grants
    /\ \A s \in PermissionLists : s.kind = "list" /\ s.id \in Ids /\ s.who \in SUBSET Members
    /\ \A id \in Ids : id[1] \in Nat /\ id[2] \in Affiliations /\ id = <<id[1], id[2]>>
<1>1. \A s \in PermissionRequests :
        \/ s \in [kind : {"ask"}, id : Ids] /\ s.kind = "ask"
        \/ s \in [kind : {"change"}, items : Grants] /\ s.kind = "change"
    BY DEF PermissionRequests
<1>2. \A id \in Ids : id[1] \in Nat /\ id[2] \in Affiliations /\ id = <<id[1], id[2]>>
    BY DEF Ids
<1> QED  BY <1>1, <1>2 DEF PermissionLists

PermissionsWired == Wired(PermissionRequests, PermissionLists)

\* Nothing is under way, and nothing is claimed.
LEMMA PermissionsAway ==
    ASSUME PermissionsTypeOK', (queue \subseteq Of(round))', stage' = "none", wanted' = NoTable,
           toServer' = <<>>, fromServer' = <<>>
    PROVE  PermissionsHeld' /\ Bounded'
<1>1. toServer' \in Seq(PermissionRequests) /\ fromServer' \in Seq(PermissionLists) /\ Bounded'
    BY WireAssumption DEF Bounded
<1>2. PermissionsShape' /\ NotLater'
    BY <1>1 DEF PermissionsShape, NotLater
<1>3. ChangeFirst' /\ ListsTrue' /\ WantedComes'
    BY DEF ChangeFirst, ListsTrue, WantedComes
<1> QED  BY <1>1, <1>2, <1>3 DEF PermissionsHeld

LEMMA PermissionsTried ==
    ASSUME PermissionsHeld, SessionTypeOK, Tries, UNCHANGED permissionsVars
    PROVE  PermissionsHeld' /\ SessionTypeOK' /\ Bounded'
<1>1. /\ phase # "Online" /\ phase' # "Online" /\ SessionTypeOK'
      /\ UNCHANGED <<told, toServer, fromServer, permissions, queue, round, table, stage, wanted>>
    BY DEF Tries, Attempt, GiveUp, SessionTypeOK, wire, permissionsVars
<1>2. toServer' = <<>> /\ fromServer' = <<>> /\ stage' = "none" /\ wanted' = NoTable
    BY <1>1 DEF PermissionsHeld, PermissionsShape, NoTable
<1>3. PermissionsTypeOK' /\ (queue \subseteq Of(round))'
    BY <1>1 DEF PermissionsHeld, PermissionsShape, PermissionsTypeOK, NotLater, Of, Tables, NoTable
<1> QED  BY <1>1, <1>2, <1>3, PermissionsAway

LEMMA PermissionsOpenedOrClosed ==
    ASSUME PermissionsHeld, SessionTypeOK, PermissionsOpens \/ PermissionsCloses
    PROVE  PermissionsHeld' /\ SessionTypeOK' /\ Bounded'
<1>1. /\ SessionTypeOK' /\ toServer' = <<>> /\ fromServer' = <<>> /\ stage' = "none" /\ wanted' = NoTable
      /\ UNCHANGED <<permissions, queue, round, table>>
    BY DEF PermissionsOpens, PermissionsCloses, Opens, Establish, Closes, Drop, Notify, SessionTypeOK, NoTable
<1>2. PermissionsTypeOK' /\ (queue \subseteq Of(round))'
    BY <1>1 DEF PermissionsHeld, PermissionsShape, PermissionsTypeOK, NotLater, Of, Tables
<1> QED  BY <1>1, <1>2, PermissionsAway

LEMMA OrderType ==
    /\ SetToSeq(Affiliations) \in Seq(Affiliations)
    /\ \A n \in Nat : [i \in DOMAIN SetToSeq(Affiliations) |-> Ask(n, SetToSeq(Affiliations)[i])]
                        \in Seq(PermissionRequests)
<1>1. SetToSeq(Affiliations) \in Seq(Affiliations)
    BY SetToSeqCounts, PermissionsAssumption
<1> DEFINE order == SetToSeq(Affiliations)
<1> HIDE DEF order
<1>2. order \in Seq(Affiliations)
    BY <1>1 DEF order
<1>3. \A n \in Nat : [i \in DOMAIN order |-> Ask(n, order[i])] \in Seq(PermissionRequests)
  <2>1. SUFFICES ASSUME NEW n \in Nat
                 PROVE  [i \in DOMAIN order |-> Ask(n, order[i])] \in Seq(PermissionRequests)
      OBVIOUS
  <2>2. \A a \in Affiliations : Ask(n, a) \in PermissionRequests
      BY DEF Ask, PermissionRequests, Ids
  <2>3. DOMAIN order = 1 .. Len(order) /\ Len(order) \in Nat /\ \A i \in DOMAIN order : order[i] \in Affiliations
      BY <1>2
  <2>4. [i \in DOMAIN order |-> Ask(n, order[i])] \in [1 .. Len(order) -> PermissionRequests]
      BY <2>2, <2>3
  <2> QED  BY <2>3, <2>4
<1> QED  BY <1>1, <1>3 DEF order

LEMMA PermissionsRequested ==
    ASSUME PermissionsHeld, Bounded, SessionTypeOK, RequestPermissions
    PROVE  PermissionsHeld' /\ SessionTypeOK' /\ Bounded'
<1>1. /\ permissions' = Nothing /\ wanted' = NoTable /\ UNCHANGED <<phase, told, fromServer, table>>
      /\ permissions' \in [Members -> Affiliations \cup {NoAffiliation, Unspecified}]
    BY DEF RequestPermissions, Nothing
<1>2. CASE phase = "Online"
  <2> DEFINE order == SetToSeq(Affiliations)
             p == [i \in DOMAIN order |-> Ask(round', order[i])]
  <2>1. /\ round < MaxRounds /\ round' = round + 1 /\ Send(p)
        /\ queue' = {<<round', a>> : a \in Affiliations} /\ stage' = "asked"
      BY <1>2 DEF RequestPermissions
  <2>2. round \in Nat /\ round' \in 0 .. MaxRounds /\ round' \in 1 .. MaxRounds /\ round' \in Nat
      BY <2>1, PermissionsAssumption DEF PermissionsHeld, PermissionsShape, PermissionsTypeOK
  <2>3. p \in Seq(PermissionRequests)
      BY <2>2, OrderType
  <2>4. \A i \in DOMAIN p : p[i].kind = "ask" /\ p[i].id[1] = round'
      BY DEF Ask
  <2> HIDE DEF p
  <2>5. PermissionsWired
      BY DEF PermissionsWired, Wired, PermissionsHeld, PermissionsShape
  <2>6. toServer' \in Seq(PermissionRequests) /\ Len(toServer') <= MaxWire
      BY <2>1, <2>3, <2>5, SendWire DEF PermissionsWired
  <2>7. toServer' = toServer \o p
      BY <1>2, <2>1 DEF Send
  <2>8. /\ DOMAIN toServer = 1 .. Len(toServer) /\ Len(toServer) \in Nat
        /\ \A i \in DOMAIN toServer : toServer'[i] = toServer[i]
        /\ \A i \in DOMAIN toServer' : /\ i \in Nat
                                       /\ i \in DOMAIN toServer \/ i > Len(toServer)
                                       /\ i \notin DOMAIN toServer =>
                                            toServer'[i].kind = "ask" /\ toServer'[i].id[1] = round'
    <3>1. /\ DOMAIN (toServer \o p) = 1 .. Len(toServer) + Len(p)
          /\ DOMAIN toServer = 1 .. Len(toServer) /\ {Len(toServer), Len(p)} \subseteq Nat
          /\ \A i \in DOMAIN toServer : (toServer \o p)[i] = toServer[i]
          /\ \A i \in DOMAIN (toServer \o p) : i \notin DOMAIN toServer =>
               i - Len(toServer) \in DOMAIN p /\ (toServer \o p)[i] = p[i - Len(toServer)]
        BY <2>3, Joined DEF PermissionsHeld, PermissionsShape
    <3> QED  BY <2>4, <2>7, <3>1
  <2>9. queue' = {round'} \X Affiliations
      BY <2>1
  <2>10. PermissionsShape' /\ SessionTypeOK' /\ Bounded'
    <3>1. PermissionsTypeOK'
      <4>1. queue' \subseteq (1 .. MaxRounds) \X Affiliations
          BY <2>2, <2>9
      <4> QED  BY <1>1, <2>1, <2>2, <4>1 DEF PermissionsHeld, PermissionsShape, PermissionsTypeOK, Tables, NoTable
    <3> QED  BY <1>1, <1>2, <2>6, <3>1 DEF PermissionsHeld, PermissionsShape, SessionTypeOK, Bounded
  <2>11. \A i \in DOMAIN fromServer : fromServer[i].id[1] \in Nat /\ fromServer[i].id[1] <= round
      BY PermissionWords DEF PermissionsHeld, PermissionsShape, NotLater
  <2>12. \A i \in DOMAIN toServer : toServer[i].kind = "ask" =>
           toServer[i].id[1] \in Nat /\ toServer[i].id[1] <= round
      BY PermissionWords DEF PermissionsHeld, PermissionsShape, NotLater
  <2>13. NotLater'
    <3>1. \A i \in DOMAIN toServer' : toServer'[i].kind = "ask" => toServer'[i].id[1] <= round'
        BY <2>1, <2>2, <2>8, <2>12
    <3>2. \A i \in DOMAIN fromServer : fromServer[i].id[1] <= round'
        BY <2>1, <2>2, <2>11
    <3> QED  BY <1>1, <2>9, <3>1, <3>2 DEF NotLater, Of
  <2>14. ChangeFirst'
    <3>1. \A i \in DOMAIN fromServer : fromServer[i].id[1] # round'
        BY <2>1, <2>2, <2>11
    <3>2. ASSUME NEW i \in DOMAIN toServer', toServer'[i].kind = "change"
          PROVE  \A j \in DOMAIN toServer' : j < i /\ toServer'[j].kind = "ask" => toServer'[j].id[1] # round'
      <4>1. i \in DOMAIN toServer
          BY <2>8, <3>2
      <4>2. \A j \in DOMAIN toServer' : j < i => j \in DOMAIN toServer
          BY <2>8, <4>1
      <4> QED  BY <2>1, <2>2, <2>8, <2>12, <4>2
    <3> QED  BY <1>1, <2>1, <2>9, <3>1, <3>2 DEF ChangeFirst, Of
  <2>15. ListsTrue'
    <3>1. \A i \in DOMAIN fromServer : fromServer[i].id[1] # round'
        BY <2>1, <2>2, <2>11
    <3>2. \A m \in Members : table'[m] = NoAffiliation \/ <<round', table'[m]>> \in queue'
        BY <1>1, <2>9 DEF PermissionsHeld, PermissionsShape, PermissionsTypeOK, Tables
    <3>3. permissions' = Received(queue)'
        BY <1>1, <3>2 DEF Received, Nothing
    <3> QED  BY <1>1, <2>1, <3>1, <3>3 DEF ListsTrue
  <2>16. WantedComes'
      BY <1>1 DEF WantedComes
  <2> QED  BY <2>10, <2>13, <2>14, <2>15, <2>16 DEF PermissionsHeld
<1>3. CASE phase # "Online"
  <2>1. queue' = {} /\ stage' = "none" /\ UNCHANGED <<toServer, round>>
      BY <1>3 DEF RequestPermissions
  <2>2. toServer' = <<>> /\ fromServer' = <<>>
      BY <1>1, <1>3, <2>1 DEF PermissionsHeld, PermissionsShape
  <2>3. PermissionsTypeOK' /\ (queue \subseteq Of(round))' /\ SessionTypeOK'
      BY <1>1, <2>1 DEF PermissionsHeld, PermissionsShape, PermissionsTypeOK, SessionTypeOK, Tables, NoTable
  <2> QED  BY <1>1, <2>1, <2>2, <2>3, PermissionsAway
<1> QED  BY <1>2, <1>3

\* What the differences to the table received make of the table.
LEMMA ChangesMake ==
    ASSUME NEW new \in Tables, table \in Tables, permissions = Received({})
    PROVE  /\ Changes(new) = {} => table = new
           /\ Made(table, Changes(new)) = new
<1>1. ASSUME NEW m \in Members
      PROVE  /\ new[m] \in Affiliations \cup {NoAffiliation} /\ table[m] \in Affiliations \cup {NoAffiliation}
             /\ permissions[m] = IF table[m] = NoAffiliation THEN Unspecified ELSE table[m]
             /\ NoAffiliation # Unspecified
             /\ NoAffiliation \notin Affiliations /\ Unspecified \notin Affiliations
    BY <1>1, PermissionsAssumption DEF Tables, Received, NoAffiliation, Unspecified
<1>2. \A m \in Members : \A a : <<m, a>> \in Changes(new) => a = new[m]
    BY DEF Changes
<1>3. \A m \in Members : <<m, new[m]>> \notin Changes(new) => table[m] = new[m]
    BY <1>1 DEF Changes
<1>4. table = [m \in Members |-> table[m]] /\ new = [m \in Members |-> new[m]]
    BY DEF Tables
<1>5. ASSUME NEW m \in Members PROVE Made(table, Changes(new))[m] = new[m]
  <2>1. CASE <<m, new[m]>> \in Changes(new)
    <3>1. \E a \in Affiliations \cup {NoAffiliation} : <<m, a>> \in Changes(new)
        BY <1>1, <2>1
    <3>2. (CHOOSE a \in Affiliations \cup {NoAffiliation} : <<m, a>> \in Changes(new)) = new[m]
        BY <1>2, <3>1
    <3> QED  BY <3>1, <3>2 DEF Made
  <2>2. CASE <<m, new[m]>> \notin Changes(new)
    <3>1. ~\E a \in Affiliations \cup {NoAffiliation} : <<m, a>> \in Changes(new)
        BY <1>2, <2>2
    <3> QED  BY <1>3, <2>2, <3>1 DEF Made
  <2> QED  BY <2>1, <2>2
<1>6. Made(table, Changes(new)) = [m \in Members |-> Made(table, Changes(new))[m]]
    BY DEF Made
<1> QED  BY <1>3, <1>4, <1>5, <1>6

LEMMA PermissionsSet ==
    ASSUME PermissionsHeld, Bounded, SessionTypeOK, SetPermissions
    PROVE  PermissionsHeld' /\ SessionTypeOK' /\ Bounded'
<1>1. PICK new \in Tables :
        /\ permissions' = Nothing
        /\ Send(IF Changes(new) = {} THEN <<>> ELSE <<Change(Changes(new))>>)
        /\ wanted' = IF stage = "received" THEN new ELSE NoTable
    BY DEF SetPermissions
<1> DEFINE s == Change(Changes(new))
           p == IF Changes(new) = {} THEN <<>> ELSE <<s>>
<1>2. stage' = "none" /\ UNCHANGED <<phase, told, fromServer, queue, round, table>>
    BY DEF SetPermissions
<1>3. s \in PermissionRequests /\ s.kind = "change" /\ s.items = Changes(new)
  <2>1. Changes(new) \in Grants
      BY DEF Changes, Grants, Tables
  <2> QED  BY <2>1 DEF Change, PermissionRequests
<1> HIDE DEF s
<1>4. p \in Seq(PermissionRequests) /\ \A i \in DOMAIN p : p[i].kind = "change"
    BY <1>3
<1>5. Send(p)
    BY <1>1 DEF s
<1>6. PermissionsWired
    BY DEF PermissionsWired, Wired, PermissionsHeld, PermissionsShape
<1> HIDE DEF p
<1>7. /\ toServer' \in Seq(PermissionRequests) /\ Len(toServer') <= MaxWire
      /\ toServer' \in {toServer, toServer \o p}
      /\ phase # "Online" => toServer' = toServer
    BY <1>4, <1>5, <1>6, SendWire DEF PermissionsWired
<1>8. /\ DOMAIN (toServer \o p) = 1 .. Len(toServer) + Len(p)
      /\ DOMAIN toServer = 1 .. Len(toServer) /\ {Len(toServer), Len(p)} \subseteq Nat
      /\ \A i \in DOMAIN toServer : (toServer \o p)[i] = toServer[i]
      /\ \A i \in DOMAIN (toServer \o p) : i \notin DOMAIN toServer =>
           i - Len(toServer) \in DOMAIN p /\ (toServer \o p)[i] = p[i - Len(toServer)]
    BY <1>4, Joined DEF PermissionsHeld, PermissionsShape
<1>9. wanted' \in Tables \cup {NoTable} /\ (wanted' # NoTable => stage = "received" /\ wanted' = new)
    BY <1>1
<1>10. phase # "Online" => wanted' = NoTable
    BY <1>9 DEF PermissionsHeld, PermissionsShape
<1>11. PermissionsShape' /\ SessionTypeOK' /\ Bounded'
  <2>1. PermissionsTypeOK'
      BY <1>1, <1>2, <1>9 DEF PermissionsHeld, PermissionsShape, PermissionsTypeOK, Nothing
  <2> QED  BY <1>2, <1>7, <1>10, <2>1 DEF PermissionsHeld, PermissionsShape, SessionTypeOK, Bounded
<1>12. NotLater'
  <2>1. \A i \in DOMAIN toServer' : toServer'[i].kind = "ask" =>
          i \in DOMAIN toServer /\ toServer'[i] = toServer[i]
      BY <1>4, <1>7, <1>8
  <2> QED  BY <1>2, <2>1 DEF PermissionsHeld, NotLater, Of
<1>13. ChangeFirst' /\ ListsTrue'
    BY <1>2 DEF ChangeFirst, ListsTrue
<1>14. ASSUME wanted' # NoTable PROVE WantedComes'
  <2>1. stage = "received" /\ wanted' = new /\ phase = "Online"
      BY <1>9, <1>10, <1>14
  <2>2. permissions = Received({}) /\ \A i \in DOMAIN toServer : toServer[i].kind # "change"
      BY <2>1 DEF PermissionsHeld, ListsTrue, ChangeFirst
  <2>3. /\ Changes(new) = {} => table = new
        /\ Made(table, Changes(new)) = new
      BY <2>2, ChangesMake DEF PermissionsHeld, PermissionsShape, PermissionsTypeOK
  <2>4. toServer' = toServer \o p
      BY <1>5, <2>1 DEF Send
  <2>5. CASE Changes(new) = {}
    <3>1. p = <<>>
        BY <2>5 DEF p
    <3>2. toServer' = toServer
        BY <2>4, <3>1 DEF PermissionsHeld, PermissionsShape
    <3> QED  BY <1>2, <2>1, <2>2, <2>3, <2>5, <3>2 DEF WantedComes
  <2>6. CASE Changes(new) # {}
    <3>1. p = <<s>>
        BY <2>6 DEF p
    <3>2. /\ DOMAIN toServer' = 1 .. Len(toServer) + 1 /\ DOMAIN toServer = 1 .. Len(toServer)
          /\ Len(toServer) \in Nat /\ toServer'[Len(toServer) + 1] = s
          /\ \A i \in DOMAIN toServer : toServer'[i] = toServer[i]
        BY <1>3, <2>4, <3>1, OneMore DEF PermissionsHeld, PermissionsShape
    <3>3. Len(toServer) + 1 \in DOMAIN toServer'
          /\ \A j \in DOMAIN toServer' : toServer'[j].kind = "change" => j = Len(toServer) + 1
        BY <2>2, <3>2
    <3>4. toServer'[Len(toServer) + 1].kind = "change" /\ toServer'[Len(toServer) + 1].items = Changes(new)
        BY <1>3, <3>2
    <3>5. Made(table, Changes(new)) = wanted'
        BY <2>1, <2>3
    <3> QED  BY <1>2, <3>3, <3>4, <3>5 DEF WantedComes
  <2> QED  BY <2>5, <2>6
<1> QED  BY <1>11, <1>12, <1>13, <1>14 DEF PermissionsHeld, WantedComes

LEMMA PermissionsListed ==
    ASSUME PermissionsHeld, Bounded, SessionTypeOK, ServerLists
    PROVE  PermissionsHeld' /\ SessionTypeOK' /\ Bounded'
<1> DEFINE r == Head(toServer)
           s == List(r.id, {m \in Members : table[m] = r.id[2]})
<1>1. /\ toServer # <<>> /\ Answer({"ask"}, <<s>>)
      /\ UNCHANGED <<permissions, queue, round, table, stage, wanted>>
    BY DEF ServerLists, permissionsVars
<1>2. r \in PermissionRequests /\ r.kind = "ask"
    BY <1>1, OneLess DEF Answer, PermissionsHeld, PermissionsShape
<1>3. /\ s \in PermissionLists /\ s.id = r.id /\ r.id \in Ids
      /\ s.who = {m \in Members : table[m] = s.id[2]}
    BY <1>2, PermissionWords DEF List, PermissionLists
<1> HIDE DEF s
<1>4. PermissionsWired /\ <<s>> \in Seq(PermissionLists)
    BY <1>3 DEF PermissionsWired, Wired, PermissionsHeld, PermissionsShape
<1>5. /\ PermissionsWired' /\ phase = "Online" /\ UNCHANGED <<phase, told>>
      /\ toServer' = Tail(toServer) /\ fromServer' = fromServer \o <<s>>
    BY <1>1, <1>4, AnswerWire DEF PermissionsWired
<1>6. /\ r = toServer[1] /\ 1 \in DOMAIN toServer
      /\ \A i \in DOMAIN toServer' : /\ i \in Nat \ {0} /\ i + 1 \in DOMAIN toServer
                                     /\ toServer'[i] = toServer[i + 1]
      /\ \A i \in DOMAIN toServer \ {1} : i \in Nat /\ i - 1 \in DOMAIN toServer' /\ toServer'[i - 1] = toServer[i]
    BY <1>1, <1>5, OneLess DEF PermissionsHeld, PermissionsShape
<1>7. \A i \in DOMAIN fromServer' :
        (i \in DOMAIN fromServer /\ fromServer'[i] = fromServer[i]) \/ fromServer'[i] = s
    BY <1>3, <1>5, OneMore DEF PermissionsHeld, PermissionsShape
<1> HIDE DEF r
<1>8. PermissionsShape' /\ SessionTypeOK' /\ Bounded'
    BY <1>1, <1>5 DEF PermissionsHeld, PermissionsShape, PermissionsTypeOK, Tables, NoTable, SessionTypeOK,
       PermissionsWired, Wired
<1>9. NotLater'
  <2>1. s.id[1] <= round
      BY <1>2, <1>3, <1>6 DEF PermissionsHeld, NotLater
  <2> QED  BY <1>1, <1>6, <1>7, <2>1 DEF PermissionsHeld, NotLater, Of
<1>10. ChangeFirst'
  <2>1. SUFFICES ASSUME stage # "none", NEW i \in DOMAIN toServer', toServer'[i].kind = "change"
                 PROVE  /\ queue = Of(round) /\ stage = "asked" /\ wanted = NoTable
                        /\ \A j \in DOMAIN toServer' : j < i /\ toServer'[j].kind = "ask" =>
                             toServer'[j].id[1] # round
                        /\ \A j \in DOMAIN fromServer' : fromServer'[j].id[1] # round
      BY <1>1 DEF ChangeFirst, Of, NoTable
  <2>2. i + 1 \in DOMAIN toServer /\ toServer[i + 1].kind = "change" /\ i \in Nat \ {0}
      BY <1>6, <2>1
  <2>3. /\ queue = Of(round) /\ stage = "asked" /\ wanted = NoTable
        /\ \A j \in DOMAIN toServer : j < i + 1 /\ toServer[j].kind = "ask" => toServer[j].id[1] # round
        /\ \A j \in DOMAIN fromServer : fromServer[j].id[1] # round
      BY <2>1, <2>2 DEF PermissionsHeld, ChangeFirst
  <2>4. s.id[1] # round
      BY <1>2, <1>3, <1>6, <2>2, <2>3
  <2>5. \A j \in DOMAIN toServer' : j < i /\ toServer'[j].kind = "ask" => toServer'[j].id[1] # round
      BY <1>6, <2>2, <2>3
  <2> QED  BY <1>7, <2>3, <2>4, <2>5
<1>11. ListsTrue'
    BY <1>1, <1>3, <1>7 DEF PermissionsHeld, ListsTrue, Received
<1>12. WantedComes'
  <2>1. SUFFICES ASSUME wanted # NoTable PROVE WantedComes'
      BY <1>1 DEF WantedComes, NoTable
  <2>2. CASE (\A i \in DOMAIN toServer : toServer[i].kind # "change") /\ table = wanted
      BY <1>1, <1>6, <2>2 DEF WantedComes
  <2>3. ASSUME NEW i \in DOMAIN toServer, toServer[i].kind = "change", Made(table, toServer[i].items) = wanted,
               \A j \in DOMAIN toServer : toServer[j].kind = "change" => j = i
        PROVE  WantedComes'
    <3>1. i # 1
        BY <1>2, <1>6, <2>3
    <3>2. /\ i - 1 \in DOMAIN toServer' /\ toServer'[i - 1].kind = "change"
          /\ Made(table, toServer'[i - 1].items) = wanted
        BY <1>6, <2>3, <3>1
    <3>3. \A j \in DOMAIN toServer' : toServer'[j].kind = "change" => j = i - 1
        BY <1>6, <2>3
    <3> QED  BY <1>1, <3>2, <3>3 DEF WantedComes
  <2> QED  BY <2>1, <2>2, <2>3 DEF PermissionsHeld, WantedComes
<1> QED  BY <1>8, <1>9, <1>10, <1>11, <1>12 DEF PermissionsHeld

LEMMA PermissionsChanged ==
    ASSUME PermissionsHeld, Bounded, SessionTypeOK, ServerChanges
    PROVE  PermissionsHeld' /\ SessionTypeOK' /\ Bounded'
<1> DEFINE r == Head(toServer)
<1>1. /\ toServer # <<>> /\ Answer({"change"}, <<>>) /\ UNCHANGED <<permissions, queue, round, stage>>
      /\ (table' = Made(table, r.items) /\ wanted' = wanted) \/ (wanted' = NoTable /\ table' = table)
    BY DEF ServerChanges, Made
<1>2. r \in PermissionRequests /\ r.kind = "change"
    BY <1>1, OneLess DEF Answer, PermissionsHeld, PermissionsShape
<1>3. PermissionsWired /\ <<>> \in Seq(PermissionLists)
    BY DEF PermissionsWired, Wired, PermissionsHeld, PermissionsShape
<1>4. /\ PermissionsWired' /\ phase = "Online" /\ UNCHANGED <<phase, told>>
      /\ toServer' = Tail(toServer) /\ fromServer' = fromServer \o <<>>
    BY <1>1, <1>3, AnswerWire DEF PermissionsWired
<1>5. fromServer' = fromServer
    BY <1>4 DEF PermissionsHeld, PermissionsShape
<1>6. /\ r = toServer[1] /\ 1 \in DOMAIN toServer
      /\ \A i \in DOMAIN toServer' : /\ i \in Nat \ {0} /\ i + 1 \in DOMAIN toServer
                                     /\ toServer'[i] = toServer[i + 1]
      /\ \A i \in DOMAIN toServer \ {1} : i \in Nat /\ i - 1 \in DOMAIN toServer' /\ toServer'[i - 1] = toServer[i]
    BY <1>1, <1>4, OneLess DEF PermissionsHeld, PermissionsShape
<1> HIDE DEF r
<1>7. table' \in Tables
    BY <1>1 DEF Made, PermissionsHeld, PermissionsShape, PermissionsTypeOK, Tables
<1>8. wanted' \in Tables \cup {NoTable}
    BY <1>1 DEF PermissionsHeld, PermissionsShape, PermissionsTypeOK
<1>9. PermissionsShape' /\ SessionTypeOK' /\ Bounded'
    BY <1>1, <1>4, <1>5, <1>7, <1>8 DEF PermissionsHeld, PermissionsShape, PermissionsTypeOK, SessionTypeOK,
       PermissionsWired, Wired, Tables, NoTable
<1>10. NotLater'
    BY <1>1, <1>5, <1>6 DEF PermissionsHeld, NotLater, Of
\* As a change comes first, nothing of the table has been received.
<1>11. ASSUME stage # "none"
       PROVE  /\ queue = Of(round) /\ stage = "asked" /\ wanted = NoTable /\ wanted' = NoTable
              /\ \A j \in DOMAIN fromServer : fromServer[j].id[1] # round
  <2>1. toServer[1].kind = "change"
      BY <1>2, <1>6
  <2> QED  BY <1>1, <1>6, <1>11, <2>1 DEF PermissionsHeld, ChangeFirst
<1>12. ChangeFirst'
  <2>1. SUFFICES ASSUME stage # "none", NEW i \in DOMAIN toServer', toServer'[i].kind = "change"
                 PROVE  \A j \in DOMAIN toServer' : j < i /\ toServer'[j].kind = "ask" =>
                          toServer'[j].id[1] # round
      BY <1>1, <1>5, <1>11 DEF ChangeFirst, Of, NoTable
  <2>2. i + 1 \in DOMAIN toServer /\ toServer[i + 1].kind = "change" /\ i \in Nat \ {0}
      BY <1>6, <2>1
  <2>3. \A j \in DOMAIN toServer : j < i + 1 /\ toServer[j].kind = "ask" => toServer[j].id[1] # round
      BY <2>1, <2>2 DEF PermissionsHeld, ChangeFirst
  <2> QED  BY <1>6, <2>2, <2>3
<1>13. ListsTrue'
  <2>1. SUFFICES ASSUME stage # "none" PROVE ListsTrue'
      BY <1>1 DEF ListsTrue
  <2>2. \A m \in Members : /\ table[m] = NoAffiliation \/ <<round, table[m]>> \in queue
                           /\ table'[m] = NoAffiliation \/ <<round, table'[m]>> \in queue
      BY <1>7, <1>11, <2>1 DEF PermissionsHeld, PermissionsShape, PermissionsTypeOK, Tables, Of
  <2>3. permissions' = Received(queue)'
      BY <1>1, <2>1, <2>2 DEF PermissionsHeld, ListsTrue, Received
  <2> QED  BY <1>1, <1>5, <1>11, <2>1, <2>3 DEF ListsTrue
<1>14. WantedComes'
  <2>1. SUFFICES ASSUME wanted' # NoTable PROVE WantedComes'
      BY DEF WantedComes
  <2>2. table' = Made(table, r.items) /\ wanted' = wanted
      BY <1>1, <2>1
  <2>3. PICK i \in DOMAIN toServer : /\ toServer[i].kind = "change" /\ Made(table, toServer[i].items) = wanted
                                     /\ \A j \in DOMAIN toServer : toServer[j].kind = "change" => j = i
      BY <1>2, <1>6, <2>1, <2>2 DEF PermissionsHeld, WantedComes
  <2>4. i = 1
      BY <1>2, <1>6, <2>3
  <2>5. \A j \in DOMAIN toServer' : toServer'[j].kind # "change"
    <3>1. ASSUME NEW j \in DOMAIN toServer', toServer'[j].kind = "change" PROVE FALSE
      <4>1. j + 1 = 1 /\ j \in Nat \ {0}
          BY <1>6, <2>3, <2>4, <3>1
      <4> QED  BY <4>1
    <3> QED  BY <3>1
  <2> QED  BY <1>6, <2>2, <2>3, <2>4, <2>5 DEF WantedComes
<1> QED  BY <1>9, <1>10, <1>12, <1>13, <1>14 DEF PermissionsHeld

LEMMA OthersChanged ==
    ASSUME PermissionsHeld, Bounded, SessionTypeOK, OthersChange
    PROVE  PermissionsHeld' /\ SessionTypeOK' /\ Bounded'
<1>1. /\ phase = "Online" /\ stage' = "none" /\ wanted' = NoTable
      /\ UNCHANGED <<phase, told, toServer, fromServer, permissions, queue, round>>
    BY DEF OthersChange, wireVars, wire
<1>2. table' \in Tables
    BY DEF OthersChange, PermissionsHeld, PermissionsShape, PermissionsTypeOK, Tables
<1>3. PermissionsShape' /\ SessionTypeOK' /\ Bounded'
    BY <1>1, <1>2 DEF PermissionsHeld, PermissionsShape, PermissionsTypeOK, SessionTypeOK, Bounded,
       Tables, NoTable
<1>4. NotLater'
    BY <1>1 DEF PermissionsHeld, NotLater, Of
<1>5. ChangeFirst' /\ ListsTrue' /\ WantedComes'
    BY <1>1 DEF ChangeFirst, ListsTrue, WantedComes
<1> QED  BY <1>3, <1>4, <1>5 DEF PermissionsHeld

LEMMA ListGot ==
    ASSUME PermissionsHeld, Bounded, SessionTypeOK, GetList
    PROVE  PermissionsHeld' /\ SessionTypeOK' /\ Bounded'
<1> DEFINE s == Head(fromServer)
<1>1. Take /\ UNCHANGED <<phase, told, toServer, round, table, wanted>>
    BY DEF GetList
<1>2. IF s.id \in queue
      THEN /\ queue' = queue \ {s.id}
           /\ permissions' = [m \in Members |-> IF m \in s.who /\ permissions[m] = Unspecified
                                                THEN s.id[2] ELSE permissions[m]]
           /\ stage' = IF stage = "asked" /\ queue' = {} THEN "received" ELSE stage
      ELSE UNCHANGED <<queue, permissions, stage>>
    BY DEF GetList
<1>3. PermissionsWired
    BY DEF PermissionsWired, Wired, PermissionsHeld, PermissionsShape
<1>4. /\ phase = "Online" /\ fromServer # <<>> /\ s \in PermissionLists
      /\ fromServer' = Tail(fromServer) /\ fromServer' \in Seq(PermissionLists) /\ Len(fromServer') <= MaxWire
    BY <1>1, <1>3, TakeWire DEF PermissionsWired
<1>5. /\ s = fromServer[1] /\ 1 \in DOMAIN fromServer
      /\ \A i \in DOMAIN fromServer' : i + 1 \in DOMAIN fromServer /\ fromServer'[i] = fromServer[i + 1]
    BY <1>4, OneLess DEF PermissionsHeld, PermissionsShape
<1>6. s.id \in Ids /\ s.id[2] \in Affiliations /\ s.id = <<s.id[1], s.id[2]>> /\ s.who \subseteq Members
    BY <1>4, PermissionWords
<1> HIDE DEF s
<1>7. stage' # "none" <=> stage # "none"
    BY <1>2
<1>8. queue' \subseteq queue /\ permissions' \in [Members -> Affiliations \cup {NoAffiliation, Unspecified}]
    BY <1>2, <1>6 DEF PermissionsHeld, PermissionsShape, PermissionsTypeOK
<1>9. stage' \in {"none", "asked", "received"}
    BY <1>2 DEF PermissionsHeld, PermissionsShape, PermissionsTypeOK
<1>10. PermissionsShape' /\ SessionTypeOK' /\ Bounded'
    BY <1>1, <1>4, <1>8, <1>9 DEF PermissionsHeld, PermissionsShape, PermissionsTypeOK, SessionTypeOK, Bounded,
       Tables, NoTable
<1>11. NotLater'
    BY <1>1, <1>5, <1>8 DEF PermissionsHeld, NotLater, Of
<1>12. ASSUME s.id \in queue PROVE s.id[1] = round
    BY <1>6, <1>12 DEF PermissionsHeld, NotLater, Of
<1>13. ChangeFirst'
  <2>1. SUFFICES ASSUME stage # "none", NEW i \in DOMAIN toServer, toServer[i].kind = "change"
                 PROVE  /\ queue' = Of(round) /\ stage' = "asked" /\ wanted = NoTable
                        /\ \A j \in DOMAIN toServer : j < i /\ toServer[j].kind = "ask" =>
                             toServer[j].id[1] # round
                        /\ \A j \in DOMAIN fromServer' : fromServer'[j].id[1] # round
      BY <1>1, <1>7 DEF ChangeFirst, Of, NoTable
  <2>2. /\ queue = Of(round) /\ stage = "asked" /\ wanted = NoTable
        /\ \A j \in DOMAIN toServer : j < i /\ toServer[j].kind = "ask" => toServer[j].id[1] # round
        /\ \A j \in DOMAIN fromServer : fromServer[j].id[1] # round
      BY <2>1 DEF PermissionsHeld, ChangeFirst
  <2>3. s.id \notin queue
      BY <1>5, <1>12, <2>2
  <2> QED  BY <1>2, <1>5, <2>2, <2>3
<1>14. ListsTrue'
  <2>1. SUFFICES ASSUME stage # "none" PROVE ListsTrue'
      BY <1>7 DEF ListsTrue
  <2>2. /\ permissions = Received(queue)
        /\ stage = "received" => queue = {}
        /\ \A i \in DOMAIN fromServer : fromServer[i].id[1] = round =>
             fromServer[i].who = {m \in Members : table[m] = fromServer[i].id[2]}
      BY <2>1 DEF PermissionsHeld, ListsTrue
  <2>3. \A i \in DOMAIN fromServer' : fromServer'[i].id[1] = round =>
             fromServer'[i].who = {m \in Members : table[m] = fromServer'[i].id[2]}
      BY <1>5, <2>2
  <2>4. stage' = "received" => queue' = {}
      BY <1>2, <2>2
  <2>5. permissions' = Received(queue)'
    <3>1. CASE s.id \notin queue
        BY <1>1, <1>2, <2>2, <3>1 DEF Received
    <3>2. CASE s.id \in queue
      <4>1. s.id = <<round, s.id[2]>> /\ s.who = {m \in Members : table[m] = s.id[2]}
          BY <1>5, <1>6, <1>12, <2>2, <3>2
      <4>2. queue' = queue \ {s.id}
          BY <1>2, <3>2
      <4>3. ASSUME NEW m \in Members
            PROVE  (IF m \in s.who /\ permissions[m] = Unspecified THEN s.id[2] ELSE permissions[m])
                     = (IF table[m] = NoAffiliation \/ <<round, table[m]>> \in queue'
                        THEN Unspecified ELSE table[m])
        <5>1. permissions[m] = IF table[m] = NoAffiliation \/ <<round, table[m]>> \in queue
                               THEN Unspecified ELSE table[m]
            BY <2>2 DEF Received
        <5>2. <<round, table[m]>> \in queue' <=> <<round, table[m]>> \in queue /\ table[m] # s.id[2]
            BY <4>1, <4>2
        <5>3. s.id[2] # NoAffiliation /\ (m \in s.who <=> table[m] = s.id[2])
            BY <1>6, <4>1, PermissionsAssumption
        <5> QED  BY <3>2, <4>1, <5>1, <5>2, <5>3
      <4> QED  BY <1>1, <1>2, <3>2, <4>3 DEF Received
    <3> QED  BY <3>1, <3>2
  <2> QED  BY <1>1, <2>3, <2>4, <2>5 DEF ListsTrue
<1>15. WantedComes'
    BY <1>1 DEF PermissionsHeld, WantedComes, NoTable
<1> QED  BY <1>10, <1>11, <1>13, <1>14, <1>15 DEF PermissionsHeld

LEMMA PermissionsStep ==
    ASSUME Told, PermissionsHeld, Bounded, SessionTypeOK, PermissionsNext
    PROVE  Told' /\ PermissionsHeld' /\ SessionTypeOK' /\ Bounded'
<1>1. Told'
    BY PermissionsKeep
<1>2. PermissionsHeld' /\ SessionTypeOK' /\ Bounded'
    BY PermissionsTried, PermissionsOpenedOrClosed, PermissionsRequested, PermissionsSet, PermissionsListed,
       PermissionsChanged, OthersChanged, ListGot
       DEF PermissionsNext
<1> QED  BY <1>1, <1>2

LEMMA PermissionsMean ==
    ASSUME PermissionsHeld
    PROVE  ReceivedIsTable /\ SetTakesEffect
<1>1. ReceivedIsTable
    BY DEF PermissionsHeld, ListsTrue, Received, ReceivedIsTable
<1>2. SetTakesEffect
    BY DEF PermissionsHeld, WantedComes, SetTakesEffect, Quiet
<1> QED  BY <1>1, <1>2

-----------------------------------------------------------------------------
(* The object of the Twitter library: its requests are those of its class. *)

LEMMA Gathered ==
    ASSUME NEW S, NEW s \in Seq(S)
    PROVE  s \in Seq({s[i] : i \in DOMAIN s}) /\ \A i \in DOMAIN s : s[i] \in S
<1>1. Len(s) \in Nat /\ s \in [1 .. Len(s) -> S] /\ DOMAIN s = 1 .. Len(s)
    OBVIOUS
<1>2. s \in [1 .. Len(s) -> {s[i] : i \in DOMAIN s}]
    BY <1>1
<1> QED  BY <1>1, <1>2

LEMMA Widened ==
    ASSUME NEW S, NEW T, S \subseteq T, NEW s \in Seq(S)
    PROVE  s \in Seq(T)
<1>1. Len(s) \in Nat /\ s \in [1 .. Len(s) -> S]
    OBVIOUS
<1>2. s \in [1 .. Len(s) -> T]
    BY <1>1
<1> QED  BY <1>1, <1>2

LEMMA Removed ==
    ASSUME NEW S, NEW s \in Seq(S), NEW i \in DOMAIN s
    PROVE  RemoveAt(s, i) \in Seq(S) /\ Len(RemoveAt(s, i)) = Len(s) - 1
<1>1. Len(s) \in Nat /\ i \in 1 .. Len(s) /\ \A j \in 1 .. Len(s) : s[j] \in S
    OBVIOUS
<1>2. SubSeq(s, 1, i - 1) \in Seq(S) /\ Len(SubSeq(s, 1, i - 1)) = i - 1
    BY <1>1, SubSeqProperties
<1>3. SubSeq(s, i + 1, Len(s)) \in Seq(S) /\ Len(SubSeq(s, i + 1, Len(s))) = Len(s) - i
    BY <1>1, SubSeqProperties
<1>4. RemoveAt(s, i) = SubSeq(s, 1, i - 1) \o SubSeq(s, i + 1, Len(s))
    BY DEF RemoveAt
<1>5. Len(RemoveAt(s, i)) = (i - 1) + (Len(s) - i) /\ RemoveAt(s, i) \in Seq(S)
    BY <1>2, <1>3, <1>4, Joined
<1> QED  BY <1>1, <1>5

LEMMA TwitterStep ==
    ASSUME TwitterInv, TwitterNext
    PROVE  TwitterInv'
<1> DEFINE S == {inFlight[i] : i \in DOMAIN inFlight}
<1>1. /\ object \in Classes /\ authentication \in BOOLEAN /\ jsonParsing \in BOOLEAN /\ usesCursoring \in BOOLEAN
      /\ Len(inFlight) <= MaxInFlight /\ \A i \in DOMAIN inFlight : inFlight[i].call \in object.calls
      /\ answered.outcome \in Outcomes \cup {""} /\ inFlight \in Seq(S)
    BY DEF TwitterInv, TwitterTypeOK
<1>2. object' = object
    BY DEF TwitterNext, SetAuthenticationEnabled, SetJsonParsingEnabled, Fetch, Reply
<1>3. authentication' \in BOOLEAN /\ jsonParsing' \in BOOLEAN /\ usesCursoring' \in BOOLEAN
    BY <1>1, Zenon DEF TwitterNext, SetAuthenticationEnabled, SetJsonParsingEnabled, Fetch, Reply
<1>4. answered'.outcome \in Outcomes \cup {""}
  <2>1. NoAnswer.outcome = ""
      BY DEF NoAnswer
  <2>2. CASE answered' = NoAnswer
      BY <2>1, <2>2
  <2>3. CASE Reply
    <3>1. PICK i \in DOMAIN inFlight, o \in Outcomes :
            answered' = [to |-> inFlight[i], outcome |-> o, signals |-> Reports(o)]
        BY <2>3 DEF Reply
    <3> QED  BY <3>1
  <2> QED  BY <2>2, <2>3 DEF TwitterNext, SetAuthenticationEnabled, SetJsonParsingEnabled, Fetch
<1>5. /\ Len(inFlight') <= MaxInFlight /\ \A i \in DOMAIN inFlight' : inFlight'[i].call \in object.calls
      /\ inFlight' \in Seq({inFlight'[i] : i \in DOMAIN inFlight'})
  <2>1. CASE inFlight' = inFlight
      BY <1>1, <2>1
  <2>2. ASSUME NEW e, inFlight' = Append(inFlight, e), e.call \in object.calls, Len(inFlight) < MaxInFlight
        PROVE  /\ Len(inFlight') <= MaxInFlight
               /\ \A i \in DOMAIN inFlight' : inFlight'[i].call \in object.calls
               /\ inFlight' \in Seq({inFlight'[i] : i \in DOMAIN inFlight'})
    <3> DEFINE T == S \cup {e}
    <3>1. inFlight \in Seq(T) /\ e \in T /\ \A x \in T : x.call \in object.calls
        BY <1>1, <2>2, Widened
    <3> HIDE DEF T
    <3>2. inFlight' \in Seq(T) /\ Len(inFlight') = Len(inFlight) + 1 /\ Len(inFlight) \in Nat
        BY <2>2, <3>1
    <3>3. /\ inFlight' \in Seq({inFlight'[i] : i \in DOMAIN inFlight'})
          /\ \A i \in DOMAIN inFlight' : inFlight'[i] \in T
        BY <3>2, Gathered
    <3> QED  BY <2>2, <3>1, <3>2, <3>3, TwitterAssumption
  <2>3. CASE Reply
    <3>1. PICK i \in DOMAIN inFlight : inFlight' = RemoveAt(inFlight, i)
        BY <2>3 DEF Reply
    <3>2. \A x \in S : x.call \in object.calls
        BY <1>1
    <3> HIDE DEF S
    <3>3. inFlight' \in Seq(S) /\ Len(inFlight') = Len(inFlight) - 1 /\ Len(inFlight) \in Nat
      <4>1. inFlight \in Seq(S)
          BY <1>1
      <4>2. RemoveAt(inFlight, i) \in Seq(S) /\ Len(RemoveAt(inFlight, i)) = Len(inFlight) - 1
          BY <4>1, Removed
      <4> QED  BY <3>1, <4>1, <4>2
    <3>4. /\ inFlight' \in Seq({inFlight'[j] : j \in DOMAIN inFlight'})
          /\ \A j \in DOMAIN inFlight' : inFlight'[j] \in S
        BY <3>3, Gathered
    <3>5. Len(inFlight') <= MaxInFlight
      <4>1. MaxInFlight \in Nat /\ Len(inFlight) <= MaxInFlight
          BY TwitterAssumption DEF TwitterInv, TwitterTypeOK
      <4> QED  BY <3>3, <4>1
    <3> QED  BY <3>2, <3>4, <3>5
  <2>4. CASE Fetch
    <3>1. \/ inFlight' = inFlight
          \/ \E e : inFlight' = Append(inFlight, e) /\ e.call \in object.calls /\ Len(inFlight) < MaxInFlight
      <4>1. PICK call \in object.calls :
            \E given \in UNION {kSubset(k, call.may) : k \in 0 .. MaxGiven}, stray \in SUBSET call.stray :
              inFlight' = IF call.auth = "required" /\ ~authentication THEN inFlight
                          ELSE Append(inFlight, [call |-> call, given |-> given, stray |-> stray,
                                                 wire |-> Sent(call, call.must \cup given \cup stray)])
          BY <2>4 DEF Fetch
      <4>2. PICK given, stray :
              inFlight' = IF call.auth = "required" /\ ~authentication THEN inFlight
                          ELSE Append(inFlight, [call |-> call, given |-> given, stray |-> stray,
                                                 wire |-> Sent(call, call.must \cup given \cup stray)])
          BY <4>1
      <4> DEFINE e == [call |-> call, given |-> given, stray |-> stray,
                       wire |-> Sent(call, call.must \cup given \cup stray)]
      <4>3. e.call \in object.calls
          OBVIOUS
      <4> HIDE DEF e
      <4>4. inFlight' = inFlight \/ inFlight' = Append(inFlight, e)
          BY <4>2 DEF e
      <4> QED  BY <2>4, <4>3, <4>4 DEF Fetch
    <3> QED  BY <2>1, <2>2, <3>1
  <2> QED  BY <2>1, <2>3, <2>4 DEF TwitterNext, SetAuthenticationEnabled, SetJsonParsingEnabled
<1> QED  BY <1>1, <1>2, <1>3, <1>4, <1>5 DEF TwitterInv, TwitterTypeOK

-----------------------------------------------------------------------------
(* The classes of the Twitter library.  A class goes by one of the two     *)
(* shapes of a document and reads no error in it, and a request has its    *)
(* arguments in one place and is signed by one of three rules, the last of *)
(* which only a few classes follow.                                        *)

Legal(r) == r.place \in {"url", "form", "parts"} /\ r.auth \in {"optional", "required"}
Bold(r) == r.place \in {"url", "form", "parts"} /\ r.auth = "always"
Sound(c) ==
    /\ c.shape \in {"object", "array"} /\ c.reads # "error"
    /\ \A r \in c.calls : Legal(r) \/ (Bold(r) /\ c \in AlwaysSigned)

LEMMA Verbs ==
    ASSUME NEW must, NEW may
    PROVE  /\ Legal(Get(must, may)) /\ Legal(GetSigned(must, may)) /\ Legal(Post(must, may))
           /\ Legal(PostInUrl("optional", may)) /\ Legal(PostInUrl("required", may))
           /\ Legal(Delete(must, may))
<1> USE DEF Request, Legal
<1>1. Legal(Get(must, may))
    BY DEF Get
<1>2. Legal(GetSigned(must, may))
    BY DEF GetSigned
<1>3. Legal(Post(must, may))
    BY DEF Post
<1>4. Legal(PostInUrl("optional", may)) /\ Legal(PostInUrl("required", may))
    BY DEF PostInUrl
<1>5. Legal(Delete(must, may))
    BY DEF Delete
<1> QED  BY <1>1, <1>2, <1>3, <1>4, <1>5

LEMMA VerbsAtPath ==
    ASSUME NEW path, NEW must, NEW may
    PROVE  /\ Legal(AtPath(path, Get(must, may))) /\ Legal(AtPath(path, GetSigned(must, may)))
           /\ Legal(AtPath(path, Post(must, may)))
           /\ Legal(AtPath(path, PostInUrl("optional", may))) /\ Legal(AtPath(path, PostInUrl("required", may)))
           /\ Legal(AtPath(path, Delete(must, may)))
<1> USE DEF Request, Legal, AtPath
<1>1. Legal(AtPath(path, Get(must, may)))
    BY DEF Get
<1>2. Legal(AtPath(path, GetSigned(must, may)))
    BY DEF GetSigned
<1>3. Legal(AtPath(path, Post(must, may)))
    BY DEF Post
<1>4. Legal(AtPath(path, PostInUrl("optional", may))) /\ Legal(AtPath(path, PostInUrl("required", may)))
    BY DEF PostInUrl
<1>5. Legal(AtPath(path, Delete(must, may)))
    BY DEF Delete
<1> QED  BY <1>1, <1>2, <1>3, <1>4, <1>5

LEMMA ClassSound ==
    ASSUME NEW name, NEW shape \in {"object", "array"}, NEW reads, reads # "error", NEW calls,
           \A r \in calls : Legal(r)
    PROVE  Sound(Class(name, shape, reads, calls))
    BY DEF Sound, Class

LEMMA BoldSound ==
    ASSUME NEW name, NEW shape \in {"object", "array"}, NEW reads, reads # "error", NEW calls,
           \A r \in calls : Legal(r) \/ Bold(r), Class(name, shape, reads, calls) \in AlwaysSigned
    PROVE  Sound(Class(name, shape, reads, calls))
    BY DEF Sound, Class

\* Those of which a request is built in a way of its own.
LEMMA OddOnesSound ==
    /\ Sound(FriendshipCreate) /\ Sound(ListAddMember) /\ Sound(StatusShow) /\ Sound(StatusUpdateWithMedia)
    /\ Sound(UserStatusesFollowers)
<1>1. Sound(FriendshipCreate)
  <2>1. Legal([Post({"screen_name"}, {"follow"} \cup Entities) EXCEPT !.twice = {"screen_name"}])
      BY DEF Legal, Request, Post
  <2> QED  BY <2>1, ClassSound, Verbs DEF FriendshipCreate
<1>2. Sound(ListAddMember)
  <2>1. Legal(AtPath({"user", "list"}, [PostInUrl("required", {}) EXCEPT !.must = {"id"}]))
      BY DEF Legal, Request, PostInUrl, AtPath
  <2> QED  BY <2>1, ClassSound DEF ListAddMember
<1>3. Sound(StatusShow)
  <2>1. Legal([Get({"id"}, {"trim_user", "include_my_retweet"} \cup Entities)
                 EXCEPT !.alias = "include_my_retweet" :> "include_my_retweet "])
      BY DEF Legal, Request, Get
  <2> QED  BY <2>1, ClassSound DEF StatusShow
<1>4. Sound(StatusUpdateWithMedia)
  <2> DEFINE r == [Request("POST", "parts", "required", {"status", "media[]"},
                           {"possibly_sensitive", "in_reply_to_status_id", "place_id", "display_coordinates"}
                           \cup Coordinates) EXCEPT !.stray = {"possibly_sensitive"}]
  <2>1. Legal(r)
      BY DEF Legal, Request
  <2> HIDE DEF r
  <2>2. Sound(Class("StatusUpdateWithMedia", "object", "status", {r}))
      BY <2>1, ClassSound
  <2> QED  BY <2>2 DEF r, StatusUpdateWithMedia
<1>5. Sound(UserStatusesFollowers)
  <2> DEFINE Paged == {Get({"cursor"}, {u} \cup Entities) : u \in {"user_id", "screen_name"}}
             Whole == {[Get({}, {u} \cup Entities) EXCEPT !.answer = "array"] : u \in {"user_id", "screen_name"}}
  <2>1. \A must, may : Legal([Get(must, may) EXCEPT !.answer = "array"])
      BY DEF Legal, Request, Get
  <2>2. \A r \in Paged \cup Whole : Legal(r)
      BY <2>1, Verbs
  <2> HIDE DEF Paged, Whole
  <2>3. Sound(Class("UserStatusesFollowers", "object", "users", Paged \cup Whole))
      BY <2>2, ClassSound
  <2> QED  BY <2>3 DEF Paged, Whole, UserStatusesFollowers
<1> QED  BY <1>1, <1>2, <1>3, <1>4, <1>5

LEMMA BoldOnesSound == Sound(RetweetByUser) /\ Sound(RetweetToUser) /\ Sound(Search)
<1>1. \A must, may : Bold(GetAlwaysSigned(must, may))
    BY DEF Bold, GetAlwaysSigned, Request
<1>2. \A must, may, alias : Bold([GetAlwaysSigned(must, may) EXCEPT !.alias = alias])
    BY DEF Bold, GetAlwaysSigned, Request
<1>3. RetweetByUser \in AlwaysSigned /\ RetweetToUser \in AlwaysSigned /\ Search \in AlwaysSigned
    BY DEF AlwaysSigned
<1>4. Sound(RetweetByUser)
    BY <1>1, <1>2, <1>3, BoldSound DEF RetweetByUser
<1>5. Sound(RetweetToUser)
    BY <1>1, <1>3, BoldSound DEF RetweetToUser, ByUser
<1>6. Sound(Search)
    BY <1>1, <1>3, BoldSound, Verbs DEF Search
<1> QED  BY <1>4, <1>5, <1>6

LEMMA ClassesSound == \A c \in Classes : Sound(c)
<1>1. Sound(AccountRateLimitStatus)
    BY ClassSound, Verbs DEF AccountRateLimitStatus
<1>2. Sound(AccountVerifyCredentials)
    BY ClassSound, Verbs DEF AccountVerifyCredentials
<1>3. Sound(BlocksBlocking)
    BY ClassSound, Verbs DEF BlocksBlocking
<1>4. Sound(BlocksBlockingIDs)
    BY ClassSound, Verbs DEF BlocksBlockingIDs
<1>5. Sound(BlocksCreate)
    BY ClassSound, Verbs DEF BlocksCreate, ByUser
<1>6. Sound(BlocksDestroy)
    BY ClassSound, Verbs DEF BlocksDestroy, ByUser
<1>7. Sound(BlocksExists)
    BY ClassSound, Verbs DEF BlocksExists, ByUser
<1>8. Sound(DirectMessageDestroy)
    BY ClassSound, VerbsAtPath DEF DirectMessageDestroy
<1>9. Sound(DirectMessageNew)
    BY ClassSound, Verbs DEF DirectMessageNew, ByUser
<1>10. Sound(DirectMessages)
    BY ClassSound, Verbs DEF DirectMessages
<1>11. Sound(DirectMessagesSent)
    BY ClassSound, Verbs DEF DirectMessagesSent
<1>12. Sound(Favorites)
    BY ClassSound, VerbsAtPath, Verbs DEF Favorites
<1>13. Sound(FavoritesCreate)
    BY ClassSound, VerbsAtPath DEF FavoritesCreate
<1>14. Sound(FavoritesDestroy)
    BY ClassSound, VerbsAtPath DEF FavoritesDestroy
<1>15. Sound(FollowersID)
    BY ClassSound, Verbs DEF FollowersID, ByUser
<1>16. Sound(FriendsID)
    BY ClassSound, Verbs DEF FriendsID, ByUser
<1>17. Sound(FriendshipDestroy)
    BY ClassSound, Verbs DEF FriendshipDestroy, ByUser
<1>18. Sound(GeoPlaceCreate)
    BY ClassSound, Verbs DEF GeoPlaceCreate
<1>19. Sound(GeoPlaceID)
    BY ClassSound, VerbsAtPath DEF GeoPlaceID
<1>20. Sound(GeoReverseGeoCode)
    BY ClassSound, Verbs DEF GeoReverseGeoCode
<1>21. Sound(GeoSearch)
    BY ClassSound, Verbs DEF GeoSearch
<1>22. Sound(GeoSimilarPlaces)
    BY ClassSound, Verbs DEF GeoSimilarPlaces
<1>23. Sound(HomeTimeline)
    BY ClassSound, Verbs DEF HomeTimeline
<1>24. Sound(Mentions)
    BY ClassSound, Verbs DEF Mentions
<1>25. Sound(UserTimeline)
    BY ClassSound, Verbs DEF UserTimeline
<1>26. Sound(RetweetByMe)
    BY ClassSound, Verbs DEF RetweetByMe
<1>27. Sound(RetweetsOfMe)
    BY ClassSound, Verbs DEF RetweetsOfMe
<1>28. Sound(RetweetToMe)
    BY ClassSound, Verbs DEF RetweetToMe
<1>29. Sound(ListCreate)
    BY ClassSound, VerbsAtPath DEF ListCreate
<1>30. Sound(ListDeleteMember)
    BY ClassSound, VerbsAtPath DEF ListDeleteMember
<1>31. Sound(ListShowList)
    BY ClassSound, VerbsAtPath DEF ListShowList
<1>32. Sound(ListSubscribe)
    BY ClassSound, VerbsAtPath DEF ListSubscribe
<1>33. Sound(ListUpdate)
    BY ClassSound, VerbsAtPath DEF ListUpdate
<1>34. Sound(StatusDestroy)
    BY ClassSound, Verbs DEF StatusDestroy
<1>35. Sound(StatusRetweet)
    BY ClassSound, VerbsAtPath DEF StatusRetweet
<1>36. Sound(StatusRetweetByID)
    BY ClassSound, VerbsAtPath DEF StatusRetweetByID
<1>37. Sound(StatusRetweetedBy)
    BY ClassSound, VerbsAtPath DEF StatusRetweetedBy
<1>38. Sound(StatusUpdate)
    BY ClassSound, Verbs DEF StatusUpdate
<1>39. Sound(UserLookup)
    BY ClassSound, Verbs DEF UserLookup
<1>40. Sound(UserSearch)
    BY ClassSound, Verbs DEF UserSearch
<1>41. Sound(UserShow)
    BY ClassSound, Verbs DEF UserShow, ByUser
<1> QED
    BY <1>1, <1>2, <1>3, <1>4, <1>5, <1>6, <1>7, <1>8, <1>9, <1>10, <1>11, <1>12, <1>13, <1>14,
       <1>15, <1>16, <1>17, <1>18, <1>19, <1>20, <1>21, <1>22, <1>23, <1>24, <1>25, <1>26, <1>27, <1>28,
       <1>29, <1>30, <1>31, <1>32, <1>33, <1>34, <1>35, <1>36, <1>37, <1>38, <1>39, <1>40, <1>41,
       OddOnesSound, BoldOnesSound, Zenon DEF Classes

-----------------------------------------------------------------------------
(* What an object of such a class sends, and what it reports.  Beside the  *)
(* requests in flight being signed as they are sent, those that await a    *)
(* page were the reason why UserStatusesFollowers goes by cursors.         *)

SignedTrue(w) == w.signature # Unsigned => w.signature = <<w.verb, w.path, w.url \cup w.form>>
AwaitsPage(e) == object = UserStatusesFollowers /\ e.call.answer = ""
Cursored == (\E i \in DOMAIN inFlight : AwaitsPage(inFlight[i])) => usesCursoring

TwitterTold == SignedAsSent /\ Cursored

LEMMA SentTrue ==
    ASSUME NEW call, call.place \in {"url", "form", "parts"}, NEW arguments
    PROVE  /\ SignedTrue(Sent(call, arguments))
           /\ Signs(call) => Sent(call, arguments).signature # Unsigned
           /\ ~Signs(call) => Sent(call, arguments).signature = Unsigned
<1> DEFINE query == Query(call, arguments)
           w == Sent(call, arguments)
<1>1. /\ w.verb = call.verb /\ w.path = call.path
      /\ w.url = (IF call.place = "url" THEN query ELSE {})
      /\ w.form = (IF call.place = "form" THEN query ELSE {})
      /\ w.signature = (IF Signs(call) THEN Signature(call, query) ELSE Unsigned)
    BY Zenon DEF Sent
<1> HIDE DEF query, w
<1>2. Signature(call, query) = <<call.verb, call.path, IF call.place = "parts" THEN {} ELSE query>>
    BY DEF Signature
<1>3. w.url \cup w.form = IF call.place = "parts" THEN {} ELSE query
    BY <1>1
<1>4. Signature(call, query) # Unsigned
    BY <1>2 DEF Unsigned
<1>5. SignedTrue(w)
    BY <1>1, <1>2, <1>3 DEF SignedTrue
<1>6. (Signs(call) => w.signature # Unsigned) /\ (~Signs(call) => w.signature = Unsigned)
    BY <1>1, <1>4
<1> QED  BY <1>5, <1>6 DEF w

LEMMA PageHasCursor ==
    ASSUME NEW call \in UserStatusesFollowers.calls, call.answer = ""
    PROVE  "cursor" \in call.must
<1> DEFINE Paged == {Get({"cursor"}, {u} \cup Entities) : u \in {"user_id", "screen_name"}}
           Whole == {[Get({}, {u} \cup Entities) EXCEPT !.answer = "array"] : u \in {"user_id", "screen_name"}}
<1>1. \A must, may : Get(must, may).must = must
    BY DEF Get, Request
<1>2. \A must, may : [Get(must, may) EXCEPT !.answer = "array"].answer = "array"
    BY DEF Get, Request
<1>3. \A r \in Paged : r.must = {"cursor"}
    BY <1>1
<1>4. \A r \in Whole : r.answer = "array"
    BY <1>2
<1> HIDE DEF Paged, Whole
<1>5. UserStatusesFollowers = Class("UserStatusesFollowers", "object", "users", Paged \cup Whole)
    BY DEF Paged, Whole, UserStatusesFollowers
<1>6. UserStatusesFollowers.calls = Paged \cup Whole
    BY <1>5 DEF Class
<1> QED  BY <1>3, <1>4, <1>6

\* A request that is sent.
LEMMA TwitterFetches ==
    ASSUME TwitterInv, TwitterTold, Fetch
    PROVE  TwitterTold' /\ AuthenticationObeyed /\ answered' = NoAnswer
<1>1. /\ object \in Classes /\ object' = object /\ answered' = NoAnswer
      /\ inFlight \in Seq({inFlight[i] : i \in DOMAIN inFlight})
    BY DEF TwitterInv, TwitterTypeOK, Fetch
<1>2. PICK call \in object.calls :
      \E given \in UNION {kSubset(k, call.may) : k \in 0 .. MaxGiven}, stray \in SUBSET call.stray :
        /\ inFlight' = IF call.auth = "required" /\ ~authentication THEN inFlight
                       ELSE Append(inFlight, [call |-> call, given |-> given, stray |-> stray,
                                              wire |-> Sent(call, call.must \cup given \cup stray)])
        /\ usesCursoring' = (usesCursoring \/ (object = UserStatusesFollowers /\ "cursor" \in call.must))
    BY DEF Fetch
<1>3. PICK given, stray :
        inFlight' = IF call.auth = "required" /\ ~authentication THEN inFlight
                    ELSE Append(inFlight, [call |-> call, given |-> given, stray |-> stray,
                                           wire |-> Sent(call, call.must \cup given \cup stray)])
    BY <1>2
<1>4. /\ usesCursoring => usesCursoring'
      /\ object = UserStatusesFollowers /\ "cursor" \in call.must => usesCursoring'
    BY <1>2, Zenon
<1> DEFINE arguments == call.must \cup given \cup stray
           e == [call |-> call, given |-> given, stray |-> stray, wire |-> Sent(call, arguments)]
<1>5. e.call = call /\ e.wire = Sent(call, arguments)
    OBVIOUS
<1>6. inFlight' = IF call.auth = "required" /\ ~authentication THEN inFlight ELSE Append(inFlight, e)
    BY <1>3
<1> HIDE DEF e, arguments
<1>7. Legal(call) \/ (Bold(call) /\ object \in AlwaysSigned)
    BY <1>1, ClassesSound DEF Sound
<1>8. /\ SignedTrue(e.wire) /\ (Signs(call) => e.wire.signature # Unsigned)
      /\ ~Signs(call) => e.wire.signature = Unsigned
  <2>1. call.place \in {"url", "form", "parts"}
      BY <1>7 DEF Legal, Bold
  <2> QED  BY <1>5, <2>1, SentTrue
<1>9. CASE inFlight' = inFlight
  <2>1. Cursored'
      BY <1>1, <1>4, <1>9, Zenon DEF TwitterTold, Cursored, AwaitsPage
  <2> QED  BY <1>1, <1>9, <2>1 DEF TwitterTold, SignedAsSent, AuthenticationObeyed
<1>10. CASE inFlight' = Append(inFlight, e) /\ ~(call.auth = "required" /\ ~authentication)
  <2>1. \A i \in DOMAIN inFlight' : \/ i \in DOMAIN inFlight /\ inFlight'[i] = inFlight[i]
                                    \/ i \notin DOMAIN inFlight /\ inFlight'[i] = e
      BY <1>1, <1>10
  <2>2. SignedAsSent'
    <3>1. \A i \in DOMAIN inFlight' : SignedTrue(inFlight'[i].wire)
        BY <1>8, <2>1 DEF TwitterTold, SignedAsSent, SignedTrue
    <3> QED  BY <3>1 DEF SignedAsSent, SignedTrue
  <2>3. Cursored'
    <3>1. AwaitsPage(e) => usesCursoring'
        BY <1>4, <1>5, PageHasCursor, Zenon DEF AwaitsPage
    <3>2. (\E i \in DOMAIN inFlight : AwaitsPage(inFlight[i])) => usesCursoring'
        BY <1>4 DEF TwitterTold, Cursored
    <3>3. \A i \in DOMAIN inFlight' : AwaitsPage(inFlight'[i]) => usesCursoring'
        BY <2>1, <3>1, <3>2, Zenon
    <3> QED  BY <1>1, <3>3, Zenon DEF Cursored, AwaitsPage
  <2>4. AuthenticationObeyed
    <3>1. IF authentication THEN e.wire.signature # Unsigned
          ELSE e.call.auth # "required" /\ (e.wire.signature = Unsigned \/ object \in AlwaysSigned)
      <4>1. CASE authentication
          BY <1>8, <4>1 DEF Signs
      <4>2. CASE ~authentication
        <5>1. call.auth # "required"
            BY <1>10, <4>2
        <5>2. call.auth = "optional" \/ object \in AlwaysSigned
            BY <1>7, <5>1 DEF Legal
        <5> QED  BY <1>5, <1>8, <4>2, <5>1, <5>2 DEF Signs
      <4> QED  BY <4>1, <4>2
    <3> QED  BY <2>1, <3>1 DEF AuthenticationObeyed
  <2> QED  BY <1>1, <2>2, <2>3, <2>4 DEF TwitterTold
<1> QED  BY <1>6, <1>9, <1>10

LEMMA Paired == \A a, b : <<a>> \o <<b>> = <<a, b>>
<1> SUFFICES ASSUME NEW a, NEW b PROVE <<a>> \o <<b>> = <<a, b>>
    OBVIOUS
<1> DEFINE S == {a, b}
<1>1. <<a>> \in Seq(S) /\ <<b>> \in Seq(S) /\ Len(<<a>>) = 1 /\ Len(<<b>>) = 1
    OBVIOUS
<1>2. <<a, b>> \in Seq(S) /\ Len(<<a, b>>) = 2 /\ <<a, b>>[1] = a /\ <<a, b>>[2] = b
    OBVIOUS
<1>3. b \in S /\ <<a>>[1] = a
    OBVIOUS
<1> HIDE DEF S
<1> DEFINE t == <<a>> \o <<b>>
<1>4. t \in Seq(S) /\ Len(t) = 2 /\ t[1] = a /\ t[2] = b
    BY <1>1, <1>3, OneMore
<1> HIDE DEF t
<1>5. t = <<a, b>>
    BY <1>2, <1>4, SeqEqual
<1> QED  BY <1>5 DEF t

LEMMA OneSignal == \A a : ToSet(<<a>>) = {a}
    BY DEF ToSet
LEMMA TwoSignals == \A a, b : ToSet(<<a, b>>) = {a, b}
<1> SUFFICES ASSUME NEW a, NEW b PROVE ToSet(<<a, b>>) = {a, b}
    OBVIOUS
<1>1. DOMAIN <<a, b>> = {1, 2} /\ <<a, b>>[1] = a /\ <<a, b>>[2] = b
    OBVIOUS
<1> QED  BY <1>1, Zenon DEF ToSet

\* An answer, by what it is: not a document, or one of the wrong shape, or of the right one.
LEMMA TwitterReplies ==
    ASSUME TwitterInv, TwitterTold, Reply
    PROVE  TwitterTold' /\ AnswersReported' /\ AuthenticationObeyed
<1>1. /\ object \in Classes /\ inFlight \in Seq({inFlight[i] : i \in DOMAIN inFlight})
    BY DEF TwitterInv, TwitterTypeOK
<1>2. UNCHANGED <<object, jsonParsing, usesCursoring>>
    BY DEF Reply
<1>3. PICK i \in DOMAIN inFlight, o \in Outcomes :
        /\ answered' = [to |-> inFlight[i], outcome |-> o, signals |-> Reports(o)]
        /\ inFlight' = RemoveAt(inFlight, i)
    BY DEF Reply
<1> DEFINE S == {inFlight[j] : j \in DOMAIN inFlight}
           e == inFlight[i]
<1>4. inFlight' \in Seq(S) /\ Len(inFlight') = Len(inFlight) - 1
    BY <1>1, <1>3, Removed
<1>5. /\ DOMAIN inFlight' \subseteq DOMAIN inFlight
      /\ \A j \in DOMAIN inFlight' : \E k \in DOMAIN inFlight : inFlight'[j] = inFlight[k]
  <2>1. Len(inFlight) \in Nat /\ DOMAIN inFlight = 1 .. Len(inFlight) /\ DOMAIN inFlight' = 1 .. Len(inFlight')
      BY <1>1, <1>4
  <2>2. \A j \in DOMAIN inFlight' : inFlight'[j] \in S
      BY <1>4
  <2> QED  BY <1>4, <2>1, <2>2
<1>6. TwitterTold'
  <2>1. SignedAsSent'
    <3>1. \A j \in DOMAIN inFlight' : SignedTrue(inFlight'[j].wire)
        BY <1>5 DEF TwitterTold, SignedAsSent, SignedTrue
    <3> QED  BY <3>1 DEF SignedAsSent, SignedTrue
  <2>2. Cursored'
      BY <1>2, <1>5, Zenon DEF TwitterTold, Cursored, AwaitsPage
  <2> QED  BY <2>1, <2>2 DEF TwitterTold
<1>7. AuthenticationObeyed
    BY <1>5 DEF AuthenticationObeyed
<1>8. object.shape \in {"object", "array"} /\ object.reads # "error"
    BY <1>1, ClassesSound DEF Sound
<1>9. /\ answered'.to.call = e.call /\ answered'.outcome = o /\ answered'.signals = Reports(o)
    BY <1>3
<1>10. AwaitsPage(e) => usesCursoring
    BY Zenon DEF TwitterTold, Cursored
<1> HIDE DEF e
<1>11. ASSUME /\ ("error" \in ToSet(Reports(o))) = (o \in Codes)
              /\ ("finished" \in ToSet(Reports(o))) = ~(o \in Codes)
              /\ jsonParsing /\ o = object.shape /\ e.call.answer = "" => Reports(o) = <<"finished", object.reads>>
              /\ o \notin Codes /\ o # object.shape => Reports(o) = <<"finished">>
       PROVE  AnswersReported'
    BY <1>2, <1>9, <1>11, Zenon DEF AnswersReported
<1>12. CASE o \in Codes
  <2>1. o \notin {"object", "array", "garbage"} /\ ErrorOf(o) # "finished"
      BY <1>12 DEF Codes, Named, ErrorOf, UnknownError
  <2>2. Reports(o) = <<"error", ErrorOf(o)>>
      BY <2>1 DEF Reports
  <2>3. "error" \in ToSet(Reports(o)) /\ "finished" \notin ToSet(Reports(o))
      BY <2>1, <2>2, TwoSignals
  <2>4. o # object.shape
      BY <1>8, <2>1
  <2>5. ("error" \in ToSet(Reports(o))) = (o \in Codes)
      BY <1>12, <2>3
  <2>6. ("finished" \in ToSet(Reports(o))) = ~(o \in Codes)
      BY <1>12, <2>3
  <2>7. AnswersReported'
      BY <1>11, <1>12, <2>4, <2>5, <2>6, Zenon
  <2> QED  BY <1>6, <1>7, <2>7
<1>13. CASE o \in {"object", "array", "garbage"}
  <2>1. o \notin Codes
      BY <1>13 DEF Codes, Named
  <2>2. Reports(o) = <<"finished">> \o IF jsonParsing THEN ParseJsonFinished(o) ELSE << >>
      BY <1>13 DEF Reports
  <2>3. o # object.shape => Reports(o) = <<"finished">>
      BY <2>2 DEF ParseJsonFinished
  <2>4. ~jsonParsing => Reports(o) = <<"finished">>
      BY <2>2
  <2>5. ASSUME jsonParsing, o = object.shape
        PROVE  /\ \E r \in {object.reads, "nothing"} : Reports(o) = <<"finished", r>>
               /\ e.call.answer = "" => Reports(o) = <<"finished", object.reads>>
    <3>1. CASE object = UserStatusesFollowers /\ ~usesCursoring
      <4>1. Reports(o) = <<"finished">> \o <<"nothing">>
          BY <2>2, <2>5, <3>1 DEF ParseJsonFinished
      <4>2. e.call.answer # ""
          BY <1>10, <3>1, Zenon DEF AwaitsPage
      <4>3. Reports(o) = <<"finished", "nothing">>
          BY <4>1, Paired
      <4> QED  BY <4>2, <4>3
    <3>2. CASE ~(object = UserStatusesFollowers /\ ~usesCursoring)
      <4>1. Reports(o) = <<"finished">> \o <<object.reads>>
          BY <2>2, <2>5, <3>2 DEF ParseJsonFinished
      <4>2. Reports(o) = <<"finished", object.reads>>
          BY <4>1, Paired
      <4> QED  BY <4>2
    <3> QED  BY <3>1, <3>2
  <2>6. Reports(o) = <<"finished">> \/ \E r \in {object.reads, "nothing"} : Reports(o) = <<"finished", r>>
      BY <2>3, <2>4, <2>5
  <2>7. "error" \notin ToSet(Reports(o)) /\ "finished" \in ToSet(Reports(o))
      BY <1>8, <2>6, OneSignal, TwoSignals
  <2>8. ("error" \in ToSet(Reports(o))) = (o \in Codes)
      BY <2>1, <2>7
  <2>9. ("finished" \in ToSet(Reports(o))) = ~(o \in Codes)
      BY <2>1, <2>7, Zenon
  <2>10. AnswersReported'
      BY <1>11, <2>3, <2>5, <2>8, <2>9, Zenon
  <2> QED  BY <1>6, <1>7, <2>10
<1> QED  BY <1>3, <1>12, <1>13 DEF Outcomes

LEMMA TwitterMoves ==
    ASSUME TwitterInv, TwitterTold, TwitterNext
    PROVE  TwitterTold' /\ AnswersReported' /\ AuthenticationObeyed
<1>1. ASSUME answered' = NoAnswer PROVE AnswersReported'
    BY <1>1 DEF AnswersReported
<1>2. CASE SetAuthenticationEnabled \/ SetJsonParsingEnabled
  <2>1. UNCHANGED <<object, usesCursoring, inFlight>> /\ answered' = NoAnswer
      BY <1>2 DEF SetAuthenticationEnabled, SetJsonParsingEnabled
  <2>2. Cursored'
      BY <2>1, Zenon DEF TwitterTold, Cursored, AwaitsPage
  <2> QED  BY <1>1, <2>1, <2>2 DEF TwitterTold, SignedAsSent, AuthenticationObeyed
<1>3. CASE Fetch
    BY <1>1, <1>3, TwitterFetches
<1>4. CASE Reply
    BY <1>4, TwitterReplies
<1> QED  BY <1>2, <1>3, <1>4 DEF TwitterNext

-----------------------------------------------------------------------------
(* The login: the server is never ahead of the client, which takes three   *)
(* steps at most.                                                          *)

LEMMA ThreeSteps ==
    ASSUME NEW text, SaslTypeOK, ClientAnswer(text).ok
    PROVE  clientStep \in 0 .. 2
<1>1. SUFFICES ASSUME clientStep \notin 0 .. 2 PROVE FALSE
    OBVIOUS
<1>2. clientStep = 3
    BY <1>1 DEF SaslTypeOK
<1>3. ClientAnswer(text) = Unsaid
    BY <1>2 DEF ClientAnswer
<1> QED  BY <1>3 DEF Unsaid

LEMMA SaslStep ==
    ASSUME SaslSteps, SaslNext
    PROVE  SaslSteps'
<1>1. /\ clientStep \in 0 .. 3 /\ serverStep \in 0 .. 3 /\ serverStep <= clientStep
      /\ message.to = "server" => serverStep < clientStep
      /\ outcome \in {"open", "success", "failure"}
    BY DEF SaslSteps, StepsAgree, SaslTypeOK
<1>2. CASE ClientReads
  <2> DEFINE answer == ClientAnswer(message.text)
  <2>1. \/ /\ message.kind \in {"success", "failure"} /\ outcome' = message.kind /\ message' = NoElement
           /\ clientStep' = clientStep
        \/ /\ answer.ok /\ clientStep' = clientStep + 1 /\ outcome' = outcome
           /\ \E kind, text : message' = To("server", kind, text)
        \/ outcome' = "failure" /\ message' = NoElement /\ clientStep' = clientStep
      BY <1>2 DEF ClientReads
  <2>2. answer.ok => clientStep \in 0 .. 2
      BY ThreeSteps DEF SaslSteps
  <2> HIDE DEF answer
  <2>3. UNCHANGED <<login, ownServer, serverStep>>
      BY <1>2 DEF ClientReads
  <2>4. NoElement.to = "none" /\ \A kind, text : To("server", kind, text).to = "server"
      BY DEF NoElement, To
  <2>5. /\ clientStep' \in 0 .. 3 /\ outcome' \in {"open", "success", "failure"}
        /\ message'.to \in {"none", "server"} /\ serverStep' <= clientStep'
        /\ message'.to = "server" => serverStep' < clientStep'
      BY <1>1, <2>1, <2>2, <2>3, <2>4
  <2> QED  BY <2>3, <2>5 DEF SaslSteps, StepsAgree, SaslTypeOK
<1>3. CASE ServerReads
  <2>1. message.to = "server" /\ UNCHANGED <<login, ownServer, clientStep, outcome>>
      BY <1>3 DEF ServerReads
  <2>2. \A kind, text : ServerSays(kind, text) => message'.to = "client"
      BY DEF ServerSays, To
  <2>3. message'.to = "client" /\ serverStep' \in {serverStep, serverStep + 1, 1}
    <3>1. CASE PlainServer \/ AnonymousServer
        BY <2>2, <3>1 DEF PlainServer, AnonymousServer
    <3>2. CASE DigestServer
      <4>1. serverStep = 0 \/ serverStep = 1 \/ serverStep = 2
          BY <1>1, <2>1
      <4>2. CASE serverStep = 0
        <5>1. \E kind, text : ServerSays(kind, text)
            BY <3>2, <4>2 DEF DigestServer
        <5>2. serverStep' = 1
            BY <3>2, <4>2 DEF DigestServer
        <5> QED  BY <2>2, <5>1, <5>2
      <4>3. CASE serverStep = 1
        <5>1. \E kind, text : ServerSays(kind, text)
            BY <3>2, <4>3 DEF DigestServer
        <5>2. serverStep' \in {1, 2}
            BY <3>2, <4>3 DEF DigestServer
        <5> QED  BY <2>2, <4>3, <5>1, <5>2
      <4>4. CASE serverStep = 2
        <5>1. \E kind, text : ServerSays(kind, text)
            BY <3>2, <4>4 DEF DigestServer
        <5>2. serverStep' = 3
            BY <3>2, <4>4 DEF DigestServer
        <5> QED  BY <2>2, <4>4, <5>1, <5>2
      <4> QED  BY <4>1, <4>2, <4>3, <4>4
    <3>3. CASE OtherServer
        BY <2>2, <3>3 DEF OtherServer
    <3>4. CASE ServerSays("failure", << >>) /\ UNCHANGED serverStep
        BY <2>2, <3>4
    <3> QED  BY <1>3, <3>1, <3>2, <3>3, <3>4 DEF ServerReads
  <2>4. serverStep' \in 0 .. 3 /\ serverStep' <= clientStep'
      BY <1>1, <2>1, <2>3
  <2> QED  BY <2>1, <2>3, <2>4 DEF SaslSteps, StepsAgree, SaslTypeOK
<1> QED  BY <1>2, <1>3 DEF SaslNext

-----------------------------------------------------------------------------
(* All of them.                                                            *)

LEMMA RosterBegins ==
    ASSUME WireInit, RosterInit, part # "roster" => account = NoEntries
    PROVE  RosterInv
<1>1. /\ phase = "Offline" /\ told = FALSE /\ toServer = <<>> /\ fromServer = <<>>
      /\ entries = NoEntries /\ presences = {} /\ received = FALSE
      /\ account \in Rosters /\ available = {} /\ interested = {}
    BY DEF WireInit, SessionInit, RosterInit
<1>2. NoEntries \in Rosters
    BY DEF NoEntries, Rosters
<1>3. RosterShape /\ RosterOffline /\ RosterForgotten
  <2>1. {entries, account} \subseteq Rosters /\ {presences, available} \subseteq SUBSET Contacts
        /\ interested \subseteq {"roster", "presence"}
      BY <1>1, <1>2
  <2>2. received \in BOOLEAN
      BY <1>1
  <2>3. toServer \in Seq(RosterRequests) /\ fromServer \in Seq(RosterStanzas)
      BY <1>1
  <2> QED  BY <1>1, <2>1, <2>2, <2>3, Zenon DEF RosterShape, RosterTypeOK, RosterOffline, RosterForgotten
<1>4. GetFirst /\ ItemsOnce /\ RosterTold /\ PresencesTold
    BY <1>1 DEF GetFirst, ItemsOnce, RosterTold, PresencesTold
<1> QED  BY <1>1, <1>3, <1>4 DEF RosterInv, RosterHeld, RosterRests, Told

LEMMA BookmarksBegin ==
    ASSUME WireInit, BookmarksInit
    PROVE  BookmarksInv
<1>1. /\ phase = "Offline" /\ told = FALSE /\ toServer = <<>> /\ fromServer = <<>>
      /\ bookmarks = None /\ have = FALSE /\ pending = [id |-> 0, set |-> None] /\ ids = 0
      /\ stored \in BookmarkSets \cup {None} /\ overlapped = FALSE
    BY DEF WireInit, SessionInit, BookmarksInit
<1>2. BookmarksTypeOK
  <2>1. {bookmarks, stored, pending.set} \subseteq BookmarkSets \cup {None} /\ {pending.id, ids} \subseteq 0 .. MaxRequests
      BY <1>1, BookmarksAssumption
  <2>2. have \in BOOLEAN /\ overlapped \in BOOLEAN
      BY <1>1, Zenon
  <2> QED  BY <2>1, <2>2 DEF BookmarksTypeOK
<1>3. BookmarksShape /\ AskedFirst /\ OnePending /\ BookmarksTold /\ BookmarksForgotten
    BY <1>1, <1>2 DEF BookmarksShape, AskedFirst, OnePending, BookmarksTold, BookmarksForgotten
<1> QED  BY <1>1, <1>2, <1>3 DEF BookmarksInv, BookmarksHeld, BookmarksRest, Told

LEMMA PermissionsBegin ==
    ASSUME WireInit, PermissionsInit
    PROVE  PermissionsInv
<1>1. /\ phase = "Offline" /\ told = FALSE /\ toServer = <<>> /\ fromServer = <<>>
      /\ permissions = Nothing /\ queue = {} /\ round = 0
      /\ table \in Tables /\ stage = "none" /\ wanted = NoTable
    BY DEF WireInit, SessionInit, PermissionsInit, NoTable
<1>2. PermissionsTypeOK
    BY <1>1, PermissionsAssumption DEF PermissionsTypeOK, Nothing
<1>3. PermissionsShape /\ NotLater /\ ChangeFirst /\ ListsTrue /\ WantedComes
    BY <1>1, <1>2 DEF PermissionsShape, NotLater, ChangeFirst, ListsTrue, WantedComes
<1> QED  BY <1>1, <1>2, <1>3 DEF PermissionsInv, PermissionsHeld, PermissionsRest, Told

LEMMA TwitterBegins ==
    ASSUME TwitterInit(IF part = "twitter" THEN Classes ELSE {Search})
    PROVE  TwitterInv
<1>1. Search \in Classes
    BY Zenon DEF Classes
<1>2. object \in Classes
    BY <1>1 DEF TwitterInit
<1>3. /\ authentication = TRUE /\ jsonParsing = TRUE /\ usesCursoring = FALSE
      /\ inFlight = << >> /\ answered = NoAnswer
    BY DEF TwitterInit
<1>4. Len(inFlight) <= MaxInFlight /\ inFlight \in Seq({inFlight[i] : i \in DOMAIN inFlight})
      /\ \A i \in DOMAIN inFlight : inFlight[i].call \in object.calls
    BY <1>3, TwitterAssumption
<1> QED  BY <1>2, <1>3, <1>4 DEF TwitterInv, TwitterTypeOK, NoAnswer

LEMMA SaslBegins ==
    ASSUME SaslInit
    PROVE  SaslSteps
<1>1. /\ login.mechanism \in Mechanisms /\ login.name \in LoginNames /\ login.realm \in Realms
      /\ {login.password, login.given} \subseteq Passwords /\ login.nonce \in Nonces
    BY DEF SaslInit, Passwords
<1>2. message.to = "client"
    BY DEF SaslInit, To
<1> QED  BY <1>1, <1>2 DEF SaslInit, SaslSteps, StepsAgree, SaslTypeOK

LEMMA RequestsBegin == Init => RequestsInv
<1>1. SUFFICES ASSUME Init PROVE RequestsInv
    OBVIOUS
<1>2. RosterInv /\ BookmarksInv /\ PermissionsInv /\ TwitterInv /\ SaslSteps
    BY <1>1, RosterBegins, BookmarksBegin, PermissionsBegin, TwitterBegins, SaslBegins DEF Init
<1>3. SessionTypeOK /\ Bounded /\ phase = "Offline" /\ told = FALSE /\ Quiet
  <2>1. phase = "Offline" /\ told = FALSE /\ toServer = <<>> /\ fromServer = <<>>
      BY <1>1 DEF Init, WireInit, SessionInit
  <2>2. Bounded
      BY <2>1, WireAssumption DEF Bounded
  <2> QED  BY <2>1, <2>2 DEF SessionTypeOK, Quiet
<1> QED  BY <1>1, <1>2, <1>3 DEF RequestsInv, Init

LEMMA RequestsStep == RequestsInv /\ [Next]_vars => RequestsInv'
<1>1. SUFFICES ASSUME RequestsInv, [Next]_vars PROVE RequestsInv'
    OBVIOUS
<1>2. /\ part \in Parts /\ SessionTypeOK /\ Bounded
      /\ RosterInv /\ BookmarksInv /\ PermissionsInv /\ TwitterInv /\ SaslSteps
      /\ part \in {"twitter", "login"} => phase = "Offline" /\ told = FALSE /\ Quiet
    BY <1>1 DEF RequestsInv
<1>3. ASSUME UNCHANGED <<part, rosterVars>>, part # "roster" PROVE RosterInv'
    BY <1>2, <1>3 DEF RosterInv, RosterRests, rosterVars, rosterView, rosterServer, NoEntries
<1>4. ASSUME UNCHANGED <<part, bookmarksVars>>, part # "bookmarks" PROVE BookmarksInv'
    BY <1>2, <1>4 DEF BookmarksInv, BookmarksRest, BookmarksTypeOK, bookmarksVars
<1>5. ASSUME UNCHANGED <<part, permissionsVars>>, part # "permissions" PROVE PermissionsInv'
    BY <1>2, <1>5 DEF PermissionsInv, PermissionsRest, PermissionsTypeOK, permissionsVars, Tables, NoTable
<1>6. ASSUME UNCHANGED twitterVars PROVE TwitterInv'
    BY <1>2, <1>6 DEF TwitterInv, TwitterTypeOK, twitterVars
<1>7. ASSUME UNCHANGED saslVars PROVE SaslSteps'
    BY <1>2, <1>7 DEF SaslSteps, StepsAgree, SaslTypeOK, saslVars
<1>8. CASE /\ part = "roster" /\ RosterNext
           /\ UNCHANGED <<part, bookmarksVars, permissionsVars, twitterVars, saslVars>>
  <2>1. RosterInv' /\ SessionTypeOK' /\ Bounded'
      BY <1>2, <1>8, RosterStep DEF RosterInv
  <2> QED  BY <1>2, <1>4, <1>5, <1>6, <1>7, <1>8, <2>1 DEF RequestsInv
<1>9. CASE /\ part = "bookmarks" /\ BookmarksNext
           /\ UNCHANGED <<part, rosterVars, permissionsVars, twitterVars, saslVars>>
  <2>1. BookmarksInv' /\ SessionTypeOK' /\ Bounded'
      BY <1>2, <1>9, BookmarksStep DEF BookmarksInv
  <2> QED  BY <1>2, <1>3, <1>5, <1>6, <1>7, <1>9, <2>1 DEF RequestsInv
<1>10. CASE /\ part = "permissions" /\ PermissionsNext
            /\ UNCHANGED <<part, rosterVars, bookmarksVars, twitterVars, saslVars>>
  <2>1. PermissionsInv' /\ SessionTypeOK' /\ Bounded'
      BY <1>2, <1>10, PermissionsStep DEF PermissionsInv
  <2> QED  BY <1>2, <1>3, <1>4, <1>6, <1>7, <1>10, <2>1 DEF RequestsInv
<1>11. CASE /\ part \in {"twitter", "login"} /\ UNCHANGED <<part, managersVars>>
            /\ TwitterNext \/ UNCHANGED twitterVars
            /\ SaslNext \/ UNCHANGED saslVars
  <2>1. TwitterInv' /\ SaslSteps'
      BY <1>2, <1>6, <1>7, <1>11, TwitterStep, SaslStep
  <2>2. UNCHANGED <<part, phase, told, toServer, fromServer, rosterVars, bookmarksVars, permissionsVars>>
      BY <1>11 DEF managersVars, wireVars, wire
  <2>3. RosterInv' /\ BookmarksInv' /\ PermissionsInv'
      BY <1>3, <1>4, <1>5, <1>11, <2>2
  <2> QED  BY <1>2, <2>1, <2>2, <2>3 DEF RequestsInv, SessionTypeOK, Bounded, Quiet
<1>12. CASE UNCHANGED vars
  <2>1. UNCHANGED <<part, phase, told, toServer, fromServer, rosterVars, bookmarksVars, permissionsVars,
                    twitterVars, saslVars>>
      BY <1>12 DEF vars, managersVars, wireVars, wire
  <2>2. RosterInv'
      BY <1>2, <2>1 DEF RosterInv, RosterRests, RosterHeld, RosterShape, RosterTypeOK, RosterOffline, GetFirst,
         ItemsOnce, RosterTold, PresencesTold, ItemTruths, PresenceTruths, Told, RosterForgotten,
         rosterVars, rosterView, rosterServer, NoEntries
  <2>3. BookmarksInv'
      BY <1>2, <2>1 DEF BookmarksInv, BookmarksRest, BookmarksHeld, BookmarksShape, BookmarksTypeOK, AskedFirst,
         OnePending, BookmarksTold, Told, BookmarksForgotten, bookmarksVars
  <2>4. PermissionsInv'
      BY <1>2, <2>1 DEF PermissionsInv, PermissionsRest, PermissionsHeld, PermissionsShape, PermissionsTypeOK,
         NotLater, ChangeFirst, ListsTrue, WantedComes, Received, Told, Of, Tables, NoTable, permissionsVars
  <2> QED  BY <1>2, <1>6, <1>7, <2>1, <2>2, <2>3, <2>4 DEF RequestsInv, SessionTypeOK, Bounded, Quiet
<1> QED  BY <1>1, <1>8, <1>9, <1>10, <1>11, <1>12 DEF Next, ManagersNext

LEMMA RequestsMean == RequestsInv => CopiesAgree
<1>1. SUFFICES ASSUME RequestsInv PROVE CopiesAgree
    OBVIOUS
<1>2. RosterAgrees /\ PresencesAgree /\ RosterTypeOK
  <2>1. CASE part = "roster"
      BY <1>1, <2>1, RosterMeans DEF RequestsInv, RosterInv, RosterHeld, RosterShape
  <2>2. CASE part # "roster"
    <3>1. NoEntries \in Rosters
        BY DEF NoEntries, Rosters
    <3> QED  BY <1>1, <2>2, <3>1 DEF RequestsInv, RosterInv, RosterRests, RosterTypeOK, RosterAgrees, PresencesAgree
  <2> QED  BY <2>1, <2>2
<1>3. BookmarksAgree /\ BookmarksTypeOK
    BY <1>1, BookmarksMean DEF RequestsInv, BookmarksInv, BookmarksRest, BookmarksHeld, BookmarksShape,
       BookmarksAgree
<1>4. ReceivedIsTable /\ SetTakesEffect /\ PermissionsTypeOK
    BY <1>1, PermissionsMean DEF RequestsInv, PermissionsInv, PermissionsRest, PermissionsHeld, PermissionsShape,
       ReceivedIsTable, SetTakesEffect
<1> QED  BY <1>1, <1>2, <1>3, <1>4 DEF CopiesAgree, TypeOK, RequestsInv, TwitterInv, SaslSteps, Bounded

\* The copies that the roster manager, the bookmark manager and the room's permissions keep are the server's
\* once nothing of them is under way, however changes, answers and losses of the session interleave.
THEOREM CopiesAgreeCorrect == Spec => []CopiesAgree
<1> QED  BY RequestsBegin, RequestsStep, RequestsMean, PTL DEF Spec

\* What fetch(), create() and the others of a class send is signed as it leaves, if at all, and not sent unsigned
\* where Twitter asks for a signature; and reply() of QTweetNetBase reports each answer once, with what was asked for
\* if that came, however many requests are in flight and in whichever order they are answered.
THEOREM AnswersKnownCorrect == Spec => AnswersKnown
<1>1. Init => TwitterTold
    BY DEF Init, TwitterInit, TwitterTold, SignedAsSent, Cursored
<1>2. RequestsInv /\ TwitterTold /\ [Next]_vars => TwitterTold'
  <2>1. SUFFICES ASSUME RequestsInv, TwitterTold, [Next]_vars PROVE TwitterTold'
      OBVIOUS
  <2>2. CASE TwitterNext
      BY <2>1, <2>2, TwitterMoves DEF RequestsInv
  <2>3. CASE UNCHANGED twitterVars
    <3>1. UNCHANGED <<object, usesCursoring, inFlight>>
        BY <2>3 DEF twitterVars
    <3>2. Cursored'
        BY <2>1, <3>1, Zenon DEF TwitterTold, Cursored, AwaitsPage
    <3> QED  BY <2>1, <3>1, <3>2 DEF TwitterTold, SignedAsSent
  <2> QED  BY <2>1, <2>2, <2>3 DEF Next, vars
<1>3. RequestsInv /\ TwitterTold /\ [Next]_vars =>
        [SignedAsSent' /\ AnswersReported' /\ AuthenticationObeyed]_twitterVars
  <2>1. SUFFICES ASSUME RequestsInv, TwitterTold, TwitterNext
                 PROVE  SignedAsSent' /\ AnswersReported' /\ AuthenticationObeyed
      BY DEF Next, vars
  <2> QED  BY <2>1, TwitterMoves DEF RequestsInv, TwitterTold
<1> QED  BY <1>1, <1>2, <1>3, RequestsBegin, RequestsStep, PTL DEF Spec, AnswersKnown
=============================================================================
