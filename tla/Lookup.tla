-------------------------------- MODULE Lookup --------------------------------
(***************************************************************************)
(* How the client finds the server of a domain: a QDnsLookup that hands    *)
(* its question to a pool of threads (qdnslookup.cpp, qdnslookup_unix.cpp) *)
(* and the stream that connects where the answer says                      *)
(* (QXmppOutgoingClient).                                                  *)
(*                                                                         *)
(* A question is an object of its own, known by its address; the thread    *)
(* that answers it waits until the GUI thread has taken the answer.        *)
(***************************************************************************)
EXTENDS Integers, Sequences, FiniteSets, SequencesExt, FiniteSetsExt, TLC

CONSTANTS Domains, Addresses, MaxLookups, MaxThreads

\* No object has the null address.
Nobody == "none"
ASSUME LookupAssumption ==
  MaxLookups \in Nat /\ MaxThreads \in Nat \ {0} /\ Nobody \notin Addresses

VARIABLES
  lookup,             \* the QDnsLookup: [alive, name, isFinished, runnable, reply]
  runnables,          \* at each address: [phase, name, reply]
  delivered,          \* answers posted to the GUI thread, in order: [from, reply]
  lookups,            \* how many were begun
  server,             \* where the stream connected last
  response,           \* what the resolver answers to every question (a bound: always the same)
  app                 \* "running", "closing" (window and client are gone), "gone"

lookupVars == <<lookup, runnables, delivered, lookups, server, response, app>>

Record(host, priority, weight) == [host |-> host, priority |-> priority, weight |-> weight]
FailedReply(error) == [error |-> error, records |-> << >>, name |-> Nobody]
Fallback(domain) == Record(domain, 0, 0)

\* Answers of the system's resolver: how long they are, and their records, each well formed
\* or not, of the service asked for or of something else.
Records == {Record("h", 1, 0), Record("i", 1, 1), Record("j", 2, 1)}
Entries == [record : Records, service : {TRUE}, valid : {TRUE}]
             \cup [record : {Record("h", 1, 0)}, service : BOOLEAN, valid : {FALSE}]
             \cup [record : {Record("h", 1, 0)}, service : {FALSE}, valid : {TRUE}]
NoReply == [rcode |-> "NOERROR", whole |-> FALSE, entries |-> << >>]
Responses ==
  [rcode : {"SERVFAIL", "NXDOMAIN", "REFUSED", "FORMERR", "NOTIMP"}, whole : {TRUE}, entries : {<< >>}]
    \cup {NoReply}
    \cup [rcode : {"NOERROR"}, whole : {TRUE}, entries : SeqOf(Entries, 2)]

-----------------------------------------------------------------------------
(* query() and the order of the records. *)

ErrorOfCode(rcode) ==
  CASE rcode = "FORMERR" -> "InvalidRequestError" [] rcode = "SERVFAIL" -> "ServerFailureError"
    [] rcode = "NXDOMAIN" -> "NotFoundError" [] rcode = "REFUSED" -> "ServerRefusedError"
    [] OTHER -> "InvalidReplyError"

\* A record that cannot be read ends the reading; what was read before is kept.
Resolved(answer) ==
  LET bad == SelectInSeq(answer.entries, LAMBDA e : ~e.valid)
      read == IF bad = 0 THEN answer.entries ELSE SubSeq(answer.entries, 1, bad - 1)
      services == SelectSeq(read, LAMBDA e : e.service)
  IN  CASE answer.rcode # "NOERROR" -> FailedReply(ErrorOfCode(answer.rcode))
        [] answer.rcode = "NOERROR" /\ ~answer.whole -> FailedReply("InvalidReplyError")
        [] OTHER -> [error |-> IF bad = 0 THEN "NoError" ELSE "InvalidReplyError",
                     records |-> [i \in DOMAIN services |-> services[i].record], name |-> Nobody]

Weight(records) == FoldLeft(LAMBDA w, r : w + r.weight, 0, records)

\* Those that may be taken next of equal priority: for each threshold up to the weight of
\* all, the first with which the weights so far reach it.
Reached(slice, threshold) ==
  CHOOSE j \in DOMAIN slice :
    /\ Weight(SubSeq(slice, 1, j)) >= threshold
    /\ Weight(SubSeq(slice, 1, j - 1)) < threshold \/ j = 1
Arranged[slice \in Seq(Records)] ==
  IF slice = << >> THEN {<< >>}
  ELSE UNION {{<<slice[j]>> \o rest : rest \in Arranged[RemoveAt(slice, j)]} :
                j \in {Reached(slice, t) : t \in 0 .. Weight(slice)}}

\* qSort does not keep the order of equal records.
Less(r, s) == r.priority < s.priority \/ (r.priority = s.priority /\ r.weight = 0 /\ s.weight > 0)
Sortings(records) ==
  {s \in {[i \in DOMAIN records |-> records[p[i]]] : p \in Permutations(DOMAIN records)} :
     \A i, j \in DOMAIN s : i < j => ~Less(s[j], s[i])}

\* qt_qdnsservicerecord_sort(): each priority for itself.
SortRecords(records) ==
  LET of(s, p) == Arranged[SelectSeq(s, LAMBDA r : r.priority = p)]
  IN  UNION {{first \o second : first \in of(s, 1), second \in of(s, 2)} : s \in Sortings(records)}

-----------------------------------------------------------------------------
(* The lookup and the pool. *)

Idle == [phase |-> "idle", name |-> Nobody, reply |-> FailedReply("NoError")]
Busy == {a \in Addresses : runnables[a].phase \in {"running", "blocked"}}
Errors == {"NoError", "InvalidRequestError", "ServerFailureError", "NotFoundError", "ServerRefusedError",
           "InvalidReplyError", "OperationCancelledError"}
Replies == [error : Errors, records : SeqOf(Records, 2), name : Domains \cup {Nobody}]

LookupTypeOK ==
  /\ lookup \in [alive : BOOLEAN, name : Domains \cup {Nobody}, isFinished : BOOLEAN,
                 runnable : Addresses \cup {Nobody}, reply : Replies]
  /\ runnables \in [Addresses -> [phase : {"idle", "waiting", "running", "blocked"},
                                  name : Domains \cup {Nobody}, reply : Replies]]
  /\ Len(delivered) <= Cardinality(Addresses) /\ lookups \in 0 .. MaxLookups
  /\ Cardinality(Busy) <= MaxThreads
  /\ app \in {"running", "closing", "gone"}

LookupInit ==
  /\ response \in Responses
  /\ lookup = [alive |-> TRUE, name |-> Nobody, isFinished |-> FALSE, runnable |-> Nobody, reply |-> FailedReply("NoError")]
  /\ runnables = [a \in Addresses |-> Idle] /\ delivered = << >>
  /\ lookups = 0 /\ server = Fallback(Nobody) /\ app = "running"

\* connectToHost() of a stream without a configured host, and lookup(): an earlier question
\* is forgotten, but not recalled.
ConnectToHost(domain) ==
  /\ app = "running" /\ lookups < MaxLookups /\ lookups' = lookups + 1
  /\ \E a \in Addresses :
       /\ runnables[a].phase = "idle"
       /\ runnables' = [runnables EXCEPT ![a] = [Idle EXCEPT !.phase = "waiting", !.name = domain]]
       /\ lookup' = [lookup EXCEPT !.name = domain, !.isFinished = FALSE, !.runnable = a, !.reply = FailedReply("NoError")]
  /\ UNCHANGED <<delivered, server, app, response>>

PoolStarts(a) ==
  /\ runnables[a].phase = "waiting" /\ Cardinality(Busy) < MaxThreads
  /\ runnables' = [runnables EXCEPT ![a].phase = "running"]
  /\ UNCHANGED <<lookup, delivered, lookups, server, app, response>>

\* The answer is delivered with Qt::BlockingQueuedConnection: the thread, and the object,
\* stay until it was taken.  Mutant: with Qt::QueuedConnection they go.
AfterPostingGone(a) == Idle
AfterPosting(a) == [runnables[a] EXCEPT !.phase = "blocked"]

\* run(): a name that has no encoding is not asked for.
Answers(a) ==
  LET reply == Resolved(response)
  IN  IF runnables[a].name = "" THEN {FailedReply("InvalidRequestError")}
      ELSE {[reply EXCEPT !.records = s] : s \in SortRecords(reply.records)}

Run(a) ==
  /\ runnables[a].phase = "running"
  /\ \E answer \in Answers(a) :
       LET reply == [answer EXCEPT !.name = runnables[a].name] IN
       IF lookup.alive
         THEN /\ delivered' = Append(delivered, [from |-> a, reply |-> reply])
              /\ runnables' = [runnables EXCEPT ![a] = AfterPosting(a)]
         ELSE runnables' = [runnables EXCEPT ![a] = Idle] /\ UNCHANGED delivered
  /\ UNCHANGED <<lookup, lookups, server, app, response>>

\* Mutant: the last record is taken.
ServerOfLast(reply) ==
  IF reply.error = "NoError" /\ reply.records # << >> THEN Last(reply.records) ELSE Fallback(lookup.name)

\* _q_dnsLookupFinished(): the first record, or the domain itself.
ServerOf(reply) ==
  IF reply.error = "NoError" /\ reply.records # << >> THEN reply.records[1] ELSE Fallback(lookup.name)

LetGo(a) == [runnables EXCEPT ![a] = Idle]

\* _q_lookupFinished()
LookupFinished ==
  /\ app = "running" /\ delivered # << >> /\ delivered' = Tail(delivered)
  /\ LET answer == Head(delivered) IN
       /\ IF answer.from = lookup.runnable
            THEN /\ lookup' = [lookup EXCEPT !.reply = answer.reply, !.runnable = Nobody, !.isFinished = TRUE]
                 /\ server' = ServerOf(answer.reply)
            ELSE UNCHANGED <<lookup, server>>
       /\ runnables' = LetGo(answer.from)
  /\ UNCHANGED <<lookups, app, response>>

AbortLookup ==
  /\ app = "running" /\ lookup.runnable # Nobody
  /\ lookup' = [lookup EXCEPT !.runnable = Nobody, !.isFinished = TRUE, !.reply = FailedReply("OperationCancelledError")]
  /\ server' = Fallback(lookup.name)
  /\ UNCHANGED <<runnables, delivered, lookups, app, response>>

\* The program ends: the window goes, and with it the client and its lookup; what was posted
\* to the lookup is dropped, which lets go who posted it.
\* Mutant: the application goes before the lookup.
ReleasedNone == runnables
Released == [a \in Addresses |-> IF runnables[a].phase = "blocked" THEN Idle ELSE runnables[a]]
Close ==
  /\ app = "running" /\ app' = "closing"
  /\ lookup' = [lookup EXCEPT !.alive = FALSE, !.runnable = Nobody]
  /\ delivered' = << >> /\ runnables' = Released
  /\ UNCHANGED <<lookups, server, response>>

\* _q_applicationDestroyed() waits for the pool.
ApplicationDestroyed ==
  /\ app = "closing" /\ \A a \in Addresses : runnables[a].phase = "idle"
  /\ app' = "gone" /\ UNCHANGED <<lookup, runnables, delivered, lookups, server, response>>

LookupNext ==
  \/ \E d \in Domains : ConnectToHost(d)
  \/ \E a \in Addresses : PoolStarts(a) \/ Run(a)
  \/ LookupFinished \/ AbortLookup \/ Close \/ ApplicationDestroyed

-----------------------------------------------------------------------------
(* Properties. *)

\* An answer is taken for the question that was asked last, although an earlier one may be
\* answered later, and its object freed and its address used again (_q_lookupFinished()).
AnswerOfLast ==
  lookup.isFinished /\ lookup.reply.error # "OperationCancelledError" => lookup.reply.name = lookup.name

\* The stream connects to a server of the most preferred, or to the domain if there is no
\* answer (qt_qdnsservicerecord_sort(), _q_dnsLookupFinished()).
ServerPreferred ==
  lookup.isFinished =>
    IF lookup.reply.error = "NoError" /\ lookup.reply.records # << >>
      THEN /\ server \in ToSet(lookup.reply.records)
           /\ \A r \in ToSet(lookup.reply.records) : server.priority <= r.priority
      ELSE server = Fallback(lookup.name)

\* A lookup ends, however many that were forgotten are in the pool before it.
LookupEnds == (lookup.runnable # Nobody) ~> (lookup.runnable = Nobody)

\* The program ends, also while lookups are under way.
QuitEnds == (app = "closing") ~> (app = "gone")
=============================================================================
