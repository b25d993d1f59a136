--------------------------- MODULE TwitterRequests ----------------------------
(***************************************************************************)
(* The requests of the Twitter library (src/qtweetlib/qtweet*.cpp): how    *)
(* each class sends its arguments, whether it signs them, and what it      *)
(* reads in the answer; and an object of such a class (qtweetnetbase.cpp)  *)
(* that sends requests, several at a time if it is told to, and reports    *)
(* the answers, which come in any order.  An argument bears the name that  *)
(* the interface of Twitter has for it; its value does not matter.         *)
(***************************************************************************)
EXTENDS FiniteSets, TLC, SequencesExt

\* A request: the arguments in the path of its URL, those it always passes, and those it
\* passes unless they have their default value; under which other name one is passed; which
\* are percent-encoded twice; which may be passed although they were never set; and what
\* Twitter answers, if not what the class reads.
Request(verb, place, auth, must, may) ==
    [verb |-> verb, place |-> place, auth |-> auth, path |-> {}, must |-> must, may |-> may,
     alias |-> << >>, twice |-> {}, stray |-> {}, answer |-> ""]

\* Signed if authentication is enabled; not sent unless it is; signed in any case.
Get(must, may) == Request("GET", "url", "optional", must, may)
GetSigned(must, may) == Request("GET", "url", "required", must, may)
GetAlwaysSigned(must, may) == Request("GET", "url", "always", must, may)
Post(must, may) == Request("POST", "form", "required", must, may)
PostInUrl(auth, may) == Request("POST", "url", auth, {}, may)
Delete(must, may) == Request("DELETE", "url", "required", must, may)
AtPath(path, request) == [request EXCEPT !.path = path]

\* A class: what its answers have to be, what it reads in them, and its requests.
Class(name, shape, reads, calls) == [name |-> name, shape |-> shape, reads |-> reads, calls |-> calls]

Entities == {"include_entities"}
ByUser(must, call(_, _), may) ==
    {call(must \cup {"user_id"}, may), call(must \cup {"screen_name"}, may)}
-----------------------------------------------------------------------------

AccountRateLimitStatus == Class("AccountRateLimitStatus", "object", "rate limit", {Get({}, {})})
AccountVerifyCredentials == Class("AccountVerifyCredentials", "object", "user", {GetSigned({}, Entities)})

BlocksBlocking == Class("BlocksBlocking", "array", "users", {GetSigned({}, {"page"} \cup Entities)})
BlocksBlockingIDs == Class("BlocksBlockingIDs", "array", "ids", {GetSigned({}, {})})
BlocksCreate == Class("BlocksCreate", "object", "user", ByUser({}, Post, Entities))
BlocksDestroy == Class("BlocksDestroy", "object", "user", ByUser({}, Delete, Entities))
BlocksExists == Class("BlocksExists", "object", "user", ByUser({}, GetSigned, Entities))

Window == {"since_id", "max_id", "count", "page"} \cup Entities
DirectMessageDestroy == Class("DirectMessageDestroy", "object", "message", {AtPath({"id"}, Delete({}, Entities))})
DirectMessageNew == Class("DirectMessageNew", "object", "message", ByUser({"text"}, Post, Entities))
DirectMessages == Class("DirectMessages", "array", "messages", {GetSigned({}, Window)})
DirectMessagesSent == Class("DirectMessagesSent", "array", "messages", {GetSigned({}, Window)})

Favorites ==
    Class("Favorites", "array", "statuses",
          {GetSigned({}, {"page"} \cup Entities), AtPath({"id"}, GetSigned({}, {"page"} \cup Entities))})
FavoritesCreate == Class("FavoritesCreate", "object", "status", {AtPath({"id"}, PostInUrl("required", Entities))})
FavoritesDestroy == Class("FavoritesDestroy", "object", "status", {AtPath({"id"}, Delete({}, Entities))})

FollowersID == Class("FollowersID", "object", "ids", ByUser({"cursor"}, Get, {}))
FriendsID == Class("FriendsID", "object", "ids", ByUser({"cursor"}, Get, {}))
\* The screen name is encoded, and then encoded with the rest of the query.
FriendshipCreate ==
    Class("FriendshipCreate", "object", "user",
          {Post({"user_id"}, {"follow"} \cup Entities),
           [Post({"screen_name"}, {"follow"} \cup Entities) EXCEPT !.twice = {"screen_name"}]})
FriendshipDestroy == Class("FriendshipDestroy", "object", "user", ByUser({}, Delete, Entities))

Coordinates == {"lat", "long"}
GeoPlaceCreate ==
    Class("GeoPlaceCreate", "object", "place", {Post({"name", "contained_within", "token"} \cup Coordinates, {})})
GeoPlaceID == Class("GeoPlaceID", "object", "place", {AtPath({"id"}, Get({}, {}))})
GeoReverseGeoCode ==
    Class("GeoReverseGeoCode", "object", "places", {Get(Coordinates, {"accuracy", "granularity", "max_results"})})
\* The coordinates go together.
GeoSearch ==
    LET may == {"query", "ip", "granularity", "accuracy", "max_results", "contained_within"}
    IN  Class("GeoSearch", "object", "places", {Get({}, may), Get(Coordinates, may)})
GeoSimilarPlaces ==
    Class("GeoSimilarPlaces", "object", "places", {Get({"name"} \cup Coordinates, {"contained_within"})})

HomeTimeline ==
    Class("HomeTimeline", "array", "statuses",
          {GetSigned({}, (Window \ {"page"}) \cup {"trim_user", "exclude_replies", "contributor_details"})})
Mentions ==
    Class("Mentions", "array", "statuses",
          {GetSigned({}, Window \cup {"trim_user", "include_rts", "exclude_replies", "contributor_details"})})
UserTimeline ==
    Class("UserTimeline", "array", "statuses",
          {Get({}, Window \cup {"user_id", "screen_name", "trim_user", "include_rts", "exclude_replies",
                                "contributor_details"})})
RetweetByMe == Class("RetweetByMe", "array", "statuses", {GetSigned({}, Window \cup {"trim_user"})})
RetweetsOfMe == Class("RetweetsOfMe", "array", "statuses", {GetSigned({}, Window \cup {"trim_user"})})
RetweetToMe == Class("RetweetToMe", "array", "statuses", {GetSigned({}, Window \cup {"trim_user"})})
\* The id of the user is passed for his name.
RetweetByUser ==
    Class("RetweetByUser", "array", "statuses",
          {[GetAlwaysSigned({"user_id"}, Window \cup {"trim_user"}) EXCEPT !.alias = "user_id" :> "screen_name"],
           GetAlwaysSigned({"screen_name"}, Window \cup {"trim_user"})})
RetweetToUser ==
    Class("RetweetToUser", "array", "statuses", ByUser({}, GetAlwaysSigned, Window \cup {"trim_user"}))

ListAddMember ==
    Class("ListAddMember", "object", "list",
          {AtPath({"user", "list"}, [PostInUrl("required", {}) EXCEPT !.must = {"id"}])})
ListCreate == Class("ListCreate", "object", "list", {AtPath({"user"}, Post({"name"}, {"mode", "description"}))})
ListDeleteMember == Class("ListDeleteMember", "object", "list", {AtPath({"user", "list"}, Delete({"id"}, {}))})
ListShowList == Class("ListShowList", "object", "list", {AtPath({"user", "list"}, GetSigned({}, {}))})
ListSubscribe == Class("ListSubscribe", "object", "list", {AtPath({"user", "list"}, PostInUrl("required", {}))})
ListUpdate ==
    Class("ListUpdate", "object", "list", {AtPath({"user", "list"}, Post({}, {"name", "mode", "description"}))})

Search ==
    Class("Search", "object", "page",
          {Get({"q"}, {"lang", "rpp", "page", "since_id"}), GetAlwaysSigned({"q"}, {})})

StatusDestroy == Class("StatusDestroy", "object", "status", {Post({"id"}, {"trim_user"} \cup Entities)})
StatusRetweet ==
    Class("StatusRetweet", "object", "status", {AtPath({"id"}, PostInUrl("optional", {"trim_user"} \cup Entities))})
StatusRetweetByID == Class("StatusRetweetByID", "array", "ids", {AtPath({"id"}, GetSigned({}, {"count", "page"}))})
StatusRetweetedBy == Class("StatusRetweetedBy", "array", "users", {AtPath({"id"}, GetSigned({}, {"count", "page"}))})
\* One of the names is passed with a space after it.
StatusShow ==
    Class("StatusShow", "object", "status",
          {[Get({"id"}, {"trim_user", "include_my_retweet"} \cup Entities)
              EXCEPT !.alias = "include_my_retweet" :> "include_my_retweet "]})
StatusUpdate ==
    LET may == {"in_reply_to_status_id", "place_id", "display_coordinates", "trim_user"} \cup Entities
    IN  Class("StatusUpdate", "object", "status", {Post({"status"}, may), Post({"status"} \cup Coordinates, may)})
\* No constructor sets m_sensitive.
StatusUpdateWithMedia ==
    Class("StatusUpdateWithMedia", "object", "status",
          {[Request("POST", "parts", "required", {"status", "media[]"},
                    {"possibly_sensitive", "in_reply_to_status_id", "place_id", "display_coordinates"}
                    \cup Coordinates) EXCEPT !.stray = {"possibly_sensitive"}]})

UserLookup == Class("UserLookup", "array", "users", {GetSigned({}, {"user_id", "screen_name"})})
UserSearch == Class("UserSearch", "array", "users", {GetSigned({"q"}, {"per_page", "page"} \cup Entities)})
UserShow == Class("UserShow", "object", "user", ByUser({}, Get, Entities))
\* With a cursor the answer is a page of users, without one it is all of them.
UserStatusesFollowers ==
    Class("UserStatusesFollowers", "object", "users",
          {Get({"cursor"}, {u} \cup Entities) : u \in {"user_id", "screen_name"}}
          \cup {[Get({}, {u} \cup Entities) EXCEPT !.answer = "array"] : u \in {"user_id", "screen_name"}})

Classes ==
    {AccountRateLimitStatus, AccountVerifyCredentials, BlocksBlocking, BlocksBlockingIDs, BlocksCreate,
     BlocksDestroy, BlocksExists, DirectMessageDestroy, DirectMessageNew, DirectMessages,
     DirectMessagesSent, Favorites, FavoritesCreate, FavoritesDestroy, FollowersID, FriendsID,
     FriendshipCreate, FriendshipDestroy, GeoPlaceCreate, GeoPlaceID, GeoReverseGeoCode, GeoSearch,
     GeoSimilarPlaces, HomeTimeline, Mentions, UserTimeline, RetweetByMe, RetweetsOfMe, RetweetToMe,
     RetweetByUser, RetweetToUser, ListAddMember, ListCreate, ListDeleteMember, ListShowList,
     ListSubscribe, ListUpdate, Search, StatusDestroy, StatusRetweet, StatusRetweetByID,
     StatusRetweetedBy, StatusShow, StatusUpdate, StatusUpdateWithMedia, UserLookup, UserSearch,
     UserShow, UserStatusesFollowers}

-----------------------------------------------------------------------------
(* An object of one of these classes.                                     *)

CONSTANTS
    MaxGiven,      \* bound on the optional arguments of a request
    MaxInFlight    \* bound on the requests that are not answered

ASSUME TwitterAssumption == {MaxGiven, MaxInFlight} \subseteq Nat

VARIABLES
    object,          \* the class of the object
    authentication,  \* m_authentication
    jsonParsing,     \* m_jsonParsingEnabled
    usesCursoring,   \* m_usesCursoring, of UserStatusesFollowers
    inFlight,        \* the requests that are not answered: what was called, and what was sent
    answered         \* the last answer, to which request, and the signals it caused

twitterVars == <<object, authentication, jsonParsing, usesCursoring, inFlight, answered>>

NoAnswer == [to |-> << >>, outcome |-> "", signals |-> << >>]
Unsigned == << >>
\* The codes that have a name among the errors of the library, and others.
Named == {"401", "503"}
Codes == Named \cup {"418"}
Outcomes == {"object", "array", "garbage"} \cup Codes
UnknownError == "2"

TwitterTypeOK ==
    /\ object \in Classes /\ {authentication, jsonParsing, usesCursoring} \subseteq BOOLEAN
    /\ Len(inFlight) <= MaxInFlight /\ \A i \in DOMAIN inFlight : inFlight[i].call \in object.calls
    /\ answered.outcome \in Outcomes \cup {""}

\* One class, or any.
TwitterInit(classes) ==
    /\ object \in classes
    /\ authentication = TRUE /\ jsonParsing = TRUE /\ usesCursoring = FALSE
    /\ inFlight = << >> /\ answered = NoAnswer

SetAuthenticationEnabled ==
    /\ authentication' = ~authentication /\ answered' = NoAnswer
    /\ UNCHANGED <<object, jsonParsing, usesCursoring, inFlight>>

SetJsonParsingEnabled ==
    /\ jsonParsing' = ~jsonParsing /\ answered' = NoAnswer
    /\ UNCHANGED <<object, authentication, usesCursoring, inFlight>>
-----------------------------------------------------------------------------

Parameter(call, argument) == IF argument \in DOMAIN call.alias THEN call.alias[argument] ELSE argument

\* Each parameter and how often its value is encoded.
Query(call, arguments) == {<<Parameter(call, a), IF a \in call.twice THEN 2 ELSE 1>> : a \in arguments}

\* What is signed: the parameters of the query, but not those of the parts of a body.
Signature(call, query) == <<call.verb, call.path, IF call.place = "parts" THEN {} ELSE query>>

Signs(call) == call.auth # "optional" \/ authentication

\* The request as it leaves: the body of a form holds the whole query.
Sent(call, arguments) ==
    LET query == Query(call, arguments)
    IN  [verb |-> call.verb, path |-> call.path,
         url |-> IF call.place = "url" THEN query ELSE {},
         form |-> IF call.place = "form" THEN query ELSE {},
         parts |-> IF call.place = "parts" THEN query ELSE {},
         signature |-> IF Signs(call) THEN Signature(call, query) ELSE Unsigned]

\* fetch(), create(), ...: without authentication a request that needs it is not sent.
Fetch ==
    /\ Len(inFlight) < MaxInFlight /\ answered' = NoAnswer
    /\ \E call \in object.calls :
       \E given \in UNION {kSubset(k, call.may) : k \in 0 .. MaxGiven}, stray \in SUBSET call.stray :
         /\ inFlight' = IF call.auth = "required" /\ ~authentication THEN inFlight
                        ELSE Append(inFlight, [call |-> call, given |-> given, stray |-> stray,
                                               wire |-> Sent(call, call.must \cup given \cup stray)])
         /\ usesCursoring' = (usesCursoring \/ (object = UserStatusesFollowers /\ "cursor" \in call.must))
    /\ UNCHANGED <<object, authentication, jsonParsing>>

\* parseJsonFinished() of the class: a document of another shape is passed over in silence.
\* UserStatusesFollowers goes by whether it ever used a cursor.
ParseJsonFinished(shape) ==
    IF shape # object.shape THEN << >>
    ELSE IF object = UserStatusesFollowers /\ ~usesCursoring THEN <<"nothing">>
    ELSE <<object.reads>>

ErrorOf(code) == IF code \in Named THEN code ELSE UnknownError

\* Mutant: an error is read as well.
ReportsAnyway(outcome) ==
    IF outcome \in {"object", "array", "garbage"}
    THEN <<"finished">> \o IF jsonParsing THEN ParseJsonFinished(outcome) ELSE << >>
    ELSE <<"finished", "error", ErrorOf(outcome)>>

\* reply(): finished() and what was read, or error().
Reports(outcome) ==
    IF outcome \in {"object", "array", "garbage"}
    THEN <<"finished">> \o IF jsonParsing THEN ParseJsonFinished(outcome) ELSE << >>
    ELSE <<"error", ErrorOf(outcome)>>

Reply ==
    /\ \E i \in DOMAIN inFlight, outcome \in Outcomes :
         /\ answered' = [to |-> inFlight[i], outcome |-> outcome, signals |-> Reports(outcome)]
         /\ inFlight' = RemoveAt(inFlight, i)
    /\ UNCHANGED <<object, authentication, jsonParsing, usesCursoring>>

TwitterNext == SetAuthenticationEnabled \/ SetJsonParsingEnabled \/ Fetch \/ Reply
-----------------------------------------------------------------------------
(* Properties.                                                             *)

\* What a signature covers is what Twitter gets to see: the verb, the URL, and all
\* parameters, in the URL or in the body of a form, however the class builds the two.
SignedAsSent ==
    \A i \in DOMAIN inFlight :
      LET w == inFlight[i].wire
      IN  w.signature # Unsigned => w.signature = <<w.verb, w.path, w.url \cup w.form>>

\* Without a signature go only those requests that Twitter takes from everybody, and with
\* one, while authentication is disabled, only the four that never ask.
AlwaysSigned == {RetweetByUser, RetweetToUser, Search}
AuthenticationObeyed ==
    \A i \in DOMAIN inFlight' :
      i \notin DOMAIN inFlight =>
        IF authentication THEN inFlight'[i].wire.signature # Unsigned
        ELSE /\ inFlight'[i].call.auth # "required"
             /\ inFlight'[i].wire.signature = Unsigned \/ object \in AlwaysSigned

\* Every answer is reported once: as an error, or as finished, and then with what it holds if
\* that is what was asked for; which for UserStatusesFollowers it is only with a cursor.
AnswersReported ==
    answered # NoAnswer =>
      LET call == answered.to.call
          expected == IF call.answer = "" THEN object.shape ELSE call.answer
          failed == answered.outcome \in Codes
      IN  /\ ("error" \in ToSet(answered.signals)) = failed
          /\ ("finished" \in ToSet(answered.signals)) = ~failed
          /\ jsonParsing /\ answered.outcome = expected /\ call.answer = "" =>
               answered.signals = <<"finished", object.reads>>
          /\ ~failed /\ answered.outcome # object.shape => answered.signals = <<"finished">>
=============================================================================
