------------------------------ MODULE Services ------------------------------
(***************************************************************************)
(* The IQ classes with structured payloads: data forms and what carries    *)
(* them (registration, room configuration, service discovery), the roster, *)
(* the admin list of a room, bookmarks and publish-subscribe; the message  *)
(* archive; remote procedure calls.                                        *)
(***************************************************************************)
EXTENDS Iqs

-----------------------------------------------------------------------------
(* QXmppDataForm.  The value of a field is the sequence of its texts: none *)
(* if it was never set, "1" or "0" for a boolean.                          *)

FieldTypes == {"boolean", "fixed", "hidden", "jid-multi", "jid-single", "list-multi",
               "list-single", "text-multi", "text-private", "text-single"}
Multi == {"list-multi", "jid-multi", "text-multi"}
WithOptions == {"list-multi", "list-single"}
FormTypes == {"form", "submit", "cancel", "result"}

Media == [height |-> -1, width |-> -1, uris |-> << >>]
Field == [type |-> "text-single", key |-> Null, label |-> Null, value |-> << >>, media |-> Media,
          options |-> << >>, description |-> Null, required |-> FALSE]
DataForm == [type |-> "None", title |-> Null, instructions |-> Null, fields |-> << >>]

ParseMedia(e) ==
  [height |-> ToIntOr(Attr(e, "height"), -1), width |-> ToIntOr(Attr(e, "width"), -1),
   uris |-> Each(LAMBDA k : <<Attr(k, "type"), k.text>>, Kids(e, "uri"))]
MediaToXml(m) ==
  LET Size(n) == IF n > 0 THEN ToString(n) ELSE ""
  IN  If(m.uris # << >>,
         <<El("media", "urn:xmpp:media-element", [height |-> Size(m.height), width |-> Size(m.width)],
              Each(LAMBDA u : WithText(El("uri", "", [type |-> u[1]], << >>), u[2]), m.uris))>>)

ParseField(e) ==
  LET type == OneOf(Attr(e, "type"), FieldTypes, "text-single")
      texts == Each(LAMBDA k : k.text, Kids(e, "value"))
  IN  [type |-> type, label |-> Attr(e, "label"), key |-> Attr(e, "var"),
       value |-> CASE type = "boolean" ->
                        <<IF TextOf(e, "value") \in {"1", "true"} THEN "1" ELSE "0">>
                   [] type \in Multi -> texts
                   [] OTHER -> IF texts = << >> THEN << >> ELSE <<texts[1]>>,
       media |-> IF IsNull(Kid(e, "media")) THEN Media ELSE ParseMedia(Kid(e, "media")),
       options |-> If(type \in WithOptions,
                      Each(LAMBDA k : <<Attr(k, "label"), TextOf(k, "value")>>, Kids(e, "option"))),
       description |-> TextOf(e, "description"), required |-> ~IsNull(Kid(e, "required"))]
FieldToXml(f) ==
  El("field", "", [type |-> f.type, label |-> f.label, var |-> f.key],
     (CASE f.type = "boolean" -> <<TextEl("value", IF f.value = <<"1">> THEN "1" ELSE "0")>>
        [] f.type # "boolean" -> Each(LAMBDA v : TextEl("value", v), f.value))
     \o MediaToXml(f.media)
     \o If(f.type \in WithOptions,
           Each(LAMBDA o : El("option", "", [label |-> o[1]], <<TextEl("value", o[2])>>), f.options))
     \o TextIf("description", f.description)
     \o If(f.required, <<TextEl("required", "")>>))

\* A form of an unknown type is not read at all, one without a type not written.
ParseDataForm(e) ==
  IF Attr(e, "type") \notin FormTypes THEN DataForm
  ELSE [type |-> Attr(e, "type"), title |-> TextOf(e, "title"),
        instructions |-> TextOf(e, "instructions"), fields |-> Each(ParseField, Kids(e, "field"))]
DataFormToXml(x) ==
  If(x.type # "None",
     <<El("x", "jabber:x:data", [type |-> x.type],
          TextIf("title", x.title) \o TextIf("instructions", x.instructions)
          \o Each(FieldToXml, x.fields))>>)

-----------------------------------------------------------------------------
(* QXmppRegisterIq: a field that is asked for is empty, not missing. *)

RegisterIq == FreshIq("get") @@ [instructions |-> Null, username |-> Null, password |-> Null,
                                 email |-> Null, form |-> DataForm]
IsRegisterIq(e) == Has(e, "query", "jabber:iq:register")
RegisterIqToXml(x) ==
  IqToXml(x, Simple("query", "jabber:iq:register",
                    TextIf("instructions", x.instructions) \o TextIfSet("username", x.username)
                    \o TextIfSet("password", x.password) \o TextIfSet("email", x.email)
                    \o DataFormToXml(x.form)))
ParseRegisterIq(e) ==
  ParseIq(e) @@ [f \in {"instructions", "username", "password", "email"} |-> TextOf(Query(e), f)]
             @@ [form |-> ParseDataForm(Kid(Query(e), "x"))]

-----------------------------------------------------------------------------
(* QXmppMucOwnerIq, QXmppMucAdminIq *)

MucOwnerIq == FreshIq("get") @@ [form |-> DataForm]
IsMucOwnerIq(e) == Has(e, "query", "http://jabber.org/protocol/muc#owner")
MucOwnerIqToXml(x) ==
  IqToXml(x, Simple("query", "http://jabber.org/protocol/muc#owner", DataFormToXml(x.form)))
ParseMucOwnerIq(e) == ParseIq(e) @@ [form |-> ParseDataForm(Kid(Query(e), "x"))]

MucAdminIq == FreshIq("get") @@ [items |-> << >>]
IsMucAdminIq(e) == Has(e, "query", "http://jabber.org/protocol/muc#admin")
MucAdminIqToXml(x) ==
  IqToXml(x, Simple("query", "http://jabber.org/protocol/muc#admin", Each(MucItemToXml, x.items)))

ParseMucAdminIq(e) == ParseIq(e) @@ [items |-> Each(ParseMucItem, Kids(Query(e), "item"))]

-----------------------------------------------------------------------------
(* QXmppRosterIq: from the first item on, every element counts as one. *)

RosterItem ==
  [bareJid |-> Null, name |-> Null, subscription |-> "", ask |-> Null, groups |-> {}]
ParseRosterItem(e) ==
  [bareJid |-> Attr(e, "jid"), name |-> Attr(e, "name"), ask |-> Attr(e, "ask"),
   subscription |-> OneOf(Attr(e, "subscription"), {"none", "both", "from", "to", "remove"}, ""),
   groups |-> {Kids(e, "group")[i].text : i \in DOMAIN Kids(e, "group")}]
RosterItemToXml(x) ==
  El("item", "", [jid |-> x.bareJid, name |-> x.name, subscription |-> x.subscription, ask |-> x.ask],
     Each(LAMBDA g : TextEl("group", g), SetToSeq(x.groups)))

RosterIq == FreshIq("get") @@ [items |-> << >>]
IsRosterIq(e) == Has(e, "query", "jabber:iq:roster")
RosterIqToXml(x) == IqToXml(x, Simple("query", "jabber:iq:roster", Each(RosterItemToXml, x.items)))
ParseRosterIq(e) ==
  LET kids == Query(e).kids
      first == SelectInSeq(kids, LAMBDA k : k.tag = "item")
  IN  ParseIq(e) @@
      [items |-> IF first = 0 THEN << >>
                 ELSE Each(ParseRosterItem, SubSeq(kids, first, Len(kids)))]

-----------------------------------------------------------------------------
(* QXmppBookmarkSet, as QXmppBookmarkManager stores it. *)

BookmarkConference == [autoJoin |-> FALSE, jid |-> Null, name |-> Null, nickName |-> Null]
BookmarkSet == [conferences |-> << >>, urls |-> << >>]
IsBookmarkSet(e) == e.tag = "storage" /\ e.ns = "storage:bookmarks"
BookmarkSetToXml(x) ==
  El("storage", "storage:bookmarks", None,
     Each(LAMBDA c : El("conference", "", [autojoin |-> IF c.autoJoin THEN "true" ELSE "",
                                           jid |-> c.jid, name |-> c.name],
                        TextIf("nick", c.nickName)), x.conferences)
     \o Each(LAMBDA u : El("url", "", [name |-> u.name, url |-> u.url], << >>), x.urls))
ParseBookmarkSet(e) ==
  [conferences |-> Each(LAMBDA k : [autoJoin |-> Attr(k, "autojoin") = "true", jid |-> Attr(k, "jid"),
                                    name |-> Attr(k, "name"), nickName |-> TextOf(k, "nick")],
                        Kids(e, "conference")),
   urls |-> Each(LAMBDA k : [name |-> Attr(k, "name"), url |-> Attr(k, "url")], Kids(e, "url"))]

\* The query of QXmppBookmarkManager around it.
PrivateStorageIq == FreshIq("get") @@ [bookmarks |-> BookmarkSet]
IsPrivateStorageIq(e) ==
  /\ Has(e, "query", "jabber:iq:private")
  /\ IsBookmarkSet(FirstKid(Query(e)))
PrivateStorageIqToXml(x) ==
  IqToXml(x, Simple("query", "jabber:iq:private", <<BookmarkSetToXml(x.bookmarks)>>))
ParsePrivateStorageIq(e) == ParseIq(e) @@ [bookmarks |-> ParseBookmarkSet(Kid(Query(e), "storage"))]

-----------------------------------------------------------------------------
(* QXmppDiscoveryIq: which of the lists is written depends on the query. *)

NsInfo == "http://jabber.org/protocol/disco#info"
NsItems == "http://jabber.org/protocol/disco#items"

DiscoveryIq == FreshIq("get") @@ [queryType |-> NsInfo, queryNode |-> Null, features |-> << >>,
                                  identities |-> << >>, items |-> << >>, form |-> DataForm]
IsDiscoveryIq(e) == Has(e, "query", NsInfo) \/ Has(e, "query", NsItems)
IdentityToXml(i) ==
  El("identity", "", [lang |-> i.language, category |-> i.category, name |-> i.name,
                      type |-> i.type], << >>)
ParseIdentity(k) == [language |-> Attr(k, "lang"), category |-> Attr(k, "category"),
                     name |-> Attr(k, "name"), type |-> Attr(k, "type")]
DiscoveryIqToXml(x) ==
  IqToXml(x, <<El("query", x.queryType, [node |-> x.queryNode],
                  (IF x.queryType = NsInfo
                     THEN Each(IdentityToXml, x.identities)
                          \o Each(LAMBDA f : El("feature", "", [var |-> f], << >>), x.features)
                     ELSE Each(LAMBDA i : El("item", "", i, << >>), x.items))
                  \o DataFormToXml(x.form))>>)
ParseDiscoveryIq(e) ==
  LET query == Query(e)
      forms == SelectSeq(Kids(query, "x"), LAMBDA k : k.ns = "jabber:x:data")
  IN  ParseIq(e) @@
      [queryType |-> IF query.ns = NsItems THEN NsItems ELSE NsInfo, queryNode |-> Attr(query, "node"),
       features |-> Each(LAMBDA k : Attr(k, "var"), Kids(query, "feature")),
       identities |-> Each(ParseIdentity, Kids(query, "identity")),
       items |-> Each(LAMBDA k : [f \in {"jid", "name", "node"} |-> Attr(k, f)], Kids(query, "item")),
       form |-> IF forms = << >> THEN DataForm ELSE ParseDataForm(Last(forms))]

\* What the capability hash is taken over: the lists in an order of their own.
Alphabet == <<Null, "a", "b", "client", "gateway", "n", "pc", "web">>
Rank(s) == SelectInSeq(Alphabet, LAMBDA t : t = s)

IdentityLessThan(i, j) ==
  LET Key(k) == <<Rank(k.category), Rank(k.type), Rank(k.language), Rank(k.name)>>
  IN  \E n \in 1 .. 4 : Key(i)[n] < Key(j)[n] /\ \A m \in 1 .. n - 1 : Key(i)[m] = Key(j)[m]
VerificationString(x) ==
  LET Typed(f) == f.key = "FORM_TYPE"
      formType == SelectSeq(x.form.fields, Typed)
  IN  <<SortSeq(x.identities, IdentityLessThan),
        SortSeq(x.features, LAMBDA f, g : Rank(f) < Rank(g)),
        If(x.form.type # "None" /\ formType # << >>,
           <<Last(formType).value,
             SortSeq(SelectSeq(x.form.fields, LAMBDA f : ~Typed(f)),
                     LAMBDA f, g : Rank(f.key) < Rank(g.key))>>)>>

-----------------------------------------------------------------------------
(* QXmppPubSubIq.  The parser looks for a part of the queries only: of the *)
(* others, which toXml() writes, the type stays what the memory held.      *)

NsPubSub == "http://jabber.org/protocol/pubsub"
PubSubQueries == <<"affiliations", "default", "items", "publish", "retract", "subscribe",
                   "subscription", "subscriptions", "unsubscribe">>
ReadQueries == ToSet(SubSeq(PubSubQueries, 3, 8))
Unset == "(any)"

PubSubIq == FreshIq("get") @@ [queryType |-> "items", queryJid |-> Null, queryNode |-> Null,
                               items |-> << >>, subscriptionId |-> Null]
IsPubSubIq(e) == Has(e, "pubsub", NsPubSub)
PubSubItemToXml(i) == El("item", "", [id |-> i.id], ElementsToXml(<<i.contents>>))
ParsePubSubItem(k) == [id |-> Attr(k, "id"), contents |-> FirstKid(k)]
PubSubIqToXml(x) ==
  IqToXml(x, Simple("pubsub", NsPubSub,
        <<El(x.queryType, "", [jid |-> x.queryJid, node |-> x.queryNode,
                               subid |-> IF x.queryType = "subscription" THEN x.subscriptionId ELSE ""],
             If(x.queryType \in {"items", "publish"}, Each(PubSubItemToXml, x.items)))>>))
ParsePubSubIq(e) ==
  LET query == FirstKid(Kid(e, "pubsub"))
      type == OneOf(query.tag, ReadQueries, Unset)
  IN  ParseIq(e) @@
      [queryType |-> type, queryJid |-> Attr(query, "jid"), queryNode |-> Attr(query, "node"),
       items |-> If(type \in {"items", "publish"}, Each(ParsePubSubItem, Kids(query, "item"))),
       subscriptionId |-> IF type = "subscription" THEN Attr(query, "subid") ELSE Null]

-----------------------------------------------------------------------------
(***************************************************************************)
(* The message archive: result sets, conversations whose messages are      *)
(* dated by the seconds since the one before, and the IQ classes that      *)
(* list, fetch, remove and configure them.                                 *)
(***************************************************************************)

NsArchive == "urn:xmpp:archive"
NsRsm == "http://jabber.org/protocol/rsm"

-----------------------------------------------------------------------------
(* QXmppResultSetQuery, QXmppResultSetReply: -1 and Null stand for unset.  *)
(* Both are read from the same element, which may hold the other.          *)

ResultSetQuery == [max |-> -1, index |-> -1, before |-> Null, after |-> Null]
ResultSetReply == [count |-> -1, index |-> -1, first |-> Null, last |-> Null]
NumberIf(tag, n) == If(n >= 0, <<TextEl(tag, ToString(n))>>)

QueryToXml(x) ==
  If(x # ResultSetQuery,
     Simple("set", NsRsm, NumberIf("max", x.max) \o TextIfSet("after", x.after)
                          \o TextIfSet("before", x.before) \o NumberIf("index", x.index)))
ParseQuery(e) ==
  LET set == Kid(e, "set")
  IN  IF ~Has(e, "set", NsRsm) THEN ResultSetQuery
      ELSE [max |-> ToIntOr(TextOf(set, "max"), -1), index |-> ToIntOr(TextOf(set, "index"), -1),
            before |-> TextOf(set, "before"), after |-> TextOf(set, "after")]

ReplyToXml(x) ==
  If(x # ResultSetReply,
     Simple("set", NsRsm,
            If(x.first # Null \/ x.index >= 0,
               <<WithText(El("first", "", [index |-> IF x.index >= 0 THEN ToString(x.index) ELSE ""],
                             << >>), x.first)>>)
            \o TextIfSet("last", x.last) \o NumberIf("count", x.count)))
ParseReply(e) ==
  LET set == Kid(e, "set")
  IN  IF ~Has(e, "set", NsRsm) THEN ResultSetReply
      ELSE [count |-> ToInt(TextOf(set, "count")), first |-> TextOf(set, "first"),
            index |-> ToIntOr(Attr(Kid(set, "first"), "index"), -1), last |-> TextOf(set, "last")]

-----------------------------------------------------------------------------
(* QXmppArchiveChat, QXmppArchiveMessage *)

ArchiveMessage == [body |-> "hi", date |-> 0, received |-> FALSE]
ArchiveChat == [with |-> Null, start |-> Never, subject |-> Null, thread |-> Null, version |-> 0,
                messages |-> << >>]

\* The whole seconds from one instant to a later one.
SecsTo(d, t) == (t - d) \div 1000
DateBefore(x, i) == IF i = 1 THEN x.start ELSE x.messages[i - 1].date
ArchiveMessageToXml(x, i) ==
  El(IF x.messages[i].received THEN "from" ELSE "to", "",
     [secs |-> ToString(SecsTo(DateBefore(x, i), x.messages[i].date))],
     <<TextEl("body", x.messages[i].body)>>)
ArchiveChatToXml(x, rsm) ==
  El("chat", NsArchive, [with |-> x.with, start |-> DatetimeToString(x.start), subject |-> x.subject,
                         thread |-> x.thread, version |-> IF x.version # 0 THEN ToString(x.version) ELSE ""],
     [i \in DOMAIN x.messages |-> ArchiveMessageToXml(x, i)] \o rsm)

\* The time of a message is the sum of the seconds so far.
\* MUTANT: each message is dated from the start.
ParseArchiveChatFromStart(e) ==
  LET start == DatetimeFromString(Attr(e, "start"))
      said == SelectSeq(e.kids, LAMBDA k : k.tag \in {"from", "to"})
  IN  [with |-> Attr(e, "with"), start |-> start, subject |-> Attr(e, "subject"),
       thread |-> Attr(e, "thread"), version |-> ToInt(Attr(e, "version")),
       messages |-> [i \in DOMAIN said |->
                       [body |-> TextOf(said[i], "body"),
                        date |-> start + 1000 * ToInt(Attr(said[i], "secs")),
                        received |-> said[i].tag = "from"]]]

ParseArchiveChat(e) ==
  LET start == DatetimeFromString(Attr(e, "start"))
      said == SelectSeq(e.kids, LAMBDA k : k.tag \in {"from", "to"})
      Secs(i) == ToInt(Attr(said[i], "secs"))
      Date[i \in 0 .. Len(said)] == IF i = 0 THEN start ELSE Date[i - 1] + 1000 * Secs(i)
  IN  [with |-> Attr(e, "with"), start |-> start, subject |-> Attr(e, "subject"),
       thread |-> Attr(e, "thread"), version |-> ToInt(Attr(e, "version")),
       messages |-> [i \in DOMAIN said |->
                       [body |-> TextOf(said[i], "body"), date |-> Date[i],
                        received |-> said[i].tag = "from"]]]

-----------------------------------------------------------------------------
(* QXmppArchiveChatIq, QXmppArchiveListIq *)

ArchiveChatIq == FreshIq("get") @@ [chat |-> ArchiveChat, rsmReply |-> ResultSetReply]
IsArchiveChatIq(e) == ~IsEmpty(Attr(Kid(e, "chat"), "with"))
ArchiveChatIqToXml(x) == IqToXml(x, <<ArchiveChatToXml(x.chat, ReplyToXml(x.rsmReply))>>)
ParseArchiveChatIq(e) ==
  ParseIq(e) @@ [chat |-> ParseArchiveChat(Kid(e, "chat")), rsmReply |-> ParseReply(Kid(e, "chat"))]

ArchiveListIq ==
  FreshIq("get") @@ [with |-> Null, start |-> Never, end |-> Never, chats |-> << >>,
                     rsmQuery |-> ResultSetQuery, rsmReply |-> ResultSetReply]
IsArchiveListIq(e) == Has(e, "list", NsArchive)
Span(x) == [with |-> x.with, start |-> DatetimeToString(x.start), end |-> DatetimeToString(x.end)]
ParseSpan(e) == [with |-> Attr(e, "with"), start |-> DatetimeFromString(Attr(e, "start")),
                 end |-> DatetimeFromString(Attr(e, "end"))]
ArchiveListIqToXml(x) ==
  IqToXml(x, <<El("list", NsArchive, Span(x),
                  (IF x.rsmQuery # ResultSetQuery THEN QueryToXml(x.rsmQuery)
                                                  ELSE ReplyToXml(x.rsmReply))
                  \o Each(LAMBDA c : ArchiveChatToXml(c, << >>), x.chats))>>)
ParseArchiveListIq(e) ==
  LET list == Kid(e, "list")
  IN  ParseIq(e) @@ ParseSpan(list) @@
      [rsmQuery |-> ParseQuery(list), rsmReply |-> ParseReply(list),
       chats |-> Each(ParseArchiveChat, Kids(list, "chat"))]

-----------------------------------------------------------------------------
(* QXmppArchivePrefIq, QXmppArchiveRemoveIq, QXmppArchiveRetrieveIq *)

ArchivePrefIq == FreshIq("get")
IsArchivePrefIq(e) == Has(e, "pref", NsArchive)
ArchivePrefIqToXml(x) == IqToXml(x, Simple("pref", NsArchive, << >>))
ParseArchivePrefIq(e) == ParseIq(e)

ArchiveRemoveIq == FreshIq("get") @@ [with |-> Null, start |-> Never, end |-> Never]
IsArchiveRemoveIq(e) == Has(e, "remove", NsArchive)
ArchiveRemoveIqToXml(x) == IqToXml(x, <<El("remove", NsArchive, Span(x), << >>)>>)
ParseArchiveRemoveIq(e) == ParseIq(e) @@ ParseSpan(Kid(e, "remove"))

ArchiveRetrieveIq ==
  FreshIq("get") @@ [with |-> Null, start |-> Never, rsmQuery |-> ResultSetQuery]
IsArchiveRetrieveIq(e) == Has(e, "retrieve", NsArchive)
ArchiveRetrieveIqToXml(x) ==
  IqToXml(x, <<El("retrieve", NsArchive, [with |-> x.with, start |-> DatetimeToString(x.start)],
                  QueryToXml(x.rsmQuery))>>)
ParseArchiveRetrieveIq(e) ==
  LET retrieve == Kid(e, "retrieve")
  IN  ParseIq(e) @@ [with |-> Attr(retrieve, "with"), rsmQuery |-> ParseQuery(retrieve),
                     start |-> DatetimeFromString(Attr(retrieve, "start"))]

-----------------------------------------------------------------------------
(***************************************************************************)
(* Remote procedure calls: QXmppRpcMarshaller, which writes a value with   *)
(* its type and reads it back, the three IQ classes, and the answer        *)
(* QXmppRpcManager gives to a call.                                        *)
(*                                                                         *)
(* A value is [type, text, items, keys]: a list has items, a map has items *)
(* and their keys in order, anything else a text.  A value that could not  *)
(* be read is Invalid.                                                     *)
(***************************************************************************)

Value(type, text) == [type |-> type, text |-> text, items |-> << >>, keys |-> << >>]
ListValue(items) == [Value("list", "") EXCEPT !.items = items]
MapValue(keys, items) == [Value("map", "") EXCEPT !.keys = keys, !.items = items]
NilValue == Value("nil", Null)
Invalid == Value("invalid", "")

\* The name of the element a plain value is written to; dates and times share one.
ElementOf ==
  [int |-> "i4", double |-> "double", boolean |-> "boolean", string |-> "string", bytes |-> "base64",
   date |-> "dateTime.iso8601", datetime |-> "dateTime.iso8601", time |-> "dateTime.iso8601"]

RECURSIVE Marshall(_)
Marshall(v) ==
  El("value", "", None,
     CASE v.type = "list" ->
            <<El("array", "", None, <<El("data", "", None, Each(Marshall, v.items))>>)>>
       [] v.type = "map" ->
            <<El("struct", "", None,
                 [i \in DOMAIN v.items |->
                    El("member", "", None, <<TextEl("name", v.keys[i]), Marshall(v.items[i])>>)])>>
       [] v.text = Null -> <<El("nil", "", None, << >>)>>
       [] v.type = "bytes" -> <<TextEl("base64", ToBase64(v.text))>>
       [] OTHER -> <<TextEl(ElementOf[v.type], v.text)>>)

\* A date alone is read as its midnight, a time alone as no date at all.
Iso == {"2012-01-02", "2012-01-02T00:00:00", "2012-01-02T10:11:12"}
DatetimeOf(s) == Value("datetime", IF s = "2012-01-02" THEN "2012-01-02T00:00:00"
                                   ELSE IF s \in Iso THEN s ELSE "")
Doubles == {"0.5", "1"}

RECURSIVE Demarshall(_)
Demarshall(e) ==
  LET k == FirstKid(e)
      Parts(kids) == Each(Demarshall, kids)
      Whole(v) == IF Invalid \in ToSet(v.items) THEN Invalid ELSE v
  IN  CASE e.tag # "value" -> Invalid
        [] e.tag = "value" /\ IsNull(k) -> Value("string", e.text)
        [] k.tag = "nil" -> NilValue
        [] k.tag = "string" -> Value("string", k.text)
        [] k.tag \in {"int", "i4"} -> IF IsNumber(k.text) THEN Value("int", k.text) ELSE Invalid
        [] k.tag = "double" -> IF k.text \in Doubles THEN Value("double", k.text) ELSE Invalid
        [] k.tag = "boolean" -> Value("boolean", IF k.text \in {"1", "true"} THEN "1" ELSE "0")
        [] k.tag \in {"datetime", "dateTime.iso8601"} -> DatetimeOf(k.text)
        [] k.tag = "base64" -> Value("bytes", FromBase64(k.text))
        [] k.tag = "array" -> Whole(ListValue(Parts(Kid(k, "data").kids)))
        [] k.tag = "struct" ->
             Whole(MapValue(Each(LAMBDA m : TextOf(m, "name"), k.kids),
                            Parts(Each(LAMBDA m : Kid(m, "value"), k.kids))))
        [] OTHER -> Invalid

\* The parameters up to the first that cannot be read.
ParamsToXml(values) ==
  If(values # << >>,
     <<El("params", "", None, Each(LAMBDA v : El("param", "", None, <<Marshall(v)>>), values))>>)
ParseParams(e) ==
  LET values == Each(LAMBDA k : Demarshall(Kid(k, "value")), Kids(e, "param"))
      bad == SelectInSeq(values, LAMBDA v : v = Invalid)
  IN  IF bad = 0 THEN values ELSE SubSeq(values, 1, bad - 1)

-----------------------------------------------------------------------------
(* QXmppRpcInvokeIq, QXmppRpcResponseIq, QXmppRpcErrorIq *)

NsRpc == "jabber:iq:rpc"
IsRpc(e, type) == Has(e, "query", NsRpc) /\ Attr(e, "type") = type

RpcInvokeIq == FreshIq("set") @@ [method |-> Null, arguments |-> << >>]
IsRpcInvokeIq(e) == IsRpc(e, "set")
InvokePayload(x) ==
  Simple("query", NsRpc,
         <<El("methodCall", "", None, <<TextEl("methodName", x.method)>> \o ParamsToXml(x.arguments))>>)
ParseInvokePayload(e) ==
  LET call == Kid(Query(e), "methodCall")
  IN  [method |-> TextOf(call, "methodName"), arguments |-> ParseParams(Kid(call, "params"))]
RpcInvokeIqToXml(x) == IqToXml(x, InvokePayload(x))
ParseRpcInvokeIq(e) == ParseIq(e) @@ ParseInvokePayload(e)

\* A fault is a map with its code and text; the values are written if there is none.
RpcResponseIq == FreshIq("result") @@ [faultCode |-> 0, faultString |-> Null, values |-> << >>]
IsRpcResponseIq(e) == IsRpc(e, "result")
FaultValue(x) == MapValue(<<"faultCode", "faultString">>,
                          <<Value("int", ToString(x.faultCode)), Value("string", x.faultString)>>)
RpcResponseIqToXml(x) ==
  IqToXml(x, Simple("query", NsRpc,
    <<El("methodResponse", "", None,
         IF x.faultCode # 0 THEN <<El("fault", "", None, <<Marshall(FaultValue(x))>>)>>
                            ELSE ParamsToXml(x.values))>>))
ParseRpcResponseIq(e) ==
  LET contents == FirstKid(Kid(Query(e), "methodResponse"))
      fault == Demarshall(Kid(contents, "value"))
      Of(key) == IF key \in ToSet(fault.keys)
                   THEN fault.items[SelectInSeq(fault.keys, LAMBDA k : k = key)].text ELSE Null
      faulty == contents.tag = "fault" /\ fault # Invalid
  IN  ParseIq(e) @@
      [values |-> If(contents.tag = "params", ParseParams(contents)),
       faultCode |-> IF faulty THEN ToInt(Of("faultCode")) ELSE 0,
       faultString |-> IF faulty THEN Of("faultString") ELSE Null]

RpcErrorIq == FreshIq("error") @@ [method |-> Null, arguments |-> << >>]
IsRpcErrorIq(e) == IsRpc(e, "error") /\ ~IsNull(Kid(e, "error"))
RpcErrorIqToXml(x) == IqToXml(x, InvokePayload(x))
ParseRpcErrorIq(e) == ParseIq(e) @@ ParseInvokePayload(e)

-----------------------------------------------------------------------------
(* QXmppRpcManager::invokeInterfaceMethod: what is sent back for a call.   *)
(* Interfaces maps a name to [authorized, methods]; what a slot returns is *)
(* the value "done", and nil if its parameters do not fit.                 *)

Interfaces == [calc |-> [authorized |-> TRUE, methods |-> {"add"}],
               admin |-> [authorized |-> FALSE, methods |-> {"stop"}]]

\* QXmppInvokable::dispatch: the types of the arguments have to be those of the slot.
Dispatched(method, args) ==
  IF method = "add" /\ [i \in DOMAIN args |-> args[i].type] = <<"int">>
    THEN Value("string", "done") ELSE NilValue

\* A call whose method is not named interface.method is dropped without an answer.
MethodBits == ("calc.add" :> <<"calc", "add">>) @@ ("calc.sub" :> <<"calc", "sub">>)
              @@ ("admin.stop" :> <<"admin", "stop">>) @@ ("other.add" :> <<"other", "add">>)
              @@ ("add" :> <<"add">>)
InvokeInterfaceMethod(x) ==
  LET bits == MethodBits[x.method]
      interface == bits[1]
      known == interface \in DOMAIN Interfaces
      Refused(type, condition) ==
        RpcErrorIqToXml([RpcErrorIq EXCEPT !.id = x.id, !.to = x.from, !.method = x.method,
                           !.arguments = x.arguments,
                           !.error = [NoError EXCEPT !.type = type, !.condition = condition]])
  IN  CASE Len(bits) # 2 -> << >>
        [] Len(bits) = 2 /\ ~known -> <<Refused("cancel", "item-not-found")>>
        [] Len(bits) = 2 /\ known /\ ~Interfaces[interface].authorized ->
             <<Refused("auth", "forbidden")>>
        [] OTHER ->
             IF bits[2] \notin Interfaces[interface].methods
               THEN <<Refused("cancel", "item-not-found")>>
               ELSE <<RpcResponseIqToXml(
                        [RpcResponseIq EXCEPT !.id = x.id, !.to = x.from,
                           !.values = <<Dispatched(bits[2], x.arguments)>>])>>
=============================================================================
