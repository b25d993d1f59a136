------------------------------ MODULE Stanzas ------------------------------
(***************************************************************************)
(* The XML the stanzas are written to and read from, and the three stanzas *)
(* every other class builds on: QXmppStanza with its error, QXmppIq,       *)
(* QXmppPresence (with the item of a multi-user chat) and QXmppMessage.    *)
(* For each: the value a fresh object has, what toXml() writes and what    *)
(* parse() reads.                                                          *)
(*                                                                         *)
(* The XML is what QXmlStreamWriter is given and what QDomDocument hands   *)
(* to the parsers (namespace processing is on, so an attribute is found by *)
(* its local name), the helpers of QXmppUtils, and QXmppElement, which     *)
(* keeps an unknown element as it came.  A text is an atomic string.  A    *)
(* QString that is null (an attribute or an element that is not there) is  *)
(* told from one that is only empty, because several parsers do so.        *)
(* Numbers, bytes and dates have their coding modelled by what it keeps:   *)
(* an integer is read back from its decimal digits only, bytes only from   *)
(* their own coding, an instant from its UTC text or from a local text     *)
(* with an offset, to the millisecond.                                     *)
(***************************************************************************)
EXTENDS Integers, Sequences, SequencesExt, FiniteSets, TLC

Null == "(null)"
IsEmpty(s) == s \in {Null, ""}
OrElse(s, t) == IF IsEmpty(s) THEN t ELSE s

-----------------------------------------------------------------------------
(* Elements. *)

NoElement == [tag |-> "", ns |-> "", attrs |-> << >>, text |-> Null, kids |-> << >>]
IsNull(e) == e.tag = ""

\* Attributes whose value is empty are not written.
Attrs(f) == [n \in {m \in DOMAIN f : ~IsEmpty(f[m])} |-> f[n]]

El(tag, ns, attrs, kids) ==
  [tag |-> tag, ns |-> ns, attrs |-> Attrs(attrs), text |-> "", kids |-> kids]
None == [none |-> ""]                          \* an element without attributes
WithText(e, text) == [e EXCEPT !.text = IF IsEmpty(text) THEN "" ELSE text]

\* An element that holds one text, and the same written only if it says something.
TextEl(tag, text) == WithText(El(tag, "", None, << >>), text)
TextIf(tag, text) == IF IsEmpty(text) THEN << >> ELSE <<TextEl(tag, text)>>
TextIfSet(tag, text) == IF text = Null THEN << >> ELSE <<TextEl(tag, text)>>
If(c, kids) == IF c THEN kids ELSE << >>

Each(Write(_), s) == [i \in DOMAIN s |-> Write(s[i])]

\* Reading: the first child with a tag, all of them, an attribute, the text.
Kids(e, tag) == SelectSeq(e.kids, LAMBDA k : k.tag = tag)
Kid(e, tag) == IF Kids(e, tag) = << >> THEN NoElement ELSE Kids(e, tag)[1]
FirstKid(e) == IF e.kids = << >> THEN NoElement ELSE e.kids[1]
Attr(e, n) == IF n \in DOMAIN e.attrs THEN e.attrs[n] ELSE Null
TextOf(e, tag) == Kid(e, tag).text
Has(e, tag, ns) == Kid(e, tag).ns = ns /\ ~IsNull(Kid(e, tag))

\* QXmppElement: an element kept whole; only attributes that became empty are dropped.
RECURSIVE ElementToXml(_)
ElementToXml(e) ==
  [e EXCEPT !.attrs = Attrs(@), !.kids = Each(ElementToXml, SelectSeq(@, LAMBDA k : ~IsNull(k)))]
ElementsToXml(s) == Each(ElementToXml, SelectSeq(s, LAMBDA k : ~IsNull(k)))

-----------------------------------------------------------------------------
(* Codings. *)

Numbers == -2 .. 130 \cup {200, 404, 1024, 3600, 7200, 8000, 65535, 65536}
NumberOf == [s \in {ToString(n) : n \in Numbers} |-> CHOOSE n \in Numbers : ToString(n) = s]
IsNumber(s) == s \in DOMAIN NumberOf
ToInt(s) == IF IsNumber(s) THEN NumberOf[s] ELSE 0
ToIntOr(s, n) == IF IsNumber(s) THEN NumberOf[s] ELSE n

\* Names of enumerated values: the value an unknown name leaves is the caller's.
OneOf(s, names, other) == IF s \in names THEN s ELSE other

Payloads == {"bytes", "more"}
Coded(code, b) == IF IsEmpty(b) THEN "" ELSE code \o ":" \o b
Decoded(code, s) == IF \E b \in Payloads : Coded(code, b) = s
                      THEN CHOOSE b \in Payloads : Coded(code, b) = s ELSE ""
ToBase64(b) == Coded("base64", b)
FromBase64(s) == Decoded("base64", s)
ToHex(b) == Coded("hex", b)
FromHex(s) == Decoded("hex", s)

-----------------------------------------------------------------------------
(* Dates: an instant is a number of milliseconds, no date is Never. *)

Never == -1
IsValid(d) == d # Never
Instants == {0, 5000, 5250, 3605000, 7205000}
Offsets == {0, 3600, -3600}                    \* seconds east of UTC

\* QXmppUtils::timezoneOffsetToString: whole minutes, Z for UTC.
TimezoneOffsetToString(secs) ==
  IF secs = 0 THEN "Z"
  ELSE (IF secs < 0 THEN "-" ELSE "+") \o ToString((IF secs < 0 THEN -secs ELSE secs) \div 60)
TimezoneOffsetFromString(s) ==
  IF \E z \in Offsets : TimezoneOffsetToString(z) = s
    THEN CHOOSE z \in Offsets : TimezoneOffsetToString(z) = s ELSE 0

\* QXmppUtils::datetimeToString writes UTC, with milliseconds only if there are some.
LocalText(d) ==
  ToString(d \div 1000) \o (IF d % 1000 = 0 THEN "" ELSE "." \o ToString(d % 1000))
DatetimeToString(d) == IF IsValid(d) THEN LocalText(d) \o "Z" ELSE ""

\* QXmppUtils::datetimeFromString takes the offset back out of a local time.
DatetimeIn(d, z) == LocalText(d + 1000 * z) \o TimezoneOffsetToString(z)
DatetimeFromString(s) ==
  IF \E d \in Instants, z \in Offsets : DatetimeIn(d, z) = s
    THEN CHOOSE d \in Instants : \E z \in Offsets : DatetimeIn(d, z) = s ELSE Never

-----------------------------------------------------------------------------
(* Addresses: a JID is a sequence of words and of the marks "@" and "/". *)

Before(j, mark) == SelectInSeq(j, LAMBDA w : w = mark) - 1
JidToBareJid(j) == IF "/" \notin ToSet(j) THEN j ELSE SubSeq(j, 1, Before(j, "/"))
JidToResource(j) == IF "/" \notin ToSet(j) THEN << >> ELSE SubSeq(j, Before(j, "/") + 2, Len(j))
JidToUser(j) == IF "@" \notin ToSet(j) THEN << >> ELSE SubSeq(j, 1, Before(j, "@"))

JidToDomain(j) ==
  LET bare == JidToBareJid(j)
  IN  SubSeq(bare, SelectLastInSeq(bare, LAMBDA w : w = "@") + 1, Len(bare))

-----------------------------------------------------------------------------
(* Samples: what differs from a given value in at most two fields. *)

Vary(d, alts) ==
  UNION {{[d EXCEPT ![f] = v, ![g] = w] : v \in alts[f], w \in alts[g]}
          : f \in DOMAIN alts, g \in DOMAIN alts} \cup {d}

-----------------------------------------------------------------------------
(* The stanzas. *)

NsStanza == "urn:ietf:params:xml:ns:xmpp-stanzas"

-----------------------------------------------------------------------------
(* QXmppStanza::Error and the attributes every stanza has. *)

ErrorTypes == {"cancel", "continue", "modify", "auth", "wait"}
ErrorConditions ==
  {"bad-request", "conflict", "feature-not-implemented", "forbidden", "gone",
   "internal-server-error", "item-not-found", "jid-malformed", "not-acceptable",
   "not-allowed", "not-authorized", "payment-required", "recipient-unavailable",
   "redirect", "registration-required", "remote-server-not-found",
   "remote-server-timeout", "resource-constraint", "service-unavailable",
   "subscription-required", "undefined-condition", "unexpected-request"}

NoError == [code |-> 0, type |-> "", condition |-> "", text |-> Null]

\* The condition is the last child in the stanza namespace that is not the text.
ParseError(e) ==
  LET named == SelectSeq(e.kids, LAMBDA k : k.tag # "text" /\ k.ns = NsStanza)
      texts == Kids(e, "text")
  IN  [code |-> ToInt(Attr(e, "code")),
       type |-> OneOf(Attr(e, "type"), ErrorTypes, ""),
       condition |-> IF named = << >> THEN "" ELSE OneOf(Last(named).tag, ErrorConditions, ""),
       text |-> IF texts = << >> THEN Null ELSE Last(texts).text]

\* Nothing is written of an error that has neither type nor condition.
ErrorToXml(x) ==
  If(x.condition # "" \/ x.type # "",
     <<El("error", "", [type |-> x.type, code |-> IF x.code > 0 THEN ToString(x.code) ELSE ""],
          If(x.condition # "", <<El(x.condition, NsStanza, None, << >>)>>)
          \o If(~IsEmpty(x.text),
                <<WithText(El("text", NsStanza, [lang |-> "en"], << >>), x.text)>>))>>)

FreshStanza == [to |-> Null, from |-> Null, id |-> Null, lang |-> Null, error |-> NoError]
ParseStanza(e) ==
  [to |-> Attr(e, "to"), from |-> Attr(e, "from"), id |-> Attr(e, "id"), lang |-> Attr(e, "lang"),
   error |-> IF IsNull(Kid(e, "error")) THEN NoError ELSE ParseError(Kid(e, "error"))]

Address(x) == [id |-> x.id, to |-> x.to, from |-> x.from]

-----------------------------------------------------------------------------
(* QXmppIq: the payload of a class takes the place of the extensions. *)

IqTypes == {"error", "get", "set", "result"}
FreshIq(type) == [FreshStanza EXCEPT !.id = "qxmpp1"] @@ [type |-> type]

ParseIq(e) == ParseStanza(e) @@ [type |-> OneOf(Attr(e, "type"), IqTypes, "get")]
IqToXml(x, payload) ==
  El("iq", "", Address(x) @@ [type |-> x.type], payload \o ErrorToXml(x.error))

\* A plain QXmppIq keeps every child, the error with them, as an extension.
PlainIq == FreshIq("get") @@ [extensions |-> << >>]
PlainIqToXml(x) == IqToXml(x, ElementsToXml(x.extensions))
ParsePlainIq(e) == ParseIq(e) @@ [extensions |-> e.kids]

-----------------------------------------------------------------------------
(* QXmppMucItem, in presences and in the admin queries. *)

Affiliations == {"owner", "admin", "member", "outcast", "none"}
Roles == {"moderator", "participant", "visitor", "none"}
MucItem == [affiliation |-> Null, role |-> Null, jid |-> Null, nick |-> Null,
            actor |-> Null, reason |-> Null]
MucItemIsNull(x) == \A f \in DOMAIN x : IsEmpty(x[f])

AffiliationFromString(s) == OneOf(s, Affiliations, Null)
RoleFromString(s) == OneOf(s, Roles, Null)
ParseMucItem(e) ==
  [affiliation |-> AffiliationFromString(Attr(e, "affiliation")),
   role |-> RoleFromString(Attr(e, "role")),
   jid |-> Attr(e, "jid"), nick |-> Attr(e, "nick"),
   actor |-> Attr(Kid(e, "actor"), "jid"), reason |-> TextOf(e, "reason")]
MucItemToXml(x) ==
  El("item", "", [affiliation |-> x.affiliation, jid |-> x.jid, nick |-> x.nick, role |-> x.role],
     If(~IsEmpty(x.actor), <<El("actor", "", [jid |-> x.actor], << >>)>>)
     \o TextIf("reason", x.reason))

-----------------------------------------------------------------------------
(* QXmppPresence. *)

NsMucUser == "http://jabber.org/protocol/muc#user"
NsVCardUpdate == "vcard-temp:x:update"
NsCapabilities == "http://jabber.org/protocol/caps"
PresenceTypes == {"error", "", "unavailable", "subscribe", "subscribed", "unsubscribe",
                  "unsubscribed", "probe"}
Shows == {"", "away", "xa", "dnd", "chat", "invisible"}

Presence ==
  FreshStanza @@
  [type |-> "", show |-> "", status |-> Null, priority |-> 0,
   vCardUpdateType |-> "None", photoHash |-> "",
   capabilityHash |-> Null, capabilityNode |-> Null, capabilityVer |-> "",
   mucItem |-> MucItem, mucStatusCodes |-> << >>, extensions |-> << >>]

\* QXmppPresence::Status
ParseStatus(e) ==
  [show |-> OneOf(OrElse(TextOf(e, "show"), ""), Shows, ""),
   status |-> TextOf(e, "status"), priority |-> ToInt(TextOf(e, "priority"))]
StatusToXml(x) ==
  TextIf("show", x.show) \o TextIf("status", x.status)
  \o If(x.priority # 0, <<TextEl("priority", ToString(x.priority))>>)

MucChildToXml(x) ==
  If(~MucItemIsNull(x.mucItem) \/ x.mucStatusCodes # << >>,
     <<El("x", NsMucUser, None,
          If(~MucItemIsNull(x.mucItem), <<MucItemToXml(x.mucItem)>>)
          \o Each(LAMBDA c : El("status", "", [code |-> ToString(c)], << >>), x.mucStatusCodes))>>)
PhotoChildToXml(x) ==
  If(x.vCardUpdateType # "None",
     <<El("x", NsVCardUpdate, None,
          CASE x.vCardUpdateType = "NoPhoto" -> <<TextEl("photo", "")>>
            [] x.vCardUpdateType = "ValidPhoto" -> <<TextEl("photo", ToHex(x.photoHash))>>
            [] x.vCardUpdateType = "NotReady" -> << >>)>>)
CapsChildToXml(x) ==
  If(~IsEmpty(x.capabilityNode) /\ ~IsEmpty(x.capabilityVer) /\ ~IsEmpty(x.capabilityHash),
     <<El("c", NsCapabilities, [hash |-> x.capabilityHash, node |-> x.capabilityNode,
                                ver |-> ToBase64(x.capabilityVer)], << >>)>>)
PresenceToXml(x) ==
  El("presence", "", Address(x) @@ [lang |-> x.lang, type |-> x.type],
     StatusToXml(x) \o ErrorToXml(x.error) \o MucChildToXml(x) \o PhotoChildToXml(x)
     \o CapsChildToXml(x) \o ElementsToXml(x.extensions))

\* Every child is looked at in turn; the last of a kind wins.
ParsePresence(e) ==
  LET Of(ns) == SelectSeq(e.kids, LAMBDA k : k.ns = ns)
      muc == Of(NsMucUser)
      card == Of(NsVCardUpdate)
      caps == SelectSeq(Of(NsCapabilities), LAMBDA k : k.tag = "c")
      hash == FromHex(TextOf(Last(card), "photo"))
      known == {"error", "show", "status", "priority"}
      Other(k) == /\ k.ns \notin {NsMucUser, NsVCardUpdate}
                  /\ ~(k.ns = NsCapabilities /\ k.tag = "c")
                  /\ k.tag \notin known
  IN  ParseStanza(e) @@ ParseStatus(e) @@
      [type |-> OneOf(OrElse(Attr(e, "type"), ""), PresenceTypes, ""),
       mucItem |-> IF muc = << >> THEN MucItem ELSE ParseMucItem(Kid(Last(muc), "item")),
       mucStatusCodes |-> IF muc = << >> THEN << >>
                          ELSE Each(LAMBDA k : ToInt(Attr(k, "code")), Kids(Last(muc), "status")),
       vCardUpdateType |-> CASE card = << >> -> "None"
                             [] card # << >> /\ IsNull(Kid(Last(card), "photo")) -> "NotReady"
                             [] OTHER -> IF hash = "" THEN "NoPhoto" ELSE "ValidPhoto",
       photoHash |-> IF card = << >> THEN "" ELSE hash,
       capabilityNode |-> IF caps = << >> THEN Null ELSE Attr(Last(caps), "node"),
       capabilityHash |-> IF caps = << >> THEN Null ELSE Attr(Last(caps), "hash"),
       capabilityVer |-> IF caps = << >> THEN "" ELSE FromBase64(Attr(Last(caps), "ver")),
       extensions |-> SelectSeq(e.kids, Other)]

-----------------------------------------------------------------------------
(* QXmppMessage. *)

NsChatStates == "http://jabber.org/protocol/chatstates"
NsXhtmlIm == "http://jabber.org/protocol/xhtml-im"
NsXhtml == "http://www.w3.org/1999/xhtml"
NsReceipts == "urn:xmpp:receipts"
NsDelayed == "urn:xmpp:delay"
NsLegacyDelayed == "jabber:x:delay"
NsAttention == "urn:xmpp:attention:0"
MessageTypes == {"error", "normal", "chat", "groupchat", "headline"}
ChatStates == <<"active", "inactive", "gone", "composing", "paused">>

Message ==
  FreshStanza @@
  [type |-> "chat", body |-> Null, subject |-> Null, thread |-> Null, state |-> "",
   xhtml |-> Null, receiptId |-> Null, receiptRequested |-> FALSE, stamp |-> Never,
   stampType |-> "DelayedDelivery", attentionRequested |-> FALSE, extensions |-> << >>]

\* The stamp of the older extension has neither milliseconds nor a zone.
LegacyToString(d) == ToString(d \div 1000)
LegacyFromString(s) ==
  IF \E d \in Instants : d % 1000 = 0 /\ LegacyToString(d) = s
    THEN CHOOSE d \in Instants : d % 1000 = 0 /\ LegacyToString(d) = s ELSE Never

StampToXml(x) ==
  If(IsValid(x.stamp),
     IF x.stampType = "DelayedDelivery"
       THEN <<El("delay", NsDelayed, [stamp |-> DatetimeToString(x.stamp)], << >>)>>
       ELSE <<El("x", NsLegacyDelayed, [stamp |-> LegacyToString(x.stamp)], << >>)>>)
MessageToXml(x) ==
  El("message", "", Address(x) @@ [lang |-> x.lang, type |-> x.type],
     TextIf("subject", x.subject) \o TextIf("body", x.body) \o TextIf("thread", x.thread)
     \o ErrorToXml(x.error)
     \o If(x.state # "", <<El(x.state, NsChatStates, None, << >>)>>)
     \o If(~IsEmpty(x.xhtml), <<El("html", NsXhtmlIm, None,
                                   <<WithText(El("body", NsXhtml, None, << >>), x.xhtml)>>)>>)
     \o StampToXml(x)
     \o If(~IsEmpty(x.receiptId), <<El("received", NsReceipts, [id |-> x.receiptId], << >>)>>)
     \o If(x.receiptRequested, <<El("request", NsReceipts, None, << >>)>>)
     \o If(x.attentionRequested, <<El("attention", NsAttention, None, << >>)>>)
     \o ElementsToXml(x.extensions))

\* Only the <x/> children are kept; a receipt without an id is for the message's own.
ParseMessage(e) ==
  LET state == SelectSeq(ChatStates, LAMBDA s : Has(e, s, NsChatStates))
      html == Kid(Kid(e, "html"), "body")
      legacy == SelectSeq(Kids(e, "x"), LAMBDA k : k.ns = NsLegacyDelayed)
      stamped == Has(e, "delay", NsDelayed)
  IN  ParseStanza(e) @@
      [type |-> OneOf(Attr(e, "type"), MessageTypes, "normal"),
       body |-> TextOf(e, "body"), subject |-> TextOf(e, "subject"), thread |-> TextOf(e, "thread"),
       state |-> IF state = << >> THEN "" ELSE state[1],
       xhtml |-> IF Has(e, "html", NsXhtmlIm) /\ html.ns = NsXhtml THEN html.text ELSE Null,
       receiptId |-> IF Has(e, "received", NsReceipts)
                       THEN OrElse(Attr(Kid(e, "received"), "id"), Attr(e, "id")) ELSE Null,
       receiptRequested |-> Has(e, "request", NsReceipts),
       stamp |-> IF legacy # << >> THEN LegacyFromString(Attr(Last(legacy), "stamp"))
                 ELSE IF stamped THEN DatetimeFromString(Attr(Kid(e, "delay"), "stamp")) ELSE Never,
       stampType |-> IF legacy # << >> THEN "LegacyDelayedDelivery" ELSE "DelayedDelivery",
       attentionRequested |-> Has(e, "attention", NsAttention),
       extensions |-> SelectSeq(Kids(e, "x"), LAMBDA k : k.ns # NsLegacyDelayed)]
=============================================================================
