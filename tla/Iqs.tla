-------------------------------- MODULE Iqs --------------------------------
(***************************************************************************)
(* The IQ classes whose payload is one flat element: version, time, bind,  *)
(* session, ping, legacy authentication, the in-band and SOCKS bytestreams,*)
(* the stream initiation, the vCard, and the features of a stream.         *)
(*                                                                         *)
(* A class X is four definitions: X, the value a fresh object has; XToXml, *)
(* ParseX, and IsX, the test its managers make before they parse.          *)
(***************************************************************************)
EXTENDS Stanzas

Query(e) == Kid(e, "query")
\* The payload most classes share: one element with some texts in it.
Simple(tag, ns, kids) == <<El(tag, ns, None, kids)>>

-----------------------------------------------------------------------------
(* QXmppVersionIq *)

VersionIq == FreshIq("get") @@ [name |-> Null, os |-> Null, version |-> Null]
\* MUTANT: the namespace is not looked at.
IsVersionIqByTag(e) == ~IsNull(Query(e))
IsVersionIq(e) == Has(e, "query", "jabber:iq:version")
VersionIqToXml(x) ==
  IqToXml(x, Simple("query", "jabber:iq:version",
                    TextIf("name", x.name) \o TextIf("os", x.os) \o TextIf("version", x.version)))
ParseVersionIq(e) ==
  ParseIq(e) @@ [f \in {"name", "os", "version"} |-> TextOf(Query(e), f)]

-----------------------------------------------------------------------------
(* QXmppEntityTimeIq: a request has no time, and then no offset either. *)

EntityTimeIq == FreshIq("get") @@ [tzo |-> 0, utc |-> Never]
IsEntityTimeIq(e) == Has(e, "time", "urn:xmpp:time")
EntityTimeIqToXml(x) ==
  IqToXml(x, Simple("time", "urn:xmpp:time",
                    If(IsValid(x.utc), <<TextEl("tzo", TimezoneOffsetToString(x.tzo)),
                                         TextEl("utc", DatetimeToString(x.utc))>>)))
ParseEntityTimeIq(e) ==
  ParseIq(e) @@ [tzo |-> TimezoneOffsetFromString(TextOf(Kid(e, "time"), "tzo")),
                 utc |-> DatetimeFromString(TextOf(Kid(e, "time"), "utc"))]

-----------------------------------------------------------------------------
(* QXmppBindIq, QXmppSessionIq, QXmppPingIq *)

BindIq == FreshIq("get") @@ [jid |-> Null, resource |-> Null]
IsBindIq(e) == Has(e, "bind", "urn:ietf:params:xml:ns:xmpp-bind")
BindIqToXml(x) ==
  IqToXml(x, Simple("bind", "urn:ietf:params:xml:ns:xmpp-bind",
                    TextIf("jid", x.jid) \o TextIf("resource", x.resource)))
ParseBindIq(e) == ParseIq(e) @@ [f \in {"jid", "resource"} |-> TextOf(Kid(e, "bind"), f)]

\* These two have no parser of their own: a plain QXmppIq's keeps the payload.
SessionIq == PlainIq
IsSessionIq(e) == Has(e, "session", "urn:ietf:params:xml:ns:xmpp-session")
SessionIqToXml(x) ==
  IqToXml(x, Simple("session", "urn:ietf:params:xml:ns:xmpp-session", << >>))
PingIq == PlainIq
IsPingIq(e) == Attr(e, "type") = "get" /\ Has(e, "ping", "urn:xmpp:ping")
PingIqToXml(x) == IqToXml(x, Simple("ping", "urn:xmpp:ping", << >>))

-----------------------------------------------------------------------------
(* QXmppNonSASLAuthIq *)

NonSASLAuthIq ==
  FreshIq("set") @@ [username |-> Null, digest |-> "", password |-> Null, resource |-> Null]
IsNonSASLAuthIq(e) == Has(e, "query", "jabber:iq:auth")
NonSASLAuthIqToXml(x) ==
  IqToXml(x, Simple("query", "jabber:iq:auth",
                    TextIf("username", x.username) \o TextIf("digest", ToHex(x.digest))
                    \o TextIf("password", x.password) \o TextIf("resource", x.resource)))
ParseNonSASLAuthIq(e) ==
  ParseIq(e) @@ [f \in {"username", "password", "resource"} |-> TextOf(Query(e), f)]
             @@ [digest |-> FromHex(TextOf(Query(e), "digest"))]

-----------------------------------------------------------------------------
(* QXmppIbbOpenIq, QXmppIbbCloseIq, QXmppIbbDataIq: the sequence number is *)
(* a quint16.                                                              *)

NsIbb == "http://jabber.org/protocol/ibb"

IbbOpenIq == FreshIq("set") @@ [sid |-> Null, blockSize |-> 1024]
IsIbbOpenIq(e) == Has(e, "open", NsIbb)
IbbOpenIqToXml(x) ==
  IqToXml(x, <<El("open", NsIbb, ("sid" :> x.sid) @@ ("block-size" :> ToString(x.blockSize)), << >>)>>)
ParseIbbOpenIq(e) ==
  ParseIq(e) @@ [sid |-> Attr(Kid(e, "open"), "sid"),
                 blockSize |-> ToInt(Attr(Kid(e, "open"), "block-size"))]

IbbCloseIq == FreshIq("set") @@ [sid |-> Null]
IsIbbCloseIq(e) == Has(e, "close", NsIbb)
IbbCloseIqToXml(x) == IqToXml(x, <<El("close", NsIbb, [sid |-> x.sid], << >>)>>)
ParseIbbCloseIq(e) == ParseIq(e) @@ [sid |-> Attr(Kid(e, "close"), "sid")]

IbbDataIq == FreshIq("set") @@ [sid |-> Null, sequence |-> 0, payload |-> ""]
IsIbbDataIq(e) == Has(e, "data", NsIbb)
IbbDataIqToXml(x) ==
  IqToXml(x, <<WithText(El("data", NsIbb, [sid |-> x.sid, seq |-> ToString(x.sequence)], << >>),
                        ToBase64(x.payload))>>)
ParseIbbDataIq(e) ==
  ParseIq(e) @@ [sid |-> Attr(Kid(e, "data"), "sid"),
                 sequence |-> ToInt(Attr(Kid(e, "data"), "seq")) % 65536,
                 payload |-> FromBase64(Kid(e, "data").text)]

-----------------------------------------------------------------------------
(* QXmppByteStreamIq: the offered hosts, or the one that was used. *)

StreamHost == [host |-> Null, jid |-> Null, port |-> 0, zeroconf |-> Null]
StreamHostToXml(h) == El("streamhost", "", [h EXCEPT !.port = ToString(@)], << >>)
ParseStreamHost(k) ==
  [host |-> Attr(k, "host"), jid |-> Attr(k, "jid"),
   port |-> ToInt(Attr(k, "port")) % 65536, zeroconf |-> Attr(k, "zeroconf")]

ByteStreamIq ==
  FreshIq("get") @@ [mode |-> "", sid |-> Null, activate |-> Null, streamHosts |-> << >>,
                     streamHostUsed |-> Null]
IsByteStreamIq(e) == Has(e, "query", "http://jabber.org/protocol/bytestreams")
ByteStreamIqToXml(x) ==
  IqToXml(x, <<El("query", "http://jabber.org/protocol/bytestreams", [sid |-> x.sid, mode |-> x.mode],
                  Each(StreamHostToXml, x.streamHosts) \o TextIf("activate", x.activate)
                  \o If(~IsEmpty(x.streamHostUsed),
                        <<El("streamhost-used", "", [jid |-> x.streamHostUsed], << >>)>>))>>)
ParseByteStreamIq(e) ==
  ParseIq(e) @@ [sid |-> Attr(Query(e), "sid"),
                 mode |-> OneOf(Attr(Query(e), "mode"), {"tcp", "udp"}, ""),
                 streamHosts |-> Each(ParseStreamHost, Kids(Query(e), "streamhost")),
                 activate |-> TextOf(Query(e), "activate"),
                 streamHostUsed |-> Attr(Kid(Query(e), "streamhost-used"), "jid")]

-----------------------------------------------------------------------------
(* QXmppStreamInitiationIq: everything inside is kept as it came. *)

NsFileTransfer == "http://jabber.org/protocol/si/profile/file-transfer"

StreamInitiationIq ==
  FreshIq("get") @@ [siId |-> Null, mimeType |-> Null, profile |-> "None", siItems |-> << >>]
IsStreamInitiationIq(e) == Has(e, "si", "http://jabber.org/protocol/si")
StreamInitiationIqToXml(x) ==
  IqToXml(x, <<El("si", "http://jabber.org/protocol/si",
                  ("id" :> x.siId) @@ ("mime-type" :> x.mimeType)
                  @@ ("profile" :> IF x.profile = "FileTransfer" THEN NsFileTransfer ELSE ""),
                  ElementsToXml(x.siItems))>>)
ParseStreamInitiationIq(e) ==
  LET si == Kid(e, "si")
  IN  ParseIq(e) @@ [siId |-> Attr(si, "id"), mimeType |-> Attr(si, "mime-type"),
                     profile |-> IF Attr(si, "profile") = NsFileTransfer THEN "FileTransfer" ELSE "None",
                     siItems |-> si.kids]

-----------------------------------------------------------------------------
(* QXmppVCardIq: a photo without a type gets the one its first bytes tell. *)

ImageType(photo) == IF photo = "bytes" THEN "image/png" ELSE "image/unknown"

VCardIq ==
  FreshIq("get") @@ [birthday |-> Null, email |-> Null, firstName |-> Null, fullName |-> Null,
                     lastName |-> Null, middleName |-> Null, nickName |-> Null, url |-> Null,
                     photo |-> "", photoType |-> Null]
IsVCard(e) == Has(e, "vCard", "vcard-temp")
VCardIqToXml(x) ==
  LET name == TextIf("GIVEN", x.firstName) \o TextIf("FAMILY", x.lastName)
              \o TextIf("MIDDLE", x.middleName)
  IN  IqToXml(x, Simple("vCard", "vcard-temp",
        TextIf("BDAY", x.birthday)
        \o If(~IsEmpty(x.email), <<El("EMAIL", "", None,
                                      <<El("INTERNET", "", None, << >>), TextEl("USERID", x.email)>>)>>)
        \o TextIf("FN", x.fullName) \o TextIf("NICKNAME", x.nickName)
        \o If(name # << >>, <<El("N", "", None, name)>>) \o TextIf("URL", x.url)
        \o If(x.photo # "", <<El("PHOTO", "", None,
                                 <<TextEl("TYPE", OrElse(x.photoType, ImageType(x.photo))),
                                   TextEl("BINVAL", ToBase64(x.photo))>>)>>)))
ParseVCardIq(e) ==
  LET card == Kid(e, "vCard")
      name == Kid(card, "N")
      photo == Kid(card, "PHOTO")
  IN  ParseIq(e) @@
      [birthday |-> TextOf(card, "BDAY"), email |-> TextOf(Kid(card, "EMAIL"), "USERID"),
       firstName |-> TextOf(name, "GIVEN"), lastName |-> TextOf(name, "FAMILY"),
       middleName |-> TextOf(name, "MIDDLE"), fullName |-> TextOf(card, "FN"),
       nickName |-> TextOf(card, "NICKNAME"), url |-> TextOf(card, "URL"),
       photo |-> FromBase64(TextOf(photo, "BINVAL")), photoType |-> TextOf(photo, "TYPE")]

-----------------------------------------------------------------------------
(* QXmppStreamFeatures *)

StreamFeatures == [bindMode |-> "Disabled", sessionMode |-> "Disabled",
                   nonSaslAuthMode |-> "Disabled", tlsMode |-> "Disabled",
                   compressionMethods |-> << >>, authMechanisms |-> << >>]
IsStreamFeatures(e) == e.tag = "features" /\ e.ns = "http://etherx.jabber.org/streams"
ReadFeature(e, tag, ns) ==
  IF ~Has(e, tag, ns) THEN "Disabled"
  ELSE IF IsNull(Kid(Kid(e, tag), "required")) THEN "Enabled" ELSE "Required"
WriteFeature(tag, ns, mode) ==
  If(mode # "Disabled",
     Simple(tag, ns, If(mode = "Required", <<El("required", "", None, << >>)>>)))

ListOf(tag, ns, item, texts) ==
  If(texts # << >>, Simple(tag, ns, Each(LAMBDA s : TextEl(item, s), texts)))
ListIn(e, tag, ns, item) ==
  If(Has(e, tag, ns), Each(LAMBDA k : k.text, Kids(Kid(e, tag), item)))

StreamFeaturesToXml(x) ==
  El("features", "http://etherx.jabber.org/streams", None,
     WriteFeature("bind", "urn:ietf:params:xml:ns:xmpp-bind", x.bindMode)
     \o WriteFeature("session", "urn:ietf:params:xml:ns:xmpp-session", x.sessionMode)
     \o WriteFeature("auth", "http://jabber.org/features/iq-auth", x.nonSaslAuthMode)
     \o WriteFeature("starttls", "urn:ietf:params:xml:ns:xmpp-tls", x.tlsMode)
     \o ListOf("compression", "http://jabber.org/features/compress", "method", x.compressionMethods)
     \o ListOf("mechanisms", "urn:ietf:params:xml:ns:xmpp-sasl", "mechanism", x.authMechanisms))
ParseStreamFeatures(e) ==
  [bindMode |-> ReadFeature(e, "bind", "urn:ietf:params:xml:ns:xmpp-bind"),
   sessionMode |-> ReadFeature(e, "session", "urn:ietf:params:xml:ns:xmpp-session"),
   nonSaslAuthMode |-> ReadFeature(e, "auth", "http://jabber.org/features/iq-auth"),
   tlsMode |-> ReadFeature(e, "starttls", "urn:ietf:params:xml:ns:xmpp-tls"),
   compressionMethods |->
     ListIn(e, "compression", "http://jabber.org/features/compress", "method"),
   authMechanisms |-> ListIn(e, "mechanisms", "urn:ietf:params:xml:ns:xmpp-sasl", "mechanism")]
=============================================================================
