------------------------------- MODULE Jingle -------------------------------
(***************************************************************************)
(* QXmppJingleIq, the signalling of calls: one content with its payload    *)
(* types and transport candidates, a reason, and the ringing mark.         *)
(***************************************************************************)
EXTENDS Iqs

NsJingle == "urn:xmpp:jingle:1"
NsRtp == "urn:xmpp:jingle:apps:rtp:1"
NsIceUdp == "urn:xmpp:jingle:transports:ice-udp:1"
NsRtpInfo == "urn:xmpp:jingle:apps:rtp:info:1"

Actions == {"content-accept", "content-add", "content-modify", "content-reject", "content-remove",
            "description-info", "security-info", "session-accept", "session-info",
            "session-initiate", "session-terminate", "transport-accept", "transport-info",
            "transport-reject", "transport-replace"}
Reasons == <<"alternative-session", "busy", "cancel", "connectivity-error", "decline", "expired",
             "failed-application", "failed-transport", "general-error", "gone",
             "incompatible-parameters", "media-error", "security-error", "success", "timeout",
             "unsupported-applications", "unsupported-transports">>
AnyAction == "(any)"            \* what the memory held

-----------------------------------------------------------------------------
(* QXmppJinglePayloadType: the parameters are in the order of their names. *)

PayloadType == [id |-> 0, name |-> Null, channels |-> 1, clockrate |-> 0, maxptime |-> 0, ptime |-> 0,
                parameters |-> << >>]
PayloadTypeToXml(x) ==
  LET Above(n, least) == IF n > least THEN ToString(n) ELSE ""
  IN  El("payload-type", "",
         [id |-> ToString(x.id), name |-> x.name, channels |-> Above(x.channels, 1),
          clockrate |-> Above(x.clockrate, 0), maxptime |-> Above(x.maxptime, 0),
          ptime |-> Above(x.ptime, 0)],
         Each(LAMBDA p : El("parameter", "", [name |-> p[1], value |-> p[2]], << >>), x.parameters))
ParsePayloadType(e) ==
  LET channels == ToInt(Attr(e, "channels")) % 256
  IN  [id |-> ToInt(Attr(e, "id")) % 256, name |-> Attr(e, "name"),
       channels |-> IF channels = 0 THEN 1 ELSE channels, clockrate |-> ToInt(Attr(e, "clockrate")),
       maxptime |-> ToInt(Attr(e, "maxptime")), ptime |-> ToInt(Attr(e, "ptime")),
       parameters |-> Each(LAMBDA k : <<Attr(k, "name"), Attr(k, "value")>>, Kids(e, "parameter"))]

-----------------------------------------------------------------------------
(* QXmppJingleCandidate *)

CandidateTypes == {"host", "prflx", "srflx", "relay"}
Candidate == [component |-> 0, foundation |-> 0, generation |-> 0, host |-> Null, id |-> Null,
              network |-> 0, port |-> 0, priority |-> 0, protocol |-> Null, type |-> "host"]
CandidateNumbers == {"component", "foundation", "generation", "network", "port", "priority"}
CandidateToXml(x) ==
  El("candidate", "",
     [f \in CandidateNumbers |-> ToString(x[f])]
     @@ [ip |-> x.host, id |-> x.id, protocol |-> x.protocol, type |-> x.type], << >>)
ParseCandidate(e) ==
  LET n == [f \in CandidateNumbers |-> ToInt(Attr(e, f))]
  IN  [n EXCEPT !.port = @ % 65536]
      @@ [host |-> Attr(e, "ip"), id |-> Attr(e, "id"), protocol |-> Attr(e, "protocol"),
          type |-> OneOf(Attr(e, "type"), CandidateTypes, "host")]

-----------------------------------------------------------------------------
(* QXmppJingleIq::Content: what has no creator or no name is not written,  *)
(* and what has neither a type nor an entry leaves its element out.        *)

Content == [creator |-> Null, disposition |-> Null, name |-> Null, senders |-> Null,
            descriptionMedia |-> Null, descriptionType |-> Null, payloadTypes |-> << >>,
            transportType |-> Null, transportUser |-> Null, transportPassword |-> Null,
            transportCandidates |-> << >>]

AddPayloadType(x, p) ==
  [x EXCEPT !.descriptionType = NsRtp, !.payloadTypes = Append(@, p)]
SetPayloadTypes(x, s) ==
  [x EXCEPT !.descriptionType = IF s = << >> THEN Null ELSE NsRtp, !.payloadTypes = s]
AddTransportCandidate(x, c) ==
  [x EXCEPT !.transportType = NsIceUdp, !.transportCandidates = Append(@, c)]

ContentToXml(x) ==
  If(~IsEmpty(x.creator) /\ ~IsEmpty(x.name),
     <<El("content", "", [creator |-> x.creator, disposition |-> x.disposition, name |-> x.name,
                          senders |-> x.senders],
          If(~IsEmpty(x.descriptionType) \/ x.payloadTypes # << >>,
             <<El("description", x.descriptionType, [media |-> x.descriptionMedia],
                  Each(PayloadTypeToXml, x.payloadTypes))>>)
          \o If(~IsEmpty(x.transportType) \/ x.transportCandidates # << >>,
                <<El("transport", x.transportType,
                     [ufrag |-> x.transportUser, pwd |-> x.transportPassword],
                     Each(CandidateToXml, x.transportCandidates))>>))>>)
ParseContent(e) ==
  LET description == Kid(e, "description")
      transport == Kid(e, "transport")
  IN  [f \in {"creator", "disposition", "name", "senders"} |-> Attr(e, f)] @@
      [descriptionMedia |-> Attr(description, "media"),
       descriptionType |-> IF IsNull(description) THEN Null ELSE description.ns,
       payloadTypes |-> Each(ParsePayloadType, Kids(description, "payload-type")),
       transportType |-> IF IsNull(transport) THEN Null ELSE transport.ns,
       transportUser |-> Attr(transport, "ufrag"), transportPassword |-> Attr(transport, "pwd"),
       transportCandidates |-> Each(ParseCandidate, Kids(transport, "candidate"))]

-----------------------------------------------------------------------------
(* QXmppJingleIq::Reason and the whole. *)

Reason == [type |-> "None", text |-> Null]
ReasonToXml(x) ==
  If(x.type # "None",
     <<El("reason", "", None, TextIf("text", x.text) \o <<El(x.type, "", None, << >>)>>)>>)
\* The first reason of the table that is there is taken.
ParseReason(e) ==
  LET there == SelectSeq(Reasons, LAMBDA r : ~IsNull(Kid(e, r)))
  IN  [type |-> IF there = << >> THEN "None" ELSE there[1], text |-> TextOf(e, "text")]

JingleIq == FreshIq("get") @@ [action |-> "session-info", initiator |-> Null, responder |-> Null,
                               sid |-> Null, content |-> Content, reason |-> Reason, ringing |-> FALSE]
IsJingleIq(e) == Has(e, "jingle", NsJingle)
JingleIqToXml(x) ==
  IqToXml(x, <<El("jingle", NsJingle, [action |-> x.action, initiator |-> x.initiator,
                                       responder |-> x.responder, sid |-> x.sid],
                  ContentToXml(x.content) \o ReasonToXml(x.reason)
                  \o If(x.ringing, Simple("ringing", NsRtpInfo, << >>)))>>)
ParseJingleIq(e) ==
  LET jingle == Kid(e, "jingle")
  IN  ParseIq(e) @@ [f \in {"initiator", "responder", "sid"} |-> Attr(jingle, f)] @@
      [action |-> OneOf(Attr(jingle, "action"), Actions, AnyAction),
       content |-> ParseContent(Kid(jingle, "content")), reason |-> ParseReason(Kid(jingle, "reason")),
       ringing |-> Has(jingle, "ringing", NsRtpInfo)]
=============================================================================
