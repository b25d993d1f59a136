------------------------------ MODULE Dispatch ------------------------------
(***************************************************************************)
(* What a client with nothing under way does with a stanza: it is offered  *)
(* to the managers in the order they were added, and what none of them     *)
(* takes goes to QXmppOutgoingClient.  A manager either takes the stanza,  *)
(* and may answer it, or leaves it to the next one.                        *)
(*                                                                         *)
(* The jobs, calls and rooms that a stanza may belong to are in Transfer,  *)
(* Call and MucRoom; here there are none.                                  *)
(***************************************************************************)
EXTENDS Services, Jingle

OwnBareJid == "me"
BareOf(jid) == IF jid = "me/phone" THEN OwnBareJid ELSE jid
Now == 5250
LocalOffset == 3600
OwnNodes == {"n", "n#ver"}                      \* those that start with the client's node

Pass == [taken |-> FALSE, replies |-> << >>]
Taken(replies) == [taken |-> TRUE, replies |-> replies]
Unless(c, outcome) == IF c THEN outcome ELSE Pass

\* An answer goes back to whom the request came from, under its id.
To(e, x) == [x EXCEPT !.id = Attr(e, "id"), !.to = Attr(e, "from")]
Result(e) == PlainIqToXml(To(e, [PlainIq EXCEPT !.type = "result"]))
Error(e, code, type, condition) ==
  PlainIqToXml(To(e, [PlainIq EXCEPT !.type = "error",
    !.error = [NoError EXCEPT !.code = code, !.type = type, !.condition = condition]]))

IqType(e) == ParseIq(e).type
IsGet(e) == IqType(e) = "get"

-----------------------------------------------------------------------------
(* The managers. *)

\* A roster is taken from the server only; the result is not addressed.
RosterHandles(e) ==
  LET from == Attr(e, "from")
  IN  Unless(IsRosterIq(e) /\ (IsEmpty(from) \/ BareOf(from) = OwnBareJid),
             Taken(If(IqType(e) = "set",
                      <<PlainIqToXml([PlainIq EXCEPT !.type = "result", !.id = Attr(e, "id")])>>)))

VCardHandles(e) == Unless(IsVCard(e), Taken(<< >>))

VersionHandles(e) ==
  Unless(IsVersionIq(e),
    Taken(If(IsGet(e), <<VersionIqToXml(To(e, [VersionIq EXCEPT !.type = "result", !.name = "client",
                                                 !.version = "a", !.os = "b"]))>>)))

EntityTimeHandles(e) ==
  Unless(IsEntityTimeIq(e),
    Taken(If(IsGet(e), <<EntityTimeIqToXml(To(e, [EntityTimeIq EXCEPT !.type = "result", !.utc = Now,
                                                    !.tzo = LocalOffset]))>>)))

Capabilities == [DiscoveryIq EXCEPT !.type = "result", !.features = <<"a", "b">>,
                   !.identities = <<[language |-> Null, category |-> "client", name |-> "n",
                                     type |-> "pc"]>>]
DiscoveryHandles(e) ==
  LET x == ParseDiscoveryIq(e)
  IN  Unless(IsDiscoveryIq(e),
        Taken(If(/\ IsGet(e) /\ x.queryType = NsInfo
                 /\ IsEmpty(x.queryNode) \/ x.queryNode \in OwnNodes,
                 <<DiscoveryIqToXml(To(e, [Capabilities EXCEPT !.queryNode = x.queryNode]))>>)))

ArchiveHandles(e) ==
  Unless(IsArchiveChatIq(e) \/ IsArchiveListIq(e) \/ IsArchivePrefIq(e), Taken(<< >>))
MucHandles(e) == Unless(IsMucAdminIq(e) \/ IsMucOwnerIq(e), Taken(<< >>))
RpcHandles(e) ==
  CASE IsRpcInvokeIq(e) -> Taken(InvokeInterfaceMethod(ParseRpcInvokeIq(e)))
    [] IsRpcResponseIq(e) \/ IsRpcErrorIq(e) -> Taken(<< >>)
    [] OTHER -> Pass

\* Whatever the type of the stanza is, a bytestream that is not known is refused.
TransferHandles(e) ==
  CASE IsIbbCloseIq(e) \/ IsIbbDataIq(e) \/ IsIbbOpenIq(e) ->
         Taken(<<Error(e, 0, "cancel", "item-not-found")>>)
    [] IsByteStreamIq(e) ->
         Taken(If(IqType(e) = "set", <<Error(e, 406, "auth", "not-acceptable")>>))
    [] IsStreamInitiationIq(e) ->
         Taken(If(IqType(e) = "set",
                  <<IF ParseStreamInitiationIq(e).profile # "FileTransfer"
                      THEN Error(e, 400, "cancel", "bad-request")
                      ELSE Error(e, 403, "cancel", "forbidden")>>))
    [] OTHER -> Pass

\* A stanza of a call that is not there is taken and forgotten.
CallHandles(e) == Unless(IsJingleIq(e), Taken(<< >>))

\* A receipt is taken; one that is asked for is sent and the message goes on.
ReceiptHandles(e) ==
  LET x == ParseMessage(e)
  IN  IF ~IsEmpty(x.receiptId) THEN Taken(<< >>)
      ELSE [taken |-> FALSE,
            replies |-> If(x.receiptRequested /\ ~IsEmpty(x.from) /\ ~IsEmpty(x.id),
                           <<MessageToXml([Message EXCEPT !.to = x.from, !.receiptId = x.id])>>)]

-----------------------------------------------------------------------------
(* The whole: QXmppClient's loop, then QXmppOutgoingClient.                *)

OffersIq(e) ==
  <<RosterHandles(e), VCardHandles(e), VersionHandles(e), EntityTimeHandles(e), DiscoveryHandles(e),
    ArchiveHandles(e), MucHandles(e), RpcHandles(e), TransferHandles(e), CallHandles(e)>>
Offers(e) == CASE e.tag = "iq" -> OffersIq(e)
               [] e.tag = "message" -> <<ReceiptHandles(e)>>
               [] OTHER -> << >>

\* The answer to a field list of the old login, whoever has sent it and whenever: the login,
\* by the hash unless only a password is asked for, to the server; or the end of the stream.
IsFieldList(e) == e.tag = "iq" /\ IsNonSASLAuthIq(e) /\ Attr(e, "type") = "result"
EndOfStream == El("/stream:stream", "", None, << >>)
LoginIq == [NonSASLAuthIq EXCEPT !.username = OwnBareJid, !.resource = "phone"]
OldLogin(e) ==
  LET asked == {f \in {"digest", "password"} : ~IsNull(Kid(Query(e), f))}
  IN  CASE asked = {} -> <<EndOfStream>>
        [] asked = {"password"} -> <<NonSASLAuthIqToXml([LoginIq EXCEPT !.password = "a"])>>
        [] OTHER -> <<NonSASLAuthIqToXml([LoginIq EXCEPT !.digest = "bytes"])>>

\* MUTANT: what is not understood is refused whatever its type.
StreamHandlesAll(e) ==
  CASE e.tag # "iq" -> << >>
    [] e.tag = "iq" /\ IsNonSASLAuthIq(e) -> If(IsFieldList(e), OldLogin(e))
    [] e.tag = "iq" /\ ~IsNonSASLAuthIq(e) /\ IsPingIq(e) -> <<Result(e)>>
    [] OTHER -> <<Error(e, 0, "cancel", "feature-not-implemented")>>

StreamHandles(e) ==
  CASE e.tag # "iq" -> << >>
    [] e.tag = "iq" /\ IsNonSASLAuthIq(e) -> If(IsFieldList(e), OldLogin(e))
    [] e.tag = "iq" /\ ~IsNonSASLAuthIq(e) /\ IsPingIq(e) -> <<Result(e)>>
    [] OTHER -> If(Attr(e, "type") \notin {"result", "error"},
                   <<Error(e, 0, "cancel", "feature-not-implemented")>>)

Handle(e) ==
  LET offers == Offers(e)
      taker == SelectInSeq(offers, LAMBDA o : o.taken)
      asked == IF taker = 0 THEN offers ELSE SubSeq(offers, 1, taker)
  IN  FlattenSeq(Each(LAMBDA o : o.replies, asked)) \o If(taker = 0, StreamHandles(e))
=============================================================================
