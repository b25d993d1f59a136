------------------------------ MODULE Formats ------------------------------
(***************************************************************************)
(* One stanza on its way: a client writes an object of some class, someone *)
(* between may add an element of an extension of his own to it, and the    *)
(* other client recognises it, reads it into an object of the same class,  *)
(* and hands it to its managers, which may answer.  The same way take a    *)
(* JID, which is taken apart, and what is not XML: STUN messages, packets  *)
(* of media, the sound in them, and the password that is kept.             *)
(***************************************************************************)
EXTENDS Dispatch, Datagrams
LOCAL INSTANCE Bitwise

-----------------------------------------------------------------------------
(***************************************************************************)
(* Objects to write, and what a reader of each is due: the object itself,  *)
(* but for what its class is seen not to send.  The samples of a class are *)
(* its fresh value and whatever differs from it in at most two fields,     *)
(* with a few values for each.                                             *)
(***************************************************************************)

Errors == {[NoError EXCEPT !.type = "cancel", !.condition = "gone"],
           [code |-> 404, type |-> "", condition |-> "item-not-found", text |-> "a"],
           [NoError EXCEPT !.code = 200]}
Addresses == [to |-> {"a"}, from |-> {"a", "me/phone"}, id |-> {"b"}, error |-> Errors]
Typed == Addresses @@ [type |-> IqTypes]
Words == {"a", "b"}

\* An error that has neither a type nor a condition is not sent.
Said(x) == [x EXCEPT !.error = IF @.type = "" /\ @.condition = "" THEN NoError ELSE @]

Foreign == El("foreign", "urn:foreign", [a |-> "1"], <<TextEl("name", "b")>>)
Extra == El("x", "urn:foreign", [a |-> "1"], << >>)

\* What a field holds is what its type can hold.
FieldFits(f) ==
  CASE f.type = "boolean" -> f.value \in {<< >>, <<"0">>, <<"1">>}
    [] f.type \in Multi -> TRUE
    [] OTHER -> Len(f.value) < 2
Fields ==
  {f \in Vary([Field EXCEPT !.key = "a"],
              [type |-> FieldTypes, label |-> {"a"}, value |-> {<<"1">>, <<"0">>, <<"a">>, <<"a", "b">>},
               media |-> {[Media EXCEPT !.height = 1], [height |-> 1, width |-> -1, uris |-> <<<<"a", "b">>>>]},
               options |-> {<<<<"a", "b">>, <<Null, "a">>>>}, description |-> {"a"},
               required |-> {TRUE}]) : FieldFits(f)}
FieldDue(f) ==
  [f EXCEPT !.value = IF f.type = "boolean" /\ @ = << >> THEN <<"0">> ELSE @,
            !.options = If(f.type \in WithOptions, @),
            !.media = IF @.uris = << >> THEN Media ELSE @]
Form(fields) == [type |-> "form", title |-> "a", instructions |-> Null, fields |-> fields]
Forms == {Form(<<f>>) : f \in Fields} \cup {[Form(<< >>) EXCEPT !.type = t] : t \in FormTypes}
SomeForms == {Form(<<f, [Field EXCEPT !.key = "b"]>>) : f \in {g \in Fields : g.type = "list-multi"}}
FormDue(x) == [x EXCEPT !.fields = Each(FieldDue, @)]

MucItems == {x \in Vary(MucItem, [affiliation |-> Affiliations, role |-> Roles, jid |-> {"a"},
                                  nick |-> {"b"}, actor |-> {"a"}, reason |-> {"b"}]) :
               ~MucItemIsNull(x)}

Identity(category, name) == [language |-> Null, category |-> category, name |-> name, type |-> "pc"]
Identities == {<<Identity("client", "a")>>, <<Identity("client", "a"), Identity("client", "b")>>,
               <<Identity("client", "a"), [Identity("client", "a") EXCEPT !.language = "b"]>>}
Orders(s) == {[i \in DOMAIN s |-> s[p[i]]] : p \in Permutations(DOMAIN s)}

\* Values of remote calls, and what is left of one: a date is read as its midnight,
\* a time of day as nothing, and nothing has no type.
Plain == {Value("int", "1"), Value("double", "0.5"), Value("boolean", "0"), Value("string", "a"),
          Value("string", ""), Value("bytes", "more"), Value("date", "2012-01-02"),
          Value("datetime", "2012-01-02T10:11:12"), Value("time", "10:11:12"), Value("string", Null)}
Lists == {ListValue(s) : s \in {<< >>} \cup {<<v, Value("int", "1")>> : v \in Plain}}
Maps == {MapValue(<<"a", "b">>, <<v, l>>) : v \in Plain, l \in {ListValue(<< >>), ListValue(<<NilValue>>)}}
RpcValues == Plain \cup Lists \cup Maps
RECURSIVE ValueDue(_)
ValueDue(v) ==
  CASE v.type \in {"list", "map"} -> [v EXCEPT !.items = Each(ValueDue, @)]
    [] v.text = Null -> NilValue
    [] v.type = "date" -> Value("datetime", v.text \o "T00:00:00")
    [] v.type = "time" -> Value("datetime", "")
    [] OTHER -> v
Arguments == {<<v>> : v \in RpcValues} \cup {<<v, w>> : v \in Plain, w \in Lists}
Methods == DOMAIN MethodBits
CallDue(x) == [Said(x) EXCEPT !.arguments = Each(ValueDue, @)]

\* Conversations, their messages dated to the second.
Conversations ==
  {x \in Vary([ArchiveChat EXCEPT !.with = "a"],
              [start |-> {0, 5000}, subject |-> {"a"}, thread |-> {"b"}, version |-> {1},
               messages |-> {<<[ArchiveMessage EXCEPT !.date = 5000]>>,
                             <<[ArchiveMessage EXCEPT !.date = 5000],
                               [ArchiveMessage EXCEPT !.date = 7205000, !.received = TRUE]>>}]) :
     x.messages # << >> => IsValid(x.start)}
ResultSetReplies == {x \in Vary(ResultSetReply, [count |-> {0, 2}, index |-> {0, 1}, first |-> Words,
                                                 last |-> Words]) : TRUE}
ResultSetQueries == Vary(ResultSetQuery, [max |-> {0, 2}, index |-> {0, 1}, before |-> {"", "a"},
                                          after |-> {"", "b"}])
\* A set that is there has a count, and a first item if that has an index.
ReplyDue(x) ==
  IF x = ResultSetReply THEN x
  ELSE [x EXCEPT !.count = IF @ < 0 THEN 0 ELSE @, !.first = IF @ = Null /\ x.index >= 0 THEN "" ELSE @]
Spans == [with |-> {"a"}, start |-> Instants, end |-> Instants]
\* A list that has a query has no reply, but reading it finds an empty one.
ListDue(x) ==
  [Said(x) EXCEPT !.rsmReply = IF x.rsmQuery = ResultSetQuery THEN ReplyDue(@)
                               ELSE [ResultSetReply EXCEPT !.count = 0]]

PayloadTypes ==
  Vary([PayloadType EXCEPT !.id = 100, !.clockrate = 8000],
       [id |-> {0, 96}, name |-> {"a"}, channels |-> {2}, maxptime |-> {20}, ptime |-> {20},
        parameters |-> {<<<<"a", "b">>>>}])
Candidates ==
  Vary([Candidate EXCEPT !.host = "a", !.port = 1024],
       [component |-> {1, 2}, foundation |-> {1}, generation |-> {1}, id |-> {"a"}, port |-> {65535},
        priority |-> {130}, protocol |-> {"b"}, type |-> CandidateTypes])
Named == [Content EXCEPT !.creator = "a", !.name = "b"]
Contents ==
  Vary(Named, [creator |-> {Null}, disposition |-> {"a"}, senders |-> {"b"}, descriptionMedia |-> {"a"},
               transportUser |-> {"a"}, transportPassword |-> {"b"}])
  \cup {AddPayloadType([Named EXCEPT !.descriptionMedia = "a"], p) : p \in PayloadTypes}
  \cup {SetPayloadTypes(Named, <<p, PayloadType>>) : p \in PayloadTypes}
  \cup {AddTransportCandidate([Named EXCEPT !.transportUser = "a"], c) : c \in Candidates}
\* What has no name is not sent, nor what describes a medium or a transport without one.
ContentDue(x) ==
  IF IsEmpty(x.creator) \/ IsEmpty(x.name) THEN Content
  ELSE [x EXCEPT !.descriptionMedia = IF x.descriptionType = Null THEN Null ELSE @,
                 !.transportUser = IF x.transportType = Null THEN Null ELSE @,
                 !.transportPassword = IF x.transportType = Null THEN Null ELSE @]
ReasonDue(x) == IF x.type = "None" THEN Reason ELSE x

\* Presences: a photo only where there is one, capabilities only if all are known.
Capable == [Presence EXCEPT !.capabilityNode = "a", !.capabilityVer = "bytes", !.capabilityHash = "b"]
PresenceDue(x) ==
  LET photo == x.vCardUpdateType = "ValidPhoto" /\ x.photoHash # ""
      caps == x.capabilityNode # Null /\ x.capabilityVer # "" /\ x.capabilityHash # Null
  IN  [Said(x) EXCEPT
        !.vCardUpdateType = IF @ = "ValidPhoto" /\ ~photo THEN "NoPhoto" ELSE @,
        !.photoHash = IF photo THEN @ ELSE "",
        !.capabilityNode = IF caps THEN @ ELSE Null, !.capabilityHash = IF caps THEN @ ELSE Null,
        !.capabilityVer = IF caps THEN @ ELSE ""]

\* Messages: the older stamp has whole seconds, and of the extensions only <x/> is kept.
MessageDue(x) ==
  LET legacy == x.stampType = "LegacyDelayedDelivery" /\ IsValid(x.stamp)
  IN  [Said(x) EXCEPT !.stamp = IF legacy THEN (@ \div 1000) * 1000 ELSE @,
                      !.stampType = IF IsValid(x.stamp) THEN @ ELSE "DelayedDelivery",
                      !.extensions = SelectSeq(@, LAMBDA k : k.tag = "x")]

\* STUN messages: what setters set, and what is assigned.
Settings == {<<"ChangeRequest", 1>>, <<"ChannelNumber", 0>>, <<"Lifetime", 600>>,
             <<"Priority", CandidatePriority("host", 1)>>, <<"RequestedTransport", 17>>,
             <<"ReservationToken", 5>>, <<"Data", 0>>, <<"Data", 3>>, <<"Nonce", 4>>, <<"Nonce", 5>>,
             <<"Realm", 2>>, <<"Software", 1>>, <<"Username", 4>>}
Setting(m, s) == SetAttribute(m, s[1], s[2])
SomeHosts == {[version |-> 4, host |-> {"h"}, port |-> {"p"}], [version |-> 6, host |-> {"h"}, port |-> {"p"}],
              [version |-> 4, host |-> {"h"}, port |-> {}]}
StunBases == Vary([StunMessage EXCEPT !.type = 1],
  [type |-> {0, 273}, cookie |-> {"old"}, errorCode |-> {99, 438}, errorPhrase |-> {1, 4},
   useCandidate |-> {TRUE}, iceControlling |-> {8}, iceControlled |-> {8},
   hosts |-> {[StunMessage.hosts EXCEPT ![t] = a] : t \in PlainHosts \cup XorHosts, a \in SomeHosts}])

\* How a message is sealed, what else its writer writes, and the key its reader has.
Scheme(key, fingerprint, more, late, reader) ==
  [key |-> key, fingerprint |-> fingerprint, more |-> more, late |-> late, reader |-> reader]
UsualScheme == Scheme("k", TRUE, << >>, << >>, "k")
Schemes ==
  {s \in {Scheme(seal[1], seal[2], extra[1], extra[2], reader) :
              seal \in {<<"", FALSE>>, <<"k", TRUE>>, <<"other", TRUE>>},
              extra \in {<<<< >>, << >>>>, <<<<Coding("Foreign", 5, << >>)>>, << >>>>,
                         <<<< >>, <<Coding("Priority", 4, <<7>>)>>>>},
              reader \in {"", "k"}} : s.late = << >> \/ s.key # ""}
EncodeBy(m, s) == Encode(m, s.key, s.fingerprint, s.more, s.late)

\* A message is believed under the key it was sealed with, or if either has none; a nonce
\* that does not fill whole words is understood only at the end.
StunDue(m, s) ==
  LET all == EncodeBy(m, s).attributes
      outOfStep == \E i \in 1 .. Len(all) - 1 : all[i].type = "Nonce" /\ all[i].length % 4 # 0
      kept == [m EXCEPT !.hosts = [t \in DOMAIN @ |-> IF @[t].port = {} THEN NoHost ELSE @[t]],
                        !.errorPhrase = IF m.errorCode = 0 THEN 0 ELSE @,
                        !.iceControlled = IF m.iceControlling = 0 THEN @ ELSE 0]
      outcome == CASE m.type = 0 \/ m.cookie # "magic" -> "media"
                   [] outOfStep -> "out of step"
                   [] s.key # "" /\ s.reader # "" /\ s.key # s.reader -> "refused"
                   [] OTHER -> "done"
  IN  [outcome |-> outcome, message |-> IF outcome = "done" THEN kept ELSE StunMessage]

\* RTP packets, samples of sound over the whole of their range, and codes of sound.
RtpPacketSamples == Vary(RtpPacket,
  [marker |-> {TRUE}, type |-> {8, 101, 127}, sequence |-> {65535}, stamp |-> {160}, ssrc |-> {7},
   csrc |-> {<<1>>, <<1, 2>>, [i \in 1 .. 15 |-> i]}, payload |-> {1, 160}])
Sounds == {64 * k + d : k \in -512 .. 511, d \in {0, 1, 63}}
\* The mu-law has two codes for silence, and writes one of them.
CodeDue(k, code) == IF k = "UlawCode" /\ code = 127 THEN 255 ELSE code

-----------------------------------------------------------------------------
(* How the chat window keeps its password: SimpleCrypt, which chains the   *)
(* bytes of a text by exclusive or and puts a checksum before them.  A     *)
(* text is a sequence of bytes; UTF-8 and base64 around it are left out.   *)

Version == 3
Compression == 1
Checksum == 2
Hash == 4
HasFlag(flags, f) == (flags \div f) % 2 = 1

Refused(error) == [text |-> << >>, error |-> error]

-----------------------------------------------------------------------------
(* What Qt computes.  qChecksum() is the CRC of 16 bits; of qCompress()    *)
(* and SHA-1 only the lengths matter here, and that the first is undone.   *)

Crc(bytes) ==
  LET Nibble(crc, n) == (crc \div 16) ^^ (4225 * ((crc ^^ n) % 16))
      Add(crc, b) == Nibble(Nibble(crc, b % 16), b \div 16)
  IN  65535 - FoldLeft(Add, 65535, bytes)
ChecksumBytes(bytes) == <<Crc(bytes) \div 256, Crc(bytes) % 256>>
Digest(bytes) == [i \in 1 .. 20 |-> (Crc(bytes) \div 2^(i % 9)) % 256]

Uniform(bytes) == Len(bytes) > 0 /\ \A i \in DOMAIN bytes : bytes[i] = bytes[1]
Compress(bytes) == IF Uniform(bytes) THEN <<1, Len(bytes), bytes[1]>> ELSE <<0>> \o bytes
Uncompress(bytes) ==
  IF Len(bytes) = 3 /\ bytes[1] = 1 THEN [i \in 1 .. bytes[2] |-> bytes[3]] ELSE SubSeq(bytes, 2, Len(bytes))

-----------------------------------------------------------------------------
(* The two directions of the chain.  char(0) precedes the first byte.      *)

KeyPart(key, pos) == key[((pos - 1) % 8) + 1]
Chain(key, bytes) ==
  FoldLeft(LAMBDA out, b : Append(out, (b ^^ KeyPart(key, Len(out) + 1))
                                       ^^ (IF out = << >> THEN 0 ELSE Last(out))), << >>, bytes)
Unchain(key, bytes) ==
  [i \in DOMAIN bytes |-> (bytes[i] ^^ (IF i = 1 THEN 0 ELSE bytes[i - 1])) ^^ KeyPart(key, i)]

EncryptToByteArray(key, plain, compression, protection, random) ==
  LET packed == compression = "Always" \/ (compression = "Auto" /\ Len(Compress(plain)) < Len(plain))
      ba == IF packed THEN Compress(plain) ELSE plain
      guard == CASE protection = "Checksum" -> ChecksumBytes(ba) [] protection = "Hash" -> Digest(ba)
                 [] OTHER -> << >>
      flags == (IF packed THEN Compression ELSE 0)
               + (CASE protection = "Checksum" -> Checksum [] protection = "Hash" -> Hash [] OTHER -> 0)
  IN  IF key = << >> THEN << >> ELSE <<Version, flags>> \o Chain(key, <<random>> \o guard \o ba)

\* An empty text has no first byte: at(0) finds the terminating zero, which is no version.
ByteAt(bytes, i) == IF i <= Len(bytes) THEN bytes[i] ELSE 0

\* A text of which some bits of a byte have changed.
Flipped(cypher, i, bits) == [cypher EXCEPT ![i] = @ ^^ bits]

IntegrityOk(flags, stored, rest) ==
  IF HasFlag(flags, Checksum) THEN stored = ChecksumBytes(rest)
  ELSE HasFlag(flags, Hash) => stored = Digest(rest)

DecryptToByteArray(key, cypher) ==
  LET flags == ByteAt(cypher, 2)
      ba == SubSeq(Unchain(key, SubSeq(cypher, 3, Len(cypher))), 2, Len(cypher) - 2)
      size == IF HasFlag(flags, Checksum) THEN 2 ELSE IF HasFlag(flags, Hash) THEN 20 ELSE 0
      rest == SubSeq(ba, size + 1, Len(ba))
  IN  CASE key = << >> -> Refused("NoKeySet")
        [] key # << >> /\ ByteAt(cypher, 1) # Version -> Refused("UnknownVersion")
        [] OTHER -> IF Len(ba) < size \/ ~IntegrityOk(flags, SubSeq(ba, 1, size), rest)
                      THEN Refused("IntegrityFailed")
                      ELSE [text |-> IF HasFlag(flags, Compression) THEN Uncompress(rest) ELSE rest,
                            error |-> "NoError"]

-----------------------------------------------------------------------------
(* Passwords as bytes: none, one that is compressed, and one longer than   *)
(* the key; the key; and the ways to store them.                           *)

KeyParts == <<17, 0, 255, 128, 1, 66, 200, 93>>
Passwords == {<< >>, <<0>>, [i \in 1 .. 9 |-> 97], <<112, 195, 164, 115, 255, 0, 3, 2, 112>>}
Compressions == {"Auto", "Always", "Never"}
Protections == {"None", "Checksum", "Hash"}
Randoms == {0, 1, 255}
Flips == {1, 64, 255}

-----------------------------------------------------------------------------
VARIABLES phase,        \* "idle", "sent", "read", "handled"
          kind,         \* the class that is written
          due,          \* what the reader is to find
          wire,         \* the element, as it travels
          padded,       \* what became of it: "no" change, a foreign element in "front" or
                        \* at the "back", a byte "damaged"
          read,         \* what the reader found
          answers       \* what its managers sent back
vars == <<phase, kind, due, wire, padded, read, answers>>

-----------------------------------------------------------------------------
(* Which classes take an element for theirs, and what they read in it.     *)

Recognised(e) ==
  LET iq == e.tag = "iq"
      Of(c, k) == IF c THEN {k} ELSE {}
  IN  Of(e.tag = "message", "Message") \cup Of(e.tag = "presence", "Presence")
      \cup Of(IsStreamFeatures(e), "StreamFeatures")
      \cup IF ~iq THEN {} ELSE
      Of(IsVersionIq(e), "VersionIq") \cup Of(IsEntityTimeIq(e), "EntityTimeIq")
      \cup Of(IsBindIq(e), "BindIq") \cup Of(IsSessionIq(e), "SessionIq") \cup Of(IsPingIq(e), "PingIq")
      \cup Of(IsNonSASLAuthIq(e), "NonSASLAuthIq") \cup Of(IsIbbOpenIq(e), "IbbOpenIq")
      \cup Of(IsIbbCloseIq(e), "IbbCloseIq") \cup Of(IsIbbDataIq(e), "IbbDataIq")
      \cup Of(IsByteStreamIq(e), "ByteStreamIq") \cup Of(IsStreamInitiationIq(e), "StreamInitiationIq")
      \cup Of(IsVCard(e), "VCardIq") \cup Of(IsRegisterIq(e), "RegisterIq")
      \cup Of(IsMucOwnerIq(e), "MucOwnerIq") \cup Of(IsMucAdminIq(e), "MucAdminIq")
      \cup Of(IsRosterIq(e), "RosterIq") \cup Of(IsPrivateStorageIq(e), "PrivateStorageIq")
      \cup Of(IsDiscoveryIq(e), "DiscoveryIq") \cup Of(IsPubSubIq(e), "PubSubIq")
      \cup Of(IsArchiveChatIq(e), "ArchiveChatIq") \cup Of(IsArchiveListIq(e), "ArchiveListIq")
      \cup Of(IsArchivePrefIq(e), "ArchivePrefIq") \cup Of(IsArchiveRemoveIq(e), "ArchiveRemoveIq")
      \cup Of(IsArchiveRetrieveIq(e), "ArchiveRetrieveIq")
      \cup Of(IsRpcInvokeIq(e), "RpcInvokeIq") \cup Of(IsRpcResponseIq(e), "RpcResponseIq")
      \cup Of(IsRpcErrorIq(e), "RpcErrorIq") \cup Of(IsJingleIq(e), "JingleIq")

Parse(k, e) ==
  CASE k = "Message" -> ParseMessage(e)            [] k = "Presence" -> ParsePresence(e)
    [] k = "StreamFeatures" -> ParseStreamFeatures(e)
    [] k \in {"PlainIq", "SessionIq", "PingIq"} -> ParsePlainIq(e)
    [] k = "VersionIq" -> ParseVersionIq(e)        [] k = "EntityTimeIq" -> ParseEntityTimeIq(e)
    [] k = "BindIq" -> ParseBindIq(e)              [] k = "NonSASLAuthIq" -> ParseNonSASLAuthIq(e)
    [] k = "IbbOpenIq" -> ParseIbbOpenIq(e)        [] k = "IbbCloseIq" -> ParseIbbCloseIq(e)
    [] k = "IbbDataIq" -> ParseIbbDataIq(e)        [] k = "ByteStreamIq" -> ParseByteStreamIq(e)
    [] k = "StreamInitiationIq" -> ParseStreamInitiationIq(e)
    [] k = "VCardIq" -> ParseVCardIq(e)            [] k = "RegisterIq" -> ParseRegisterIq(e)
    [] k = "MucOwnerIq" -> ParseMucOwnerIq(e)      [] k = "MucAdminIq" -> ParseMucAdminIq(e)
    [] k = "RosterIq" -> ParseRosterIq(e)          [] k = "PrivateStorageIq" -> ParsePrivateStorageIq(e)
    [] k = "DiscoveryIq" -> ParseDiscoveryIq(e)    [] k = "PubSubIq" -> ParsePubSubIq(e)
    [] k = "ArchiveChatIq" -> ParseArchiveChatIq(e) [] k = "ArchiveListIq" -> ParseArchiveListIq(e)
    [] k = "ArchivePrefIq" -> ParseArchivePrefIq(e) [] k = "ArchiveRemoveIq" -> ParseArchiveRemoveIq(e)
    [] k = "ArchiveRetrieveIq" -> ParseArchiveRetrieveIq(e)
    [] k = "RpcInvokeIq" -> ParseRpcInvokeIq(e)    [] k = "RpcResponseIq" -> ParseRpcResponseIq(e)
    [] k = "RpcErrorIq" -> ParseRpcErrorIq(e)      [] k = "JingleIq" -> ParseJingleIq(e)
    [] k = "CapsHash" -> VerificationString(ParseDiscoveryIq(e))
    [] k = "Stun" -> ReadDatagram(e, "")           [] k = "StunKeyed" -> ReadDatagram(e, "k")
    [] k = "Rtp" -> ParseRtp(e)
    [] k = "Alaw" -> AlawToLinear(e)               [] k = "AlawCode" -> LinearToAlaw(e)
    [] k = "Ulaw" -> UlawToLinear(e)               [] k = "UlawCode" -> LinearToUlaw(e)
    [] k = "Password" -> DecryptToByteArray(KeyParts, e)
    [] k = "Keyless" -> DecryptToByteArray(<< >>, e)
    [] k = "Jid" -> [user |-> JidToUser(e), domain |-> JidToDomain(e), resource |-> JidToResource(e),
                     bare |-> JidToBareJid(e)]

\* What is no element.
NoXml == {"Jid", "Stun", "StunKeyed", "Rtp", "Alaw", "Ulaw", "AlawCode", "UlawCode", "Password", "Keyless"}

-----------------------------------------------------------------------------
(* The way of a stanza.                                                    *)

Init ==
  /\ phase = "idle" /\ kind = "" /\ due = << >> /\ wire = << >> /\ padded = "no"
  /\ read = << >> /\ answers = << >>

Put(k, x, e) ==
  /\ phase' = "sent"
  /\ kind' = k /\ due' = x /\ wire' = e
  /\ UNCHANGED <<padded, read, answers>>

WriteStanza ==
  \/ \E x \in Vary(PlainIq, Typed @@ [extensions |-> {<<Extra>>, <<Extra, Foreign>>}]) :
       Put("PlainIq", [Said(x) EXCEPT !.extensions = PlainIqToXml(x).kids], PlainIqToXml(x))
  \/ \E x \in Vary(Presence, Addresses @@
         [lang |-> {"a"}, type |-> PresenceTypes, show |-> Shows, status |-> {"a"}, priority |-> {-1, 1},
          vCardUpdateType |-> {"NoPhoto", "NotReady", "ValidPhoto"}, photoHash |-> Payloads,
          mucItem |-> MucItems, mucStatusCodes |-> {<<110>>, <<110, 100>>},
          extensions |-> {<<Extra>>, <<Foreign, Extra>>}]) : Put("Presence", PresenceDue(x), PresenceToXml(x))
  \/ \E x \in Vary(Capable, [type |-> PresenceTypes, capabilityNode |-> {Null, "b"},
                             capabilityVer |-> {"", "more"}, capabilityHash |-> {Null, "a"},
                             extensions |-> {<<Extra>>}]) : Put("Presence", PresenceDue(x), PresenceToXml(x))
  \/ \E x \in Vary(Message, Addresses @@
         [lang |-> {"a"}, type |-> MessageTypes, body |-> {"a"}, subject |-> {"b"}, thread |-> {"a"},
          state |-> ToSet(ChatStates), xhtml |-> {"b"}, receiptId |-> {"a"}, receiptRequested |-> {TRUE},
          stamp |-> Instants, stampType |-> {"LegacyDelayedDelivery"}, attentionRequested |-> {TRUE},
          extensions |-> {<<Extra>>, <<Foreign, Extra>>}]) : Put("Message", MessageDue(x), MessageToXml(x))
  \/ \E x \in Vary(StreamFeatures,
         [bindMode |-> {"Enabled", "Required"}, sessionMode |-> {"Enabled", "Required"},
          nonSaslAuthMode |-> {"Enabled", "Required"}, tlsMode |-> {"Enabled", "Required"},
          compressionMethods |-> {<<"a">>, <<"b", "a">>}, authMechanisms |-> {<<"a">>, <<"b", "a">>}]) :
       Put("StreamFeatures", x, StreamFeaturesToXml(x))

WriteIq ==
  \/ \E x \in Vary(VersionIq, Typed @@ [name |-> Words, os |-> Words, version |-> Words]) :
       Put("VersionIq", Said(x), VersionIqToXml(x))
  \/ \E x \in Vary(EntityTimeIq, Typed @@ [tzo |-> Offsets, utc |-> Instants]) :
       Put("EntityTimeIq", [Said(x) EXCEPT !.tzo = IF IsValid(x.utc) THEN @ ELSE 0], EntityTimeIqToXml(x))
  \/ \E x \in Vary(BindIq, Typed @@ [jid |-> Words, resource |-> Words]) :
       Put("BindIq", Said(x), BindIqToXml(x))
  \/ \E x \in Vary(SessionIq, Typed) :
       Put("SessionIq", [Said(x) EXCEPT !.extensions = SessionIqToXml(x).kids], SessionIqToXml(x))
  \/ \E x \in Vary(PingIq, Addresses) :
       Put("PingIq", [Said(x) EXCEPT !.extensions = PingIqToXml(x).kids], PingIqToXml(x))
  \/ \E x \in Vary(NonSASLAuthIq, Typed @@ [username |-> Words, digest |-> Payloads,
                                            password |-> Words, resource |-> Words])
              \cup Vary([NonSASLAuthIq EXCEPT !.type = "result"],
                        [from |-> {"a"}, digest |-> Payloads, password |-> Words]) :
       Put("NonSASLAuthIq", Said(x), NonSASLAuthIqToXml(x))
  \/ \E x \in Vary(IbbOpenIq, Typed @@ [sid |-> Words, blockSize |-> {1, 65536}]) :
       Put("IbbOpenIq", Said(x), IbbOpenIqToXml(x))
  \/ \E x \in Vary(IbbCloseIq, Typed @@ [sid |-> Words]) : Put("IbbCloseIq", Said(x), IbbCloseIqToXml(x))
  \/ \E x \in Vary(IbbDataIq, Typed @@ [sid |-> Words, sequence |-> {1, 65535}, payload |-> Payloads]) :
       Put("IbbDataIq", Said(x), IbbDataIqToXml(x))
  \/ \E h \in Vary(StreamHost, [host |-> Words, jid |-> Words, port |-> {1, 65535}, zeroconf |-> Words]) :
     \E x \in Vary(ByteStreamIq, Typed @@
         [mode |-> {"tcp", "udp"}, sid |-> Words, activate |-> Words, streamHostUsed |-> Words,
          streamHosts |-> {<<h>>, <<StreamHost, h>>}]) : Put("ByteStreamIq", Said(x), ByteStreamIqToXml(x))
  \/ \E x \in Vary(StreamInitiationIq, Typed @@
         [siId |-> Words, mimeType |-> Words, profile |-> {"FileTransfer"},
          siItems |-> {<<Extra>>, <<Foreign, Extra>>}]) :
       Put("StreamInitiationIq", Said(x), StreamInitiationIqToXml(x))
  \/ \E x \in Vary(VCardIq, Typed @@
         [birthday |-> Words, email |-> Words, firstName |-> Words, fullName |-> Words,
          lastName |-> Words, middleName |-> Words, nickName |-> Words, url |-> Words,
          photo |-> Payloads, photoType |-> Words]) :
       Put("VCardIq", [Said(x) EXCEPT !.photoType = IF x.photo = "" THEN Null
                                                    ELSE OrElse(@, ImageType(x.photo))], VCardIqToXml(x))

WriteService ==
  \/ \E x \in Vary(RegisterIq, Typed @@ [instructions |-> Words, username |-> {"", "a"}, email |-> {"", "b"},
                                         password |-> {"", "a"}, form |-> SomeForms]) :
       Put("RegisterIq", [Said(x) EXCEPT !.form = FormDue(@)], RegisterIqToXml(x))
  \/ \E x \in Vary(MucOwnerIq, [type |-> IqTypes, form |-> Forms]) :
       Put("MucOwnerIq", [x EXCEPT !.form = FormDue(@)], MucOwnerIqToXml(x))
  \/ \E i, j \in MucItems : \E t \in IqTypes :
       LET x == [MucAdminIq EXCEPT !.type = t, !.items = <<i, j>>]
       IN  Put("MucAdminIq", x, MucAdminIqToXml(x))
  \/ \E i \in Vary(RosterItem, [bareJid |-> Words, name |-> Words, subscription |-> {"both", "remove"},
                               ask |-> Words, groups |-> {{"a"}, {"a", "b"}}]) :
     \E x \in Vary(RosterIq, Typed @@ [items |-> {<<i>>, <<i, RosterItem>>}]) :
       Put("RosterIq", Said(x), RosterIqToXml(x))
  \/ \E c \in Vary(BookmarkConference, [autoJoin |-> {TRUE}, jid |-> Words, name |-> Words,
                                       nickName |-> Words]) :
     \E x \in Vary(BookmarkSet, [conferences |-> {<<c>>, <<BookmarkConference, c>>},
                                urls |-> {<<[name |-> "a", url |-> "b"]>>}]) :
       LET q == [PrivateStorageIq EXCEPT !.bookmarks = x, !.type = "result"]
       IN  Put("PrivateStorageIq", q, PrivateStorageIqToXml(q))
  \/ \E x \in Vary(DiscoveryIq, Typed @@
         [queryType |-> {NsItems}, queryNode |-> {"a", "n", "n#ver"}, features |-> {<<"a">>, <<"b", "a">>},
          identities |-> Identities, form |-> SomeForms,
          items |-> {<<[jid |-> "a", name |-> "b", node |-> Null]>>}]) :
       Put("DiscoveryIq", [Said(x) EXCEPT !.form = FormDue(@),
                             !.features = If(x.queryType = NsInfo, @), !.items = If(x.queryType = NsItems, @),
                             !.identities = If(x.queryType = NsInfo, @)], DiscoveryIqToXml(x))
  \/ \E x \in Vary(PubSubIq, Typed @@
         [queryType |-> ToSet(PubSubQueries), queryJid |-> Words, queryNode |-> Words,
          items |-> {<<[id |-> "a", contents |-> c]>> : c \in {NoElement, Extra, Foreign}},
          subscriptionId |-> Words]) :
       Put("PubSubIq", [Said(x) EXCEPT !.queryType = OneOf(@, ReadQueries, Unset),
                          !.items = If(x.queryType \in {"items", "publish"}, @),
                          !.subscriptionId = IF x.queryType = "subscription" THEN @ ELSE Null],
           PubSubIqToXml(x))
  \* The same capabilities in another order: what is due is the hash of the first.
  \/ \E i \in Identities, f \in {<<"a">>, <<"b", "a">>}, w \in SomeForms :
     \E p \in Orders(i), q \in Orders(f), v \in Orders(w.fields \o <<[Field EXCEPT !.key = "FORM_TYPE"]>>) :
       LET x == [DiscoveryIq EXCEPT !.identities = i, !.features = f,
                   !.form = FormDue([w EXCEPT !.fields = @ \o <<[Field EXCEPT !.key = "FORM_TYPE"]>>])]
       IN  Put("CapsHash", VerificationString(x),
               DiscoveryIqToXml([x EXCEPT !.identities = p, !.features = q, !.form.fields = v]))

WriteArchive ==
  \/ \E c \in Conversations, r \in ResultSetReplies :
       LET x == [ArchiveChatIq EXCEPT !.chat = c, !.rsmReply = r, !.type = "result"]
       IN  Put("ArchiveChatIq", [x EXCEPT !.rsmReply = ReplyDue(@)], ArchiveChatIqToXml(x))
  \/ \E x \in Vary(ArchiveListIq, Typed @@ Spans @@
         [chats |-> {<<c, ArchiveChat>> : c \in Conversations}, rsmQuery |-> ResultSetQueries,
          rsmReply |-> ResultSetReplies]) : Put("ArchiveListIq", ListDue(x), ArchiveListIqToXml(x))
  \/ \E x \in Vary(ArchivePrefIq, Typed) : Put("ArchivePrefIq", Said(x), ArchivePrefIqToXml(x))
  \/ \E x \in Vary(ArchiveRemoveIq, Typed @@ Spans) :
       Put("ArchiveRemoveIq", Said(x), ArchiveRemoveIqToXml(x))
  \/ \E x \in Vary(ArchiveRetrieveIq, Typed @@ [with |-> {"a"}, start |-> Instants,
                                                rsmQuery |-> ResultSetQueries]) :
       Put("ArchiveRetrieveIq", Said(x), ArchiveRetrieveIqToXml(x))

WriteCall ==
  \/ \E x \in Vary(RpcInvokeIq, Addresses @@ [arguments |-> Arguments]), m \in Methods :
       LET y == [x EXCEPT !.method = m] IN Put("RpcInvokeIq", CallDue(y), RpcInvokeIqToXml(y))
  \/ \E x \in Vary(RpcResponseIq, Addresses @@ [faultCode |-> {1, 404}, faultString |-> {"", "a"},
                                                values |-> Arguments]) :
       Put("RpcResponseIq", [Said(x) EXCEPT !.values = If(x.faultCode = 0, Each(ValueDue, @)),
                               !.faultString = IF x.faultCode = 0 THEN Null
                                               ELSE Demarshall(Marshall(Value("string", @))).text],
           RpcResponseIqToXml(x))
  \/ \E x \in Vary([RpcErrorIq EXCEPT !.error.type = "cancel", !.method = "calc.add"],
                   [from |-> {"a"}, method |-> Methods, arguments |-> Arguments]) :
       Put("RpcErrorIq", CallDue(x), RpcErrorIqToXml(x))
  \/ \E x \in Vary(JingleIq, Typed @@
         [action |-> Actions, initiator |-> Words, responder |-> Words, sid |-> Words, content |-> Contents,
          reason |-> {[type |-> t, text |-> w] : t \in ToSet(Reasons) \cup {"None"}, w \in {Null, "a"}},
          ringing |-> {TRUE}]) :
       Put("JingleIq", [Said(x) EXCEPT !.content = ContentDue(@), !.reason = ReasonDue(@)],
           JingleIqToXml(x))

\* A datagram of the connectivity checks or of a relay.
StunKind(s) == IF s.reader = "" THEN "Stun" ELSE "StunKeyed"
WriteStun ==
  \/ \E m \in StunBases, a \in Settings :
       LET x == Setting(m, a)
       IN  Put(StunKind(UsualScheme), StunDue(x, UsualScheme), EncodeBy(x, UsualScheme))
  \/ \E a, b \in Settings, s \in Schemes :
       LET x == Setting(Setting([StunMessage EXCEPT !.type = 1], a), b)
       IN  Put(StunKind(s), StunDue(x, s), EncodeBy(x, s))

\* A packet of a media stream, and a sample or a code of the sound in it.
WriteRtp == \E x \in RtpPacketSamples : Put("Rtp", x, RtpToBytes(x))
WriteSound ==
  \/ \E x \in Sounds : Put("Alaw", x, LinearToAlaw(x)) \/ Put("Ulaw", x, LinearToUlaw(x))
  \/ \E c \in 0 .. 255 : \/ Put("AlawCode", CodeDue("AlawCode", c), AlawToLinear(c))
                        \/ Put("UlawCode", CodeDue("UlawCode", c), UlawToLinear(c))

\* A JID of any shape.
WriteJid ==
  \E user \in {<< >>, <<"a">>}, domain \in {<<"here">>},
     resource \in {<< >>, <<"b">>, <<"b", "@", "a">>, <<"b", "/", "a">>, <<"b", "/", "@">>} :
    LET bare == If(user # << >>, Append(user, "@")) \o domain
    IN  Put("Jid", [user |-> user, domain |-> domain, resource |-> resource, bare |-> bare],
            bare \o If(resource # << >>, <<"/">> \o resource))

\* A password of the settings, in every mode; and none, which reads like a foreign text.
WritePassword ==
  \/ \E p \in Passwords, c \in Compressions, g \in Protections, r \in Randoms :
       \/ Put("Password", [text |-> p, error |-> "NoError"], EncryptToByteArray(KeyParts, p, c, g, r))
       \/ /\ c = "Auto" /\ g = "Checksum"
          /\ Put("Keyless", Refused("NoKeySet"), EncryptToByteArray(KeyParts, p, c, g, r))
  \/ Put("Password", Refused("UnknownVersion"), EncryptToByteArray(<< >>, <<0>>, "Auto", "Checksum", 1))

Write ==
  /\ phase = "idle"
  /\ WriteStanza \/ WriteIq \/ WriteService \/ WriteArchive \/ WriteCall \/ WriteStun \/ WriteRtp
     \/ WriteSound \/ WriteJid \/ WritePassword

\* An element of somebody else's extension comes into the payload.
Pad ==
  /\ phase = "sent" /\ padded = "no" /\ kind \notin NoXml
  /\ wire.kids # << >> /\ wire.kids[1] \notin {Extra, Foreign}
  /\ \/ /\ padded' = "front"
        /\ wire' = [wire EXCEPT !.kids[1].kids = <<Foreign>> \o @]
     \/ /\ padded' = "back"
        /\ wire' = [wire EXCEPT !.kids[1].kids = Append(@, Foreign)]
  /\ UNCHANGED <<phase, kind, due, read, answers>>

\* One byte of a stored password changes, but for the flags: turned off, they take the
\* checksum with them.
Damage ==
  /\ phase = "sent" /\ padded = "no" /\ kind = "Password"
  /\ padded' = "damaged"
  /\ \E i \in DOMAIN wire \ {2}, d \in Flips : wire' = Flipped(wire, i, d)
  /\ UNCHANGED <<phase, kind, due, read, answers>>

Read ==
  /\ phase = "sent" /\ phase' = "read"
  /\ read' = Parse(kind, wire)
  /\ UNCHANGED <<kind, due, wire, padded, answers>>

HandleStanza ==
  /\ phase = "read" /\ phase' = "handled"
  /\ answers' = IF kind \in NoXml THEN << >> ELSE Handle(wire)
  /\ UNCHANGED <<kind, due, wire, padded, read>>

Rest ==
  /\ phase = "handled" /\ phase' = "idle" /\ kind' = "" /\ due' = << >> /\ wire' = << >>
  /\ padded' = "no" /\ read' = << >> /\ answers' = << >>

Next == Write \/ Pad \/ Damage \/ Read \/ HandleStanza \/ Rest

Spec == Init /\ [][Next]_vars
-----------------------------------------------------------------------------
(* Properties.                                                             *)

Phases == {"idle", "sent", "read", "handled"}
WasRead == phase \in {"read", "handled"}

\* What is read is what was written, down to the fields a class does not send: no toXml()
\* leaves out, and no parse() overlooks or mistakes, what the other carries.
ReadsBack ==
  WasRead /\ padded = "no" /\ kind \notin {"Jid", "CapsHash", "Alaw", "Ulaw"} => read = due

\* A stored password of which one byte has changed is refused, not used: every byte but the
\* flags is under the version or the checksum, though the chain lets a change reach two bytes.
DamageRefused ==
  WasRead /\ padded = "damaged" /\ HasFlag(wire[2], Checksum) => read.text = << >> /\ read.error # "NoError"

\* Of a sample of sound, either law keeps all but a thirty-second of its loudness.
Loudness(x) == IF x < 0 THEN -x ELSE x
SoundKept == WasRead /\ kind \in {"Alaw", "Ulaw"} => Loudness(read - due) <= Loudness(due) \div 32 + 8

\* Classes that keep, or count, whatever element they find; or go by the first one.
Keepers == {"PlainIq", "SessionIq", "PingIq", "RosterIq", "StreamInitiationIq"}
FirstOnly == {"PrivateStorageIq", "PubSubIq", "RpcInvokeIq", "RpcResponseIq", "RpcErrorIq"}

\* Somebody else's element in the payload changes nothing that a parser reads, but for the
\* classes that keep every element, and those that look at the first only.
IgnoresForeign ==
  WasRead /\ padded \in {"front", "back"} /\ kind \notin Keepers
  /\ ~(kind \in FirstOnly /\ padded = "front") => read = due

\* No element is taken by two classes, and each class takes its own: which manager gets a
\* stanza does not depend on the order they were added in.
UniquelyRecognised ==
  phase = "sent" /\ kind \notin NoXml \cup {"PlainIq"} /\ ~(kind \in FirstOnly /\ padded = "front") =>
    Recognised(wire) = {IF kind = "CapsHash" THEN "DiscoveryIq" ELSE kind}

\* The hash of the capabilities is the same however their lists are ordered, or nobody
\* would find the capabilities of another client in his cache.
HashIgnoresOrder == WasRead /\ kind = "CapsHash" => read = due

\* A JID comes apart into what it was made of, also when the resource holds the marks.
\* (Of a JID without a user, an "@" in its resource is taken for the user's.)
JidComesApart ==
  WasRead /\ kind = "Jid" =>
    /\ read.bare = due.bare /\ read.domain = due.domain /\ read.resource = due.resource
    /\ read.user = due.user \/ (due.user = << >> /\ "@" \in ToSet(due.resource))

\* Requests that are taken and never answered, and bytestreams, that answer everything.
Silent == {"VCardIq", "ArchiveChatIq", "ArchiveListIq", "ArchivePrefIq", "MucAdminIq", "MucOwnerIq",
           "JingleIq", "RpcErrorIq", "RpcResponseIq"}
SilentSometimes ==
  {"VersionIq", "EntityTimeIq", "DiscoveryIq", "CapsHash", "RosterIq", "ByteStreamIq",
   "StreamInitiationIq", "RpcInvokeIq", "NonSASLAuthIq"}
Eager == {"IbbOpenIq", "IbbCloseIq", "IbbDataIq"}

\* A request is answered exactly once, an answer never: whatever combination of managers
\* takes it, no request is both answered by a manager and refused as unknown.  Only the field
\* list of the old login, an answer, is answered (QXmppOutgoingClient.cpp:524), also outside
\* a login and whoever has sent it; and bytestreams, that refuse what is no request.
AnsweredOnce ==
  phase = "handled" /\ padded = "no" /\ kind \notin NoXml \cup {"Presence", "Message", "StreamFeatures"} =>
    LET request == IqType(wire) \in {"get", "set"}
    IN  /\ Len(answers) <= 1
        /\ kind \in Silent => answers = << >>
        /\ request /\ kind \notin Silent \cup SilentSometimes => Len(answers) = 1
        /\ ~request /\ kind \notin Eager => Len(answers) = IF IsFieldList(wire) THEN 1 ELSE 0

\* An answer goes to whom the request came from and bears its id; only the answer to a
\* roster set, which is the server's, has no address, and the answer to a field list, which
\* is a login or the end of the stream, goes to the server whoever has sent the list.
AnswersComeBack ==
  phase = "handled" =>
    \A i \in DOMAIN answers :
      \/ /\ answers[i].tag = "message" /\ Attr(answers[i], "to") = Attr(wire, "from")
         /\ ParseMessage(answers[i]).receiptId = Attr(wire, "id")
      \/ /\ IsFieldList(wire) /\ Attr(answers[i], "to") = Null
         /\ answers[i] = EndOfStream \/ (IsNonSASLAuthIq(answers[i]) /\ IqType(answers[i]) = "set")
      \/ /\ answers[i].tag = "iq" /\ Attr(answers[i], "id") = Attr(wire, "id")
         /\ IqType(answers[i]) \in {"result", "error"}
         /\ \/ Attr(answers[i], "to") = Attr(wire, "from")
            \/ kind = "RosterIq" /\ BareOf(Attr(wire, "from")) = OwnBareJid /\ Attr(answers[i], "to") = Null

\* Two such clients never answer each other for ever: no answer calls for another.
NoPingPong == phase = "handled" => \A i \in DOMAIN answers : Handle(answers[i]) = << >>
-----------------------------------------------------------------------------
(* Each the sum of some of these.                                          *)

\* What arrives is what was sent, or is refused.
Conveyed ==
  /\ ReadsBack /\ IgnoresForeign /\ HashIgnoresOrder
  /\ JidComesApart /\ SoundKept /\ DamageRefused

\* A request has one answer, which finds back, and an answer none but a login.
Answered == AnsweredOnce /\ AnswersComeBack /\ NoPingPong
=============================================================================
