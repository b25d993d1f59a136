------------------------------ MODULE Datagrams ------------------------------
(***************************************************************************)
(* What travels in the datagrams of a call.  QXmppRtpPacket is words on    *)
(* the wire, and its payload may be the samples of a G.711 codec, which    *)
(* compresses 16 bits to 8.  QXmppStunMessage is a header and attributes,  *)
(* each with its length and filled up to a multiple of four bytes, closed  *)
(* by a seal over what precedes it (MESSAGE-INTEGRITY) and a checksum over *)
(* that (FINGERPRINT).                                                     *)
(*                                                                         *)
(* A text or a block of data is the number of its bytes.  A host or a port *)
(* is the set of the words it is the exclusive or of, so that one that is  *)
(* masked twice with the same words is itself again.  A seal or checksum   *)
(* is what it was computed from: the key and all that precedes it.         *)
(***************************************************************************)
EXTENDS Integers, Sequences, SequencesExt, FiniteSets, FiniteSetsExt, TLC
LOCAL INSTANCE Bitwise

\* Attributes that setters set, with the length of those that have only one.
LengthOf == "ChangeRequest" :> 4 @@ "ChannelNumber" :> 4 @@ "Lifetime" :> 4 @@ "Priority" :> 4
            @@ "RequestedTransport" :> 4 @@ "ReservationToken" :> 8
OfAnyLength == {"Data", "Nonce", "Realm", "Software", "Username"}
Settable == DOMAIN LengthOf \cup OfAnyLength
PlainHosts == {"MappedAddress", "SourceAddress", "ChangedAddress", "OtherAddress"}
XorHosts == {"XorMappedAddress", "XorPeerAddress", "XorRelayedAddress"}

NoHost == [version |-> 0, host |-> {}, port |-> {}]

StunMessage ==
  [type |-> 0, cookie |-> "magic", id |-> "id", attributes |-> {}, values |-> [t \in Settable |-> 0],
   hosts |-> [t \in PlainHosts \cup XorHosts |-> NoHost], errorCode |-> 0, errorPhrase |-> 0,
   useCandidate |-> FALSE, iceControlling |-> 0, iceControlled |-> 0]

\* A setter also notes that its attribute is there.
SetAttribute(m, t, v) == [m EXCEPT !.values[t] = v, !.attributes = @ \cup {t}]

CandidatePriority(type, component) ==
  LET typePref == CASE type = "host" -> 126 [] type = "prflx" -> 110 [] type = "srflx" -> 100 [] OTHER -> 0
  IN  2^24 * typePref + 2^8 * 65535 + 256 - component

-----------------------------------------------------------------------------
(* Writing. *)

Filled(n) == 4 * ((n + 3) \div 4)

\* What takes its own length, and then room that may be filled up.
Attribute(t, length, written, value) ==
  [type |-> t, length |-> length, written |-> written, value |-> value, address |-> NoHost,
   key |-> "", over |-> << >>]
Coding(t, length, value) == Attribute(t, length, Filled(length), value)

Mask(version, id) == IF version = 4 THEN {"magic"} ELSE {"magic", id}
Masked(a, id) ==
  [a EXCEPT !.port = SymDiff(@, {"upper half of magic"}), !.host = SymDiff(@, Mask(a.version, id))]

AddAddress(m, t) ==
  LET a == m.hosts[t]
  IN  IF a.port = {} \/ a.version = 0 THEN << >>
      ELSE <<[Coding(t, IF a.version = 4 THEN 8 ELSE 20, << >>) EXCEPT
                !.address = IF t \in XorHosts THEN Masked(a, m.id) ELSE a]>>

IfSet(m, t) ==
  IF t \notin m.attributes THEN << >>
  ELSE <<IF t \in DOMAIN LengthOf THEN Coding(t, LengthOf[t], <<m.values[t]>>)
         ELSE Coding(t, m.values[t], <<m.values[t]>>)>>

\* The nonce is not filled up.
NonceIfSet(m) ==
  IF "Nonce" \notin m.attributes THEN << >>
  ELSE <<Attribute("Nonce", m.values["Nonce"], m.values["Nonce"], <<m.values["Nonce"]>>)>>

EncodeError(m) ==
  IF m.errorCode = 0 THEN << >>
  ELSE <<Coding("ErrorCode", m.errorPhrase + 4, <<m.errorCode \div 100, m.errorCode % 100, m.errorPhrase>>)>>

EncodeHosts(m) ==
  AddAddress(m, "MappedAddress") \o IfSet(m, "ChangeRequest") \o AddAddress(m, "SourceAddress")
  \o AddAddress(m, "ChangedAddress") \o AddAddress(m, "OtherAddress") \o AddAddress(m, "XorMappedAddress")
  \o AddAddress(m, "XorPeerAddress") \o AddAddress(m, "XorRelayedAddress")

EncodeValues(m) ==
  IfSet(m, "Priority") \o (IF m.useCandidate THEN <<Coding("UseCandidate", 0, << >>)>> ELSE << >>)
  \o IfSet(m, "ChannelNumber") \o IfSet(m, "Data") \o IfSet(m, "Lifetime") \o NonceIfSet(m)
  \o IfSet(m, "Realm") \o IfSet(m, "RequestedTransport") \o IfSet(m, "ReservationToken")
  \o IfSet(m, "Software") \o IfSet(m, "Username")

EncodeRole(m) ==
  CASE m.iceControlling > 0 -> <<Coding("IceControlling", m.iceControlling, <<m.iceControlling>>)>>
    [] m.iceControlled > 0 -> <<Coding("IceControlled", m.iceControlled, <<m.iceControlled>>)>>
    [] OTHER -> << >>

BodyLength(attributes) == FoldLeft(LAMBDA n, a : n + 4 + a.written, 0, attributes)

\* What seals an attribute list: the header's length is made to count the seal.
Seal(t, length, key, before) == <<[Coding(t, length, << >>) EXCEPT !.key = key, !.over = before]>>

\* "more" and "late" are attributes that only other writers have.
Sealed(m, attributes, key, late, addFingerprint) ==
  LET whole == attributes \o (IF key # "" THEN Seal("MessageIntegrity", 20, key, attributes) ELSE << >>) \o late
      all == whole \o (IF addFingerprint THEN Seal("Fingerprint", 4, "", whole) ELSE << >>)
  IN  [type |-> m.type, length |-> BodyLength(all), cookie |-> m.cookie, id |-> m.id, attributes |-> all]

Encode(m, key, addFingerprint, more, late) ==
  Sealed(m, more \o EncodeHosts(m) \o EncodeError(m) \o EncodeValues(m) \o EncodeRole(m),
         key, late, addFingerprint)

-----------------------------------------------------------------------------
(* Reading. *)

\* peekType(), and what an ICE component asks for: anything else is media.
LooksLikeStun(w) == w.length = BodyLength(w.attributes) /\ w.type # 0 /\ w.cookie = "magic"

AddressFits(a) ==
  \/ a.address.version = 4 /\ a.length = 8
  \/ a.address.version = 6 /\ a.length = 20

DecodeAddress(m, a) ==
  [m EXCEPT !.hosts[a.type] = IF a.type \in XorHosts THEN Masked(a.address, m.id) ELSE a.address]

\* The lengths that are insisted on.
Fits(a) ==
  CASE a.type \in DOMAIN LengthOf -> a.length = LengthOf[a.type]
    [] a.type \in PlainHosts \cup XorHosts -> AddressFits(a)
    [] a.type = "ErrorCode" -> a.length >= 4
    [] a.type = "UseCandidate" -> a.length = 0
    [] a.type \in {"IceControlling", "IceControlled"} -> a.length = 8
    [] a.type = "MessageIntegrity" -> a.length = 20
    [] a.type = "Fingerprint" -> a.length = 4
    [] OTHER -> TRUE

DecodeValue(m, a) ==
  CASE a.type \in Settable -> SetAttribute(m, a.type, a.value[1])
    [] a.type \in PlainHosts \cup XorHosts -> DecodeAddress(m, a)
    [] a.type = "ErrorCode" ->
         [m EXCEPT !.errorCode = a.value[1] * 100 + a.value[2], !.errorPhrase = a.value[3]]
    [] a.type = "UseCandidate" -> [m EXCEPT !.useCandidate = TRUE]
    [] a.type = "IceControlling" -> [m EXCEPT !.iceControlling = a.value[1]]
    [] a.type = "IceControlled" -> [m EXCEPT !.iceControlled = a.value[1]]
    [] OTHER -> m                                                            \* skipped

\* Reading of the i-th attribute; "out of step" is where bytes are no longer what they were
\* written for, because what precedes was not filled up.
Decode1(r, w, i, key) ==
  LET a == w.attributes[i]
      before == SubSeq(w.attributes, 1, i - 1)
      inStep == i = Len(w.attributes) \/ a.written = Filled(a.length)
      next == [r EXCEPT !.outcome = IF inStep THEN @ ELSE "out of step"]
  IN  CASE r.outcome # "reading" -> r
        [] r.afterIntegrity /\ a.type # "Fingerprint" -> next
        [] ~Fits(a) -> [r EXCEPT !.outcome = "refused"]
        [] a.type = "MessageIntegrity" ->
             IF key # "" /\ (a.key # key \/ a.over # before) THEN [r EXCEPT !.outcome = "refused"]
             ELSE [next EXCEPT !.afterIntegrity = TRUE]
        [] a.type = "Fingerprint" -> [r EXCEPT !.outcome = IF a.over = before THEN "done" ELSE "refused"]
        [] OTHER -> [next EXCEPT !.message = DecodeValue(@, a)]

Decode(w, key) ==
  LET header == [StunMessage EXCEPT !.type = w.type, !.cookie = w.cookie, !.id = w.id]
      r == FoldLeft(LAMBDA s, i : Decode1(s, w, i, key),
                    [message |-> header, outcome |-> "reading", afterIntegrity |-> FALSE],
                    [i \in DOMAIN w.attributes |-> i])
      outcome == CASE w.length # BodyLength(w.attributes) -> "refused"
                   [] r.outcome = "reading" -> "done"
                   [] OTHER -> r.outcome
  IN  [outcome |-> outcome, message |-> IF outcome = "done" THEN r.message ELSE StunMessage]

\* What a component makes of a datagram.
ReadDatagram(w, key) ==
  IF LooksLikeStun(w) THEN Decode(w, key) ELSE [outcome |-> "media", message |-> StunMessage]

-----------------------------------------------------------------------------
(* Media packets: the payload is the number of its bytes. *)

RtpPacket == [version |-> 2, marker |-> FALSE, type |-> 0, sequence |-> 0, stamp |-> 0, ssrc |-> 0,
              csrc |-> << >>, payload |-> 0]

RtpToBytes(p) ==
  [first |-> (p.version % 4) * 64 + (Len(p.csrc) % 16) * 2,
   second |-> (p.type % 128) + (IF p.marker THEN 128 ELSE 0),
   sequence |-> p.sequence, stamp |-> p.stamp, ssrc |-> p.ssrc, sources |-> p.csrc,
   size |-> p.payload + 12 + 4 * Len(p.csrc)]

NoPacket == [RtpPacket EXCEPT !.version = 0]
ParseRtp(w) ==
  LET cc == (w.first \div 2) % 16
      hlen == 12 + 4 * cc
  IN  IF w.size = 0 \/ w.first \div 64 # 2 \/ w.size < hlen THEN NoPacket
      ELSE [version |-> w.first \div 64, marker |-> w.second \div 128 = 1, type |-> w.second % 128,
            sequence |-> w.sequence, stamp |-> w.stamp, ssrc |-> w.ssrc,
            csrc |-> SubSeq(w.sources, 1, cc), payload |-> w.size - hlen]

-----------------------------------------------------------------------------
(* G.711: a sign, a segment and four bits within it. *)

\* The segment a magnitude lies in: the first whose end it does not exceed, 8 if none.
Search(n, ends) == IF \E i \in 1 .. 8 : n <= ends[i]
                     THEN (CHOOSE i \in 1 .. 8 : n <= ends[i] /\ \A j \in 1 .. i - 1 : n > ends[j]) - 1
                     ELSE 8
SegAEnd == [i \in 1 .. 8 |-> 2^(i + 4) - 1]
SegUEnd == [i \in 1 .. 8 |-> 2^(i + 5) - 1]

\* A shift to the right of a negative number rounds down, as \div does.
LinearToAlaw(pcm) ==
  LET v == pcm \div 8
      mask == IF v >= 0 THEN 213 ELSE 85
      n == IF v >= 0 THEN v ELSE -v - 1
      seg == Search(n, SegAEnd)
      bits == n \div 2^(IF seg < 2 THEN 1 ELSE seg)
  IN  IF seg >= 8 THEN 127 ^^ mask ELSE (seg * 16 + (bits % 16)) ^^ mask

AlawToLinear(code) ==
  LET a == code ^^ 85
      t == (a % 16) * 16
      seg == (a \div 16) % 8
      n == CASE seg = 0 -> t + 8 [] seg = 1 -> t + 264 [] OTHER -> (t + 264) * 2^(seg - 1)
  IN  IF a >= 128 THEN n ELSE -n

Bias == 132
Clip == 8159

LinearToUlaw(pcm) ==
  LET v == pcm \div 4
      mask == IF v < 0 THEN 127 ELSE 255
      magnitude == IF v < 0 THEN -v ELSE v
      n == (IF magnitude > Clip THEN Clip ELSE magnitude) + (Bias \div 4)
      seg == Search(n, SegUEnd)
      bits == n \div 2^(seg + 1)
  IN  IF seg >= 8 THEN 127 ^^ mask ELSE (seg * 16 + (bits % 16)) ^^ mask

UlawToLinear(code) ==
  LET u == 255 - code
      t == ((u % 16) * 8 + Bias) * 2^((u \div 16) % 8)
  IN  IF u >= 128 THEN Bias - t ELSE t - Bias
=============================================================================
