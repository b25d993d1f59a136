----------------------------- MODULE PayloadTypes -----------------------------
(***************************************************************************)
(* How the two ends of a call agree on the payload types of a media        *)
(* channel (QXmppRtpChannel): one offers those it knows, under numbers of  *)
(* its own; the other keeps what it knows too, adopts the numbers, and     *)
(* answers with what is left.                                              *)
(***************************************************************************)
EXTENDS Integers, Sequences, SequencesExt, FiniteSets, FiniteSetsExt

VARIABLES
  known,              \* what each end has codecs for
  localTypes,         \* m_outgoingPayloadTypes
  remoteTypes,        \* m_incomingPayloadTypes
  numbered,           \* the local types are numbered already
  opened,             \* the channel has its codecs
  turn                \* "offer", "accept", "complete", "done"

typesVars == <<known, localTypes, remoteTypes, numbered, opened, turn>>

Ends == {"caller", "callee"}
OtherEnd(e) == CHOOSE o \in Ends : o # e

\* The clock rate stands for the number of channels too.
TypeOf(id, name, clockrate) == [id |-> id, name |-> name, clockrate |-> clockrate]
Speex == TypeOf(96, "speex", 8000)
Pcmu == TypeOf(0, "PCMU", 8000)
Pcma == TypeOf(8, "PCMA", 8000)
Events == TypeOf(101, "telephone-event", 8000)
Vp8 == TypeOf(96, "vp8", 90000)
Theora == TypeOf(97, "theora", 90000)

\* What builds of this program know, in their order.
AudioTypes == {<<Speex, Pcmu, Pcma, Events>>, <<Pcmu, Pcma, Events>>}
VideoTypes == {<<Vp8>>, <<Theora>>, <<Vp8, Theora>>}

\* What the other program may offer: any of these in any order, under other numbers, but no
\* type twice.
Pool(types) == types \cup {[t EXCEPT !.id = 97] : t \in {u \in types : u.id > 95}}
                     \cup {[t EXCEPT !.clockrate = 2 * @] : t \in {u \in types : u.id > 95}}
Offers(types) ==
  {s \in SeqOf(Pool(types), 3) :
     s # << >> /\ \A i, j \in DOMAIN s :
       i # j => s[i].id # s[j].id /\ <<s[i].name, s[i].clockrate>> # <<s[j].name, s[j].clockrate>>}

TypesTypeOK ==
  /\ \A e \in Ends : \A t \in ToSet(localTypes[e]) \cup ToSet(remoteTypes[e]) :
       t.id \in 0 .. 127 /\ t.name \in UNION {known[f] : f \in Ends}
  /\ numbered \in [Ends -> BOOLEAN] /\ opened \in [Ends -> BOOLEAN]
  /\ turn \in {"offer", "accept", "complete", "done"}

TypesInit ==
  /\ \E audio \in BOOLEAN :
     \E offer \in IF audio THEN AudioTypes \cup Offers({Speex, Pcmu, Pcma, Events})
                  ELSE VideoTypes \cup Offers({Vp8, Theora}),
        list \in IF audio THEN AudioTypes ELSE VideoTypes :
       localTypes = [e \in Ends |-> IF e = "caller" THEN offer ELSE list]
  /\ known = [e \in Ends |-> {t.name : t \in ToSet(localTypes[e])}]
  /\ remoteTypes = [e \in Ends |-> << >>] /\ numbered = [e \in Ends |-> FALSE]
  /\ opened = [e \in Ends |-> FALSE] /\ turn = "offer"

-----------------------------------------------------------------------------
(* Operations. *)

\* operator==: the numbers below 96 mean the same everywhere.
SameType(own, t) ==
  IF own.id <= 95 THEN t.id = own.id /\ t.clockrate = own.clockrate
  ELSE t.clockrate = own.clockrate /\ t.name = own.name

Counterpart(e, t) == SelectSeq(localTypes[e], LAMBDA own : SameType(own, t))
Common(e, remote) == SelectSeq(remote, LAMBDA t : Counterpart(e, t) # << >>)

\* The other's number is adopted, unless one's own were told already.
Adopted(e, t) ==
  LET own == Head(Counterpart(e, t))
  IN  IF ~numbered[e] /\ own.id > 95 THEN [own EXCEPT !.id = t.id] ELSE own

\* Mutant: what the other does not know stays among one's own.
SetRemotePayloadTypesOnly(e, remote) ==
  LET common == Common(e, remote)
  IN  IF common = << >> THEN UNCHANGED <<localTypes, remoteTypes, numbered, opened>>
      ELSE /\ remoteTypes' = [remoteTypes EXCEPT ![e] = common]
           /\ numbered' = [numbered EXCEPT ![e] = TRUE]
           /\ opened' = [opened EXCEPT ![e] = TRUE]
           /\ UNCHANGED localTypes

\* setRemotePayloadTypes(): what both know is kept, in the order of the other.
SetRemotePayloadTypes(e, remote) ==
  LET common == Common(e, remote)
  IN  IF common = << >> THEN UNCHANGED <<localTypes, remoteTypes, numbered, opened>>
      ELSE /\ remoteTypes' = [remoteTypes EXCEPT ![e] = common]
           /\ localTypes' = [localTypes EXCEPT ![e] = [i \in DOMAIN common |-> Adopted(e, common[i])]]
           /\ numbered' = [numbered EXCEPT ![e] = TRUE]
           /\ opened' = [opened EXCEPT ![e] = TRUE]

\* localPayloadTypes(): what is told to the other is numbered.
Tell(e) == numbered' = [numbered EXCEPT ![e] = TRUE]

Offer ==
  /\ turn = "offer" /\ turn' = "accept"
  /\ Tell("caller")
  /\ UNCHANGED <<known, localTypes, remoteTypes, opened>>

Accept ==
  /\ turn = "accept" /\ turn' = "complete"
  /\ SetRemotePayloadTypes("callee", localTypes["caller"])
  /\ UNCHANGED known

\* A callee that knows none of the types refuses the call.
Complete ==
  /\ turn = "complete" /\ opened["callee"] /\ turn' = "done"
  /\ SetRemotePayloadTypes("caller", localTypes["callee"])
  /\ UNCHANGED known

TypesNext == Offer \/ Accept \/ Complete

\* payloadTypesChanged(): the first type there is a codec for is what is sent; what comes
\* under a number is for the codec of the first type with this number.
Coders == {"speex", "PCMU", "PCMA", "vp8", "theora"}
CodecFor(e, t) ==
  CASE t.id = 0 -> "PCMU" [] t.id = 8 -> "PCMA"
    [] t.name \in Coders \cap known[e] -> t.name
    [] OTHER -> ""
Sent(e) == SelectSeq(localTypes[e], LAMBDA t : CodecFor(e, t) # "")
TonesSent(e) == SelectSeq(localTypes[e], LAMBDA t : t.name = "telephone-event")
CodecAt(e, id) ==
  LET types == SelectSeq(remoteTypes[e], LAMBDA t : t.id = id)
  IN  IF types = << >> THEN "" ELSE CodecFor(e, types[1])

-----------------------------------------------------------------------------
(* Properties. *)

\* What either end sends, the other has the right codec for under the number it bears, and
\* it takes no telephone event for sound, in whatever order and under whatever numbers
\* the types were offered (setRemotePayloadTypes(), datagramReceived()).
CodecsAgree ==
  turn = "done" => \A e \in Ends :
    /\ opened[e]
    /\ Sent(e) # << >> => CodecAt(OtherEnd(e), Sent(e)[1].id) = CodecFor(e, Sent(e)[1])
    /\ TonesSent(e) # << >> => CodecAt(OtherEnd(e), TonesSent(e)[1].id) = ""

\* The answer has the numbers of the offer, and both ends send with the same codec.
NumbersAgree == turn = "done" => localTypes["caller"] = localTypes["callee"]
=============================================================================
