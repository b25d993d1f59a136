--------------------------------- MODULE Sasl ---------------------------------
(***************************************************************************)
(* A SASL conversation (QXmppSasl.cpp): the client of a mechanism, and the *)
(* server of it, which may be the one of this library or another.  The     *)
(* messages of DIGEST-MD5 go through the text that they are written as.    *)
(*                                                                         *)
(* A text is a sequence of characters, and a character a tuple of one      *)
(* string; a digest is a character of its own, a tuple of what it is of.   *)
(***************************************************************************)
EXTENDS Integers, Sequences, FiniteSets, SequencesExt

VARIABLES
  login,            \* the mechanism, what the server knows, and the password the user gives
  ownServer,                \* the server is of this library
  clientStep, serverStep,
  clientSecret,       \* m_secret of the client
  message,            \* under way: [to, kind, text]
  serverName,         \* username() of the server
  outcome             \* "open", "success", "failure"

saslVars == <<login, ownServer, clientStep, serverStep, clientSecret, message, serverName, outcome>>

Char(c) == <<c>>
Quote == Char("\"")
Backslash == Char("\\")
Comma == Char(",")
Equal == Char("=")
Colon == <<Char(":")>>
Nul == Char("NUL")
Word(w) == <<Char(w)>>           \* a word whose letters do not matter

Characters == {Char("a"), Quote, Backslash, Comma, Equal}
LoginNames == {<<c>> : c \in Characters} \cup {<<c, d>> : c \in Characters, d \in Characters}
Realms == {<< >>, Word("a"), <<Quote, Comma>>}
Passwords == {Word("p"), Word("q")}
Mechanisms == {"PLAIN", "DIGEST-MD5", "ANONYMOUS", "X-FACEBOOK-PLATFORM"}

-----------------------------------------------------------------------------
(* Messages of DIGEST-MD5. *)

\* The keys, in the order in which a QMap has them.
Keys == <<"cnonce", "nonce", "qop", "realm", "response", "rspauth", "username">>

Replaced(text, old, new) ==
  LET from[i \in 1 .. Len(text) + 1] ==
        IF i > Len(text) THEN << >>
        ELSE IF i < Len(text) /\ <<text[i], text[i + 1]>> = old THEN new \o from[i + 2]
        ELSE <<text[i]>> \o from[i + 1]
  IN  from[1]

Escaped(value) ==
  FoldLeft(LAMBDA s, c : s \o (IF c \in {Quote, Backslash} THEN <<Backslash, c>> ELSE <<c>>), << >>, value)
Separators == {Quote, Backslash, Comma, Equal}

\* Mutant: what is quoted is not escaped.
ValueTextPlain(value) ==
  IF ToSet(value) \cap Separators # {} THEN <<Quote>> \o value \o <<Quote>> ELSE value

ValueText(value) ==
  IF ToSet(value) \cap Separators # {} THEN <<Quote>> \o Escaped(value) \o <<Quote>> ELSE value

SerializeMessage(map) ==
  LET present == SelectSeq(Keys, LAMBDA k : k \in DOMAIN map)
      field(k) == <<Char(k), Equal>> \o ValueText(map[k])
  IN  FoldLeft(LAMBDA s, k : (IF s = << >> THEN s ELSE Append(s, Comma)) \o field(k), << >>, present)

\* The first place at or after `from' where P holds, or 0.
First(from, to, P(_)) ==
  LET places == {i \in from .. to : P(i)}
  IN  IF places = {} THEN 0 ELSE CHOOSE i \in places : \A j \in places : i <= j

\* Backslashes are only looked at next to quotes; a quoted text that does not end ends the
\* message.
ParseMessage(text) ==
  LET n == Len(text)
      from[start \in 1 .. n + 2] ==
        LET equal == First(start, n, LAMBDA i : text[i] = Equal)
            quoted == equal < n /\ text[equal + 1] = Quote
            closing == First(equal + 2, n, LAMBDA i : text[i] = Quote /\ text[i - 1] # Backslash)
            comma == First(equal + 1, n, LAMBDA i : text[i] = Comma)
            end == IF quoted THEN closing ELSE IF comma = 0 THEN n + 1 ELSE comma
            raw == SubSeq(text, IF quoted THEN equal + 2 ELSE equal + 1, end - 1)
            value == IF quoted
                       THEN Replaced(Replaced(raw, <<Backslash, Quote>>, <<Quote>>), <<Backslash, Backslash>>, <<Backslash>>)
                       ELSE raw
        IN  IF equal = 0 \/ (quoted /\ closing = 0) THEN << >>
            ELSE from[IF quoted THEN end + 2 ELSE end + 1]
                   @@ (SubSeq(text, start, equal - 1) :> value)
  IN  from[1]

FieldOf(map, key) == IF Word(key) \in DOMAIN map THEN map[Word(key)] ELSE << >>

\* m_secret, and calculateDigest() with it.
SecretOf(name, realm, password) == name \o Colon \o realm \o Colon \o password
Digest(method, secret, nonce) == << <<"digest", method, secret, nonce>> >>
Nonces == {<<Char("n")>>, <<Char("n"), Equal>>}      \* in base64

-----------------------------------------------------------------------------
(* The conversation. *)

To(end, kind, text) == [to |-> end, kind |-> kind, text |-> text]
NoElement == To("none", "", << >>)

SaslTypeOK ==
  /\ login.mechanism \in Mechanisms /\ login.name \in LoginNames /\ login.realm \in Realms
  /\ {login.password, login.given} \subseteq Passwords /\ login.nonce \in Nonces
  /\ ownServer \in BOOLEAN /\ clientStep \in 0 .. 3 /\ serverStep \in 0 .. 3
  /\ message.to \in {"none", "client", "server"}
  /\ outcome \in {"open", "success", "failure"}

\* Where no login is followed.
FirstLogin == [mechanism |-> "PLAIN", name |-> Word("a"), realm |-> << >>,
               password |-> Word("p"), given |-> Word("p"), nonce |-> <<Char("n")>>]

SaslInit ==
  /\ login \in [mechanism : Mechanisms, name : LoginNames, realm : Realms,
                  password : {Word("p")}, given : Passwords, nonce : Nonces]
  /\ ownServer \in BOOLEAN /\ clientStep = 0 /\ serverStep = 0 /\ clientSecret = << >>
  /\ message = To("client", "features", << >>) /\ serverName = << >> /\ outcome = "open"

\* respond() of the clients: the text, or that there is none.
Unsaid == [ok |-> FALSE, text |-> << >>]
Says(text) == [ok |-> TRUE, text |-> text]

QopsOf(input) ==
  LET qop == IF Word("qop") \in DOMAIN input THEN FieldOf(input, "qop") ELSE Word("auth")
  IN  ToSet(qop) \ {Comma}
DigestReply(input, secret) ==
  [k \in {"username", "nonce", "qop", "cnonce", "response"}
         \cup (IF FieldOf(input, "realm") = << >> THEN {} ELSE {"realm"}) |->
     CASE k = "username" -> login.name [] k = "nonce" -> FieldOf(input, "nonce")
       [] k = "qop" -> Word("auth") [] k = "cnonce" -> <<Char("c"), Equal>>
       [] k = "realm" -> FieldOf(input, "realm")
       [] k = "response" -> Digest("AUTHENTICATE", secret, FieldOf(input, "nonce"))]

Proves(text) ==
  FieldOf(ParseMessage(text), "rspauth") = Digest("", clientSecret, login.nonce)

ClientAnswer(text) ==
  LET input == ParseMessage(text) IN
  CASE login.mechanism = "PLAIN" /\ clientStep = 0 ->
         Says(<<Nul>> \o login.name \o <<Nul>> \o login.given)
    [] login.mechanism # "PLAIN" /\ clientStep = 0 -> Says(<< >>)
    [] login.mechanism = "X-FACEBOOK-PLATFORM" /\ clientStep = 1 /\ text = Word("method, nonce") ->
         Says(Word("token, nonce"))
    [] login.mechanism = "DIGEST-MD5" /\ clientStep = 1
       /\ Word("nonce") \in DOMAIN input /\ Char("auth") \in QopsOf(input) ->
         Says(SerializeMessage(DigestReply(input,
                SecretOf(login.name, FieldOf(input, "realm"), login.given))))
    [] login.mechanism = "DIGEST-MD5" /\ clientStep = 2 /\ Proves(text) -> Says(<< >>)
    [] OTHER -> Unsaid

\* handleStanza() of the client's stream, with what it does of SASL: success is taken at any
\* step, without asking the mechanism.
ClientReads ==
  /\ message.to = "client" /\ outcome = "open"
  /\ LET answer == ClientAnswer(message.text) IN
     CASE message.kind \in {"success", "failure"} ->
            /\ outcome' = message.kind /\ message' = NoElement
            /\ UNCHANGED <<clientStep, clientSecret>>
       [] message.kind \in {"features", "challenge"} /\ answer.ok ->
            /\ message' = To("server", IF message.kind = "features" THEN "auth" ELSE "response", answer.text)
            /\ clientStep' = clientStep + 1
            /\ clientSecret' = IF login.mechanism = "DIGEST-MD5" /\ clientStep = 1
                                 THEN SecretOf(login.name, FieldOf(ParseMessage(message.text), "realm"), login.given)
                                 ELSE clientSecret
            /\ UNCHANGED outcome
       [] OTHER ->
            /\ outcome' = "failure" /\ message' = NoElement
            /\ UNCHANGED <<clientStep, clientSecret>>
  /\ UNCHANGED <<login, ownServer, serverStep, serverName>>

\* respond() of the servers, with the answer of their owner about a name's password.
ServerSays(kind, text) == message' = To("client", kind, text)
Knows(name) == name = login.name
Challenge(fields) ==
  SerializeMessage([k \in fields |->
    CASE k = "nonce" -> login.nonce [] k = "realm" -> login.realm [] k = "qop" -> Word("auth")])

PlainServer ==
  /\ login.mechanism = "PLAIN"
  /\ LET at == {i \in DOMAIN message.text : message.text[i] = Nul}
         second == CHOOSE i \in at : i # 1
         name == SubSeq(message.text, 2, second - 1)
         password == SubSeq(message.text, second + 1, Len(message.text))
     IN  /\ serverName' = name /\ serverStep' = 1
         /\ ServerSays(IF Knows(name) /\ password = login.password THEN "success" ELSE "failure", << >>)

AnonymousServer ==
  /\ login.mechanism = "ANONYMOUS" /\ serverStep' = 1
  /\ ServerSays("success", << >>) /\ UNCHANGED serverName

RightDigest(input) ==
  FieldOf(input, "response") =
    Digest("AUTHENTICATE", SecretOf(FieldOf(input, "username"), FieldOf(input, "realm"), login.password), login.nonce)

DigestServer ==
  /\ login.mechanism = "DIGEST-MD5"
  /\ LET input == ParseMessage(message.text)
         name == FieldOf(input, "username")
         secret == SecretOf(name, FieldOf(input, "realm"), login.password)
         fields == {"nonce", "qop"} \cup (IF login.realm = << >> THEN {} ELSE {"realm"})
     IN  CASE serverStep = 0 ->
                /\ ServerSays("challenge", Challenge(fields))
                /\ serverStep' = 1 /\ UNCHANGED serverName
           [] serverStep = 1 /\ FieldOf(input, "qop") # Word("auth") ->
                /\ ServerSays("failure", << >>) /\ UNCHANGED <<serverName, serverStep>>
           [] serverStep = 1 /\ FieldOf(input, "qop") = Word("auth") ->
                /\ serverName' = name
                /\ IF Knows(name) /\ RightDigest(input)
                     THEN /\ ServerSays("challenge",
                               SerializeMessage([k \in {"rspauth"} |-> Digest("", secret, login.nonce)]))
                          /\ serverStep' = 2
                     ELSE ServerSays("failure", << >>) /\ UNCHANGED serverStep
           [] serverStep = 2 ->
                /\ ServerSays("success", << >>) /\ serverStep' = 3 /\ UNCHANGED serverName

\* Another server: what it asks may be less, or of another kind; it may let in whom it likes
\* and when it likes, and knows the account's password only as it was.
OtherServer ==
  /\ \/ \E verdict \in {"success", "failure"} : ServerSays(verdict, << >>)
     \/ /\ login.mechanism = "X-FACEBOOK-PLATFORM" /\ serverStep = 0
        /\ \E text \in {Word("method, nonce"), Word("method")} : ServerSays("challenge", text)
     \/ /\ login.mechanism = "DIGEST-MD5" /\ serverStep = 0
        /\ \/ \E fields \in SUBSET {"nonce", "realm"} : ServerSays("challenge", Challenge(fields))
           \/ \E qop \in {Word("auth-int"), <<Char("auth"), Comma, Char("auth-int")>>} :
                ServerSays("challenge", SerializeMessage([k \in {"nonce", "qop"} |->
                                          IF k = "nonce" THEN login.nonce ELSE qop]))
     \/ /\ login.mechanism = "DIGEST-MD5" /\ serverStep = 1
        /\ ServerSays("challenge", SerializeMessage([k \in {"rspauth"} |->
             Digest("", SecretOf(login.name, FieldOf(ParseMessage(message.text), "realm"), login.password), login.nonce)]))
  /\ serverStep' = serverStep + 1 /\ UNCHANGED serverName

ServerReads ==
  /\ message.to = "server" /\ outcome = "open"
  /\ IF ownServer THEN \/ PlainServer \/ AnonymousServer \/ DigestServer
                 \/ /\ login.mechanism = "X-FACEBOOK-PLATFORM"
                    /\ ServerSays("failure", << >>) /\ UNCHANGED <<serverName, serverStep>>
     ELSE OtherServer
  /\ UNCHANGED <<login, ownServer, clientStep, clientSecret, outcome>>

SaslNext == ClientReads \/ ServerReads

-----------------------------------------------------------------------------
(* Properties. *)

EndsInBackslash(text) == text # << >> /\ Last(text) = Backslash

\* Client and server of this library understand one another: with the right password the
\* login never fails, whatever the name and the realm contain.  A name that ends in a
\* backslash is the exception: the quote behind it is taken for one of the name's
\* (parseMessage(), serializeMessage()).
RightSucceeds ==
  ownServer /\ login.given = login.password /\ login.mechanism # "X-FACEBOOK-PLATFORM"
  /\ ~(login.mechanism = "DIGEST-MD5" /\ EndsInBackslash(login.name))
    => outcome # "failure"

\* With a wrong password the server never accepts the client, let alone lets it in, and it
\* takes the client for whom it is (QXmppSaslServerDigestMd5::respond()).
Accepted ==
  \/ outcome = "success" /\ login.mechanism # "ANONYMOUS"
  \/ login.mechanism = "DIGEST-MD5" /\ serverStep >= 2
OnlyRightSucceeds == ownServer /\ Accepted => login.given = login.password /\ serverName = login.name

\* A client of DIGEST-MD5 goes on after the proof of a server only if they share the password,
\* even where that server lets in everybody (QXmppSaslClientDigestMd5::respond()).  It does not
\* wait for the proof: a server that says success before it is believed without one
\* (QXmppOutgoingClient.cpp:427), and this says nothing of such a login.
ServerProven ==
  login.mechanism = "DIGEST-MD5" /\ clientStep = 3 => login.given = login.password
=============================================================================
