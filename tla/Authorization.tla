---------------------------- MODULE Authorization -----------------------------
(***************************************************************************)
(* OAuthTwitter (src/qtweetlib/oauthtwitter.cpp): the program gets its     *)
(* tokens with a name and a password, or with a PIN in two calls that wait *)
(* in event loops of their own, at most five seconds; in which the program *)
(* may make another one.                                                   *)
(***************************************************************************)
EXTENDS Naturals, SequencesExt

CONSTANTS
    MaxCalls,    \* bound on the calls within each other
    MaxXAuth     \* bound on the requests with a password under way

ASSUME AuthorizationAssumption == {MaxCalls, MaxXAuth} \subseteq Nat

VARIABLES
    tokens,      \* m_oauthToken and m_oauthTokenSecret: "none", "request", "access"
    calls,       \* authorizePin() and requestAccessToken() calls that have not returned,
                 \* the innermost last
    xauth,       \* how many requests of authorizeXAuth() are not answered
    told         \* the signal of the last step, "timeout" for none, or "none"

authorizationVars == <<tokens, calls, xauth, told>>

Signals == {"authorizeXAuthFinished", "authorizeXAuthError", "authorizePinFinished", "accessTokenGranted"}
Names == {"authorizePin", "requestAccessToken"}

AuthorizationTypeOK ==
    /\ tokens \in {"none", "request", "access"} /\ xauth \in 0 .. MaxXAuth
    /\ Len(calls) <= MaxCalls
    /\ ToSet(calls) \subseteq [name : Names, with : {"none", "request", "access"}, covered : BOOLEAN,
                               answer : {"none", "good", "error"}, timer : BOOLEAN, inTime : BOOLEAN]
    /\ told \in Signals \cup {"timeout", "none"}

AuthorizationInit == tokens = "none" /\ calls = << >> /\ xauth = 0 /\ told = "none"

AuthorizeXAuth ==
    /\ xauth < MaxXAuth /\ xauth' = xauth + 1 /\ told' = "none"
    /\ UNCHANGED <<tokens, calls>>

\* finishedAuthorization()
FinishedAuthorization ==
    /\ xauth > 0 /\ xauth' = xauth - 1
    /\ \/ tokens' = "access" /\ told' = "authorizeXAuthFinished"
       \/ told' = "authorizeXAuthError" /\ UNCHANGED tokens
    /\ UNCHANGED calls

\* A call up to its event loop, with the tokens its request is signed with.  A call that is
\* waiting is covered by it.
Calls(name) ==
    /\ Len(calls) < MaxCalls
    /\ calls' = [i \in DOMAIN calls |-> [calls[i] EXCEPT !.covered = TRUE]] \o
                <<[name |-> name, with |-> tokens, covered |-> FALSE,
                   answer |-> "none", timer |-> TRUE, inTime |-> FALSE]>>
    /\ told' = "none" /\ UNCHANGED <<tokens, xauth>>

AuthorizePin == Calls("authorizePin")
RequestAccessToken == Calls("requestAccessToken")

\* The answer to a call, which ends its loop: Twitter grants access for a request token only,
\* and not for every PIN.
Answered ==
    /\ \E i \in DOMAIN calls, a \in {"good", "error"} :
         /\ calls[i].answer = "none"
         /\ a = "good" /\ calls[i].name = "requestAccessToken" => calls[i].with = "request"
         /\ calls' = [calls EXCEPT ![i].answer = a, ![i].inTime = calls[i].timer]
    /\ told' = "none" /\ UNCHANGED <<tokens, xauth>>

\* The timer of a call ends its loop, too.  The innermost loop has returned at once if its
\* answer has come, the others have not.
TimerFires ==
    /\ \E i \in DOMAIN calls :
         /\ calls[i].timer /\ (i = Len(calls) => calls[i].answer = "none")
         /\ calls' = [calls EXCEPT ![i].timer = FALSE]
    /\ told' = "none" /\ UNCHANGED <<tokens, xauth>>

\* parseTokens(): an answer that is an error holds none.
ParseTokens(call) ==
    tokens' = IF call.answer # "good" THEN "none"
              ELSE IF call.name = "authorizePin" THEN "request" ELSE "access"

\* The innermost loop returns.  If its timer has fired by then, the call ends there.
Returns ==
    /\ calls # << >>
    /\ LET call == Last(calls)
       IN  /\ call.answer # "none" \/ ~call.timer
           /\ calls' = Front(calls)
           /\ IF call.timer
              THEN /\ ParseTokens(call)
                   /\ told' = IF call.name = "authorizePin" THEN "authorizePinFinished" ELSE "accessTokenGranted"
              ELSE UNCHANGED tokens /\ told' = "timeout"
    /\ UNCHANGED xauth

AuthorizationNext ==
    \/ AuthorizeXAuth \/ FinishedAuthorization \/ AuthorizePin \/ RequestAccessToken
    \/ Answered \/ TimerFires \/ Returns
-----------------------------------------------------------------------------
(* Properties.                                                             *)

\* A call gives up only if no answer has come in its five seconds, unless another call
\* was made from within: its loop keeps the outer one from returning in time.
GivesUpUnanswered ==
    [][told' = "timeout" /\ calls' # calls => ~Last(calls).inTime \/ Last(calls).covered]_authorizationVars

\* A call returns, whether Twitter answers or not.
CallsReturn == Len(calls) = MaxCalls ~> Len(calls) < MaxCalls

\* accessTokenGranted() is "Emited when access token is taken after entering PIN. This means
\* that we can use Twitter services" (oauthtwitter.h:51).  An answer that refuses the PIN is
\* parsed for tokens as well, and the signal is emitted with none.
GrantedMeansAccess == told = "accessTokenGranted" => tokens = "access"
=============================================================================
