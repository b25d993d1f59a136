------------------------------- MODULE Bookmarks -------------------------------
(***************************************************************************)
(* QXmppBookmarkManager (src/client/QXmppBookmarkManager.cpp): the copy of *)
(* the bookmarks that the server stores for the account.  Of a set of      *)
(* bookmarks nothing but its identity matters.                             *)
(***************************************************************************)
EXTENDS StanzaWire

CONSTANTS
    BookmarkSets,  \* what the program stores
    MaxRequests    \* bound on the requests whose ids are told apart

None == "none"

ASSUME BookmarksAssumption == None \notin BookmarkSets /\ MaxRequests \in Nat

VARIABLES
    bookmarks,     \* bookmarks
    have,          \* bookmarksReceived
    pending,       \* pendingId, 0 if it is empty, and pendingBookmarks
    ids,           \* the number of the last request, to give each its own id
    stored,        \* at the server: the bookmarks of the account
    overlapped     \* history: bookmarks were set before the last answer was there

bookmarksVars == <<bookmarks, have, pending, ids, stored, overlapped>>

Store(id, set) == [kind |-> "store", id |-> id, set |-> set]
Stored(id) == [kind |-> "stored", id |-> id]
Refused(id) == [kind |-> "refused", id |-> id]
Contents(set) == [kind |-> "contents", set |-> set]
AskForThem == [kind |-> "ask"]

BookmarksTypeOK ==
    /\ {bookmarks, stored, pending.set} \subseteq BookmarkSets \cup {None}
    /\ {pending.id, ids} \subseteq 0 .. MaxRequests
    /\ {have, overlapped} \subseteq BOOLEAN

BookmarksInit ==
    /\ bookmarks = None /\ have = FALSE /\ pending = [id |-> 0, set |-> None] /\ ids = 0
    /\ stored \in BookmarkSets \cup {None} /\ overlapped = FALSE

\* slotConnected()
BookmarksOpens ==
    /\ Opens(<<AskForThem>>) /\ overlapped' = FALSE
    /\ UNCHANGED <<bookmarks, have, pending, ids, stored>>

\* slotDisconnected(): the id of a request without answer stays.
Forget == bookmarks' = None /\ have' = FALSE

BookmarksCloses ==
    /\ Closes
    /\ IF told' THEN UNCHANGED <<bookmarks, have>> ELSE Forget
    /\ UNCHANGED <<pending, ids, stored, overlapped>>

\* A store that the client has no answer to.
Unanswered ==
    \/ \E i \in DOMAIN toServer : toServer[i].kind = "store"
    \/ \E i \in DOMAIN fromServer : fromServer[i].kind # "contents"

\* setBookmarks()
SetBookmarks ==
    /\ phase = "Online" /\ ids < MaxRequests /\ ids' = ids + 1
    /\ \E set \in BookmarkSets : Send(<<Store(ids', set)>>) /\ pending' = [id |-> ids', set |-> set]
    /\ overlapped' = (overlapped \/ Unanswered)
    /\ UNCHANGED <<phase, told, fromServer, bookmarks, have, stored>>

ServerShows ==
    /\ Answer({"ask"}, <<Contents(stored)>>)
    /\ UNCHANGED bookmarksVars

ServerStores ==
    /\ toServer # <<>>
    /\ \/ Answer({"store"}, <<Stored(Head(toServer).id)>>) /\ stored' = Head(toServer).set
       \/ Answer({"store"}, <<Refused(Head(toServer).id)>>) /\ UNCHANGED stored
    /\ UNCHANGED <<bookmarks, have, pending, ids, overlapped>>

GetContents ==
    /\ Take /\ Head(fromServer).kind = "contents"
    /\ bookmarks' = Head(fromServer).set /\ have' = TRUE
    /\ UNCHANGED <<phase, told, toServer, pending, ids, stored, overlapped>>

\* Mutant: whether the answer is an error is not looked at.
GetAnswerAny ==
    /\ Take /\ Head(fromServer).kind \in {"stored", "refused"}
    /\ IF Head(fromServer).id = pending.id
       THEN pending' = [pending EXCEPT !.id = 0] /\ bookmarks' = pending.set
       ELSE UNCHANGED <<bookmarks, pending>>
    /\ UNCHANGED <<phase, told, toServer, have, ids, stored, overlapped>>

\* The answer to the last setBookmarks(); an answer to an earlier one is
\* nobody's.
GetAnswer ==
    /\ Take /\ Head(fromServer).kind \in {"stored", "refused"}
    /\ IF Head(fromServer).id = pending.id
       THEN /\ pending' = [pending EXCEPT !.id = 0]
            /\ bookmarks' = IF Head(fromServer).kind = "stored" THEN pending.set ELSE bookmarks
       ELSE UNCHANGED <<bookmarks, pending>>
    /\ UNCHANGED <<phase, told, toServer, have, ids, stored, overlapped>>

BookmarksNext ==
    \/ Tries /\ UNCHANGED bookmarksVars
    \/ BookmarksOpens \/ BookmarksCloses \/ SetBookmarks
    \/ ServerShows \/ ServerStores \/ GetContents \/ GetAnswer

-----------------------------------------------------------------------------
(* Properties.                                                             *)

(* When nothing is under way the client has the bookmarks that the server  *)
(* has, also after a refusal and a new session, provided that each call    *)
(* waits for the answer to the last.                                       *)
BookmarksAgree == have /\ phase = "Online" /\ Quiet /\ ~overlapped => bookmarks = stored

(* A session begins without bookmarks, and without a session there are     *)
(* none.                                                                   *)
BookmarksForgotten == ~told => bookmarks = None /\ ~have
=============================================================================
