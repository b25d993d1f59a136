-------------------------------- MODULE Ticker ---------------------------------
(***************************************************************************)
(* TwitterWidget (src/twitterwidget.cpp) with the search of the Twitter    *)
(* library: a page of tweets is searched for every minute; every eight     *)
(* seconds one tweet is chosen and its picture asked for; when the picture *)
(* has come the old tweet slides out and the new one slides in, unless the *)
(* mouse is on the widget.  Tweets are names.                              *)
(***************************************************************************)
EXTENDS Naturals

CONSTANTS
    Tweets,        \* the tweets of the hash tag
    Short,         \* those of less than 8 characters
    MaxSearches,   \* bound on the searches under way
    MaxPictures    \* bound on the pictures of a tweet under way

NoTweet == "no tweet"

ASSUME TickerAssumption ==
    /\ NoTweet \notin Tweets /\ Short \subseteq Tweets
    /\ {MaxSearches, MaxPictures} \subseteq Nat \ {0}

VARIABLES
    results,       \* results, whose order does not matter
    searches,      \* the searches that are not answered
    updateTimer,   \* mUpdateTimer is active
    refreshTimer,  \* mRefreshTimer is active
    currentTweet,  \* currentTweet
    pictures,      \* how many pictures of each tweet are under way
    nextPixmap,    \* the tweet whose picture nextPixmap is
    mouseIn,       \* mouse_in
    planned,       \* animation_planned
    anim,          \* mAnim: state, easing curve, finishRefresh() connected
    label,         \* the tweets whose text and whose picture are displayed
    slow           \* history: a tweet was chosen before the last one was displayed,
                   \* or a picture could not be had

tickerVars == <<results, searches, updateTimer, refreshTimer, currentTweet, pictures,
                nextPixmap, mouseIn, planned, anim, label, slow>>

TickerTypeOK ==
    /\ results \subseteq Tweets /\ searches \in 0 .. MaxSearches
    /\ {updateTimer, refreshTimer, mouseIn, planned, slow} \subseteq BOOLEAN
    /\ {currentTweet, nextPixmap, label.text, label.avatar} \subseteq Tweets \cup {NoTweet}
    /\ pictures \in [Tweets -> 0 .. MaxPictures]
    /\ anim \in [state : {"Stopped", "Running", "Paused"},
                 curve : {"Linear", "InBack", "OutBack"}, hooked : BOOLEAN]

TickerInit ==
    /\ results = {} /\ searches = 0 /\ updateTimer = TRUE /\ refreshTimer = FALSE
    /\ currentTweet = NoTweet /\ pictures = [t \in Tweets |-> 0] /\ nextPixmap = NoTweet
    /\ mouseIn = FALSE /\ planned = FALSE
    /\ anim = [state |-> "Stopped", curve |-> "Linear", hooked |-> FALSE]
    /\ label = [text |-> NoTweet, avatar |-> NoTweet] /\ slow = FALSE

UnderWay == \E t \in Tweets : pictures[t] > 0

\* startUpdate(): one more search.
StartUpdate == searches < MaxSearches /\ searches' = searches + 1

UpdateFires ==
    /\ updateTimer /\ StartUpdate
    /\ UNCHANGED <<results, updateTimer, refreshTimer, currentTweet, pictures, nextPixmap,
                   mouseIn, planned, anim, label, slow>>

\* startRefresh() over the given page: chooses a tweet and asks for its picture.
StartRefresh(page) ==
    IF page = {} THEN UNCHANGED <<currentTweet, pictures, slow>>
    ELSE \E t \in page :
           /\ pictures[t] < MaxPictures
           /\ currentTweet' = t /\ pictures' = [pictures EXCEPT ![t] = @ + 1]
           /\ slow' = (slow \/ UnderWay \/ planned \/ anim.hooked)

RefreshFires ==
    /\ refreshTimer /\ StartRefresh(results)
    /\ UNCHANGED <<results, searches, updateTimer, refreshTimer, nextPixmap, mouseIn,
                   planned, anim, label>>

\* searchFinished(): the index of the loop that takes the short tweets out is
\* not initialised, so that any of them, those before it, may be left.
SearchFinished(page) ==
    IF page = {} THEN UNCHANGED <<results, refreshTimer, currentTweet, pictures, slow>>
    ELSE /\ \E kept \in SUBSET (page \cap Short) : results' = (page \ Short) \cup kept
         /\ refreshTimer' = TRUE
         /\ IF refreshTimer THEN UNCHANGED <<currentTweet, pictures, slow>>
                            ELSE StartRefresh(results')

\* QTweetNetBase::reply(): an error, or an answer that is no page, is dropped.
SearchAnswered ==
    /\ searches > 0 /\ searches' = searches - 1
    /\ \/ \E page \in SUBSET Tweets : SearchFinished(page)
       \/ UNCHANGED <<results, refreshTimer, currentTweet, pictures, slow>>
    /\ UNCHANGED <<updateTimer, nextPixmap, mouseIn, planned, anim, label>>

-----------------------------------------------------------------------------
(* The animation.                                                          *)

\* doAnimOut(): start() resumes an animation that is paused, and lets one
\* that is running, in or out, run to its end.
DoAnimOut == anim' = [state |-> "Running", curve |-> "InBack", hooked |-> TRUE]

\* Mutant: the picture of an animation that is put off is not kept.
PictureArrivesUnkept(t, pixmap) ==
    /\ pictures[t] > 0 /\ pictures' = [pictures EXCEPT ![t] = @ - 1]
    /\ \/ /\ mouseIn /\ label.text # NoTweet
          /\ planned' = TRUE /\ UNCHANGED <<anim, nextPixmap>>
       \/ /\ ~(mouseIn /\ label.text # NoTweet)
          /\ DoAnimOut /\ nextPixmap' = pixmap /\ UNCHANGED planned
    /\ UNCHANGED <<results, searches, updateTimer, refreshTimer, currentTweet, mouseIn, label>>

\* pictureDownloaded() with the picture of t.
PictureArrives(t, pixmap) ==
    /\ pictures[t] > 0 /\ pictures' = [pictures EXCEPT ![t] = @ - 1]
    /\ nextPixmap' = pixmap
    /\ \/ /\ mouseIn /\ label.text # NoTweet
          /\ planned' = TRUE /\ UNCHANGED anim
       \/ /\ ~(mouseIn /\ label.text # NoTweet)
          /\ DoAnimOut /\ UNCHANGED planned
    /\ UNCHANGED <<results, searches, updateTimer, refreshTimer, currentTweet, mouseIn, label>>

PictureDownloaded(t) ==
    \/ PictureArrives(t, t) /\ UNCHANGED slow
    \/ PictureArrives(t, nextPixmap) /\ slow' = TRUE    \* no picture in the answer

\* finishRefresh()
FinishRefresh ==
    /\ label' = [text |-> currentTweet, avatar |-> nextPixmap]
    /\ anim' = [state |-> "Running", curve |-> "OutBack", hooked |-> FALSE]
    /\ refreshTimer' = TRUE

AnimFinished ==
    /\ anim.state = "Running"
    /\ IF anim.hooked THEN FinishRefresh
       ELSE anim' = [anim EXCEPT !.state = "Stopped"] /\ UNCHANGED <<label, refreshTimer>>
    /\ UNCHANGED <<results, searches, updateTimer, currentTweet, pictures, nextPixmap,
                   mouseIn, planned, slow>>

-----------------------------------------------------------------------------
(* event()                                                                 *)

Show ==
    /\ updateTimer' = TRUE
    /\ IF results = {} THEN StartUpdate ELSE UNCHANGED searches
    /\ UNCHANGED <<results, refreshTimer, currentTweet, pictures, nextPixmap, mouseIn,
                   planned, anim, label, slow>>

Hide ==
    /\ updateTimer' = FALSE
    /\ UNCHANGED <<results, searches, refreshTimer, currentTweet, pictures, nextPixmap,
                   mouseIn, planned, anim, label, slow>>

Enter ==
    /\ ~mouseIn /\ mouseIn' = TRUE
    /\ anim' = IF anim.state = "Running" /\ anim.curve = "InBack"
               THEN [anim EXCEPT !.state = "Paused"] ELSE anim
    /\ UNCHANGED <<results, searches, updateTimer, refreshTimer, currentTweet, pictures,
                   nextPixmap, planned, label, slow>>

Leave ==
    /\ mouseIn /\ mouseIn' = FALSE /\ planned' = FALSE
    /\ \/ planned /\ DoAnimOut
       \/ /\ ~planned /\ anim.state = "Paused" /\ anim.curve = "InBack"
          /\ anim' = [anim EXCEPT !.state = "Running"]
       \/ /\ ~planned /\ ~(anim.state = "Paused" /\ anim.curve = "InBack")
          /\ UNCHANGED anim
    /\ UNCHANGED <<results, searches, updateTimer, refreshTimer, currentTweet, pictures,
                   nextPixmap, label, slow>>

TickerNext ==
    \/ UpdateFires \/ RefreshFires \/ SearchAnswered \/ AnimFinished
    \/ \E t \in Tweets : PictureDownloaded(t)
    \/ Show \/ Hide \/ Enter \/ Leave

-----------------------------------------------------------------------------
(* Properties.                                                             *)

(* The picture beside a tweet is that of its author, unless the next tweet *)
(* was chosen while the last was still on its way, which eight seconds     *)
(* usually prevent, or the picture could not be had.                       *)
PictureMatches == ~slow => label.text = label.avatar

(* The animation rests half way only under the mouse, and what was put off *)
(* because of the mouse is not put off without it.                         *)
MouseHolds == anim.state = "Paused" \/ planned => mouseIn

(* An animation that is to end in a new tweet is running or held.          *)
RefreshPending == anim.hooked => anim.state # "Stopped" /\ anim.curve = "InBack"

(* If a tweet is left after the search and the mouse does not stay, tweets *)
(* are displayed again and again.                                          *)
TickerGoesOn ==
    []<>mouseIn \/ []<>(results = {}) \/ []<><<FinishRefresh>>_tickerVars
=============================================================================
