----------------------------- MODULE Widgets_proofs -----------------------------
(***************************************************************************)
(* Theorems about the displays, the user stream, the calls for tokens and  *)
(* the lookups of servers, for any numbers of painters, tweets, messages,  *)
(* calls and questions.                                                    *)
(***************************************************************************)
EXTENDS Widgets, FiniteSetTheorems, TLAPS

-----------------------------------------------------------------------------
(* The spectrum display.                                                   *)

\* The future stands for the only run of paintFunction(); before the first chunk there is
\* none, and the display is on.
OnlyRun ==
    /\ \A p \in Painters : painters[p] # "none" => painterResult = p
    /\ ~hasData => painting /\ gui \in {"idle", "resizing"} /\ painterResult = NoPainter
    /\ ~painting /\ gui \in {"idle", "resizing"} => blank /\ painterResult = NoPainter
    /\ gui = "gone" => painterResult = NoPainter

SpectrumInv == SpectrumTypeOK /\ DisplayServed /\ (~early => OnlyRun)

LEMMA SpectrumBegins ==
    ASSUME SpectrumInit
    PROVE  SpectrumInv
<1>1. SpectrumTypeOK
    BY DEF SpectrumInit, SpectrumTypeOK
<1>2. DisplayServed /\ OnlyRun
    BY DEF SpectrumInit, DisplayServed, OnlyRun, Painters
<1> QED  BY <1>1, <1>2 DEF SpectrumInv

LEMMA SpectrumTypes ==
    ASSUME SpectrumTypeOK, SpectrumNext
    PROVE  SpectrumTypeOK'
<1> USE DEF SpectrumTypeOK
<1>1. CASE NewData
    BY <1>1 DEF NewData, RunPainter
<1>2. CASE Clicked
    BY <1>2 DEF Clicked, RunPainter
<1>3. CASE Stopped \/ Resizes \/ Resized \/ Destroyed \/ ImagesDeleted
    BY <1>3 DEF Stopped, Resizes, Resized, Destroyed, ImagesDeleted
<1>4. ASSUME NEW p \in Painters, PainterStarts(p) \/ Test(p) PROVE SpectrumTypeOK'
    BY <1>4 DEF PainterStarts, Test, At, Ended
<1>5. ASSUME NEW p \in Painters, Lock(p) PROVE SpectrumTypeOK'
  <2>1. left' \in Nat
      BY <1>5, SpectrumAssumption DEF Lock
  <2> QED  BY <1>5, <2>1 DEF Lock, At
<1>6. ASSUME NEW p \in Painters, Draw(p) PROVE SpectrumTypeOK'
  <2>1. left' \in Nat
      BY <1>6 DEF Draw
  <2> QED  BY <1>6, <2>1 DEF Draw, At
<1> QED  BY <1>1, <1>2, <1>3, <1>4, <1>5, <1>6 DEF SpectrumNext, Paints

LEMMA SpectrumStep ==
    ASSUME SpectrumInv, SpectrumNext
    PROVE  SpectrumInv'
<1> USE DEF SpectrumInv
<1>1. SpectrumTypeOK' /\ SpectrumTypeOK
    BY SpectrumTypes
<1>2. NoPainter \notin Painters
    BY DEF NoPainter, Painters
<1> DEFINE Goal == DisplayServed' /\ (~early' => OnlyRun')
<1>3. CASE NewData
  <2>1. CASE hasData
    <3>1. hasData' = TRUE /\ UNCHANGED <<painters, painterResult, painting, gui, blank, early>>
        BY <1>3, <2>1 DEF NewData
    <3> QED  BY <1>1, <2>1, <3>1 DEF DisplayServed, Alive, OnlyRun
  <2>2. CASE ~hasData
    <3>1. PICK p \in Painters : painters' = [painters EXCEPT ![p] = "queued"] /\ painterResult' = p
        BY <1>3, <2>2 DEF NewData, RunPainter
    <3>2. DisplayServed'
        BY <1>1, <3>1 DEF SpectrumTypeOK, DisplayServed, Alive
    <3>3. ASSUME ~early PROVE OnlyRun'
        BY <1>1, <1>2, <1>3, <2>2, <3>1, <3>3 DEF SpectrumTypeOK, OnlyRun, NewData
    <3>4. early' = early
        BY <1>3 DEF NewData
    <3> QED  BY <1>1, <3>2, <3>3, <3>4
  <2> QED  BY <2>1, <2>2
<1>4. CASE Clicked
  <2>1. CASE painting
      BY <1>1, <1>4, <2>1 DEF Clicked, DisplayServed, Alive, OnlyRun, SpectrumTypeOK
  <2>2. CASE ~painting
    <3>1. PICK p \in Painters : painters' = [painters EXCEPT ![p] = "queued"] /\ painterResult' = p
        BY <1>4, <2>2 DEF Clicked, RunPainter
    <3>2. DisplayServed'
        BY <1>1, <3>1 DEF SpectrumTypeOK, DisplayServed, Alive
    <3>3. ASSUME ~early PROVE OnlyRun'
        BY <1>1, <1>2, <1>4, <2>2, <3>1, <3>3 DEF SpectrumTypeOK, OnlyRun, Clicked
    <3>4. early' = early
        BY <1>1, <1>4, <2>2 DEF Clicked, SpectrumTypeOK
    <3> QED  BY <1>1, <3>2, <3>3, <3>4
  <2> QED  BY <2>1, <2>2
<1>5. CASE Stopped \/ Resizes \/ Resized \/ Destroyed \/ ImagesDeleted
    BY <1>1, <1>5 DEF Stopped, Resizes, Resized, Destroyed, ImagesDeleted, DisplayServed, Alive, OnlyRun,
       SpectrumTypeOK
<1>6. ASSUME NEW p \in Painters, NEW place \in {"test", "lock", "frame"}, painters[p] # "none",
             At(p, place), UNCHANGED <<painting, hasData, blank, gui, early>>
      PROVE  Goal
    BY <1>1, <1>6 DEF At, DisplayServed, Alive, OnlyRun, SpectrumTypeOK
<1>7. ASSUME NEW p \in Painters, Test(p), ~painting PROVE Goal
  <2>1. DisplayServed'
      BY <1>7 DEF Test, DisplayServed
  <2>2. ASSUME ~early PROVE OnlyRun'
      BY <1>1, <1>2, <1>7, <2>2 DEF Test, Ended, At, OnlyRun, SpectrumTypeOK
  <2> QED  BY <1>7, <2>1, <2>2 DEF Test
<1>8. ASSUME NEW p \in Painters, Draw(p), left > 0 PROVE Goal
  <2>1. UNCHANGED <<painters, painterResult, painting, hasData, gui, early>> /\ painters[p] = "frame"
      BY <1>1, <1>8 DEF Draw, SpectrumTypeOK
  <2> QED  BY <1>1, <1>2, <2>1 DEF DisplayServed, Alive, OnlyRun
<1>9. ASSUME NEW p \in Painters, Paints(p) PROVE Goal
  <2>1. CASE PainterStarts(p) \/ Lock(p)
      BY <1>6, <2>1 DEF PainterStarts, Lock
  <2>2. CASE Test(p)
      BY <1>6, <1>7, <2>2 DEF Test
  <2>3. CASE Draw(p)
      BY <1>6, <1>8, <2>3 DEF Draw
  <2> QED  BY <1>9, <2>1, <2>2, <2>3 DEF Paints
<1> QED  BY <1>1, <1>3, <1>4, <1>5, <1>9 DEF SpectrumNext

LEMMA SpectrumHolds ==
    ASSUME SpectrumInv
    PROVE  SpectrumTypeOK /\ OnePainter /\ OffIsBlank /\ DisplayServed
<1>1. ~early => Alive \subseteq {painterResult}
    BY DEF SpectrumInv, OnlyRun, Alive
<1>2. OnePainter
  <2>1. IsFiniteSet({painterResult}) /\ Cardinality({painterResult}) = 1
      BY FS_Singleton
  <2>2. ~early => Cardinality(Alive) <= 1
      BY <1>1, <2>1, FS_Subset
  <2> QED  BY <2>2 DEF OnePainter
<1>3. OffIsBlank
  <2>1. NoPainter \notin Painters
      BY DEF NoPainter, Painters
  <2> QED  BY <2>1 DEF SpectrumInv, OnlyRun, Alive, OffIsBlank
<1> QED  BY <1>2, <1>3 DEF SpectrumInv

-----------------------------------------------------------------------------
(* The tweets.                                                             *)

\* One picture at most is awaited, that of the current tweet, and not while another one is
\* to be displayed; the picture that is to be displayed is that of the current tweet.
OneAtATime ==
    /\ \A t \in Tweets : pictures[t] > 0 =>
         t = currentTweet /\ pictures[t] = 1 /\ ~planned /\ ~anim.hooked
    /\ planned \/ anim.hooked => nextPixmap = currentTweet

TickerInv ==
    /\ TickerTypeOK /\ MouseHolds /\ RefreshPending
    /\ anim.state = "Paused" => anim.curve = "InBack"
    /\ ~slow => OneAtATime /\ label.text = label.avatar

LEMMA TickerBegins ==
    ASSUME TickerInit
    PROVE  TickerInv
<1>1. MaxSearches \in Nat /\ MaxPictures \in Nat
    BY TickerAssumption
<1>2. 0 \in 0 .. MaxSearches /\ 0 \in 0 .. MaxPictures
    BY <1>1
<1>3. TickerTypeOK
    BY <1>2 DEF TickerInit, TickerTypeOK
<1>4. OneAtATime
    BY DEF TickerInit, OneAtATime
<1> QED  BY <1>3, <1>4 DEF TickerInit, TickerInv, MouseHolds, RefreshPending

LEMMA ChosenStep ==
    ASSUME TickerInv, NEW page \in SUBSET Tweets, StartRefresh(page),
           UNCHANGED <<nextPixmap, planned, anim, label, mouseIn>>
    PROVE  /\ currentTweet' \in Tweets \cup {NoTweet} /\ pictures' \in [Tweets -> 0 .. MaxPictures]
           /\ slow' \in BOOLEAN /\ (~slow' => ~slow /\ OneAtATime')
<1>1. CASE page = {}
    BY <1>1 DEF StartRefresh, TickerInv, TickerTypeOK, OneAtATime
<1>2. CASE page # {}
  <2>1. PICK t \in page :
          /\ pictures[t] < MaxPictures
          /\ currentTweet' = t /\ pictures' = [pictures EXCEPT ![t] = @ + 1]
          /\ slow' = (slow \/ UnderWay \/ planned \/ anim.hooked)
      BY <1>2 DEF StartRefresh
  <2>2. t \in Tweets /\ pictures \in [Tweets -> 0 .. MaxPictures] /\ MaxPictures \in Nat
      BY TickerAssumption DEF TickerInv, TickerTypeOK
  <2>3. pictures[t] + 1 \in 0 .. MaxPictures
      BY <2>1, <2>2
  <2>4. pictures' \in [Tweets -> 0 .. MaxPictures]
      BY <2>1, <2>2, <2>3
  <2>5. slow' \in BOOLEAN
      BY <2>1 DEF TickerInv, TickerTypeOK
  <2>6. ASSUME ~slow' PROVE ~slow /\ OneAtATime'
    <3>1. ~slow /\ ~UnderWay /\ ~planned /\ ~anim.hooked
        BY <2>1, <2>6
    <3>2. \A u \in Tweets : pictures[u] = 0
        BY <2>2, <3>1 DEF UnderWay
    <3>3. \A u \in Tweets : pictures'[u] > 0 => u = t /\ pictures'[u] = 1
        BY <2>1, <2>2, <3>2
    <3>4. ~planned' /\ ~anim'.hooked
        BY <3>1
    <3> QED  BY <2>1, <3>1, <3>3, <3>4 DEF OneAtATime
  <2> QED  BY <2>1, <2>2, <2>4, <2>5, <2>6
<1> QED  BY <1>1, <1>2

LEMMA PictureStep ==
    ASSUME TickerInv, NEW t \in Tweets, NEW pixmap \in Tweets \cup {NoTweet}, PictureArrives(t, pixmap),
           slow' \in BOOLEAN, ~slow' => ~slow /\ pixmap = t
    PROVE  TickerInv'
<1>1. /\ pictures \in [Tweets -> 0 .. MaxPictures] /\ MaxPictures \in Nat
      /\ pictures[t] > 0 /\ pictures' = [pictures EXCEPT ![t] = @ - 1]
    BY TickerAssumption DEF TickerInv, TickerTypeOK, PictureArrives
<1>2. pictures[t] - 1 \in 0 .. MaxPictures
    BY <1>1
<1>3. pictures' \in [Tweets -> 0 .. MaxPictures]
    BY <1>1, <1>2
<1>4. /\ anim' \in [state : {"Stopped", "Running", "Paused"},
                    curve : {"Linear", "InBack", "OutBack"}, hooked : BOOLEAN]
      /\ planned' \in BOOLEAN /\ (planned' => mouseIn') /\ (anim'.state = "Paused" => mouseIn')
      /\ (anim'.state = "Paused" => anim'.curve = "InBack")
      /\ (anim'.hooked => anim'.state # "Stopped" /\ anim'.curve = "InBack")
  <2>1. CASE mouseIn /\ label.text # NoTweet
    <3>1. anim' = anim /\ planned' = TRUE /\ mouseIn' = TRUE
        BY <2>1 DEF PictureArrives, TickerInv, TickerTypeOK
    <3> QED  BY <3>1 DEF TickerInv, TickerTypeOK, RefreshPending
  <2>2. CASE ~(mouseIn /\ label.text # NoTweet)
    <3>1. anim' = [state |-> "Running", curve |-> "InBack", hooked |-> TRUE]
          /\ UNCHANGED <<planned, mouseIn>>
        BY <2>2 DEF PictureArrives, DoAnimOut
    <3> QED  BY <3>1 DEF TickerInv, TickerTypeOK, MouseHolds
  <2> QED  BY <2>1, <2>2
<1>5. /\ nextPixmap' = pixmap
      /\ UNCHANGED <<results, searches, updateTimer, refreshTimer, currentTweet, mouseIn, label>>
    BY DEF PictureArrives
<1>6. ASSUME ~slow' PROVE OneAtATime' /\ label'.text = label'.avatar
  <2>1. /\ OneAtATime /\ label.text = label.avatar /\ pixmap = t
        /\ t = currentTweet /\ pictures[t] = 1
      BY <1>1, <1>6 DEF TickerInv, OneAtATime
  <2>2. \A u \in Tweets : ~(pictures'[u] > 0)
      BY <1>1, <2>1 DEF OneAtATime
  <2> QED  BY <1>5, <2>1, <2>2 DEF OneAtATime
<1>7. TickerTypeOK'
    BY <1>3, <1>4, <1>5 DEF TickerInv, TickerTypeOK
<1> QED  BY <1>4, <1>6, <1>7 DEF TickerInv, MouseHolds, RefreshPending

\* Where nothing is chosen and no picture comes, the tweet that is to be displayed stays.
LEMMA TickerStep ==
    ASSUME TickerInv, TickerNext
    PROVE  TickerInv'
<1> DEFINE Anims == [state : {"Stopped", "Running", "Paused"},
                     curve : {"Linear", "InBack", "OutBack"}, hooked : BOOLEAN]
<1>1. /\ TickerTypeOK /\ anim \in Anims /\ MaxSearches \in Nat /\ searches \in 0 .. MaxSearches
    BY TickerAssumption DEF TickerInv, TickerTypeOK
<1>2. CASE UpdateFires \/ Show \/ Hide
  <2>1. searches' \in 0 .. MaxSearches
      BY <1>1, <1>2 DEF UpdateFires, Show, Hide, StartUpdate
  <2>2. /\ updateTimer' \in BOOLEAN
        /\ UNCHANGED <<results, refreshTimer, currentTweet, pictures, nextPixmap, mouseIn, planned,
                       anim, label, slow>>
      BY <1>1, <1>2 DEF UpdateFires, Show, Hide, TickerTypeOK
  <2> QED  BY <2>1, <2>2 DEF TickerInv, TickerTypeOK, MouseHolds, RefreshPending, OneAtATime
<1>3. ASSUME NEW page \in SUBSET Tweets, StartRefresh(page), searches' \in 0 .. MaxSearches,
             results' \subseteq Tweets, refreshTimer' \in BOOLEAN,
             UNCHANGED <<updateTimer, nextPixmap, planned, anim, label, mouseIn>>
      PROVE  TickerInv'
    BY <1>3, ChosenStep DEF TickerInv, TickerTypeOK, MouseHolds, RefreshPending
<1>4. CASE RefreshFires
    BY <1>1, <1>3, <1>4 DEF RefreshFires, TickerTypeOK
<1>5. CASE SearchAnswered
  <2>1. /\ searches' \in 0 .. MaxSearches
        /\ UNCHANGED <<updateTimer, nextPixmap, mouseIn, planned, anim, label>>
      BY <1>1, <1>5 DEF SearchAnswered
  <2>2. CASE UNCHANGED <<results, refreshTimer, currentTweet, pictures, slow>>
      BY <2>1, <2>2 DEF TickerInv, TickerTypeOK, MouseHolds, RefreshPending, OneAtATime
  <2>3. CASE \E page \in SUBSET Tweets : page # {} /\ SearchFinished(page)
    <3>1. PICK page \in SUBSET Tweets : page # {} /\ SearchFinished(page)
        BY <2>3
    <3>2. results' \subseteq Tweets /\ refreshTimer' = TRUE
        BY <3>1 DEF SearchFinished
    <3>3. CASE refreshTimer
      <4>1. UNCHANGED <<currentTweet, pictures, slow>>
          BY <3>1, <3>3 DEF SearchFinished
      <4> QED  BY <2>1, <3>2, <4>1 DEF TickerInv, TickerTypeOK, MouseHolds, RefreshPending, OneAtATime
    <3>4. CASE ~refreshTimer
      <4>1. PICK left1 \in SUBSET Tweets : left1 = results' /\ StartRefresh(left1)
          BY <3>1, <3>2, <3>4 DEF SearchFinished
      <4> QED  BY <1>3, <2>1, <3>2, <4>1
    <3> QED  BY <3>3, <3>4
  <2> QED  BY <1>5, <2>2, <2>3 DEF SearchAnswered, SearchFinished
<1>6. CASE AnimFinished
  <2>1. UNCHANGED <<results, searches, updateTimer, currentTweet, pictures, nextPixmap, mouseIn,
                    planned, slow>>
      BY <1>6 DEF AnimFinished
  <2>2. CASE anim.hooked
    <3>1. /\ anim' = [state |-> "Running", curve |-> "OutBack", hooked |-> FALSE]
          /\ refreshTimer' = TRUE /\ label'.text = currentTweet /\ label'.avatar = nextPixmap
        BY <1>6, <2>2 DEF AnimFinished, FinishRefresh
    <3>2. TickerTypeOK'
        BY <1>1, <2>1, <3>1 DEF TickerTypeOK
    <3> QED  BY <2>1, <2>2, <3>1, <3>2 DEF TickerInv, MouseHolds, RefreshPending, OneAtATime
  <2>3. CASE ~anim.hooked
    <3>1. anim' = [anim EXCEPT !.state = "Stopped"] /\ UNCHANGED <<label, refreshTimer>>
        BY <1>6, <2>3 DEF AnimFinished
    <3>2. anim' \in Anims /\ anim'.hooked = anim.hooked /\ anim'.state = "Stopped"
        BY <1>1, <3>1
    <3> QED  BY <2>1, <2>3, <3>1, <3>2 DEF TickerInv, TickerTypeOK, MouseHolds, RefreshPending, OneAtATime
  <2> QED  BY <2>2, <2>3
<1>7. ASSUME NEW t \in Tweets, PictureDownloaded(t) PROVE TickerInv'
  <2>1. CASE PictureArrives(t, t) /\ UNCHANGED slow
      BY <1>1, <2>1, PictureStep DEF TickerTypeOK
  <2>2. CASE PictureArrives(t, nextPixmap) /\ slow' = TRUE
      BY <1>1, <2>2, PictureStep DEF TickerTypeOK
  <2> QED  BY <1>7, <2>1, <2>2 DEF PictureDownloaded
<1>8. CASE Enter
  <2>1. /\ anim' \in Anims /\ anim'.hooked = anim.hooked /\ anim'.curve = anim.curve
        /\ anim'.state \in {anim.state, "Paused"} /\ (anim'.state = "Paused" => anim'.curve = "InBack")
      BY <1>1, <1>8 DEF Enter, TickerInv
  <2> QED  BY <1>8, <2>1 DEF Enter, TickerInv, TickerTypeOK, MouseHolds, RefreshPending, OneAtATime
<1>9. CASE Leave
  <2>1. /\ anim' \in Anims /\ anim'.state # "Paused"
        /\ (anim'.hooked => anim'.state # "Stopped" /\ anim'.curve = "InBack")
        /\ (anim'.hooked => anim.hooked \/ planned)
    <3>1. CASE planned
      <4>1. anim' = [state |-> "Running", curve |-> "InBack", hooked |-> TRUE]
          BY <1>9, <3>1 DEF Leave, DoAnimOut
      <4> QED  BY <3>1, <4>1
    <3>2. CASE ~planned /\ anim' = [anim EXCEPT !.state = "Running"]
      <4>1. /\ anim'.state = "Running" /\ anim'.hooked = anim.hooked /\ anim'.curve = anim.curve
            /\ anim' \in Anims
          BY <1>1, <3>2
      <4> QED  BY <4>1 DEF TickerInv, RefreshPending
    <3>3. CASE ~planned /\ anim' = anim /\ ~(anim.state = "Paused" /\ anim.curve = "InBack")
        BY <1>1, <3>3 DEF TickerInv, RefreshPending
    <3> QED  BY <1>9, <3>1, <3>2, <3>3 DEF Leave
  <2>2. ~slow => OneAtATime'
      BY <1>9, <2>1 DEF Leave, TickerInv, OneAtATime
  <2> QED  BY <1>9, <2>1, <2>2 DEF Leave, TickerInv, TickerTypeOK, MouseHolds, RefreshPending
<1> QED  BY <1>2, <1>4, <1>5, <1>6, <1>7, <1>8, <1>9 DEF TickerNext

-----------------------------------------------------------------------------
(* The user stream.                                                        *)

StreamInv ==
    /\ backoff \in [active : BOOLEAN, interval : Nat] /\ stopped \in BOOLEAN /\ rash \in BOOLEAN
    /\ timeoutTimer /\ reply = "none" => stopped
    /\ SomethingToAbort /\ NoPlanWhileOpen
    /\ reply \in {"none", "open"}

LEMMA StreamBegins ==
    ASSUME StreamInit
    PROVE  StreamInv
    BY DEF StreamInit, StreamInv, SomethingToAbort, NoPlanWhileOpen

LEMMA StreamStep ==
    ASSUME StreamInv, StreamNext
    PROVE  StreamInv'
<1> DEFINE Backoffs == [active : BOOLEAN, interval : Nat]
<1> USE DEF StreamInv, SomethingToAbort, NoPlanWhileOpen
<1>1. /\ backoff \in Backoffs /\ Longer(backoff.interval) \in Nat
    BY DEF Longer
<1>2. BackOff => backoff' \in Backoffs
    BY <1>1 DEF BackOff
<1>3. ASSUME NEW error \in BOOLEAN, reply = "open", ReplyFinished(error), UNCHANGED <<stopped, rash, crashed>>
      PROVE  StreamInv'
    BY <1>2, <1>3 DEF ReplyFinished, Ends, Opens
<1>4. CASE StartStream
  <2>1. /\ reply' = "open" /\ stopped' = FALSE /\ ~crashed /\ crashed' = crashed
        /\ backoff' \in Backoffs /\ rash' = (rash \/ reply = "open" \/ backoff.active)
        /\ reply # "open" => backoff' = backoff
      BY <1>1, <1>2, <1>4 DEF StartStream, StartFetching, Opens
  <2> QED  BY <2>1
<1>5. CASE BackoffFires
  <2>1. [backoff EXCEPT !.active = FALSE] \in Backoffs /\ [backoff EXCEPT !.active = FALSE].active = FALSE
      BY <1>1
  <2>2. /\ reply' = "open" /\ UNCHANGED <<stopped, rash, crashed>> /\ backoff.active
        /\ backoff' \in Backoffs
        /\ reply # "open" => backoff'.active = FALSE
      BY <1>2, <1>5, <2>1 DEF BackoffFires, StartFetching, Opens
  <2> QED  BY <2>2
<1>6. CASE StreamDisconnect
    BY <1>6 DEF StreamDisconnect, Ends, Connection
<1>7. CASE ConnectionEnds
    BY <1>3, <1>7 DEF ConnectionEnds
<1>8. CASE ConnectionDies \/ TwitterSends
    BY <1>8 DEF ConnectionDies, TwitterSends
<1>9. CASE TimeoutFires
    BY <1>3, <1>9 DEF TimeoutFires, Connection
<1>10. CASE ReplyReadyRead
  <2>1. /\ reply = "open" /\ reply' = "open" /\ UNCHANGED <<crashed, rash, stopped>>
        /\ backoff' = [backoff EXCEPT !.interval = 20]
      BY <1>10 DEF ReplyReadyRead
  <2>2. backoff' \in Backoffs /\ backoff'.active = backoff.active
      BY <1>1, <2>1
  <2> QED  BY <2>1, <2>2
<1> QED  BY <1>4, <1>5, <1>6, <1>7, <1>8, <1>9, <1>10 DEF StreamNext

-----------------------------------------------------------------------------
(* The calls for tokens.                                                   *)

\* An answer that came in time has either not outlived the timer of its call, or another
\* call was made from within; all calls but the innermost one are covered.
CallInv(call) == call.inTime => call.answer # "none" /\ (call.timer \/ call.covered)

AuthorizationInv ==
    /\ calls \in Seq([name : Names, with : {"none", "request", "access"}, covered : BOOLEAN,
                      answer : {"none", "good", "error"}, timer : BOOLEAN, inTime : BOOLEAN])
    /\ tokens \in {"none", "request", "access"}
    /\ \A i \in 1 .. Len(calls) : CallInv(calls[i]) /\ (i < Len(calls) => calls[i].covered)

LEMMA AuthorizationBegins ==
    ASSUME AuthorizationInit
    PROVE  AuthorizationInv
    BY DEF AuthorizationInit, AuthorizationInv

LEMMA AuthorizationStep ==
    ASSUME AuthorizationInv, AuthorizationNext
    PROVE  AuthorizationInv'
<1> DEFINE CallSet == [name : Names, with : {"none", "request", "access"}, covered : BOOLEAN,
                       answer : {"none", "good", "error"}, timer : BOOLEAN, inTime : BOOLEAN]
<1>1. /\ calls \in Seq(CallSet) /\ Len(calls) \in Nat /\ DOMAIN calls = 1 .. Len(calls)
      /\ \A i \in 1 .. Len(calls) : calls[i] \in CallSet
  <2>1. calls \in Seq(CallSet)
      BY DEF AuthorizationInv
  <2> HIDE DEF CallSet
  <2> QED  BY <2>1
<1>2. CASE AuthorizeXAuth \/ FinishedAuthorization
  <2>1. calls' = calls /\ tokens' \in {"none", "request", "access"}
      BY <1>2 DEF AuthorizeXAuth, FinishedAuthorization, AuthorizationInv
  <2> QED  BY <2>1 DEF AuthorizationInv
<1>3. ASSUME NEW name \in Names, Calls(name) PROVE AuthorizationInv'
  <2> DEFINE call == [name |-> name, with |-> tokens, covered |-> FALSE,
                      answer |-> "none", timer |-> TRUE, inTime |-> FALSE]
             outer == [i \in 1 .. Len(calls) |-> [calls[i] EXCEPT !.covered = TRUE]]
  <2>1. calls' = outer \o <<call>> /\ tokens' = tokens
      BY <1>1, <1>3 DEF Calls
  <2>2. call \in CallSet /\ CallInv(call)
      BY DEF CallInv, AuthorizationInv
  <2>3. \A i \in 1 .. Len(calls) : outer[i] \in CallSet /\ CallInv(outer[i]) /\ outer[i].covered
    <3>1. TAKE i \in 1 .. Len(calls)
    <3>2. outer[i] = [calls[i] EXCEPT !.covered = TRUE] /\ calls[i] \in CallSet /\ CallInv(calls[i])
        BY <1>1 DEF AuthorizationInv
    <3> HIDE DEF outer
    <3> QED  BY <3>2 DEF CallInv
  <2>4. outer \in Seq(CallSet) /\ Len(outer) = Len(calls)
      BY <1>1, <2>3
  <2> HIDE DEF outer, call
  <2>5. calls' = Append(outer, call)
      BY <2>1, <2>2, <2>4
  <2>6. /\ calls' \in Seq(CallSet) /\ Len(calls') = Len(calls) + 1
        /\ calls'[Len(calls) + 1] = call
        /\ \A i \in 1 .. Len(calls) : calls'[i] = outer[i]
      BY <1>1, <2>2, <2>4, <2>5
  <2>7. \A i \in 1 .. Len(calls') : i \in 1 .. Len(calls) \/ i = Len(calls')
      BY <1>1, <2>6
  <2>8. \A i \in 1 .. Len(calls') : CallInv(calls'[i]) /\ (i < Len(calls') => calls'[i].covered)
      BY <1>1, <2>2, <2>3, <2>6, <2>7
  <2> QED  BY <2>1, <2>6, <2>8 DEF AuthorizationInv
<1>4. ASSUME NEW i \in 1 .. Len(calls), NEW next \in CallSet, CallInv(next),
             next.covered = calls[i].covered, calls' = [calls EXCEPT ![i] = next], tokens' = tokens
      PROVE  AuthorizationInv'
  <2>1. calls' \in Seq(CallSet) /\ Len(calls') = Len(calls)
      BY <1>1, <1>4
  <2>2. \A j \in 1 .. Len(calls) : calls'[j] = IF j = i THEN next ELSE calls[j]
      BY <1>1, <1>4
  <2>3. \A j \in 1 .. Len(calls') : CallInv(calls'[j]) /\ (j < Len(calls') => calls'[j].covered)
      BY <1>4, <2>1, <2>2 DEF AuthorizationInv
  <2> QED  BY <1>4, <2>1, <2>3 DEF AuthorizationInv
<1>5. CASE Answered
  <2>1. PICK i \in 1 .. Len(calls), a \in {"good", "error"} :
          calls' = [calls EXCEPT ![i].answer = a, ![i].inTime = calls[i].timer]
      BY <1>1, <1>5 DEF Answered
  <2> DEFINE half == [calls[i] EXCEPT !.answer = a]
             next == [half EXCEPT !.inTime = calls[i].timer]
  <2>2. calls[i] \in CallSet
      BY <1>1
  <2>3. /\ half \in CallSet /\ half.answer = a /\ half.timer = calls[i].timer
        /\ half.covered = calls[i].covered
      BY <2>2
  <2>4. calls' = [calls EXCEPT ![i] = next]
      BY <1>1, <2>1
  <2> HIDE DEF half
  <2>5. /\ next \in CallSet /\ next.answer = a /\ next.timer = calls[i].timer
        /\ next.covered = calls[i].covered /\ next.inTime = calls[i].timer
      BY <2>2, <2>3
  <2> HIDE DEF next
  <2>6. CallInv(next)
      BY <2>5 DEF CallInv
  <2>7. tokens' = tokens
      BY <1>5 DEF Answered
  <2> QED  BY <1>4, <2>4, <2>5, <2>6, <2>7
<1>6. CASE TimerFires
  <2>1. PICK i \in 1 .. Len(calls) :
          /\ i = Len(calls) => calls[i].answer = "none"
          /\ calls' = [calls EXCEPT ![i].timer = FALSE]
      BY <1>1, <1>6 DEF TimerFires
  <2> DEFINE next == [calls[i] EXCEPT !.timer = FALSE]
  <2>2. calls[i] \in CallSet /\ CallInv(calls[i]) /\ (i < Len(calls) => calls[i].covered)
      BY <1>1 DEF AuthorizationInv
  <2>3. calls' = [calls EXCEPT ![i] = next]
      BY <1>1, <2>1
  <2>4. /\ next \in CallSet /\ next.answer = calls[i].answer /\ next.timer = FALSE
        /\ next.covered = calls[i].covered /\ next.inTime = calls[i].inTime
      BY <2>2
  <2> HIDE DEF next
  <2>5. i = Len(calls) \/ i < Len(calls)
    <3>1. Len(calls) \in Nat
        BY <1>1
    <3> HIDE DEF CallSet
    <3> QED  BY <3>1
  <2>6. CallInv(next)
      BY <2>1, <2>2, <2>4, <2>5 DEF CallInv
  <2>7. tokens' = tokens
      BY <1>6 DEF TimerFires
  <2> QED  BY <1>4, <2>3, <2>4, <2>6, <2>7
<1>7. CASE Returns
  <2>1. /\ calls # << >> /\ calls' = SubSeq(calls, 1, Len(calls) - 1)
        /\ tokens' \in {"none", "request", "access"}
      BY <1>7 DEF Returns, Front, ParseTokens, AuthorizationInv
  <2>2. Len(calls) - 1 \in Nat /\ Len(calls) - 1 <= Len(calls)
      BY <1>1, <2>1
  <2>3. /\ calls' \in Seq(CallSet) /\ Len(calls') = Len(calls) - 1
        /\ \A i \in 1 .. Len(calls) - 1 : calls'[i] = calls[i]
      BY <1>1, <2>1, <2>2
  <2>4. \A i \in 1 .. Len(calls') : CallInv(calls'[i]) /\ (i < Len(calls') => calls'[i].covered)
      BY <1>1, <2>2, <2>3 DEF AuthorizationInv
  <2> QED  BY <2>1, <2>3, <2>4 DEF AuthorizationInv
<1> QED  BY <1>2, <1>3, <1>5, <1>6, <1>7 DEF AuthorizationNext, AuthorizePin, RequestAccessToken, Names

-----------------------------------------------------------------------------
(* The lookups.                                                            *)

Elements0(s) == {s[i] : i \in 1 .. Len(s)}

LEMMA SeqOfMore ==
    ASSUME NEW S, NEW T, S \subseteq T, NEW s \in Seq(S)
    PROVE  s \in Seq(T)
<1>1. Len(s) \in Nat /\ s = [i \in 1 .. Len(s) |-> s[i]] /\ \A i \in 1 .. Len(s) : s[i] \in T
    OBVIOUS
<1>2. [i \in 1 .. Len(s) |-> s[i]] \in Seq(T)
    BY <1>1
<1> QED  BY <1>1, <1>2

\* An answer in delivered stands for the thread that waits until it is taken, and there is
\* one of each; the lookup's last question keeps its object until then.
LookupInv ==
    /\ DOMAIN lookup = {"alive", "name", "isFinished", "runnable", "reply"}
    /\ lookup.alive \in BOOLEAN /\ lookup.isFinished \in BOOLEAN
    /\ ~lookup.alive => lookup.runnable = Nobody /\ app # "running"
    /\ DOMAIN runnables = Addresses
    /\ \A a \in Addresses : DOMAIN runnables[a] = {"phase", "name", "reply"}
    /\ delivered \in Seq(Elements0(delivered))
    /\ \A i \in 1 .. Len(delivered) :
         /\ delivered[i].from \in Addresses
         /\ runnables[delivered[i].from].phase = "blocked"
         /\ runnables[delivered[i].from].name = delivered[i].reply.name
         /\ \A j \in 1 .. Len(delivered) : delivered[j].from = delivered[i].from => j = i
    /\ lookup.runnable # Nobody =>
         /\ lookup.runnable \in Addresses /\ runnables[lookup.runnable].phase # "idle"
         /\ runnables[lookup.runnable].name = lookup.name
    /\ AnswerOfLast

LEMMA LookupBegins ==
    ASSUME LookupInit
    PROVE  LookupInv
<1>1. /\ DOMAIN lookup = {"alive", "name", "isFinished", "runnable", "reply"}
      /\ lookup.alive \in BOOLEAN /\ lookup.alive /\ lookup.isFinished \in BOOLEAN
      /\ ~lookup.isFinished
      /\ lookup.runnable = Nobody
      /\ runnables = [a \in Addresses |-> Idle] /\ delivered = << >>
    BY DEF LookupInit
<1>2. DOMAIN Idle = {"phase", "name", "reply"}
    BY DEF Idle
<1>3. delivered \in Seq(Elements0(delivered)) /\ Len(delivered) = 0
    BY <1>1
<1> HIDE DEF Idle
<1>4. \A i \in 1 .. Len(delivered) : FALSE
    BY <1>3
<1> QED  BY <1>1, <1>2, <1>3, <1>4 DEF LookupInv, AnswerOfLast

\* What answers a question has a name, and the lookup takes it as it is.
LEMMA AnswersHaveNames ==
    ASSUME NEW a, NEW answer \in Answers(a)
    PROVE  "name" \in DOMAIN answer
<1>1. \A error : DOMAIN FailedReply(error) = {"error", "records", "name"}
    BY DEF FailedReply
<1>2. "name" \in DOMAIN Resolved(response)
  <2>1. CASE response.rcode # "NOERROR"
    <3>1. Resolved(response) = FailedReply(ErrorOfCode(response.rcode))
        BY <2>1 DEF Resolved
    <3> QED  BY <1>1, <3>1
  <2>2. CASE response.rcode = "NOERROR" /\ ~response.whole
    <3>1. Resolved(response) = FailedReply("InvalidReplyError")
        BY <2>2 DEF Resolved
    <3> QED  BY <1>1, <3>1
  <2>3. CASE response.rcode = "NOERROR" /\ response.whole
    <3>1. PICK error, records : Resolved(response) = [error |-> error, records |-> records, name |-> Nobody]
        BY <2>3 DEF Resolved
    <3> QED  BY <3>1
  <2> QED  BY <2>1, <2>2, <2>3
<1> QED  BY <1>1, <1>2 DEF Answers

\* The object at an address changes, while nothing in delivered is from it.
LEMMA RunnableChanges ==
    ASSUME LookupInv, NEW a \in Addresses, NEW r, DOMAIN r = {"phase", "name", "reply"},
           runnables' = [runnables EXCEPT ![a] = r], NEW shift \in Nat, Len(delivered) \in Nat,
           Len(delivered') \in Nat,
           \A i \in 1 .. Len(delivered') :
             /\ i + shift \in 1 .. Len(delivered) /\ delivered'[i] = delivered[i + shift]
             /\ delivered[i + shift].from # a,
           delivered' \in Seq(Elements0(delivered'))
    PROVE  /\ DOMAIN runnables' = Addresses
           /\ \A b \in Addresses : /\ DOMAIN runnables'[b] = {"phase", "name", "reply"}
                                   /\ runnables'[b] = IF b = a THEN r ELSE runnables[b]
           /\ delivered' \in Seq(Elements0(delivered'))
           /\ \A i \in 1 .. Len(delivered') :
                /\ delivered'[i].from \in Addresses
                /\ runnables'[delivered'[i].from].phase = "blocked"
                /\ runnables'[delivered'[i].from].name = delivered'[i].reply.name
                /\ \A j \in 1 .. Len(delivered') : delivered'[j].from = delivered'[i].from => j = i
<1>1. \A b \in Addresses : runnables'[b] = IF b = a THEN r ELSE runnables[b]
    BY DEF LookupInv
<1>2. \A i \in 1 .. Len(delivered) :
        /\ delivered[i].from \in Addresses
        /\ runnables[delivered[i].from].phase = "blocked"
        /\ runnables[delivered[i].from].name = delivered[i].reply.name
        /\ \A j \in 1 .. Len(delivered) : delivered[j].from = delivered[i].from => j = i
    BY DEF LookupInv
<1>3. DOMAIN runnables' = Addresses /\ \A b \in Addresses : DOMAIN runnables[b] = {"phase", "name", "reply"}
    BY DEF LookupInv
<1>4. ASSUME NEW i \in 1 .. Len(delivered')
      PROVE  /\ delivered'[i].from \in Addresses
             /\ runnables'[delivered'[i].from].phase = "blocked"
             /\ runnables'[delivered'[i].from].name = delivered'[i].reply.name
    BY <1>1, <1>2
<1>5. ASSUME NEW i \in 1 .. Len(delivered'), NEW j \in 1 .. Len(delivered'),
             delivered'[j].from = delivered'[i].from
      PROVE  j = i
  <2>1. PICK k, l \in 1 .. Len(delivered) :
          /\ k = i + shift /\ l = j + shift
          /\ delivered'[i] = delivered[k] /\ delivered'[j] = delivered[l]
      OBVIOUS
  <2>2. delivered[l].from = delivered[k].from
      BY <1>5, <2>1
  <2>3. l = k
      BY <1>2, <2>2
  <2>4. i \in Nat /\ j \in Nat
      OBVIOUS
  <2> QED  BY <2>1, <2>3, <2>4
<1>6. \A b \in Addresses : DOMAIN runnables'[b] = {"phase", "name", "reply"}
    BY <1>1, <1>3
<1> QED  BY <1>1, <1>3, <1>4, <1>5, <1>6

\* Nothing in delivered changes.
LEMMA RunnableAlone ==
    ASSUME LookupInv, NEW a \in Addresses, NEW r, DOMAIN r = {"phase", "name", "reply"},
           runnables' = [runnables EXCEPT ![a] = r], delivered' = delivered,
           \A i \in 1 .. Len(delivered) : delivered[i].from # a
    PROVE  /\ DOMAIN runnables' = Addresses
           /\ \A b \in Addresses : /\ DOMAIN runnables'[b] = {"phase", "name", "reply"}
                                   /\ runnables'[b] = IF b = a THEN r ELSE runnables[b]
           /\ delivered' \in Seq(Elements0(delivered'))
           /\ \A i \in 1 .. Len(delivered') :
                /\ delivered'[i].from \in Addresses
                /\ runnables'[delivered'[i].from].phase = "blocked"
                /\ runnables'[delivered'[i].from].name = delivered'[i].reply.name
                /\ \A j \in 1 .. Len(delivered') : delivered'[j].from = delivered'[i].from => j = i
<1>1. delivered \in Seq(Elements0(delivered))
    BY DEF LookupInv
<1>2. Len(delivered) \in Nat /\ Len(delivered') \in Nat
    BY <1>1
<1>3. \A i \in 1 .. Len(delivered') :
        /\ i + 0 \in 1 .. Len(delivered) /\ delivered'[i] = delivered[i + 0]
        /\ delivered[i + 0].from # a
    BY <1>2
<1> QED  BY <1>1, <1>2, <1>3, RunnableChanges

\* An object that is free is taken for the question.
LEMMA QuestionStep ==
    ASSUME LookupInv, NEW domain \in Domains, ConnectToHost(domain)
    PROVE  LookupInv'
<1>1. PICK a \in Addresses :
        /\ runnables[a].phase = "idle"
        /\ runnables' = [runnables EXCEPT ![a] = [Idle EXCEPT !.phase = "waiting", !.name = domain]]
        /\ lookup' = [lookup EXCEPT !.name = domain, !.isFinished = FALSE, !.runnable = a,
                                    !.reply = FailedReply("NoError")]
        /\ delivered' = delivered
    BY DEF ConnectToHost
<1> DEFINE r == [Idle EXCEPT !.phase = "waiting", !.name = domain]
<1>2. DOMAIN r = {"phase", "name", "reply"} /\ r.phase = "waiting" /\ r.name = domain
    BY DEF Idle
<1>3. runnables' = [runnables EXCEPT ![a] = r]
    BY <1>1
<1> HIDE DEF r
<1>4. /\ DOMAIN lookup' = {"alive", "name", "isFinished", "runnable", "reply"}
      /\ lookup'.name = domain /\ lookup'.isFinished \in BOOLEAN /\ ~lookup'.isFinished
      /\ lookup'.runnable = a /\ lookup'.alive = lookup.alive
  <2> DEFINE one == [lookup EXCEPT !.name = domain]
             two == [one EXCEPT !.isFinished = FALSE]
             three == [two EXCEPT !.runnable = a]
  <2>1. DOMAIN one = {"alive", "name", "isFinished", "runnable", "reply"} /\ one.name = domain
        /\ one.alive = lookup.alive
      BY DEF LookupInv
  <2> HIDE DEF one
  <2>2. DOMAIN two = {"alive", "name", "isFinished", "runnable", "reply"} /\ two.name = domain
        /\ two.isFinished \in BOOLEAN /\ ~two.isFinished /\ two.alive = lookup.alive
      BY <2>1
  <2> HIDE DEF two
  <2>3. DOMAIN three = {"alive", "name", "isFinished", "runnable", "reply"} /\ three.name = domain
        /\ three.isFinished = two.isFinished /\ three.runnable = a /\ three.alive = lookup.alive
      BY <2>2
  <2>4. lookup' = [three EXCEPT !.reply = FailedReply("NoError")]
      BY <1>1 DEF one, two
  <2> HIDE DEF three
  <2> QED  BY <2>2, <2>3, <2>4
<1>5. \A i \in 1 .. Len(delivered) : delivered[i].from # a
    BY <1>1 DEF LookupInv
<1>6. delivered \in Seq(Elements0(delivered)) /\ lookup.alive \in BOOLEAN
    BY DEF LookupInv
<1>7. app = "running" /\ app' = app /\ lookup.alive
    BY <1>6 DEF ConnectToHost, LookupInv
<1>8. /\ DOMAIN runnables' = Addresses
      /\ \A b \in Addresses : /\ DOMAIN runnables'[b] = {"phase", "name", "reply"}
                              /\ runnables'[b] = IF b = a THEN r ELSE runnables[b]
      /\ delivered' \in Seq(Elements0(delivered'))
      /\ \A i \in 1 .. Len(delivered') :
           /\ delivered'[i].from \in Addresses
           /\ runnables'[delivered'[i].from].phase = "blocked"
           /\ runnables'[delivered'[i].from].name = delivered'[i].reply.name
           /\ \A j \in 1 .. Len(delivered') : delivered'[j].from = delivered'[i].from => j = i
    BY <1>1, <1>2, <1>3, <1>5, RunnableAlone
<1>9. runnables'[a].phase # "idle" /\ runnables'[a].name = lookup'.name
    BY <1>2, <1>4, <1>8
<1> QED  BY <1>4, <1>6, <1>7, <1>8, <1>9 DEF LookupInv, AnswerOfLast

\* A thread takes up a question.
LEMMA PoolStep ==
    ASSUME LookupInv, NEW a \in Addresses, PoolStarts(a)
    PROVE  LookupInv'
<1> DEFINE r == [runnables[a] EXCEPT !.phase = "running"]
<1>1. DOMAIN r = {"phase", "name", "reply"} /\ r.phase = "running" /\ r.name = runnables[a].name
    BY DEF LookupInv
<1>2. /\ runnables' = [runnables EXCEPT ![a] = r] /\ runnables[a].phase = "waiting"
      /\ delivered' = delivered /\ lookup' = lookup /\ app' = app
    BY DEF PoolStarts, LookupInv
<1> HIDE DEF r
<1>3. \A i \in 1 .. Len(delivered) : delivered[i].from # a
    BY <1>2 DEF LookupInv
<1>4. delivered \in Seq(Elements0(delivered))
    BY DEF LookupInv
<1> QED  BY <1>1, <1>2, <1>3, <1>4, RunnableAlone DEF LookupInv, AnswerOfLast

\* A thread answers, and waits until its answer was taken.
LEMMA RunStep ==
    ASSUME LookupInv, NEW a \in Addresses, Run(a)
    PROVE  LookupInv'
<1>1. PICK answer \in Answers(a) : \E named :
        /\ named = [answer EXCEPT !.name = runnables[a].name]
        /\ IF lookup.alive
           THEN /\ delivered' = Append(delivered, [from |-> a, reply |-> named])
                /\ runnables' = [runnables EXCEPT ![a] = AfterPosting(a)]
           ELSE runnables' = [runnables EXCEPT ![a] = Idle] /\ UNCHANGED delivered
    BY DEF Run
<1>0. PICK named :
        /\ named = [answer EXCEPT !.name = runnables[a].name]
        /\ IF lookup.alive
           THEN /\ delivered' = Append(delivered, [from |-> a, reply |-> named])
                /\ runnables' = [runnables EXCEPT ![a] = AfterPosting(a)]
           ELSE runnables' = [runnables EXCEPT ![a] = Idle] /\ UNCHANGED delivered
    BY <1>1
<1>2. runnables[a].phase = "running" /\ lookup' = lookup /\ app' = app
    BY DEF Run
<1>3. named.name = runnables[a].name
    BY <1>0, AnswersHaveNames
<1>4. /\ \A i \in 1 .. Len(delivered) : delivered[i].from # a
      /\ delivered \in Seq(Elements0(delivered))
    BY <1>2 DEF LookupInv
<1>5. CASE lookup.alive
  <2> DEFINE r == [runnables[a] EXCEPT !.phase = "blocked"]
             post == [from |-> a, reply |-> named]
  <2>1. DOMAIN r = {"phase", "name", "reply"} /\ r.phase = "blocked" /\ r.name = runnables[a].name
      BY DEF LookupInv
  <2>2. runnables' = [runnables EXCEPT ![a] = r] /\ delivered' = Append(delivered, post)
      BY <1>0, <1>5 DEF AfterPosting
  <2>3. post.from = a /\ post.reply = named
      OBVIOUS
  <2> HIDE DEF r, post
  <2>4. delivered \in Seq(Elements0(delivered) \cup {post})
    <3>1. PICK S, T : S = Elements0(delivered) /\ T = S \cup {post}
        OBVIOUS
    <3>2. S \subseteq T /\ delivered \in Seq(S)
        BY <1>4, <3>1
    <3>3. delivered \in Seq(T)
        BY <3>2, SeqOfMore
    <3> QED  BY <3>1, <3>3
  <2>5. /\ delivered' \in Seq(Elements0(delivered) \cup {post})
        /\ Len(delivered') = Len(delivered) + 1 /\ Len(delivered) \in Nat
        /\ delivered'[Len(delivered) + 1] = post
        /\ \A i \in 1 .. Len(delivered) : delivered'[i] = delivered[i]
      BY <2>2, <2>4
  <2>6. delivered' \in Seq(Elements0(delivered'))
    <3>1. Elements0(delivered') = Elements0(delivered) \cup {post}
        BY <2>5 DEF Elements0
    <3> QED  BY <2>5, <3>1
  <2>7. DOMAIN runnables' = Addresses /\ \A b \in Addresses : runnables'[b] = IF b = a THEN r ELSE runnables[b]
      BY <2>2 DEF LookupInv
  <2>8. \A i \in 1 .. Len(delivered') : i \in 1 .. Len(delivered) \/ i = Len(delivered) + 1
      BY <2>5
  <2>9. \A i \in 1 .. Len(delivered') :
          /\ delivered'[i].from \in Addresses
          /\ runnables'[delivered'[i].from].phase = "blocked"
          /\ runnables'[delivered'[i].from].name = delivered'[i].reply.name
    <3>1. ASSUME NEW i \in 1 .. Len(delivered)
          PROVE  /\ delivered[i].from \in Addresses /\ delivered[i].from # a
                 /\ runnables[delivered[i].from].phase = "blocked"
                 /\ runnables[delivered[i].from].name = delivered[i].reply.name
        BY <1>4 DEF LookupInv
    <3>2. TAKE i \in 1 .. Len(delivered')
    <3>3. CASE i \in 1 .. Len(delivered)
        BY <2>5, <2>7, <3>1, <3>3
    <3>4. CASE i = Len(delivered) + 1
        BY <1>3, <2>1, <2>3, <2>5, <2>7, <3>4
    <3> QED  BY <2>8, <3>3, <3>4
  <2>10. \A i, j \in 1 .. Len(delivered') : delivered'[j].from = delivered'[i].from => j = i
    <3>1. \A i, j \in 1 .. Len(delivered) : delivered[j].from = delivered[i].from => j = i
        BY DEF LookupInv
    <3> QED  BY <1>4, <2>3, <2>5, <2>8, <3>1
  <2>11. \A b \in Addresses : DOMAIN runnables'[b] = {"phase", "name", "reply"}
      BY <2>1, <2>7 DEF LookupInv
  <2> QED  BY <1>2, <2>1, <2>6, <2>7, <2>9, <2>10, <2>11 DEF LookupInv, AnswerOfLast
<1>6. CASE ~lookup.alive
  <2>1. runnables' = [runnables EXCEPT ![a] = Idle] /\ delivered' = delivered
      BY <1>0, <1>6
  <2>2. DOMAIN Idle = {"phase", "name", "reply"} /\ lookup.runnable = Nobody
      BY <1>6 DEF Idle, LookupInv
  <2> HIDE DEF Idle
  <2> QED  BY <1>2, <1>4, <2>1, <2>2, RunnableAlone DEF LookupInv, AnswerOfLast
<1> QED  BY <1>5, <1>6

\* An answer is taken, for the last question or for nothing.
LEMMA FinishedStep ==
    ASSUME LookupInv, LookupFinished
    PROVE  LookupInv'
<1>1. delivered \in Seq(Elements0(delivered)) /\ delivered # << >> /\ delivered' = Tail(delivered)
    BY DEF LookupInv, LookupFinished
<1>2. /\ Len(delivered) \in Nat /\ Len(delivered) > 0 /\ Len(delivered') = Len(delivered) - 1
      /\ Head(delivered) = delivered[1] /\ 1 \in 1 .. Len(delivered)
      /\ \A i \in 1 .. Len(delivered') : /\ i + 1 \in 1 .. Len(delivered)
                                         /\ delivered'[i] = delivered[i + 1]
      /\ delivered' \in Seq(Elements0(delivered))
    BY <1>1
<1>3. PICK answer : answer = delivered[1]
    OBVIOUS
<1>4. /\ answer.from \in Addresses /\ runnables[answer.from].name = answer.reply.name
      /\ \A j \in 1 .. Len(delivered) : delivered[j].from = answer.from => j = 1
    BY <1>2, <1>3 DEF LookupInv
<1>5. \A i \in 1 .. Len(delivered') : delivered[i + 1].from # answer.from
    BY <1>2, <1>4
<1>6. delivered' \in Seq(Elements0(delivered'))
  <2>1. \A i \in 1 .. Len(delivered') : delivered'[i] \in Elements0(delivered')
      BY DEF Elements0
  <2>2. delivered' = [i \in 1 .. Len(delivered') |-> delivered'[i]] /\ Len(delivered') \in Nat
      BY <1>2
  <2>3. [i \in 1 .. Len(delivered') |-> delivered'[i]] \in Seq(Elements0(delivered'))
      BY <2>1, <2>2
  <2> QED  BY <2>2, <2>3
<1>7. /\ runnables' = [runnables EXCEPT ![answer.from] = Idle] /\ app' = app /\ app = "running"
      /\ IF answer.from = lookup.runnable
         THEN lookup' = [lookup EXCEPT !.reply = answer.reply, !.runnable = Nobody, !.isFinished = TRUE]
         ELSE lookup' = lookup
    BY <1>2, <1>3 DEF LookupFinished, LetGo
<1>8. DOMAIN Idle = {"phase", "name", "reply"}
    BY DEF Idle
<1>9. /\ DOMAIN runnables' = Addresses
      /\ \A b \in Addresses : /\ DOMAIN runnables'[b] = {"phase", "name", "reply"}
                              /\ runnables'[b] = IF b = answer.from THEN Idle ELSE runnables[b]
      /\ delivered' \in Seq(Elements0(delivered'))
      /\ \A i \in 1 .. Len(delivered') :
           /\ delivered'[i].from \in Addresses
           /\ runnables'[delivered'[i].from].phase = "blocked"
           /\ runnables'[delivered'[i].from].name = delivered'[i].reply.name
           /\ \A j \in 1 .. Len(delivered') : delivered'[j].from = delivered'[i].from => j = i
  <2>1. Len(delivered') \in Nat
      BY <1>2
  <2>2. \A i \in 1 .. Len(delivered') :
          /\ i + 1 \in 1 .. Len(delivered) /\ delivered'[i] = delivered[i + 1]
          /\ delivered[i + 1].from # answer.from
      BY <1>2, <1>5
  <2> HIDE DEF Idle
  <2>3. runnables' = [runnables EXCEPT ![answer.from] = Idle]
      BY <1>7
  <2> QED  BY <1>2, <1>4, <1>6, <1>8, <2>1, <2>2, <2>3, RunnableChanges
<1>10. CASE answer.from = lookup.runnable
  <2> DEFINE one == [lookup EXCEPT !.reply = answer.reply]
             two == [one EXCEPT !.runnable = Nobody]
  <2>1. /\ DOMAIN one = {"alive", "name", "isFinished", "runnable", "reply"}
        /\ one.reply = answer.reply /\ one.name = lookup.name /\ one.alive = lookup.alive
      BY DEF LookupInv
  <2> HIDE DEF one
  <2>2. /\ DOMAIN two = {"alive", "name", "isFinished", "runnable", "reply"} /\ two.runnable = Nobody
        /\ two.reply = answer.reply /\ two.name = lookup.name /\ two.alive = lookup.alive
      BY <2>1
  <2>3. lookup' = [two EXCEPT !.isFinished = TRUE]
      BY <1>7, <1>10 DEF one
  <2> HIDE DEF two
  <2>4. /\ DOMAIN lookup' = {"alive", "name", "isFinished", "runnable", "reply"}
        /\ lookup'.runnable = Nobody /\ lookup'.isFinished \in BOOLEAN
        /\ lookup'.reply = answer.reply /\ lookup'.name = lookup.name /\ lookup'.alive = lookup.alive
      BY <2>2, <2>3
  <2>5. lookup.name = answer.reply.name /\ lookup.alive \in BOOLEAN /\ lookup.alive
      BY <1>4, <1>7, <1>10, LookupAssumption DEF LookupInv
  <2> QED  BY <1>9, <2>4, <2>5 DEF LookupInv, AnswerOfLast
<1>11. CASE answer.from # lookup.runnable
  <2>1. lookup' = lookup
      BY <1>7, <1>11
  <2>2. lookup.runnable # Nobody =>
          /\ lookup.runnable \in Addresses /\ runnables'[lookup.runnable].phase # "idle"
          /\ runnables'[lookup.runnable].name = lookup.name
      BY <1>9, <1>11 DEF LookupInv
  <2>3. app' = app
      BY <1>7
  <2> QED  BY <1>9, <2>1, <2>2, <2>3 DEF LookupInv, AnswerOfLast
<1> QED  BY <1>10, <1>11

\* The lookup gives up, or the program ends.
LEMMA EndStep ==
    ASSUME LookupInv, AbortLookup \/ Close \/ ApplicationDestroyed
    PROVE  LookupInv'
<1>1. CASE AbortLookup
  <2> DEFINE one == [lookup EXCEPT !.runnable = Nobody]
             two == [one EXCEPT !.isFinished = TRUE]
  <2>1. /\ DOMAIN one = {"alive", "name", "isFinished", "runnable", "reply"}
        /\ one.runnable = Nobody /\ one.name = lookup.name /\ one.alive = lookup.alive
      BY DEF LookupInv
  <2> HIDE DEF one
  <2>2. /\ DOMAIN two = {"alive", "name", "isFinished", "runnable", "reply"} /\ two.runnable = Nobody
        /\ two.isFinished \in BOOLEAN /\ two.alive = lookup.alive
      BY <2>1
  <2>3. lookup' = [two EXCEPT !.reply = FailedReply("OperationCancelledError")]
      BY <1>1 DEF AbortLookup, one
  <2> HIDE DEF two
  <2>4. FailedReply("OperationCancelledError").error = "OperationCancelledError"
      BY DEF FailedReply
  <2>5. /\ DOMAIN lookup' = {"alive", "name", "isFinished", "runnable", "reply"}
        /\ lookup'.runnable = Nobody /\ lookup'.isFinished \in BOOLEAN
        /\ lookup'.reply.error = "OperationCancelledError" /\ lookup'.alive = lookup.alive
      BY <2>2, <2>3, <2>4
  <2>6. UNCHANGED <<runnables, delivered, app>>
      BY <1>1 DEF AbortLookup
  <2> QED  BY <2>5, <2>6 DEF LookupInv, AnswerOfLast
<1>2. CASE Close
  <2> DEFINE one == [lookup EXCEPT !.alive = FALSE]
  <2>1. /\ DOMAIN one = {"alive", "name", "isFinished", "runnable", "reply"}
        /\ one.alive \in BOOLEAN /\ one.isFinished = lookup.isFinished /\ one.reply = lookup.reply
        /\ one.name = lookup.name
      BY DEF LookupInv
  <2>2. lookup' = [one EXCEPT !.runnable = Nobody]
      BY <1>2 DEF Close
  <2> HIDE DEF one
  <2>3. /\ DOMAIN lookup' = {"alive", "name", "isFinished", "runnable", "reply"}
        /\ lookup'.runnable = Nobody /\ lookup'.isFinished = lookup.isFinished
        /\ lookup'.reply = lookup.reply /\ lookup'.alive \in BOOLEAN /\ lookup'.name = lookup.name
      BY <2>1, <2>2
  <2>4. /\ DOMAIN runnables' = Addresses
        /\ \A a \in Addresses : DOMAIN runnables'[a] = {"phase", "name", "reply"}
    <3>1. DOMAIN Idle = {"phase", "name", "reply"}
        BY DEF Idle
    <3> QED  BY <1>2, <3>1 DEF Close, Released, LookupInv
  <2>5. /\ delivered' = << >> /\ app' = "closing" /\ Len(delivered') = 0
        /\ delivered' \in Seq(Elements0(delivered'))
      BY <1>2 DEF Close
  <2>6. \A i \in 1 .. Len(delivered') : FALSE
      BY <2>5
  <2> QED  BY <2>3, <2>4, <2>5, <2>6 DEF LookupInv, AnswerOfLast
<1>3. CASE ApplicationDestroyed
    BY <1>3 DEF ApplicationDestroyed, LookupInv, AnswerOfLast
<1> QED  BY <1>1, <1>2, <1>3

LEMMA LookupStep ==
    ASSUME LookupInv, LookupNext
    PROVE  LookupInv'
    BY QuestionStep, PoolStep, RunStep, FinishedStep, EndStep DEF LookupNext

-----------------------------------------------------------------------------
(* All of them.                                                            *)

WidgetsInv == SpectrumInv /\ TickerInv /\ StreamInv /\ AuthorizationInv /\ LookupInv

\* Who does not move keeps its part.
LEMMA PartsStay ==
    ASSUME WidgetsInv
    PROVE  /\ UNCHANGED spectrumVars => SpectrumInv'
           /\ UNCHANGED tickerVars => TickerInv'
           /\ UNCHANGED streamVars => StreamInv'
           /\ UNCHANGED authorizationVars => AuthorizationInv'
           /\ UNCHANGED lookupVars => LookupInv'
<1> USE DEF WidgetsInv
<1>1. UNCHANGED spectrumVars => SpectrumInv'
    BY DEF spectrumVars, SpectrumInv, SpectrumTypeOK, DisplayServed, Alive, OnlyRun
<1>2. UNCHANGED tickerVars => TickerInv'
    BY DEF tickerVars, TickerInv, TickerTypeOK, MouseHolds, RefreshPending, OneAtATime
<1>3. UNCHANGED streamVars => StreamInv'
    BY DEF streamVars, StreamInv, SomethingToAbort, NoPlanWhileOpen
<1>4. UNCHANGED authorizationVars => AuthorizationInv'
    BY DEF authorizationVars, AuthorizationInv
<1>5. UNCHANGED lookupVars => LookupInv'
    BY DEF lookupVars, LookupInv, AnswerOfLast
<1> QED  BY <1>1, <1>2, <1>3, <1>4, <1>5

LEMMA WidgetsInductive == Spec => []WidgetsInv
<1>1. Init => WidgetsInv
    BY SpectrumBegins, TickerBegins, StreamBegins, AuthorizationBegins, LookupBegins DEF Init, WidgetsInv
<1>2. WidgetsInv /\ [Next]_vars => WidgetsInv'
  <2> SUFFICES ASSUME WidgetsInv, [Next]_vars PROVE WidgetsInv'
      OBVIOUS
  <2> USE DEF WidgetsInv
  <2>1. CASE SpectrumNext /\ NotSpectrum
      BY <2>1, SpectrumStep, PartsStay DEF NotSpectrum
  <2>2. CASE TickerNext /\ NotTicker
      BY <2>2, TickerStep, PartsStay DEF NotTicker
  <2>3. CASE StreamNext /\ NotStream
      BY <2>3, StreamStep, PartsStay DEF NotStream
  <2>4. CASE AuthorizationNext /\ NotAuthorization
      BY <2>4, AuthorizationStep, PartsStay DEF NotAuthorization
  <2>5. CASE LookupNext /\ NotLookup
      BY <2>5, LookupStep, PartsStay DEF NotLookup
  <2>6. CASE UNCHANGED vars
      BY <2>6, PartsStay DEF vars
  <2> QED  BY <2>1, <2>2, <2>3, <2>4, <2>5, <2>6 DEF Next
<1> QED  BY <1>1, <1>2, PTL DEF Spec

\* The displays (paintFunction() and mousePressEvent(), src/spectrumwidget.cpp;
\* pictureDownloaded(), finishRefresh() and event(), src/twitterwidget.cpp): one thread
\* paints, and none over a blank display, unless it was switched off before the first chunk;
\* a tweet is shown with its own picture, and waits for the mouse.  For any number of
\* painters, frames, tweets and searches.
THEOREM DisplaysHoldCorrect == Spec => []DisplaysHold
<1>1. WidgetsInv => DisplaysHold
    BY SpectrumHolds DEF WidgetsInv, TickerInv, PictureMatches, DisplaysHold
<1> QED  BY <1>1, WidgetsInductive, PTL

\* What is over is left alone (replyTimeout() and startFetching(),
\* src/qtweetlib/qtweetuserstream.cpp; _q_lookupFinished(), src/base/qdnslookup.cpp): for any
\* messages, questions, addresses of their objects and threads of the pool.
THEOREM NothingStaleCorrect == Spec => []NothingStale
<1>1. WidgetsInv => NothingStale
    BY DEF WidgetsInv, StreamInv, LookupInv, NothingStale
<1> QED  BY <1>1, WidgetsInductive, PTL

\* A call for tokens gives up only if no answer has come in its five seconds, unless another
\* call was made from within (authorizePin() and requestAccessToken(),
\* src/qtweetlib/oauthtwitter.cpp): for any number of calls within each other.
THEOREM GivesUpUnansweredCorrect == Spec => GivesUpUnanswered
<1>1. WidgetsInv /\ [Next]_vars =>
        [told' = "timeout" /\ calls' # calls => ~Last(calls).inTime \/ Last(calls).covered]_authorizationVars
  <2> SUFFICES ASSUME WidgetsInv, [Next]_vars, ~UNCHANGED authorizationVars,
                      told' = "timeout", calls' # calls
               PROVE  ~Last(calls).inTime \/ Last(calls).covered
      OBVIOUS
  <2>1. AuthorizationNext
      BY DEF Next, NotSpectrum, NotTicker, NotStream, NotLookup, vars
  <2>2. Returns
      BY <2>1 DEF AuthorizationNext, AuthorizeXAuth, FinishedAuthorization, AuthorizePin,
         RequestAccessToken, Calls, Answered, TimerFires
  <2>3. calls # << >> /\ ~Last(calls).timer /\ Last(calls) = calls[Len(calls)]
      BY <2>2 DEF Returns, Last
  <2>4. Len(calls) \in 1 .. Len(calls)
      BY <2>3 DEF WidgetsInv, AuthorizationInv
  <2>5. CallInv(calls[Len(calls)])
      BY <2>4 DEF WidgetsInv, AuthorizationInv
  <2> QED  BY <2>3, <2>5 DEF CallInv
<1> QED  BY <1>1, WidgetsInductive, PTL DEF Spec, GivesUpUnanswered
=============================================================================
