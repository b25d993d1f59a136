-------------------------------- MODULE Widgets --------------------------------
(***************************************************************************)
(* What runs beside the window's own work: the threads and animations of   *)
(* its two displays, the timers and event loops of the Twitter library     *)
(* beneath one of them, and the threads that look up the chat's server.    *)
(* They share nothing, so that a behaviour follows one of them, which      *)
(* `part' names.                                                           *)
(***************************************************************************)
EXTENDS Spectrum, Ticker, UserStream, Authorization, Lookup

VARIABLE part

vars == <<part, spectrumVars, tickerVars, streamVars, authorizationVars, lookupVars>>

Parts == {"spectrum", "ticker", "stream", "authorization", "lookup"}

TypeOK ==
    /\ SpectrumTypeOK /\ TickerTypeOK /\ StreamTypeOK /\ AuthorizationTypeOK
    /\ LookupTypeOK
    /\ part \in Parts

Init ==
    /\ part \in Parts /\ SpectrumInit /\ TickerInit /\ StreamInit /\ AuthorizationInit
    /\ LookupInit /\ (part # "lookup" => response = NoReply)

NotSpectrum == UNCHANGED <<part, tickerVars, streamVars, authorizationVars, lookupVars>>
NotTicker == UNCHANGED <<part, spectrumVars, streamVars, authorizationVars, lookupVars>>
NotStream == UNCHANGED <<part, spectrumVars, tickerVars, authorizationVars, lookupVars>>
NotAuthorization == UNCHANGED <<part, spectrumVars, tickerVars, streamVars, lookupVars>>
NotLookup == UNCHANGED <<part, spectrumVars, tickerVars, streamVars, authorizationVars>>

Next ==
    \/ part = "spectrum" /\ SpectrumNext /\ NotSpectrum
    \/ part = "ticker" /\ TickerNext /\ NotTicker
    \/ part = "stream" /\ StreamNext /\ NotStream
    \/ part = "authorization" /\ AuthorizationNext /\ NotAuthorization
    \/ part = "lookup" /\ LookupNext /\ NotLookup

\* Threads run; a mutex given up again and again is had by who waits for it;
\* animations run, replies end, timers fire and event loops return.
Fairness ==
    /\ \A p \in Painters : WF_vars(part = "spectrum" /\ Paints(p) /\ NotSpectrum)
    /\ SF_vars(part = "spectrum" /\ (Stopped \/ Resized \/ ImagesDeleted) /\ NotSpectrum)
    /\ WF_vars(part = "ticker" /\ AnimFinished /\ NotTicker)
    /\ WF_vars(part = "ticker" /\ RefreshFires /\ NotTicker)
    /\ WF_vars(part = "ticker" /\ (\E t \in Tweets : PictureDownloaded(t)) /\ NotTicker)
    /\ WF_vars(part = "stream" /\ BackoffFires /\ NotStream)
    /\ WF_vars(part = "stream" /\ TimeoutFires /\ NotStream)
    /\ WF_vars(part = "authorization" /\ TimerFires /\ NotAuthorization)
    /\ WF_vars(part = "authorization" /\ Returns /\ NotAuthorization)
    /\ WF_vars(part = "lookup" /\ (\E a \in Addresses : PoolStarts(a)) /\ NotLookup)
    /\ WF_vars(part = "lookup" /\ (\E a \in Addresses : Run(a)) /\ NotLookup)
    /\ WF_vars(part = "lookup" /\ LookupFinished /\ NotLookup)
    /\ WF_vars(part = "lookup" /\ ApplicationDestroyed /\ NotLookup)

Spec == Init /\ [][Next]_vars /\ Fairness
-----------------------------------------------------------------------------
(* Properties, each the sum of what the parts state.                       *)

\* One thread paints, and none over a blank display; tweets are shown with their own
\* pictures, wait for the mouse, and the next one is always planned.
DisplaysHold ==
    /\ SpectrumTypeOK /\ OnePainter /\ OffIsBlank /\ DisplayServed
    /\ TickerTypeOK /\ PictureMatches /\ MouseHolds /\ RefreshPending

\* Nothing is done for what is over: there is a reply to abort when the user stream aborts
\* one, it does not connect while it is open, and an answer to a former question is not taken.
NothingStale == SomethingToAbort /\ NoPlanWhileOpen /\ AnswerOfLast

\* What is read is read in full: the user stream hands on all messages, whole, and of the
\* records of an answer the right one is taken.
AnswersRead == TypeOK /\ WholeMessages /\ AllHandedOn /\ ServerPreferred

\* No thread, timer, reply, event loop or lookup is waited for in vain.
NobodyHangs ==
    /\ GuiComesBack /\ ChunkDrawn
    /\ TickerGoesOn
    /\ StreamComesBack /\ DeadStreamDropped
    /\ GivesUpUnanswered /\ CallsReturn
    /\ LookupEnds /\ QuitEnds
=============================================================================
