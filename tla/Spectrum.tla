------------------------------- MODULE Spectrum --------------------------------
(***************************************************************************)
(* SpectrumWidget (src/spectrumwidget.cpp): the player's worker hands over *)
(* chunks of samples, runs of paintFunction() on threads of the pool draw  *)
(* them into two images, and clicks, resizing and the destructor come from *)
(* the GUI thread.  Samples and pixels are abstracted: of a chunk the      *)
(* number of frames that it fills, of the images whether they are blank.   *)
(***************************************************************************)
EXTENDS Naturals, FiniteSets

CONSTANTS
    Frames,        \* the frames that a chunk may fill: 0 if it is too short
    MaxPainters    \* bound on the runs of paintFunction() at a time

ASSUME SpectrumAssumption == Frames \subseteq Nat /\ MaxPainters \in Nat \ {0}

VARIABLES
    painting,      \* painting
    hasData,       \* data is not NULL
    fresh,         \* dataLen is not 0: a chunk is to be drawn
    painters,      \* where each run of paintFunction() is
    left,          \* the frames that the painter at "frame" has left
    painterResult, \* the run that the future stands for, if it has not ended
    blank,         \* both images are transparent
    gui,           \* where the GUI thread is
    early          \* history: the display was switched off before the first chunk

spectrumVars == <<painting, hasData, fresh, painters, left, painterResult, blank, gui, early>>

NoPainter == 0
Painters == 1 .. MaxPainters
Alive == {p \in Painters : painters[p] # "none"}

\* dataMutex is held by the painter that draws.
DataMutexFree == \A p \in Painters : painters[p] # "frame"

SpectrumTypeOK ==
    /\ {painting, hasData, fresh, blank, early} \subseteq BOOLEAN
    /\ painters \in [Painters -> {"none", "queued", "test", "lock", "frame"}]
    /\ left \in Nat /\ painterResult \in Painters \cup {NoPainter}
    /\ gui \in {"idle", "stopping", "resizing", "closing", "gone"}

SpectrumInit ==
    /\ painting = TRUE /\ hasData = FALSE /\ fresh = FALSE
    /\ painters = [p \in Painters |-> "none"] /\ left = 0 /\ painterResult = NoPainter
    /\ blank = TRUE /\ gui = "idle" /\ early = FALSE

\* painterResult = QtConcurrent::run(this, &SpectrumWidget::paintFunction)
RunPainter ==
    \E p \in Painters \ Alive :
      /\ painters' = [painters EXCEPT ![p] = "queued"]
      /\ painterResult' = p

\* new_data(), from the player's worker, which its own destructor has ended
\* before the widgets are deleted.
NewData ==
    /\ gui \notin {"closing", "gone"} /\ DataMutexFree
    /\ IF hasData THEN UNCHANGED <<painters, painterResult>> ELSE RunPainter
    /\ hasData' = TRUE /\ fresh' = TRUE
    /\ UNCHANGED <<painting, left, blank, gui, early>>

-----------------------------------------------------------------------------
(* A run of paintFunction().                                               *)

Ended(p) ==
    /\ painters' = [painters EXCEPT ![p] = "none"]
    /\ painterResult' = IF painterResult = p THEN NoPainter ELSE painterResult
    /\ UNCHANGED left

At(p, place) ==
    /\ painters' = [painters EXCEPT ![p] = place]
    /\ UNCHANGED painterResult

PainterStarts(p) ==
    /\ painters[p] = "queued" /\ At(p, "test")
    /\ UNCHANGED <<painting, hasData, fresh, left, blank, gui, early>>

\* while (painting): without data the loop sleeps and looks again.
Test(p) ==
    /\ painters[p] = "test"
    /\ \/ ~painting /\ Ended(p)
       \/ painting /\ fresh /\ At(p, "lock") /\ UNCHANGED left
    /\ UNCHANGED <<painting, hasData, fresh, blank, gui, early>>

\* Another painter may have drawn the chunk meanwhile: it has no frames then.
Lock(p) ==
    /\ painters[p] = "lock" /\ DataMutexFree
    /\ At(p, "frame") /\ left' \in IF fresh THEN Frames ELSE {0}
    /\ UNCHANGED <<painting, hasData, fresh, blank, gui, early>>

\* One frame is drawn, swapped to the front and slept on; after the last one
\* the mutex is given up.
Draw(p) ==
    /\ painters[p] = "frame"
    /\ \/ /\ left > 0 /\ left' = left - 1 /\ blank' = FALSE
          /\ UNCHANGED <<painters, painterResult, fresh>>
       \/ /\ left = 0 /\ fresh' = FALSE /\ At(p, "test")
          /\ UNCHANGED <<left, blank>>
    /\ UNCHANGED <<painting, hasData, gui, early>>

Paints(p) == PainterStarts(p) \/ Test(p) \/ Lock(p) \/ Draw(p)

-----------------------------------------------------------------------------
(* The GUI thread.                                                         *)

\* mousePressEvent(): switches the display on, or off, which waits.
Clicked ==
    /\ gui = "idle" /\ painting' = ~painting
    /\ IF painting' THEN RunPainter /\ UNCHANGED <<gui, early>>
                    ELSE /\ gui' = "stopping" /\ early' = (early \/ ~hasData)
                         /\ UNCHANGED <<painters, painterResult>>
    /\ UNCHANGED <<hasData, fresh, left, blank>>

\* painterResult.waitForFinished() returns, and both images are cleared.
Stopped ==
    /\ gui = "stopping" /\ painterResult = NoPainter
    /\ gui' = "idle" /\ blank' = TRUE
    /\ UNCHANGED <<painting, hasData, fresh, painters, left, painterResult, early>>

\* resizeEvent() locks dataMutex and replaces the images by scaled copies.
Resizes ==
    /\ gui = "idle" /\ gui' = "resizing"
    /\ UNCHANGED <<painting, hasData, fresh, painters, left, painterResult, blank, early>>

Resized ==
    /\ gui = "resizing" /\ DataMutexFree /\ gui' = "idle"
    /\ UNCHANGED <<painting, hasData, fresh, painters, left, painterResult, blank, early>>

\* ~SpectrumWidget(): waits as well, and deletes the images.
Destroyed ==
    /\ gui = "idle" /\ gui' = "closing" /\ painting' = FALSE
    /\ early' = (early \/ ~hasData)
    /\ UNCHANGED <<hasData, fresh, painters, left, painterResult, blank>>

ImagesDeleted ==
    /\ gui = "closing" /\ painterResult = NoPainter /\ gui' = "gone"
    /\ UNCHANGED <<painting, hasData, fresh, painters, left, painterResult, blank, early>>

SpectrumNext ==
    \/ NewData \/ Clicked \/ Stopped \/ Resizes \/ Resized \/ Destroyed \/ ImagesDeleted
    \/ \E p \in Painters : Paints(p)

-----------------------------------------------------------------------------
(* Properties.                                                             *)

(* Unless the display is switched off before the first chunk has come, one *)
(* run of paintFunction() at most is alive: two of them share lastPoint,   *)
(* the images and the future, which stands for the later one alone.        *)
OnePainter == ~early => Cardinality(Alive) <= 1

(* A display that is switched off is blank and stays blank, and nothing    *)
(* draws into images that are deleted.                                     *)
OffIsBlank ==
    ~early => /\ (~painting /\ gui = "idle" => blank /\ Alive = {})
              /\ (gui = "gone" => Alive = {})

(* While the display is on and the first chunk has come there is a painter *)
(* to draw what comes.                                                     *)
DisplayServed == painting /\ hasData => Alive # {}

(* Whatever was clicked before: the GUI thread does not hang in            *)
(* waitForFinished() or for the mutex.                                     *)
GuiComesBack == []<>(gui \in {"idle", "gone"})

(* A chunk that waits is drawn, unless the display is switched off.        *)
ChunkDrawn == []<>(~fresh \/ ~painting)
=============================================================================
