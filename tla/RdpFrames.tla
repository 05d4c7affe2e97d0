------------------------------ MODULE RdpFrames ------------------------------
(***************************************************************************)
(* The way of a picture from the RDP server to the screen:                 *)
(* ssh-gui/app_rdp_frames.go (capture and stream), GetRDPFrame of          *)
(* app_rdp.go and frontend/src/components/rdp/RDPView.jsx.  The server     *)
(* paints faster than pictures can be encoded and drawn, so three places   *)
(* drop pictures; the last one must come through all of them.  A picture   *)
(* is the number of its paint batch, and 0 is none.                        *)
(***************************************************************************)
EXTENDS Naturals

CONSTANT MaxPaints   \* bound on the paint batches

ASSUME PaintsAssumption == MaxPaints \in Nat

VARIABLES screen,   \* the rdpSession and its two goroutines, a Screen
          events,   \* rdp-frame events emitted and not delivered
          canvas    \* the RDPView, a Canvas

framesVars == <<screen, events, canvas>>

Image == 0..MaxPaints
Frame == [image: Image, sequence: Image]
NoFrame == [image |-> 0, sequence |-> 0]

Screen ==
  [painted: Image,      \* paint batches so far
   capturing: {"no", "offering", "draining", "again"},  \* on the reader's goroutine
   images: Image,       \* the channel of capacity 1
   latest: Image,       \* stream's local variable
   encoding: BOOLEAN,   \* is stream between the tick and the lock?
   frame: Frame,        \* rdpSession.frame
   ended: BOOLEAN]      \* is the session's context cancelled?

Canvas ==
  [asked: {"no", "asked", "answered", "done"},  \* its GetRDPFrame call, and
   answer: Frame,       \* the frame it returned
   sequence: Image,     \* the sequence received last
   pending: Image,      \* the picture to draw next
   drawing: Image,      \* the picture being decoded
   shown: Image]        \* the picture on the canvas

FramesInit ==
  /\ screen = [painted |-> 0, capturing |-> "no", images |-> 0, latest |-> 0,
               encoding |-> FALSE, frame |-> NoFrame, ended |-> FALSE]
  /\ events = {}
  /\ canvas = [asked |-> "no", answer |-> NoFrame, sequence |-> 0, pending |-> 0,
             drawing |-> 0, shown |-> 0]

-----------------------------------------------------------------------------
(* capture *)

Paint ==
  /\ ~screen.ended /\ screen.capturing = "no" /\ screen.painted < MaxPaints
  /\ screen' = [screen EXCEPT !.painted = @ + 1, !.capturing = "offering"]
  /\ UNCHANGED <<events, canvas>>

(* Mutant of Offer: a picture that finds the channel full is dropped.       *)
Offer_DropsNewest ==
  /\ screen.capturing \in {"offering", "again"}
  /\ screen' = [screen EXCEPT !.capturing = "no",
                  !.images = IF @ = 0 THEN screen.painted ELSE @]
  /\ UNCHANGED <<events, canvas>>

(* A send that does not wait.  The second one is dropped when it fails.     *)
Offer ==
  /\ screen.capturing \in {"offering", "again"}
  /\ screen' = [screen EXCEPT
       !.images = IF @ = 0 THEN screen.painted ELSE @,
       !.capturing = IF screen.images = 0 \/ @ = "again" THEN "no" ELSE "draining"]
  /\ UNCHANGED <<events, canvas>>

(* Between the two: a receive that does not wait.                           *)
Drain ==
  /\ screen.capturing = "draining"
  /\ screen' = [screen EXCEPT !.images = 0, !.capturing = "again"]
  /\ UNCHANGED <<events, canvas>>

-----------------------------------------------------------------------------
(* stream: a select over ctx.Done, the channel and the ticker *)

StreamTakes ==
  /\ ~screen.encoding /\ screen.images # 0
  /\ screen' = [screen EXCEPT !.latest = screen.images, !.images = 0]
  /\ UNCHANGED <<events, canvas>>

StreamTicks ==
  /\ ~screen.encoding /\ screen.latest # 0
  /\ screen' = [screen EXCEPT !.encoding = TRUE]
  /\ UNCHANGED <<events, canvas>>

Publish(f) ==
  /\ screen.encoding
  /\ screen' = [screen EXCEPT !.encoding = FALSE, !.latest = 0, !.frame = f]
  /\ events' = IF screen.ended THEN events ELSE events \cup {f}
  /\ UNCHANGED canvas

(* png.Encode succeeds; the frame is replaced under frameMu and, unless the *)
(* context was cancelled, sent out.                                         *)
StreamPublishes ==
  Publish([image |-> screen.latest, sequence |-> screen.frame.sequence + 1])

End ==
  /\ ~screen.ended
  /\ screen' = [screen EXCEPT !.ended = TRUE]
  /\ UNCHANGED <<events, canvas>>

-----------------------------------------------------------------------------
(* RDPView *)

(* The effect registers its listener, then calls GetRDPFrame.               *)
Mount ==
  /\ canvas.asked = "no"
  /\ canvas' = [canvas EXCEPT !.asked = "asked"]
  /\ UNCHANGED <<screen, events>>

GetRDPFrame ==
  /\ canvas.asked = "asked" /\ ~screen.ended
  /\ canvas' = [canvas EXCEPT !.asked = "answered", !.answer = screen.frame]
  /\ UNCHANGED <<screen, events>>

Draw(v, f) ==
  IF v.drawing = 0 THEN [v EXCEPT !.sequence = f.sequence, !.drawing = f.image]
                   ELSE [v EXCEPT !.sequence = f.sequence, !.pending = f.image]

(* Mutant of Receive: frames are drawn in the order they arrive.            *)
Receive_AnyOrder(v, f) == IF f.image = 0 THEN v ELSE Draw(v, f)

(* receive, and the draw it calls.                                          *)
Receive(v, f) ==
  IF f.image = 0 \/ f.sequence <= v.sequence THEN v ELSE Draw(v, f)

AnswerArrives ==
  /\ canvas.asked = "answered"
  /\ canvas' = [Receive(canvas, canvas.answer) EXCEPT !.asked = "done"]
  /\ UNCHANGED <<screen, events>>

(* Without a view, nobody listens.                                          *)
FrameArrives(f) ==
  /\ f \in events
  /\ events' = events \ {f}
  /\ canvas' = IF canvas.asked = "no" THEN canvas ELSE Receive(canvas, f)
  /\ UNCHANGED screen

(* onload: the picture is on the canvas, and draw is called again.          *)
ImageLoads ==
  /\ canvas.drawing # 0
  /\ canvas' = [canvas EXCEPT !.shown = canvas.drawing, !.drawing = canvas.pending,
                          !.pending = 0]
  /\ UNCHANGED <<screen, events>>

-----------------------------------------------------------------------------

FramesNext ==
  \/ Paint
  \/ Offer
  \/ Drain
  \/ StreamTakes
  \/ StreamTicks
  \/ StreamPublishes
  \/ End
  \/ Mount
  \/ GetRDPFrame
  \/ AnswerArrives
  \/ \E f \in events : FrameArrives(f)
  \/ ImageLoads

FramesSpec == FramesInit /\ [][FramesNext]_framesVars

(* The ticker fires every 100 ms; select takes one of the ready cases at    *)
(* random, so each of them again and again.                                 *)
FramesFairness ==
  /\ WF_framesVars(Offer \/ Drain)
  /\ SF_framesVars(StreamTakes)
  /\ SF_framesVars(StreamTicks)
  /\ WF_framesVars(StreamPublishes)
  /\ WF_framesVars(GetRDPFrame)
  /\ WF_framesVars(AnswerArrives)
  /\ \A i, n \in 1..MaxPaints :
       WF_framesVars(FrameArrives([image |-> i, sequence |-> n]))
  /\ WF_framesVars(ImageLoads)

-----------------------------------------------------------------------------

(* What the session, the events and the view may hold; in particular, no    *)
(* more frames are published than were painted.                             *)
FramesTypeOK ==
  /\ screen \in Screen
  /\ events \in SUBSET Frame
  /\ canvas \in Canvas

(* The desktop never jumps back: whatever the channel, the ticker, the      *)
(* events and the answer of GetRDPFrame do to the order, the canvas never   *)
(* shows an older picture after a newer one.                                *)
DesktopNeverGoesBack == [][canvas'.shown >= canvas.shown]_framesVars

(* The last picture comes through: once the view is there, every paint      *)
(* batch is shown, or a later one, unless the session ends.                 *)
LastPaintIsShown ==
  \A n \in 1..MaxPaints :
    (screen.painted >= n /\ canvas.asked # "no") ~> (canvas.shown >= n \/ screen.ended)
=============================================================================
