------------------------- MODULE RemoteDesktopProofs -------------------------
(* Theorems about VncBridge, RdpSessions, RdpFrames and RdpInput, for any   *)
(* sessions, any viewers, any number of paint batches and any keys, and     *)
(* about the desktop that MCDesktop makes of them and of the tabs.          *)
EXTENDS MCDesktop, TerminalTabsProofs, SequenceTheorems

-----------------------------------------------------------------------------
(* RDP sessions *)

(* Every state of the RDP sessions is well typed.                           *)
THEOREM RdpTypeCorrect == RdpSpec => []RdpTypeOK
<1>1. RdpInit => RdpTypeOK
  BY DEF RdpInit, RdpTypeOK, RdpSession
<1>2. RdpTypeOK /\ [RdpNext]_rdp => RdpTypeOK'
  <2> SUFFICES ASSUME RdpTypeOK, [RdpNext]_rdp PROVE RdpTypeOK'
    OBVIOUS
  <2>1. ASSUME NEW s \in RdpIds, NEW r \in RdpSession, RdpBecomes(s, r)
        PROVE  RdpTypeOK'
    BY <2>1 DEF RdpBecomes, RdpTypeOK
  <2>2. ASSUME NEW s \in RdpIds PROVE rdp[s] \in RdpSession
    BY <2>2 DEF RdpTypeOK
  <2>3. ASSUME NEW r \in RdpSession
        PROVE  RdpTake(r) \in RdpSession /\ ClientClose(r) \in RdpSession
    <3>1. RdpTake(r) \in RdpSession
      <4>1. (IF r.stored THEN "taken" ELSE r.close)
              \in {"no", "taken", "canceled", "closed", "announced"}
        BY DEF RdpSession
      <4> QED BY <4>1 DEF RdpTake, RdpSession
    <3>2. ClientClose(r) \in RdpSession
      <4>1. CASE Closed(r) BY <4>1 DEF ClientClose
      <4>2. CASE ~Closed(r) BY <4>2 DEF ClientClose, RdpSession
      <4> QED BY <4>1, <4>2
    <3> QED BY <3>1, <3>2
  <2>4. ASSUME NEW s \in RdpIds, RdpBegin(s) PROVE RdpTypeOK'
    BY <2>1, <2>2, <2>4 DEF RdpBegin, RdpSession
  <2>5. ASSUME NEW s \in RdpIds, RdpCallStep(s) PROVE RdpTypeOK'
    <3>1. CASE RdpDials(s) BY <2>1, <2>2, <3>1 DEF RdpDials, RdpSession
    <3>2. CASE RdpHandshakes(s) BY <2>1, <2>2, <3>2 DEF RdpHandshakes, RdpSession
    <3>3. CASE RdpConnects(s) BY <2>1, <2>2, <3>3 DEF RdpConnects, RdpSession
    <3>4. CASE RdpConnectFails(s)
      BY <2>1, <2>2, <2>3, <3>4 DEF RdpConnectFails, RdpSession
    <3>5. CASE RdpGivesUp(s) BY <2>1, <2>2, <2>3, <3>5 DEF RdpGivesUp, RdpSession
    <3>6. CASE RdpKeeps(s) BY <2>1, <2>2, <3>6 DEF RdpKeeps, RdpSession
    <3>7. CASE RdpReturns(s) BY <2>1, <2>2, <3>7 DEF RdpReturns, RdpSession
    <3> QED
      BY <2>5, <3>1, <3>2, <3>3, <3>4, <3>5, <3>6, <3>7 DEF RdpCallStep
  <2>6. ASSUME NEW s \in RdpIds, RdpAborts(s) PROVE RdpTypeOK'
    BY <2>1, <2>2, <2>6 DEF RdpAborts, RdpSession
  <2>7. ASSUME NEW s \in RdpIds, RdpCancel(s) PROVE RdpTypeOK'
    BY <2>1, <2>2, <2>7 DEF RdpCancel, RdpSession
  <2>8. ASSUME NEW s \in RdpIds, RdpCancelCloses(s) PROVE RdpTypeOK'
    <3>1. RdpTake(rdp[s]) \in RdpSession BY <2>2, <2>3
    <3>2. [RdpTake(rdp[s]) EXCEPT !.canceling = FALSE] \in RdpSession
      BY <3>1 DEF RdpSession
    <3> QED BY <2>1, <2>8, <3>2 DEF RdpCancelCloses
  <2>9. ASSUME NEW s \in RdpIds, RdpLost(s) PROVE RdpTypeOK'
    BY <2>1, <2>2, <2>9 DEF RdpLost, RdpSession
  <2>9a. ASSUME NEW s \in RdpIds, RdpLostCloses(s) PROVE RdpTypeOK'
    <3>1. RdpTake(rdp[s]) \in RdpSession BY <2>2, <2>3
    <3>2. [RdpTake(rdp[s]) EXCEPT !.disconnecting = FALSE] \in RdpSession
      BY <3>1 DEF RdpSession
    <3> QED BY <2>1, <2>9a, <3>2 DEF RdpLostCloses
  <2>10. ASSUME NEW s \in RdpIds, RdpUserCloses(s) PROVE RdpTypeOK'
    BY <2>1, <2>2, <2>3, <2>10 DEF RdpUserCloses
  <2>11. ASSUME NEW s \in RdpIds, RdpCloseStep(s) PROVE RdpTypeOK'
    <3>1. CASE RdpCloseCancels(s) BY <2>1, <2>2, <3>1 DEF RdpCloseCancels, RdpSession
    <3>2. CASE RdpCloseCloses(s)
      BY <2>1, <2>2, <2>3, <3>2 DEF RdpCloseCloses, RdpSession
    <3>3. CASE RdpAnnounce(s) BY <2>1, <2>2, <3>3 DEF RdpAnnounce, RdpSession
    <3> QED BY <2>11, <3>1, <3>2, <3>3 DEF RdpCloseStep
  <2>12. CASE UNCHANGED rdp BY <2>12 DEF RdpTypeOK
  <2> QED
    BY <2>4, <2>5, <2>6, <2>7, <2>8, <2>9, <2>9a, <2>10, <2>11, <2>12 DEF RdpNext
<1> QED BY <1>1, <1>2, PTL DEF RdpSpec

(* What a session satisfies on its own: the CloseRDP that took it from the  *)
(* map has cancelled and closed it, in that order, before it announced it,  *)
(* and a session in the map was taken by nobody.                            *)
RdpOrdered(r) ==
  /\ r.call = "idle" =>
       /\ r.close = "no" /\ r.socket = "none" /\ r.client = "new"
       /\ ~r.stored /\ ~r.canceling /\ ~r.disconnecting
  /\ r.call # "idle" => r.stored \/ r.close # "no"
  /\ r.stored => r.close = "no"
  /\ r.close \in {"canceled", "closed", "announced"} => r.canceled
  /\ r.close \in {"closed", "announced"} => Closed(r)
  /\ r.client = "closed" => r.socket # "open"

RdpInv == \A s \in RdpIds : RdpOrdered(rdp[s])

(* So it holds of every state of an RDP session.                            *)
LEMMA RdpInvariant == RdpSpec => []RdpInv
<1>1. RdpInit => RdpInv
  BY DEF RdpInit, RdpInv, RdpOrdered, Closed
<1>2. RdpTypeOK /\ RdpInv /\ [RdpNext]_rdp => RdpInv'
  <2> SUFFICES ASSUME RdpTypeOK, RdpInv, [RdpNext]_rdp PROVE RdpInv'
    OBVIOUS
  <2>1. ASSUME NEW s \in RdpIds, NEW r, RdpOrdered(r), RdpBecomes(s, r)
        PROVE  RdpInv'
    BY <2>1 DEF RdpBecomes, RdpTypeOK, RdpInv
  <2>2. ASSUME NEW s \in RdpIds PROVE rdp[s] \in RdpSession /\ RdpOrdered(rdp[s])
    BY <2>2 DEF RdpTypeOK, RdpInv
  <2>3. ASSUME NEW r \in RdpSession, RdpOrdered(r), r.call # "idle"
        PROVE  /\ RdpTake(r) \in RdpSession /\ RdpOrdered(RdpTake(r))
               /\ RdpTake(r).call # "idle"
    <3>1. CASE r.stored BY <2>3, <3>1 DEF RdpTake, RdpOrdered, RdpSession, Closed
    <3>2. CASE ~r.stored BY <2>3, <3>2 DEF RdpTake, RdpOrdered, RdpSession, Closed
    <3> QED BY <3>1, <3>2
  <2>4. ASSUME NEW r \in RdpSession, RdpOrdered(r), r.call # "idle"
        PROVE  /\ ClientClose(r) \in RdpSession /\ RdpOrdered(ClientClose(r))
               /\ Closed(ClientClose(r)) /\ ClientClose(r).close = r.close
               /\ ClientClose(r).call # "idle" /\ ClientClose(r).stored = r.stored
               /\ ClientClose(r).canceled = r.canceled
    <3>1. CASE Closed(r) BY <2>4, <3>1 DEF ClientClose
    <3>2. CASE ~Closed(r)
      BY <2>4, <3>2 DEF ClientClose, RdpOrdered, RdpSession, Closed
    <3> QED BY <3>1, <3>2
  <2>5. ASSUME NEW s \in RdpIds, RdpBegin(s) PROVE RdpInv'
    BY <2>1, <2>2, <2>5 DEF RdpBegin, RdpSession, RdpOrdered, Closed
  <2>6. ASSUME NEW s \in RdpIds, RdpCallStep(s) PROVE RdpInv'
    <3>1. CASE RdpDials(s)
      BY <2>1, <2>2, <3>1 DEF RdpDials, RdpSession, RdpOrdered, Closed
    <3>2. CASE RdpHandshakes(s)
      BY <2>1, <2>2, <3>2 DEF RdpHandshakes, RdpSession, RdpOrdered, Closed
    <3>3. CASE RdpConnects(s)
      BY <2>1, <2>2, <3>3 DEF RdpConnects, RdpSession, RdpOrdered, Closed
    <3>4. CASE RdpConnectFails(s)
      BY <2>1, <2>2, <2>4, <3>4 DEF RdpConnectFails, RdpSession, RdpOrdered, Closed
    <3>5. CASE RdpGivesUp(s)
      BY <2>1, <2>2, <2>3, <3>5 DEF RdpGivesUp, RdpSession, RdpOrdered, Closed
    <3>6. CASE RdpKeeps(s)
      BY <2>1, <2>2, <3>6 DEF RdpKeeps, RdpSession, RdpOrdered, Closed
    <3>7. CASE RdpReturns(s)
      BY <2>1, <2>2, <3>7 DEF RdpReturns, RdpSession, RdpOrdered, Closed
    <3> QED
      BY <2>6, <3>1, <3>2, <3>3, <3>4, <3>5, <3>6, <3>7 DEF RdpCallStep
  <2>7. ASSUME NEW s \in RdpIds, RdpAborts(s) PROVE RdpInv'
    BY <2>1, <2>2, <2>7 DEF RdpAborts, RdpSession, RdpOrdered, Closed
  <2>8. ASSUME NEW s \in RdpIds, RdpCancel(s) PROVE RdpInv'
    BY <2>1, <2>2, <2>8 DEF RdpCancel, RdpSession, RdpOrdered, Closed
  <2>9. ASSUME NEW s \in RdpIds, RdpCancelCloses(s) PROVE RdpInv'
    <3>1. RdpTake(rdp[s]) \in RdpSession /\ RdpOrdered(RdpTake(rdp[s]))
      BY <2>2, <2>3, <2>9 DEF RdpCancelCloses, RdpOrdered
    <3>2. RdpTake(rdp[s]).call # "idle"
      BY <2>2, <2>3, <2>9 DEF RdpCancelCloses, RdpOrdered
    <3>3. RdpOrdered([RdpTake(rdp[s]) EXCEPT !.canceling = FALSE])
      BY <3>1, <3>2 DEF RdpSession, RdpOrdered, Closed
    <3> QED BY <2>1, <2>9, <3>3 DEF RdpCancelCloses
  <2>10. ASSUME NEW s \in RdpIds, RdpLost(s) PROVE RdpInv'
    BY <2>1, <2>2, <2>10 DEF RdpLost, RdpSession, RdpOrdered, Closed
  <2>11. ASSUME NEW s \in RdpIds, RdpLostCloses(s) PROVE RdpInv'
    <3>1. RdpTake(rdp[s]) \in RdpSession /\ RdpOrdered(RdpTake(rdp[s]))
      BY <2>2, <2>3, <2>11 DEF RdpLostCloses, RdpOrdered
    <3>2. RdpTake(rdp[s]).call # "idle"
      BY <2>2, <2>3, <2>11 DEF RdpLostCloses, RdpOrdered
    <3>3. RdpOrdered([RdpTake(rdp[s]) EXCEPT !.disconnecting = FALSE])
      BY <3>1, <3>2 DEF RdpSession, RdpOrdered, Closed
    <3> QED BY <2>1, <2>11, <3>3 DEF RdpLostCloses
  <2>12. ASSUME NEW s \in RdpIds, RdpUserCloses(s) PROVE RdpInv'
    BY <2>1, <2>2, <2>3, <2>12 DEF RdpUserCloses
  <2>13. ASSUME NEW s \in RdpIds, RdpCloseStep(s) PROVE RdpInv'
    <3>1. CASE RdpCloseCancels(s)
      BY <2>1, <2>2, <3>1 DEF RdpCloseCancels, RdpSession, RdpOrdered, Closed
    <3>2. CASE RdpCloseCloses(s)
      BY <2>1, <2>2, <3>2
      DEF RdpCloseCloses, ClientClose, RdpSession, RdpOrdered, Closed
    <3>3. CASE RdpAnnounce(s)
      BY <2>1, <2>2, <3>3 DEF RdpAnnounce, RdpSession, RdpOrdered, Closed
    <3> QED BY <2>13, <3>1, <3>2, <3>3 DEF RdpCloseStep
  <2>14. CASE UNCHANGED rdp BY <2>14 DEF RdpInv
  <2> QED
    BY <2>5, <2>6, <2>7, <2>8, <2>9, <2>10, <2>11, <2>12, <2>13, <2>14 DEF RdpNext
<1> QED BY <1>1, <1>2, RdpTypeCorrect, PTL DEF RdpSpec

(* No RDP client with a connection is out of reach, and none is announced   *)
(* before it is closed and its context cancelled.                           *)
THEOREM RdpClientsOwned == RdpSpec => []RdpClientsAreOwned
<1>1. RdpTypeOK /\ RdpInv => RdpClientsAreOwned
  BY DEF RdpTypeOK, RdpSession, RdpInv, RdpOrdered, Closed, RdpClientsAreOwned
<1> QED BY <1>1, RdpTypeCorrect, RdpInvariant, PTL
-----------------------------------------------------------------------------
(* The pictures of an RDP session *)

(* On the way to the frame, pictures are in order: the one reader paints    *)
(* ahead of the channel, the channel is ahead of stream's variable, that of *)
(* the frame; and no frame is published without a new picture.              *)
Pipeline ==
  /\ screen.frame.sequence =< screen.frame.image
  /\ screen.frame.image =< screen.painted
  /\ screen.latest =< screen.painted
  /\ screen.images =< screen.painted
  /\ screen.latest # 0 => screen.frame.image < screen.latest
  /\ screen.images # 0 =>
       screen.frame.image < screen.images /\ screen.latest < screen.images
  /\ screen.capturing # "no" =>
       /\ screen.frame.image < screen.painted
       /\ screen.latest < screen.painted
       /\ screen.images < screen.painted
  /\ screen.encoding => screen.latest # 0

FramesInv == FramesTypeOK /\ Pipeline

(* So it holds of every state of the frames.                                *)
LEMMA FramesInvariant == FramesSpec => []FramesInv
<1>1. FramesInit => FramesInv
  BY PaintsAssumption
  DEF FramesInit, FramesInv, FramesTypeOK, Pipeline, Screen, Canvas, Frame, Image, NoFrame
<1>2. FramesInv /\ [FramesNext]_framesVars => FramesInv'
  <2> SUFFICES ASSUME FramesInv, [FramesNext]_framesVars PROVE FramesInv'
    OBVIOUS
  <2> USE DEF FramesInv, FramesTypeOK
  <2>0. /\ 0 \in Image
        /\ \A i \in Image : i \in Nat
    BY PaintsAssumption DEF Image
  <2>0a. /\ screen.frame \in Frame
         /\ screen.frame.image \in Nat /\ screen.frame.sequence \in Nat
         /\ screen.painted \in Nat /\ screen.latest \in Nat /\ screen.images \in Nat
    BY <2>0 DEF Screen, Frame
  <2>1. CASE Paint
    <3>1. screen.painted + 1 \in Image
      BY <2>1, PaintsAssumption DEF Paint, Screen, Image
    <3>2. screen' \in Screen BY <2>1, <3>1 DEF Paint, Screen
    <3>3. Pipeline' BY <2>1, <2>0a DEF Paint, Screen, Pipeline
    <3> QED BY <2>1, <3>2, <3>3 DEF Paint
  <2>2. CASE Offer
    <3>1. screen' \in Screen BY <2>2 DEF Offer, Screen
    <3>2. Pipeline' BY <2>2, <2>0a DEF Offer, Screen, Pipeline
    <3> QED BY <2>2, <3>1, <3>2 DEF Offer
  <2>3. CASE Drain
    <3>1. screen' \in Screen BY <2>0, <2>3 DEF Drain, Screen
    <3>2. Pipeline' BY <2>3, <2>0a DEF Drain, Screen, Pipeline
    <3> QED BY <2>3, <3>1, <3>2 DEF Drain
  <2>4. CASE StreamTakes
    <3>1. screen' \in Screen BY <2>0, <2>4 DEF StreamTakes, Screen
    <3>2. Pipeline' BY <2>4, <2>0a DEF StreamTakes, Screen, Pipeline
    <3> QED BY <2>4, <3>1, <3>2 DEF StreamTakes
  <2>5. CASE StreamTicks
    <3>1. screen' \in Screen BY <2>5 DEF StreamTicks, Screen
    <3>2. Pipeline' BY <2>5, <2>0a DEF StreamTicks, Screen, Pipeline
    <3> QED BY <2>5, <3>1, <3>2 DEF StreamTicks
  <2>6. CASE StreamPublishes
    <3> DEFINE f == [image |-> screen.latest, sequence |-> screen.frame.sequence + 1]
    <3>1. /\ screen.latest \in Image /\ screen.frame.image < screen.latest
          /\ screen.frame.sequence + 1 =< screen.latest
      BY <2>0a, <2>6 DEF StreamPublishes, Publish, Pipeline, Screen
    <3>2. screen.frame.sequence + 1 \in Image
      BY <2>0a, <3>1, PaintsAssumption DEF Image
    <3>3. f \in Frame BY <3>1, <3>2 DEF Frame
    <3>4. screen' = [screen EXCEPT !.encoding = FALSE, !.latest = 0, !.frame = f]
      BY <2>6 DEF StreamPublishes, Publish
    <3>5. screen' \in Screen
      <4> HIDE DEF f
      <4> QED BY <2>0, <3>3, <3>4 DEF Screen
    <3>6. Pipeline' BY <2>0a, <3>1, <3>4 DEF Screen, Pipeline
    <3>7. events' \in SUBSET Frame BY <2>6, <3>3 DEF StreamPublishes, Publish
    <3> QED BY <2>6, <3>5, <3>6, <3>7 DEF StreamPublishes, Publish
  <2>7. CASE End
    <3>1. screen' \in Screen BY <2>7 DEF End, Screen
    <3>2. Pipeline' BY <2>7, <2>0a DEF End, Screen, Pipeline
    <3> QED BY <2>7, <3>1, <3>2 DEF End
  <2>8. CASE Mount BY <2>8 DEF Mount, Canvas, Pipeline
  <2>9. CASE GetRDPFrame BY <2>0a, <2>9 DEF GetRDPFrame, Canvas, Pipeline
  <2>10. ASSUME NEW f \in Frame PROVE Receive(canvas, f) \in Canvas
    BY <2>10 DEF Receive, Draw, Canvas, Frame
  <2>11. CASE AnswerArrives
    <3>1. Receive(canvas, canvas.answer) \in Canvas BY <2>10 DEF Canvas
    <3>2. [Receive(canvas, canvas.answer) EXCEPT !.asked = "done"] \in Canvas
      BY <3>1 DEF Canvas
    <3> QED BY <2>11, <3>2 DEF AnswerArrives, Pipeline
  <2>12. ASSUME NEW f \in events, FrameArrives(f) PROVE FramesInv'
    <3>1. canvas' \in Canvas BY <2>10, <2>12 DEF FrameArrives
    <3> QED BY <2>12, <3>1 DEF FrameArrives, Pipeline
  <2>13. CASE ImageLoads
    <3>1. canvas' \in Canvas BY <2>0, <2>13 DEF ImageLoads, Canvas
    <3> QED BY <2>13, <3>1 DEF ImageLoads, Pipeline
  <2>14. CASE UNCHANGED framesVars BY <2>14 DEF framesVars, Pipeline
  <2> QED
    BY <2>1, <2>2, <2>3, <2>4, <2>5, <2>6, <2>7, <2>8, <2>9, <2>11, <2>12, <2>13, <2>14
    DEF FramesNext
<1> QED BY <1>1, <1>2, PTL DEF FramesSpec

(* Every state of the pictures is well typed; in particular, the sequence   *)
(* never counts more frames than were painted.                              *)
THEOREM FramesTypeCorrect == FramesSpec => []FramesTypeOK
<1>1. FramesInv => FramesTypeOK
  BY DEF FramesInv
<1> QED BY <1>1, FramesInvariant, PTL

(* The picture the view has got furthest with.                              *)
Top == IF canvas.pending # 0 THEN canvas.pending
       ELSE IF canvas.drawing # 0 THEN canvas.drawing ELSE canvas.shown

(* Wherever a frame is on its way to the view: in an event, in the answer   *)
(* of GetRDPFrame, or in the session.                                       *)
OnTheWay == events \cup {canvas.answer, screen.frame}

(* Frames are numbered in the order they were painted, the session holds    *)
(* the last one, and a frame with a higher number than the view received is *)
(* newer than any picture the view has.                                     *)
Numbered ==
  /\ \A f \in OnTheWay :
       /\ f.sequence =< screen.frame.sequence /\ f.image =< screen.frame.image
       /\ f.sequence > canvas.sequence => f.image > Top
       /\ \A g \in OnTheWay : g.sequence > f.sequence => g.image > f.image
  /\ canvas.sequence =< screen.frame.sequence
  /\ Top =< screen.frame.image

(* The view draws its pictures in order.                                    *)
Drawn ==
  /\ canvas.pending # 0 => canvas.drawing # 0 /\ canvas.drawing =< canvas.pending
  /\ canvas.drawing # 0 => canvas.shown =< canvas.drawing

FrameOrder == Numbered /\ Drawn

(* Receiving a frame that is on its way keeps the order.                    *)
LEMMA ReceiveKeepsOrder ==
  ASSUME FramesTypeOK, FrameOrder, NEW f \in OnTheWay,
         canvas' = Receive(canvas, f) \/ canvas' = [Receive(canvas, f) EXCEPT !.asked = "done"],
         events' \subseteq events, screen' = screen
  PROVE  FrameOrder'
<1>1. /\ f \in Frame /\ f.image \in Nat /\ f.sequence \in Nat
      /\ canvas.sequence \in Nat /\ canvas.pending \in Nat
      /\ canvas.drawing \in Nat /\ canvas.shown \in Nat
      /\ screen.frame.image \in Nat /\ screen.frame.sequence \in Nat
      /\ \A g \in OnTheWay : g.image \in Nat /\ g.sequence \in Nat
  BY PaintsAssumption DEF FramesTypeOK, Canvas, Screen, Frame, Image, OnTheWay
<1>2. CASE f.image = 0 \/ f.sequence =< canvas.sequence
  <2>1. /\ canvas'.sequence = canvas.sequence /\ canvas'.pending = canvas.pending
        /\ canvas'.drawing = canvas.drawing /\ canvas'.shown = canvas.shown
        /\ canvas'.answer = canvas.answer
    BY <1>2 DEF Receive, FramesTypeOK, Canvas
  <2>2. Top' = Top /\ OnTheWay' \subseteq OnTheWay
    BY <2>1 DEF Top, OnTheWay
  <2>3. Numbered' BY <2>1, <2>2 DEF FrameOrder, Numbered
  <2> QED BY <2>1, <2>3 DEF FrameOrder, Drawn
<1>3. CASE ~(f.image = 0 \/ f.sequence =< canvas.sequence)
  <2>1. /\ canvas'.sequence = f.sequence /\ canvas'.shown = canvas.shown
        /\ canvas'.answer = canvas.answer
        /\ canvas'.drawing = IF canvas.drawing = 0 THEN f.image ELSE canvas.drawing
        /\ canvas'.pending = IF canvas.drawing = 0 THEN canvas.pending ELSE f.image
    BY <1>3 DEF Receive, Draw, FramesTypeOK, Canvas
  <2>2. f.image > Top BY <1>1, <1>3 DEF FrameOrder, Numbered
  <2>3. Top' = f.image /\ Drawn'
    BY <1>1, <1>3, <2>1, <2>2 DEF Top, FrameOrder, Drawn
  <2>4. OnTheWay' \subseteq OnTheWay
    BY <2>1 DEF OnTheWay
  <2>5. Numbered'
    BY <1>1, <2>1, <2>3, <2>4 DEF FrameOrder, Numbered
  <2> QED BY <2>3, <2>5 DEF FrameOrder
<1> QED BY <1>2, <1>3

(* So the frames are in order in every state.                               *)
LEMMA FrameOrderInvariant == FramesSpec => []FrameOrder
<1>1. FramesInit => FrameOrder
  BY DEF FramesInit, FrameOrder, Numbered, Drawn, Top, OnTheWay, NoFrame
<1>2. FramesInv /\ FrameOrder /\ [FramesNext]_framesVars => FrameOrder'
  <2> SUFFICES ASSUME FramesInv, FrameOrder, [FramesNext]_framesVars PROVE FrameOrder'
    OBVIOUS
  <2> USE DEF FramesInv
  <2>1. ASSUME canvas' = canvas, events' = events, screen'.frame = screen.frame
        PROVE  FrameOrder'
    BY <2>1 DEF FrameOrder, Numbered, Drawn, Top, OnTheWay
  <2>2. ASSUME Paint \/ Offer \/ Drain \/ StreamTakes \/ StreamTicks \/ End
        PROVE  FrameOrder'
    <3>1. canvas' = canvas /\ events' = events /\ screen'.frame = screen.frame
      BY <2>2 DEF Paint, Offer, Drain, StreamTakes, StreamTicks, End, FramesTypeOK, Screen
    <3> QED BY <2>1, <3>1
  <2>3. CASE StreamPublishes
    <3> DEFINE f == [image |-> screen.latest, sequence |-> screen.frame.sequence + 1]
    <3>1. /\ screen.frame.image \in Nat /\ screen.frame.sequence \in Nat
          /\ screen.latest \in Nat /\ canvas.sequence \in Nat /\ Top \in Nat
          /\ \A g \in OnTheWay : g.image \in Nat /\ g.sequence \in Nat
      BY PaintsAssumption DEF FramesTypeOK, Canvas, Screen, Frame, Image, OnTheWay, Top
    <3>2. screen'.frame = f /\ canvas' = canvas /\ events' \subseteq events \cup {f}
      BY <2>3 DEF StreamPublishes, Publish, FramesTypeOK, Screen
    <3>3. screen.frame.image < screen.latest
      BY <2>3 DEF StreamPublishes, Publish, Pipeline
    <3>4. f.image > screen.frame.image /\ f.sequence > screen.frame.sequence
      BY <3>1, <3>3
    <3>5. f.image \in Nat /\ f.sequence \in Nat BY <3>1
    <3>6. Top' = Top /\ OnTheWay' \subseteq OnTheWay \cup {f} /\ Drawn'
      BY <3>2 DEF Top, OnTheWay, FrameOrder, Drawn
    <3> HIDE DEF f
    <3>7. \A g \in OnTheWay : g.sequence < f.sequence /\ g.image < f.image
      BY <3>1, <3>4, <3>5 DEF FrameOrder, Numbered
    <3>8. Top < f.image /\ canvas.sequence < f.sequence
      BY <3>1, <3>4, <3>5 DEF FrameOrder, Numbered
    <3>9. Numbered'
      BY <3>1, <3>2, <3>4, <3>5, <3>6, <3>7, <3>8 DEF FrameOrder, Numbered
    <3> QED BY <3>6, <3>9 DEF FrameOrder
  <2>4. CASE Mount
    <3>1. /\ Top' = Top /\ OnTheWay' = OnTheWay /\ canvas'.sequence = canvas.sequence
          /\ Drawn'
      BY <2>4 DEF Mount, Top, OnTheWay, FramesTypeOK, Canvas, FrameOrder, Drawn
    <3> QED BY <2>4, <3>1 DEF Mount, FrameOrder, Numbered
  <2>5. CASE GetRDPFrame
    <3>1. /\ Top' = Top /\ OnTheWay' \subseteq OnTheWay /\ canvas'.sequence = canvas.sequence
          /\ Drawn'
      BY <2>5 DEF GetRDPFrame, Top, OnTheWay, FramesTypeOK, Canvas, FrameOrder, Drawn
    <3> QED BY <2>5, <3>1 DEF GetRDPFrame, FrameOrder, Numbered
  <2>6. CASE AnswerArrives
    BY <2>6, ReceiveKeepsOrder DEF AnswerArrives, OnTheWay
  <2>7. ASSUME NEW f \in events, FrameArrives(f) PROVE FrameOrder'
    <3>1. CASE canvas.asked = "no"
      BY <2>7, <3>1 DEF FrameArrives, FrameOrder, Numbered, Drawn, Top, OnTheWay
    <3>2. CASE canvas.asked # "no"
      BY <2>7, <3>2, ReceiveKeepsOrder DEF FrameArrives, OnTheWay
    <3> QED BY <3>1, <3>2
  <2>8. CASE ImageLoads
    <3>1. /\ Top' = Top /\ OnTheWay' = OnTheWay /\ canvas'.sequence = canvas.sequence
          /\ Drawn'
      BY <2>8 DEF ImageLoads, Top, OnTheWay, FramesTypeOK, Canvas, FrameOrder, Drawn
    <3> QED BY <2>8, <3>1 DEF ImageLoads, FrameOrder, Numbered
  <2>9. CASE UNCHANGED framesVars BY <2>1, <2>9 DEF framesVars
  <2> QED
    BY <2>2, <2>3, <2>4, <2>5, <2>6, <2>7, <2>8, <2>9 DEF FramesNext
<1> QED BY <1>1, <1>2, FramesInvariant, PTL DEF FramesSpec

(* The canvas never goes back to an older picture.                          *)
THEOREM NeverGoesBack == FramesSpec => DesktopNeverGoesBack
<1>1. FramesTypeOK /\ FrameOrder /\ [FramesNext]_framesVars
        => [canvas'.shown >= canvas.shown]_framesVars
  <2> SUFFICES ASSUME FramesTypeOK, FrameOrder, FramesNext
               PROVE  canvas'.shown >= canvas.shown
    OBVIOUS
  <2>1. canvas.shown \in Nat /\ canvas.drawing \in Nat
    BY PaintsAssumption DEF FramesTypeOK, Canvas, Image
  <2>2. CASE ImageLoads
    BY <2>1, <2>2 DEF ImageLoads, FramesTypeOK, Canvas, FrameOrder, Drawn
  <2>3. CASE AnswerArrives
    BY <2>1, <2>3 DEF AnswerArrives, Receive, Draw, FramesTypeOK, Canvas
  <2>4. ASSUME NEW f \in events, FrameArrives(f) PROVE canvas'.shown >= canvas.shown
    BY <2>1, <2>4 DEF FrameArrives, Receive, Draw, FramesTypeOK, Canvas
  <2>5. CASE Mount \/ GetRDPFrame
    <3>1. canvas'.shown = canvas.shown
      BY <2>5 DEF Mount, GetRDPFrame, FramesTypeOK, Canvas
    <3> QED BY <2>1, <3>1
  <2>6. CASE Paint \/ Offer \/ Drain \/ StreamTakes \/ StreamTicks \/ StreamPublishes \/ End
    BY <2>1, <2>6
    DEF Paint, Offer, Drain, StreamTakes, StreamTicks, StreamPublishes, Publish, End
  <2> QED BY <2>2, <2>3, <2>4, <2>5, <2>6 DEF FramesNext
<1> QED
  BY <1>1, FramesTypeCorrect, FrameOrderInvariant, PTL DEF FramesSpec, DesktopNeverGoesBack

(* The last picture is nowhere dropped.  Until the reader is through with   *)
(* it, it still offers it; then it is the one in the channel, or in         *)
(* stream's variable behind an empty channel, or in the frame behind both.  *)
PaintIsKept ==
  /\ screen.capturing = "again" => screen.images = 0
  /\ screen.capturing = "no" =>
       \/ screen.images = screen.painted
       \/ screen.images = 0 /\ screen.latest = screen.painted
       \/ screen.images = 0 /\ screen.latest = 0 /\ screen.frame.image = screen.painted

Received == canvas.sequence = screen.frame.sequence

(* Of the frames on the way one has the session's number, the session's;    *)
(* who has received its number has its picture.                             *)
FrameIsKnown ==
  /\ \A f \in OnTheWay : f.sequence = screen.frame.sequence => f = screen.frame
  /\ Received => Top = screen.frame.image

(* A view that has asked for the frame has the latest one, or will get it   *)
(* by an event or as the answer.                                            *)
FrameIsSent ==
  ~screen.ended /\ canvas.asked \in {"answered", "done"} =>
    \/ screen.frame \in events
    \/ canvas.asked = "answered" /\ canvas.answer = screen.frame
    \/ Received

LastPaint == PaintIsKept /\ FrameIsKnown /\ FrameIsSent

(* Receiving a frame that is on its way keeps what is known of the frames.  *)
LEMMA ReceiveKeepsKnown ==
  ASSUME FramesTypeOK, FrameOrder, FrameIsKnown, NEW f \in OnTheWay,
         canvas' = Receive(canvas, f) \/ canvas' = [Receive(canvas, f) EXCEPT !.asked = "done"],
         events' \subseteq events, screen' = screen
  PROVE  /\ FrameIsKnown'
         /\ Received \/ f = screen.frame => Received'
<1>1. /\ f \in Frame /\ f.image \in Nat /\ f.sequence \in Nat
      /\ canvas.sequence \in Nat /\ canvas.pending \in Nat
      /\ canvas.drawing \in Nat /\ canvas.shown \in Nat
      /\ screen.frame.image \in Nat /\ screen.frame.sequence \in Nat
  BY PaintsAssumption DEF FramesTypeOK, Canvas, Screen, Frame, Image, OnTheWay
<1>2. canvas.sequence =< screen.frame.sequence /\ f.sequence =< screen.frame.sequence
  BY DEF FrameOrder, Numbered
<1>3. OnTheWay' \subseteq OnTheWay
  BY DEF Receive, Draw, OnTheWay, FramesTypeOK, Canvas
<1>4. f.sequence > canvas.sequence => f.image # 0
  <2>1. Top \in Nat BY <1>1 DEF Top
  <2> QED BY <1>1, <2>1 DEF FrameOrder, Numbered
<1>5. CASE f.sequence =< canvas.sequence
  <2>1. /\ canvas'.sequence = canvas.sequence /\ canvas'.pending = canvas.pending
        /\ canvas'.drawing = canvas.drawing /\ canvas'.shown = canvas.shown
    BY <1>5 DEF Receive, FramesTypeOK, Canvas
  <2>2. Top' = Top /\ (Received' <=> Received)
    BY <2>1 DEF Top, Received
  <2>3. f = screen.frame => Received
    BY <1>1, <1>2, <1>5 DEF Received
  <2> QED BY <1>3, <2>2, <2>3 DEF FrameIsKnown
<1>6. CASE f.sequence > canvas.sequence
  <2>1. /\ canvas'.sequence = f.sequence /\ canvas'.shown = canvas.shown
        /\ canvas'.drawing = IF canvas.drawing = 0 THEN f.image ELSE canvas.drawing
        /\ canvas'.pending = IF canvas.drawing = 0 THEN canvas.pending ELSE f.image
    <3>1. Receive(canvas, f) = Draw(canvas, f)
      BY <1>1, <1>4, <1>6 DEF Receive
    <3> DEFINE d == Draw(canvas, f)
    <3>2. /\ d \in Canvas
          /\ d.sequence = f.sequence /\ d.shown = canvas.shown
          /\ d.drawing = IF canvas.drawing = 0 THEN f.image ELSE canvas.drawing
          /\ d.pending = IF canvas.drawing = 0 THEN canvas.pending ELSE f.image
      BY <1>1 DEF Draw, FramesTypeOK, Canvas, Frame
    <3>3. canvas' = d \/ canvas' = [d EXCEPT !.asked = "done"]
      BY <3>1
    <3> HIDE DEF d
    <3> QED BY <3>2, <3>3 DEF Canvas
  <2>2. Top' = f.image
    BY <1>1, <1>4, <1>6, <2>1 DEF Top, FrameOrder, Drawn
  <2>3. ~Received
    BY <1>1, <1>2, <1>6 DEF Received
  <2>4. Received' <=> f = screen.frame
    BY <2>1 DEF Received, FrameIsKnown
  <2> QED BY <1>3, <2>2, <2>3, <2>4 DEF FrameIsKnown
<1> QED BY <1>1, <1>5, <1>6

(* So it is in every state.                                                 *)
LEMMA LastPaintInvariant == FramesSpec => []LastPaint
<1>1. FramesInit => LastPaint
  BY DEF FramesInit, LastPaint, PaintIsKept, FrameIsKnown, FrameIsSent, Received, Top,
         OnTheWay, NoFrame
<1>2. FramesInv /\ FrameOrder /\ LastPaint /\ [FramesNext]_framesVars => LastPaint'
  <2> SUFFICES ASSUME FramesInv, FrameOrder, LastPaint, [FramesNext]_framesVars
               PROVE  LastPaint'
    OBVIOUS
  <2> USE DEF LastPaint
  <2>0. /\ screen \in Screen /\ canvas \in Canvas
        /\ screen.frame.image \in Nat /\ screen.frame.sequence \in Nat
        /\ screen.painted \in Nat /\ screen.latest \in Nat /\ screen.images \in Nat
        /\ canvas.sequence \in Nat
    BY PaintsAssumption DEF FramesInv, FramesTypeOK, Screen, Canvas, Frame, Image
  <2>1. ASSUME canvas' = canvas, events' = events, screen'.frame = screen.frame,
               screen.ended => screen'.ended
        PROVE  FrameIsKnown' /\ FrameIsSent'
    BY <2>1 DEF FrameIsKnown, FrameIsSent, Received, Top, OnTheWay
  <2>2. ASSUME Paint \/ Offer \/ Drain \/ StreamTakes \/ StreamTicks \/ End
        PROVE  LastPaint'
    <3>1. /\ canvas' = canvas /\ events' = events /\ screen'.frame = screen.frame
          /\ screen.ended => screen'.ended
      BY <2>0, <2>2 DEF Paint, Offer, Drain, StreamTakes, StreamTicks, End, Screen
    <3>2. ASSUME Paint PROVE PaintIsKept'
      BY <2>0, <3>2 DEF Paint, Screen, PaintIsKept
    <3>3. ASSUME Offer PROVE PaintIsKept'
      BY <2>0, <3>3 DEF Offer, Screen, PaintIsKept
    <3>4. ASSUME Drain PROVE PaintIsKept'
      BY <2>0, <3>4 DEF Drain, Screen, PaintIsKept
    <3>5. ASSUME StreamTakes PROVE PaintIsKept'
      BY <2>0, <3>5 DEF StreamTakes, Screen, PaintIsKept, FramesInv, Pipeline
    <3>6. ASSUME StreamTicks \/ End PROVE PaintIsKept'
      BY <2>0, <3>6 DEF StreamTicks, End, Screen, PaintIsKept
    <3>7. PaintIsKept' BY <2>2, <3>2, <3>3, <3>4, <3>5, <3>6
    <3> QED BY <2>1, <3>1, <3>7
  <2>3. CASE StreamPublishes
    <3> DEFINE f == [image |-> screen.latest, sequence |-> screen.frame.sequence + 1]
    <3>1. /\ screen'.frame = f /\ screen'.latest = 0 /\ canvas' = canvas
          /\ screen'.images = screen.images /\ screen'.painted = screen.painted
          /\ screen'.capturing = screen.capturing /\ screen'.ended = screen.ended
          /\ events' = IF screen.ended THEN events ELSE events \cup {f}
      BY <2>0, <2>3 DEF StreamPublishes, Publish, Screen
    <3>2. PaintIsKept'
      BY <2>0, <2>3, <3>1 DEF StreamPublishes, Publish, PaintIsKept, FramesInv, Pipeline
    <3>3. \A g \in OnTheWay : g.sequence =< screen.frame.sequence /\ g.sequence \in Nat
      BY PaintsAssumption
      DEF FrameOrder, Numbered, FramesInv, FramesTypeOK, Screen, Canvas, Frame, Image, OnTheWay
    <3>4. canvas.sequence =< screen.frame.sequence
      BY DEF FrameOrder, Numbered
    <3>5. f.sequence = screen.frame.sequence + 1 OBVIOUS
    <3>6. OnTheWay' \subseteq OnTheWay \cup {f} BY <3>1 DEF OnTheWay
    <3> HIDE DEF f
    <3>7. FrameIsKnown'
      BY <2>0, <3>1, <3>3, <3>4, <3>5, <3>6 DEF FrameIsKnown, Received
    <3>8. FrameIsSent' BY <3>1 DEF FrameIsSent
    <3> QED BY <3>2, <3>7, <3>8
  <2>4. ASSUME screen' = screen PROVE PaintIsKept'
    BY <2>4 DEF PaintIsKept
  <2>5. CASE Mount
    <3>1. /\ canvas'.sequence = canvas.sequence /\ canvas'.pending = canvas.pending
          /\ canvas'.drawing = canvas.drawing /\ canvas'.shown = canvas.shown
          /\ canvas'.answer = canvas.answer /\ canvas'.asked = "asked"
      BY <2>0, <2>5 DEF Mount, Canvas
    <3> QED
      BY <2>4, <2>5, <3>1
      DEF Mount, FrameIsKnown, FrameIsSent, Received, Top, OnTheWay
  <2>6. CASE GetRDPFrame
    <3>1. /\ canvas'.sequence = canvas.sequence /\ canvas'.pending = canvas.pending
          /\ canvas'.drawing = canvas.drawing /\ canvas'.shown = canvas.shown
          /\ canvas'.answer = screen.frame /\ canvas'.asked = "answered"
      BY <2>0, <2>6 DEF GetRDPFrame, Canvas
    <3> QED
      BY <2>4, <2>6, <3>1
      DEF GetRDPFrame, FrameIsKnown, FrameIsSent, Received, Top, OnTheWay
  <2>7. CASE AnswerArrives
    <3>1. FrameIsKnown' /\ (Received \/ canvas.answer = screen.frame => Received')
      BY <2>7, ReceiveKeepsKnown DEF AnswerArrives, OnTheWay, FramesInv
    <3> QED BY <2>4, <2>7, <3>1 DEF AnswerArrives, FrameIsSent
  <2>8. ASSUME NEW f \in events, FrameArrives(f) PROVE LastPaint'
    <3>1. CASE canvas.asked = "no"
      BY <2>4, <2>8, <3>1
      DEF FrameArrives, FrameIsKnown, FrameIsSent, Received, Top, OnTheWay
    <3>2. CASE canvas.asked # "no"
      <4>1. FrameIsKnown' /\ (Received \/ f = screen.frame => Received')
        BY <2>8, <3>2, ReceiveKeepsKnown DEF FrameArrives, OnTheWay, FramesInv
      <4>2. canvas'.asked = canvas.asked /\ canvas'.answer = canvas.answer
        BY <2>0, <2>8, <3>2 DEF FrameArrives, Receive, Draw, Canvas
      <4> QED BY <2>4, <2>8, <4>1, <4>2 DEF FrameArrives, FrameIsSent
    <3> QED BY <3>1, <3>2
  <2>9. CASE ImageLoads
    <3>1. /\ Top' = Top /\ OnTheWay' = OnTheWay /\ canvas'.sequence = canvas.sequence
          /\ canvas'.answer = canvas.answer /\ canvas'.asked = canvas.asked
      BY <2>0, <2>9 DEF ImageLoads, Top, OnTheWay, Canvas, FrameOrder, Drawn
    <3> QED BY <2>4, <2>9, <3>1 DEF ImageLoads, FrameIsKnown, FrameIsSent, Received
  <2>10. CASE UNCHANGED framesVars
    BY <2>1, <2>4, <2>10 DEF framesVars
  <2> QED
    BY <2>2, <2>3, <2>5, <2>6, <2>7, <2>8, <2>9, <2>10 DEF FramesNext
<1> QED BY <1>1, <1>2, FramesInvariant, FrameOrderInvariant, PTL DEF FramesSpec

(* Nothing of the session and of its view has a step to take: the reader    *)
(* waits for the server, stream for a picture, no event is on its way and   *)
(* nothing is being drawn.                                                  *)
Resting ==
  /\ ~screen.ended /\ screen.capturing = "no"
  /\ screen.images = 0 /\ screen.latest = 0 /\ events = {}
  /\ canvas.asked = "done" /\ canvas.drawing = 0

(* What the three places that drop pictures let through is enough: a        *)
(* desktop that rests shows what the server painted last, for any number    *)
(* of paint batches.                                                        *)
THEOREM RestingDesktopsAreCurrent ==
  FramesSpec => [](Resting => canvas.shown = screen.painted)
<1>1. FramesInv /\ FrameOrder /\ LastPaint => (Resting => canvas.shown = screen.painted)
  <2> SUFFICES ASSUME FramesInv, FrameOrder, LastPaint, Resting
               PROVE  canvas.shown = screen.painted
    OBVIOUS
  <2>1. Top = canvas.shown
    BY DEF FrameOrder, Drawn, Resting, Top
  <2>2. Received
    BY DEF LastPaint, FrameIsSent, Resting
  <2>3. screen.frame.image = screen.painted
    BY PaintsAssumption
    DEF LastPaint, PaintIsKept, Resting, FramesInv, FramesTypeOK, Pipeline, Screen, Frame, Image
  <2> QED BY <2>1, <2>2, <2>3 DEF LastPaint, FrameIsKnown
<1> QED BY <1>1, FramesInvariant, FrameOrderInvariant, LastPaintInvariant, PTL

-----------------------------------------------------------------------------
(* The VNC bridge *)

(* A session stays one when a field is set to a value of its.               *)
LEMMA VncFields ==
  ASSUME NEW r \in VncSession
  PROVE  /\ [r EXCEPT !.call = "stored"] \in VncSession
         /\ [r EXCEPT !.canceled = TRUE] \in VncSession
         /\ [r EXCEPT !.remote = "closed"] \in VncSession
         /\ \A x \in {"none", "open", "closed"} : [r EXCEPT !.listener = x] \in VncSession
         /\ \A x \in {"late", "closed"} : [r EXCEPT !.server = x] \in VncSession
         /\ [r EXCEPT !.stored = TRUE] \in VncSession
         /\ [r EXCEPT !.stored = FALSE] \in VncSession
         /\ \A x \in {"none", "armed", "fired", "stopped"} :
              [r EXCEPT !.timer = x] \in VncSession
         /\ \A x \in {"no", "taken", "released", "announced"} :
              [r EXCEPT !.close = x] \in VncSession
         /\ [r EXCEPT !.claimed = TRUE] \in VncSession
<1>1. [r EXCEPT !.call = "stored"] \in VncSession BY DEF VncSession
<1>2. [r EXCEPT !.canceled = TRUE] \in VncSession BY DEF VncSession
<1>3. [r EXCEPT !.remote = "closed"] \in VncSession BY DEF VncSession
<1>4. ASSUME NEW x \in {"none", "open", "closed"}
      PROVE  [r EXCEPT !.listener = x] \in VncSession
  BY DEF VncSession
<1>5. ASSUME NEW x \in {"late", "closed"} PROVE [r EXCEPT !.server = x] \in VncSession
  BY DEF VncSession
<1>6. [r EXCEPT !.stored = TRUE] \in VncSession BY DEF VncSession
<1>7. [r EXCEPT !.stored = FALSE] \in VncSession BY DEF VncSession
<1>8. ASSUME NEW x \in {"none", "armed", "fired", "stopped"}
      PROVE  [r EXCEPT !.timer = x] \in VncSession
  BY DEF VncSession
<1>9. ASSUME NEW x \in {"no", "taken", "released", "announced"}
      PROVE  [r EXCEPT !.close = x] \in VncSession
  BY DEF VncSession
<1>10. [r EXCEPT !.claimed = TRUE] \in VncSession BY DEF VncSession
<1> QED
  BY <1>1, <1>2, <1>3, <1>4, <1>5, <1>6, <1>7, <1>8, <1>9, <1>10

(* Taking a session from the map leaves a session.                          *)
LEMMA TakeVncType ==
  ASSUME NEW r \in VncSession
  PROVE  TakeVnc(r) \in VncSession
<1> DEFINE c == IF r.stored THEN "taken" ELSE r.close
<1>1. c \in {"no", "taken", "released", "announced"}
  BY DEF VncSession
<1> HIDE DEF c
<1>2. [[r EXCEPT !.stored = FALSE] EXCEPT !.close = c] \in VncSession
  BY <1>1, VncFields
<1>3. [[r EXCEPT !.stored = FALSE] EXCEPT !.close = c]
        = [r EXCEPT !.stored = FALSE, !.close = c]
  BY DEF VncSession
<1>4. [r EXCEPT !.stored = FALSE, !.close = c] \in VncSession BY <1>2, <1>3
<1> QED BY <1>4 DEF TakeVnc, c

(* Every state of the VNC sessions and their viewers is well typed.         *)
THEOREM VncTypeCorrect == VncSpec => []VncTypeOK
<1>1. VncInit => VncTypeOK
  BY DEF VncInit, VncTypeOK, VncSession, Viewing
<1>2. VncTypeOK /\ [VncNext]_vncVars => VncTypeOK'
  <2> SUFFICES ASSUME VncTypeOK, [VncNext]_vncVars PROVE VncTypeOK'
    OBVIOUS
  <2>1. ASSUME NEW s \in VncIds
        PROVE  vnc[s] \in VncSession /\ TakeVnc(vnc[s]) \in VncSession
    BY <2>1, TakeVncType DEF VncTypeOK
  <2>2. ASSUME NEW s \in VncIds, NEW r \in VncSession, VncBecomes(s, r)
        PROVE  vnc' \in [VncIds -> VncSession]
    BY <2>2 DEF VncBecomes, VncTypeOK
  <2>3. ASSUME NEW s \in VncIds, NEW v \in Viewers, NEW from, NEW to \in Viewing,
               ViewerGo(s, v, from, to)
        PROVE  viewer' \in [VncIds -> [Viewers -> Viewing]]
    BY <2>3 DEF ViewerGo, VncTypeOK
  <2>4. ASSUME NEW s \in VncIds, NEW r \in VncSession, VncAlone(s, r)
        PROVE  VncTypeOK'
    BY <2>2, <2>4 DEF VncAlone, VncTypeOK
  <2>5. ASSUME NEW s \in VncIds, VncBegin(s) PROVE VncTypeOK'
    BY <2>1, <2>4, <2>5 DEF VncBegin, VncSession
  <2>6. ASSUME NEW s \in VncIds, VncDials(s) PROVE VncTypeOK'
    BY <2>1, <2>4, <2>6 DEF VncDials, VncSession
  <2>7. ASSUME NEW s \in VncIds, VncListenFails(s) PROVE VncTypeOK'
    BY <2>1, <2>4, <2>7 DEF VncListenFails, VncSession
  <2>8. ASSUME NEW s \in VncIds, VncUndone(s) PROVE VncTypeOK'
    BY <2>1, <2>4, <2>8 DEF VncUndone, VncSession
  <2>9. ASSUME NEW s \in VncIds, VncReturns(s) PROVE VncTypeOK'
    BY <2>1, <2>4, <2>9 DEF VncReturns, VncSession
  <2>10. ASSUME NEW s \in VncIds, VncCancel(s) PROVE VncTypeOK'
    BY <2>1, <2>4, <2>10 DEF VncCancel, VncSession
  <2>11. ASSUME NEW s \in VncIds, RemoteEnds(s) PROVE VncTypeOK'
    BY <2>1, <2>4, <2>11 DEF RemoteEnds, VncSession
  <2>12. ASSUME NEW s \in VncIds, VncStore(s) PROVE VncTypeOK'
    <3> DEFINE r1 == [vnc[s] EXCEPT !.call = "stored"]
    <3> DEFINE r2 == [r1 EXCEPT !.listener = "open"]
    <3> DEFINE r3 == [r2 EXCEPT !.timer = "armed"]
    <3> DEFINE r4 == [r3 EXCEPT !.stored = TRUE]
    <3>1. r4 \in VncSession
      BY <2>1, VncFields
    <3>2. r4 = [vnc[s] EXCEPT !.call = "stored", !.listener = "open",
                              !.timer = "armed", !.stored = TRUE]
      BY <2>1 DEF VncSession
    <3> HIDE DEF r1, r2, r3, r4
    <3> QED BY <2>4, <2>12, <3>1, <3>2 DEF VncStore
  <2>13. ASSUME NEW s \in VncIds, VncServing(s) PROVE VncTypeOK'
    <3>1. CASE vnc[s].server = "starting" /\ VncAlone(s, [vnc[s] EXCEPT !.server = "on"])
      BY <2>1, <2>4, <3>1 DEF VncSession
    <3> DEFINE r1 == [vnc[s] EXCEPT !.server = "closed"]
    <3> DEFINE r2 == [r1 EXCEPT !.listener = "closed"]
    <3>2. r2 \in VncSession BY <2>1, VncFields
    <3>3. r2 = [vnc[s] EXCEPT !.server = "closed", !.listener = "closed"]
      BY <2>1 DEF VncSession
    <3> HIDE DEF r1, r2
    <3> QED BY <2>4, <2>13, <3>1, <3>2, <3>3 DEF VncServing
  <2>14. ASSUME NEW s \in VncIds, VncRelease(s) PROVE VncTypeOK'
    <3>0. Stopped(vnc[s].timer) \in {"none", "armed", "fired", "stopped"}
      BY <2>1 DEF Stopped, VncSession
    <3> DEFINE r1 == [vnc[s] EXCEPT !.close = "released"]
    <3> DEFINE r2 == [r1 EXCEPT !.canceled = TRUE]
    <3> DEFINE r3 == [r2 EXCEPT !.remote = "closed"]
    <3> DEFINE r4 == [r3 EXCEPT !.timer = Stopped(vnc[s].timer)]
    <3>1. r4 \in VncSession
      BY <2>1, <3>0, VncFields
    <3>2. r4 = [vnc[s] EXCEPT !.close = "released", !.canceled = TRUE,
                              !.remote = "closed", !.timer = Stopped(vnc[s].timer)]
      BY <2>1 DEF VncSession
    <3> HIDE DEF r1, r2, r3, r4
    <3> QED BY <2>4, <2>14, <3>1, <3>2 DEF VncRelease
  <2>15. ASSUME NEW s \in VncIds, VncAnnounce(s) PROVE VncTypeOK'
    <3>0. (IF vnc[s].server = "on" THEN "closed" ELSE vnc[s].listener)
            \in {"none", "open", "closed"}
      BY <2>1 DEF VncSession
    <3> DEFINE r1 == [vnc[s] EXCEPT !.close = "announced"]
    <3> DEFINE l == IF vnc[s].server = "on" THEN "closed" ELSE vnc[s].listener
    <3> DEFINE e == IF vnc[s].server = "starting" THEN "late" ELSE "closed"
    <3> DEFINE r2 == [r1 EXCEPT !.listener = l]
    <3> DEFINE r3 == [r2 EXCEPT !.server = e]
    <3>1. r3 \in VncSession
      BY <2>1, <3>0, VncFields
    <3>2. r3 = [vnc[s] EXCEPT !.close = "announced", !.listener = l, !.server = e]
      BY <2>1 DEF VncSession
    <3> HIDE DEF r1, r2, r3
    <3> QED BY <2>4, <2>15, <3>1, <3>2 DEF VncAnnounce
  <2>16. ASSUME NEW s \in VncIds, VncChecks(s) PROVE VncTypeOK'
    <3>1. CASE ~vnc[s].canceled BY <2>1, <2>4, <2>16, <3>1 DEF VncChecks, VncSession
    <3>2. CASE vnc[s].canceled
      <4>1. [TakeVnc(vnc[s]) EXCEPT
               !.call = IF vnc[s].stored THEN "undoing" ELSE "undone"] \in VncSession
        BY <2>1 DEF VncSession
      <4> QED BY <2>4, <2>16, <3>2, <4>1 DEF VncChecks
    <3> QED BY <3>1, <3>2
  <2>17. ASSUME NEW s \in VncIds, VncExpires(s) PROVE VncTypeOK'
    <3>1. [TakeVnc(vnc[s]) EXCEPT !.timer = "fired"] \in VncSession
      BY <2>1 DEF VncSession
    <3> QED BY <2>4, <2>17, <3>1 DEF VncExpires
  <2>18. ASSUME NEW s \in VncIds, VncUserCloses(s) PROVE VncTypeOK'
    BY <2>1, <2>4, <2>18 DEF VncUserCloses
  <2>19. ASSUME NEW s \in VncIds, NEW v \in Viewers, ViewerConnects(s, v)
         PROVE  VncTypeOK'
    BY <2>3, <2>19 DEF ViewerConnects, VncTypeOK, Viewing
  <2>20. ASSUME NEW s \in VncIds, NEW v \in Viewers, ViewerAuthenticates(s, v)
         PROVE  VncTypeOK'
    BY <2>3, <2>20 DEF ViewerAuthenticates, VncTypeOK, Viewing
  <2>21. ASSUME NEW s \in VncIds, NEW v \in Viewers, ViewerGreets(s, v)
         PROVE  VncTypeOK'
    BY <2>3, <2>21 DEF ViewerGreets, VncTypeOK, Viewing
  <2>22. ASSUME NEW s \in VncIds, NEW v \in Viewers, ViewerClaims(s, v)
         PROVE  VncTypeOK'
    <3>1. viewer' \in [VncIds -> [Viewers -> Viewing]]
      BY <2>3, <2>22 DEF ViewerClaims, Viewing
    <3>4. [vnc[s] EXCEPT !.claimed = TRUE] \in VncSession BY <2>1, VncFields
    <3>5. vnc' \in [VncIds -> VncSession] BY <2>2, <2>22, <3>4 DEF ViewerClaims
    <3> QED BY <3>1, <3>5 DEF VncTypeOK
  <2>23. ASSUME NEW s \in VncIds, NEW v \in Viewers, ViewerStopsTimer(s, v)
         PROVE  VncTypeOK'
    <3>1. viewer' \in [VncIds -> [Viewers -> Viewing]]
      BY <2>3, <2>23 DEF ViewerStopsTimer, Viewing
    <3>2. Stopped(vnc[s].timer) \in {"none", "armed", "fired", "stopped"}
      BY <2>1 DEF Stopped, VncSession
    <3>4. [vnc[s] EXCEPT !.timer = Stopped(vnc[s].timer)] \in VncSession
      BY <2>1, <3>2, VncFields
    <3>5. vnc' \in [VncIds -> VncSession] BY <2>2, <2>23, <3>4 DEF ViewerStopsTimer
    <3> QED BY <3>1, <3>5 DEF VncTypeOK
  <2>24. ASSUME NEW s \in VncIds, NEW v \in Viewers, ViewerStreamEnds(s, v)
         PROVE  VncTypeOK'
    <3>1. viewer' \in [VncIds -> [Viewers -> Viewing]]
      BY <2>3, <2>24 DEF ViewerStreamEnds, Viewing
    <3>2. [[vnc[s] EXCEPT !.canceled = TRUE] EXCEPT !.remote = "closed"] \in VncSession
      BY <2>1, VncFields
    <3>3. [[vnc[s] EXCEPT !.canceled = TRUE] EXCEPT !.remote = "closed"]
            = [vnc[s] EXCEPT !.canceled = TRUE, !.remote = "closed"]
      BY <2>1 DEF VncSession
    <3>4. [vnc[s] EXCEPT !.canceled = TRUE, !.remote = "closed"] \in VncSession
      BY <3>2, <3>3
    <3>5. vnc' \in [VncIds -> VncSession] BY <2>2, <2>24, <3>4 DEF ViewerStreamEnds
    <3> QED BY <3>1, <3>5 DEF VncTypeOK
  <2>25. ASSUME NEW s \in VncIds, NEW v \in Viewers, ViewerLeaves(s, v)
         PROVE  VncTypeOK'
    <3>1. viewer' \in [VncIds -> [Viewers -> Viewing]]
      BY <2>3, <2>25 DEF ViewerLeaves, Viewing
    <3>2. vnc' \in [VncIds -> VncSession] BY <2>1, <2>2, <2>25 DEF ViewerLeaves
    <3> QED BY <3>1, <3>2 DEF VncTypeOK
  <2>26. CASE UNCHANGED vncVars BY <2>26 DEF vncVars, VncTypeOK
  <2> QED
    BY <2>5, <2>6, <2>7, <2>8, <2>9, <2>10, <2>11, <2>12, <2>13, <2>14,
       <2>15, <2>16, <2>17, <2>18, <2>19, <2>20, <2>21, <2>22, <2>23,
       <2>24, <2>25, <2>26
    DEF VncNext, VncCallStep, ViewerStep
<1> QED BY <1>1, <1>2, PTL DEF VncSpec

(* Before a session is stored it holds no connection, or connectVNC has it; *)
(* no server runs for it yet, so there is no viewer, and no timer to come.  *)
VncOwned(r) ==
  /\ r.remote \in {"open", "ended"} => r.call = "dialed" \/ r.stored \/ r.close = "taken"
  /\ r.call \in {"idle", "dialing"} => r.remote \notin {"open", "ended"}
  /\ r.call \in {"idle", "dialing", "dialed"} => r.server \notin {"starting", "on", "late"}

(* All that the next proofs use of the type of a session: its fields, with  *)
(* one set for the states of all of them.                                   *)
VncStates ==
  {"idle", "dialing", "dialed", "stored", "clearing", "undoing", "undone", "failing",
   "failed", "returned", "none", "open", "ended", "closed", "no", "starting", "on",
   "late", "armed", "fired", "stopped", "taken", "released", "announced"}

VncShape ==
  [call: VncStates, canceled: BOOLEAN, remote: VncStates, listener: VncStates,
   server: VncStates, stored: BOOLEAN, timer: VncStates, close: VncStates,
   claimed: BOOLEAN]

VncInv == \A s \in VncIds : VncOwned(vnc[s])

(* A session has the shape on which its ownership is proved.                *)
LEMMA VncSessionsHaveShape == VncSession \subseteq VncShape
<1> DEFINE Call == {"idle", "dialing", "dialed", "stored", "clearing", "undoing", "undone",
                    "failing", "failed", "returned"}
           Remote == {"none", "open", "ended", "closed"}
           Heard == {"none", "open", "closed"}
           Server == {"no", "starting", "on", "late", "closed"}
           Timer == {"none", "armed", "fired", "stopped"}
           Close == {"no", "taken", "released", "announced"}
<1>1. Call \subseteq VncStates BY DEF VncStates
<1>3. Remote \subseteq VncStates BY DEF VncStates
<1>4. Heard \subseteq VncStates BY DEF VncStates
<1>5. Server \subseteq VncStates BY DEF VncStates
<1>6. Timer \subseteq VncStates BY DEF VncStates
<1>7. Close \subseteq VncStates BY DEF VncStates
<1>2. VncSession =
        [call: Call, canceled: BOOLEAN, remote: Remote, listener: Heard,
         server: Server, stored: BOOLEAN, timer: Timer, close: Close, claimed: BOOLEAN]
  BY DEF VncSession
<1> HIDE DEF Call, Remote, Heard, Server, Timer, Close
<1> QED BY <1>1, <1>2, <1>3, <1>4, <1>5, <1>6, <1>7 DEF VncShape

(* Taking a session from the map keeps what owns its parts.                 *)
LEMMA TakeVncOwned ==
  ASSUME NEW r \in VncShape, VncOwned(r)
  PROVE  VncOwned(TakeVnc(r))
<1>1. CASE r.stored BY <1>1 DEF TakeVnc, VncOwned, VncShape
<1>2. CASE ~r.stored BY <1>2 DEF TakeVnc, VncOwned, VncShape
<1> QED BY <1>1, <1>2

(* So every VNC session is owned in every state.                            *)
LEMMA VncInvariant == VncSpec => []VncInv
<1>1. VncInit => VncInv
  <2> SUFFICES ASSUME VncInit, NEW s \in VncIds PROVE VncOwned(vnc[s])
    BY DEF VncInv
  <2>1. vnc[s].call = "idle" /\ vnc[s].remote = "none" /\ vnc[s].server = "no"
    BY DEF VncInit
  <2> QED BY <2>1 DEF VncOwned
<1>2. VncTypeOK /\ VncInv /\ [VncNext]_vncVars => VncInv'
  <2> SUFFICES ASSUME VncTypeOK, VncInv, [VncNext]_vncVars PROVE VncInv'
    OBVIOUS
  <2>1. ASSUME NEW s \in VncIds
        PROVE  /\ vnc[s] \in VncShape /\ VncOwned(vnc[s])
               /\ TakeVnc(vnc[s]) \in VncShape /\ VncOwned(TakeVnc(vnc[s]))
    <3>1. vnc[s] \in VncSession /\ VncOwned(vnc[s]) BY <2>1 DEF VncTypeOK, VncInv
    <3> QED BY <3>1, VncSessionsHaveShape, TakeVncType, TakeVncOwned
  <2>2. ASSUME NEW s \in VncIds, NEW r, VncOwned(r), VncBecomes(s, r)
        PROVE  VncInv'
    BY <2>2 DEF VncBecomes, VncTypeOK, VncInv
  <2>3. ASSUME NEW s \in VncIds, VncBegin(s) PROVE VncInv'
    BY <2>1, <2>2, <2>3 DEF VncBegin, VncAlone, VncShape, VncOwned
  <2>4. ASSUME NEW s \in VncIds, VncDials(s) PROVE VncInv'
    BY <2>1, <2>2, <2>4 DEF VncDials, VncAlone, VncShape, VncOwned
  <2>5. ASSUME NEW s \in VncIds, VncListenFails(s) PROVE VncInv'
    BY <2>1, <2>2, <2>5 DEF VncListenFails, VncAlone, VncShape, VncOwned
  <2>6. ASSUME NEW s \in VncIds, VncStore(s) PROVE VncInv'
    BY <2>1, <2>2, <2>6 DEF VncStore, VncAlone, VncShape, VncOwned
  <2>7. ASSUME NEW s \in VncIds, VncUndone(s) PROVE VncInv'
    BY <2>1, <2>2, <2>7 DEF VncUndone, VncAlone, VncShape, VncOwned
  <2>8. ASSUME NEW s \in VncIds, VncReturns(s) PROVE VncInv'
    BY <2>1, <2>2, <2>8 DEF VncReturns, VncAlone, VncShape, VncOwned
  <2>9. ASSUME NEW s \in VncIds, VncCancel(s) PROVE VncInv'
    BY <2>1, <2>2, <2>9 DEF VncCancel, VncAlone, VncShape, VncOwned
  <2>10. ASSUME NEW s \in VncIds, VncServing(s) PROVE VncInv'
    BY <2>1, <2>2, <2>10 DEF VncServing, VncAlone, VncShape, VncOwned
  <2>11. ASSUME NEW s \in VncIds, VncRelease(s) PROVE VncInv'
    BY <2>1, <2>2, <2>11 DEF VncRelease, VncAlone, VncShape, VncOwned
  <2>12. ASSUME NEW s \in VncIds, VncAnnounce(s) PROVE VncInv'
    BY <2>1, <2>2, <2>12 DEF VncAnnounce, VncAlone, VncShape, VncOwned
  <2>13. ASSUME NEW s \in VncIds, RemoteEnds(s) PROVE VncInv'
    BY <2>1, <2>2, <2>13 DEF RemoteEnds, VncAlone, VncShape, VncOwned
  <2>14. ASSUME NEW s \in VncIds, VncChecks(s) PROVE VncInv'
    <3>1. CASE ~vnc[s].canceled
      BY <2>1, <2>2, <2>14, <3>1 DEF VncChecks, VncAlone, VncShape, VncOwned
    <3>2. CASE vnc[s].canceled
      <4>1. TakeVnc(vnc[s]).stored = FALSE
        BY <2>1 DEF TakeVnc, VncShape
      <4>2. VncOwned([TakeVnc(vnc[s]) EXCEPT
                        !.call = IF vnc[s].stored THEN "undoing" ELSE "undone"])
        <5>1. TakeVnc(vnc[s]).call = "stored"
          BY <2>1, <2>14 DEF TakeVnc, VncShape, VncChecks
        <5> QED BY <2>1, <5>1 DEF VncShape, VncOwned
      <4> QED BY <2>2, <2>14, <3>2, <4>2 DEF VncChecks, VncAlone
    <3> QED BY <3>1, <3>2
  <2>15. ASSUME NEW s \in VncIds, VncExpires(s) PROVE VncInv'
    <3>1. VncOwned([TakeVnc(vnc[s]) EXCEPT !.timer = "fired"])
      BY <2>1 DEF VncShape, VncOwned
    <3> QED BY <2>2, <2>15, <3>1 DEF VncExpires, VncAlone
  <2>16. ASSUME NEW s \in VncIds, VncUserCloses(s) PROVE VncInv'
    BY <2>1, <2>2, <2>16 DEF VncUserCloses, VncAlone
  <2>17. ASSUME NEW s \in VncIds, NEW v \in Viewers,
             ViewerConnects(s, v) \/ ViewerAuthenticates(s, v) \/ ViewerGreets(s, v)
         PROVE  VncInv'
    BY <2>17 DEF ViewerConnects, ViewerAuthenticates, ViewerGreets, VncInv
  <2>18. ASSUME NEW s \in VncIds, NEW v \in Viewers, ViewerClaims(s, v) PROVE VncInv'
    BY <2>1, <2>2, <2>18 DEF ViewerClaims, VncShape, VncOwned
  <2>19. ASSUME NEW s \in VncIds, NEW v \in Viewers, ViewerStopsTimer(s, v) PROVE VncInv'
    BY <2>1, <2>2, <2>19 DEF ViewerStopsTimer, VncShape, VncOwned
  <2>20. ASSUME NEW s \in VncIds, NEW v \in Viewers, ViewerStreamEnds(s, v) PROVE VncInv'
    BY <2>1, <2>2, <2>20 DEF ViewerStreamEnds, VncShape, VncOwned
  <2>21. ASSUME NEW s \in VncIds, NEW v \in Viewers, ViewerLeaves(s, v) PROVE VncInv'
    BY <2>1, <2>2, <2>21 DEF ViewerLeaves
  <2>22. CASE UNCHANGED vncVars BY <2>22 DEF vncVars, VncInv
  <2> QED
    BY <2>3, <2>4, <2>5, <2>6, <2>7, <2>8, <2>9, <2>10, <2>11, <2>12,
       <2>13, <2>14, <2>15, <2>16, <2>17, <2>18, <2>19, <2>20, <2>21,
       <2>22
    DEF VncNext, VncCallStep, ViewerStep
<1> QED BY <1>1, <1>2, VncTypeCorrect, PTL DEF VncSpec

(* No connection to a VNC server is left behind, for any sessions and any   *)
(* viewers.                                                                 *)
THEOREM VncRemotesOwned == VncSpec => []RemotesAreOwned
<1>1. VncInv => RemotesAreOwned
  BY DEF VncInv, VncOwned, RemotesAreOwned
<1> QED BY <1>1, VncInvariant, PTL

(* The first viewer that claims a session is the only one that gets on, the *)
(* timer is stopped before it is greeted, and there is no viewer before the *)
(* session is stored, so that no timer is armed behind its back.            *)
Claiming == {"claiming", "greeting", "streaming"}

ViewersFit(r, w) ==
  /\ r.call \in {"idle", "dialing", "dialed"} => \A v \in Viewers : w[v] = "away"
  /\ \A v \in Viewers : w[v] \in Claiming =>
       r.claimed /\ \A u \in Viewers \ {v} : w[u] \notin Claiming
  /\ \A v \in Viewers : w[v] \in {"greeting", "streaming"} => r.timer # "armed"

ViewerInv == \A s \in VncIds : ViewersFit(vnc[s], viewer[s])

(* So the viewers fit their session in every state.                         *)
LEMMA ViewerInvariant == VncSpec => []ViewerInv
<1>1. VncInit => ViewerInv
  <2> SUFFICES ASSUME VncInit, NEW s \in VncIds PROVE ViewersFit(vnc[s], viewer[s])
    BY DEF ViewerInv
  <2>1. \A v \in Viewers : viewer[s][v] = "away" BY DEF VncInit
  <2> QED BY <2>1 DEF ViewersFit, Claiming
<1>2. VncTypeOK /\ VncInv /\ ViewerInv /\ [VncNext]_vncVars => ViewerInv'
  <2> SUFFICES ASSUME VncTypeOK, VncInv, ViewerInv, [VncNext]_vncVars PROVE ViewerInv'
    OBVIOUS
  <2>1. ASSUME NEW s \in VncIds
        PROVE  /\ vnc[s] \in VncShape /\ TakeVnc(vnc[s]) \in VncShape
               /\ viewer[s] \in [Viewers -> Viewing]
               /\ VncOwned(vnc[s]) /\ ViewersFit(vnc[s], viewer[s])
    <3>1. vnc[s] \in VncSession BY <2>1 DEF VncTypeOK
    <3>2. viewer[s] \in [Viewers -> Viewing] BY <2>1 DEF VncTypeOK
    <3> QED BY <2>1, <3>1, <3>2, VncSessionsHaveShape, TakeVncType DEF VncInv, ViewerInv
  (* A step of which the viewers see nothing.                               *)
  <2>2. ASSUME NEW s \in VncIds, NEW r, VncAlone(s, r),
               r.call \in {"idle", "dialing", "dialed"}
                 => vnc[s].call \in {"idle", "dialing", "dialed"},
               r.claimed = vnc[s].claimed,
               r.timer = "armed" => vnc[s].timer = "armed" \/ vnc[s].call = "dialed"
        PROVE  ViewerInv'
    <3>1. ViewersFit(r, viewer[s])
      BY <2>1, <2>2 DEF ViewersFit, Claiming
    <3> QED BY <2>2, <3>1 DEF VncAlone, VncBecomes, VncTypeOK, ViewerInv
  (* A step of one viewer, which is not away.                               *)
  <2>3. ASSUME NEW s \in VncIds, NEW v \in Viewers, NEW from, NEW to, NEW r,
               ViewerGo(s, v, from, to), VncBecomes(s, r),
               ViewersFit(r, [viewer[s] EXCEPT ![v] = to])
        PROVE  ViewerInv'
    BY <2>1, <2>3 DEF ViewerGo, VncBecomes, VncTypeOK, ViewerInv
  <2>4. ASSUME NEW s \in VncIds, VncBegin(s) PROVE ViewerInv'
    BY <2>1, <2>2, <2>4 DEF VncBegin, VncShape
  <2>5. ASSUME NEW s \in VncIds, VncDials(s) PROVE ViewerInv'
    BY <2>1, <2>2, <2>5 DEF VncDials, VncShape
  <2>6. ASSUME NEW s \in VncIds, VncListenFails(s) PROVE ViewerInv'
    BY <2>1, <2>2, <2>6 DEF VncListenFails, VncShape
  <2>7. ASSUME NEW s \in VncIds, VncStore(s) PROVE ViewerInv'
    BY <2>1, <2>2, <2>7 DEF VncStore, VncShape
  <2>8. ASSUME NEW s \in VncIds, VncUndone(s) PROVE ViewerInv'
    BY <2>1, <2>2, <2>8 DEF VncUndone, VncShape
  <2>9. ASSUME NEW s \in VncIds, VncReturns(s) PROVE ViewerInv'
    BY <2>1, <2>2, <2>9 DEF VncReturns, VncShape
  <2>10. ASSUME NEW s \in VncIds, VncCancel(s) PROVE ViewerInv'
    BY <2>1, <2>2, <2>10 DEF VncCancel, VncShape
  <2>11. ASSUME NEW s \in VncIds, VncServing(s) PROVE ViewerInv'
    BY <2>1, <2>2, <2>11 DEF VncServing, VncShape
  <2>12. ASSUME NEW s \in VncIds, VncRelease(s) PROVE ViewerInv'
    BY <2>1, <2>2, <2>12 DEF VncRelease, VncShape, Stopped
  <2>13. ASSUME NEW s \in VncIds, VncAnnounce(s) PROVE ViewerInv'
    BY <2>1, <2>2, <2>13 DEF VncAnnounce, VncShape
  <2>14. ASSUME NEW s \in VncIds, RemoteEnds(s) PROVE ViewerInv'
    BY <2>1, <2>2, <2>14 DEF RemoteEnds, VncShape
  <2>15. ASSUME NEW s \in VncIds
        PROVE  /\ TakeVnc(vnc[s]).call = vnc[s].call
               /\ TakeVnc(vnc[s]).claimed = vnc[s].claimed
               /\ TakeVnc(vnc[s]).timer = vnc[s].timer
    BY <2>1 DEF TakeVnc, VncShape
  <2>16. ASSUME NEW s \in VncIds, VncChecks(s) PROVE ViewerInv'
    <3>1. CASE ~vnc[s].canceled
      BY <2>1, <2>2, <2>16, <3>1 DEF VncChecks, VncShape
    <3>2. CASE vnc[s].canceled
      <4> DEFINE r == [TakeVnc(vnc[s]) EXCEPT
                         !.call = IF vnc[s].stored THEN "undoing" ELSE "undone"]
      <4>1. /\ r.call \in {"undoing", "undone"} /\ r.claimed = vnc[s].claimed
            /\ r.timer = vnc[s].timer
        BY <2>1, <2>15 DEF VncShape
      <4>2. VncAlone(s, r) BY <2>16, <3>2 DEF VncChecks
      <4> HIDE DEF r
      <4> QED BY <2>2, <4>1, <4>2
    <3> QED BY <3>1, <3>2
  <2>17. ASSUME NEW s \in VncIds, VncExpires(s) PROVE ViewerInv'
    <3> DEFINE r == [TakeVnc(vnc[s]) EXCEPT !.timer = "fired"]
    <3>1. r.call = vnc[s].call /\ r.claimed = vnc[s].claimed /\ r.timer = "fired"
      BY <2>1, <2>15 DEF VncShape
    <3>2. VncAlone(s, r) BY <2>17 DEF VncExpires
    <3> HIDE DEF r
    <3> QED BY <2>2, <3>1, <3>2
  <2>18. ASSUME NEW s \in VncIds, VncUserCloses(s) PROVE ViewerInv'
    BY <2>2, <2>15, <2>18 DEF VncUserCloses
  (* A step that only a viewer takes.                                       *)
  <2>19. ASSUME NEW s \in VncIds, NEW v \in Viewers, NEW from, NEW to,
                ViewerGo(s, v, from, to), UNCHANGED vnc,
                from # "away" \/ vnc[s].server = "on",
                to \in Claiming => to = "streaming" /\ from = "greeting"
         PROVE  ViewerInv'
    <3>1. ViewersFit(vnc[s], [viewer[s] EXCEPT ![v] = to])
      BY <2>1, <2>19 DEF ViewersFit, Claiming, ViewerGo, VncOwned
    <3> QED BY <2>19, <3>1 DEF ViewerGo, VncTypeOK, ViewerInv
  <2>20. ASSUME NEW s \in VncIds, NEW v \in Viewers, ViewerConnects(s, v) PROVE ViewerInv'
    BY <2>19, <2>20 DEF ViewerConnects, Claiming
  <2>21. ASSUME NEW s \in VncIds, NEW v \in Viewers, ViewerAuthenticates(s, v) PROVE ViewerInv'
    BY <2>19, <2>21 DEF ViewerAuthenticates, Claiming
  <2>22. ASSUME NEW s \in VncIds, NEW v \in Viewers, ViewerGreets(s, v) PROVE ViewerInv'
    BY <2>19, <2>22 DEF ViewerGreets, Claiming
  <2>23. ASSUME NEW s \in VncIds, NEW v \in Viewers, ViewerClaims(s, v) PROVE ViewerInv'
    <3>1. ViewersFit([vnc[s] EXCEPT !.claimed = TRUE],
                     [viewer[s] EXCEPT ![v] = IF vnc[s].claimed THEN "gone" ELSE "claiming"])
      BY <2>1, <2>23 DEF ViewerClaims, ViewerGo, ViewersFit, Claiming, VncShape, Stopped
    <3> QED BY <2>3, <2>23, <3>1 DEF ViewerClaims
  <2>24. ASSUME NEW s \in VncIds, NEW v \in Viewers, ViewerStopsTimer(s, v) PROVE ViewerInv'
    <3>1. ViewersFit([vnc[s] EXCEPT !.timer = Stopped(vnc[s].timer)],
                     [viewer[s] EXCEPT ![v] = "greeting"])
      BY <2>1, <2>24 DEF ViewerStopsTimer, ViewerGo, ViewersFit, Claiming, VncShape, Stopped
    <3> QED BY <2>3, <2>24, <3>1 DEF ViewerStopsTimer
  <2>25. ASSUME NEW s \in VncIds, NEW v \in Viewers, ViewerStreamEnds(s, v) PROVE ViewerInv'
    <3>1. ViewersFit([vnc[s] EXCEPT !.canceled = TRUE, !.remote = "closed"],
                     [viewer[s] EXCEPT ![v] = "leaving"])
      BY <2>1, <2>25 DEF ViewerStreamEnds, ViewerGo, ViewersFit, Claiming, VncShape, Stopped
    <3> QED BY <2>3, <2>25, <3>1 DEF ViewerStreamEnds
  <2>26. ASSUME NEW s \in VncIds, NEW v \in Viewers, ViewerLeaves(s, v) PROVE ViewerInv'
    <3>1. ViewersFit(TakeVnc(vnc[s]), [viewer[s] EXCEPT ![v] = "gone"])
      BY <2>1, <2>15, <2>26 DEF ViewerLeaves, ViewerGo, ViewersFit, Claiming, VncShape, Stopped
    <3> QED BY <2>3, <2>26, <3>1 DEF ViewerLeaves
  <2>27. CASE UNCHANGED vncVars BY <2>27 DEF vncVars, ViewerInv
  <2> QED
    BY <2>4, <2>5, <2>6, <2>7, <2>8, <2>9, <2>10, <2>11, <2>12, <2>13, <2>14,
       <2>16, <2>17, <2>18, <2>20, <2>21, <2>22, <2>23, <2>24, <2>25,
       <2>26, <2>27
    DEF VncNext, VncCallStep, ViewerStep
<1> QED BY <1>1, <1>2, VncTypeCorrect, VncInvariant, PTL DEF VncSpec

(* For any number of viewers at most one is bridged to a session, and the   *)
(* expiry timer does not end the session under it.                          *)
THEOREM VncViewersAlone == VncSpec => []BridgedViewersAreAlone
<1>1. ViewerInv => BridgedViewersAreAlone
  BY DEF ViewerInv, ViewersFit, Claiming, BridgedViewersAreAlone
<1> QED BY <1>1, ViewerInvariant, PTL

-----------------------------------------------------------------------------
(* Keys of an RDP session *)

(* The events of s press input i nowhere.                                   *)
Silent(s, i) == \A n \in 1..Len(s) : s[n] # Press(i)

(* The events of s leave input i released, whatever it was before.          *)
Released(s, i) ==
  \E n \in 1..Len(s) :
    /\ s[n] \in {Unpress(i), ReleaseAll}
    /\ \A m \in 1..Len(s) : m > n => s[m] # Press(i)

(* The same of what the backend has yet to process, of that and the calls   *)
(* that wait, and of all that and the view's queue.                         *)
BatchReleases(i) ==
  Released(batch, i) \/ (Silent(batch, i) /\ i \notin pressed)

CallsRelease(i) ==
  \/ \E b \in 1..Len(batches) :
       /\ Released(batches[b], i)
       /\ \A c \in 1..Len(batches) : c > b => Silent(batches[c], i)
  \/ /\ \A b \in 1..Len(batches) : Silent(batches[b], i)
     /\ BatchReleases(i)

InputReleased(i) ==
  Released(queue, i) \/ (Silent(queue, i) /\ CallsRelease(i))

(* The inductive invariant: an input of no held key ends up released once   *)
(* everything that is on its way has arrived.                               *)
InputInv ==
  /\ InputTypeOK
  /\ ~broken => /\ down \subseteq pressed
                /\ \A i \in Inputs : ~Holds(i) => InputReleased(i)

(* The events of different inputs differ, and a press is no release.        *)
LEMMA EventsDiffer ==
  \A i, j : /\ (Press(i) = Press(j)) => i = j
            /\ Unpress(i) # Press(j)
            /\ ReleaseAll # Press(j)
BY DEF Press, Unpress, ReleaseAll

(* Every state of the way of a key to the server is well typed.             *)
THEOREM InputTypeCorrect == InputSpec => []InputTypeOK
<1>1. InputInit => InputTypeOK
  <2>1. <<>> \in Seq(Inputs) /\ <<>> \in Seq(Event) /\ <<>> \in Seq(Seq(Event))
    OBVIOUS
  <2> QED BY <2>1 DEF InputInit, InputTypeOK
<1>2. InputTypeOK /\ [InputNext]_inputVars => InputTypeOK'
  <2> SUFFICES ASSUME InputTypeOK, [InputNext]_inputVars PROVE InputTypeOK'
    OBVIOUS
  <2> USE DEF InputTypeOK
  <2>0. ASSUME NEW s \in Seq(Inputs), NEW d \in BOOLEAN
        PROVE  [n \in 1..Len(s) |-> [input |-> s[n], down |-> d]] \in Seq(Event)
    BY <2>0 DEF Event
  <2>1. ASSUME NEW k \in Keys, KeyDown(k) PROVE InputTypeOK'
    <3>1. PICK is \in IF held[k] = <<>> THEN InputsOf[k] ELSE {held[k]} :
            /\ held' = [held EXCEPT ![k] = is]
            /\ queue' = queue \o [n \in 1..Len(is) |-> Press(is[n])]
      BY <2>1 DEF KeyDown
    <3>2. is \in Seq(Inputs)
      BY <3>1, InputAssumption
    <3>3. [n \in 1..Len(is) |-> Press(is[n])] \in Seq(Event)
      BY <3>2, <2>0 DEF Press
    <3> QED
      BY <2>1, <3>1, <3>2, <3>3 DEF KeyDown
  <2>2. ASSUME NEW k \in Keys, KeyUp(k) PROVE InputTypeOK'
    <3>1. [n \in 1..Len(held[k]) |-> Unpress(held[k][n])] \in Seq(Event)
      BY <2>0 DEF Unpress
    <3> QED BY <2>2, <3>1 DEF KeyUp
  <2>3. CASE Blur
    <3>1. Append(queue, ReleaseAll) \in Seq(Event)
      BY DEF Event
    <3> QED BY <2>3, <3>1 DEF Blur
  <2>4. CASE Flush
    BY <2>4 DEF Flush
  <2>5. CASE SendBatch
    BY <2>5 DEF SendBatch
  <2>6. CASE ProcessKey
    <3>1. Head(batch) \in [input: Inputs, down: BOOLEAN]
      BY <2>6 DEF ProcessKey, Event
    <3> QED BY <2>6, <3>1 DEF ProcessKey, Apply
  <2>7. CASE ProcessRelease
    <3>1. /\ pressed' \in SUBSET Inputs
          /\ down' \in SUBSET Inputs
          /\ batch' \in Seq(Event)
      <4>1. CASE pressed = {}
        <5>1. batch # <<>> /\ batch' = Tail(batch) /\ UNCHANGED <<pressed, down>>
          BY <2>7, <4>1 DEF ProcessRelease
        <5> QED BY <5>1
      <4>2. CASE pressed # {}
        <5>1. PICK i \in pressed : Apply(i, FALSE)
          BY <2>7, <4>2 DEF ProcessRelease
        <5>2. batch' = IF broken THEN <<>> ELSE batch
          BY <2>7, <4>2 DEF ProcessRelease
        <5> QED BY <5>1, <5>2 DEF Apply
      <4> QED BY <4>1, <4>2
    <3> QED BY <2>7, <3>1 DEF ProcessRelease
  <2>8. CASE Break
    BY <2>8 DEF Break
  <2>9. CASE UNCHANGED inputVars
    BY <2>9 DEF inputVars
  <2> QED
    BY <2>1, <2>2, <2>3, <2>4, <2>5, <2>6, <2>7, <2>8, <2>9 DEF InputNext
<1> QED
  BY <1>1, <1>2, PTL DEF InputSpec

(* What is appended without a press of i leaves i as released, or as        *)
(* untouched, as it was.                                                    *)
LEMMA ReleasedAppends ==
  ASSUME NEW i \in Inputs, NEW s \in Seq(Event), NEW t \in Seq(Event), Silent(t, i)
  PROVE  /\ Released(s, i) => Released(s \o t, i)
         /\ Silent(s, i) => Silent(s \o t, i)
<1> USE DEF Silent, Released
<1>1. /\ s \o t \in Seq(Event)
      /\ Len(s \o t) = Len(s) + Len(t)
      /\ Len(s) \in Nat /\ Len(t) \in Nat
      /\ \A n \in 1..Len(s) : (s \o t)[n] = s[n]
      /\ \A n \in 1..Len(s \o t) : n > Len(s) => (s \o t)[n] = t[n - Len(s)]
  BY ConcatProperties
<1>2. \A n \in 1..Len(s \o t) : n > Len(s) => (s \o t)[n] # Press(i)
  <2> TAKE n \in 1..Len(s \o t)
  <2> HAVE n > Len(s)
  <2>1. n - Len(s) \in 1..Len(t)
    BY <1>1
  <2> QED BY <1>1, <2>1
<1> DEFINE u == s \o t
<1> HIDE DEF u
<1>3. ASSUME Released(s, i) PROVE Released(u, i)
  <2>1. PICK n \in 1..Len(s) :
          /\ s[n] \in {Unpress(i), ReleaseAll}
          /\ \A m \in 1..Len(s) : m > n => s[m] # Press(i)
    BY <1>3
  <2>2. n \in 1..Len(u) /\ u[n] = s[n]
    BY <1>1 DEF u
  <2>3. ASSUME NEW m \in 1..Len(u), m > n PROVE u[m] # Press(i)
    <3>1. CASE m \in 1..Len(s)
      BY <1>1, <2>1, <2>3, <3>1 DEF u
    <3>2. CASE m > Len(s)
      BY <1>2, <2>3, <3>2 DEF u
    <3> QED BY <3>1, <3>2, <1>1
  <2> QED BY <2>1, <2>2, <2>3
<1>4. ASSUME Silent(s, i) PROVE Silent(u, i)
  <2> SUFFICES ASSUME NEW n \in 1..Len(u) PROVE u[n] # Press(i)
    OBVIOUS
  <2>1. CASE n \in 1..Len(s)
    BY <1>1, <1>4, <2>1 DEF u
  <2>2. CASE n > Len(s)
    BY <1>2, <2>2 DEF u
  <2> QED BY <2>1, <2>2, <1>1
<1> QED
  BY <1>3, <1>4 DEF u

(* The keyboard: what is appended to the queue presses none of the inputs   *)
(* that no key holds afterwards.                                            *)
LEMMA QueueGrows ==
  ASSUME InputTypeOK, NEW i \in Inputs, InputReleased(i),
         NEW t \in Seq(Event), Silent(t, i), queue' = queue \o t,
         UNCHANGED <<batches, batch, pressed>>
  PROVE  InputReleased(i)'
<1>1. CallsRelease(i)' <=> CallsRelease(i)
  BY DEF CallsRelease, BatchReleases
<1>2. /\ Released(queue, i) => Released(queue', i)
      /\ Silent(queue, i) => Silent(queue', i)
  BY ReleasedAppends DEF InputTypeOK
<1> QED
  BY <1>1, <1>2 DEF InputReleased

(* The invariant holds: a held key's inputs may be down, those of a key     *)
(* that went up are followed by their release, whatever is still queued,    *)
(* waiting or half processed.                                               *)
LEMMA InputInvariant == InputSpec => []InputInv
<1>1. InputInit => InputInv
  <2> SUFFICES ASSUME InputInit PROVE InputInv
    OBVIOUS
  <2>1. InputTypeOK
    <3>1. <<>> \in Seq(Inputs) /\ <<>> \in Seq(Event) /\ <<>> \in Seq(Seq(Event))
      OBVIOUS
    <3> QED BY <3>1 DEF InputInit, InputTypeOK
  <2>2. ASSUME NEW i \in Inputs PROVE InputReleased(i)
    BY DEF InputInit, InputReleased, CallsRelease, BatchReleases, Silent
  <2> QED BY <2>1, <2>2 DEF InputInit, InputInv
<1>2. InputInv /\ InputTypeOK' /\ [InputNext]_inputVars => InputInv'
  <2> SUFFICES ASSUME InputInv, InputTypeOK', [InputNext]_inputVars,
                      ~broken, ~broken'
               PROVE  /\ (down \subseteq pressed)'
                      /\ \A i \in Inputs : ~Holds(i)' => InputReleased(i)'
    <3>1. CASE ~broken /\ ~broken'
      BY <3>1 DEF InputInv
    <3>2. CASE broken'
      BY <3>2 DEF InputInv
    <3>3. CASE broken /\ ~broken'
      BY <3>3 DEF InputNext, inputVars, KeyDown, KeyUp, Blur, Flush, SendBatch, ProcessKey, ProcessRelease, Break
    <3> QED BY <3>1, <3>2, <3>3
  <2> USE DEF InputInv
  <2>t. InputTypeOK
    OBVIOUS
  <2>1. ASSUME NEW k \in Keys, KeyDown(k)
        PROVE  /\ (down \subseteq pressed)'
               /\ \A i \in Inputs : ~Holds(i)' => InputReleased(i)'
    <3>1. PICK is \in IF held[k] = <<>> THEN InputsOf[k] ELSE {held[k]} :
            /\ held' = [held EXCEPT ![k] = is]
            /\ queue' = queue \o [n \in 1..Len(is) |-> Press(is[n])]
      BY <2>1 DEF KeyDown
    <3>2. is \in Seq(Inputs)
      BY <3>1, InputAssumption DEF InputTypeOK
    <3>3. ASSUME NEW i \in Inputs, ~Holds(i)' PROVE InputReleased(i)'
      <4>1. held'[k] = is
        BY <3>1 DEF InputTypeOK
      <4>2. \A n \in 1..Len(is) : is[n] # i
        BY <3>3, <4>1 DEF Holds
      <4>3. ~Holds(i)
        <5> SUFFICES ASSUME NEW l \in Keys, NEW n \in 1..Len(held[l]), held[l][n] = i
                     PROVE  FALSE
          BY DEF Holds
        <5>1. CASE l = k
          <6>1. held[k] # <<>>
            BY <5>1 DEF InputTypeOK
          <6>2. is = held[k]
            BY <3>1, <6>1
          <6> QED BY <4>2, <5>1, <6>2
        <5>2. CASE l # k
          <6>1. held'[l] = held[l]
            BY <3>1, <5>2 DEF InputTypeOK
          <6> QED BY <3>3, <6>1 DEF Holds
        <5> QED BY <5>1, <5>2
      <4> DEFINE t == [n \in 1..Len(is) |-> Press(is[n])]
      <4>4. t \in Seq(Event)
        BY <3>2 DEF Press, Event
      <4>5. Silent(t, i)
        BY <3>2, <4>2, EventsDiffer DEF Silent
      <4>6. queue' = queue \o t /\ UNCHANGED <<batches, batch, pressed>>
        BY <2>1, <3>1 DEF KeyDown
      <4>7. InputReleased(i)
        BY <4>3
      <4> HIDE DEF t
      <4> QED BY <4>4, <4>5, <4>6, <4>7, <2>t, QueueGrows
    <3>4. UNCHANGED <<down, pressed>>
      BY <2>1 DEF KeyDown
    <3> QED BY <3>3, <3>4
  <2>2. ASSUME NEW k \in Keys, KeyUp(k)
        PROVE  /\ (down \subseteq pressed)'
               /\ \A i \in Inputs : ~Holds(i)' => InputReleased(i)'
    <3> DEFINE t == [n \in 1..Len(held[k]) |-> Unpress(held[k][n])]
    <3>0. held[k] \in Seq(Inputs)
      BY DEF InputTypeOK
    <3>1. t \in Seq(Event)
      BY <3>0 DEF Unpress, Event
    <3>2. /\ queue' = queue \o t
          /\ held' = [held EXCEPT ![k] = <<>>]
          /\ UNCHANGED <<batches, batch, pressed, down>>
      BY <2>2 DEF KeyUp
    <3>3. ASSUME NEW i \in Inputs, ~Holds(i)' PROVE InputReleased(i)'
      <4>1. Silent(t, i)
        BY <3>0, EventsDiffer DEF Silent
      <4>2. CASE Holds(i)
        <5>1. PICK l \in Keys : \E n \in 1..Len(held[l]) : held[l][n] = i
          BY <4>2 DEF Holds
        <5>2. l = k
          <6> SUFFICES ASSUME l # k PROVE FALSE
            OBVIOUS
          <6>1. held'[l] = held[l]
            BY <3>2 DEF InputTypeOK
          <6> QED BY <3>3, <5>1, <6>1 DEF Holds
        <5>3. PICK n \in 1..Len(held[k]) : held[k][n] = i
          BY <5>1, <5>2
        <5>4. Len(t) = Len(held[k]) /\ t[n] = Unpress(i)
          BY <3>0, <5>3
        <5>5. /\ Len(queue') = Len(queue) + Len(t)
              /\ Len(queue) \in Nat
              /\ \A m \in 1..Len(queue') : m > Len(queue) => queue'[m] = t[m - Len(queue)]
          <6> HIDE DEF t
          <6> QED BY <3>1, <3>2, ConcatProperties DEF InputTypeOK
        <5>6. Len(queue) + n \in 1..Len(queue') /\ queue'[Len(queue) + n] = Unpress(i)
          <6> HIDE DEF t
          <6>1. n \in 1..Len(t)
            BY <3>0, <5>3, <5>4
          <6>2. Len(queue) + n \in 1..Len(queue') /\ Len(queue) + n > Len(queue)
            BY <5>4, <5>5, <6>1, <3>0
          <6>3. (Len(queue) + n) - Len(queue) = n
            BY <5>5
          <6> QED BY <5>4, <5>5, <6>2, <6>3
        <5>7. ASSUME NEW m \in 1..Len(queue'), m > Len(queue) + n
              PROVE  queue'[m] # Press(i)
          <6>1. m - Len(queue) \in 1..Len(t)
            <7> HIDE DEF t
            <7> QED BY <3>0, <5>3, <5>4, <5>5, <5>7
          <6>2. queue'[m] = t[m - Len(queue)]
            <7> HIDE DEF t
            <7> QED BY <3>0, <5>3, <5>4, <5>5, <5>7
          <6> HIDE DEF t
          <6> QED BY <4>1, <6>1, <6>2 DEF Silent
        <5>8. Released(queue', i)
          <6> HIDE DEF t
          <6> QED BY <5>6, <5>7 DEF Released
        <5> QED BY <5>8 DEF InputReleased
      <4>3. CASE ~Holds(i)
        <5>1. InputReleased(i)
          BY <4>3
        <5> HIDE DEF t
        <5> QED BY <3>1, <3>2, <4>1, <5>1, <2>t, QueueGrows
      <4> QED BY <4>2, <4>3
    <3> QED BY <3>2, <3>3
  <2>3. CASE Blur
    <3> DEFINE q == Append(queue, ReleaseAll)
    <3>1. /\ queue \in Seq(Event) /\ batches \in Seq(Seq(Event))
          /\ q \in Seq(Event) /\ Len(q) = Len(queue) + 1
          /\ q[Len(queue) + 1] = ReleaseAll
      BY DEF InputTypeOK, Event
    <3>2. /\ queue' = <<>> /\ batches' = Append(batches, q)
          /\ UNCHANGED <<pressed, down>>
      BY <2>3 DEF Blur
    <3>3. ASSUME NEW i \in Inputs PROVE InputReleased(i)'
      <4> HIDE DEF q
      <4>1. Silent(queue', i)
        BY <3>2 DEF Silent
      <4>2. Released(q, i)
        <5>1. Len(queue) + 1 \in 1..Len(q)
          BY <3>1
        <5>2. \A m \in 1..Len(q) : ~(m > Len(queue) + 1)
          BY <3>1
        <5> QED BY <3>1, <5>1, <5>2 DEF Released
      <4>3. /\ Len(batches') = Len(batches) + 1
            /\ batches'[Len(batches) + 1] = q
        BY <3>1, <3>2
      <4>4. CallsRelease(i)'
        <5>1. Len(batches) + 1 \in 1..Len(batches')
          BY <3>1, <4>3
        <5>2. \A c \in 1..Len(batches') : ~(c > Len(batches) + 1)
          BY <3>1, <4>3
        <5>3. Released(batches'[Len(batches) + 1], i)
          BY <4>2, <4>3
        <5> QED BY <5>1, <5>2, <5>3 DEF CallsRelease
      <4> QED BY <4>1, <4>4 DEF InputReleased
    <3> QED BY <3>2, <3>3
  <2>4. CASE Flush
    <3>1. /\ queue \in Seq(Event) /\ batches \in Seq(Seq(Event))
          /\ queue' = <<>> /\ batches' = Append(batches, queue)
          /\ UNCHANGED <<held, batch, pressed, down>>
      BY <2>4 DEF InputTypeOK, Flush
    <3>2. /\ Len(batches) \in Nat /\ Len(batches') = Len(batches) + 1
          /\ batches'[Len(batches) + 1] = queue
          /\ \A b \in 1..Len(batches) : batches'[b] = batches[b]
      BY <3>1
    <3>3. ASSUME NEW i \in Inputs, ~Holds(i)' PROVE InputReleased(i)'
      <4>1. InputReleased(i)
        BY <3>1, <3>3 DEF Holds
      <4>2. Silent(queue', i)
        BY <3>1 DEF Silent
      <4>3. CASE Released(queue, i)
        <5>1. CallsRelease(i)'
          <6>1. Len(batches) + 1 \in 1..Len(batches')
            BY <3>1, <3>2
          <6>2. \A c \in 1..Len(batches') : ~(c > Len(batches) + 1)
            BY <3>1, <3>2
          <6>3. Released(batches'[Len(batches) + 1], i)
            BY <3>2, <4>3
          <6> QED BY <6>1, <6>2, <6>3 DEF CallsRelease
        <5> QED BY <4>2, <5>1 DEF InputReleased
      <4>4. CASE Silent(queue, i) /\ CallsRelease(i)
        <5>1. CASE \A b \in 1..Len(batches) : Silent(batches[b], i)
          <6>1. \A b \in 1..Len(batches') : Silent(batches'[b], i)
            BY <3>1, <3>2, <4>4, <5>1
          <6>2. CASE BatchReleases(i)
            <7>1. BatchReleases(i)'
              BY <3>1, <6>2 DEF BatchReleases
            <7>2. CallsRelease(i)'
              BY <6>1, <7>1 DEF CallsRelease
            <7> QED BY <4>2, <7>2 DEF InputReleased
          <6>3. CASE ~BatchReleases(i)
            <7>1. PICK b \in 1..Len(batches) :
                    /\ Released(batches[b], i)
                    /\ \A c \in 1..Len(batches) : c > b => Silent(batches[c], i)
              BY <4>4, <6>3 DEF CallsRelease
            <7>2. b \in 1..Len(batches') /\ Released(batches'[b], i)
              BY <3>1, <3>2, <7>1
            <7>3. CallsRelease(i)'
              BY <6>1, <7>2 DEF CallsRelease
            <7> QED BY <4>2, <7>3 DEF InputReleased
          <6> QED BY <6>2, <6>3
        <5>2. CASE ~\A b \in 1..Len(batches) : Silent(batches[b], i)
          <6>1. PICK b \in 1..Len(batches) :
                  /\ Released(batches[b], i)
                  /\ \A c \in 1..Len(batches) : c > b => Silent(batches[c], i)
            BY <4>4, <5>2 DEF CallsRelease
          <6>2. b \in 1..Len(batches') /\ Released(batches'[b], i)
            BY <3>1, <3>2, <6>1
          <6>3. \A c \in 1..Len(batches') : c > b => Silent(batches'[c], i)
            <7> TAKE c \in 1..Len(batches')
            <7> HAVE c > b
            <7>1. CASE c \in 1..Len(batches)
              BY <3>2, <6>1, <7>1
            <7>2. CASE c = Len(batches) + 1
              BY <3>2, <4>4, <7>2
            <7>3. c \in 1..Len(batches) \/ c = Len(batches) + 1
              BY <3>2
            <7> QED BY <7>1, <7>2, <7>3
          <6>4. CallsRelease(i)'
            BY <6>2, <6>3 DEF CallsRelease
          <6> QED BY <4>2, <6>4 DEF InputReleased
        <5> QED BY <5>1, <5>2
      <4> QED BY <4>1, <4>3, <4>4 DEF InputReleased
    <3> QED BY <3>1, <3>3
  <2>5. CASE SendBatch
    <3>1. /\ batches \in Seq(Seq(Event)) /\ batches # <<>> /\ batch = <<>>
          /\ batch' = Head(batches) /\ batches' = Tail(batches)
          /\ UNCHANGED <<held, queue, pressed, down>>
      BY <2>5 DEF InputTypeOK, SendBatch
    <3>2. /\ Len(batches) \in Nat \ {0}
          /\ Len(batches') = Len(batches) - 1
          /\ \A b \in 1..Len(batches') : batches'[b] = batches[b + 1]
          /\ batch' = batches[1]
      BY <3>1
    <3>3. ASSUME NEW i \in Inputs, ~Holds(i)', CallsRelease(i)
          PROVE  CallsRelease(i)'
      <4>1. ASSUME NEW b \in 1..Len(batches), Released(batches[b], i),
                   \A c \in 1..Len(batches) : c > b => Silent(batches[c], i)
            PROVE  CallsRelease(i)'
        <5>1. CASE b = 1
          <6>1. \A c \in 1..Len(batches') : Silent(batches'[c], i)
            BY <3>2, <4>1, <5>1
          <6>2. BatchReleases(i)'
            BY <3>2, <4>1, <5>1 DEF BatchReleases
          <6> QED BY <6>1, <6>2 DEF CallsRelease
        <5>2. CASE b > 1
          <6>1. b - 1 \in 1..Len(batches') /\ Released(batches'[b - 1], i)
            BY <3>2, <4>1, <5>2
          <6>2. \A c \in 1..Len(batches') : c > b - 1 => Silent(batches'[c], i)
            BY <3>2, <4>1, <5>2
          <6> QED BY <6>1, <6>2 DEF CallsRelease
        <5> QED BY <5>1, <5>2
      <4>2. ASSUME \A b \in 1..Len(batches) : Silent(batches[b], i), BatchReleases(i)
            PROVE  CallsRelease(i)'
        <5>1. i \notin pressed
          BY <3>1, <4>2 DEF BatchReleases, Released
        <5>2. BatchReleases(i)'
          BY <3>1, <3>2, <4>2, <5>1 DEF BatchReleases
        <5>3. \A b \in 1..Len(batches') : Silent(batches'[b], i)
          BY <3>2, <4>2
        <5> QED BY <5>2, <5>3 DEF CallsRelease
      <4> QED BY <3>3, <4>1, <4>2 DEF CallsRelease
    <3>4. ASSUME NEW i \in Inputs, ~Holds(i)' PROVE InputReleased(i)'
      <4>1. InputReleased(i)
        BY <3>1, <3>4 DEF Holds
      <4> QED BY <3>1, <3>3, <3>4, <4>1 DEF InputReleased
    <3> QED BY <3>1, <3>4
  <2>6. ASSUME UNCHANGED <<held, queue, batches>>,
               \A i \in Inputs : BatchReleases(i) => BatchReleases(i)'
        PROVE  \A i \in Inputs : ~Holds(i)' => InputReleased(i)'
    <3> TAKE i \in Inputs
    <3> HAVE ~Holds(i)'
    <3>1. InputReleased(i)
      BY <2>6 DEF Holds
    <3>2. CallsRelease(i) => CallsRelease(i)'
      BY <2>6 DEF CallsRelease
    <3> QED BY <2>6, <3>1, <3>2 DEF InputReleased
  <2>7. CASE ProcessKey
    <3>1. /\ batch \in Seq(Event) /\ batch # <<>> /\ batch' = Tail(batch)
          /\ UNCHANGED <<held, queue, batches>>
      BY <2>7 DEF ProcessKey, InputTypeOK
    <3>2. PICK j \in Inputs, d \in BOOLEAN : batch[1] = [input |-> j, down |-> d]
      <4>1. batch[1] \in Event /\ batch[1] # ReleaseAll
        BY <2>7, <3>1 DEF ProcessKey
      <4> QED BY <4>1 DEF Event
    <3>3. /\ pressed' = IF d THEN pressed \cup {j} ELSE pressed \ {j}
          /\ down' = IF d THEN down \cup {j} ELSE down \ {j}
      <4>1. Apply(j, d)
        BY <2>7, <3>1, <3>2 DEF ProcessKey
      <4> QED BY <4>1 DEF Apply
    <3>4. /\ Len(batch) \in Nat \ {0}
          /\ Len(batch') = Len(batch) - 1
          /\ \A n \in 1..Len(batch') : batch'[n] = batch[n + 1]
      BY <3>1
    <3>5. ASSUME NEW i \in Inputs, BatchReleases(i) PROVE BatchReleases(i)'
      <4>1. ASSUME NEW n \in 1..Len(batch), batch[n] \in {Unpress(i), ReleaseAll},
                   \A m \in 1..Len(batch) : m > n => batch[m] # Press(i)
            PROVE  BatchReleases(i)'
        <5>1. CASE n = 1
          <6>1. Silent(batch', i)
            BY <3>4, <4>1, <5>1 DEF Silent
          <6>2. batch[1] = Unpress(i)
            BY <3>1, <2>7, <4>1, <5>1 DEF ProcessKey
          <6>3. j = i /\ d = FALSE
            BY <3>2, <6>2 DEF Unpress
          <6>4. i \notin pressed'
            BY <3>3, <6>3
          <6> QED BY <6>1, <6>4 DEF BatchReleases
        <5>2. CASE n > 1
          <6>1. n - 1 \in 1..Len(batch') /\ batch'[n - 1] = batch[n]
            BY <3>4, <4>1, <5>2
          <6>2. \A m \in 1..Len(batch') : m > n - 1 => batch'[m] # Press(i)
            BY <3>4, <4>1, <5>2
          <6>3. Released(batch', i)
            BY <4>1, <6>1, <6>2 DEF Released
          <6> QED BY <6>3 DEF BatchReleases
        <5> QED BY <5>1, <5>2
      <4>2. ASSUME Silent(batch, i), i \notin pressed
            PROVE  BatchReleases(i)'
        <5>1. Silent(batch', i)
          BY <3>4, <4>2 DEF Silent
        <5>2. batch[1] # Press(i)
          BY <3>4, <4>2 DEF Silent
        <5>3. i \notin pressed'
          BY <3>2, <3>3, <4>2, <5>2 DEF Press
        <5> QED BY <5>1, <5>3 DEF BatchReleases
      <4> QED BY <3>5, <4>1, <4>2 DEF BatchReleases, Released
    <3>6. (down \subseteq pressed)'
      BY <3>3
    <3> QED BY <2>6, <3>1, <3>5, <3>6
  <2>8. CASE ProcessRelease
    <3>1. /\ batch \in Seq(Event) /\ batch # <<>> /\ batch[1] = ReleaseAll
          /\ UNCHANGED <<held, queue, batches>>
      BY <2>8 DEF ProcessRelease, InputTypeOK
    <3>2. CASE pressed = {}
      <4>1. batch' = Tail(batch) /\ UNCHANGED <<pressed, down>>
        BY <2>8, <3>2 DEF ProcessRelease
      <4>2. /\ Len(batch) \in Nat \ {0}
            /\ Len(batch') = Len(batch) - 1
            /\ \A n \in 1..Len(batch') : batch'[n] = batch[n + 1]
        BY <3>1, <4>1
      <4>3. ASSUME NEW i \in Inputs, BatchReleases(i) PROVE BatchReleases(i)'
        <5>1. ASSUME NEW n \in 1..Len(batch), batch[n] \in {Unpress(i), ReleaseAll},
                     \A m \in 1..Len(batch) : m > n => batch[m] # Press(i)
              PROVE  BatchReleases(i)'
          <6>1. CASE n = 1
            <7>1. Silent(batch', i)
              BY <4>2, <5>1, <6>1 DEF Silent
            <7> QED BY <3>2, <4>1, <7>1 DEF BatchReleases
          <6>2. CASE n > 1
            <7>1. n - 1 \in 1..Len(batch') /\ batch'[n - 1] = batch[n]
              BY <4>2, <5>1, <6>2
            <7>2. \A m \in 1..Len(batch') : m > n - 1 => batch'[m] # Press(i)
              BY <4>2, <5>1, <6>2
            <7>3. Released(batch', i)
              BY <5>1, <7>1, <7>2 DEF Released
            <7> QED BY <7>3 DEF BatchReleases
          <6> QED BY <6>1, <6>2
        <5>2. ASSUME Silent(batch, i) PROVE BatchReleases(i)'
          <6>1. Silent(batch', i)
            BY <4>2, <5>2 DEF Silent
          <6> QED BY <3>2, <4>1, <6>1 DEF BatchReleases
        <5> QED BY <4>3, <5>1, <5>2 DEF BatchReleases, Released
      <4> QED BY <2>6, <3>1, <4>1, <4>3
    <3>3. CASE pressed # {}
      <4>1. PICK j \in pressed : Apply(j, FALSE)
        BY <2>8, <3>3 DEF ProcessRelease
      <4>2. batch' = batch
        BY <2>8, <3>3 DEF ProcessRelease
      <4>3. pressed' = pressed \ {j} /\ down' = down \ {j}
        BY <4>1 DEF Apply
      <4>4. ASSUME NEW i \in Inputs, BatchReleases(i) PROVE BatchReleases(i)'
        BY <4>2, <4>3, <4>4 DEF BatchReleases
      <4> QED BY <2>6, <3>1, <4>3, <4>4
    <3> QED BY <3>2, <3>3
  <2>9. CASE Break
    BY <2>9 DEF Break
  <2>10. CASE UNCHANGED inputVars
    <3>1. \A i \in Inputs : BatchReleases(i) => BatchReleases(i)'
      BY <2>10 DEF inputVars, BatchReleases
    <3> QED BY <2>6, <2>10, <3>1 DEF inputVars
  <2> QED
    BY <2>1, <2>2, <2>3, <2>4, <2>5, <2>7, <2>8, <2>9, <2>10 DEF InputNext
<1> QED
  BY <1>1, <1>2, InputTypeCorrect, PTL DEF InputSpec

(* For any keys, any inputs they stand for and any queue: when all has      *)
(* arrived, the server takes for pressed only what a held key stands for,   *)
(* after a release in the middle of a batch and a blur in the middle of a   *)
(* key as well.                                                             *)
THEOREM NoKeyEverSticks == InputSpec => []NoKeySticks
<1>1. InputInv => NoKeySticks
  <2> SUFFICES ASSUME InputInv, ~broken, queue = <<>>, batches = <<>>, batch = <<>>,
                      NEW i \in down
               PROVE  Holds(i)
    BY DEF InputInv, NoKeySticks
  <2> SUFFICES ASSUME ~Holds(i) PROVE FALSE
    OBVIOUS
  <2>1. i \in Inputs /\ i \in pressed
    BY DEF InputInv, InputTypeOK
  <2>2. InputReleased(i)
    BY <2>1 DEF InputInv
  <2> QED
    BY <2>1, <2>2 DEF InputReleased, CallsRelease, BatchReleases, Released
<1> QED
  BY <1>1, InputInvariant, PTL

-----------------------------------------------------------------------------
(* The desktop: all five together *)

(* Whichever of the five a behaviour is about, the others stand still.      *)
THEOREM DesktopPartsBehave ==
  DesktopSpec => TabsSpec /\ VncSpec /\ RdpSpec /\ FramesSpec /\ InputSpec
<1>1. DesktopInit => TabsInit /\ VncInit /\ RdpInit /\ FramesInit /\ InputInit
  BY DEF DesktopInit
<1>2. [DesktopNext]_desktopVars =>
        /\ [TabsNext]_allVars /\ [VncNext]_vncVars /\ [RdpNext]_rdp
        /\ [FramesNext]_framesVars /\ [InputNext]_inputVars
  BY DEF DesktopNext, desktopVars
<1> QED
  BY <1>1, <1>2, PTL
  DEF DesktopSpec, TabsSpec, VncSpec, RdpSpec, FramesSpec, InputSpec

(* Every state of the five is well typed, for any numbers of sessions,      *)
(* viewers, pictures and keys.                                              *)
THEOREM DesktopTypeCorrect == DesktopSpec => []DesktopTypeOK
<1>1. TabsTypeOK /\ VncTypeOK /\ RdpTypeOK /\ FramesTypeOK /\ InputTypeOK
        => DesktopTypeOK
  BY DEF DesktopTypeOK
<1> QED
  BY <1>1, DesktopPartsBehave, TabsTypeCorrect, VncTypeCorrect, RdpTypeCorrect,
     FramesTypeCorrect, InputTypeCorrect, PTL

(* What the run of the desktop checks on one or two of each holds of any    *)
(* number: a closed or reconnected tab stays until its session is gone, a   *)
(* viewer is alone on its bridge, no client is lost, no picture goes back   *)
(* and no key sticks.                                                       *)
THEOREM DesktopSafe ==
  DesktopSpec => /\ ClosedTabsWereReleased
                 /\ []BridgedViewersAreAlone
                 /\ []RdpClientsAreOwned
                 /\ DesktopNeverGoesBack
                 /\ []NoKeySticks
BY DesktopPartsBehave, ClosedAreReleased, VncViewersAlone, RdpClientsOwned,
   NeverGoesBack, NoKeyEverSticks, PTL
=============================================================================
