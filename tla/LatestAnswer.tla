---------------------------- MODULE LatestAnswer ----------------------------
(***************************************************************************)
(* What a part of the screen promises that shows something asked from the  *)
(* backend: it is about one subject at a time, it may ask about it as      *)
(* often as it likes, and whatever it shows is the answer to a question    *)
(* that was the latest one when the answer came, about the subject the     *)
(* part is on now.                                                         *)
(***************************************************************************)
EXTENDS Naturals

CONSTANTS Subject,  \* what can be asked about: sessions, connections, images
          None      \* no subject, or nothing shown

VARIABLES about,   \* the subject of the part, or None
          asked,   \* the questions asked so far
          shown    \* None, or the answer on screen: its subject and question

latestVars == <<about, asked, shown>>

LatestInit == about \in Subject \cup {None} /\ asked \in {0, 1} /\ shown = None

(* The part is turned to another subject, and asks about it or not.         *)
TurnTo(s) ==
  /\ about' = s
  /\ asked' \in {asked, asked + 1}
  /\ shown' = None

Ask ==
  /\ about # None
  /\ asked' = asked + 1
  /\ UNCHANGED <<about, shown>>

ShowLatest ==
  /\ about # None
  /\ shown' = [of |-> about, question |-> asked]
  /\ UNCHANGED <<about, asked>>

LatestNext ==
  \/ \E s \in Subject \cup {None} : TurnTo(s)
  \/ Ask
  \/ ShowLatest

LatestSpec == LatestInit /\ [][LatestNext]_latestVars
=============================================================================
