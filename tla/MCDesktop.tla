------------------------------ MODULE MCDesktop ------------------------------
(* The tabs, VNC sessions, RDP sessions, the pictures of an RDP session and *)
(* its keys share no state, so a behaviour here is one of one of the five,  *)
(* chosen by the first step: the run explores each of them alone.           *)
EXTENDS MCTerminalTabs, VncBridge, RdpSessions, RdpFrames, RdpInput

CONSTANTS k1, k2, u1, sc1

(* k1 is a character or, with a modifier, a scan code; k2 is the same       *)
(* character on another part of the keyboard.                               *)
TwoKeys == [k \in {k1, k2} |-> IF k = k1 THEN {<<u1>>, <<sc1>>} ELSE {<<u1>>}]

desktopVars == <<allVars, vncVars, rdp, framesVars, inputVars>>

DesktopInit == TabsInit /\ VncInit /\ RdpInit /\ FramesInit /\ InputInit

DesktopNext ==
  \/ /\ TabsNext
     /\ VncInit /\ RdpInit /\ FramesInit /\ InputInit
     /\ UNCHANGED <<vncVars, rdp, framesVars, inputVars>>
  \/ /\ VncNext
     /\ TabsInit /\ RdpInit /\ FramesInit /\ InputInit
     /\ UNCHANGED <<allVars, rdp, framesVars, inputVars>>
  \/ /\ RdpNext
     /\ TabsInit /\ VncInit /\ FramesInit /\ InputInit
     /\ UNCHANGED <<allVars, vncVars, framesVars, inputVars>>
  \/ /\ FramesNext
     /\ TabsInit /\ VncInit /\ RdpInit /\ InputInit
     /\ UNCHANGED <<allVars, vncVars, rdp, inputVars>>
  \/ /\ InputNext
     /\ TabsInit /\ VncInit /\ RdpInit /\ FramesInit
     /\ UNCHANGED <<allVars, vncVars, rdp, framesVars>>

DesktopSpec ==
  /\ DesktopInit
  /\ [][DesktopNext]_desktopVars
  /\ TabsFairness /\ VncFairness /\ RdpFairness /\ FramesFairness

(* Every state of the five is well typed.                                   *)
DesktopTypeOK ==
  TabsTypeOK /\ VncTypeOK /\ RdpTypeOK /\ FramesTypeOK /\ InputTypeOK
=============================================================================
