------------------------- MODULE TunnelManagerProofs -------------------------
(***************************************************************************)
(* Proofs about TunnelManager: MapsMatchListeners is inductive once the    *)
(* types are known, and gives the action property.                         *)
(***************************************************************************)
EXTENDS TunnelManager, TLAPS

(* Every call of the manager keeps its maps well-typed.                     *)
LEMMA ManagerTypeStep ==
  ManagerTypeOK /\ [ManagerNext]_managerVars => ManagerTypeOK'
<1> SUFFICES ASSUME ManagerTypeOK, [ManagerNext]_managerVars
             PROVE  ManagerTypeOK'
  OBVIOUS
<1> USE DEF ManagerTypeOK
<1>1. ASSUME NEW s \in Sessions, NEW t \in Tunnels, NEW p \in Ports,
             StartForward(s, t, p)
      PROVE  ManagerTypeOK'
  BY <1>1 DEF StartForward, Listener
<1>2. ASSUME NEW t \in Tunnels, StopForward(t)
      PROVE  ManagerTypeOK'
  BY <1>2 DEF StopForward
<1>3. ASSUME NEW s \in Sessions, CloseSessionTunnels(s)
      PROVE  ManagerTypeOK'
  BY <1>3 DEF CloseSessionTunnels
<1>4. CASE UNCHANGED managerVars
  BY <1>4 DEF managerVars
<1> QED
  BY <1>1, <1>2, <1>3, <1>4 DEF ManagerNext

(* The maps and the ports hold what they are declared to hold.              *)
THEOREM ManagerTypeCorrect == ManagerSpec => []ManagerTypeOK
<1>1. ManagerInit => ManagerTypeOK
  BY DEF ManagerInit, ManagerTypeOK
<1> QED
  BY <1>1, ManagerTypeStep, PTL DEF ManagerSpec

(* An entry names a port of its own tunnel, so no two tunnels ever name the *)
(* same port.                                                               *)
LEMMA EntriesNameTheirOwnPort ==
  ASSUME MapsMatchListeners, NEW t \in Tunnels, runtimeTunnels[t] # None
  PROVE  listeners[runtimeTunnels[t]].tunnel = t
<1>1. listeners[runtimeTunnels[t]] = [tunnel |-> t, session |-> tunnelSession[t]]
  BY DEF MapsMatchListeners
<1> QED
  BY <1>1

(* The maps and the operating system agree, step by step: the heart of      *)
(* TunnelManager.                                                           *)
LEMMA MapsMatchStep ==
  ManagerTypeOK /\ MapsMatchListeners /\ [ManagerNext]_managerVars
    => MapsMatchListeners'
<1> SUFFICES ASSUME ManagerTypeOK, MapsMatchListeners, [ManagerNext]_managerVars,
                    NEW t \in Tunnels
             PROVE  /\ (runtimeTunnels'[t] = None) <=> (tunnelSession'[t] = None)
                    /\ runtimeTunnels'[t] # None =>
                         listeners'[runtimeTunnels'[t]] =
                           [tunnel |-> t, session |-> tunnelSession'[t]]
  BY DEF MapsMatchListeners
<1>0. /\ (runtimeTunnels[t] = None) <=> (tunnelSession[t] = None)
      /\ runtimeTunnels[t] # None =>
           /\ runtimeTunnels[t] \in Ports
           /\ listeners[runtimeTunnels[t]] =
                [tunnel |-> t, session |-> tunnelSession[t]]
      /\ [tunnel |-> t, session |-> tunnelSession[t]] # None \/ tunnelSession[t] = None
  BY NoneAssumption DEF MapsMatchListeners, ManagerTypeOK, Listener
<1>1. ASSUME NEW s \in Sessions, NEW u \in Tunnels, NEW p \in Ports,
             StartForward(s, u, p)
      PROVE  /\ (runtimeTunnels'[t] = None) <=> (tunnelSession'[t] = None)
             /\ runtimeTunnels'[t] # None =>
                  listeners'[runtimeTunnels'[t]] =
                    [tunnel |-> t, session |-> tunnelSession'[t]]
  <2>1. s # None /\ p # None
    BY NoneAssumption
  <2>2. CASE t = u
    BY <1>1, <2>1, <2>2 DEF StartForward, ManagerTypeOK
  <2>3. CASE t # u
    BY <1>0, <1>1, <2>3 DEF StartForward, ManagerTypeOK
  <2> QED
    BY <2>2, <2>3
<1>2. ASSUME NEW u \in Tunnels, StopForward(u)
      PROVE  /\ (runtimeTunnels'[t] = None) <=> (tunnelSession'[t] = None)
             /\ runtimeTunnels'[t] # None =>
                  listeners'[runtimeTunnels'[t]] =
                    [tunnel |-> t, session |-> tunnelSession'[t]]
  <2>1. CASE t = u
    BY <1>0, <1>2, <2>1 DEF StopForward, ManagerTypeOK
  <2>2. CASE t # u
    BY <1>0, <1>2, <2>2, EntriesNameTheirOwnPort DEF StopForward, ManagerTypeOK
  <2> QED
    BY <2>1, <2>2
<1>3. ASSUME NEW s \in Sessions, CloseSessionTunnels(s)
      PROVE  /\ (runtimeTunnels'[t] = None) <=> (tunnelSession'[t] = None)
             /\ runtimeTunnels'[t] # None =>
                  listeners'[runtimeTunnels'[t]] =
                    [tunnel |-> t, session |-> tunnelSession'[t]]
  <2>1. CASE t \in OpenedOn(s)
    BY <1>0, <1>3, <2>1 DEF CloseSessionTunnels, ManagerTypeOK
  <2>2. CASE t \notin OpenedOn(s)
    BY <1>0, <1>3, <2>2, EntriesNameTheirOwnPort
       DEF CloseSessionTunnels, ManagerTypeOK, OpenedOn
  <2> QED
    BY <2>1, <2>2
<1>4. CASE UNCHANGED managerVars
  BY <1>0, <1>4 DEF managerVars
<1> QED
  BY <1>1, <1>2, <1>3, <1>4 DEF ManagerNext

(* For any tunnels, sessions and ports: the entry of a tunnel always names  *)
(* a port that is bound, by that tunnel, on the session recorded for it.    *)
THEOREM MapsMatch == ManagerSpec => []MapsMatchListeners
<1>1. ManagerInit => MapsMatchListeners
  BY DEF ManagerInit, MapsMatchListeners
<1> QED
  BY <1>1, ManagerTypeCorrect, MapsMatchStep, PTL DEF ManagerSpec

(* For any tunnels, sessions and ports: a bound port is released before     *)
(* anybody else has it, and never without the entry that names it.          *)
THEOREM PortsAreFreedFirst == ManagerSpec => PortsChangeHandsOnlyWhenFreed
<1> DEFINE Freed(p) == /\ listeners'[p] = None
                       /\ runtimeTunnels[listeners[p].tunnel] = p
                       /\ runtimeTunnels'[listeners[p].tunnel] = None
<1>1. ManagerTypeOK /\ MapsMatchListeners /\ [ManagerNext]_managerVars
        => [\A p \in Ports :
              listeners[p] # None /\ listeners'[p] # listeners[p] => Freed(p)]_managerVars
  <2> SUFFICES ASSUME ManagerTypeOK, MapsMatchListeners, ManagerNext,
                      NEW p \in Ports,
                      listeners[p] # None, listeners'[p] # listeners[p]
               PROVE  Freed(p)
    OBVIOUS
  <2>1. ASSUME NEW s \in Sessions, NEW t \in Tunnels, NEW q \in Ports,
               StartForward(s, t, q)
        PROVE  Freed(p)
    BY <2>1 DEF StartForward, ManagerTypeOK
  <2>2. ASSUME NEW t \in Tunnels, StopForward(t)
        PROVE  Freed(p)
    <3>1. runtimeTunnels[t] = p
      BY <2>2 DEF StopForward
    <3>2. listeners[p].tunnel = t
      BY <3>1, EntriesNameTheirOwnPort, NoneAssumption
    <3> QED
      BY <2>2, <3>1, <3>2 DEF StopForward, ManagerTypeOK
  <2>3. ASSUME NEW s \in Sessions, CloseSessionTunnels(s)
        PROVE  Freed(p)
    <3>1. PICK t \in OpenedOn(s) : runtimeTunnels[t] = p
      BY <2>3 DEF CloseSessionTunnels
    <3>2. t \in Tunnels /\ listeners[p].tunnel = t
      BY <3>1, EntriesNameTheirOwnPort, NoneAssumption DEF OpenedOn
    <3> QED
      BY <2>3, <3>1, <3>2 DEF CloseSessionTunnels, ManagerTypeOK
  <2> QED
    BY <2>1, <2>2, <2>3 DEF ManagerNext
<1> QED
  BY <1>1, ManagerTypeCorrect, MapsMatch, PTL DEF ManagerSpec, PortsChangeHandsOnlyWhenFreed
=============================================================================
