---------------------------- MODULE TunnelManager ----------------------------
(***************************************************************************)
(* The runtime side of SSH local port forwarding                           *)
(* (ssh-gui/backend/tunnels/manager.go).                                   *)
(*                                                                         *)
(* Manager keeps two maps under one mutex, runtimeTunnels and              *)
(* tunnelSession, and the operating system keeps the truth both describe:  *)
(* which local ports are bound, and by which listener.  Every method holds *)
(* the mutex from its first line to its last, so each is one action.       *)
(***************************************************************************)

CONSTANTS Tunnels,   \* tunnel ids (UUIDs of database rows)
          Sessions,  \* session ids (UUIDs)
          Ports,     \* local ports a tunnel may ask for
          None       \* an absent map entry, a free port

Listener == [tunnel: Tunnels, session: Sessions]

ASSUME NoneAssumption ==
  None \notin Tunnels \cup Sessions \cup Ports \cup Listener

VARIABLES
  runtimeTunnels,  \* tunnel -> the local port of its live listener
  tunnelSession,   \* tunnel -> the session that opened the listener
  listeners        \* port -> the listener bound to it (the OS's view)

managerVars == <<runtimeTunnels, tunnelSession, listeners>>

ManagerInit ==
  /\ runtimeTunnels = [t \in Tunnels |-> None]
  /\ tunnelSession = [t \in Tunnels |-> None]
  /\ listeners = [p \in Ports |-> None]

-----------------------------------------------------------------------------

(* Toggle with activate: net.Listen succeeds only on a free port, then the *)
(* two map entries are written over whatever they held.  When net.Listen   *)
(* fails nothing changes.                                                  *)
StartForward(s, t, p) ==
  /\ listeners[p] = None
  /\ listeners' = [listeners EXCEPT ![p] = [tunnel |-> t, session |-> s]]
  /\ runtimeTunnels' = [runtimeTunnels EXCEPT ![t] = p]
  /\ tunnelSession' = [tunnelSession EXCEPT ![t] = s]

(* Toggle without activate: a no-op for a tunnel that is not running.      *)
StopForward(t) ==
  /\ listeners' = [p \in Ports |->
                     IF runtimeTunnels[t] = p THEN None ELSE listeners[p]]
  /\ runtimeTunnels' = [runtimeTunnels EXCEPT ![t] = None]
  /\ tunnelSession' = [tunnelSession EXCEPT ![t] =
                         IF runtimeTunnels[t] = None THEN @ ELSE None]

OpenedOn(s) == {t \in Tunnels : tunnelSession[t] = s}

(* Mutant of CloseSessionTunnels: the owners are not deleted.               *)
CloseSessionTunnels_KeepsOwner(s) ==
  /\ listeners' = [p \in Ports |->
                     IF \E t \in OpenedOn(s) : runtimeTunnels[t] = p
                     THEN None ELSE listeners[p]]
  /\ runtimeTunnels' = [t \in Tunnels |->
                          IF t \in OpenedOn(s) THEN None ELSE runtimeTunnels[t]]
  /\ UNCHANGED tunnelSession

(* CloseSession: every entry whose owner is s goes, with its listener.     *)
CloseSessionTunnels(s) ==
  /\ listeners' = [p \in Ports |->
                     IF \E t \in OpenedOn(s) : runtimeTunnels[t] = p
                     THEN None ELSE listeners[p]]
  /\ runtimeTunnels' = [t \in Tunnels |->
                          IF t \in OpenedOn(s) THEN None ELSE runtimeTunnels[t]]
  /\ tunnelSession' = [t \in Tunnels |->
                         IF t \in OpenedOn(s) THEN None ELSE tunnelSession[t]]

(* MarkActive: what the user interface is told about t.                    *)
Active(t) == runtimeTunnels[t] # None

ManagerNext ==
  \/ \E s \in Sessions, t \in Tunnels, p \in Ports : StartForward(s, t, p)
  \/ \E t \in Tunnels : StopForward(t)
  \/ \E s \in Sessions : CloseSessionTunnels(s)

ManagerSpec == ManagerInit /\ [][ManagerNext]_managerVars

-----------------------------------------------------------------------------

ManagerTypeOK ==
  /\ runtimeTunnels \in [Tunnels -> Ports \cup {None}]
  /\ tunnelSession \in [Tunnels -> Sessions \cup {None}]
  /\ listeners \in [Ports -> Listener \cup {None}]

(* The two maps and the operating system agree: a tunnel has a runtime     *)
(* entry exactly when it has an owner, and the port the entry names is     *)
(* bound by a listener of that very tunnel, opened on that very session.   *)
(* So MarkActive never reports a forward that is not there, and stopping a *)
(* tunnel never closes the port of another one.                            *)
MapsMatchListeners ==
  \A t \in Tunnels :
    /\ (runtimeTunnels[t] = None) <=> (tunnelSession[t] = None)
    /\ runtimeTunnels[t] # None =>
         listeners[runtimeTunnels[t]] =
           [tunnel |-> t, session |-> tunnelSession[t]]

(* Nothing takes a bound port over, and a port is released only together   *)
(* with the runtime entry that names it: no call closes a listener and     *)
(* leaves its tunnel shown as active, or hands a live port to another      *)
(* session.                                                                *)
PortsChangeHandsOnlyWhenFreed ==
  [][\A p \in Ports :
       listeners[p] # None /\ listeners'[p] # listeners[p] =>
         /\ listeners'[p] = None
         /\ runtimeTunnels[listeners[p].tunnel] = p
         /\ runtimeTunnels'[listeners[p].tunnel] = None]_managerVars
=============================================================================
