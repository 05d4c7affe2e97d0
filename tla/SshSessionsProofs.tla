-------------------------- MODULE SshSessionsProofs --------------------------
(***************************************************************************)
(* Proofs about SshSessions, for any sets of sessions, tunnels and ports.  *)
(* The handlers call the tunnel manager only through its methods           *)
(* (SessionsCallTheManager), so that what is proved of it holds here; an   *)
(* inductive invariant ties the places that know of a session to each      *)
(* other (SessionInv), and what a session promises follows from it.        *)
(***************************************************************************)
EXTENDS SshSessions, TunnelManagerProofs

-----------------------------------------------------------------------------
(* The tunnel manager under the sessions *)

(* Whatever the callers do, the tunnel manager sees its own calls only.     *)
LEMMA StepsAreManagerSteps ==
  TypeOK /\ [Next]_vars => [ManagerNext]_managerVars
<1> SUFFICES ASSUME TypeOK, [Next]_vars
             PROVE  ManagerNext \/ UNCHANGED managerVars
  OBVIOUS
<1>1. ASSUME NEW s \in Sessions, ConnectNext(s)
      PROVE  UNCHANGED managerVars
  BY <1>1 DEF ConnectNext, Connect, DialFails, DialSucceeds, SetupFails, Register,
     ShellFails, ShellStarts, ConnectReturns, StartLocalTerminal, TransportDies
<1>2. ASSUME NEW s \in Sessions, CloseNext(s)
      PROVE  CloseSessionTunnels(s) \/ UNCHANGED managerVars
  BY <1>2 DEF CloseNext, ReaderStops, ReaderRemoves, ReaderAnnounces, CloseBegins,
     CloseEnds
<1>3. CASE TunnelNext
  <2>1. ASSUME NEW t \in Tunnels, GetTunnels(t) \/ ToggleOff(t)
        PROVE  StopForward(t) \/ UNCHANGED managerVars
    BY <2>1 DEF GetTunnels, ToggleOff
  <2>2. ASSUME NEW t \in Tunnels, NEW p \in Ports, AddTunnel(t, p)
        PROVE  UNCHANGED managerVars
    BY <2>2 DEF AddTunnel
  <2>3. ASSUME NEW s \in Sessions, NEW t \in Tunnels, ToggleFindsSession(s, t)
        PROVE  UNCHANGED managerVars
    BY <2>3 DEF ToggleFindsSession
  <2>4. ASSUME NEW a \in activating, ToggleOpens(a)
        PROVE  ManagerNext \/ UNCHANGED managerVars
    <3>1. a.session \in Sessions /\ a.tunnel \in Tunnels /\ a.port \in Ports
      BY DEF TypeOK, TunnelTypeOK, Activation
    <3> QED
      BY <2>4, <3>1 DEF ToggleOpens, ManagerNext
  <2>5. ASSUME NEW c \in Change, ChangeStops(c)
        PROVE  c.tunnel \in Tunnels /\ StopForward(c.tunnel)
    BY <2>5 DEF ChangeStops, Change
  <2>6. ASSUME NEW c \in changing, ChangeWritesRow(c)
        PROVE  UNCHANGED managerVars
    BY <2>6 DEF ChangeWritesRow
  <2>7. ASSUME NEW t \in Tunnels, NEW r \in Row, ReplaceTunnels(t, r)
        PROVE  UNCHANGED managerVars
    BY <2>7 DEF ReplaceTunnels
  <2> QED
    BY <1>3, <2>1, <2>2, <2>3, <2>4, <2>5, <2>6, <2>7 DEF TunnelNext, ManagerNext
<1>4. CASE UNCHANGED vars
  BY <1>4 DEF vars
<1> QED
  BY <1>1, <1>2, <1>3, <1>4 DEF Next, ManagerNext

-----------------------------------------------------------------------------
(* Types *)

(* Every step keeps the state of the sessions well-typed.                   *)
LEMMA SessionTypeStep == TypeOK /\ [Next]_vars => SessionTypeOK'
<1> SUFFICES ASSUME TypeOK, [Next]_vars
             PROVE  SessionTypeOK'
  OBVIOUS
<1> USE DEF TypeOK, SessionTypeOK
<1>1. ASSUME NEW s \in Sessions, ConnectNext(s)
      PROVE  SessionTypeOK'
  BY <1>1 DEF ConnectNext, Connect, DialFails, DialSucceeds, SetupFails, Register,
     ShellFails, ShellStarts, ConnectReturns, StartLocalTerminal, TransportDies,
     CallStep, SetTransport
<1>2. ASSUME NEW s \in Sessions, CloseNext(s)
      PROVE  SessionTypeOK'
  BY <1>2 DEF CloseNext, ReaderStops, ReaderRemoves, ReaderAnnounces, CloseBegins,
     CloseEnds, Remove, SetTransport
<1>3. ASSUME TunnelNext
      PROVE  SessionTypeOK'
  BY <1>3 DEF TunnelNext, GetTunnels, ToggleOff, AddTunnel, ToggleFindsSession,
     ToggleOpens, ChangeStops, ChangeWritesRow, ReplaceTunnels, sessionVars
<1>4. CASE UNCHANGED vars
  BY <1>4 DEF vars, sessionVars
<1> QED
  BY <1>1, <1>2, <1>3, <1>4 DEF Next

(* Every step keeps the rows, views and calls of the tunnels well-typed.    *)
LEMMA TunnelTypeStep == TypeOK /\ [Next]_vars => TunnelTypeOK'
<1> SUFFICES ASSUME TypeOK, [Next]_vars
             PROVE  TunnelTypeOK'
  OBVIOUS
<1> USE DEF TypeOK, TunnelTypeOK
<1>1. ASSUME NEW s \in Sessions, ConnectNext(s) \/ CloseNext(s)
      PROVE  UNCHANGED tunnelVars
  BY <1>1 DEF ConnectNext, Connect, DialFails, DialSucceeds, SetupFails, Register,
     ShellFails, ShellStarts, ConnectReturns, StartLocalTerminal, TransportDies,
     CloseNext, ReaderStops, ReaderRemoves, ReaderAnnounces, CloseBegins, CloseEnds
<1>2. CASE TunnelNext
  <2>1. ASSUME NEW t \in Tunnels, GetTunnels(t)
        PROVE  TunnelTypeOK'
    BY <2>1 DEF GetTunnels, View, Active
  <2>2. ASSUME NEW t \in Tunnels, ToggleOff(t)
        PROVE  TunnelTypeOK'
    BY <2>2 DEF ToggleOff, tunnelVars
  <2>3. ASSUME NEW t \in Tunnels, NEW p \in Ports, AddTunnel(t, p)
        PROVE  TunnelTypeOK'
    BY <2>3 DEF AddTunnel, Row
  <2>4. ASSUME NEW s \in Sessions, NEW t \in Tunnels, ToggleFindsSession(s, t)
        PROVE  TunnelTypeOK'
    <3>1. view[t].port \in Ports
      BY <2>4 DEF ToggleFindsSession, View
    <3> QED
      BY <2>4, <3>1 DEF ToggleFindsSession, Activation
  <2>5. ASSUME NEW a \in activating, ToggleOpens(a)
        PROVE  TunnelTypeOK'
    BY <2>5 DEF ToggleOpens
  <2>6. ASSUME NEW c \in Change, ChangeStops(c)
        PROVE  TunnelTypeOK'
    BY <2>6 DEF ChangeStops
  <2>7. ASSUME NEW c \in changing, ChangeWritesRow(c)
        PROVE  TunnelTypeOK'
    BY <2>7 DEF ChangeWritesRow, Change, Row
  <2>8. ASSUME NEW t \in Tunnels, NEW r \in Row, ReplaceTunnels(t, r)
        PROVE  TunnelTypeOK'
    BY <2>8 DEF ReplaceTunnels
  <2> QED
    BY <1>2, <2>1, <2>2, <2>3, <2>4, <2>5, <2>6, <2>7, <2>8 DEF TunnelNext
<1>3. CASE UNCHANGED tunnelVars
  BY <1>3 DEF tunnelVars
<1> QED
  BY <1>1, <1>2, <1>3 DEF Next, vars

(* The state holds what it is declared to hold.                             *)
THEOREM TypeCorrect == Spec => []TypeOK
<1>1. Init => TypeOK
  BY DEF Init, ManagerInit, TypeOK, SessionTypeOK, TunnelTypeOK, ManagerTypeOK, Row
<1>2. TypeOK /\ [Next]_vars => TypeOK'
  BY StepsAreManagerSteps, SessionTypeStep, TunnelTypeStep, ManagerTypeStep DEF TypeOK
<1> QED
  BY <1>1, <1>2, PTL DEF Spec

(* The manager's state changes by its own methods only, by the shape of the *)
(* definitions: this carries the theorems about it over.                    *)
LEMMA SessionsCallTheManager == Spec => ManagerSpec
<1>1. Init => ManagerInit
  BY DEF Init
<1> QED
  BY <1>1, TypeCorrect, StepsAreManagerSteps, PTL DEF Spec, ManagerSpec

(* So the maps match the listeners whatever sessions, users and merges do.  *)
THEOREM MapsMatchInSessions == Spec => []MapsMatchListeners
BY SessionsCallTheManager, MapsMatch, PTL

(* No handler, goroutine or merge takes a bound port over, or frees one     *)
(* without the runtime entry that names it.                                 *)
THEOREM PortsAreFreedInSessions == Spec => PortsChangeHandsOnlyWhenFreed
BY SessionsCallTheManager, PortsAreFreedFirst, PTL

-----------------------------------------------------------------------------
(* The life of a session *)

(* What the call, the registry, the transport, the reader goroutine and the *)
(* event of a session know of each other.                                   *)
SessionInvOf(s) ==
  /\ s \in announced <=> reader[s] = "done"
  /\ reader[s] = "none" <=> call[s] \notin {"started", "returned"}
  /\ call[s] \in {"idle", "dialing"} => transport[s] = "none"
  /\ call[s] = "setup" => transport[s] \in {"open", "dead"}
  /\ call[s] \in {"idle", "dialing", "setup"} => s \notin registry
  /\ call[s] = "added" => s \in registry
  /\ reader[s] # "none" => s \in registry \/ transport[s] = "closed"
  /\ reader[s] \in {"removed", "done"} => s \notin registry
  /\ s \in registry => transport[s] \in {"open", "dead"}
  /\ s \in closer => call[s] = "returned"

SessionInv == \A s \in Sessions : SessionInvOf(s)

(* A step of one session leaves what is known of the others alone.          *)
LEMMA SessionInvStep == TypeOK /\ SessionInv /\ [Next]_vars => SessionInv'
<1> SUFFICES ASSUME TypeOK, SessionInv, [Next]_vars, NEW r \in Sessions
             PROVE  SessionInvOf(r)'
  BY DEF SessionInv
<1>0. SessionInvOf(r) /\ SessionTypeOK
  BY DEF SessionInv, TypeOK
<1> USE <1>0 DEF SessionInvOf, SessionTypeOK
<1>1. ASSUME NEW s \in Sessions, ConnectNext(s)
      PROVE  SessionInvOf(r)'
  <2>1. CASE Connect(s)
    BY <2>1 DEF Connect, CallStep
  <2>2. CASE DialFails(s)
    BY <2>2 DEF DialFails, CallStep, SetTransport
  <2>3. CASE DialSucceeds(s)
    BY <2>3 DEF DialSucceeds, CallStep, SetTransport
  <2>4. CASE SetupFails(s)
    BY <2>4 DEF SetupFails, CallStep
  <2>5. CASE Register(s)
    BY <2>5 DEF Register, CallStep
  <2>6. CASE ShellFails(s)
    BY <2>6 DEF ShellFails, CallStep
  <2>7. CASE ShellStarts(s)
    BY <2>7 DEF ShellStarts, CallStep
  <2>8. CASE ConnectReturns(s)
    BY <2>8 DEF ConnectReturns, CallStep
  <2>9. CASE StartLocalTerminal(s)
    BY <2>9 DEF StartLocalTerminal, CallStep, SetTransport
  <2>10. CASE TransportDies(s)
    BY <2>10 DEF TransportDies, SetTransport
  <2> QED
    BY <1>1, <2>1, <2>2, <2>3, <2>4, <2>5, <2>6, <2>7, <2>8, <2>9, <2>10
       DEF ConnectNext
<1>2. ASSUME NEW s \in Sessions, CloseNext(s)
      PROVE  SessionInvOf(r)'
  <2>1. CASE ReaderStops(s)
    BY <2>1 DEF ReaderStops
  <2>2. CASE ReaderRemoves(s)
    BY <2>2 DEF ReaderRemoves, Remove, SetTransport
  <2>3. CASE ReaderAnnounces(s)
    BY <2>3 DEF ReaderAnnounces
  <2>4. CASE CloseBegins(s)
    BY <2>4 DEF CloseBegins
  <2>5. CASE CloseEnds(s)
    BY <2>5 DEF CloseEnds, Remove, SetTransport
  <2> QED
    BY <1>2, <2>1, <2>2, <2>3, <2>4, <2>5 DEF CloseNext
<1>3. ASSUME TunnelNext
      PROVE  UNCHANGED sessionVars
  BY <1>3 DEF TunnelNext, GetTunnels, ToggleOff, AddTunnel, ToggleFindsSession,
     ToggleOpens, ChangeStops, ChangeWritesRow, ReplaceTunnels
<1>4. CASE UNCHANGED sessionVars
  BY <1>4 DEF sessionVars
<1> QED
  BY <1>1, <1>2, <1>3, <1>4 DEF Next, vars

(* The inductive invariant of the sessions.                                 *)
LEMMA SessionInvHolds == Spec => []SessionInv
<1>1. Init => SessionInv
  BY DEF Init, SessionInv, SessionInvOf
<1> QED
  BY <1>1, TypeCorrect, SessionInvStep, PTL DEF Spec

(* The session-disconnected event is the last word about a session.         *)
THEOREM AnnouncedAreReleased == Spec => []AnnouncedSessionsAreReleased
<1>1. TypeOK /\ SessionInv => AnnouncedSessionsAreReleased
  BY DEF TypeOK, SessionTypeOK, SessionInv, SessionInvOf, AnnouncedSessionsAreReleased
<1> QED
  BY <1>1, TypeCorrect, SessionInvHolds, PTL

(* A session handed out is watched by its goroutine or closed.              *)
THEOREM ReturnedAreTracked == Spec => []ReturnedSessionsAreTracked
<1>1. TypeOK /\ SessionInv => ReturnedSessionsAreTracked
  BY DEF TypeOK, SessionTypeOK, SessionInv, SessionInvOf, ReturnedSessionsAreTracked
<1> QED
  BY <1>1, TypeCorrect, SessionInvHolds, PTL

(* Closed transports stay closed, and no closed session is registered.      *)
THEOREM ClosedStaysClosed == Spec => ClosedIsForever
<1> DEFINE Kept(s) == /\ transport[s] = "closed" => transport'[s] = "closed"
                      /\ s \in registry' \ registry => transport[s] # "closed"
<1>1. TypeOK /\ SessionInv /\ [Next]_vars
        => [\A s \in Sessions :
              /\ transport[s] = "closed" => transport'[s] = "closed"
              /\ s \in registry' \ registry => transport[s] # "closed"]_vars
  <2> SUFFICES ASSUME TypeOK, SessionInv, Next, NEW r \in Sessions
               PROVE  Kept(r)
    OBVIOUS
  <2>0. SessionInvOf(r) /\ SessionTypeOK
    BY DEF SessionInv, TypeOK
  <2>1. ASSUME NEW s \in Sessions, ConnectNext(s)
        PROVE  Kept(r)
    BY <2>0, <2>1 DEF SessionInvOf, SessionTypeOK, ConnectNext, Connect, DialFails,
       DialSucceeds, SetupFails, Register, ShellFails, ShellStarts, ConnectReturns,
       StartLocalTerminal, TransportDies, CallStep, SetTransport
  <2>2. ASSUME NEW s \in Sessions, CloseNext(s)
        PROVE  Kept(r)
    BY <2>0, <2>2 DEF SessionTypeOK, CloseNext, ReaderStops, ReaderRemoves,
       ReaderAnnounces, CloseBegins, CloseEnds, Remove, SetTransport
  <2>3. ASSUME TunnelNext
        PROVE  Kept(r)
    BY <2>3 DEF TunnelNext, GetTunnels, ToggleOff, AddTunnel, ToggleFindsSession,
       ToggleOpens, ChangeStops, ChangeWritesRow, ReplaceTunnels, sessionVars
  <2> QED
    BY <2>1, <2>2, <2>3 DEF Next
<1> QED
  BY <1>1, TypeCorrect, SessionInvHolds, PTL DEF Spec, ClosedIsForever

-----------------------------------------------------------------------------
(* Who owns a forward *)

(* ForwardsUseConnectedClients, with the activations still under way.       *)
Connected(s) == call[s] = "returned" /\ s \notin LocalSessions

ForwardInv ==
  /\ \A p \in Ports : listeners[p] # None => Connected(listeners[p].session)
  /\ \A a \in activating : Connected(a.session)

(* A session that was connected once counts as connected ever after.        *)
LEMMA ConnectedIsStable ==
  ASSUME TypeOK, [Next]_vars, NEW s \in Sessions, Connected(s)
  PROVE  Connected(s)'
<1> USE DEF TypeOK, SessionTypeOK, Connected
<1>1. ASSUME NEW r \in Sessions, ConnectNext(r)
      PROVE  Connected(s)'
  BY <1>1 DEF ConnectNext, Connect, DialFails, DialSucceeds, SetupFails, Register,
     ShellFails, ShellStarts, ConnectReturns, StartLocalTerminal, TransportDies,
     CallStep
<1>2. ASSUME NEW r \in Sessions, CloseNext(r)
      PROVE  Connected(s)'
  BY <1>2 DEF CloseNext, ReaderStops, ReaderRemoves, ReaderAnnounces, CloseBegins,
     CloseEnds
<1>3. ASSUME TunnelNext
      PROVE  Connected(s)'
  BY <1>3 DEF TunnelNext, GetTunnels, ToggleOff, AddTunnel, ToggleFindsSession,
     ToggleOpens, ChangeStops, ChangeWritesRow, ReplaceTunnels, sessionVars
<1>4. CASE UNCHANGED vars
  BY <1>4 DEF vars, sessionVars
<1> QED
  BY <1>1, <1>2, <1>3, <1>4 DEF Next

(* A step that only frees ports and starts no activation keeps ForwardInv.  *)
LEMMA ForwardInvFrame ==
  ASSUME TypeOK, ForwardInv, [Next]_vars,
         \A p \in Ports : listeners'[p] \in {listeners[p], None},
         activating' \subseteq activating
  PROVE  ForwardInv'
<1>1. \A p \in Ports : listeners[p] # None => listeners[p].session \in Sessions
  BY DEF TypeOK, ManagerTypeOK, Listener
<1>2. \A a \in activating : a.session \in Sessions
  BY DEF TypeOK, TunnelTypeOK, Activation
<1> QED
  BY <1>1, <1>2, ConnectedIsStable DEF ForwardInv

(* Every step keeps the owners of forwards, present and to come, connected. *)
LEMMA ForwardInvStep == TypeOK /\ ForwardInv /\ [Next]_vars => ForwardInv'
<1> SUFFICES ASSUME TypeOK, ForwardInv, [Next]_vars
             PROVE  ForwardInv'
  OBVIOUS
<1>1. ASSUME NEW s \in Sessions, ConnectNext(s) \/ CloseNext(s)
      PROVE  ForwardInv'
  <2>1. activating' = activating
    BY <1>1 DEF ConnectNext, Connect, DialFails, DialSucceeds, SetupFails, Register,
       ShellFails, ShellStarts, ConnectReturns, StartLocalTerminal, TransportDies,
       CloseNext, ReaderStops, ReaderRemoves, ReaderAnnounces, CloseBegins,
       CloseEnds, tunnelVars
  <2>2. CloseSessionTunnels(s) \/ listeners' = listeners
    BY <1>1 DEF ConnectNext, Connect, DialFails, DialSucceeds, SetupFails, Register,
       ShellFails, ShellStarts, ConnectReturns, StartLocalTerminal, TransportDies,
       CloseNext, ReaderStops, ReaderRemoves, ReaderAnnounces, CloseBegins,
       CloseEnds, managerVars
  <2>3. \A p \in Ports : listeners'[p] \in {listeners[p], None}
    BY <2>2 DEF CloseSessionTunnels
  <2> QED
    BY <2>1, <2>3, ForwardInvFrame
<1>2. CASE TunnelNext
  <2>1. ASSUME NEW t \in Tunnels, GetTunnels(t)
        PROVE  listeners' = listeners /\ activating' = activating
    BY <2>1 DEF GetTunnels, managerVars
  <2>2. ASSUME NEW t \in Tunnels, ToggleOff(t)
        PROVE  StopForward(t) /\ activating' = activating
    BY <2>2 DEF ToggleOff, tunnelVars
  <2>3. ASSUME NEW t \in Tunnels, NEW p \in Ports, AddTunnel(t, p)
        PROVE  listeners' = listeners /\ activating' = activating
    BY <2>3 DEF AddTunnel, managerVars
  <2>4. ASSUME NEW s \in Sessions, NEW t \in Tunnels, ToggleFindsSession(s, t)
        PROVE  ForwardInv'
    <3>1. /\ listeners' = listeners
          /\ activating' = activating \cup
               {[session |-> s, tunnel |-> t, port |-> view[t].port]}
          /\ call' = call
          /\ Connected(s)
      BY <2>4 DEF ToggleFindsSession, managerVars, sessionVars, Connected
    <3> QED
      BY <3>1 DEF ForwardInv, Connected
  <2>5. ASSUME NEW a \in activating, ToggleOpens(a)
        PROVE  ForwardInv'
    <3>1. /\ activating' = activating \ {a}
          /\ call' = call
          /\ \/ StartForward(a.session, a.tunnel, a.port)
             \/ listeners' = listeners
      BY <2>5 DEF ToggleOpens, sessionVars, managerVars
    <3>2. \A p \in Ports :
            \/ listeners'[p] = listeners[p]
            \/ listeners'[p] = [tunnel |-> a.tunnel, session |-> a.session]
      BY <3>1 DEF StartForward, TypeOK, ManagerTypeOK
    <3>3. Connected(a.session)
      BY DEF ForwardInv
    <3> QED
      BY <3>1, <3>2, <3>3 DEF ForwardInv, Connected
  <2>6. ASSUME NEW c \in Change, ChangeStops(c)
        PROVE  StopForward(c.tunnel) /\ activating' = activating
    BY <2>6 DEF ChangeStops
  <2>7. ASSUME NEW c \in changing, ChangeWritesRow(c)
        PROVE  listeners' = listeners /\ activating' = activating
    BY <2>7 DEF ChangeWritesRow, managerVars
  <2>8. ASSUME NEW t \in Tunnels, NEW r \in Row, ReplaceTunnels(t, r)
        PROVE  listeners' = listeners /\ activating' = activating
    BY <2>8 DEF ReplaceTunnels, managerVars
  <2>9. ASSUME NEW u, StopForward(u)
        PROVE  \A p \in Ports : listeners'[p] \in {listeners[p], None}
    BY <2>9 DEF StopForward
  <2> QED
    BY <1>2, <2>1, <2>2, <2>3, <2>4, <2>5, <2>6, <2>7, <2>8, <2>9, ForwardInvFrame
       DEF TunnelNext
<1>3. CASE UNCHANGED vars
  BY <1>3, ForwardInvFrame DEF vars, tunnelVars, managerVars
<1> QED
  BY <1>1, <1>2, <1>3 DEF Next

(* No forward ever runs through a session that did not finish connecting.   *)
THEOREM ForwardsAreConnected == Spec => []ForwardsUseConnectedClients
<1>1. Init => ForwardInv
  BY DEF Init, ManagerInit, ForwardInv
<1>2. ForwardInv => ForwardsUseConnectedClients
  BY DEF ForwardInv, Connected, ForwardsUseConnectedClients
<1> QED
  BY <1>1, <1>2, TypeCorrect, ForwardInvStep, PTL DEF Spec
=============================================================================
