-------------------------- MODULE TerminalTabsProofs --------------------------
(***************************************************************************)
(* What holds of the tabs for any number of sessions.  A tab step is a     *)
(* step of the sessions or leaves them alone, so that everything           *)
(* SshSessionsProofs says of a session holds of those behind the tabs.     *)
(***************************************************************************)
EXTENDS TerminalTabs, SshSessionsProofs

(* The interface drives the sessions only through the calls of the backend. *)
LEMMA TabStepsAreSessionSteps ==
  ASSUME [TabsNext]_allVars PROVE [Next]_vars
<1>1. CASE Backend
  BY <1>1 DEF Backend, Next, ConnectNext, CloseNext
<1>2. ASSUME NEW s \in Sessions, NEW why, Start(s, why)
      PROVE  Next
  BY <1>2 DEF Start, Next, ConnectNext
<1>3. ASSUME NEW s \in Sessions, CloseTab(s)
      PROVE  Next
  BY <1>3 DEF CloseTab, Next, CloseNext
<1>4. ASSUME NEW s \in Sessions,
             ResultArrives(s) \/ ErrorArrives(s) \/ EventArrives(s) \/ TabRemoved(s)
      PROVE  UNCHANGED vars
  BY <1>4 DEF ResultArrives, ErrorArrives, EventArrives, TabRemoved
<1>5. ASSUME NEW old \in Sessions, NEW s \in Sessions, Reconnect(old, s)
      PROVE  Next
  BY <1>2, <1>5 DEF Reconnect
<1>6. ASSUME DeletionEnds \/ \E c \in Connections : DeleteConnection(c)
      PROVE  UNCHANGED vars
  BY <1>6 DEF DeletionEnds, DeleteConnection
<1>7. CASE UNCHANGED allVars
  BY <1>7 DEF allVars
<1> QED
  BY <1>1, <1>2, <1>3, <1>4, <1>5, <1>6, <1>7 DEF TabsNext, OpenTab

(* Behind the tabs the sessions behave as SshSessions says.                 *)
LEMMA TabsRunSessions == TabsSpec => Spec
<1>1. TabsInit => Init
  BY DEF TabsInit
<1> QED
  BY <1>1, TabStepsAreSessionSteps, PTL DEF TabsSpec, Spec

(* The state of the tabs holds what it is declared to hold.                 *)
THEOREM TabsTypeCorrect == TabsSpec => []TabsTypeOK
<1> DEFINE T == /\ tabs \in SUBSET Sessions
                /\ marked \in SUBSET Sessions
                /\ purpose \in [Sessions -> Purpose]
                /\ handled \in SUBSET Sessions
                /\ delivered \in SUBSET Sessions
                /\ tabClosing \in SUBSET Sessions
                /\ listed \in SUBSET Connections
                /\ deletion \in Deletion \cup {None}
<1>1. TabsInit => T
  BY DEF TabsInit, Purpose
<1>2. T /\ [TabsNext]_allVars => T'
  <2> SUFFICES ASSUME T, [TabsNext]_allVars
               PROVE  T'
    OBVIOUS
  <2>1. CASE Backend
    BY <2>1 DEF Backend, tabVars, connectionVars
  <2>2. ASSUME NEW s \in Sessions, NEW why \in Purpose, Start(s, why)
        PROVE  T'
    BY <2>2 DEF Start, connectionVars
  <2>3. ASSUME NEW s \in Sessions,
               ResultArrives(s) \/ ErrorArrives(s) \/ EventArrives(s)
                 \/ CloseTab(s) \/ TabRemoved(s)
        PROVE  T'
    BY <2>3 DEF ResultArrives, ErrorArrives, EventArrives, CloseTab, TabRemoved,
       connectionVars
  <2>4. ASSUME NEW old \in Sessions, NEW s \in Sessions, Reconnect(old, s)
        PROVE  T'
    BY <2>2, <2>4 DEF Reconnect, Purpose
  <2>5. ASSUME NEW s \in Sessions, OpenTab(s)
        PROVE  T'
    BY <2>2, <2>5 DEF OpenTab, Purpose
  <2>6. ASSUME NEW c \in Connections, DeleteConnection(c)
        PROVE  T'
    BY <2>6 DEF DeleteConnection, Deletion
  <2>7. CASE DeletionEnds
    <3>1. deletion \in Deletion
      BY <2>7 DEF DeletionEnds
    <3> QED
      BY <2>7, <3>1 DEF DeletionEnds, Deletion
  <2>8. CASE UNCHANGED allVars
    BY <2>8 DEF allVars, tabVars, connectionVars
  <2> QED
    BY <2>1, <2>3, <2>4, <2>5, <2>6, <2>7, <2>8 DEF TabsNext
<1>3. TypeOK /\ T => TabsTypeOK
  BY DEF TabsTypeOK
<1> QED
  BY <1>1, <1>2, <1>3, TabsRunSessions, TypeCorrect, PTL DEF TabsSpec

(* What is announced stays announced.                                       *)
LEMMA AnnouncedStays ==
  ASSUME [Next]_vars PROVE announced \subseteq announced'
BY DEF Next, ConnectNext, Connect, DialFails, DialSucceeds, SetupFails, Register,
   ShellFails, ShellStarts, ConnectReturns, StartLocalTerminal, TransportDies,
   CloseNext, ReaderStops, ReaderRemoves, ReaderAnnounces, CloseBegins, CloseEnds,
   TunnelNext, GetTunnels, ToggleOff, AddTunnel, ToggleFindsSession, ToggleOpens,
   ChangeStops, ChangeWritesRow, ReplaceTunnels, vars, sessionVars

(* A marked tab is a tab and announced, and so is one a reconnection was    *)
(* started for.  A tab being closed has returned from its connect call, and *)
(* once its CloseSession has ended it is out of the registry.  The marks a  *)
(* deletion has in its closure are of tabs that were announced.             *)
TabsInv ==
  /\ marked \subseteq tabs \cap announced
  /\ \A s \in Sessions : purpose[s] \in {None, NewTab} \cup announced
  /\ \A s \in tabClosing : call[s] = "returned" /\ (s \in closer \/ s \notin registry)
  /\ deletion # None => deletion.marked \subseteq announced

(* Every step keeps what tabs and sessions have in common.                  *)
LEMMA TabsInvStep ==
  ASSUME TypeOK, SessionInv, TabsTypeOK, TabsInv, [TabsNext]_allVars
  PROVE  TabsInv'
<1> DEFINE Marks == marked \subseteq tabs \cap announced
           Purposes == \A s \in Sessions : purpose[s] \in {None, NewTab} \cup announced
           Closings == \A s \in tabClosing :
                         call[s] = "returned" /\ (s \in closer \/ s \notin registry)
           Stale == deletion # None => deletion.marked \subseteq announced
<1>0. [Next]_vars /\ announced \subseteq announced'
  BY TabStepsAreSessionSteps, AnnouncedStays
<1>1. CASE Backend
  <2>1. Marks' /\ Purposes' /\ Stale'
    BY <1>0, <1>1 DEF Backend, tabVars, connectionVars, TabsInv
  <2>2. Closings'
    BY <1>1 DEF Backend, tabVars, TabsInv, TypeOK, SessionTypeOK, DialFails,
       DialSucceeds, SetupFails, Register, ShellFails, ShellStarts, ConnectReturns,
       TransportDies, ReaderStops, ReaderRemoves, ReaderAnnounces, CloseEnds,
       CallStep, Remove, SetTransport, TabsTypeOK
  <2> QED
    BY <2>1, <2>2 DEF TabsInv
<1>2. ASSUME NEW s \in Sessions, NEW why \in {NewTab} \cup announced, Start(s, why)
      PROVE  TabsInv'
  <2>1. Marks' /\ Purposes' /\ Stale'
    BY <1>0, <1>2 DEF Start, TabsInv, TabsTypeOK, connectionVars
  <2>2. Closings'
    BY <1>2 DEF Start, TabsInv, TabsTypeOK, TypeOK, SessionTypeOK, Connect,
       StartLocalTerminal, CallStep
  <2> QED
    BY <2>1, <2>2 DEF TabsInv
<1>3. ASSUME NEW s \in Sessions, CloseTab(s)
      PROVE  TabsInv'
  BY <1>3 DEF CloseTab, CloseBegins, TabsInv, connectionVars
<1>4. ASSUME NEW s \in Sessions,
             ResultArrives(s) \/ ErrorArrives(s) \/ EventArrives(s) \/ TabRemoved(s)
      PROVE  TabsInv'
  BY <1>4 DEF ResultArrives, ErrorArrives, EventArrives, TabRemoved, TabsInv, vars,
     sessionVars, connectionVars
<1>5. ASSUME NEW old \in Sessions, NEW s \in Sessions, Reconnect(old, s)
      PROVE  TabsInv'
  BY <1>2, <1>5 DEF Reconnect, TabsInv
<1>6. ASSUME NEW c \in Connections, DeleteConnection(c)
      PROVE  TabsInv'
  BY <1>6 DEF DeleteConnection, TabsInv, vars, sessionVars
<1>7. CASE DeletionEnds
  BY <1>7 DEF DeletionEnds, TabsInv, vars, sessionVars
<1>8. CASE UNCHANGED allVars
  BY <1>8 DEF allVars, tabVars, vars, sessionVars, connectionVars, TabsInv
<1> QED
  BY <1>1, <1>2, <1>3, <1>4, <1>5, <1>6, <1>7, <1>8 DEF TabsNext, OpenTab

(* So it holds of every state.                                              *)
LEMMA TabsInvariant == TabsSpec => []TabsInv
<1>1. TabsInit => TabsInv
  BY DEF TabsInit, TabsInv
<1>2. TypeOK /\ SessionInv /\ TabsTypeOK /\ TabsInv /\ [TabsNext]_allVars => TabsInv'
  BY TabsInvStep
<1> QED
  BY <1>1, <1>2, TabsRunSessions, TypeCorrect, SessionInvHolds, TabsTypeCorrect, PTL
     DEF TabsSpec

(* A tab shown as disconnected has no session behind it.                    *)
THEOREM MarkedAreDead == TabsSpec => []MarkedTabsAreDead
<1>1. TabsInv /\ AnnouncedSessionsAreReleased => MarkedTabsAreDead
  BY DEF TabsInv, AnnouncedSessionsAreReleased, MarkedTabsAreDead
<1> QED
  BY <1>1, TabsInvariant, TabsRunSessions, AnnouncedAreReleased, PTL

(* Closing a tab and reconnecting it take the tab away after its session    *)
(* was released; only a deletion does not.                                  *)
THEOREM ClosedAreReleased == TabsSpec => ClosedTabsWereReleased
<1>1. /\ TypeOK /\ SessionInv /\ TabsTypeOK /\ TabsInv /\ AnnouncedSessionsAreReleased
      /\ [TabsNext]_allVars
      => [\A s \in tabs \ tabs' : SessionReleased(s) \/ deletion' # deletion]_allVars
  <2> SUFFICES ASSUME TypeOK, SessionInv, TabsTypeOK, TabsInv,
                      AnnouncedSessionsAreReleased, TabsNext,
                      NEW t \in tabs \ tabs'
               PROVE  SessionReleased(t) \/ deletion' # deletion
    OBVIOUS
  <2>1. ASSUME NEW s \in Sessions, ResultArrives(s)
        PROVE  t = purpose[s] /\ purpose[s] # NewTab
    BY <2>1 DEF ResultArrives
  <2>2. ASSUME NEW s \in Sessions, ResultArrives(s)
        PROVE  SessionReleased(t)
    BY <2>1, <2>2, NoneAssumption
       DEF TabsInv, TabsTypeOK, AnnouncedSessionsAreReleased, SessionReleased
  <2>3. ASSUME NEW s \in Sessions, TabRemoved(s)
        PROVE  SessionReleased(t)
    BY <2>3 DEF TabRemoved, TabsInv, SessionInv, SessionInvOf, SessionReleased
  <2>4. CASE Backend
    BY <2>4 DEF Backend, tabVars
  <2>5. ASSUME NEW s \in Sessions, NEW why, Start(s, why)
        PROVE  FALSE
    BY <2>5 DEF Start
  <2>6. ASSUME NEW s \in Sessions, ErrorArrives(s) \/ EventArrives(s) \/ CloseTab(s)
        PROVE  FALSE
    BY <2>6 DEF ErrorArrives, EventArrives, CloseTab
  <2>7. ASSUME NEW c \in Connections, DeleteConnection(c)
        PROVE  FALSE
    BY <2>7 DEF DeleteConnection
  <2>8. CASE DeletionEnds
    BY <2>8 DEF DeletionEnds
  <2> QED
    BY <2>2, <2>3, <2>4, <2>5, <2>6, <2>7, <2>8 DEF TabsNext, OpenTab, Reconnect
<1> QED
  BY <1>1, TabsInvariant, TabsRunSessions, TypeCorrect, SessionInvHolds,
     TabsTypeCorrect, AnnouncedAreReleased, PTL DEF TabsSpec, ClosedTabsWereReleased
=============================================================================
