---------------------------- MODULE TerminalTabs -----------------------------
(***************************************************************************)
(* The tabs of the desktop user interface over the sessions of the backend *)
(* (ssh-gui/frontend/src/App.jsx composed with SshSessions).  A binding    *)
(* call answers with a promise, an event arrives on its own channel, and   *)
(* nothing orders the two: the id of a new session reaches the interface   *)
(* when its promise is handled, its session-disconnected event whenever it *)
(* is delivered.                                                           *)
(***************************************************************************)
EXTENDS SshSessions

CONSTANTS Connections,   \* the saved connections
          ConnectionOf   \* session -> the connection it is opened for

(* A local terminal is of no connection.                                    *)
ASSUME ConnectionsAssumption ==
  /\ None \notin Connections
  /\ ConnectionOf \in [Sessions -> Connections \cup {None}]

VARIABLES
  tabs,       \* ids of the open tabs (a tab's id is its session's id)
  marked,     \* tabs with disconnected: true
  purpose,    \* session -> what its connect call was made for
  handled,    \* sessions whose connect promise was handled
  delivered,  \* sessions whose session-disconnected event was handled
  tabClosing, \* tabs whose handleCloseTab awaits CloseSession
  listed,     \* the connections in the list of the interface
  deletion    \* the deletion of a connection on its way, or None

connectionVars == <<listed, deletion>>
tabVars == <<tabs, marked, purpose, handled, delivered, tabClosing, connectionVars>>
allVars == <<vars, tabVars>>

NewTab == "new tab"
Purpose == Sessions \cup {None, NewTab}

(* The tabs, and their marks, are those of the render that the closure of   *)
(* confirmDeleteConnection was made in.                                     *)
Deletion == [of: Connections, tabs: SUBSET Sessions, marked: SUBSET Sessions]

TabsInit ==
  /\ Init
  /\ tabs = {}
  /\ marked = {}
  /\ purpose = [s \in Sessions |-> None]
  /\ handled = {}
  /\ delivered = {}
  /\ tabClosing = {}
  /\ listed = Connections
  /\ deletion = None

-----------------------------------------------------------------------------

(* The dialog that confirms a deletion covers the window, and is locked and *)
(* keeps the focus until the deletion ends (common/Modal.jsx).              *)
WindowIsFree == deletion = None

Start(s, why) ==
  /\ WindowIsFree
  /\ Connect(s) \/ StartLocalTerminal(s)
  /\ purpose' = [purpose EXCEPT ![s] = why]
  /\ UNCHANGED <<tabs, marked, handled, delivered, tabClosing, connectionVars>>

(* handleOpenConnection, handleConnectVia, handleOpenLocalTerminal          *)
OpenTab(s) ==
  /\ s \in LocalSessions \/ ConnectionOf[s] \in listed
  /\ Start(s, NewTab)

(* handleReconnect, offered on a disconnected tab; its button is disabled   *)
(* while a reconnection of the tab is pending.                              *)
Reconnect(old, s) ==
  /\ old \in (tabs \cap marked) \ LocalSessions
  /\ s \in SshOnly
  /\ ConnectionOf[s] = ConnectionOf[old] /\ ConnectionOf[old] \in listed
  /\ \A r \in Sessions : purpose[r] = old => r \in handled
  /\ Start(s, old)

(* Mutant of ResultArrives: the tab gets the wrong id.                      *)
ResultArrives_WrongId(s) ==
  /\ call[s] = "returned"
  /\ s \notin handled
  /\ handled' = handled \cup {s}
  /\ tabs' = tabs \cup {purpose[s]}
  /\ UNCHANGED <<vars, marked, purpose, delivered, tabClosing, connectionVars>>

(* The awaited call resolves: a new tab is added, or the old tab, if it is  *)
(* still there, takes the new session's id and loses its mark.              *)
ResultArrives(s) ==
  /\ call[s] = "returned"
  /\ s \notin handled
  /\ handled' = handled \cup {s}
  /\ IF purpose[s] = NewTab
     THEN tabs' = tabs \cup {s} /\ UNCHANGED marked
     ELSE /\ tabs' = IF purpose[s] \in tabs
                     THEN (tabs \ {purpose[s]}) \cup {s} ELSE tabs
          /\ marked' = marked \ {purpose[s]}
  /\ UNCHANGED <<vars, purpose, delivered, tabClosing, connectionVars>>

(* The awaited call rejects: a dialog, and the tabs stay as they are.       *)
ErrorArrives(s) ==
  /\ call[s] = "failed"
  /\ s \notin handled
  /\ handled' = handled \cup {s}
  /\ UNCHANGED <<vars, tabs, marked, purpose, delivered, tabClosing, connectionVars>>

(* The session-disconnected listener marks the tab of that id, if any.      *)
EventArrives(s) ==
  /\ s \in announced \ delivered
  /\ delivered' = delivered \cup {s}
  /\ marked' = marked \cup ({s} \cap tabs)
  /\ UNCHANGED <<vars, tabs, purpose, handled, tabClosing, connectionVars>>

(* handleCloseTab: CloseSession is awaited, then the tab is filtered out.   *)
CloseTab(s) ==
  /\ WindowIsFree
  /\ s \in tabs \ tabClosing
  /\ CloseBegins(s)
  /\ tabClosing' = tabClosing \cup {s}
  /\ UNCHANGED <<tabs, marked, purpose, handled, delivered, connectionVars>>

(* Mutant of TabRemoved: CloseSession is not awaited.                       *)
TabRemoved_NotAwaiting(s) ==
  /\ s \in tabClosing
  /\ tabClosing' = tabClosing \ {s}
  /\ tabs' = tabs \ {s}
  /\ marked' = marked \ {s}
  /\ UNCHANGED <<vars, purpose, handled, delivered, connectionVars>>

TabRemoved(s) ==
  /\ s \in tabClosing \ closer
  /\ tabClosing' = tabClosing \ {s}
  /\ tabs' = tabs \ {s}
  /\ marked' = marked \ {s}
  /\ UNCHANGED <<vars, purpose, handled, delivered, connectionVars>>

(* confirmDeleteConnection: DeleteConnection and the reload of the list are *)
(* awaited.                                                                 *)
DeleteConnection(c) ==
  /\ WindowIsFree
  /\ c \in listed
  /\ deletion' = [of |-> c, tabs |-> tabs, marked |-> marked]
  /\ UNCHANGED <<vars, tabs, marked, purpose, handled, delivered, tabClosing, listed>>

(* Then the tabs become those of the closure, without the tabs of the       *)
(* connection, and no CloseSession is called.  An error changes nothing.    *)
DeletionEnds ==
  /\ deletion # None
  /\ deletion' = None
  /\ \/ /\ listed' = listed \ {deletion.of}
        /\ tabs' = {s \in deletion.tabs : ConnectionOf[s] # deletion.of}
        /\ marked' = deletion.marked \cap tabs'
     \/ UNCHANGED <<listed, tabs, marked>>
  /\ UNCHANGED <<vars, purpose, handled, delivered, tabClosing>>

(* The steps of the backend the interface does not take part in.  Tunnel    *)
(* calls are left out: they neither write a session nor a tab.              *)
Backend ==
  /\ \E s \in Sessions :
       \/ DialFails(s)
       \/ DialSucceeds(s)
       \/ SetupFails(s)
       \/ Register(s)
       \/ ShellFails(s)
       \/ ShellStarts(s)
       \/ ConnectReturns(s)
       \/ TransportDies(s)
       \/ ReaderStops(s)
       \/ ReaderRemoves(s)
       \/ ReaderAnnounces(s)
       \/ CloseEnds(s)
  /\ UNCHANGED tabVars

TabsNext ==
  \/ Backend
  \/ \E s \in Sessions :
       \/ OpenTab(s)
       \/ ResultArrives(s)
       \/ ErrorArrives(s)
       \/ EventArrives(s)
       \/ CloseTab(s)
       \/ TabRemoved(s)
  \/ \E old, s \in Sessions : Reconnect(old, s)
  \/ \E c \in Connections : DeleteConnection(c)
  \/ DeletionEnds

(* Promises and events are delivered in the end; the backend's goroutines   *)
(* and calls finish, users do what they please.                             *)
TabsFairness ==
  \A s \in Sessions :
    /\ WF_allVars(ResultArrives(s))
    /\ WF_allVars(EventArrives(s))
    /\ WF_allVars(TabRemoved(s) \/ (Backend /\ CloseEnds(s)))
    /\ WF_allVars(Backend /\ ReaderRunsOn(s))

TabsSpec == TabsInit /\ [][TabsNext]_allVars
FairTabsSpec == TabsSpec /\ TabsFairness

-----------------------------------------------------------------------------

TabsTypeOK ==
  /\ TypeOK
  /\ tabs \in SUBSET Sessions
  /\ marked \in SUBSET Sessions
  /\ purpose \in [Sessions -> Purpose]
  /\ handled \in SUBSET Sessions
  /\ delivered \in SUBSET Sessions
  /\ tabClosing \in SUBSET Sessions
  /\ listed \in SUBSET Connections
  /\ deletion \in Deletion \cup {None}

(* A tab shown as disconnected has no session behind it any more: late      *)
(* events of an old session, reconnections and closing tabs never combine   *)
(* to mark a tab whose session is alive.                                    *)
MarkedTabsAreDead ==
  \A s \in marked : s \in tabs \cap announced /\ s \notin registry

(* Closing a tab and reconnecting it take the tab away after its session    *)
(* was released, whoever else ends the session meanwhile.  Only the end of  *)
(* a deletion takes away tabs whose session goes on.                        *)
SessionReleased(s) == s \notin registry /\ transport[s] = "closed"
ClosedTabsWereReleased ==
  [][\A s \in tabs \ tabs' : SessionReleased(s) \/ deletion' # deletion]_allVars

(* docs/connection-lifecycle.md:12: "Cerrar usa el mismo manejador y        *)
(* elimina la pestana despues de liberar la sesion".  Whatever takes a tab  *)
(* away, its session was released before.                                   *)
TabsOutliveTheirSessions == [][\A s \in tabs \ tabs' : SessionReleased(s)]_allVars

(* docs/connection-lifecycle.md:9: "Una desconexion conserva la pestana y   *)
(* ofrece Reconectar desde la pestana y la vista desconectada".             *)
LostTabsOfferReconnect ==
  \A s \in Sessions :
    (s \in tabs /\ transport[s] # "open") ~> (s \in marked \/ s \notin tabs)
=============================================================================
