------------------------------ MODULE PanelData ------------------------------
(***************************************************************************)
(* What the panel under the terminal shows of a host: its containers and   *)
(* their use of resources, ports, databases and virtual machines           *)
(* (ssh-gui/frontend/src/components/BottomPanel.jsx).  One panel serves    *)
(* all SSH tabs.  Its lists are asked when the panel opens, turns to       *)
(* another tab or another session, and by intervals that do not wait for   *)
(* an answer; no answer is told from a late one.                           *)
(***************************************************************************)
EXTENDS Naturals, FiniteSets, SshTabs

CONSTANTS Tabs,          \* the panel's tabs, among them "transfers" and "docker"
          MaxListCalls   \* bound on the calls on their way

ASSUME PanelAssumption ==
  MaxListCalls \in Nat /\ {"transfers", "docker"} \subseteq Tabs

VARIABLES panel,      \* the state of the BottomPanel, a Panel
          listCalls   \* calls on their way, a set of ListCall

panelVars == <<panel, listCalls>>

Console == "console"
Sizes == {"collapsed", "docked", "fullscreen"}
Lists == {"containers", "stats", "ports", "databases", "vms"}
ListCall == [list: Lists, host: Hosts]

Panel ==
  [phone: BOOLEAN,                  \* useIsPhone, fixed
   session: Hosts \cup {None},      \* sessionId; None: a tab without a panel
   docker: BOOLEAN,                 \* dockerAvailable
   selected: Tabs,                  \* selectedTab
   mobile: Tabs \cup {Console},     \* mobileTab
   size: Sizes,                     \* panelMode
   shown: [Lists -> Hosts \cup {None}],  \* empty, or the host it came from
   sudo: BOOLEAN]                   \* is the sudo password asked for?

Fetches(h, lists) == {[list |-> l, host |-> h] : l \in lists}
Empty == [l \in Lists |-> None]

Unmounted(p) ==
  [p EXCEPT !.session = None, !.docker = FALSE, !.selected = "transfers",
            !.size = "collapsed", !.shown = Empty, !.sudo = FALSE]

PanelInit ==
  /\ panel \in {[phone |-> b, session |-> None, docker |-> FALSE,
                 selected |-> "transfers", mobile |-> Console, size |-> "collapsed",
                 shown |-> Empty, sudo |-> FALSE] : b \in BOOLEAN}
  /\ listCalls = {}

-----------------------------------------------------------------------------
(* What is on screen *)

VisibleTabs(p) == IF p.docker THEN Tabs ELSE Tabs \ {"docker"}

ActiveTab(p) ==
  IF p.selected = "docker" /\ ~p.docker THEN "transfers" ELSE p.selected

(* On a phone the bar at the bottom of the screen rules.                    *)
IsOpen(p) ==
  /\ p.session # None
  /\ IF p.phone THEN p.mobile \in VisibleTabs(p) ELSE p.size # "collapsed"

ListsOf(tab) ==
  IF tab = "docker" THEN {"containers", "stats"}
  ELSE IF tab = "ports" THEN {"ports"}
  ELSE IF tab = "databases" THEN {"databases"}
  ELSE IF tab = "virtualbox" THEN {"vms"}
  ELSE {}

(* The effect on [phoneShowsPanel, mobileTab].                              *)
FollowMobile(p) ==
  IF p.phone /\ p.mobile \in VisibleTabs(p)
  THEN [p EXCEPT !.selected = p.mobile] ELSE p

(* The panel's props and state become those of p.  The effect on            *)
(* [activeTab, sessionId, collapsed] clears the lists and asks for those of *)
(* the tab; a panel that collapses keeps what it has.  An effect of App may *)
(* turn the view of a phone to mobile after that.                           *)
ShowThen(p, mobile) ==
  LET q == FollowMobile(p)
      Deps(x) == <<ActiveTab(x), x.session, IsOpen(x)>>
  IN  IF IsOpen(q) /\ Deps(q) # Deps(panel)
      THEN /\ panel' = [q EXCEPT !.shown = Empty, !.mobile = mobile]
           /\ listCalls' = listCalls \cup Fetches(q.session, ListsOf(ActiveTab(q)))
           /\ Cardinality(listCalls') <= MaxListCalls
      ELSE panel' = [q EXCEPT !.mobile = mobile] /\ UNCHANGED listCalls

Show(p) == ShowThen(p, p.mobile)

(* Another SSH tab becomes the active one; whether its host has a container *)
(* runtime is not known yet.  A phone returns to the console once the panel *)
(* has been rendered for it.                                                *)
PanelSession(h) ==
  /\ h # panel.session
  /\ ShowThen([panel EXCEPT !.session = h, !.docker = FALSE], Console)

(* A tab without a panel, where a phone's bar may be used; no pending       *)
(* answer has anything to set any more.                                     *)
LeavePanel ==
  /\ panel.session # None
  /\ \E view \in IF panel.phone THEN VisibleTabs(Unmounted(panel)) \cup {Console}
                 ELSE {Console} :
       panel' = [Unmounted(panel) EXCEPT !.mobile = view]
  /\ listCalls' = {}

(* useContainerRuntime has its answer, see SessionViews.                    *)
RuntimeFound ==
  /\ panel.session # None /\ ~panel.docker
  /\ Show([panel EXCEPT !.docker = TRUE])

(* It is asked about no session once this one is disconnected.              *)
RuntimeLost ==
  /\ panel.docker
  /\ Show([panel EXCEPT !.docker = FALSE])

-----------------------------------------------------------------------------
(* The strip of tabs and its buttons, under no dialog *)

Reachable == panel.session # None /\ ~panel.sudo

SelectTab(tab) ==
  /\ Reachable /\ ~panel.phone
  /\ tab \in VisibleTabs(panel)
  /\ Show([panel EXCEPT !.selected = tab,
                        !.size = IF @ = "collapsed" THEN "docked" ELSE @])

Resize(to) ==
  /\ Reachable /\ ~panel.phone
  /\ to # panel.size
  /\ Show([panel EXCEPT !.size = to])

(* The bar at the bottom of a phone.                                        *)
SelectMobile(tab) ==
  /\ Reachable /\ panel.phone
  /\ tab \in VisibleTabs(panel) \cup {Console}
  /\ Show([panel EXCEPT !.mobile = tab])

-----------------------------------------------------------------------------
(* Asking and answers *)

(* Mutant of Polled: the intervals of a session outlive it.                 *)
Polled_Leaking(l) == Fetches(CHOOSE h \in Hosts : TRUE, {l})

(* The call of an interval, which the next run of the effect clears.        *)
Polled(l) == Fetches(panel.session, {l})

Ask(calls) ==
  /\ listCalls' = listCalls \cup calls
  /\ Cardinality(listCalls') <= MaxListCalls

(* An interval fires, or the refresh button, or an action of a row fetches  *)
(* the list again.                                                          *)
Poll(l) ==
  /\ IsOpen(panel) /\ l \in ListsOf(ActiveTab(panel))
  /\ Ask(Polled(l))
  /\ UNCHANGED panel

Answered(c, p) == panel' = p /\ listCalls' = listCalls \ {c}

(* fetchPorts, and fetchContainers, fetchDatabases and fetchVMs likewise.   *)
ListArrives(c) ==
  /\ c.list # "stats"
  /\ Answered(c, [panel EXCEPT !.shown[c.list] = c.host])

(* fetchStats replaces its map, or ignores an error.                        *)
StatsArrive(c) ==
  /\ c.list = "stats"
  /\ \E h \in {c.host, panel.shown["stats"]} :
       Answered(c, [panel EXCEPT !.shown["stats"] = h])

(* fetchPorts and fetchDatabases leave their lists.                         *)
KeepList(c) ==
  /\ c.list \in {"ports", "databases"}
  /\ Answered(c, panel)

(* fetchVMs empties its list.                                               *)
VMsFail(c) ==
  /\ c.list = "vms"
  /\ Answered(c, [panel EXCEPT !.shown["vms"] = None])

(* fetchContainers may be told that a password is needed.                   *)
ContainersFail(c) ==
  /\ c.list = "containers"
  /\ \E asks \in {TRUE, panel.sudo} : Answered(c, [panel EXCEPT !.sudo = asks])

(* handleSudoPasswordSubmit fetches the containers again.                   *)
SubmitSudo ==
  /\ panel.sudo
  /\ panel' = [panel EXCEPT !.sudo = FALSE]
  /\ Ask(Polled("containers"))

CancelSudo ==
  /\ panel.sudo
  /\ panel' = [panel EXCEPT !.sudo = FALSE]
  /\ UNCHANGED listCalls

Arrives(c) ==
  \/ ListArrives(c)
  \/ StatsArrive(c)
  \/ KeepList(c)
  \/ VMsFail(c)
  \/ ContainersFail(c)

PanelNext ==
  \/ \E h \in Hosts : PanelSession(h)
  \/ LeavePanel
  \/ RuntimeFound
  \/ RuntimeLost
  \/ \E tab \in Tabs \cup {Console} : SelectTab(tab) \/ SelectMobile(tab)
  \/ \E to \in Sizes : Resize(to)
  \/ \E l \in Lists : Poll(l)
  \/ \E c \in listCalls : Arrives(c)
  \/ SubmitSudo
  \/ CancelSudo

(* The calls for virtual machines are answered, or fail; the interval of a  *)
(* panel that shows them fires.                                             *)
VMsAnswered(h) ==
  \E c \in listCalls : c.list = "vms" /\ c.host = h /\ Arrives(c)
PanelFairness ==
  WF_panelVars(Poll("vms")) /\ \A h \in Hosts : WF_panelVars(VMsAnswered(h))

PanelSpec == PanelInit /\ [][PanelNext]_panelVars

-----------------------------------------------------------------------------

PanelTypeOK ==
  /\ panel \in Panel
  /\ listCalls \in SUBSET ListCall

(* Nothing tells late answers apart, so after a change of tabs another      *)
(* host's machines may come on screen, under names both hosts may have.     *)
(* But not for ever: as long as the panel stays on a session's machines, in *)
(* the end it lists that session's.                                         *)
MachinesSettle ==
  \A h \in Hosts :
    <>[](panel.session = h /\ IsOpen(panel) /\ ActiveTab(panel) = "virtualbox")
      => <>[](panel.shown["vms"] \in {h, None})
=============================================================================
