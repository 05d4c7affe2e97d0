--------------------------- MODULE DockerExplorer ---------------------------
(***************************************************************************)
(* The window that lists and deletes a host's images and volumes and       *)
(* controls its Compose stacks (ssh-gui/frontend/src/components/docker/    *)
(* over app_docker_explorer.go and backend/dockerinfo).  Its views of      *)
(* images and of volumes are alike, so there is one here, of things.       *)
(* Other clients of Docker create, start, stop and remove containers.      *)
(***************************************************************************)
EXTENDS FiniteSets

CONSTANTS Things,       \* the images of the host, or its volumes
          Containers,   \* its containers
          Stack         \* those of the one Compose project

ASSUME ExplorerAssumption == Stack \subseteq Containers

VARIABLES
  things,    \* the things the host still has
  exist,     \* the containers there are
  uses,      \* the things each of them refers to
  running,   \* the containers that run
  window,    \* the state of the window, a Window
  work       \* what the window waits for, a Work

explorerVars == <<things, exist, uses, running, window, work>>
dockerVars == <<things, exist, uses, running>>

Used == UNION {uses[c] : c \in exist}
StackActions == {"start", "stop", "restart"}

(* What a snapshot says of the stack is whether one of its containers is    *)
(* down and whether one runs.                                               *)
Snapshot == [things: SUBSET Things, used: SUBSET Things,
             down: BOOLEAN, active: BOOLEAN]

(* asking: what ConfirmAction would run, the things or the action it names. *)
NoQuestion == [things |-> {}, action |-> "none"]
Question == [things: SUBSET Things, action: StackActions \cup {"none"}]

Window ==
  [list: Snapshot,               \* snapshot
   selected: SUBSET Things,      \* of ImagesView and VolumesView
   unused: BOOLEAN,              \* the filter
   asking: Question]             \* confirmation

(* The lock is held by a refresh or by mutate, whose operation is the       *)
(* things left to delete, of which one is checked, or an action on the      *)
(* containers left.                                                         *)
Work ==
  [at: {"idle", "read", "delete", "remove", "look", "control"},
   things: SUBSET Things, checked: SUBSET Things, action: StackActions \cup {"none"},
   containers: SUBSET Containers]

Idle == [at |-> "idle", things |-> {}, checked |-> {}, action |-> "none", containers |-> {}]
Reading == [Idle EXCEPT !.at = "read"]

NothingListed == [things |-> {}, used |-> {}, down |-> FALSE, active |-> FALSE]

(* The window opens and refreshes.                                          *)
ExplorerInit ==
  /\ things = Things
  /\ exist = {}
  /\ uses = [c \in Containers |-> {}]
  /\ running = {}
  /\ window = [list |-> NothingListed, selected |-> {}, unused |-> FALSE,
               asking |-> NoQuestion]
  /\ work = Reading

-----------------------------------------------------------------------------
(* Docker *)

(* Another client creates, removes, starts or stops a container.            *)
OthersAct(c) ==
  /\ \/ /\ c \notin exist
        /\ exist' = exist \cup {c}
        /\ \E t \in SUBSET things : uses' = [uses EXCEPT ![c] = t]
        /\ UNCHANGED running
     \/ /\ c \in exist \ running
        /\ exist' = exist \ {c}
        /\ uses' = [uses EXCEPT ![c] = {}]
        /\ UNCHANGED running
     \/ /\ c \in exist
        /\ running' \in {running \cup {c}, running \ {c}}
        /\ UNCHANGED <<exist, uses>>
  /\ UNCHANGED <<things, window, work>>

(* docker image rm and docker volume rm, without force.                     *)
Removable(t) == t \notin Used

-----------------------------------------------------------------------------
(* The lists *)

Visible == {t \in window.list.things : window.unused => t \notin window.list.used}
Selectable == Visible \ window.list.used
SelectedThings == (window.selected \cap window.list.things) \ window.list.used
Busy == work.at # "idle"

(* The dialog is modal; the filter works at any time.                       *)
Clickable == window.asking = NoQuestion

ToggleUnused ==
  /\ Clickable
  /\ window' = [window EXCEPT !.unused = ~@]
  /\ UNCHANGED <<dockerVars, work>>

Toggle(t) ==
  /\ Clickable /\ ~Busy
  /\ t \in Selectable
  /\ window' = [window EXCEPT !.selected = IF t \in @ THEN @ \ {t} ELSE @ \cup {t}]
  /\ UNCHANGED <<dockerVars, work>>

ToggleAll ==
  /\ Clickable /\ ~Busy
  /\ Selectable # {}
  /\ window' = [window EXCEPT !.selected =
                  IF Selectable \subseteq @ THEN @ \ Selectable ELSE @ \cup Selectable]
  /\ UNCHANGED <<dockerVars, work>>

(* requestDelete and requestDeleteVolumes, by the button of a row or for    *)
(* all that is selected, filtered out or not.                               *)
RequestDelete(set) ==
  /\ Clickable /\ ~Busy
  /\ set \in {{t} : t \in Selectable} \cup ({SelectedThings} \ {{}})
  /\ window' = [window EXCEPT !.asking = [things |-> set, action |-> "none"]]
  /\ UNCHANGED <<dockerVars, work>>

StackOffers(action) ==
  IF action = "start" THEN window.list.down ELSE window.list.active

Control(action) == work' = [Idle EXCEPT !.at = "look", !.action = action]

StackAction(action) ==
  /\ Clickable /\ ~Busy
  /\ StackOffers(action)
  /\ IF action = "start"
     THEN Control(action) /\ UNCHANGED window
     ELSE /\ window' = [window EXCEPT !.asking = [things |-> {}, action |-> action]]
          /\ UNCHANGED work
  /\ UNCHANGED dockerVars

CloseConfirm ==
  /\ window.asking # NoQuestion
  /\ window' = [window EXCEPT !.asking = NoQuestion]
  /\ UNCHANGED <<dockerVars, work>>

Confirm ==
  /\ window.asking # NoQuestion /\ ~Busy
  /\ window' = [window EXCEPT !.asking = NoQuestion]
  /\ IF window.asking.action # "none"
     THEN Control(window.asking.action)
     ELSE work' = [Idle EXCEPT !.at = "delete", !.things = window.asking.things]
  /\ UNCHANGED dockerVars

(* Mutant of Refresh: the list is also read again behind the dialog.        *)
Refresh_BehindDialog ==
  /\ ~Busy
  /\ work' = Reading
  /\ UNCHANGED <<dockerVars, window>>

Refresh ==
  /\ Clickable /\ ~Busy
  /\ work' = Reading
  /\ UNCHANGED <<dockerVars, window>>

-----------------------------------------------------------------------------
(* The work *)

NextDelete(left) ==
  work' = IF left = {} THEN Reading ELSE [Idle EXCEPT !.at = "delete", !.things = left]

(* DeleteExplorerImage and DeleteExplorerVolume take a snapshot and look    *)
(* for references; an error is noted and the next thing is tried.           *)
CheckReferences(t) ==
  /\ work.at = "delete" /\ t \in work.things
  /\ \/ /\ t \in things \ Used
        /\ work' = [work EXCEPT !.at = "remove", !.checked = {t}]
     \/ NextDelete(work.things \ {t})
  /\ UNCHANGED <<dockerVars, window>>

(* The removal itself, after which Docker may have been asked once more     *)
(* with sudo.                                                               *)
RemoveThing(t) ==
  /\ work.at = "remove" /\ t \in work.checked
  /\ things' \in {things} \cup (IF Removable(t) THEN {things \ {t}} ELSE {})
  /\ NextDelete(work.things \ {t})
  /\ UNCHANGED <<exist, uses, running, window>>

NextControl(left) ==
  work' = IF left = {} THEN Reading
          ELSE [work EXCEPT !.at = "control", !.containers = left]

(* ControlExplorerStack takes a snapshot, or fails; containers of no or of  *)
(* another project, or where the action leads already, are passed over.     *)
LookAtStack ==
  /\ work.at = "look"
  /\ \/ NextControl({c \in Stack \cap exist :
                       work.action = "start" <=> c \notin running})
     \/ work' = Reading
  /\ UNCHANGED <<dockerVars, window>>

(* Mutant of ControlContainer: a container that is gone is run again.       *)
ControlContainer_Gone(c) ==
  /\ work.at = "control" /\ c \in work.containers
  /\ running' = IF work.action = "stop" THEN running \ {c} ELSE running \cup {c}
  /\ NextControl(work.containers \ {c})
  /\ UNCHANGED <<things, exist, uses, window>>

(* Then it runs the action on one container after the other, as they are by *)
(* now; a failure is noted.                                                 *)
ControlContainer(c) ==
  /\ work.at = "control" /\ c \in work.containers
  /\ running' \in {running} \cup
       (IF c \notin exist THEN {}
        ELSE IF work.action = "stop" THEN {running \ {c}} ELSE {running \cup {c}})
  /\ NextControl(work.containers \ {c})
  /\ UNCHANGED <<things, exist, uses, window>>

(* The snapshot that ends a refresh and a mutate; the selection is dropped. *)
SnapshotArrives ==
  /\ work.at = "read"
  /\ work' = Idle
  /\ window' = [window EXCEPT
       !.list = [things |-> things, used |-> Used,
                 down |-> (Stack \cap exist) \ running # {},
                 active |-> Stack \cap running # {}],
       !.selected = {}]
  /\ UNCHANGED dockerVars

SnapshotFails ==
  /\ work.at = "read"
  /\ work' = Idle
  /\ UNCHANGED <<dockerVars, window>>

Works ==
  \/ \E t \in Things : CheckReferences(t) \/ RemoveThing(t)
  \/ LookAtStack
  \/ \E c \in Containers : ControlContainer(c)
  \/ SnapshotArrives
  \/ SnapshotFails

ExplorerNext ==
  \/ \E c \in Containers : OthersAct(c)
  \/ ToggleUnused
  \/ \E t \in Things : Toggle(t)
  \/ ToggleAll
  \/ \E set \in SUBSET Things : RequestDelete(set)
  \/ \E action \in StackActions : StackAction(action)
  \/ CloseConfirm
  \/ Confirm
  \/ Refresh
  \/ Works

(* Every call of the window is answered.                                    *)
ExplorerFairness == WF_explorerVars(Works)

ExplorerSpec == ExplorerInit /\ [][ExplorerNext]_explorerVars

-----------------------------------------------------------------------------

ExplorerTypeOK ==
  /\ things \in SUBSET Things
  /\ exist \in SUBSET Containers
  /\ uses \in [Containers -> SUBSET Things]
  /\ running \in SUBSET exist
  /\ window \in Window
  /\ work \in Work

(* What a question names, and what a confirmed deletion still has to go     *)
(* through, stands in the list on screen with no container beside it: no    *)
(* new list comes behind the dialog or under a deletion, and what was       *)
(* selected or filtered out in an older list is never deleted with it.      *)
DeletionsFollowTheList ==
  window.asking.things \cup work.things \cup work.checked
    \subseteq window.list.things \ window.list.used

(* The buttons of the window do not stay disabled: a refresh, a deletion    *)
(* and an action on a stack all end, whatever fails in them.                *)
ExplorerComesFree == Busy ~> ~Busy
=============================================================================
