----------------------------- MODULE RemoteTree -----------------------------
(***************************************************************************)
(* The tree of remote files: listings, the context menu, deleting,         *)
(* renaming and creating (ssh-gui/frontend/src/components/files/           *)
(* RemoteFileTree.jsx, RemoteFileNode.jsx and FileContextMenu.jsx) and the *)
(* directory App.jsx remembers for each session.  One tree serves all SSH  *)
(* tabs; a local terminal or a desktop as active tab takes it away.        *)
(***************************************************************************)
EXTENDS Naturals, FiniteSets, SshTabs

CONSTANTS Sub, File,      \* a directory and a file of "/", on every host
          MaxTreeCalls    \* bound on the calls on their way

ASSUME TreeAssumption ==
  MaxTreeCalls \in Nat /\ Sub # File /\ None \notin {Sub, File}

VARIABLES
  tree,        \* the state of the RemoteFileTree on screen, a Tree
  treeCalls,   \* calls on their way, a set of TreeCall
  remembered,  \* fileTreePaths of App.jsx: the directory of each session
  listed       \* history: the directories each host has listed

treeVars == <<tree, treeCalls, remembered, listed>>

Root == "/"
Dirs == {Root, Sub}
Items(d) == IF d = Root THEN {Sub, File} ELSE {}
Parent == [d \in Dirs |-> Root]

(* In menu and prompt, Root is the empty space of the list.                 *)
Tree ==
  [session: Hosts \cup {None},   \* sessionId; None: no tree on screen
   path: Dirs,
   files: {{Sub, File}, {}, None},    \* None before the first listing
   menu: {Root, Sub, File, None},     \* the item of the open context menu
   target: {Sub, File, None},         \* deleteTarget
   deleting: BOOLEAN,                 \* is the dialog of target locked?
   prompt: {Root, Sub, File, None}]   \* the item of textPrompt

Fresh(h) == [session |-> h, path |-> Root, files |-> None, menu |-> None,
             target |-> None, deleting |-> FALSE, prompt |-> None]

(* host and dir are those of the render whose closure called; mounted tells *)
(* whether that tree is still on screen.                                    *)
TreeCall == [op: {"list", "delete", "rename", "create"}, host: Hosts,
             dir: Dirs, item: {Sub, File, Root}, mounted: BOOLEAN]

Call(op, dir, item) == [op |-> op, host |-> tree.session, dir |-> dir,
                        item |-> item, mounted |-> TRUE]

SendCall(c) ==
  /\ Cardinality(treeCalls) < MaxTreeCalls
  /\ treeCalls' = treeCalls \cup {c}

TreeInit ==
  /\ tree = Fresh(None)
  /\ treeCalls = {}
  /\ remembered = [h \in Hosts |-> None]
  /\ listed = [h \in Hosts |-> {}]

-----------------------------------------------------------------------------
(* Tabs and listings *)

(* The initialPath of a session: remembered, or its home, which is Root.    *)
InitialPath(h) == IF remembered[h] = None THEN Root ELSE remembered[h]

(* Another SSH tab becomes the active one.  The tree stays, and only its    *)
(* effect on [sessionId] runs: it loads the initial path.                   *)
ShowSession(h) ==
  /\ h # tree.session
  /\ tree' = IF tree.session = None THEN Fresh(h) ELSE [tree EXCEPT !.session = h]
  /\ SendCall([Call("list", InitialPath(h), Root) EXCEPT !.host = h])
  /\ UNCHANGED <<remembered, listed>>

(* A tab without files becomes the active one.                              *)
LeaveTree ==
  /\ tree' = Fresh(None)
  /\ treeCalls' = {[c EXCEPT !.mounted = FALSE] : c \in treeCalls}
  /\ UNCHANGED <<remembered, listed>>

(* No dialog takes the clicks.                                              *)
Uncovered == tree.session # None /\ tree.target = None /\ tree.prompt = None

(* load, called by refresh, goParent, the breadcrumb or a double click.     *)
Load(d) ==
  /\ Uncovered
  /\ d \in {tree.path, Parent[tree.path], Root}
       \cup (IF tree.files = None THEN {} ELSE tree.files \cap Dirs)
  /\ SendCall(Call("list", d, Root))
  /\ UNCHANGED <<tree, remembered, listed>>

(* Mutant of Remember: the directory is put down to the active tab.         *)
Remember_Active(c) ==
  remembered' = IF tree.session = None THEN remembered
                ELSE [remembered EXCEPT ![tree.session] = c.dir]

(* rememberFileTreePath of App.jsx, which outlives the tree.                *)
Remember(c) == remembered' = [remembered EXCEPT ![c.host] = c.dir]

(* load after its await.                                                    *)
Listed(c) ==
  /\ c.op = "list"
  /\ tree' = IF c.mounted
             THEN [tree EXCEPT !.path = c.dir, !.files = Items(c.dir)] ELSE tree
  /\ Remember(c)
  /\ listed' = [listed EXCEPT ![c.host] = @ \cup {c.dir}]
  /\ treeCalls' = treeCalls \ {c}

ListFails(c) ==
  /\ c.op = "list"
  /\ treeCalls' = treeCalls \ {c}
  /\ UNCHANGED <<tree, remembered, listed>>

-----------------------------------------------------------------------------
(* The context menu and the dialogs *)

Local == UNCHANGED <<treeCalls, remembered, listed>>

OpenMenu(item) ==
  /\ Uncovered /\ tree.files # None
  /\ item \in tree.files \cup {Root}
  /\ tree' = [tree EXCEPT !.menu = item]
  /\ Local

(* A press outside, Escape or scrolling.                                    *)
CloseMenu ==
  /\ tree.menu # None
  /\ tree' = [tree EXCEPT !.menu = None]
  /\ Local

Offers(item) ==
  IF item = Root THEN {"new folder"}
  ELSE IF item = File THEN {"open", "download", "rename", "delete"}
  ELSE {"new folder", "rename", "delete"}

(* A row of the menu: its handler, then onClose.  Opening is in             *)
(* RemoteEditor; a download changes nothing here.                           *)
Choose(row) ==
  /\ tree.menu # None /\ row \in Offers(tree.menu)
  /\ tree' = [tree EXCEPT
       !.menu = None,
       !.target = IF row = "delete" THEN tree.menu ELSE @,
       !.prompt = IF row = "rename" THEN tree.menu
                  ELSE IF row = "new folder" THEN Root ELSE @]
  /\ Local

CanDelete == tree.target # None /\ ~tree.deleting

ConfirmDelete ==
  /\ CanDelete
  /\ tree' = [tree EXCEPT !.deleting = TRUE]
  /\ SendCall(Call("delete", tree.path, tree.target))
  /\ UNCHANGED <<remembered, listed>>

(* Cancel, Escape and the dialog's background.                              *)
CancelDelete ==
  /\ CanDelete
  /\ tree' = [tree EXCEPT !.target = None]
  /\ Local

(* refresh of the render that called: its session and its directory.        *)
ThenRefresh(c) ==
  treeCalls' = (treeCalls \ {c}) \cup {[c EXCEPT !.op = "list", !.item = Root]}

(* Mutant of DeleteEnds: a failure skips the finally.                       *)
DeleteEnds_NoFinally(c) ==
  /\ c.op = "delete"
  /\ tree' \in {IF c.mounted
                THEN [tree EXCEPT !.deleting = FALSE, !.target = None] ELSE tree, tree}
  /\ ThenRefresh(c)
  /\ UNCHANGED <<remembered, listed>>

(* confirmDeleteFile after its await: the dialog goes away on success and   *)
(* is unlocked in any case.                                                 *)
DeleteEnds(c) ==
  /\ c.op = "delete"
  /\ tree' \in IF c.mounted
               THEN {[tree EXCEPT !.deleting = FALSE, !.target = None],
                     [tree EXCEPT !.deleting = FALSE]}
               ELSE {tree}
  /\ ThenRefresh(c)
  /\ UNCHANGED <<remembered, listed>>

(* confirmTextPrompt is not locked: Enter and Save may come again.          *)
ConfirmPrompt ==
  /\ tree.prompt # None
  /\ SendCall(Call(IF tree.prompt = Root THEN "create" ELSE "rename", tree.path,
                   tree.prompt))
  /\ UNCHANGED <<tree, remembered, listed>>

(* Cancel, Escape, the background, or an empty name.                        *)
CancelPrompt ==
  /\ tree.prompt # None
  /\ tree' = [tree EXCEPT !.prompt = None]
  /\ Local

(* confirmTextPrompt after its await; a failure is not caught and leaves    *)
(* the prompt open.                                                         *)
PromptEnds(c) ==
  /\ c.op \in {"rename", "create"}
  /\ \/ /\ tree' = IF c.mounted THEN [tree EXCEPT !.prompt = None] ELSE tree
        /\ ThenRefresh(c)
     \/ treeCalls' = treeCalls \ {c} /\ UNCHANGED tree
  /\ UNCHANGED <<remembered, listed>>

TreeNext ==
  \/ \E h \in Hosts : ShowSession(h)
  \/ LeaveTree
  \/ \E d \in Dirs : Load(d)
  \/ \E c \in treeCalls :
       \/ Listed(c)
       \/ ListFails(c)
       \/ DeleteEnds(c)
       \/ PromptEnds(c)
  \/ \E item \in {Root, Sub, File} : OpenMenu(item)
  \/ CloseMenu
  \/ \E row \in Offers(Root) \cup Offers(File) : Choose(row)
  \/ ConfirmDelete
  \/ CancelDelete
  \/ ConfirmPrompt
  \/ CancelPrompt

(* A delete call is answered and its answer handled.                        *)
DeletesEnd == \E c \in treeCalls : DeleteEnds(c)
TreeFairness == WF_treeVars(DeletesEnd)

TreeSpec == TreeInit /\ [][TreeNext]_treeVars

-----------------------------------------------------------------------------

TreeTypeOK ==
  /\ tree \in Tree
  /\ treeCalls \in SUBSET TreeCall
  /\ remembered \in [Hosts -> Dirs \cup {None}]
  /\ listed \in [Hosts -> SUBSET Dirs]

(* The directory a session's tree opens with is one that this very session  *)
(* has listed: answers that come after a switch of tabs, or after the tree  *)
(* left the screen, are put down to the session that gave them.             *)
RememberedPathsWereListed ==
  \A h \in Hosts : remembered[h] # None => remembered[h] \in listed[h]

(* A dialog that cannot be cancelled comes free again.                      *)
DeletePromptUnlocks == tree.deleting ~> ~tree.deleting
=============================================================================
