----------------------------- MODULE MCInterface -----------------------------
(* The parts of the user interface that show one session.  Each keeps its   *)
(* own state and meets the others only through the session on screen, which *)
(* each of these models changes as it likes; so a behaviour is one of one   *)
(* part.                                                                    *)
EXTENDS SessionViews, RemoteTree, RemoteEditor,
        PanelData, PanelContainers, DockerExplorer

VARIABLE part   \* the part this behaviour is about

interfaceVars ==
  <<part, viewVars, treeVars, editorVars, panelVars, rowVars, explorerVars>>

(* The parts that are not explored start in one way only.                   *)
InterfaceInit ==
  /\ part \in {"views", "tree", "editor", "lists", "containers", "explorer"}
  /\ ViewsInit
  /\ TreeInit
  /\ EditorInit
  /\ PanelInit
  /\ RowsInit
  /\ ExplorerInit
  /\ part # "views" => hook = "tunnels"
  /\ part # "editor" => editor.session = CHOOSE h \in Hosts : TRUE
  /\ part # "lists" => ~panel.phone
  /\ part # "containers" => up = {}

Only(p) ==
  /\ UNCHANGED part
  /\ p # "views" => UNCHANGED viewVars
  /\ p # "tree" => UNCHANGED treeVars
  /\ p # "editor" => UNCHANGED editorVars
  /\ p # "lists" => UNCHANGED panelVars
  /\ p # "containers" => UNCHANGED rowVars
  /\ p # "explorer" => UNCHANGED explorerVars

InterfaceNext ==
  \/ part = "views" /\ ViewsNext /\ Only("views")
  \/ part = "tree" /\ TreeNext /\ Only("tree")
  \/ part = "editor" /\ EditorNext /\ Only("editor")
  \/ part = "lists" /\ PanelNext /\ Only("lists")
  \/ part = "containers" /\ RowsNext /\ Only("containers")
  \/ part = "explorer" /\ ExplorerNext /\ Only("explorer")

(* The fairness of each part, while it is the one explored.                 *)
InterfaceFairness ==
  /\ WF_treeVars(part = "tree" /\ DeletesEnd)
  /\ WF_editorVars(part = "editor" /\ SaveGoesOn)
  /\ WF_panelVars(part = "lists" /\ Poll("vms"))
  /\ \A h \in Hosts : WF_panelVars(part = "lists" /\ VMsAnswered(h))
  /\ SF_rowVars(part = "containers" /\ AskRows)
  /\ SF_rowVars(part = "containers" /\ HostReads)
  /\ \A s \in SUBSET Rows : WF_rowVars(part = "containers" /\ RowsReach(s))
  /\ WF_rowVars(part = "containers" /\ RowActionsEnd)
  /\ WF_explorerVars(part = "explorer" /\ Works)

InterfaceSpec ==
  InterfaceInit /\ [][InterfaceNext]_interfaceVars /\ InterfaceFairness

(* What the interface locks while a call is on its way, it unlocks again:   *)
(* the dialog of a deletion, the Save button of the editor, and the buttons *)
(* of the Docker explorer.                                                  *)
LocksEnd ==
  /\ DeletePromptUnlocks
  /\ SavingEnds
  /\ part = "explorer" => ExplorerComesFree

(* Every state of every part is well typed.                                 *)
InterfaceTypeOK ==
  /\ ViewsTypeOK
  /\ TreeTypeOK
  /\ EditorTypeOK
  /\ PanelTypeOK
  /\ RowsTypeOK
  /\ ExplorerTypeOK
=============================================================================
