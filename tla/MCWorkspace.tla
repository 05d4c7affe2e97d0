----------------------------- MODULE MCWorkspace -----------------------------
(* Lists, windows and forms that keep no session's data: machines, the      *)
(* order of the lists, the log window, the connection form, the two tunnel  *)
(* forms, and the transfers of files.  They share no state, so a behaviour  *)
(* is one of one part.                                                      *)
EXTENDS PanelMachines, ListOrder, LogViewer,
        ConnectionForm, TunnelSettings, TunnelPanel, FileTransfers, TLC

VARIABLE part   \* the part this behaviour is about

workspaceVars ==
  <<part, machineVars, sorting, logVars, formVars, settings, tunnelVars, transferVars>>

(* Two transfers have one destination or are entries of one folder, names   *)
(* being alike; a place no transfer writes to is empty.                     *)
FirstName == CHOOSE n \in FileNames : TRUE

RelatedTransfers ==
  /\ \A t \in Transfers : plan[t].before = Nobody => plan[t].to[2] = FirstName
  /\ \A t, u \in Transfers :
       t # u => \/ plan[t].to = plan[u].to
                \/ plan[t].before = u
                \/ plan[u].before = t
  /\ \A p \in Place : (\A t \in Transfers : plan[t].to # p) => stored[p] = NoFile

FirstTransfers ==
  /\ \A t \in Transfers : plan[t].before = Nobody /\ work[t].source = 0
  /\ \A t \in Transfers : plan[t].to = <<"upload", FirstName>>
  /\ \A p \in Place : stored[p] = NoFile
  /\ server.posix

(* Transfers are alike: no action tells one from another.                   *)
TransferSymmetry == Permutations(Transfers)

(* The parts that are not explored start in one way only.                   *)
WorkspaceInit ==
  /\ part \in {"machines", "order", "log", "form", "drafts", "tunnels", "transfers"}
  /\ MachinesInit
  /\ SortingInit
  /\ LogInit
  /\ FormInit
  /\ SettingsInit
  /\ PanelTunnelsInit
  /\ TransfersInit
  /\ IF part = "transfers" THEN RelatedTransfers ELSE FirstTransfers
  /\ part # "order" => sorting.list = "files"
  /\ part # "drafts" => settings.connection = "new"
  /\ part # "tunnels" => \A t \in PanelTunnels : saved[t] = Nowhere

Only(p) ==
  /\ UNCHANGED part
  /\ p # "machines" => UNCHANGED machineVars
  /\ p # "order" => UNCHANGED sorting
  /\ p # "log" => UNCHANGED logVars
  /\ p # "form" => UNCHANGED formVars
  /\ p # "drafts" => UNCHANGED settings
  /\ p # "tunnels" => UNCHANGED tunnelVars
  /\ p # "transfers" => UNCHANGED transferVars

WorkspaceNext ==
  \/ part = "machines" /\ MachinesNext /\ Only("machines")
  \/ part = "order" /\ SortingNext /\ Only("order")
  \/ part = "log" /\ LogNext /\ Only("log")
  \/ part = "form" /\ FormNext /\ Only("form")
  \/ part = "drafts" /\ SettingsNext /\ Only("drafts")
  \/ part = "tunnels" /\ PanelTunnelsNext /\ Only("tunnels")
  \/ part = "transfers" /\ TransfersNext /\ Only("transfers")

WorkspaceSpec == WorkspaceInit /\ [][WorkspaceNext]_workspaceVars

(* Every state of every part is well typed.                                 *)
WorkspaceTypeOK ==
  /\ MachinesTypeOK
  /\ SortingTypeOK
  /\ LogTypeOK
  /\ FormTypeOK
  /\ SettingsTypeOK
  /\ PanelTunnelsTypeOK
  /\ TransfersTypeOK
=============================================================================
