----------------------------- MODULE TunnelPanel -----------------------------
(***************************************************************************)
(* The Tunnels tab of the panel (handlers of ssh-gui/frontend/src/         *)
(* components/BottomPanel.jsx and the form of TunnelModal.jsx) over        *)
(* ssh-gui/app_tunnels.go, on one connected session.  Wails runs every     *)
(* call in a goroutine of its own, so that the steps of two calls          *)
(* interleave.  A tunnel's destination and port are one number; what a     *)
(* listener does is in TunnelManager.                                      *)
(***************************************************************************)
EXTENDS Naturals, FiniteSets

CONSTANTS PanelTunnels,     \* the identifiers tunnels may get
          Endpoints,        \* what a tunnel may forward: port and destination
          MaxTunnelCalls,   \* bound on the calls on their way
          Overlap,          \* may two calls about one tunnel overlap?
          Nowhere           \* no endpoint

ASSUME PanelTunnelsAssumption ==
  /\ MaxTunnelCalls \in Nat /\ Overlap \in BOOLEAN
  /\ Nowhere \notin Endpoints
  /\ "none" \notin PanelTunnels

VARIABLES
  saved,         \* the row of each tunnel in the database, or Nowhere
  listening,     \* runtimeTunnels: what its listener forwards, or Nowhere
  tunnelForm,    \* the state of the tab's two dialogs
  tunnelCalls    \* calls on their way, a set of TunnelCall

tunnelVars == <<saved, listening, tunnelForm, tunnelCalls>>

OrNowhere == Endpoints \cup {Nowhere}
OrNone == PanelTunnels \cup {"none"}
Off == [t \in PanelTunnels |-> Nowhere]

TunnelForm ==
  [open: BOOLEAN,          \* isModalOpen
   editing: OrNone,        \* editingTunnelId
   endpoint: OrNowhere,    \* the three fields; Nowhere until they are filled
   deleting: OrNone]       \* deleteTunnelTarget

(* A call of EditTunnel or DeleteTunnel that has turned its tunnel off is   *)
(* "off".                                                                   *)
TunnelCall ==
  [op: {"add", "edit", "delete", "turn on", "turn off"}, tunnel: OrNone,
   endpoint: OrNowhere, at: {"sent", "off"}]

PanelTunnelsInit ==
  /\ saved \in [PanelTunnels -> OrNowhere]
  /\ listening = Off
  /\ tunnelForm = [open |-> FALSE, editing |-> "none", endpoint |-> Nowhere,
                   deleting |-> "none"]
  /\ tunnelCalls = {}

-----------------------------------------------------------------------------
(* The tab.  tunnels-changed follows every change, and the reload it causes *)
(* is one step with it: the rows are the database's, see SessionViews for   *)
(* how the reload is guarded                                                *)

Covered == tunnelForm.open \/ tunnelForm.deleting # "none"

(* The rows with their buttons, which nothing disables.                     *)
RowsWithButtons == IF Covered THEN {} ELSE {t \in PanelTunnels : saved[t] # Nowhere}

OpenCreateModal ==
  /\ ~Covered
  /\ tunnelForm' = [tunnelForm EXCEPT !.open = TRUE, !.editing = "none",
                                      !.endpoint = Nowhere]
  /\ UNCHANGED <<saved, listening, tunnelCalls>>

OpenEditModal(t) ==
  /\ t \in RowsWithButtons
  /\ tunnelForm' = [tunnelForm EXCEPT !.open = TRUE, !.editing = t,
                                      !.endpoint = saved[t]]
  /\ UNCHANGED <<saved, listening, tunnelCalls>>

(* The fields of TunnelModal.                                               *)
TypeEndpoint(e) ==
  /\ tunnelForm.open
  /\ tunnelForm' = [tunnelForm EXCEPT !.endpoint = e]
  /\ UNCHANGED <<saved, listening, tunnelCalls>>

CloseTunnelModal ==
  /\ tunnelForm.open
  /\ tunnelForm' = [tunnelForm EXCEPT !.open = FALSE]
  /\ UNCHANGED <<saved, listening, tunnelCalls>>

(* The code lets calls about one tunnel overlap; with Overlap = FALSE the   *)
(* user waits for each.                                                     *)
SendTunnel(op, t, e) ==
  /\ Cardinality(tunnelCalls) < MaxTunnelCalls
  /\ Overlap \/ \A c \in tunnelCalls : t # "none" => c.tunnel # t
  /\ tunnelCalls' = tunnelCalls \cup
       {[op |-> op, tunnel |-> t, endpoint |-> e, at |-> "sent"]}

(* handleSaveTunnel up to its await: the form stays open and unlocked.      *)
HandleSaveTunnel ==
  /\ tunnelForm.open /\ tunnelForm.endpoint # Nowhere
  /\ SendTunnel(IF tunnelForm.editing = "none" THEN "add" ELSE "edit",
                tunnelForm.editing, tunnelForm.endpoint)
  /\ UNCHANGED <<saved, listening, tunnelForm>>

(* handleToggleTunnel, with what the row shows.                             *)
HandleToggleTunnel(t) ==
  /\ t \in RowsWithButtons
  /\ SendTunnel(IF listening[t] = Nowhere THEN "turn on" ELSE "turn off", t, saved[t])
  /\ UNCHANGED <<saved, listening, tunnelForm>>

HandleDeleteTunnel(t) ==
  /\ t \in RowsWithButtons
  /\ tunnelForm' = [tunnelForm EXCEPT !.deleting = t]
  /\ UNCHANGED <<saved, listening, tunnelCalls>>

ConfirmDeleteTunnel ==
  /\ tunnelForm.deleting # "none"
  /\ SendTunnel("delete", tunnelForm.deleting, Nowhere)
  /\ tunnelForm' = [tunnelForm EXCEPT !.deleting = "none"]
  /\ UNCHANGED <<saved, listening>>

CancelDeleteTunnel ==
  /\ tunnelForm.deleting # "none"
  /\ tunnelForm' = [tunnelForm EXCEPT !.deleting = "none"]
  /\ UNCHANGED <<saved, listening, tunnelCalls>>

-----------------------------------------------------------------------------
(* The calls *)

TunnelCallEnds(c) == tunnelCalls' = tunnelCalls \ {c}

(* handleSaveTunnel after its await, on success: the form that is open by   *)
(* now is closed.                                                           *)
SavedTunnel == tunnelForm' = [tunnelForm EXCEPT !.open = FALSE]

(* ToggleTunnel: the port may be taken, the session gone.                   *)
ToggleEnds(c) ==
  /\ c.op \in {"turn on", "turn off"}
  /\ TunnelCallEnds(c)
  /\ listening' \in {listening, [listening EXCEPT
       ![c.tunnel] = IF c.op = "turn on" THEN c.endpoint ELSE Nowhere]}
  /\ UNCHANGED <<saved, tunnelForm>>

AddEnds(c) ==
  /\ c.op = "add"
  /\ TunnelCallEnds(c)
  /\ \/ /\ \E t \in PanelTunnels :
             saved[t] = Nowhere /\ saved' = [saved EXCEPT ![t] = c.endpoint]
        /\ SavedTunnel
     \/ UNCHANGED <<saved, tunnelForm>>
  /\ UNCHANGED listening

(* Mutant of TurnOffFirst: an edit leaves the listener to the user.         *)
TurnOffFirst_OnDelete(c) ==
  /\ c.op \in {"edit", "delete"} /\ c.at = "sent"
  /\ tunnelCalls' = (tunnelCalls \ {c}) \cup {[c EXCEPT !.at = "off"]}
  /\ listening' = IF c.op = "delete" THEN [listening EXCEPT ![c.tunnel] = Nowhere]
                  ELSE listening
  /\ UNCHANGED <<saved, tunnelForm>>

(* EditTunnel and DeleteTunnel turn the tunnel off first.                   *)
TurnOffFirst(c) ==
  /\ c.op \in {"edit", "delete"} /\ c.at = "sent"
  /\ tunnelCalls' = (tunnelCalls \ {c}) \cup {[c EXCEPT !.at = "off"]}
  /\ listening' = [listening EXCEPT ![c.tunnel] = Nowhere]
  /\ UNCHANGED <<saved, tunnelForm>>

(* UpdateTunnel; an error, as for a row that is gone, leaves the form open. *)
EditEnds(c) ==
  /\ c.op = "edit" /\ c.at = "off"
  /\ TunnelCallEnds(c)
  /\ \/ /\ saved[c.tunnel] # Nowhere
        /\ saved' = [saved EXCEPT ![c.tunnel] = c.endpoint]
        /\ SavedTunnel
     \/ UNCHANGED <<saved, tunnelForm>>
  /\ UNCHANGED listening

DeleteTunnelEnds(c) ==
  /\ c.op = "delete" /\ c.at = "off"
  /\ TunnelCallEnds(c)
  /\ saved' \in {saved, [saved EXCEPT ![c.tunnel] = Nowhere]}
  /\ UNCHANGED <<listening, tunnelForm>>

PanelTunnelsNext ==
  \/ OpenCreateModal
  \/ \E t \in PanelTunnels :
       OpenEditModal(t) \/ HandleToggleTunnel(t) \/ HandleDeleteTunnel(t)
  \/ \E e \in OrNowhere : TypeEndpoint(e)
  \/ CloseTunnelModal
  \/ HandleSaveTunnel
  \/ ConfirmDeleteTunnel
  \/ CancelDeleteTunnel
  \/ \E c \in tunnelCalls :
       \/ ToggleEnds(c)
       \/ AddEnds(c)
       \/ TurnOffFirst(c)
       \/ EditEnds(c)
       \/ DeleteTunnelEnds(c)

PanelTunnelsSpec == PanelTunnelsInit /\ [][PanelTunnelsNext]_tunnelVars

-----------------------------------------------------------------------------

PanelTunnelsTypeOK ==
  /\ saved \in [PanelTunnels -> OrNowhere]
  /\ listening \in [PanelTunnels -> OrNowhere]
  /\ tunnelForm \in TunnelForm
  /\ tunnelCalls \in SUBSET TunnelCall

(* app_tunnels.go:51-53: EditTunnel works by "turning it off first if it    *)
(* has a live listener running (its old host/port would otherwise keep      *)
(* forwarding after the edit)", and DeleteTunnel likewise.  Once the calls  *)
(* about a tunnel are over, what it forwards is what its row says, though   *)
(* each may fail half-way and forms and dialogs stay open meanwhile.  (Only *)
(* for a user who waits: switching a tunnel on while it is edited or        *)
(* deleted may leave the old listener behind.)                              *)
ForwardsFollowTheirRow ==
  \A t \in PanelTunnels :
    listening[t] # Nowhere /\ (\A c \in tunnelCalls : c.tunnel # t)
      => listening[t] = saved[t]
=============================================================================
