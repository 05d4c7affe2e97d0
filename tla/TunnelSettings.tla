--------------------------- MODULE TunnelSettings ---------------------------
(***************************************************************************)
(* The tunnels in the form of a connection (ssh-gui/frontend/src/          *)
(* components/connections/ConnectionTunnels.jsx).  Those of a stored       *)
(* connection are changed by calls, those of a new one are drafts, kept    *)
(* until the connection is saved.  A tunnel stands for its local port; its *)
(* destination makes no difference here.                                   *)
(***************************************************************************)
EXTENDS Naturals

CONSTANTS Tunnels,    \* the identifiers tunnels may get
          MaxPort     \* the valid ports are 1 to MaxPort

ASSUME SettingsAssumption == MaxPort \in Nat /\ "none" \notin Tunnels

VARIABLE settings     \* the state of the tab, a Settings

Ports == 0..MaxPort   \* 0: an empty or invalid number
NoTunnel == "none"
ToTunnel == Tunnels \cup {NoTunnel}

Settings ==
  [connection: {"new", "stored"},
   list: [Tunnels -> Ports],     \* the tunnels shown; 0 is not among them
   editing: ToTunnel,
   port: Ports,                  \* draft.localPort
   deleting: ToTunnel,
   running: {"nothing", "submit", "remove"}]

Shown(s) == {t \in Tunnels : s.list[t] # 0}

SettingsInit ==
  settings \in [connection: {"new", "stored"}, list: {[t \in Tunnels |-> 0]},
                editing: {NoTunnel}, port: {0}, deleting: {NoTunnel},
                running: {"nothing"}]

Unlocked == settings.running = "nothing"

-----------------------------------------------------------------------------

(* The buttons of a row, and those under the fields.                        *)
EditTunnel(t) ==
  /\ Unlocked /\ t \in Shown(settings)
  /\ settings' = [settings EXCEPT !.editing = t, !.port = settings.list[t]]

AskRemove(t) ==
  /\ Unlocked /\ t \in Shown(settings)
  /\ settings' = [settings EXCEPT !.deleting = t]

KeepTunnel ==
  /\ Unlocked /\ settings.deleting # NoTunnel
  /\ settings' = [settings EXCEPT !.deleting = NoTunnel]

TypePort ==
  /\ Unlocked
  /\ \E p \in Ports : settings' = [settings EXCEPT !.port = p]

CancelEdit ==
  /\ Unlocked /\ settings.editing # NoTunnel
  /\ settings' = [settings EXCEPT !.editing = NoTunnel, !.port = 0]

-----------------------------------------------------------------------------

Submitted(s) == [s EXCEPT !.editing = NoTunnel, !.port = 0, !.running = "nothing"]

(* Mutant of Accepted: only a new tunnel's port is compared.                *)
Accepted_NewOnly ==
  /\ settings.port # 0
  /\ settings.editing = NoTunnel =>
       \A t \in Shown(settings) : settings.list[t] # settings.port

(* What submit looks at: a valid port that no other tunnel listens on.      *)
Accepted ==
  /\ settings.port # 0
  /\ \A t \in Shown(settings) :
       t # settings.editing => settings.list[t] # settings.port

(* submit of a draft, which takes no call.                                  *)
SubmitDraft ==
  /\ Unlocked /\ settings.connection = "new" /\ Accepted
  /\ \E t \in IF settings.editing = NoTunnel THEN Tunnels \ Shown(settings)
                                             ELSE {settings.editing} :
       settings' = Submitted(
         [settings EXCEPT !.list[t] = IF settings.editing = NoTunnel
                                         \/ t \in Shown(settings)
                                      THEN settings.port ELSE 0])

(* submit up to its call, locked until it ends.                             *)
SubmitStored ==
  /\ Unlocked /\ settings.connection = "stored" /\ Accepted
  /\ settings' = [settings EXCEPT !.running = "submit"]

(* A list that GetTunnels gives: the database knows no rule for ports.      *)
Reloaded == [Tunnels -> Ports]

(* EditTunnel or AddTunnel and the list after it, or an error.              *)
SubmitEnds ==
  /\ settings.running = "submit"
  /\ \/ \E list \in Reloaded : settings' = Submitted([settings EXCEPT !.list = list])
     \/ settings' = [settings EXCEPT !.running = "nothing"]

(* remove after its call.                                                   *)
Removed(s) ==
  [s EXCEPT !.editing = IF @ = s.deleting THEN NoTunnel ELSE @,
            !.port = IF s.editing = s.deleting THEN 0 ELSE @,
            !.deleting = NoTunnel, !.running = "nothing"]

RemoveDraft ==
  /\ Unlocked /\ settings.connection = "new" /\ settings.deleting # NoTunnel
  /\ settings' = Removed([settings EXCEPT !.list[settings.deleting] = 0])

RemoveStored ==
  /\ Unlocked /\ settings.connection = "stored" /\ settings.deleting # NoTunnel
  /\ settings' = [settings EXCEPT !.running = "remove"]

RemoveEnds ==
  /\ settings.running = "remove"
  /\ \/ \E list \in Reloaded : settings' = Removed([settings EXCEPT !.list = list])
     \/ settings' = [settings EXCEPT !.running = "nothing"]

(* A tunnels-changed event: the panel or another device changed the list.   *)
TunnelsChanged ==
  /\ settings.connection = "stored"
  /\ \E list \in Reloaded : settings' = [settings EXCEPT !.list = list]

SettingsNext ==
  \/ \E t \in Tunnels : EditTunnel(t) \/ AskRemove(t)
  \/ KeepTunnel
  \/ TypePort
  \/ CancelEdit
  \/ SubmitDraft
  \/ SubmitStored
  \/ SubmitEnds
  \/ RemoveDraft
  \/ RemoveStored
  \/ RemoveEnds
  \/ TunnelsChanged

SettingsSpec == SettingsInit /\ [][SettingsNext]_settings

-----------------------------------------------------------------------------

SettingsTypeOK == settings \in Settings

(* No two drafts listen on one port, whatever sequence of adding, editing   *)
(* and removing led to them: replaceTunnels stores what it gets, and only   *)
(* one of two would ever start.                                             *)
DraftPortsAreDistinct ==
  settings.connection = "new" =>
    \A t, u \in Shown(settings) : settings.list[t] = settings.list[u] => t = u
=============================================================================
