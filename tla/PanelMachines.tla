---------------------------- MODULE PanelMachines ----------------------------
(***************************************************************************)
(* The virtual machines of a host and the buttons of their rows            *)
(* (ssh-gui/frontend/src/components/BottomPanel.jsx over VirtualBoxAction  *)
(* of ssh-gui/app_vbox.go and ssh-gui/backend/vboxinfo).  The machines     *)
(* themselves are VirtualBox's.  Which host a list came from is in         *)
(* PanelData; here the panel stays on one.                                 *)
(***************************************************************************)
EXTENDS Naturals, FiniteSets

CONSTANTS Machines,         \* the names of the machines
          MaxMachineCalls   \* bound on the calls on their way

ASSUME MachinesAssumption ==
  MaxMachineCalls \in Nat /\ "no machine" \notin Machines

VARIABLES
  power,          \* the VMState of each machine on its host
  rows,           \* the state each row shows, or "none" before a list
  busy,           \* vboxActionLoading: the machine it names, or NoMachine
  forcing,        \* forceStopTarget
  machineCalls    \* calls on their way, a set of MachineCall

machineVars == <<power, rows, busy, forcing, machineCalls>>

NoMachine == "no machine"

(* What normalizeState makes of a VMState, "down" for its three kinds of    *)
(* machines that do not run; "error" is gurumeditation.                     *)
Power == {"running", "paused", "down", "error"}
Actions == {"start", "stop-acpi", "stop-force", "pause", "resume", "savestate"}

NoRows == [m \in Machines |-> "none"]

(* A list carries what it read, and the machine whose action awaits it.     *)
MachineCall ==
  [op: Actions \cup {"list"}, machine: Machines \cup {NoMachine},
   read: [Machines -> Power \cup {"none"}], at: {"sent", "done", "failed"}]

MachinesInit ==
  /\ power = [m \in Machines |-> "down"]
  /\ rows = NoRows
  /\ busy = NoMachine
  /\ forcing = NoMachine
  /\ machineCalls = {}

-----------------------------------------------------------------------------
(* VirtualBox *)

(* What a machine becomes by an action of VBoxManage; without an entry the  *)
(* action is refused.  A guest follows the ACPI button when it likes, and   *)
(* reset, which leaves a machine running, is not modelled.                  *)
Becomes(action, p) ==
  IF action = "start" /\ p = "down" THEN {"running"}
  ELSE IF action = "pause" /\ p = "running" THEN {"paused"}
  ELSE IF action = "resume" /\ p = "paused" THEN {"running"}
  ELSE IF action = "savestate" /\ p \in {"running", "paused"} THEN {"down"}
  ELSE IF action = "stop-acpi" /\ p = "running" THEN {"running", "down"}
  ELSE IF action = "stop-force" /\ p \in {"running", "paused", "error"}
  THEN {"down"}
  ELSE {}

(* A running machine stops, is killed or breaks down by itself.             *)
MachineFails(m) ==
  /\ power[m] = "running"
  /\ \E p \in {"down", "error"} : power' = [power EXCEPT ![m] = p]
  /\ UNCHANGED <<rows, busy, forcing, machineCalls>>

-----------------------------------------------------------------------------
(* The rows *)

IsLoading(m) == busy = m

RowOffers(m) ==
  LET p == rows[m]
  IN  (IF p = "down" THEN {"start"} ELSE {})
      \cup (IF p = "running" THEN {"pause", "savestate", "stop-acpi"} ELSE {})
      \cup (IF p = "paused" THEN {"resume"} ELSE {})
      \cup (IF p \in {"running", "paused"} THEN {"stop-force"} ELSE {})

Sent(op, m) == [op |-> op, machine |-> m, read |-> NoRows, at |-> "sent"]

Send(op, m) ==
  /\ Cardinality(machineCalls) < MaxMachineCalls
  /\ machineCalls' = machineCalls \cup {Sent(op, m)}

(* fetchVMs, called by the interval, the refresh button or an action.       *)
FetchVMs ==
  /\ Send("list", NoMachine)
  /\ UNCHANGED <<power, rows, busy, forcing>>

(* handleVMAction up to its await: the mark of an action on another machine *)
(* is overwritten.                                                          *)
HandleVMAction(m, action) ==
  /\ busy' = m
  /\ Send(action, m)
  /\ UNCHANGED <<power, rows>>

(* A button of a row, under no dialog.                                      *)
ClickAction(m, action) ==
  /\ forcing = NoMachine /\ ~IsLoading(m)
  /\ action \in RowOffers(m) \ {"stop-force"}
  /\ HandleVMAction(m, action)
  /\ UNCHANGED forcing

(* The flash opens the dialog for a forced stop.                            *)
ClickForceStop(m) ==
  /\ forcing = NoMachine /\ ~IsLoading(m)
  /\ "stop-force" \in RowOffers(m)
  /\ forcing' = m
  /\ UNCHANGED <<power, rows, busy, machineCalls>>

ConfirmForceStop ==
  /\ forcing # NoMachine
  /\ forcing' = NoMachine
  /\ HandleVMAction(forcing, "stop-force")

CancelForceStop ==
  /\ forcing # NoMachine
  /\ forcing' = NoMachine
  /\ UNCHANGED <<power, rows, busy, machineCalls>>

(* A call turns into another one, or is over.                               *)
Turn(c, calls) == machineCalls' = (machineCalls \ {c}) \cup calls

(* The host answers a list, or the list fails.                              *)
HostLists(c) ==
  /\ c.op = "list" /\ c.at = "sent"
  /\ Turn(c, {[c EXCEPT !.at = "done", !.read = power]})
       \/ Turn(c, {[c EXCEPT !.at = "failed"]})
  /\ UNCHANGED <<power, rows, busy, forcing>>

(* The host runs an action, and handleVMAction asks for the list after it;  *)
(* or VBoxManage or the call fails.                                         *)
HostActs(c) ==
  /\ c.op # "list" /\ c.at = "sent"
  /\ \/ /\ \E p \in Becomes(c.op, power[c.machine]) :
             power' = [power EXCEPT ![c.machine] = p]
        /\ Turn(c, {Sent("list", c.machine)})
     \/ Turn(c, {[c EXCEPT !.at = "failed"]}) /\ UNCHANGED power
  /\ UNCHANGED <<rows, busy, forcing>>

(* fetchVMs after its await; an error empties the list.  The one that       *)
(* handleVMAction awaits takes the mark away.                               *)
ListEnds(c) ==
  /\ c.op = "list" /\ c.at # "sent"
  /\ rows' = IF c.at = "done" THEN c.read ELSE NoRows
  /\ busy' = IF c.machine = NoMachine THEN busy ELSE NoMachine
  /\ Turn(c, {})
  /\ UNCHANGED <<power, forcing>>

(* Mutant of ActionFails: the mark is taken away on success only.           *)
ActionFails_KeepsMark(c) ==
  /\ c.op # "list" /\ c.at = "failed"
  /\ Turn(c, {})
  /\ UNCHANGED <<power, rows, busy, forcing>>

(* The finally of handleVMAction after a failure; no list is asked for.     *)
ActionFails(c) ==
  /\ c.op # "list" /\ c.at = "failed"
  /\ busy' = NoMachine
  /\ Turn(c, {})
  /\ UNCHANGED <<power, rows, forcing>>

MachinesNext ==
  \/ \E m \in Machines :
       \/ MachineFails(m)
       \/ \E action \in Actions : ClickAction(m, action)
       \/ ClickForceStop(m)
  \/ FetchVMs
  \/ ConfirmForceStop
  \/ CancelForceStop
  \/ \E c \in machineCalls :
       \/ HostLists(c)
       \/ HostActs(c)
       \/ ListEnds(c)
       \/ ActionFails(c)

MachinesSpec == MachinesInit /\ [][MachinesNext]_machineVars

-----------------------------------------------------------------------------

MachinesTypeOK ==
  /\ power \in [Machines -> Power]
  /\ rows \in [Machines -> Power \cup {"none"}]
  /\ busy \in Machines \cup {NoMachine}
  /\ forcing \in Machines \cup {NoMachine}
  /\ machineCalls \in SUBSET MachineCall

(* There is one mark for all machines, overwritten by the next action and   *)
(* taken away by the first to end.  Even so a row is locked only while an   *)
(* action on its machine is on its way: no row stays locked for good.       *)
LockedRowsHaveActions ==
  busy # NoMachine => \E c \in machineCalls : c.machine = busy
=============================================================================
