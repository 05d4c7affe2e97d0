--------------------------- MODULE PanelContainers ---------------------------
(***************************************************************************)
(* The rows of the panel's Docker tab (ssh-gui/frontend/src/components/    *)
(* BottomPanel.jsx over GetDockerContainers and ToggleContainer of         *)
(* backend/dockerinfo/containers.go) while the panel stays on one host.    *)
(* The interval asks every four seconds without waiting for an answer, so  *)
(* that a slow one may come after one asked later.                         *)
(***************************************************************************)
EXTENDS Naturals, FiniteSets

CONSTANTS Rows,           \* the containers of the host
          MaxRowCalls     \* bound on the calls on their way

ASSUME RowsAssumption == MaxRowCalls \in Nat

VARIABLES up,         \* the containers that run
          rowsUp,     \* those whose row says so
          rowsListed, \* the containers that have a row
          rowCalls    \* calls on their way, a set of RowCall

rowVars == <<up, rowsUp, rowsListed, rowCalls>>

(* A list carries what it has read, and "asked" is one that has not.        *)
RowCall ==
  [op: {"list", "start", "stop", "restart"}, row: Rows \cup {"all"},
   at: {"asked", "read"}, up: SUBSET Rows]

List == [op |-> "list", row |-> "all", at |-> "asked", up |-> {}]

RowsInit ==
  /\ up \in SUBSET Rows
  /\ rowsUp = {}
  /\ rowsListed = {}
  /\ rowCalls = {List}

-----------------------------------------------------------------------------

(* Somebody else starts or stops a container.                               *)
RowFlips(c) ==
  /\ up' \in {up \cup {c}, up \ {c}} \ {up}
  /\ UNCHANGED <<rowsUp, rowsListed, rowCalls>>

SendRow(call) ==
  /\ Cardinality(rowCalls) < MaxRowCalls
  /\ rowCalls' = rowCalls \cup {call}

(* Mutant of AskRows: the interval stops once there are rows.               *)
AskRows_Once ==
  /\ rowsListed = {}
  /\ SendRow(List)
  /\ UNCHANGED <<up, rowsUp, rowsListed>>

(* fetchContainers, by its interval or the refresh button.                  *)
AskRows ==
  /\ SendRow(List)
  /\ UNCHANGED <<up, rowsUp, rowsListed>>

(* handleToggleContainer, with the state of the row that was clicked.       *)
ToggleRow(c) ==
  /\ c \in rowsListed
  /\ SendRow([List EXCEPT !.op = IF c \in rowsUp THEN "stop" ELSE "start", !.row = c])
  /\ UNCHANGED <<up, rowsUp, rowsListed>>

RestartRow(c) ==
  /\ c \in rowsListed
  /\ SendRow([List EXCEPT !.op = "restart", !.row = c])
  /\ UNCHANGED <<up, rowsUp, rowsListed>>

TurnCall(call, others) == rowCalls' = (rowCalls \ {call}) \cup others

(* The host has its containers listed.                                      *)
RowsRead(call) ==
  /\ call.op = "list" /\ call.at = "asked"
  /\ TurnCall(call, {[call EXCEPT !.at = "read", !.up = up]})
  /\ UNCHANGED <<up, rowsUp, rowsListed>>

(* fetchContainers after its await.                                         *)
RowsArrive(call) ==
  /\ call.op = "list" /\ call.at = "read"
  /\ rowsUp' = call.up
  /\ rowsListed' = Rows
  /\ TurnCall(call, {})
  /\ UNCHANGED up

(* An error leaves the rows; the one that asks for a password is PanelData. *)
RowsFail(call) ==
  /\ call.op = "list" /\ call.at = "asked"
  /\ TurnCall(call, {})
  /\ UNCHANGED <<up, rowsUp, rowsListed>>

(* ToggleContainer is done and fetchContainers follows, or it fails.        *)
RowActs(call) ==
  /\ call.op # "list"
  /\ \/ /\ up' = IF call.op = "stop" THEN up \ {call.row} ELSE up \cup {call.row}
        /\ TurnCall(call, {List})
     \/ TurnCall(call, {}) /\ UNCHANGED up
  /\ UNCHANGED <<rowsUp, rowsListed>>

RowsNext ==
  \/ AskRows
  \/ \E c \in Rows : RowFlips(c) \/ ToggleRow(c) \/ RestartRow(c)
  \/ \E call \in rowCalls :
       RowsRead(call) \/ RowsArrive(call) \/ RowsFail(call) \/ RowActs(call)

(* The interval asks again whatever became of the lists asked for before    *)
(* (strong fairness: only the bound on calls can hold it back), the host    *)
(* answers lists, not only by errors, and what it has read arrives.         *)
HostReads == List \in rowCalls /\ RowsRead(List)
RowsReach(s) == \E call \in rowCalls : call.up = s /\ RowsArrive(call)
RowActionsEnd == \E call \in rowCalls : RowActs(call)
RowsFairness ==
  /\ SF_rowVars(AskRows)
  /\ SF_rowVars(HostReads)
  /\ \A s \in SUBSET Rows : WF_rowVars(RowsReach(s))
  /\ WF_rowVars(RowActionsEnd)

RowsSpec == RowsInit /\ [][RowsNext]_rowVars

-----------------------------------------------------------------------------

RowsTypeOK ==
  /\ up \in SUBSET Rows
  /\ rowsUp \in SUBSET Rows
  /\ rowsListed \in {{}, Rows}
  /\ rowCalls \in SUBSET RowCall

(* The rows may go back in time when answers overtake each other.  But once *)
(* a host's containers stay as they are, its rows come to say so and keep   *)
(* saying so.                                                               *)
RowsSettle ==
  \A s \in SUBSET Rows : <>[](up = s) => <>[](rowsUp = s)
=============================================================================
