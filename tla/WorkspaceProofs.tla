--------------------------- MODULE WorkspaceProofs ---------------------------
(***************************************************************************)
(* Proofs about the windows, forms and lists that keep no session's data,  *)
(* each for any value of its own constants: the log window (LogViewer),    *)
(* the rows of machines (PanelMachines), the form of a connection          *)
(* (ConnectionForm) and its tunnels (TunnelSettings), the Tunnels tab      *)
(* (TunnelPanel), and the transfers of files (FileTransfers).              *)
(***************************************************************************)
EXTENDS MCWorkspace, FiniteSetTheorems, TLAPS

-----------------------------------------------------------------------------
(* The log window *)

(* What a line that is delivered next may stand below.                      *)
Continues(n) ==
  screen # <<>> =>
    LET last == screen[Len(screen)]
    IN  /\ badge = "live" => n = last + 1
        /\ n > last + 1 => logged >= n + TailLines - 1

(* Until its first stream has broken off a window has had no other, and an  *)
(* open stream continues what is on the screen.                             *)
LogInv ==
  /\ LogTypeOK
  /\ WindowsSkipOldLinesOnly
  /\ stream.source = "connecting" /\ badge = "live" => screen = <<>>
  /\ stream.source = "open" => Continues(stream.next)

(* Every stream that opens continues the screen, within its tail.           *)
LEMMA LogInvariant == LogSpec => []LogInv
<1> USE LogAssumption
<1>1. LogInit => LogInv
  BY DEF LogInit, LogInv, LogTypeOK, Stream, WindowsSkipOldLinesOnly
<1>2. LogInv /\ [LogNext]_logVars => LogInv'
  <2> SUFFICES ASSUME LogInv, [LogNext]_logVars
               PROVE  LogInv'
    OBVIOUS
  <2>1. CASE LogLine
    BY <2>1 DEF LogLine, LogInv, LogTypeOK, Stream, WindowsSkipOldLinesOnly, Continues
  <2>2. CASE StreamOpens
    <3>1. stream'.next \in 1..(MaxLog + 1) /\ stream' \in Stream
      BY <2>2 DEF StreamOpens, LogInv, LogTypeOK, Stream
    <3>2. Continues(stream.next)'
      <4>1. screen # <<>> => screen[Len(screen)] \in 1..MaxLog /\ badge = "stopped"
        BY <2>2 DEF StreamOpens, LogInv, LogTypeOK
      <4> QED
        BY <2>2, <4>1 DEF StreamOpens, Continues, LogInv, LogTypeOK
    <3> QED
      BY <2>2, <3>1, <3>2 DEF StreamOpens, LogInv, LogTypeOK, WindowsSkipOldLinesOnly
  <2>3. CASE StreamEnds \/ OnError \/ OnEnd
    BY <2>3 DEF StreamEnds, OnError, OnEnd, LogInv, LogTypeOK, Stream,
                WindowsSkipOldLinesOnly, Continues
  <2>4. CASE OnLine
    <3>1. /\ stream.next \in 1..MaxLog /\ stream'.next = stream.next + 1
          /\ stream' \in Stream /\ UNCHANGED <<logged, badge>>
      BY <2>4 DEF OnLine, LogInv, LogTypeOK, Stream
    <3>2. /\ screen \in Seq(1..MaxLog) /\ screen' \in Seq(1..MaxLog)
          /\ Len(screen') = Len(screen) + 1 /\ screen'[Len(screen')] = stream.next
          /\ \A i \in 1..Len(screen) : screen'[i] = screen[i]
      BY <2>4, <3>1 DEF OnLine, LogInv, LogTypeOK
    <3>3. Continues(stream.next)'
      BY <3>1, <3>2 DEF Continues
    <3>4. WindowsSkipOldLinesOnly'
      <4> SUFFICES ASSUME NEW i \in 1..Len(screen)
                   PROVE  LET below == screen'[i + 1]
                          IN  /\ badge = "live" => below = screen'[i] + 1
                              /\ below > screen'[i] + 1 => logged >= below + TailLines - 1
        BY <3>1, <3>2 DEF WindowsSkipOldLinesOnly
      <4>1. CASE i = Len(screen)
        BY <2>4, <3>1, <3>2, <4>1 DEF OnLine, LogInv, Continues
      <4>2. CASE i # Len(screen)
        <5>1. i \in 1..(Len(screen) - 1) /\ i + 1 \in 1..Len(screen)
          BY <3>2, <4>2
        <5>2. screen'[i] = screen[i] /\ screen'[i + 1] = screen[i + 1]
          BY <3>2, <5>1
        <5> QED
          BY <5>1, <5>2 DEF LogInv, WindowsSkipOldLinesOnly
      <4> QED
        BY <4>1, <4>2
    <3>5. stream'.source = "open"
      BY <2>4 DEF OnLine, LogInv, LogTypeOK, Stream
    <3> QED
      BY <3>1, <3>2, <3>3, <3>4, <3>5 DEF LogInv, LogTypeOK
  <2>5. CASE ClearLogs
    BY <2>5 DEF ClearLogs, LogInv, LogTypeOK, WindowsSkipOldLinesOnly, Continues
  <2>6. CASE UNCHANGED logVars
    BY <2>6 DEF logVars, LogInv, LogTypeOK, WindowsSkipOldLinesOnly, Continues
  <2> QED
    BY <2>1, <2>2, <2>3, <2>4, <2>5, <2>6 DEF LogNext
<1> QED
  BY <1>1, <1>2, PTL DEF LogSpec

(* However often its stream breaks off, a window leaves out only lines that *)
(* a tail of newer ones had no room for, for any length of log and tail.    *)
THEOREM LogsAreContinued == LogSpec => []WindowsSkipOldLinesOnly
<1>1. LogInv => WindowsSkipOldLinesOnly
  BY DEF LogInv
<1> QED
  BY <1>1, LogInvariant, PTL

-----------------------------------------------------------------------------
(* The rows of machines *)

(* The rows' state holds what it is declared to hold.                       *)
THEOREM MachinesTypeCorrect == MachinesSpec => []MachinesTypeOK
<1>1. MachinesInit => MachinesTypeOK
  BY DEF MachinesInit, MachinesTypeOK, Power, NoRows
<1>2. MachinesTypeOK /\ [MachinesNext]_machineVars => MachinesTypeOK'
  <2> SUFFICES ASSUME MachinesTypeOK, [MachinesNext]_machineVars
               PROVE  MachinesTypeOK'
    OBVIOUS
  <2> USE DEF MachinesTypeOK
  <2>1. ASSUME NEW m \in Machines \cup {NoMachine}, NEW op \in Actions \cup {"list"}
        PROVE  Sent(op, m) \in MachineCall
    BY <2>1 DEF Sent, MachineCall, NoRows
  <2>2. ASSUME NEW m \in Machines, MachineFails(m)
        PROVE  MachinesTypeOK'
    BY <2>2 DEF MachineFails, Power
  <2>3. ASSUME NEW m \in Machines, ClickForceStop(m)
        PROVE  MachinesTypeOK'
    BY <2>3 DEF ClickForceStop
  <2>4. ASSUME NEW m \in Machines, NEW action \in Actions, HandleVMAction(m, action),
               forcing' \in {forcing, NoMachine}
        PROVE  MachinesTypeOK'
    BY <2>1, <2>4 DEF HandleVMAction, Send
  <2>5. CASE FetchVMs
    BY <2>1, <2>5 DEF FetchVMs, Send
  <2>6. CASE CancelForceStop
    BY <2>6 DEF CancelForceStop
  <2>7. ASSUME NEW c \in machineCalls, HostLists(c)
        PROVE  MachinesTypeOK'
    <3>1. /\ [c EXCEPT !.at = "done", !.read = power] \in MachineCall
          /\ [c EXCEPT !.at = "failed"] \in MachineCall
      BY DEF MachineCall
    <3> QED
      BY <2>7, <3>1 DEF HostLists, Turn
  <2>8. ASSUME NEW c \in machineCalls, HostActs(c)
        PROVE  MachinesTypeOK'
    <3>1. [c EXCEPT !.at = "failed"] \in MachineCall
      BY DEF MachineCall
    <3>2. Sent("list", c.machine) \in MachineCall
      BY <2>1 DEF MachineCall
    <3>3. Becomes(c.op, power[c.machine]) \subseteq Power
      BY DEF Becomes, Power
    <3> QED
      BY <2>8, <3>1, <3>2, <3>3 DEF HostActs, Turn
  <2>9. ASSUME NEW c \in machineCalls, ListEnds(c)
        PROVE  MachinesTypeOK'
    BY <2>9 DEF ListEnds, Turn, MachineCall, NoRows
  <2>10. ASSUME NEW c \in machineCalls, ActionFails(c)
        PROVE  MachinesTypeOK'
    BY <2>10 DEF ActionFails, Turn
  <2>11. CASE UNCHANGED machineVars
    BY <2>11 DEF machineVars
  <2>12. ASSUME NEW m \in Machines, NEW action \in Actions, ClickAction(m, action)
         PROVE  MachinesTypeOK'
    BY <2>4, <2>12 DEF ClickAction
  <2>13. CASE ConfirmForceStop
    <3>1. forcing \in Machines /\ HandleVMAction(forcing, "stop-force")
      BY <2>13 DEF ConfirmForceStop
    <3>2. "stop-force" \in Actions
      BY DEF Actions
    <3> QED
      BY <2>4, <2>13, <3>1, <3>2 DEF ConfirmForceStop
  <2> QED
    BY <2>2, <2>3, <2>5, <2>6, <2>7, <2>8, <2>9, <2>10, <2>11, <2>12, <2>13
    DEF MachinesNext
<1> QED
  BY <1>1, <1>2, PTL DEF MachinesSpec

(* An action's mark never outlives the call that will take it away: every   *)
(* step that ends the call of the marked machine takes the mark, and every  *)
(* other one leaves both.                                                   *)
THEOREM LockedRowsAreFreed == MachinesSpec => []LockedRowsHaveActions
<1>1. MachinesInit => LockedRowsHaveActions
  BY DEF MachinesInit, LockedRowsHaveActions
<1>2. /\ MachinesTypeOK /\ LockedRowsHaveActions
      /\ [MachinesNext]_machineVars
      => LockedRowsHaveActions'
  <2> SUFFICES ASSUME MachinesTypeOK, LockedRowsHaveActions, [MachinesNext]_machineVars
               PROVE  LockedRowsHaveActions'
    OBVIOUS
  <2> USE DEF LockedRowsHaveActions
  <2>1. ASSUME NEW m \in Machines,
               MachineFails(m) \/ ClickForceStop(m)
        PROVE  LockedRowsHaveActions'
    BY <2>1 DEF MachineFails, ClickForceStop
  <2>2. ASSUME NEW m, NEW action, HandleVMAction(m, action)
        PROVE  LockedRowsHaveActions'
    <3>1. Sent(action, m).machine = m /\ Sent(action, m) \in machineCalls'
      BY <2>2 DEF HandleVMAction, Send, Sent
    <3>2. busy' = m /\ machineCalls \subseteq machineCalls'
      BY <2>2 DEF HandleVMAction, Send
    <3> QED
      BY <3>1, <3>2
  <2>3. CASE FetchVMs
    BY <2>3 DEF FetchVMs, Send
  <2>4. CASE CancelForceStop
    BY <2>4 DEF CancelForceStop
  <2>5. ASSUME NEW c \in machineCalls, HostLists(c)
        PROVE  LockedRowsHaveActions'
    <3>1. PICK d : /\ d.machine = c.machine
                   /\ machineCalls' = (machineCalls \ {c}) \cup {d}
      <4>1. /\ [c EXCEPT !.at = "done", !.read = power].machine = c.machine
            /\ [c EXCEPT !.at = "failed"].machine = c.machine
        BY DEF MachinesTypeOK, MachineCall
      <4> QED
        BY <2>5, <4>1 DEF HostLists, Turn
    <3> QED
      BY <2>5, <3>1 DEF HostLists
  <2>6. ASSUME NEW c \in machineCalls, HostActs(c)
        PROVE  LockedRowsHaveActions'
    <3>1. PICK d : /\ d.machine = c.machine
                   /\ machineCalls' = (machineCalls \ {c}) \cup {d}
      <4>1. [c EXCEPT !.at = "failed"].machine = c.machine
        BY DEF MachinesTypeOK, MachineCall
      <4>2. Sent("list", c.machine).machine = c.machine
        BY DEF Sent
      <4> QED
        BY <2>6, <4>1, <4>2 DEF HostActs, Turn
    <3> QED
      BY <2>6, <3>1 DEF HostActs
  <2>7. ASSUME NEW c \in machineCalls, ListEnds(c)
        PROVE  LockedRowsHaveActions'
    BY <2>7 DEF ListEnds, Turn
  <2>8. ASSUME NEW c \in machineCalls, ActionFails(c)
        PROVE  LockedRowsHaveActions'
    BY <2>8 DEF ActionFails, Turn
  <2>9. CASE UNCHANGED machineVars
    BY <2>9 DEF machineVars
  <2> QED
    BY <2>1, <2>2, <2>3, <2>4, <2>5, <2>6, <2>7, <2>8, <2>9
    DEF MachinesNext, ClickAction, ConfirmForceStop
<1> QED
  BY <1>1, <1>2, MachinesTypeCorrect, PTL DEF MachinesSpec

-----------------------------------------------------------------------------
(* The order of the lists *)

(* Two rows of the list.                                                    *)
TwoRows(v) ==
  \E a, b \in ListRow[v.list] : v.rows = <<a, b>> /\ a.id # b.id

(* The rows are none or two.                                                *)
SortingInv == SortingTypeOK /\ (sorting.rows = <<>> \/ TwoRows(sorting))

(* A row of any list has an id.                                             *)
LEMMA RowIds ==
  ASSUME NEW l \in RowLists, NEW a \in ListRow[l]
  PROVE  a.id \in Ids
<1>1. l \in {"files", "containers", "ports", "machines", "databases"}
  BY DEF RowLists
<1>2. CASE l = "files"
  BY <1>2 DEF ListRow
<1>3. CASE l = "containers"
  BY <1>3 DEF ListRow
<1>4. CASE l = "ports"
  BY <1>4 DEF ListRow
<1>5. CASE l = "machines"
  BY <1>5 DEF ListRow
<1>6. CASE l = "databases"
  BY <1>6 DEF ListRow
<1> QED
  BY <1>1, <1>2, <1>3, <1>4, <1>5, <1>6

(* Two rows change places.                                                  *)
LEMMA RelistedPair ==
  ASSUME NEW a, NEW b
  PROVE  Relisted(<<a, b>>) = <<b, a>>
BY DEF Relisted

(* The fields of the state hold what they are declared to hold.            *)
LEMMA SortingFields ==
  ASSUME NEW l, NEW v \in SortingOf(l)
  PROVE  /\ v.list = l /\ v.key \in SortKeys[l] /\ v.direction \in {"asc", "desc"}
         /\ v.query \in Ids \cup {0}
BY DEF SortingOf

(* What is kept of a list: its state is well typed, and its rows are two or *)
(* none.                                                                    *)
LEMMA SortingInvariant == SortingSpec => []SortingInv
<1>1. SortingInit => SortingInv
  <2> SUFFICES ASSUME NEW l \in RowLists,
                      sorting = [list |-> l, key |-> FirstKey[l], direction |-> "asc",
                                 query |-> 0, rows |-> <<>>]
               PROVE  SortingInv
    BY DEF SortingInit
  <2>1. FirstKey[l] \in SortKeys[l]
    BY DEF RowLists, FirstKey, SortKeys
  <2> QED
    BY <2>1 DEF SortingInv, SortingTypeOK, SortingOf
<1>2. SortingInv /\ [SortingNext]_sorting => SortingInv'
  <2> SUFFICES ASSUME SortingInv, [SortingNext]_sorting,
                      NEW l \in RowLists, sorting \in SortingOf(l)
               PROVE  SortingInv'
    BY DEF SortingInv, SortingTypeOK
  <2>a. ASSUME NEW pair \in {<<>>} \cup (ListRow[l] \X ListRow[l]),
               sorting' = [sorting EXCEPT !.rows = pair]
        PROVE  sorting' \in SortingOf(l) /\ sorting'.rows = pair
    BY <2>a DEF SortingOf
  <2>b. ASSUME NEW query \in Ids \cup {0}, sorting' = [sorting EXCEPT !.query = query]
        PROVE  sorting' \in SortingOf(l) /\ sorting'.rows = sorting.rows
    BY <2>b DEF SortingOf
  <2>c. ASSUME NEW key \in SortKeys[l], NEW direction \in {"asc", "desc"},
               sorting' = [sorting EXCEPT !.key = key, !.direction = direction]
        PROVE  sorting' \in SortingOf(l) /\ sorting'.rows = sorting.rows
    BY <2>c DEF SortingOf
  <2>d. sorting.list = l
    BY SortingFields
  <2>e. sorting.rows = <<>> \/
          \E a, b \in ListRow[l] : sorting.rows = <<a, b>> /\ a.id # b.id
    BY <2>d DEF SortingInv, TwoRows
  <2>1. ASSUME sorting' \in SortingOf(l),
               sorting'.rows = <<>> \/
                 \E a, b \in ListRow[l] : sorting'.rows = <<a, b>> /\ a.id # b.id
        PROVE  SortingInv'
    <3>1. sorting'.list = l
      BY <2>1, SortingFields
    <3> QED
      BY <2>1, <3>1 DEF SortingInv, SortingTypeOK, TwoRows
  <2>2. CASE RowsCome
    <3>1. ASSUME NEW a \in ListRow[l], NEW b \in ListRow[l], a.id # b.id,
                 sorting' = [sorting EXCEPT !.rows = <<a, b>>]
          PROVE  SortingInv'
      <4>1. <<a, b>> \in {<<>>} \cup (ListRow[l] \X ListRow[l])
        OBVIOUS
      <4> QED
        BY <2>a, <2>1, <3>1, <4>1
    <3>2. CASE \E a, b \in ListRow[l] :
                 a.id < b.id /\ sorting' = [sorting EXCEPT !.rows = <<a, b>>]
      BY <3>1, <3>2, RowIds DEF Ids
    <3>3. ASSUME NEW a \in ListRow[l], NEW b \in ListRow[l], a.id # b.id,
                 sorting.rows = <<a, b>>,
                 sorting' = [sorting EXCEPT !.rows = Relisted(sorting.rows)]
          PROVE  SortingInv'
      <4>1. sorting' = [sorting EXCEPT !.rows = <<b, a>>]
        BY <3>3, RelistedPair
      <4> QED
        BY <3>1, <3>3, <4>1
    <3>4. CASE sorting' = [sorting EXCEPT !.rows = Relisted(@)] /\ sorting.rows = <<>>
      <4>1. Relisted(<<>>) = <<>>
        BY DEF Relisted
      <4>2. sorting' = [sorting EXCEPT !.rows = <<>>]
        BY <3>4, <4>1
      <4> QED
        BY <2>a, <2>1, <4>2
    <3> QED
      BY <2>d, <2>e, <2>2, <3>2, <3>3, <3>4 DEF RowsCome
  <2>3. ASSUME NEW key, Headed(key)
        PROVE  SortingInv'
    <3> DEFINE d == IF sorting.key = key /\ sorting.direction = "asc" THEN "desc" ELSE "asc"
    <3>1. key \in SortKeys[l] /\ sorting' = [sorting EXCEPT !.key = key, !.direction = d]
      BY <2>d, <2>3 DEF Headed
    <3>2. d \in {"asc", "desc"}
      OBVIOUS
    <3> HIDE DEF d
    <3> QED
      BY <2>c, <2>e, <2>1, <3>1, <3>2
  <2>4. ASSUME NEW query \in Ids \cup {0}, Search(query)
        PROVE  SortingInv'
    <3>1. sorting' = [sorting EXCEPT !.query = query]
      BY <2>4 DEF Search
    <3> QED
      BY <2>b, <2>e, <2>1, <3>1
  <2>5. CASE UNCHANGED sorting
    BY <2>5 DEF SortingInv, SortingTypeOK, TwoRows
  <2> QED
    BY <2>2, <2>3, <2>4, <2>5 DEF SortingNext, HandleSort, ToggleSort
<1> QED
  BY <1>1, <1>2, PTL DEF SortingSpec

(* A list has one of its own headers and rows of its own kind.              *)
THEOREM SortingTypeCorrect == SortingSpec => []SortingTypeOK
BY SortingInvariant, PTL DEF SortingInv

(* What is shown of two rows, when the comparison is that of an order: the  *)
(* ones that are searched for, and of two the lesser first.                 *)
LEMMA TwoShown ==
  ASSUME NEW v, NEW a, NEW b, v.rows = <<a, b>>,
         Compare(v, a, b) \in Int, Compare(v, b, a) = -Compare(v, a, b),
         Compare(v, a, a) = 0, Compare(v, b, b) = 0
  PROVE  ShownRows(v) =
           IF matchesSearch(v, a) /\ matchesSearch(v, b)
           THEN IF Compare(v, a, b) <= 0 THEN <<a, b>> ELSE <<b, a>>
           ELSE IF matchesSearch(v, a) THEN <<a>>
           ELSE IF matchesSearch(v, b) THEN <<b>> ELSE <<>>
<1> DEFINE found == {i \in DOMAIN v.rows : matchesSearch(v, v.rows[i])}
           Before(i, j) == LET c == Compare(v, v.rows[i], v.rows[j])
                           IN  c < 0 \/ (c = 0 /\ i < j)
           Ordered(s) == \A m, n \in DOMAIN s : m < n => Before(s[m], s[n])
           order == CHOOSE s \in [1..Cardinality(found) -> found] : Ordered(s)
           Taken(s) == [n \in DOMAIN s |-> v.rows[s[n]]]
<1>1. ShownRows(v) = Taken(order)
  BY DEF ShownRows
<1>2. DOMAIN v.rows = {1, 2} /\ v.rows[1] = a /\ v.rows[2] = b
  OBVIOUS
<1>3. /\ 1 \in found <=> matchesSearch(v, a)
      /\ 2 \in found <=> matchesSearch(v, b)
      /\ found \subseteq {1, 2}
  BY <1>2
<1>4. /\ Before(1, 2) <=> Compare(v, a, b) <= 0
      /\ Before(2, 1) <=> ~(Compare(v, a, b) <= 0)
      /\ ~Before(1, 1) /\ ~Before(2, 2)
  BY <1>2
<1> HIDE DEF found, Before
<1>5. CASE found = {1, 2}
  <2>1. Cardinality(found) = 2
    <3>1. IsFiniteSet({1}) /\ Cardinality({1}) = 1
      BY FS_Singleton
    <3>2. Cardinality({1} \cup {2}) = 2
      BY <3>1, FS_AddElement, 2 \notin {1}
    <3>3. found = {1} \cup {2}
      BY <1>5
    <3> QED
      BY <3>2, <3>3
  <2>2. PICK p \in {<<1, 2>>, <<2, 1>>} :
          p = IF Compare(v, a, b) <= 0 THEN <<1, 2>> ELSE <<2, 1>>
    OBVIOUS
  <2>3. p \in [1..2 -> found] /\ Ordered(p)
    BY <1>4, <1>5, <2>2
  <2>4. ASSUME NEW s \in [1..2 -> found], Ordered(s)
        PROVE  s = p
    <3>1. Before(s[1], s[2])
      BY <2>4
    <3>2. s[1] = p[1] /\ s[2] = p[2]
      BY <1>4, <1>5, <2>2, <3>1
    <3> QED
      BY <2>3, <3>2
  <2>5. order = p
    BY <2>1, <2>3, <2>4
  <2>6. Taken(<<1, 2>>) = <<a, b>> /\ Taken(<<2, 1>>) = <<b, a>>
    BY <1>2
  <2> HIDE DEF order, Taken
  <2> QED
    BY <1>1, <1>3, <1>5, <2>2, <2>5, <2>6
<1>6. ASSUME NEW i \in {1, 2}, found = {i}
      PROVE  ShownRows(v) = <<v.rows[i]>>
  <2>1. Cardinality(found) = 1
    BY <1>6, FS_Singleton
  <2>2. <<i>> \in [1..1 -> found] /\ Ordered(<<i>>)
    BY <1>6
  <2>3. \A s \in [1..1 -> found] : s = <<i>>
    BY <1>6
  <2>4. order = <<i>>
    BY <2>1, <2>2, <2>3
  <2>5. Taken(<<i>>) = <<v.rows[i]>>
    OBVIOUS
  <2> HIDE DEF order, Taken
  <2> QED
    BY <1>1, <2>4, <2>5
<1>7. CASE found = {}
  <2>1. Cardinality(found) = 0
    BY <1>7, FS_EmptySet
  <2>2. <<>> \in [1..0 -> found] /\ Ordered(<<>>)
    OBVIOUS
  <2>3. \A s \in [1..0 -> found] : s = <<>>
    OBVIOUS
  <2>4. order = <<>>
    BY <2>1, <2>2, <2>3
  <2>5. Taken(<<>>) = <<>>
    OBVIOUS
  <2> QED
    BY <1>1, <1>3, <1>7, <2>4, <2>5
<1>8. found \in {{}, {1}, {2}, {1, 2}}
  BY <1>3
<1> QED
  BY <1>2, <1>3, <1>5, <1>6, <1>7, <1>8

(* Each of the nine ways in which Docker words an age, with the number it   *)
(* names, the ages it is said of and the seconds the panel reads in it.     *)
Worded(s, n) ==
  LET text == HumanDuration(s)
      seconds == parseDockerStatusTime(text)
  IN  \/ s < 60 /\ n = s /\ text = Amount(n, "second") /\ seconds = n
      \/ 60 <= s /\ s < 120 /\ text = About("minute") /\ seconds = 60
      \/ /\ 120 <= s /\ s < 3600 /\ text = Amount(n, "minute") /\ seconds = 60 * n
         /\ seconds <= s /\ s < seconds + 60
      \/ 3600 <= s /\ s < 5400 /\ text = About("hour") /\ seconds = 3600
      \/ /\ 5400 <= s /\ s < 171000 /\ text = Amount(n, "hour") /\ seconds = 3600 * n
         /\ seconds <= s + 1800 /\ s + 1800 < seconds + 3600
      \/ /\ 171000 <= s /\ s < 1207800 /\ text = Amount(n, "day") /\ seconds = 86400 * n
         /\ seconds <= s + 1800 /\ s + 1800 < seconds + 86400
      \/ /\ 1207800 <= s /\ s < 5182200 /\ text = Amount(n, "week") /\ seconds = 604800 * n
         /\ seconds <= s + 1800 /\ s + 1800 < seconds + 604800
      \/ /\ 5182200 <= s /\ s < 63070200 /\ text = Amount(n, "month")
         /\ seconds = 2592000 * n
         /\ seconds <= s + 1800 /\ s + 1800 < seconds + 2592000
      \/ /\ 63070200 <= s /\ text = Amount(n, "year") /\ seconds = 31536000 * n
         /\ seconds <= s /\ s < seconds + 31536000

(* What the panel reads in each of Docker's words.                          *)
LEMMA UnitsRead ==
  ASSUME NEW n \in Nat
  PROVE  /\ parseDockerStatusTime(Amount(n, "second")) = n
         /\ parseDockerStatusTime(Amount(n, "minute")) = 60 * n
         /\ parseDockerStatusTime(Amount(n, "hour")) = 3600 * n
         /\ parseDockerStatusTime(Amount(n, "day")) = 86400 * n
         /\ parseDockerStatusTime(Amount(n, "week")) = 604800 * n
         /\ parseDockerStatusTime(Amount(n, "month")) = 2592000 * n
         /\ parseDockerStatusTime(Amount(n, "year")) = 31536000 * n
         /\ parseDockerStatusTime(About("minute")) = 60
         /\ parseDockerStatusTime(About("hour")) = 3600
<1>1. /\ DOCKER_STATUS_TIME_UNITS["second"] = 1
      /\ DOCKER_STATUS_TIME_UNITS["minute"] = 60
      /\ DOCKER_STATUS_TIME_UNITS["hour"] = 3600
      /\ DOCKER_STATUS_TIME_UNITS["day"] = 86400
      /\ DOCKER_STATUS_TIME_UNITS["week"] = 604800
      /\ DOCKER_STATUS_TIME_UNITS["month"] = 2592000
      /\ DOCKER_STATUS_TIME_UNITS["year"] = 31536000
  BY DEF DOCKER_STATUS_TIME_UNITS, Hour
<1>2. \A unit : /\ Amount(n, unit).article = FALSE /\ Amount(n, unit).n = n
                /\ Amount(n, unit).unit = unit
                /\ About(unit).article = TRUE /\ About(unit).unit = unit
  BY DEF Amount, About
<1>3. \A unit : /\ parseDockerStatusTime(Amount(n, unit)) = n * DOCKER_STATUS_TIME_UNITS[unit]
                /\ parseDockerStatusTime(About(unit)) = 1 * DOCKER_STATUS_TIME_UNITS[unit]
  BY <1>2 DEF parseDockerStatusTime
<1>4. /\ parseDockerStatusTime(Amount(n, "second")) = n * 1
      /\ parseDockerStatusTime(Amount(n, "minute")) = n * 60
      /\ parseDockerStatusTime(Amount(n, "hour")) = n * 3600
      /\ parseDockerStatusTime(Amount(n, "day")) = n * 86400
      /\ parseDockerStatusTime(Amount(n, "week")) = n * 604800
      /\ parseDockerStatusTime(Amount(n, "month")) = n * 2592000
      /\ parseDockerStatusTime(Amount(n, "year")) = n * 31536000
      /\ parseDockerStatusTime(About("minute")) = 1 * 60
      /\ parseDockerStatusTime(About("hour")) = 1 * 3600
  BY <1>1, <1>3
<1> QED
  BY <1>4

(* Every age is worded in one of these ways.                                *)
LEMMA DurationOf ==
  ASSUME NEW s \in Nat
  PROVE  \E n \in Nat : Worded(s, n)
<1> DEFINE minutes == s \div 60
           hours == (s + 1800) \div 3600
           days == hours \div 24
           weeks == hours \div 168
           months == hours \div 720
           years == s \div 31536000
<1>1. minutes \in Nat /\ 60 * minutes <= s /\ s < 60 * minutes + 60
  OBVIOUS
<1>2. hours \in Nat /\ 3600 * hours <= s + 1800 /\ s + 1800 < 3600 * hours + 3600
  OBVIOUS
<1>3. days \in Nat /\ 24 * days <= hours /\ hours < 24 * days + 24
  BY <1>2
<1>4. weeks \in Nat /\ 168 * weeks <= hours /\ hours < 168 * weeks + 168
  BY <1>2
<1>5. months \in Nat /\ 720 * months <= hours /\ hours < 720 * months + 720
  BY <1>2
<1>6. years \in Nat /\ 31536000 * years <= s /\ s < 31536000 * years + 31536000
  OBVIOUS
<1>7. HumanDuration(s) =
      IF s < 60 THEN Amount(s, "second")
      ELSE IF minutes = 1 THEN About("minute")
      ELSE IF minutes < 60 THEN Amount(minutes, "minute")
      ELSE IF hours = 1 THEN About("hour")
      ELSE IF hours < 48 THEN Amount(hours, "hour")
      ELSE IF hours < 336 THEN Amount(days, "day")
      ELSE IF hours < 1440 THEN Amount(weeks, "week")
      ELSE IF hours < 17520 THEN Amount(months, "month")
      ELSE Amount(years, "year")
  BY DEF HumanDuration
<1> HIDE DEF minutes, hours, days, weeks, months, years
<1>8. ASSUME s < 60 PROVE Worded(s, s)
  BY <1>7, <1>8, UnitsRead DEF Worded
<1>9. ASSUME s >= 60 /\ minutes = 1 PROVE Worded(s, 1)
  BY <1>7, <1>1, <1>9, UnitsRead DEF Worded
<1>10. ASSUME s >= 60 /\ minutes # 1 /\ minutes < 60 PROVE Worded(s, minutes)
  BY <1>7, <1>1, <1>10, UnitsRead DEF Worded
<1>11. ASSUME minutes >= 60 /\ hours = 1 PROVE Worded(s, 1)
  BY <1>7, <1>1, <1>2, <1>11, UnitsRead DEF Worded
<1>12. ASSUME minutes >= 60 /\ hours # 1 /\ hours < 48 PROVE Worded(s, hours)
  BY <1>7, <1>1, <1>2, <1>12, UnitsRead DEF Worded
<1>13. ASSUME minutes >= 60 /\ hours >= 48 /\ hours < 336 PROVE Worded(s, days)
  BY <1>7, <1>1, <1>2, <1>3, <1>13, UnitsRead DEF Worded
<1>14. ASSUME minutes >= 60 /\ hours >= 336 /\ hours < 1440 PROVE Worded(s, weeks)
  BY <1>7, <1>1, <1>2, <1>4, <1>14, UnitsRead DEF Worded
<1>15. ASSUME minutes >= 60 /\ hours >= 1440 /\ hours < 17520 PROVE Worded(s, months)
  BY <1>7, <1>1, <1>2, <1>5, <1>15, UnitsRead DEF Worded
<1>16. ASSUME minutes >= 60 /\ hours >= 17520 PROVE Worded(s, years)
  BY <1>7, <1>1, <1>2, <1>6, <1>16, UnitsRead DEF Worded
<1> QED
  BY <1>1, <1>2, <1>3, <1>4, <1>5, <1>6, <1>8, <1>9, <1>10, <1>11, <1>12,
     <1>13, <1>14, <1>15, <1>16

(* The longer a container runs the more the panel reads, and where it reads *)
(* the same the words are the same, but for the odd half hour.              *)
LEMMA WordsGrow ==
  ASSUME NEW s \in Nat \ OddHalfHour, NEW t \in Nat \ OddHalfHour, s <= t
  PROVE  LET r == parseDockerStatusTime(HumanDuration(s))
             q == parseDockerStatusTime(HumanDuration(t))
         IN  r \in Nat /\ q \in Nat /\ r <= q /\ (r = q => HumanDuration(s) = HumanDuration(t))
<1> DEFINE r == parseDockerStatusTime(HumanDuration(s))
           q == parseDockerStatusTime(HumanDuration(t))
           d == HumanDuration(s)
           e == HumanDuration(t)
<1>1. PICK n \in Nat : Worded(s, n)
  BY DurationOf
<1>2. PICK m \in Nat : Worded(t, m)
  BY DurationOf
<1>3. /\ ~(63070200 <= s /\ s < 63072000)
      /\ ~(63070200 <= t /\ t < 63072000)
  BY DEF OddHalfHour
<1> HIDE DEF r, q, d, e
<1> QED
  BY <1>1, <1>2, <1>3 DEF Worded, r, q, d, e

(* Nothing is shown of an empty list.                                       *)
LEMMA NothingShown ==
  ASSUME NEW v, v.rows = <<>>
  PROVE  ShownRows(v) = <<>>
<1> DEFINE found == {i \in DOMAIN v.rows : matchesSearch(v, v.rows[i])}
<1>1. found = {} /\ Cardinality(found) = 0
  BY FS_EmptySet
<1>2. \A s \in [1..0 -> found] : s = <<>>
  OBVIOUS
<1>3. <<>> \in [1..0 -> found]
  OBVIOUS
<1> QED
  BY <1>1, <1>2, <1>3 DEF ShownRows

(* The panel reads a number in every age.                                   *)
LEMMA ReadIsNumber ==
  ASSUME NEW s \in Nat
  PROVE  parseDockerStatusTime(HumanDuration(s)) \in Nat
<1>1. PICK n \in Nat : Worded(s, n)
  BY DurationOf
<1> HIDE DEF HumanDuration, parseDockerStatusTime
<1> QED
  BY <1>1 DEF Worded

(* What two comparisons are of each other, the one the other way round.     *)
Opposed(c, d) == c \in Int /\ d \in Int /\ c = -d

(* The comparison of two containers by their status is one of an order.     *)
LEMMA StatusOpposed ==
  ASSUME NEW a \in ListRow["containers"], NEW b \in ListRow["containers"]
  PROVE  Opposed(compareDockerStatus(a, b), compareDockerStatus(b, a))
<1>1. a.age \in Nat \cup {NoAge} /\ b.age \in Nat \cup {NoAge}
  BY AgesAssumption DEF ListRow
<1>2. \A x \in {a, b} : x.age # NoAge => parseDockerStatusTime(HumanDuration(x.age)) \in Nat
  BY <1>1, ReadIsNumber
<1>3. a.detail \in Int /\ b.detail \in Int
  BY DEF ListRow, Binary
<1> QED
  BY <1>2, <1>3 DEF compareDockerStatus, Otherwise, Opposed

(* So is the comparison of two containers under any header, and only those  *)
(* of one name that agree under the header compare as equal.                *)
LEMMA ContainersOpposed ==
  ASSUME NEW a \in ListRow["containers"], NEW b \in ListRow["containers"],
         NEW key \in SortKeys["containers"]
  PROVE  /\ Opposed(compareContainers(a, b, key), compareContainers(b, a, key))
         /\ compareContainers(a, b, key) = 0 => a.name = b.name /\ a[key] = b[key]
         /\ a = b => compareContainers(a, b, key) = 0
<1>1. \A x \in {a, b} : x.name \in Int /\ x.state \in Int /\ x.ports \in Int
  BY DEF ListRow, Names, Binary
<1>2. Opposed(compareDockerStatus(a, b), compareDockerStatus(b, a))
  BY StatusOpposed
<1> QED
  BY <1>1, <1>2 DEF compareContainers, Otherwise, Opposed, SortKeys

(* The same of virtual machines.                                            *)
LEMMA MachinesOpposed ==
  ASSUME NEW a \in ListRow["machines"], NEW b \in ListRow["machines"],
         NEW key \in SortKeys["machines"]
  PROVE  /\ Opposed(compareMachines(a, b, key), compareMachines(b, a, key))
         /\ compareMachines(a, b, key) = 0 => a.name = b.name /\ a[key] = b[key]
         /\ a = b => compareMachines(a, b, key) = 0
<1>1. \A x \in {a, b} : x.name \in Int /\ x.state \in Int
  BY DEF ListRow, Names, Binary
<1>2. CASE key = "name"
  BY <1>1, <1>2 DEF compareMachines, Otherwise, Opposed
<1>3. CASE key = "state"
  <2>1. /\ compareMachines(a, b, key) = Otherwise(a.state - b.state, a.name - b.name)
        /\ compareMachines(b, a, key) = Otherwise(b.state - a.state, b.name - a.name)
        /\ a[key] = a.state /\ b[key] = b.state
    BY <1>3 DEF compareMachines
  <2> QED
    BY <1>1, <2>1 DEF Otherwise, Opposed
<1> QED
  BY <1>2, <1>3 DEF SortKeys

(* The same of databases.                                                   *)
LEMMA DatabasesOpposed ==
  ASSUME NEW a \in ListRow["databases"], NEW b \in ListRow["databases"],
         NEW key \in SortKeys["databases"]
  PROVE  /\ Opposed(compareDatabases(a, b, key), compareDatabases(b, a, key))
         /\ compareDatabases(a, b, key) = 0 => a.name = b.name /\ a[key] = b[key]
         /\ a = b => compareDatabases(a, b, key) = 0
<1>1. \A x \in {a, b} : x.name \in Int /\ x.port \in Int
  BY DEF ListRow, Names, Binary
<1>2. CASE key = "name"
  BY <1>1, <1>2 DEF compareDatabases, Otherwise, Opposed
<1>3. CASE key = "port"
  <2>1. /\ compareDatabases(a, b, key) = Otherwise(a.port - b.port, a.name - b.name)
        /\ compareDatabases(b, a, key) = Otherwise(b.port - a.port, b.name - a.name)
        /\ a[key] = a.port /\ b[key] = b.port
    BY <1>3 DEF compareDatabases
  <2> QED
    BY <1>1, <2>1 DEF Otherwise, Opposed
<1> QED
  BY <1>2, <1>3 DEF SortKeys

(* The lists that are ordered by more than what stands under their header.  *)
Settled == {"containers", "machines", "databases"}

(* The same of each of these lists in both directions.                      *)
LEMMA RowsOpposed ==
  ASSUME NEW v, v.list \in Settled, v.key \in SortKeys[v.list], v.direction \in {"asc", "desc"},
         NEW a \in ListRow[v.list], NEW b \in ListRow[v.list]
  PROVE  /\ Opposed(Compare(v, a, b), Compare(v, b, a))
         /\ Compare(v, a, b) = 0 => a.name = b.name /\ a[v.key] = b[v.key]
         /\ a = b => Compare(v, a, b) = 0
<1> DEFINE sign == IF v.direction = "asc" THEN 1 ELSE -1
<1>1. sign \in {1, -1}
  OBVIOUS
<1>2. ASSUME NEW c, NEW d, Opposed(c, d)
      PROVE  Opposed(sign * c, sign * d) /\ (c # 0 => sign * c # 0) /\ (c = 0 => sign * c = 0)
  BY <1>1, <1>2 DEF Opposed
<1>3. CASE v.list = "containers"
  <2>1. /\ Compare(v, a, b) = sign * compareContainers(a, b, v.key)
        /\ Compare(v, b, a) = sign * compareContainers(b, a, v.key)
    BY <1>3 DEF Compare
  <2> HIDE DEF sign
  <2> QED
    BY <1>2, <1>3, <2>1, ContainersOpposed
<1>4. CASE v.list = "machines"
  <2>1. /\ Compare(v, a, b) = sign * compareMachines(a, b, v.key)
        /\ Compare(v, b, a) = sign * compareMachines(b, a, v.key)
    BY <1>4 DEF Compare
  <2> HIDE DEF sign
  <2> QED
    BY <1>2, <1>4, <2>1, MachinesOpposed
<1>5. CASE v.list = "databases"
  <2>1. /\ Compare(v, a, b) = sign * compareDatabases(a, b, v.key)
        /\ Compare(v, b, a) = sign * compareDatabases(b, a, v.key)
    BY <1>5 DEF Compare
  <2> HIDE DEF sign
  <2> QED
    BY <1>2, <1>5, <2>1, DatabasesOpposed
<1> QED
  BY <1>3, <1>4, <1>5 DEF Settled

(* What is shown of two rows of these lists.                                *)
LEMMA SettledShown ==
  ASSUME NEW v, v.list \in Settled, v.key \in SortKeys[v.list], v.direction \in {"asc", "desc"},
         NEW a \in ListRow[v.list], NEW b \in ListRow[v.list], v.rows = <<a, b>>
  PROVE  ShownRows(v) =
           IF matchesSearch(v, a) /\ matchesSearch(v, b)
           THEN IF Compare(v, a, b) <= 0 THEN <<a, b>> ELSE <<b, a>>
           ELSE IF matchesSearch(v, a) THEN <<a>>
           ELSE IF matchesSearch(v, b) THEN <<b>> ELSE <<>>
BY RowsOpposed, TwoShown DEF Opposed

(* The order in which containers, machines and databases come moves only    *)
(* those of one name that agree under the header: no others compare as      *)
(* equal, under every header and in both directions.                        *)
THEOREM RowsStayInOrder == SortingSpec => []ListingsDoNotReshuffle
<1>1. SortingInv => ListingsDoNotReshuffle
  <2> SUFFICES ASSUME SortingInv, sorting.list \in Settled,
                      ShownRows([sorting EXCEPT !.rows = Relisted(@)]) # ShownRows(sorting)
               PROVE  LET seen == ShownRows(sorting)
                      IN  seen[1].name = seen[2].name /\ seen[1][sorting.key] = seen[2][sorting.key]
    BY DEF ListingsDoNotReshuffle, Settled
  <2>1. PICK l \in RowLists : sorting \in SortingOf(l)
    BY DEF SortingInv, SortingTypeOK
  <2>2. sorting.direction \in {"asc", "desc"} /\ sorting.key \in SortKeys[sorting.list]
    BY <2>1 DEF SortingOf
  <2>3. CASE sorting.rows = <<>>
    <3>1. Relisted(<<>>) = <<>>
      BY DEF Relisted
    <3>2. [sorting EXCEPT !.rows = <<>>] = sorting
      BY <2>1, <2>3 DEF SortingOf
    <3> QED
      BY <2>3, <3>1, <3>2
  <2>4. CASE TwoRows(sorting)
    <3>1. PICK a \in ListRow[sorting.list], b \in ListRow[sorting.list] :
            sorting.rows = <<a, b>> /\ a.id # b.id
      BY <2>4 DEF TwoRows
    <3> DEFINE w == [sorting EXCEPT !.rows = <<b, a>>]
    <3>2. [sorting EXCEPT !.rows = Relisted(@)] = w
      BY <3>1, RelistedPair
    <3>3. /\ w.list = sorting.list /\ w.key = sorting.key /\ w.direction = sorting.direction
          /\ w.query = sorting.query /\ w.rows = <<b, a>>
      BY <2>1 DEF SortingOf
    <3> HIDE DEF w
    <3>4. \A x, y : Compare(w, x, y) = Compare(sorting, x, y)
      BY <3>3 DEF Compare
    <3>5. \A x : matchesSearch(w, x) <=> matchesSearch(sorting, x)
      BY <3>3 DEF matchesSearch
    <3>6. /\ Opposed(Compare(sorting, a, b), Compare(sorting, b, a))
          /\ Compare(sorting, a, b) = 0 => a.name = b.name /\ a[sorting.key] = b[sorting.key]
      BY <2>2, <3>1, RowsOpposed
    <3>7. ShownRows(sorting) =
            IF matchesSearch(sorting, a) /\ matchesSearch(sorting, b)
            THEN IF Compare(sorting, a, b) <= 0 THEN <<a, b>> ELSE <<b, a>>
            ELSE IF matchesSearch(sorting, a) THEN <<a>>
            ELSE IF matchesSearch(sorting, b) THEN <<b>> ELSE <<>>
      BY <2>2, <3>1, SettledShown
    <3>8. ShownRows(w) =
            IF matchesSearch(w, b) /\ matchesSearch(w, a)
            THEN IF Compare(w, b, a) <= 0 THEN <<b, a>> ELSE <<a, b>>
            ELSE IF matchesSearch(w, b) THEN <<b>>
            ELSE IF matchesSearch(w, a) THEN <<a>> ELSE <<>>
      BY <2>2, <3>3, SettledShown
    <3>9. /\ Compare(sorting, a, b) = 0
          /\ ShownRows(sorting) = <<a, b>>
      BY <3>2, <3>4, <3>5, <3>6, <3>7, <3>8 DEF Opposed
    <3> QED
      BY <3>6, <3>9
  <2> QED
    BY <2>3, <2>4 DEF SortingInv
<1> QED
  BY <1>1, SortingInvariant, PTL

(* Of two containers in one state whose status reads differently, the one   *)
(* that entered it later comes first, whatever their ages are: the seven    *)
(* units in which Docker words an age and the rounding of its hours keep    *)
(* their order, but for the half hour before two years.                     *)
THEOREM AgesAreInOrder == SortingSpec => []AgesOrderContainers
<1>1. SortingInv => AgesOrderContainers
  <2> DEFINE seen == ShownRows(sorting)
             Read(s) == parseDockerStatusTime(HumanDuration(s))
  <2> SUFFICES ASSUME SortingInv, sorting.list = "containers", sorting.key = "state",
                      Len(seen) = 2, seen[1].state = seen[2].state,
                      {seen[1].age, seen[2].age} \cap ({NoAge} \cup OddHalfHour) = {},
                      HumanDuration(seen[1].age) # HumanDuration(seen[2].age)
               PROVE  seen[1].age < seen[2].age <=> sorting.direction = "asc"
    BY DEF AgesOrderContainers
  <2>1. PICK l \in RowLists : sorting \in SortingOf(l)
    BY DEF SortingInv, SortingTypeOK
  <2>2. sorting.direction \in {"asc", "desc"} /\ sorting.key \in SortKeys[sorting.list]
    BY <2>1 DEF SortingOf
  <2>3. sorting.list \in Settled
    BY DEF Settled
  <2>4. CASE sorting.rows = <<>>
    <3>1. seen = <<>>
      BY <2>4, NothingShown
    <3> QED
      BY <3>1, Len(<<>>) = 0
  <2>5. CASE TwoRows(sorting)
    <3>1. PICK a \in ListRow["containers"], b \in ListRow["containers"] :
            sorting.rows = <<a, b>> /\ a.id # b.id
      BY <2>5 DEF TwoRows
    <3>2. Opposed(Compare(sorting, a, b), Compare(sorting, b, a))
      BY <2>2, <2>3, <3>1, RowsOpposed
    <3>3. seen \in {<<a, b>>, <<b, a>>, <<a>>, <<b>>, <<>>}
          /\ (seen = <<a, b>> => Compare(sorting, a, b) <= 0)
          /\ (seen = <<b, a>> => ~(Compare(sorting, a, b) <= 0))
      <4>1. seen =
              IF matchesSearch(sorting, a) /\ matchesSearch(sorting, b)
              THEN IF Compare(sorting, a, b) <= 0 THEN <<a, b>> ELSE <<b, a>>
              ELSE IF matchesSearch(sorting, a) THEN <<a>>
              ELSE IF matchesSearch(sorting, b) THEN <<b>> ELSE <<>>
        BY <2>2, <2>3, <3>1, SettledShown
      <4>2. <<a, b>> # <<b, a>>
        BY <3>1
      <4> HIDE DEF seen
      <4> QED
        BY <4>1, <4>2
    <3>4. PICK x \in {a, b}, y \in {a, b} :
            seen = <<x, y>> /\ Compare(sorting, x, y) <= 0
      <4>1. seen = <<a, b>> \/ seen = <<b, a>>
        <5>1. Len(<<a>>) # 2 /\ Len(<<b>>) # 2 /\ Len(<<>>) # 2
          OBVIOUS
        <5>2. Len(seen) = 2
          OBVIOUS
        <5> HIDE DEF seen
        <5> QED
          BY <3>3, <5>1, <5>2
      <4> HIDE DEF seen
      <4> QED
        BY <3>2, <3>3, <4>1 DEF Opposed
    <3>5. /\ x \in ListRow["containers"] /\ y \in ListRow["containers"]
          /\ seen[1] = x /\ seen[2] = y
      BY <3>4
    <3>6. x.state = y.state /\ x.age # NoAge /\ y.age # NoAge
          /\ HumanDuration(x.age) # HumanDuration(y.age)
      BY <3>5
    <3>7. /\ x.age \in Nat \ OddHalfHour /\ y.age \in Nat \ OddHalfHour
          /\ x.state \in Int
      <4>1. x.age \notin OddHalfHour /\ y.age \notin OddHalfHour
        BY <3>5
      <4>2. x.age \in Ages /\ y.age \in Ages /\ x.state \in Int
        BY <3>5, <3>6 DEF ListRow, Binary
      <4> QED
        BY <4>1, <4>2, AgesAssumption
    <3>8. /\ Read(x.age) \in Nat /\ Read(y.age) \in Nat
          /\ x.age <= y.age => Read(x.age) < Read(y.age)
          /\ y.age <= x.age => Read(y.age) < Read(x.age)
      <4>1. x.age \in Nat /\ y.age \in Nat
        BY <3>7
      <4>2. x.age <= y.age => Read(x.age) < Read(y.age)
        BY <3>6, <3>7, WordsGrow
      <4>3. y.age <= x.age => Read(y.age) < Read(x.age)
        BY <3>6, <3>7, WordsGrow
      <4> QED
        BY <4>1, <4>2, <4>3, ReadIsNumber
    <3> DEFINE sign == IF sorting.direction = "asc" THEN 1 ELSE -1
    <3>9. Compare(sorting, x, y) = sign * compareContainers(x, y, "state")
      BY DEF Compare
    <3>10. compareContainers(x, y, "state") = Read(x.age) - Read(y.age)
      <4>1. compareDockerStatus(x, y) = Read(x.age) - Read(y.age)
        <5>1. Read(x.age) - Read(y.age) # 0
          BY <3>7, <3>8
        <5> QED
          BY <3>6, <5>1 DEF compareDockerStatus, Otherwise
      <4>2. x.state - y.state = 0 /\ Read(x.age) - Read(y.age) # 0
        BY <3>6, <3>7, <3>8
      <4> HIDE DEF Read
      <4> QED
        BY <4>1, <4>2 DEF compareContainers, Otherwise
    <3> HIDE DEF Read, seen
    <3>11. CASE sorting.direction = "asc"
      <4>1. Read(x.age) - Read(y.age) <= 0
        BY <3>4, <3>8, <3>9, <3>10, <3>11
      <4> QED
        BY <3>5, <3>7, <3>8, <3>11, <4>1
    <3>12. CASE sorting.direction = "desc"
      <4>1. 0 - (Read(x.age) - Read(y.age)) <= 0
        BY <3>4, <3>8, <3>9, <3>10, <3>12
      <4> QED
        BY <3>5, <3>7, <3>8, <3>12, <4>1
    <3> QED
      BY <2>2, <3>11, <3>12
  <2> QED
    BY <2>4, <2>5 DEF SortingInv
<1> QED
  BY <1>1, SortingInvariant, PTL

-----------------------------------------------------------------------------
(* The form of a connection *)

(* A test that runs is a current one: its protocol's mark may be set when   *)
(* it ends, and until then no field can be changed.                         *)
FormInv ==
  /\ FormTypeOK
  /\ TestedMarksAreCurrent
  /\ form.running \in Protocols => form.running \in fresh

(* Whatever is edited, no mark is left of which a field was changed that    *)
(* its test had read.                                                       *)
LEMMA EditsInvalidate ==
  ASSUME FormInv, NEW field \in Fields
  PROVE  \A p \in form.success : field \in Reads(p, form) => p \in Invalidated(field)
BY DEF FormInv, FormTypeOK, Form, Fields, SharedFields, SSHFields, Desktops,
       Protocols, Reads, Invalidated, Reuse

(* What opens a form keeps within its type.                                 *)
LEMMA OpenedIsForm ==
  \A enabled \in SUBSET Protocols, auth \in Auths, reuse \in [Desktops -> Reuse] :
    /\ Opened(enabled, auth, reuse) \in Form
    /\ Opened(enabled, auth, reuse).success = {}
    /\ Opened(enabled, auth, reuse).running = "nothing"
<1> SUFFICES ASSUME NEW enabled \in SUBSET Protocols, NEW auth \in Auths,
                    NEW reuse \in [Desktops -> Reuse]
             PROVE  /\ Opened(enabled, auth, reuse) \in Form
                    /\ Opened(enabled, auth, reuse).success = {}
                    /\ Opened(enabled, auth, reuse).running = "nothing"
  OBVIOUS
<1>1. \A d \in Desktops : [reuse[d] EXCEPT !.pass = FALSE] \in Reuse
  BY DEF Reuse
<1>2. NoReuse \in Reuse
  BY DEF NoReuse, Reuse
<1> QED
  BY <1>1, <1>2 DEF Opened, Form

(* Setting a field of the form leaves the others as they are.               *)
LEMMA FormFields ==
  ASSUME NEW f \in Form
  PROVE  /\ \A s \in SUBSET Protocols :
              LET g == [f EXCEPT !.success = s]
              IN  g \in Form /\ g.success = s /\ g.running = f.running /\ g.enabled = f.enabled
         /\ \A r \in Protocols \cup {"save", "tunnels", "nothing"} :
              LET g == [f EXCEPT !.running = r]
              IN  g \in Form /\ g.success = f.success /\ g.running = r
         /\ \A e \in SUBSET Protocols :
              LET g == [f EXCEPT !.enabled = e]
              IN  g \in Form /\ g.success = f.success /\ g.running = f.running
         /\ \A b \in BOOLEAN :
              LET g == [f EXCEPT !.open = b]
              IN  g \in Form /\ g.success = f.success /\ g.running = f.running
BY DEF Form

(* The marks of the form are current, and what is tested is fresh, in every *)
(* state.                                                                   *)
LEMMA FormInvariant == FormSpec => []FormInv
<1>1. ASSUME NEW f \in Form
      PROVE  Closing(f) \in Form /\ Closing(f).success = {}
             /\ Closing(f).running = "nothing"
  BY <1>1 DEF Closing, Form
<1>2. FormInit => FormInv
  <2> SUFFICES ASSUME FormInit PROVE FormInv
    OBVIOUS
  <2>1. /\ {"ssh"} \in SUBSET Protocols
        /\ "password" \in Auths
        /\ [d \in Desktops |-> NoReuse] \in [Desktops -> Reuse]
    BY DEF Protocols, Auths, NoReuse, Reuse
  <2> QED
    BY <1>1, <2>1, OpenedIsForm DEF FormInit, FormInv, FormTypeOK, TestedMarksAreCurrent,
       Protocols, Desktops
<1>3. FormInv /\ [FormNext]_formVars => FormInv'
  <2> SUFFICES ASSUME FormInv, [FormNext]_formVars
               PROVE  FormInv'
    OBVIOUS
  <2> USE DEF FormInv, FormTypeOK, TestedMarksAreCurrent
  <2>0. "nothing" \notin Protocols
    BY DEF Protocols, Desktops
  <2>1. CASE OpenForm
    <3>1. PICK enabled \in SUBSET Protocols, auth \in Auths, reuse \in [Desktops -> Reuse] :
            form' = Opened(enabled, auth, reuse)
      BY <2>1 DEF OpenForm
    <3>2. form' \in Form /\ form'.success = {} /\ form'.running = "nothing"
      BY <3>1, OpenedIsForm
    <3> QED
      BY <2>0, <2>1, <3>2 DEF OpenForm
  <2>2. ASSUME NEW field \in Fields, EditField(field)
        PROVE  FormInv'
    <3>1. form' = [form EXCEPT !.success = form.success \ Invalidated(field)]
      BY <2>2 DEF EditField
    <3>2. form' \in Form /\ form'.success = form.success \ Invalidated(field)
          /\ form'.running = "nothing"
      <4>1. form.success \ Invalidated(field) \in SUBSET Protocols
        BY DEF Form
      <4>2. form.running = "nothing"
        BY <2>2 DEF EditField, FieldEnabled, Editable
      <4> QED
        BY <3>1, <4>1, <4>2, FormFields
    <3>3. form'.success \subseteq fresh' /\ fresh' \subseteq Protocols
      BY <2>2, <3>2, EditsInvalidate DEF EditField
    <3> QED
      BY <2>0, <3>2, <3>3
  <2>3. ASSUME NEW enabled \in SUBSET Protocols, NEW auth \in Auths,
               Editable,
               form' = [Opened(enabled, auth, form.reuse) EXCEPT
                          !.success = form.success \cap {"novnc"}],
               fresh' = FreshAfter(form')
        PROVE  FormInv'
    <3>1. form.reuse \in [Desktops -> Reuse] /\ form.success \cap {"novnc"} \in SUBSET Protocols
      BY DEF Form
    <3>2. form' \in Form /\ form'.success = form.success \cap {"novnc"}
          /\ form'.running = "nothing"
      <4> DEFINE s == form.success \cap {"novnc"}
      <4>1. s \in SUBSET Protocols /\ form' = [Opened(enabled, auth, form.reuse) EXCEPT !.success = s]
        BY <2>3, <3>1
      <4> HIDE DEF s
      <4>2. form' \in Form /\ form'.success = s /\ form'.running = "nothing"
        BY <3>1, <4>1, OpenedIsForm, FormFields
      <4> QED
        BY <4>2 DEF s
    <3>3. form'.success \subseteq fresh' /\ fresh' \subseteq Protocols
      BY <2>3, <3>2 DEF FreshAfter, Desktops
    <3> QED
      BY <2>0, <3>2, <3>3
  <2>4. CASE SetAuth
    <3>1. PICK auth \in Auths :
            /\ form' = [Opened(form.enabled, auth, form.reuse) EXCEPT
                          !.success = form.success \cap {"novnc"}]
            /\ fresh' = FreshAfter(form')
      BY <2>4 DEF SetAuth
    <3> QED
      BY <2>3, <2>4, <3>1 DEF SetAuth, Form
  <2>5. CASE EnableSSH
    <3> DEFINE on == IF "ssh" \in form.enabled THEN form.enabled \ {"ssh"}
                     ELSE form.enabled \cup {"ssh"}
    <3>1. on \in SUBSET Protocols /\ form.auth \in Auths
      BY DEF Form, Protocols
    <3>2. /\ form' = [Opened(on, form.auth, form.reuse) EXCEPT
                        !.success = form.success \cap {"novnc"}]
          /\ fresh' = FreshAfter(form')
      BY <2>5 DEF EnableSSH
    <3> HIDE DEF on
    <3> QED
      BY <2>3, <2>5, <3>1, <3>2 DEF EnableSSH
  <2>6. ASSUME NEW p \in Desktops \cup {"novnc"}, EnableDesktop(p)
        PROVE  FormInv'
    <3> DEFINE on == IF p \in form.enabled THEN form.enabled \ {p} ELSE form.enabled \cup {p}
               f == [form EXCEPT !.enabled = on]
    <3>1. on \in SUBSET Protocols
      BY DEF Form, Protocols
    <3>2. f \in Form /\ f.success = form.success /\ f.running = "nothing"
      BY <2>6, <3>1, FormFields DEF EnableDesktop, Editable
    <3>3. form' = [f EXCEPT !.success = form.success \ {p}]
      BY <2>6 DEF EnableDesktop, Form
    <3>4. form' \in Form /\ form'.success = form.success \ {p} /\ form'.running = "nothing"
      <4>1. form.success \ {p} \in SUBSET Protocols
        BY DEF Form
      <4> HIDE DEF f
      <4> QED
        BY <3>2, <3>3, <4>1, FormFields
    <3> QED
      BY <2>0, <2>6, <3>4 DEF EnableDesktop
  <2>7. ASSUME NEW d \in Desktops, NEW key \in {"user", "pass"}, ReuseSSH(d, key)
        PROVE  FormInv'
    <3>1. form' \in Form
      <4>1. [form.reuse[d] EXCEPT ![key] = ~form.reuse[d][key]] \in Reuse
        BY DEF Form, Reuse
      <4>2. form' = [form EXCEPT
              !.reuse = [form.reuse EXCEPT
                 ![d] = [form.reuse[d] EXCEPT ![key] = ~form.reuse[d][key]]],
              !.success = form.success \ {d}]
        BY <2>7 DEF ReuseSSH, Form
      <4> QED
        BY <4>1, <4>2 DEF Form
    <3>2. form'.success = form.success \ {d} /\ form'.running = "nothing"
      BY <2>7 DEF ReuseSSH, Editable, Form
    <3> QED
      BY <2>0, <2>7, <3>1, <3>2 DEF ReuseSSH
  <2>8. ASSUME NEW p \in Protocols, Test(p)
        PROVE  FormInv'
    <3> DEFINE f == [form EXCEPT !.running = p]
    <3>1. f \in Form /\ f.success = form.success /\ f.running = p
      BY FormFields
    <3>2. form' = [f EXCEPT !.success = form.success \ {p}]
      BY <2>8 DEF Test, Form
    <3>3. form' \in Form /\ form'.success = form.success \ {p} /\ form'.running = p
      <4>1. form.success \ {p} \in SUBSET Protocols
        BY DEF Form
      <4> HIDE DEF f
      <4> QED
        BY <3>1, <3>2, <4>1, FormFields
    <3> QED
      BY <2>8, <3>3 DEF Test
  <2>9. ASSUME NEW p \in Protocols, TestEnds(p)
        PROVE  FormInv'
    <3> DEFINE f == [form EXCEPT !.running = "nothing"]
    <3>1. f \in Form /\ f.success = form.success /\ f.running = "nothing"
      BY FormFields
    <3>2. form' \in {[f EXCEPT !.success = form.success \cup {p}], f}
      BY <2>9 DEF TestEnds, Form
    <3>3. /\ form' \in Form /\ form'.running = "nothing"
          /\ form'.success \subseteq form.success \cup {p}
      <4>1. form.success \cup {p} \in SUBSET Protocols
        BY DEF Form
      <4> HIDE DEF f
      <4> QED
        <5>1. CASE form' = f
          BY <3>1, <5>1
        <5>2. CASE form' = [f EXCEPT !.success = form.success \cup {p}]
          BY <3>1, <4>1, <5>2, FormFields
        <5> QED
          BY <3>2, <5>1, <5>2
    <3> QED
      BY <2>0, <2>9, <3>3 DEF TestEnds
  <2>10. ASSUME NEW operation \in {"save", "tunnels"}, Operate(operation)
         PROVE  FormInv'
    <3>1. form' \in Form /\ form'.success = form.success /\ form'.running = operation
      BY <2>10, FormFields DEF Operate
    <3>2. operation \notin Protocols
      BY DEF Protocols, Desktops
    <3> QED
      BY <2>10, <3>1, <3>2 DEF Operate
  <2>11. ASSUME form' \in {Closing(form), [form EXCEPT !.running = "nothing"]}, fresh' = fresh
         PROVE  FormInv'
    <3>1. form' \in Form /\ form'.success \subseteq form.success /\ form'.running = "nothing"
      <4>1. CASE form' = Closing(form)
        BY <1>1, <4>1
      <4>2. CASE form' = [form EXCEPT !.running = "nothing"]
        BY <4>2, FormFields
      <4> QED
        BY <2>11, <4>1, <4>2
    <3> QED
      BY <2>0, <2>11, <3>1
  <2>12. CASE SaveEnds \/ TunnelsEnd \/ CloseForm
    BY <2>11, <2>12 DEF SaveEnds, TunnelsEnd, CloseForm
  <2>13. CASE UNCHANGED formVars
    BY <2>13 DEF formVars
  <2> QED
    BY <2>1, <2>2, <2>4, <2>5, <2>6, <2>7, <2>8, <2>9, <2>10, <2>12, <2>13 DEF FormNext
<1> QED
  BY <1>2, <1>3, PTL DEF FormSpec

(* The mark of a successful test stands for what the form shows, for every  *)
(* sequence of edits, boxes and tests.                                      *)
THEOREM MarksAreCurrent == FormSpec => []TestedMarksAreCurrent
BY FormInvariant, PTL DEF FormInv

-----------------------------------------------------------------------------
(* The tunnels of the form *)

(* The drafts of a new connection take no call.                             *)
SettingsInv ==
  /\ SettingsTypeOK
  /\ DraftPortsAreDistinct
  /\ settings.connection = "new" => settings.running = "nothing"

(* Setting a field of the tab leaves the others as they are.                *)
LEMMA SettingsFields ==
  ASSUME NEW s \in Settings
  PROVE  /\ \A e \in ToTunnel :
              LET r == [s EXCEPT !.editing = e]
              IN  r \in Settings /\ r.list = s.list /\ r.connection = s.connection
                  /\ r.running = s.running
         /\ \A p \in Ports :
              LET r == [s EXCEPT !.port = p]
              IN  r \in Settings /\ r.list = s.list /\ r.connection = s.connection
                  /\ r.running = s.running
         /\ \A d \in ToTunnel :
              LET r == [s EXCEPT !.deleting = d]
              IN  r \in Settings /\ r.list = s.list /\ r.connection = s.connection
                  /\ r.running = s.running
         /\ \A x \in {"nothing", "submit", "remove"} :
              LET r == [s EXCEPT !.running = x]
              IN  r \in Settings /\ r.list = s.list /\ r.connection = s.connection
                  /\ r.running = x
         /\ \A l \in [Tunnels -> Ports] :
              LET r == [s EXCEPT !.list = l]
              IN  r \in Settings /\ r.list = l /\ r.connection = s.connection
                  /\ r.running = s.running
BY DEF Settings

(* What ends an operation takes its list over and unlocks the tab.          *)
LEMMA EndedOperations ==
  ASSUME SettingsAssumption, NEW s \in Settings
  PROVE  /\ Submitted(s) \in Settings /\ Submitted(s).list = s.list
         /\ Submitted(s).connection = s.connection /\ Submitted(s).running = "nothing"
         /\ Removed(s) \in Settings /\ Removed(s).list = s.list
         /\ Removed(s).connection = s.connection /\ Removed(s).running = "nothing"
<1> DEFINE none == 0
<1>0. NoTunnel \in ToTunnel /\ none \in Ports
  BY DEF SettingsAssumption, ToTunnel, Ports
<1>1. ASSUME NEW e \in ToTunnel, NEW p \in Ports, NEW d \in ToTunnel, NEW r,
             r = [s EXCEPT !.editing = e, !.port = p, !.deleting = d, !.running = "nothing"]
      PROVE  r \in Settings
  BY <1>1 DEF Settings
<1>2. s.deleting \in ToTunnel /\ s.editing \in ToTunnel /\ s.port \in Ports
  BY DEF Settings
<1>3. Submitted(s) = [s EXCEPT !.editing = NoTunnel, !.port = none, !.deleting = s.deleting,
                               !.running = "nothing"]
  BY DEF Submitted, Settings
<1> DEFINE e == IF s.editing = s.deleting THEN NoTunnel ELSE s.editing
           p == IF s.editing = s.deleting THEN none ELSE s.port
<1>4. Removed(s) = [s EXCEPT !.editing = e, !.port = p, !.deleting = NoTunnel,
                             !.running = "nothing"]
  BY DEF Removed, Settings
<1> HIDE DEF none
<1>5. e \in ToTunnel /\ p \in Ports
  BY <1>0, <1>2
<1> DEFINE submitted == Submitted(s)
           removed == Removed(s)
<1>6. /\ submitted = [s EXCEPT !.editing = NoTunnel, !.port = none,
                               !.deleting = s.deleting, !.running = "nothing"]
      /\ removed = [s EXCEPT !.editing = e, !.port = p, !.deleting = NoTunnel,
                             !.running = "nothing"]
  BY <1>3, <1>4
<1> HIDE DEF e, p, submitted, removed
<1>7. /\ submitted \in Settings /\ submitted.list = s.list
      /\ submitted.connection = s.connection /\ submitted.running = "nothing"
  <2>1. submitted \in Settings
    BY <1>0, <1>1, <1>2, <1>6
  <2> QED
    BY <1>6, <2>1 DEF Settings
<1>8. /\ removed \in Settings /\ removed.list = s.list
      /\ removed.connection = s.connection /\ removed.running = "nothing"
  <2>1. removed \in Settings
    BY <1>0, <1>1, <1>5, <1>6
  <2> QED
    BY <1>6, <2>1 DEF Settings
<1> QED
  BY <1>7, <1>8 DEF submitted, removed

(* The drafts of a form are distinct in every state.                        *)
LEMMA SettingsInvariant == SettingsSpec => []SettingsInv
<1>0. NoTunnel \in ToTunnel /\ 0 \in Ports /\ NoTunnel \notin Tunnels
  BY SettingsAssumption DEF ToTunnel, Ports, NoTunnel
<1>1. SettingsInit => SettingsInv
  BY <1>0 DEF SettingsInit, SettingsInv, SettingsTypeOK, Settings, DraftPortsAreDistinct, Shown
<1>2. SettingsInv /\ [SettingsNext]_settings => SettingsInv'
  <2> SUFFICES ASSUME SettingsInv, [SettingsNext]_settings
               PROVE  SettingsInv'
    OBVIOUS
  <2> USE DEF SettingsInv, SettingsTypeOK, DraftPortsAreDistinct, Shown
  <2>0. /\ settings.list \in [Tunnels -> Ports] /\ settings.deleting \in ToTunnel
        /\ settings.editing \in ToTunnel /\ settings.port \in Ports
        /\ settings.connection \in {"new", "stored"}
    BY DEF Settings
  <2>1. ASSUME settings' \in Settings, settings'.list = settings.list,
               settings'.connection = settings.connection,
               settings'.running = "nothing"
        PROVE  SettingsInv'
    BY <2>1
  <2>2. ASSUME settings' \in Settings, settings'.connection = "stored"
        PROVE  SettingsInv'
    BY <2>2
  <2>3. ASSUME NEW t \in Tunnels, EditTunnel(t)
        PROVE  SettingsInv'
    <3> DEFINE s == [settings EXCEPT !.editing = t]
    <3>1. s \in Settings /\ s.list = settings.list /\ s.connection = settings.connection
          /\ s.running = settings.running /\ settings.list[t] \in Ports
      <4>1. t \in ToTunnel
        BY DEF ToTunnel
      <4>2. settings.list[t] \in Ports
        BY <2>0
      <4> QED
        BY <4>1, <4>2, SettingsFields
    <3> DEFINE p == settings.list[t]
    <3>2. settings' = [s EXCEPT !.port = p] /\ settings.running = "nothing"
      BY <2>3 DEF EditTunnel, Unlocked
    <3>3. p \in Ports
      BY <3>1
    <3> HIDE DEF s, p
    <3>4. /\ settings' \in Settings /\ settings'.list = s.list
          /\ settings'.connection = s.connection /\ settings'.running = s.running
      BY <3>1, <3>2, <3>3, SettingsFields DEF Settings
    <3> QED
      BY <2>1, <3>1, <3>2, <3>4
  <2>4. ASSUME NEW t \in Tunnels, AskRemove(t)
        PROVE  SettingsInv'
    <3>1. t \in ToTunnel
      BY DEF ToTunnel
    <3> QED
      BY <2>1, <2>4, <3>1, SettingsFields DEF AskRemove, Unlocked
  <2>5. CASE KeepTunnel
    BY <1>0, <2>1, <2>5, SettingsFields DEF KeepTunnel, Unlocked
  <2>6. CASE TypePort
    <3>1. PICK p \in Ports : settings' = [settings EXCEPT !.port = p]
      BY <2>6 DEF TypePort
    <3> QED
      BY <2>1, <2>6, <3>1, SettingsFields DEF TypePort, Unlocked
  <2>7. CASE CancelEdit
    <3> DEFINE s == [settings EXCEPT !.editing = NoTunnel]
    <3>1. s \in Settings /\ s.list = settings.list /\ s.connection = settings.connection
          /\ s.running = settings.running
      BY <1>0, SettingsFields
    <3>2. settings' = [s EXCEPT !.port = 0] /\ settings.running = "nothing"
      BY <2>7 DEF CancelEdit, Unlocked
    <3> HIDE DEF s
    <3> QED
      BY <1>0, <2>1, <3>1, <3>2, SettingsFields
  <2>8. CASE SubmitDraft
    <3>1. PICK t \in ToTunnel :
            /\ settings.editing = NoTunnel => t \in Tunnels /\ t \notin Shown(settings)
            /\ settings.editing # NoTunnel => t = settings.editing
            /\ settings' = Submitted([settings EXCEPT
                 !.list[t] = IF settings.editing = NoTunnel \/ t \in Shown(settings)
                             THEN settings.port ELSE 0])
      BY <2>0, <2>8 DEF SubmitDraft, ToTunnel
    <3> DEFINE p == IF settings.editing = NoTunnel \/ t \in Shown(settings)
                    THEN settings.port ELSE 0
               l == [settings.list EXCEPT ![t] = p]
               s == [settings EXCEPT !.list = l]
    <3>2. p \in Ports /\ t \in Tunnels
      BY <1>0, <2>0, <3>1 DEF ToTunnel
    <3>3. l \in [Tunnels -> Ports]
      BY <2>0, <3>2
    <3>4. s \in Settings /\ s.list = l /\ s.connection = settings.connection
      BY <3>3, SettingsFields
    <3>5. settings' = Submitted(s)
      BY <3>1 DEF Settings
    <3>6. /\ settings' \in Settings /\ settings'.list = l
          /\ settings'.connection = settings.connection /\ settings'.running = "nothing"
      BY <3>4, <3>5, EndedOperations, SettingsAssumption
    <3>7. ASSUME NEW u \in Tunnels, u # t, l[u] # 0
          PROVE  l[u] # l[t] \/ l[t] = 0
      <4>1. u \in Shown(settings) /\ l[u] = settings.list[u] /\ l[t] = p
        BY <2>0, <3>2, <3>7
      <4>2. u # settings.editing
        BY <3>1, <3>2, <3>7, <1>0
      <4> QED
        BY <2>8, <4>1, <4>2 DEF SubmitDraft, Accepted
    <3>8. \A u, v \in Tunnels : l[u] # 0 /\ l[v] # 0 /\ l[u] = l[v] => u = v
      <4> SUFFICES ASSUME NEW u \in Tunnels, NEW v \in Tunnels, u # v, l[u] # 0, l[v] # 0
                   PROVE  l[u] # l[v]
        OBVIOUS
      <4>1. CASE u = t \/ v = t
        BY <3>7, <4>1
      <4>2. CASE u # t /\ v # t
        BY <2>0, <2>8, <3>2, <4>2 DEF SubmitDraft
      <4> QED
        BY <4>1, <4>2
    <3> QED
      BY <3>6, <3>8
  <2>9. CASE SubmitStored
    BY <2>2, <2>9, SettingsFields DEF SubmitStored
  <2>10. ASSUME settings.running # "nothing",
                \/ \E list \in Reloaded :
                     \/ settings' = Submitted([settings EXCEPT !.list = list])
                     \/ settings' = Removed([settings EXCEPT !.list = list])
                \/ settings' = [settings EXCEPT !.running = "nothing"]
         PROVE  SettingsInv'
    <3>1. settings.connection = "stored"
      BY <2>0, <2>10
    <3>2. CASE settings' = [settings EXCEPT !.running = "nothing"]
      BY <2>2, <3>1, <3>2, SettingsFields
    <3>3. ASSUME NEW list \in Reloaded,
                 \/ settings' = Submitted([settings EXCEPT !.list = list])
                 \/ settings' = Removed([settings EXCEPT !.list = list])
          PROVE  SettingsInv'
      <4> DEFINE s == [settings EXCEPT !.list = list]
      <4>1. s \in Settings /\ s.connection = "stored"
        BY <3>1, SettingsFields DEF Reloaded
      <4>2. settings' = Submitted(s) \/ settings' = Removed(s)
        BY <3>3
      <4> HIDE DEF s
      <4> QED
        BY <2>2, <4>1, <4>2, EndedOperations, SettingsAssumption
    <3> QED
      BY <2>10, <3>2, <3>3
  <2>11. CASE SubmitEnds \/ RemoveEnds
    BY <2>10, <2>11 DEF SubmitEnds, RemoveEnds
  <2>12. CASE RemoveDraft
    <3> DEFINE l == [settings.list EXCEPT ![settings.deleting] = 0]
               s == [settings EXCEPT !.list = l]
    <3>1. l \in [Tunnels -> Ports]
      BY <1>0, <2>0
    <3>2. s \in Settings /\ s.list = l /\ s.connection = settings.connection
      BY <3>1, SettingsFields
    <3>3. settings' = Removed(s)
      BY <2>12 DEF RemoveDraft, Settings
    <3>4. \A u \in Tunnels : l[u] = settings.list[u] \/ l[u] = 0
      BY <2>0
    <3>5. /\ settings' \in Settings /\ settings'.list = l
          /\ settings'.connection = settings.connection /\ settings'.running = "nothing"
      BY <3>2, <3>3, EndedOperations, SettingsAssumption
    <3> HIDE DEF l, s
    <3> QED
      BY <3>4, <3>5
  <2>13. CASE RemoveStored
    BY <2>2, <2>13, SettingsFields DEF RemoveStored
  <2>14. CASE TunnelsChanged
    <3>1. PICK list \in [Tunnels -> Ports] : settings' = [settings EXCEPT !.list = list]
      BY <2>14 DEF TunnelsChanged, Reloaded
    <3> QED
      BY <2>2, <2>14, <3>1, SettingsFields DEF TunnelsChanged
  <2>15. CASE UNCHANGED settings
    BY <2>15
  <2> QED
    BY <2>3, <2>4, <2>5, <2>6, <2>7, <2>8, <2>9, <2>11, <2>12, <2>13, <2>14, <2>15
    DEF SettingsNext
<1> QED
  BY <1>1, <1>2, PTL DEF SettingsSpec

(* No sequence of adding, editing and removing drafts leads to two on one   *)
(* port, for any number of tunnels and ports.                               *)
THEOREM DraftsAreDistinct == SettingsSpec => []DraftPortsAreDistinct
BY SettingsInvariant, PTL DEF SettingsInv

-----------------------------------------------------------------------------
(* The Tunnels tab *)

(* Each part of the tab's state holds what it is declared to hold, for      *)
(* users who wait and for users who do not.                                 *)
THEOREM PanelTypeCorrect == PanelTunnelsSpec => []PanelTunnelsTypeOK
<1>1. PanelTunnelsInit => PanelTunnelsTypeOK
  BY DEF PanelTunnelsInit, PanelTunnelsTypeOK, OrNowhere, OrNone, Off, TunnelForm
<1>2. PanelTunnelsTypeOK /\ [PanelTunnelsNext]_tunnelVars => PanelTunnelsTypeOK'
  <2> SUFFICES ASSUME PanelTunnelsTypeOK, [PanelTunnelsNext]_tunnelVars
               PROVE  PanelTunnelsTypeOK'
    OBVIOUS
  <2> USE DEF PanelTunnelsTypeOK
  <2>0. /\ "none" \in OrNone /\ Nowhere \in OrNowhere /\ PanelTunnels \subseteq OrNone
        /\ tunnelForm.editing \in OrNone /\ tunnelForm.deleting \in OrNone
        /\ tunnelForm.endpoint \in OrNowhere
    BY DEF OrNone, OrNowhere, TunnelForm
  <2>1. ASSUME NEW op \in {"add", "edit", "delete", "turn on", "turn off"},
               NEW t \in OrNone, NEW e \in OrNowhere, SendTunnel(op, t, e)
        PROVE  tunnelCalls' \subseteq TunnelCall
    <3>1. [op |-> op, tunnel |-> t, endpoint |-> e, at |-> "sent"] \in TunnelCall
      BY DEF TunnelCall
    <3> QED
      BY <2>1, <3>1 DEF SendTunnel
  <2>2. ASSUME NEW e \in OrNone, NEW p \in OrNowhere
        PROVE  [tunnelForm EXCEPT !.open = TRUE, !.editing = e, !.endpoint = p] \in TunnelForm
    BY DEF TunnelForm
  <2>3. ASSUME NEW e \in OrNone
        PROVE  [tunnelForm EXCEPT !.deleting = e] \in TunnelForm
    BY DEF TunnelForm
  <2>4. CASE OpenCreateModal
    BY <2>0, <2>2, <2>4 DEF OpenCreateModal
  <2>5. ASSUME NEW t \in PanelTunnels, OpenEditModal(t)
        PROVE  PanelTunnelsTypeOK'
    BY <2>0, <2>2, <2>5 DEF OpenEditModal
  <2>6. ASSUME NEW t \in PanelTunnels, HandleToggleTunnel(t)
        PROVE  PanelTunnelsTypeOK'
    BY <2>0, <2>1, <2>6 DEF HandleToggleTunnel
  <2>7. ASSUME NEW t \in PanelTunnels, HandleDeleteTunnel(t)
        PROVE  PanelTunnelsTypeOK'
    BY <2>0, <2>3, <2>7 DEF HandleDeleteTunnel
  <2>8. ASSUME NEW e \in OrNowhere, TypeEndpoint(e)
        PROVE  PanelTunnelsTypeOK'
    BY <2>8 DEF TypeEndpoint, TunnelForm
  <2>9. [tunnelForm EXCEPT !.open = FALSE] \in TunnelForm
    BY DEF TunnelForm
  <2>10. CASE CloseTunnelModal
    BY <2>9, <2>10 DEF CloseTunnelModal
  <2>11. CASE HandleSaveTunnel
    BY <2>0, <2>1, <2>11 DEF HandleSaveTunnel
  <2>12. CASE ConfirmDeleteTunnel
    BY <2>0, <2>1, <2>3, <2>12 DEF ConfirmDeleteTunnel
  <2>13. CASE CancelDeleteTunnel
    BY <2>0, <2>3, <2>13 DEF CancelDeleteTunnel
  <2>14. ASSUME NEW c \in tunnelCalls, ToggleEnds(c)
         PROVE  PanelTunnelsTypeOK'
    BY <2>0, <2>14 DEF ToggleEnds, TunnelCallEnds, TunnelCall
  <2>15. ASSUME NEW c \in tunnelCalls, AddEnds(c)
         PROVE  PanelTunnelsTypeOK'
    BY <2>0, <2>9, <2>15 DEF AddEnds, TunnelCallEnds, TunnelCall, SavedTunnel
  <2>16. ASSUME NEW c \in tunnelCalls, TurnOffFirst(c)
         PROVE  PanelTunnelsTypeOK'
    <3>1. [c EXCEPT !.at = "off"] \in TunnelCall
      BY DEF TunnelCall
    <3> QED
      BY <2>0, <2>16, <3>1 DEF TurnOffFirst
  <2>17. ASSUME NEW c \in tunnelCalls, EditEnds(c)
         PROVE  PanelTunnelsTypeOK'
    BY <2>0, <2>9, <2>17 DEF EditEnds, TunnelCallEnds, TunnelCall, SavedTunnel
  <2>18. ASSUME NEW c \in tunnelCalls, DeleteTunnelEnds(c)
         PROVE  PanelTunnelsTypeOK'
    BY <2>0, <2>18 DEF DeleteTunnelEnds, TunnelCallEnds
  <2>19. CASE UNCHANGED tunnelVars
    BY <2>19 DEF tunnelVars
  <2> QED
    BY <2>4, <2>5, <2>6, <2>7, <2>8, <2>10, <2>11, <2>12, <2>13, <2>14, <2>15, <2>16,
       <2>17, <2>18, <2>19 DEF PanelTunnelsNext
<1> QED
  BY <1>1, <1>2, PTL DEF PanelTunnelsSpec

(* For a user who waits, one call at most is about a tunnel.                *)
CallsAreAlone ==
  \A c, d \in tunnelCalls : c.tunnel = d.tunnel /\ c.tunnel # "none" => c = d

(* What each call of the user who waits knows of its tunnel: it has none    *)
(* only when it adds one, it turns on what the row says, and it has turned  *)
(* the listener off before it changes the row.                              *)
CallsKnowTheirTunnel ==
  \A c \in tunnelCalls :
    /\ c.op # "add" => c.tunnel \in PanelTunnels
    /\ c.op = "turn on" => c.endpoint = saved[c.tunnel] /\ c.endpoint # Nowhere
    /\ c.at = "off" => c.op # "add" /\ listening[c.tunnel] = Nowhere

ListenersFollow ==
  \A t \in PanelTunnels : listening[t] # Nowhere => listening[t] = saved[t]

PanelInv ==
  PanelTunnelsTypeOK /\ CallsAreAlone /\ CallsKnowTheirTunnel /\ ListenersFollow

(* A call that a user who waits makes is the only one about its tunnel.     *)
LEMMA WaitingUsersSend ==
  ASSUME ~Overlap, PanelInv, UNCHANGED <<saved, listening>>,
         NEW op \in {"add", "edit", "delete", "turn on", "turn off"},
         NEW t \in OrNone, NEW e, SendTunnel(op, t, e),
         op # "add" => t \in PanelTunnels,
         op = "turn on" => e = saved[t] /\ e # Nowhere
  PROVE  CallsAreAlone' /\ CallsKnowTheirTunnel' /\ ListenersFollow'
<1> DEFINE n == [op |-> op, tunnel |-> t, endpoint |-> e, at |-> "sent"]
<1>1. n.op = op /\ n.tunnel = t /\ n.endpoint = e /\ n.at # "off"
  OBVIOUS
<1>2. /\ tunnelCalls' = tunnelCalls \cup {n}
      /\ \A c \in tunnelCalls : t # "none" => c.tunnel # t
  BY DEF SendTunnel
<1> HIDE DEF n
<1> QED
  BY <1>1, <1>2 DEF PanelInv, CallsAreAlone, CallsKnowTheirTunnel, ListenersFollow

(* For a user who waits, calls are alone and listeners follow in every      *)
(* state.                                                                   *)
LEMMA PanelInvariant ==
  ASSUME ~Overlap PROVE PanelTunnelsSpec => []PanelInv
<1>1. PanelTunnelsInit => CallsAreAlone /\ CallsKnowTheirTunnel /\ ListenersFollow
  BY DEF PanelTunnelsInit, CallsAreAlone, CallsKnowTheirTunnel, ListenersFollow, Off
<1>2. PanelInv /\ [PanelTunnelsNext]_tunnelVars
      => CallsAreAlone' /\ CallsKnowTheirTunnel' /\ ListenersFollow'
  <2> SUFFICES ASSUME PanelInv, [PanelTunnelsNext]_tunnelVars
               PROVE  CallsAreAlone' /\ CallsKnowTheirTunnel' /\ ListenersFollow'
    OBVIOUS
  <2> USE PanelTunnelsAssumption
      DEF PanelInv, PanelTunnelsTypeOK, CallsAreAlone, CallsKnowTheirTunnel, ListenersFollow
  <2>1. CASE UNCHANGED <<saved, listening, tunnelCalls>>
    BY <2>1
  <2>2. ASSUME NEW t \in PanelTunnels, HandleToggleTunnel(t)
        PROVE  CallsAreAlone' /\ CallsKnowTheirTunnel' /\ ListenersFollow'
    <3>1. t \in OrNone /\ saved[t] # Nowhere /\ UNCHANGED <<saved, listening>>
      BY <2>2 DEF HandleToggleTunnel, RowsWithButtons, OrNone
    <3>2. \/ SendTunnel("turn on", t, saved[t])
          \/ SendTunnel("turn off", t, saved[t])
      BY <2>2 DEF HandleToggleTunnel
    <3> HIDE DEF PanelInv, CallsAreAlone, CallsKnowTheirTunnel, ListenersFollow
    <3> QED
      BY <3>1, <3>2, WaitingUsersSend
  <2>3. CASE HandleSaveTunnel
    <3>1. /\ tunnelForm.editing \in OrNone /\ UNCHANGED <<saved, listening>>
          /\ tunnelForm.editing # "none" => tunnelForm.editing \in PanelTunnels
      BY <2>3 DEF HandleSaveTunnel, TunnelForm, OrNone
    <3>2. \/ SendTunnel("add", tunnelForm.editing, tunnelForm.endpoint)
          \/ /\ tunnelForm.editing # "none"
             /\ SendTunnel("edit", tunnelForm.editing, tunnelForm.endpoint)
      BY <2>3 DEF HandleSaveTunnel
    <3> HIDE DEF PanelInv, CallsAreAlone, CallsKnowTheirTunnel, ListenersFollow
    <3> QED
      BY <3>1, <3>2, WaitingUsersSend
  <2>4. CASE ConfirmDeleteTunnel
    <3>1. /\ tunnelForm.deleting \in OrNone /\ tunnelForm.deleting \in PanelTunnels
          /\ UNCHANGED <<saved, listening>>
          /\ SendTunnel("delete", tunnelForm.deleting, Nowhere)
      BY <2>4 DEF ConfirmDeleteTunnel, TunnelForm, OrNone
    <3> HIDE DEF PanelInv, CallsAreAlone, CallsKnowTheirTunnel, ListenersFollow
    <3> QED
      BY <3>1, WaitingUsersSend
  <2>5. ASSUME NEW c \in tunnelCalls, ToggleEnds(c)
        PROVE  CallsAreAlone' /\ CallsKnowTheirTunnel' /\ ListenersFollow'
    <3>1. /\ tunnelCalls' = tunnelCalls \ {c} /\ saved' = saved
          /\ c.tunnel \in PanelTunnels /\ c.tunnel # "none"
      BY <2>5 DEF ToggleEnds, TunnelCallEnds
    <3>2. \A t \in PanelTunnels : t # c.tunnel => listening'[t] = listening[t]
      BY <2>5 DEF ToggleEnds
    <3>3. listening'[c.tunnel] \in {listening[c.tunnel], saved[c.tunnel], Nowhere}
      BY <2>5, <3>1 DEF ToggleEnds
    <3>4. \A d \in tunnelCalls' : d.tunnel # c.tunnel
      BY <3>1
    <3> QED
      BY <3>1, <3>2, <3>3, <3>4
  <2>6. ASSUME NEW c \in tunnelCalls, AddEnds(c)
        PROVE  CallsAreAlone' /\ CallsKnowTheirTunnel' /\ ListenersFollow'
    <3>1. tunnelCalls' = tunnelCalls \ {c} /\ listening' = listening
      BY <2>6 DEF AddEnds, TunnelCallEnds
    <3>2. \A t \in PanelTunnels : saved[t] # Nowhere => saved'[t] = saved[t]
      BY <2>6 DEF AddEnds
    <3>3. \A t \in PanelTunnels : listening[t] # Nowhere => saved[t] # Nowhere
      OBVIOUS
    <3> QED
      BY <3>1, <3>2, <3>3
  <2>7. ASSUME NEW c \in tunnelCalls, TurnOffFirst(c)
        PROVE  CallsAreAlone' /\ CallsKnowTheirTunnel' /\ ListenersFollow'
    <3> DEFINE d == [c EXCEPT !.at = "off"]
    <3>1. d.tunnel = c.tunnel /\ d.op = c.op /\ d.endpoint = c.endpoint
      BY DEF TunnelCall
    <3>2. /\ tunnelCalls' = (tunnelCalls \ {c}) \cup {d} /\ saved' = saved
          /\ listening' = [listening EXCEPT ![c.tunnel] = Nowhere]
          /\ c.tunnel \in PanelTunnels /\ c.op \notin {"add", "turn on"}
      BY <2>7 DEF TurnOffFirst
    <3>3. \A b \in tunnelCalls \ {c} : b.tunnel # c.tunnel
      BY <3>2
    <3> HIDE DEF d
    <3>4. CallsAreAlone'
      BY <3>1, <3>2, <3>3
    <3>5. CallsKnowTheirTunnel' /\ ListenersFollow'
      BY <3>1, <3>2, <3>3
    <3> QED
      BY <3>4, <3>5
  <2>8. ASSUME NEW c \in tunnelCalls, EditEnds(c) \/ DeleteTunnelEnds(c)
        PROVE  CallsAreAlone' /\ CallsKnowTheirTunnel' /\ ListenersFollow'
    <3>1. /\ tunnelCalls' = tunnelCalls \ {c} /\ listening' = listening
          /\ c.tunnel \in PanelTunnels /\ c.tunnel # "none" /\ listening[c.tunnel] = Nowhere
      BY <2>8 DEF EditEnds, DeleteTunnelEnds, TunnelCallEnds
    <3>2. \A t \in PanelTunnels : t # c.tunnel => saved'[t] = saved[t]
      BY <2>8 DEF EditEnds, DeleteTunnelEnds
    <3>3. \A d \in tunnelCalls' : d.tunnel # c.tunnel
      BY <3>1
    <3> QED
      BY <3>1, <3>2, <3>3
  <2>9. ASSUME NEW t \in PanelTunnels, OpenEditModal(t) \/ HandleDeleteTunnel(t)
        PROVE  UNCHANGED <<saved, listening, tunnelCalls>>
    BY <2>9 DEF OpenEditModal, HandleDeleteTunnel
  <2>10. CASE OpenCreateModal \/ CloseTunnelModal \/ CancelDeleteTunnel \/ UNCHANGED tunnelVars
    BY <2>1, <2>10 DEF OpenCreateModal, CloseTunnelModal, CancelDeleteTunnel, tunnelVars
  <2>11. ASSUME NEW e \in OrNowhere, TypeEndpoint(e)
         PROVE  UNCHANGED <<saved, listening, tunnelCalls>>
    BY <2>11 DEF TypeEndpoint
  <2> HIDE DEF PanelInv, CallsAreAlone, CallsKnowTheirTunnel, ListenersFollow
  <2> QED
    BY <2>1, <2>2, <2>3, <2>4, <2>5, <2>6, <2>7, <2>8, <2>9, <2>10, <2>11
    DEF PanelTunnelsNext
<1> QED
  BY <1>1, <1>2, PanelTypeCorrect, PTL DEF PanelTunnelsSpec, PanelInv

(* For a user who waits for each call about a tunnel, what listens is what  *)
(* its row says, for any number of tunnels and of calls about others.       *)
THEOREM ListenersFollowTheirRow ==
  ASSUME ~Overlap PROVE PanelTunnelsSpec => []ForwardsFollowTheirRow
<1>1. PanelInv => ForwardsFollowTheirRow
  BY DEF PanelInv, ListenersFollow, ForwardsFollowTheirRow
<1> QED
  BY <1>1, PanelInvariant, PTL

-----------------------------------------------------------------------------
(* Transfers of files *)

(* What was said of a transfer, delivered or not, beside that it runs.      *)
Told(t) == (emitted[t] \cup {shown[t].status}) \cap Outcomes

(* A part that is about to take the destination's name is all of the file,  *)
(* and only how a transfer ended is told of it.                             *)
TransferOK(t) ==
  /\ work[t].phase \in {"copied", "renaming"} => work[t].copied = work[t].opened
  /\ work[t].phase # "ended" => Told(t) = {} /\ ~work[t].placed
  /\ work[t].phase = "ended" =>
       /\ Told(t) \subseteq {StatusOf(t, work[t].err)}
       /\ work[t].err = "none" => work[t].placed /\ ~work[t].part
       /\ work[t].err = "canceled" => ~work[t].placed
       /\ work[t].err # "none" /\ server.online => ~work[t].placed

TransfersInv == TransfersTypeOK /\ \A t \in Transfers : TransferOK(t)

(* A step of one transfer leaves the others as they are, and a connection   *)
(* that is lost takes no promise away.                                      *)
LEMMA OthersStay ==
  ASSUME NEW u \in Transfers, TransferOK(u),
         work'[u] = work[u], emitted'[u] = emitted[u], shown'[u] = shown[u],
         server'.online => server.online
  PROVE  TransferOK(u)'
BY DEF TransferOK, Told, StatusOf

(* How a transfer ends: its outcome is the one thing that is told of it.    *)
LEMMA ReturnsKeepsInv ==
  ASSUME TransfersInv, NEW t \in Transfers,
         NEW err \in {"none", "canceled", "failed"}, NEW left \in BOOLEAN, NEW placed \in BOOLEAN,
         work[t].phase # "ended",
         Returns(t, err, left, placed),
         err = "none" => placed /\ ~left,
         err = "canceled" => ~placed,
         err # "none" /\ server'.online => ~placed,
         server' \in Server, server'.online => server.online,
         stored' \in [Place -> Content]
  PROVE  TransfersInv'
<1> DEFINE w == [work[t] EXCEPT !.phase = "ended", !.err = err, !.part = left, !.placed = placed]
<1>1. /\ work' = [work EXCEPT ![t] = w]
      /\ w \in Work
      /\ w.phase = "ended" /\ w.err = err /\ w.part = left /\ w.placed = placed
  BY DEF Returns, TransfersInv, TransfersTypeOK, Work
<1>2. emitted' = [emitted EXCEPT ![t] = @ \cup {StatusOf(t, err)}] /\ StatusOf(t, err) \in Outcomes
  BY DEF Returns, Emits, StatusOf, Outcomes
<1>3. TransfersTypeOK'
  BY <1>1, <1>2 DEF TransfersInv, TransfersTypeOK, Returns, Statuses
<1>4. TransferOK(t)'
  <2>1. work'[t] = w /\ emitted'[t] = emitted[t] \cup {StatusOf(t, err)} /\ shown' = shown
    BY <1>1, <1>2 DEF Returns, TransfersInv, TransfersTypeOK
  <2>2. Told(t) = {}
    BY DEF TransfersInv, TransferOK
  <2>3. Told(t)' = {StatusOf(t, err)}
    BY <1>2, <2>1, <2>2 DEF Told
  <2>4. StatusOf(t, work[t].err)' = StatusOf(t, err)
    BY <1>1, <2>1 DEF StatusOf
  <2> QED
    BY <1>1, <2>1, <2>3, <2>4 DEF TransferOK
<1>5. ASSUME NEW u \in Transfers, u # t PROVE TransferOK(u)'
  <2>1. work'[u] = work[u] /\ emitted'[u] = emitted[u] /\ shown'[u] = shown[u]
    BY <1>1, <1>2, <1>5 DEF TransfersInv, TransfersTypeOK, Returns
  <2> QED
    BY <2>1, OthersStay DEF TransfersInv
<1> QED
  BY <1>3, <1>4, <1>5 DEF TransfersInv

(* A transfer that fails keeps the invariant.                               *)
LEMMA FailsKeepsInv ==
  ASSUME TransfersInv, NEW t \in Transfers, NEW err \in {"canceled", "failed"},
         work[t].phase # "ended", Fails(t, err)
  PROVE  TransfersInv'
<1>1. server \in Server /\ stored \in [Place -> Content]
  BY DEF TransfersInv, TransfersTypeOK
<1>2. PICK left \in BOOLEAN : Returns(t, err, left, FALSE)
  BY DEF Fails
<1>3. UNCHANGED <<stored, server>>
  BY DEF Fails
<1> QED
  BY <1>1, <1>2, <1>3, ReturnsKeepsInv

(* A step in which a transfer goes on running tells no outcome of it.       *)
LEMMA RunningKeepsInv ==
  ASSUME TransfersInv, NEW t \in Transfers, NEW w \in Work,
         work' = [work EXCEPT ![t] = w],
         UNCHANGED <<plan, stored, server, shown>>,
         emitted' = emitted \/ Emits(t, "active"),
         work[t].phase # "ended", w.phase # "ended", ~w.placed,
         w.phase \in {"copied", "renaming"} => w.copied = w.opened
  PROVE  TransfersInv'
<1>1. TransfersTypeOK'
  BY DEF TransfersInv, TransfersTypeOK, Emits, Statuses
<1>2. TransferOK(t)'
  <2>1. work'[t] = w
    BY DEF TransfersInv, TransfersTypeOK
  <2>2. Told(t)' = {}
    <3>1. Told(t) = {}
      BY DEF TransfersInv, TransferOK
    <3>2. emitted'[t] \subseteq emitted[t] \cup {"active"}
      BY DEF TransfersInv, TransfersTypeOK, Emits
    <3> QED
      BY <3>1, <3>2 DEF Told, Outcomes
  <2> QED
    BY <2>1, <2>2 DEF TransferOK
<1>3. ASSUME NEW u \in Transfers, u # t PROVE TransferOK(u)'
  <2>1. work'[u] = work[u] /\ emitted'[u] = emitted[u]
    BY <1>3 DEF TransfersInv, TransfersTypeOK, Emits
  <2> QED
    BY <2>1, OthersStay DEF TransfersInv
<1> QED
  BY <1>1, <1>2, <1>3 DEF TransfersInv

(* The content that a transfer puts in place.                               *)
LEMMA ReplacesWhole ==
  ASSUME TransfersInv, NEW t \in Transfers, Replaces(t)
  PROVE  /\ stored' = [stored EXCEPT ![plan[t].to] = [by |-> t, chunks |-> work[t].opened]]
         /\ stored' \in [Place -> Content]
         /\ work[t].phase # "ended"
<1>1. work[t].copied = work[t].opened /\ work[t].opened \in Nat
  BY TransfersAssumption DEF TransfersInv, TransfersTypeOK, TransferOK, Replaces, In, Work, Size
<1> QED
  BY <1>1 DEF Replaces, In, TransfersInv, TransfersTypeOK, Content

(* The invariant of the transfers holds in every state.                     *)
LEMMA TransfersInvariant == TransfersSpec => []TransfersInv
<1>1. TransfersInit => TransfersInv
  <2> SUFFICES ASSUME TransfersInit PROVE TransfersInv
    OBVIOUS
  <2>1. PICK size \in [Transfers -> Size] :
          work = [t \in Transfers |->
                    [phase |-> "waiting", source |-> size[t], opened |-> 0, copied |-> 0,
                     canceled |-> FALSE, part |-> FALSE, placed |-> FALSE, err |-> "none"]]
    BY DEF TransfersInit
  <2>2. 0 \in Size
    BY TransfersAssumption DEF Size
  <2>3. work \in [Transfers -> Work]
    BY <2>1, <2>2 DEF Work, Running
  <2>4. stored \in [Place -> Content]
    BY DEF TransfersInit, Content, NoFile, OlderFile
  <2>5. TransfersTypeOK
    BY <2>3, <2>4 DEF TransfersInit, TransfersTypeOK, Server, TransferRow, Statuses
  <2>6. ASSUME NEW t \in Transfers PROVE TransferOK(t)
    BY <2>1 DEF TransfersInit, TransferOK, Told, Outcomes
  <2> QED
    BY <2>5, <2>6 DEF TransfersInv
<1>2. TransfersInv /\ [TransfersNext]_transferVars => TransfersInv'
  <2> SUFFICES ASSUME TransfersInv, [TransfersNext]_transferVars
               PROVE  TransfersInv'
    OBVIOUS
  <2>1. CASE ConnectionLost
    <3>1. TransfersTypeOK'
      BY <2>1 DEF ConnectionLost, TransfersInv, TransfersTypeOK, Server
    <3>2. server.online /\ UNCHANGED <<work, emitted, shown>>
      BY <2>1 DEF ConnectionLost
    <3> QED
      BY <3>1, <3>2, OthersStay DEF TransfersInv
  <2>2. ASSUME NEW t \in Transfers, OpenFails(t) \/ CopyStops(t) \/ CopyFails(t) \/ RenameFails(t)
        PROVE  TransfersInv'
    <3>1. PICK err \in {"canceled", "failed"} : Fails(t, err)
      BY <2>2 DEF OpenFails, CopyStops, CopyFails, RenameFails
    <3>2. work[t].phase # "ended"
      BY <2>2 DEF OpenFails, CopyStops, CopyFails, RenameFails, In
    <3> QED
      BY <3>1, <3>2, FailsKeepsInv
  <2>3. ASSUME NEW t \in Transfers, OpenLost(t) PROVE TransfersInv'
    <3>1. server' \in Server /\ ~server'.online
      BY <2>3 DEF OpenLost, TransfersInv, TransfersTypeOK, Server
    <3>2. work[t].phase # "ended" /\ Returns(t, "failed", TRUE, FALSE) /\ stored' \in [Place -> Content]
      BY <2>3 DEF OpenLost, In, TransfersInv, TransfersTypeOK
    <3> QED
      BY <3>1, <3>2, ReturnsKeepsInv
  <2>4. ASSUME NEW t \in Transfers, Rename(t) PROVE TransfersInv'
    <3>1. stored' \in [Place -> Content] /\ work[t].phase # "ended"
      BY <2>4, ReplacesWhole DEF Rename
    <3>2. Returns(t, "none", FALSE, TRUE) /\ server' = server /\ server \in Server
      BY <2>4 DEF Rename, TransfersInv, TransfersTypeOK
    <3> QED
      BY <3>1, <3>2, ReturnsKeepsInv
  <2>5. ASSUME NEW t \in Transfers, RenameLost(t) PROVE TransfersInv'
    <3>1. stored' \in [Place -> Content] /\ work[t].phase # "ended"
      BY <2>5, ReplacesWhole DEF RenameLost
    <3>2. Returns(t, "failed", FALSE, TRUE)
      BY <2>5 DEF RenameLost
    <3>3. server' \in Server /\ ~server'.online
      BY <2>5 DEF RenameLost, TransfersInv, TransfersTypeOK, Server
    <3> QED
      BY <3>1, <3>2, <3>3, ReturnsKeepsInv
  <2>6. ASSUME NEW t \in Transfers PROVE work[t] \in Work /\ (work[t].phase # "ended" => ~work[t].placed)
    BY DEF TransfersInv, TransfersTypeOK, TransferOK
  <2>7. ASSUME NEW t \in Transfers, Begin(t) \/ Open(t) \/ Copy(t) PROVE TransfersInv'
    <3>1. CASE Begin(t)
      <4> DEFINE w == [work[t] EXCEPT !.phase = "begun"]
      <4>1. w \in Work /\ w.phase = "begun" /\ ~w.placed
        BY <2>6, <3>1 DEF Work, Running, Begin, In
      <4>2. work' = [work EXCEPT ![t] = w]
        BY <3>1 DEF Begin
      <4> QED
        BY <3>1, <4>1, <4>2, RunningKeepsInv DEF Begin, In
    <3>2. CASE Open(t)
      <4> DEFINE w == [work[t] EXCEPT !.phase = "copying", !.opened = work[t].source, !.part = TRUE]
      <4>1. w \in Work /\ w.phase = "copying" /\ ~w.placed
        BY <2>6, <3>2 DEF Work, Running, Open, In
      <4>2. work' = [work EXCEPT ![t] = w]
        BY <3>2 DEF Open
      <4> QED
        BY <3>2, <4>1, <4>2, RunningKeepsInv DEF Open, In
    <3>3. CASE Copy(t)
      <4> DEFINE w == [work[t] EXCEPT !.copied = work[t].copied + 1]
      <4>1. work[t].copied + 1 \in Size
        BY <2>6, <3>3, TransfersAssumption DEF Work, Size, Copy
      <4>2. w \in Work /\ w.phase = "copying" /\ ~w.placed
        BY <2>6, <3>3, <4>1 DEF Work, Running, Copy, In
      <4>3. work' = [work EXCEPT ![t] = w]
        BY <3>3 DEF Copy
      <4> QED
        BY <3>3, <4>2, <4>3, RunningKeepsInv DEF Copy, In
    <3> QED
      BY <2>7, <3>1, <3>2, <3>3
  <2>8. ASSUME NEW t \in Transfers, CopyEnds(t) PROVE TransfersInv'
    <3>1. In(t, "copying")
      BY <2>8 DEF CopyEnds, AtEnd
    <3>2. CASE Fails(t, "failed")
      BY <3>1, <3>2, FailsKeepsInv DEF In
    <3>3. CASE work[t].copied = work[t].opened /\ Copied(t)
      <4> DEFINE w == [work[t] EXCEPT !.phase = "copied"]
      <4>1. w \in Work /\ w.phase = "copied" /\ ~w.placed /\ w.copied = w.opened
        BY <2>6, <3>1, <3>3 DEF Work, Running, In
      <4>2. work' = [work EXCEPT ![t] = w] /\ UNCHANGED <<plan, stored, server, emitted, shown>>
        BY <3>3 DEF Copied
      <4> QED
        BY <3>1, <4>1, <4>2, RunningKeepsInv DEF In
    <3> QED
      BY <2>8, <3>2, <3>3 DEF CopyEnds
  <2>9. ASSUME NEW t \in Transfers, CheckBeforeRename(t) PROVE TransfersInv'
    <3>1. In(t, "copied")
      BY <2>9 DEF CheckBeforeRename
    <3>2. CASE Fails(t, "canceled")
      BY <3>1, <3>2, FailsKeepsInv DEF In
    <3>3. CASE /\ work' = [work EXCEPT ![t].phase = "renaming"]
               /\ UNCHANGED <<plan, stored, server, emitted, shown>>
      <4> DEFINE w == [work[t] EXCEPT !.phase = "renaming"]
      <4>1. work[t].copied = work[t].opened
        BY <3>1 DEF In, TransfersInv, TransferOK
      <4>2. w \in Work /\ w.phase = "renaming" /\ ~w.placed /\ w.copied = w.opened
        BY <2>6, <3>1, <4>1 DEF Work, Running, In
      <4>3. work' = [work EXCEPT ![t] = w]
        BY <3>3
      <4> QED
        BY <3>1, <3>3, <4>2, <4>3, RunningKeepsInv DEF In
    <3> QED
      BY <2>9, <3>2, <3>3 DEF CheckBeforeRename
  <2>10. ASSUME NEW t \in Transfers, SourceChanges(t) PROVE TransfersInv'
    <3>1. PICK size \in Size : work' = [work EXCEPT ![t].source = size]
      BY <2>10 DEF SourceChanges
    <3> DEFINE w == [work[t] EXCEPT !.source = size]
    <3>2. w \in Work /\ w.phase = "copying" /\ ~w.placed
      BY <2>6, <2>10, <3>1 DEF SourceChanges, In, Work, Running
    <3>3. work' = [work EXCEPT ![t] = w]
      BY <3>1
    <3> QED
      BY <2>10, <3>2, <3>3, RunningKeepsInv DEF SourceChanges, In
  <2>11. ASSUME NEW t \in Transfers, CancelTransfer(t) PROVE TransfersInv'
    <3> DEFINE c == work[t].canceled \/ work[t].phase \in Running
               w == [work[t] EXCEPT !.canceled = c]
    <3>1. c \in BOOLEAN
      BY <2>6 DEF Work
    <3>2. /\ w \in Work
          /\ w.phase = work[t].phase /\ w.placed = work[t].placed /\ w.err = work[t].err
          /\ w.copied = work[t].copied /\ w.opened = work[t].opened /\ w.part = work[t].part
      BY <2>6, <3>1 DEF Work
    <3>3. work' = [work EXCEPT ![t] = w] /\ UNCHANGED <<plan, stored, server, emitted>>
      BY <2>11 DEF CancelTransfer
    <3> HIDE DEF w
    <3>4. shown' \in [Transfers -> TransferRow] /\ \A u \in Transfers : shown'[u].status = shown[u].status
      BY <2>11 DEF CancelTransfer, TransfersInv, TransfersTypeOK, TransferRow
    <3>5. TransfersTypeOK'
      BY <3>2, <3>3, <3>4 DEF TransfersInv, TransfersTypeOK
    <3>6. ASSUME NEW u \in Transfers PROVE TransferOK(u)'
      <4>1. CASE u = t
        <5>1. work'[u] = w
          BY <3>3, <4>1 DEF TransfersInv, TransfersTypeOK
        <5> QED
          BY <3>2, <3>3, <3>4, <4>1, <5>1 DEF TransfersInv, TransferOK, Told, StatusOf
      <4>2. CASE u # t
        <5>1. work'[u] = work[u]
          BY <3>3, <4>2 DEF TransfersInv, TransfersTypeOK
        <5> QED
          BY <3>3, <3>4, <5>1 DEF TransfersInv, TransferOK, Told, StatusOf
      <4> QED
        BY <4>1, <4>2
    <3> QED
      BY <3>5, <3>6 DEF TransfersInv
  <2>12. ASSUME NEW t \in Transfers, StatusArrives(t) PROVE TransfersInv'
    <3>1. PICK status \in emitted[t] :
            /\ shown' = [shown EXCEPT ![t].status = status]
            /\ emitted' = [emitted EXCEPT ![t] = @ \ {status}]
            /\ UNCHANGED <<plan, work, stored, server>>
      BY <2>12 DEF StatusArrives
    <3>2. status \in Statuses
      BY <3>1 DEF TransfersInv, TransfersTypeOK
    <3>3. TransfersTypeOK'
      BY <3>1, <3>2 DEF TransfersInv, TransfersTypeOK, TransferRow
    <3>4. ASSUME NEW u \in Transfers PROVE TransferOK(u)'
      <4>1. Told(u)' \subseteq Told(u)
        <5>1. shown[u] \in TransferRow /\ shown[t] \in TransferRow
          BY DEF TransfersInv, TransfersTypeOK
        <5>2. CASE u = t
          <6>1. shown'[u].status = status /\ emitted'[u] = emitted[u] \ {status}
            BY <3>1, <5>1, <5>2 DEF TransfersInv, TransfersTypeOK, TransferRow
          <6> QED
            BY <3>1, <5>2, <6>1 DEF Told
        <5>3. CASE u # t
          BY <3>1, <5>3 DEF TransfersInv, TransfersTypeOK, Told
        <5> QED
          BY <5>2, <5>3
      <4> QED
        BY <3>1, <4>1 DEF TransfersInv, TransferOK, StatusOf
    <3> QED
      BY <3>3, <3>4 DEF TransfersInv
  <2>13. CASE UNCHANGED transferVars
    BY <2>13, OthersStay DEF transferVars, TransfersInv, TransfersTypeOK
  <2> QED
    BY <2>1, <2>2, <2>3, <2>4, <2>5, <2>7, <2>8, <2>9, <2>10, <2>11, <2>12, <2>13
    DEF TransfersNext
<1> QED
  BY <1>1, <1>2, PTL DEF TransfersSpec

(* Whatever becomes of transfers, of their sources and of the connection,   *)
(* a destination keeps what it holds until it holds all of a source, for    *)
(* any number of transfers, names and chunks (upload.go, download.go).      *)
THEOREM DestinationsAreWhole == TransfersSpec => DestinationsStayWhole
<1>1. TransfersInv /\ [TransfersNext]_transferVars =>
        [\A p \in Place :
           stored'[p] # stored[p] =>
             \E t \in Transfers : stored'[p] = [by |-> t, chunks |-> work[t].opened]]_transferVars
  <2> SUFFICES ASSUME TransfersInv, TransfersNext, NEW p \in Place, stored'[p] # stored[p]
               PROVE  \E t \in Transfers : stored'[p] = [by |-> t, chunks |-> work[t].opened]
    OBVIOUS
  <2>1. PICK t \in Transfers : Replaces(t)
    <3>1. ASSUME NEW t \in Transfers,
                 \/ Begin(t) \/ Open(t) \/ OpenFails(t) \/ OpenLost(t)
                 \/ Copy(t) \/ CopyStops(t) \/ CopyFails(t) \/ CopyEnds(t)
                 \/ CheckBeforeRename(t) \/ RenameFails(t)
                 \/ CancelTransfer(t) \/ SourceChanges(t)
          PROVE  stored' = stored
      BY <3>1 DEF Begin, Open, OpenFails, OpenLost, Copy, CopyStops, CopyFails, CopyEnds, Copied,
                  CheckBeforeRename, RenameFails, CancelTransfer, SourceChanges, Fails
    <3>2. ASSUME NEW t \in Transfers, StatusArrives(t) PROVE stored' = stored
      BY <3>2 DEF StatusArrives
    <3>3. ConnectionLost => stored' = stored
      BY DEF ConnectionLost
    <3>4. ASSUME NEW t \in Transfers, Rename(t) PROVE Replaces(t)
      BY <3>4 DEF Rename
    <3>5. ASSUME NEW t \in Transfers, RenameLost(t) PROVE Replaces(t)
      BY <3>5 DEF RenameLost
    <3> QED
      BY <3>1, <3>2, <3>3, <3>4, <3>5 DEF TransfersNext
  <2>2. stored' = [stored EXCEPT ![plan[t].to] = [by |-> t, chunks |-> work[t].opened]]
    BY <2>1, ReplacesWhole
  <2> QED
    BY <2>2 DEF TransfersInv, TransfersTypeOK
<1> QED
  BY <1>1, TransfersInvariant, PTL DEF TransfersSpec, DestinationsStayWhole

(* What the row of a transfer says of it holds on the host, in whatever     *)
(* order its events arrive and whenever it is cancelled.                    *)
THEOREM RowsAreTrue == TransfersSpec => []RowsTellTheTruth
<1>1. TransfersInv => RowsTellTheTruth
  <2> SUFFICES ASSUME TransfersInv, NEW t \in Transfers, shown[t].status \in Outcomes
               PROVE  /\ shown[t].status = "done" => work[t].placed /\ ~work[t].part
                      /\ shown[t].status = "cancelled" => ~work[t].placed
                      /\ shown[t].status = "error" /\ server.online => ~work[t].placed
    BY DEF RowsTellTheTruth, Outcomes
  <2>1. shown[t].status \in Told(t)
    BY DEF Told
  <2>2. work[t].phase = "ended" /\ shown[t].status = StatusOf(t, work[t].err)
    BY <2>1 DEF TransfersInv, TransferOK
  <2>3. work[t].err \in {"none", "canceled", "failed"}
    BY DEF TransfersInv, TransfersTypeOK, Work
  <2> QED
    BY <2>2, <2>3 DEF TransfersInv, TransferOK, StatusOf
<1> QED
  BY <1>1, TransfersInvariant, PTL

-----------------------------------------------------------------------------
(* The parts together *)

(* A behaviour of the whole is one of each part: the part that is explored  *)
(* takes its own steps and the others stay as they start.                   *)
THEOREM WorkspacePartsBehave ==
  WorkspaceSpec => /\ MachinesSpec /\ SortingSpec /\ LogSpec /\ FormSpec
                   /\ SettingsSpec /\ PanelTunnelsSpec /\ TransfersSpec
<1>1. WorkspaceInit => /\ MachinesInit /\ SortingInit /\ LogInit /\ FormInit
                       /\ SettingsInit /\ PanelTunnelsInit /\ TransfersInit
  BY DEF WorkspaceInit
<1>2. [WorkspaceNext]_workspaceVars =>
        /\ [MachinesNext]_machineVars /\ [SortingNext]_sorting /\ [LogNext]_logVars
        /\ [FormNext]_formVars /\ [SettingsNext]_settings
        /\ [PanelTunnelsNext]_tunnelVars /\ [TransfersNext]_transferVars
  BY DEF WorkspaceNext, Only, workspaceVars
<1> QED
  BY <1>1, <1>2, PTL
  DEF WorkspaceSpec, MachinesSpec, SortingSpec, LogSpec, FormSpec,
      SettingsSpec, PanelTunnelsSpec, TransfersSpec

(* Every state of the whole is well typed, for any machines, ages, lines,   *)
(* tunnels and transfers and any bounds.                                    *)
THEOREM WorkspaceTypeCorrect == WorkspaceSpec => []WorkspaceTypeOK
<1>1. /\ LogInv => LogTypeOK
      /\ FormInv => FormTypeOK
      /\ SettingsInv => SettingsTypeOK
      /\ TransfersInv => TransfersTypeOK
  BY DEF LogInv, FormInv, SettingsInv, TransfersInv
<1>2. /\ MachinesTypeOK /\ SortingTypeOK /\ LogTypeOK /\ FormTypeOK
      /\ SettingsTypeOK /\ PanelTunnelsTypeOK /\ TransfersTypeOK
      => WorkspaceTypeOK
  BY DEF WorkspaceTypeOK
<1> QED
  BY <1>1, <1>2, WorkspacePartsBehave, MachinesTypeCorrect, SortingTypeCorrect,
     LogInvariant, FormInvariant, SettingsInvariant, PanelTypeCorrect,
     TransfersInvariant, PTL

(* What the run of the workspace checks on small sets holds of any: marks   *)
(* of machines, the order of lists, the log's lines, the form's ticks,      *)
(* ports of drafts, rows of transfers and the files they replace.           *)
THEOREM WorkspaceSafe ==
  WorkspaceSpec => /\ []LockedRowsHaveActions
                   /\ []ListingsDoNotReshuffle /\ []AgesOrderContainers
                   /\ []WindowsSkipOldLinesOnly
                   /\ []TestedMarksAreCurrent
                   /\ []DraftPortsAreDistinct
                   /\ []RowsTellTheTruth /\ DestinationsStayWhole
BY WorkspacePartsBehave, LockedRowsAreFreed, RowsStayInOrder, AgesAreInOrder,
   LogsAreContinued, MarksAreCurrent, DraftsAreDistinct, RowsAreTrue,
   DestinationsAreWhole, PTL

(* And as long as no two calls about one tunnel overlap, so do the tunnels: *)
(* what listens is what the rows of the panel say.                          *)
THEOREM WorkspaceTunnelsFollow ==
  ASSUME ~Overlap PROVE WorkspaceSpec => []ForwardsFollowTheirRow
BY WorkspacePartsBehave, ListenersFollowTheirRow, PTL
=============================================================================
