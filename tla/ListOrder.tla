----------------------------- MODULE ListOrder -----------------------------
(***************************************************************************)
(* The order of the lists on screen: the remote files                      *)
(* (ssh-gui/frontend/src/components/files/RemoteFileTree.jsx) and the      *)
(* containers, ports, virtual machines and databases of the panel          *)
(* (BottomPanel.jsx).  A list comes again every few seconds, in the order  *)
(* its host likes, and the headers and the search say what is shown of it. *)
(* Texts that are compared as texts are numbers in their order; a text     *)
(* that is parsed, Docker's status, is modelled by its words.              *)
(***************************************************************************)
EXTENDS Integers, Sequences, FiniteSets

CONSTANT Ages   \* ages of containers in seconds

ASSUME AgesAssumption == Ages \subseteq Nat

VARIABLE sorting   \* a list, its header and its search, a SortingOf(list)

NoAge == -1        \* a container that was created and never started
Ids == 1..2
Names == 1..2      \* names that compareText tells apart: not by case, and
                   \* for databases not those of two servers of one type
Binary == 0..1

RowLists == {"files", "containers", "ports", "machines", "databases"}

SortKeys ==
  [files |-> {"name", "size", "modTime", "type"},
   containers |-> {"name", "state", "ports"},
   ports |-> {"proto", "port", "process"},
   machines |-> {"name", "state"},
   databases |-> {"name", "port"}]

FirstKey ==
  [files |-> "name", containers |-> "state", ports |-> "port",
   machines |-> "state", databases |-> "name"]

(* A container's state is its place in DOCKER_STATE_SORT_ORDER, and detail  *)
(* what its status says beside an age: an exit code, its health.  id is     *)
(* what no order looks at: an id, an address, a database's container.       *)
ListRow ==
  [files |-> [id: Ids, name: Names, isDirectory: BOOLEAN, size: Binary, modTime: Binary,
              ext: Binary],
   containers |-> [id: Ids, name: Names, state: Binary, age: Ages \cup {NoAge},
                   detail: Binary, ports: Binary],
   ports |-> [id: Ids, name: Names, proto: Binary, port: Binary],
   machines |-> [id: Ids, name: Names, state: Binary],
   databases |-> [id: Ids, name: Names, port: Binary]]

(* The list l; query is the row that a search finds, and 0 is no search.    *)
SortingOf(l) ==
  [list: {l}, key: SortKeys[l], direction: {"asc", "desc"}, query: Ids \cup {0},
   rows: {<<>>} \cup (ListRow[l] \X ListRow[l])]

SortingInit ==
  \E l \in RowLists :
    sorting = [list |-> l, key |-> FirstKey[l], direction |-> "asc",
               query |-> 0, rows |-> <<>>]

-----------------------------------------------------------------------------
(* The age of a container, as Docker words it (HumanDuration of its units   *)
(* package) and as the panel reads it.                                      *)

Amount(n, unit) == [article |-> FALSE, n |-> n, unit |-> unit]
About(unit) == [article |-> TRUE, n |-> 1, unit |-> unit]

(* In the half hour before two years Docker says "1 years" after "24        *)
(* months".                                                                 *)
OddHalfHour == 63070200..63071999

HumanDuration(s) ==
  LET minutes == s \div 60
      hours == (s + 1800) \div 3600
  IN  IF s < 60 THEN Amount(s, "second")
      ELSE IF minutes = 1 THEN About("minute")
      ELSE IF minutes < 60 THEN Amount(minutes, "minute")
      ELSE IF hours = 1 THEN About("hour")
      ELSE IF hours < 48 THEN Amount(hours, "hour")
      ELSE IF hours < 24 * 14 THEN Amount(hours \div 24, "day")
      ELSE IF hours < 24 * 60 THEN Amount(hours \div (24 * 7), "week")
      ELSE IF hours < 24 * 730 THEN Amount(hours \div (24 * 30), "month")
      ELSE Amount(s \div (3600 * 24 * 365), "year")

Hour == 60 * 60
DOCKER_STATUS_TIME_UNITS ==
  [second |-> 1, minute |-> 60, hour |-> Hour, day |-> 24 * Hour,
   week |-> 7 * 24 * Hour, month |-> 30 * 24 * Hour, year |-> 365 * 24 * Hour]

(* Mutant of parseDockerStatusTime: units without a number are not read.    *)
parseDockerStatusTime_NumbersOnly(text) ==
  IF text.article THEN 0 ELSE text.n * DOCKER_STATUS_TIME_UNITS[text.unit]

(* "Less than a second" is 0 seconds here.                                  *)
parseDockerStatusTime(text) ==
  (IF text.article THEN 1 ELSE text.n) * DOCKER_STATUS_TIME_UNITS[text.unit]

-----------------------------------------------------------------------------
(* Comparing: less than, equal to or more than 0, as sort() wants it *)

(* c || d                                                                   *)
Otherwise(c, d) == IF c # 0 THEN c ELSE d

compareDockerStatus(a, b) ==
  IF a.age # NoAge /\ b.age # NoAge
  THEN Otherwise(parseDockerStatusTime(HumanDuration(a.age))
                   - parseDockerStatusTime(HumanDuration(b.age)),
                 a.detail - b.detail)
  ELSE IF a.age # NoAge THEN -1 ELSE IF b.age # NoAge THEN 1 ELSE a.detail - b.detail

compareContainers(a, b, key) ==
  IF key = "state"
  THEN Otherwise(a.state - b.state,
                 Otherwise(compareDockerStatus(a, b), a.name - b.name))
  ELSE IF key = "ports"
  THEN Otherwise(a.ports - b.ports, a.name - b.name)
  ELSE Otherwise(a.name - b.name, a.state - b.state)

(* name is the process.                                                     *)
comparePorts(a, b, key) ==
  IF key = "port" THEN a.port - b.port
  ELSE IF key = "proto" THEN a.proto - b.proto ELSE a.name - b.name

(* Mutant of compareMachines: machines in one state are left as they come.  *)
compareMachines_StateOnly(a, b, key) ==
  IF key = "state" THEN a.state - b.state
  ELSE Otherwise(a.name - b.name, a.state - b.state)

compareMachines(a, b, key) ==
  IF key = "state"
  THEN Otherwise(a.state - b.state, a.name - b.name)
  ELSE Otherwise(a.name - b.name, a.state - b.state)

compareDatabases(a, b, key) ==
  IF key = "port"
  THEN Otherwise(a.port - b.port, a.name - b.name)
  ELSE Otherwise(a.name - b.name, a.port - b.port)

(* Folders come before files whatever the direction, but for "modTime".     *)
compareFiles(a, b, key, sign) ==
  IF key = "modTime" THEN sign * (a.modTime - b.modTime)
  ELSE IF a.isDirectory # b.isDirectory
  THEN IF a.isDirectory THEN -1 ELSE 1
  ELSE sign * (IF key = "name" THEN a.name - b.name
               ELSE IF key = "size" THEN a.size - b.size
               ELSE Otherwise(a.ext - b.ext, a.name - b.name))

Compare(v, a, b) ==
  LET sign == IF v.direction = "asc" THEN 1 ELSE -1
  IN  IF v.list = "files" THEN compareFiles(a, b, v.key, sign)
      ELSE sign *
        (IF v.list = "containers" THEN compareContainers(a, b, v.key)
         ELSE IF v.list = "ports" THEN comparePorts(a, b, v.key)
         ELSE IF v.list = "machines" THEN compareMachines(a, b, v.key)
         ELSE compareDatabases(a, b, v.key))

(* The panel is searched and the files are not.                             *)
matchesSearch(v, row) == v.list = "files" \/ v.query \in {0, row.id}

(* What the list shows: sort() keeps rows that compare as equal in order.   *)
ShownRows(v) ==
  LET found == {i \in DOMAIN v.rows : matchesSearch(v, v.rows[i])}
      Before(i, j) == LET c == Compare(v, v.rows[i], v.rows[j])
                      IN  c < 0 \/ (c = 0 /\ i < j)
      order == CHOOSE s \in [1..Cardinality(found) -> found] :
                 \A m, n \in DOMAIN s : m < n => Before(s[m], s[n])
  IN  [n \in DOMAIN order |-> v.rows[order[n]]]

-----------------------------------------------------------------------------

(* The same rows as the host may list them another time.                    *)
Relisted(rows) == [n \in DOMAIN rows |-> rows[Len(rows) + 1 - n]]

(* The list comes; rows that an interval's call changes are those of        *)
(* another first call here, and it may bring the same in another order.     *)
RowsCome ==
  \/ /\ sorting.rows = <<>>
     /\ \E a, b \in ListRow[sorting.list] :
          a.id < b.id /\ sorting' = [sorting EXCEPT !.rows = <<a, b>>]
  \/ sorting' = [sorting EXCEPT !.rows = Relisted(@)]

Headed(key) ==
  /\ key \in SortKeys[sorting.list]
  /\ sorting' = [sorting EXCEPT
       !.key = key,
       !.direction = IF sorting.key = key /\ @ = "asc" THEN "desc" ELSE "asc"]

(* handlePortSort, handleDockerSort, handleVboxSort and handleDatabaseSort. *)
HandleSort(key) == sorting.list # "files" /\ Headed(key)

(* toggleSort of the files.                                                 *)
ToggleSort(key) == sorting.list = "files" /\ Headed(key)

Search(query) ==
  /\ sorting.list # "files"
  /\ sorting' = [sorting EXCEPT !.query = query]

SortingNext ==
  \/ RowsCome
  \/ \E key \in UNION {SortKeys[l] : l \in RowLists} : HandleSort(key) \/ ToggleSort(key)
  \/ \E query \in Ids \cup {0} : Search(query)

SortingSpec == SortingInit /\ [][SortingNext]_sorting

-----------------------------------------------------------------------------

SortingTypeOK == \E l \in RowLists : sorting \in SortingOf(l)

(* Of two containers in one state whose status reads differently, the list  *)
(* shows the one that entered it later first, though Docker words ages in   *)
(* seven units with two roundings and the panel reads those words; but for  *)
(* the half hour in which those words go backwards.                         *)
AgesOrderContainers ==
  LET shownRows == ShownRows(sorting)
      words(row) == HumanDuration(row.age)
  IN  sorting.list = "containers" /\ sorting.key = "state" /\ Len(shownRows) = 2
      /\ shownRows[1].state = shownRows[2].state
      /\ {shownRows[1].age, shownRows[2].age} \cap ({NoAge} \cup OddHalfHour) = {}
      /\ words(shownRows[1]) # words(shownRows[2])
        => (shownRows[1].age < shownRows[2].age <=> sorting.direction = "asc")

(* The calls of the intervals, which bring the rows in any order, move no   *)
(* container, machine or database away from under the pointer that its name *)
(* or what stands under the header tells from the other.  (Two servers of   *)
(* one type and port may change places, and ports of one number.)           *)
ListingsDoNotReshuffle ==
  LET shownRows == ShownRows(sorting)
      again == ShownRows([sorting EXCEPT !.rows = Relisted(@)])
  IN  sorting.list \in {"containers", "machines", "databases"} /\ again # shownRows =>
        /\ shownRows[1].name = shownRows[2].name
        /\ shownRows[1][sorting.key] = shownRows[2][sorting.key]
=============================================================================
