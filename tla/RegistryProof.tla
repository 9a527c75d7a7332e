---------------------------- MODULE RegistryProof ----------------------------
(****************************************************************************)
(* Proofs about Registry: the server table under three processes that share *)
(* it without a lock, for any number of slots, servers and connections.     *)
(****************************************************************************)
EXTENDS Registry, FiniteSetTheorems, WellFoundedInduction, TLAPS

Server == [status : Statuses, c : Int, name : {NoServer} \cup Names]
LinkStates == {Idle} \cup [at : {"chosen"}, cell : Cells]
                \cup [at : {"linked"}, cell : Cells, name : {NoServer} \cup Names]

\* No more members are ever created than there are slots for them.
Room == MaxCreates - Configured["clones"] <= MAXSERVERS

\* The removal of a slot goes on without interruption once it is cleared.
Undivided == "shrink" \notin Interleaved

\* The array has not shrunk since the monitor found its slot the last one: the
\* monitor is the only one to remove servers.
LastCounted == monitor.at = "last" => monitor.i < n[monitor.kind]

Typed == TypeOK /\ LastCounted

\* Between the clearing of a slot and the end of its removal.
Removing == {"cleared", "last", "inner"}

Counting(k) == IF admin.at = "counting" /\ admin.kind = k THEN 1 ELSE 0

\* The arrays do not overflow, a server being created included.
WithinArrays ==
  /\ n["members"] + Counting("members") + Configured["clones"] <= created
  /\ n["clones"] + Counting("clones") <= MAXSERVERS

\* What the monitor found when it tested a slot still holds.
ScanHolds ==
  /\ monitor.at \in {"wipe", "probe"} \cup Removing => monitor.i < n[monitor.kind]
  /\ monitor.at = "wipe" => servers[Here].status = "DELETED"
  /\ monitor.at \in Removing => servers[Here] = Cleared
  /\ monitor.at = "last" => monitor.i = n[monitor.kind] - 1

Placed == WithinArrays /\ ScanHolds

\* What the master has chosen can still be used and what it is connected to is
\* in the table.
LinksPlaced ==
  \A l \in Links : links[l].at \in {"chosen", "linked"} =>
    /\ links[l].cell[2] < n[links[l].cell[1]]
    /\ links[l].at = "chosen" => servers[links[l].cell].status = "ENABLED"

UnusedWiped == monitor.at = "wipe" => servers[Here].c = 0

Counted == LinksPlaced /\ UnusedWiped /\ CountsLive /\ LinksKeepServer

-----------------------------------------------------------------------------
(* Cells and types.                                                          *)

USE DEF Kinds, Statuses, NoServer, Names, Removing

LEMMA CellsAre ==
  /\ \A k \in Kinds, i \in Nat : Cell(k, i) \in Cells
  /\ \A k \in Kinds, i \in 0..(MAXSERVERS - 1) : Cell(k, i) = <<k, i>>
  /\ \A cell \in Cells : /\ cell[1] \in Kinds /\ cell[2] \in 0..(MAXSERVERS - 1)
                         /\ cell = <<cell[1], cell[2]>>
  BY SizeAssumption DEF Cell, Cells

LEMMA InUseCells ==
  ASSUME TypeOK, NEW k \in Kinds
  PROVE  InUse(k) \subseteq Cells
<1>1. n[k] \in Nat
  BY DEF TypeOK
<1> QED BY <1>1, CellsAre DEF InUse

LEMMA HereCell ==
  ASSUME TypeOK
  PROVE  Here \in Cells /\ monitor.kind \in Kinds /\ monitor.i \in Nat /\ n[monitor.kind] \in Nat
<1>1. monitor.kind \in Kinds /\ monitor.i \in Nat
  BY DEF TypeOK
<1> QED BY <1>1, CellsAre DEF Here, TypeOK

LEMMA ServerType ==
  TypeOK => /\ servers \in [Cells -> Server]
            /\ links \in [Links -> LinkStates]
  BY DEF TypeOK, Server, LinkStates

LEMMA LinkType ==
  ASSUME TypeOK, NEW l \in Links
  PROVE  /\ links[l].at \in {"idle", "chosen", "linked"}
         /\ links[l].at = "idle" <=> links[l] = Idle
         /\ links[l].at # "idle" => links[l].cell \in Cells
         /\ links[l].at = "linked" => links[l].name \in {NoServer} \cup Names
<1>1. links[l] \in LinkStates
  BY ServerType
<1>2. CASE links[l] = Idle
  BY <1>2 DEF Idle
<1>3. CASE links[l] \in [at : {"chosen"}, cell : Cells]
  BY <1>3 DEF Idle
<1>4. CASE links[l] \in [at : {"linked"}, cell : Cells, name : {NoServer} \cup Names]
  BY <1>4 DEF Idle
<1> QED BY <1>1, <1>2, <1>3, <1>4 DEF LinkStates

\* One field of one server is set.
LEMMA SetField ==
  ASSUME TypeOK, NEW cell \in Cells
  PROVE  /\ \A v \in Statuses : [servers EXCEPT ![cell].status = v] \in [Cells -> Server]
         /\ \A v \in Int : [servers EXCEPT ![cell].c = v] \in [Cells -> Server]
         /\ \A v \in Server : [servers EXCEPT ![cell] = v] \in [Cells -> Server]
  BY ServerType DEF Server

LEMMA ClonedType ==
  ASSUME NEW s, NEW mode \in {"OFF", "ON", "FAILED"}, set_cloned_state(s, mode)
  PROVE  clone_mode' \in {"OFF", "ON", "FAILED"}
  BY DEF set_cloned_state

LEMMA SubjectsAre ==
  ASSUME TypeOK
  PROVE  /\ Subjects \subseteq Cells
         /\ \A cell \in Subjects : servers[cell].status \notin {"FREE", "DELETED"}
         /\ \A targets \in OneOrAll : targets \subseteq Subjects
<1>1. \A k \in Kinds : InUse(k) \subseteq Cells
  BY InUseCells
<1> QED BY <1>1 DEF Subjects, OneOrAll

\* The state of some servers that are there is set.
LEMMA SetStatusIs ==
  ASSUME TypeOK, NEW cells \in SUBSET Cells, NEW status \in Statuses, SetStatus(cells, status)
  PROVE  /\ servers' \in [Cells -> Server]
         /\ \A cell \in Cells :
              /\ servers'[cell].c = servers[cell].c
              /\ servers'[cell].name = servers[cell].name
              /\ servers'[cell].status = IF cell \in cells THEN status ELSE servers[cell].status
<1>1. \A cell \in Cells : servers[cell] \in Server
  BY ServerType
<1> QED BY <1>1 DEF SetStatus, Server

-----------------------------------------------------------------------------
(* Type correctness, whatever is interleaved.                                *)

MonitorStates == [at : {"sleep", "delete", "wipe", "check", "probe"} \cup Removing,
                  kind : Kinds, i : Nat]

LEMMA AdvanceType ==
  ASSUME TypeOK, NEW stage \in {"delete", "check"}, Advance(stage)
  PROVE  /\ monitor' \in MonitorStates /\ monitor'.at = stage
         /\ monitor'.kind = monitor.kind /\ monitor'.i = monitor.i + 1
<1>1. monitor \in MonitorStates
  BY DEF TypeOK, MonitorStates
<1>2. monitor' = [at |-> stage, kind |-> monitor.kind, i |-> monitor.i + 1]
  BY <1>1 DEF Advance, MonitorStates
<1> QED BY <1>1, <1>2 DEF MonitorStates

\* The count of one server is set.
LEMMA SetCount ==
  ASSUME TypeOK, NEW cell \in Cells, NEW v \in Int, servers' = [servers EXCEPT ![cell].c = v]
  PROVE  /\ servers' \in [Cells -> Server]
         /\ \A x \in Cells : /\ servers'[x].status = servers[x].status
                             /\ servers'[x].name = servers[x].name
                             /\ servers'[x].c = IF x = cell THEN v ELSE servers[x].c
<1>1. servers \in [Cells -> Server] /\ \A x \in Cells : servers[x] \in Server
  BY ServerType
<1>2. servers' \in [Cells -> Server]
  BY SetField
<1>3. \A x \in Cells : /\ servers'[x].status = servers[x].status
                       /\ servers'[x].name = servers[x].name
                       /\ servers'[x].c = IF x = cell THEN v ELSE servers[x].c
  BY <1>1 DEF Server
<1> QED BY <1>2, <1>3 DEF TypeOK

LEMMA ChooseIs ==
  ASSUME TypeOK, NEW l \in Links, choose_server(l)
  PROVE  \E k \in Kinds : \E cell \in Available(k) :
           /\ cell \in Cells
           /\ links' = [links EXCEPT ![l] = [at |-> "chosen", cell |-> cell]]
           /\ links' \in [Links -> LinkStates]
<1>1. PICK k \in Kinds : \E cell \in Available(k) :
        links' = [links EXCEPT ![l] = [at |-> "chosen", cell |-> cell]]
  BY DEF choose_server
<1>2. PICK cell \in Available(k) :
        links' = [links EXCEPT ![l] = [at |-> "chosen", cell |-> cell]]
  BY <1>1
<1>3. cell \in Cells
  BY <1>2, InUseCells DEF Available
<1>4. links' \in [Links -> LinkStates]
  BY <1>2, <1>3, ServerType DEF LinkStates
<1> QED BY <1>2, <1>3, <1>4

\* connect_server() counts the connection, or gives the choice up.
LEMMA ConnectIs ==
  ASSUME TypeOK, NEW l \in Links, connect_server(l)
  PROVE  LET cell == links[l].cell
         IN  /\ cell \in Cells
             /\ \/ /\ links' = [links EXCEPT ![l] = Idle] /\ UNCHANGED servers
                \/ /\ links' = [links EXCEPT ![l] =
                        [at |-> "linked", cell |-> cell, name |-> servers[cell].name]]
                   /\ servers' = [servers EXCEPT ![cell].c = servers[cell].c + 1]
             /\ links' \in [Links -> LinkStates]
<1> DEFINE cell == links[l].cell
<1>1. cell \in Cells
  BY LinkType DEF connect_server
<1>2. servers[cell].name \in {NoServer} \cup Names
  BY <1>1, ServerType DEF Server
<1>3. \/ /\ links' = [links EXCEPT ![l] = Idle] /\ UNCHANGED servers
      \/ /\ links' = [links EXCEPT ![l] =
              [at |-> "linked", cell |-> cell, name |-> servers[cell].name]]
         /\ servers' = [servers EXCEPT ![cell].c = servers[cell].c + 1]
  BY DEF connect_server
<1>4. links' \in [Links -> LinkStates]
  BY <1>1, <1>2, <1>3, ServerType DEF LinkStates
<1> QED BY <1>1, <1>3, <1>4

LEMMA DisconnectIs ==
  ASSUME TypeOK, NEW l \in Links, disconnect(l)
  PROVE  /\ links[l].cell \in Cells
         /\ links' = [links EXCEPT ![l] = Idle]
         /\ servers' = [servers EXCEPT ![links[l].cell].c = servers[links[l].cell].c - 1]
         /\ links' \in [Links -> LinkStates]
<1>1. links[l].cell \in Cells
  BY LinkType DEF disconnect
<1>2. links' = [links EXCEPT ![l] = Idle]
  BY DEF disconnect
<1>3. links' \in [Links -> LinkStates]
  BY <1>2, ServerType DEF LinkStates
<1> QED BY <1>1, <1>2, <1>3 DEF disconnect

\* The master changes nothing of the servers but their counts.
LEMMA MasterKeeps ==
  ASSUME TypeOK, Master
  PROVE  /\ UNCHANGED <<n, clone_mode, monitor, admin, created>>
         /\ links' \in [Links -> LinkStates] /\ servers' \in [Cells -> Server]
         /\ \A x \in Cells : /\ servers'[x].status = servers[x].status
                             /\ servers'[x].name = servers[x].name
<1>1. PICK l \in Links : choose_server(l) \/ connect_server(l) \/ disconnect(l)
  BY DEF Master
<1>2. servers \in [Cells -> Server]
  BY ServerType DEF TypeOK
<1>3. UNCHANGED <<n, clone_mode, monitor, admin, created>>
  BY <1>1 DEF choose_server, connect_server, disconnect, table
<1>4. links' \in [Links -> LinkStates]
  BY <1>1, ChooseIs, ConnectIs, DisconnectIs
<1> DEFINE Kept == /\ servers' \in [Cells -> Server]
                   /\ \A x \in Cells : /\ servers'[x].status = servers[x].status
                                       /\ servers'[x].name = servers[x].name
<1>5. Kept
  <2>1. CASE UNCHANGED servers
    BY <1>2, <2>1
  <2>2. ASSUME NEW cell \in Cells, NEW v \in Int, servers' = [servers EXCEPT ![cell].c = v]
        PROVE  Kept
    BY <2>2, SetCount
  <2>3. \A cell \in Cells : /\ servers[cell].c + 1 \in Int
                            /\ servers[cell].c - 1 \in Int
    BY <1>2 DEF Server
  <2> HIDE DEF Kept
  <2>4. CASE choose_server(l)
    BY <2>1, <2>4 DEF choose_server, table
  <2>5. CASE connect_server(l)
    BY <2>1, <2>2, <2>3, <2>5, ConnectIs
  <2>6. CASE disconnect(l)
    BY <2>2, <2>3, <2>6, DisconnectIs
  <2> QED BY <1>1, <2>4, <2>5, <2>6
<1> QED BY <1>3, <1>4, <1>5

LEMMA MasterTyped ==
  ASSUME Typed, Master
  PROVE  Typed'
<1>1. TypeOK /\ Here \in Cells
  BY HereCell DEF Typed
<1>2. /\ UNCHANGED <<n, clone_mode, monitor, admin, created>>
      /\ links' \in [Links -> LinkStates] /\ servers' \in [Cells -> Server]
      /\ \A x \in Cells : servers'[x].status = servers[x].status
  BY <1>1, MasterKeeps
<1>3. TypeOK'
  BY <1>1, <1>2 DEF TypeOK, Server, LinkStates
<1>4. LastCounted'
  BY <1>1, <1>2 DEF Typed, LastCounted
<1> QED BY <1>3, <1>4 DEF Typed

LEMMA MonitorTyped ==
  ASSUME Typed, Monitor
  PROVE  Typed'
<1>1. TypeOK /\ servers \in [Cells -> Server] /\ Here \in Cells /\ monitor \in MonitorStates
      /\ monitor.i \in Nat /\ n[monitor.kind] \in Nat
  BY ServerType, HereCell DEF Typed, TypeOK, MonitorStates
<1>2. ASSUME UNCHANGED <<table, links, admin, created>>, monitor' \in MonitorStates,
             monitor'.at = "last" => monitor'.i < n[monitor'.kind]
      PROVE  Typed'
  BY <1>1, <1>2 DEF Typed, TypeOK, LastCounted, MonitorStates, table
<1>3. CASE Wake
  BY <1>2, <1>3 DEF Wake, MonitorStates
<1>4. CASE EndOfScan
  <2>1. monitor' \in MonitorStates /\ monitor'.at # "last"
    <3>1. CASE monitor.kind = "members"
      BY <1>1, <1>4, <3>1 DEF EndOfScan, MonitorStates
    <3>2. CASE monitor.kind = "clones"
      BY <1>1, <1>4, <3>2 DEF EndOfScan, MonitorStates
    <3> QED BY <1>1, <3>1, <3>2 DEF MonitorStates
  <2> QED BY <1>2, <1>4, <2>1 DEF EndOfScan
<1>5. CASE handle_delete_servers
  <2>1. monitor' \in MonitorStates /\ monitor'.at # "last"
    BY <1>1, <1>5, AdvanceType DEF handle_delete_servers, MonitorStates
  <2> QED BY <1>2, <1>5, <2>1 DEF handle_delete_servers
<1>6. CASE Wipe
  <2>1. Cleared \in Server
    BY DEF Cleared, Server
  <2>2. servers' = [servers EXCEPT ![Here] = Cleared]
    BY <1>6 DEF Wipe
  <2>3. servers' \in [Cells -> Server]
    BY <1>1, <2>1, <2>2, SetField
  <2>4. monitor' \in MonitorStates /\ monitor'.at = "cleared"
    BY <1>1, <1>6 DEF Wipe, MonitorStates
  <2> QED BY <1>1, <1>6, <2>3, <2>4
          DEF Wipe, Typed, TypeOK, LastCounted, Server, MonitorStates
<1>10. CASE TestLast
  <2>1. monitor' \in MonitorStates /\ monitor'.kind = monitor.kind /\ monitor'.i = monitor.i
    BY <1>1, <1>10 DEF TestLast, MonitorStates
  <2>2. monitor'.at = "last" => monitor.i = n[monitor.kind] - 1
    BY <1>1, <1>10 DEF TestLast, MonitorStates
  <2>3. monitor'.at = "last" => monitor'.i < n[monitor'.kind]
    BY <1>1, <2>1, <2>2
  <2> QED BY <1>2, <1>10, <2>1, <2>3 DEF TestLast
<1>11. CASE GiveBack
  <2>1. monitor.i < n[monitor.kind] /\ monitor.kind \in Kinds
    BY <1>1, <1>11, HereCell DEF GiveBack, Typed, LastCounted
  <2>2. PICK size \in {n[monitor.kind] - 1, monitor.i} : n' = [n EXCEPT ![monitor.kind] = size]
    BY <1>11 DEF GiveBack
  <2>3. size \in Nat
    BY <1>1, <2>1
  <2>4. n' \in [Kinds -> Nat]
    BY <1>1, <2>1, <2>2, <2>3 DEF TypeOK
  <2>5. monitor' \in MonitorStates /\ monitor'.at = "delete"
    BY <1>1, <1>11, AdvanceType DEF GiveBack
  <2> QED BY <1>1, <1>11, <2>4, <2>5 DEF GiveBack, Typed, TypeOK, LastCounted, MonitorStates
<1>12. CASE MarkFree
  <2>1. servers' \in [Cells -> Server]
    BY <1>1, <1>12, SetField DEF MarkFree
  <2>2. monitor' \in MonitorStates /\ monitor'.at = "delete"
    BY <1>1, <1>12, AdvanceType DEF MarkFree
  <2> QED BY <1>1, <1>12, <2>1, <2>2
          DEF MarkFree, Typed, TypeOK, LastCounted, Server, MonitorStates
<1>7. CASE check_server_state
  <2>1. monitor' \in MonitorStates /\ monitor'.at # "last"
    BY <1>1, <1>7, AdvanceType DEF check_server_state, MonitorStates
  <2> QED BY <1>2, <1>7, <2>1 DEF check_server_state
<1>8. CASE ProbeConcludes
  <2>1. PICK status \in {"ENABLED", "FAILED"} :
          servers' = [servers EXCEPT ![Here].status = status]
    BY <1>8 DEF ProbeConcludes
  <2>2. servers' \in [Cells -> Server]
    BY <1>1, <2>1, SetField
  <2>3. clone_mode' \in {"OFF", "ON", "FAILED"}
    BY <1>1, <1>8, ClonedType DEF ProbeConcludes, TypeOK
  <2>4. monitor' \in MonitorStates /\ monitor'.at = "check"
    BY <1>1, <1>8, AdvanceType DEF ProbeConcludes
  <2> QED BY <1>1, <1>8, <2>2, <2>3, <2>4
          DEF ProbeConcludes, Typed, TypeOK, LastCounted, Server, MonitorStates
<1>9. CASE ProbeAborts
  BY <1>1, <1>2, <1>9, AdvanceType DEF ProbeAborts
<1> QED BY <1>3, <1>4, <1>5, <1>6, <1>7, <1>8, <1>9, <1>10, <1>11, <1>12 DEF Monitor

\* A nonempty finite set of numbers has a least element.
LEMMA LeastNumber ==
  ASSUME NEW S \in SUBSET Nat, IsFiniteSet(S), S # {}
  PROVE  \E i \in S : \A j \in S : i <= j
<1> DEFINE below(m) == {x \in S : x < m}
           T == {below(m) : m \in S}
<1>1. T \subseteq SUBSET S /\ T # {}
  OBVIOUS
<1>2. FiniteSubsetsOf(S) = SUBSET S
  BY FS_FiniteSubsetsOfFinite
<1>3. IsWellFoundedOn(StrictSubsetOrdering(S), SUBSET S)
  BY <1>2, FS_StrictSubsetOrderingWellFounded
<1>4. \E x \in T : \A y \in T : ~ (<<y, x>> \in StrictSubsetOrdering(S))
  BY <1>1, <1>3, WFMin
<1>5. PICK i \in S : \A y \in T : ~ (<<y, below(i)>> \in StrictSubsetOrdering(S))
  BY <1>4
<1>6. ASSUME NEW j \in S, j < i PROVE FALSE
  <2>1. i \in Nat /\ j \in Nat /\ \A x \in S : x \in Nat
    OBVIOUS
  <2>2. \A x \in S : x < j => x < i
    BY <1>6, <2>1
  <2>3. below(j) \subseteq below(i) /\ j \in below(i)
    BY <1>6, <2>2
  <2>4. j \notin below(j)
    <3>1. ~(j < j)
      BY <2>1
    <3> QED BY <3>1
  <2>5. <<below(j), below(i)>> \in StrictSubsetOrdering(S)
    BY <2>3, <2>4 DEF StrictSubsetOrdering
  <2> QED BY <1>5, <2>5
<1> QED BY <1>6

\* create_balancer_server() fills the first free slot or appends.
LEMMA CreateIs ==
  ASSUME TypeOK, NEW k \in Kinds, cmd_create(k)
  PROVE  \E i \in Nat :
           /\ servers' = [servers EXCEPT ![Cell(k, i)] = NewServer]
           /\ \/ i < n[k] /\ servers[Cell(k, i)].status = "FREE" /\ admin' = admin
              \/ /\ i = n[k] /\ (k = "clones" => n[k] < MAXSERVERS)
                 /\ admin' = [at |-> "counting", kind |-> k]
<1>1. n[k] \in Nat
  BY DEF TypeOK
<1>2. CASE FreeSlots(k) # {}
  <2>1. FreeSlots(k) \subseteq 0..(n[k] - 1) /\ FreeSlots(k) \in SUBSET Nat
    BY <1>1 DEF FreeSlots
  <2>2. IsFiniteSet(FreeSlots(k))
    <3>1. IsFiniteSet(0..(n[k] - 1))
      BY <1>1, FS_Interval
    <3> QED BY <2>1, <3>1, FS_Subset
  <2>3. \E i \in FreeSlots(k) : \A j \in FreeSlots(k) : i <= j
    BY <1>2, <2>1, <2>2, LeastNumber
  <2> DEFINE i == CHOOSE i \in FreeSlots(k) : \A j \in FreeSlots(k) : i <= j
  <2>4. i \in FreeSlots(k)
    BY <2>3
  <2>5. servers' = [servers EXCEPT ![Cell(k, i)] = NewServer] /\ UNCHANGED admin
    BY <1>2 DEF cmd_create
  <2>6. servers[Cell(k, i)].status = "FREE" /\ i < n[k] /\ i \in Nat
    BY <1>1, <2>1, <2>4 DEF FreeSlots
  <2> HIDE DEF i
  <2> QED BY <2>5, <2>6
<1>3. CASE FreeSlots(k) = {}
  BY <1>1, <1>3 DEF cmd_create
<1> QED BY <1>2, <1>3

\* What a new server does to the table.
LEMMA SetServer ==
  ASSUME TypeOK, NEW cell \in Cells, NEW v \in Server,
         servers' = [servers EXCEPT ![cell] = v]
  PROVE  /\ servers' \in [Cells -> Server]
         /\ \A x \in Cells : servers'[x] = IF x = cell THEN v ELSE servers[x]
<1>1. servers \in [Cells -> Server]
  BY ServerType
<1>2. \A x \in Cells : servers'[x] = IF x = cell THEN v ELSE servers[x]
  BY <1>1
<1>3. servers' \in [Cells -> Server]
  BY SetField
<1> QED BY <1>2, <1>3 DEF TypeOK

LEMMA SetNewServer ==
  ASSUME TypeOK, NEW k \in Kinds, NEW i \in Nat, created < MaxCreates,
         servers' = [servers EXCEPT ![Cell(k, i)] = NewServer]
  PROVE  /\ servers' \in [Cells -> Server]
         /\ \A x \in Cells : servers'[x] = IF x = Cell(k, i) THEN NewServer ELSE servers[x]
<1>1. NewServer \in Server
  BY SizeAssumption DEF NewServer, Server, TypeOK
<1> QED BY <1>1, CellsAre, SetServer

\* The commands that set the state of servers: only of servers that are in the
\* table and not deleted.
Commanded ==
  \A x \in Cells : /\ servers'[x].c = servers[x].c
                    /\ servers'[x].name = servers[x].name
                    /\ \/ servers'[x].status = servers[x].status
                       \/ x \in Subjects /\ servers'[x].status \in {"DELETED", "ENABLED", "DISABLED"}

LEMMA CommandIs ==
  ASSUME TypeOK, cmd_delete \/ cmd_enable \/ cmd_disable \/ cmd_clone_mode
  PROVE  /\ AdminIdle
         /\ UNCHANGED <<n, links, monitor, admin, created>>
         /\ servers' \in [Cells -> Server] /\ clone_mode' \in {"OFF", "ON", "FAILED"}
         /\ Commanded
<1>1. clone_mode \in {"OFF", "ON", "FAILED"} /\ servers \in [Cells -> Server]
  BY ServerType DEF TypeOK
<1>2. ASSUME NEW cells \in SUBSET Subjects, NEW status \in {"DELETED", "ENABLED", "DISABLED"},
             SetStatus(cells, status)
      PROVE  servers' \in [Cells -> Server] /\ Commanded
  <2>1. cells \in SUBSET Cells /\ status \in Statuses
    BY SubjectsAre
  <2> QED BY <1>2, <2>1, SetStatusIs DEF Commanded
<1>3. CASE cmd_delete
  <2>1. PICK cell \in Subjects : SetStatus({cell}, "DELETED")
    BY <1>3 DEF cmd_delete
  <2>2. servers' \in [Cells -> Server] /\ Commanded
    BY <1>2, <2>1
  <2> QED BY <1>1, <1>3, <2>2 DEF cmd_delete
<1>4. CASE cmd_enable
  <2>1. PICK targets \in OneOrAll :
          SetStatus({cell \in targets : servers[cell].status = "DISABLED"}, "ENABLED")
    BY <1>4 DEF cmd_enable
  <2>2. {cell \in targets : servers[cell].status = "DISABLED"} \in SUBSET Subjects
    BY <2>1, SubjectsAre
  <2>3. servers' \in [Cells -> Server] /\ Commanded
    BY <1>2, <2>1, <2>2
  <2>4. clone_mode' \in {"OFF", "ON", "FAILED"}
    BY <1>1, <1>4, ClonedType DEF cmd_enable
  <2> QED BY <1>4, <2>3, <2>4 DEF cmd_enable
<1>5. CASE cmd_disable
  <2>1. PICK targets \in OneOrAll :
          SetStatus({cell \in targets : servers[cell].status \in {"ENABLED", "FAILED"}}, "DISABLED")
    BY <1>5 DEF cmd_disable
  <2>2. {cell \in targets : servers[cell].status \in {"ENABLED", "FAILED"}} \in SUBSET Subjects
    BY <2>1, SubjectsAre
  <2>3. servers' \in [Cells -> Server] /\ Commanded
    BY <1>2, <2>1, <2>2
  <2>4. clone_mode' \in {"OFF", "ON", "FAILED"}
    BY <1>1, <1>5, ClonedType DEF cmd_disable
  <2> QED BY <1>5, <2>3, <2>4 DEF cmd_disable
<1>6. CASE cmd_clone_mode
  <2>1. clone_mode' \in {"OFF", "ON", "FAILED"}
    BY <1>6, ClonedType DEF cmd_clone_mode
  <2>2. Commanded
    BY <1>6 DEF cmd_clone_mode, Commanded
  <2> QED BY <1>1, <1>6, <2>1, <2>2 DEF cmd_clone_mode
<1> QED BY <1>3, <1>4, <1>5, <1>6

LEMMA AdminTyped ==
  ASSUME Typed, Admin
  PROVE  Typed'
<1>1. TypeOK /\ servers \in [Cells -> Server] /\ Here \in Cells
  BY ServerType, HereCell DEF Typed, TypeOK
<1>2. UNCHANGED <<links, monitor>>
  BY DEF Admin, cmd_create, CountServer, cmd_delete, cmd_enable, cmd_disable, cmd_clone_mode
<1>3. ASSUME servers' \in [Cells -> Server], n' \in [Kinds -> Nat], \A k \in Kinds : n'[k] >= n[k], clone_mode' \in {"OFF", "ON", "FAILED"},
             admin' \in {Idle} \cup [at : {"counting"}, kind : Kinds],
             created' \in 0..MaxCreates
      PROVE  Typed'
  <2>1. TypeOK'
    BY <1>1, <1>2, <1>3 DEF TypeOK, Server
  <2>2. monitor.kind \in Kinds /\ monitor.i \in Nat /\ n[monitor.kind] \in Nat
    BY <1>1, HereCell
  <2>3. n'[monitor.kind] \in Nat /\ n'[monitor.kind] >= n[monitor.kind]
    BY <1>3, <2>2
  <2> QED BY <1>1, <1>2, <2>1, <2>2, <2>3 DEF Typed, LastCounted
<1>4. ASSUME NEW k \in Kinds, cmd_create(k) PROVE Typed'
  <2>1. PICK i \in Nat :
           /\ servers' = [servers EXCEPT ![Cell(k, i)] = NewServer]
           /\ \/ admin' = admin
              \/ admin' = [at |-> "counting", kind |-> k]
    BY <1>1, <1>4, CreateIs
  <2>2. created \in 0..MaxCreates /\ created' = created + 1 /\ created' \in 0..MaxCreates
    BY <1>1, <1>4, SizeAssumption DEF cmd_create, TypeOK
  <2>3. servers' \in [Cells -> Server] /\ \A x \in Cells : servers'[x] = IF x = Cell(k, i) THEN NewServer ELSE servers[x]
    BY <1>1, <1>4, <2>1, SetNewServer DEF cmd_create
  <2>4. admin' \in {Idle} \cup [at : {"counting"}, kind : Kinds]
    BY <1>1, <2>1 DEF TypeOK
  <2> QED BY <1>1, <1>3, <1>4, <2>2, <2>3, <2>4 DEF cmd_create, TypeOK, NewServer
<1>5. CASE CountServer
  <2>1. admin.kind \in Kinds
    BY <1>1, <1>5 DEF TypeOK, CountServer, Idle
  <2>2. n' \in [Kinds -> Nat]
    BY <1>1, <1>5, <2>1 DEF TypeOK, CountServer
  <2>3. \A k \in Kinds : n'[k] >= n[k]
    BY <1>1, <1>5, <2>1 DEF TypeOK, CountServer
  <2> QED BY <1>1, <1>3, <1>5, <2>2, <2>3 DEF CountServer, TypeOK, Idle
<1>6. CASE cmd_delete \/ cmd_enable \/ cmd_disable \/ cmd_clone_mode
  <2>1. /\ UNCHANGED <<n, links, monitor, admin, created>>
        /\ servers' \in [Cells -> Server] /\ clone_mode' \in {"OFF", "ON", "FAILED"}
        /\ Commanded
    BY <1>1, <1>6, CommandIs
  <2> QED BY <1>1, <1>3, <2>1 DEF TypeOK
<1> QED BY <1>4, <1>5, <1>6 DEF Admin

LEMMA InitTyped == Init => Typed
<1> SUFFICES ASSUME Init PROVE Typed
  OBVIOUS
<1> DEFINE m == Configured["members"]
           c == Configured["clones"]
<1>1. m \in 0..MAXSERVERS /\ c \in 0..MAXSERVERS /\ m + c <= MaxCreates
  BY ConfiguredAssumption
<1>2. \A cell \in Cells : servers[cell] \in Server
  <2> SUFFICES ASSUME NEW cell \in Cells PROVE servers[cell] \in Server
    OBVIOUS
  <2>1. cell[1] \in Kinds /\ cell[2] \in 0..(MAXSERVERS - 1)
    BY CellsAre
  <2>2. CASE cell[2] >= Configured[cell[1]]
    <3>1. servers[cell] = Cleared
      BY <1>1, <2>1, <2>2, SizeAssumption DEF Init
    <3> QED BY <3>1 DEF Cleared, Server
  <2>3. CASE cell[2] < Configured[cell[1]] /\ cell[1] = "members"
    <3>1. servers[cell] = [status |-> "ENABLED", c |-> 0, name |-> cell[2] + 1]
      BY <1>1, <2>1, <2>3, SizeAssumption DEF Init
    <3>2. cell[2] + 1 \in Names
      BY <1>1, <2>1, <2>3, SizeAssumption
    <3> QED BY <3>1, <3>2 DEF Server
  <2>4. CASE cell[2] < Configured[cell[1]] /\ cell[1] = "clones"
    <3>1. servers[cell] = [status |-> "ENABLED", c |-> 0, name |-> cell[2] + 1 + m]
      BY <1>1, <2>1, <2>4, SizeAssumption DEF Init
    <3>2. cell[2] + 1 + m \in Names
      BY <1>1, <2>1, <2>4, SizeAssumption
    <3> QED BY <3>1, <3>2 DEF Server
  <2>5. Configured[cell[1]] \in Nat
    BY <1>1, <2>1
  <2> QED BY <1>1, <2>1, <2>2, <2>3, <2>4, <2>5
<1>3. servers \in [Cells -> Server]
  BY <1>2 DEF Init
<1>4. n \in [Kinds -> Nat] /\ created \in 0..MaxCreates
  BY <1>1, ConfiguredAssumption, SizeAssumption DEF Init
<1>5. monitor \in MonitorStates /\ monitor.at # "last"
  BY DEF Init, MonitorStates
<1> QED BY <1>2, <1>3, <1>4, <1>5 DEF Init, Typed, TypeOK, LastCounted, Server, MonitorStates

LEMMA NextTyped == Typed /\ [Next]_vars => Typed'
<1>1. ASSUME Typed, UNCHANGED vars PROVE Typed'
  BY <1>1 DEF vars, table, Typed, TypeOK, LastCounted, Here, Cell
<1> QED BY <1>1, MasterTyped, MonitorTyped, AdminTyped DEF Next

\* TypeOK: whichever operations of the three processes are interleaved, even if
\* the members overflow into the clones, nmembers and nclones are never
\* decremented below zero and every variable keeps its type.
THEOREM RegistryTyped == Spec => []TypeOK
<1>1. Typed => TypeOK
  BY DEF Typed
<1> QED BY <1>1, InitTyped, NextTyped, PTL DEF Spec

-----------------------------------------------------------------------------
(* While there is room for the members and no step of another process falls  *)
(* between the clearing of a slot and the end of its removal, the arrays do  *)
(* not overflow and each process finds its slots as it left them.            *)

\* The cells in use are the first n of each array.
LEMMA Sizes ==
  ASSUME Room, TypeOK, WithinArrays
  PROVE  /\ \A k \in Kinds : n[k] \in 0..MAXSERVERS
         /\ \A k \in Kinds : \A i \in 0..(n[k] - 1) : Cell(k, i) = <<k, i>> /\ <<k, i>> \in Cells
         /\ \A k \in Kinds : \A cell : cell \in InUse(k) <=>
              cell \in Cells /\ cell[1] = k /\ cell[2] < n[k]
         /\ monitor.i < n[monitor.kind] =>
              Here = <<monitor.kind, monitor.i>> /\ Here[1] = monitor.kind /\ Here[2] = monitor.i
<1>1. /\ n["members"] \in Nat /\ n["clones"] \in Nat /\ created \in 0..MaxCreates
      /\ Configured["clones"] \in Nat /\ MAXSERVERS \in Nat /\ MaxCreates \in Nat
  BY SizeAssumption, ConfiguredAssumption DEF TypeOK
<1>2. \A k \in Kinds : Counting(k) \in Nat
  BY DEF Counting
<1>3. \A k \in Kinds : n[k] \in 0..MAXSERVERS
  BY <1>1, <1>2 DEF WithinArrays, Room
<1>4. \A k \in Kinds : \A i \in 0..(n[k] - 1) : Cell(k, i) = <<k, i>> /\ <<k, i>> \in Cells
  BY <1>1, <1>3 DEF Cell, Cells
<1>5. ASSUME NEW k \in Kinds, NEW cell
      PROVE  cell \in InUse(k) <=> cell \in Cells /\ cell[1] = k /\ cell[2] < n[k]
  <2>1. ASSUME cell \in InUse(k) PROVE cell \in Cells /\ cell[1] = k /\ cell[2] < n[k]
    <3>1. PICK i \in 0..(n[k] - 1) : cell = Cell(k, i)
      BY <2>1 DEF InUse
    <3>2. cell = <<k, i>> /\ cell \in Cells
      BY <1>4, <3>1
    <3> QED BY <1>3, <3>1, <3>2
  <2>2. ASSUME cell \in Cells, cell[1] = k, cell[2] < n[k] PROVE cell \in InUse(k)
    <3>1. cell[2] \in 0..(n[k] - 1) /\ cell = <<k, cell[2]>>
      BY <1>3, <2>2, CellsAre
    <3>2. cell = Cell(k, cell[2])
      BY <1>4, <3>1
    <3> QED BY <3>1, <3>2 DEF InUse
  <2> QED BY <2>1, <2>2
<1>6. monitor.i < n[monitor.kind] => Here = <<monitor.kind, monitor.i>>
  <2>1. monitor.kind \in Kinds /\ monitor.i \in Nat /\ n[monitor.kind] \in Nat
    BY HereCell
  <2>2. monitor.i < n[monitor.kind] => monitor.i \in 0..(n[monitor.kind] - 1)
    BY <2>1
  <2> QED BY <1>4, <2>1, <2>2 DEF Here
<1> QED BY <1>3, <1>4, <1>5, <1>6

LEMMA MasterPlaced ==
  ASSUME Undivided, Typed, Placed, Master
  PROVE  Placed'
<1>1. /\ UNCHANGED <<n, monitor, admin, created>>
      /\ \A x \in Cells : servers'[x].status = servers[x].status
  BY MasterKeeps DEF Typed
<1>2. Here \in Cells /\ Here' = Here
  BY <1>1, HereCell DEF Typed, Here
<1>3. monitor.at \notin Removing
  BY DEF Undivided, Master, choose_server, connect_server, disconnect, MasterMay, MonitorInside
<1> QED BY <1>1, <1>2, <1>3 DEF Placed, WithinArrays, Counting, ScanHolds

\* The monitor clears the slot it found removable.
LEMMA WipeIs ==
  ASSUME TypeOK, Placed, Wipe
  PROVE  /\ Here \in Cells /\ Here' = Here /\ UNCHANGED n
         /\ monitor' = [at |-> "cleared", kind |-> monitor.kind, i |-> monitor.i]
         /\ monitor.i < n[monitor.kind] /\ servers[Here].status = "DELETED"
         /\ \A x \in Cells : servers'[x] = IF x = Here THEN Cleared ELSE servers[x]
<1>1. Here \in Cells /\ monitor \in MonitorStates
  BY HereCell DEF TypeOK, MonitorStates
<1>2. monitor' = [at |-> "cleared", kind |-> monitor.kind, i |-> monitor.i]
  BY <1>1 DEF Wipe, MonitorStates
<1>3. monitor.i < n[monitor.kind] /\ servers[Here].status = "DELETED"
  BY DEF Placed, ScanHolds, Wipe
<1>4. \A x \in Cells : servers'[x] = IF x = Here THEN Cleared ELSE servers[x]
  BY <1>1, ServerType DEF Wipe
<1> QED BY <1>1, <1>2, <1>3, <1>4 DEF Wipe, Here

\* The array loses the slot that was cleared, and no other.
LEMMA GiveBackIs ==
  ASSUME Room, TypeOK, Placed, GiveBack
  PROVE  /\ Here \in Cells /\ servers[Here] = Cleared
         /\ \A k \in Kinds : n'[k] = IF k = monitor.kind THEN n[k] - 1 ELSE n[k]
         /\ \A x \in Cells : x # Here => (x[2] < n'[x[1]] <=> x[2] < n[x[1]])
<1>1. monitor.kind \in Kinds /\ monitor.i \in Nat /\ Here \in Cells
      /\ n \in [Kinds -> Nat] /\ \A k \in Kinds : n[k] \in Nat
  BY HereCell DEF TypeOK
<1>2. /\ monitor.i < n[monitor.kind] /\ monitor.i = n[monitor.kind] - 1
      /\ servers[Here] = Cleared
  BY DEF Placed, ScanHolds, GiveBack
<1>3. Here = <<monitor.kind, monitor.i>>
  BY <1>2, Sizes DEF Placed
<1>4. \A k \in Kinds : n'[k] = IF k = monitor.kind THEN n[k] - 1 ELSE n[k]
  BY <1>1, <1>2 DEF GiveBack
<1>5. ASSUME NEW x \in Cells, x # Here PROVE x[2] < n'[x[1]] <=> x[2] < n[x[1]]
  <2>1. x[1] \in Kinds /\ x[2] \in Nat /\ x = <<x[1], x[2]>>
    BY CellsAre, SizeAssumption
  <2>2. x[1] # monitor.kind \/ x[2] # monitor.i
    BY <1>3, <1>5, <2>1
  <2> QED BY <1>1, <1>2, <1>4, <2>1, <2>2
<1> QED BY <1>1, <1>2, <1>4, <1>5

\* The slot that is marked is free already.
LEMMA MarkFreeIs ==
  ASSUME TypeOK, Placed, MarkFree
  PROVE  UNCHANGED <<servers, n>>
<1>1. Here \in Cells /\ servers \in [Cells -> Server]
  BY HereCell, ServerType
<1>2. servers[Here].status = "FREE"
  BY DEF Placed, ScanHolds, MarkFree, Cleared
<1> QED BY <1>1, <1>2 DEF MarkFree, Server

\* The answer of a server is written to its slot.
LEMMA ProbeIs ==
  ASSUME Room, TypeOK, Placed, ProbeConcludes
  PROVE  /\ Here \in Cells /\ Here[2] < n[Here[1]]
         /\ servers'[Here].status \in {"ENABLED", "FAILED"}
         /\ \A x \in Cells : x # Here => servers'[x].status = servers[x].status
         /\ \A x \in Cells : servers'[x].c = servers[x].c /\ servers'[x].name = servers[x].name
<1>1. Here \in Cells /\ Here[2] < n[Here[1]]
  BY HereCell, Sizes DEF Placed, ScanHolds, ProbeConcludes
<1>2. PICK status \in {"ENABLED", "FAILED"} :
        servers' = [servers EXCEPT ![Here].status = status]
  BY DEF ProbeConcludes
<1>3. servers \in [Cells -> Server]
  BY ServerType
<1> QED BY <1>1, <1>2, <1>3 DEF Server

LEMMA MonitorPlaced ==
  ASSUME Room, Typed, Placed, Monitor
  PROVE  Placed'
<1>1. TypeOK /\ Here \in Cells /\ monitor \in MonitorStates
      /\ monitor.i \in Nat /\ monitor.kind \in Kinds /\ \A k \in Kinds : n[k] \in Nat
  BY HereCell DEF Typed, TypeOK, MonitorStates
<1>2. UNCHANGED <<admin, created>> /\ \A k \in Kinds : Counting(k)' = Counting(k)
  <2>1. UNCHANGED <<admin, created>>
    BY DEF Monitor, Wake, EndOfScan, handle_delete_servers, Wipe, TestLast, GiveBack, MarkFree,
           check_server_state, ProbeConcludes, ProbeAborts
  <2> QED BY <2>1 DEF Counting
<1>3. ASSUME UNCHANGED n, ScanHolds' PROVE Placed'
  BY <1>2, <1>3 DEF Placed, WithinArrays
<1>4. CASE Wake
  <2>1. monitor'.at = "delete"
    BY <1>4 DEF Wake
  <2> QED BY <1>3, <1>4, <2>1 DEF Wake, ScanHolds, table
<1>5. CASE EndOfScan
  <2>1. monitor'.at \notin {"wipe", "probe"} \cup Removing
    <3>1. CASE monitor.kind = "members"
      BY <1>1, <1>5, <3>1 DEF EndOfScan, MonitorStates
    <3>2. CASE monitor.kind = "clones"
      BY <1>1, <1>5, <3>2 DEF EndOfScan, MonitorStates
    <3> QED BY <1>1, <3>1, <3>2
  <2> QED BY <1>3, <1>5, <2>1 DEF EndOfScan, ScanHolds, table
<1>6. CASE handle_delete_servers
  <2>1. CASE Removable(Here)
    <3>1. monitor' = [monitor EXCEPT !.at = "wipe"] /\ UNCHANGED table
      BY <1>6, <2>1 DEF handle_delete_servers
    <3>2. monitor'.kind = monitor.kind /\ monitor'.i = monitor.i /\ monitor'.at = "wipe"
      BY <1>1, <3>1 DEF MonitorStates
    <3>3. monitor.i < n[monitor.kind] /\ servers[Here].status = "DELETED" /\ Here' = Here
      BY <1>6, <2>1, <3>2 DEF handle_delete_servers, Removable, Here
    <3> QED BY <1>3, <3>1, <3>2, <3>3 DEF ScanHolds, table
  <2>2. CASE ~Removable(Here)
    BY <1>1, <1>3, <1>6, <2>2, AdvanceType DEF handle_delete_servers, ScanHolds, table
  <2> QED BY <2>1, <2>2
<1>7. CASE Wipe
  <2>1. /\ UNCHANGED n /\ Here' = Here /\ Here \in Cells
        /\ monitor' = [at |-> "cleared", kind |-> monitor.kind, i |-> monitor.i]
        /\ monitor.i < n[monitor.kind] /\ servers'[Here] = Cleared
    BY <1>1, <1>7, WipeIs
  <2> QED BY <1>3, <2>1 DEF ScanHolds
<1>11. CASE TestLast
  <2>1. /\ monitor'.kind = monitor.kind /\ monitor'.i = monitor.i /\ UNCHANGED table
        /\ monitor'.at = IF monitor.i = n[monitor.kind] - 1 THEN "last" ELSE "inner"
    BY <1>1, <1>11 DEF TestLast, MonitorStates
  <2>2. Here' = Here /\ monitor.i < n[monitor.kind] /\ servers[Here] = Cleared
    BY <1>11, <2>1 DEF Here, TestLast, Placed, ScanHolds
  <2> QED BY <1>3, <2>1, <2>2 DEF ScanHolds, table
<1>12. CASE GiveBack
  <2>1. monitor'.at = "delete"
    BY <1>1, <1>12, AdvanceType DEF GiveBack
  <2>2. \A k \in Kinds : n'[k] \in Int /\ n'[k] <= n[k] /\ Counting(k) \in Nat
    BY <1>1, <1>12, GiveBackIs DEF Counting
  <2>3. Configured["clones"] \in Nat /\ created \in Nat /\ MAXSERVERS \in Nat
    BY <1>1, ConfiguredAssumption, SizeAssumption DEF TypeOK
  <2>4. WithinArrays'
    BY <1>1, <1>2, <2>2, <2>3 DEF Placed, WithinArrays
  <2> QED BY <2>1, <2>4 DEF Placed, ScanHolds
<1>13. CASE MarkFree
  <2>1. monitor'.at = "delete"
    BY <1>1, <1>13, AdvanceType DEF MarkFree
  <2> QED BY <1>1, <1>3, <1>13, <2>1, MarkFreeIs DEF ScanHolds
<1>8. CASE check_server_state
  <2>1. CASE servers[Here].status \in {"ENABLED", "FAILED"}
    <3>1. monitor' = [monitor EXCEPT !.at = "probe"] /\ UNCHANGED table
      BY <1>8, <2>1 DEF check_server_state
    <3>2. monitor'.kind = monitor.kind /\ monitor'.i = monitor.i /\ monitor'.at = "probe"
      BY <1>1, <3>1 DEF MonitorStates
    <3> QED BY <1>3, <1>8, <3>1, <3>2 DEF ScanHolds, table, check_server_state
  <2>2. CASE servers[Here].status \notin {"ENABLED", "FAILED"}
    BY <1>1, <1>3, <1>8, <2>2, AdvanceType DEF check_server_state, ScanHolds, table
  <2> QED BY <2>1, <2>2
<1>9. CASE ProbeConcludes
  <2>1. monitor'.at = "check" /\ UNCHANGED n
    BY <1>1, <1>9, AdvanceType DEF ProbeConcludes
  <2> QED BY <1>3, <2>1 DEF ScanHolds
<1>10. CASE ProbeAborts
  BY <1>1, <1>3, <1>10, AdvanceType DEF ProbeAborts, ScanHolds, table
<1> QED BY <1>4, <1>5, <1>6, <1>7, <1>8, <1>9, <1>10, <1>11, <1>12, <1>13 DEF Monitor

\* A new server is written to a free slot in use or just behind them.
LEMMA CreatePlaces ==
  ASSUME Room, TypeOK, Placed, NEW k \in Kinds, cmd_create(k)
  PROVE  \E i \in 0..(MAXSERVERS - 1) :
           /\ <<k, i>> \in Cells
           /\ \A x \in Cells : servers'[x] = IF x = <<k, i>> THEN NewServer ELSE servers[x]
           /\ \/ i < n[k] /\ servers[<<k, i>>].status = "FREE" /\ admin' = admin
              \/ i = n[k] /\ admin' = [at |-> "counting", kind |-> k]
<1>1. PICK i \in Nat :
           /\ servers' = [servers EXCEPT ![Cell(k, i)] = NewServer]
           /\ \/ i < n[k] /\ servers[Cell(k, i)].status = "FREE" /\ admin' = admin
              \/ /\ i = n[k] /\ (k = "clones" => n[k] < MAXSERVERS)
                 /\ admin' = [at |-> "counting", kind |-> k]
  BY CreateIs
<1>2. \A k1 \in Kinds : n[k1] \in 0..MAXSERVERS
  BY Sizes DEF Placed
<1>3. n["members"] < MAXSERVERS
  <2>1. admin = Idle /\ created < MaxCreates
    BY DEF cmd_create, AdminIdle
  <2>2. Counting("members") = 0
    BY <2>1 DEF Counting, Idle
  <2>3. n["members"] + Configured["clones"] <= created
    BY <1>2, <2>2, ConfiguredAssumption DEF Placed, WithinArrays
  <2> QED BY <1>2, <2>1, <2>3, ConfiguredAssumption, SizeAssumption DEF Room, TypeOK
<1>4. i \in 0..(MAXSERVERS - 1)
  BY <1>1, <1>2, <1>3, SizeAssumption
<1>5. Cell(k, i) = <<k, i>> /\ <<k, i>> \in Cells
  BY <1>4, CellsAre
<1>6. \A x \in Cells : servers'[x] = IF x = Cell(k, i) THEN NewServer ELSE servers[x]
  BY <1>1, SetNewServer DEF cmd_create
<1> QED BY <1>1, <1>4, <1>5, <1>6

LEMMA AdminPlaced ==
  ASSUME Room, Undivided, Typed, Placed, Admin
  PROVE  Placed'
<1>1. TypeOK /\ Here \in Cells
      /\ monitor.i \in Nat /\ monitor.kind \in Kinds
      /\ \A k \in Kinds : n[k] \in Nat /\ Counting(k) \in Nat
  BY HereCell DEF Typed, TypeOK, Counting
<1>2. UNCHANGED monitor /\ Here' = Here /\ monitor.at \notin Removing
  BY DEF Admin, cmd_create, CountServer, cmd_delete, cmd_enable, cmd_disable, cmd_clone_mode, Here,
         AdminIdle, AdminMay, MonitorInside, Undivided
<1>3. monitor.i < n[monitor.kind] => Here[1] = monitor.kind /\ Here[2] = monitor.i
  BY <1>1, Sizes DEF Placed
<1>4. Configured["clones"] \in Nat /\ created \in Nat /\ MAXSERVERS \in Nat
  BY <1>1, ConfiguredAssumption, SizeAssumption DEF TypeOK
<1>5. ASSUME NEW k \in Kinds, cmd_create(k) PROVE Placed'
  <2>1. PICK i \in 0..(MAXSERVERS - 1) :
           /\ <<k, i>> \in Cells
           /\ \A x \in Cells : servers'[x] = IF x = <<k, i>> THEN NewServer ELSE servers[x]
           /\ \/ i < n[k] /\ servers[<<k, i>>].status = "FREE" /\ admin' = admin
              \/ i = n[k] /\ admin' = [at |-> "counting", kind |-> k]
    BY <1>1, <1>5, CreatePlaces
  <2>2. UNCHANGED n /\ created' = created + 1 /\ admin = Idle
    BY <1>5 DEF cmd_create, AdminIdle
  <2>3. WithinArrays'
    <3>1. \A k1 \in Kinds : Counting(k1) = 0
      BY <2>2 DEF Counting, Idle
    <3>2. \A k1 \in Kinds : Counting(k1)' = 0 \/ (Counting(k1)' = 1 /\ k1 = k /\ n[k] < MAXSERVERS)
      BY <2>1, <2>2, <3>1, <1>4 DEF Counting, Idle
    <3>3. n["members"] + Configured["clones"] <= created /\ n["clones"] <= MAXSERVERS
      BY <1>1, <1>4, <3>1 DEF Placed, WithinArrays
    <3> QED BY <1>1, <1>4, <2>2, <3>2, <3>3 DEF WithinArrays
  <2>4. ScanHolds'
    <3>1. monitor.at = "wipe" => Here # <<k, i>>
      BY <1>1, <1>3, <2>1 DEF Placed, ScanHolds
    <3> QED BY <1>1, <1>2, <2>1, <2>2, <3>1 DEF Placed, ScanHolds
  <2> QED BY <2>3, <2>4 DEF Placed
<1>6. CASE CountServer
  <2>1. admin.kind \in Kinds /\ admin.at = "counting" /\ admin' = Idle /\ UNCHANGED <<servers, created>>
    BY <1>1, <1>6 DEF TypeOK, CountServer, Idle
  <2>2. \A k \in Kinds : n'[k] = n[k] + Counting(k) /\ Counting(k)' = 0
    BY <1>1, <1>6, <2>1 DEF TypeOK, CountServer, Counting, Idle
  <2>3. WithinArrays'
    BY <1>1, <1>4, <2>1, <2>2 DEF Placed, WithinArrays
  <2>4. ScanHolds'
    BY <1>1, <1>2, <2>1, <2>2 DEF Placed, ScanHolds
  <2> QED BY <2>3, <2>4 DEF Placed
<1>7. CASE cmd_delete \/ cmd_enable \/ cmd_disable \/ cmd_clone_mode
  <2>1. UNCHANGED <<n, links, monitor, admin, created>> /\ Commanded
    BY <1>1, <1>7, CommandIs
  <2>2. \A x \in Cells : servers[x].status = "DELETED" => servers'[x].status = "DELETED"
    BY <1>1, <2>1, SubjectsAre DEF Commanded
  <2>3. WithinArrays' /\ ScanHolds'
    BY <1>1, <1>2, <2>1, <2>2 DEF Placed, WithinArrays, Counting, ScanHolds
  <2> QED BY <2>3 DEF Placed
<1> QED BY <1>5, <1>6, <1>7 DEF Admin

LEMMA InitPlaced == Init => Placed
<1> SUFFICES ASSUME Init PROVE Placed
  OBVIOUS
<1>1. Configured["members"] \in 0..MAXSERVERS /\ Configured["clones"] \in 0..MAXSERVERS
  BY ConfiguredAssumption
<1>2. \A k \in Kinds : Counting(k) = 0
  BY DEF Init, Counting, Idle
<1>3. WithinArrays
  BY <1>1, <1>2, SizeAssumption DEF Init, WithinArrays
<1>4. ScanHolds
  BY DEF Init, ScanHolds
<1> QED BY <1>3, <1>4 DEF Placed

LEMMA NextPlaced == Room /\ Undivided /\ Typed /\ Placed /\ [Next]_vars => Placed'
<1>1. ASSUME Placed, UNCHANGED vars PROVE Placed'
  BY <1>1 DEF vars, table, Placed, WithinArrays, Counting, ScanHolds, Here, Cell
<1> QED BY <1>1, MasterPlaced, MonitorPlaced, AdminPlaced DEF Next

LEMMA AlwaysPlaced == Room /\ Undivided /\ Spec => [](Typed /\ Placed)
<1>1. ASSUME Room, Undivided PROVE Spec => [](Typed /\ Placed)
  <2>1. Room /\ Undivided
    BY <1>1
  <2>2. Init => Typed /\ Placed
    BY InitTyped, InitPlaced
  <2>3. (Typed /\ Placed) /\ [Next]_vars => (Typed /\ Placed)'
    BY <2>1, NextTyped, NextPlaced
  <2> QED BY <2>2, <2>3, PTL DEF Spec
<1> QED BY <1>1

-----------------------------------------------------------------------------
(* What a step may not do.                                                   *)

\* A server in one of the first n slots of an array is in the table.
LEMMA PresentThen ==
  ASSUME NEW name, NEW x \in Cells, servers'[x].name = name, servers'[x].status # "FREE",
         x[2] < n'[x[1]], TypeOK'
  PROVE  Present(name)'
<1>1. x[1] \in Kinds /\ x[2] \in 0..(MAXSERVERS - 1) /\ x = Cell(x[1], x[2])
  BY CellsAre
<1>2. x[2] \in 0..(n'[x[1]] - 1)
  BY <1>1 DEF TypeOK
<1>3. x \in InUse(x[1])'
  BY <1>1, <1>2 DEF InUse
<1> QED BY <1>1, <1>3 DEF Present

\* A server stays where it is until its slot is cleared.
LEMMA ServerStays ==
  ASSUME Room, Typed, Placed, Next, NEW x \in Cells, x[2] < n[x[1]], servers[x].status # "FREE"
  PROVE  \/ servers[x].status = "DELETED"
         \/ /\ servers'[x].name = servers[x].name /\ servers'[x].status # "FREE"
            /\ x[2] < n'[x[1]]
<1>1. TypeOK /\ x[1] \in Kinds /\ x[2] \in Nat /\ \A k \in Kinds : n[k] \in Nat
  BY CellsAre, SizeAssumption DEF Typed, TypeOK
<1>2. CASE Master
  BY <1>1, <1>2, MasterKeeps
<1>3. CASE Monitor
  <2>1. CASE Wipe
    BY <1>1, <2>1, WipeIs
  <2>2. CASE GiveBack
    <3>1. x # Here
      BY <1>1, <2>2, GiveBackIs DEF Cleared
    <3> QED BY <1>1, <2>2, <3>1, GiveBackIs DEF GiveBack
  <2>3. CASE MarkFree
    BY <1>1, <2>3, MarkFreeIs
  <2>4. CASE ProbeConcludes
    BY <1>1, <2>4, ProbeIs DEF ProbeConcludes
  <2>5. CASE UNCHANGED table
    BY <2>5 DEF table
  <2> QED BY <1>3, <2>1, <2>2, <2>3, <2>4, <2>5
          DEF Monitor, Wake, EndOfScan, handle_delete_servers, TestLast, check_server_state,
              ProbeAborts
<1>4. ASSUME NEW k \in Kinds, cmd_create(k)
      PROVE  servers'[x] = servers[x] /\ x[2] < n'[x[1]]
  <2>1. PICK i \in 0..(MAXSERVERS - 1) :
           /\ <<k, i>> \in Cells
           /\ \A y \in Cells : servers'[y] = IF y = <<k, i>> THEN NewServer ELSE servers[y]
           /\ \/ i < n[k] /\ servers[<<k, i>>].status = "FREE"
              \/ i = n[k]
    BY <1>1, <1>4, CreatePlaces
  <2>2. x # <<k, i>>
    BY <1>1, <2>1
  <2> QED BY <1>4, <2>1, <2>2 DEF cmd_create
<1>5. CASE CountServer
  <2>1. n'[x[1]] = n[x[1]] \/ n'[x[1]] = n[x[1]] + 1
    BY <1>1, <1>5 DEF CountServer, TypeOK
  <2> QED BY <1>1, <1>5, <2>1 DEF CountServer
<1>6. CASE cmd_delete \/ cmd_enable \/ cmd_disable \/ cmd_clone_mode
  BY <1>1, <1>6, CommandIs DEF Commanded
<1> QED BY <1>2, <1>3, <1>4, <1>5, <1>6 DEF Next, Admin

\* NoServerLost: with room for the members, and while no creation falls between
\* the clearing of a slot and the end of its removal, a server leaves the table
\* only when it was deleted, with probes, the test and the clearing of a slot,
\* creations and connections interrupted anywhere.
THEOREM NothingLost == Room /\ "shrink" \notin Interleaved /\ Spec => NoServerLost
<1> DEFINE Kept(name) == Present(name) /\ ~Present(name)' => Deleted(name)
<1>1. ASSUME Room, Typed, Placed, Typed', Next, NEW name \in Names PROVE Kept(name)
  <2> SUFFICES ASSUME Present(name), ~Present(name)' PROVE Deleted(name)
    OBVIOUS
  <2>1. PICK k \in Kinds : \E cell \in InUse(k) :
          servers[cell].name = name /\ servers[cell].status # "FREE"
    BY DEF Present
  <2>2. PICK x \in InUse(k) : servers[x].name = name /\ servers[x].status # "FREE"
    BY <2>1
  <2>3. x \in Cells /\ x[2] < n[x[1]]
    BY <1>1, Sizes DEF Typed, Placed
  <2>4. \/ servers[x].status = "DELETED"
        \/ servers'[x].name = name /\ servers'[x].status # "FREE" /\ x[2] < n'[x[1]]
    BY <1>1, <2>2, <2>3, ServerStays
  <2> QED BY <1>1, <2>2, <2>3, <2>4, PresentThen DEF Typed, Deleted
<1>2. ASSUME Room, Undivided PROVE Spec => [][\A name \in Names : Kept(name)]_vars
  <2>1. (Typed /\ Placed) /\ (Typed /\ Placed)' /\ [Next]_vars => [\A name \in Names : Kept(name)]_vars
    BY <1>1, <1>2
  <2>2. Spec => [](Typed /\ Placed)
    BY <1>2, AlwaysPlaced
  <2> QED BY <2>1, <2>2, PTL DEF Spec
<1> QED BY <1>2 DEF NoServerLost, Undivided

-----------------------------------------------------------------------------
(* Connections are counted and keep their servers, while nothing happens     *)
(* between the choice of a server and the connection to it, nor between the  *)
(* clearing of a slot and the end of its removal.                            *)

Linked(cell) == {l \in Links : links[l].at = "linked" /\ links[l].cell = cell}

LEMMA LinkedFinite ==
  ASSUME NEW cell
  PROVE  /\ IsFiniteSet(Linked(cell))
         /\ Cardinality(Linked(cell)) = 0 <=> Linked(cell) = {}
<1>1. Linked(cell) \in SUBSET Links
  BY DEF Linked
<1>2. IsFiniteSet(Linked(cell))
  BY <1>1, LinksAssumption, FS_Subset
<1> QED BY <1>2, FS_EmptySet

\* CountsLive in terms of Linked.
LEMMA CountsAre ==
  /\ CountsLive <=> \A cell \in Cells : servers[cell].c = Cardinality(Linked(cell))
  /\ CountsLive' <=> \A cell \in Cells : servers'[cell].c = Cardinality(Linked(cell)')
  BY DEF CountsLive, Linked

LEMMA ChooseCounted ==
  ASSUME Room, Typed, Placed, Counted, NEW l \in Links, choose_server(l)
  PROVE  Counted'
<1>1. TypeOK
  BY DEF Typed
<1>2. PICK k \in Kinds : \E cell \in Available(k) :
        cell \in Cells /\ links' = [links EXCEPT ![l] = [at |-> "chosen", cell |-> cell]]
  BY <1>1, ChooseIs
<1>3. PICK x \in Available(k) :
        x \in Cells /\ links' = [links EXCEPT ![l] = [at |-> "chosen", cell |-> x]]
  BY <1>2
<1>4. x[2] < n[x[1]] /\ servers[x].status = "ENABLED"
  BY <1>1, <1>3, Sizes DEF Placed, Available
<1>5. UNCHANGED <<servers, n, monitor>> /\ links[l].at = "idle"
  BY DEF choose_server, table, Idle
<1>6. /\ \A m \in Links : m # l => links'[m] = links[m]
      /\ links'[l].at = "chosen" /\ links'[l].cell = x
  BY <1>1, <1>3 DEF TypeOK
<1>7. \A cell \in Cells : Linked(cell)' = Linked(cell)
  BY <1>5, <1>6 DEF Linked
<1>8. CountsLive'
  BY <1>5, <1>7, CountsAre DEF Counted
<1>9. LinksKeepServer'
  BY <1>5, <1>6 DEF Counted, LinksKeepServer
<1>10. LinksPlaced'
  BY <1>4, <1>5, <1>6 DEF Counted, LinksPlaced
<1>11. UnusedWiped'
  BY <1>5 DEF Counted, UnusedWiped, Here, Cell
<1> QED BY <1>8, <1>9, <1>10, <1>11 DEF Counted

LEMMA ConnectCounted ==
  ASSUME Room, Typed, Placed, Counted, NEW l \in Links, connect_server(l)
  PROVE  Counted'
<1>1. TypeOK /\ Here \in Cells
  BY HereCell DEF Typed
<1> PICK x \in Cells : x = links[l].cell
  BY <1>1, ConnectIs
<1>2. links[l].at = "chosen" /\ UNCHANGED <<n, monitor>> /\ Here' = Here
  BY DEF connect_server, Here
<1>3. CASE links' = [links EXCEPT ![l] = Idle] /\ UNCHANGED servers
  <2>1. /\ \A m \in Links : m # l => links'[m] = links[m]
        /\ links'[l].at = "idle"
    BY <1>1, <1>3 DEF TypeOK, Idle
  <2>2. \A cell \in Cells : Linked(cell)' = Linked(cell)
    BY <1>2, <2>1 DEF Linked
  <2>3. CountsLive'
    BY <1>3, <2>2, CountsAre DEF Counted
  <2>4. LinksKeepServer' /\ LinksPlaced' /\ UnusedWiped'
    BY <1>2, <1>3, <2>1 DEF Counted, LinksKeepServer, LinksPlaced, UnusedWiped
  <2> QED BY <2>3, <2>4 DEF Counted
<1>4. CASE /\ links' = [links EXCEPT ![l] = [at |-> "linked", cell |-> x, name |-> servers[x].name]]
           /\ servers' = [servers EXCEPT ![x].c = servers[x].c + 1]
  <2>1. /\ \A m \in Links : m # l => links'[m] = links[m]
        /\ links'[l].at = "linked" /\ links'[l].cell = x /\ links'[l].name = servers[x].name
    BY <1>1, <1>4 DEF TypeOK
  <2>2. servers[x].c + 1 \in Int
    BY <1>1, <1>2 DEF TypeOK
  <2>3. \A y \in Cells : /\ servers'[y].status = servers[y].status
                         /\ servers'[y].name = servers[y].name
                         /\ servers'[y].c = IF y = x THEN servers[x].c + 1 ELSE servers[y].c
    BY <1>1, <1>4, <2>2, ServerType DEF Server
  <2>4. x[2] < n[x[1]] /\ servers[x].status = "ENABLED"
    BY <1>2 DEF Counted, LinksPlaced
  <2>5. CountsLive'
    <3>1. Linked(x)' = Linked(x) \cup {l} /\ l \notin Linked(x)
      BY <1>2, <2>1 DEF Linked
    <3>2. Cardinality(Linked(x) \cup {l}) = Cardinality(Linked(x)) + 1
      BY <3>1, LinkedFinite, FS_AddElement
    <3>3. \A y \in Cells : y # x => Linked(y)' = Linked(y)
      BY <1>2, <2>1 DEF Linked
    <3>4. \A y \in Cells : servers'[y].c = Cardinality(Linked(y)')
      BY <1>2, <2>3, <3>1, <3>2, <3>3, CountsAre DEF Counted
    <3> QED BY <3>4, CountsAre
  <2>6. LinksKeepServer'
    <3> SUFFICES ASSUME NEW m \in Links, links'[m].at = "linked"
                 PROVE  /\ servers'[links'[m].cell].name = links'[m].name
                        /\ servers'[links'[m].cell].status # "FREE"
      BY DEF LinksKeepServer
    <3>1. CASE m = l
      BY <1>2, <2>1, <2>3, <2>4, <3>1
    <3>2. CASE m # l
      <4>1. links[m].cell \in Cells /\ links'[m] = links[m]
        BY <1>1, <2>1, <3>2, LinkType
      <4> QED BY <2>3, <4>1 DEF Counted, LinksKeepServer
    <3> QED BY <3>1, <3>2
  <2>7. LinksPlaced'
    <3> SUFFICES ASSUME NEW m \in Links, links'[m].at \in {"chosen", "linked"}
                 PROVE  /\ links'[m].cell[2] < n[links'[m].cell[1]]
                        /\ links'[m].at = "chosen" => servers'[links'[m].cell].status = "ENABLED"
      BY <1>2 DEF LinksPlaced
    <3>1. CASE m = l
      BY <2>1, <2>4, <3>1
    <3>2. CASE m # l
      <4>1. links[m].cell \in Cells /\ links'[m] = links[m]
        BY <1>1, <2>1, <3>2, LinkType
      <4> QED BY <2>3, <4>1 DEF Counted, LinksPlaced
    <3> QED BY <3>1, <3>2
  <2>8. UnusedWiped'
    <3>1. monitor.at = "wipe" => Here # x
      BY <2>4 DEF Placed, ScanHolds
    <3> QED BY <1>1, <1>2, <2>3, <3>1 DEF Counted, UnusedWiped
  <2> QED BY <2>5, <2>6, <2>7, <2>8 DEF Counted
<1> QED BY <1>1, <1>3, <1>4, ConnectIs

LEMMA DisconnectCounted ==
  ASSUME Room, Typed, Placed, Counted, NEW l \in Links, disconnect(l)
  PROVE  Counted'
<1>1. TypeOK /\ Here \in Cells
  BY HereCell DEF Typed
<1> PICK x \in Cells : x = links[l].cell
  BY <1>1, DisconnectIs
<1>2. links[l].at = "linked" /\ UNCHANGED <<n, monitor>> /\ Here' = Here
  BY DEF disconnect, Here
<1>3. /\ links' = [links EXCEPT ![l] = Idle]
      /\ servers' = [servers EXCEPT ![x].c = servers[x].c - 1]
  BY <1>1, DisconnectIs
<1>4. /\ \A m \in Links : m # l => links'[m] = links[m]
      /\ links'[l].at = "idle"
  BY <1>1, <1>3 DEF TypeOK, Idle
<1>5. servers[x].c - 1 \in Int
  BY <1>1, <1>2 DEF TypeOK
<1>6. \A y \in Cells : /\ servers'[y].status = servers[y].status
                       /\ servers'[y].name = servers[y].name
                       /\ servers'[y].c = IF y = x THEN servers[x].c - 1 ELSE servers[y].c
  BY <1>1, <1>3, <1>5, ServerType DEF Server
<1>7. CountsLive'
  <2>1. Linked(x)' = Linked(x) \ {l} /\ l \in Linked(x)
    BY <1>2, <1>4 DEF Linked
  <2>2. Cardinality(Linked(x) \ {l}) = Cardinality(Linked(x)) - 1
    BY <2>1, LinkedFinite, FS_RemoveElement
  <2>3. \A y \in Cells : y # x => Linked(y)' = Linked(y)
    BY <1>2, <1>4 DEF Linked
  <2>4. \A y \in Cells : servers'[y].c = Cardinality(Linked(y)')
    BY <1>2, <1>6, <2>1, <2>2, <2>3, CountsAre DEF Counted
  <2> QED BY <2>4, CountsAre
<1>8. \A m \in Links : links'[m].at # "idle" =>
        links'[m] = links[m] /\ links[m].cell \in Cells
  BY <1>1, <1>4, LinkType
<1>9. LinksKeepServer'
  BY <1>6, <1>8 DEF Counted, LinksKeepServer
<1>10. LinksPlaced'
  BY <1>2, <1>6, <1>8 DEF Counted, LinksPlaced
<1>11. UnusedWiped'
  <2>1. monitor.at = "wipe" => Here # x
    <3>1. monitor.at = "wipe" => Linked(Here) = {}
      BY <1>1, LinkedFinite, CountsAre DEF Counted, UnusedWiped
    <3> QED BY <1>2, <3>1 DEF Linked
  <2> QED BY <1>1, <1>2, <1>6, <2>1 DEF Counted, UnusedWiped
<1> QED BY <1>7, <1>9, <1>10, <1>11 DEF Counted

\* A step that leaves the links alone, while no server is chosen: it is enough
\* that the slots that are not linked keep their counts, and the others all but
\* their status.
LEMMA OthersCounted ==
  ASSUME TypeOK, Counted, Choosing = {}, UNCHANGED links,
         \A x \in Cells : Linked(x) = {} => servers'[x].c = 0,
         \A x \in Cells : Linked(x) # {} =>
           /\ servers'[x].c = servers[x].c /\ servers'[x].name = servers[x].name
           /\ servers'[x].status # "FREE" /\ x[2] < n'[x[1]],
         UnusedWiped'
  PROVE  Counted'
<1>1. \A x \in Cells : Linked(x)' = Linked(x)
  BY DEF Linked
<1>2. CountsLive'
  <2>1. ASSUME NEW x \in Cells PROVE servers'[x].c = Cardinality(Linked(x)')
    BY <1>1, LinkedFinite, CountsAre DEF Counted
  <2> QED BY <2>1, CountsAre
<1>3. \A l \in Links : /\ links[l].at # "chosen"
                       /\ links[l].at = "linked" =>
                            links[l].cell \in Cells /\ Linked(links[l].cell) # {}
  BY LinkType DEF Linked, Choosing
<1>4. LinksKeepServer'
  BY <1>3 DEF Counted, LinksKeepServer
<1>5. LinksPlaced'
  BY <1>3 DEF LinksPlaced
<1> QED BY <1>2, <1>4, <1>5 DEF Counted

\* The slots that are linked are in use, hold a server and are not removed.
LEMMA LinkedSlots ==
  ASSUME Typed, Placed, Counted, NEW x \in Cells
  PROVE  /\ Linked(x) # {} => x[2] < n[x[1]] /\ servers[x].status # "FREE"
         /\ Linked(x) = {} <=> servers[x].c = 0
         /\ Linked(x) # {} /\ monitor.at = "wipe" => x # Here
<1>1. Linked(x) = {} <=> servers[x].c = 0
  BY LinkedFinite, CountsAre DEF Counted
<1>2. Linked(x) # {} => x[2] < n[x[1]] /\ servers[x].status # "FREE"
  BY DEF Linked, Counted, LinksPlaced, LinksKeepServer
<1> QED BY <1>1, <1>2 DEF Counted, UnusedWiped

LEMMA MonitorCounted ==
  ASSUME Room, "connect" \notin Interleaved, Typed, Placed, Counted, Monitor
  PROVE  Counted'
<1>1. TypeOK /\ Here \in Cells /\ monitor \in MonitorStates
  BY HereCell DEF Typed, TypeOK, MonitorStates
<1>2. Choosing = {} /\ UNCHANGED links
  BY DEF Monitor, Wake, EndOfScan, handle_delete_servers, Wipe, TestLast, GiveBack, MarkFree,
         check_server_state, ProbeConcludes, ProbeAborts, MonitorMay, MasterInside
<1>3. ASSUME UNCHANGED <<servers, n>>, UnusedWiped' PROVE Counted'
  BY <1>1, <1>2, <1>3, LinkedSlots, OthersCounted
<1>4. CASE Wipe
  <2>1. monitor.at = "wipe" /\ monitor'.at = "cleared" /\ UNCHANGED n
        /\ \A x \in Cells : servers'[x] = IF x = Here THEN Cleared ELSE servers[x]
    BY <1>1, <1>4, WipeIs DEF Wipe
  <2>2. \A x \in Cells : Linked(x) = {} => servers'[x].c = 0
    BY <2>1, LinkedSlots DEF Cleared
  <2>3. \A x \in Cells : Linked(x) # {} =>
           /\ servers'[x] = servers[x] /\ servers[x].status # "FREE" /\ x[2] < n'[x[1]]
    BY <2>1, LinkedSlots
  <2> QED BY <1>1, <1>2, <2>1, <2>2, <2>3, OthersCounted DEF UnusedWiped
<1>8. CASE GiveBack
  <2>1. monitor'.at = "delete" /\ UNCHANGED servers
    BY <1>1, <1>8, AdvanceType DEF GiveBack
  <2>2. /\ servers[Here] = Cleared
        /\ \A x \in Cells : x # Here => (x[2] < n'[x[1]] <=> x[2] < n[x[1]])
    BY <1>1, <1>8, GiveBackIs
  <2>3. Linked(Here) = {}
    BY <1>1, <2>2, LinkedSlots DEF Cleared
  <2>4. \A x \in Cells : Linked(x) # {} =>
           /\ servers'[x] = servers[x] /\ servers[x].status # "FREE" /\ x[2] < n'[x[1]]
    BY <2>1, <2>2, <2>3, LinkedSlots
  <2>5. \A x \in Cells : Linked(x) = {} => servers'[x].c = 0
    BY <2>1, LinkedSlots
  <2> QED BY <1>1, <1>2, <2>1, <2>4, <2>5, OthersCounted DEF UnusedWiped
<1>9. CASE MarkFree
  <2>1. monitor'.at = "delete"
    BY <1>1, <1>9, AdvanceType DEF MarkFree
  <2> QED BY <1>1, <1>3, <1>9, <2>1, MarkFreeIs DEF UnusedWiped
<1>5. CASE ProbeConcludes
  <2>1. monitor'.at = "check" /\ UNCHANGED n
    BY <1>1, <1>5, AdvanceType DEF ProbeConcludes
  <2>2. /\ servers'[Here].status \in {"ENABLED", "FAILED"}
        /\ \A x \in Cells : x # Here => servers'[x].status = servers[x].status
        /\ \A x \in Cells : servers'[x].c = servers[x].c /\ servers'[x].name = servers[x].name
    BY <1>1, <1>5, ProbeIs
  <2>3. \A x \in Cells : Linked(x) # {} => servers'[x].status # "FREE" /\ x[2] < n'[x[1]]
    BY <2>1, <2>2, LinkedSlots
  <2>4. \A x \in Cells : Linked(x) = {} => servers'[x].c = 0
    BY <2>2, LinkedSlots
  <2> QED BY <1>1, <1>2, <2>1, <2>2, <2>3, <2>4, OthersCounted DEF UnusedWiped
<1>6. CASE handle_delete_servers
  <2>1. CASE Removable(Here)
    <3>1. monitor' = [monitor EXCEPT !.at = "wipe"] /\ UNCHANGED table
      BY <1>6, <2>1 DEF handle_delete_servers
    <3>2. Here' = Here /\ servers[Here].c = 0
      BY <1>1, <2>1, <3>1 DEF MonitorStates, Here, Removable
    <3> QED BY <1>3, <3>1, <3>2 DEF UnusedWiped, table
  <2>2. CASE ~Removable(Here)
    BY <1>1, <1>3, <1>6, <2>2, AdvanceType DEF handle_delete_servers, UnusedWiped, table
  <2> QED BY <2>1, <2>2
<1>7. CASE Wake \/ EndOfScan \/ TestLast \/ check_server_state \/ ProbeAborts
  <2>1. monitor'.at # "wipe"
    <3>1. CASE EndOfScan
      <4>1. CASE monitor.kind = "members"
        BY <1>1, <3>1, <4>1 DEF EndOfScan, MonitorStates
      <4>2. CASE monitor.kind = "clones"
        BY <1>1, <3>1, <4>2 DEF EndOfScan, MonitorStates
      <4> QED BY <1>1, <4>1, <4>2 DEF MonitorStates
    <3>2. CASE check_server_state
      BY <1>1, <3>2, AdvanceType DEF check_server_state, MonitorStates
    <3>3. CASE ProbeAborts
      BY <1>1, <3>3, AdvanceType DEF ProbeAborts
    <3>4. CASE TestLast
      BY <1>1, <3>4 DEF TestLast, MonitorStates
    <3> QED BY <1>7, <3>1, <3>2, <3>3, <3>4 DEF Wake
  <2> QED BY <1>3, <1>7, <2>1
          DEF Wake, EndOfScan, TestLast, check_server_state, ProbeAborts, UnusedWiped, table
<1> QED BY <1>4, <1>5, <1>6, <1>7, <1>8, <1>9 DEF Monitor

LEMMA AdminCounted ==
  ASSUME Room, "connect" \notin Interleaved, Typed, Placed, Counted, Admin
  PROVE  Counted'
<1>1. TypeOK /\ Here \in Cells /\ \A k \in Kinds : n[k] \in Nat
  BY HereCell DEF Typed, TypeOK
<1>2. Choosing = {} /\ UNCHANGED <<links, monitor>> /\ Here' = Here
  <2>1. Choosing = {} /\ UNCHANGED <<links, monitor>>
    BY DEF Admin, cmd_create, CountServer, cmd_delete, cmd_enable, cmd_disable, cmd_clone_mode,
           AdminIdle, AdminMay, MasterInside
  <2> QED BY <2>1 DEF Here
<1>3. ASSUME NEW k \in Kinds, cmd_create(k) PROVE Counted'
  <2>1. PICK i \in 0..(MAXSERVERS - 1) :
           /\ <<k, i>> \in Cells
           /\ \A x \in Cells : servers'[x] = IF x = <<k, i>> THEN NewServer ELSE servers[x]
           /\ \/ i < n[k] /\ servers[<<k, i>>].status = "FREE"
              \/ i = n[k]
    BY <1>1, <1>3, CreatePlaces
  <2>2. Linked(<<k, i>>) = {}
    BY <1>1, <2>1, LinkedSlots
  <2>3. UNCHANGED n
    BY <1>3 DEF cmd_create
  <2>4. \A x \in Cells : Linked(x) = {} => servers'[x].c = 0
    BY <2>1, LinkedSlots DEF NewServer
  <2>5. \A x \in Cells : Linked(x) # {} =>
           /\ servers'[x] = servers[x] /\ servers[x].status # "FREE" /\ x[2] < n'[x[1]]
    BY <2>1, <2>2, <2>3, LinkedSlots
  <2>6. UnusedWiped'
    BY <1>1, <1>2, <2>1 DEF Counted, UnusedWiped, NewServer
  <2> QED BY <1>1, <1>2, <2>4, <2>5, <2>6, OthersCounted
<1>4. CASE CountServer
  <2>1. UNCHANGED servers /\ \A x \in Cells : x[2] < n[x[1]] => x[2] < n'[x[1]]
    <3>1. ASSUME NEW x \in Cells, x[2] < n[x[1]] PROVE x[2] < n'[x[1]]
      <4>1. x[1] \in Kinds /\ x[2] \in Int
        BY CellsAre
      <4>2. n'[x[1]] = n[x[1]] \/ n'[x[1]] = n[x[1]] + 1
        BY <1>1, <1>4, <4>1 DEF CountServer, TypeOK
      <4> QED BY <1>1, <3>1, <4>1, <4>2
    <3> QED BY <1>4, <3>1 DEF CountServer
  <2>2. UnusedWiped'
    BY <1>2, <2>1 DEF Counted, UnusedWiped
  <2> QED BY <1>1, <1>2, <2>1, <2>2, LinkedSlots, OthersCounted
<1>5. CASE cmd_delete \/ cmd_enable \/ cmd_disable \/ cmd_clone_mode
  <2>1. UNCHANGED n /\ Commanded
    BY <1>1, <1>5, CommandIs
  <2>2. UnusedWiped'
    BY <1>1, <1>2, <2>1 DEF Counted, UnusedWiped, Commanded
  <2>3. \A x \in Cells : Linked(x) = {} => servers'[x].c = 0
    BY <2>1, LinkedSlots DEF Commanded
  <2>4. \A x \in Cells : Linked(x) # {} =>
           /\ servers'[x].c = servers[x].c /\ servers'[x].name = servers[x].name
           /\ servers'[x].status # "FREE" /\ x[2] < n'[x[1]]
    BY <2>1, LinkedSlots DEF Commanded
  <2> QED BY <1>1, <1>2, <2>2, <2>3, <2>4, OthersCounted
<1> QED BY <1>3, <1>4, <1>5 DEF Admin

LEMMA InitCounted == Init => Counted
<1> SUFFICES ASSUME Init PROVE Counted
  OBVIOUS
<1>1. \A l \in Links : links[l].at = "idle"
  BY DEF Init, Idle
<1>2. \A x \in Cells : Linked(x) = {} /\ Cardinality(Linked(x)) = 0
  BY <1>1, LinkedFinite DEF Linked
<1>3. \A x \in Cells : servers[x].c = 0
  BY DEF Init, Cleared
<1>4. CountsLive
  BY <1>2, <1>3, CountsAre
<1>5. LinksKeepServer /\ LinksPlaced
  BY <1>1 DEF LinksKeepServer, LinksPlaced
<1>6. UnusedWiped
  BY DEF Init, UnusedWiped
<1> QED BY <1>4, <1>5, <1>6 DEF Counted

LEMMA NextCounted ==
  Room /\ "connect" \notin Interleaved /\ Typed /\ Placed /\ Counted /\ [Next]_vars => Counted'
<1>1. ASSUME Counted, UNCHANGED vars PROVE Counted'
  BY <1>1 DEF vars, table, Counted, LinksPlaced, UnusedWiped, CountsLive, LinksKeepServer, Here, Cell
<1> QED BY <1>1, ChooseCounted, ConnectCounted, DisconnectCounted, MonitorCounted, AdminCounted
        DEF Next, Master

LEMMA AlwaysCounted ==
  Room /\ Undivided /\ "connect" \notin Interleaved /\ Spec => []Counted
<1>1. ASSUME Room, Undivided, "connect" \notin Interleaved PROVE Spec => []Counted
  <2>1. (Typed /\ Placed) /\ Counted /\ [Next]_vars => Counted'
    BY <1>1, NextCounted
  <2>2. Spec => [](Typed /\ Placed)
    BY <1>1, AlwaysPlaced
  <2> QED BY <2>1, <2>2, InitCounted, PTL DEF Spec
<1> QED BY <1>1

\* CountsLive: with room for the members, and while no other process works on
\* the table between the choice of a server and the connection to it, nor between
\* the clearing of a slot and the end of its removal, SERVER.c is the number of
\* connections to the server.
THEOREM CountsStayLive ==
  Room /\ Interleaved \cap {"connect", "shrink"} = {} /\ Spec => []CountsLive
<1>1. Counted => CountsLive
  BY DEF Counted
<1>2. Interleaved \cap {"connect", "shrink"} = {} => Undivided /\ "connect" \notin Interleaved
  BY DEF Undivided
<1> QED BY <1>1, <1>2, AlwaysCounted, PTL

\* LinksKeepServer: under the same conditions no connection is left with a slot
\* that was cleared or given to another server.
THEOREM ConnectionsKeepServer ==
  Room /\ Interleaved \cap {"connect", "shrink"} = {} /\ Spec => []LinksKeepServer
<1>1. Counted => LinksKeepServer
  BY DEF Counted
<1>2. Interleaved \cap {"connect", "shrink"} = {} => Undivided /\ "connect" \notin Interleaved
  BY DEF Undivided
<1> QED BY <1>1, <1>2, AlwaysCounted, PTL

=============================================================================
