------------------------------ MODULE Registry ------------------------------
(****************************************************************************)
(* The server table of the BALANCER structure (octopus.h:251-298) and the   *)
(* three processes that work on it in shared memory without any lock:       *)
(*   - the master chooses a server for a client, connects to it and counts  *)
(*     the connection;                                                      *)
(*   - the monitor removes deleted servers and checks the health of the     *)
(*     others, waiting up to connect_timeout seconds for each answer;       *)
(*   - the admin creates, deletes, enables and disables servers.            *)
(*                                                                          *)
(* Some operations take more than one step.  Interleaved says between which *)
(* of their steps the other processes can step; between the others the      *)
(* operation goes on without interruption:                                  *)
(*   "probe"    status read, the server contacted, status written           *)
(*   "wipe"     a deleted server found unused, then its slot cleared        *)
(*   "shrink"   a slot cleared, then given back or marked free              *)
(*   "create"   a server appended, then the number of servers increased     *)
(*   "connect"  a server chosen, then the connection made and counted       *)
(****************************************************************************)
EXTENDS Integers, FiniteSets

CONSTANTS
  MAXSERVERS,   \* slots of each of the two server arrays
  Links,        \* connections of the master to servers
  MaxCreates,   \* bound: servers the admin creates
  maxc,         \* SERVER.maxc, the same for every server
  Configured,   \* number of members and of clones in the configuration file
  Interleaved   \* where other processes can interrupt an operation

ASSUME SizeAssumption ==
  MAXSERVERS \in Nat \ {0} /\ MaxCreates \in Nat /\ maxc \in Nat
ASSUME ConfiguredAssumption ==
  /\ Configured \in [{"members", "clones"} -> 0..MAXSERVERS]
  /\ Configured["members"] + Configured["clones"] <= MaxCreates
ASSUME LinksAssumption == IsFiniteSet(Links)
ASSUME InterleavedAssumption ==
  Interleaved \subseteq {"probe", "wipe", "shrink", "create", "connect"}

Kinds    == {"members", "clones"}
Cells    == Kinds \X (0..(MAXSERVERS - 1))
Statuses == {"FREE", "DELETED", "FAILED", "DISABLED", "ENABLED"}
NoServer == 0
Names    == 1..MaxCreates
Cleared  == [status |-> "FREE", c |-> 0, name |-> NoServer]
Idle     == [at |-> "idle"]

VARIABLES
  servers,      \* cell -> status, c and name of the SERVER in it
  n,            \* nmembers and nclones
  clone_mode,   \* balancer->clone_mode
  links,        \* what the master does for each link
  monitor,      \* where the monitor is in its loop: at, kind, i
  admin,        \* the admin is idle or about to count a new server
  created       \* servers created so far, the last one's name

table == <<servers, n, clone_mode>>
vars  == <<table, links, monitor, admin, created>>

\* The cell at index i of an array: members[MAXSERVERS] is clones[0].
Cell(k, i) == IF i < MAXSERVERS THEN <<k, i>> ELSE <<"clones", 0>>

InUse(k) == {Cell(k, i) : i \in 0..(n[k] - 1)}

-----------------------------------------------------------------------------
(* Interruption: a process may step unless another one is where it is not    *)
(* interrupted.                                                              *)

MonitorInside ==
  \/ monitor.at = "probe" /\ "probe" \notin Interleaved
  \/ monitor.at = "wipe" /\ "wipe" \notin Interleaved
  \/ monitor.at \in {"cleared", "last", "inner"} /\ "shrink" \notin Interleaved

AdminInside == admin.at = "counting" /\ "create" \notin Interleaved

Choosing == {l \in Links : links[l].at = "chosen"}

MasterInside == Choosing # {} /\ "connect" \notin Interleaved

MonitorMay == ~AdminInside /\ ~MasterInside
AdminMay   == ~MonitorInside /\ ~MasterInside
MasterMay  == ~MonitorInside /\ ~AdminInside

-----------------------------------------------------------------------------
\* Mutant: clone mode never recovers.
set_cloned_state_for_good(newServers, newMode) ==
  LET enabled == \E cell \in InUse("clones") : newServers[cell].status = "ENABLED"
  IN  clone_mode' = IF newMode = "ON" /\ ~enabled THEN "FAILED" ELSE newMode

\* set_cloned_state(): ON fails when no clone is enabled, FAILED recovers when
\* one is.  newServers and newMode are the values it finds.
set_cloned_state(newServers, newMode) ==
  LET enabled == \E cell \in InUse("clones") : newServers[cell].status = "ENABLED"
  IN  clone_mode' = CASE newMode = "ON" /\ ~enabled    -> "FAILED"
                      [] newMode = "FAILED" /\ enabled -> "ON"
                      [] OTHER                         -> newMode

-----------------------------------------------------------------------------
(* The master.                                                               *)

\* get_available_servers() and verify_server(): an enabled server below maxc.
\* Which of them the algorithm picks does not matter here.
Available(k) == {cell \in InUse(k) : servers[cell].status = "ENABLED" /\ servers[cell].c < maxc}

\* A clone is chosen only in clone mode ON.
choose_server(l) ==
  /\ MasterMay /\ Choosing = {}
  /\ links[l] = Idle
  /\ \E k \in Kinds :
       /\ k = "clones" => clone_mode = "ON"
       /\ \E cell \in Available(k) :
            links' = [links EXCEPT ![l] = [at |-> "chosen", cell |-> cell]]
  /\ UNCHANGED <<table, monitor, admin, created>>

\* connect_server() connects to the server now in the chosen cell and counts
\* the connection, or fails.
connect_server(l) ==
  /\ MasterMay
  /\ links[l].at = "chosen"
  /\ LET cell == links[l].cell
     IN  \/ /\ servers' = [servers EXCEPT ![cell].c = @ + 1]
            /\ links' = [links EXCEPT ![l] =
                 [at |-> "linked", cell |-> cell, name |-> servers[cell].name]]
         \/ /\ links' = [links EXCEPT ![l] = Idle]
            /\ UNCHANGED servers
  /\ UNCHANGED <<n, clone_mode, monitor, admin, created>>

\* Mutant: the connection is not counted down.
disconnect_uncounted(l) ==
  /\ MasterMay /\ Choosing = {}
  /\ links[l].at = "linked"
  /\ links' = [links EXCEPT ![l] = Idle]
  /\ UNCHANGED <<table, monitor, admin, created>>

\* disconnect_member(), disconnect_clone(): the count of the cell goes down.
disconnect(l) ==
  /\ MasterMay /\ Choosing = {}
  /\ links[l].at = "linked"
  /\ servers' = [servers EXCEPT ![links[l].cell].c = @ - 1]
  /\ links' = [links EXCEPT ![l] = Idle]
  /\ UNCHANGED <<n, clone_mode, monitor, admin, created>>

Master == \E l \in Links : choose_server(l) \/ connect_server(l) \/ disconnect(l)

-----------------------------------------------------------------------------
(* The monitor: its loop sleeps, then handles deletions in both arrays, then *)
(* checks every server of both arrays.                                       *)

Here == Cell(monitor.kind, monitor.i)

Advance(stage) == monitor' = [monitor EXCEPT !.at = stage, !.i = @ + 1]

Wake ==
  /\ MonitorMay
  /\ monitor.at = "sleep"
  /\ monitor' = [at |-> "delete", kind |-> "members", i |-> 0]
  /\ UNCHANGED <<table, links, admin, created>>

\* Mutant: the second loop of handle_delete_servers() is missing.
EndOfScan_members_only ==
  /\ MonitorMay
  /\ monitor.at \in {"delete", "check"}
  /\ monitor.i >= n[monitor.kind]
  /\ monitor' = CASE monitor.at = "delete" -> [at |-> "check", kind |-> "members", i |-> 0]
                  [] monitor.at = "check" /\ monitor.kind = "members"
                       -> [monitor EXCEPT !.kind = "clones", !.i = 0]
                  [] OTHER -> [at |-> "sleep", kind |-> "members", i |-> 0]
  /\ UNCHANGED <<table, links, admin, created>>

\* The end of one of the four scans: the next one starts.
EndOfScan ==
  /\ MonitorMay
  /\ monitor.at \in {"delete", "check"}
  /\ monitor.i >= n[monitor.kind]
  /\ monitor' = CASE monitor.kind = "members" -> [monitor EXCEPT !.kind = "clones", !.i = 0]
                  [] monitor.kind = "clones" /\ monitor.at = "delete"
                       -> [at |-> "check", kind |-> "members", i |-> 0]
                  [] OTHER -> [at |-> "sleep", kind |-> "members", i |-> 0]
  /\ UNCHANGED <<table, links, admin, created>>

\* Mutant: active connections are not considered.
Removable_in_use(cell) == servers[cell].status = "DELETED"

Removable(cell) == servers[cell].status = "DELETED" /\ servers[cell].c = 0

\* handle_delete_servers(): the test of one slot.
handle_delete_servers ==
  /\ MonitorMay
  /\ monitor.at = "delete"
  /\ monitor.i < n[monitor.kind]
  /\ IF Removable(Here) THEN monitor' = [monitor EXCEPT !.at = "wipe"]
                        ELSE Advance("delete")
  /\ UNCHANGED <<table, links, admin, created>>

\* The memset() of the slot; a slot of zeros reads as FREE.
Wipe ==
  /\ MonitorMay
  /\ monitor.at = "wipe"
  /\ servers' = [servers EXCEPT ![Here] = Cleared]
  /\ monitor' = [monitor EXCEPT !.at = "cleared"]
  /\ UNCHANGED <<n, clone_mode, links, admin, created>>

\* Mutant: the array always shrinks.
TestLast_always ==
  /\ MonitorMay
  /\ monitor.at = "cleared"
  /\ monitor' = [monitor EXCEPT !.at = "last"]
  /\ UNCHANGED <<table, links, admin, created>>

\* Is it the last slot of the array?
TestLast ==
  /\ MonitorMay
  /\ monitor.at = "cleared"
  /\ monitor' = [monitor EXCEPT
                   !.at = IF monitor.i = n[monitor.kind] - 1 THEN "last" ELSE "inner"]
  /\ UNCHANGED <<table, links, admin, created>>

\* The last slot is given back.  The decrement works on the number in memory or
\* on the one that was read for the test.
GiveBack ==
  /\ MonitorMay
  /\ monitor.at = "last"
  /\ \E size \in {n[monitor.kind] - 1, monitor.i} : n' = [n EXCEPT ![monitor.kind] = size]
  /\ Advance("delete")
  /\ UNCHANGED <<servers, clone_mode, links, admin, created>>

\* Another slot stays in the array and is marked, whatever it holds by now.
MarkFree ==
  /\ MonitorMay
  /\ monitor.at = "inner"
  /\ servers' = [servers EXCEPT ![Here].status = "FREE"]
  /\ Advance("delete")
  /\ UNCHANGED <<n, clone_mode, links, admin, created>>

\* check_server_state(): only an enabled or a failed server is contacted.
check_server_state ==
  /\ MonitorMay
  /\ monitor.at = "check"
  /\ monitor.i < n[monitor.kind]
  /\ IF servers[Here].status \in {"ENABLED", "FAILED"}
     THEN monitor' = [monitor EXCEPT !.at = "probe"]
     ELSE Advance("check")
  /\ UNCHANGED <<table, links, admin, created>>

\* The answer, or its absence, is written whatever the status is by now.
ProbeConcludes ==
  /\ MonitorMay
  /\ monitor.at = "probe"
  /\ \E status \in {"ENABLED", "FAILED"} :
       servers' = [servers EXCEPT ![Here].status = status]
  /\ set_cloned_state(servers', clone_mode)
  /\ Advance("check")
  /\ UNCHANGED <<n, links, admin, created>>

\* No socket, or connect() refused at once: nothing is written.
ProbeAborts ==
  /\ MonitorMay
  /\ monitor.at = "probe"
  /\ Advance("check")
  /\ UNCHANGED <<table, links, admin, created>>

Monitor == Wake \/ EndOfScan \/ handle_delete_servers \/ Wipe \/ TestLast \/ GiveBack
             \/ MarkFree \/ check_server_state \/ ProbeConcludes \/ ProbeAborts

-----------------------------------------------------------------------------
(* The admin's commands.                                                     *)

AdminIdle == AdminMay /\ admin = Idle

NewServer == [status |-> "DISABLED", c |-> 0, name |-> created + 1]

FreeSlots(k) == {i \in 0..(n[k] - 1) : servers[Cell(k, i)].status = "FREE"}

\* create_balancer_server(): the first free slot, or the end of the array with
\* no test against MAXSERVERS.  What lies behind the clones is not modelled.
cmd_create(k) ==
  /\ AdminIdle
  /\ created < MaxCreates
  /\ created' = created + 1
  /\ IF FreeSlots(k) # {}
     THEN LET i == CHOOSE i \in FreeSlots(k) : \A j \in FreeSlots(k) : i <= j
          IN  /\ servers' = [servers EXCEPT ![Cell(k, i)] = NewServer]
              /\ UNCHANGED admin
     ELSE /\ k = "clones" => n[k] < MAXSERVERS
          /\ servers' = [servers EXCEPT ![Cell(k, n[k])] = NewServer]
          /\ admin' = [at |-> "counting", kind |-> k]
  /\ UNCHANGED <<n, clone_mode, links, monitor>>

\* The number of servers is increased.
CountServer ==
  /\ AdminMay
  /\ admin.at = "counting"
  /\ n' = [n EXCEPT ![admin.kind] = @ + 1]
  /\ admin' = Idle
  /\ UNCHANGED <<servers, clone_mode, links, monitor, created>>

\* set_subject(): the servers a command may act on, one of them or (for some
\* commands) all of them.
Subjects == {cell \in UNION {InUse(k) : k \in Kinds} :
               servers[cell].status \notin {"FREE", "DELETED"}}

OneOrAll == {{cell} : cell \in Subjects} \cup {Subjects}

SetStatus(cells, status) ==
  servers' = [cell \in Cells |-> IF cell \in cells
                                 THEN [servers[cell] EXCEPT !.status = status]
                                 ELSE servers[cell]]

cmd_delete ==
  /\ AdminIdle
  /\ \E cell \in Subjects : SetStatus({cell}, "DELETED")
  /\ UNCHANGED <<n, clone_mode, links, monitor, admin, created>>

cmd_enable ==
  /\ AdminIdle
  /\ \E targets \in OneOrAll :
       SetStatus({cell \in targets : servers[cell].status = "DISABLED"}, "ENABLED")
  /\ set_cloned_state(servers', clone_mode)
  /\ UNCHANGED <<n, links, monitor, admin, created>>

cmd_disable ==
  /\ AdminIdle
  /\ \E targets \in OneOrAll :
       SetStatus({cell \in targets : servers[cell].status \in {"ENABLED", "FAILED"}},
                 "DISABLED")
  /\ set_cloned_state(servers', clone_mode)
  /\ UNCHANGED <<n, links, monitor, admin, created>>

cmd_clone_mode ==
  /\ AdminIdle
  /\ \E mode \in {"ON", "OFF"} : set_cloned_state(servers, mode)
  /\ UNCHANGED <<servers, n, links, monitor, admin, created>>

Admin == (\E k \in Kinds : cmd_create(k)) \/ CountServer \/ cmd_delete
           \/ cmd_enable \/ cmd_disable \/ cmd_clone_mode

-----------------------------------------------------------------------------
\* The table as parse_config_file() leaves it, every server enabled.
Init ==
  /\ n = Configured
  /\ servers = [cell \in Cells |->
       IF cell[2] < Configured[cell[1]]
       THEN [status |-> "ENABLED", c |-> 0,
             name |-> cell[2] + 1 + IF cell[1] = "members" THEN 0
                                    ELSE Configured["members"]]
       ELSE Cleared]
  /\ created = Configured["members"] + Configured["clones"]
  /\ clone_mode \in {"OFF", "ON"}
  /\ links = [l \in Links |-> Idle]
  /\ monitor = [at |-> "sleep", kind |-> "members", i |-> 0]
  /\ admin = Idle

Next == Master \/ Monitor \/ Admin

Spec == Init /\ [][Next]_vars

\* The monitor never stops, and contacting a server is not for ever prevented
\* by a lack of sockets; the master finishes what it began and clients leave.
\* Fairness is strong because an operation that is not interleaved keeps the
\* other processes from stepping, which no process of the program does.
Fairness ==
  /\ SF_vars(Monitor)
  /\ SF_vars(ProbeConcludes)
  /\ SF_vars(CountServer)
  /\ \A l \in Links : SF_vars(connect_server(l)) /\ SF_vars(disconnect(l))

FairSpec == Spec /\ Fairness

-----------------------------------------------------------------------------
(* Properties.                                                               *)

\* Every variable has its type; nmembers and nclones never go below zero.
TypeOK ==
  /\ servers \in [Cells -> [status : Statuses, c : Int, name : {NoServer} \cup Names]]
  /\ n \in [Kinds -> Nat]
  /\ clone_mode \in {"OFF", "ON", "FAILED"}
  /\ links \in [Links -> {Idle} \cup [at : {"chosen"}, cell : Cells]
                  \cup [at : {"linked"}, cell : Cells, name : {NoServer} \cup Names]]
  /\ monitor \in [at : {"sleep", "delete", "wipe", "cleared", "last", "inner", "check", "probe"},
                  kind : Kinds, i : Nat]
  /\ admin \in {Idle} \cup [at : {"counting"}, kind : Kinds]
  /\ created \in 0..MaxCreates

\* "current number of connections" (octopus.h:206): SERVER.c is the number of
\* connections the master has to that server.
CountsLive ==
  \A cell \in Cells :
    servers[cell].c =
      Cardinality({l \in Links : links[l].at = "linked" /\ links[l].cell = cell})

\* A session is never left pointing at a slot that was cleared or given to
\* another server: a server is removed only when its last connection is gone.
LinksKeepServer ==
  \A l \in Links : links[l].at = "linked" =>
    /\ servers[links[l].cell].name = links[l].name
    /\ servers[links[l].cell].status # "FREE"

\* "we are only interested if an ENABLED server has died or a FAILED server has
\* revived" (monitor.c:24): what the admin decided stands.  A deleted server
\* does not come back and a disabled one is not reported failed.
DecisionStands ==
  [][\A cell \in Cells :
       /\ servers[cell].status = "DELETED" => servers'[cell].status \in {"DELETED", "FREE"}
       /\ servers[cell].status = "DISABLED" => servers'[cell].status # "FAILED"]_vars

\* The server is in the table: in a slot in use that is not marked free.
Present(name) ==
  \E k \in Kinds : \E cell \in InUse(k) :
    servers[cell].name = name /\ servers[cell].status # "FREE"

Deleted(name) ==
  \E cell \in Cells : servers[cell].name = name /\ servers[cell].status = "DELETED"

\* The servers whose creation the admin has reported.
Reported == 1..(IF admin = Idle THEN created ELSE created - 1)

\* "created member server \"%s\" successfully" (admin.c:649): a server whose
\* creation is reported is in the table from then on until it is deleted.  Not
\* so when the monitor ends the removal of another server between the two steps
\* of the creation ("create"), or when the server was created into the slot that
\* the monitor has cleared and is about to give back or to mark ("shrink").
CreationSucceeds ==
  [][\A name \in Reported' :
       Present(name)' \/ (name \in Reported /\ (Present(name) => Deleted(name)))]_vars

\* A server that is in the table leaves it only when it has been deleted, as
\* long as no creation falls between the clearing of a slot and the end of its
\* removal ("shrink" not interleaved; CreationSucceeds shows the other case).
NoServerLost ==
  [][\A name \in Names : Present(name) /\ ~Present(name)' => Deleted(name)]_vars

\* "Watch for servers that have been deleted and remove them when possible"
\* (monitor.c:282): no server stays deleted.  It is removed, unless a health
\* check that had begun before overwrites the deletion (DecisionStands).
DeletedRemoved == \A name \in Names : Deleted(name) ~> ~Deleted(name)

\* "if clone mode is in the failed state then we will scan for at least one
\* enabled clone" (octopus.h:377): clone mode does not stay failed while a clone
\* stays enabled.
CloneModeRecovers ==
  (clone_mode = "FAILED" /\ \E cell \in InUse("clones") : servers[cell].status = "ENABLED")
    ~> ~(clone_mode = "FAILED" /\ \E cell \in InUse("clones") : servers[cell].status = "ENABLED")

=============================================================================
