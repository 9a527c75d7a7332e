------------------------------ MODULE Selection ------------------------------
(****************************************************************************)
(* How the master picks a member, and in clone mode a clone, for a request: *)
(* algorithms.c with the state it works on.  next_member and next_clone are *)
(* globals that survive from one request to the next while the admin and    *)
(* the monitor change the server table under them; the hash table pins URIs *)
(* to members and hash_table_usage counts the pins of each.                 *)
(*                                                                          *)
(* A choice and the connection that follows are not interrupted here; what  *)
(* an interruption does is the subject of module Registry.  For HASH and    *)
(* STATIC a request is the hash of its URI, or NoUri when its first line is *)
(* not "VERB NOUN".                                                         *)
(****************************************************************************)
EXTENDS Integers, FiniteSets

CONSTANTS
  Slots,           \* number of slots of the members and the clones array
  maxc,            \* SERVER.maxc of each server
  maxl,            \* SERVER.maxl, the same for every server
  Loads,           \* loads the SNMP agents report
  session_weight,  \* load a connection stands for (LL)
  Hashes,          \* values DJBHash() takes
  threshold,       \* hash_rebalance_threshold
  size,            \* hash_rebalance_size, in percent
  MaxChanges       \* bound: changes the admin and the monitor make

Kinds      == {"members", "clones"}
Ids(k)     == 0..(Slots[k] - 1)
Algorithms == {"RR", "LC", "LL", "HASH", "STATIC"}
HASH_VAL_FREE == -1
SNMP_LOAD_NOT_INIT == -1
NoUri      == -1

ASSUME SlotsAssumption == Slots \in [Kinds -> Nat \ {0}]
ASSUME LimitAssumption ==
  /\ \A k \in Kinds : maxc[k] \in [Ids(k) -> Nat]
  /\ maxl \in Nat \ {0} /\ session_weight \in Nat
  /\ threshold \in Nat /\ size \in Nat /\ MaxChanges \in Nat
ASSUME InputAssumption ==
  Loads \subseteq Int /\ Hashes \subseteq Nat /\ IsFiniteSet(Hashes)

VARIABLES
  servers,           \* kind -> id -> status, standby, c, load
  next,              \* next_member and next_clone
  hash_table,        \* hash -> id of a member or HASH_VAL_FREE
  hash_table_usage,  \* SERVER.hash_table_usage of the members
  algorithm, overload_mode, clone_mode,
  choice,            \* what choose_server() has just decided, until connected
  passed,            \* RR: how often each member was passed over in a row, the
                     \* available members that was counted for, and whether
                     \* the round was restarted
  changes            \* changes made so far

hashing  == <<hash_table, hash_table_usage>>
settings == <<algorithm, overload_mode, clone_mode>>
vars     == <<servers, next, hashing, settings, choice, passed, changes>>

-----------------------------------------------------------------------------
(* get_available_servers() and verify_server().                              *)

\* calc_effective_load() runs after every round of SNMP checks, and what else
\* sets the load sets e_load too.
e_load(k, i) ==
  IF servers[k][i].load <= 0 THEN 0 ELSE (servers[k][i].load * 100) \div maxl

Usable(k, i) ==
  /\ servers[k][i].status = "ENABLED"
  /\ servers[k][i].c < maxc[k][i]
  /\ overload_mode = "STRICT" => e_load(k, i) <= 100

Normal(k) == {i \in Ids(k) : Usable(k, i) /\ ~servers[k][i].standby}

\* Mutant: normal and standby servers are considered together.
Available_any(k) == {i \in Ids(k) : Usable(k, i)}

\* available_members, available_clones: standbys only if there is nothing else.
Available(k) ==
  LET normal == Normal(k)
  IN  IF normal # {} THEN normal ELSE {i \in Ids(k) : Usable(k, i)}

First(S) == CHOOSE x \in S : \A y \in S : x <= y

use_clone == clone_mode = "ON" /\ Available("clones") # {}

\* A normal server is to be preferred to the standby whose turn it is.
StandbyInVain(k) == servers[k][next[k]].standby /\ Normal("members") # {}

\* The turn of a standby clone in vain.
RoundRestarted ==
  use_clone /\ Usable("clones", next["clones"]) /\ StandbyInVain("clones")

\* Mutant: next_member is not verified.
Verified_unchecked(k) == next[k]

\* next_member and next_clone when get_available_servers() returns.  A standby
\* clone in vain resets next_member (sic), not next_clone.
Verified(k) ==
  CASE k = "members" /\ ~Usable(k, next[k]) -> First(Available(k))
    [] k = "members" /\ StandbyInVain(k)    -> First(Available(k))
    [] k = "members" /\ RoundRestarted      -> First(Available(k))
    [] k = "clones" /\ use_clone /\ ~Usable(k, next[k]) -> First(Available(k))
    [] OTHER -> next[k]

-----------------------------------------------------------------------------
(* The algorithms.  Each works on one array after the other.                 *)

Applies(k) == k = "members" \/ use_clone

\* Mutant: the round ends at the last server.
set_rr_server_no_wrap(k) ==
  LET S == Available(k)
      i == Verified(k)
  IN  IF ~Applies(k) \/ i \notin S THEN i
      ELSE IF \E j \in S : j > i THEN First({j \in S : j > i}) ELSE i

\* Mutant: the index after the last one is not brought back to the start.
set_rr_server_past_end(k) ==
  IF ~Applies(k) \/ Verified(k) \notin Available(k) THEN Verified(k) ELSE Verified(k) + 1

set_rr_server(k) ==
  LET S == Available(k)
      i == Verified(k)
  IN  IF ~Applies(k) \/ i \notin S THEN i
      ELSE IF \E j \in S : j > i THEN First({j \in S : j > i}) ELSE First(S)

\* The scan for a server with a smaller cost than the one at hand.
Least(S, i, cost) ==
  LET better == {j \in S : cost[j] < cost[i]}
  IN  IF better = {} THEN i
      ELSE First({j \in better : \A l \in better : cost[j] <= cost[l]})

connections(k) == [i \in Ids(k) |-> servers[k][i].c]

weighted_load(k) ==
  [i \in Ids(k) |-> servers[k][i].load + servers[k][i].c * session_weight]

\* Mutant: the load alone.
set_ll_server_unweighted(k) ==
  IF Applies(k) THEN Least(Available(k), Verified(k), [i \in Ids(k) |-> servers[k][i].load])
                ELSE Verified(k)

set_ll_server(k) ==
  IF Applies(k) THEN Least(Available(k), Verified(k), weighted_load(k)) ELSE Verified(k)

set_lc_server(k) ==
  IF Applies(k) THEN Least(Available(k), set_rr_server(k), connections(k)) ELSE Verified(k)

\* Entry hash % count of available_members or available_clones.
Nth(S, hash) ==
  CHOOSE i \in S : Cardinality({j \in S : j < i}) = hash % Cardinality(S)

set_static_server(k, uri) ==
  CASE uri = NoUri -> set_lc_server(k)
    [] uri # NoUri /\ Applies(k)  -> Nth(Available(k), uri)
    [] uri # NoUri /\ ~Applies(k) -> Verified(k)

\* A hit: the member the URI is pinned to can be used.
Hit(uri) ==
  /\ uri # NoUri
  /\ hash_table[uri] # HASH_VAL_FREE
  /\ Usable("members", hash_table[uri])
  /\ servers["members"][hash_table[uri]].standby => Normal("members") = {}

set_hash_server(k, uri) ==
  CASE Hit(uri) /\ k = "members" -> hash_table[uri]
    [] Hit(uri) /\ k = "clones" /\ use_clone  -> Nth(Available(k), uri)
    [] Hit(uri) /\ k = "clones" /\ ~use_clone -> Verified(k)
    [] ~Hit(uri) -> set_lc_server(k)

\* Mutant: the old member's pins are not counted down.
Pin_uncounted(uri, i) ==
  /\ hash_table' = [hash_table EXCEPT ![uri] = i]
  /\ hash_table_usage' = [hash_table_usage EXCEPT ![i] = @ + 1]

\* A miss, or a member that cannot be used: the URI is pinned to member i.
Pin(uri, i) ==
  /\ hash_table' = [hash_table EXCEPT ![uri] = i]
  /\ hash_table_usage' =
       [j \in Ids("members") |->
          hash_table_usage[j] + (IF j = i THEN 1 ELSE 0)
                              - (IF j = hash_table[uri] THEN 1 ELSE 0)]

Selected(k, uri) ==
  CASE algorithm = "RR"     -> set_rr_server(k)
    [] algorithm = "LL"     -> set_ll_server(k)
    [] algorithm = "LC"     -> set_lc_server(k)
    [] algorithm = "HASH"   -> set_hash_server(k, uri)
    [] algorithm = "STATIC" -> set_static_server(k, uri)

-----------------------------------------------------------------------------
(* The master.                                                               *)

NoChoice == [at |-> "none"]

NothingPassed == [avail |-> {}, restarted |-> FALSE,
                  times |-> [i \in Ids("members") |-> 0]]

\* History, for RoundRobinFair: the members available and not chosen by RR in
\* consecutive choices from the same available members, with clones and
\* without, and whether the last of these choices was RoundRestarted.  Such a
\* choice ends the round, and the next one counts anew.
PassedOver(chosen) ==
  LET avail == Available("members")
      goesOn == passed.avail = avail /\ ~passed.restarted
  IN  IF algorithm = "RR"
      THEN [avail |-> avail,
            restarted |-> RoundRestarted,
            times |-> [i \in Ids("members") |->
              IF i \notin avail \ {chosen} THEN 0
              ELSE IF goesOn THEN passed.times[i] + 1 ELSE 1]]
      ELSE NothingPassed

choose_server(uri) ==
  /\ choice = NoChoice
  /\ IF Available("members") = {}
     THEN /\ choice' = [at |-> "rejected"]
          /\ UNCHANGED <<next, hashing, passed>>
     ELSE /\ next' = [k \in Kinds |-> Selected(k, uri)]
          /\ choice' = [at |-> "chosen", clone |-> use_clone]
          /\ IF algorithm = "HASH" /\ uri # NoUri /\ ~Hit(uri)
             THEN Pin(uri, next'["members"])
             ELSE UNCHANGED hashing
          /\ passed' = PassedOver(next'["members"])
  /\ UNCHANGED <<servers, settings, changes>>

\* connect_server(): no connection, one to the member, or one to the clone too.
connect_server ==
  /\ choice # NoChoice
  /\ choice' = NoChoice
  /\ \E done \in SUBSET {k \in Kinds : k = "clones" => choice.at = "chosen" /\ choice.clone} :
       /\ "members" \in done => choice.at = "chosen"
       /\ "clones" \in done => "members" \in done
       /\ servers' = [k \in Kinds |-> IF k \in done THEN [servers[k] EXCEPT ![next[k]].c = @ + 1]
                                                    ELSE servers[k]]
  /\ UNCHANGED <<next, hashing, settings, passed, changes>>

disconnect(k, i) ==
  /\ choice = NoChoice
  /\ servers[k][i].c > 0
  /\ servers' = [servers EXCEPT ![k][i].c = @ - 1]
  /\ UNCHANGED <<next, hashing, settings, choice, passed, changes>>

\* Only HASH and STATIC look at the request.
Requests == {NoUri} \cup (IF algorithm \in {"HASH", "STATIC"} THEN Hashes ELSE {})

Master ==
  \/ \E uri \in Requests : choose_server(uri)
  \/ connect_server
  \/ \E k \in Kinds : \E i \in Ids(k) : disconnect(k, i)

-----------------------------------------------------------------------------
(* The admin and the monitor, between two choices of the master.  MaxChanges *)
(* bounds the changes that can be repeated for ever; a removal follows a     *)
(* deletion and a creation a removal.                                        *)

Change ==
  /\ choice = NoChoice
  /\ changes < MaxChanges
  /\ changes' = changes + 1
  /\ UNCHANGED <<next, choice, passed>>

\* set_cloned_state(): ON fails when no clone is enabled, FAILED recovers when
\* one is.  newServers and newMode are the values it finds.
set_cloned_state(newServers, newMode) ==
  LET enabled == \E i \in Ids("clones") : newServers["clones"][i].status = "ENABLED"
  IN  clone_mode' = CASE newMode = "ON" /\ ~enabled    -> "FAILED"
                      [] newMode = "FAILED" /\ enabled -> "ON"
                      [] OTHER                         -> newMode

\* set_subject(): the servers a command may act on.
Subjects == {s \in UNION {{k} \X Ids(k) : k \in Kinds} :
               servers[s[1]][s[2]].status \notin {"FREE", "DELETED"}}

\* A command for one server or all of them gives those with a status in from
\* the status to.
SetStatus(from, to) ==
  /\ Change
  /\ \E targets \in {{s} : s \in Subjects} \cup {Subjects} :
       LET found == {s \in targets : servers[s[1]][s[2]].status \in from}
       IN  /\ found # {}
           /\ servers' = [k \in Kinds |-> [i \in Ids(k) |->
                IF <<k, i>> \in found THEN [servers[k][i] EXCEPT !.status = to]
                                      ELSE servers[k][i]]]
  /\ set_cloned_state(servers', clone_mode)
  /\ UNCHANGED <<hashing, algorithm, overload_mode>>

cmd_enable == SetStatus({"DISABLED"}, "ENABLED")

cmd_disable == SetStatus({"ENABLED", "FAILED"}, "DISABLED")

cmd_delete(k, i) ==
  /\ Change
  /\ <<k, i>> \in Subjects
  /\ servers' = [servers EXCEPT ![k][i].status = "DELETED"]
  /\ UNCHANGED <<hashing, settings>>

cmd_standby(k, i) ==
  /\ Change
  /\ <<k, i>> \in Subjects
  /\ servers' = [servers EXCEPT ![k][i].standby = ~@]
  /\ UNCHANGED <<hashing, settings>>

\* A server that does not answer also loses its load.
check_server_state(k, i) ==
  /\ Change
  /\ \/ /\ servers[k][i].status = "ENABLED"
        /\ servers' = [servers EXCEPT ![k][i].status = "FAILED",
                                      ![k][i].load = SNMP_LOAD_NOT_INIT]
     \/ /\ servers[k][i].status = "FAILED"
        /\ servers' = [servers EXCEPT ![k][i].status = "ENABLED"]
  /\ set_cloned_state(servers', clone_mode)
  /\ UNCHANGED <<hashing, algorithm, overload_mode>>

\* Mutant: the pins of a deleted member stay in the hash table.
handle_delete_servers_pinned(k, i) ==
  /\ choice = NoChoice
  /\ servers[k][i].status = "DELETED" /\ servers[k][i].c = 0
  /\ servers' = [servers EXCEPT ![k][i].status = "FREE"]
  /\ hash_table_usage' = [j \in Ids("members") |->
       IF k = "members" /\ j = i THEN 0 ELSE hash_table_usage[j]]
  /\ UNCHANGED <<hash_table, next, settings, choice, passed, changes>>

\* The slot is cleared; a member also loses its pins.
handle_delete_servers(k, i) ==
  /\ choice = NoChoice
  /\ servers[k][i].status = "DELETED" /\ servers[k][i].c = 0
  /\ servers' = [servers EXCEPT ![k][i].status = "FREE"]
  /\ hash_table' = [h \in Hashes |->
       IF k = "members" /\ hash_table[h] = i THEN HASH_VAL_FREE ELSE hash_table[h]]
  /\ hash_table_usage' = [j \in Ids("members") |->
       IF k = "members" /\ j = i THEN 0 ELSE hash_table_usage[j]]
  /\ UNCHANGED <<next, settings, choice, passed, changes>>

\* create_balancer_server().
NewServer == [status |-> "DISABLED", standby |-> FALSE, c |-> 0,
              load |-> SNMP_LOAD_NOT_INIT]

\* The first free slot: one of the array, or the one behind it.
cmd_create(k) ==
  LET free == {i \in Ids(k) : servers[k][i].status = "FREE"}
  IN  /\ choice = NoChoice
      /\ free # {}
      /\ servers' = [servers EXCEPT ![k][First(free)] = NewServer]
      /\ UNCHANGED <<next, hashing, settings, choice, passed, changes>>

check_server_snmp(k, i, load) ==
  /\ Change
  /\ servers[k][i].status \in {"ENABLED", "DISABLED"}
  /\ servers' = [servers EXCEPT ![k][i].load = load]
  /\ UNCHANGED <<hashing, settings>>

cmd_algorithm ==
  /\ Change
  /\ algorithm' \in Algorithms \ {algorithm}
  /\ UNCHANGED <<servers, hashing, overload_mode, clone_mode>>

cmd_overload_mode ==
  /\ Change
  /\ overload_mode' \in {"RELAXED", "STRICT"} \ {overload_mode}
  /\ UNCHANGED <<servers, hashing, algorithm, clone_mode>>

cmd_clone_mode ==
  /\ Change
  /\ \E mode \in {"OFF", "ON"} : set_cloned_state(servers, mode)
  /\ UNCHANGED <<servers, hashing, algorithm, overload_mode>>

\* rebalance_hash(): from the most to the least loaded member, in the order of
\* the table, so many of the former's pins as size percent of them.  qsort()
\* leaves the order of equal loads open.
rebalance_hash(low, high) ==
  LET load(i)  == e_load("members", i)
      subjects == {i \in Ids("members") : /\ servers["members"][i].status = "ENABLED"
                                          /\ ~servers["members"][i].standby}
      pins  == {h \in Hashes : hash_table[h] = high}
      quota == (hash_table_usage[high] * size) \div 100
      moved == {h \in pins : Cardinality({g \in pins : g < h}) < quota}
  IN  /\ Change
      /\ algorithm = "HASH" /\ threshold > 0 /\ size > 0
      /\ low # high /\ {low, high} \subseteq subjects
      /\ \A i \in subjects : load(low) <= load(i) /\ load(i) <= load(high)
      /\ load(high) - load(low) >= threshold
      /\ hash_table' = [h \in Hashes |-> IF h \in moved THEN low ELSE hash_table[h]]
      /\ hash_table_usage' = [hash_table_usage EXCEPT
           ![high] = @ - Cardinality(moved), ![low] = @ + Cardinality(moved)]
      /\ UNCHANGED <<servers, settings>>

Others ==
  \/ cmd_enable \/ cmd_disable \/ cmd_algorithm \/ cmd_overload_mode \/ cmd_clone_mode
  \/ \E low, high \in Ids("members") : rebalance_hash(low, high)
  \/ \E k \in Kinds : cmd_create(k)
  \/ \E k \in Kinds : \E i \in Ids(k) :
       \/ cmd_delete(k, i) \/ cmd_standby(k, i)
       \/ handle_delete_servers(k, i) \/ check_server_state(k, i)
       \/ \E load \in Loads : check_server_snmp(k, i, load)

-----------------------------------------------------------------------------
Init ==
  /\ servers = [k \in Kinds |-> [i \in Ids(k) |-> [NewServer EXCEPT !.status = "ENABLED"]]]
  /\ next = [k \in Kinds |-> 0]
  /\ hash_table = [h \in Hashes |-> HASH_VAL_FREE]
  /\ hash_table_usage = [i \in Ids("members") |-> 0]
  /\ algorithm \in Algorithms
  /\ overload_mode = "RELAXED"
  /\ clone_mode \in {"OFF", "ON"}
  /\ choice = NoChoice
  /\ passed = NothingPassed
  /\ changes = 0

Next == Master \/ Others

Spec == Init /\ [][Next]_vars

-----------------------------------------------------------------------------
(* Properties.                                                               *)

\* Every variable has its type; hash_table_usage, an unsigned short in the
\* program, is never decremented below zero.
TypeOK ==
  /\ \A k \in Kinds : servers[k] \in
       [Ids(k) -> [status : {"FREE", "DELETED", "FAILED", "DISABLED", "ENABLED"},
                   standby : BOOLEAN, c : Nat, load : Int]]
  /\ \A k \in Kinds : next[k] \in Ids(k)
  /\ hash_table \in [Hashes -> Ids("members") \cup {HASH_VAL_FREE}]
  /\ hash_table_usage \in [Ids("members") -> Nat]
  /\ algorithm \in Algorithms /\ overload_mode \in {"RELAXED", "STRICT"}
  /\ clone_mode \in {"OFF", "ON", "FAILED"}
  /\ choice \in [at : {"none", "rejected"}] \cup [at : {"chosen"}, clone : BOOLEAN]
  /\ passed \in [avail : SUBSET Ids("members"), restarted : BOOLEAN,
                 times : [Ids("members") -> Nat]]
  /\ changes \in 0..MaxChanges

\* "verifies that the selected member and clone are truly valid"
\* (algorithms.c:101): whatever the algorithm and however the table changed
\* since the last choice, the servers chosen are enabled, below maxc and in
\* strict mode not overloaded, and a request is rejected only when there is no
\* such member.
ChosenUsable ==
  /\ choice.at = "chosen" =>
       /\ Usable("members", next["members"])
       /\ choice.clone => Usable("clones", next["clones"])
  /\ choice.at = "rejected" => \A i \in Ids("members") : ~Usable("members", i)

\* "Standby servers are only used if no normal servers can be chosen"
\* (octopuslb.conf:261), for members.
StandbyLastResort ==
  choice.at = "chosen" /\ servers["members"][next["members"]].standby
    => \A i \in Ids("members") : Usable("members", i) => servers["members"][i].standby

\* "The server with the lowest number of active connections is next" and "The
\* server with the lowest load average is next" (octopuslb.conf:57-58), among
\* the members that may be chosen.
CheapestChosen ==
  choice.at = "chosen" =>
    \A i \in Available("members") :
      /\ algorithm = "LC" => servers["members"][next["members"]].c <= servers["members"][i].c
      /\ algorithm = "LL" =>
           weighted_load("members")[next["members"]] <= weighted_load("members")[i]

\* "New connections are allocated in a round robin fashion" (octopuslb.conf:60):
\* while the available members stay the same none of them is passed over more
\* often than there are others, in clone mode too.  Excepted is a choice that
\* finds a standby clone in next_clone while normal members are available:
\* algorithms.c:93 then sets next_member back to the first of them, the round
\* starts again, and while such choices follow each other only the second
\* available member is ever chosen.
RoundRobinFair ==
  ~passed.restarted =>
    \A i \in Ids("members") :
      passed.times[i] = 0 \/ passed.times[i] < Cardinality(passed.avail)

\* hash_table_usage is the number of URIs pinned to the member, through misses,
\* moved pins, rebalancing, deletion and reuse of a slot.
UsageExact ==
  \A i \in Ids("members") :
    hash_table_usage[i] = Cardinality({h \in Hashes : hash_table[h] = i})

\* A pin never points at a slot without a server.
PinsToServers ==
  \A h \in Hashes : hash_table[h] # HASH_VAL_FREE
    => servers["members"][hash_table[h]].status # "FREE"

=============================================================================
