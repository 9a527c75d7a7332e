------------------------------ MODULE Settings -------------------------------
(****************************************************************************)
(* What becomes of the settings once the file has been read (Config): the   *)
(* admin changes them while the monitor's loop decides by them when it      *)
(* runs and when the hash table is rebalanced.                              *)
(*                                                                          *)
(* The monitor copies four settings at the top of its loop and then sleeps  *)
(* and checks the servers, for seconds or minutes, before it uses them.     *)
(* The four loads are one step: whatever mixture of old and new values they *)
(* could find, a different order of the same commands leaves them too.      *)
(* SNMP support is compiled in and a community password is set.             *)
(****************************************************************************)
EXTENDS Config

CONSTANT
  Typed  \* the numbers the administrator may type, by command

ASSUME TypedAssumption ==
  Typed \in [{"hri", "hrs", "hrt", "monitor", "snmp", "algorithm"} -> SUBSET Int]

VARIABLES
  at,      \* where the monitor is: "none", "read", "round", "loads", "rebalance", "dead"
  copy,    \* the monitor's local copies while a round uses them
  j,       \* its count of rounds
  waited,  \* history: rounds since the last rebalancing under the same ratio
  ratio    \* history: the last round's rounds per rebalancing

monitorVars == <<at, copy, j, waited, ratio>>
vars == <<configVars, monitorVars>>

Copied == {"monitor_interval", "hash_rebalance_interval",
           "hash_rebalance_threshold", "hash_rebalance_size"}

HASH == 4  \* ALGORITHM_HASH

-----------------------------------------------------------------------------
(* The monitor.                                                              *)

StartMonitor ==
  /\ phase = "serve" /\ at = "none"
  /\ at' = "read"
  /\ UNCHANGED <<configVars, copy, j, waited, ratio>>

Unused == [d \in Copied |-> 0]

\* Mutant: an interval of 0 ends the loop.
ReadSettings_gives_up ==
  /\ at = "read"
  /\ IF settings["monitor_interval"] > 0
     THEN at' = "round" /\ copy' = [d \in Copied |-> settings[d]]
     ELSE at' = "dead" /\ UNCHANGED copy
  /\ UNCHANGED <<configVars, j, waited, ratio>>

\* The copies are made; with an interval of 0 the loop sleeps and starts over,
\* which changes nothing.
ReadSettings ==
  /\ at = "read"
  /\ settings["monitor_interval"] > 0
  /\ copy' = [d \in Copied |-> settings[d]]
  /\ at' = "round"
  /\ UNCHANGED <<configVars, j, waited, ratio>>

\* The servers have been checked; without SNMP the round ends here.
CheckLoads ==
  /\ at = "round"
  /\ IF settings["snmp_enable"] = 1
     THEN at' = "loads" /\ UNCHANGED copy
     ELSE at' = "read" /\ copy' = Unused
  /\ UNCHANGED <<configVars, j, waited, ratio>>

\* Mutants: the divisor is read anew; the count is compared, not divided.
Rounds_unsnapped(interval) ==
  IF settings["monitor_interval"] = 0 THEN 0
  ELSE interval \div settings["monitor_interval"]

Due_equal(count, rounds) == count = rounds

\* The rounds from one rebalancing to the next.
Rounds(interval) == interval \div copy["monitor_interval"]

Due(count, rounds) == count % rounds = 0

\* The end of a round, after the SNMP checks.  A rebalancing interval below the
\* monitor's is raised, in BALANCER too.  Division by zero kills the process.
EndRound ==
  LET wanted == \A d \in Copied : copy[d] > 0
      raised == copy["hash_rebalance_interval"] < copy["monitor_interval"]
      hri    == IF raised THEN copy["monitor_interval"] ELSE copy["hash_rebalance_interval"]
      rounds == Rounds(hri)
      count  == ToShort(j + 1)
      due    == Due(count, rounds)
  IN  /\ at = "loads"
      /\ IF ~(settings["algorithm"] = HASH /\ wanted)
         THEN at' = "read" /\ UNCHANGED <<settings, j, waited, ratio>>
         ELSE /\ settings' = IF raised
                             THEN [settings EXCEPT !["hash_rebalance_interval"] = hri]
                             ELSE settings
              /\ ratio' = rounds
              /\ IF rounds = 0
                 THEN at' = "dead" /\ UNCHANGED <<j, waited>>
                 ELSE /\ at' = IF due THEN "rebalance" ELSE "read"
                      /\ j' = IF due THEN 0 ELSE count
                      /\ waited' = IF due THEN 0
                                   ELSE IF ratio = rounds THEN waited + 1 ELSE 1
      /\ copy' = Unused
      /\ UNCHANGED <<phase, read, section, local, servers, text, overruled>>

\* rebalance_hash() itself is in Selection.
Rebalance ==
  /\ at = "rebalance"
  /\ at' = "read"
  /\ UNCHANGED <<configVars, copy, j, waited, ratio>>

-----------------------------------------------------------------------------
(* The admin, attached to a running server.                                  *)

Set(d, n) ==
  /\ phase = "serve"
  /\ settings' = [settings EXCEPT ![d] = n]
  /\ UNCHANGED <<phase, read, section, local, servers, text, overruled, monitorVars>>

\* The check is made on the long.
cmd_hri(v) == v >= 0 /\ Set("hash_rebalance_interval", ToInt(v))

cmd_hrs(v) == v >= 0 /\ v <= 100 /\ Set("hash_rebalance_size", ToInt(v))

cmd_hrt(v) == v >= 0 /\ v <= 100 /\ Set("hash_rebalance_threshold", ToInt(v))

\* No check at all.
cmd_monitor(v) == Set("monitor_interval", ToShort(v))

cmd_snmp(v) == v \in {0, 1} /\ Set("snmp_enable", v)

cmd_algorithm(v) == v \in 1..5 /\ Set("algorithm", v)

Admin ==
  \/ \E v \in Typed["hri"] : cmd_hri(v)
  \/ \E v \in Typed["hrs"] : cmd_hrs(v)
  \/ \E v \in Typed["hrt"] : cmd_hrt(v)
  \/ \E v \in Typed["monitor"] : cmd_monitor(v)
  \/ \E v \in Typed["snmp"] : cmd_snmp(v)
  \/ \E v \in Typed["algorithm"] : cmd_algorithm(v)

-----------------------------------------------------------------------------
Init ==
  /\ InitConfig
  /\ at = "none"
  /\ copy = Unused
  /\ j = 0 /\ waited = 0 /\ ratio = 1

Monitor == StartMonitor \/ ReadSettings \/ CheckLoads \/ EndRound \/ Rebalance

Next == (NextConfig /\ UNCHANGED monitorVars) \/ Monitor \/ Admin

Spec == Init /\ [][Next]_vars

\* The monitor is scheduled; files end.
FairSpec == Spec /\ WF_vars(Monitor)

-----------------------------------------------------------------------------
(* Properties.                                                               *)

\* Every variable has its type: the interval and the count of rounds are
\* unsigned shorts, whatever the file, the admin and the passing rounds store.
TypeOK ==
  /\ phase \in {"parse", "serve", "exit"}
  /\ read \in 0..MaxLines /\ section \in BOOLEAN
  /\ DOMAIN local = Fields /\ DOMAIN text = Fields /\ overruled \subseteq Fields
  /\ settings \in [Globals -> Int] /\ settings["monitor_interval"] \in 0..USHRT_MAX
  /\ at \in {"none", "read", "round", "loads", "rebalance", "dead"}
  /\ copy \in [Copied -> Int]
  /\ j \in 0..USHRT_MAX /\ waited \in Nat /\ ratio \in Nat

\* However large or negative the numbers in the file and at the prompt are,
\* hash_rebalance_threshold and hash_rebalance_size are percentages,
\* connect_timeout and binding_port positive, session_limit and fd_limit not
\* negative (config.c:404-608, admin.c:731-769).  hash_rebalance_interval is
\* not among them: the admin checks the long and stores its low bits
\* (admin.c:716-720), so that a number too wide for an int becomes a negative
\* interval, and monitor_interval is an unsigned short that nothing checks.
SettingsInRange == Sound(settings)

\* Whatever the admin sets between two statements of the monitor's loop, the
\* number of rounds it divides by is never zero (monitor.c:374).
MonitorSurvives == at # "dead"

\* "j is just a counter to figure out whether we should run a rebalance or
\* not": no more rounds pass without rebalancing than the intervals in force
\* ask for, even when the admin has just shortened the interval to less than
\* what was already counted, and when the counter wraps around.
RebalancedInTime == waited < ratio

\* "zero disables the feature": as long as all four settings ask for it the
\* hash table is rebalanced again and again, whatever they were before.
RebalancingGoesOn ==
  /\ <>(phase = "serve")
  /\ <>[](/\ settings["snmp_enable"] = 1 /\ settings["algorithm"] = HASH
          /\ \A d \in Copied : settings[d] > 0)
  => []<>(at = "rebalance")

=============================================================================
