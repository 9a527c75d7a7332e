----------------------------- MODULE MCSettings ------------------------------
(* Config and Settings for TLC.  An int has 8 bits and an unsigned short 3,  *)
(* so that numbers too wide for each occur.                                  *)
EXTENDS Settings

L(d, v) == [directive |-> d, value |-> v]

SmallDefaults ==
  [d \in Globals |->
     CASE d \in Percentages \cup {"snmp_enable"} -> 1
       [] d = "algorithm" -> HASH
       [] d = "hash_rebalance_interval" -> 4
       [] d = "monitor_interval" -> 2
       [] d \in {"session_limit", "fd_limit", "use_syslog"} -> 0
       [] OTHER -> 3]

Brackets == {L("[", Missing), L("[/", Missing)}

\* One value of each kind a check tells apart.
FileLines ==
  Brackets
    \cup {L("ip", 7), L("port", 9), L("port", 0), L("maxc", 5), L("maxc", Garbage),
          L("maxl", 6), L("status", 0), L("status", Garbage), L("clone", 0), L("clone", 1),
          L("standby", 1), L("ip", Missing)}
    \cup {L("default_maxc", 2), L("default_maxl", 1)}
    \cup {L("monitor_interval", 9), L("hash_rebalance_size", 200),
          L("session_limit", 128), L("connect_timeout", 256)}

TypedNumbers ==
  [hri |-> {0, 1, 4, 12, 200}, hrs |-> {1, 101}, hrt |-> {0, 1},
   monitor |-> {1, 2, 8}, snmp |-> {1}, algorithm |-> {1, HASH}]
=============================================================================
