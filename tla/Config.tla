------------------------------- MODULE Config --------------------------------
(****************************************************************************)
(* parse_config_file(): the configuration file is read line by line into    *)
(* local variables, which become a SERVER at the end of each section, and   *)
(* into the fields of BALANCER.                                             *)
(*                                                                          *)
(* A line is a directive and a value.  A value is a number, also where the  *)
(* file has words (1 for "enabled", "true" and "on", 0 for their opposites) *)
(* or an address, Garbage where nothing can be read from it, and Missing    *)
(* where there is no "=", so that a null pointer is dereferenced and the    *)
(* signal handler ends the process.  strtol() yields a long; the fields are *)
(* narrower.                                                                *)
(****************************************************************************)
EXTENDS Integers, Sequences

CONSTANTS
  Lines,      \* the lines a file may have: [directive, value]
  MaxLines,   \* bound on the length of a file
  Garbage,    \* a value in which there is nothing to be converted
  Missing,    \* no value at all
  MaxPort,    \* 65535
  DefaultPort, \* 80
  INT_MAX,    \* the largest int
  USHRT_MAX,  \* the largest unsigned short
  Ips,        \* what the uninitialized serverIP may hold
  Defaults    \* DEFAULT_*, by directive

Fields == {"ip", "port", "maxc", "maxl", "status", "standby", "clone"}
Switches == {"status", "standby", "clone"}

\* The directives of BALANCER, by the check their value is put to.
Percentages == {"hash_rebalance_threshold", "hash_rebalance_size"}
Counts      == {"hash_rebalance_interval", "monitor_interval", "session_limit", "fd_limit"}
Positives   == {"connect_timeout", "binding_port"}
Reals       == {"default_maxl", "session_weight"}
Choices     == {"algorithm", "clone_mode", "overload_mode"}
Addresses   == {"binding_ip", "member_outbound_ip", "clone_outbound_ip"}
Globals     == Percentages \cup Counts \cup Positives \cup Reals \cup Choices
                 \cup Addresses \cup {"default_maxc", "snmp_enable", "shm_perms", "use_syslog"}

ASSUME WidthAssumption ==
  /\ INT_MAX \in Nat /\ USHRT_MAX \in 1..INT_MAX /\ INT_MAX >= 100
  /\ MaxPort \in Nat /\ DefaultPort \in 1..MaxPort
ASSUME LineAssumption ==
  /\ Garbage \notin Int /\ Missing \notin Int /\ MaxLines \in Nat
  /\ \A l \in Lines :
       /\ l.directive \in Fields \cup Globals \cup {"[", "[/"}
       /\ l.value \in Int \cup {Garbage, Missing}

\* The checks on the settings: percentages, a timeout and a port that are
\* positive, numbers of sessions and descriptors that are not negative.
Sound(set) ==
  /\ \A d \in Percentages : set[d] \in 0..100
  /\ \A d \in Positives : set[d] > 0
  /\ set["session_limit"] >= 0 /\ set["fd_limit"] >= 0

ASSUME DefaultAssumption ==
  Defaults \in [Globals -> Int] /\ Sound(Defaults) /\ Defaults["monitor_interval"] \in 0..USHRT_MAX

VARIABLES
  phase,     \* "parse", "serve" or "exit"
  read,      \* lineCounter
  section,   \* inServerSection
  local,     \* serverIP, serverPort and so on, by field
  servers,   \* the servers created, in order
  settings,  \* the fields of BALANCER, by directive
  text,      \* history: the last word of the section being read on each field
  overruled  \* history: the fields on which another line had the last word

configVars == <<phase, read, section, local, servers, settings, text, overruled>>

\* A long assigned to an int, and an int to an unsigned short.
ToInt(n) == ((n + INT_MAX + 1) % (2 * (INT_MAX + 1))) - (INT_MAX + 1)
ToShort(n) == n % (USHRT_MAX + 1)

\* strtol(), atoi() and atof() find 0 where there is nothing to convert.
strtol(v) == IF v = Garbage THEN 0 ELSE v

Unsaid == [f \in Fields |-> Missing]

-----------------------------------------------------------------------------
(* Server sections.                                                          *)

\* The local variable after the directive.
Converted(f, v) == IF f \in {"port", "maxc"} THEN ToInt(strtol(v)) ELSE strtol(v)

\* The checks that end the process when they fail.  A word that is neither of
\* the two expected ones is an error only with errno set, which it is not.
FieldAccepted(f, v) ==
  /\ v # Missing
  /\ CASE f = "port" -> Converted(f, v) \in 1..MaxPort
       [] f = "maxc" -> Converted(f, v) >= 0
       [] f = "maxl" -> Converted(f, v) > 0
       [] f = "ip"   -> v # Garbage
       [] OTHER      -> TRUE

\* The fields a directive assigns: "clone=false" assigns standbyState.
Assigned(f, v) ==
  IF f = "clone" /\ v = 0 THEN "standby" ELSE f

\* The fields on which the lines read so far said something, or something else
\* than the default of a switch.
Said   == {f \in Fields : text[f] # Missing}
Turned == {f \in Switches : text[f] \notin {Missing, 0}}

\* After "clone=false" a standby is none, and a clone still one.
Overruled(f, v) ==
  IF Assigned(f, v) = f THEN overruled \ {f}
                        ELSE overruled \cup ({"standby", "clone"} \cap Turned)

\* A word that is neither of the two is passed over.
SetField(f, v) ==
  IF f \in Switches /\ v = Garbage
  THEN UNCHANGED <<local, text, overruled>>
  ELSE /\ local' = [local EXCEPT ![Assigned(f, v)] = Converted(f, v)]
       /\ text' = [text EXCEPT ![f] = v]
       /\ overruled' = Overruled(f, v)

ServerLine(l) ==
  /\ l.directive \in Fields
  /\ IF section
     THEN IF FieldAccepted(l.directive, l.value)
          THEN SetField(l.directive, l.value) /\ UNCHANGED phase
          ELSE phase' = "exit" /\ UNCHANGED <<local, text, overruled>>
     ELSE UNCHANGED <<phase, local, text, overruled>>
  /\ UNCHANGED <<section, servers, settings>>

\* "[": the values of a section that has not ended are kept.
StartSection(l) ==
  /\ l.directive = "["
  /\ section' = TRUE
  /\ text' = Unsaid /\ overruled' = overruled \cup Said
  /\ UNCHANGED <<phase, local, servers, settings>>

\* Mutant: the limit of a server is left to the next one.
Reset_keeps_maxc ==
  [local EXCEPT !.status = 1, !.port = DefaultPort, !.clone = 0,
                !.maxl = settings["default_maxl"], !.standby = 0]

\* "reset the values for the next server": all but its address (and name).
Reset ==
  [local EXCEPT !.status = 1, !.port = DefaultPort, !.clone = 0,
                !.maxc = settings["default_maxc"],
                !.maxl = settings["default_maxl"], !.standby = 0]

\* "[/": a server is created, in a section or not.
EndSection(l) ==
  /\ l.directive = "[/"
  /\ section' = FALSE
  /\ servers' = Append(servers, [is |-> local, said |-> text, overruled |-> overruled,
                                 default_maxc |-> settings["default_maxc"],
                                 default_maxl |-> settings["default_maxl"]])
  /\ local' = Reset
  /\ text' = Unsaid /\ overruled' = {}
  /\ UNCHANGED <<phase, settings>>

-----------------------------------------------------------------------------
(* The balancer's own directives, in a section or not.                       *)

\* Mutant: the check is made before the number is cut to an int.
GlobalAccepted_wide(d, v) ==
  /\ v # Missing
  /\ v = Garbage => d \in Reals \cup {"default_maxc", "snmp_enable"}
  /\ d \in Percentages => 0 <= v /\ v < 100
  /\ d \in Counts => v >= 0
  /\ d \in Positives => v > 0
  /\ d = "shm_perms" => 0 < v /\ v < 777
  /\ d = "use_syslog" => v \in {0, 1}
  /\ d \in Reals => strtol(v) >= 0

GlobalAccepted(d, v) ==
  LET n == ToInt(v)
  IN  /\ v # Missing
      /\ v = Garbage => d \in Reals \cup {"default_maxc", "snmp_enable"}
      /\ d \in Percentages => 0 <= n /\ n < 100
      /\ d \in Counts => n >= 0
      /\ d \in Positives => n > 0
      /\ d = "shm_perms" => 0 < n /\ n < 777
      /\ d = "use_syslog" => n \in {0, 1}
      /\ d \in Reals => strtol(v) >= 0

\* The field after the directive.
Stored(d, v) ==
  CASE d = "monitor_interval" -> ToShort(ToInt(v))
    [] d \in Reals \cup Choices \cup Addresses \cup {"snmp_enable"} -> strtol(v)
    [] OTHER -> ToInt(strtol(v))

\* The defaults for a server are also those of the section being read, whatever
\* it has said before.
GlobalLine(l) ==
  LET d == l.directive
      field == [default_maxc |-> "maxc", default_maxl |-> "maxl"]
  IN  /\ d \in Globals
      /\ IF GlobalAccepted(d, l.value)
         THEN /\ settings' = [settings EXCEPT ![d] = Stored(d, l.value)]
              /\ IF d \in DOMAIN field
                 THEN /\ local' = [local EXCEPT ![field[d]] = Stored(d, l.value)]
                      /\ overruled' = overruled \cup ({field[d]} \cap Said)
                 ELSE UNCHANGED <<local, overruled>>
              /\ UNCHANGED phase
         ELSE phase' = "exit" /\ UNCHANGED <<settings, local, overruled>>
      /\ UNCHANGED <<section, servers, text>>

-----------------------------------------------------------------------------
\* Without a file to read the process ends at once.
InitConfig ==
  /\ phase \in {"parse", "exit"} /\ read = 0 /\ section = FALSE
  /\ settings = Defaults
  /\ servers = <<>>
  /\ text = Unsaid /\ overruled = {}
  /\ \E ip \in Ips :
       local = [ip |-> ip, port |-> DefaultPort, status |-> 1, standby |-> 0,
                clone |-> 0, maxc |-> Defaults["default_maxc"],
                maxl |-> Defaults["default_maxl"]]

ReadLine ==
  /\ phase = "parse"
  /\ read < MaxLines /\ read' = read + 1
  /\ \E l \in Lines : ServerLine(l) \/ StartSection(l) \/ EndSection(l) \/ GlobalLine(l)

\* fclose(): the local variables end, the servers are the table's (Registry).
EndOfFile ==
  /\ phase = "parse"
  /\ phase' = "serve"
  /\ read' = 0 /\ section' = FALSE /\ servers' = <<>> /\ text' = Unsaid /\ overruled' = {}
  /\ local' = [f \in Fields |-> 0]
  /\ UNCHANGED settings

NextConfig == ReadLine \/ EndOfFile

ConfigSpec == InitConfig /\ [][NextConfig]_configVars

-----------------------------------------------------------------------------
(* Properties.                                                               *)

\* What a server's section says of a field, or else the default.
AsSaid(s, f, default) ==
  f \notin s.overruled =>
    s.is[f] = IF s.said[f] = Missing THEN default ELSE Converted(f, s.said[f])

\* "reset the values for the next server" (config.c:212): a server has the
\* limits, the state, the role and the port that its own section says last, or
\* else the defaults in force at its end, and the address its section says.
\* This is not so, and the field is excepted,
\*  - for a standby or a clone whose section goes on to say "clone=false", which
\*    makes the server no standby instead of no clone (config.c:171);
\*  - for a limit when default_maxc or default_maxl follows it in the section,
\*    and replaces it (config.c:386, 398);
\*  - for what was said in an earlier section that was not closed, as "["
\*    resets nothing (config.c:222), until the new section says it itself;
\*  - for the address of a section that says none: it is that of the section
\*    before, or an uninitialized one (config.c:213).
SectionAsWritten ==
  \A k \in 1..Len(servers) :
    LET s == servers[k]
    IN  /\ AsSaid(s, "port", DefaultPort)
        /\ AsSaid(s, "status", 1)
        /\ AsSaid(s, "standby", 0)
        /\ AsSaid(s, "clone", 0)
        /\ AsSaid(s, "maxc", s.default_maxc)
        /\ AsSaid(s, "maxl", s.default_maxl)
        /\ s.said["ip"] # Missing => s.is["ip"] = Converted("ip", s.said["ip"])

=============================================================================
