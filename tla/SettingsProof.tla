---------------------------- MODULE SettingsProof ----------------------------
(****************************************************************************)
(* Proofs about Settings, for every width of the integers, every file and   *)
(* every number the administrator may type.                                 *)
(****************************************************************************)
EXTENDS Settings, TLAPS

USE DEF Percentages, Counts, Positives, Reals, Choices, Addresses, Globals, Copied

\* The monitor divides by a copy that was positive when it was made, and what
\* it has waited shows in its count.
Counting ==
  /\ at # "dead"
  /\ at \in {"round", "loads"} => copy["monitor_interval"] > 0
  /\ ratio > 0 /\ waited <= j % ratio

IInv == TypeOK /\ Sound(settings) /\ Counting
-----------------------------------------------------------------------------
(* Arithmetic.                                                               *)

LEMMA DivPositive ==
  ASSUME NEW a \in Int, NEW b \in Int, b > 0, a >= b
  PROVE  a \div b \in Nat /\ a \div b > 0
<1> DEFINE q == a \div b
           m == a % b
<1>1. q \in Int /\ m \in 0..(b - 1) /\ a = b * q + m
  BY SMT
<1>2. q >= 1
  <2>1. SUFFICES ASSUME q <= 0 PROVE FALSE
    BY <1>1
  <2>2. b * q <= 0
    BY <1>1, <2>1
  <2> QED
    BY <1>1, <2>2
<1> QED
  BY <1>1, <1>2

LEMMA ModSuccessor ==
  ASSUME NEW a \in Nat, NEW r \in Nat, r > 0, (a + 1) % r # 0
  PROVE  (a + 1) % r = (a % r) + 1
<1> DEFINE q == a \div r
           m == a % r
           q1 == (a + 1) \div r
           m1 == (a + 1) % r
           k == q1 - q
<1>1. q \in Int /\ m \in 0..(r - 1) /\ a = r * q + m
  BY SMT
<1>2. q1 \in Int /\ m1 \in 1..(r - 1) /\ a + 1 = r * q1 + m1
  BY SMT
<1>3. k \in Int /\ r * k = m + 1 - m1
  BY <1>1, <1>2
<1> HIDE DEF q, m, q1, m1, k
<1>4. k < 1
  <2>1. SUFFICES ASSUME k >= 1 PROVE FALSE
    BY <1>3
  <2>2. r * k >= r
    BY <1>3, <2>1
  <2> QED
    BY <1>1, <1>2, <1>3, <2>2
<1>5. k > -1
  <2>1. SUFFICES ASSUME k <= -1 PROVE FALSE
    BY <1>3
  <2>2. r * k <= -r
    BY <1>3, <2>1
  <2> QED
    BY <1>1, <1>2, <1>3, <2>2
<1>6. r * k = 0
  BY <1>3, <1>4, <1>5
<1>7. m1 = m + 1
  BY <1>1, <1>2, <1>3, <1>6
<1> QED
  BY <1>7 DEF m, m1

\* An int holds an int, and is itself where it is not too large.
LEMMA Cut ==
  ASSUME NEW n \in Int
  PROVE  /\ ToInt(n) \in Int
         /\ n \in 0..INT_MAX => ToInt(n) = n
         /\ ToShort(n) \in 0..USHRT_MAX
<1>1. INT_MAX \in Nat /\ USHRT_MAX \in Nat
  BY WidthAssumption
<1>2. ToInt(n) \in Int
  BY <1>1 DEF ToInt
<1>3. n \in 0..INT_MAX => ToInt(n) = n
  <2> DEFINE w == 2 * (INT_MAX + 1)
  <2>1. ASSUME NEW x \in Nat, x < w PROVE x % w = x
    BY <1>1, <2>1
  <2> QED
    BY <1>1, <2>1 DEF ToInt
<1>4. ToShort(n) \in 0..USHRT_MAX
  BY <1>1 DEF ToShort
<1> QED
  BY <1>2, <1>3, <1>4
-----------------------------------------------------------------------------
(* The file.                                                                 *)

LEMMA NumberRead ==
  ASSUME NEW v \in Int \cup {Garbage, Missing}, v # Missing
  PROVE  strtol(v) \in Int /\ (v # Garbage => v \in Int /\ strtol(v) = v)
BY LineAssumption DEF strtol

\* A directive that is accepted leaves a setting that keeps to its limits.
LEMMA StoredSound ==
  ASSUME NEW d \in Globals, NEW v \in Int \cup {Garbage, Missing}, GlobalAccepted(d, v)
  PROVE  /\ Stored(d, v) \in Int
         /\ d \in Percentages => Stored(d, v) \in 0..100
         /\ d \in Positives => Stored(d, v) > 0
         /\ d \in {"session_limit", "fd_limit"} => Stored(d, v) >= 0
         /\ d = "monitor_interval" => Stored(d, v) \in 0..USHRT_MAX
<1>1. /\ v # Missing
      /\ v = Garbage => d \in Reals \cup {"default_maxc", "snmp_enable"}
      /\ d \in Percentages => 0 <= ToInt(v) /\ ToInt(v) < 100
      /\ d \in Counts => ToInt(v) >= 0
      /\ d \in Positives => ToInt(v) > 0
  BY Zenon DEF GlobalAccepted
<1>2. strtol(v) \in Int /\ (v # Garbage => v \in Int /\ strtol(v) = v)
  BY <1>1, NumberRead
<1>3. ToInt(strtol(v)) \in Int
  BY <1>2, Cut
<1>4. CASE d = "monitor_interval"
  <2>1. v \in Int
    BY <1>1, <1>2, <1>4
  <2>2. ToInt(v) \in Int
    BY <2>1, Cut
  <2>3. ToShort(ToInt(v)) \in 0..USHRT_MAX
    BY <2>2, Cut
  <2>4. Stored(d, v) = ToShort(ToInt(v))
    BY <1>4 DEF Stored
  <2>5. USHRT_MAX \in Nat
    BY WidthAssumption
  <2> QED
    BY <1>4, <2>3, <2>4, <2>5
<1>5. CASE d \in Reals \cup Choices \cup Addresses \cup {"snmp_enable"}
  <2>1. Stored(d, v) = strtol(v)
    BY <1>5 DEF Stored
  <2> QED
    BY <1>2, <1>5, <2>1
<1>6. CASE d \notin Reals \cup Choices \cup Addresses \cup {"snmp_enable", "monitor_interval"}
  <2>1. Stored(d, v) = ToInt(strtol(v))
    BY <1>6 DEF Stored
  <2>2. d # "default_maxc" => strtol(v) = v
    BY <1>1, <1>2, <1>6
  <2> QED
    BY <1>1, <1>3, <1>6, <2>1, <2>2
<1> QED
  BY <1>4, <1>5, <1>6

\* One setting is replaced by a number that keeps to its limits.
LEMMA OneSetting ==
  ASSUME settings \in [Globals -> Int], settings["monitor_interval"] \in 0..USHRT_MAX,
         Sound(settings),
         NEW d \in Globals, NEW n \in Int,
         d \in Percentages => n \in 0..100,
         d \in Positives => n > 0,
         d \in {"session_limit", "fd_limit"} => n >= 0,
         d = "monitor_interval" => n \in 0..USHRT_MAX
  PROVE  LET new == [settings EXCEPT ![d] = n]
         IN  new \in [Globals -> Int] /\ new["monitor_interval"] \in 0..USHRT_MAX /\ Sound(new)
<1> DEFINE new == [settings EXCEPT ![d] = n]
<1>1. new \in [Globals -> Int]
  OBVIOUS
<1>2. \A g \in Globals : new[g] = IF g = d THEN n ELSE settings[g]
  OBVIOUS
<1> HIDE DEF new
<1>3. new["monitor_interval"] \in 0..USHRT_MAX
  BY <1>2
<1>4. Sound(new)
  BY <1>2 DEF Sound
<1> QED
  BY <1>1, <1>3, <1>4 DEF new

LEMMA ConfigStep == IInv /\ NextConfig /\ UNCHANGED monitorVars => IInv'
<1> SUFFICES ASSUME IInv, NextConfig, UNCHANGED monitorVars PROVE IInv'
  OBVIOUS
<1>1. Counting'
  BY DEF IInv, Counting, monitorVars
<1>2. /\ at' \in {"none", "read", "round", "loads", "rebalance", "dead"}
      /\ copy' \in [Copied -> Int]
      /\ j' \in 0..USHRT_MAX /\ waited' \in Nat /\ ratio' \in Nat
  BY DEF IInv, TypeOK, monitorVars
<1>3. CASE EndOfFile
  <2>1. DOMAIN local' = Fields /\ DOMAIN text' = Fields /\ overruled' \subseteq Fields
    BY <1>3 DEF EndOfFile, Unsaid
  <2>2. phase' = "serve" /\ section' = FALSE /\ UNCHANGED settings
    BY <1>3 DEF EndOfFile
  <2>3. read' \in 0..MaxLines
    BY <1>3, LineAssumption DEF EndOfFile
  <2> QED
    BY <1>1, <1>2, <2>1, <2>2, <2>3 DEF IInv, TypeOK, Sound
<1>4. CASE ReadLine
  <2>1. PICK l \in Lines : ServerLine(l) \/ StartSection(l) \/ EndSection(l) \/ GlobalLine(l)
    BY <1>4 DEF ReadLine
  <2>2. read' \in 0..MaxLines
    BY <1>4, LineAssumption DEF ReadLine, IInv, TypeOK
  <2>3. l.value \in Int \cup {Garbage, Missing}
    BY LineAssumption
  <2>4. CASE ServerLine(l)
    <3>1. phase' \in {"parse", "serve", "exit"} /\ DOMAIN local' = Fields /\ DOMAIN text' = Fields /\ overruled' \subseteq Fields
      BY <2>4 DEF ServerLine, SetField, Overruled, Fields, IInv, TypeOK
    <3>2. UNCHANGED <<section, settings>>
      BY <2>4 DEF ServerLine
    <3> QED
      BY <1>1, <1>2, <2>2, <3>1, <3>2 DEF IInv, TypeOK, Sound
  <2>5. CASE StartSection(l)
    <3>1. DOMAIN text' = Fields /\ overruled' \subseteq Fields
      BY <2>5 DEF StartSection, Unsaid, Said, IInv, TypeOK
    <3> QED
      BY <1>1, <1>2, <2>2, <2>5, <3>1 DEF StartSection, IInv, TypeOK, Sound
  <2>6. CASE EndSection(l)
    <3>1. DOMAIN local' = Fields /\ DOMAIN text' = Fields /\ overruled' \subseteq Fields
      BY <2>6 DEF EndSection, Reset, Unsaid, IInv, TypeOK
    <3>2. section' = FALSE /\ UNCHANGED <<phase, settings>>
      BY <2>6 DEF EndSection
    <3> QED
      BY <1>1, <1>2, <2>2, <3>1, <3>2 DEF IInv, TypeOK, Sound
  <2>7. CASE GlobalLine(l)
    <3> DEFINE d == l.directive
    <3>1. /\ phase' \in {"parse", "serve", "exit"} /\ UNCHANGED section
          /\ DOMAIN local' = Fields /\ DOMAIN text' = Fields /\ overruled' \subseteq Fields
      BY <2>7 DEF GlobalLine, Said, IInv, TypeOK
    <3>2. /\ settings' \in [Globals -> Int] /\ settings'["monitor_interval"] \in 0..USHRT_MAX
          /\ Sound(settings')
      <4>1. CASE GlobalAccepted(d, l.value)
        <5>1. d \in Globals /\ settings' = [settings EXCEPT ![d] = Stored(d, l.value)]
          BY <2>7, <4>1 DEF GlobalLine
        <5>2. /\ Stored(d, l.value) \in Int
              /\ d \in Percentages => Stored(d, l.value) \in 0..100
              /\ d \in Positives => Stored(d, l.value) > 0
              /\ d \in {"session_limit", "fd_limit"} => Stored(d, l.value) >= 0
              /\ d = "monitor_interval" => Stored(d, l.value) \in 0..USHRT_MAX
          BY <2>3, <4>1, <5>1, StoredSound
        <5> HIDE DEF d
        <5> QED
          BY <5>1, <5>2, OneSetting DEF IInv, TypeOK
      <4>2. CASE ~GlobalAccepted(d, l.value)
        BY <2>7, <4>2 DEF GlobalLine, IInv, TypeOK
      <4> QED
        BY <4>1, <4>2
    <3> QED
      BY <1>1, <1>2, <2>2, <3>1, <3>2 DEF IInv, TypeOK, Sound
  <2> QED
    BY <2>1, <2>4, <2>5, <2>6, <2>7
<1> QED
  BY <1>3, <1>4 DEF NextConfig
-----------------------------------------------------------------------------
(* The admin.                                                                *)

LEMMA AdminSets ==
  ASSUME IInv, NEW d \in Globals, NEW n \in Int, Set(d, n),
         d \in Percentages => n \in 0..100,
         d \in {"session_limit", "fd_limit"} \cup Positives => FALSE,
         d = "monitor_interval" => n \in 0..USHRT_MAX
  PROVE  IInv'
<1>1. /\ settings' = [settings EXCEPT ![d] = n]
      /\ UNCHANGED <<phase, read, section, local, text, overruled, monitorVars>>
  BY DEF Set
<1>2. /\ settings' \in [Globals -> Int] /\ settings'["monitor_interval"] \in 0..USHRT_MAX
      /\ Sound(settings')
  BY <1>1, OneSetting DEF IInv, TypeOK
<1> QED
  BY <1>1, <1>2 DEF IInv, TypeOK, Counting, Sound, monitorVars

LEMMA AdminStep == IInv /\ Admin => IInv'
<1> SUFFICES ASSUME IInv, Admin PROVE IInv'
  OBVIOUS
<1>1. Typed \in [{"hri", "hrs", "hrt", "monitor", "snmp", "algorithm"} -> SUBSET Int]
  BY TypedAssumption
<1>2. ASSUME NEW v \in Typed["hri"], cmd_hri(v) PROVE IInv'
  BY <1>1, <1>2, Cut, AdminSets DEF cmd_hri
<1>3. ASSUME NEW v \in Typed["hrs"], cmd_hrs(v) PROVE IInv'
  <2>1. v \in 0..100 /\ Set("hash_rebalance_size", ToInt(v))
    BY <1>1, <1>3 DEF cmd_hrs
  <2>2. ToInt(v) = v
    BY <2>1, Cut, WidthAssumption
  <2> QED
    BY <2>1, <2>2, AdminSets
<1>4. ASSUME NEW v \in Typed["hrt"], cmd_hrt(v) PROVE IInv'
  <2>1. v \in 0..100 /\ Set("hash_rebalance_threshold", ToInt(v))
    BY <1>1, <1>4 DEF cmd_hrt
  <2>2. ToInt(v) = v
    BY <2>1, Cut, WidthAssumption
  <2> QED
    BY <2>1, <2>2, AdminSets
<1>5. ASSUME NEW v \in Typed["monitor"], cmd_monitor(v) PROVE IInv'
  <2>1. ToShort(v) \in 0..USHRT_MAX /\ ToShort(v) \in Int
    BY <1>1, Cut, WidthAssumption
  <2> QED
    BY <1>5, <2>1, AdminSets DEF cmd_monitor
<1>6. ASSUME NEW v \in Typed["snmp"], cmd_snmp(v) PROVE IInv'
  BY <1>1, <1>6, AdminSets DEF cmd_snmp
<1>7. ASSUME NEW v \in Typed["algorithm"], cmd_algorithm(v) PROVE IInv'
  BY <1>1, <1>7, AdminSets DEF cmd_algorithm
<1> QED
  BY <1>2, <1>3, <1>4, <1>5, <1>6, <1>7 DEF Admin
-----------------------------------------------------------------------------
(* The monitor.                                                              *)

LEMMA EndRoundStep == IInv /\ EndRound => IInv'
<1> SUFFICES ASSUME IInv, EndRound PROVE IInv'
  OBVIOUS
<1> DEFINE mi     == copy["monitor_interval"]
           raised == copy["hash_rebalance_interval"] < mi
           hri    == IF raised THEN mi ELSE copy["hash_rebalance_interval"]
           rounds == Rounds(hri)
           count  == ToShort(j + 1)
           due    == Due(count, rounds)
<1>1. /\ mi \in Int /\ mi > 0 /\ hri \in Int /\ hri >= mi
      /\ j \in 0..USHRT_MAX /\ waited \in Nat /\ ratio \in Nat /\ ratio > 0
      /\ waited <= j % ratio /\ USHRT_MAX \in Nat
  BY WidthAssumption DEF EndRound, IInv, TypeOK, Counting
<1>2. rounds \in Nat /\ rounds > 0
  BY <1>1, DivPositive DEF Rounds
<1>3. count \in 0..USHRT_MAX /\ (count = j + 1 \/ count = 0)
  <2>1. count \in 0..USHRT_MAX
    BY <1>1, Cut
  <2>2. ASSUME j + 1 <= USHRT_MAX PROVE count = j + 1
    BY <1>1, <2>2 DEF ToShort
  <2>3. ASSUME j + 1 = USHRT_MAX + 1 PROVE count = 0
    BY <1>1, <2>3 DEF ToShort
  <2> QED
    BY <1>1, <2>1, <2>2, <2>3
<1>4. copy' = Unused /\ copy' \in [Copied -> Int]
  BY DEF EndRound, Unused
<1>5. UNCHANGED <<phase, read, section, local, text, overruled>>
  BY DEF EndRound
<1>6. /\ settings' \in [Globals -> Int] /\ settings'["monitor_interval"] \in 0..USHRT_MAX
      /\ Sound(settings')
  <2>1. settings' \in {settings, [settings EXCEPT !["hash_rebalance_interval"] = hri]}
    BY DEF EndRound
  <2> HIDE DEF hri
  <2>2. CASE settings' = settings
    BY <2>2 DEF IInv, TypeOK
  <2>3. CASE settings' = [settings EXCEPT !["hash_rebalance_interval"] = hri]
    BY <1>1, <2>3, OneSetting DEF IInv, TypeOK
  <2> QED
    BY <2>1, <2>2, <2>3
<1>7. /\ at' \in {"read", "rebalance"}
      /\ j' \in 0..USHRT_MAX /\ waited' \in Nat /\ ratio' \in Nat
      /\ ratio' > 0 /\ waited' <= j' % ratio'
  <2>1. CASE at' = "read" /\ UNCHANGED <<j, waited, ratio>>
    BY <1>1, <2>1
  <2>2. CASE /\ ratio' = rounds /\ rounds # 0
             /\ at' = (IF due THEN "rebalance" ELSE "read")
             /\ j' = (IF due THEN 0 ELSE count)
             /\ waited' = (IF due THEN 0 ELSE IF ratio = rounds THEN waited + 1 ELSE 1)
    <3> HIDE DEF hri, rounds, count
    <3>1. CASE due
      BY <1>1, <1>2, <2>2, <3>1
    <3>2. CASE ~due
      <4>1. count % rounds # 0 /\ count % rounds \in Nat
        BY <1>2, <1>3, <3>2 DEF Due
      <4>2. count = j + 1
        BY <1>2, <1>3, <4>1
      <4>3. (j + 1) % rounds = (j % rounds) + 1
        BY <1>1, <1>2, <4>1, <4>2, ModSuccessor
      <4>4. waited' <= count % rounds /\ waited' \in Nat
        BY <1>1, <2>2, <3>2, <4>1, <4>2, <4>3
      <4> QED
        BY <1>2, <1>3, <2>2, <3>2, <4>4
    <3> QED
      BY <3>1, <3>2
  <2> QED
    BY <1>2, <2>1, <2>2 DEF EndRound
<1> QED
  BY <1>4, <1>5, <1>6, <1>7 DEF IInv, TypeOK, Counting, Sound

LEMMA MonitorStep == IInv /\ Monitor => IInv'
<1> SUFFICES ASSUME IInv, Monitor PROVE IInv'
  OBVIOUS
<1>1. CASE StartMonitor
  BY <1>1 DEF StartMonitor, configVars, IInv, TypeOK, Counting, Sound
<1>2. CASE ReadSettings
  <2>1. copy' \in [Copied -> Int] /\ copy'["monitor_interval"] > 0
    BY <1>2 DEF ReadSettings, IInv, TypeOK
  <2> QED
    BY <1>2, <2>1 DEF ReadSettings, configVars, IInv, TypeOK, Counting, Sound
<1>3. CASE EndRound
  BY <1>3, EndRoundStep
<1>4. CASE Rebalance
  BY <1>4 DEF Rebalance, configVars, IInv, TypeOK, Counting, Sound
<1>5. CASE CheckLoads
  BY <1>5 DEF CheckLoads, Unused, configVars, IInv, TypeOK, Counting, Sound
<1> QED
  BY <1>1, <1>2, <1>3, <1>4, <1>5 DEF Monitor
-----------------------------------------------------------------------------
(* The sections.  What has been read of a section agrees with the local      *)
(* variables, and so does every server with the section it was made from.    *)

Values == Int \cup Ips
Words  == Int \cup {Garbage, Missing}
Servers == [is : [Fields -> Values], said : [Fields -> Words], overruled : SUBSET Fields,
            default_maxc : Int, default_maxl : Int]

\* A field that is not overruled has the value said, or its default.
Agrees(is, said, over, limit, load) ==
  /\ \A f \in Fields \ over : said[f] # Missing => is[f] = Converted(f, said[f])
  /\ said["ip"] # Missing => is["ip"] = Converted("ip", said["ip"])
  /\ "clone" \notin over /\ said["clone"] = Missing => is["clone"] = 0
  /\ "port" \notin over /\ said["port"] = Missing => is["port"] = DefaultPort
  /\ "status" \notin over /\ said["status"] = Missing => is["status"] = 1
  /\ "standby" \notin over /\ said["standby"] = Missing => is["standby"] = 0
  /\ "maxc" \notin over /\ said["maxc"] = Missing => is["maxc"] = limit
  /\ "maxl" \notin over /\ said["maxl"] = Missing => is["maxl"] = load

SectionInv ==
  /\ local \in [Fields -> Values] /\ text \in [Fields -> Words] /\ overruled \subseteq Fields
  /\ servers \in Seq(Servers)
  /\ phase = "parse" =>
       Agrees(local, text, overruled, settings["default_maxc"], settings["default_maxl"])
  /\ \A k \in 1..Len(servers) :
       Agrees(servers[k].is, servers[k].said, servers[k].overruled,
              servers[k].default_maxc, servers[k].default_maxl)

LEMMA SetFieldAgrees ==
  ASSUME NEW f \in Fields, NEW v \in Words, FieldAccepted(f, v), SetField(f, v),
         local \in [Fields -> Values], text \in [Fields -> Words], overruled \subseteq Fields,
         NEW limit, NEW load, Agrees(local, text, overruled, limit, load)
  PROVE  /\ local' \in [Fields -> Values] /\ text' \in [Fields -> Words]
         /\ overruled' \subseteq Fields
         /\ Agrees(local', text', overruled', limit, load)
<1>1. CASE UNCHANGED <<local, text, overruled>>
  BY <1>1
<1>2. CASE /\ local' = [local EXCEPT ![Assigned(f, v)] = Converted(f, v)]
           /\ text' = [text EXCEPT ![f] = v] /\ overruled' = Overruled(f, v)
  <2>1. v # Missing
    BY Zenon DEF FieldAccepted
  <2>2. strtol(v) \in Int
    BY <2>1, NumberRead DEF Words
  <2>3. Converted(f, v) \in Int
    BY <2>2, Cut DEF Converted
  <2>4. text' \in [Fields -> Words] /\ \A g \in Fields : text'[g] = IF g = f THEN v ELSE text[g]
    BY <1>2
  <2>5. CASE ~(f = "clone" /\ v = 0)
    <3>1. Assigned(f, v) = f
      BY <2>5 DEF Assigned
    <3>2. \A g \in Fields : local'[g] = IF g = f THEN Converted(f, v) ELSE local[g]
      BY <1>2, <3>1
    <3>3. local' \in [Fields -> Values]
      BY <1>2, <2>3, <3>1 DEF Values
    <3>4. overruled' = overruled \ {f}
      BY <1>2, <3>1 DEF Overruled
    <3>5. Agrees(local', text', overruled', limit, load)
      BY <2>1, <2>4, <3>2, <3>4 DEF Agrees, Fields
    <3> QED
      BY <2>4, <3>3, <3>4, <3>5
  <2>6. CASE f = "clone" /\ v = 0
    <3>1. Assigned(f, v) = "standby" /\ "standby" \in Fields /\ "clone" \in Fields
      BY <2>6 DEF Assigned, Fields
    <3>2. Converted(f, v) = 0 /\ Converted("standby", 0) = 0 /\ Converted("clone", 0) = 0
      BY <2>6, LineAssumption DEF Converted, strtol
    <3>3. \A g \in Fields : local'[g] = IF g = "standby" THEN 0 ELSE local[g]
      BY <1>2, <3>1, <3>2
    <3>4. local' \in [Fields -> Values]
      BY <1>2, <3>1, <3>2 DEF Values
    <3>5. Missing # 0
      BY LineAssumption
    <3>6. /\ overruled' \subseteq Fields
          /\ \A g \in Fields : g \in overruled' <=>
               g \in overruled \/ (g \in {"standby", "clone"} /\ text[g] \notin {Missing, 0})
      BY <1>2, <2>6, <3>1 DEF Overruled, Turned, Switches
    <3>7. Agrees(local', text', overruled', limit, load)
      BY <2>4, <2>6, <3>2, <3>3, <3>5, <3>6 DEF Agrees, Fields
    <3> QED
      BY <2>4, <3>4, <3>6, <3>7
  <2> QED
    BY <2>5, <2>6
<1> QED
  BY <1>1, <1>2 DEF SetField

LEMMA SectionStep == IInv /\ SectionInv /\ [Next]_vars => SectionInv'
<1> SUFFICES ASSUME IInv, SectionInv, [Next]_vars PROVE SectionInv'
  OBVIOUS
<1> USE DEF SectionInv
<1>0. settings \in [Globals -> Int] /\ settings["default_maxc"] \in Int /\ settings["default_maxl"] \in Int
  BY DEF IInv, TypeOK
<1>1. CASE phase # "parse" /\ phase' # "parse" /\ UNCHANGED <<local, servers, text, overruled>>
  BY <1>1
<1>2. CASE UNCHANGED configVars
  BY <1>2 DEF configVars
<1>3. CASE EndOfFile
  <2>1. local' \in [Fields -> Values] /\ text' \in [Fields -> Words] /\ overruled' \subseteq Fields
    BY <1>3 DEF EndOfFile, Unsaid, Values, Words
  <2>2. servers' = <<>> /\ phase' = "serve"
    BY <1>3 DEF EndOfFile
  <2> QED
    BY <2>1, <2>2
<1>4. ASSUME phase = "parse", NEW l \in Lines, ServerLine(l) PROVE SectionInv'
  <2>1. UNCHANGED <<servers, settings>> /\ l.directive \in Fields /\ l.value \in Words
    BY <1>4, LineAssumption DEF ServerLine, Words
  <2>2. CASE UNCHANGED <<local, text, overruled>>
    BY <1>4, <2>1, <2>2
  <2>3. CASE /\ FieldAccepted(l.directive, l.value) /\ SetField(l.directive, l.value)
             /\ UNCHANGED phase
    BY <1>4, <2>1, <2>3, SetFieldAgrees
  <2> QED
    BY <1>4, <2>2, <2>3 DEF ServerLine
<1>5. ASSUME phase = "parse", NEW l \in Lines, StartSection(l) PROVE SectionInv'
  <2>1. /\ \A g \in Fields : text'[g] = Missing /\ (text[g] # Missing => g \in overruled')
        /\ text' \in [Fields -> Words] /\ overruled \subseteq overruled' /\ overruled' \subseteq Fields
    BY <1>5 DEF StartSection, Unsaid, Said, Words
  <2>2. UNCHANGED <<phase, local, servers, settings>>
    BY <1>5 DEF StartSection
  <2>3. Agrees(local', text', overruled', settings["default_maxc"], settings["default_maxl"])
    BY <1>5, <2>1, <2>2 DEF Agrees, Fields
  <2> QED
    BY <1>5, <2>1, <2>2, <2>3
<1>6. ASSUME phase = "parse", NEW l \in Lines, EndSection(l) PROVE SectionInv'
  <2> DEFINE s == [is |-> local, said |-> text, overruled |-> overruled,
                   default_maxc |-> settings["default_maxc"],
                   default_maxl |-> settings["default_maxl"]]
  <2>1. s \in Servers
    BY <1>0 DEF Servers
  <2>2. Agrees(s.is, s.said, s.overruled, s.default_maxc, s.default_maxl)
    BY <1>6
  <2>3. servers' = Append(servers, s) /\ UNCHANGED <<phase, settings>>
    BY <1>6 DEF EndSection
  <2> HIDE DEF s
  <2>4. /\ servers' \in Seq(Servers)
        /\ \A k \in 1..Len(servers') :
             \/ k \in 1..Len(servers) /\ servers'[k] = servers[k]
             \/ servers'[k] = s
    BY <2>1, <2>3
  <2>5. \A g \in Fields : /\ local'[g] = CASE g \in {"status"} -> 1
                                         [] g = "port" -> DefaultPort
                                         [] g \in {"clone", "standby"} -> 0
                                         [] g = "maxc" -> settings["default_maxc"]
                                         [] g = "maxl" -> settings["default_maxl"]
                                         [] OTHER -> local[g]
                          /\ text'[g] = Missing /\ overruled' = {}
    BY <1>6 DEF EndSection, Reset, Unsaid, Fields
  <2>6. local' \in [Fields -> Values] /\ text' \in [Fields -> Words] /\ overruled' \subseteq Fields
    <3>1. {DefaultPort, 0, 1, settings["default_maxc"], settings["default_maxl"]} \subseteq Values
      BY <1>0, WidthAssumption DEF Values
    <3>2. DOMAIN local' = Fields /\ local' = [g \in Fields |-> local'[g]]
      BY <1>6 DEF EndSection, Reset
    <3>3. ASSUME NEW g \in Fields PROVE local'[g] \in Values
      <4>1. local[g] \in Values
        OBVIOUS
      <4>2. /\ g = "status" => local'[g] = 1
            /\ g = "port" => local'[g] = DefaultPort
            /\ g \in {"clone", "standby"} => local'[g] = 0
            /\ g = "maxc" => local'[g] = settings["default_maxc"]
            /\ g = "maxl" => local'[g] = settings["default_maxl"]
            /\ g \notin {"status", "port", "clone", "standby", "maxc", "maxl"}
                 => local'[g] = local[g]
        BY <2>5
      <4> QED
        BY <3>1, <4>1, <4>2, Zenon
    <3>4. text' \in [Fields -> Words] /\ overruled' \subseteq Fields
      BY <1>6 DEF EndSection, Unsaid, Words
    <3> QED
      BY <3>2, <3>3, <3>4
  <2>7. Agrees(local', text', overruled', settings["default_maxc"], settings["default_maxl"])
    BY <2>5 DEF Agrees, Fields
  <2>8. \A k \in 1..Len(servers') :
          Agrees(servers'[k].is, servers'[k].said, servers'[k].overruled,
                 servers'[k].default_maxc, servers'[k].default_maxl)
    BY <2>2, <2>4
  <2> QED
    BY <2>3, <2>4, <2>6, <2>7, <2>8
<1>7. ASSUME phase = "parse", NEW l \in Lines, GlobalLine(l) PROVE SectionInv'
  <2> DEFINE d == l.directive
             n == Stored(d, l.value)
  <2>1. UNCHANGED servers /\ d \in Globals /\ l.value \in Words
    BY <1>7, LineAssumption DEF GlobalLine, Words
  <2>2. CASE phase' = "exit" /\ UNCHANGED <<local, text, overruled>>
    BY <2>1, <2>2
  <2>3. CASE GlobalAccepted(d, l.value)
    <3>1. n \in Int
      BY <2>1, <2>3, StoredSound DEF Words
    <3>2. settings' = [settings EXCEPT ![d] = n] /\ UNCHANGED phase
      BY <1>7, <2>3 DEF GlobalLine
    <3> HIDE DEF n
    <3>3. CASE d = "default_maxc"
      <4>1. /\ local' = [local EXCEPT !["maxc"] = n] /\ UNCHANGED text
            /\ overruled' = overruled \cup ({"maxc"} \cap Said)
        BY <1>7, <2>3, <3>3 DEF GlobalLine, n
      <4>2. /\ \A g \in Fields : local'[g] = IF g = "maxc" THEN n ELSE local[g]
            /\ "maxc" \in Fields /\ overruled' \subseteq Fields
            /\ text["maxc"] # Missing => "maxc" \in overruled'
            /\ \A g \in Fields \ {"maxc"} : g \in overruled' <=> g \in overruled
            /\ "maxc" \in overruled => "maxc" \in overruled'
        BY <4>1 DEF Fields, Said
      <4>3. settings'["default_maxc"] = n /\ settings'["default_maxl"] = settings["default_maxl"]
        BY <1>0, <3>2, <3>3
      <4>4. Agrees(local', text', overruled', settings'["default_maxc"], settings'["default_maxl"])
        BY <1>7, <4>1, <4>2, <4>3 DEF Agrees, Fields
      <4>5. local' \in [Fields -> Values] /\ text' \in [Fields -> Words] /\ overruled' \subseteq Fields
        BY <3>1, <4>1, <4>2 DEF Values, Words
      <4> QED
        BY <2>1, <4>4, <4>5
    <3>4. CASE d = "default_maxl"
      <4>1. /\ local' = [local EXCEPT !["maxl"] = n] /\ UNCHANGED text
            /\ overruled' = overruled \cup ({"maxl"} \cap Said)
        BY <1>7, <2>3, <3>4 DEF GlobalLine, n
      <4>2. /\ \A g \in Fields : local'[g] = IF g = "maxl" THEN n ELSE local[g]
            /\ "maxl" \in Fields /\ overruled' \subseteq Fields
            /\ text["maxl"] # Missing => "maxl" \in overruled'
            /\ \A g \in Fields \ {"maxl"} : g \in overruled' <=> g \in overruled
            /\ "maxl" \in overruled => "maxl" \in overruled'
        BY <4>1 DEF Fields, Said
      <4>3. settings'["default_maxl"] = n /\ settings'["default_maxc"] = settings["default_maxc"]
        BY <1>0, <3>2, <3>4
      <4>4. Agrees(local', text', overruled', settings'["default_maxc"], settings'["default_maxl"])
        BY <1>7, <4>1, <4>2, <4>3 DEF Agrees, Fields
      <4>5. local' \in [Fields -> Values] /\ text' \in [Fields -> Words] /\ overruled' \subseteq Fields
        BY <3>1, <4>1, <4>2 DEF Values, Words
      <4> QED
        BY <2>1, <4>4, <4>5
    <3>5. CASE d \notin {"default_maxc", "default_maxl"}
      <4>1. UNCHANGED <<local, text, overruled>>
        BY <1>7, <2>3, <3>5 DEF GlobalLine
      <4>2. UNCHANGED <<settings["default_maxc"], settings["default_maxl"]>>
        BY <1>0, <3>2, <3>5
      <4> QED
        BY <1>7, <2>1, <3>2, <4>1, <4>2
    <3> QED
      BY <3>3, <3>4, <3>5
  <2> QED
    BY <1>7, <2>2, <2>3 DEF GlobalLine
<1>8. CASE NextConfig
  BY <1>3, <1>4, <1>5, <1>6, <1>7, <1>8 DEF NextConfig, ReadLine
<1>9. CASE Monitor \/ Admin
  <2>1. CASE EndRound
    <3>1. /\ UNCHANGED <<phase, servers, local, text, overruled>>
          /\ settings' = settings \/ \E h : settings' = [settings EXCEPT !["hash_rebalance_interval"] = h]
      BY <2>1 DEF EndRound
    <3>2. UNCHANGED <<settings["default_maxc"], settings["default_maxl"]>>
      BY <1>0, <3>1
    <3> QED
      BY <3>1, <3>2
  <2>2. CASE StartMonitor \/ ReadSettings \/ CheckLoads \/ Rebalance
    BY <1>2, <2>2 DEF StartMonitor, ReadSettings, CheckLoads, Rebalance
  <2>3. CASE Admin
    BY <1>1, <2>3 DEF Admin, cmd_hri, cmd_hrs, cmd_hrt, cmd_monitor, cmd_snmp, cmd_algorithm, Set
  <2> QED
    BY <1>9, <2>1, <2>2, <2>3 DEF Monitor
<1> QED
  BY <1>2, <1>8, <1>9 DEF Next, vars

LEMMA SectionInit == Init => SectionInv
<1> SUFFICES ASSUME Init PROVE SectionInv
  OBVIOUS
<1>1. PICK ip \in Ips :
        local = [ip |-> ip, port |-> DefaultPort, status |-> 1, standby |-> 0,
                 clone |-> 0, maxc |-> Defaults["default_maxc"],
                 maxl |-> Defaults["default_maxl"]]
  BY DEF Init, InitConfig
<1>2. /\ local["port"] = DefaultPort /\ local["status"] = 1 /\ local["standby"] = 0
      /\ local["clone"] = 0 /\ local["maxc"] = Defaults["default_maxc"]
      /\ local["maxl"] = Defaults["default_maxl"] /\ local["ip"] = ip
      /\ DOMAIN local = Fields
  BY <1>1 DEF Fields
<1>3. Defaults["default_maxc"] \in Int /\ Defaults["default_maxl"] \in Int /\ DefaultPort \in Int
  BY DefaultAssumption, WidthAssumption
<1>4. \A g \in Fields : local[g] \in Values
  BY <1>2, <1>3 DEF Values, Fields
<1>5. local \in [Fields -> Values]
  <2>1. local = [g \in Fields |-> local[g]]
    BY <1>1, <1>2
  <2> QED
    BY <1>4, <2>1
<1>6. text \in [Fields -> Words] /\ overruled = {} /\ \A g \in Fields : text[g] = Missing
  BY DEF Init, InitConfig, Unsaid, Words
<1>7. servers = <<>> /\ settings = Defaults
  BY DEF Init, InitConfig
<1>8. Agrees(local, text, overruled, settings["default_maxc"], settings["default_maxl"])
  BY <1>2, <1>6, <1>7 DEF Agrees, Fields
<1> QED
  BY <1>5, <1>6, <1>7, <1>8 DEF SectionInv
-----------------------------------------------------------------------------
LEMMA InitInv == Init => IInv
<1> SUFFICES ASSUME Init PROVE IInv
  OBVIOUS
<1>1. DOMAIN local = Fields /\ DOMAIN text = Fields /\ overruled \subseteq Fields /\ copy \in [Copied -> Int]
  BY DEF Init, InitConfig, Unsaid, Unused, Fields
<1>2. /\ phase \in {"parse", "exit"} /\ read = 0 /\ section = FALSE /\ at = "none"
      /\ j = 0 /\ waited = 0 /\ ratio = 1 /\ settings = Defaults
  BY DEF Init, InitConfig
<1>3. TypeOK
  <2>1. 0 \in 0..MaxLines /\ 0 \in 0..USHRT_MAX
    BY WidthAssumption, LineAssumption
  <2>2. Defaults \in [Globals -> Int] /\ Defaults["monitor_interval"] \in 0..USHRT_MAX
    BY Zenon, DefaultAssumption
  <2> QED
    BY <1>1, <1>2, <2>1, <2>2 DEF TypeOK
<1>4. Sound(settings) /\ Counting
  BY <1>2, DefaultAssumption DEF Counting
<1> QED
  BY <1>3, <1>4 DEF IInv

LEMMA NextInv == IInv /\ [Next]_vars => IInv'
<1>1. IInv /\ UNCHANGED vars => IInv'
  BY DEF vars, configVars, monitorVars, IInv, TypeOK, Counting, Sound
<1> QED
  BY <1>1, ConfigStep, MonitorStep, AdminStep DEF Next

LEMMA Invariant == Spec => []IInv
BY InitInv, NextInv, PTL DEF Spec

\* Whatever the file says and the administrator types, every setting is an
\* int, and the monitor's interval and its count of rounds fit an unsigned
\* short.
THEOREM SettingsTyped == Spec => []TypeOK
<1>1. IInv => TypeOK
  BY DEF IInv
<1> QED
  BY <1>1, Invariant, PTL

\* SettingsInRange: for every width of int and short, and however wide the number,
\* the two percentages, connect_timeout, binding_port, session_limit and fd_limit
\* keep to the limits their checks are for; hash_rebalance_interval does not.
THEOREM RangeKept == Spec => []SettingsInRange
<1>1. IInv => SettingsInRange
  BY DEF IInv, SettingsInRange
<1> QED
  BY <1>1, Invariant, PTL

\* No sequence of commands between the statements of the monitor's loop makes
\* it divide by zero.
THEOREM MonitorLives == Spec => []MonitorSurvives
<1>1. IInv => MonitorSurvives
  BY DEF IInv, Counting, MonitorSurvives
<1> QED
  BY <1>1, Invariant, PTL

\* The count of rounds never lets a rebalancing that is due pass, whatever
\* intervals it was begun under and however often it wraps around.
THEOREM RebalancedWhenDue == Spec => []RebalancedInTime
<1>1. IInv => RebalancedInTime
  BY DEF IInv, TypeOK, Counting, RebalancedInTime
<1> QED
  BY <1>1, Invariant, PTL

\* SectionAsWritten: each field of a server created from the file is what its own
\* section says last or else the default in force, after any number of sections,
\* except the fields that the property names as overruled (by "clone=false", by a
\* default that follows in the section, by an earlier section that was not closed)
\* and an address the section does not say.
THEOREM SectionsKept == Spec => []SectionAsWritten
<1>1. SectionInv => SectionAsWritten
  BY DEF SectionInv, SectionAsWritten, Agrees, AsSaid, Fields
<1> QED
  BY <1>1, SectionInit, SectionStep, Invariant, PTL DEF Spec
=============================================================================
