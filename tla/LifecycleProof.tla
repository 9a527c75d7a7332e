--------------------------- MODULE LifecycleProof ---------------------------
(****************************************************************************)
(* Proofs about Lifecycle, for any number of instances and of faults, as    *)
(* long as no other instance runs between stat() and open().                *)
(****************************************************************************)
EXTENDS Lifecycle, TLAPS

\* Where the processes of an instance can be, and what they then know.
Staged(i) ==
  /\ pc[Starter(i)] \in Places \ {"none", "born", "run"}
  /\ pc[Monitor(i)] \in {"none", "born", "run", "gone"}
  /\ pc[Daemon(i)] \in {"none", "process", "listen", "serve", "exit", "exit_last",
                        "clean", "rmid", "gone"}
  /\ pc[Starter(i)] \in {"stat", "open", "attach"} => key[i] = None
  /\ pc[Starter(i)] \in {"fork", "setup", "process", "listen", "serve", "clean", "rmid"}
       => key[i] = i
  /\ pc[Monitor(i)] # "none" => key[i] = i
  /\ pc[Daemon(i)] # "none" => key[i] = i /\ ~foreground[i] /\ pc[Starter(i)] = "gone"

\* The segment an instance is attached to is its own, and so are the pids in it.
Recorded(i) ==
  /\ key[i] \in {None, i}
  /\ seg[i].master_pid \in {None, Master(i)}
  /\ seg[i].monitor_pid \in {None, Monitor(i)}
  /\ key[i] = None => seg[i].master_pid = None
  /\ pc[Master(i)] \in {"listen", "serve"} => seg[i].master_pid = Master(i)

\* The starter or the daemon of an attached instance is at work.
Working(i) ==
  \/ Live(Starter(i)) /\ pc[Starter(i)] # "rmid"
  \/ Live(Daemon(i)) /\ pc[Daemon(i)] # "rmid"

\* The run file is the instance's from open() to unlink(), its segment can be
\* found and says so, and the file is given back before the master ends.
Locked(i) ==
  /\ pc[Starter(i)] = "open" =>
       file = None /\ \A j \in Instances \ {i} : pc[Starter(j)] # "open"
  /\ pc[Starter(i)] = "attach" \/ (key[i] = i /\ Working(i)) => file = i
  /\ key[i] = i /\ Working(i) /\ "clean" \notin {pc[Starter(i)], pc[Daemon(i)]}
       => seg[i].keyed /\ seg[i].alive
  /\ "rmid" \in {pc[Starter(i)], pc[Daemon(i)]} => file # i \/ i \in abandoned
  /\ file = i /\ seg[i].master_pid # None => Live(Master(i)) \/ i \in abandoned

Inv(i) == Staged(i) /\ Recorded(i) /\ Locked(i)

IInv == TypeOK /\ \A i \in Instances : Inv(i)
-----------------------------------------------------------------------------
(* The processes.                                                            *)

LEMMA Processes ==
  /\ \A i \in Instances : {Starter(i), Monitor(i), Daemon(i)} \subseteq Procs
  /\ \A i \in Instances : {<<i, r>> : r \in Roles} = {Starter(i), Monitor(i), Daemon(i)}
  /\ \A i, j \in Instances :
       /\ Starter(i) # Monitor(j) /\ Starter(i) # Daemon(j) /\ Monitor(i) # Daemon(j)
       /\ i # j => Starter(i) # Starter(j) /\ Monitor(i) # Monitor(j) /\ Daemon(i) # Daemon(j)
  /\ \A i \in Instances : None \notin {Starter(i), Monitor(i), Daemon(i)}
<1>1. \A i \in Instances : {Starter(i), Monitor(i), Daemon(i)} \subseteq Procs
  BY DEF Starter, Monitor, Daemon, Procs, Roles
<1>2. \A i \in Instances : {<<i, r>> : r \in Roles} = {Starter(i), Monitor(i), Daemon(i)}
  BY DEF Starter, Monitor, Daemon, Roles
<1>3. \A i, j \in Instances :
       /\ Starter(i) # Monitor(j) /\ Starter(i) # Daemon(j) /\ Monitor(i) # Daemon(j)
       /\ i # j => Starter(i) # Starter(j) /\ Monitor(i) # Monitor(j) /\ Daemon(i) # Daemon(j)
  BY DEF Starter, Monitor, Daemon
<1> QED BY <1>1, <1>2, <1>3, NoneAssumption

LEMMA MasterIs ==
  ASSUME NEW i \in Instances
  PROVE  /\ foreground[i] => Master(i) = Starter(i)
         /\ ~foreground[i] => Master(i) = Daemon(i)
         /\ Master(i) \in Procs /\ Master(i) # None /\ Master(i) # Monitor(i)
  BY Processes DEF Master

\* A step that leaves the processes and the segment of instance j alone.
Apart(j) ==
  /\ pc'[Starter(j)] = pc[Starter(j)]
  /\ pc'[Monitor(j)] = pc[Monitor(j)]
  /\ pc'[Daemon(j)] = pc[Daemon(j)]
  /\ key'[j] = key[j] /\ seg'[j] = seg[j] /\ UNCHANGED foreground
  /\ j \in abandoned => j \in abandoned'

\* The run file is needed by instance j.
Needs(j) == pc[Starter(j)] = "attach" \/ (key[j] = j /\ Working(j))

LEMMA OthersKeep ==
  ASSUME NEW j \in Instances, Inv(j), Apart(j),
         file' = file \/ (file' # j /\ ~Needs(j)),
         pc[Starter(j)] = "open" =>
           file' = None /\ \A k \in Instances \ {j} : pc'[Starter(k)] # "open"
  PROVE  Inv(j)'
<1>1. Master(j)' = Master(j) /\ pc'[Master(j)] = pc[Master(j)]
  BY DEF Apart, Master
<1>2. Live(Starter(j))' = Live(Starter(j)) /\ Live(Daemon(j))' = Live(Daemon(j))
  BY DEF Apart, Live
<1>3. Staged(j)'
  BY DEF Inv, Staged, Apart
<1>4. Recorded(j)'
  BY <1>1 DEF Inv, Recorded, Apart
<1>5. Locked(j)'
  BY <1>1, <1>2 DEF Inv, Locked, Apart, Needs, Working, Live
<1> QED BY <1>3, <1>4, <1>5 DEF Inv
-----------------------------------------------------------------------------
(* Type correctness.                                                         *)

Segments == [keyed : BOOLEAN, alive : BOOLEAN, master_pid : Pids, monitor_pid : Pids]

\* The steps of one instance and its processes.
InstanceStep(i) ==
  \/ Startup(i)
  \/ \E p \in {Starter(i), Monitor(i), Daemon(i)} :
       Shutdown(i, p) \/ clean_exit(i, p) \/ Crash(i, p) \/ Terminate(p)

LEMMA NextSteps == Next <=> (\E i \in Instances : InstanceStep(i)) \/ Admin \/ stop
<1>1. ASSUME NEW i \in Instances
      PROVE  (\E r \in Roles : Shutdown(i, <<i, r>>) \/ clean_exit(i, <<i, r>>)
                                  \/ Crash(i, <<i, r>>) \/ Terminate(<<i, r>>))
             <=> \E p \in {Starter(i), Monitor(i), Daemon(i)} :
                   Shutdown(i, p) \/ clean_exit(i, p) \/ Crash(i, p) \/ Terminate(p)
  BY DEF Roles, Starter, Monitor, Daemon
<1> QED BY <1>1 DEF Next, InstanceStep

LEMMA GotoType ==
  ASSUME TypeOK, NEW p \in Procs, NEW place \in Places, Goto(p, place)
  PROVE  pc' \in [Procs -> Places]
  BY DEF TypeOK, Goto

LEMMA EndsType ==
  ASSUME TypeOK, NEW p \in Procs, Ends(p)
  PROVE  pc' \in [Procs -> Places] /\ listener' \in Pids
  BY GotoType DEF TypeOK, Ends, Places, Pids

LEMMA KillType == TypeOK => \A pids : Kill(pids) \subseteq Procs
  BY DEF TypeOK, Kill

LEMMA StartupType ==
  ASSUME IInv, NEW i \in Instances, Startup(i)
  PROVE  TypeOK'
<1>1. TypeOK /\ Staged(i) /\ Recorded(i)
  BY DEF IInv, Inv
<1>2. Starter(i) \in Procs /\ Monitor(i) \in Procs /\ Daemon(i) \in Procs /\ Master(i) \in Procs
  BY Processes, MasterIs
<1>3. seg \in [Instances -> Segments] /\ FreshBalancer \in Segments
  BY <1>1 DEF TypeOK, Segments, FreshBalancer, Pids
<1>4. \A p \in Procs : [seg EXCEPT ![key[i]].master_pid = p] \in [Instances -> Segments]
  BY <1>3 DEF Segments, Pids
<1>5. [seg EXCEPT ![key[i]].monitor_pid = Monitor(i)] \in [Instances -> Segments]
  BY <1>2, <1>3 DEF Segments, Pids
<1>6. CASE StatFile(i)
  BY <1>1, <1>2, <1>6, GotoType DEF StatFile, TypeOK, Places
<1>7. CASE OpenFile(i)
  BY <1>1, <1>2, <1>7, GotoType DEF OpenFile, TypeOK, Places
<1>8. CASE AttachSegment(i)
  <2>1. [seg EXCEPT ![file] = FreshBalancer] \in [Instances -> Segments]
    BY <1>3
  <2>2. file # None => [key EXCEPT ![i] = file] \in [Instances -> Instances \cup {None}]
    BY <1>1 DEF TypeOK
  <2>3. pc' \in [Procs -> Places]
    BY <1>1, <1>2, <1>8, GotoType DEF AttachSegment, Places
  <2> QED BY <1>1, <1>8, <2>1, <2>2, <2>3 DEF AttachSegment, TypeOK, Segments
<1>9. CASE initialize_monitor(i)
  BY <1>1, <1>2, <1>9, GotoType DEF initialize_monitor, TypeOK, Places
<1>10. CASE MonitorRuns(i)
  BY <1>1, <1>2, <1>5, <1>10, GotoType DEF MonitorRuns, TypeOK, Places, Segments
<1>11. CASE AllocateTables(i)
  BY <1>1, <1>2, <1>11, GotoType DEF AllocateTables, TypeOK, Places
<1>12. CASE Daemonize(i)
  BY <1>1, <1>2, <1>12, GotoType DEF Daemonize, TypeOK, Places
<1>13. CASE RecordMaster(i)
  BY <1>1, <1>2, <1>4, <1>13, GotoType DEF RecordMaster, Promote, TypeOK, Places, Segments
<1>14. CASE create_serversocket(i)
  BY <1>1, <1>2, <1>14, GotoType DEF create_serversocket, TypeOK, Places, Pids
<1> QED BY <1>6, <1>7, <1>8, <1>9, <1>10, <1>11, <1>12, <1>13, <1>14 DEF Startup

LEMMA ShutdownType ==
  ASSUME IInv, NEW i \in Instances, NEW p \in {Starter(i), Monitor(i), Daemon(i)},
         Shutdown(i, p) \/ clean_exit(i, p) \/ Crash(i, p) \/ Terminate(p)
  PROVE  TypeOK'
<1>1. TypeOK
  BY DEF IInv
<1>2. p \in Procs
  BY Processes
<1>3. seg \in [Instances -> Segments]
  BY <1>1 DEF TypeOK, Segments
<1>4. /\ [seg EXCEPT ![key[i]].alive = FALSE] \in [Instances -> Segments]
      /\ [seg EXCEPT ![key[i]].keyed = FALSE] \in [Instances -> Segments]
  BY <1>3 DEF Segments
<1>5. ASSUME ShutDown(i, p) PROVE pc' \in [Procs -> Places] /\ seg' \in [Instances -> Segments]
  BY <1>1, <1>2, <1>4, <1>5, GotoType DEF ShutDown, Places
<1>6. CASE ExitSignals(i, p)
  BY <1>1, <1>2, <1>6, GotoType, KillType DEF ExitSignals, TypeOK, Places
<1>7. CASE ExitLast(i, p)
  BY <1>1, <1>2, <1>5, <1>7, EndsType, KillType DEF ExitLast, ShutDown, TypeOK, Segments
<1>8. CASE RemoveFile(i, p)
  BY <1>1, <1>2, <1>8, GotoType DEF RemoveFile, TypeOK, Places
<1>9. CASE RemoveSegment(i, p)
  BY <1>1, <1>2, <1>4, <1>9, EndsType DEF RemoveSegment, TypeOK, Segments
<1>10. CASE clean_exit(i, p)
  BY <1>1, <1>2, <1>5, <1>10, EndsType DEF clean_exit, ShutDown, TypeOK, Segments
<1>11. CASE Crash(i, p)
  BY <1>1, <1>2, <1>11, EndsType, OptionAssumption DEF Crash, Interfere, TypeOK
<1>12. CASE Terminate(p)
  BY <1>1, <1>2, <1>12, KillType, OptionAssumption DEF Terminate, Interfere, TypeOK
<1> QED BY <1>6, <1>7, <1>8, <1>9, <1>10, <1>11, <1>12 DEF Shutdown

LEMMA OutsideType ==
  ASSUME TypeOK, Admin \/ stop
  PROVE  TypeOK'
<1>1. CASE connect_to_shm
  BY <1>1 DEF connect_to_shm, TypeOK
<1>2. CASE AdminQuits
  BY <1>2 DEF AdminQuits, TypeOK
<1>3. CASE cmd_kill
  BY <1>3, KillType DEF cmd_kill, TypeOK
<1>4. CASE stop
  BY <1>4 DEF stop, TypeOK
<1> QED BY <1>1, <1>2, <1>3, <1>4 DEF Admin
-----------------------------------------------------------------------------
(* The steps of an instance keep its own invariant and that of the others.   *)

\* The processes of the other instances do not move.
Still(i) ==
  \A j \in Instances \ {i} :
    /\ pc'[Starter(j)] = pc[Starter(j)]
    /\ pc'[Monitor(j)] = pc[Monitor(j)]
    /\ pc'[Daemon(j)] = pc[Daemon(j)]

\* Where the processes of instance i go, and that no other process moves.
Moves(i, starter, monitor, daemon) ==
  /\ pc'[Starter(i)] = starter /\ pc'[Monitor(i)] = monitor /\ pc'[Daemon(i)] = daemon
  /\ Still(i)

LEMMA GotoMoves ==
  ASSUME TypeOK, NEW i \in Instances, NEW place
  PROVE  /\ Goto(Starter(i), place) => Moves(i, place, pc[Monitor(i)], pc[Daemon(i)])
         /\ Goto(Monitor(i), place) => Moves(i, pc[Starter(i)], place, pc[Daemon(i)])
         /\ Goto(Daemon(i), place) => Moves(i, pc[Starter(i)], pc[Monitor(i)], place)
  BY Processes DEF TypeOK, Goto, Moves, Still

\* Of the fields of BALANCER only instance i's change.
Writes(i) == \A j \in Instances \ {i} : key'[j] = key[j] /\ seg'[j] = seg[j]

\* A step of instance i leaves the others what they have: the file, if it changes,
\* is nobody else's, and i does not come between another one's stat() and open().
LEMMA InstanceKeeps ==
  ASSUME IInv, NEW i \in Instances, Inv(i)', Still(i),
         Writes(i), UNCHANGED foreground, abandoned \subseteq abandoned',
         file' = file \/ {file, file'} \subseteq {None, i},
         \/ UNCHANGED file /\ pc'[Starter(i)] # "open"
         \/ \A j \in Instances \ {i} : pc[Starter(j)] # "open"
  PROVE  \A j \in Instances : Inv(j)'
<1>1. SUFFICES ASSUME NEW j \in Instances \ {i} PROVE Inv(j)'
  OBVIOUS
<1>2. Inv(j) /\ Apart(j)
  BY DEF IInv, Still, Writes, Apart
<1>3. file' = file \/ (file' # j /\ ~Needs(j))
  <2>1. Needs(j) => file = j
    BY <1>2 DEF Inv, Locked, Needs
  <2>2. j # None
    BY NoneAssumption
  <2> QED BY <2>1, <2>2
<1>4. ASSUME pc[Starter(j)] = "open"
      PROVE  file' = None /\ \A k \in Instances \ {j} : pc'[Starter(k)] # "open"
  BY <1>2, <1>4 DEF Inv, Locked, Still
<1> QED BY <1>2, <1>3, <1>4, OthersKeep

\* The same when only processes move.
LEMMA MoveKeeps ==
  ASSUME IInv, NEW i \in Instances, Still(i), pc'[Starter(i)] # "open",
         UNCHANGED <<file, key, seg, foreground>>, abandoned \subseteq abandoned', Inv(i)'
  PROVE  \A j \in Instances : Inv(j)'
<1>1. Writes(i)
  BY DEF Writes
<1>2. UNCHANGED foreground /\ file' = file
  OBVIOUS
<1> QED BY <1>1, <1>2, InstanceKeeps

LEMMA OwnFacts ==
  ASSUME IInv, NEW i \in Instances
  PROVE  TypeOK /\ Inv(i) /\ i # None
  BY NoneAssumption DEF IInv

LEMMA StatFileKeeps ==
  ASSUME IInv, ~Interleaved, NEW i \in Instances, StatFile(i)
  PROVE  \A j \in Instances : Inv(j)'
<1>1. TypeOK /\ Inv(i) /\ i # None
  BY OwnFacts
<1> DEFINE place == IF file = None THEN "open" ELSE "exit"
<1>2. Moves(i, place, pc[Monitor(i)], pc[Daemon(i)])
  BY <1>1, GotoMoves DEF StatFile
<1>3. pc[Starter(i)] = "stat" /\ UNCHANGED <<file, key, seg, foreground, abandoned>>
  BY DEF StatFile
<1>4. \A j \in Instances \ {i} : pc'[Starter(j)] = pc[Starter(j)] /\ pc[Starter(j)] # "open"
  BY <1>2 DEF StatFile, Moves, Still
<1>5. Staged(i)' /\ Recorded(i)'
  BY <1>1, <1>2, <1>3 DEF Moves, Inv, Staged, Recorded, Master, Places
<1>6. Locked(i)'
  BY <1>1, <1>2, <1>3, <1>4 DEF Moves, Inv, Staged, Recorded, Locked, Working, Master, Live
<1>7. Writes(i) /\ Inv(i)'
  BY <1>3, <1>5, <1>6 DEF Writes, Inv
<1>8. UNCHANGED foreground /\ file' = file /\ abandoned \subseteq abandoned'
  BY <1>3
<1> QED BY <1>2, <1>4, <1>7, <1>8, InstanceKeeps DEF Moves

LEMMA OpenFileKeeps ==
  ASSUME IInv, NEW i \in Instances, OpenFile(i)
  PROVE  \A j \in Instances : Inv(j)'
<1>1. TypeOK /\ Inv(i) /\ i # None
  BY OwnFacts
<1>2. /\ pc[Starter(i)] = "open" /\ file = None /\ UNCHANGED <<key, seg, foreground, abandoned>>
      /\ \A j \in Instances \ {i} : pc[Starter(j)] # "open"
  BY <1>1 DEF OpenFile, Inv, Locked
<1>3. Writes(i)
  BY <1>2 DEF Writes
<1>4. CASE Goto(Starter(i), "attach") /\ file' = i
  <2>1. Moves(i, "attach", pc[Monitor(i)], pc[Daemon(i)])
    BY <1>1, <1>4, GotoMoves
  <2>2. Staged(i)' /\ Recorded(i)'
    BY <1>1, <1>2, <2>1 DEF Moves, Inv, Staged, Recorded, Master, Places
  <2>3. Locked(i)'
    BY <1>1, <1>2, <1>4, <2>1 DEF Moves, Inv, Staged, Recorded, Locked, Working, Master, Live
  <2> QED BY <1>2, <1>3, <1>4, <2>1, <2>2, <2>3, InstanceKeeps DEF Inv, Moves
<1>5. CASE Goto(Starter(i), "exit") /\ UNCHANGED file
  <2>1. Moves(i, "exit", pc[Monitor(i)], pc[Daemon(i)])
    BY <1>1, <1>5, GotoMoves
  <2>2. Staged(i)' /\ Recorded(i)'
    BY <1>1, <1>2, <2>1 DEF Moves, Inv, Staged, Recorded, Master, Places
  <2>3. Locked(i)'
    BY <1>1, <1>2, <1>5, <2>1 DEF Moves, Inv, Staged, Recorded, Locked, Working, Master, Live
  <2> QED BY <1>2, <1>5, <2>1, <2>2, <2>3, MoveKeeps DEF Inv, Moves
<1> QED BY <1>2, <1>4, <1>5 DEF OpenFile

LEMMA AttachSegmentKeeps ==
  ASSUME IInv, NEW i \in Instances, AttachSegment(i)
  PROVE  \A j \in Instances : Inv(j)'
<1>1. TypeOK /\ Inv(i) /\ i # None
  BY OwnFacts
<1>2. /\ pc[Starter(i)] = "attach" /\ file = i /\ UNCHANGED <<file, foreground, abandoned>>
  BY <1>1 DEF AttachSegment, Inv, Locked
<1>3. CASE /\ key' = [key EXCEPT ![i] = file]
           /\ seg' = [seg EXCEPT ![file] = FreshBalancer]
           /\ Goto(Starter(i), "fork")
  <2>1. Moves(i, "fork", pc[Monitor(i)], pc[Daemon(i)])
    BY <1>1, <1>3, GotoMoves
  <2>2. key'[i] = i /\ seg'[i] = FreshBalancer /\ Writes(i)
    BY <1>1, <1>2, <1>3 DEF TypeOK, Writes
  <2>3. Staged(i)' /\ Recorded(i)'
    BY <1>1, <1>2, <2>1, <2>2 DEF Moves, Inv, Staged, Recorded, Master, Places, FreshBalancer
  <2>4. Locked(i)'
    BY <1>1, <1>2, <2>1, <2>2 DEF Moves, Inv, Staged, Locked, Working, Master, Live, FreshBalancer
  <2> QED BY <1>2, <2>1, <2>2, <2>3, <2>4, InstanceKeeps DEF Inv, Moves
<1>4. CASE Goto(Starter(i), "exit") /\ UNCHANGED <<key, seg>>
  <2>1. Moves(i, "exit", pc[Monitor(i)], pc[Daemon(i)])
    BY <1>1, <1>4, GotoMoves
  <2>2. Staged(i)' /\ Recorded(i)'
    BY <1>1, <1>2, <1>4, <2>1 DEF Moves, Inv, Staged, Recorded, Master, Places
  <2>3. Locked(i)'
    BY <1>1, <1>2, <1>4, <2>1 DEF Moves, Inv, Staged, Recorded, Locked, Working, Master, Live
  <2> QED BY <1>2, <1>4, <2>1, <2>2, <2>3, MoveKeeps DEF Inv, Moves
<1> QED BY <1>3, <1>4 DEF AttachSegment
\* The starter's place moves on, or it fails, and nothing else changes.
LEMMA StarterKeeps ==
  ASSUME IInv, NEW i \in Instances, UNCHANGED <<file, key, seg, foreground, abandoned>>,
         \/ pc[Starter(i)] \in {"fork", "setup", "process", "listen"}
              /\ Goto(Starter(i), "exit")
         \/ pc[Starter(i)] = "fork" /\ Goto(Starter(i), "setup")
         \/ pc[Starter(i)] = "setup" /\ Goto(Starter(i), "process")
         \/ pc[Starter(i)] = "listen" /\ foreground[i] /\ Goto(Starter(i), "serve")
  PROVE  \A j \in Instances : Inv(j)'
<1>1. TypeOK /\ Inv(i) /\ i # None
  BY OwnFacts
<1>2. PICK place \in {"exit", "setup", "process", "serve"} :
        /\ Moves(i, place, pc[Monitor(i)], pc[Daemon(i)])
        /\ place = "serve" => pc[Starter(i)] = "listen" /\ foreground[i]
        /\ pc[Starter(i)] \in {"fork", "setup", "process", "listen"}
  BY <1>1, GotoMoves
<1>3. Staged(i)'
  BY <1>1, <1>2 DEF Moves, Inv, Staged, Places
<1>4. Recorded(i)'
  BY <1>1, <1>2, MasterIs DEF Moves, Inv, Staged, Recorded, Master
<1>5. Locked(i)'
  BY <1>1, <1>2 DEF Moves, Inv, Staged, Recorded, Locked, Working, Master, Live
<1>6. Inv(i)' /\ Still(i) /\ pc'[Starter(i)] # "open"
  BY <1>2, <1>3, <1>4, <1>5 DEF Inv, Moves
<1> QED BY <1>6, MoveKeeps

LEMMA ForkKeeps ==
  ASSUME IInv, NEW i \in Instances, initialize_monitor(i)
  PROVE  \A j \in Instances : Inv(j)'
<1>1. TypeOK /\ Inv(i) /\ i # None
  BY OwnFacts
<1>2. pc[Starter(i)] = "fork" /\ UNCHANGED <<file, key, seg, foreground, abandoned>>
  BY DEF initialize_monitor
<1>3. CASE pc' = [pc EXCEPT ![Starter(i)] = "setup", ![Monitor(i)] = "born"]
  <2>1. Moves(i, "setup", "born", pc[Daemon(i)])
    BY <1>1, <1>3, Processes DEF TypeOK, Moves, Still
  <2>2. Staged(i)' /\ Recorded(i)'
    BY <1>1, <1>2, <2>1 DEF Moves, Inv, Staged, Recorded, Master, Places
  <2>3. Locked(i)'
    BY <1>1, <1>2, <2>1 DEF Moves, Inv, Staged, Recorded, Locked, Working, Master, Live
  <2> QED BY <1>2, <2>1, <2>2, <2>3, MoveKeeps DEF Inv, Moves
<1>4. CASE Goto(Starter(i), "setup")
  BY <1>2, <1>4, StarterKeeps
<1> QED BY <1>3, <1>4 DEF initialize_monitor

LEMMA MonitorRunsKeeps ==
  ASSUME IInv, NEW i \in Instances, MonitorRuns(i)
  PROVE  \A j \in Instances : Inv(j)'
<1>1. TypeOK /\ Inv(i) /\ i # None
  BY OwnFacts
<1>2. /\ pc[Monitor(i)] = "born" /\ key[i] = i /\ UNCHANGED <<file, key, foreground, abandoned>>
      /\ seg' = [seg EXCEPT ![i].monitor_pid = Monitor(i)]
  BY <1>1 DEF MonitorRuns, Inv, Staged
<1>3. Moves(i, pc[Starter(i)], "run", pc[Daemon(i)])
  BY <1>1, GotoMoves DEF MonitorRuns
<1>4. /\ seg'[i].monitor_pid = Monitor(i) /\ seg'[i].master_pid = seg[i].master_pid
      /\ seg'[i].keyed = seg[i].keyed /\ seg'[i].alive = seg[i].alive
      /\ Writes(i)
  BY <1>1, <1>2 DEF TypeOK, Writes
<1>5. Staged(i)' /\ Recorded(i)'
  BY <1>1, <1>2, <1>3, <1>4, MasterIs DEF Moves, Inv, Staged, Recorded, Master
<1>6. Locked(i)'
  BY <1>1, <1>2, <1>3, <1>4 DEF Moves, Still, Inv, Staged, Locked, Working, Master, Live
<1>7. pc'[Starter(i)] # "open" \/ \A j \in Instances \ {i} : pc[Starter(j)] # "open"
  BY <1>1, <1>3 DEF Moves, Inv, Locked
<1>8. Inv(i)' /\ Still(i)
  BY <1>3, <1>5, <1>6 DEF Inv, Moves
<1> QED BY <1>2, <1>4, <1>7, <1>8, InstanceKeeps

LEMMA DaemonizeKeeps ==
  ASSUME IInv, NEW i \in Instances, Daemonize(i)
  PROVE  \A j \in Instances : Inv(j)'
<1>1. TypeOK /\ Inv(i) /\ i # None
  BY OwnFacts
<1>2. /\ pc[Starter(i)] = "process" /\ ~foreground[i]
      /\ UNCHANGED <<file, key, seg, foreground, abandoned>>
  BY DEF Daemonize
<1>3. CASE pc' = [pc EXCEPT ![Starter(i)] = "gone", ![Daemon(i)] = "process"]
  <2>1. Moves(i, "gone", pc[Monitor(i)], "process")
    BY <1>1, <1>3, Processes DEF TypeOK, Moves, Still
  <2>2. Staged(i)' /\ Recorded(i)'
    BY <1>1, <1>2, <2>1 DEF Moves, Inv, Staged, Recorded, Master, Places
  <2>3. Locked(i)'
    BY <1>1, <1>2, <2>1 DEF Moves, Inv, Staged, Recorded, Locked, Working, Master, Live
  <2> QED BY <1>2, <2>1, <2>2, <2>3, MoveKeeps DEF Inv, Moves
<1>4. CASE Goto(Starter(i), "exit")
  BY <1>2, <1>4, StarterKeeps
<1> QED BY <1>3, <1>4 DEF Daemonize

LEMMA RecordMasterKeeps ==
  ASSUME IInv, NEW i \in Instances, RecordMaster(i)
  PROVE  \A j \in Instances : Inv(j)'
<1>1. TypeOK /\ Inv(i) /\ i # None
  BY OwnFacts
<1>2. /\ pc[Master(i)] = "process" /\ key[i] = i /\ UNCHANGED <<file, key, foreground, abandoned>>
  BY <1>1, MasterIs DEF RecordMaster, Inv, Staged
<1>3. CASE Goto(Master(i), "listen") /\ Promote(i, Master(i))
  <2>1. /\ seg'[i].monitor_pid = seg[i].monitor_pid /\ seg'[i].master_pid = Master(i)
        /\ seg'[i].keyed = seg[i].keyed /\ seg'[i].alive = seg[i].alive
        /\ Writes(i)
    BY <1>1, <1>2, <1>3 DEF Promote, TypeOK, Writes
  <2>2. \/ foreground[i] /\ Moves(i, "listen", pc[Monitor(i)], pc[Daemon(i)])
        \/ ~foreground[i] /\ Moves(i, pc[Starter(i)], pc[Monitor(i)], "listen")
    BY <1>1, <1>3, GotoMoves, MasterIs
  <2>3. Staged(i)' /\ Recorded(i)'
    BY <1>1, <1>2, <2>1, <2>2, MasterIs DEF Moves, Inv, Staged, Recorded, Master, Places
  <2>4. Locked(i)'
    BY <1>1, <1>2, <2>1, <2>2 DEF Moves, Inv, Staged, Locked, Working, Master, Live
  <2>5. Inv(i)' /\ Still(i) /\ pc'[Starter(i)] # "open"
    BY <1>1, <1>2, <2>2, <2>3, <2>4, MasterIs DEF Inv, Staged, Moves
  <2> QED BY <1>2, <2>1, <2>5, InstanceKeeps
<1>4. CASE Goto(Master(i), "exit") /\ UNCHANGED seg /\ ~foreground[i]
  <2>1. Moves(i, pc[Starter(i)], pc[Monitor(i)], "exit") /\ pc[Daemon(i)] = "process"
    BY <1>1, <1>2, <1>4, GotoMoves, MasterIs
  <2>2. Staged(i)' /\ Recorded(i)'
    BY <1>1, <1>2, <1>4, <2>1 DEF Moves, Inv, Staged, Recorded, Master
  <2>3. Locked(i)'
    BY <1>1, <1>2, <1>4, <2>1 DEF Moves, Inv, Staged, Locked, Working, Master, Live
  <2>4. Inv(i)' /\ Still(i) /\ pc'[Starter(i)] # "open"
    BY <1>1, <2>1, <2>2, <2>3 DEF Inv, Staged, Moves
  <2> QED BY <1>2, <1>4, <2>4, MoveKeeps
<1> QED BY <1>3, <1>4 DEF RecordMaster

LEMMA ListenKeeps ==
  ASSUME IInv, NEW i \in Instances, create_serversocket(i)
  PROVE  \A j \in Instances : Inv(j)'
<1>1. TypeOK /\ Inv(i) /\ i # None
  BY OwnFacts
<1>2. pc[Master(i)] = "listen" /\ UNCHANGED <<file, key, seg, foreground, abandoned>>
  BY DEF create_serversocket
<1>3. CASE foreground[i]
  BY <1>2, <1>3, MasterIs, StarterKeeps DEF create_serversocket
<1>4. CASE ~foreground[i]
  <2>1. PICK place \in {"serve", "exit"} : Moves(i, pc[Starter(i)], pc[Monitor(i)], place)
    BY <1>1, <1>4, GotoMoves, MasterIs DEF create_serversocket
  <2>2. pc[Daemon(i)] = "listen" /\ seg[i].master_pid = Master(i)
    BY <1>1, <1>2, <1>4, MasterIs DEF Inv, Recorded
  <2>3. Staged(i)' /\ Recorded(i)'
    BY <1>1, <1>2, <1>4, <2>1, <2>2 DEF Moves, Inv, Staged, Recorded, Master
  <2>4. Locked(i)'
    BY <1>1, <1>2, <1>4, <2>1, <2>2 DEF Moves, Inv, Staged, Locked, Working, Master, Live
  <2>5. Inv(i)' /\ Still(i) /\ pc'[Starter(i)] # "open"
    BY <1>1, <2>1, <2>2, <2>3, <2>4 DEF Inv, Staged, Moves
  <2> QED BY <1>2, <2>5, MoveKeeps
<1> QED BY <1>3, <1>4
-----------------------------------------------------------------------------
(* Ending.                                                                   *)

LEMMA EndKeeps ==
  ASSUME IInv, NEW i \in Instances, NEW p \in {Starter(i), Monitor(i), Daemon(i)},
         Live(p), Goto(p, "gone"), UNCHANGED <<file, key, foreground>>,
         UNCHANGED seg \/ (pc[p] = "rmid" /\ key[i] = i /\ seg' = [seg EXCEPT ![i].keyed = FALSE]),
         abandoned \subseteq abandoned',
         p = Master(i) /\ file = i => seg[i].master_pid = None \/ i \in abandoned'
  PROVE  \A j \in Instances : Inv(j)'
<1>1. TypeOK /\ Inv(i) /\ i # None
  BY OwnFacts
<1>2. \/ p = Starter(i) /\ Moves(i, "gone", pc[Monitor(i)], pc[Daemon(i)])
      \/ p = Monitor(i) /\ Moves(i, pc[Starter(i)], "gone", pc[Daemon(i)])
      \/ p = Daemon(i) /\ Moves(i, pc[Starter(i)], pc[Monitor(i)], "gone")
  BY <1>1, GotoMoves
<1>3. /\ seg'[i].monitor_pid = seg[i].monitor_pid /\ seg'[i].master_pid = seg[i].master_pid
      /\ seg'[i].alive = seg[i].alive
      /\ pc[p] # "rmid" => seg'[i].keyed = seg[i].keyed
      /\ Writes(i)
  BY <1>1 DEF TypeOK, Writes
<1>4. Staged(i)'
  BY <1>1, <1>2 DEF Moves, Inv, Staged, Places, Live
<1>5. Recorded(i)'
  BY <1>1, <1>2, <1>3 DEF Moves, Inv, Staged, Recorded, Master, Live
<1>6. Locked(i)'
  BY <1>1, <1>2, <1>3, Processes DEF Moves, Still, Inv, Staged, Locked, Working, Master, Live
<1>7. pc'[Starter(i)] # "open" \/ \A j \in Instances \ {i} : pc[Starter(j)] # "open"
  BY <1>1, <1>2 DEF Moves, Inv, Locked
<1>8. Inv(i)' /\ Still(i)
  BY <1>2, <1>4, <1>5, <1>6 DEF Inv, Moves
<1> QED BY <1>3, <1>7, <1>8, InstanceKeeps

LEMMA ShutDownKeeps ==
  ASSUME IInv, NEW i \in Instances, NEW p \in {Starter(i), Monitor(i), Daemon(i)},
         Live(p), pc[p] # "rmid", master_pid(i) = p, ShutDown(i, p),
         UNCHANGED <<file, key, foreground, abandoned>>
  PROVE  \A j \in Instances : Inv(j)'
<1>1. TypeOK /\ Inv(i) /\ i # None
  BY OwnFacts
<1>2. key[i] = i /\ seg[i].master_pid = Master(i) /\ p = Master(i)
  BY <1>1, Processes, MasterIs DEF master_pid, Inv, Recorded
<1>3. \/ p = Starter(i) /\ foreground[i] /\ Moves(i, "clean", pc[Monitor(i)], pc[Daemon(i)])
      \/ p = Daemon(i) /\ ~foreground[i] /\ Moves(i, pc[Starter(i)], pc[Monitor(i)], "clean")
  BY <1>1, <1>2, GotoMoves, MasterIs DEF ShutDown
<1>4. /\ seg'[i].monitor_pid = seg[i].monitor_pid /\ seg'[i].master_pid = seg[i].master_pid
      /\ seg'[i].keyed = seg[i].keyed
      /\ Writes(i)
  BY <1>1, <1>2 DEF ShutDown, TypeOK, Writes
<1>5. Staged(i)' /\ Recorded(i)'
  BY <1>1, <1>2, <1>3, <1>4 DEF Moves, Inv, Staged, Recorded, Master, Places, Live
<1>6. Locked(i)'
  BY <1>1, <1>2, <1>3, <1>4 DEF Moves, Inv, Staged, Locked, Working, Master, Live
<1>7. Inv(i)' /\ Still(i) /\ pc'[Starter(i)] # "open"
  BY <1>1, <1>3, <1>5, <1>6 DEF Inv, Staged, Moves, Live
<1> QED BY <1>4, <1>7, InstanceKeeps

\* Only the starter and the daemon fail and shut down.
LEMMA NotTheMonitor ==
  ASSUME IInv, NEW i \in Instances, NEW p \in {Starter(i), Monitor(i), Daemon(i)},
         pc[p] \in {"exit", "exit_wait", "exit_last", "clean", "rmid"}
  PROVE  p \in {Starter(i), Daemon(i)} /\ Live(p)
  BY OwnFacts DEF Inv, Staged, Live

LEMMA ExitSignalsKeeps ==
  ASSUME IInv, NEW i \in Instances, NEW p \in {Starter(i), Monitor(i), Daemon(i)},
         ExitSignals(i, p)
  PROVE  \A j \in Instances : Inv(j)'
<1>1. TypeOK /\ Inv(i) /\ i # None
  BY OwnFacts
<1>2. /\ pc[p] = "exit" /\ UNCHANGED <<file, key, seg, foreground, abandoned>>
      /\ p \in {Starter(i), Daemon(i)}
  BY NotTheMonitor DEF ExitSignals
<1>3. CASE p = Starter(i)
  <2>1. PICK place \in {"exit_wait", "exit_last"} : Moves(i, place, pc[Monitor(i)], pc[Daemon(i)])
    BY <1>1, <1>3, GotoMoves DEF ExitSignals
  <2>2. Staged(i)' /\ Recorded(i)'
    BY <1>1, <1>2, <1>3, <2>1 DEF Moves, Inv, Staged, Recorded, Master, Places
  <2>3. Locked(i)'
    BY <1>1, <1>2, <1>3, <2>1 DEF Moves, Inv, Staged, Locked, Working, Master, Live
  <2>4. Inv(i)' /\ Still(i) /\ pc'[Starter(i)] # "open"
    BY <2>1, <2>2, <2>3 DEF Inv, Moves
  <2> QED BY <1>2, <2>4, MoveKeeps
<1>4. CASE p = Daemon(i)
  <2>1. Moves(i, pc[Starter(i)], pc[Monitor(i)], "exit_last")
    BY <1>1, <1>4, GotoMoves, Processes DEF ExitSignals
  <2>2. Staged(i)' /\ Recorded(i)'
    BY <1>1, <1>2, <1>4, <2>1 DEF Moves, Inv, Staged, Recorded, Master
  <2>3. Locked(i)'
    BY <1>1, <1>2, <1>4, <2>1 DEF Moves, Inv, Staged, Locked, Working, Master, Live
  <2>4. Inv(i)' /\ Still(i) /\ pc'[Starter(i)] # "open"
    BY <1>1, <1>2, <1>4, <2>1, <2>2, <2>3 DEF Inv, Staged, Moves
  <2> QED BY <1>2, <2>4, MoveKeeps
<1> QED BY <1>2, <1>3, <1>4

\* A process that ends without shutting down is not the recorded master.
LEMMA NotRecorded ==
  ASSUME IInv, NEW i \in Instances, master_pid(i) # Master(i)
  PROVE  seg[i].master_pid = None
  BY OwnFacts DEF master_pid, Inv, Recorded

LEMMA ExitLastKeeps ==
  ASSUME IInv, NEW i \in Instances, NEW p \in {Starter(i), Monitor(i), Daemon(i)},
         ExitLast(i, p)
  PROVE  \A j \in Instances : Inv(j)'
<1>1. /\ pc[p] \in {"exit_wait", "exit_last"} /\ UNCHANGED <<file, key, foreground, abandoned>>
      /\ Live(p)
  BY NotTheMonitor DEF ExitLast
<1>2. CASE master_pid(i) = p
  BY <1>1, <1>2, ShutDownKeeps DEF ExitLast
<1>3. CASE master_pid(i) # p
  <2>1. Goto(p, "gone") /\ UNCHANGED seg
    BY <1>3 DEF ExitLast, Ends
  <2>2. p = Master(i) => seg[i].master_pid = None
    BY <1>3, NotRecorded
  <2> QED BY <1>1, <2>1, <2>2, EndKeeps
<1> QED BY <1>2, <1>3

LEMMA CleanExitKeeps ==
  ASSUME IInv, NEW i \in Instances, NEW p \in {Starter(i), Monitor(i), Daemon(i)},
         clean_exit(i, p)
  PROVE  \A j \in Instances : Inv(j)'
<1>1. Live(p) /\ pc[p] # "rmid" /\ UNCHANGED <<file, key, foreground, abandoned>>
  BY DEF clean_exit
<1>2. CASE master_pid(i) = p
  BY <1>1, <1>2, ShutDownKeeps DEF clean_exit
<1>3. CASE master_pid(i) # p
  <2>1. Goto(p, "gone") /\ UNCHANGED seg
    BY <1>3 DEF clean_exit, Ends
  <2>2. p = Master(i) => seg[i].master_pid = None
    BY <1>3, NotRecorded
  <2> QED BY <1>1, <2>1, <2>2, EndKeeps
<1> QED BY <1>2, <1>3

LEMMA RemoveFileKeeps ==
  ASSUME IInv, NEW i \in Instances, NEW p \in {Starter(i), Monitor(i), Daemon(i)},
         RemoveFile(i, p)
  PROVE  \A j \in Instances : Inv(j)'
<1>1. TypeOK /\ Inv(i) /\ i # None
  BY OwnFacts
<1>2. /\ pc[p] = "clean" /\ UNCHANGED <<key, seg, foreground>> /\ abandoned \subseteq abandoned'
      /\ file' = None \/ (file' = file /\ i \in abandoned')
      /\ p \in {Starter(i), Daemon(i)} /\ Live(p)
  BY NotTheMonitor DEF RemoveFile
<1>3. key[i] = i /\ file = i
  BY <1>1, <1>2 DEF Inv, Staged, Locked, Working
<1>4. \/ p = Starter(i) /\ Moves(i, "rmid", pc[Monitor(i)], pc[Daemon(i)])
      \/ p = Daemon(i) /\ Moves(i, pc[Starter(i)], pc[Monitor(i)], "rmid")
  BY <1>1, <1>2, GotoMoves DEF RemoveFile
<1>5. Staged(i)' /\ Recorded(i)'
  BY <1>1, <1>2, <1>3, <1>4 DEF Moves, Inv, Staged, Recorded, Master, Places
<1>6. Locked(i)'
  BY <1>1, <1>2, <1>3, <1>4 DEF Moves, Inv, Staged, Locked, Working, Master, Live
<1>7. Inv(i)' /\ Still(i) /\ Writes(i)
  BY <1>2, <1>4, <1>5, <1>6 DEF Inv, Moves, Writes
<1>8. \A j \in Instances \ {i} : pc[Starter(j)] # "open"
  BY <1>1, <1>3, OwnFacts DEF Inv, Locked
<1> QED BY <1>2, <1>3, <1>7, <1>8, InstanceKeeps

LEMMA RemoveSegmentKeeps ==
  ASSUME IInv, NEW i \in Instances, NEW p \in {Starter(i), Monitor(i), Daemon(i)},
         RemoveSegment(i, p)
  PROVE  \A j \in Instances : Inv(j)'
<1>1. TypeOK /\ Inv(i) /\ i # None
  BY OwnFacts
<1>2. pc[p] = "rmid" /\ p \in {Starter(i), Daemon(i)} /\ Live(p)
  BY NotTheMonitor DEF RemoveSegment
<1>3. key[i] = i /\ (file # i \/ i \in abandoned)
  BY <1>1, <1>2 DEF Inv, Staged, Locked
<1>4. /\ UNCHANGED seg \/ seg' = [seg EXCEPT ![i].keyed = FALSE]
      /\ Goto(p, "gone") /\ UNCHANGED <<file, key, foreground, abandoned>>
  BY <1>3 DEF RemoveSegment, Ends
<1> QED BY <1>2, <1>3, <1>4, EndKeeps

LEMMA CrashKeeps ==
  ASSUME IInv, NEW i \in Instances, NEW p \in {Starter(i), Monitor(i), Daemon(i)},
         Crash(i, p)
  PROVE  \A j \in Instances : Inv(j)'
<1>1. /\ Live(p) /\ Goto(p, "gone") /\ UNCHANGED <<file, key, seg, foreground>>
      /\ abandoned \subseteq abandoned' /\ i \in abandoned'
  BY DEF Crash, Ends
<1> QED BY <1>1, EndKeeps

\* Signals and the admin move no process.
LEMMA IdleKeeps ==
  ASSUME IInv, UNCHANGED <<pc, file, key, seg, foreground, abandoned>>
  PROVE  \A j \in Instances : Inv(j)'
<1>1. SUFFICES ASSUME NEW j \in Instances PROVE Inv(j)'
  OBVIOUS
<1>2. Inv(j) /\ Apart(j)
  BY DEF IInv, Apart
<1>3. ASSUME pc[Starter(j)] = "open"
      PROVE  file' = None /\ \A k \in Instances \ {j} : pc'[Starter(k)] # "open"
  BY <1>2, <1>3 DEF Inv, Locked
<1> QED BY <1>2, <1>3, OthersKeep

LEMMA StopKeeps ==
  ASSUME IInv, ~Interleaved, stop
  PROVE  \A j \in Instances : Inv(j)'
<1>1. SUFFICES ASSUME NEW j \in Instances PROVE Inv(j)'
  OBVIOUS
<1>2. Inv(j) /\ Apart(j) /\ j # None
  BY OwnFacts DEF stop, Apart
<1>3. /\ Live(Starter(j)) => pc[Starter(j)] = "stat"
      /\ Live(Daemon(j)) => pc[Daemon(j)] = "stat"
  BY Processes, ~Interleaved DEF stop
<1>4. ~Needs(j) /\ pc[Starter(j)] # "open"
  BY <1>2, <1>3 DEF Needs, Inv, Staged, Working, Live
<1>5. file' # j
  BY <1>2 DEF stop
<1> QED BY <1>2, <1>4, <1>5, OthersKeep

-----------------------------------------------------------------------------
LEMMA InitInv == Init => IInv
<1> SUFFICES ASSUME Init PROVE IInv
  OBVIOUS
<1>1. /\ pc \in [Procs -> Places]
      /\ \A i \in Instances :
           pc[Starter(i)] = "stat" /\ pc[Monitor(i)] = "none" /\ pc[Daemon(i)] = "none"
  BY DEF Init, Procs, Places, Roles, Starter, Monitor, Daemon
<1>2. \A i \in Instances : key[i] = None /\ seg[i].master_pid = None /\ seg[i].monitor_pid = None
  BY DEF Init, FreshBalancer
<1>3. TypeOK
  <2>1. [FreshBalancer EXCEPT !.keyed = FALSE, !.alive = FALSE] \in Segments
    BY DEF FreshBalancer, Segments, Pids
  <2>2. seg \in [Instances -> Segments]
    BY <2>1 DEF Init
  <2>3. foreground \in [Instances -> BOOLEAN] /\ faults \in 0..MaxFaults
    BY OptionAssumption DEF Init
  <2>4. key \in [Instances -> Instances \cup {None}]
    BY DEF Init
  <2> QED BY <1>1, <2>2, <2>3, <2>4 DEF Init, TypeOK, Segments, Pids
<1>4. ASSUME NEW i \in Instances PROVE Inv(i)
  <2>1. Staged(i)
    BY <1>1, <1>2, <1>4 DEF Staged, Places
  <2>2. Recorded(i)
    BY <1>1, <1>2, <1>4, MasterIs DEF Recorded, Master
  <2>3. Locked(i)
    BY <1>1, <1>2, <1>4, NoneAssumption DEF Init, Locked, Working, Live
  <2> QED BY <2>1, <2>2, <2>3 DEF Inv
<1> QED BY <1>3, <1>4 DEF IInv

LEMMA StepInv == ~Interleaved /\ IInv /\ [Next]_vars => IInv'
<1> SUFFICES ASSUME ~Interleaved, IInv, [Next]_vars PROVE IInv'
  OBVIOUS
<1>1. ASSUME NEW i \in Instances, Startup(i) PROVE IInv'
  <2>1. TypeOK'
    BY <1>1, StartupType
  <2>2. CASE AllocateTables(i)
    BY <2>1, <2>2, StarterKeeps DEF AllocateTables, IInv
  <2> QED BY <1>1, <2>1, <2>2, StatFileKeeps, OpenFileKeeps, AttachSegmentKeeps, ForkKeeps,
             MonitorRunsKeeps, DaemonizeKeeps, RecordMasterKeeps, ListenKeeps DEF Startup, IInv
<1>2. ASSUME NEW i \in Instances, NEW p \in {Starter(i), Monitor(i), Daemon(i)},
             Shutdown(i, p) \/ clean_exit(i, p) \/ Crash(i, p) \/ Terminate(p)
      PROVE  IInv'
  <2>1. TypeOK'
    BY <1>2, ShutdownType
  <2>2. CASE Terminate(p)
    BY <2>1, <2>2, IdleKeeps DEF Terminate, IInv
  <2> QED BY <1>2, <2>1, <2>2, ExitSignalsKeeps, ExitLastKeeps, RemoveFileKeeps,
             RemoveSegmentKeeps, CleanExitKeeps, CrashKeeps DEF Shutdown, IInv
<1>3. CASE Admin
  BY <1>3, OutsideType, IdleKeeps DEF Admin, connect_to_shm, AdminQuits, cmd_kill, IInv
<1>4. CASE stop
  BY <1>4, OutsideType, StopKeeps DEF IInv
<1>5. CASE UNCHANGED vars
  BY <1>5, IdleKeeps DEF vars, IInv, TypeOK
<1> QED BY <1>1, <1>2, <1>3, <1>4, <1>5, NextSteps DEF InstanceStep

LEMMA Invariance == ~Interleaved /\ Spec => []IInv
<1>1. ASSUME ~Interleaved PROVE Spec => []IInv
  <2>1. IInv /\ [Next]_vars => IInv'
    BY <1>1, StepInv
  <2> QED BY <2>1, InitInv, PTL DEF Spec
<1> QED BY <1>1

\* Every variable keeps its type: every pid that is signalled is one of a
\* process, whatever starts, fails, stops and crashes.
THEOREM LifecycleTyped == ~Interleaved /\ Spec => []TypeOK
<1>1. IInv => TypeOK
  BY DEF IInv
<1> QED BY <1>1, Invariance, PTL

\* Of any number of instances, none is attached to another one's segment, as
\* long as none runs between another one's stat() and open().
THEOREM SegmentOwned == ~Interleaved /\ Spec => []OwnSegment
<1>1. IInv => OwnSegment
  BY DEF IInv, Inv, Recorded, OwnSegment, master_pid, monitor_pid
<1> QED BY <1>1, Invariance, PTL

\* Under the same condition an instance that serves holds the run file, and its
\* segment can be found and names it as the master.
THEOREM ServingLocked == ~Interleaved /\ Spec => []ServingIsLocked
<1>1. ASSUME IInv PROVE ServingIsLocked
  <2>1. SUFFICES ASSUME NEW i \in Instances, pc[Master(i)] = "serve"
                 PROVE  /\ file = i
                        /\ seg[i].keyed /\ seg[i].alive /\ seg[i].master_pid = Master(i)
    BY DEF ServingIsLocked
  <2>2. Inv(i)
    BY <1>1 DEF IInv
  <2>3. key[i] = i /\ Working(i) /\ "clean" \notin {pc[Starter(i)], pc[Daemon(i)]}
    BY <2>1, <2>2, MasterIs DEF Inv, Staged, Working, Live
  <2> QED BY <2>1, <2>2, <2>3 DEF Inv, Recorded, Locked
<1> QED BY <1>1, Invariance, PTL

\* LockHeld: under the same condition the run file does not outlive a master that
\* recorded itself, unless a process of the instance was killed by SIGKILL or the
\* master's unlink() failed.
THEOREM LockGivenBack == ~Interleaved /\ Spec => []LockHeld
<1>1. ASSUME IInv PROVE LockHeld
  <2>1. SUFFICES ASSUME file # None, seg[file].master_pid # None
                 PROVE  Live(seg[file].master_pid) \/ file \in abandoned
    BY DEF LockHeld
  <2>2. file \in Instances /\ Inv(file)
    BY <1>1, <2>1 DEF IInv, TypeOK
  <2> QED BY <2>1, <2>2 DEF Inv, Recorded, Locked
<1> QED BY <1>1, Invariance, PTL
=============================================================================
