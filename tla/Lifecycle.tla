------------------------------ MODULE Lifecycle ------------------------------
(****************************************************************************)
(* Starting and stopping instances of octopuslb-server that are configured  *)
(* for the same address.  The run file serves as their lock, and its inode  *)
(* as the key of the shared memory segment that holds BALANCER.             *)
(*                                                                          *)
(* An instance is up to three processes: the starter, the monitor it forks  *)
(* and, unless it runs in the foreground, the daemon it forks afterwards    *)
(* and leaves behind.  SIGTERM interrupts a process anywhere and runs       *)
(* clean_exit().  A fatal error runs the last part of write_log().          *)
(*                                                                          *)
(* An inode is named after the instance that created the file: the          *)
(* descriptor of the file is never closed, so that its number is not given  *)
(* to another file while a process of the instance lives.                   *)
(****************************************************************************)
EXTENDS Naturals

CONSTANTS
  Instances,    \* invocations of octopuslb-server
  None,         \* no file, no segment, no process; the pid 0
  Foregrounds,  \* values of "option -f was given"
  Interleaved,  \* do other instances run between stat() and open()?
  MaxFaults,    \* bound on the signals and kills from outside
  Faults        \* "fork":  the monitor cannot be forked
                \* "setup": another step of the startup fails
                \* "unlink": the master cannot remove the run file
                \* "crash": a process may be killed by SIGKILL
                \* "term":  SIGTERM is sent to a single process

Roles == {"starter", "monitor", "daemon"}
Procs == Instances \X Roles

ASSUME NoneAssumption == None \notin Instances /\ None \notin Procs
ASSUME OptionAssumption ==
  /\ Foregrounds \subseteq BOOLEAN /\ Interleaved \in BOOLEAN
  /\ Faults \subseteq {"fork", "setup", "unlink", "crash", "term"}
  /\ MaxFaults \in Nat

VARIABLES
  pc,          \* where each process is; "none": not started, "gone": ended
  foreground,  \* balancer->foreground is FOREGROUND_ON, per instance
  file,        \* inode of the run file, or None
  key,         \* the inode whose segment the instance is attached to, or None
  seg,         \* the segments by inode: BALANCER as far as it matters here
  pending,     \* processes that have been sent SIGTERM and not handled it
  listener,    \* the process the port is bound to, or None
  admin,       \* the segment the admin is attached to, or None
  abandoned,   \* history: the instances of which a process was killed by
               \* SIGKILL or unlink() failed, so that the run file may stay
  faults       \* history: how often the environment interfered

vars == <<pc, foreground, file, key, seg, pending, listener, admin, abandoned, faults>>

Starter(i) == <<i, "starter">>
Monitor(i) == <<i, "monitor">>
Daemon(i)  == <<i, "daemon">>

\* The process that becomes the master.
Master(i) == IF foreground[i] THEN Starter(i) ELSE Daemon(i)

Live(p) == pc[p] \notin {"none", "gone"}

\* balancer->master_pid and balancer->monitor_pid as the processes of i see
\* them: 0 until the structure has been copied to the segment.
master_pid(i)  == IF key[i] = None THEN None ELSE seg[key[i]].master_pid
monitor_pid(i) == IF key[i] = None THEN None ELSE seg[key[i]].monitor_pid

Goto(p, place) == pc' = [pc EXCEPT ![p] = place]

\* exit(), or death: the port is released.
Ends(p) ==
  /\ Goto(p, "gone")
  /\ listener' = IF listener = p THEN None ELSE listener

\* kill(pid, SIGTERM) for the pids that name a living process.
Kill(pids) == pending \cup {p \in Procs \cap pids : Live(p)}

-----------------------------------------------------------------------------
(* Startup, in the order of main().                                          *)

\* Mutant: an existing file is no obstacle.
StatFile_unchecked(i) ==
  /\ pc[Starter(i)] = "stat"
  /\ Interleaved \/ \A j \in Instances \ {i} : pc[Starter(j)] # "open"
  /\ Goto(Starter(i), "open")
  /\ UNCHANGED <<foreground, file, key, seg, pending, listener, admin, abandoned, faults>>

\* "If the file already exists then there is already an instance running".
StatFile(i) ==
  /\ pc[Starter(i)] = "stat"
  /\ Interleaved \/ \A j \in Instances \ {i} : pc[Starter(j)] # "open"
  /\ Goto(Starter(i), IF file = None THEN "open" ELSE "exit")
  /\ UNCHANGED <<foreground, file, key, seg, pending, listener, admin, abandoned, faults>>

\* open(O_CREAT) without O_EXCL: a file that has appeared since is opened.
OpenFile(i) ==
  /\ pc[Starter(i)] = "open"
  /\ \/ /\ file' = IF file = None THEN i ELSE file
        /\ Goto(Starter(i), "attach")
     \/ /\ "setup" \in Faults
        /\ Goto(Starter(i), "exit")
        /\ UNCHANGED file
  /\ UNCHANGED <<foreground, key, seg, pending, listener, admin, abandoned, faults>>

FreshBalancer ==
  [keyed |-> TRUE, alive |-> TRUE, master_pid |-> None, monitor_pid |-> None]

\* ftok(), shmget() without IPC_EXCL, shmat() and memcpy() over what is there.
AttachSegment(i) ==
  /\ pc[Starter(i)] = "attach"
  /\ \/ /\ file # None
        /\ key' = [key EXCEPT ![i] = file]
        /\ seg' = [seg EXCEPT ![file] = FreshBalancer]
        /\ Goto(Starter(i), "fork")
     \/ /\ file = None \/ "setup" \in Faults
        /\ Goto(Starter(i), "exit")
        /\ UNCHANGED <<key, seg>>
  /\ UNCHANGED <<foreground, file, pending, listener, admin, abandoned, faults>>

\* A failing fork() is logged and the balancer runs without monitor.
initialize_monitor(i) ==
  /\ pc[Starter(i)] = "fork"
  /\ \/ pc' = [pc EXCEPT ![Starter(i)] = "setup", ![Monitor(i)] = "born"]
     \/ "fork" \in Faults /\ Goto(Starter(i), "setup")
  /\ UNCHANGED <<foreground, file, key, seg, pending, listener, admin, abandoned, faults>>

\* The child records its pid; its loop never looks at balancer->alive.
MonitorRuns(i) ==
  /\ pc[Monitor(i)] = "born"
  /\ Goto(Monitor(i), "run")
  /\ seg' = [seg EXCEPT ![key[i]].monitor_pid = Monitor(i)]
  /\ UNCHANGED <<foreground, file, key, pending, listener, admin, abandoned, faults>>

\* initialize_fds() and initialize_sessions().
AllocateTables(i) ==
  /\ pc[Starter(i)] = "setup"
  /\ \/ Goto(Starter(i), "process")
     \/ "setup" \in Faults /\ Goto(Starter(i), "exit")
  /\ UNCHANGED <<foreground, file, key, seg, pending, listener, admin, abandoned, faults>>

\* p becomes the master.
Promote(i, p) == seg' = [seg EXCEPT ![key[i]].master_pid = p]

\* The first part of initialize_process(): the daemon is forked.
Daemonize(i) ==
  /\ pc[Starter(i)] = "process" /\ ~foreground[i]
  /\ \/ pc' = [pc EXCEPT ![Starter(i)] = "gone", ![Daemon(i)] = "process"]
     \/ "setup" \in Faults /\ Goto(Starter(i), "exit")
  /\ UNCHANGED <<foreground, file, key, seg, pending, listener, admin, abandoned, faults>>

\* The rest of initialize_process(), in the process that will be the master.
RecordMaster(i) ==
  LET p == Master(i)
  IN  /\ pc[p] = "process"
      /\ \/ Goto(p, "listen") /\ Promote(i, p)
         \/ /\ "setup" \in Faults /\ ~foreground[i]
            /\ Goto(p, "exit")
            /\ UNCHANGED seg
      /\ UNCHANGED <<foreground, file, key, pending, listener, admin, abandoned, faults>>

\* create_serversocket() and the epoll instance; the main loop is entered.
create_serversocket(i) ==
  LET p == Master(i)
  IN  /\ pc[p] = "listen"
      /\ \/ listener = None /\ listener' = p /\ Goto(p, "serve")
         \/ /\ listener # None \/ "setup" \in Faults
            /\ Goto(p, "exit")
            /\ UNCHANGED listener
      /\ UNCHANGED <<foreground, file, key, seg, pending, admin, abandoned, faults>>

-----------------------------------------------------------------------------
(* A fatal error: write_log() with OCTOPUS_LOG_EXIT.                         *)

\* The monitor is sent SIGTERM, if its pid is known; waitpid() then waits for
\* that child or, with pid 0, for any.  Only the starter has a child.
ExitSignals(i, p) ==
  /\ pc[p] = "exit"
  /\ pending' = Kill({monitor_pid(i)})
  /\ Goto(p, IF p = Starter(i) /\ monitor_pid(i) \in {None, Monitor(i)}
             THEN "exit_wait" ELSE "exit_last")
  /\ UNCHANGED <<foreground, file, key, seg, listener, admin, abandoned, faults>>

\* clean_exit() has found that p is the master.
ShutDown(i, p) ==
  /\ seg' = [seg EXCEPT ![key[i]].alive = FALSE]
  /\ Goto(p, "clean")
  /\ UNCHANGED listener

\* Then the master, which may be this process, is sent SIGTERM and waited for.
ExitLast(i, p) ==
  /\ pc[p] \in {"exit_wait", "exit_last"}
  /\ p = Starter(i) /\ (pc[p] = "exit_wait" \/ master_pid(i) = None)
       => ~Live(Monitor(i))
  /\ IF master_pid(i) = p
     THEN ShutDown(i, p) /\ UNCHANGED pending
     ELSE Ends(p) /\ pending' = Kill({master_pid(i)}) \ {p} /\ UNCHANGED seg
  /\ UNCHANGED <<foreground, file, key, admin, abandoned, faults>>

-----------------------------------------------------------------------------
(* SIGTERM, SIGINT and SIGSEGV: clean_exit().                                *)

\* Mutants: any process takes itself for the master, and the monitor's handler
\* returns.
clean_exit_any(i, p) ==
  /\ p \in pending /\ Live(p) /\ pc[p] \notin {"clean", "rmid"}
  /\ pending' = pending \ {p}
  /\ IF key[i] # None THEN ShutDown(i, p) ELSE Ends(p) /\ UNCHANGED seg
  /\ UNCHANGED <<foreground, file, key, admin, abandoned, faults>>

clean_exit_returns(i, p) ==
  /\ p \in pending /\ Live(p) /\ pc[p] \notin {"clean", "rmid"}
  /\ pending' = pending \ {p}
  /\ CASE master_pid(i) = p     -> ShutDown(i, p)
       [] monitor_pid(i) = p    -> UNCHANGED <<pc, listener, seg>>
       [] OTHER                 -> Ends(p) /\ UNCHANGED seg
  /\ UNCHANGED <<foreground, file, key, admin, abandoned, faults>>

\* Any process but the master just ends.  The signal is blocked while its
\* handler runs.
clean_exit(i, p) ==
  /\ p \in pending /\ Live(p) /\ pc[p] \notin {"clean", "rmid"}
  /\ pending' = pending \ {p}
  /\ IF master_pid(i) = p THEN ShutDown(i, p) ELSE Ends(p) /\ UNCHANGED seg
  /\ UNCHANGED <<foreground, file, key, admin, abandoned, faults>>

\* Mutants: the master waits for the monitor although it is no child of its
\* own, and the run file stays.
RemoveFile_waits(i, p) ==
  /\ pc[p] = "clean"
  /\ ~Live(Monitor(i))
  /\ file' = None
  /\ Goto(p, "rmid")
  /\ UNCHANGED <<foreground, key, seg, pending, listener, admin, abandoned, faults>>

RemoveFile_forgotten(i, p) ==
  /\ pc[p] = "clean"
  /\ p = Starter(i) => ~Live(Monitor(i))
  /\ Goto(p, "rmid")
  /\ UNCHANGED <<foreground, file, key, seg, pending, listener, admin, abandoned, faults>>

\* waitpid(-1) returns when the child has ended or there is none; unlink()
\* removes the file that has the name now.  That it fails, as it does in a
\* daemon with a relative shm_run_dir, which has gone to "/", is only logged.
RemoveFile(i, p) ==
  /\ pc[p] = "clean"
  /\ p = Starter(i) => ~Live(Monitor(i))
  /\ \/ file' = None /\ UNCHANGED abandoned
     \/ "unlink" \in Faults /\ abandoned' = abandoned \cup {i} /\ UNCHANGED file
  /\ Goto(p, "rmid")
  /\ UNCHANGED <<foreground, key, seg, pending, listener, admin, faults>>

\* shmctl(IPC_RMID): attached processes keep the segment, no other finds it.
\* Without memory for its argument the segment is left behind.
RemoveSegment(i, p) ==
  /\ pc[p] = "rmid"
  /\ \/ seg' = [seg EXCEPT ![key[i]].keyed = FALSE]
     \/ "setup" \in Faults /\ UNCHANGED seg
  /\ Ends(p)
  /\ pending' = pending \ {p}
  /\ UNCHANGED <<foreground, file, key, admin, abandoned, faults>>

-----------------------------------------------------------------------------
(* The admin.                                                                *)

connect_to_shm ==
  /\ admin = None
  /\ file # None
  /\ seg[file].keyed /\ seg[file].alive
  /\ admin' = file
  /\ UNCHANGED <<pc, foreground, file, key, seg, pending, listener, abandoned, faults>>

\* The prompt notices that the server has stopped.
AdminQuits ==
  /\ admin # None /\ ~seg[admin].alive
  /\ admin' = None
  /\ UNCHANGED <<pc, foreground, file, key, seg, pending, listener, abandoned, faults>>

\* kill() of pid 0 ends the admin itself, before the second kill() if it is the
\* first.
cmd_kill ==
  /\ admin # None /\ seg[admin].alive
  /\ LET monitor == seg[admin].monitor_pid
         master  == IF monitor = None THEN None ELSE seg[admin].master_pid
     IN  pending' = Kill({monitor, master})
  /\ admin' = None
  /\ UNCHANGED <<pc, foreground, file, key, seg, listener, abandoned, faults>>

-----------------------------------------------------------------------------
(* The init script: after killproc, which waits for the processes it ends,   *)
(* the run files are removed whatever they belong to, those that a crash or  *)
(* a failed start left behind among them.  killproc is external; an instance *)
(* that starts between it and rm loses its file if starts are interleaved.   *)

stop ==
  /\ file # None
  /\ Interleaved \/ \A p \in Procs : Live(p) => pc[p] = "stat"
  /\ file' = None
  /\ UNCHANGED <<pc, foreground, key, seg, pending, listener, admin, abandoned, faults>>

-----------------------------------------------------------------------------
(* Faults.                                                                   *)

Interfere(fault) ==
  /\ fault \in Faults /\ faults < MaxFaults
  /\ faults' = faults + 1

Crash(i, p) ==
  /\ Interfere("crash")
  /\ Live(p)
  /\ Ends(p)
  /\ pending' = pending \ {p}
  /\ abandoned' = abandoned \cup {i}
  /\ UNCHANGED <<foreground, file, key, seg, admin>>

Terminate(p) ==
  /\ Interfere("term")
  /\ Live(p) /\ pending' = Kill({p})
  /\ UNCHANGED <<pc, foreground, file, key, seg, listener, admin, abandoned>>

-----------------------------------------------------------------------------
Init ==
  /\ pc = [p \in Procs |-> IF p[2] = "starter" THEN "stat" ELSE "none"]
  /\ foreground \in [Instances -> Foregrounds]
  /\ file = None
  /\ key = [i \in Instances |-> None]
  /\ seg = [i \in Instances |-> [FreshBalancer EXCEPT !.keyed = FALSE, !.alive = FALSE]]
  /\ pending = {}
  /\ listener = None
  /\ admin = None
  /\ abandoned = {}
  /\ faults = 0

Startup(i) ==
  \/ StatFile(i) \/ OpenFile(i) \/ AttachSegment(i) \/ initialize_monitor(i)
  \/ MonitorRuns(i) \/ AllocateTables(i) \/ Daemonize(i) \/ RecordMaster(i)
  \/ create_serversocket(i)

Shutdown(i, p) ==
  ExitSignals(i, p) \/ ExitLast(i, p) \/ RemoveFile(i, p) \/ RemoveSegment(i, p)

Admin == connect_to_shm \/ AdminQuits \/ cmd_kill

Next ==
  \/ \E i \in Instances :
       \/ Startup(i)
       \/ \E r \in Roles : Shutdown(i, <<i, r>>) \/ clean_exit(i, <<i, r>>)
                             \/ Crash(i, <<i, r>>) \/ Terminate(<<i, r>>)
  \/ Admin
  \/ stop

Spec == Init /\ [][Next]_vars

\* Every process that can go on does, and a signal is delivered.
Fairness ==
  \A i \in Instances :
    /\ WF_vars(Startup(i))
    /\ \A r \in Roles : WF_vars(Shutdown(i, <<i, r>>) \/ clean_exit(i, <<i, r>>))

FairSpec == Spec /\ Fairness

-----------------------------------------------------------------------------
(* Properties.                                                               *)

Places == {"none", "stat", "open", "attach", "fork", "setup", "process", "listen",
           "serve", "born", "run", "exit", "exit_wait", "exit_last", "clean", "rmid",
           "gone"}

Pids == Procs \cup {None}

\* Every variable has its type.
TypeOK ==
  /\ pc \in [Procs -> Places]
  /\ foreground \in [Instances -> BOOLEAN]
  /\ file \in Instances \cup {None}
  /\ key \in [Instances -> Instances \cup {None}]
  /\ seg \in [Instances -> [keyed : BOOLEAN, alive : BOOLEAN,
                            master_pid : Pids, monitor_pid : Pids]]
  /\ pending \subseteq Procs
  /\ listener \in Pids
  /\ admin \in Instances \cup {None}
  /\ abandoned \subseteq Instances
  /\ faults \in 0..MaxFaults

\* "If the file already exists then there is already an instance running on
\* that ip and port combo" (init.c:340) and is not started again: no instance
\* is attached to the segment of another, so that the pids it signals when it
\* fails or shuts down are those of its own processes.
OwnSegment ==
  \A i \in Instances :
    /\ key[i] \in {None, i}
    /\ master_pid(i) \in {None, Master(i)}
    /\ monitor_pid(i) \in {None, Monitor(i)}

\* An instance that serves holds the run file and its segment can be found:
\* no second one starts beside it and the admin reaches it, whatever other
\* instances, refused, failed, stopped or killed, did meanwhile.
ServingIsLocked ==
  \A i \in Instances :
    pc[Master(i)] = "serve" =>
      /\ file = i
      /\ seg[i].keyed /\ seg[i].alive /\ seg[i].master_pid = Master(i)

\* The run file does not outlive the master that recorded itself in the file's
\* segment: when that master has ended by itself, by SIGTERM or by a failure,
\* the next start is not refused.  Excepted are instances of which a process
\* was killed by SIGKILL and those whose unlink() failed (signals.c:46).  An
\* instance that ends before its master is recorded is not covered: it leaves
\* the file behind, and only the init script removes it.
LockHeld ==
  file # None /\ seg[file].master_pid # None
    => Live(seg[file].master_pid) \/ file \in abandoned

\* The admin's kill, or any SIGTERM to both processes of an instance whose
\* master is recorded, ends all of it and, unless a process was killed by
\* SIGKILL or unlink() failed, gives the run file back.
KillEnds ==
  \A i \in Instances :
    {Master(i), Monitor(i)} \subseteq pending /\ seg[i].master_pid = Master(i)
      ~> (\A r \in Roles : ~Live(<<i, r>>)) /\ (file # i \/ i \in abandoned)

\* SIGTERM ends a master, except one in the foreground whose monitor was not
\* told: that one waits for its child.
MasterEnds ==
  \A i \in Instances :
    Master(i) \in pending ~> ~Live(Master(i)) \/ (foreground[i] /\ Live(Monitor(i)))

=============================================================================
