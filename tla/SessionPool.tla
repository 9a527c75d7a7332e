----------------------------- MODULE SessionPool -----------------------------
(****************************************************************************)
(* How many sessions the balancer allocates, and the queue of unused ones.  *)
(*                                                                          *)
(* At startup initialize_fds() settles the descriptor limit,                *)
(* initialize_sessions() derives the session limit from it, and             *)
(* initialize_unused_session() fills a ring of session_limit slots with     *)
(* every session.  The main loop then calls get_new_session() for every     *)
(* client it accepts.  An error on the way ends the process.                *)
(*                                                                          *)
(* add_unused_session(), reached from delete_session() only, needs a session*)
(* that was handed out; theorem NothingSupplied shows that there is none,   *)
(* so the queue has no action that returns a session.                       *)
(****************************************************************************)
EXTENDS Integers

CONSTANTS
  UserFdLimits,       \* values of the fd_limit directive
  SystemFdLimits,     \* values of RLIMIT_NOFILE the system may have set
  UserSessionLimits,  \* values of the session_limit directive
  Foreground          \* started in the foreground (-f)?

ASSUME LimitsAssumption ==
  /\ UserFdLimits \subseteq Nat
  /\ SystemFdLimits \subseteq Nat
  /\ UserSessionLimits \subseteq Nat
ASSUME ForegroundAssumption == Foreground \in BOOLEAN

VARIABLES
  phase,            \* the function startup is in, "running" or "exited"
  fd_limit,         \* balancer->fd_limit
  session_limit,    \* balancer->session_limit
  rlimit,           \* the soft RLIMIT_NOFILE of the process
  unused_sessions,  \* the ring: slot -> id of a session
  head, rear,       \* its indices
  i,                \* loop variable of initialize_unused_session()
  supplied          \* ids of the sessions get_new_session() has returned

vars == <<phase, fd_limit, session_limit, rlimit, unused_sessions, head, rear,
          i, supplied>>
queue == <<unused_sessions, head, rear, i, supplied>>

Null == -1

\* Descriptors the master holds besides the sessions': the log file, the
\* shared-memory file, the listener and the epoll instance, and in the
\* foreground the three standard streams (a daemon closes them).
Overhead == IF Foreground THEN 7 ELSE 4

\* C's integer division truncates towards zero.
Quot(a, b) == IF a >= 0 THEN a \div b ELSE -((-a) \div b)

\* malloc() of n elements: a negative count becomes a huge size_t and fails.
MallocOk(n) == n >= 0

-----------------------------------------------------------------------------
\* setrlimit() is tried when the user asked for a limit and may fail; what
\* getrlimit() then reports is used, 0 if it fails.  rlim_cur is cut to an int
\* there; the kernel keeps RLIMIT_NOFILE within fs.nr_open, which fits one.
initialize_fds ==
  /\ phase = "initialize_fds"
  /\ rlimit' \in IF fd_limit > 0 THEN {rlimit, fd_limit} ELSE {rlimit}
  /\ fd_limit' \in {rlimit', 0}
  /\ phase' = IF MallocOk(fd_limit') THEN "initialize_sessions" ELSE "exited"
  /\ UNCHANGED <<session_limit, queue>>

\* Mutant: the formula of octopuslb.conf, without the overhead.
Supportable_without_overhead == Quot(fd_limit, 3)

SupportableSessions == Quot(fd_limit - 4, 3)

\* The limit is settled, the sessions and the ring (its slots hold garbage) are
\* allocated; a negative limit ends the process.
initialize_sessions ==
  /\ phase = "initialize_sessions"
  /\ session_limit' = IF session_limit = 0 \/ session_limit > SupportableSessions
                      THEN SupportableSessions ELSE session_limit
  /\ phase' = IF MallocOk(session_limit') THEN "initialize_unused_session"
                                          ELSE "exited"
  /\ unused_sessions' = [slot \in 0..(session_limit' - 1) |-> Null]
  /\ UNCHANGED <<fd_limit, rlimit, head, rear, i, supplied>>

\* Mutants: the index is not advanced, and is not wrapped around.
FillQueue_stuck ==
  /\ phase = "initialize_unused_session"
  /\ i < session_limit
  /\ unused_sessions' = [unused_sessions EXCEPT ![rear] = i]
  /\ i' = i + 1
  /\ UNCHANGED <<phase, fd_limit, session_limit, rlimit, head, rear, supplied>>

FillQueue_no_wrap ==
  /\ phase = "initialize_unused_session"
  /\ i < session_limit
  /\ unused_sessions' = [unused_sessions EXCEPT ![rear] = i]
  /\ rear' = rear + 1
  /\ i' = i + 1
  /\ UNCHANGED <<phase, fd_limit, session_limit, rlimit, head, supplied>>

\* One turn of the loop that puts every session into the ring.
FillQueue ==
  /\ phase = "initialize_unused_session"
  /\ i < session_limit
  /\ unused_sessions' = [unused_sessions EXCEPT ![rear] = i]
  /\ rear' = (rear + 1) % session_limit
  /\ i' = i + 1
  /\ UNCHANGED <<phase, fd_limit, session_limit, rlimit, head, supplied>>

StartServing ==
  /\ phase = "initialize_unused_session"
  /\ i >= session_limit
  /\ phase' = "running"
  /\ UNCHANGED <<fd_limit, session_limit, rlimit, queue>>

\* get_new_session(): its result and the head it leaves.  The divisor is head
\* itself, not the size of the ring.
NextHead == IF head = rear \/ head = 0 THEN head ELSE (head + 1) % head

get_new_session == IF head = rear THEN Null ELSE unused_sessions[NextHead]

\* epoll_wait() is given room for 3 * session_limit events and fails when that
\* is 0; otherwise the accepted client gets a session or is disconnected.
AcceptClient ==
  /\ phase = "running"
  /\ session_limit * 3 > 0
  /\ head' = NextHead
  /\ supplied' = (supplied \cup {get_new_session}) \ {Null}
  /\ UNCHANGED <<phase, fd_limit, session_limit, rlimit, unused_sessions, rear, i>>

-----------------------------------------------------------------------------
Init ==
  /\ phase = "initialize_fds"
  /\ fd_limit \in UserFdLimits
  /\ session_limit \in UserSessionLimits
  /\ rlimit \in SystemFdLimits
  /\ unused_sessions = <<>> /\ head = 0 /\ rear = 0 /\ i = 0
  /\ supplied = {}

Next == initialize_fds \/ initialize_sessions \/ FillQueue \/ StartServing
          \/ AcceptClient

Spec == Init /\ [][Next]_vars

-----------------------------------------------------------------------------
(* Properties.                                                               *)

Slots == 0..(session_limit - 1)

Allocated == phase \in {"initialize_unused_session", "running"}

\* Every variable has its type; once the ring exists its indices stay within
\* it, so neither the loop nor get_new_session() leaves the allocated slots.
TypeOK ==
  /\ phase \in {"initialize_fds", "initialize_sessions",
                "initialize_unused_session", "running", "exited"}
  /\ fd_limit \in Nat /\ session_limit \in Int /\ rlimit \in Nat
  /\ head \in Nat /\ rear \in Nat /\ i \in Nat
  /\ Allocated => /\ session_limit \in Nat
                  /\ unused_sessions \in [Slots -> Slots \cup {Null}]
                  /\ head = 0 \/ head \in Slots
                  /\ rear = 0 \/ rear \in Slots
  /\ supplied \subseteq Nat

\* "With %d fds we can support %d sessions" (init.c:133): a client, a member and
\* a clone descriptor for each session fit beside the descriptors the master
\* itself holds.
SessionsFit ==
  phase = "running" /\ session_limit > 0 => 3 * session_limit + Overhead <= fd_limit

\* "add all of the unused sessions to the free list" (init.c:195): when the
\* balancer starts serving every session is in exactly one slot of the ring.
AllQueued ==
  phase = "running" =>
    \A s \in Slots : \E slot \in Slots :
      /\ unused_sessions[slot] = s
      /\ \A other \in Slots : unused_sessions[other] = s => other = slot

\* The ring is full and reads as empty: no client is ever given a session,
\* whatever the limits.
NeverSupplies == phase = "running" => head = rear /\ supplied = {}

\* "returns a pointer to a unused session" (octopus.c:816): as long as some
\* session has not been handed out, get_new_session() returns one.
UnusedIsSupplied ==
  phase = "running" /\ Slots \ supplied # {} => get_new_session # Null

=============================================================================
