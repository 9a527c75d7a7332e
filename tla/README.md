# OctopusLB in TLA+

OctopusLB is a TCP load balancer for Linux written in C. A single-threaded
master process accepts clients and relays each of them to a *member* server and,
in clone mode, a copy of its requests to a *clone* server. A monitor process
checks the servers, removes deleted ones and moves URIs between them. Any number
of admin processes change the configuration at run time. The three kinds of
process share one `BALANCER` structure in a memory-mapped file, with no lock.

This directory models that program, checks the models with TLC on small
instances and proves with TLAPS, for every size, the safety properties the runs
check: of the relay, the session pool, the server table, the balancing algorithms,
the life cycle and the settings. Line numbers refer to `src/src/` unless another file
is named.

## 1. Inventory

| part | source | state it keeps | operations | modelled in |
|---|---|---|---|---|
| session relay | octopus.c, main loop and `client_*`, `member_*`, `clone_*` handlers | per SESSION: flag word, three descriptors, three buffers; per descriptor: epoll interest | accept, read, write, disconnect, delete, error events | Session |
| connecting | connect.c | descriptors and flags of the session, `SERVER.c` | `connect_server` with a dozen places to fail | Session, Registry |
| session pool | init.c, octopus.c:816-851 | `fd_limit`, `session_limit`, ring of unused sessions | `initialize_fds`, `initialize_sessions`, `initialize_unused_session`, `get_new_session`, `add_unused_session` | SessionPool |
| server table | octopus.h:196-298, 362-458 | two arrays of SERVER, `nmembers`, `nclones`, `clone_mode` | create, delete, enable, disable, count, clear | Registry |
| monitor | monitor.c | statuses, loads, hash table | `handle_delete_servers`, `check_server_state`, `check_server_snmp`, `calc_effective_load`, `rebalance_hash` | Registry (races), Selection (data) |
| balancing algorithms | algorithms.c | `next_member`, `next_clone`, `hash_table`, `hash_table_usage` | `get_available_servers`, `verify_server`, RR, LC, LL, HASH, STATIC | Selection |
| admin commands | admin.c | none of its own | one function per command, `set_subject` | Registry, Selection, Settings, Lifecycle |
| life cycle | octopus.c:60-140, init.c, signals.c, logging.c:40-75, admin.c | run file, shared memory segment, `alive`, `master_pid`, `monitor_pid`, the listening socket | two forks, signals, `clean_exit`, the fatal path of `write_log`, `connect_to_shm`, `cmd_kill`, the init script's `stop` | Lifecycle |
| configuration parser | config.c | local variables of a section, fields of BALANCER | one branch per directive | Config |
| settings at run time | admin.c, monitor.c:300-391 | the fields of BALANCER the monitor copies, its counter `j` | `cmd_hri`, `cmd_hrs`, `cmd_hrt`, `cmd_monitor`, `cmd_snmp`, `cmd_algorithm`, the monitor's round | Settings |
| prompt, log output | admin.c, logging.c | | string work | no |

How they interact: the master reads the table in `choose_server()` and writes
`SERVER.c`, the hash table and its usage counts; the monitor writes statuses and
loads, clears slots and moves pins; the admin writes statuses, appends servers
and changes settings. `set_cloned_state()` is called by both monitor and admin.
The monitor waits up to `connect_timeout` seconds between reading and writing a
status, and a whole round between copying its settings and using them. Instances
of the server share the file system (run file) and the port. Inside the master the handlers of one descriptor change the epoll
interest of another, and the events of one `epoll_wait()` batch are handled after
the descriptors they were reported for may have been closed and given out again.

What is hard here, and what would make each part correct:

* relay: no byte lost, repeated or reordered through short reads and writes, full
  buffers, reuse of a SESSION and stale events; no lost wake-up and no busy loop;
  the response is delivered before the session ends; counts balance however a
  connection ends;
* pool: the sessions fit into the descriptor limit; each is queued once; an
  unused session can be had;
* table: a slot is cleared only when nothing uses it; counts are exact; the
  administrator's decisions stand; deleted servers go away; clone mode recovers;
* life cycle: one instance per run file; no instance signals another one's
  processes; the lock is given back by every master that was recorded, ends by itself
  and can remove the file; a signal ends what it is sent to, although `clean_exit()`
  and `write_log()` wait for other processes;
* settings: a server has what its own section says, as far as the parser honours it
  (section 5); a number too wide for its field does not pass a check and break what the
  check is for; the monitor's arithmetic survives any command between two of its
  statements, and rebalancing happens;
* algorithms: what is chosen can be used although the table changed since
  `next_member` was set; the documented choice is made; the hash table and its
  counts agree.

`PROJECT.json` lists the hazards with their lines and the properties that cover
them.

## 2. Modules

| module | models | variables and the C state they stand for |
|---|---|---|
| `Session` | one SESSION, the event loop that serves it, its sockets and peers | `state`, the three buffers, `fds` (fields that are not -1), `interest` (epoll), `c` (its share of `SERVER.c`), `queued`, `leaked`, `batch`/`busy` (the event loop's position), `conn`, `sent`, `got`, `out` (kernel and peers), `life` |
| `SessionPool` | startup limits and the ring of unused sessions | names as in the code |
| `Registry` | master, monitor and admin on the server table | `servers`, `n` (`nmembers`, `nclones`), `clone_mode`, `links` (the master's connections), `monitor` (its loop position), `admin`, `created` |
| `Selection` | the algorithms, with the commands and the monitor's writes between two choices | `servers`, `next`, `hash_table`, `hash_table_usage`, `algorithm`, `overload_mode`, `clone_mode`, `choice`, history `passed` (how often each member was passed over, and whether a standby clone restarted the round) |
| `Relay` | what a session promises: two bounded first-in first-out channels that may be cut (abstract) | `up`, `linked`, `taken`, `queue`, `given`; `Session` maps its state to them in the instance `Promise` |
| `Lifecycle` | any number of instances of the server for one address, the admin, signals and crashes | `pc` (per process), `foreground`, `file` (inode of the run file), `key`, `seg` (the segments with `alive`, `master_pid`, `monitor_pid`), `pending` (signals), `listener`, `admin`, history `abandoned` (a process was killed by SIGKILL, or `unlink()` failed) |
| `Config` | `parse_config_file()` | `read`, `section` (`inServerSection`), `local` (`serverIP`, `serverPort`, ...), `servers`, `settings` (fields of BALANCER), histories `text` and `overruled` |
| `Settings` | `Config` followed by the monitor's loop and the admin's commands on the same settings (EXTENDS Config) | `at`, `copy` (the monitor's local copies), `j`, histories `waited`, `ratio` |
| `SessionProof`, `SessionWatch`, `SessionRefinement`, `SessionPoolProof`, `RegistryProof`, `SelectionProof`, `LifecycleProof`, `SettingsProof` | theorems and proofs | |
| `MCSession`, `MCSessionPool`, `MCRegistry`, `MCSelection`, `MCLifecycle`, `MCSettings` | constants for TLC | |

Actions carry the C function's name. A definition whose name is another one's
plus a suffix (`Room_off_by_one`) and whose comment says *Mutant* is a deliberate
error, used by no action: replacing the original by it must make a property fail.

### Abstractions

*Session.* A byte is its position in the stream, or 0 at the positions in
`NulAt`, so every loss, repetition or reordering is visible. `read()` returns what
is there up to the room given; `write()` any non-empty prefix or an error.
`memcpy()` on overlapping areas copies in a direction of `CopyOrder`; `strncpy()`
stops at a NUL. `connect_server()` is the set of the places it can stop at, each
with what it leaves behind. The kernel hands out the lowest free descriptor, so
the descriptors of a session that ended are given to the next one in the same
roles: a stale event reaches the same end of the next life. A `write()` to a
connection already reset returns an error; the program neither handles nor ignores
SIGPIPE, so the kernel may end the master instead, and the model is of a process in
which it does not. Traffic counters and logging are left out.

*SessionPool and Session.* `Session` takes `get_new_session()` at its word: the
session is handed out while unused, a guard of `AcceptSession` that the code does not
have. A session can be queued twice (octopus.c:284), and could then be handed out a
second time while in use: it takes a third life to see that, and the theorems for any
number of lives are about lives that each begin with the session unused. `SessionPool` shows that the function never
hands one out at this commit (section 5). The pool has therefore no action that
returns a session; `Session` says what holds once that defect is repaired. The cut of
`rlim_cur` to an `int` in `initialize_fds()` is left out: the kernel keeps
RLIMIT_NOFILE far below.

*Registry.* The constant `Interleaved` says where the other processes may step in:
between the reading and the writing of a status (`probe`), between finding a deleted
server unused and clearing its slot (`wipe`), between the clearing, the giving back of
the array's last slot and the writing of `FREE` (`shrink`; four steps, `Wipe`,
`TestLast`, `GiveBack`, `MarkFree`), between filling a slot and counting it (`create`),
and between the choice of a server and the connection to it (`connect`). `Init` has every configured server enabled, the parser's
default; a disabled one is reached by `cmd_disable`. `members[MAXSERVERS]` is
`clones[0]`, as in the structure.

*Selection.* A choice and the connection after it are not interrupted (that is
Registry's subject). A URI is its hash, or `NoUri` for a request that is not
"VERB NOUN". A slot behind the end of an array counts as `FREE`: the code looks at
such a slot only through `next_member`, and finds status 0 there. `e_load` is a
function of the load, because every write of the load is followed by a write of
`e_load`. Changes that can be repeated for ever are bounded by `MaxChanges`.

*Lifecycle.* Startup is cut at the system calls another process can observe.
Each of them may fail where the code tests it (`"setup"`, `"fork"` in `Faults`, and
`"unlink"` for the removal of the run file, after which the file stays), a
process may be killed at any point (`"crash"`) or be sent SIGTERM on its own
(`"term"`), at most `MaxFaults` times. `Interleaved` says whether another instance
may run between one instance's `stat()` and `open()`. `waitpid()` returns when the
caller's child is gone, at once when it has none: the starter is the monitor's
parent, the daemon is nobody's. `ftok()` gives the key of the file's inode, and an
inode number is not reused while the file is open. A signal is blocked while its
handler runs. The init script's `stop` removes the run files without a test, after
`killproc`, which is outside the repository and taken to return when the processes it
signalled have ended; with `Interleaved` the removal may come earlier.

*Config and Settings.* A line is a directive with a number; words that stand for 0
and 1 and addresses are numbers too, `Garbage` is a value nothing can be read from,
`Missing` a line without "=". The fields keep their widths: a `long` is cut to an
`int`, and to an `unsigned short` for the interval and the counter. The history
`text` remembers the current section's last word on each field, which the parser itself
does not, and `overruled` the fields on which a line other than that has had the last
word with the parser: a later `clone=false` (for `standby` and `clone`), a later
`default_maxc` or `default_maxl`, a section before that was not closed. The monitor's four copies are one step, and so is each command; sleeping and
checking servers between them is the room in which commands fall.

## 3. Runs

| run | shows | bounds |
|---|---|---|
| `session_relay` | the session implements `Relay`; both streams are relayed intact, epoll interest follows the buffers, the session does not end before the response is delivered; requests arrive, a member that closes ends the session, a session without member drains and ends | one life, buffers of 2, three bytes each way, a NUL in the stream, adding to epoll may fail, with and without HASH/STATIC, fairness |
| `session_recycle` | counts are exact, no byte of one life shows in the next, a connected clone is sent a byte for each byte of the client, in place: the client's up to the first NUL and the client's or zeros behind it; one too slow is cut off | two lives, buffers of 2, three bytes from the client of which the second is a NUL, one from each server, events of the first life handled in the second |
| `session_full_polled` | *violation*: a full member buffer is polled | buffers of 1 |
| `pool_daemon` | the sessions fit, each is queued once, and the full ring reads as empty | 9 x 20 x 5 combinations of limits around every boundary |
| `pool_supply` | *violation*: no unused session is ever supplied | the same |
| `registry` | counts exact, no session on a cleared slot, no server lost, with probes, creations and removals up to the clearing of the slot interruptible; deleted servers go, clone mode recovers | two slots per array, one connection, three servers ever, fairness |
| `registry_probe_race` | *violation*: a probe overwrites the administrator's decision | the same |
| `registry_create_race` | *violation*: a server reported as created is not in the table | the same, with creations and the end of a removal interruptible |
| `selection` | the chosen servers can be used, standbys are the last resort, LC and LL choose the cheapest, RR passes nobody over unless a standby clone restarts the round, pins and their counts agree | three members, one clone, one server taking two connections, two URIs, two repeatable changes |
| `lifecycle` | no instance uses another one's segment or signals its processes, a serving instance holds the lock and can be found, a recorded master that ends by itself gives the lock back unless `unlink()` fails, the admin's kill ends everything, SIGTERM ends a master | two instances, each in the foreground or not, any failing step, one failing `unlink()`, crash or signal from outside, fairness |
| `lifecycle_race` | *violation*: two instances that start together share one segment | two instances, no faults |
| `settings` | a server is what its section says last where no other line overrules it, the settings stay in the range the checks promise, the monitor never divides by zero, rebalancing is never late and goes on as long as it is asked for | files of up to 7 lines, an `int` of 8 bits, an `unsigned short` of 3, numbers on both sides of every limit, fairness |

Why the bounds are enough. A buffer of two and three bytes make a buffer fill, be
partly drained, be appended to at an offset and fill again; the handlers treat
bytes alike, so more bytes repeat these cases, and the proofs of section 4 cover
every size. Two lives are what a leftover needs to show. The run of two lives identifies
states that differ only in `leaked`, which no action reads (`VIEW`). In Registry two slots are
a last one and one that is not; three servers let a slot be reused while another is
there; one connection is counted in a slot while the slot is deleted, cleared and
filled again, and the connections do not read each other's state except through the
counts; the proofs cover any number of them. In
Selection three members make a round with someone in the middle, and two changes
suffice for deleting a member, reusing its slot (removal and creation are not
counted) and enabling the newcomer, or for a load report and the rebalancing it
causes; two URIs let half of a member's pins move. In Lifecycle the second instance
is the one that starts while the first runs, fails or stops; the proofs cover any
number of them and of faults. In Settings seven lines hold two sections, a repeated
directive and a changed default; widths of 8 and 3 bits let numbers be cut to
negative ones, to zero and past a limit within a range TLC can enumerate, and let
the counter wrap around; the proofs cover every width and length.

Deadlock is checked in the Registry and Selection runs. The Session runs switch it
off because peers with nothing left to send leave the balancer waiting, the pool,
Lifecycle and Settings runs because a process that exited does nothing more.

Fairness. `Session`: the loop runs on (`WF` of `EpollWait` and `Handle`: a `while(1)`
whose calls do not block except in `epoll_wait()`), a connection attempt ends one
way or the other (the kernel times it out), and a peer polled for output again and
again is some time reported writable (`SF`; a peer that never reads is outside
what the balancer can promise, there being no session timeout). Peers owe nothing
else: they may send or not. `Registry`: the monitor's loop never stops, a probe is
not for ever prevented from concluding by a lack of sockets, the master finishes
what it began and connections end. It is strong fairness because an operation not
in `Interleaved` keeps the others from stepping in the model. The admin and the
choice of servers have no fairness. `Lifecycle`: a process that can go on does, and a
pending signal is delivered (`WF`; the kernel schedules both); a process that waits
in `waitpid()` is not scheduled by this, and the admin, the init script and the
faults have no fairness. `Settings`: the monitor is scheduled (`WF`); the admin is not,
and files need not end.

## 4. Proofs

`SessionProof` proves, for every buffer size, number of bytes and number of lives:

* `SessionTyped`: `Spec => []TypeOK`, in particular no buffer is ever written past
  its end;
* `CountKept`: if adding a server to epoll does not fail (`~AddMayFail`), `[]ConnectionCount`;
* `RelayKept`: if also `memcpy()` copies upwards (`CopyOrder = {"up"}`), `[]RelayIntact`;
* `CloneKept`: under the same conditions, wherever the NUL bytes are, `[]CloneIntact`.

The lives are lives that each begin with the session unused (section 2). The conditions
are the ones under which the code is right: without each of them TLC
finds the counterexamples of section 5. None of the properties is inductive. Counts
need to know that a flag, a descriptor and a count belong together (`FlagHasFd`,
`FdHasFlag`, `Counted`), and reuse needs to know that an unused session holds no data
(`UnusedIsEmpty`); both must hold when a stale event reaches a session in its next
life. The invariant is `TypedSession /\ TypedLoop /\ TypedWire /\ Book`, and with the
assumptions above the relation between buffers and streams. It is kept by every
handler on its own; a lemma for each handler says so, and the theorems combine them
along the disjuncts of `Next`.

`SessionWatch` proves, if adding a server to epoll does not fail, that no wake-up is
lost: `ClientKeptWatched` (`[]ClientWatched`) and `ServersKeptWatched`
(`[]ServersWatched`). The properties speak of interest and buffers, which are
connected only by the flag word: the invariant adds to that of `SessionProof` that
every flag says what its buffer holds and that epoll was last told the group these
flags ask for (`ClientBooks`, `MemberBooks`, `CloneBooks`).

It also proves `ResponsesDelivered`: `ResponseDelivered`, if also `memcpy()` copies
upwards, for a session in its first life (`MaxLives = 1`; in a later one a stale event
can end it, section 5).

The invariant `Current` says that the events still to be handled are true of the
connections they were reported for: input announced for the client is still there to
be read and has room in the buffer, a failure is still one. From it `EndsWhy` derives
that only two steps end a session whose client is there: the last write of a response
whose member is gone, and a read that finds the member gone with nothing left to
write. That a member with a full buffer may be polled, and is then taken for closed,
does no harm here, because a full buffer is one that is not yet written.

`SessionRefinement` proves `RelayImplemented`: under the conditions of `RelayKept`
`Spec => ImplementsRelay`, that is, `Session` with the mapping of the instance
`Promise` implements `Relay`. Every handler maps to taking or giving a run of bytes,
losing the member, the end of the session, or a stutter; the step of a handler that
both writes the rest and deletes the session is `Relay`'s `Stop`. It uses
`SessionProof`'s invariant, because the bytes a handler moves are the next ones of the
stream only if no more is in the buffer than was taken.

`SessionPoolProof` proves, for every combination of limits:

* `PoolTyped`: the indices stay inside the ring;
* `NothingSupplied`: `[]NeverSupplies`, `get_new_session()` never returns a session.
  The invariant says that while the ring is filled `rear = i % session_limit`, so
  after `session_limit` turns `rear` is back at `head`;
* `EverySessionQueued`: when serving starts every session is in exactly one slot;
* `DaemonSessionsFit`: for a daemon (`~Foreground`) the sessions fit beside the four
  descriptors of the master.

`RegistryProof` proves, for any number of slots, connections and servers created:

* `RegistryTyped`: `[]TypeOK`, whatever is interleaved and even when the members
  overflow into the clones; the statement is one of types only;
* `NothingLost`: `NoServerLost`, if no other process steps in between the clearing of a
  slot and the end of its removal (`"shrink" \notin Interleaved`);
* `CountsStayLive` and `ConnectionsKeepServer`: `[]CountsLive` and `[]LinksKeepServer`,
  if also none does between the choice of a server and the connection to it
  (`"connect" \notin Interleaved`).

All but the first also assume `Room`, that no more members are created than the array
has slots: the code has no test of its own (octopus.h:437), and member `MAXSERVERS`
would be written over a clone. The other conditions exclude races of section 5, and each
theorem leaves every other operation interruptible, probes and creations among them.
None of the properties is inductive. `NothingLost` and what follows need `Placed`: both arrays
stay within their slots with the server being created included, and what the monitor
found still holds: the slot it is about to judge or to clear is in use, the one to be
cleared is deleted, and one being removed stays cleared and, if it was the last, the last
one until the removal ends. The
counts need `Counted`: a chosen or connected server is inside the table, a chosen one is
enabled, and a slot about to be cleared counts no connection; only then is clearing it,
and counting it out of the array, harmless to every connection. There is no theorem that
the administrator's decisions stand or that creations succeed: each holds only without
the interruption that its run shows.

`SelectionProof` proves, for any number of servers, limits, loads and hashes and
without further conditions: `SelectionTyped`, `OnlyUsableChosen` (`[]ChosenUsable`),
`StandbysLast` (`[]StandbyLastResort`), `CheapestIsChosen` (`[]CheapestChosen`),
`RoundRobinIsFair` (`[]RoundRobinFair`), `UsageIsExact` (`[]UsageExact`) and
`PinsHaveServers` (`[]PinsToServers`). The choice is written with minima and ranks of
finite sets, so the proof begins with those: a function on a finite set takes its least
value (along the well-founded order of strict subsets), and every rank up to the size of
a set of numbers is taken by one of its elements, because the rank is injective. `RoundRobinFair` holds in clone mode too, and excepts
the choices after a standby clone restarted the round (algorithms.c:93). Its
proof needs `Turns`: a member was passed over at most as often as
there are available members after it, in the order of the round, up to the one chosen
last. Each choice takes the next in that order, so this number grows by one for all but
the one chosen, whose count restarts; and there are never more members after one than
there are others. `UsageIsExact` and `PinsHaveServers` are inductive together with the
types: setting a pin changes two of the counted sets by one element each, a rebalancing
moves a part of one set to another, and `handle_delete_servers()` drops all pins of a
member with the slot it frees. The sets of hashes are assumed finite, as the table is an array.

`LifecycleProof` proves, for any number of instances and of faults, if no instance
runs between another one's `stat()` and `open()` (`~Interleaved`; the race itself is
the run `lifecycle_race`): `LifecycleTyped`, `SegmentOwned` (`[]OwnSegment`),
`ServingLocked` (`[]ServingIsLocked`) and `LockGivenBack` (`[]LockHeld`). The invariant
has three parts for each instance: where its three processes can be relative to each
other (`Staged`: the daemon only exists once the starter is gone), whose pids its
segment holds (`Recorded`), and that the file is its own from `open()` to `unlink()`
(`Locked`). `LockHeld` speaks of masters that recorded themselves, and excepts instances
of which a process was killed by SIGKILL or `unlink()` failed. The last part is about two instances at a time: an `unlink()` removes whatever
file has the name, so it must be shown that this is nobody else's.

`SettingsProof` proves, for every width of `int` and `short`, every set of lines and
every number typed: `SettingsTyped`, `RangeKept` (`[]SettingsInRange`), `MonitorLives`
(`[]MonitorSurvives`), `RebalancedWhenDue` (`[]RebalancedInTime`) and `SectionsKept`
(`[]SectionAsWritten`). `SettingsInRange` covers `hash_rebalance_threshold`,
`hash_rebalance_size`, `connect_timeout`, `binding_port`, `session_limit` and `fd_limit`;
`hash_rebalance_interval` does break its check at the prompt and is not among them, nor
is `monitor_interval`, which nothing checks. `SectionAsWritten` excepts the fields that
were overruled and the address of a section that says none (section 5). The monitor
divides by a copy that was positive when it was
made; that a rebalancing is never late needs `waited <= j % ratio`, which survives
a change of the interval because `waited` restarts, and the counter's wrap-around
because 0 is a multiple of everything. `SectionsKept` needs `Agrees`: what the locals
hold and what the section has said so far agree at every line, not only at its end.

The type invariants of SessionPool, Registry, Lifecycle and Settings have a theorem and no run
of their own.

Only model-checked: the liveness properties (`OrderlyEnd`, `MemberGoneDrains`,
`RequestsDelivered`, `DeletedRemoved`, `CloneModeRecovers`, `KillEnds`, `MasterEnds`,
`RebalancingGoesOn`). They rest on fairness and on `ENABLED`, which are outside the
prover's reach. Every invariant and every action property of a passing run is stated by
a theorem.

## 5. Where the code and its own words disagree

With a run (the findings of `PROJECT.json`):

* octopus.c:821: `initialize_unused_session()` fills all slots, `rear` wraps to `head`,
  and `get_new_session()` takes the full ring for an empty one: every client is
  refused. Its other branch computes `(head + 1) % head` (line 826).
* octopus.c:670: `member_write()` makes the member pollable again whether or not its
  buffer has room; the `read()` of 0 bytes that follows is taken for end of file.
  Compare the comment at line 602.
* monitor.c:124, 141: a probe that began before the administrator disabled or deleted
  the server writes its verdict over the decision.
* monitor.c:255, octopus.h:437: a server is written into its slot and counted in two
  statements, a slot is cleared, counted out and marked `FREE` in three. A server
  appended behind the slot that the monitor then gives back, or put into the slot just
  cleared, is not in the table although `cmd_create()` has printed that it was created
  (admin.c:649).
* init.c:340: two instances that both find no run file open the same one (`open()`
  without `O_EXCL`) and share a segment. Compare tests/test.rb:168, which expects the
  second to be refused. The one that fails to bind the port then kills the other's
  processes.

Met while modelling, present in the models through their constants, without a run
of their own:

* connect.c:88: when `epoll_ctl()` fails the session keeps a descriptor that was never
  flagged nor counted. `delete_session()` leaves the socket open (comment at
  octopus.c:853), and a later event decrements `SERVER.c` to -1. `AddMayFail = TRUE`
  with `MaxLives = 2` violates `ConnectionCount`.
* octopus.c:419: the clone's copy is made with `strncpy()`; after a NUL the clone is
  sent zeros for the rest of that read, against the comment at line 417 ("append the
  data just read from the client"). `CloneIntact` says so, and holds with NUL bytes.
* octopus.c:504, 681, 798: `memcpy()` on overlapping areas. `CopyOrder = {"down"}`
  violates `RelayIntact`.
* octopus.c:289, against the comment at 355: a stale event is applied to the next
  session with that descriptor and can end it. No property is about it: the relay and
  the counts stay right (`RelayIntact`, `ConnectionCount`), the session is lost.
* octopus.c:44-49: SIGPIPE is neither handled nor ignored.
* octopus.c:284: after `client_read()` deleted the session `client_write()` runs for the
  same event and queues it a second time (`queued` reaches 2).
* octopus.c:297: an error event on the member leaves a session with no member and
  nothing to send until the client acts; compare the comment at line 496.
* octopus.c:400: `STATE_FRESH` is tested and never set, so with HASH and STATIC a
  session is never given a server (`UriBased`); `Selection` models the two algorithms
  as they would run.
* connect.c:51 and others: sockets of failed attempts are never closed (`leaked`).
* octopus.h:437: no test against `MAXSERVERS` (comment at line 97); member 513 is
  written over the first clone.
* monitor.c:252-258: a server already counted can be lost in the same way as one being
  created: `shrink` in `Interleaved` violates `NoServerLost`.
* algorithms.c:93: a standby clone whose turn it is resets `next_member`, not
  `next_clone`: the standby clone stays in use, and in clone mode RR starts over each
  time, so that only the second available member is chosen, against octopuslb.conf:60.
  `StandbyLastResort` is stated for members, and `RoundRobinFair` excepts the restarts.
* algorithms.c:54, 355: when `next_member` has become unusable it is set to the first
  available member and RR then advances once more, passing that one over.
* algorithms.c:301: LL compares raw loads; a server whose SNMP check fails has a
  negative load and is preferred to all others.
* init.c:132: in the foreground the master holds 7 descriptors of its own, not 4;
  `Foreground = TRUE` violates `SessionsFit`.
* monitor.c:75: a connection refused at once ends the probe without marking the
  server failed.
* monitor.c:252: the monitor clears a deleted server with count 0 that the master has
  already chosen; the connection is counted in a cleared slot. `connect` in
  `Interleaved` violates `CountsLive`.
* octopus.c:116, signals.c:29-35: "the master process will wait for the monitor to
  quit" holds only in the foreground: the monitor is forked before the daemon forks
  again and is not its child. In the foreground a master that alone is sent SIGTERM
  waits for ever for a monitor nobody has told (`MasterEnds` excepts it).
* logging.c:51: a fatal error before the monitor has recorded its pid waits with
  `waitpid(0)` for a child that was not told to end.
* init.c:342: a crash, and every error between `open()` and the master's recording
  itself, leaves the run file behind; the next start is refused until the init
  script's `stop` removes it. `LockHeld` does not cover instances that end so early.
* signals.c:46: a failing `unlink()` is logged and the exit goes on, so the file stays.
  With a relative `shm_run_dir` a daemon, which has changed its directory (init.c:36),
  always meets this.
* octopuslb.initd:40: `stop` removes every run file, whether or not its instance has
  ended.
* admin.c, `cmd_kill`: with `monitor_pid` still 0, `kill(0)` ends the admin's own
  process group, and the master is not told.
* config.c:171, against octopuslb.conf:260-261: "clone=false" assigns `standbyState`; a
  section that says "clone=true" before stays a clone, one that says "standby=true"
  before is no standby any more. `SectionAsWritten` excepts both.
* config.c:386, 398: `default_maxc` and `default_maxl` inside a section replace the limit
  the section has given itself; config.c:222: "[" resets nothing, so what an unclosed
  section said goes over to the next. Both are excepted too.
* config.c:212: the address is not among the values reset; a section without one gets
  its predecessor's, the first one an uninitialized value. A stray "[/" creates the
  previous server again.
* config.c: the sign of `default_maxc` is not checked, while that of `maxc` is.
* config.c, admin.c:785: the monitor interval is an `unsigned short`; 65536 reads as 0,
  which disables the monitor. A rebalancing interval of 2^31 typed at the prompt is
  checked as a `long` and stored as a negative `int`, which disables rebalancing.
* admin.c: `errno` is tested for the value 0 without being cleared, so that after an
  earlier failure a correct 0 is refused.
* monitor.c:369: the monitor writes the raised rebalancing interval over one the
  administrator has typed since the round began.

## 6. Not modelled

The admin prompt and the displays, the text of log messages and their suppression:
strings without a protocol. Commands that assign one number nothing else in the
models changes (`maxc`, `maxl`, `reset`, `debug`): their values are constants of the
models. Finding the URI in a request and `DJBHash()`. Socket options. SNMP itself: a
load is any value.

Two interruptions are left out: the master's update of the hash table
(algorithms.c:269-273) against `rebalance_hash()`, and the monitor's four loads of
its settings against a command between them. The second adds nothing (another order
of the same commands leaves the same mixture); the first would make `UsageExact`
fail, and no line of the repository says that the counts are exact under it.

## 7. Plan

1. A composition of several sessions with the server table, in which `SERVER.c` is
   the sum of their shares.
2. The hash table under interruption.
3. An inductive account of stale events, so that the theorem on the end of a
   session says of a later life which events can end it.
