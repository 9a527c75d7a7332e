------------------------------- MODULE Session -------------------------------
(****************************************************************************)
(* One SESSION of the load balancer (octopus.h:217-235) and the event loop  *)
(* of the master process that serves it (octopus.c:145-364): a client, the  *)
(* member server its requests go to and, when cloning is on, the clone that *)
(* is sent a copy of the requests and whose answers are thrown away.        *)
(*                                                                          *)
(* The loop is single threaded.  epoll_wait returns a batch of events; each *)
(* descriptor's handlers then run to completion, reading before writing.    *)
(* The peers and the network move between any two handler calls.            *)
(*                                                                          *)
(* get_new_session() is taken at its word ("returns a pointer to a unused   *)
(* session", octopus.c:816): the session is handed out only while unused.   *)
(* `queued' counts the entries of the free queue that point at it.  Module  *)
(* SessionPool models the queue itself.                                     *)
(****************************************************************************)
EXTENDS Integers, Sequences

CONSTANTS
  MESSAGE_SIZE_LIMIT,  \* size of each of the session's three buffers
  MaxBytes,            \* bound: bytes each peer sends on one connection
  MaxLives,            \* bound: times the session is handed out
  NulAt,               \* the positions at which a peer's stream has a NUL byte
  CopyOrder,           \* directions in which memcpy may copy overlapping data
  UseClone,            \* can get_available_servers() find a usable clone?
  UriBased,            \* can the algorithm be HASH or STATIC?
  AddMayFail           \* can epoll_ctl(EPOLL_CTL_ADD) of a server fail?

Servers == {"member", "clone"}
Ends    == {"client"} \cup Servers
Events  == {"IN", "OUT", "ERR", "HUP"}

ASSUME LimitAssumption == MESSAGE_SIZE_LIMIT \in Nat \ {0}
ASSUME BoundAssumption == MaxBytes \in [Ends -> Nat] /\ MaxLives \in Nat
ASSUME CopyAssumption == CopyOrder \subseteq {"up", "down"} /\ CopyOrder # {}
ASSUME ModeAssumption == {UseClone, UriBased, AddMayFail} \subseteq BOOLEAN

\* The bits of SESSION.state; STATE_UNUSED is the empty set.
Flags == {"CLI_CONNECTED", "MEM_CONNECTED", "CLO_CONNECTED",
          "CLI_READ_READY", "MEM_READ_READY", "CLO_READ_READY",
          "CLI_WRITE_READY", "MEM_WRITE_READY", "CLO_WRITE_READY",
          "CLI_BUFF_FULL", "MEM_BUFF_FULL"}

VARIABLES
  state,                \* SESSION.state, a set of Flags
  fds,                  \* the ends whose descriptor field is not -1
  client_read_buffer,   \* bytes from the client, not yet sent to the member
  member_read_buffer,   \* bytes from the member, not yet sent to the client
  clone_write_buffer,   \* bytes for the clone
  interest,             \* what epoll watches each descriptor for; {}: not added
  c,                    \* this session's share of SERVER.c of its two servers
  queued,               \* entries of the free queue that point at this session
  leaked,               \* open sockets no variable of the program refers to
  batch,                \* events of the last epoll_wait not handled yet
  busy,                 \* the end whose EPOLLIN is handled and EPOLLOUT is not
  conn,                 \* what the kernel knows of each connection
  sent,                 \* bytes each peer has sent on its connection
  got,                  \* bytes read from each connection
  out,                  \* the bytes written to each connection
  life                  \* times the session has been handed out

buffers == <<client_read_buffer, member_read_buffer, clone_write_buffer>>
loop    == <<batch, busy>>
wire    == <<sent, got, out>>
vars    == <<state, fds, buffers, interest, c, queued, leaked, loop, conn,
             wire, life>>

-----------------------------------------------------------------------------
(* Bytes.  Byte i of a stream is the number i, or 0 (NUL) at NulAt: streams  *)
(* that lose, repeat, reorder or overwrite a byte become distinguishable.    *)

Byte(i) == IF i \in NulAt THEN 0 ELSE i

Stream(k) == [i \in 1..k |-> Byte(i)]

\* The n bytes that follow the ones already read from e.
Chunk(e, n) == [i \in 1..n |-> Byte(got[e] + i)]

\* What strncpy(dst, src, n) leaves in dst: src up to its first NUL, zeros after.
strncpy(src) ==
  [i \in 1..Len(src) |-> IF \E j \in 1..i : src[j] = 0 THEN 0 ELSE src[i]]

\* Mutant of memcpy: the source offset is forgotten.
memcpy_no_offset(buf, n, order) == SubSeq(buf, 1, Len(buf) - n)

\* memcpy(buf, buf + n, used - n) on overlapping areas.  Copying upwards moves
\* the data; copying downwards overwrites source bytes before they are copied.
memcpy(buf, n, order) ==
  LET used == Len(buf) - n
  IN  IF order = "up"
      THEN SubSeq(buf, n + 1, Len(buf))
      ELSE [i \in 1..used |-> buf[i + n * (((used - i) \div n) + 1)]]

-----------------------------------------------------------------------------
(* Sockets: the results of read() and write() on an end's descriptor.        *)

MinOf(a, b) == IF a < b THEN a ELSE b

Readable(e) == conn[e] \in {"open", "fin"} /\ got[e] < sent[e]

\* -1 is an error (EAGAIN, ENOTCONN, ECONNRESET, EBADF); 0 is end of file, and
\* also what read() returns when it is given no room.
ReadResult(e, room) ==
  IF e \notin fds \/ conn[e] \in {"connecting", "reset"} THEN -1
  ELSE IF room = 0 THEN 0
  ELSE IF Readable(e) THEN MinOf(room, sent[e] - got[e])
  ELSE IF conn[e] = "fin" THEN 0
  ELSE -1

\* A write() to a connection that was reset also raises SIGPIPE, which the
\* program neither handles nor ignores; here it only fails.
WriteResults(e, buf) ==
  IF e \notin fds \/ conn[e] \in {"connecting", "reset"} THEN {-1}
  ELSE IF buf = <<>> THEN {0}
  ELSE 1..Len(buf)

\* The four epoll event groups null_ev, ro_ev, wr_ev and rw_ev.
Group(read, write) ==
  {"ERR", "HUP"} \cup (IF read THEN {"IN"} ELSE {})
                 \cup (IF write THEN {"OUT"} ELSE {})

\* epoll_ctl(EPOLL_CTL_MOD): fails, unnoticed, on a descriptor not in the set.
Mod(old, group) == IF old = {} THEN {} ELSE group

-----------------------------------------------------------------------------
(* Closing.                                                                  *)

Connected(e) == CASE e = "client" -> "CLI_CONNECTED"
                  [] e = "member" -> "MEM_CONNECTED"
                  [] e = "clone"  -> "CLO_CONNECTED"

\* shutdown() and close() of the descriptors of the ends es, all of them open;
\* close() also takes a descriptor out of the epoll set.
CloseFds(es) ==
  /\ fds' = fds \ es
  /\ conn' = [e \in Ends |-> IF e \in es THEN "none" ELSE conn[e]]
  /\ c' = [s \in Servers |-> IF s \in es THEN c[s] - 1 ELSE c[s]]

Unwatched(es) == [e \in Ends |-> IF e \in es THEN {} ELSE interest[e]]

\* Mutant of disconnect: the descriptor is not checked.
disconnect_unchecked(e) ==
  /\ CloseFds({e})
  /\ interest' = Unwatched({e})
  /\ state' = state \ {Connected(e)}
  /\ UNCHANGED <<buffers, queued>>

disconnect(e) ==
  LET es == fds \cap {e}
  IN  /\ CloseFds(es)
      /\ interest' = Unwatched(es)
      /\ state' = IF e \in fds THEN state \ {Connected(e)} ELSE state
      /\ UNCHANGED <<buffers, queued>>

\* Only ends whose CONNECTED flag is set are disconnected.
Disconnectable(flags, open) == {e \in open : Connected(e) \in flags}

\* Mutant of delete_session: client_used_buffer is not reset.
delete_session_keeps_buffer ==
  LET es == Disconnectable(state, fds)
  IN  /\ CloseFds(es)
      /\ interest' = Unwatched(es)
      /\ state' = {}
      /\ member_read_buffer' = <<>>
      /\ clone_write_buffer' = <<>>
      /\ queued' = queued + 1
      /\ UNCHANGED client_read_buffer

delete_session ==
  LET es == Disconnectable(state, fds)
  IN  /\ CloseFds(es)
      /\ interest' = Unwatched(es)
      /\ state' = {}
      /\ client_read_buffer' = <<>>
      /\ member_read_buffer' = <<>>
      /\ clone_write_buffer' = <<>>
      /\ queued' = queued + 1

-----------------------------------------------------------------------------
(* The handlers.  Each is entered with the end's event taken off the batch.  *)

\* Mutants of ClientGroup, MemberGroup and Room: the write event is forgotten,
\* and an off-by-one in the room left.
ClientGroup_no_out(flags) == Group("CLI_READ_READY" \in flags, FALSE)

MemberGroup_no_out(flags) == Group("MEM_READ_READY" \in flags, FALSE)

Room_off_by_one(buf) == MESSAGE_SIZE_LIMIT - Len(buf) + 1

ClientGroup(flags) == Group("CLI_READ_READY" \in flags, "CLI_WRITE_READY" \in flags)

MemberGroup(flags) == Group("MEM_READ_READY" \in flags, "MEM_WRITE_READY" \in flags)

Room(buf) == MESSAGE_SIZE_LIMIT - Len(buf)

\* client_read, n > 0 bytes read.  STATE_FRESH is never set by the program, so
\* the branch that would choose a server here is not taken.
client_read_data(n) ==
  LET chunk  == Chunk("client", n)
      used   == Len(client_read_buffer) + n
      cloned == "CLO_CONNECTED" \in state
      cut    == IF cloned /\ n > Room(clone_write_buffer) THEN fds \cap {"clone"} ELSE {}
      ready  == (state \ {Connected(e) : e \in cut})
                  \cup {"MEM_WRITE_READY", "CLO_WRITE_READY"}
  IN  /\ got' = [got EXCEPT !["client"] = @ + n]
      /\ client_read_buffer' = client_read_buffer \o chunk
      /\ clone_write_buffer' = IF cloned /\ cut = {}
                               THEN clone_write_buffer \o strncpy(chunk)
                               ELSE clone_write_buffer
      /\ CloseFds(cut)
      /\ state' = IF used = MESSAGE_SIZE_LIMIT
                  THEN (ready \cup {"CLI_BUFF_FULL"}) \ {"CLI_READ_READY"}
                  ELSE ready
      /\ interest' =
           [client |-> Mod(interest["client"], ClientGroup(state')),
            member |-> Mod(interest["member"], Group("MEM_READ_READY" \in state', TRUE)),
            clone  |-> IF "CLO_CONNECTED" \in state'
                       THEN Mod(interest["clone"], Group(TRUE, TRUE))
                       ELSE Unwatched(cut)["clone"]]
      /\ UNCHANGED <<member_read_buffer, queued>>

client_read ==
  LET n == ReadResult("client", Room(client_read_buffer))
  IN  /\ IF n <= 0
         THEN delete_session /\ UNCHANGED got
         ELSE client_read_data(n)
      /\ UNCHANGED <<leaked, sent, out, life>>

\* client_write, n >= 0 bytes written and the session goes on.
client_write_data(n, order) ==
  LET rest  == memcpy(member_read_buffer, n, order)
      done  == n = Len(member_read_buffer)
      drain == IF done THEN state \ {"CLI_WRITE_READY"} ELSE state
  IN  /\ member_read_buffer' = IF done THEN <<>> ELSE rest
      /\ state' = IF "MEM_BUFF_FULL" \in drain
                  THEN (drain \ {"MEM_BUFF_FULL"}) \cup {"MEM_READ_READY"}
                  ELSE drain
      /\ interest' = [interest EXCEPT
           !["client"] = Mod(@, ClientGroup(state')),
           !["member"] = Mod(@, MemberGroup(state'))]
      /\ UNCHANGED <<fds, client_read_buffer, clone_write_buffer, c, queued, conn>>

\* Mutant of client_write: the session is not deleted when the member is gone.
client_write_lingers ==
  /\ \E n \in WriteResults("client", member_read_buffer), order \in CopyOrder :
       /\ IF n < 0 THEN delete_session ELSE client_write_data(n, order)
       /\ out' = IF n > 0
                 THEN [out EXCEPT !["client"] = @ \o SubSeq(member_read_buffer, 1, n)]
                 ELSE out
  /\ UNCHANGED <<leaked, sent, got, life>>

client_write ==
  /\ \E n \in WriteResults("client", member_read_buffer), order \in CopyOrder :
       /\ IF n < 0 \/ (n = Len(member_read_buffer) /\ "MEM_CONNECTED" \notin state)
          THEN delete_session
          ELSE client_write_data(n, order)
       /\ out' = IF n > 0
                 THEN [out EXCEPT !["client"] = @ \o SubSeq(member_read_buffer, 1, n)]
                 ELSE out
  /\ UNCHANGED <<leaked, sent, got, life>>

member_read_data(n) ==
  LET used  == Len(member_read_buffer) + n
      ready == state \cup {"CLI_WRITE_READY"}
  IN  /\ got' = [got EXCEPT !["member"] = @ + n]
      /\ member_read_buffer' = member_read_buffer \o Chunk("member", n)
      /\ state' = IF used = MESSAGE_SIZE_LIMIT
                  THEN (ready \cup {"MEM_BUFF_FULL"}) \ {"MEM_READ_READY"}
                  ELSE ready
      /\ interest' = [interest EXCEPT
           !["client"] = Mod(@, Group("CLI_READ_READY" \in state', TRUE)),
           !["member"] = Mod(@, MemberGroup(state'))]
      /\ UNCHANGED <<fds, client_read_buffer, clone_write_buffer, c, queued, conn>>

\* Mutant of member_read: data the client is still to be sent is not checked for.
member_read_hasty ==
  LET n == ReadResult("member", Room(member_read_buffer))
  IN  /\ \/ n <= 0 /\ delete_session /\ UNCHANGED got
         \/ n > 0 /\ member_read_data(n)
      /\ UNCHANGED <<leaked, sent, out, life>>

member_read ==
  LET n == ReadResult("member", Room(member_read_buffer))
  IN  /\ \/ n <= 0 /\ "CLI_WRITE_READY" \notin state /\ delete_session /\ UNCHANGED got
         \/ n <= 0 /\ "CLI_WRITE_READY" \in state /\ disconnect("member") /\ UNCHANGED got
         \/ n > 0 /\ member_read_data(n)
      /\ UNCHANGED <<leaked, sent, out, life>>

\* MEM_READ_READY is set whether or not the member buffer has room.
member_write_data(n, order) ==
  LET rest  == memcpy(client_read_buffer, n, order)
      done  == n = Len(client_read_buffer)
      heard == state \cup {"MEM_READ_READY"}
      drain == IF done THEN heard \ {"MEM_WRITE_READY"} ELSE heard
  IN  /\ client_read_buffer' = IF done THEN <<>> ELSE rest
      /\ state' = IF "CLI_BUFF_FULL" \in drain
                  THEN (drain \ {"CLI_BUFF_FULL"}) \cup {"CLI_READ_READY"}
                  ELSE drain
      /\ interest' = [interest EXCEPT
           !["client"] = Mod(@, Group(TRUE, "CLI_WRITE_READY" \in state')),
           !["member"] = Mod(@, MemberGroup(state'))]
      /\ UNCHANGED <<fds, member_read_buffer, clone_write_buffer, c, queued, conn>>

member_write ==
  /\ \E n \in WriteResults("member", client_read_buffer), order \in CopyOrder :
       /\ IF n < 0 THEN disconnect("member") ELSE member_write_data(n, order)
       /\ out' = IF n > 0
                 THEN [out EXCEPT !["member"] = @ \o SubSeq(client_read_buffer, 1, n)]
                 ELSE out
  /\ UNCHANGED <<leaked, sent, got, life>>

\* What a clone answers goes to the waste buffer.
clone_read ==
  LET n == ReadResult("clone", MESSAGE_SIZE_LIMIT)
  IN  /\ \/ n <= 0 /\ disconnect("clone") /\ UNCHANGED got
         \/ /\ n > 0
            /\ got' = [got EXCEPT !["clone"] = @ + n]
            /\ UNCHANGED <<state, fds, buffers, interest, c, queued, conn>>
      /\ UNCHANGED <<leaked, sent, out, life>>

\* What is left is moved down; the clone is watched for output until nothing is.
clone_write_data(n, order) ==
  LET rest  == memcpy(clone_write_buffer, n, order)
      done  == n = Len(clone_write_buffer)
      heard == state \cup {"CLO_READ_READY"}
  IN  /\ clone_write_buffer' = IF done THEN <<>> ELSE rest
      /\ state' = IF done THEN heard \ {"CLO_WRITE_READY"} ELSE heard
      /\ interest' = [interest EXCEPT
           !["clone"] = Mod(@, Group(TRUE, "CLO_WRITE_READY" \in state'))]
      /\ UNCHANGED <<fds, client_read_buffer, member_read_buffer, c, queued, conn>>

clone_write ==
  /\ \E n \in WriteResults("clone", clone_write_buffer), order \in CopyOrder :
       /\ IF n < 0 THEN disconnect("clone") ELSE clone_write_data(n, order)
       /\ out' = IF n > 0
                 THEN [out EXCEPT !["clone"] = @ \o SubSeq(clone_write_buffer, 1, n)]
                 ELSE out
  /\ UNCHANGED <<leaked, sent, got, life>>

-----------------------------------------------------------------------------
(* Accepting a client and connecting its servers.                            *)

\* How far connect_server() got with a server: it had a descriptor already
\* (kept), socket() failed (nosocket), a later call failed and the new socket
\* is lost (lost; for the clone's bind(), badbind), epoll_ctl() failed after
\* the session took the descriptor (unadded), or all went well (ok).
\* "none": not asked for.
Unadded == IF AddMayFail THEN {"unadded"} ELSE {}

\* With HASH and STATIC no server is chosen before a request has been read.
MemberOutcomes ==
  (IF UriBased THEN {"none"} ELSE {})
    \cup (IF "member" \in fds THEN {"kept"}
          ELSE {"nosocket", "lost", "ok"} \cup Unadded)

CloneOutcomes(m) ==
  IF UseClone /\ m \in {"kept", "ok"} /\ "clone" \notin fds
  THEN {"none", "nosocket", "lost", "badbind", "ok"} \cup Unadded
  ELSE {"none"}

\* connect_server() returns -1.
ConnectFails(m, x) == m \in {"nosocket", "lost", "unadded"} \/ x = "badbind"

\* The descriptors and flags of the session after connect_server().
FdsAfter(m, x) ==
  fds \cup {"client"} \cup (IF m \in {"unadded", "ok"} THEN {"member"} ELSE {})
      \cup (IF x \in {"unadded", "ok"} THEN {"clone"} ELSE {})

FlagsAfter(m, x) ==
  state \cup {"CLI_CONNECTED", "CLI_READ_READY"}
        \cup (IF m = "ok" THEN {"MEM_CONNECTED", "MEM_READ_READY"} ELSE {})
        \cup (IF x = "ok" THEN {"CLO_CONNECTED", "CLO_READ_READY"} ELSE {})

\* The session that survives its set-up.
Established(m, x) ==
  /\ fds' = FdsAfter(m, x)
  /\ state' = FlagsAfter(m, x)
  /\ interest' =
       [client |-> Group(TRUE, FALSE),
        member |-> IF m = "ok" THEN Group(TRUE, FALSE) ELSE interest["member"],
        clone  |-> IF x = "ok" THEN Group(TRUE, FALSE) ELSE interest["clone"]]
  /\ c' = [member |-> IF m = "ok" THEN c["member"] + 1 ELSE c["member"],
           clone  |-> IF x = "ok" THEN c["clone"] + 1 ELSE c["clone"]]
  /\ conn' = [client |-> "open",
              member |-> IF m \in {"unadded", "ok"} THEN "connecting" ELSE conn["member"],
              clone  |-> IF x \in {"unadded", "ok"} THEN "connecting" ELSE conn["clone"]]
  /\ queued' = queued - 1
  /\ UNCHANGED buffers

\* delete_session() at the end of a set-up that failed: what is connected is
\* closed again, a descriptor that was not added to epoll is not.
Abandoned(m, x) ==
  LET kept == FdsAfter(m, x) \ Disconnectable(FlagsAfter(m, x), FdsAfter(m, x))
  IN  /\ fds' = kept
      /\ state' = {}
      /\ conn' = [e \in Ends |-> IF e \notin kept THEN "none"
                                 ELSE IF e \in fds THEN conn[e] ELSE "connecting"]
      /\ client_read_buffer' = <<>>
      /\ member_read_buffer' = <<>>
      /\ clone_write_buffer' = <<>>
      /\ UNCHANGED <<interest, c, queued>>

\* The session is handed out; epoll_ctl() or choose_server() may fail ("none"
\* with refused), and so may each step of connect_server().  get_new_session()
\* does not test that the session is unused: a session that was queued twice
\* could be handed out to a second client while the first is served, which is
\* not modelled.  Every life begins with an unused session.
AcceptSession ==
  /\ queued > 0
  /\ state = {}
  /\ life < MaxLives
  /\ \E refused \in BOOLEAN :
       \E m \in IF refused THEN {"none"} ELSE MemberOutcomes :
         \E x \in CloneOutcomes(m) :
           /\ IF refused \/ ConnectFails(m, x) THEN Abandoned(m, x)
                                               ELSE Established(m, x)
           /\ leaked' = leaked + (IF m = "lost" THEN 1 ELSE 0)
                               + (IF x \in {"lost", "badbind"} THEN 1 ELSE 0)
  /\ sent' = [e \in Ends |-> 0]
  /\ got'  = [e \in Ends |-> 0]
  /\ out'  = [e \in Ends |-> <<>>]
  /\ life' = life + 1

\* accept(), fcntl() or setsockopt() failed, or there is no unused session.
RejectClient ==
  UNCHANGED <<state, fds, buffers, interest, c, queued, leaked, conn, wire, life>>

-----------------------------------------------------------------------------
(* The event loop.                                                           *)

Watched == Ends \cup {"listener"}

\* The events epoll reports for an end.  Readiness to read and failure are
\* level triggered facts; readiness to write is the kernel's to decide.
Pending(e) ==
  {mask \in SUBSET interest[e] :
     /\ "IN" \in mask <=> "IN" \in interest[e]
                            /\ (Readable(e) \/ conn[e] \in {"fin", "reset"})
     /\ "OUT" \in mask => conn[e] \in {"open", "fin", "reset"}
     /\ "ERR" \in mask <=> "ERR" \in interest[e] /\ conn[e] = "reset"
     /\ "HUP" \in mask <=> "HUP" \in interest[e] /\ conn[e] = "reset"}

EpollWait ==
  /\ busy = "none"
  /\ \A e \in Watched : batch[e] = {}
  /\ \E client \in Pending("client"), member \in Pending("member"),
        clone \in Pending("clone"), listener \in {{}, {"IN"}} :
       /\ listener = {} \/ life < MaxLives
       /\ batch' = [client |-> client, member |-> member, clone |-> clone,
                    listener |-> listener]
  /\ batch' # batch
  /\ UNCHANGED <<state, fds, buffers, interest, c, queued, leaked, busy, conn,
                 wire, life>>

Taken(e) == batch' = [batch EXCEPT ![e] = {}]

Accept ==
  /\ busy = "none"
  /\ batch["listener"] # {}
  /\ Taken("listener")
  /\ AcceptSession \/ RejectClient
  /\ UNCHANGED busy

\* The descriptor of the event still belongs to the session.
Associated(e) == busy = "none" /\ batch[e] # {} /\ e \in fds

Failed(e) == batch[e] \cap {"ERR", "HUP"} # {}

ClientFailure ==
  /\ Associated("client") /\ Failed("client")
  /\ Taken("client")
  /\ delete_session
  /\ UNCHANGED <<leaked, busy, wire, life>>

ServerFailure(e) ==
  /\ Associated(e) /\ Failed(e)
  /\ Taken(e)
  /\ disconnect(e)
  /\ UNCHANGED <<leaked, busy, wire, life>>

\* EPOLLIN first; EPOLLOUT of the same event follows whatever the read did.
ReadEvent(e) ==
  /\ Associated(e) /\ ~Failed(e)
  /\ "IN" \in batch[e]
  /\ batch' = [batch EXCEPT ![e] = @ \ {"IN"}]
  /\ busy' = IF "OUT" \in batch[e] THEN e ELSE "none"

WriteEvent(e) ==
  /\ "OUT" \in batch[e]
  /\ busy = e \/ (Associated(e) /\ ~Failed(e) /\ "IN" \notin batch[e])
  /\ Taken(e)
  /\ busy' = "none"

ClientRead  == ReadEvent("client")  /\ client_read
ClientWrite == WriteEvent("client") /\ client_write
MemberRead  == ReadEvent("member")  /\ member_read
MemberWrite == WriteEvent("member") /\ member_write
CloneRead   == ReadEvent("clone")   /\ clone_read
CloneWrite  == WriteEvent("clone")  /\ clone_write

\* The session has given up the descriptor since epoll_wait returned.
Unassociated(e) ==
  /\ busy = "none" /\ batch[e] # {} /\ e \notin fds
  /\ Taken(e)
  /\ UNCHANGED <<state, fds, buffers, interest, c, queued, leaked, busy, conn,
                 wire, life>>

Handle ==
  \/ Accept
  \/ ClientFailure \/ ClientRead \/ ClientWrite
  \/ ServerFailure("member") \/ MemberRead \/ MemberWrite
  \/ ServerFailure("clone") \/ CloneRead \/ CloneWrite
  \/ \E e \in Ends : Unassociated(e)

-----------------------------------------------------------------------------
(* The peers and the network.                                                *)

master == <<state, fds, buffers, interest, c, queued, leaked, loop, got, out, life>>

Establish(e) ==
  /\ conn[e] = "connecting"
  /\ conn' = [conn EXCEPT ![e] = "open"]
  /\ UNCHANGED <<master, sent>>

PeerSends(e) ==
  /\ conn[e] = "open"
  /\ sent[e] < MaxBytes[e]
  /\ sent' = [sent EXCEPT ![e] = @ + 1]
  /\ UNCHANGED <<master, conn>>

PeerCloses(e) ==
  /\ conn[e] = "open"
  /\ conn' = [conn EXCEPT ![e] = "fin"]
  /\ UNCHANGED <<master, sent>>

\* A refused connection, a reset, or a connection that timed out.
Reset(e) ==
  /\ conn[e] \in {"connecting", "open", "fin"}
  /\ conn' = [conn EXCEPT ![e] = "reset"]
  /\ UNCHANGED <<master, sent>>

Peers ==
  \E e \in Ends : Establish(e) \/ PeerSends(e) \/ PeerCloses(e) \/ Reset(e)

-----------------------------------------------------------------------------
\* The session as initialize_sessions() leaves it, once in the free queue.
Init ==
  /\ state = {} /\ fds = {}
  /\ client_read_buffer = <<>>
  /\ member_read_buffer = <<>>
  /\ clone_write_buffer = <<>>
  /\ interest = [e \in Ends |-> {}]
  /\ c = [s \in Servers |-> 0]
  /\ queued = 1 /\ leaked = 0
  /\ batch = [e \in Watched |-> {}] /\ busy = "none"
  /\ conn = [e \in Ends |-> "none"]
  /\ sent = [e \in Ends |-> 0]
  /\ got = [e \in Ends |-> 0]
  /\ out = [e \in Ends |-> <<>>]
  /\ life = 0

Next == EpollWait \/ Handle \/ Peers

Spec == Init /\ [][Next]_vars

-----------------------------------------------------------------------------
(* Fairness: the loop keeps running, a connection attempt ends one way or    *)
(* the other (the kernel times it out), and a peer with room in its receive  *)
(* window for ever again is reported writable.                               *)

PollOut(e) == EpollWait /\ "OUT" \in batch'[e]

Resolve(e) == conn[e] = "connecting" /\ (Establish(e) \/ Reset(e))

Fairness ==
  /\ WF_vars(EpollWait)
  /\ WF_vars(Handle)
  /\ \A e \in Ends : SF_vars(PollOut(e)) /\ WF_vars(Resolve(e))

FairSpec == Spec /\ Fairness

-----------------------------------------------------------------------------
(* Properties.                                                               *)

\* Every variable has its type; no buffer exceeds MESSAGE_SIZE_LIMIT, so no
\* read() or strncpy() writes past the end of a session's buffer.
TypeOK ==
  /\ state \subseteq Flags /\ fds \subseteq Ends
  /\ client_read_buffer \in Seq(Nat) /\ Len(client_read_buffer) <= MESSAGE_SIZE_LIMIT
  /\ member_read_buffer \in Seq(Nat) /\ Len(member_read_buffer) <= MESSAGE_SIZE_LIMIT
  /\ clone_write_buffer \in Seq(Nat) /\ Len(clone_write_buffer) <= MESSAGE_SIZE_LIMIT
  /\ interest \in [Ends -> SUBSET Events]
  /\ c \in [Servers -> Int]
  /\ queued \in Nat /\ leaked \in Nat
  /\ batch \in [Watched -> SUBSET Events] /\ busy \in Ends \cup {"none"}
  /\ conn \in [Ends -> {"none", "connecting", "open", "fin", "reset"}]
  /\ sent \in [Ends -> Nat] /\ got \in [Ends -> Nat] /\ out \in [Ends -> Seq(Nat)]
  /\ life \in Nat

\* "current number of connections" (octopus.h:206): SERVER.c counts a session
\* once while it is connected to the server and not at all otherwise, however
\* its connections end: the counter that limits (maxc), balances (LC) and
\* delays deletion never drifts.
ConnectionCount ==
  \A s \in Servers : c[s] = IF Connected(s) \in state THEN 1 ELSE 0

\* No lost wake-up and no busy loop: while the client is connected epoll
\* watches it for input exactly when the client buffer has room and for output
\* exactly when there is something to send it.
ClientWatched ==
  "CLI_CONNECTED" \in state =>
    /\ "IN" \in interest["client"] <=> Len(client_read_buffer) < MESSAGE_SIZE_LIMIT
    /\ "OUT" \in interest["client"] <=> member_read_buffer # <<>>

\* The same for the member and the clone; the member may also be watched for
\* input while its buffer is full: member_write() turns that on again.
ServersWatched ==
  /\ "MEM_CONNECTED" \in state =>
       /\ Len(member_read_buffer) < MESSAGE_SIZE_LIMIT => "IN" \in interest["member"]
       /\ "OUT" \in interest["member"] <=> client_read_buffer # <<>>
  /\ "CLO_CONNECTED" \in state =>
       /\ "IN" \in interest["clone"]
       /\ "OUT" \in interest["clone"] <=> clone_write_buffer # <<>>

\* "if out member buffer is full then the won't poll the server for updates
\* until it's got some room" (octopus.c:602).
FullBufferNotPolled ==
  "MEM_CONNECTED" \in state /\ Len(member_read_buffer) = MESSAGE_SIZE_LIMIT
    => "IN" \notin interest["member"]

\* Both streams are relayed intact: what was written to one side followed by
\* what is still buffered is what was read from the other side.
RelayIntact ==
  state # {} =>
    /\ out["member"] \o client_read_buffer = Stream(got["client"])
    /\ out["client"] \o member_read_buffer = Stream(got["member"])

\* The first k bytes of the client's stream, or zeros behind a NUL of it.
Mirrored(bytes, k) ==
  /\ Len(bytes) = k
  /\ \A i \in 1..k : bytes[i] = Byte(i) \/ (bytes[i] = 0 /\ \E j \in 1..i : Byte(j) = 0)

\* A clone that stays connected is sent as many bytes as the client sent, in
\* order, none lost, repeated or moved, whatever fills its buffer.  The bytes are
\* the client's up to its first NUL byte and, behind that, the client's or
\* zeros: the copy is made with strncpy(), although the comment at octopus.c:417
\* says "append the data just read from the client".
CloneIntact ==
  "CLO_CONNECTED" \in state => Mirrored(out["clone"] \o clone_write_buffer, got["client"])

\* A session whose client is still there is not ended before all that was read
\* from the member has been written to the client.
ResponseDelivered ==
  [][state # {} /\ state' = {} /\ conn["client"] = "open"
       => out'["client"] = Stream(got'["member"])]_vars

\* A member that closes in an orderly way ends the session, once the client has
\* been sent what is left of the response.
OrderlyEnd ==
  "MEM_CONNECTED" \in state /\ conn["member"] = "fin"
    ~> state = {} \/ conn["member"] = "reset"

\* A session that lost its member with part of the response unsent drains that
\* part and ends.
MemberGoneDrains ==
  "CLI_CONNECTED" \in state /\ "MEM_CONNECTED" \notin state /\ member_read_buffer # <<>>
    ~> state = {}

\* Every byte the client sends reaches the member unless the member connection
\* is lost or the session ends first: no stall with data in a buffer.
RequestsDelivered ==
  \A k \in 1..MaxBytes["client"] :
    "MEM_CONNECTED" \in state /\ sent["client"] >= k
      ~> Len(out["member"]) >= k \/ "MEM_CONNECTED" \notin state

-----------------------------------------------------------------------------
(* The session as a relay.                                                   *)

Ways(request, response) ==
  [w \in {"request", "response"} |-> IF w = "request" THEN request ELSE response]

Promise == INSTANCE Relay WITH
  Capacity <- MESSAGE_SIZE_LIMIT,
  Byte     <- Byte,
  up       <- "CLI_CONNECTED" \in state,
  linked   <- "MEM_CONNECTED" \in state,
  taken    <- Ways(got["client"], got["member"]),
  queue    <- Ways(client_read_buffer, member_read_buffer),
  given    <- Ways(out["member"], out["client"])

\* The handlers, in whatever order events, failures and reuse of the session
\* make them run, implement the two channels of Relay.
ImplementsRelay == Promise!Spec

=============================================================================
