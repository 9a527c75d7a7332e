---------------------------- MODULE SessionProof ----------------------------
(****************************************************************************)
(* Proofs about Session, for buffers of any size, any number of bytes and   *)
(* any number of lives of the session.                                      *)
(****************************************************************************)
EXTENDS Session, SequenceTheorems, TLAPS

USE DEF Ends, Servers

Connections == {"none", "connecting", "open", "fin", "reset"}

\* What the handlers assign, the loop's variables, and the rest.
TypedSession ==
  /\ state \subseteq Flags /\ fds \subseteq Ends
  /\ client_read_buffer \in Seq(Nat) /\ Len(client_read_buffer) <= MESSAGE_SIZE_LIMIT
  /\ member_read_buffer \in Seq(Nat) /\ Len(member_read_buffer) <= MESSAGE_SIZE_LIMIT
  /\ clone_write_buffer \in Seq(Nat) /\ Len(clone_write_buffer) <= MESSAGE_SIZE_LIMIT
  /\ interest \in [Ends -> SUBSET Events]
  /\ c \in [Servers -> Int]
  /\ queued \in Nat
  /\ conn \in [Ends -> Connections]

TypedLoop == batch \in [Watched -> SUBSET Events] /\ busy \in Ends \cup {"none"}

TypedWire ==
  /\ sent \in [Ends -> Nat] /\ got \in [Ends -> Nat] /\ out \in [Ends -> Seq(Nat)]
  /\ leaked \in Nat /\ life \in Nat

LEMMA TypedParts == TypeOK <=> TypedSession /\ TypedLoop /\ TypedWire
  BY DEF TypeOK, TypedSession, TypedLoop, TypedWire, Connections

\* The flag of an end is set only while its descriptor is open: without this
\* client_read_data() could append past the end of the clone's buffer.
FlagHasFd == \A e \in Ends : Connected(e) \in state => e \in fds

\* Conversely an open descriptor has its flag, and the connection is counted.
FdHasFlag == \A e \in fds : Connected(e) \in state

Counted == \A s \in Servers : c[s] = IF s \in fds THEN 1 ELSE 0

\* A session in use has its client, an unused one holds no data.
UnusedIsEmpty ==
  \/ "CLI_CONNECTED" \in state
  \/ /\ state = {}
     /\ client_read_buffer = <<>>
     /\ member_read_buffer = <<>>
     /\ clone_write_buffer = <<>>

\* What the session keeps in step, the last three if no epoll_ctl() fails.
Book ==
  /\ FlagHasFd
  /\ ~AddMayFail => FdHasFlag /\ Counted /\ UnusedIsEmpty

-----------------------------------------------------------------------------
(* Bytes and buffers.                                                        *)

LEMMA ByteType == \A i \in Nat : Byte(i) \in Nat
  BY DEF Byte

LEMMA ChunkType ==
  ASSUME TypedWire, NEW e \in Ends, NEW n \in Nat
  PROVE  Chunk(e, n) \in Seq(Nat) /\ Len(Chunk(e, n)) = n
<1>1. got[e] \in Nat
  BY DEF TypedWire
<1>2. \A i \in 1..n : Byte(got[e] + i) \in Nat
  BY <1>1, ByteType
<1> QED BY <1>2 DEF Chunk

LEMMA StrncpyType ==
  ASSUME NEW src \in Seq(Nat)
  PROVE  strncpy(src) \in Seq(Nat) /\ Len(strncpy(src)) = Len(src)
  BY DEF strncpy

\* Copying downwards stays within the buffer.
LEMMA DownIndex ==
  ASSUME NEW len \in Nat, NEW n \in 1..len, NEW i \in 1..(len - n)
  PROVE  i + n * (((len - n - i) \div n) + 1) \in 1..len
<1> DEFINE q == (len - n - i) \div n
<1>1. q \in Nat /\ n * q <= len - n - i
  OBVIOUS
<1>2. n * (q + 1) = n * q + n /\ n * q >= 0
  BY <1>1
<1> QED BY <1>1, <1>2

\* memcpy() of what is left after a partial write.
LEMMA MemcpyType ==
  ASSUME NEW buf \in Seq(Nat), NEW n \in 1..Len(buf), NEW order
  PROVE  memcpy(buf, n, order) \in Seq(Nat) /\ Len(memcpy(buf, n, order)) = Len(buf) - n
<1>1. CASE order = "up"
  BY <1>1, SubSeqProperties DEF memcpy
<1>2. CASE order # "up"
  BY <1>2, DownIndex DEF memcpy
<1> QED BY <1>1, <1>2

LEMMA ReadType ==
  ASSUME TypedWire, NEW e \in Ends, NEW room \in Nat
  PROVE  ReadResult(e, room) \in Int
  BY DEF ReadResult, MinOf, TypedWire

LEMMA ReadBound ==
  ASSUME TypedWire, NEW e \in Ends, NEW room \in Nat, ReadResult(e, room) > 0
  PROVE  ReadResult(e, room) \in 1..room /\ e \in fds
<1>1. sent[e] \in Nat /\ got[e] \in Nat
  BY DEF TypedWire
<1>2. e \in fds /\ room # 0 /\ Readable(e) /\ ReadResult(e, room) = MinOf(room, sent[e] - got[e])
  BY DEF ReadResult
<1>3. got[e] < sent[e]
  BY <1>2 DEF Readable
<1> QED BY <1>1, <1>2, <1>3 DEF MinOf

LEMMA WriteBound ==
  ASSUME NEW buf \in Seq(Nat), NEW e \in Ends, NEW n \in WriteResults(e, buf)
  PROVE  n \in Int /\ (n >= 0 => n \in 0..Len(buf) /\ (n # Len(buf) => n \in 1..Len(buf)) /\ e \in fds)
  BY DEF WriteResults

-----------------------------------------------------------------------------
(* The operations on the session.                                            *)

\* The flags of the ends are flags, and different ones.
LEMMA ConnectedFlags ==
  /\ \A e \in Ends : Connected(e) \in Flags
  /\ \A e, f \in Ends : Connected(e) = Connected(f) => e = f
  /\ \A e \in Ends : Connected(e) \notin
       {"CLI_READ_READY", "MEM_READ_READY", "CLO_READ_READY", "CLI_WRITE_READY",
        "MEM_WRITE_READY", "CLO_WRITE_READY", "CLI_BUFF_FULL", "MEM_BUFF_FULL"}
  BY DEF Connected, Flags

LEMMA EndsRecord ==
  ASSUME NEW S, NEW x \in S, NEW y \in S, NEW z \in S
  PROVE  [client |-> x, member |-> y, clone |-> z] \in [Ends -> S]
  OBVIOUS

LEMMA CloseFdsStep ==
  ASSUME TypedSession, NEW es \in SUBSET fds, CloseFds(es)
  PROVE  /\ fds' \subseteq Ends /\ fds' = fds \ es
         /\ conn' \in [Ends -> Connections] /\ c' \in [Servers -> Int]
         /\ Counted => Counted'
         /\ Unwatched(es) \in [Ends -> SUBSET Events]
  BY DEF TypedSession, CloseFds, Connections, Counted, Unwatched

LEMMA DeleteStep ==
  ASSUME TypedSession, Book, delete_session
  PROVE  TypedSession' /\ Book' /\ state' = {}
<1> DEFINE es == Disconnectable(state, fds)
<1>1. es \in SUBSET fds
  BY DEF Disconnectable
<1>2. CloseFds(es)
  BY DEF delete_session
<1>3. TypedSession'
  BY <1>1, <1>2, CloseFdsStep, LimitAssumption DEF delete_session, TypedSession
<1>4. FlagHasFd'
  BY DEF delete_session, FlagHasFd
<1>5. ASSUME ~AddMayFail PROVE FdHasFlag' /\ Counted' /\ UnusedIsEmpty'
  <2>1. fds' = {}
    BY <1>1, <1>2, <1>5, CloseFdsStep DEF Book, FdHasFlag, Disconnectable
  <2>2. Counted'
    BY <1>1, <1>2, <1>5, CloseFdsStep DEF Book
  <2> QED BY <2>1, <2>2 DEF FdHasFlag, UnusedIsEmpty, delete_session
<1> QED BY <1>3, <1>4, <1>5 DEF Book, delete_session

LEMMA DisconnectStep ==
  ASSUME TypedSession, Book, NEW e \in Servers, disconnect(e)
  PROVE  TypedSession' /\ Book'
<1> DEFINE es == fds \cap {e}
<1>1. es \in SUBSET fds /\ CloseFds(es)
  BY DEF disconnect
<1>2. TypedSession'
  BY <1>1, CloseFdsStep DEF disconnect, TypedSession, buffers
<1>3. FlagHasFd'
  BY <1>1, CloseFdsStep, ConnectedFlags DEF disconnect, FlagHasFd, Book
<1>4. ASSUME ~AddMayFail PROVE FdHasFlag' /\ Counted' /\ UnusedIsEmpty'
  <2>1. Counted'
    BY <1>1, <1>4, CloseFdsStep DEF Book
  <2>4. FdHasFlag'
    <3>1. fds' = fds \ {e} /\ fds \subseteq Ends
      BY <1>1, CloseFdsStep DEF TypedSession
    <3>2. \A f \in Ends \ {e} : Connected(f) # Connected(e)
      BY ConnectedFlags
    <3> QED BY <1>4, <3>1, <3>2 DEF disconnect, FdHasFlag, Book
  <2>2. Connected(e) # "CLI_CONNECTED"
    BY DEF Connected
  <2>3. UnusedIsEmpty'
    BY <1>4, <2>2 DEF disconnect, Book, UnusedIsEmpty, FdHasFlag, buffers
  <2> QED BY <2>1, <2>3, <2>4
<1> QED BY <1>2, <1>3, <1>4 DEF Book

LEMMA ClientReadStep ==
  ASSUME TypedSession, TypedWire, Book, "client" \in fds,
         NEW n \in 1..Room(client_read_buffer), client_read_data(n)
  PROVE  TypedSession' /\ Book' /\ got' \in [Ends -> Nat]
<1> DEFINE chunk == Chunk("client", n)
           cloned == "CLO_CONNECTED" \in state
           cut == IF cloned /\ n > Room(clone_write_buffer) THEN fds \cap {"clone"} ELSE {}
<1>1. chunk \in Seq(Nat) /\ Len(chunk) = n /\ n \in Nat \ {0}
  BY ChunkType, LimitAssumption DEF Room, TypedSession
<1>2. cut \in SUBSET fds /\ CloseFds(cut)
  BY DEF client_read_data
<1>3. /\ client_read_buffer' = client_read_buffer \o chunk
      /\ client_read_buffer' \in Seq(Nat) /\ Len(client_read_buffer') <= MESSAGE_SIZE_LIMIT
  BY <1>1, LimitAssumption DEF client_read_data, TypedSession, Room
<1>4. clone_write_buffer' \in Seq(Nat) /\ Len(clone_write_buffer') <= MESSAGE_SIZE_LIMIT
  <2>1. CASE cloned /\ cut = {}
    <3>1. n <= Room(clone_write_buffer)
      BY <2>1, LimitAssumption DEF Book, FlagHasFd, Connected, Room, TypedSession
    <3>2. clone_write_buffer' = clone_write_buffer \o strncpy(chunk)
      BY <2>1 DEF client_read_data
    <3> QED BY <1>1, <3>1, <3>2, StrncpyType, LimitAssumption DEF TypedSession, Room
  <2>2. CASE ~(cloned /\ cut = {})
    BY <2>2 DEF client_read_data, TypedSession
  <2> QED BY <2>1, <2>2
<1>5. state' \subseteq Flags
  BY DEF client_read_data, Flags, TypedSession
<1>6. \A e \in Ends : Connected(e) \in state' <=> Connected(e) \in state /\ e \notin cut
  <2>1. TAKE e \in Ends
  <2>2. Connected(e) \in state' <=> Connected(e) \in state \ {Connected(f) : f \in cut}
    BY ConnectedFlags DEF client_read_data
  <2>3. \A f \in cut : Connected(e) = Connected(f) <=> e = f
    BY <1>2, ConnectedFlags DEF TypedSession
  <2> QED BY <2>2, <2>3
<1>7. interest' \in [Ends -> SUBSET Events]
  <2>1. \A e \in Ends : interest[e] \in SUBSET Events
    BY DEF TypedSession
  <2>2. Unwatched(cut)["clone"] \in SUBSET Events
    BY <1>2, CloseFdsStep
  <2> QED BY <2>1, <2>2, EndsRecord DEF client_read_data, ClientGroup, Mod, Group, Events
<1>8. /\ TypedSession'
      /\ FlagHasFd' /\ (~AddMayFail => FdHasFlag' /\ Counted')
  <2>1. TypedSession'
    BY <1>2, <1>3, <1>4, <1>5, <1>7, CloseFdsStep DEF TypedSession, client_read_data
  <2>2. fds' = fds \ cut /\ fds \subseteq Ends /\ (Counted => Counted')
    BY <1>2, CloseFdsStep DEF TypedSession
  <2> QED BY <1>6, <2>1, <2>2 DEF Book, FlagHasFd, FdHasFlag
<1>9. ~AddMayFail => UnusedIsEmpty'
  BY <1>6 DEF Book, FdHasFlag, UnusedIsEmpty, Connected
<1>10. got' \in [Ends -> Nat]
  BY <1>1 DEF client_read_data, TypedWire
<1> QED BY <1>8, <1>9, <1>10 DEF Book

\* What moving data and flags leaves alone.
LEMMA FlagStep ==
  ASSUME TypedSession, Book, fds # {}, UNCHANGED <<fds, c>>,
         \A e \in Ends : Connected(e) \in state' <=> Connected(e) \in state
  PROVE  Book'
<1>1. FlagHasFd'
  BY DEF Book, FlagHasFd
<1>2. ASSUME ~AddMayFail PROVE FdHasFlag' /\ Counted' /\ UnusedIsEmpty'
  <2>1. FdHasFlag'
    BY <1>2 DEF Book, FdHasFlag, TypedSession
  <2>2. Counted'
    BY <1>2 DEF Book, Counted
  <2>3. "CLI_CONNECTED" \in state
    BY <1>2 DEF Book, UnusedIsEmpty, FdHasFlag
  <2>4. UnusedIsEmpty'
    BY <2>3 DEF UnusedIsEmpty, Connected
  <2> QED BY <2>1, <2>2, <2>4
<1> QED BY <1>1, <1>2 DEF Book

LEMMA ClientWriteStep ==
  ASSUME TypedSession, Book, "client" \in fds,
         NEW n \in WriteResults("client", member_read_buffer), n >= 0,
         NEW order, client_write_data(n, order)
  PROVE  TypedSession' /\ Book'
<1>1. n = Len(member_read_buffer) \/ n \in 1..Len(member_read_buffer)
  BY WriteBound DEF TypedSession
<1>2. member_read_buffer' \in Seq(Nat) /\ Len(member_read_buffer') <= MESSAGE_SIZE_LIMIT
  BY <1>1, MemcpyType, LimitAssumption DEF client_write_data, TypedSession
<1>3. state' \subseteq Flags /\ \A e \in Ends : Connected(e) \in state' <=> Connected(e) \in state
  BY ConnectedFlags DEF client_write_data, Flags, TypedSession
<1>4. interest' \in [Ends -> SUBSET Events]
  BY DEF client_write_data, TypedSession, ClientGroup, MemberGroup, Mod, Group, Events
<1>5. TypedSession'
  BY <1>2, <1>3, <1>4 DEF client_write_data, TypedSession
<1>6. Book'
  BY <1>3, FlagStep DEF client_write_data
<1> QED BY <1>5, <1>6

LEMMA MemberWriteStep ==
  ASSUME TypedSession, Book, "member" \in fds,
         NEW n \in WriteResults("member", client_read_buffer), n >= 0,
         NEW order, member_write_data(n, order)
  PROVE  TypedSession' /\ Book'
<1>1. n = Len(client_read_buffer) \/ n \in 1..Len(client_read_buffer)
  BY WriteBound DEF TypedSession
<1>2. client_read_buffer' \in Seq(Nat) /\ Len(client_read_buffer') <= MESSAGE_SIZE_LIMIT
  BY <1>1, MemcpyType, LimitAssumption DEF member_write_data, TypedSession
<1>3. state' \subseteq Flags /\ \A e \in Ends : Connected(e) \in state' <=> Connected(e) \in state
  BY ConnectedFlags DEF member_write_data, Flags, TypedSession
<1>4. interest' \in [Ends -> SUBSET Events]
  BY DEF member_write_data, TypedSession, MemberGroup, Mod, Group, Events
<1>5. TypedSession'
  BY <1>2, <1>3, <1>4 DEF member_write_data, TypedSession
<1>6. Book'
  BY <1>3, FlagStep DEF member_write_data
<1> QED BY <1>5, <1>6

LEMMA CloneWriteStep ==
  ASSUME TypedSession, Book, "clone" \in fds,
         NEW n \in WriteResults("clone", clone_write_buffer), n >= 0,
         NEW order, clone_write_data(n, order)
  PROVE  TypedSession' /\ Book'
<1>1. n = Len(clone_write_buffer) \/ n \in 1..Len(clone_write_buffer)
  BY WriteBound DEF TypedSession
<1>2. clone_write_buffer' \in Seq(Nat) /\ Len(clone_write_buffer') <= MESSAGE_SIZE_LIMIT
  BY <1>1, MemcpyType, LimitAssumption DEF clone_write_data, TypedSession
<1>3. state' \subseteq Flags /\ \A e \in Ends : Connected(e) \in state' <=> Connected(e) \in state
  BY ConnectedFlags DEF clone_write_data, Flags, TypedSession
<1>4. interest' \in [Ends -> SUBSET Events]
  BY DEF clone_write_data, TypedSession, Mod, Group, Events
<1>5. TypedSession'
  BY <1>2, <1>3, <1>4 DEF clone_write_data, TypedSession
<1>6. Book'
  BY <1>3, FlagStep DEF clone_write_data
<1> QED BY <1>5, <1>6

LEMMA MemberReadStep ==
  ASSUME TypedSession, TypedWire, Book, "member" \in fds,
         NEW n \in 1..Room(member_read_buffer), member_read_data(n)
  PROVE  TypedSession' /\ Book' /\ got' \in [Ends -> Nat]
<1>1. Chunk("member", n) \in Seq(Nat) /\ Len(Chunk("member", n)) = n /\ n \in Nat
  BY ChunkType, LimitAssumption DEF Room, TypedSession
<1>2. member_read_buffer' \in Seq(Nat) /\ Len(member_read_buffer') <= MESSAGE_SIZE_LIMIT
  BY <1>1, LimitAssumption DEF member_read_data, TypedSession, Room
<1>3. state' \subseteq Flags /\ \A e \in Ends : Connected(e) \in state' <=> Connected(e) \in state
  BY ConnectedFlags DEF member_read_data, Flags, TypedSession
<1>4. interest' \in [Ends -> SUBSET Events]
  BY DEF member_read_data, TypedSession, MemberGroup, Mod, Group, Events
<1>5. TypedSession'
  BY <1>2, <1>3, <1>4 DEF member_read_data, TypedSession
<1>6. Book'
  BY <1>3, FlagStep DEF member_read_data
<1>7. got' \in [Ends -> Nat]
  BY <1>1 DEF member_read_data, TypedWire
<1> QED BY <1>5, <1>6, <1>7

LEMMA EstablishedStep ==
  ASSUME TypedSession, Book, state = {}, queued > 0,
         NEW m \in {"none"} \cup MemberOutcomes, NEW x \in CloneOutcomes(m), Established(m, x)
  PROVE  TypedSession' /\ Book'
<1>1. state' \subseteq Flags /\ fds' \subseteq Ends /\ queued' \in Nat
  BY DEF Established, FlagsAfter, FdsAfter, Flags, TypedSession
<1>2. interest' \in [Ends -> SUBSET Events]
  BY EndsRecord DEF Established, Group, Events, TypedSession
<1>3. conn' \in [Ends -> Connections] /\ c' \in [Servers -> Int]
  BY EndsRecord DEF Established, Connections, TypedSession
<1>4. TypedSession'
  BY <1>1, <1>2, <1>3 DEF Established, TypedSession, buffers
<1>5. FlagHasFd'
  BY DEF Established, FlagsAfter, FdsAfter, FlagHasFd, Connected
<1>6. ASSUME ~AddMayFail PROVE FdHasFlag' /\ Counted' /\ UnusedIsEmpty'
  <2>1. fds = {} /\ Counted
    BY <1>6 DEF Book, FdHasFlag
  <2>2. m \notin {"unadded", "kept"} /\ x # "unadded"
    BY <1>6, <2>1 DEF MemberOutcomes, CloneOutcomes, Unadded
  <2>3. FdHasFlag'
    BY <2>1, <2>2 DEF Established, FlagsAfter, FdsAfter, FdHasFlag, Connected
  <2>4. Counted'
    BY <2>1, <2>2 DEF Established, FdsAfter, Counted
  <2> QED BY <2>3, <2>4 DEF UnusedIsEmpty, Established, FlagsAfter
<1> QED BY <1>4, <1>5, <1>6 DEF Book

LEMMA AbandonedStep ==
  ASSUME TypedSession, Book, state = {},
         NEW m \in {"none"} \cup MemberOutcomes, NEW x \in CloneOutcomes(m), Abandoned(m, x)
  PROVE  TypedSession' /\ Book' /\ state' = {}
<1>1. fds' \subseteq Ends
  BY DEF Abandoned, FdsAfter, TypedSession
<1>2. conn' \in [Ends -> Connections]
  BY DEF Abandoned, Connections, TypedSession
<1>3. TypedSession'
  BY <1>1, <1>2, LimitAssumption DEF Abandoned, TypedSession
<1>4. FlagHasFd'
  BY DEF Abandoned, FlagHasFd
<1>5. ASSUME ~AddMayFail PROVE FdHasFlag' /\ Counted' /\ UnusedIsEmpty'
  <2>1. fds = {} /\ Counted
    BY <1>5 DEF Book, FdHasFlag
  <2>2. m \notin {"unadded", "kept"} /\ x # "unadded"
    BY <1>5, <2>1 DEF MemberOutcomes, CloneOutcomes, Unadded
  <2>3. fds' = {}
    BY <2>1, <2>2 DEF Abandoned, FlagsAfter, FdsAfter, Disconnectable, Connected
  <2>4. Counted'
    BY <2>1, <2>3 DEF Abandoned, Counted
  <2> QED BY <2>3, <2>4 DEF UnusedIsEmpty, Abandoned, FdHasFlag
<1> QED BY <1>3, <1>4, <1>5 DEF Book, Abandoned

-----------------------------------------------------------------------------
(* The handlers keep the types and the books.                                *)

LEMMA RoomType ==
  TypedSession => Room(client_read_buffer) \in Nat /\ Room(member_read_buffer) \in Nat
  BY LimitAssumption DEF TypedSession, Room

LEMMA ClientReadTyped ==
  ASSUME TypedSession, TypedWire, Book, client_read
  PROVE  TypedSession' /\ TypedWire' /\ Book'
<1> DEFINE n == ReadResult("client", Room(client_read_buffer))
<1>1. CASE n <= 0
  BY <1>1, DeleteStep DEF client_read, TypedWire
<1>2. CASE ~(n <= 0)
  <2>1. n \in 1..Room(client_read_buffer) /\ "client" \in fds
    BY <1>2, ReadBound, RoomType, ReadType
  <2>2. client_read_data(n)
    BY <1>2 DEF client_read
  <2> HIDE DEF n
  <2> QED BY <2>1, <2>2, ClientReadStep DEF client_read, TypedWire
<1> QED BY <1>1, <1>2

LEMMA MemberReadTyped ==
  ASSUME TypedSession, TypedWire, Book, member_read
  PROVE  TypedSession' /\ TypedWire' /\ Book'
<1> DEFINE n == ReadResult("member", Room(member_read_buffer))
<1>1. CASE delete_session /\ UNCHANGED got
  BY <1>1, DeleteStep DEF member_read, TypedWire
<1>2. CASE disconnect("member") /\ UNCHANGED got
  BY <1>2, DisconnectStep DEF member_read, TypedWire
<1>3. CASE n > 0 /\ member_read_data(n)
  <2>1. n \in 1..Room(member_read_buffer) /\ "member" \in fds
    BY <1>3, ReadBound, RoomType
  <2> HIDE DEF n
  <2> QED BY <1>3, <2>1, MemberReadStep DEF member_read, TypedWire
<1> QED BY <1>1, <1>2, <1>3 DEF member_read

LEMMA CloneReadTyped ==
  ASSUME TypedSession, TypedWire, Book, clone_read
  PROVE  TypedSession' /\ TypedWire' /\ Book'
<1> DEFINE n == ReadResult("clone", MESSAGE_SIZE_LIMIT)
<1>1. CASE disconnect("clone") /\ UNCHANGED got
  BY <1>1, DisconnectStep DEF clone_read, TypedWire
<1>2. CASE /\ n > 0
           /\ got' = [got EXCEPT !["clone"] = @ + n]
           /\ UNCHANGED <<state, fds, buffers, interest, c, queued, conn>>
  <2>1. n \in Nat
    BY <1>2, ReadBound, LimitAssumption
  <2>2. TypedWire'
    BY <1>2, <2>1 DEF clone_read, TypedWire
  <2>3. TypedSession' /\ Book'
    BY <1>2 DEF TypedSession, Book, FlagHasFd, FdHasFlag, Counted, UnusedIsEmpty, buffers
  <2> QED BY <2>2, <2>3
<1> QED BY <1>1, <1>2 DEF clone_read

LEMMA ClientWriteTyped ==
  ASSUME TypedSession, TypedWire, Book, client_write
  PROVE  TypedSession' /\ TypedWire' /\ Book'
<1>1. PICK n \in WriteResults("client", member_read_buffer), order \in CopyOrder :
        /\ IF n < 0 \/ (n = Len(member_read_buffer) /\ "MEM_CONNECTED" \notin state)
           THEN delete_session
           ELSE client_write_data(n, order)
        /\ out' = IF n > 0
                  THEN [out EXCEPT !["client"] = @ \o SubSeq(member_read_buffer, 1, n)]
                  ELSE out
  BY DEF client_write
<1>2. n \in Int /\ (n >= 0 => n \in 0..Len(member_read_buffer) /\ "client" \in fds)
  BY WriteBound DEF TypedSession
<1>3. TypedSession' /\ Book'
  BY <1>1, <1>2, DeleteStep, ClientWriteStep
<1>4. n > 0 => SubSeq(member_read_buffer, 1, n) \in Seq(Nat)
  BY <1>2, SubSeqProperties DEF TypedSession
<1>5. out' \in [Ends -> Seq(Nat)]
  BY <1>1, <1>4 DEF TypedWire
<1>6. TypedWire'
  BY <1>5 DEF client_write, TypedWire
<1> QED BY <1>3, <1>6

LEMMA MemberWriteTyped ==
  ASSUME TypedSession, TypedWire, Book, member_write
  PROVE  TypedSession' /\ TypedWire' /\ Book'
<1>1. PICK n \in WriteResults("member", client_read_buffer), order \in CopyOrder :
        /\ IF n < 0 THEN disconnect("member") ELSE member_write_data(n, order)
        /\ out' = IF n > 0
                  THEN [out EXCEPT !["member"] = @ \o SubSeq(client_read_buffer, 1, n)]
                  ELSE out
  BY DEF member_write
<1>2. n \in Int /\ (n >= 0 => n \in 0..Len(client_read_buffer) /\ "member" \in fds)
  BY WriteBound DEF TypedSession
<1>3. TypedSession' /\ Book'
  BY <1>1, <1>2, DisconnectStep, MemberWriteStep
<1>4. n > 0 => SubSeq(client_read_buffer, 1, n) \in Seq(Nat)
  BY <1>2, SubSeqProperties DEF TypedSession
<1>5. out' \in [Ends -> Seq(Nat)]
  BY <1>1, <1>4 DEF TypedWire
<1>6. TypedWire'
  BY <1>5 DEF member_write, TypedWire
<1> QED BY <1>3, <1>6

LEMMA CloneWriteTyped ==
  ASSUME TypedSession, TypedWire, Book, clone_write
  PROVE  TypedSession' /\ TypedWire' /\ Book'
<1>1. PICK n \in WriteResults("clone", clone_write_buffer), order \in CopyOrder :
        /\ IF n < 0 THEN disconnect("clone") ELSE clone_write_data(n, order)
        /\ out' = IF n > 0
                  THEN [out EXCEPT !["clone"] = @ \o SubSeq(clone_write_buffer, 1, n)]
                  ELSE out
  BY DEF clone_write
<1>2. n \in Int /\ (n >= 0 => n \in 0..Len(clone_write_buffer) /\ "clone" \in fds)
  BY WriteBound DEF TypedSession
<1>3. TypedSession' /\ Book'
  BY <1>1, <1>2, DisconnectStep, CloneWriteStep
<1>4. n > 0 => SubSeq(clone_write_buffer, 1, n) \in Seq(Nat)
  BY <1>2, SubSeqProperties DEF TypedSession
<1>5. out' \in [Ends -> Seq(Nat)]
  BY <1>1, <1>4 DEF TypedWire
<1>6. TypedWire'
  BY <1>5 DEF clone_write, TypedWire
<1> QED BY <1>3, <1>6

LEMMA AcceptTyped ==
  ASSUME TypedSession, TypedWire, Book, AcceptSession
  PROVE  TypedSession' /\ TypedWire' /\ Book'
<1>1. PICK m \in {"none"} \cup MemberOutcomes : \E x \in CloneOutcomes(m) :
        /\ Abandoned(m, x) \/ Established(m, x)
        /\ leaked' = leaked + (IF m = "lost" THEN 1 ELSE 0)
                            + (IF x \in {"lost", "badbind"} THEN 1 ELSE 0)
  BY DEF AcceptSession
<1>2. PICK x \in CloneOutcomes(m) :
        /\ Abandoned(m, x) \/ Established(m, x)
        /\ leaked' = leaked + (IF m = "lost" THEN 1 ELSE 0)
                            + (IF x \in {"lost", "badbind"} THEN 1 ELSE 0)
  BY <1>1
<1>3. TypedSession' /\ Book'
  BY <1>2, AbandonedStep, EstablishedStep DEF AcceptSession
<1>4. TypedWire'
  BY <1>2 DEF AcceptSession, TypedWire
<1> QED BY <1>3, <1>4


-----------------------------------------------------------------------------
(* The streams are relayed intact.                                           *)

\* The n bytes of a stream that follow its first k.
Following(k, n) == [i \in 1..n |-> Byte(k + i)]

LEMMA FollowingType ==
  ASSUME NEW k \in Nat, NEW n \in Nat
  PROVE  /\ Following(k, n) \in Seq(Nat) /\ Len(Following(k, n)) = n
         /\ \A i \in 1..n : Following(k, n)[i] = Byte(k + i)
<1>1. \A i \in 1..n : Byte(k + i) \in Nat
  BY ByteType
<1> QED BY <1>1 DEF Following

LEMMA StreamType ==
  ASSUME NEW k \in Nat
  PROVE  /\ Stream(k) \in Seq(Nat) /\ Len(Stream(k)) = k
         /\ \A i \in 1..k : Stream(k)[i] = Byte(i)
<1>1. \A i \in 1..k : Byte(i) \in Nat
  BY ByteType
<1> QED BY <1>1 DEF Stream

LEMMA StreamExtends ==
  ASSUME NEW k \in Nat, NEW n \in Nat
  PROVE  Stream(k) \o Following(k, n) = Stream(k + n)
<1> DEFINE long == Stream(k) \o Following(k, n)
<1>1. Stream(k) \in Seq(Nat) /\ Following(k, n) \in Seq(Nat)
  BY FollowingType, StreamType
<1>2. /\ long \in Seq(Nat) /\ Len(long) = Len(Stream(k)) + Len(Following(k, n))
      /\ \A i \in 1..(Len(Stream(k)) + Len(Following(k, n))) :
           long[i] = IF i <= Len(Stream(k)) THEN Stream(k)[i]
                     ELSE Following(k, n)[i - Len(Stream(k))]
  BY <1>1, ConcatProperties, Zenon
<1>3. Len(Stream(k)) = k /\ Len(Following(k, n)) = n
  BY FollowingType, StreamType
<1> HIDE DEF long
<1>4. /\ Len(long) = k + n
      /\ \A i \in 1..(k + n) : long[i] = IF i <= k THEN Stream(k)[i] ELSE Following(k, n)[i - k]
  BY <1>2, <1>3, Zenon
<1>5. ASSUME NEW i \in 1..(k + n) PROVE long[i] = Byte(i)
  <2>1. CASE i <= k
    <3>1. long[i] = Stream(k)[i] /\ i \in 1..k
      BY <1>4, <2>1
    <3> QED BY <3>1, StreamType
  <2>2. CASE ~(i <= k)
    <3>1. i - k \in 1..n /\ k + (i - k) = i
      BY <2>2
    <3>2. long[i] = Following(k, n)[i - k]
      BY <1>4, <2>2
    <3> QED BY <3>1, <3>2, FollowingType
  <2> QED BY <2>1, <2>2
<1>6. /\ Stream(k + n) \in Seq(Nat) /\ Len(Stream(k + n)) = k + n
      /\ \A i \in 1..(k + n) : Stream(k + n)[i] = Byte(i)
  BY StreamType
<1>7. long = Stream(k + n)
  BY <1>2, <1>4, <1>5, <1>6, SeqEqual, Zenon
<1> QED BY <1>7 DEF long

LEMMA Assoc ==
  ASSUME NEW s \in Seq(Nat), NEW t \in Seq(Nat), NEW u \in Seq(Nat)
  PROVE  (s \o t) \o u = s \o (t \o u)
  OBVIOUS

\* A chunk of n bytes continues a stream of which k bytes are under way.
LEMMA StreamGrows ==
  ASSUME NEW o \in Seq(Nat), NEW buf \in Seq(Nat), NEW k \in Nat, NEW n \in Nat,
         o \o buf = Stream(k)
  PROVE  o \o (buf \o Following(k, n)) = Stream(k + n)
<1>1. o \o (buf \o Following(k, n)) = (o \o buf) \o Following(k, n)
  <2>1. Following(k, n) \in Seq(Nat)
    BY FollowingType
  <2> QED BY <2>1, Assoc
<1> QED BY <1>1, StreamExtends, Zenon

\* Writing n bytes of a buffer and moving the rest to its front.
LEMMA BytesMove ==
  ASSUME NEW o \in Seq(Nat), NEW buf \in Seq(Nat), NEW n \in 1..Len(buf)
  PROVE  (o \o SubSeq(buf, 1, n)) \o SubSeq(buf, n + 1, Len(buf)) = o \o buf
<1> DEFINE a == SubSeq(buf, 1, n)
           b == SubSeq(buf, n + 1, Len(buf))
<1>1. n \in Nat /\ Len(buf) \in Nat /\ \A i \in 1..Len(buf) : buf[i] \in Nat
  OBVIOUS
<1>2. a \in Seq(Nat)
  BY <1>1, SubSeqProperties
<1>3. b \in Seq(Nat)
  BY <1>1, SubSeqProperties
<1>4. a \o b = SubSeq(buf, 1, Len(buf))
  BY <1>1, ConcatAdjacentSubSeq
<1>5. SubSeq(buf, 1, Len(buf)) = buf
  BY SubSeqFull
<1> HIDE DEF a, b
<1>6. (o \o a) \o b = o \o (a \o b)
  BY <1>2, <1>3, Assoc
<1> QED BY <1>4, <1>5, <1>6, Zenon DEF a, b

\* strncpy() copies as many bytes as it is given, zeros behind a NUL byte.
LEMMA StrncpyIs ==
  ASSUME NEW k \in Nat, NEW n \in Nat
  PROVE  LET t == strncpy(Following(k, n))
         IN  /\ t \in Seq(Nat) /\ Len(t) = n
             /\ \A i \in 1..n : t[i] = Byte(k + i)
                                  \/ (t[i] = 0 /\ \E j \in 1..i : Byte(k + j) = 0)
<1> DEFINE f == Following(k, n)
<1>1. Len(f) = n /\ \A i \in 1..n : f[i] = Byte(k + i) /\ f[i] \in Nat
  <2>1. \A i \in 1..n : Byte(k + i) \in Nat
    BY ByteType
  <2> QED BY <2>1, FollowingType, Zenon
<1> HIDE DEF f
<1>2. strncpy(f) = [i \in 1..n |-> IF \E j \in 1..i : f[j] = 0 THEN 0 ELSE f[i]]
  BY <1>1 DEF strncpy
<1>3. strncpy(f) \in Seq(Nat) /\ Len(strncpy(f)) = n
  BY <1>1, <1>2
<1>4. ASSUME NEW i \in 1..n
      PROVE  strncpy(f)[i] = Byte(k + i)
               \/ (strncpy(f)[i] = 0 /\ \E j \in 1..i : Byte(k + j) = 0)
  <2>1. CASE \E j \in 1..i : f[j] = 0
    <3>1. PICK j \in 1..i : f[j] = 0
      BY <2>1
    <3>2. j \in 1..n
      BY <3>1
    <3> QED BY <1>1, <1>2, <2>1, <3>1, <3>2
  <2>2. CASE ~ \E j \in 1..i : f[j] = 0
    BY <1>1, <1>2, <2>2
  <2> QED BY <2>1, <2>2
<1> QED BY <1>3, <1>4 DEF f

\* Appending the copy of the next n bytes.
LEMMA MirrorGrows ==
  ASSUME NEW o \in Seq(Nat), NEW buf \in Seq(Nat), NEW k \in Nat, NEW n \in Nat,
         Mirrored(o \o buf, k)
  PROVE  Mirrored(o \o (buf \o strncpy(Following(k, n))), k + n)
<1> DEFINE t == strncpy(Following(k, n))
           s == o \o buf
<1>1. /\ t \in Seq(Nat) /\ Len(t) = n
      /\ \A i \in 1..n : t[i] = Byte(k + i) \/ (t[i] = 0 /\ \E j \in 1..i : Byte(k + j) = 0)
  BY StrncpyIs
<1>2. s \in Seq(Nat)
  OBVIOUS
<1>3. Len(s) = k /\ \A i \in 1..k : s[i] = Byte(i) \/ (s[i] = 0 /\ \E j \in 1..i : Byte(j) = 0)
  BY DEF Mirrored
<1> HIDE DEF t
<1>4. o \o (buf \o t) = s \o t
  BY <1>1, Assoc
<1> HIDE DEF s
<1> DEFINE long == s \o t
<1>5. Len(long) = k + n /\ \A i \in 1..(k + n) : long[i] = IF i <= k THEN s[i] ELSE t[i - k]
  <2>1. /\ Len(long) = Len(s) + Len(t)
        /\ \A i \in 1..(Len(s) + Len(t)) : long[i] = IF i <= Len(s) THEN s[i] ELSE t[i - Len(s)]
    BY <1>1, <1>2, ConcatProperties, Zenon
  <2> HIDE DEF long
  <2> QED BY <1>1, <1>3, <2>1, Zenon
<1> HIDE DEF long
<1>6. ASSUME NEW i \in 1..(k + n)
      PROVE  long[i] = Byte(i) \/ (long[i] = 0 /\ \E j \in 1..i : Byte(j) = 0)
  <2>1. CASE i <= k
    <3>1. i \in 1..k /\ long[i] = s[i]
      BY <1>5, <2>1
    <3> QED BY <1>3, <3>1
  <2>2. CASE i > k
    <3>1. i - k \in 1..n /\ long[i] = t[i - k] /\ k + (i - k) = i
      BY <1>5, <2>2
    <3>2. t[i - k] = Byte(i) \/ (t[i - k] = 0 /\ \E j \in 1..(i - k) : Byte(k + j) = 0)
      BY <1>1, <3>1
    <3>3. ASSUME NEW j \in 1..(i - k), Byte(k + j) = 0 PROVE \E m \in 1..i : Byte(m) = 0
      <4>1. k + j \in 1..i
        BY <3>1
      <4> QED BY <3>3, <4>1
    <3> QED BY <3>1, <3>2, <3>3
  <2> QED BY <2>1, <2>2
<1>7. Mirrored(long, k + n)
  BY <1>5, <1>6 DEF Mirrored
<1> QED BY <1>4, <1>7, Zenon DEF t, long

\* The conditions under which the streams are intact: no epoll_ctl() fails and
\* memcpy() copies upwards.
Orderly == ~AddMayFail /\ CopyOrder = {"up"}

Relayed == RelayIntact /\ CloneIntact

\* A write of n bytes of buf to an end that was sent o so far.
Written(o, buf, n) == IF n > 0 THEN o \o SubSeq(buf, 1, n) ELSE o

Left(buf, n) == IF n = Len(buf) THEN <<>> ELSE memcpy(buf, n, "up")

LEMMA WriteMoves ==
  ASSUME NEW o \in Seq(Nat), NEW buf \in Seq(Nat), NEW n \in Nat,
         n = Len(buf) \/ n \in 1..Len(buf)
  PROVE  Written(o, buf, n) \o Left(buf, n) = o \o buf
<1>1. CASE n = 0
  <2>1. buf = <<>> /\ Written(o, buf, n) = o /\ Left(buf, n) = <<>>
    BY <1>1 DEF Written, Left
  <2> QED BY <2>1
<1>2. CASE n > 0 /\ n = Len(buf)
  <2>1. SubSeq(buf, 1, Len(buf)) = buf
    BY SubSeqFull
  <2>2. Written(o, buf, n) = o \o buf /\ Left(buf, n) = <<>>
    BY <1>2, <2>1, Zenon DEF Written, Left
  <2>3. Written(o, buf, n) \in Seq(Nat)
    BY <2>2, ConcatProperties, Zenon
  <2>4. Written(o, buf, n) \o <<>> = Written(o, buf, n)
    BY <2>3, ConcatEmptySeq, Zenon
  <2> QED BY <2>2, <2>4, Zenon
<1>3. CASE n > 0 /\ n # Len(buf)
  <2>1. /\ Written(o, buf, n) = o \o SubSeq(buf, 1, n)
        /\ Left(buf, n) = SubSeq(buf, n + 1, Len(buf))
    BY <1>3 DEF memcpy, Written, Left
  <2>2. (o \o SubSeq(buf, 1, n)) \o SubSeq(buf, n + 1, Len(buf)) = o \o buf
    BY <1>3, BytesMove
  <2> QED BY <2>1, <2>2, Zenon
<1>4. n = 0 \/ (n > 0 /\ n = Len(buf)) \/ (n > 0 /\ n # Len(buf))
  OBVIOUS
<1> QED BY <1>1, <1>2, <1>3, <1>4, Zenon

LEMMA DeleteRelays == delete_session => Relayed'
  BY DEF delete_session, Relayed, RelayIntact, CloneIntact

LEMMA DisconnectRelays ==
  ASSUME Relayed, NEW e \in Servers, disconnect(e), UNCHANGED got,
         \A f \in Ends : out'[f] = out[f]
  PROVE  Relayed'
<1>1. state' \subseteq state /\ UNCHANGED buffers
  BY DEF disconnect
<1> QED BY <1>1 DEF Relayed, RelayIntact, CloneIntact, buffers

LEMMA ClientReadRelays ==
  ASSUME TypedSession, TypedWire, Book, Orderly, Relayed, client_read
  PROVE  Relayed'
<1> DEFINE n == ReadResult("client", Room(client_read_buffer))
           k == got["client"]
<1>1. CASE n <= 0
  BY <1>1, DeleteRelays DEF client_read
<1>2. CASE ~(n <= 0)
  <2>1. n \in 1..Room(client_read_buffer) /\ "client" \in fds
    BY <1>2, ReadBound, RoomType, ReadType
  <2>2. client_read_data(n) /\ UNCHANGED out
    BY <1>2 DEF client_read
  <2>3. n \in Nat /\ k \in Nat /\ state # {}
    BY <2>1, LimitAssumption DEF Room, TypedSession, TypedWire, Book, Orderly, FdHasFlag
  <2> HIDE DEF n
  <2>4. Chunk("client", n) = Following(k, n)
    BY DEF Chunk, Following
  <2>5. got'["client"] = k + n /\ got'["member"] = got["member"]
    BY <2>2 DEF client_read_data, TypedWire
  <2>6. out["member"] \o client_read_buffer' = Stream(got'["client"])
    <3>1. client_read_buffer' = client_read_buffer \o Following(k, n)
      BY <2>2, <2>4 DEF client_read_data
    <3>2. out["member"] \in Seq(Nat) /\ client_read_buffer \in Seq(Nat)
      BY DEF TypedWire, TypedSession
    <3>3. out["member"] \o client_read_buffer = Stream(k)
      BY <2>3 DEF Relayed, RelayIntact
    <3>4. out["member"] \o (client_read_buffer \o Following(k, n)) = Stream(k + n)
      BY <2>3, <3>2, <3>3, StreamGrows, Zenon
    <3> QED BY <2>5, <3>1, <3>4, Zenon
  <2>7. RelayIntact'
    BY <2>2, <2>3, <2>5, <2>6 DEF Relayed, RelayIntact, client_read_data
  <2>8. ASSUME "CLO_CONNECTED" \in state'
        PROVE  Mirrored(out["clone"] \o clone_write_buffer', got'["client"])
    <3>1. /\ "CLO_CONNECTED" \in state
          /\ clone_write_buffer' = clone_write_buffer \o strncpy(Chunk("client", n))
      BY <2>2, <2>8 DEF client_read_data, Connected
    <3>2. clone_write_buffer' = clone_write_buffer \o strncpy(Following(k, n))
      BY <2>4, <3>1, Zenon
    <3>3. out["clone"] \in Seq(Nat) /\ clone_write_buffer \in Seq(Nat)
      BY DEF TypedWire, TypedSession
    <3>4. Mirrored(out["clone"] \o clone_write_buffer, k)
      BY <2>8, <3>1 DEF Relayed, CloneIntact
    <3>5. Mirrored(out["clone"] \o (clone_write_buffer \o strncpy(Following(k, n))), k + n)
      BY <2>3, <3>3, <3>4, MirrorGrows, Zenon
    <3> QED BY <2>5, <3>2, <3>5, Zenon
  <2> QED BY <2>2, <2>7, <2>8 DEF Relayed, CloneIntact
<1> QED BY <1>1, <1>2

LEMMA MemberReadRelays ==
  ASSUME TypedSession, TypedWire, Book, Orderly, Relayed, member_read
  PROVE  Relayed'
<1> DEFINE n == ReadResult("member", Room(member_read_buffer))
           k == got["member"]
<1>1. CASE delete_session
  BY <1>1, DeleteRelays
<1>2. CASE disconnect("member") /\ UNCHANGED got
  BY <1>2, DisconnectRelays DEF member_read
<1>3. CASE n > 0 /\ member_read_data(n)
  <2>1. n \in 1..Room(member_read_buffer) /\ "member" \in fds
    BY <1>3, ReadBound, RoomType
  <2>2. n \in Nat /\ k \in Nat /\ state # {}
    BY <2>1, LimitAssumption DEF Room, TypedSession, TypedWire, Book, Orderly, FdHasFlag
  <2> HIDE DEF n
  <2>3. got'["member"] = k + n /\ got'["client"] = got["client"]
    BY <1>3 DEF member_read_data, TypedWire
  <2>4. member_read_buffer' = member_read_buffer \o Following(k, n)
    BY <1>3 DEF member_read_data, Chunk, Following
  <2>5. out["client"] \in Seq(Nat) /\ member_read_buffer \in Seq(Nat)
    BY DEF TypedWire, TypedSession
  <2>6. out["client"] \o member_read_buffer = Stream(k)
    BY <2>2 DEF Relayed, RelayIntact
  <2>7. out["client"] \o member_read_buffer' = Stream(got'["member"])
    <3>1. out["client"] \o (member_read_buffer \o Following(k, n)) = Stream(k + n)
      BY <2>2, <2>5, <2>6, StreamGrows, Zenon
    <3> QED BY <2>3, <2>4, <3>1, Zenon
  <2>8. "CLO_CONNECTED" \in state' => "CLO_CONNECTED" \in state
    BY <1>3 DEF member_read_data
  <2> QED BY <1>3, <2>2, <2>3, <2>7, <2>8 DEF Relayed, RelayIntact, CloneIntact, member_read_data, member_read
<1> QED BY <1>1, <1>2, <1>3 DEF member_read

LEMMA CloneReadRelays ==
  ASSUME TypedSession, TypedWire, Book, Orderly, Relayed, clone_read
  PROVE  Relayed'
<1> DEFINE n == ReadResult("clone", MESSAGE_SIZE_LIMIT)
<1>1. CASE disconnect("clone") /\ UNCHANGED got
  BY <1>1, DisconnectRelays DEF clone_read
<1>2. CASE got' = [got EXCEPT !["clone"] = @ + n] /\ UNCHANGED <<state, buffers>>
  <2>1. got'["client"] = got["client"] /\ got'["member"] = got["member"]
    BY <1>2 DEF TypedWire
  <2> QED BY <1>2, <2>1 DEF Relayed, RelayIntact, CloneIntact, clone_read, buffers
<1> QED BY <1>1, <1>2 DEF clone_read

LEMMA ClientWriteRelays ==
  ASSUME TypedSession, TypedWire, Book, Orderly, Relayed, client_write
  PROVE  Relayed'
<1>1. PICK n \in WriteResults("client", member_read_buffer) :
        /\ \/ delete_session
           \/ ~(n < 0) /\ client_write_data(n, "up")
        /\ out' = IF n > 0
                  THEN [out EXCEPT !["client"] = @ \o SubSeq(member_read_buffer, 1, n)]
                  ELSE out
  BY DEF client_write, Orderly
<1>2. UNCHANGED got
  BY DEF client_write
<1>3. CASE delete_session
  BY <1>3, DeleteRelays
<1>4. CASE ~(n < 0) /\ client_write_data(n, "up")
  <2>1. n \in Nat /\ (n = Len(member_read_buffer) \/ n \in 1..Len(member_read_buffer)) /\ "client" \in fds
    BY <1>4, WriteBound DEF TypedSession
  <2>2. out["client"] \in Seq(Nat) /\ member_read_buffer \in Seq(Nat)
    BY DEF TypedSession, TypedWire
  <2>3. member_read_buffer' = Left(member_read_buffer, n)
    BY <1>4 DEF client_write_data, Left
  <2>4. /\ out'["client"] = Written(out["client"], member_read_buffer, n)
        /\ \A e \in Ends \ {"client"} : out'[e] = out[e]
    BY <1>1 DEF TypedWire, Written
  <2>5. out'["client"] \o member_read_buffer' = out["client"] \o member_read_buffer
    BY <2>1, <2>2, <2>3, <2>4, WriteMoves, Zenon
  <2>6. state # {} /\ ("CLO_CONNECTED" \in state' => "CLO_CONNECTED" \in state)
    BY <1>4, <2>1 DEF Book, Orderly, FdHasFlag, client_write_data
  <2> QED BY <1>2, <1>4, <2>4, <2>5, <2>6 DEF Relayed, RelayIntact, CloneIntact, client_write_data
<1> QED BY <1>1, <1>3, <1>4

LEMMA MemberWriteRelays ==
  ASSUME TypedSession, TypedWire, Book, Orderly, Relayed, member_write
  PROVE  Relayed'
<1>1. PICK n \in WriteResults("member", client_read_buffer) :
        /\ \/ n < 0 /\ disconnect("member")
           \/ ~(n < 0) /\ member_write_data(n, "up")
        /\ out' = IF n > 0
                  THEN [out EXCEPT !["member"] = @ \o SubSeq(client_read_buffer, 1, n)]
                  ELSE out
  BY DEF member_write, Orderly
<1>2. UNCHANGED got
  BY DEF member_write
<1>3. CASE n < 0
  BY <1>1, <1>2, <1>3, WriteBound, DisconnectRelays DEF TypedSession
<1>4. CASE ~(n < 0) /\ member_write_data(n, "up")
  <2>1. n \in Nat /\ (n = Len(client_read_buffer) \/ n \in 1..Len(client_read_buffer)) /\ "member" \in fds
    BY <1>4, WriteBound DEF TypedSession
  <2>2. out["member"] \in Seq(Nat) /\ client_read_buffer \in Seq(Nat)
    BY DEF TypedSession, TypedWire
  <2>3. client_read_buffer' = Left(client_read_buffer, n)
    BY <1>4 DEF member_write_data, Left
  <2>4. /\ out'["member"] = Written(out["member"], client_read_buffer, n)
        /\ \A e \in Ends \ {"member"} : out'[e] = out[e]
    BY <1>1 DEF TypedWire, Written
  <2>5. out'["member"] \o client_read_buffer' = out["member"] \o client_read_buffer
    BY <2>1, <2>2, <2>3, <2>4, WriteMoves, Zenon
  <2>6. state # {} /\ ("CLO_CONNECTED" \in state' => "CLO_CONNECTED" \in state)
    BY <1>4, <2>1 DEF Book, Orderly, FdHasFlag, member_write_data
  <2> QED BY <1>2, <1>4, <2>4, <2>5, <2>6 DEF Relayed, RelayIntact, CloneIntact, member_write_data
<1> QED BY <1>1, <1>3, <1>4

LEMMA CloneWriteRelays ==
  ASSUME TypedSession, TypedWire, Book, Orderly, Relayed, clone_write
  PROVE  Relayed'
<1>1. PICK n \in WriteResults("clone", clone_write_buffer) :
        /\ \/ n < 0 /\ disconnect("clone")
           \/ ~(n < 0) /\ clone_write_data(n, "up")
        /\ out' = IF n > 0
                  THEN [out EXCEPT !["clone"] = @ \o SubSeq(clone_write_buffer, 1, n)]
                  ELSE out
  BY DEF clone_write, Orderly
<1>2. UNCHANGED got
  BY DEF clone_write
<1>3. CASE n < 0
  BY <1>1, <1>2, <1>3, WriteBound, DisconnectRelays DEF TypedSession
<1>4. CASE ~(n < 0) /\ clone_write_data(n, "up")
  <2>1. n \in Nat /\ (n = Len(clone_write_buffer) \/ n \in 1..Len(clone_write_buffer)) /\ "clone" \in fds
    BY <1>4, WriteBound DEF TypedSession
  <2>2. out["clone"] \in Seq(Nat) /\ clone_write_buffer \in Seq(Nat)
    BY DEF TypedSession, TypedWire
  <2>3. clone_write_buffer' = Left(clone_write_buffer, n)
    BY <1>4 DEF clone_write_data, Left
  <2>4. /\ out'["clone"] = Written(out["clone"], clone_write_buffer, n)
        /\ \A e \in Ends \ {"clone"} : out'[e] = out[e]
    BY <1>1 DEF TypedWire, Written
  <2>5. out'["clone"] \o clone_write_buffer' = out["clone"] \o clone_write_buffer
    BY <2>1, <2>2, <2>3, <2>4, WriteMoves, Zenon
  <2>6. state # {} /\ ("CLO_CONNECTED" \in state' => "CLO_CONNECTED" \in state)
    BY <1>4, <2>1 DEF Book, Orderly, FdHasFlag, clone_write_data
  <2> QED BY <1>2, <1>4, <2>4, <2>5, <2>6 DEF Relayed, RelayIntact, CloneIntact, clone_write_data
<1> QED BY <1>1, <1>3, <1>4

LEMMA AcceptRelays ==
  ASSUME TypedSession, Book, Orderly, AcceptSession
  PROVE  Relayed'
<1>1. PICK m \in {"none"} \cup MemberOutcomes : \E x \in CloneOutcomes(m) :
        Abandoned(m, x) \/ Established(m, x)
  BY DEF AcceptSession
<1>2. PICK x \in CloneOutcomes(m) : Abandoned(m, x) \/ Established(m, x)
  BY <1>1
<1>3. CASE Abandoned(m, x)
  BY <1>3 DEF Abandoned, Relayed, RelayIntact, CloneIntact
<1>4. CASE Established(m, x)
  <2>1. client_read_buffer' = <<>> /\ member_read_buffer' = <<>> /\ clone_write_buffer' = <<>>
    BY <1>4 DEF Established, buffers, AcceptSession, Book, Orderly, UnusedIsEmpty
  <2>2. \A e \in Ends : out'[e] = <<>> /\ got'[e] = 0
    BY DEF AcceptSession
  <2>3. <<>> \o <<>> = Stream(0) /\ Mirrored(<<>> \o <<>>, 0)
    BY DEF Stream, Mirrored
  <2> QED BY <2>1, <2>2, <2>3 DEF Relayed, RelayIntact, CloneIntact
<1> QED BY <1>2, <1>3, <1>4

-----------------------------------------------------------------------------
(* The inductive invariant and what follows from it.                         *)

IInv == TypedSession /\ TypedLoop /\ TypedWire /\ Book /\ (Orderly => Relayed)

\* The session and the streams are left alone.
LEMMA Untouched ==
  ASSUME TypedSession, Book, Orderly => Relayed,
         UNCHANGED <<state, fds, buffers, interest, c, queued, out, got>>,
         conn' \in [Ends -> Connections]
  PROVE  TypedSession' /\ Book' /\ (Orderly => Relayed')
<1>1. TypedSession'
  BY DEF TypedSession, buffers
<1>2. Book'
  BY DEF Book, FlagHasFd, FdHasFlag, Counted, UnusedIsEmpty, buffers
<1>3. Orderly => Relayed'
  BY DEF Relayed, RelayIntact, CloneIntact, buffers
<1> QED BY <1>1, <1>2, <1>3

\* Taking an event off the batch keeps the loop's types.
LEMMA TakenTyped ==
  ASSUME TypedLoop, NEW e \in Watched
  PROVE  /\ Taken(e) /\ UNCHANGED busy => TypedLoop'
         /\ WriteEvent(e) => TypedLoop'
         /\ e \in Ends /\ ReadEvent(e) => TypedLoop'
<1>1. Taken(e) => batch' \in [Watched -> SUBSET Events]
  BY DEF TypedLoop, Taken
<1>2. e \in Ends /\ ReadEvent(e) => TypedLoop'
  BY DEF TypedLoop, ReadEvent
<1>3. WriteEvent(e) => TypedLoop'
  BY <1>1 DEF TypedLoop, WriteEvent
<1> QED BY <1>1, <1>2, <1>3 DEF TypedLoop

LEMMA InitInv == Init => IInv
<1> SUFFICES ASSUME Init PROVE IInv
  OBVIOUS
<1>1. TypedSession
  BY LimitAssumption DEF Init, TypedSession, Connections
<1>2. TypedLoop /\ TypedWire
  BY DEF Init, TypedLoop, TypedWire
<1>3. Book
  BY DEF Init, Book, FlagHasFd, FdHasFlag, Counted, UnusedIsEmpty
<1>4. Relayed
  BY DEF Init, Relayed, RelayIntact, CloneIntact
<1> QED BY <1>1, <1>2, <1>3, <1>4 DEF IInv

LEMMA TakenInv ==
  ASSUME IInv, NEW e \in Ends, Taken(e), UNCHANGED busy
  PROVE  TypedLoop'
  BY TakenTyped DEF IInv, Watched

LEMMA EventInv ==
  ASSUME IInv, \E e \in Ends : ReadEvent(e) \/ WriteEvent(e)
  PROVE  TypedLoop'
<1>1. PICK e \in Ends : ReadEvent(e) \/ WriteEvent(e)
  OBVIOUS
<1>2. TypedLoop /\ e \in Watched
  BY DEF IInv, Watched
<1>3. CASE ReadEvent(e)
  BY <1>2, <1>3, TakenTyped
<1>4. CASE WriteEvent(e)
  BY <1>2, <1>4, TakenTyped
<1> QED BY <1>1, <1>3, <1>4

LEMMA HandleInv == IInv /\ Handle => IInv'
<1> SUFFICES ASSUME IInv, Handle PROVE IInv'
  OBVIOUS
<1>1. CASE Accept
  <2>1. TypedLoop'
    BY <1>1, TakenTyped DEF Accept, IInv, Watched
  <2>2. CASE AcceptSession
    BY <2>1, <2>2, AcceptTyped, AcceptRelays DEF IInv
  <2>3. CASE RejectClient
    BY <2>1, <2>3, Untouched DEF RejectClient, IInv, TypedSession, TypedWire, wire
  <2> QED BY <1>1, <2>2, <2>3 DEF Accept
<1>2. CASE ClientFailure
  BY <1>2, TakenInv, DeleteStep, DeleteRelays DEF ClientFailure, IInv, TypedWire, wire
<1>3. ASSUME NEW e \in Servers, ServerFailure(e) PROVE IInv'
  BY <1>3, TakenInv, DisconnectStep, DisconnectRelays DEF ServerFailure, IInv, TypedWire, wire
<1>4. CASE ClientRead
  <2>1. TypedLoop'
    <3>1. ReadEvent("client")
      BY <1>4 DEF ClientRead
    <3> QED BY <3>1, EventInv
  <2>2. TypedSession' /\ TypedWire' /\ Book' /\ (Orderly => Relayed')
    BY <1>4, ClientReadTyped, ClientReadRelays DEF ClientRead, IInv
  <2> QED BY <2>1, <2>2 DEF IInv
<1>5. CASE ClientWrite
  <2>1. TypedLoop'
    <3>1. WriteEvent("client")
      BY <1>5 DEF ClientWrite
    <3> QED BY <3>1, EventInv
  <2>2. TypedSession' /\ TypedWire' /\ Book' /\ (Orderly => Relayed')
    BY <1>5, ClientWriteTyped, ClientWriteRelays DEF ClientWrite, IInv
  <2> QED BY <2>1, <2>2 DEF IInv
<1>6. CASE MemberRead
  <2>1. TypedLoop'
    <3>1. ReadEvent("member")
      BY <1>6 DEF MemberRead
    <3> QED BY <3>1, EventInv
  <2>2. TypedSession' /\ TypedWire' /\ Book' /\ (Orderly => Relayed')
    BY <1>6, MemberReadTyped, MemberReadRelays DEF MemberRead, IInv
  <2> QED BY <2>1, <2>2 DEF IInv
<1>7. CASE MemberWrite
  <2>1. TypedLoop'
    <3>1. WriteEvent("member")
      BY <1>7 DEF MemberWrite
    <3> QED BY <3>1, EventInv
  <2>2. TypedSession' /\ TypedWire' /\ Book' /\ (Orderly => Relayed')
    BY <1>7, MemberWriteTyped, MemberWriteRelays DEF MemberWrite, IInv
  <2> QED BY <2>1, <2>2 DEF IInv
<1>8. CASE CloneRead
  <2>1. TypedLoop'
    <3>1. ReadEvent("clone")
      BY <1>8 DEF CloneRead
    <3> QED BY <3>1, EventInv
  <2>2. TypedSession' /\ TypedWire' /\ Book' /\ (Orderly => Relayed')
    BY <1>8, CloneReadTyped, CloneReadRelays DEF CloneRead, IInv
  <2> QED BY <2>1, <2>2 DEF IInv
<1>9. CASE CloneWrite
  <2>1. TypedLoop'
    <3>1. WriteEvent("clone")
      BY <1>9 DEF CloneWrite
    <3> QED BY <3>1, EventInv
  <2>2. TypedSession' /\ TypedWire' /\ Book' /\ (Orderly => Relayed')
    BY <1>9, CloneWriteTyped, CloneWriteRelays DEF CloneWrite, IInv
  <2> QED BY <2>1, <2>2 DEF IInv
<1>10. ASSUME NEW e \in Ends, Unassociated(e) PROVE IInv'
  BY <1>10, TakenInv, Untouched DEF Unassociated, IInv, TypedSession, TypedWire, wire
<1> QED BY <1>1, <1>2, <1>3, <1>4, <1>5, <1>6, <1>7, <1>8, <1>9, <1>10 DEF Handle

LEMMA PeersInv == IInv /\ Peers => IInv'
<1> SUFFICES ASSUME IInv, NEW e \in Ends,
                    Establish(e) \/ PeerSends(e) \/ PeerCloses(e) \/ Reset(e)
             PROVE  IInv'
  BY DEF Peers
<1>1. UNCHANGED master
  BY DEF Establish, PeerSends, PeerCloses, Reset
<1>2. conn' \in [Ends -> Connections] /\ sent' \in [Ends -> Nat]
  BY DEF Establish, PeerSends, PeerCloses, Reset, IInv, TypedSession, TypedWire, Connections
<1>3. TypedSession' /\ Book' /\ (Orderly => Relayed')
  BY <1>1, <1>2, Untouched DEF IInv, master
<1> QED BY <1>1, <1>2, <1>3 DEF IInv, master, loop, TypedLoop, TypedWire

LEMMA EpollWaitInv == IInv /\ EpollWait => IInv'
<1> SUFFICES ASSUME IInv, EpollWait PROVE IInv'
  OBVIOUS
<1>1. PICK client \in Pending("client"), member \in Pending("member"),
           clone \in Pending("clone"), listener \in {{}, {"IN"}} :
        batch' = [client |-> client, member |-> member, clone |-> clone,
                  listener |-> listener]
  BY DEF EpollWait
<1>2. \A e \in Ends : Pending(e) \subseteq SUBSET Events
  BY DEF Pending, IInv, TypedSession
<1>3. batch' \in [Watched -> SUBSET Events]
  BY <1>1, <1>2 DEF Watched, Events
<1>4. TypedLoop' /\ TypedWire'
  BY <1>3 DEF EpollWait, IInv, TypedLoop, TypedWire, wire
<1>5. conn' \in [Ends -> Connections]
  BY DEF EpollWait, IInv, TypedSession
<1> QED BY <1>4, <1>5, Untouched DEF EpollWait, IInv, wire

LEMMA Invariance == Spec => []IInv
<1>1. IInv /\ UNCHANGED vars => IInv'
  BY Untouched DEF vars, loop, wire, IInv, TypedSession, TypedLoop, TypedWire
<1>2. IInv /\ [Next]_vars => IInv'
  BY <1>1, HandleInv, PeersInv, EpollWaitInv DEF Next
<1> QED BY <1>2, InitInv, PTL DEF Spec

\* Every variable keeps its type.  No handler writes past the end of a buffer,
\* whatever the sizes, the timing and the failures.
THEOREM SessionTyped == Spec => []TypeOK
<1>1. IInv => TypeOK
  BY TypedParts DEF IInv
<1> QED BY <1>1, Invariance, PTL

\* As long as no epoll_ctl() fails, SERVER.c counts a session exactly while it
\* is connected to the server, over any number of lives that each begin with the
\* session unused.
THEOREM CountKept == ~AddMayFail /\ Spec => []ConnectionCount
<1>1. ASSUME ~AddMayFail PROVE Spec => []ConnectionCount
  <2>1. IInv => ConnectionCount
    BY <1>1 DEF IInv, Book, FdHasFlag, FlagHasFd, Counted, ConnectionCount
  <2> QED BY <2>1, Invariance, PTL
<1> QED BY <1>1

\* As long as no epoll_ctl() fails and memcpy() copies upwards, both streams are
\* relayed without a byte lost, repeated, reordered or altered, over any number of
\* lives that each begin with the session unused.
THEOREM RelayKept == Orderly /\ Spec => []RelayIntact
<1>1. ASSUME Orderly PROVE Spec => []RelayIntact
  <2>1. IInv => RelayIntact
    BY <1>1 DEF IInv, Relayed
  <2> QED BY <2>1, Invariance, PTL
<1> QED BY <1>1

\* Under the same conditions a clone is sent as many bytes as the client sent,
\* none lost, repeated or moved; they are the client's up to its first NUL byte
\* and the client's or zeros behind it.
THEOREM CloneKept == Orderly /\ Spec => []CloneIntact
<1>1. ASSUME Orderly PROVE Spec => []CloneIntact
  <2>1. IInv => CloneIntact
    BY <1>1 DEF IInv, Relayed
  <2> QED BY <2>1, Invariance, PTL
<1> QED BY <1>1
=============================================================================
