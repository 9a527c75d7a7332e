---------------------------- MODULE SessionWatch ----------------------------
(****************************************************************************)
(* Proofs about Session: what epoll watches the descriptors of a session    *)
(* for agrees with what is in its buffers, and no response is cut short in  *)
(* the session's first life, for buffers of any size.                       *)
(****************************************************************************)
EXTENDS SessionProof

USE DEF Ends, Servers

\* The flags of each end say what its buffers hold, and epoll was told.
ClientBooks ==
  "CLI_CONNECTED" \in state =>
    /\ interest["client"] = ClientGroup(state)
    /\ "CLI_READ_READY" \in state <=> Len(client_read_buffer) < MESSAGE_SIZE_LIMIT
    /\ "CLI_BUFF_FULL" \in state <=> Len(client_read_buffer) = MESSAGE_SIZE_LIMIT
    /\ "CLI_WRITE_READY" \in state <=> Len(member_read_buffer) # 0

\* A member whose buffer is full may have been turned on again by member_write(),
\* which leaves MEM_BUFF_FULL set.
MemberBooks ==
  "MEM_CONNECTED" \in state =>
    /\ interest["member"] = MemberGroup(state)
    /\ "MEM_READ_READY" \in state \/ "MEM_BUFF_FULL" \in state
    /\ Len(member_read_buffer) < MESSAGE_SIZE_LIMIT => "MEM_READ_READY" \in state
    /\ "MEM_WRITE_READY" \in state <=> Len(client_read_buffer) # 0

CloneBooks ==
  "CLO_CONNECTED" \in state =>
    /\ interest["clone"] = Group(TRUE, "CLO_WRITE_READY" \in state)
    /\ "CLO_WRITE_READY" \in state <=> Len(clone_write_buffer) # 0

Watching == ClientBooks /\ MemberBooks /\ CloneBooks

LEMMA EmptyLen == \A s \in Seq(Nat) : s = <<>> <=> Len(s) = 0
  OBVIOUS

LEMMA LenConcat == \A s, t \in Seq(Nat) : Len(s \o t) = Len(s) + Len(t)
  OBVIOUS

LEMMA WatchingImplies ==
  ASSUME TypedSession, Watching
  PROVE  ClientWatched /\ ServersWatched
<1>1. /\ client_read_buffer = <<>> <=> Len(client_read_buffer) = 0
      /\ member_read_buffer = <<>> <=> Len(member_read_buffer) = 0
      /\ clone_write_buffer = <<>> <=> Len(clone_write_buffer) = 0
  BY EmptyLen DEF TypedSession
<1>2. ClientWatched
  BY <1>1 DEF Watching, ClientBooks, ClientWatched, ClientGroup, Group
<1>3. ServersWatched
  BY <1>1 DEF Watching, MemberBooks, CloneBooks, ServersWatched, MemberGroup, Group
<1> QED BY <1>2, <1>3

LEMMA DeleteWatches == delete_session => Watching'
  BY DEF delete_session, Watching, ClientBooks, MemberBooks, CloneBooks

LEMMA DisconnectWatches ==
  ASSUME TypedSession, Watching, Book, NEW e \in Servers, disconnect(e)
  PROVE  Watching'
<1>1. CASE e \notin fds
  <2>1. UNCHANGED <<state, interest, client_read_buffer, member_read_buffer, clone_write_buffer>>
    BY <1>1 DEF disconnect, Unwatched, TypedSession, buffers
  <2> QED BY <2>1 DEF Watching, ClientBooks, MemberBooks, CloneBooks, ClientGroup, MemberGroup
<1>2. CASE e \in fds
  <2>1. /\ state' = state \ {Connected(e)}
        /\ UNCHANGED <<client_read_buffer, member_read_buffer, clone_write_buffer>>
        /\ \A f \in Ends \ {e} : interest'[f] = interest[f]
    BY <1>2 DEF disconnect, Unwatched, buffers
  <2>2. CASE e = "member"
    BY <2>1, <2>2 DEF Connected, Watching, ClientBooks, MemberBooks, CloneBooks, ClientGroup, Group
  <2>3. CASE e = "clone"
    BY <2>1, <2>3 DEF Connected, Watching, ClientBooks, MemberBooks, CloneBooks, ClientGroup,
                      MemberGroup, Group
  <2> QED BY <2>2, <2>3
<1> QED BY <1>1, <1>2

\* A connected end is in the epoll set, so that EPOLL_CTL_MOD reaches it.
LEMMA InTheSet ==
  ASSUME Watching
  PROVE  /\ "CLI_CONNECTED" \in state => interest["client"] # {}
         /\ "MEM_CONNECTED" \in state => interest["member"] # {}
         /\ "CLO_CONNECTED" \in state => interest["clone"] # {}
  BY DEF Watching, ClientBooks, MemberBooks, CloneBooks, ClientGroup, MemberGroup, Group

LEMMA ClientReadWatches ==
  ASSUME TypedSession, TypedWire, Watching, Book, NEW n \in 1..Room(client_read_buffer),
         client_read_data(n)
  PROVE  Watching'
<1>1. n \in Nat \ {0} /\ Room(client_read_buffer) = MESSAGE_SIZE_LIMIT - Len(client_read_buffer)
  BY RoomType DEF Room
<1>2. Chunk("client", n) \in Seq(Nat) /\ Len(Chunk("client", n)) = n
  BY <1>1, ChunkType
<1>3. /\ Len(client_read_buffer') = Len(client_read_buffer) + n
      /\ Len(client_read_buffer) < MESSAGE_SIZE_LIMIT
      /\ UNCHANGED member_read_buffer
  <2>1. client_read_buffer' = client_read_buffer \o Chunk("client", n) /\ UNCHANGED member_read_buffer
    BY DEF client_read_data
  <2>2. client_read_buffer \in Seq(Nat) /\ Len(client_read_buffer) \in Nat
    BY DEF TypedSession
  <2>3. Len(client_read_buffer') = Len(client_read_buffer) + n
    BY <1>2, <2>1, <2>2, LenConcat
  <2> QED BY <1>1, <2>1, <2>2, <2>3, LimitAssumption
<1>4. /\ "CLI_CONNECTED" \in state' <=> "CLI_CONNECTED" \in state
      /\ "MEM_CONNECTED" \in state' <=> "MEM_CONNECTED" \in state
      /\ "MEM_WRITE_READY" \in state' /\ "CLO_WRITE_READY" \in state'
      /\ \A f \in {"CLI_WRITE_READY", "MEM_READ_READY", "MEM_BUFF_FULL"} : f \in state' <=> f \in state
      /\ "CLI_READ_READY" \in state' <=>
           "CLI_READ_READY" \in state /\ Len(client_read_buffer) + n # MESSAGE_SIZE_LIMIT
      /\ "CLI_BUFF_FULL" \in state' <=>
           "CLI_BUFF_FULL" \in state \/ Len(client_read_buffer) + n = MESSAGE_SIZE_LIMIT
  BY DEF client_read_data, Connected
<1>5. /\ interest'["client"] = Mod(interest["client"], ClientGroup(state'))
      /\ interest'["member"] = Mod(interest["member"], Group("MEM_READ_READY" \in state', TRUE))
      /\ "CLO_CONNECTED" \in state' => interest'["clone"] = Mod(interest["clone"], Group(TRUE, TRUE))
  BY DEF client_read_data
<1>6. ClientBooks'
  <2>1. "CLI_CONNECTED" \in state => interest'["client"] = ClientGroup(state')
    BY <1>5, InTheSet DEF Mod
  <2> QED BY <1>1, <1>3, <1>4, <2>1, LimitAssumption DEF Watching, ClientBooks, TypedSession, ClientGroup
<1>7. MemberBooks'
  <2>1. "MEM_CONNECTED" \in state => interest'["member"] = Group("MEM_READ_READY" \in state', TRUE)
    BY <1>5, InTheSet DEF Mod
  <2>2. Len(client_read_buffer') # 0
    BY <1>1, <1>3 DEF TypedSession
  <2> QED BY <1>3, <1>4, <2>1, <2>2 DEF Watching, MemberBooks, MemberGroup, Group
<1>8. CloneBooks'
  <2>1. SUFFICES ASSUME "CLO_CONNECTED" \in state' PROVE CloneBooks'
    BY DEF CloneBooks
  <2>2. "CLO_CONNECTED" \in state
    BY <2>1 DEF client_read_data, Connected
  <2>3. clone_write_buffer' = clone_write_buffer \o strncpy(Chunk("client", n))
    BY <2>1, <2>2 DEF client_read_data, Connected
  <2>4. Len(clone_write_buffer') = Len(clone_write_buffer) + n
    <3>1. strncpy(Chunk("client", n)) \in Seq(Nat) /\ Len(strncpy(Chunk("client", n))) = n
      BY <1>2, StrncpyType
    <3> QED BY <2>3, <3>1, LenConcat DEF TypedSession
  <2>5. Len(clone_write_buffer') # 0
    BY <1>1, <2>4 DEF TypedSession
  <2>6. interest'["clone"] = Group(TRUE, TRUE)
    BY <1>5, <2>1, <2>2, InTheSet DEF Mod
  <2> QED BY <1>4, <2>5, <2>6 DEF CloneBooks
<1> QED BY <1>6, <1>7, <1>8 DEF Watching
LEMMA MemberReadWatches ==
  ASSUME TypedSession, TypedWire, Watching, Book, NEW n \in 1..Room(member_read_buffer),
         member_read_data(n)
  PROVE  Watching'
<1>1. n \in Nat \ {0} /\ Room(member_read_buffer) = MESSAGE_SIZE_LIMIT - Len(member_read_buffer)
  BY RoomType DEF Room
<1>2. Chunk("member", n) \in Seq(Nat) /\ Len(Chunk("member", n)) = n
  BY <1>1, ChunkType
<1>3. /\ Len(member_read_buffer') = Len(member_read_buffer) + n
      /\ Len(member_read_buffer) < MESSAGE_SIZE_LIMIT
      /\ UNCHANGED <<client_read_buffer, clone_write_buffer>>
  <2>1. /\ member_read_buffer' = member_read_buffer \o Chunk("member", n)
        /\ UNCHANGED <<client_read_buffer, clone_write_buffer>>
    BY DEF member_read_data
  <2>2. member_read_buffer \in Seq(Nat) /\ Len(member_read_buffer) \in Nat
    BY DEF TypedSession
  <2>3. Len(member_read_buffer') = Len(member_read_buffer) + n
    BY <1>2, <2>1, <2>2, LenConcat
  <2> QED BY <1>1, <2>1, <2>2, <2>3, LimitAssumption
<1>4. /\ \A f \in {"CLI_CONNECTED", "MEM_CONNECTED", "CLO_CONNECTED", "CLI_READ_READY",
                   "CLI_BUFF_FULL", "MEM_WRITE_READY", "CLO_WRITE_READY"} :
           f \in state' <=> f \in state
      /\ "CLI_WRITE_READY" \in state'
      /\ "MEM_READ_READY" \in state' <=>
           "MEM_READ_READY" \in state /\ Len(member_read_buffer) + n # MESSAGE_SIZE_LIMIT
      /\ "MEM_BUFF_FULL" \in state' <=>
           "MEM_BUFF_FULL" \in state \/ Len(member_read_buffer) + n = MESSAGE_SIZE_LIMIT
  BY DEF member_read_data
<1>5. /\ interest'["client"] = Mod(interest["client"], Group("CLI_READ_READY" \in state', TRUE))
      /\ interest'["member"] = Mod(interest["member"], MemberGroup(state'))
      /\ interest'["clone"] = interest["clone"]
  BY DEF member_read_data, TypedSession
<1>6. ClientBooks'
  <2>1. "CLI_CONNECTED" \in state => interest'["client"] = Group("CLI_READ_READY" \in state', TRUE)
    BY <1>5, InTheSet DEF Mod
  <2>2. Len(member_read_buffer') # 0
    BY <1>1, <1>3 DEF TypedSession
  <2> QED BY <1>3, <1>4, <2>1, <2>2 DEF Watching, ClientBooks, ClientGroup, Group
<1>7. MemberBooks'
  <2>1. "MEM_CONNECTED" \in state => interest'["member"] = MemberGroup(state')
    BY <1>5, InTheSet DEF Mod
  <2> QED BY <1>1, <1>3, <1>4, <2>1, LimitAssumption DEF Watching, MemberBooks, TypedSession
<1>8. CloneBooks'
  BY <1>3, <1>4, <1>5 DEF Watching, CloneBooks, Group
<1> QED BY <1>6, <1>7, <1>8 DEF Watching

\* What a write of n bytes leaves in a buffer.
LEMMA LeftLen ==
  ASSUME NEW buf \in Seq(Nat), NEW e \in Ends, NEW n \in WriteResults(e, buf), n >= 0, NEW order,
         NEW rest, rest = IF n = Len(buf) THEN <<>> ELSE memcpy(buf, n, order)
  PROVE  Len(rest) = Len(buf) - n /\ n \in 0..Len(buf) /\ (n = 0 => Len(buf) = 0)
<1>1. n \in 0..Len(buf) /\ (n # Len(buf) => n \in 1..Len(buf))
  BY WriteBound
<1>2. CASE n = Len(buf)
  BY <1>1, <1>2
<1>3. CASE n # Len(buf)
  BY <1>1, <1>3, MemcpyType
<1> QED BY <1>2, <1>3

LEMMA ClientWriteWatches ==
  ASSUME TypedSession, Watching, Book,
         NEW n \in WriteResults("client", member_read_buffer), n >= 0,
         NEW order, client_write_data(n, order)
  PROVE  Watching'
<1>1. /\ Len(member_read_buffer') = Len(member_read_buffer) - n
      /\ n \in 0..Len(member_read_buffer) /\ (n = 0 => Len(member_read_buffer) = 0)
  BY LeftLen DEF client_write_data, TypedSession
<1>2. UNCHANGED <<client_read_buffer, clone_write_buffer>>
  BY DEF client_write_data
<1>3. /\ \A f \in {"CLI_CONNECTED", "MEM_CONNECTED", "CLO_CONNECTED", "CLI_READ_READY",
                   "CLI_BUFF_FULL", "MEM_WRITE_READY", "CLO_WRITE_READY"} :
           f \in state' <=> f \in state
      /\ "CLI_WRITE_READY" \in state' <=>
           "CLI_WRITE_READY" \in state /\ n # Len(member_read_buffer)
      /\ "MEM_READ_READY" \in state' <=> "MEM_READ_READY" \in state \/ "MEM_BUFF_FULL" \in state
  BY DEF client_write_data
<1>4. /\ interest'["client"] = Mod(interest["client"], ClientGroup(state'))
      /\ interest'["member"] = Mod(interest["member"], MemberGroup(state'))
      /\ interest'["clone"] = interest["clone"]
  BY DEF client_write_data, TypedSession
<1>5. ClientBooks'
  <2>1. "CLI_CONNECTED" \in state => interest'["client"] = ClientGroup(state')
    BY <1>4, InTheSet DEF Mod
  <2> QED BY <1>1, <1>2, <1>3, <2>1 DEF Watching, ClientBooks, TypedSession
<1>6. MemberBooks'
  <2>1. "MEM_CONNECTED" \in state => interest'["member"] = MemberGroup(state')
    BY <1>4, InTheSet DEF Mod
  <2> QED BY <1>2, <1>3, <2>1 DEF Watching, MemberBooks
<1>7. CloneBooks'
  BY <1>2, <1>3, <1>4 DEF Watching, CloneBooks, Group
<1> QED BY <1>5, <1>6, <1>7 DEF Watching

LEMMA MemberWriteWatches ==
  ASSUME TypedSession, Watching, Book,
         NEW n \in WriteResults("member", client_read_buffer), n >= 0,
         NEW order, member_write_data(n, order)
  PROVE  Watching'
<1>1. /\ Len(client_read_buffer') = Len(client_read_buffer) - n
      /\ n \in 0..Len(client_read_buffer) /\ (n = 0 => Len(client_read_buffer) = 0)
  BY LeftLen DEF member_write_data, TypedSession
<1>2. UNCHANGED <<member_read_buffer, clone_write_buffer>>
  BY DEF member_write_data
<1>3. /\ \A f \in {"CLI_CONNECTED", "MEM_CONNECTED", "CLO_CONNECTED", "CLI_WRITE_READY",
                   "CLO_WRITE_READY"} :
           f \in state' <=> f \in state
      /\ "MEM_READ_READY" \in state' /\ "CLI_BUFF_FULL" \notin state'
      /\ "MEM_WRITE_READY" \in state' <=>
           "MEM_WRITE_READY" \in state /\ n # Len(client_read_buffer)
      /\ "CLI_READ_READY" \in state' <=> "CLI_READ_READY" \in state \/ "CLI_BUFF_FULL" \in state
  BY DEF member_write_data
<1>4. /\ interest'["client"] = Mod(interest["client"], Group(TRUE, "CLI_WRITE_READY" \in state'))
      /\ interest'["member"] = Mod(interest["member"], MemberGroup(state'))
      /\ interest'["clone"] = interest["clone"]
  BY DEF member_write_data, TypedSession
<1>5. ClientBooks'
  <2>1. "CLI_CONNECTED" \in state =>
          interest'["client"] = Group(TRUE, "CLI_WRITE_READY" \in state')
    BY <1>4, InTheSet DEF Mod
  <2>2. Len(client_read_buffer') < MESSAGE_SIZE_LIMIT
    BY <1>1, LimitAssumption DEF TypedSession
  <2>3. "CLI_CONNECTED" \in state => "CLI_READ_READY" \in state'
    BY <1>3, LimitAssumption DEF Watching, ClientBooks, TypedSession
  <2> QED BY <1>2, <1>3, <2>1, <2>2, <2>3, LimitAssumption
          DEF Watching, ClientBooks, ClientGroup, Group
<1>6. MemberBooks'
  <2>1. "MEM_CONNECTED" \in state => interest'["member"] = MemberGroup(state')
    BY <1>4, InTheSet DEF Mod
  <2> QED BY <1>1, <1>3, <2>1 DEF Watching, MemberBooks, TypedSession
<1>7. CloneBooks'
  BY <1>2, <1>3, <1>4 DEF Watching, CloneBooks, Group
<1> QED BY <1>5, <1>6, <1>7 DEF Watching

LEMMA CloneWriteWatches ==
  ASSUME TypedSession, Watching, Book,
         NEW n \in WriteResults("clone", clone_write_buffer), n >= 0,
         NEW order, clone_write_data(n, order)
  PROVE  Watching'
<1>1. /\ Len(clone_write_buffer') = Len(clone_write_buffer) - n
      /\ n \in 0..Len(clone_write_buffer) /\ (n = 0 => Len(clone_write_buffer) = 0)
  BY LeftLen DEF clone_write_data, TypedSession
<1>2. UNCHANGED <<client_read_buffer, member_read_buffer>>
  BY DEF clone_write_data
<1>3. /\ \A f \in Flags \ {"CLO_READ_READY", "CLO_WRITE_READY"} : f \in state' <=> f \in state
      /\ "CLO_WRITE_READY" \in state' <=>
           "CLO_WRITE_READY" \in state /\ n # Len(clone_write_buffer)
  BY DEF clone_write_data
<1>4. /\ interest'["clone"] = Mod(interest["clone"], Group(TRUE, "CLO_WRITE_READY" \in state'))
      /\ interest'["client"] = interest["client"] /\ interest'["member"] = interest["member"]
  BY DEF clone_write_data, TypedSession
<1>5. ClientBooks'
  BY <1>2, <1>3, <1>4 DEF Watching, ClientBooks, ClientGroup, Group, Flags
<1>6. MemberBooks'
  BY <1>2, <1>3, <1>4 DEF Watching, MemberBooks, MemberGroup, Group, Flags
<1>7. CloneBooks'
  <2>1. "CLO_CONNECTED" \in state =>
          interest'["clone"] = Group(TRUE, "CLO_WRITE_READY" \in state')
    BY <1>4, InTheSet DEF Mod
  <2> QED BY <1>1, <1>3, <2>1 DEF Watching, CloneBooks, TypedSession, Flags, Group
<1> QED BY <1>5, <1>6, <1>7 DEF Watching

LEMMA AcceptWatches ==
  ASSUME TypedSession, Book, ~AddMayFail, AcceptSession
  PROVE  Watching'
<1>1. PICK m \in {"none"} \cup MemberOutcomes : \E x \in CloneOutcomes(m) :
        Abandoned(m, x) \/ Established(m, x)
  BY DEF AcceptSession
<1>2. PICK x \in CloneOutcomes(m) : Abandoned(m, x) \/ Established(m, x)
  BY <1>1
<1>3. CASE Abandoned(m, x)
  BY <1>3 DEF Abandoned, Watching, ClientBooks, MemberBooks, CloneBooks
<1>4. CASE Established(m, x)
  <2>1. /\ Len(client_read_buffer') = 0 /\ Len(member_read_buffer') = 0
        /\ Len(clone_write_buffer') = 0
    BY <1>4 DEF Established, buffers, AcceptSession, Book, UnusedIsEmpty
  <2>2. state' \subseteq {"CLI_CONNECTED", "CLI_READ_READY", "MEM_CONNECTED", "MEM_READ_READY",
                          "CLO_CONNECTED", "CLO_READ_READY"}
    BY <1>4 DEF Established, FlagsAfter, AcceptSession
  <2>3. /\ {"CLI_CONNECTED", "CLI_READ_READY"} \subseteq state'
        /\ interest'["client"] = Group(TRUE, FALSE)
    BY <1>4 DEF Established, FlagsAfter
  <2>4. "MEM_CONNECTED" \in state' =>
          "MEM_READ_READY" \in state' /\ interest'["member"] = Group(TRUE, FALSE)
    BY <1>4 DEF Established, FlagsAfter, AcceptSession
  <2>5. "CLO_CONNECTED" \in state' => interest'["clone"] = Group(TRUE, FALSE)
    BY <1>4 DEF Established, FlagsAfter, AcceptSession
  <2>6. ClientBooks'
    BY <2>1, <2>2, <2>3, LimitAssumption DEF ClientBooks, ClientGroup, Group
  <2>7. MemberBooks'
    BY <2>1, <2>2, <2>4 DEF MemberBooks, MemberGroup, Group
  <2>8. CloneBooks'
    BY <2>1, <2>2, <2>5 DEF CloneBooks, Group
  <2> QED BY <2>6, <2>7, <2>8 DEF Watching
<1> QED BY <1>2, <1>3, <1>4

-----------------------------------------------------------------------------
LEMMA IdleWatches ==
  ASSUME Watching, UNCHANGED <<state, interest, buffers>>
  PROVE  Watching'
  BY DEF Watching, ClientBooks, MemberBooks, CloneBooks, ClientGroup, MemberGroup, buffers

LEMMA ReadsWatch ==
  ASSUME IInv, Watching, client_read \/ member_read \/ clone_read
  PROVE  Watching'
<1>1. TypedSession /\ TypedWire /\ Book
  BY DEF IInv
<1>2. CASE client_read
  <2> DEFINE n == ReadResult("client", Room(client_read_buffer))
  <2>1. CASE n <= 0
    BY <1>2, <2>1, DeleteWatches DEF client_read
  <2>2. CASE ~(n <= 0)
    <3>1. n \in 1..Room(client_read_buffer)
      BY <1>1, <2>2, ReadBound, RoomType, ReadType
    <3>2. client_read_data(n)
      BY <1>2, <2>2 DEF client_read
    <3> HIDE DEF n
    <3> QED BY <1>1, <3>1, <3>2, ClientReadWatches
  <2> QED BY <2>1, <2>2
<1>3. CASE member_read
  <2> DEFINE n == ReadResult("member", Room(member_read_buffer))
  <2>1. CASE delete_session
    BY <2>1, DeleteWatches
  <2>2. CASE disconnect("member")
    BY <1>1, <2>2, DisconnectWatches
  <2>3. CASE n > 0 /\ member_read_data(n)
    <3>1. n \in 1..Room(member_read_buffer)
      BY <1>1, <2>3, ReadBound, RoomType
    <3> HIDE DEF n
    <3> QED BY <1>1, <2>3, <3>1, MemberReadWatches
  <2> QED BY <1>3, <2>1, <2>2, <2>3 DEF member_read
<1>4. CASE clone_read
  BY <1>1, <1>4, DisconnectWatches, IdleWatches DEF clone_read
<1> QED BY <1>2, <1>3, <1>4

LEMMA WritesWatch ==
  ASSUME IInv, Watching, client_write \/ member_write \/ clone_write
  PROVE  Watching'
<1>1. TypedSession /\ Book
  BY DEF IInv
<1>2. CASE client_write
  <2>1. PICK n \in WriteResults("client", member_read_buffer), order \in CopyOrder :
          delete_session \/ (~(n < 0) /\ client_write_data(n, order))
    BY <1>2 DEF client_write
  <2>2. n \in Int
    BY <1>1, WriteBound DEF TypedSession
  <2> QED BY <1>1, <2>1, <2>2, DeleteWatches, ClientWriteWatches
<1>3. CASE member_write
  <2>1. PICK n \in WriteResults("member", client_read_buffer), order \in CopyOrder :
          disconnect("member") \/ (~(n < 0) /\ member_write_data(n, order))
    BY <1>3 DEF member_write
  <2>2. n \in Int
    BY <1>1, WriteBound DEF TypedSession
  <2> QED BY <1>1, <2>1, <2>2, DisconnectWatches, MemberWriteWatches
<1>4. CASE clone_write
  <2>1. PICK n \in WriteResults("clone", clone_write_buffer), order \in CopyOrder :
          disconnect("clone") \/ (~(n < 0) /\ clone_write_data(n, order))
    BY <1>4 DEF clone_write
  <2>2. n \in Int
    BY <1>1, WriteBound DEF TypedSession
  <2> QED BY <1>1, <2>1, <2>2, DisconnectWatches, CloneWriteWatches
<1> QED BY <1>2, <1>3, <1>4

LEMMA StepWatches == ~AddMayFail /\ IInv /\ Watching /\ [Next]_vars => Watching'
<1> SUFFICES ASSUME ~AddMayFail, IInv, Watching, [Next]_vars PROVE Watching'
  OBVIOUS
<1>1. TypedSession /\ Book
  BY DEF IInv
<1>2. CASE Accept
  BY <1>1, <1>2, AcceptWatches, IdleWatches DEF Accept, RejectClient
<1>3. CASE ClientFailure
  BY <1>3, DeleteWatches DEF ClientFailure
<1>4. ASSUME NEW e \in Servers, ServerFailure(e) PROVE Watching'
  BY <1>1, <1>4, DisconnectWatches DEF ServerFailure
<1>5. CASE ClientRead \/ MemberRead \/ CloneRead
  BY <1>5, ReadsWatch DEF ClientRead, MemberRead, CloneRead
<1>6. CASE ClientWrite \/ MemberWrite \/ CloneWrite
  BY <1>6, WritesWatch DEF ClientWrite, MemberWrite, CloneWrite
<1>7. ASSUME NEW e \in Ends, Unassociated(e) PROVE Watching'
  BY <1>7, IdleWatches DEF Unassociated
<1>8. CASE EpollWait
  BY <1>8, IdleWatches DEF EpollWait
<1>9. CASE Peers
  BY <1>9, IdleWatches DEF Peers, Establish, PeerSends, PeerCloses, Reset, master
<1>10. CASE UNCHANGED vars
  BY <1>10, IdleWatches DEF vars
<1> QED BY <1>2, <1>3, <1>4, <1>5, <1>6, <1>7, <1>8, <1>9, <1>10 DEF Next, Handle

LEMMA AlwaysWatching == ~AddMayFail /\ Spec => [](IInv /\ Watching)
<1>1. ASSUME ~AddMayFail PROVE Spec => [](IInv /\ Watching)
  <2>1. Init => Watching
    BY DEF Init, Watching, ClientBooks, MemberBooks, CloneBooks
  <2>2. IInv /\ Watching /\ [Next]_vars => Watching'
    BY <1>1, StepWatches
  <2> QED BY <2>1, <2>2, Invariance, PTL DEF Spec
<1> QED BY <1>1

\* As long as no epoll_ctl() fails, a connected client is watched for input
\* exactly while there is room for it and for output exactly while there is
\* something to send it: it is never forgotten and never spun on.
THEOREM ClientKeptWatched == ~AddMayFail /\ Spec => []ClientWatched
<1>1. IInv /\ Watching => ClientWatched
  BY WatchingImplies DEF IInv
<1> QED BY <1>1, AlwaysWatching, PTL

\* The same for a connected member and a connected clone, except that a member
\* may be watched for input while its buffer is full.
THEOREM ServersKeptWatched == ~AddMayFail /\ Spec => []ServersWatched
<1>1. IInv /\ Watching => ServersWatched
  BY WatchingImplies DEF IInv
<1> QED BY <1>1, AlwaysWatching, PTL

-----------------------------------------------------------------------------
(* Why a session ends.                                                       *)

\* Before the session is handed out for the first time nothing is known of it.
Unborn ==
  /\ fds = {} /\ state = {}
  /\ \A e \in Ends : interest[e] = {} /\ batch[e] = {} /\ conn[e] = "none"

\* In its first life the events still to be handled are about the connections
\* the session has now, and still true of them unless these were closed.
Current ==
  /\ life = 0 => Unborn
  /\ conn["client"] # "none" => "client" \in fds
  /\ Failed("client") => conn["client"] \in {"none", "reset"}
  /\ \A e \in Ends : "IN" \in batch[e] => Readable(e) \/ conn[e] \in {"none", "fin", "reset"}
  /\ "IN" \in batch["client"] => Len(client_read_buffer) < MESSAGE_SIZE_LIMIT

\* What a handler does to the connections: it may close them.
Closing ==
  /\ \A e \in Ends : conn'[e] \in {"none", conn[e]}
  /\ "client" \in fds /\ conn'["client"] # "none" => "client" \in fds'

LEMMA DeleteCloses == delete_session => Closing /\ Len(client_read_buffer') = 0
  BY DEF delete_session, CloseFds, Disconnectable, Closing

LEMMA DisconnectCloses ==
  ASSUME NEW e \in Servers, disconnect(e)
  PROVE  Closing /\ UNCHANGED client_read_buffer
  BY DEF disconnect, CloseFds, Closing, buffers

LEMMA LeavesOpen ==
  ASSUME TypedSession, UNCHANGED <<fds, conn>>
  PROVE  Closing
  BY DEF Closing, TypedSession

\* A read handler of e: the others' data is not touched.
LEMMA ReadsClose ==
  ASSUME TypedSession, NEW e \in Ends,
         \/ e = "client" /\ client_read
         \/ e = "member" /\ member_read
         \/ e = "clone" /\ clone_read
  PROVE  /\ Closing /\ UNCHANGED <<sent, life>>
         /\ \A f \in Ends \ {e} : got'[f] = got[f]
         /\ e # "client" => client_read_buffer' = client_read_buffer \/ Len(client_read_buffer') = 0
<1>1. CASE e = "client" /\ client_read
  <2> DEFINE n == ReadResult("client", Room(client_read_buffer))
  <2>1. CASE n <= 0
    BY <1>1, <2>1, DeleteCloses DEF client_read
  <2>2. CASE ~(n <= 0)
    <3>1. client_read_data(n) /\ UNCHANGED <<sent, life>>
      BY <1>1, <2>2 DEF client_read
    <3>2. got' = [got EXCEPT !["client"] = @ + n] /\ \A f \in Ends \ {"client"} : got'[f] = got[f]
      BY <3>1 DEF client_read_data
    <3>3. \E cut \in SUBSET {"clone"} : CloseFds(cut)
      BY <3>1 DEF client_read_data
    <3>4. Closing
      BY <3>3 DEF CloseFds, Closing
    <3> QED BY <1>1, <3>1, <3>2, <3>4
  <2> QED BY <2>1, <2>2
<1>2. CASE e = "member" /\ member_read
  <2> DEFINE n == ReadResult("member", Room(member_read_buffer))
  <2>1. CASE delete_session /\ UNCHANGED got
    BY <1>2, <2>1, DeleteCloses DEF member_read
  <2>2. CASE disconnect("member") /\ UNCHANGED got
    BY <1>2, <2>2, DisconnectCloses DEF member_read
  <2>3. CASE member_read_data(n)
    BY <1>2, <2>3, LeavesOpen DEF member_read, member_read_data
  <2> QED BY <1>2, <2>1, <2>2, <2>3 DEF member_read
<1>3. CASE e = "clone" /\ clone_read
  <2> DEFINE n == ReadResult("clone", MESSAGE_SIZE_LIMIT)
  <2>1. CASE disconnect("clone") /\ UNCHANGED got
    BY <1>3, <2>1, DisconnectCloses DEF clone_read
  <2>2. CASE got' = [got EXCEPT !["clone"] = @ + n] /\ UNCHANGED <<fds, buffers, conn>>
    BY <1>3, <2>2, LeavesOpen DEF clone_read, buffers
  <2> QED BY <1>3, <2>1, <2>2 DEF clone_read
<1> QED BY <1>1, <1>2, <1>3

LEMMA WritesClose ==
  ASSUME TypedSession, client_write \/ member_write \/ clone_write
  PROVE  /\ Closing /\ UNCHANGED <<sent, life, got>>
         /\ Len(client_read_buffer') <= Len(client_read_buffer)
<1>0. client_read_buffer \in Seq(Nat) /\ Len(client_read_buffer) \in Nat
  BY DEF TypedSession
<1>1. CASE client_write
  <2>1. PICK n \in WriteResults("client", member_read_buffer), order \in CopyOrder :
          delete_session \/ client_write_data(n, order)
    BY <1>1 DEF client_write
  <2>2. Closing /\ Len(client_read_buffer') <= Len(client_read_buffer)
    BY <1>0, <2>1, DeleteCloses, LeavesOpen DEF client_write_data
  <2> QED BY <1>1, <2>2 DEF client_write
<1>2. CASE member_write
  <2>1. PICK n \in WriteResults("member", client_read_buffer), order \in CopyOrder :
          IF n < 0 THEN disconnect("member") ELSE member_write_data(n, order)
    BY <1>2 DEF member_write
  <2>2. CASE n < 0
    BY <1>0, <1>2, <2>1, <2>2, DisconnectCloses DEF member_write
  <2>3. CASE ~(n < 0)
    <3>1. n \in Int /\ n >= 0
      BY <1>0, <2>3, WriteBound
    <3>2. /\ client_read_buffer' = IF n = Len(client_read_buffer) THEN <<>>
                                   ELSE memcpy(client_read_buffer, n, order)
          /\ UNCHANGED <<fds, conn>>
      BY <2>1, <2>3 DEF member_write_data
    <3>3. Len(client_read_buffer') = Len(client_read_buffer) - n
      BY <1>0, <3>1, <3>2, LeftLen
    <3> QED BY <1>0, <1>2, <3>1, <3>2, <3>3, LeavesOpen DEF member_write
  <2> QED BY <2>2, <2>3
<1>3. CASE clone_write
  <2>1. PICK n \in WriteResults("clone", clone_write_buffer), order \in CopyOrder :
          disconnect("clone") \/ clone_write_data(n, order)
    BY <1>3 DEF clone_write
  <2>2. Closing /\ UNCHANGED client_read_buffer
    <3>1. CASE disconnect("clone")
      BY <3>1, DisconnectCloses
    <3>2. CASE clone_write_data(n, order)
      BY <3>2, LeavesOpen DEF clone_write_data
    <3> QED BY <2>1, <3>1, <3>2
  <2> QED BY <1>0, <1>3, <2>2 DEF clone_write
<1> QED BY <1>1, <1>2, <1>3

\* Closing connections and taking events off the batch leaves the others current.
LEMMA CurrentKept ==
  ASSUME Current, Closing, UNCHANGED <<sent, life>>, life # 0,
         \A e \in Ends : batch'[e] \subseteq batch[e] /\ ("IN" \in batch'[e] => got'[e] = got[e]),
         "IN" \in batch'["client"] => Len(client_read_buffer') < MESSAGE_SIZE_LIMIT
  PROVE  Current'
<1>1. /\ conn'["client"] # "none" => "client" \in fds'
      /\ Failed("client")' => conn'["client"] \in {"none", "reset"}
  BY DEF Current, Closing, Failed
<1>2. \A e \in Ends : "IN" \in batch'[e] => Readable(e)' \/ conn'[e] \in {"none", "fin", "reset"}
  BY DEF Current, Closing, Readable
<1> QED BY <1>1, <1>2 DEF Current

LEMMA BornOnEvent ==
  ASSUME Current, \E e \in Ends : batch[e] # {}
  PROVE  life # 0
  BY DEF Current, Unborn

LEMMA AcceptCurrent ==
  ASSUME MaxLives = 1, ~AddMayFail, TypedSession, TypedLoop, TypedWire, Current, Accept
  PROVE  Current'
<1>1. \A e \in Ends : batch'[e] = batch[e]
  BY DEF Accept, Taken, TypedLoop, Watched
<1>2. CASE RejectClient
  BY <1>1, <1>2 DEF RejectClient, Current, Unborn, Failed, Readable, buffers, wire
<1>3. CASE AcceptSession
  <2>1. life = 0 /\ life' = 1 /\ Unborn
    BY <1>3 DEF AcceptSession, Current, TypedWire
  <2>2. \A e \in Ends : batch'[e] = {}
    BY <1>1, <2>1 DEF Unborn
  <2>3. PICK m \in {"none"} \cup MemberOutcomes : \E x \in CloneOutcomes(m) :
          Abandoned(m, x) \/ Established(m, x)
    BY <1>3 DEF AcceptSession
  <2>4. PICK x \in CloneOutcomes(m) : Abandoned(m, x) \/ Established(m, x)
    BY <2>3
  <2>5. conn'["client"] # "none" => "client" \in fds'
    BY <2>4 DEF Abandoned, Established, FdsAfter
  <2> QED BY <2>1, <2>2, <2>5 DEF Current, Failed
<1> QED BY <1>2, <1>3 DEF Accept

LEMMA WaitCurrent ==
  ASSUME ~AddMayFail, IInv, Watching, Current, EpollWait
  PROVE  Current'
<1>1. PICK client \in Pending("client"), member \in Pending("member"),
           clone \in Pending("clone"), listener \in {{}, {"IN"}} :
        batch' = [client |-> client, member |-> member, clone |-> clone, listener |-> listener]
  BY DEF EpollWait
<1>2. \A e \in Ends : batch'[e] \in Pending(e)
  BY <1>1
<1>3. UNCHANGED <<state, fds, client_read_buffer, interest, conn, sent, got, life>>
  BY DEF EpollWait, buffers, wire
<1>4. \A e \in Ends : /\ batch'[e] \subseteq interest[e]
                      /\ "IN" \in batch'[e] => "IN" \in interest[e] /\
                                               (Readable(e) \/ conn[e] \in {"fin", "reset"})
                      /\ batch'[e] \cap {"ERR", "HUP"} # {} => conn[e] = "reset"
  BY <1>2 DEF Pending
<1>5. "IN" \in interest["client"] => Len(client_read_buffer) < MESSAGE_SIZE_LIMIT
  <2>1. CASE "CLI_CONNECTED" \in state
    BY <2>1, WatchingImplies DEF IInv, ClientWatched
  <2>2. CASE "CLI_CONNECTED" \notin state
    BY <2>2, LimitAssumption DEF IInv, Book, UnusedIsEmpty
  <2> QED BY <2>1, <2>2
<1>6. life' = 0 => Unborn'
  BY <1>3, <1>4 DEF Current, Unborn
<1>7. \A e \in Ends : "IN" \in batch'[e] => Readable(e)' \/ conn'[e] \in {"none", "fin", "reset"}
  BY <1>3, <1>4 DEF Readable
<1>8. Failed("client")' => conn'["client"] \in {"none", "reset"}
  BY <1>3, <1>4 DEF Failed
<1> QED BY <1>3, <1>4, <1>5, <1>6, <1>7, <1>8 DEF Current

LEMMA PeersCurrent ==
  ASSUME IInv, Current, Peers
  PROVE  Current'
<1>1. PICK e \in Ends : Establish(e) \/ PeerSends(e) \/ PeerCloses(e) \/ Reset(e)
  BY DEF Peers
<1>2. UNCHANGED <<state, fds, client_read_buffer, interest, batch, got, life>>
  BY <1>1 DEF Establish, PeerSends, PeerCloses, Reset, master, buffers, loop
<1>3. conn[e] # "none" /\ life # 0
  BY <1>1 DEF Establish, PeerSends, PeerCloses, Reset, Current, Unborn
<1>4. \A f \in Ends : conn'[f] # "none" => conn[f] # "none"
  BY <1>1, <1>3 DEF Establish, PeerSends, PeerCloses, Reset, IInv, TypedSession
<1>5. Failed("client")' => conn'["client"] \in {"none", "reset"}
  BY <1>1, <1>2 DEF Establish, PeerSends, PeerCloses, Reset, IInv, TypedSession, Current, Failed
<1>6. \A f \in Ends : "IN" \in batch'[f] => Readable(f)' \/ conn'[f] \in {"none", "fin", "reset"}
  <2> USE DEF Readable
  <2>1. /\ \A f \in Ends : "IN" \in batch[f] => Readable(f) \/ conn[f] \in {"none", "fin", "reset"}
        /\ conn \in [Ends -> Connections] /\ sent \in [Ends -> Nat] /\ got \in [Ends -> Nat]
    BY DEF Current, IInv, TypedSession, TypedLoop, TypedWire
  <2>2. CASE Establish(e)
    BY <1>2, <2>1, <2>2 DEF Establish
  <2>3. CASE PeerSends(e)
    BY <1>2, <2>1, <2>3 DEF PeerSends
  <2>4. CASE PeerCloses(e)
    BY <1>2, <2>1, <2>4 DEF PeerCloses
  <2>5. CASE Reset(e)
    BY <1>2, <2>1, <2>5 DEF Reset
  <2> QED BY <1>1, <2>2, <2>3, <2>4, <2>5
<1> QED BY <1>2, <1>3, <1>4, <1>5, <1>6 DEF Current

LEMMA TakenOff ==
  ASSUME TypedLoop, NEW e \in Ends, Taken(e) \/ ReadEvent(e)
  PROVE  /\ \A f \in Ends : batch'[f] \subseteq batch[f]
         /\ "IN" \notin batch'[e]
  BY DEF TypedLoop, Taken, ReadEvent, Watched

LEMMA ReadsCurrent ==
  ASSUME IInv, Current, ClientRead \/ MemberRead \/ CloneRead
  PROVE  Current'
<1>1. PICK e \in Ends : /\ ReadEvent(e)
                        /\ \/ e = "client" /\ client_read
                           \/ e = "member" /\ member_read
                           \/ e = "clone" /\ clone_read
  BY DEF ClientRead, MemberRead, CloneRead
<1>2. /\ Closing /\ UNCHANGED <<sent, life>>
      /\ \A f \in Ends \ {e} : got'[f] = got[f]
      /\ e # "client" => client_read_buffer' = client_read_buffer \/ Len(client_read_buffer') = 0
  BY <1>1, ReadsClose DEF IInv
<1>3. /\ \A f \in Ends : batch'[f] \subseteq batch[f]
      /\ "IN" \notin batch'[e]
  BY <1>1, TakenOff DEF IInv
<1>4. life # 0
  BY <1>1, BornOnEvent DEF ReadEvent, Associated
<1>5. "IN" \in batch'["client"] => Len(client_read_buffer') < MESSAGE_SIZE_LIMIT
  BY <1>2, <1>3, LimitAssumption DEF Current
<1> QED BY <1>2, <1>3, <1>4, <1>5, CurrentKept

LEMMA WritesCurrent ==
  ASSUME IInv, Current, ClientWrite \/ MemberWrite \/ CloneWrite
  PROVE  Current'
<1>1. PICK e \in Ends : WriteEvent(e) /\ (client_write \/ member_write \/ clone_write)
  BY DEF ClientWrite, MemberWrite, CloneWrite
<1>2. /\ Closing /\ UNCHANGED <<sent, life, got>>
      /\ Len(client_read_buffer') <= Len(client_read_buffer)
  BY <1>1, WritesClose DEF IInv
<1>3. \A f \in Ends : batch'[f] \subseteq batch[f]
  BY <1>1, TakenOff DEF IInv, WriteEvent
<1>4. life # 0
  BY <1>1, BornOnEvent DEF WriteEvent
<1>5. Len(client_read_buffer) \in Nat /\ Len(client_read_buffer') \in Nat
  <2>1. TypedSession'
    BY <1>1, ClientWriteTyped, MemberWriteTyped, CloneWriteTyped DEF IInv
  <2> QED BY <2>1 DEF IInv, TypedSession
<1>6. "IN" \in batch'["client"] => Len(client_read_buffer') < MESSAGE_SIZE_LIMIT
  BY <1>2, <1>3, <1>5, LimitAssumption DEF Current
<1> QED BY <1>2, <1>3, <1>4, <1>6, CurrentKept

LEMMA FailuresCurrent ==
  ASSUME IInv, Current, ClientFailure \/ ServerFailure("member") \/ ServerFailure("clone")
  PROVE  Current'
<1>1. PICK e \in Ends : /\ Taken(e) /\ batch[e] # {} /\ UNCHANGED <<wire, life>>
                        /\ delete_session \/ (e \in Servers /\ disconnect(e))
  BY DEF ClientFailure, ServerFailure, Associated
<1>2. Closing /\ (client_read_buffer' = client_read_buffer \/ Len(client_read_buffer') = 0)
  BY <1>1, DeleteCloses, DisconnectCloses
<1>3. \A f \in Ends : batch'[f] \subseteq batch[f]
  BY <1>1, TakenOff DEF IInv
<1>4. life # 0
  BY <1>1, BornOnEvent
<1>5. "IN" \in batch'["client"] => Len(client_read_buffer') < MESSAGE_SIZE_LIMIT
  BY <1>2, <1>3, LimitAssumption DEF Current
<1> QED BY <1>1, <1>2, <1>3, <1>4, <1>5, CurrentKept DEF wire

LEMMA StepCurrent ==
  MaxLives = 1 /\ ~AddMayFail /\ IInv /\ Watching /\ Current /\ [Next]_vars => Current'
<1> SUFFICES ASSUME MaxLives = 1, ~AddMayFail, IInv, Watching, Current, [Next]_vars
             PROVE  Current'
  OBVIOUS
<1>1. CASE Accept
  BY <1>1, AcceptCurrent DEF IInv
<1>2. ASSUME NEW e \in Ends, Unassociated(e) PROVE Current'
  <2>1. /\ \A f \in Ends : batch'[f] \subseteq batch[f]
        /\ UNCHANGED <<fds, client_read_buffer, conn, sent, got, life>>
    BY <1>2, TakenOff DEF IInv, Unassociated, buffers, wire
  <2>2. Closing /\ life # 0
    BY <1>2, <2>1, LeavesOpen, BornOnEvent DEF IInv, Unassociated
  <2> QED BY <2>1, <2>2, CurrentKept DEF Current
<1>3. CASE UNCHANGED vars
  BY <1>3 DEF vars, buffers, loop, wire, Current, Unborn, Failed, Readable
<1> QED BY <1>1, <1>2, <1>3, ReadsCurrent, WritesCurrent, FailuresCurrent, WaitCurrent,
           PeersCurrent DEF Next, Handle

\* A step that ends a session whose client is there is the last write of a
\* response whose member is gone, or a read that finds the member gone with
\* nothing left to write.
LEMMA EndsWhy ==
  ASSUME ~AddMayFail, IInv, Watching, Current, [Next]_vars,
         state # {}, state' = {}, conn["client"] = "open"
  PROVE  /\ got' = got
         /\ \/ /\ "MEM_CONNECTED" \notin state
               /\ out' = [out EXCEPT !["client"] = Written(@, member_read_buffer,
                                                           Len(member_read_buffer))]
            \/ /\ MemberRead /\ ReadResult("member", Room(member_read_buffer)) <= 0
               /\ Len(member_read_buffer) = 0 /\ out' = out
<1>1. /\ TypedSession /\ TypedWire /\ "client" \in fds /\ "CLI_CONNECTED" \in state
      /\ member_read_buffer \in Seq(Nat)
  BY DEF IInv, Book, UnusedIsEmpty, Current, TypedSession
<1>2. ASSUME "CLI_CONNECTED" \in state' PROVE FALSE
  BY <1>2
<1>3. ASSUME ClientFailure PROVE FALSE
  BY <1>3 DEF ClientFailure, Current
<1>4. ASSUME NEW e \in Servers, disconnect(e) PROVE FALSE
  BY <1>1, <1>2, <1>4 DEF disconnect, Connected
<1>5. ASSUME ClientRead PROVE FALSE
  <2> DEFINE n == ReadResult("client", Room(client_read_buffer))
  <2>1. "IN" \in batch["client"]
    BY <1>5 DEF ClientRead, ReadEvent
  <2>2. Readable("client") /\ Room(client_read_buffer) > 0 /\ Room(client_read_buffer) \in Nat
    <3>1. Readable("client") /\ Len(client_read_buffer) < MESSAGE_SIZE_LIMIT
      BY <2>1 DEF Current
    <3>2. Len(client_read_buffer) \in Nat
      BY <1>1 DEF TypedSession
    <3> QED BY <3>1, <3>2, LimitAssumption DEF Room
  <2>3. n > 0
    BY <1>1, <2>2 DEF ReadResult, Readable, MinOf, TypedWire
  <2>4. n \in Int /\ client_read_data(n)
    BY <1>1, <1>5, <2>2, <2>3, ReadType DEF ClientRead, client_read
  <2> QED BY <1>2, <2>4, <1>1 DEF client_read_data, Connected
<1>6. CASE ClientWrite
  <2>1. PICK n \in WriteResults("client", member_read_buffer), order \in CopyOrder :
       /\ IF n < 0 \/ (n = Len(member_read_buffer) /\ "MEM_CONNECTED" \notin state)
          THEN delete_session
          ELSE client_write_data(n, order)
       /\ out' = IF n > 0
                 THEN [out EXCEPT !["client"] = @ \o SubSeq(member_read_buffer, 1, n)]
                 ELSE out
    BY <1>6 DEF ClientWrite, client_write
  <2>2. n \in Nat
    BY <1>1 DEF WriteResults
  <2>3. ASSUME client_write_data(n, order) PROVE FALSE
    BY <1>1, <1>2, <2>3 DEF client_write_data
  <2>4. n = Len(member_read_buffer) /\ "MEM_CONNECTED" \notin state
    BY <2>1, <2>2, <2>3
  <2>5. out' = [out EXCEPT !["client"] = Written(@, member_read_buffer, n)]
    BY <1>1, <2>1 DEF Written, TypedWire
  <2> QED BY <1>6, <2>4, <2>5 DEF ClientWrite, client_write
<1>7. CASE MemberRead
  <2> DEFINE n == ReadResult("member", Room(member_read_buffer))
  <2>1. ASSUME member_read_data(n) PROVE FALSE
    BY <1>1, <1>2, <2>1 DEF member_read_data
  <2>2. n <= 0 /\ "CLI_WRITE_READY" \notin state /\ UNCHANGED <<got, out>>
    BY <1>4, <1>7, <2>1 DEF MemberRead, member_read
  <2>3. Len(member_read_buffer) = 0
    BY <1>1, <2>2 DEF Watching, ClientBooks
  <2> QED BY <1>7, <2>2, <2>3
<1>8. ASSUME MemberWrite \/ CloneRead \/ CloneWrite PROVE FALSE
  <2>1. CASE MemberWrite
    <3>1. PICK n \in WriteResults("member", client_read_buffer), order \in CopyOrder :
            IF n < 0 THEN disconnect("member") ELSE member_write_data(n, order)
      BY <2>1 DEF MemberWrite, member_write
    <3>2. member_write_data(n, order)
      BY <1>4, <3>1
    <3> QED BY <1>1, <1>2, <3>2 DEF member_write_data
  <2>2. CASE CloneRead
    BY <1>4, <2>2 DEF CloneRead, clone_read
  <2>3. CASE CloneWrite
    <3>1. PICK n \in WriteResults("clone", clone_write_buffer), order \in CopyOrder :
            IF n < 0 THEN disconnect("clone") ELSE clone_write_data(n, order)
      BY <2>3 DEF CloneWrite, clone_write
    <3>2. clone_write_data(n, order)
      BY <1>4, <3>1
    <3> QED BY <1>1, <1>2, <3>2 DEF clone_write_data
  <2> QED BY <1>8, <2>1, <2>2, <2>3
<1>9. ASSUME Accept \/ EpollWait \/ Peers \/ UNCHANGED vars \/ \E e \in Ends : Unassociated(e)
      PROVE  FALSE
  BY <1>9 DEF Accept, AcceptSession, RejectClient, EpollWait, Peers, Establish, PeerSends,
              PeerCloses, Reset, master, Unassociated, vars
<1>10. ASSUME ServerFailure("member") \/ ServerFailure("clone") PROVE FALSE
  BY <1>4, <1>10 DEF ServerFailure
<1> QED BY <1>3, <1>5, <1>6, <1>7, <1>8, <1>9, <1>10 DEF Next, Handle

LEMMA AlwaysCurrent ==
  MaxLives = 1 /\ ~AddMayFail /\ Spec => [](IInv /\ Watching /\ Current)
<1>1. ASSUME MaxLives = 1, ~AddMayFail PROVE Spec => [](IInv /\ Watching /\ Current)
  <2>1. Init => Current
    BY DEF Init, Current, Unborn, Failed, Watched
  <2>2. IInv /\ Watching /\ Current /\ [Next]_vars => Current'
    BY <1>1, StepCurrent
  <2>3. Spec => [](IInv /\ Watching)
    BY <1>1, AlwaysWatching
  <2> QED BY <2>1, <2>2, <2>3, PTL DEF Spec
<1> QED BY <1>1

\* ResponseDelivered: in its first life, as long as no epoll_ctl() fails and
\* memcpy() copies upwards, a session whose client is there does not end before
\* the client was sent all that the member answered, for buffers of any size.
THEOREM ResponsesDelivered == MaxLives = 1 /\ Orderly /\ Spec => ResponseDelivered
<1> DEFINE Delivered == state # {} /\ state' = {} /\ conn["client"] = "open"
                          => out'["client"] = Stream(got'["member"])
<1>1. ASSUME MaxLives = 1, Orderly PROVE Spec => [][Delivered]_vars
  <2>1. IInv /\ Watching /\ Current /\ [Next]_vars => [Delivered]_vars
    <3> SUFFICES ASSUME IInv, Watching, Current, [Next]_vars,
                        state # {}, state' = {}, conn["client"] = "open"
                 PROVE  out'["client"] = Stream(got'["member"])
      OBVIOUS
    <3>1. /\ out["client"] \o member_read_buffer = Stream(got["member"])
          /\ out \in [Ends -> Seq(Nat)] /\ member_read_buffer \in Seq(Nat)
      BY <1>1 DEF IInv, Relayed, RelayIntact, TypedWire, TypedSession
    <3>2. ~AddMayFail
      BY <1>1 DEF Orderly
    <3>3. CASE Len(member_read_buffer) = 0 /\ out' = out /\ got' = got
      <4>1. member_read_buffer = <<>> /\ out["client"] \in Seq(Nat)
        BY <3>1, <3>3, EmptyLen
      <4>2. out["client"] \o <<>> = out["client"]
        BY <4>1
      <4> QED BY <3>1, <3>3, <4>1, <4>2
    <3>4. CASE /\ got' = got
               /\ out' = [out EXCEPT !["client"] = Written(@, member_read_buffer,
                                                           Len(member_read_buffer))]
      <4> DEFINE o == out["client"]
                 buf == member_read_buffer
      <4>1. o \in Seq(Nat) /\ buf \in Seq(Nat) /\ Len(buf) \in Nat
        BY <3>1
      <4>2. Written(o, buf, Len(buf)) \o Left(buf, Len(buf)) = o \o buf
        BY <4>1, WriteMoves
      <4>3. Left(buf, Len(buf)) = <<>> /\ Written(o, buf, Len(buf)) \in Seq(Nat)
        BY <4>1 DEF Left, Written
      <4>4. Written(o, buf, Len(buf)) = o \o buf
        BY <4>2, <4>3
      <4>5. out'["client"] = Written(o, buf, Len(buf))
        BY <3>1, <3>4
      <4> QED BY <3>1, <3>4, <4>4, <4>5
    <3> QED BY <3>2, <3>3, <3>4, EndsWhy
  <2>2. Spec => [](IInv /\ Watching /\ Current)
    BY <1>1, AlwaysCurrent DEF Orderly
  <2> QED BY <2>1, <2>2, PTL DEF Spec
<1> QED BY <1>1 DEF ResponseDelivered
=============================================================================
