------------------------- MODULE SessionRefinement -------------------------
(****************************************************************************)
(* Session implements Relay, for buffers of any size, any number of bytes   *)
(* and any number of lives of the session.                                  *)
(****************************************************************************)
EXTENDS SessionProof

USE DEF Ends, Servers

LEMMA InitMaps == Init => Promise!Init
<1> SUFFICES ASSUME Init PROVE Promise!Init
  OBVIOUS
<1>1. /\ got["client"] = 0 /\ got["member"] = 0
      /\ out["client"] = <<>> /\ out["member"] = <<>>
      /\ client_read_buffer = <<>> /\ member_read_buffer = <<>> /\ state = {}
  BY DEF Init
<1>2. /\ Ways(0, 0) = [w \in Promise!Ways |-> 0]
      /\ Ways(<<>>, <<>>) = Promise!Empty
  BY DEF Ways, Promise!Ways, Promise!Empty
<1> QED BY <1>1, <1>2 DEF Promise!Init

\* A step that leaves flags, streams and buffers alone.
LEMMA Stutters ==
  ASSUME UNCHANGED <<state, client_read_buffer, member_read_buffer, got, out>>
  PROVE  UNCHANGED Promise!vars
  BY DEF Promise!vars

\* delete_session() ends the session, or finds it ended.
LEMMA DeleteMaps ==
  ASSUME TypedSession, TypedWire, Book, Orderly, delete_session, UNCHANGED got,
         \/ UNCHANGED out
         \/ "CLI_CONNECTED" \in state /\ out' = [out EXCEPT !["client"] = @ \o member_read_buffer]
  PROVE  [Promise!Next]_(Promise!vars)
<1>1. state' = {} /\ client_read_buffer' = <<>> /\ member_read_buffer' = <<>>
  BY DEF delete_session
<1>2. CASE "CLI_CONNECTED" \in state
  <2>1. Ways(client_read_buffer', member_read_buffer') = Promise!Empty
    BY <1>1 DEF Ways, Promise!Empty, Promise!Ways
  <2> DEFINE given == Ways(out["member"], out["client"])
             queue == Ways(client_read_buffer, member_read_buffer)
  <2>2. UNCHANGED given \/ given' = [given EXCEPT !["response"] = @ \o queue["response"]]
    <3>1. CASE UNCHANGED out
      BY <3>1
    <3>2. CASE out' = [out EXCEPT !["client"] = @ \o member_read_buffer]
      <4>1. out'["member"] = out["member"] /\ out'["client"] = out["client"] \o member_read_buffer
        BY <3>2 DEF TypedWire
      <4>2. given' = Ways(out["member"], out["client"] \o member_read_buffer)
        BY <4>1
      <4> QED BY <4>2 DEF Ways
    <3> QED BY <3>1, <3>2
  <2>3. Promise!Stop
    BY <1>1, <1>2, <2>1, <2>2 DEF Promise!Stop
  <2> QED BY <2>3 DEF Promise!Next
<1>3. CASE "CLI_CONNECTED" \notin state
  <2>1. UNCHANGED <<state, client_read_buffer, member_read_buffer, got, out>>
    BY <1>1, <1>3 DEF Book, Orderly, UnusedIsEmpty
  <2> QED BY <2>1, Stutters
<1> QED BY <1>2, <1>3

\* disconnect() of a server loses the member, or changes nothing of the relay.
LEMMA DisconnectMaps ==
  ASSUME TypedSession, Book, Orderly, NEW e \in Servers, disconnect(e), UNCHANGED <<got, out>>
  PROVE  [Promise!Next]_(Promise!vars)
<1>1. /\ UNCHANGED <<client_read_buffer, member_read_buffer>>
      /\ state' = IF e \in fds THEN state \ {Connected(e)} ELSE state
  BY DEF disconnect, buffers
<1>2. CASE e = "member" /\ e \in fds
  <2>1. "MEM_CONNECTED" \in state /\ "CLI_CONNECTED" \in state
    BY <1>2 DEF Book, Orderly, FdHasFlag, UnusedIsEmpty, Connected
  <2>2. Promise!LoseMember
    BY <1>1, <1>2, <2>1 DEF Promise!LoseMember, Connected
  <2> QED BY <2>2 DEF Promise!Next
<1>3. CASE ~(e = "member" /\ e \in fds)
  <2>1. /\ "CLI_CONNECTED" \in state' <=> "CLI_CONNECTED" \in state
        /\ "MEM_CONNECTED" \in state' <=> "MEM_CONNECTED" \in state
    BY <1>1, <1>3 DEF Connected
  <2> QED BY <1>1, <2>1 DEF Promise!vars
<1> QED BY <1>2, <1>3

\* n bytes are taken from the source of a way.
LEMMA TakeMaps ==
  ASSUME TypedSession, TypedWire, "CLI_CONNECTED" \in state,
         "CLI_CONNECTED" \in state' <=> "CLI_CONNECTED" \in state,
         "MEM_CONNECTED" \in state' <=> "MEM_CONNECTED" \in state,
         UNCHANGED out, NEW n \in Nat,
         \/ /\ n \in 1..Room(client_read_buffer)
            /\ got' = [got EXCEPT !["client"] = @ + n]
            /\ client_read_buffer' = client_read_buffer \o Following(got["client"], n)
            /\ UNCHANGED member_read_buffer
         \/ /\ n \in 1..Room(member_read_buffer)
            /\ "MEM_CONNECTED" \in state
            /\ got' = [got EXCEPT !["member"] = @ + n]
            /\ member_read_buffer' = member_read_buffer \o Following(got["member"], n)
            /\ UNCHANGED client_read_buffer
  PROVE  [Promise!Next]_(Promise!vars)
<1> DEFINE queue == Ways(client_read_buffer, member_read_buffer)
           taken == Ways(got["client"], got["member"])
<1>1. CASE /\ n \in 1..Room(client_read_buffer)
           /\ got' = [got EXCEPT !["client"] = @ + n]
           /\ client_read_buffer' = client_read_buffer \o Following(got["client"], n)
           /\ UNCHANGED member_read_buffer
  <2>1. got'["client"] = got["client"] + n /\ got'["member"] = got["member"]
    BY <1>1 DEF TypedWire
  <2>2. taken' = [taken EXCEPT !["request"] = @ + n]
    BY <2>1 DEF Ways
  <2>3. Promise!Following("request", n) = Following(got["client"], n)
    BY DEF Promise!Following, Following, Ways
  <2>4. queue' = [queue EXCEPT !["request"] = @ \o Promise!Following("request", n)]
    BY <1>1, <2>3 DEF Ways
  <2>5. n \in 1..(MESSAGE_SIZE_LIMIT - Len(queue["request"]))
    BY <1>1 DEF Ways, Room
  <2>6. Promise!Take("request")
    <3>1. "request" = "response" => "MEM_CONNECTED" \in state
      OBVIOUS
    <3>2. UNCHANGED <<"CLI_CONNECTED" \in state, "MEM_CONNECTED" \in state, Ways(out["member"], out["client"])>>
      OBVIOUS
    <3>3. \E k \in 1..(MESSAGE_SIZE_LIMIT - Len(queue["request"])) :
            /\ queue' = [queue EXCEPT !["request"] = @ \o Promise!Following("request", k)]
            /\ taken' = [taken EXCEPT !["request"] = @ + k]
      BY <2>2, <2>4, <2>5
    <3> QED BY <3>1, <3>2, <3>3 DEF Promise!Take
  <2> QED BY <2>6 DEF Promise!Next, Promise!Ways
<1>2. CASE /\ n \in 1..Room(member_read_buffer)
           /\ "MEM_CONNECTED" \in state
           /\ got' = [got EXCEPT !["member"] = @ + n]
           /\ member_read_buffer' = member_read_buffer \o Following(got["member"], n)
           /\ UNCHANGED client_read_buffer
  <2>1. got'["member"] = got["member"] + n /\ got'["client"] = got["client"]
    BY <1>2 DEF TypedWire
  <2>2. taken' = [taken EXCEPT !["response"] = @ + n]
    BY <2>1 DEF Ways
  <2>3. Promise!Following("response", n) = Following(got["member"], n)
    BY DEF Promise!Following, Following, Ways
  <2>4. queue' = [queue EXCEPT !["response"] = @ \o Promise!Following("response", n)]
    BY <1>2, <2>3 DEF Ways
  <2>5. n \in 1..(MESSAGE_SIZE_LIMIT - Len(queue["response"]))
    BY <1>2 DEF Ways, Room
  <2>6. Promise!Take("response")
    BY <1>2, <2>2, <2>4, <2>5 DEF Promise!Take
  <2> QED BY <2>6 DEF Promise!Next, Promise!Ways
<1> QED BY <1>1, <1>2

LEMMA LeftIs ==
  ASSUME NEW buf \in Seq(Nat), NEW n \in 1..Len(buf)
  PROVE  Left(buf, n) = SubSeq(buf, n + 1, Len(buf))
  BY DEF Left, memcpy

\* The first n bytes of a way are given on.
LEMMA GiveResponse ==
  ASSUME TypedSession, TypedWire, "CLI_CONNECTED" \in state,
         "CLI_CONNECTED" \in state' <=> "CLI_CONNECTED" \in state,
         "MEM_CONNECTED" \in state' <=> "MEM_CONNECTED" \in state,
         UNCHANGED <<got, client_read_buffer>>, NEW n \in 1..Len(member_read_buffer),
         member_read_buffer' = Left(member_read_buffer, n),
         out' = [out EXCEPT !["client"] = @ \o SubSeq(member_read_buffer, 1, n)]
  PROVE  [Promise!Next]_(Promise!vars)
<1> DEFINE queue == Ways(client_read_buffer, member_read_buffer)
           given == Ways(out["member"], out["client"])
<1>1. /\ out'["client"] = out["client"] \o SubSeq(member_read_buffer, 1, n)
      /\ out'["member"] = out["member"]
  BY DEF TypedWire
<1>2. given' = [given EXCEPT !["response"] = @ \o SubSeq(queue["response"], 1, n)]
  BY <1>1 DEF Ways
<1>3. member_read_buffer' = SubSeq(member_read_buffer, n + 1, Len(member_read_buffer))
  BY LeftIs DEF TypedSession
<1>4. queue' = [queue EXCEPT !["response"] = SubSeq(@, n + 1, Len(@))]
  BY <1>3 DEF Ways
<1>5. n \in 1..Len(queue["response"])
  BY DEF Ways
<1>6. Promise!Give("response")
  <2>1. "response" = "request" => "MEM_CONNECTED" \in state
    OBVIOUS
  <2>2. UNCHANGED <<"CLI_CONNECTED" \in state, "MEM_CONNECTED" \in state, Ways(got["client"], got["member"])>>
    OBVIOUS
  <2>3. \E k \in 1..Len(queue["response"]) :
          /\ given' = [given EXCEPT !["response"] = @ \o SubSeq(queue["response"], 1, k)]
          /\ queue' = [queue EXCEPT !["response"] = SubSeq(@, k + 1, Len(@))]
    BY <1>2, <1>4, <1>5
  <2> QED BY <2>1, <2>2, <2>3 DEF Promise!Give
<1> QED BY <1>6 DEF Promise!Next, Promise!Ways

LEMMA GiveRequest ==
  ASSUME TypedSession, TypedWire, "CLI_CONNECTED" \in state, "MEM_CONNECTED" \in state,
         "CLI_CONNECTED" \in state' <=> "CLI_CONNECTED" \in state,
         "MEM_CONNECTED" \in state' <=> "MEM_CONNECTED" \in state,
         UNCHANGED <<got, member_read_buffer>>, NEW n \in 1..Len(client_read_buffer),
         client_read_buffer' = Left(client_read_buffer, n),
         out' = [out EXCEPT !["member"] = @ \o SubSeq(client_read_buffer, 1, n)]
  PROVE  [Promise!Next]_(Promise!vars)
<1> DEFINE queue == Ways(client_read_buffer, member_read_buffer)
           given == Ways(out["member"], out["client"])
<1>1. /\ out'["member"] = out["member"] \o SubSeq(client_read_buffer, 1, n)
      /\ out'["client"] = out["client"]
  BY DEF TypedWire
<1>2. given' = [given EXCEPT !["request"] = @ \o SubSeq(queue["request"], 1, n)]
  BY <1>1 DEF Ways
<1>3. client_read_buffer' = SubSeq(client_read_buffer, n + 1, Len(client_read_buffer))
  BY LeftIs DEF TypedSession
<1>4. queue' = [queue EXCEPT !["request"] = SubSeq(@, n + 1, Len(@))]
  BY <1>3 DEF Ways
<1>5. n \in 1..Len(queue["request"])
  BY DEF Ways
<1>6. Promise!Give("request")
  <2>1. UNCHANGED <<"CLI_CONNECTED" \in state, "MEM_CONNECTED" \in state, Ways(got["client"], got["member"])>>
    OBVIOUS
  <2>2. \E k \in 1..Len(queue["request"]) :
          /\ given' = [given EXCEPT !["request"] = @ \o SubSeq(queue["request"], 1, k)]
          /\ queue' = [queue EXCEPT !["request"] = SubSeq(@, k + 1, Len(@))]
    BY <1>2, <1>4, <1>5
  <2> QED BY <2>1, <2>2 DEF Promise!Give
<1> QED BY <1>6 DEF Promise!Next, Promise!Ways

-----------------------------------------------------------------------------
(* The handlers.                                                             *)

\* A session whose member or client has a descriptor is up.
LEMMA FdUp ==
  ASSUME TypedSession, Book, Orderly
  PROVE  /\ fds # {} => "CLI_CONNECTED" \in state
         /\ "member" \in fds => "MEM_CONNECTED" \in state
  BY DEF TypedSession, Book, Orderly, FdHasFlag, UnusedIsEmpty, Connected

LEMMA ClientReadMaps ==
  ASSUME TypedSession, TypedWire, Book, Orderly, client_read
  PROVE  [Promise!Next]_(Promise!vars)
<1> DEFINE n == ReadResult("client", Room(client_read_buffer))
<1>1. CASE n <= 0
  BY <1>1, DeleteMaps DEF client_read
<1>2. CASE ~(n <= 0)
  <2>1. n \in 1..Room(client_read_buffer) /\ "client" \in fds
    BY <1>2, ReadBound, RoomType, ReadType
  <2>2. client_read_data(n) /\ UNCHANGED out
    BY <1>2 DEF client_read
  <2>3. n \in Nat
    BY <2>1, RoomType
  <2> HIDE DEF n
  <2>4. /\ "CLI_CONNECTED" \in state' <=> "CLI_CONNECTED" \in state
        /\ "MEM_CONNECTED" \in state' <=> "MEM_CONNECTED" \in state
    BY <2>2 DEF client_read_data, Connected
  <2>5. /\ got' = [got EXCEPT !["client"] = @ + n]
        /\ client_read_buffer' = client_read_buffer \o Following(got["client"], n)
        /\ UNCHANGED member_read_buffer
    BY <2>2 DEF client_read_data, Chunk, Following
  <2>6. "CLI_CONNECTED" \in state
    BY <2>1, FdUp
  <2> QED BY <2>1, <2>2, <2>3, <2>4, <2>5, <2>6, TakeMaps
<1> QED BY <1>1, <1>2

LEMMA MemberReadMaps ==
  ASSUME TypedSession, TypedWire, Book, Orderly, member_read
  PROVE  [Promise!Next]_(Promise!vars)
<1> DEFINE n == ReadResult("member", Room(member_read_buffer))
<1>1. CASE delete_session /\ UNCHANGED got
  BY <1>1, DeleteMaps DEF member_read
<1>2. CASE disconnect("member") /\ UNCHANGED got
  BY <1>2, DisconnectMaps DEF member_read
<1>3. CASE n > 0 /\ member_read_data(n)
  <2>1. n \in 1..Room(member_read_buffer) /\ "member" \in fds
    BY <1>3, ReadBound, RoomType
  <2>2. n \in Nat
    BY <2>1, RoomType
  <2> HIDE DEF n
  <2>3. /\ "CLI_CONNECTED" \in state' <=> "CLI_CONNECTED" \in state
        /\ "MEM_CONNECTED" \in state' <=> "MEM_CONNECTED" \in state
    BY <1>3 DEF member_read_data
  <2>4. /\ got' = [got EXCEPT !["member"] = @ + n]
        /\ member_read_buffer' = member_read_buffer \o Following(got["member"], n)
        /\ UNCHANGED client_read_buffer
    BY <1>3 DEF member_read_data, Chunk, Following
  <2>5. "CLI_CONNECTED" \in state /\ "MEM_CONNECTED" \in state
    BY <2>1, FdUp
  <2>6. UNCHANGED out
    BY DEF member_read
  <2> QED BY <2>1, <2>2, <2>3, <2>4, <2>5, <2>6, TakeMaps
<1> QED BY <1>1, <1>2, <1>3 DEF member_read

LEMMA ClientWriteMaps ==
  ASSUME TypedSession, TypedWire, Book, Orderly, client_write
  PROVE  [Promise!Next]_(Promise!vars)
<1>1. PICK n \in WriteResults("client", member_read_buffer) :
        /\ IF n < 0 \/ (n = Len(member_read_buffer) /\ "MEM_CONNECTED" \notin state)
           THEN delete_session
           ELSE client_write_data(n, "up")
        /\ out' = IF n > 0
                  THEN [out EXCEPT !["client"] = @ \o SubSeq(member_read_buffer, 1, n)]
                  ELSE out
  BY DEF client_write, Orderly
<1>2. UNCHANGED got
  BY DEF client_write
<1>3. /\ n \in Int
      /\ n >= 0 => n \in 0..Len(member_read_buffer) /\ "client" \in fds
      /\ n >= 0 => n = Len(member_read_buffer) \/ n \in 1..Len(member_read_buffer)
  BY WriteBound DEF TypedSession
<1>4. member_read_buffer \in Seq(Nat)
  BY DEF TypedSession
<1>5. CASE n < 0
  <2>1. delete_session /\ UNCHANGED out
    <3>1. ~(n > 0)
      BY <1>3, <1>5
    <3> QED BY <1>1, <1>5, <3>1, Zenon
  <2> QED BY <1>2, <2>1, DeleteMaps
<1>6. CASE n >= 0 /\ delete_session /\ n = Len(member_read_buffer)
  <2>1. "CLI_CONNECTED" \in state
    BY <1>3, <1>6, FdUp
  <2>2. SubSeq(member_read_buffer, 1, Len(member_read_buffer)) = member_read_buffer
    BY <1>4, SubSeqFull
  <2>3. UNCHANGED out \/ out' = [out EXCEPT !["client"] = @ \o member_read_buffer]
    BY <1>1, <1>6, <2>2
  <2> QED BY <1>2, <1>6, <2>1, <2>3, DeleteMaps
<1>7. CASE n >= 0 /\ client_write_data(n, "up")
  <2>1. /\ "CLI_CONNECTED" \in state' <=> "CLI_CONNECTED" \in state
        /\ "MEM_CONNECTED" \in state' <=> "MEM_CONNECTED" \in state
        /\ member_read_buffer' = Left(member_read_buffer, n)
        /\ UNCHANGED client_read_buffer
    BY <1>7 DEF client_write_data, Left
  <2>2. CASE n = 0
    <3>1. member_read_buffer = <<>> /\ member_read_buffer' = <<>> /\ UNCHANGED out
      BY <1>1, <1>3, <1>4, <2>1, <2>2 DEF Left
    <3> QED BY <1>2, <2>1, <3>1 DEF Promise!vars
  <2>3. CASE n # 0
    <3>1. n \in 1..Len(member_read_buffer) /\ "CLI_CONNECTED" \in state
      BY <1>3, <1>7, <2>3, FdUp
    <3>2. out' = [out EXCEPT !["client"] = @ \o SubSeq(member_read_buffer, 1, n)]
      BY <1>1, <3>1
    <3> QED BY <1>2, <2>1, <3>1, <3>2, GiveResponse
  <2> QED BY <2>2, <2>3
<1> QED BY <1>1, <1>3, <1>5, <1>6, <1>7

LEMMA MemberWriteMaps ==
  ASSUME TypedSession, TypedWire, Book, Orderly, member_write
  PROVE  [Promise!Next]_(Promise!vars)
<1>1. PICK n \in WriteResults("member", client_read_buffer) :
        /\ IF n < 0 THEN disconnect("member") ELSE member_write_data(n, "up")
        /\ out' = IF n > 0
                  THEN [out EXCEPT !["member"] = @ \o SubSeq(client_read_buffer, 1, n)]
                  ELSE out
  BY DEF member_write, Orderly
<1>2. UNCHANGED got
  BY DEF member_write
<1>3. /\ n \in Int
      /\ n >= 0 => n = Len(client_read_buffer) \/ n \in 1..Len(client_read_buffer)
      /\ n >= 0 => "member" \in fds
  BY WriteBound DEF TypedSession
<1>4. client_read_buffer \in Seq(Nat)
  BY DEF TypedSession
<1>5. CASE n < 0
  <2>1. disconnect("member") /\ UNCHANGED out
    <3>1. ~(n > 0)
      BY <1>3, <1>5
    <3> QED BY <1>1, <1>5, <3>1, Zenon
  <2> QED BY <1>2, <2>1, DisconnectMaps
<1>6. CASE n >= 0
  <2>1. /\ "CLI_CONNECTED" \in state' <=> "CLI_CONNECTED" \in state
        /\ "MEM_CONNECTED" \in state' <=> "MEM_CONNECTED" \in state
        /\ client_read_buffer' = Left(client_read_buffer, n)
        /\ UNCHANGED member_read_buffer
    <3>1. member_write_data(n, "up")
      BY <1>1, <1>3, <1>6
    <3> QED BY <3>1 DEF member_write_data, Left
  <2>2. CASE n = 0
    <3>1. client_read_buffer = <<>> /\ client_read_buffer' = <<>> /\ UNCHANGED out
      BY <1>1, <1>3, <1>4, <2>1, <2>2 DEF Left
    <3> QED BY <1>2, <2>1, <3>1 DEF Promise!vars
  <2>3. CASE n # 0
    <3>1. n \in 1..Len(client_read_buffer) /\ "CLI_CONNECTED" \in state /\ "MEM_CONNECTED" \in state
      BY <1>3, <1>6, <2>3, FdUp
    <3>2. out' = [out EXCEPT !["member"] = @ \o SubSeq(client_read_buffer, 1, n)]
      BY <1>1, <3>1
    <3> QED BY <1>2, <2>1, <3>1, <3>2, GiveRequest
  <2> QED BY <2>2, <2>3
<1> QED BY <1>3, <1>5, <1>6

\* What a clone reads and writes is no part of the relay.
LEMMA CloneMaps ==
  ASSUME TypedSession, TypedWire, Book, Orderly, clone_read \/ clone_write
  PROVE  [Promise!Next]_(Promise!vars)
<1>1. CASE clone_read
  <2>1. CASE disconnect("clone") /\ UNCHANGED got
    BY <1>1, <2>1, DisconnectMaps DEF clone_read
  <2>2. ASSUME NEW n, got' = [got EXCEPT !["clone"] = @ + n],
               UNCHANGED <<state, fds, buffers, interest, c, queued, conn>>
        PROVE  UNCHANGED Promise!vars
    <3>1. got'["client"] = got["client"] /\ got'["member"] = got["member"]
      BY <2>2 DEF TypedWire
    <3>2. UNCHANGED out
      BY <1>1 DEF clone_read
    <3> QED BY <2>2, <3>1, <3>2 DEF Promise!vars, buffers
  <2> QED BY <1>1, <2>1, <2>2 DEF clone_read
<1>2. CASE clone_write
  <2>1. PICK n \in WriteResults("clone", clone_write_buffer), order \in CopyOrder :
          /\ IF n < 0 THEN disconnect("clone") ELSE clone_write_data(n, order)
          /\ out' = IF n > 0
                    THEN [out EXCEPT !["clone"] = @ \o SubSeq(clone_write_buffer, 1, n)]
                    ELSE out
    BY <1>2 DEF clone_write
  <2>2. n \in Int /\ UNCHANGED got
    BY <1>2, WriteBound DEF clone_write, TypedSession
  <2>3. CASE n < 0
    <3>1. disconnect("clone") /\ UNCHANGED out
      <4>1. ~(n > 0)
        BY <2>2, <2>3
      <4> QED BY <2>1, <2>3, <4>1, Zenon
    <3> QED BY <2>2, <3>1, DisconnectMaps
  <2>4. CASE ~(n < 0)
    <3>1. /\ "CLI_CONNECTED" \in state' <=> "CLI_CONNECTED" \in state
          /\ "MEM_CONNECTED" \in state' <=> "MEM_CONNECTED" \in state
          /\ UNCHANGED <<client_read_buffer, member_read_buffer>>
      BY <2>1, <2>4 DEF clone_write_data
    <3>2. out'["client"] = out["client"] /\ out'["member"] = out["member"]
      BY <2>1 DEF TypedWire
    <3> QED BY <2>2, <3>1, <3>2 DEF Promise!vars
  <2> QED BY <2>3, <2>4
<1> QED BY <1>1, <1>2

LEMMA AcceptMaps ==
  ASSUME TypedSession, Book, Orderly, AcceptSession
  PROVE  [Promise!Next]_(Promise!vars)
<1>1. PICK m \in {"none"} \cup MemberOutcomes : \E x \in CloneOutcomes(m) :
        Abandoned(m, x) \/ Established(m, x)
  BY DEF AcceptSession
<1>2. PICK x \in CloneOutcomes(m) : Abandoned(m, x) \/ Established(m, x)
  BY <1>1
<1>3. state = {} /\ client_read_buffer = <<>> /\ member_read_buffer = <<>>
  BY DEF AcceptSession, Book, Orderly, UnusedIsEmpty
<1>4. client_read_buffer' = <<>> /\ member_read_buffer' = <<>>
  BY <1>2, <1>3 DEF Abandoned, Established, buffers
<1>5. "MEM_CONNECTED" \in state' => "CLI_CONNECTED" \in state'
  BY <1>2 DEF Abandoned, Established, FlagsAfter
<1>6. got'["client"] = 0 /\ got'["member"] = 0 /\ out'["client"] = <<>> /\ out'["member"] = <<>>
  BY DEF AcceptSession
<1>7. /\ Ways(got'["client"], got'["member"]) = [w \in Promise!Ways |-> 0]
      /\ Ways(client_read_buffer', member_read_buffer') = Promise!Empty
      /\ Ways(out'["member"], out'["client"]) = Promise!Empty
  BY <1>4, <1>6 DEF Ways, Promise!Ways, Promise!Empty
<1>8. Promise!Start
  BY <1>3, <1>5, <1>7 DEF Promise!Start
<1> QED BY <1>8 DEF Promise!Next

-----------------------------------------------------------------------------
\* Every step of the program is a step of the relay or leaves it as it is.
LEMMA StepMaps == Orderly /\ IInv /\ [Next]_vars => [Promise!Next]_(Promise!vars)
<1> SUFFICES ASSUME Orderly, IInv, [Next]_vars PROVE [Promise!Next]_(Promise!vars)
  OBVIOUS
<1>1. TypedSession /\ TypedWire /\ Book
  BY DEF IInv
<1>2. CASE UNCHANGED <<state, buffers, got, out>>
  BY <1>2, Stutters DEF buffers
<1>3. CASE Accept
  BY <1>1, <1>2, <1>3, AcceptMaps DEF Accept, RejectClient, wire
<1>4. CASE ClientFailure
  BY <1>1, <1>4, DeleteMaps DEF ClientFailure, wire
<1>5. ASSUME NEW e \in Servers, ServerFailure(e) PROVE [Promise!Next]_(Promise!vars)
  BY <1>1, <1>5, DisconnectMaps DEF ServerFailure, wire
<1>6. CASE ClientRead
  BY <1>1, <1>6, ClientReadMaps DEF ClientRead
<1>7. CASE ClientWrite
  BY <1>1, <1>7, ClientWriteMaps DEF ClientWrite
<1>8. CASE MemberRead
  BY <1>1, <1>8, MemberReadMaps DEF MemberRead
<1>9. CASE MemberWrite
  BY <1>1, <1>9, MemberWriteMaps DEF MemberWrite
<1>10. CASE CloneRead \/ CloneWrite
  BY <1>1, <1>10, CloneMaps DEF CloneRead, CloneWrite
<1>11. ASSUME NEW e \in Ends, Unassociated(e) PROVE [Promise!Next]_(Promise!vars)
  BY <1>2, <1>11 DEF Unassociated, wire
<1>12. CASE EpollWait
  BY <1>2, <1>12 DEF EpollWait, wire
<1>13. CASE Peers
  BY <1>2, <1>13 DEF Peers, Establish, PeerSends, PeerCloses, Reset, master
<1>14. CASE UNCHANGED vars
  BY <1>2, <1>14 DEF vars, wire
<1> QED BY <1>3, <1>4, <1>5, <1>6, <1>7, <1>8, <1>9, <1>10, <1>11, <1>12, <1>13, <1>14
        DEF Next, Handle

\* As long as no epoll_ctl() fails and memcpy() copies upwards, the event loop
\* and its handlers implement the two bounded channels of Relay: whatever the
\* order of events and failures, every step takes, gives on, loses the member,
\* starts or stops, and nothing of one session reaches the next.
THEOREM RelayImplemented == Orderly /\ Spec => ImplementsRelay
<1>1. ASSUME Orderly PROVE Spec => ImplementsRelay
  <2>1. IInv /\ [Next]_vars => [Promise!Next]_(Promise!vars)
    BY <1>1, StepMaps
  <2> QED BY <2>1, InitMaps, Invariance, PTL DEF Spec, ImplementsRelay, Promise!Spec
<1> QED BY <1>1
=============================================================================
