-------------------------------- MODULE Relay --------------------------------
(****************************************************************************)
(* What a session promises (abstract): two first-in first-out channels of   *)
(* bounded capacity, requests from a client to a member and responses back. *)
(* While the session is up each channel takes the bytes of its source in    *)
(* order and gives them on in order, every byte once.  The member may be    *)
(* lost; what it has sent by then is still given to the client.  When the   *)
(* session ends nothing of it is left for the next one.                     *)
(****************************************************************************)
EXTENDS Integers, Sequences

CONSTANTS
  Capacity,  \* bytes a channel holds
  Byte(_)    \* the bytes of a source

Ways == {"request", "response"}

VARIABLES
  up,      \* is there a session?
  linked,  \* is its member there?
  taken,   \* how many bytes have been taken from each source
  queue,   \* the bytes taken and not given on
  given    \* the bytes given on

vars == <<up, linked, taken, queue, given>>

Empty == [w \in Ways |-> <<>>]

Init ==
  /\ ~up /\ ~linked
  /\ taken = [w \in Ways |-> 0]
  /\ queue = Empty
  /\ given = Empty

\* A client comes; it may be turned away.
Start ==
  /\ ~up
  /\ up' \in BOOLEAN /\ linked' \in BOOLEAN /\ (linked' => up')
  /\ taken' = [w \in Ways |-> 0]
  /\ queue' = Empty
  /\ given' = Empty

\* The n bytes that follow the ones taken.
Following(w, n) == [k \in 1..n |-> Byte(taken[w] + k)]

Take(w) ==
  /\ up
  /\ w = "response" => linked
  /\ \E n \in 1..(Capacity - Len(queue[w])) :
       /\ queue' = [queue EXCEPT ![w] = @ \o Following(w, n)]
       /\ taken' = [taken EXCEPT ![w] = @ + n]
  /\ UNCHANGED <<up, linked, given>>

Give(w) ==
  /\ up
  /\ w = "request" => linked
  /\ \E n \in 1..Len(queue[w]) :
       /\ given' = [given EXCEPT ![w] = @ \o SubSeq(queue[w], 1, n)]
       /\ queue' = [queue EXCEPT ![w] = SubSeq(@, n + 1, Len(@))]
  /\ UNCHANGED <<up, linked, taken>>

LoseMember ==
  /\ up /\ linked
  /\ linked' = FALSE
  /\ UNCHANGED <<up, taken, queue, given>>

\* The last of the response may be given on as the session ends.
Stop ==
  /\ up
  /\ ~up' /\ ~linked'
  /\ queue' = Empty
  /\ \/ UNCHANGED given
     \/ given' = [given EXCEPT !["response"] = @ \o queue["response"]]
  /\ UNCHANGED taken

Next == Start \/ (\E w \in Ways : Take(w) \/ Give(w)) \/ LoseMember \/ Stop

Spec == Init /\ [][Next]_vars

=============================================================================
