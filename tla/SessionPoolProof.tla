-------------------------- MODULE SessionPoolProof --------------------------
(****************************************************************************)
(* Proofs about SessionPool, for all limits.  The inductive invariant says  *)
(* where the loop that fills the ring stands: turn i writes slot i, and the *)
(* write index is back at 0, the read index, after the last turn.           *)
(****************************************************************************)
EXTENDS SessionPool, TLAPS

USE DEF Null

\* What the loop of initialize_unused_session() has done after i turns.
Filled ==
  /\ i <= session_limit
  /\ rear = IF i = session_limit THEN 0 ELSE i
  /\ \A slot \in 0..(i - 1) : unused_sessions[slot] = slot

\* The loop has not begun before the ring exists.
Untouched == rear = 0 /\ i = 0

IInv ==
  /\ TypeOK
  /\ head = 0 /\ supplied = {}
  /\ phase \in {"initialize_fds", "initialize_sessions"} => Untouched /\ session_limit \in Nat
  /\ phase = "initialize_unused_session" => Filled
  /\ phase = "running" => Filled /\ i = session_limit
  /\ Allocated /\ session_limit > 0 => 3 * session_limit + 4 <= fd_limit

\* Advancing an index of the ring by one, as the loop does.
LEMMA RingStep ==
  ASSUME NEW size \in Nat, NEW k \in Nat, k < size
  PROVE  (k + 1) % size = IF k + 1 = size THEN 0 ELSE k + 1
<1>1. CASE k + 1 = size
  BY <1>1
<1>2. CASE k + 1 < size
  BY <1>2
<1> QED BY <1>1, <1>2

\* Three descriptors per supportable session and the four others fit.
LEMMA SupportableFits ==
  ASSUME NEW limit \in Nat
  PROVE  /\ Quot(limit - 4, 3) \in Int
         /\ Quot(limit - 4, 3) > 0 => 3 * Quot(limit - 4, 3) + 4 <= limit
  BY DEF Quot

\* The initial states satisfy the inductive invariant.
LEMMA InitIInv == Init => IInv
  BY LimitsAssumption DEF Init, IInv, TypeOK, Untouched, Allocated, Slots

\* Every step preserves the inductive invariant.
LEMMA NextIInv == IInv /\ [Next]_vars => IInv'
<1> SUFFICES ASSUME IInv, [Next]_vars PROVE IInv'
  OBVIOUS
<1> USE DEF IInv, TypeOK, Untouched, Filled, Allocated, Slots
<1>1. CASE initialize_fds
  BY <1>1 DEF initialize_fds, MallocOk, queue
<1>2. CASE initialize_sessions
  <2>1. /\ SupportableSessions \in Int
        /\ SupportableSessions > 0 => 3 * SupportableSessions + 4 <= fd_limit
    BY SupportableFits DEF SupportableSessions
  <2>2. /\ session_limit' \in Int
        /\ session_limit' > 0 => 3 * session_limit' + 4 <= fd_limit'
    BY <1>2, <2>1 DEF initialize_sessions
  <2> QED BY <1>2, <2>2 DEF initialize_sessions, MallocOk
<1>3. CASE FillQueue
  <2>1. rear = i /\ i \in Slots
    BY <1>3 DEF FillQueue
  <2>2. rear' = IF i' = session_limit THEN 0 ELSE i'
    BY <1>3, <2>1, RingStep DEF FillQueue
  <2>3. unused_sessions' \in [Slots -> Slots \cup {Null}]
    BY <1>3, <2>1 DEF FillQueue
  <2>4. \A slot \in 0..(i' - 1) : unused_sessions'[slot] = slot
    BY <1>3, <2>1 DEF FillQueue
  <2> QED BY <1>3, <2>1, <2>2, <2>3, <2>4 DEF FillQueue
<1>4. CASE StartServing
  BY <1>4 DEF StartServing, queue
<1>5. CASE AcceptClient
  BY <1>5 DEF AcceptClient, NextHead, get_new_session
<1>6. CASE UNCHANGED vars
  BY <1>6 DEF vars
<1> QED BY <1>1, <1>2, <1>3, <1>4, <1>5, <1>6 DEF Next

\* The inductive invariant implies the four properties of the passing run; the
\* third needs the balancer to run as a daemon.
LEMMA IInvImplies ==
  IInv => /\ TypeOK /\ NeverSupplies /\ AllQueued
          /\ ~Foreground => SessionsFit
<1> SUFFICES ASSUME IInv
             PROVE  /\ TypeOK /\ NeverSupplies /\ AllQueued
                    /\ ~Foreground => SessionsFit
  OBVIOUS
<1>1. TypeOK
  BY DEF IInv
<1>2. NeverSupplies
  BY DEF IInv, Filled, NeverSupplies
<1>3. AllQueued
  BY DEF IInv, Filled, AllQueued, Slots, TypeOK
<1>4. ~Foreground => SessionsFit
  BY DEF IInv, SessionsFit, Overhead, Allocated
<1> QED BY <1>1, <1>2, <1>3, <1>4

\* The inductive invariant is an invariant.
LEMMA Invariance == Spec => []IInv
  BY InitIInv, NextIInv, PTL DEF Spec

\* Every variable keeps its type and the indices stay within the ring.
THEOREM PoolTyped == Spec => []TypeOK
  BY Invariance, IInvImplies, PTL

\* Whatever the descriptor and session limits, the ring that startup fills with
\* every session reads as empty: no accepted client is ever given a session.
THEOREM NothingSupplied == Spec => []NeverSupplies
  BY Invariance, IInvImplies, PTL

\* Startup puts every session into exactly one slot of the ring.
THEOREM EverySessionQueued == Spec => []AllQueued
  BY Invariance, IInvImplies, PTL

\* A daemon never allocates more sessions than its descriptors can serve.
THEOREM DaemonSessionsFit == ~Foreground /\ Spec => []SessionsFit
<1>1. IInv /\ ~Foreground => SessionsFit
  BY IInvImplies
<1>2. ASSUME ~Foreground PROVE Spec => []SessionsFit
  <2>1. IInv => SessionsFit
    BY <1>1, <1>2
  <2> QED BY <2>1, Invariance, PTL
<1> QED BY <1>2
=============================================================================
