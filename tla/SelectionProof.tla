---------------------------- MODULE SelectionProof ----------------------------
(****************************************************************************)
(* Proofs about Selection: what the balancing algorithms choose and what    *)
(* the hash table holds, for any number of servers, limits, loads and       *)
(* hashes and however the table changes between two choices.                *)
(****************************************************************************)
EXTENDS Selection, FiniteSetTheorems, WellFoundedInduction, TLAPS

Server == [status : {"FREE", "DELETED", "FAILED", "DISABLED", "ENABLED"},
           standby : BOOLEAN, c : Nat, load : Int]

ServersTyped == DOMAIN servers = Kinds /\ \A k \in Kinds : servers[k] \in [Ids(k) -> Server]

Typed == TypeOK /\ ServersTyped

\* The members of A that come after i up to m, in the order of the round.
Turn(A, i, m) == IF i <= m THEN {j \in A : i < j /\ j <= m}
                           ELSE {j \in A : i < j \/ j <= m}

PassedTyped ==
  passed \in [avail : SUBSET Ids("members"), restarted : BOOLEAN, times : [Ids("members") -> Nat]]

\* While the available members stay the same and no standby clone restarts the
\* round, a member was passed over at most as often as there are members between
\* it and the last one chosen.
Turns ==
  /\ passed.avail # {} => next["members"] \in passed.avail
  /\ ~passed.restarted => \A i \in Ids("members") :
       passed.times[i] <= IF i \in passed.avail
                          THEN Cardinality(Turn(passed.avail, i, next["members"])) ELSE 0

\* What choose_server() has decided.
Chosen ==
  /\ choice.at = "chosen" =>
       /\ next["members"] \in Available("members")
       /\ choice.clone => Usable("clones", next["clones"])
  /\ choice.at = "rejected" => Available("members") = {}

IInv == Typed /\ UsageExact /\ PinsToServers /\ Turns /\ Chosen /\ CheapestChosen

USE DEF Kinds, HASH_VAL_FREE, SNMP_LOAD_NOT_INIT, NoUri

-----------------------------------------------------------------------------
(* Least elements, and the n-th of a set of numbers.                         *)

\* A function on a nonempty finite set takes its least value.
LEMMA LeastValue ==
  ASSUME NEW S, IsFiniteSet(S), S # {}, NEW f \in [S -> Int]
  PROVE  \E x \in S : \A y \in S : f[x] <= f[y]
<1> DEFINE below(m) == {x \in S : f[x] < f[m]}
           T == {below(m) : m \in S}
<1>1. T \subseteq SUBSET S /\ T # {}
  <2>1. T \subseteq SUBSET S
    OBVIOUS
  <2>2. PICK m \in S : TRUE
    OBVIOUS
  <2>3. below(m) \in T
    OBVIOUS
  <2> QED BY <2>1, <2>3
<1>2. FiniteSubsetsOf(S) = SUBSET S
  BY FS_FiniteSubsetsOfFinite
<1>3. IsWellFoundedOn(StrictSubsetOrdering(S), SUBSET S)
  BY <1>2, FS_StrictSubsetOrderingWellFounded
<1>4. \E x \in T : \A y \in T : ~ (<<y, x>> \in StrictSubsetOrdering(S))
  BY <1>1, <1>3, WFMin
<1>5. PICK i \in S : \A y \in T : ~ (<<y, below(i)>> \in StrictSubsetOrdering(S))
  BY <1>4
<1>6. ASSUME NEW j \in S, f[j] < f[i] PROVE FALSE
  <2>1. f[i] \in Int /\ f[j] \in Int /\ \A x \in S : f[x] \in Int
    OBVIOUS
  <2>2. \A x \in S : f[x] < f[j] => f[x] < f[i]
    BY <1>6, <2>1
  <2>3. below(j) \subseteq below(i) /\ j \in below(i)
    BY <1>6, <2>2
  <2>4. j \notin below(j)
    <3>1. ~(f[j] < f[j])
      BY <2>1
    <3> QED BY <3>1
  <2>5. <<below(j), below(i)>> \in StrictSubsetOrdering(S)
    BY <2>3, <2>4 DEF StrictSubsetOrdering
  <2> QED BY <1>5, <2>5
<1> QED BY <1>6

\* Every array has finitely many servers.
LEMMA IdsFinite ==
  ASSUME NEW k \in Kinds
  PROVE  /\ Slots[k] \in Nat \ {0} /\ Ids(k) \in SUBSET Nat /\ 0 \in Ids(k)
         /\ \A S \in SUBSET Ids(k) : IsFiniteSet(S) /\ Cardinality(S) \in Nat
<1>1. Slots[k] \in Nat \ {0} /\ Ids(k) \in SUBSET Nat /\ 0 \in Ids(k)
  BY SlotsAssumption DEF Ids
<1>2. IsFiniteSet(Ids(k))
  <2>1. 0 \in Int /\ Slots[k] - 1 \in Int
    BY <1>1
  <2> QED BY <2>1, FS_Interval DEF Ids
<1> QED BY <1>1, <1>2, FS_Subset, FS_CardinalityType

LEMMA FirstIs ==
  ASSUME NEW k \in Kinds, NEW S \in SUBSET Ids(k), S # {}
  PROVE  First(S) \in S /\ \A y \in S : First(S) <= y
<1>1. IsFiniteSet(S) /\ S \in SUBSET Nat
  BY IdsFinite
<1> DEFINE f == [x \in S |-> x]
<1>2. f \in [S -> Int]
  BY <1>1
<1>3. \E x \in S : \A y \in S : f[x] <= f[y]
  BY <1>1, <1>2, LeastValue
<1>4. \E x \in S : \A y \in S : x <= y
  BY <1>3
<1> QED BY <1>4 DEF First

\* Least(S, i, cost) is i or one of S, and costs at most what those do.
LEMMA LeastIs ==
  ASSUME NEW k \in Kinds, NEW S \in SUBSET Ids(k), NEW i \in Ids(k), NEW cost \in [Ids(k) -> Int]
  PROVE  /\ Least(S, i, cost) \in S \cup {i}
         /\ \A j \in S : cost[Least(S, i, cost)] <= cost[j]
<1> DEFINE better == {j \in S : cost[j] < cost[i]}
           best == {j \in better : \A l \in better : cost[j] <= cost[l]}
<1>1. \A j \in S \cup {i} : cost[j] \in Int
  OBVIOUS
<1>2. CASE better = {}
  <2>1. Least(S, i, cost) = i
    BY <1>2 DEF Least
  <2> QED BY <1>1, <1>2, <2>1
<1>3. CASE better # {}
  <2>1. better \in SUBSET Ids(k) /\ IsFiniteSet(better)
    BY IdsFinite
  <2> DEFINE f == [j \in better |-> cost[j]]
  <2>2. f \in [better -> Int]
    BY <1>1
  <2>3. \E x \in better : \A y \in better : f[x] <= f[y]
    BY <1>3, <2>1, <2>2, LeastValue
  <2>4. best # {} /\ best \in SUBSET Ids(k)
    BY <2>1, <2>3
  <2>5. First(best) \in best
    BY <2>4, FirstIs
  <2>6. Least(S, i, cost) = First(best)
    BY <1>3 DEF Least
  <2>7. \A j \in S : cost[First(best)] <= cost[j]
    BY <1>1, <2>5
  <2> QED BY <2>5, <2>6, <2>7
<1> QED BY <1>2, <1>3

\* hash % count is the place of an entry.
LEMMA NthIs ==
  ASSUME NEW k \in Kinds, NEW S \in SUBSET Ids(k), S # {}, NEW h \in Nat
  PROVE  Nth(S, h) \in S
<1> DEFINE c == Cardinality(S)
           before(m) == {x \in S : x < m}
           r == [i \in S |-> Cardinality(before(i))]
           T == 0..(c - 1)
<1>1. S \in SUBSET Nat /\ \A U \in SUBSET S : IsFiniteSet(U) /\ Cardinality(U) \in Nat
  BY IdsFinite
<1>2. IsFiniteSet(S) /\ c \in Nat /\ c # 0
  BY <1>1, FS_EmptySet
<1>3. \A i \in S : before(i) \in SUBSET S /\ i \notin before(i)
  BY <1>1
<1> HIDE DEF before
<1>4. \A i \in S : r[i] \in T
  <2> SUFFICES ASSUME NEW i \in S PROVE Cardinality(before(i)) \in T
    OBVIOUS
  <2>1. Cardinality(before(i)) \in Nat /\ Cardinality(before(i)) <= c
    BY <1>1, <1>2, <1>3, FS_Subset
  <2>2. Cardinality(before(i)) # c
    BY <1>2, <1>3, FS_Subset
  <2> QED BY <1>2, <2>1, <2>2
<1>5. \A i, j \in S : i < j => r[i] < r[j]
  <2> SUFFICES ASSUME NEW i \in S, NEW j \in S, i < j
               PROVE  Cardinality(before(i)) < Cardinality(before(j))
    OBVIOUS
  <2>1. before(i) \subseteq before(j) /\ i \in before(j)
    <3>1. \A x \in S : x < i => x < j
      BY <1>1
    <3> QED BY <3>1 DEF before
  <2>2. IsFiniteSet(before(j)) /\ Cardinality(before(j)) \in Nat /\ Cardinality(before(i)) \in Nat
    BY <1>1, <1>3
  <2>3. Cardinality(before(i)) <= Cardinality(before(j)) /\ Cardinality(before(i)) # Cardinality(before(j))
    BY <1>3, <2>1, <2>2, FS_Subset
  <2> QED BY <2>2, <2>3
<1>6. r \in Injection(S, T)
  <2>1. r \in [S -> T]
    BY <1>4
  <2>2. \A i, j \in S : r[i] = r[j] => i = j
    <3>1. \A i \in S : r[i] \in Nat /\ i \in Nat
      BY <1>1, <1>4, <1>2
    <3> QED BY <1>5, <3>1
  <2> HIDE DEF r
  <2> QED BY <2>1, <2>2 DEF Injection, IsInjective
<1>7. IsFiniteSet(T) /\ Cardinality(T) = c
  <2>1. 0 \in Int /\ c - 1 \in Int /\ ~(0 > c - 1) /\ (c - 1) - 0 + 1 = c
    BY <1>2
  <2> QED BY <2>1, FS_Interval
<1>8. r \in Surjection(S, T)
  BY <1>6, <1>7, FS_Injection
<1>9. h % c \in T
  BY <1>2
<1>10. \E i \in S : r[i] = h % c
  BY <1>8, <1>9 DEF Surjection
<1>11. \E i \in S : Cardinality(before(i)) = h % c
  BY <1>10
<1>12. \E i \in S : Cardinality({j \in S : j < i}) = h % c
  BY <1>11 DEF before
<1> QED BY <1>12 DEF Nth

-----------------------------------------------------------------------------
(* What the algorithms return.                                               *)

LEMMA AvailableIs ==
  ASSUME NEW k \in Kinds
  PROVE  /\ Available(k) \in SUBSET Ids(k)
         /\ \A i \in Available(k) : Usable(k, i)
         /\ Available(k) = {} <=> \A i \in Ids(k) : ~Usable(k, i)
         /\ \A i \in Ids(k) : Usable(k, i) /\ (servers[k][i].standby => Normal(k) = {})
                                <=> i \in Available(k)
  BY DEF Available, Normal

\* The costs are numbers.
LEMMA CostsAre ==
  ASSUME Typed, NEW k \in Kinds
  PROVE  connections(k) \in [Ids(k) -> Int] /\ weighted_load(k) \in [Ids(k) -> Int]
<1>1. \A i \in Ids(k) : servers[k][i] \in Server
  BY DEF Typed, ServersTyped
<1>2. ASSUME NEW i \in Ids(k)
      PROVE  /\ servers[k][i].c \in Int
             /\ servers[k][i].load + servers[k][i].c * session_weight \in Int
  <2>1. servers[k][i].c \in Nat /\ servers[k][i].load \in Int /\ session_weight \in Nat
    BY <1>1, LimitAssumption DEF Server
  <2>2. servers[k][i].c * session_weight \in Int
    BY <2>1
  <2> QED BY <2>1, <2>2
<1> QED BY <1>2 DEF connections, weighted_load

\* After verify_server() the next member is one that may be chosen.
LEMMA VerifiedMember ==
  ASSUME Typed, Available("members") # {}
  PROVE  Verified("members") \in Available("members")
<1>1. next["members"] \in Ids("members")
  BY DEF Typed, TypeOK
<1>2. First(Available("members")) \in Available("members")
  BY AvailableIs, FirstIs
<1>3. CASE Usable("members", next["members"]) /\ ~StandbyInVain("members")
  <2>1. next["members"] \in Available("members")
    BY <1>1, <1>3, AvailableIs DEF StandbyInVain
  <2> QED BY <1>2, <1>3, <2>1 DEF Verified
<1>4. CASE ~(Usable("members", next["members"]) /\ ~StandbyInVain("members"))
  BY <1>2, <1>4 DEF Verified
<1> QED BY <1>3, <1>4

\* The next clone can be used when clones are chosen at all; otherwise it is
\* left as it is.
LEMMA VerifiedClone ==
  ASSUME Typed
  PROVE  /\ Verified("clones") \in Ids("clones")
         /\ use_clone => Usable("clones", Verified("clones"))
         /\ ~use_clone => Verified("clones") = next["clones"]
<1>1. next["clones"] \in Ids("clones")
  BY DEF Typed, TypeOK
<1>2. CASE use_clone /\ ~Usable("clones", next["clones"])
  <2>1. First(Available("clones")) \in Available("clones")
    BY <1>2, AvailableIs, FirstIs DEF use_clone
  <2>2. Verified("clones") = First(Available("clones"))
    BY <1>2 DEF Verified
  <2> QED BY <1>2, <2>1, <2>2, AvailableIs
<1>3. CASE ~(use_clone /\ ~Usable("clones", next["clones"]))
  <2>1. Verified("clones") = next["clones"]
    BY <1>3 DEF Verified
  <2> QED BY <1>1, <1>3, <2>1
<1> QED BY <1>2, <1>3

\* What an algorithm makes of S, the servers that may be chosen, and of the
\* verified one, i: one of S or, for clones, i.
LEMMA RoundIs ==
  ASSUME Typed, NEW k \in Kinds, Applies(k)
  PROVE  set_rr_server(k) \in Available(k) \cup {Verified(k)}
<1> DEFINE S == Available(k)
           i == Verified(k)
<1>1. S \in SUBSET Ids(k)
  BY AvailableIs
<1>2. CASE i \notin S
  BY <1>2 DEF set_rr_server
<1>3. CASE i \in S /\ \E j \in S : j > i
  <2>1. {j \in S : j > i} # {} /\ {j \in S : j > i} \in SUBSET Ids(k)
    BY <1>1, <1>3
  <2>2. First({j \in S : j > i}) \in {j \in S : j > i}
    BY <2>1, FirstIs
  <2> QED BY <1>3, <2>2 DEF set_rr_server
<1>4. CASE i \in S /\ ~\E j \in S : j > i
  <2>1. First(S) \in S
    BY <1>1, <1>4, FirstIs
  <2> QED BY <1>4, <2>1 DEF set_rr_server
<1> QED BY <1>2, <1>3, <1>4

LEMMA LowestIs ==
  ASSUME Typed, NEW k \in Kinds, Applies(k), Verified(k) \in Ids(k)
  PROVE  /\ set_lc_server(k) \in Available(k) \cup {Verified(k)}
         /\ \A j \in Available(k) : connections(k)[set_lc_server(k)] <= connections(k)[j]
         /\ set_ll_server(k) \in Available(k) \cup {Verified(k)}
         /\ \A j \in Available(k) : weighted_load(k)[set_ll_server(k)] <= weighted_load(k)[j]
<1>1. Available(k) \in SUBSET Ids(k)
  BY AvailableIs
<1>2. set_rr_server(k) \in Available(k) \cup {Verified(k)} /\ set_rr_server(k) \in Ids(k)
  BY <1>1, RoundIs
<1>3. connections(k) \in [Ids(k) -> Int] /\ weighted_load(k) \in [Ids(k) -> Int]
  BY CostsAre
<1>4. /\ set_lc_server(k) = Least(Available(k), set_rr_server(k), connections(k))
      /\ set_ll_server(k) = Least(Available(k), Verified(k), weighted_load(k))
  BY DEF set_lc_server, set_ll_server
<1>5. /\ Least(Available(k), set_rr_server(k), connections(k)) \in Available(k) \cup {set_rr_server(k)}
      /\ \A j \in Available(k) :
           connections(k)[Least(Available(k), set_rr_server(k), connections(k))] <= connections(k)[j]
  BY <1>1, <1>2, <1>3, LeastIs
<1>6. /\ Least(Available(k), Verified(k), weighted_load(k)) \in Available(k) \cup {Verified(k)}
      /\ \A j \in Available(k) :
           weighted_load(k)[Least(Available(k), Verified(k), weighted_load(k))] <= weighted_load(k)[j]
  BY <1>1, <1>3, LeastIs
<1> QED BY <1>2, <1>4, <1>5, <1>6

LEMMA RequestIs ==
  ASSUME NEW uri \in Requests
  PROVE  uri = NoUri \/ (uri \in Hashes /\ uri \in Nat /\ uri # NoUri)
  BY InputAssumption DEF Requests

\* Whatever the algorithm, the member chosen is one that may be chosen.
LEMMA SelectedMember ==
  ASSUME Typed, Available("members") # {}, NEW uri \in Requests
  PROVE  Selected("members", uri) \in Available("members")
<1>1. Applies("members") /\ Available("members") \in SUBSET Ids("members")
      /\ Verified("members") \in Available("members")
  BY AvailableIs, VerifiedMember DEF Applies
<1>2. set_rr_server("members") \in Available("members")
  BY <1>1, RoundIs
<1>3. set_lc_server("members") \in Available("members") /\ set_ll_server("members") \in Available("members")
  BY <1>1, LowestIs
<1>4. uri # NoUri => Nth(Available("members"), uri) \in Available("members")
  BY <1>1, NthIs, RequestIs
<1>5. set_static_server("members", uri) \in Available("members")
  BY <1>1, <1>3, <1>4 DEF set_static_server
<1>6. set_hash_server("members", uri) \in Available("members")
  <2>1. CASE Hit(uri)
    <3>1. hash_table[uri] \in Ids("members")
      BY <2>1, RequestIs DEF Hit, Typed, TypeOK
    <3>2. hash_table[uri] \in Available("members")
      BY <2>1, <3>1, AvailableIs DEF Hit
    <3> QED BY <2>1, <3>2 DEF set_hash_server
  <2>2. CASE ~Hit(uri)
    BY <1>3, <2>2 DEF set_hash_server
  <2> QED BY <2>1, <2>2
<1>7. algorithm \in Algorithms
  BY DEF Typed, TypeOK
<1> QED BY <1>2, <1>3, <1>5, <1>6, <1>7 DEF Selected, Algorithms

\* A clone that is chosen can be used.
LEMMA SelectedClone ==
  ASSUME Typed, NEW uri \in Requests
  PROVE  /\ Selected("clones", uri) \in Ids("clones")
         /\ use_clone => Usable("clones", Selected("clones", uri))
<1>1. /\ Available("clones") \in SUBSET Ids("clones") /\ \A i \in Available("clones") : Usable("clones", i)
      /\ Verified("clones") \in Ids("clones") /\ Applies("clones") = use_clone
      /\ algorithm \in Algorithms
  BY AvailableIs, VerifiedClone DEF Applies, use_clone, Typed, TypeOK
<1>2. CASE use_clone
  <2> DEFINE Fine == Available("clones") \cup {Verified("clones")}
  <2>1. Applies("clones") /\ Available("clones") # {}
    BY <1>1, <1>2 DEF use_clone
  <2>2. Fine \subseteq Ids("clones") /\ \A i \in Fine : Usable("clones", i)
    BY <1>1, <1>2, VerifiedClone
  <2>3. set_rr_server("clones") \in Fine
    BY <2>1, RoundIs
  <2>4. set_lc_server("clones") \in Fine /\ set_ll_server("clones") \in Fine
    BY <1>1, <2>1, LowestIs
  <2>5. uri # NoUri => Nth(Available("clones"), uri) \in Fine
    BY <1>1, <2>1, NthIs, RequestIs
  <2>6. set_static_server("clones", uri) \in Fine
    BY <2>1, <2>4, <2>5 DEF set_static_server
  <2>7. set_hash_server("clones", uri) \in Fine
    BY <1>2, <2>4, <2>5 DEF set_hash_server, Hit
  <2>8. Selected("clones", uri) \in Fine
    BY <1>1, <2>3, <2>4, <2>6, <2>7 DEF Selected, Algorithms
  <2> QED BY <2>2, <2>8
<1>3. CASE ~use_clone
  <2>1. ~Applies("clones")
    BY <1>3 DEF Applies
  <2>2. /\ set_rr_server("clones") = Verified("clones")
        /\ set_lc_server("clones") = Verified("clones")
        /\ set_ll_server("clones") = Verified("clones")
    BY <2>1 DEF set_rr_server, set_lc_server, set_ll_server
  <2>3. set_static_server("clones", uri) = Verified("clones")
    BY <2>1, <2>2 DEF set_static_server
  <2>4. set_hash_server("clones", uri) = Verified("clones")
    BY <1>3, <2>2 DEF set_hash_server
  <2>5. Selected("clones", uri) = Verified("clones")
    BY <1>1, <2>2, <2>3, <2>4 DEF Selected, Algorithms
  <2> QED BY <1>1, <1>3, <2>5
<1> QED BY <1>2, <1>3

-----------------------------------------------------------------------------
(* A choice.                                                                 *)

LEMMA SameServers ==
  ASSUME UNCHANGED <<servers, settings>>, NEW k \in Kinds
  PROVE  /\ Available(k)' = Available(k) /\ \A i : Usable(k, i)' = Usable(k, i)
         /\ weighted_load(k)' = weighted_load(k)
<1>1. UNCHANGED <<servers, overload_mode>>
  BY DEF settings
<1>2. \A i : Usable(k, i)' = Usable(k, i)
  BY <1>1 DEF Usable, e_load
<1>3. Normal(k)' = Normal(k)
  BY <1>1, <1>2 DEF Normal
<1>4. Available(k)' = Available(k)
  BY <1>2, <1>3 DEF Available
<1> QED BY <1>1, <1>2, <1>4 DEF weighted_load

LEMMA ChooseIs ==
  ASSUME Typed, NEW uri \in Requests, choose_server(uri), Available("members") # {}
  PROVE  /\ next' = [k \in Kinds |-> Selected(k, uri)]
         /\ next'["members"] = Selected("members", uri) /\ next'["clones"] = Selected("clones", uri)
         /\ choice' = [at |-> "chosen", clone |-> use_clone]
         /\ passed' = PassedOver(next'["members"])
  BY DEF choose_server

\* What is chosen, or that nothing can be.
LEMMA ChooseChosen ==
  ASSUME Typed, NEW uri \in Requests, choose_server(uri)
  PROVE  Chosen' /\ CheapestChosen'
<1>1. UNCHANGED <<servers, settings>> /\ algorithm' = algorithm
  BY DEF choose_server, settings
<1>2. /\ Available("members")' = Available("members")
      /\ \A i : Usable("clones", i)' = Usable("clones", i)
      /\ weighted_load("members")' = weighted_load("members")
  BY <1>1, SameServers
<1>3. CASE Available("members") = {}
  <2>1. choice' = [at |-> "rejected"]
    BY <1>3 DEF choose_server
  <2> QED BY <1>2, <1>3, <2>1 DEF Chosen, CheapestChosen
<1>4. CASE Available("members") # {}
  <2>1. /\ next'["members"] = Selected("members", uri) /\ next'["clones"] = Selected("clones", uri)
        /\ choice' = [at |-> "chosen", clone |-> use_clone]
    BY <1>4, ChooseIs
  <2>2. next'["members"] \in Available("members") /\ (use_clone => Usable("clones", next'["clones"]))
    BY <1>4, <2>1, SelectedMember, SelectedClone
  <2>3. Chosen'
    BY <1>2, <2>1, <2>2 DEF Chosen
  <2>4. Applies("members") /\ Verified("members") \in Ids("members")
        /\ Available("members") \in SUBSET Ids("members")
    BY <1>4, AvailableIs, VerifiedMember DEF Applies
  <2>5. ASSUME algorithm = "LC", NEW i \in Available("members")
        PROVE  servers["members"][next'["members"]].c <= servers["members"][i].c
    <3>1. next'["members"] = set_lc_server("members")
      BY <2>1, <2>5 DEF Selected
    <3>2. connections("members")[next'["members"]] <= connections("members")[i]
      BY <2>4, <2>5, <3>1, LowestIs
    <3> QED BY <2>2, <2>4, <3>2 DEF connections
  <2>6. ASSUME algorithm = "LL", NEW i \in Available("members")
        PROVE  weighted_load("members")[next'["members"]] <= weighted_load("members")[i]
    <3>1. next'["members"] = set_ll_server("members")
      BY <2>1, <2>6 DEF Selected
    <3> QED BY <2>4, <2>6, <3>1, LowestIs
  <2>7. CheapestChosen'
    BY <1>1, <1>2, <2>5, <2>6 DEF CheapestChosen
  <2> QED BY <2>3, <2>7
<1> QED BY <1>3, <1>4

\* One more step of the round: m2 comes after m.
LEMMA TurnGrows ==
  ASSUME NEW S \in SUBSET Nat, NEW m \in S, NEW m2 \in S, NEW i \in S, i # m2,
         \/ m2 > m /\ \A j \in S : j > m => m2 <= j
         \/ (\A j \in S : j <= m) /\ (\A j \in S : m2 <= j)
  PROVE  Turn(S, i, m2) = Turn(S, i, m) \cup {m2} /\ m2 \notin Turn(S, i, m)
<1>1. m \in Nat /\ m2 \in Nat /\ i \in Nat /\ \A j \in S : j \in Nat
  OBVIOUS
<1>2. CASE i < m2
  <2>1. i <= m
    BY <1>1, <1>2
  <2>2. \A j \in S : i < j /\ j <= m2 <=> (i < j /\ j <= m) \/ j = m2
    BY <1>1, <1>2, <2>1
  <2>3. ~(m2 <= m)
    BY <1>1, <1>2
  <2>4. i <= m2
    BY <1>1, <1>2
  <2>5. Turn(S, i, m2) = {j \in S : i < j /\ j <= m2} /\ Turn(S, i, m) = {j \in S : i < j /\ j <= m}
    BY <2>1, <2>4 DEF Turn
  <2> QED BY <2>2, <2>3, <2>5
<1>3. CASE m2 < i
  <2>1. ~(i <= m2) /\ ~(i < m2)
    BY <1>1, <1>3
  <2>2. Turn(S, i, m2) = {j \in S : i < j \/ j <= m2}
    BY <2>1 DEF Turn
  <2>3. CASE i <= m
    <3>1. (\A j \in S : j <= m) /\ (\A j \in S : m2 <= j)
      BY <1>1, <1>3, <2>3
    <3>2. \A j \in S : i < j \/ j <= m2 <=> (i < j /\ j <= m) \/ j = m2
      BY <1>1, <3>1
    <3>3. Turn(S, i, m) = {j \in S : i < j /\ j <= m}
      BY <2>3 DEF Turn
    <3> QED BY <2>1, <2>2, <3>2, <3>3
  <2>4. CASE ~(i <= m)
    <3>1. m2 > m /\ \A j \in S : j > m => m2 <= j
      BY <1>1, <2>4
    <3>2. \A j \in S : i < j \/ j <= m2 <=> (i < j \/ j <= m) \/ j = m2
      BY <1>1, <3>1
    <3>3. Turn(S, i, m) = {j \in S : i < j \/ j <= m} /\ ~(m2 <= m)
      BY <1>1, <2>4, <3>1 DEF Turn
    <3> QED BY <2>1, <2>2, <3>2, <3>3
  <2> QED BY <2>3, <2>4
<1> QED BY <1>1, <1>2, <1>3

\* RR chooses the next of the round.
LEMMA RoundStep ==
  ASSUME Typed, algorithm = "RR", NEW uri, ~RoundRestarted, next["members"] \in Available("members")
  PROVE  LET S  == Available("members")
             m  == next["members"]
             m2 == Selected("members", uri)
         IN  /\ m2 \in S
             /\ \/ m2 > m /\ \A j \in S : j > m => m2 <= j
                \/ (\A j \in S : j <= m) /\ (\A j \in S : m2 <= j)
<1> DEFINE S == Available("members")
           m == next["members"]
           m2 == Selected("members", uri)
           after == {j \in S : j > m}
<1>1. S \in SUBSET Ids("members") /\ S \in SUBSET Nat /\ m \in Nat
  BY AvailableIs, IdsFinite
<1>2. Verified("members") = m
  <2>1. Usable("members", m) /\ ~StandbyInVain("members")
    BY AvailableIs DEF StandbyInVain
  <2> QED BY <2>1 DEF Verified
<1>3. m2 = IF \E j \in S : j > m THEN First(after) ELSE First(S)
  BY <1>2 DEF Selected, set_rr_server, Applies
<1>4. CASE \E j \in S : j > m
  <2>1. after # {} /\ after \in SUBSET Ids("members")
    BY <1>1, <1>4
  <2>2. First(after) \in after /\ \A j \in after : First(after) <= j
    BY <2>1, FirstIs
  <2> QED BY <1>3, <1>4, <2>2
<1>5. CASE ~\E j \in S : j > m
  <2>1. First(S) \in S /\ \A j \in S : First(S) <= j
    BY <1>1, FirstIs
  <2>2. \A j \in S : j <= m
    BY <1>1, <1>5
  <2> QED BY <1>3, <1>5, <2>1, <2>2
<1> QED BY <1>4, <1>5

LEMMA ChooseTurns ==
  ASSUME Typed, Turns, NEW uri \in Requests, choose_server(uri)
  PROVE  Turns' /\ PassedTyped'
<1>1. PassedTyped /\ passed.avail \subseteq Ids("members") /\ passed.times \in [Ids("members") -> Nat]
  BY DEF Typed, TypeOK, PassedTyped
<1>2. CASE Available("members") = {}
  BY <1>1, <1>2 DEF choose_server, Turns, PassedTyped
<1>3. CASE Available("members") # {}
  <2> DEFINE S == Available("members")
             m2 == Selected("members", uri)
  <2>1. passed' = PassedOver(m2) /\ next'["members"] = m2
    BY <1>3, ChooseIs
  <2>2. CASE algorithm # "RR"
    <3>1. passed' = NothingPassed
      BY <2>1, <2>2 DEF PassedOver
    <3> QED BY <3>1 DEF NothingPassed, Turns, PassedTyped
  <2>3. CASE algorithm = "RR"
    <3>1. S \in SUBSET Ids("members") /\ S \in SUBSET Nat /\ m2 \in S
      BY <1>3, AvailableIs, IdsFinite, SelectedMember
    <3> DEFINE goesOn == passed.avail = S /\ ~passed.restarted
               times  == [i \in Ids("members") |->
                            IF i \notin S \ {m2} THEN 0
                            ELSE IF goesOn THEN passed.times[i] + 1 ELSE 1]
    <3>2. passed' = [avail |-> S, restarted |-> RoundRestarted, times |-> times]
      BY <2>1, <2>3 DEF PassedOver
    <3>3. passed'.avail = S /\ passed'.times = times /\ passed'.restarted = RoundRestarted
      BY <3>2
    <3>4. PassedTyped'
      <4>1. times \in [Ids("members") -> Nat]
        BY <1>1
      <4>2. RoundRestarted \in BOOLEAN
        BY DEF RoundRestarted
      <4> HIDE DEF times
      <4> QED BY <3>1, <3>2, <4>1, <4>2 DEF PassedTyped
    <3> HIDE DEF S, m2
    <3>5. \A i \in S : IsFiniteSet(Turn(S, i, m2)) /\ Cardinality(Turn(S, i, m2)) \in Nat
      <4>1. \A i \in S : Turn(S, i, m2) \in SUBSET Ids("members")
        BY <3>1 DEF Turn
      <4> QED BY <4>1, IdsFinite
    <3>6. ASSUME NEW i \in S, i # m2, goesOn, ~RoundRestarted
          PROVE  passed.times[i] + 1 <= Cardinality(Turn(S, i, m2))
      <4> DEFINE m == next["members"]
      <4>1. m \in S
        BY <3>6 DEF Turns
      <4>2. \/ m2 > m /\ \A j \in S : j > m => m2 <= j
            \/ (\A j \in S : j <= m) /\ (\A j \in S : m2 <= j)
        BY <2>3, <3>6, <4>1, RoundStep DEF S, m2
      <4> HIDE DEF m
      <4>3. Turn(S, i, m2) = Turn(S, i, m) \cup {m2} /\ m2 \notin Turn(S, i, m)
        BY <3>1, <3>6, <4>1, <4>2, TurnGrows
      <4>4. Turn(S, i, m) \in SUBSET Ids("members")
        BY <3>1 DEF Turn
      <4>5. IsFiniteSet(Turn(S, i, m)) /\ Cardinality(Turn(S, i, m)) \in Nat
        BY <4>4, IdsFinite
      <4>6. Cardinality(Turn(S, i, m2)) = Cardinality(Turn(S, i, m)) + 1
        BY <4>3, <4>5, FS_AddElement
      <4>7. i \in Ids("members") /\ passed.times[i] \in Nat /\ passed.times[i] <= Cardinality(Turn(S, i, m))
        BY <1>1, <3>1, <3>6 DEF Turns, m
      <4> QED BY <4>5, <4>6, <4>7
    <3>7. ASSUME NEW i \in S, i # m2 PROVE 1 <= Cardinality(Turn(S, i, m2))
      <4>1. m2 \in Turn(S, i, m2)
        BY <3>1, <3>7 DEF Turn
      <4>2. Cardinality(Turn(S, i, m2)) # 0
        BY <3>5, <4>1, FS_EmptySet
      <4> QED BY <3>5, <4>2
    <3>8. ASSUME NEW i \in Ids("members"), ~RoundRestarted
          PROVE  passed'.times[i] <= IF i \in S THEN Cardinality(Turn(S, i, m2)) ELSE 0
      BY <3>3, <3>5, <3>6, <3>7, <3>8
    <3>9. Turns'
      BY <2>1, <3>1, <3>3, <3>8 DEF Turns, m2
    <3> QED BY <3>4, <3>9
  <2> QED BY <2>2, <2>3
<1> QED BY <1>2, <1>3

-----------------------------------------------------------------------------
(* The hash table.                                                           *)

Pinned(i) == {h \in Hashes : hash_table[h] = i}

HashTyped == /\ hash_table \in [Hashes -> Ids("members") \cup {HASH_VAL_FREE}]
             /\ hash_table_usage \in [Ids("members") -> Nat]

LEMMA UsageIs ==
  /\ UsageExact <=> \A i \in Ids("members") : hash_table_usage[i] = Cardinality(Pinned(i))
  /\ UsageExact' <=> \A i \in Ids("members") : hash_table_usage'[i] = Cardinality(Pinned(i)')
  BY DEF UsageExact, Pinned

LEMMA PinnedFinite ==
  ASSUME NEW S \in SUBSET Hashes
  PROVE  IsFiniteSet(S) /\ Cardinality(S) \in Nat
  BY InputAssumption, FS_Subset, FS_CardinalityType

\* An exact count is a number.
LEMMA UsageTyped ==
  ASSUME UsageExact', hash_table' \in [Hashes -> Ids("members") \cup {HASH_VAL_FREE}],
         NEW f, hash_table_usage' = [i \in Ids("members") |-> f[i]]
  PROVE  HashTyped'
<1>1. ASSUME NEW i \in Ids("members") PROVE hash_table_usage'[i] \in Nat
  <2>1. Pinned(i)' \in SUBSET Hashes
    BY DEF Pinned
  <2> QED BY <2>1, UsageIs, PinnedFinite
<1> QED BY <1>1 DEF HashTyped

\* A URI is pinned: one pin more for the new member, one less for the old one,
\* which may be the same.
LEMMA PinStep ==
  ASSUME HashTyped, UsageExact, NEW uri \in Hashes, NEW i \in Ids("members"), Pin(uri, i)
  PROVE  /\ UsageExact' /\ HashTyped'
         /\ \A h \in Hashes : hash_table'[h] = IF h = uri THEN i ELSE hash_table[h]
<1>1. \A h \in Hashes : hash_table'[h] = IF h = uri THEN i ELSE hash_table[h]
  BY DEF Pin, HashTyped
<1>2. hash_table' \in [Hashes -> Ids("members") \cup {HASH_VAL_FREE}]
  BY DEF Pin, HashTyped
<1>3. ASSUME NEW j \in Ids("members") PROVE hash_table_usage'[j] = Cardinality(Pinned(j)')
  <2>1. hash_table_usage[j] = Cardinality(Pinned(j)) /\ Pinned(j) \in SUBSET Hashes
    BY UsageIs DEF Pinned
  <2>2. IsFiniteSet(Pinned(j)) /\ Cardinality(Pinned(j)) \in Nat
    BY <2>1, PinnedFinite
  <2>3. hash_table_usage'[j] = hash_table_usage[j] + (IF j = i THEN 1 ELSE 0)
                                                   - (IF j = hash_table[uri] THEN 1 ELSE 0)
    BY DEF Pin
  <2>4. uri \in Pinned(j) <=> j = hash_table[uri]
    BY DEF Pinned
  <2>5. CASE j = i
    <3>1. Pinned(j)' = Pinned(j) \cup {uri}
      BY <1>1, <2>5 DEF Pinned
    <3>2. Cardinality(Pinned(j) \cup {uri}) =
            IF uri \in Pinned(j) THEN Cardinality(Pinned(j)) ELSE Cardinality(Pinned(j)) + 1
      BY <2>2, FS_AddElement
    <3> QED BY <2>1, <2>2, <2>3, <2>4, <2>5, <3>1, <3>2
  <2>6. CASE j # i
    <3>1. Pinned(j)' = Pinned(j) \ {uri}
      BY <1>1, <2>6 DEF Pinned
    <3>2. Cardinality(Pinned(j) \ {uri}) =
            IF uri \in Pinned(j) THEN Cardinality(Pinned(j)) - 1 ELSE Cardinality(Pinned(j))
      BY <2>2, FS_RemoveElement
    <3> QED BY <2>1, <2>2, <2>3, <2>4, <2>6, <3>1, <3>2
  <2> QED BY <2>5, <2>6
<1>4. UsageExact'
  BY <1>3, UsageIs
<1>5. HashTyped'
  <2> DEFINE f == [j \in Ids("members") |->
                     hash_table_usage[j] + (IF j = i THEN 1 ELSE 0)
                                         - (IF j = hash_table[uri] THEN 1 ELSE 0)]
  <2>1. hash_table_usage' = [j \in Ids("members") |-> f[j]]
    BY DEF Pin
  <2> HIDE DEF f
  <2> QED BY <1>2, <1>4, <2>1, UsageTyped
<1> QED BY <1>1, <1>4, <1>5

\* A member is removed: its pins are freed, the others stay.
LEMMA UnpinStep ==
  ASSUME HashTyped, UsageExact, NEW k \in Kinds, NEW i \in Ids(k), handle_delete_servers(k, i)
  PROVE  /\ UsageExact' /\ HashTyped'
         /\ \A h \in Hashes : hash_table'[h] # HASH_VAL_FREE =>
              hash_table'[h] = hash_table[h] /\ (k = "members" => hash_table[h] # i)
<1>1. hash_table' = [h \in Hashes |->
        IF k = "members" /\ hash_table[h] = i THEN HASH_VAL_FREE ELSE hash_table[h]]
  BY DEF handle_delete_servers
<1>2. hash_table' \in [Hashes -> Ids("members") \cup {HASH_VAL_FREE}]
  BY <1>1 DEF HashTyped
<1>3. hash_table_usage' = [j \in Ids("members") |->
        IF k = "members" /\ j = i THEN 0 ELSE hash_table_usage[j]]
  BY DEF handle_delete_servers
<1>4. ASSUME NEW j \in Ids("members") PROVE hash_table_usage'[j] = Cardinality(Pinned(j)')
  <2>1. j \in Nat
    BY IdsFinite
  <2>2. CASE k = "members" /\ j = i
    <3>1. Pinned(j)' = {}
      BY <1>1, <2>1, <2>2 DEF Pinned
    <3> QED BY <1>3, <2>2, <3>1, FS_EmptySet
  <2>3. CASE ~(k = "members" /\ j = i)
    <3>1. Pinned(j)' = Pinned(j)
      BY <1>1, <2>1, <2>3 DEF Pinned
    <3> QED BY <1>3, <2>3, <3>1, UsageIs
  <2> QED BY <2>2, <2>3
<1>5. UsageExact'
  BY <1>4, UsageIs
<1>6. HashTyped'
  <2> DEFINE f == [j \in Ids("members") |-> IF k = "members" /\ j = i THEN 0 ELSE hash_table_usage[j]]
  <2>1. hash_table_usage' = [j \in Ids("members") |-> f[j]]
    BY <1>3
  <2> HIDE DEF f
  <2> QED BY <1>2, <1>5, <2>1, UsageTyped
<1> QED BY <1>1, <1>5, <1>6

\* Pins move from one member to another one.
LEMMA MoveStep ==
  ASSUME HashTyped, UsageExact, NEW low \in Ids("members"), NEW high \in Ids("members"),
         rebalance_hash(low, high)
  PROVE  /\ UsageExact' /\ HashTyped'
         /\ \A h \in Hashes : hash_table'[h] \in {hash_table[h], low}
<1> DEFINE pins == {h \in Hashes : hash_table[h] = high}
           quota == (hash_table_usage[high] * size) \div 100
           moved == {h \in pins : Cardinality({g \in pins : g < h}) < quota}
<1>1. hash_table' = [h \in Hashes |-> IF h \in moved THEN low ELSE hash_table[h]]
  BY DEF rebalance_hash
<1>2. hash_table_usage' = [hash_table_usage EXCEPT
           ![high] = @ - Cardinality(moved), ![low] = @ + Cardinality(moved)]
  BY DEF rebalance_hash
<1>3. PICK M : M = moved
  OBVIOUS
<1>4. M \subseteq Pinned(high) /\ low # high
  BY <1>3 DEF rebalance_hash, Pinned
<1> HIDE DEF moved
<1>5. \A h \in Hashes : hash_table'[h] = IF h \in M THEN low ELSE hash_table[h]
  BY <1>1, <1>3
<1>6. hash_table' \in [Hashes -> Ids("members") \cup {HASH_VAL_FREE}]
  BY <1>1 DEF HashTyped
<1>7. /\ DOMAIN hash_table_usage' = Ids("members")
      /\ \A j \in Ids("members") : hash_table_usage'[j] =
           IF j = high THEN hash_table_usage[j] - Cardinality(M)
           ELSE IF j = low THEN hash_table_usage[j] + Cardinality(M) ELSE hash_table_usage[j]
  BY <1>2, <1>3, <1>4 DEF HashTyped
<1>8. ASSUME NEW j \in Ids("members") PROVE hash_table_usage'[j] = Cardinality(Pinned(j)')
  <2>1. hash_table_usage[j] = Cardinality(Pinned(j)) /\ Pinned(j) \in SUBSET Hashes
        /\ M \in SUBSET Hashes
    BY <1>4, UsageIs DEF Pinned
  <2>2. IsFiniteSet(Pinned(j)) /\ Cardinality(Pinned(j)) \in Nat /\ IsFiniteSet(M) /\ Cardinality(M) \in Nat
    BY <2>1, PinnedFinite
  <2>3. CASE j = high
    <3>1. Pinned(j)' = Pinned(j) \ M /\ Pinned(j) \cap M = M
      BY <1>4, <1>5, <2>3 DEF Pinned
    <3>2. Cardinality(Pinned(j) \ M) = Cardinality(Pinned(j)) - Cardinality(Pinned(j) \cap M)
      BY <2>2, FS_Difference
    <3> QED BY <1>7, <2>1, <2>3, <3>1, <3>2
  <2>4. CASE j = low
    <3>1. Pinned(j)' = Pinned(j) \cup M /\ Pinned(j) \cap M = {}
      BY <1>4, <1>5, <2>1, <2>4 DEF Pinned
    <3>2. Cardinality(Pinned(j) \cup M) =
            Cardinality(Pinned(j)) + Cardinality(M) - Cardinality(Pinned(j) \cap M)
      BY <2>2, FS_Union
    <3>3. Cardinality(Pinned(j) \cap M) = 0
      BY <3>1, FS_EmptySet
    <3>4. Cardinality(Pinned(j) \cup M) = Cardinality(Pinned(j)) + Cardinality(M)
      BY <2>2, <3>2, <3>3
    <3> QED BY <1>4, <1>7, <2>1, <2>4, <3>1, <3>4
  <2>5. CASE j # high /\ j # low
    <3>1. Pinned(j)' = Pinned(j)
      BY <1>4, <1>5, <2>5 DEF Pinned
    <3> QED BY <1>7, <2>1, <2>5, <3>1
  <2> QED BY <2>3, <2>4, <2>5
<1>9. UsageExact'
  BY <1>8, UsageIs
<1>10. HashTyped'
  <2>1. \A j \in Ids("members") : hash_table_usage'[j] \in Nat
    <3> SUFFICES ASSUME NEW j \in Ids("members") PROVE hash_table_usage'[j] \in Nat
      OBVIOUS
    <3>1. Pinned(j)' \in SUBSET Hashes
      BY DEF Pinned
    <3> QED BY <1>8, <3>1, PinnedFinite
  <2>2. hash_table_usage' = [j \in Ids("members") |-> hash_table_usage'[j]]
    BY <1>2, <1>7
  <2> QED BY <1>6, <2>1, <2>2 DEF HashTyped
<1> QED BY <1>5, <1>9, <1>10

-----------------------------------------------------------------------------
(* The servers.                                                              *)

SettingsTyped ==
  /\ algorithm \in Algorithms /\ overload_mode \in {"RELAXED", "STRICT"}
  /\ clone_mode \in {"OFF", "ON", "FAILED"}

\* No member is removed.
NoneRemoved ==
  \A i \in Ids("members") :
    servers["members"][i].status # "FREE" => servers'["members"][i].status # "FREE"

LEMMA PinsKept ==
  ASSUME HashTyped, PinsToServers, UNCHANGED hash_table, NoneRemoved
  PROVE  PinsToServers'
<1>1. \A h \in Hashes : hash_table[h] # HASH_VAL_FREE => hash_table[h] \in Ids("members")
  BY DEF HashTyped
<1> QED BY <1>1 DEF PinsToServers, NoneRemoved

\* The server in one slot is replaced by v.
Put(k, i, v) == servers' = [servers EXCEPT ![k][i] = v]

LEMMA SetServer ==
  ASSUME ServersTyped, NEW k \in Kinds, NEW i \in Ids(k), NEW v \in Server, Put(k, i, v)
  PROVE  /\ ServersTyped'
         /\ \A k2 \in Kinds : \A j \in Ids(k2) :
              servers'[k2][j] = IF k2 = k /\ j = i THEN v ELSE servers[k2][j]
         /\ v.status # "FREE" \/ v.status = servers[k][i].status => NoneRemoved
<1>1. DOMAIN servers' = Kinds
  BY DEF ServersTyped, Put
<1>2. \A k2 \in Kinds : servers'[k2] = IF k2 = k THEN [servers[k] EXCEPT ![i] = v] ELSE servers[k2]
  BY DEF ServersTyped, Put
<1>3. [servers[k] EXCEPT ![i] = v] \in [Ids(k) -> Server]
  BY DEF ServersTyped
<1>4. ServersTyped'
  BY <1>1, <1>2, <1>3 DEF ServersTyped
<1>5. \A k2 \in Kinds : \A j \in Ids(k2) :
        servers'[k2][j] = IF k2 = k /\ j = i THEN v ELSE servers[k2][j]
  BY <1>2 DEF ServersTyped
<1>6. \A j \in Ids("members") :
        servers'["members"][j] = IF k = "members" /\ j = i THEN v ELSE servers["members"][j]
  BY <1>5
<1> QED BY <1>4, <1>5, <1>6 DEF NoneRemoved

\* One field, or status and load, of one server is set.
LEMMA FieldSet ==
  ASSUME ServersTyped, NEW k \in Kinds, NEW i \in Ids(k), NEW x,
         \/ /\ x \in {"DELETED", "FAILED", "DISABLED", "ENABLED"}
            /\ \/ servers' = [servers EXCEPT ![k][i].status = x]
               \/ servers' = [servers EXCEPT ![k][i].status = x, ![k][i].load = SNMP_LOAD_NOT_INIT]
         \/ x \in BOOLEAN /\ servers' = [servers EXCEPT ![k][i].standby = x]
         \/ x \in Nat /\ servers' = [servers EXCEPT ![k][i].c = x]
         \/ x \in Int /\ servers' = [servers EXCEPT ![k][i].load = x]
  PROVE  ServersTyped' /\ NoneRemoved
<1>1. PICK s \in Server : s = servers[k][i]
  BY DEF ServersTyped
<1>2. ASSUME NEW v \in Server, v.status # "FREE" \/ v.status = s.status, Put(k, i, v)
      PROVE  ServersTyped' /\ NoneRemoved
  BY <1>1, <1>2, SetServer
<1>3. CASE x \in {"DELETED", "FAILED", "DISABLED", "ENABLED"} /\ servers' = [servers EXCEPT ![k][i].status = x]
  <2>1. PICK v \in Server : v = [s EXCEPT !.status = x]
    BY <1>3 DEF Server
  <2>2. v.status # "FREE" /\ Put(k, i, v)
    BY <1>1, <1>3, <2>1 DEF Put, Server
  <2> QED BY <1>2, <2>2
<1>4. CASE /\ x \in {"DELETED", "FAILED", "DISABLED", "ENABLED"}
           /\ servers' = [servers EXCEPT ![k][i].status = x, ![k][i].load = SNMP_LOAD_NOT_INIT]
  <2>1. PICK w \in Server : w = [s EXCEPT !.status = x]
    BY <1>4 DEF Server
  <2>2. PICK v \in Server : v = [w EXCEPT !.load = SNMP_LOAD_NOT_INIT]
    <3>1. \A y \in Int : [w EXCEPT !.load = y] \in Server
      BY DEF Server
    <3>2. SNMP_LOAD_NOT_INIT \in Int
      OBVIOUS
    <3> QED BY <3>1, <3>2
  <2>3. v.status # "FREE"
    BY <1>4, <2>1, <2>2 DEF Server
  <2>4. Put(k, i, v)
    BY <1>1, <1>4, <2>1, <2>2 DEF Put, ServersTyped
  <2> QED BY <1>2, <2>3, <2>4
<1>5. CASE x \in BOOLEAN /\ servers' = [servers EXCEPT ![k][i].standby = x]
  <2>1. PICK v \in Server : v = [s EXCEPT !.standby = x]
    BY <1>5 DEF Server
  <2>2. v.status = s.status /\ Put(k, i, v)
    BY <1>1, <1>5, <2>1 DEF Put, Server
  <2> QED BY <1>2, <2>2
<1>6. CASE x \in Nat /\ servers' = [servers EXCEPT ![k][i].c = x]
  <2>1. PICK v \in Server : v = [s EXCEPT !.c = x]
    BY <1>6 DEF Server
  <2>2. v.status = s.status /\ Put(k, i, v)
    BY <1>1, <1>6, <2>1 DEF Put, Server
  <2> QED BY <1>2, <2>2
<1>7. CASE x \in Int /\ servers' = [servers EXCEPT ![k][i].load = x]
  <2>1. PICK v \in Server : v = [s EXCEPT !.load = x]
    BY <1>7 DEF Server
  <2>2. v.status = s.status /\ Put(k, i, v)
    BY <1>1, <1>7, <2>1 DEF Put, Server
  <2> QED BY <1>2, <2>2
<1> QED BY <1>3, <1>4, <1>5, <1>6, <1>7

-----------------------------------------------------------------------------
(* Every step preserves IInv.                                                *)

LEMMA TypedParts ==
  ASSUME IInv
  PROVE  ServersTyped /\ HashTyped /\ SettingsTyped /\ changes \in 0..MaxChanges
  BY DEF IInv, Typed, TypeOK, HashTyped, SettingsTyped

\* A step after which nothing is chosen and which is not a choice itself.
Quiet ==
  /\ UNCHANGED <<next, passed>> /\ choice' = NoChoice
  /\ ServersTyped' /\ HashTyped' /\ SettingsTyped' /\ changes' \in 0..MaxChanges

LEMMA QuietStep ==
  ASSUME IInv, Quiet, UsageExact', PinsToServers'
  PROVE  IInv'
<1>1. Typed'
  BY DEF IInv, Typed, TypeOK, Quiet, ServersTyped, Server, HashTyped, SettingsTyped, NoChoice
<1>2. Turns'
  BY DEF IInv, Turns, Quiet
<1>3. choice'.at = "none"
  BY DEF Quiet, NoChoice
<1>4. Chosen' /\ CheapestChosen'
  BY <1>3 DEF Chosen, CheapestChosen
<1> QED BY <1>1, <1>2, <1>4 DEF IInv

\* One that also leaves the hash table alone and removes no member.
LEMMA QuietKeeps ==
  ASSUME IInv, UNCHANGED <<next, passed>>, choice' = NoChoice, UNCHANGED hashing,
         ServersTyped', NoneRemoved, SettingsTyped', changes' \in 0..MaxChanges
  PROVE  IInv'
<1>1. HashTyped /\ UNCHANGED <<hash_table, hash_table_usage>>
  BY TypedParts DEF hashing
<1>2. HashTyped' /\ UsageExact'
  BY <1>1 DEF IInv, HashTyped, UsageExact
<1>3. PinsToServers'
  BY <1>1, PinsKept DEF IInv
<1>4. Quiet
  BY <1>2 DEF Quiet
<1> QED BY <1>2, <1>3, <1>4, QuietStep

LEMMA ChooseStep ==
  ASSUME IInv, NEW uri \in Requests, choose_server(uri)
  PROVE  IInv'
<1>1. Typed /\ ServersTyped /\ HashTyped /\ SettingsTyped /\ Turns /\ UsageExact
  BY TypedParts DEF IInv
<1>2. UNCHANGED <<servers, settings, changes>> /\ ServersTyped' /\ SettingsTyped' /\ changes' \in 0..MaxChanges
  BY <1>1, TypedParts DEF choose_server, ServersTyped, SettingsTyped, settings
<1>3. Chosen' /\ CheapestChosen'
  BY <1>1, ChooseChosen
<1>4. Turns' /\ PassedTyped'
  BY <1>1, ChooseTurns
<1>5. ASSUME UNCHANGED hashing PROVE HashTyped' /\ UsageExact' /\ PinsToServers'
  BY <1>1, <1>2, <1>5 DEF HashTyped, UsageExact, IInv, PinsToServers, hashing
<1>6. CASE Available("members") = {}
  <2>1. UNCHANGED <<next, hashing>> /\ choice' = [at |-> "rejected"]
    BY <1>6 DEF choose_server
  <2>2. Typed'
    BY <1>1, <1>2, <1>4, <1>5, <2>1
       DEF Typed, TypeOK, ServersTyped, Server, HashTyped, SettingsTyped, PassedTyped
  <2> QED BY <1>3, <1>4, <1>5, <2>1, <2>2 DEF IInv
<1>7. CASE Available("members") # {}
  <2>1. /\ next' = [k \in Kinds |-> Selected(k, uri)]
        /\ next'["members"] = Selected("members", uri) /\ next'["clones"] = Selected("clones", uri)
        /\ choice' = [at |-> "chosen", clone |-> use_clone]
    BY <1>1, <1>7, ChooseIs
  <2>2. next'["members"] \in Available("members") /\ next'["clones"] \in Ids("clones")
    BY <1>1, <1>7, <2>1, SelectedMember, SelectedClone
  <2>3. next'["members"] \in Ids("members") /\ servers["members"][next'["members"]].status = "ENABLED"
    BY <2>2, AvailableIs DEF Usable
  <2>4. \A k \in Kinds : next'[k] \in Ids(k)
    BY <2>2, <2>3
  <2>5. HashTyped' /\ UsageExact' /\ PinsToServers'
    <3>1. CASE algorithm = "HASH" /\ uri # NoUri /\ ~Hit(uri)
      <4>1. Pin(uri, next'["members"]) /\ uri \in Hashes
        BY <1>7, <3>1, RequestIs DEF choose_server
      <4>2. /\ UsageExact' /\ HashTyped'
            /\ \A h \in Hashes : hash_table'[h] = IF h = uri THEN next'["members"] ELSE hash_table[h]
        BY <1>1, <2>3, <4>1, PinStep
      <4>3. PinsToServers'
        BY <1>2, <2>3, <4>2 DEF IInv, PinsToServers
      <4> QED BY <4>2, <4>3
    <3>2. CASE ~(algorithm = "HASH" /\ uri # NoUri /\ ~Hit(uri))
      BY <1>5, <1>7, <3>2 DEF choose_server
    <3> QED BY <3>1, <3>2
  <2>6. choice' \in [at : {"chosen"}, clone : BOOLEAN]
    BY <2>1 DEF use_clone
  <2>7. Typed'
    BY <1>2, <1>4, <2>4, <2>5, <2>6
       DEF Typed, TypeOK, ServersTyped, Server, HashTyped, SettingsTyped, PassedTyped
  <2> QED BY <1>3, <1>4, <2>5, <2>7 DEF IInv
<1> QED BY <1>6, <1>7

\* connect_server(), disconnect_member() and disconnect_clone() change counts.
LEMMA MasterStep ==
  ASSUME IInv, connect_server \/ \E k \in Kinds : \E i \in Ids(k) : disconnect(k, i)
  PROVE  IInv'
<1>1. ServersTyped /\ SettingsTyped /\ changes \in 0..MaxChanges /\ \A k \in Kinds : next[k] \in Ids(k)
  BY TypedParts DEF IInv, Typed, TypeOK
<1>2. ASSUME UNCHANGED <<next, hashing, settings, passed, changes>>, choice' = NoChoice,
             ServersTyped', NoneRemoved
      PROVE  IInv'
  BY <1>1, <1>2, QuietKeeps DEF SettingsTyped, settings
<1>3. CASE connect_server
  <2>1. PICK done \in SUBSET Kinds :
          servers' = [k \in Kinds |-> IF k \in done THEN [servers[k] EXCEPT ![next[k]].c = @ + 1]
                                                    ELSE servers[k]]
    BY <1>3 DEF connect_server
  <2>2. ASSUME NEW k \in Kinds
        PROVE  /\ servers'[k] \in [Ids(k) -> Server]
               /\ \A i \in Ids(k) : servers'[k][i].status = servers[k][i].status
    <3>1. servers[k] \in [Ids(k) -> Server] /\ next[k] \in Ids(k) /\ servers[k][next[k]] \in Server
      BY <1>1 DEF ServersTyped
    <3>2. CASE k \notin done
      BY <2>1, <3>1, <3>2
    <3>3. CASE k \in done
      <4>1. servers'[k] = [servers[k] EXCEPT ![next[k]].c = servers[k][next[k]].c + 1]
        BY <2>1, <3>3
      <4>2. servers[k][next[k]].c + 1 \in Nat
        BY <3>1 DEF Server
      <4> QED BY <3>1, <4>1, <4>2 DEF Server
    <3> QED BY <3>2, <3>3
  <2>3. ServersTyped'
    BY <2>1, <2>2 DEF ServersTyped
  <2>4. NoneRemoved
    BY <2>2 DEF NoneRemoved
  <2> QED BY <1>2, <1>3, <2>3, <2>4 DEF connect_server
<1>4. ASSUME NEW k \in Kinds, NEW i \in Ids(k), disconnect(k, i) PROVE IInv'
  <2>1. servers[k][i] \in Server
    BY <1>1 DEF ServersTyped
  <2>2. PICK x \in Nat : x = servers[k][i].c - 1
    BY <1>4, <2>1 DEF disconnect, Server
  <2>3. servers' = [servers EXCEPT ![k][i].c = x]
    BY <1>4, <2>2 DEF disconnect
  <2>4. ServersTyped' /\ NoneRemoved
    BY <1>1, <2>3, FieldSet
  <2> QED BY <1>2, <1>4, <2>4 DEF disconnect
<1> QED BY <1>3, <1>4

LEMMA ClonedType ==
  ASSUME NEW s, NEW mode \in {"OFF", "ON", "FAILED"}, set_cloned_state(s, mode)
  PROVE  clone_mode' \in {"OFF", "ON", "FAILED"}
  BY DEF set_cloned_state

LEMMA NewServerIs == NewServer \in Server /\ NewServer.status = "DISABLED"
<1>1. SNMP_LOAD_NOT_INIT \in Int
  OBVIOUS
<1> HIDE DEF SNMP_LOAD_NOT_INIT
<1> QED BY <1>1 DEF NewServer, Server

\* A change of the admin or the monitor that moves no pin.
LEMMA ChangeKeeps ==
  ASSUME IInv, Change, UNCHANGED hashing, ServersTyped', NoneRemoved, SettingsTyped'
  PROVE  IInv'
<1>1. /\ UNCHANGED <<next, passed>> /\ choice' = NoChoice
      /\ changes' = changes + 1 /\ changes < MaxChanges
  BY DEF Change
<1>2. changes' \in 0..MaxChanges
  BY <1>1, TypedParts, LimitAssumption
<1> QED BY <1>1, <1>2, QuietKeeps

LEMMA StatusStep ==
  ASSUME IInv, NEW from, NEW to \in {"ENABLED", "DISABLED"}, SetStatus(from, to)
  PROVE  IInv'
<1>1. ServersTyped /\ SettingsTyped
  BY TypedParts
<1>2. PICK found :
        servers' = [k \in Kinds |-> [i \in Ids(k) |->
                IF <<k, i>> \in found THEN [servers[k][i] EXCEPT !.status = to]
                                      ELSE servers[k][i]]]
  BY DEF SetStatus
<1>3. \A k \in Kinds : \A i \in Ids(k) :
        /\ servers'[k][i] \in Server
        /\ servers'[k][i].status = to \/ servers'[k][i] = servers[k][i]
  <2> SUFFICES ASSUME NEW k \in Kinds, NEW i \in Ids(k)
               PROVE  /\ servers'[k][i] \in Server
                      /\ servers'[k][i].status = to \/ servers'[k][i] = servers[k][i]
    OBVIOUS
  <2>1. PICK s \in Server : s = servers[k][i]
    BY <1>1 DEF ServersTyped
  <2>2. servers'[k][i] = IF <<k, i>> \in found THEN [s EXCEPT !.status = to] ELSE s
    BY <1>2, <2>1
  <2>3. [s EXCEPT !.status = to] \in Server /\ [s EXCEPT !.status = to].status = to
    BY DEF Server
  <2> QED BY <2>1, <2>2, <2>3
<1>4. ServersTyped'
  BY <1>2, <1>3 DEF ServersTyped
<1>5. NoneRemoved
  BY <1>3 DEF NoneRemoved
<1>6. SettingsTyped'
  BY <1>1, ClonedType DEF SetStatus, SettingsTyped
<1> QED BY <1>4, <1>5, <1>6, ChangeKeeps DEF SetStatus

\* The commands for one server and the monitor's checks of one.
LEMMA ServerStep ==
  ASSUME IInv, NEW k \in Kinds, NEW i \in Ids(k),
         \/ cmd_delete(k, i) \/ cmd_standby(k, i) \/ check_server_state(k, i)
         \/ \E load \in Loads : check_server_snmp(k, i, load)
  PROVE  IInv'
<1>1. ServersTyped /\ SettingsTyped /\ servers[k][i] \in Server
  BY TypedParts DEF ServersTyped
<1>2. CASE cmd_delete(k, i)
  <2>1. ServersTyped' /\ NoneRemoved
    BY <1>1, <1>2, FieldSet DEF cmd_delete
  <2>2. SettingsTyped'
    BY <1>1, <1>2 DEF cmd_delete, SettingsTyped, settings
  <2> QED BY <1>2, <2>1, <2>2, ChangeKeeps DEF cmd_delete
<1>3. CASE cmd_standby(k, i)
  <2>1. PICK x \in BOOLEAN : x = ~servers[k][i].standby
    OBVIOUS
  <2>2. servers' = [servers EXCEPT ![k][i].standby = x]
    BY <1>3, <2>1 DEF cmd_standby
  <2>3. ServersTyped' /\ NoneRemoved
    BY <1>1, <2>2, FieldSet
  <2>4. SettingsTyped'
    BY <1>1, <1>3 DEF cmd_standby, SettingsTyped, settings
  <2> QED BY <1>3, <2>3, <2>4, ChangeKeeps DEF cmd_standby
<1>4. CASE check_server_state(k, i)
  <2>1. ServersTyped' /\ NoneRemoved
    BY <1>1, <1>4, FieldSet DEF check_server_state
  <2>2. SettingsTyped'
    BY <1>1, <1>4, ClonedType DEF check_server_state, SettingsTyped
  <2> QED BY <1>4, <2>1, <2>2, ChangeKeeps DEF check_server_state
<1>5. ASSUME NEW load \in Loads, check_server_snmp(k, i, load) PROVE IInv'
  <2>1. load \in Int
    BY InputAssumption
  <2>2. ServersTyped' /\ NoneRemoved
    BY <1>1, <1>5, <2>1, FieldSet DEF check_server_snmp
  <2>3. SettingsTyped'
    BY <1>1, <1>5 DEF check_server_snmp, SettingsTyped, settings
  <2> QED BY <1>5, <2>2, <2>3, ChangeKeeps DEF check_server_snmp
<1> QED BY <1>2, <1>3, <1>4, <1>5

LEMMA SettingStep ==
  ASSUME IInv, cmd_algorithm \/ cmd_overload_mode \/ cmd_clone_mode
  PROVE  IInv'
<1>1. ServersTyped /\ SettingsTyped
  BY TypedParts
<1>2. Change /\ UNCHANGED <<servers, hashing>>
  BY DEF cmd_algorithm, cmd_overload_mode, cmd_clone_mode
<1>3. ServersTyped' /\ NoneRemoved
  BY <1>1, <1>2 DEF ServersTyped, NoneRemoved
<1>4. SettingsTyped'
  BY <1>1, ClonedType DEF SettingsTyped, cmd_algorithm, cmd_overload_mode, cmd_clone_mode
<1> QED BY <1>2, <1>3, <1>4, ChangeKeeps

LEMMA CreateStep ==
  ASSUME IInv, NEW k \in Kinds, cmd_create(k)
  PROVE  IInv'
<1> DEFINE free == {i \in Ids(k) : servers[k][i].status = "FREE"}
<1>1. ServersTyped /\ SettingsTyped /\ changes \in 0..MaxChanges
  BY TypedParts
<1>2. First(free) \in free
  BY FirstIs DEF cmd_create
<1>3. PICK i \in Ids(k) : Put(k, i, NewServer)
  BY <1>2 DEF cmd_create, Put
<1>4. ServersTyped' /\ NoneRemoved
  BY <1>1, <1>3, SetServer, NewServerIs
<1>5. UNCHANGED <<next, hashing, settings, passed, changes>> /\ choice' = NoChoice
  BY DEF cmd_create
<1>6. SettingsTyped'
  BY <1>1, <1>5 DEF SettingsTyped, settings
<1> QED BY <1>1, <1>4, <1>5, <1>6, QuietKeeps

LEMMA RemoveStep ==
  ASSUME IInv, NEW k \in Kinds, NEW i \in Ids(k), handle_delete_servers(k, i)
  PROVE  IInv'
<1>1. ServersTyped /\ HashTyped /\ SettingsTyped /\ UsageExact /\ changes \in 0..MaxChanges
  BY TypedParts DEF IInv
<1>2. /\ UsageExact' /\ HashTyped'
      /\ \A h \in Hashes : hash_table'[h] # HASH_VAL_FREE =>
           hash_table'[h] = hash_table[h] /\ (k = "members" => hash_table[h] # i)
  BY <1>1, UnpinStep
<1>3. PICK s \in Server : s = servers[k][i]
  BY <1>1 DEF ServersTyped
<1>4. PICK v \in Server : v = [s EXCEPT !.status = "FREE"]
  BY DEF Server
<1>5. Put(k, i, v)
  BY <1>3, <1>4 DEF handle_delete_servers, Put
<1>6. /\ ServersTyped'
      /\ \A k2 \in Kinds : \A j \in Ids(k2) :
           servers'[k2][j] = IF k2 = k /\ j = i THEN v ELSE servers[k2][j]
  BY <1>1, <1>5, SetServer
<1>7. PinsToServers'
  <2> SUFFICES ASSUME NEW h \in Hashes, hash_table'[h] # HASH_VAL_FREE
               PROVE  servers'["members"][hash_table'[h]].status # "FREE"
    BY DEF PinsToServers
  <2>1. hash_table'[h] = hash_table[h] /\ hash_table[h] \in Ids("members")
        /\ (k = "members" => hash_table[h] # i)
    BY <1>1, <1>2 DEF HashTyped
  <2>2. servers'["members"][hash_table[h]] = servers["members"][hash_table[h]]
    BY <1>6, <2>1
  <2> QED BY <2>1, <2>2 DEF IInv, PinsToServers
<1>8. UNCHANGED <<next, settings, passed, changes>> /\ choice' = NoChoice
  BY DEF handle_delete_servers
<1>9. Quiet
  BY <1>1, <1>2, <1>6, <1>8 DEF Quiet, SettingsTyped, settings
<1> QED BY <1>2, <1>7, <1>9, QuietStep

LEMMA RebalanceStep ==
  ASSUME IInv, NEW low \in Ids("members"), NEW high \in Ids("members"), rebalance_hash(low, high)
  PROVE  IInv'
<1>1. ServersTyped /\ HashTyped /\ SettingsTyped /\ UsageExact /\ changes \in 0..MaxChanges
  BY TypedParts DEF IInv
<1>2. /\ UsageExact' /\ HashTyped'
      /\ \A h \in Hashes : hash_table'[h] \in {hash_table[h], low}
  BY <1>1, MoveStep
<1>3. Change /\ UNCHANGED <<servers, settings>> /\ servers["members"][low].status = "ENABLED"
  BY DEF rebalance_hash
<1>4. PinsToServers'
  BY <1>2, <1>3 DEF IInv, PinsToServers
<1>5. changes' \in 0..MaxChanges
  BY <1>1, <1>3, LimitAssumption DEF Change
<1>6. Quiet
  BY <1>1, <1>2, <1>3, <1>5 DEF Quiet, Change, ServersTyped, SettingsTyped, settings
<1> QED BY <1>2, <1>4, <1>6, QuietStep

LEMMA InitInv == Init => IInv
<1> SUFFICES ASSUME Init PROVE IInv
  OBVIOUS
<1>1. PICK v \in Server : v = [NewServer EXCEPT !.status = "ENABLED"]
  <2>1. PICK s \in Server : s = NewServer
    BY NewServerIs
  <2> QED BY <2>1 DEF Server
<1>2. servers = [k \in Kinds |-> [i \in Ids(k) |-> v]]
  BY <1>1 DEF Init
<1>3. ServersTyped
  BY <1>2 DEF ServersTyped
<1>4. \A k \in Kinds : next[k] \in Ids(k)
  BY IdsFinite DEF Init
<1>5. HashTyped /\ PinsToServers
  BY DEF Init, HashTyped, PinsToServers
<1>6. UsageExact
  <2>1. ASSUME NEW i \in Ids("members") PROVE Pinned(i) = {}
    <3>1. i \in Nat
      BY IdsFinite
    <3>2. \A h \in Hashes : hash_table[h] = HASH_VAL_FREE
      BY DEF Init
    <3>3. i # HASH_VAL_FREE
      BY <3>1
    <3> QED BY <3>2, <3>3 DEF Pinned
  <2> QED BY <2>1, UsageIs, FS_EmptySet DEF Init
<1>7. passed = NothingPassed /\ choice = NoChoice /\ changes = 0 /\ SettingsTyped
  BY DEF Init, SettingsTyped
<1>8. Turns /\ PassedTyped
  BY <1>7 DEF Turns, NothingPassed, PassedTyped
<1>9. Chosen /\ CheapestChosen
  BY <1>7 DEF Chosen, CheapestChosen, NoChoice
<1>10. TypeOK
  BY <1>3, <1>4, <1>5, <1>7, <1>8, LimitAssumption
     DEF TypeOK, ServersTyped, Server, HashTyped, SettingsTyped, PassedTyped, NoChoice
<1> QED BY <1>3, <1>5, <1>6, <1>8, <1>9, <1>10 DEF IInv, Typed

LEMMA NextInv == IInv /\ [Next]_vars => IInv'
<1> SUFFICES ASSUME IInv, [Next]_vars PROVE IInv'
  OBVIOUS
<1>1. CASE Master
  BY <1>1, ChooseStep, MasterStep DEF Master
<1>2. CASE Others
  <2>1. CASE cmd_enable \/ cmd_disable
    BY <2>1, StatusStep DEF cmd_enable, cmd_disable
  <2>2. CASE cmd_algorithm \/ cmd_overload_mode \/ cmd_clone_mode
    BY <2>2, SettingStep
  <2>3. CASE \E low, high \in Ids("members") : rebalance_hash(low, high)
    BY <2>3, RebalanceStep
  <2>4. CASE \E k \in Kinds : cmd_create(k)
    BY <2>4, CreateStep
  <2>5. ASSUME NEW k \in Kinds, NEW i \in Ids(k),
               \/ cmd_delete(k, i) \/ cmd_standby(k, i)
               \/ handle_delete_servers(k, i) \/ check_server_state(k, i)
               \/ \E load \in Loads : check_server_snmp(k, i, load)
        PROVE  IInv'
    BY <2>5, ServerStep, RemoveStep
  <2> QED BY <1>2, <2>1, <2>2, <2>3, <2>4, <2>5 DEF Others
<1>3. CASE UNCHANGED vars
  <2>1. UNCHANGED <<servers, next, hash_table, hash_table_usage, algorithm, overload_mode,
                    clone_mode, choice, passed, changes>>
    BY <1>3 DEF vars, hashing, settings
  <2>2. \A k \in Kinds : /\ Available(k)' = Available(k) /\ \A i : Usable(k, i)' = Usable(k, i)
                         /\ weighted_load(k)' = weighted_load(k)
    BY <2>1, SameServers DEF settings
  <2>3. Typed' /\ UsageExact' /\ PinsToServers' /\ Turns'
    BY <2>1 DEF IInv, Typed, TypeOK, ServersTyped, UsageExact, PinsToServers, Turns
  <2>4. Chosen' /\ CheapestChosen'
    BY <2>1, <2>2 DEF IInv, Chosen, CheapestChosen
  <2> QED BY <2>3, <2>4 DEF IInv
<1> QED BY <1>1, <1>2, <1>3 DEF Next

LEMMA Invariant == Spec => []IInv
BY InitInv, NextInv, PTL DEF Spec

-----------------------------------------------------------------------------
(* The results.                                                              *)

\* TypeOK: every variable keeps its type; hash_table_usage, an unsigned short,
\* is never decremented below zero.
THEOREM SelectionTyped == Spec => []TypeOK
<1>1. IInv => TypeOK
  BY DEF IInv, Typed
<1> QED BY <1>1, Invariant, PTL

\* ChosenUsable: with every algorithm, a server that is chosen can be used, and
\* a request is rejected only when no member can.
THEOREM OnlyUsableChosen == Spec => []ChosenUsable
<1>1. IInv => ChosenUsable
  BY AvailableIs DEF IInv, Chosen, ChosenUsable
<1> QED BY <1>1, Invariant, PTL

\* StandbyLastResort: a standby member is chosen only when no normal one can be.
THEOREM StandbysLast == Spec => []StandbyLastResort
<1>1. ASSUME IInv PROVE StandbyLastResort
  <2> SUFFICES ASSUME choice.at = "chosen", servers["members"][next["members"]].standby
               PROVE  \A i \in Ids("members") : Usable("members", i) => servers["members"][i].standby
    BY DEF StandbyLastResort
  <2>1. next["members"] \in Available("members") /\ next["members"] \in Ids("members")
    BY <1>1, AvailableIs DEF IInv, Chosen
  <2>2. Normal("members") = {}
    BY <2>1, AvailableIs
  <2> QED BY <2>2 DEF Normal
<1> QED BY <1>1, Invariant, PTL

\* CheapestChosen: LC and LL choose a member with the fewest connections, or the
\* lowest weighted load, of all that may be chosen.
THEOREM CheapestIsChosen == Spec => []CheapestChosen
<1>1. IInv => CheapestChosen
  BY DEF IInv
<1> QED BY <1>1, Invariant, PTL

\* RoundRobinFair: in a round no available member is passed over more often
\* than there are others, for any number of members and any choice of those
\* that are available, with clones and without, as long as the turn of a
\* standby clone does not restart the round (algorithms.c:93).
THEOREM RoundRobinIsFair == Spec => []RoundRobinFair
<1>1. ASSUME IInv PROVE RoundRobinFair
  <2> DEFINE A == passed.avail
  <2>1. A \in SUBSET Ids("members") /\ A \in SUBSET Nat /\ passed.times \in [Ids("members") -> Nat]
    BY <1>1, IdsFinite DEF IInv, Typed, TypeOK
  <2>2. SUFFICES ASSUME NEW i \in Ids("members"), ~passed.restarted
                 PROVE  passed.times[i] = 0 \/ passed.times[i] < Cardinality(A)
    BY DEF RoundRobinFair
  <2>3. passed.times[i] \in Nat
        /\ passed.times[i] <= IF i \in A THEN Cardinality(Turn(A, i, next["members"])) ELSE 0
    BY <1>1, <2>1, <2>2 DEF IInv, Turns
  <2>4. CASE i \notin A
    BY <2>3, <2>4
  <2>5. CASE i \in A
    <3>1. next["members"] \in Nat /\ i \in Nat
      BY <1>1, <2>1, IdsFinite DEF IInv, Typed, TypeOK
    <3>2. Turn(A, i, next["members"]) \in SUBSET (A \ {i})
      BY <2>1, <3>1 DEF Turn
    <3>3. IsFiniteSet(A) /\ IsFiniteSet(A \ {i}) /\ Cardinality(A) \in Nat
          /\ Cardinality(Turn(A, i, next["members"])) \in Nat
      <4>1. Turn(A, i, next["members"]) \in SUBSET Ids("members") /\ A \ {i} \in SUBSET Ids("members")
        BY <2>1, <3>2
      <4> QED BY <2>1, <4>1, IdsFinite
    <3>4. Cardinality(A \ {i}) = Cardinality(A) - 1
      BY <2>5, <3>3, FS_RemoveElement
    <3>5. Cardinality(Turn(A, i, next["members"])) <= Cardinality(A \ {i})
      BY <3>2, <3>3, FS_Subset
    <3> QED BY <2>3, <2>5, <3>3, <3>4, <3>5
  <2> QED BY <2>4, <2>5
<1> QED BY <1>1, Invariant, PTL

\* UsageExact: hash_table_usage counts the pins of each member exactly, for any
\* hash table and any order of misses, moves, deletions and new servers.
THEOREM UsageIsExact == Spec => []UsageExact
<1>1. IInv => UsageExact
  BY DEF IInv
<1> QED BY <1>1, Invariant, PTL

\* PinsToServers: no pin outlives the member it points at.
THEOREM PinsHaveServers == Spec => []PinsToServers
<1>1. IInv => PinsToServers
  BY DEF IInv
<1> QED BY <1>1, Invariant, PTL
=============================================================================
