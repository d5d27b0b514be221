--------------------------- MODULE TrafficProofs ----------------------------
(***************************************************************************)
(* Proofs about the two traffic generators: the one in Python and its      *)
(* server, for any flows, rates, shares and losses; the one in Rust, for   *)
(* any flows and interleaving of its threads.                              *)
(*                                                                         *)
(* The invariant of the first bounds the server's count of a flow by the   *)
(* generator's, what is on its way and the burst being sent (Counts), and  *)
(* ties the bursts sent to the delays that have passed (Paced). The first  *)
(* lemmas say that a sum over a finite set is what its recursion says,     *)
(* which select_dscp's sum of shares needs.                                *)
(***************************************************************************)
EXTENDS Traffic, FiniteSetTheorems, TLAPS

(* A set of natural numbers has a least element.                           *)
LEMMA LeastNat ==
  ASSUME NEW T \in SUBSET Nat, T # {}
  PROVE  \E n \in T : \A m \in T : n <= m
  <1>1. PICK n \in T : \A m \in T : ~ (<<m, n>> \in OpToRel(<, Nat))
      BY Zenon, NatLessThanWellFounded, WFMin
  <1>2. \A m \in T : ~ (m < n)
    BY Zenon, <1>1 DEF OpToRel
  <1>3. \A m \in T : m \in Nat
    OBVIOUS
  <1>4. \A m \in T : n <= m
    BY <1>2, <1>3
  <1> QED
    BY Zenon, <1>4

(* A finite set of integers has a least element: Min is one of its         *)
(* members.                                                                *)
LEMMA MinOfFinite ==
  ASSUME NEW S \in SUBSET Int, IsFiniteSet(S), S # {}
  PROVE  Min(S) \in S /\ \A y \in S : Min(S) <= y
  <1> DEFINE Least(Q) == \E x \in Q : \A y \in Q : x <= y
             T == {n \in Nat : \E Q \in SUBSET S : Q # {} /\ Cardinality(Q) = n /\ ~ Least(Q)}
  <1>1. T = {}
    <2> SUFFICES ASSUME T # {} PROVE FALSE
      OBVIOUS
    <2>1. PICK n \in T : \A m \in T : n <= m
        BY Zenon, LeastNat DEF T
    <2>2. PICK Q \in SUBSET S : Q # {} /\ Cardinality(Q) = n /\ ~ Least(Q)
      BY Zenon, <2>1
    <2>3. PICK x : x \in Q
      BY Zenon, <2>2
    <2> DEFINE P == Q \ {x}
    <2>4. IsFiniteSet(Q)
      BY Zenon, FS_Subset
    <2>5. IsFiniteSet(P) /\ Cardinality(P) = n - 1
      BY Zenon, <2>2, <2>3, <2>4, FS_RemoveElement
    <2>6. n \in Nat /\ Cardinality(P) \in Nat
      BY Zenon, <2>5, FS_CardinalityType
    <2>7. P # {}
        BY <2>3, <2>2
    <2>8. Least(P)
      <3> SUFFICES ASSUME ~ Least(P) PROVE FALSE
        OBVIOUS
      <3>1. n - 1 \in T
        BY Zenon, <2>5, <2>6, <2>7
      <3>2. n <= n - 1
        BY Zenon, <2>1, <3>1
      <3> QED
        BY <2>6, <3>2
    <2>9. PICK z \in P : \A y \in P : z <= y
      BY Zenon, <2>8
    <2>10. z \in Int /\ x \in Int /\ \A y \in Q : y \in Int
      BY Zenon, <2>3
    <2>11. CASE z <= x
        BY Zenon, <2>9, <2>11, <2>2
    <2>12. CASE ~ (z <= x)
        BY <2>9, <2>10, <2>12, <2>2, <2>3
    <2> QED
      BY Zenon, <2>11, <2>12
  <1>2. Cardinality(S) \in Nat
    BY Zenon, FS_CardinalityType
  <1>3. Least(S)
    BY Zenon, <1>1, <1>2
  <1> QED
    BY Zenon, <1>3 DEF Min

(* The greater of two integers.                                            *)
LEMMA MaxOfTwo ==
  ASSUME NEW a \in Int, NEW b \in Int
  PROVE  /\ Max({a, b}) \in Int /\ Max({a, b}) >= a /\ Max({a, b}) >= b
    BY DEF Max

(* The sum of a function over a finite set: the recursion that defines it  *)
(* has a solution, whose values are integers, and nothing adds up to 0.    *)
Pick(s) == CHOOSE x \in s : TRUE
SumStep(fun, g, s) == IF s = {} THEN 0 ELSE fun[Pick(s)] + g[s \ {Pick(s)}]
Sums(fun, S) == CHOOSE g : g = [s \in SUBSET S |-> SumStep(fun, g, s)]

(* SumFunctionOnSet, which adds up the shares of a flow for select_dscp,   *)
(* is that recursion.                                                      *)
LEMMA SumDefined ==
  ASSUME NEW fun, NEW S
  PROVE  SumFunctionOnSet(fun, S) = Sums(fun, S)[S]
  BY Zenon DEF SumFunctionOnSet, FoldFunctionOnSet, MapThenFoldSet, Sums, SumStep, Pick

(* The recursion has a solution on the subsets of a finite set.            *)
LEMMA SumsExist ==
  ASSUME NEW fun, NEW S, IsFiniteSet(S)
  PROVE  \A s \in SUBSET S : Sums(fun, S)[s] = SumStep(fun, Sums(fun, S), s)
  <1> DEFINE Upto(n) == {s \in SUBSET S : Cardinality(s) <= n}
             Solves(g, n) == \A s \in Upto(n) : g[s] = SumStep(fun, g, s)
             T == {n \in Nat : ~ \E g : Solves(g, n)}
  <1>0. \A s \in SUBSET S : IsFiniteSet(s) /\ Cardinality(s) \in Nat
    BY Zenon, FS_Subset, FS_CardinalityType
  <1>p. \A s \in SUBSET S : s # {} => /\ Pick(s) \in s /\ s \ {Pick(s)} \in SUBSET S
                                      /\ Cardinality(s \ {Pick(s)}) = Cardinality(s) - 1
      BY Zenon, <1>0, FS_RemoveElement DEF Pick
  <1>1. T = {}
    <2> SUFFICES ASSUME T # {} PROVE FALSE
      OBVIOUS
    <2>1. PICK n \in T : \A m \in T : n <= m
        BY Zenon, LeastNat DEF T
    <2>2. n \in Nat /\ ~ \E g : Solves(g, n)
      OBVIOUS
    <2>3. CASE n = 0
      <3> DEFINE g == [s \in SUBSET S |-> 0]
      <3>1. \A s \in Upto(n) : s = {}
        BY <1>0, <2>3, FS_EmptySet
      <3>2. Solves(g, n)
        BY Zenon, <3>1 DEF SumStep
      <3> QED
        BY Zenon, <2>2, <3>2
    <2>4. CASE n # 0
      <3>1. n - 1 \in Nat /\ n - 1 \notin T
        BY <2>1, <2>2, <2>4
      <3>2. PICK h : Solves(h, n - 1)
        BY Zenon, <3>1
      <3> DEFINE g == [s \in SUBSET S |-> IF Cardinality(s) <= n - 1 THEN h[s] ELSE SumStep(fun, h, s)]
      <3>3. ASSUME NEW s \in Upto(n)
            PROVE  g[s] = SumStep(fun, g, s)
        <4>1. s \in SUBSET S /\ Cardinality(s) \in Nat /\ Cardinality(s) <= n
          BY Zenon, <1>0
        <4>2. g[s] = SumStep(fun, h, s)
            BY Zenon, <3>2, <4>1
        <4>3. CASE s = {}
          BY Zenon, <4>2, <4>3 DEF SumStep
        <4>4. CASE s # {}
            BY <1>p, <2>2, <4>1, <4>4, <4>2 DEF SumStep
        <4> QED
          BY Zenon, <4>3, <4>4
      <3>4. Solves(g, n)
        BY Zenon, <3>3
      <3> QED
        BY Zenon, <2>2, <3>4
    <2> QED
      BY Zenon, <2>3, <2>4
  <1>2. PICK h : Solves(h, Cardinality(S))
    BY Zenon, <1>0, <1>1
  <1> DEFINE g == [s \in SUBSET S |-> h[s]]
  <1>3. \A s \in SUBSET S : h[s] = SumStep(fun, h, s)
      BY Zenon, FS_Subset, <1>2
  <1>4. \A s \in SUBSET S : SumStep(fun, h, s) = SumStep(fun, g, s)
    BY Zenon, <1>p DEF SumStep
  <1>5. g = [s \in SUBSET S |-> SumStep(fun, g, s)]
    BY Zenon, <1>3, <1>4
  <1> DEFINE F == [s \in SUBSET S |-> SumStep(fun, Sums(fun, S), s)]
  <1>6. Sums(fun, S) = F
    BY Zenon, <1>5 DEF Sums
  <1>7. \A s \in SUBSET S : F[s] = SumStep(fun, Sums(fun, S), s)
    OBVIOUS
  <1> HIDE DEF F
  <1> QED
    BY Zenon, <1>6, <1>7

(* The sum of integers, such as the shares select_dscp draws from, is one. *)
LEMMA SumIsInteger ==
  ASSUME NEW fun, NEW S, IsFiniteSet(S), \A x \in S : fun[x] \in Int
  PROVE  SumFunctionOnSet(fun, S) \in Int
  <1> DEFINE g == Sums(fun, S)
             T == {n \in Nat : \E s \in SUBSET S : Cardinality(s) = n /\ g[s] \notin Int}
  <1>0. \A s \in SUBSET S : IsFiniteSet(s) /\ Cardinality(s) \in Nat
    BY Zenon, FS_Subset, FS_CardinalityType
  <1>1. \A s \in SUBSET S : g[s] = SumStep(fun, g, s)
    BY Zenon, SumsExist
  <1> HIDE DEF g
  <1>2. T = {}
    <2> SUFFICES ASSUME T # {} PROVE FALSE
      OBVIOUS
    <2>1. PICK n \in T : \A m \in T : n <= m
        BY Zenon, LeastNat DEF T
    <2>2. PICK s \in SUBSET S : Cardinality(s) = n /\ g[s] \notin Int
      BY Zenon, <2>1
    <2>3. s # {}
      <3>1. SumStep(fun, g, {}) = 0
        BY Zenon DEF SumStep
      <3>2. 0 \in Int
        OBVIOUS
      <3>3. g[s] = SumStep(fun, g, s)
        BY Zenon, <1>1
      <3> QED
        BY Zenon, <2>2, <3>1, <3>2, <3>3
    <2>4. Pick(s) \in s
      BY Zenon, <2>3 DEF Pick
    <2> DEFINE r == s \ {Pick(s)}
    <2>5. r \in SUBSET S /\ Cardinality(r) = n - 1 /\ Cardinality(r) \in Nat
      BY <1>0, <2>2, <2>4, FS_RemoveElement
    <2>6. n - 1 \notin T
      BY <2>1, <2>5
    <2>7. g[r] \in Int
      BY Zenon, <2>5, <2>6
    <2>8. g[s] = fun[Pick(s)] + g[r]
      BY Zenon, <1>1, <2>3 DEF SumStep
    <2> QED
      BY <2>2, <2>4, <2>7, <2>8
  <1>3. g[S] \in Int
    BY Zenon, <1>0, <1>2
  <1> QED
    BY Zenon, <1>3, SumDefined DEF g

(* A flow without shares has 0 to draw from.                               *)
LEMMA SumOfNothing ==
  ASSUME NEW fun
  PROVE  SumFunctionOnSet(fun, {}) = 0
    BY Zenon, SumsExist, FS_EmptySet, SumDefined DEF SumStep

-----------------------------------------------------------------------------
(* The flow whose burst is being sent, and what of it is not counted yet.  *)
Uncounted(f) == IF expired # <<>> /\ f = Head(expired) THEN k ELSE 0

(* Outside a burst no flow is due; within one, the flows still due are     *)
(* different and their delays have run out.                                *)
Queue ==
  /\ phase \notin {"burst", "dead"} => expired = <<>>
  /\ expired = <<>> => k = 0
  /\ phase = "burst" =>
        /\ \A i, j \in 1 .. Len(expired) : expired[i] = expired[j] => i = j
        /\ \A i \in 1 .. Len(expired) : ipds[expired[i]] <= 0

(* Every delay that has passed has paid for one burst, and what is left of *)
(* the current one is still to pass.                                       *)
Paced ==
  phase \in {"loop", "burst"} =>
     \A f \in Flows :
        /\ ipds[f] <= ipd[f]
        /\ ipd[f] > 0 => bursts[f] * ipd[f] + ipd[f] - ipds[f] <= now

Counts == \A f \in Flows : byte_counts[f] + network[f] <= pkt_count[f] + Uncounted(f)

Files ==
  /\ phase \in {"registered", "args"} => slices = 0
  /\ phase # "dead" => exc = "none"
  /\ sender_file # NoFile => phase = "dead" /\ sender_file = pkt_count
  /\ receiver_file # NoFile => ~ serving /\ receiver_file = byte_counts

Inv == TypeOK /\ Queue /\ Paced /\ Counts /\ Files /\ EndsUnwrittenForACause

-----------------------------------------------------------------------------
(* The members of a finite set, each once.                                 *)
LEMMA ListedOnce ==
  ASSUME NEW S, IsFiniteSet(S)
  PROVE  /\ Listed(S) \in Seq(S)
         /\ \A i, j \in 1 .. Len(Listed(S)) : Listed(S)[i] = Listed(S)[j] => i = j
  <1> DEFINE n == Cardinality(S)
  <1>1. n \in Nat /\ ExistsBijection(1 .. n, S)
    BY Zenon, FS_CardinalityType
  <1>2. \E l \in Injection(1 .. n, S) : TRUE
    BY Zenon, <1>1 DEF ExistsBijection, Bijection
  <1>3. Listed(S) \in Injection(1 .. n, S)
    BY Zenon, <1>2 DEF Listed
  <1> HIDE DEF n
  <1>4. Listed(S) \in [1 .. n -> S] /\ IsInjective(Listed(S))
    BY Zenon, <1>3 DEF Injection
  <1>5. Listed(S) \in Seq(S) /\ Len(Listed(S)) = n
    BY <1>1, <1>4
  <1> QED
    BY Zenon, <1>4, <1>5 DEF IsInjective

(* The delay between bursts of a rate is an integer.                       *)
LEMMA DelayIsInteger ==
  ASSUME NEW rate \in Int
  PROVE  compute_inter_pkt_delay(rate) \in Int
    BY GenerationAssumption DEF compute_inter_pkt_delay

(* A draw that falls out of select_dscp's loop lies above the sum of the   *)
(* shares.                                                                 *)
LEMMA NothingSelected ==
  ASSUME NEW shares \in Seq(Nat), NEW random_pick \in 0 .. Whole,
         select_dscp(shares, random_pick) = None
  PROVE  Accumulated(shares, Len(shares)) < Whole
  <1> DEFINE reached == {n \in 1 .. Len(shares) : random_pick <= Accumulated(shares, n)}
             sum == Accumulated(shares, Len(shares))
  <1>0. Whole \in Nat \ {0} /\ Len(shares) \in Nat
    BY GenerationAssumption
  <1>1. sum \in Int
    <2>1. IsFiniteSet(1 .. Len(shares))
      BY <1>0, FS_Interval
    <2>2. \A x \in 1 .. Len(shares) : shares[x] \in Int
      OBVIOUS
    <2> QED
      BY Zenon, <2>1, <2>2, SumIsInteger DEF Accumulated
  <1>2. reached = {}
    <2> SUFFICES ASSUME reached # {} PROVE FALSE
      OBVIOUS
    <2>1. reached \in SUBSET Int /\ IsFiniteSet(reached)
      <3>1. IsFiniteSet(1 .. Len(shares)) /\ reached \in SUBSET (1 .. Len(shares))
        BY <1>0, FS_Interval
      <3>2. reached \in SUBSET Int
        OBVIOUS
      <3> HIDE DEF reached
      <3>3. IsFiniteSet(reached)
        BY Zenon, <3>1, FS_Subset
      <3> QED
        BY Zenon, <3>2, <3>3
    <2>2. Min(reached) \in reached
      BY Zenon, <2>1, MinOfFinite
    <2>3. Min(reached) # 0
      BY <2>2
    <2> QED
      BY Zenon, <2>3 DEF select_dscp, None
  <1>3. CASE Len(shares) = 0
      BY <1>3, SumOfNothing, <1>0 DEF Accumulated
  <1>4. CASE Len(shares) # 0
      BY <1>0, <1>4, <1>2, <1>1 DEF sum
  <1> QED
    BY Zenon, <1>3, <1>4

(* What a wait takes off every delay is not negative.                      *)
LEMMA WaitIsForward ==
  ASSUME TypeOK, NEW busy \in 0 .. MaxDelay, NEW late \in 0 .. MaxDelay
  PROVE  Max({busy, Min({ipds[f] : f \in Flows})}) + late \in Nat
  <1> DEFINE S == {ipds[f] : f \in Flows}
  <1>1. S \in SUBSET Int /\ S # {} /\ IsFiniteSet(S)
    <2>1. ipds \in [Flows -> Int]
      BY Zenon DEF TypeOK
    <2>2. IsFiniteSet(S)
      <3>1. ipds \in Surjection(Flows, S)
        BY Zenon, <2>1 DEF Surjection
      <3> QED
        BY Zenon, <3>1, FS_Surjection, GenerationAssumption
    <2> QED
      BY <2>1, <2>2, GenerationAssumption
  <1> HIDE DEF S
  <1>2. Min(S) \in Int
    BY Zenon, <1>1, MinOfFinite
  <1>3. busy \in Int /\ busy >= 0 /\ late \in Nat
    BY GenerationAssumption
  <1>4. Max({busy, Min(S)}) \in Int /\ Max({busy, Min(S)}) >= busy
    BY Zenon, <1>2, <1>3, MaxOfTwo
  <1> QED
    BY <1>3, <1>4 DEF S

-----------------------------------------------------------------------------
(* The first flow that is due is a flow, and what is left when its burst   *)
(* is done are the others.                                                 *)
LEMMA HeadAndTail ==
  ASSUME expired \in Seq(Flows), expired # <<>>
  PROVE  /\ Head(expired) \in Flows /\ Head(expired) = expired[1] /\ 1 \in 1 .. Len(expired)
         /\ Tail(expired) \in Seq(Flows) /\ Len(Tail(expired)) = Len(expired) - 1
         /\ \A i \in 1 .. Len(Tail(expired)) :
               i + 1 \in 1 .. Len(expired) /\ i + 1 # 1 /\ Tail(expired)[i] = expired[i + 1]
  OBVIOUS

(* Every step of transmit, of the signal handlers and of the server keeps  *)
(* the types: the index into a flow's rates wraps before it runs out.      *)
LEMMA TypesKept ==
  ASSUME TypeOK, Next
  PROVE  TypeOK'
  <1> USE DEF generator, server
  <1>g. /\ MaxSlices \in Nat /\ BURST_COUNT \in Nat \ {0}
        /\ \A f \in Flows : transmit_rates[f] \in Seq(Int) /\ transmit_rates[f] # <<>>
    BY Zenon, GenerationAssumption
  <1>c. /\ pkt_count \in [Flows -> Nat] /\ bursts \in [Flows -> Nat]
        /\ network \in [Flows -> Nat] /\ byte_counts \in [Flows -> Nat]
        /\ ipd \in [Flows -> Int] /\ ipds \in [Flows -> Int] /\ k \in 0 .. BURST_COUNT
    BY Zenon DEF TypeOK
  <1>1. CASE get_args \/ create_sockets \/ SliceOver
    BY Zenon, <1>1 DEF get_args, create_sockets, SliceOver, TypeOK
  <1>2. CASE select_tx_rate
    <2>1. \A f \in Flows : /\ transmit_rates[f][rate_idx[f] + 1] \in Int
                           /\ NextIndex(f) \in 0 .. Len(transmit_rates[f]) - 1
      <3> SUFFICES ASSUME NEW f \in Flows
                   PROVE  /\ transmit_rates[f][rate_idx[f] + 1] \in Int
                          /\ NextIndex(f) \in 0 .. Len(transmit_rates[f]) - 1
        OBVIOUS
      <3>1. /\ transmit_rates[f] \in Seq(Int) /\ Len(transmit_rates[f]) \in Nat \ {0}
            /\ rate_idx[f] \in 0 .. Len(transmit_rates[f]) - 1
        BY <1>g DEF TypeOK
      <3> QED
        BY SMTT(45), <3>1 DEF NextIndex
    <2>2. ipd' \in [Flows -> Int] /\ ipds' \in [Flows -> Int]
      BY Zenon, <1>2, <2>1, DelayIsInteger DEF select_tx_rate
    <2>3. \A f \in Flows : rate_idx'[f] \in 0 .. Len(transmit_rates[f]) - 1
      BY Zenon, <1>2, <2>1 DEF select_tx_rate
    <2>4. bursts' \in [Flows -> Nat] /\ slices' \in 0 .. MaxSlices
      BY <1>2, <1>g DEF select_tx_rate, Zero, TypeOK
    <2> QED
      BY <1>2, <2>2, <2>3, <2>4 DEF select_tx_rate, TypeOK
  <1>3. CASE FindExpired
    <2>1. expired' \in Seq({f \in Flows : Due(f)})
        BY Zenon, GenerationAssumption, FS_Subset, <1>3, ListedOnce DEF FindExpired
    <2>2. expired' \in Seq(Flows)
      BY <2>1
    <2> QED
      BY Zenon, <1>3, <2>2 DEF FindExpired, TypeOK
  <1>4. CASE inc_pkt_count
    <2>1. Head(expired) \in Flows /\ Tail(expired) \in Seq(Flows)
      BY Zenon, <1>4, HeadAndTail DEF inc_pkt_count, TypeOK
    <2>2. /\ pkt_count' = [pkt_count EXCEPT ![Head(expired)] = pkt_count[Head(expired)] + BURST_COUNT]
          /\ bursts' = [bursts EXCEPT ![Head(expired)] = bursts[Head(expired)] + 1]
          /\ ipds' = [ipds EXCEPT ![Head(expired)] = ipd[Head(expired)]]
      BY Zenon, <1>4 DEF inc_pkt_count, Counted
    <2>3. pkt_count' \in [Flows -> Nat] /\ bursts' \in [Flows -> Nat] /\ ipds' \in [Flows -> Int]
      <3> DEFINE f == Head(expired)
      <3>1. f \in Flows
        BY Zenon, <2>1
      <3>2. pkt_count[f] + BURST_COUNT \in Nat /\ bursts[f] + 1 \in Nat /\ ipd[f] \in Int
        BY SMTT(30), <1>c, <1>g, <3>1
      <3> QED
        BY Zenon, <1>c, <2>2, <3>2
    <2>4. expired' \in Seq(Flows) /\ k' \in 0 .. BURST_COUNT
      BY <1>4, <1>g, <2>1 DEF inc_pkt_count
    <2> QED
      BY ZenonT(20), <1>4, <2>3, <2>4 DEF inc_pkt_count, TypeOK
  <1>5. ASSUME NEW random_pick \in 0 .. Whole,
               sendto(random_pick) \/ sendto_raises(random_pick) \/ set_dscp_raises(random_pick)
        PROVE  TypeOK'
    <2>1. expired # <<>> => Head(expired) \in Flows
      BY Zenon, HeadAndTail DEF TypeOK
    <2>2. network' \in [Flows -> Nat] /\ k' \in 0 .. BURST_COUNT
      <3>1. CASE set_dscp_raises(random_pick) \/ sendto_raises(random_pick)
        BY Zenon, <1>c, <3>1 DEF set_dscp_raises, sendto_raises
      <3>2. CASE sendto(random_pick)
        BY <1>c, <1>g, <2>1, <3>2 DEF sendto
      <3> QED
        BY Zenon, <1>5, <3>1, <3>2
    <2> QED
      BY Zenon, <1>5, <2>2 DEF sendto, set_dscp_raises, sendto_raises, TypeOK
  <1>6. ASSUME NEW busy \in 0 .. MaxDelay, NEW late \in 0 .. MaxDelay, wait(busy, late)
        PROVE  TypeOK'
    <2> DEFINE w == Max({busy, Min({ipds[f] : f \in Flows})}) + late
    <2>1. w \in Nat
      BY Zenon, WaitIsForward
    <2>2. now' = now + w /\ ipds' = [f \in Flows |-> ipds[f] - w]
      BY Zenon, <1>6 DEF wait
    <2> HIDE DEF w
    <2>3. now' \in Nat /\ ipds' \in [Flows -> Int]
      BY SMTT(30), <2>1, <2>2 DEF TypeOK
    <2> QED
      BY Zenon, <1>6, <2>3 DEF wait, TypeOK
  <1>7. CASE handle_sig_int \/ server_handle_sig_int
    BY Zenon, <1>7 DEF handle_sig_int, server_handle_sig_int, TypeOK
  <1>8. ASSUME NEW f \in Flows, recvfrom(f) \/ Lose(f)
        PROVE  TypeOK'
    <2>1. network' \in [Flows -> Nat] /\ byte_counts' \in [Flows -> Nat]
      BY <1>8, <1>c DEF recvfrom, Lose
    <2> QED
      BY ZenonT(30), <1>8, <2>1 DEF recvfrom, Lose, TypeOK
  <1> QED
    BY Zenon, <1>1, <1>2, <1>3, <1>4, <1>5, <1>6, <1>7, <1>8 DEF Next

(* The flows still to be served in this iteration of transmit's loop are   *)
(* distinct ones whose inter-packet delay had run out.                     *)
LEMMA QueueKept ==
  ASSUME TypeOK, Queue, Next
  PROVE  Queue'
  <1> USE DEF generator, server
  <1>1. CASE get_args \/ create_sockets \/ SliceOver \/ select_tx_rate
    BY Zenon, <1>1 DEF get_args, create_sockets, SliceOver, select_tx_rate, Queue
  <1>3. CASE FindExpired
    <2> DEFINE S == {f \in Flows : Due(f)}
    <2>1. IsFiniteSet(S) /\ \A f \in S : ipds[f] <= 0
      BY Zenon, GenerationAssumption, FS_Subset DEF Due
    <2>2. phase' = "burst" /\ expired' = Listed(S) /\ k' = k /\ ipds' = ipds /\ k = 0
      BY Zenon, <1>3 DEF FindExpired, Queue
    <2> HIDE DEF S
    <2>3. /\ expired' \in Seq(S)
          /\ \A i, j \in 1 .. Len(expired') : expired'[i] = expired'[j] => i = j
      BY <2>1, <2>2, ListedOnce
    <2>4. \A i \in 1 .. Len(expired') : expired'[i] \in S
      BY <2>3
    <2> QED
      BY Zenon, <2>1, <2>2, <2>3, <2>4 DEF Queue
  <1>4. CASE inc_pkt_count
    <2>0. /\ phase = "burst" /\ phase' = phase /\ expired # <<>> /\ k' = 0 /\ expired' = Tail(expired)
          /\ ipds' = [ipds EXCEPT ![Head(expired)] = ipd[Head(expired)]]
          /\ ipds \in [Flows -> Int] /\ expired \in Seq(Flows)
      BY Zenon, <1>4 DEF inc_pkt_count, TypeOK
    <2>1. /\ Head(expired) = expired[1] /\ 1 \in 1 .. Len(expired) /\ expired' \in Seq(Flows)
          /\ \A i \in 1 .. Len(expired') :
                i + 1 \in 1 .. Len(expired) /\ i + 1 # 1 /\ expired'[i] = expired[i + 1]
      BY Zenon, <2>0, HeadAndTail
    <2>2. /\ \A i, j \in 1 .. Len(expired) : expired[i] = expired[j] => i = j
          /\ \A i \in 1 .. Len(expired) : ipds[expired[i]] <= 0
      BY Zenon, <2>0 DEF Queue
    <2>3. ASSUME NEW i \in 1 .. Len(expired')
          PROVE  ipds'[expired'[i]] <= 0
        BY <2>1, <2>2, <2>0
    <2>4. ASSUME NEW i \in 1 .. Len(expired'), NEW j \in 1 .. Len(expired'), expired'[i] = expired'[j]
          PROVE  i = j
        BY <2>1, <2>4, <2>2
    <2> QED
      BY Zenon, <2>0, <2>3, <2>4 DEF Queue
  <1>5. ASSUME NEW random_pick \in 0 .. Whole,
               sendto(random_pick) \/ sendto_raises(random_pick) \/ set_dscp_raises(random_pick)
        PROVE  Queue'
    BY Zenon, <1>5 DEF sendto, set_dscp_raises, sendto_raises, Queue
  <1>6. ASSUME NEW busy \in 0 .. MaxDelay, NEW late \in 0 .. MaxDelay, wait(busy, late)
        PROVE  Queue'
    BY Zenon, <1>6 DEF wait, Queue
  <1>7. CASE handle_sig_int \/ server_handle_sig_int
    BY Zenon, <1>7 DEF handle_sig_int, server_handle_sig_int, Queue
  <1>8. ASSUME NEW f \in Flows, recvfrom(f) \/ Lose(f)
        PROVE  Queue'
    BY <1>8 DEF recvfrom, Lose, Queue
  <1> QED
    BY Zenon, <1>1, <1>3, <1>4, <1>5, <1>6, <1>7, <1>8 DEF Next

(* What transmit leaves in ipds accounts for the time since a flow's last  *)
(* burst, whichever step is taken.                                         *)
LEMMA PacedKept ==
  ASSUME TypeOK, Queue, Paced, Next
  PROVE  Paced'
  <1> USE DEF generator, server
  <1>c. ipd \in [Flows -> Int] /\ ipds \in [Flows -> Int] /\ bursts \in [Flows -> Nat] /\ now \in Nat
    BY Zenon DEF TypeOK
  <1>1. CASE get_args \/ create_sockets \/ SliceOver \/ handle_sig_int
    BY Zenon, <1>1 DEF get_args, create_sockets, SliceOver, handle_sig_int, Paced
  <1>2. CASE select_tx_rate
    <2>1. ipds' = ipd' /\ now' = 0 /\ bursts' = [f \in Flows |-> 0] /\ ipd' \in [Flows -> Int]
      BY Zenon, <1>2, TypesKept DEF select_tx_rate, Zero, TypeOK
    <2> QED
      BY <2>1 DEF Paced
  <1>3. CASE FindExpired
    BY Zenon, <1>3 DEF FindExpired, Paced
  <1>4. CASE inc_pkt_count
    <2> SUFFICES ASSUME NEW f \in Flows
                 PROVE  /\ ipds'[f] <= ipd[f]
                        /\ ipd[f] > 0 => bursts'[f] * ipd[f] + ipd[f] - ipds'[f] <= now
      BY Zenon, <1>4 DEF inc_pkt_count, Paced
    <2>0. /\ phase = "burst" /\ expired # <<>> /\ expired \in Seq(Flows)
          /\ bursts' = [bursts EXCEPT ![Head(expired)] = bursts[Head(expired)] + 1]
          /\ ipds' = [ipds EXCEPT ![Head(expired)] = ipd[Head(expired)]]
      BY Zenon, <1>4 DEF inc_pkt_count, TypeOK
    <2>1. /\ ipds[f] <= ipd[f]
          /\ ipd[f] > 0 => bursts[f] * ipd[f] + ipd[f] - ipds[f] <= now
      BY Zenon, <2>0 DEF Paced
    <2>2. CASE f = Head(expired)
      <3>1. ipds[f] <= 0
        BY Zenon, <2>0, <2>2, HeadAndTail DEF Queue
      <3>2. ipds'[f] = ipd[f] /\ bursts'[f] = bursts[f] + 1
        BY Zenon, <1>c, <2>0, <2>2
      <3> DEFINE b == bursts[f]
                 d == ipd[f]
      <3>3. b \in Int /\ d \in Int /\ ipds[f] \in Int
        BY <1>c
      <3>4. (b + 1) * d = b * d + d /\ b * d \in Int
        BY <3>3
      <3> HIDE DEF b, d
      <3> QED
        BY <1>c, <2>1, <3>1, <3>2, <3>3, <3>4 DEF b, d
    <2>3. CASE f # Head(expired)
        BY Zenon, <1>c, <2>0, <2>3, <2>1
    <2> QED
      BY Zenon, <2>2, <2>3
  <1>5. ASSUME NEW random_pick \in 0 .. Whole,
               sendto(random_pick) \/ sendto_raises(random_pick) \/ set_dscp_raises(random_pick)
        PROVE  Paced'
    BY Zenon, <1>5 DEF sendto, set_dscp_raises, sendto_raises, Paced
  <1>6. ASSUME NEW busy \in 0 .. MaxDelay, NEW late \in 0 .. MaxDelay, wait(busy, late)
        PROVE  Paced'
    <2> DEFINE w == Max({busy, Min({ipds[f] : f \in Flows})}) + late
    <2>1. w \in Nat
      BY Zenon, <1>c, WaitIsForward
    <2>2. now' = now + w /\ ipds' = [f \in Flows |-> ipds[f] - w] /\ phase = "burst"
          /\ ipd' = ipd /\ bursts' = bursts
      BY Zenon, <1>6 DEF wait
    <2> HIDE DEF w
    <2> SUFFICES ASSUME NEW f \in Flows
                 PROVE  /\ ipds'[f] <= ipd[f]
                        /\ ipd[f] > 0 => bursts[f] * ipd[f] + ipd[f] - ipds'[f] <= now'
      BY Zenon, <2>2 DEF Paced
    <2>3. /\ ipds[f] <= ipd[f]
          /\ ipd[f] > 0 => bursts[f] * ipd[f] + ipd[f] - ipds[f] <= now
      BY Zenon, <2>2 DEF Paced
    <2> DEFINE p == bursts[f] * ipd[f]
    <2>4. p \in Int /\ ipds[f] \in Int /\ ipd[f] \in Int
      BY <1>c
    <2> HIDE DEF p
    <2> QED
      BY <1>c, <2>1, <2>2, <2>3, <2>4 DEF p
  <1>7. CASE server_handle_sig_int
    BY Zenon, <1>7 DEF server_handle_sig_int, Paced
  <1>8. ASSUME NEW f \in Flows, recvfrom(f) \/ Lose(f)
        PROVE  Paced'
    BY Zenon, <1>8 DEF recvfrom, Lose, Paced
  <1> QED
    BY Zenon, <1>1, <1>2, <1>3, <1>4, <1>5, <1>6, <1>7, <1>8 DEF Next

(* Counting in the generator follows sending by at most the burst that is  *)
(* being sent, and the server counts only what was sent.                   *)
LEMMA CountsKept ==
  ASSUME TypeOK, Queue, Counts, Next
  PROVE  Counts'
  <1> USE DEF generator, server
  <1>c. /\ pkt_count \in [Flows -> Nat] /\ network \in [Flows -> Nat] /\ byte_counts \in [Flows -> Nat]
        /\ k \in Nat /\ BURST_COUNT \in Nat /\ expired \in Seq(Flows)
    BY GenerationAssumption DEF TypeOK
  <1>1. CASE get_args \/ create_sockets \/ SliceOver \/ handle_sig_int \/ select_tx_rate
             \/ server_handle_sig_int
             \/ \E random_pick \in 0 .. Whole :
                   set_dscp_raises(random_pick) \/ sendto_raises(random_pick)
    BY Zenon, <1>1 DEF get_args, create_sockets, SliceOver, handle_sig_int, select_tx_rate,
       server_handle_sig_int, set_dscp_raises, sendto_raises, Counts, Uncounted
  <1>3. CASE FindExpired
      BY Zenon, <1>3 DEF FindExpired, Queue, Uncounted, Counts
  <1>4. CASE inc_pkt_count
    <2>0. /\ k = BURST_COUNT /\ k' = 0 /\ expired # <<>>
          /\ pkt_count' = [pkt_count EXCEPT ![Head(expired)] = pkt_count[Head(expired)] + BURST_COUNT]
          /\ network' = network /\ byte_counts' = byte_counts
      BY Zenon, <1>4 DEF inc_pkt_count, Counted
    <2>1. \A f \in Flows : Uncounted(f)' = 0
      BY Zenon, <2>0 DEF Uncounted
    <2>2. \A f \in Flows : pkt_count'[f] = pkt_count[f] + Uncounted(f)
      BY SMTT(30), <1>c, <2>0 DEF Uncounted
    <2>3. \A f \in Flows : Uncounted(f) \in Nat
      BY Zenon, <1>c DEF Uncounted
    <2> SUFFICES ASSUME NEW f \in Flows
                 PROVE  byte_counts[f] + network[f] <= pkt_count'[f] + Uncounted(f)'
      BY Zenon, <2>0 DEF Counts
    <2>4. byte_counts[f] + network[f] <= pkt_count[f] + Uncounted(f)
      BY Zenon DEF Counts
    <2>5. pkt_count'[f] + Uncounted(f)' = pkt_count[f] + Uncounted(f)
      BY <1>c, <2>1, <2>2, <2>3
    <2> QED
      BY Zenon, <2>4, <2>5
  <1>5. ASSUME NEW random_pick \in 0 .. Whole, sendto(random_pick)
        PROVE  Counts'
    <2>0. /\ k' = k + 1 /\ expired # <<>> /\ expired' = expired /\ Head(expired) \in Flows
          /\ network' = [network EXCEPT ![Head(expired)] = network[Head(expired)] + 1]
          /\ pkt_count' = pkt_count /\ byte_counts' = byte_counts
      BY Zenon, <1>5, <1>c, HeadAndTail DEF sendto
    <2> SUFFICES ASSUME NEW f \in Flows
                 PROVE  byte_counts[f] + network'[f] <= pkt_count[f] + Uncounted(f)'
      BY Zenon, <2>0 DEF Counts
    <2>1. byte_counts[f] + network[f] <= pkt_count[f] + Uncounted(f)
      BY Zenon DEF Counts
    <2>2. CASE f = Head(expired)
      <3>1. network'[f] = network[f] + 1 /\ Uncounted(f) = k /\ Uncounted(f)' = k + 1
        BY Zenon, <1>c, <2>0, <2>2 DEF Uncounted
      <3> QED
        BY <1>c, <2>1, <3>1
    <2>3. CASE f # Head(expired)
        BY Zenon, <1>c, <2>0, <2>3, <2>1 DEF Uncounted
    <2> QED
      BY Zenon, <2>2, <2>3
  <1>6. ASSUME NEW busy \in 0 .. MaxDelay, NEW late \in 0 .. MaxDelay, wait(busy, late)
        PROVE  Counts'
    BY Zenon, <1>6 DEF wait, Counts, Uncounted
  <1>8. ASSUME NEW f \in Flows, recvfrom(f) \/ Lose(f)
        PROVE  Counts'
    <2>0. /\ expired' = expired /\ k' = k /\ pkt_count' = pkt_count
          /\ network' = [network EXCEPT ![f] = network[f] - 1]
          /\ \/ byte_counts' = byte_counts
             \/ byte_counts' = [byte_counts EXCEPT ![f] = byte_counts[f] + 1]
      BY Zenon, <1>8 DEF recvfrom, Lose
    <2> SUFFICES ASSUME NEW g \in Flows
                 PROVE  byte_counts'[g] + network'[g] <= pkt_count[g] + Uncounted(g)
      BY Zenon, <2>0 DEF Counts, Uncounted
    <2>1. byte_counts[g] + network[g] <= pkt_count[g] + Uncounted(g) /\ Uncounted(g) \in Nat
      BY Zenon, <1>c DEF Counts, Uncounted
    <2> QED
      BY SMTT(30), <1>c, <2>0, <2>1
  <1> QED
    BY Zenon, <1>1, <1>3, <1>4, <1>5, <1>6, <1>8 DEF Next

(* Each program writes its file once, with its final counts, when it ends. *)
LEMMA FilesKept ==
  ASSUME TypeOK, Files, Next
  PROVE  Files'
  <1> USE DEF generator, server
  <1>1. CASE get_args \/ create_sockets \/ SliceOver \/ handle_sig_int \/ select_tx_rate
             \/ server_handle_sig_int \/ FindExpired \/ inc_pkt_count
    BY SMTT(20), <1>1 DEF get_args, create_sockets, SliceOver, handle_sig_int, select_tx_rate,
       server_handle_sig_int, FindExpired, inc_pkt_count, Files
  <1>5. ASSUME NEW random_pick \in 0 .. Whole,
               sendto(random_pick) \/ sendto_raises(random_pick) \/ set_dscp_raises(random_pick)
        PROVE  Files'
    BY <1>5 DEF sendto, set_dscp_raises, sendto_raises, Files
  <1>6. ASSUME NEW busy \in 0 .. MaxDelay, NEW late \in 0 .. MaxDelay, wait(busy, late)
        PROVE  Files'
    BY Zenon, <1>6 DEF wait, Files
  <1>8. ASSUME NEW f \in Flows, recvfrom(f) \/ Lose(f)
        PROVE  Files'
    BY <1>8 DEF recvfrom, Lose, Files
  <1> QED
    BY Zenon, <1>1, <1>5, <1>6, <1>8 DEF Next

(* A generator that got to send ends without its file for a cause only.    *)
LEMMA EndsKept ==
  ASSUME TypeOK, Files, EndsUnwrittenForACause, Next
  PROVE  EndsUnwrittenForACause'
  <1> USE DEF generator, server
  <1>1. CASE get_args \/ create_sockets \/ SliceOver \/ select_tx_rate
             \/ server_handle_sig_int \/ FindExpired \/ inc_pkt_count
    BY Zenon, <1>1 DEF get_args, create_sockets, SliceOver, select_tx_rate,
       server_handle_sig_int, FindExpired, inc_pkt_count, EndsUnwrittenForACause
  <1>2. CASE handle_sig_int
      BY GenerationAssumption, <1>2 DEF TypeOK, NoFile, handle_sig_int, Files,
         EndsUnwrittenForACause
  <1>3. ASSUME NEW random_pick \in 0 .. Whole, sendto_raises(random_pick)
        PROVE  EndsUnwrittenForACause'
    BY Zenon, <1>3 DEF sendto_raises, Files, EndsUnwrittenForACause
  <1>5. ASSUME NEW random_pick \in 0 .. Whole, sendto(random_pick)
        PROVE  EndsUnwrittenForACause'
    BY Zenon, <1>5 DEF sendto, EndsUnwrittenForACause
  <1>4. ASSUME NEW random_pick \in 0 .. Whole, set_dscp_raises(random_pick)
        PROVE  EndsUnwrittenForACause'
      BY Zenon, <1>4, HeadAndTail, GenerationAssumption, NothingSelected
         DEF set_dscp_raises, TypeOK, Files, EndsUnwrittenForACause
  <1>6. ASSUME NEW busy \in 0 .. MaxDelay, NEW late \in 0 .. MaxDelay, wait(busy, late)
        PROVE  EndsUnwrittenForACause'
    BY Zenon, <1>6 DEF wait, EndsUnwrittenForACause
  <1>8. ASSUME NEW f \in Flows, recvfrom(f) \/ Lose(f)
        PROVE  EndsUnwrittenForACause'
    BY Zenon, <1>8 DEF recvfrom, Lose, EndsUnwrittenForACause
  <1> QED
    BY Zenon, <1>1, <1>2, <1>3, <1>4, <1>5, <1>6, <1>8 DEF Next

(* Both programs start with nothing sent and nothing counted.              *)
LEMMA InvInitially ==
  ASSUME Init
  PROVE  Inv
    BY GenerationAssumption DEF Zero, Init, TypeOK, Queue, Paced, Files,
       EndsUnwrittenForACause, Counts, Uncounted, Inv

(* All of it is inductive.                                                 *)
LEMMA InvKept ==
  ASSUME Inv, [Next]_vars
  PROVE  Inv'
  <1>1. CASE Next
    BY Zenon, <1>1, TypesKept, QueueKept, PacedKept, CountsKept, FilesKept, EndsKept DEF Inv
  <1>2. CASE UNCHANGED vars
    <2>1. UNCHANGED <<phase, rate_idx, ipd, ipds, now, expired, k, pkt_count, bursts, slices, exc,
                      network, serving, byte_counts, sender_file, receiver_file>>
      BY Zenon, <1>2 DEF vars, generator, server
    <2>2. TypeOK' /\ Files'
      BY Zenon, <2>1 DEF Inv, TypeOK, Files
    <2>3. Queue' /\ Paced'
      BY <2>1 DEF Inv, Queue, Paced
    <2>4. Counts' /\ EndsUnwrittenForACause'
      BY Zenon, <2>1 DEF Inv, Counts, Uncounted, EndsUnwrittenForACause
    <2> QED
      BY Zenon, <2>2, <2>3, <2>4 DEF Inv
  <1> QED
    BY Zenon, <1>1, <1>2

(* The inductive invariant of the generator and its server.                *)
LEMMA GenerationInvariant == Spec => []Inv
  BY InvInitially, InvKept, PTL DEF Spec

-----------------------------------------------------------------------------
(* The generator and the server only ever hold values of their types, and  *)
(* transmit never indexes a flow's rates beyond their end.                 *)
THEOREM GenerationTypes == Spec => []TypeOK
  <1>1. Inv => TypeOK
    BY Zenon DEF Inv
  <1> QED
    BY <1>1, GenerationInvariant, PTL

(* At any time, and in the two files, the server has counted at most one   *)
(* burst more of a flow than the generator, whatever the network lost and  *)
(* whenever the two SIGINTs came.                                          *)
THEOREM FilesComparable == Spec => []CountsWithinABurst
  <1>1. Inv => CountsWithinABurst
    <2> SUFFICES ASSUME Inv, NEW f \in Flows
                 PROVE  /\ byte_counts[f] + network[f] <= pkt_count[f] + BURST_COUNT
                        /\ sender_file # NoFile /\ receiver_file # NoFile =>
                              receiver_file[f] <= sender_file[f] + BURST_COUNT
      BY Zenon DEF CountsWithinABurst
    <2>1. /\ pkt_count[f] \in Nat /\ network[f] \in Nat /\ byte_counts[f] \in Nat
          /\ k \in 0 .. BURST_COUNT /\ BURST_COUNT \in Nat
      BY Zenon, GenerationAssumption DEF Inv, TypeOK
    <2>2. byte_counts[f] + network[f] <= pkt_count[f] + Uncounted(f)
      BY Zenon DEF Inv, Counts
    <2>3. byte_counts[f] + network[f] <= pkt_count[f] + BURST_COUNT
      BY <2>1, <2>2 DEF Uncounted
    <2>4. sender_file # NoFile /\ receiver_file # NoFile =>
             sender_file = pkt_count /\ receiver_file = byte_counts
      BY Zenon DEF Inv, Files
    <2> QED
      BY <2>1, <2>3, <2>4
  <1> QED
    BY <1>1, GenerationInvariant, PTL

(* No flow is sent faster than the rate that select_tx_rate drew for the   *)
(* slice, however long an iteration takes and however late wait returns.   *)
THEOREM RatesKept == Spec => []NeverFasterThanItsRate
  <1>1. Inv => NeverFasterThanItsRate
      BY DEF NeverFasterThanItsRate, Inv, TypeOK, Paced
  <1> QED
    BY <1>1, GenerationInvariant, PTL

(* Only a draw above the sum of a flow's shares, which select_dscp answers *)
(* with None, ends a generator that got to send without its file.          *)
THEOREM EndsUnwritten == Spec => []EndsUnwrittenForACause
  <1>1. Inv => EndsUnwrittenForACause
    BY Zenon DEF Inv
  <1> QED
    BY <1>1, GenerationInvariant, PTL

-----------------------------------------------------------------------------
(* The generator in Rust: a thread has slept for what it sent, and what it *)
(* sent before its last burst it had slept for when it sent that.          *)
Slept ==
  /\ threads \in SUBSET RS!Ids /\ clock \in Nat
  /\ wake \in [RS!Ids -> Nat] /\ sent \in [RS!Ids -> Nat]
  /\ \A f \in RS!Ids :
        /\ f \notin threads => sent[f] = 0
        /\ sent[f] * RS!burst_tx_duration(f) <= RS!Burst * wake[f]
        /\ sent[f] > 0 => (sent[f] - RS!Burst) * RS!burst_tx_duration(f) <= RS!Burst * clock

(* The pause after a burst that the Rust generator computes from a flow's  *)
(* rate and packet length is a natural number.                             *)
LEMMA DurationIsNatural ==
  ASSUME RS!GeneratorAssumption, NEW f \in RS!Ids
  PROVE  RS!burst_tx_duration(f) \in Nat
    BY DEF RS!GeneratorAssumption, RS!Ids, RS!burst_tx_duration, RS!Forever

(* Each thread has slept for every burst it sent but the last.             *)
LEMMA SleptKept ==
  ASSUME RS!GeneratorAssumption, Slept, [RS!Next]_RS!vars
  PROVE  Slept'
  <1>1. CASE UNCHANGED <<threads, clock, wake, sent>>
    BY Zenon, <1>1 DEF Slept, RS!burst_tx_duration
  <1>2. ASSUME NEW f \in RS!Ids, RS!spawn(f)
        PROVE  Slept'
      BY <1>2, DurationIsNatural DEF RS!spawn, Slept, RS!Burst, RS!burst_tx_duration
  <1>3. ASSUME NEW f \in RS!Ids, RS!generate_traffic(f)
        PROVE  Slept'
    <2> DEFINE d == RS!burst_tx_duration(f)
    <2>1. /\ f \in threads /\ wake[f] <= clock /\ threads' = threads /\ clock' = clock
          /\ sent' = [sent EXCEPT ![f] = sent[f] + 10] /\ wake' = [wake EXCEPT ![f] = clock + d]
      BY Zenon, <1>3 DEF RS!generate_traffic, RS!Awake, RS!Burst
    <2>2. d \in Nat /\ sent[f] \in Nat /\ wake[f] \in Nat /\ clock \in Nat
      BY Zenon, DurationIsNatural DEF Slept
    <2>3. sent[f] * d <= 10 * wake[f]
      BY Zenon DEF Slept, RS!Burst
    <2>4. sent'[f] = sent[f] + 10 /\ wake'[f] = clock + d
      BY Zenon, <2>1 DEF Slept
    <2> HIDE DEF d
    <2>5. (sent[f] + 10) * d = sent[f] * d + 10 * d /\ sent[f] * d \in Int
      BY <2>2
    <2>6. sent'[f] * d <= 10 * wake'[f]
      BY <2>2, <2>3, <2>4, <2>5, <2>1
    <2>7. (sent'[f] - 10) * d <= 10 * clock
        BY <2>2, <2>4, <2>1, <2>3, <2>5
    <2>8. \A g \in RS!Ids : g # f => sent'[g] = sent[g] /\ wake'[g] = wake[g]
      BY Zenon, <2>1 DEF Slept
    <2>9. wake' \in [RS!Ids -> Nat] /\ sent' \in [RS!Ids -> Nat]
      BY <2>1, <2>2 DEF Slept
    <2>10. \A g \in RS!Ids :
              /\ sent'[g] * RS!burst_tx_duration(g) <= RS!Burst * wake'[g]
              /\ sent'[g] > 0 =>
                    (sent'[g] - RS!Burst) * RS!burst_tx_duration(g) <= RS!Burst * clock
      BY Zenon, <2>6, <2>7, <2>8 DEF Slept, RS!Burst, d
    <2> QED
      BY Zenon, <2>1, <2>8, <2>9, <2>10 DEF Slept, RS!burst_tx_duration
  <1>4. CASE RS!Tick
      BY <1>4, DurationIsNatural DEF RS!Tick, Slept, RS!Burst, RS!burst_tx_duration
  <1>5. ASSUME NEW ok \in BOOLEAN, RS!parse_args(ok) \/ RS!FlowTxBlock_new(ok)
        PROVE  UNCHANGED <<threads, clock, wake, sent>>
    BY Zenon, <1>5 DEF RS!parse_args, RS!FlowTxBlock_new
  <1>6. RS!Kill \/ UNCHANGED RS!vars => UNCHANGED <<threads, clock, wake, sent>>
    BY Zenon DEF RS!Kill, RS!vars
  <1> QED
    BY Zenon, <1>1, <1>2, <1>3, <1>4, <1>5, <1>6 DEF RS!Next

(* However late its threads are run, the generator in Rust has sent at     *)
(* most ten times what a flow's rate allows, and one burst.                *)
THEOREM TenTimesItsRate ==
  ASSUME RS!GeneratorAssumption
  PROVE  RS!Spec => []NeverAheadOfTenTimes
  <1>1. RS!Init => Slept
      BY DurationIsNatural DEF RS!Init, Slept, RS!Burst
  <1>2. Slept /\ [RS!Next]_RS!vars => Slept'
    BY Zenon, SleptKept
  <1>3. Slept => NeverAheadOfTenTimes
    BY Zenon DEF Slept, NeverAheadOfTenTimes, RS!NeverAheadOfTenTimes
  <1> QED
    BY <1>1, <1>2, <1>3, PTL DEF RS!Spec
=============================================================================
