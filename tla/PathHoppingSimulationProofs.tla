-------------------- MODULE PathHoppingSimulationProofs ---------------------
(***************************************************************************)
(* Proofs that the simulator conserves shares and implements ShareDelivery,*)
(* for any number of flows, any graph, any K and any duration.             *)
(***************************************************************************)
EXTENDS PathHoppingSimulation, FiniteSetTheorems, TLAPS

(* Shares refer to paths that exist. *)
PathIndicesOK ==
  \A n \in Nodes : \A s \in resident_shares[n] : s.path_idx \in 1..Len(Paths[s.flow_id])

(* Every flow sends one message per step, numbered by the step. *)
SeqNumsFollowTicks ==
  /\ ticks \in Nat \ {0}
  /\ \A f \in Flows :
       /\ seq_num[f] = IF phase = "create" THEN ticks - 1 ELSE ticks
       /\ messages_tx[f] = seq_num[f]
       /\ DOMAIN shares_received[f] \subseteq 0..(seq_num[f] - 1)

SharesFinite ==
  \A f \in Flows : \A q \in DOMAIN shares_received[f] : IsFiniteSet(InFlight(f, q))

Inv ==
  /\ TypeOK
  /\ NeverRaises
  /\ PathIndicesOK
  /\ SeqNumsFollowTicks
  /\ SharesFinite
  /\ SharesConserved
  /\ CountersAgree
  /\ OneHopPerStep

-----------------------------------------------------------------------------
(* list.index finds the only position of a node on a simple path. *)
LEMMA IndexOnPath ==
  ASSUME NEW p, IsPath(p), NEW h \in 1..Len(p)
  PROVE  index(p, p[h]) = h /\ OnPath(p, p[h])
BY Zenon DEF IsPath, index, OnPath

(* The path of a share is a simple path that starts at its flow's source. *)
LEMMA PathOfShare ==
  ASSUME NEW s \in Share, s.path_idx \in 1..Len(Paths[s.flow_id])
  PROVE  /\ IsPath(path_of(s))
         /\ Len(path_of(s)) \in Nat
         /\ \A h \in 1..Len(path_of(s)) : path_of(s)[h] \in Nodes
         /\ path_of(s)[1] = source_node(s.flow_id)
<1>1. s.flow_id \in Flows
  BY Zenon DEF Share
<1>2. IsPath(path_of(s)) /\ path_of(s)[1] = source_node(s.flow_id)
  BY Zenon, <1>1, PathsAssumption DEF path_of, source_node
<1>3. QED
  BY <1>2 DEF IsPath

(* A message has exactly K shares: share numbers tell them apart. *)
LEMMA SharesOfMessage ==
  ASSUME NEW f, NEW q
  PROVE  /\ IsFiniteSet(create_shares_for(f, q))
         /\ Cardinality(create_shares_for(f, q)) = K
<1> DEFINE sh(i) == [flow_id |-> f, seq_num |-> q, share_num |-> i, path_idx |-> active_paths[f][i]]
           S == create_shares_for(f, q)
           g == [i \in ShareNums |-> sh(i)]
<1>1. IsFiniteSet(ShareNums) /\ Cardinality(ShareNums) = K
  BY FS_Interval, KAssumption DEF ShareNums
<1>2. \A i, j \in ShareNums : sh(i) = sh(j) => i = j
    OBVIOUS
<1>3. S = {sh(i) : i \in ShareNums}
  BY Zenon DEF create_shares_for
<1> HIDE DEF sh, S
<1>4. g \in Bijection(ShareNums, S)
    BY Zenon, <1>3, <1>2 DEF IsInjective, Bijection, Injection, Surjection
<1>5. ExistsBijection(ShareNums, S)
  BY Zenon, <1>4 DEF ExistsBijection
<1>6. IsFiniteSet(S) /\ Cardinality(S) = K
  BY Zenon, <1>1, <1>5, FS_Bijection
<1>7. QED
  BY Zenon, <1>6 DEF S

-----------------------------------------------------------------------------
(* Simulation.create and the first step start in a state of the invariant. *)
LEMMA InitInv == Init => Inv
    BY FS_EmptySet DEF Init, TypeOK, NeverRaises, PathIndicesOK, SeqNumsFollowTicks,
       SharesFinite, SharesConserved, OneHopPerStep, CountersAgree, Inv

(* In the "move" phase a share sits at the position its age gives, and only  *)
(* there: the two tests of MoveShares depend on that position alone.         *)
LEMMA PositionInMove ==
  ASSUME Inv, phase = "move", NEW n \in Nodes, NEW s \in resident_shares[n]
  PROVE  LET h == ticks - s.seq_num
         IN  /\ s \in Share
             /\ h \in 1..Len(path_of(s))
             /\ OnPath(path_of(s), n)
             /\ path_of(s)[h] = n
             /\ AtEnd(s, n) <=> h = Len(path_of(s))
             /\ ~ AtEnd(s, n) => /\ h + 1 \in 1..Len(path_of(s))
                                 /\ get_next_hop_for_share(s, n) = path_of(s)[h + 1]
                                 /\ path_of(s)[h + 1] \in Nodes
    BY SMTT(30), PathOfShare, IndexOnPath DEF Inv, TypeOK, Share, PathIndicesOK, OneHopPerStep, Moved,
       AtEnd, get_next_hop_for_share

(* What arrives is part of what travels, so the count never passes K and no  *)
(* lookup fails.                                                             *)
LEMMA ArrivingCounts ==
  ASSUME Inv, phase = "move", NEW f \in Flows, NEW q \in DOMAIN shares_received[f]
  PROVE  /\ Arriving(f, q) \subseteq InFlight(f, q)
         /\ IsFiniteSet(Arriving(f, q))
         /\ Cardinality(Arriving(f, q)) \in Nat
         /\ IsFiniteSet(InFlight(f, q) \ Arriving(f, q))
         /\ Cardinality(InFlight(f, q) \ Arriving(f, q)) \in Nat
         /\ ReceivedNow(f, q) \in Nat
         /\ ReceivedNow(f, q) + Cardinality(InFlight(f, q) \ Arriving(f, q)) = K
<1>1. Arriving(f, q) \subseteq InFlight(f, q)
  BY DEF Arriving, InFlight
<1>2. IsFiniteSet(InFlight(f, q)) /\ shares_received[f][q] + Cardinality(InFlight(f, q)) = K
  BY Zenon DEF Inv, SharesFinite, SharesConserved
<1>3. shares_received[f][q] \in Nat
  BY Zenon DEF Inv, TypeOK
<1>4. /\ IsFiniteSet(Arriving(f, q))
      /\ Cardinality(Arriving(f, q)) \in Nat
      /\ Cardinality(InFlight(f, q)) \in Nat
  BY Zenon, <1>1, <1>2, FS_Subset, FS_CardinalityType
<1>5. InFlight(f, q) \cap Arriving(f, q) = Arriving(f, q)
  BY Zenon, <1>1
<1>6. /\ IsFiniteSet(InFlight(f, q) \ Arriving(f, q))
      /\ Cardinality(InFlight(f, q) \ Arriving(f, q))
           = Cardinality(InFlight(f, q)) - Cardinality(Arriving(f, q))
    BY ZenonT(30), <1>2, FS_Difference, <1>5
<1>7. Cardinality(InFlight(f, q) \ Arriving(f, q)) \in Nat
  BY Zenon, <1>6, FS_CardinalityType
<1>8. QED
  BY <1>1, <1>2, <1>3, <1>4, <1>6, <1>7, KAssumption DEF ReceivedNow

(* Within the invariant, moving the shares looks up no message that is not *)
(* in the dictionary of the receiver and takes none beyond K shares.       *)
LEMMA MoveNeverRaises ==
  ASSUME Inv, phase = "move"
  PROVE  ~ MoveRaises
<1>1. ASSUME NEW n \in Nodes, NEW s \in resident_shares[n]
      PROVE  /\ OnPath(path_of(s), n)
             /\ s.flow_id \in Flows
             /\ s.seq_num \in DOMAIN shares_received[s.flow_id]
    BY Zenon, PositionInMove DEF Inv, SharesConserved, Share
<1>2. ASSUME NEW f \in Flows, NEW q \in DOMAIN shares_received[f]
      PROVE  ~ (ReceivedNow(f, q) > K)
  <2>1. /\ ReceivedNow(f, q) \in Nat
        /\ Cardinality(InFlight(f, q) \ Arriving(f, q)) \in Nat
        /\ ReceivedNow(f, q) + Cardinality(InFlight(f, q) \ Arriving(f, q)) = K
    BY Zenon, ArrivingCounts
  <2>2. QED
    BY <2>1, KAssumption
<1>3. QED
  BY Zenon, <1>1, <1>2 DEF MoveRaises

-----------------------------------------------------------------------------
(* What create_shares adds: the new shares sit at their sources, and they  *)
(* are all the shares of the new message.                                  *)
LEMMA CreatedShares ==
  ASSUME Inv, CreateShares
  PROVE  LET new(f) == create_shares_for(f, seq_num[f])
         IN  /\ \A f \in Flows : \A s \in new(f) :
                   /\ s \in Share /\ s.flow_id = f /\ s.seq_num = ticks - 1
                   /\ s.path_idx \in 1..Len(Paths[f])
             /\ \A n \in Nodes : \A s \in resident_shares'[n] :
                   \/ s \in resident_shares[n]
                   \/ s.flow_id \in Flows /\ s \in new(s.flow_id) /\ source_node(s.flow_id) = n
             /\ \A n \in Nodes : \A s \in resident_shares[n] :
                   /\ s \in Share /\ s.seq_num # ticks - 1
                   /\ s.seq_num \in DOMAIN shares_received[s.flow_id]
             /\ \A f \in Flows : \A q :
                   InFlight(f, q)' = IF q = ticks - 1 THEN new(f) ELSE InFlight(f, q)
<1> DEFINE new(f) == create_shares_for(f, seq_num[f])
<1>1. /\ ticks \in Nat \ {0} /\ ticks' = ticks
      /\ phase = "create" /\ phase' = "move"
      /\ \A f \in Flows : seq_num[f] = ticks - 1 /\ seq_num'[f] = ticks
      /\ \A f \in Flows : messages_tx[f] = ticks - 1 /\ messages_tx'[f] = ticks
      /\ \A f \in Flows : messages_rx'[f] = messages_rx[f] /\ messages_rx[f] \in Nat
      /\ \A f \in Flows : DOMAIN shares_received[f] \subseteq 0..(ticks - 2)
  BY DEF Inv, SeqNumsFollowTicks, TypeOK, CreateShares
<1>2. ASSUME NEW f \in Flows, NEW s \in new(f)
      PROVE  /\ s \in Share /\ s.flow_id = f /\ s.seq_num = ticks - 1
             /\ s.path_idx \in 1..Len(Paths[f])
  <2>1. active_paths[f] \in [ShareNums -> 1..Len(Paths[f])]
    BY Zenon DEF Inv, TypeOK, HopChoices, PathChoices, Injection
  <2>2. Len(Paths[f]) \in Nat
    BY Zenon, PathsAssumption
  <2>3. PICK i \in ShareNums :
          s = [flow_id |-> f, seq_num |-> seq_num[f], share_num |-> i, path_idx |-> active_paths[f][i]]
    BY Zenon DEF create_shares_for
  <2>4. QED
    BY <2>1, <2>2, <2>3, <1>1 DEF Share
<1>3. ASSUME NEW f \in Flows
      PROVE  source_node(f) \in Nodes
  <2>1. Len(Paths[f]) \in Nat /\ 1 \in 1..Len(Paths[f])
    BY PathsAssumption, KAssumption
  <2>2. IsPath(Paths[f][1])
    BY Zenon, <2>1, PathsAssumption
  <2>3. QED
    BY <2>2 DEF IsPath, source_node
<1>4. ASSUME NEW n \in Nodes, NEW s \in resident_shares'[n]
      PROVE  s \in resident_shares[n] \/ (s.flow_id \in Flows /\ s \in new(s.flow_id) /\ source_node(s.flow_id) = n)
    BY <1>2 DEF CreateShares
<1>5. ASSUME NEW n \in Nodes
      PROVE  resident_shares[n] \subseteq resident_shares'[n]
  BY Zenon DEF CreateShares
<1>6. ASSUME NEW f \in Flows, NEW s \in new(f)
      PROVE  s \in resident_shares'[source_node(f)]
  BY Zenon, <1>3 DEF CreateShares
<1>7. ASSUME NEW n \in Nodes, NEW s \in resident_shares[n]
      PROVE  /\ s \in Share
             /\ s.seq_num \in DOMAIN shares_received[s.flow_id]
             /\ s.seq_num # ticks - 1
    BY <1>1 DEF Inv, TypeOK, Share, SharesConserved
<1> HIDE DEF new
<1>8. ASSUME NEW f \in Flows, NEW q
      PROVE  InFlight(f, q)' = IF q = ticks - 1 THEN new(f) ELSE InFlight(f, q)
    BY <1>2, <1>3, <1>4, <1>6, <1>7, <1>5 DEF InFlight
<1>9. QED
  BY Zenon, <1>2, <1>4, <1>7, <1>8 DEF new

(* create_shares keeps the invariant.                                      *)
LEMMA CreateSharesInv == Inv /\ CreateShares => Inv'
<1> SUFFICES ASSUME Inv, CreateShares PROVE Inv'
  OBVIOUS
<1> DEFINE new(f) == create_shares_for(f, seq_num[f])
<1>1. /\ ticks \in Nat \ {0} /\ ticks' = ticks
      /\ phase = "create" /\ phase' = "move"
      /\ \A f \in Flows : seq_num[f] = ticks - 1 /\ seq_num'[f] = ticks
      /\ \A f \in Flows : messages_tx[f] = ticks - 1 /\ messages_tx'[f] = ticks
      /\ \A f \in Flows : messages_rx'[f] = messages_rx[f] /\ messages_rx[f] \in Nat
      /\ \A f \in Flows : DOMAIN shares_received[f] \subseteq 0..(ticks - 2)
  BY DEF Inv, SeqNumsFollowTicks, TypeOK, CreateShares
<1>2. \A f \in Flows : \A s \in new(f) :
         /\ s \in Share /\ s.flow_id = f /\ s.seq_num = ticks - 1
         /\ s.path_idx \in 1..Len(Paths[f])
  BY Zenon, CreatedShares
<1>4. \A n \in Nodes : \A s \in resident_shares'[n] :
         \/ s \in resident_shares[n]
         \/ s.flow_id \in Flows /\ s \in new(s.flow_id) /\ source_node(s.flow_id) = n
  BY Zenon, CreatedShares
<1>7. \A n \in Nodes : \A s \in resident_shares[n] :
         /\ s \in Share
         /\ s.seq_num \in DOMAIN shares_received[s.flow_id]
         /\ s.seq_num # ticks - 1
  BY Zenon, CreatedShares
<1>8. \A f \in Flows : \A q :
         InFlight(f, q)' = IF q = ticks - 1 THEN new(f) ELSE InFlight(f, q)
  BY Zenon, CreatedShares
<1> HIDE DEF new
<1>9. ASSUME NEW f \in Flows
      PROVE  /\ DOMAIN shares_received'[f] = DOMAIN shares_received[f] \cup {ticks - 1}
             /\ shares_received'[f][ticks - 1] = 0
             /\ \A q \in DOMAIN shares_received[f] :
                   q # ticks - 1 /\ shares_received'[f][q] = shares_received[f][q]
  BY <1>1 DEF CreateShares
<1>10. ASSUME NEW f \in Flows
       PROVE  IsFiniteSet(new(f)) /\ Cardinality(new(f)) = K /\ new(f) # {}
    BY Zenon, SharesOfMessage, FS_EmptySet, KAssumption DEF new
<1>11. TypeOK'
  <2>1. resident_shares' \in [Nodes -> SUBSET Share]
      BY <1>2, <1>4, <1>7 DEF CreateShares
  <2>2. /\ seq_num' \in [Flows -> Nat]
        /\ messages_tx' \in [Flows -> Nat]
    BY DEF Inv, TypeOK, CreateShares
  <2>3. /\ DOMAIN shares_received' = Flows
        /\ \A f \in Flows : shares_received'[f] \in [DOMAIN shares_received'[f] -> Nat]
    BY DEF Inv, TypeOK, CreateShares
  <2>4. QED
    BY Zenon, <1>1, <2>1, <2>2, <2>3 DEF Inv, TypeOK, CreateShares
<1>12. NeverRaises'
  BY Zenon, <1>1 DEF NeverRaises
<1>13. PathIndicesOK'
  BY Zenon, <1>2, <1>4 DEF Inv, PathIndicesOK
<1>14. SeqNumsFollowTicks'
  BY <1>1, <1>9 DEF SeqNumsFollowTicks
<1>15. SharesFinite'
  BY SMTT(30), <1>8, <1>9, <1>10 DEF Inv, SharesFinite
<1>16. SharesConserved'
    BY <1>8, <1>9, <1>10, KAssumption, <1>7, <1>2, <1>4 DEF Inv, SharesConserved, Share
<1>17. CountersAgree'
  <2> SUFFICES ASSUME NEW f \in Flows
               PROVE  messages_tx'[f] = messages_rx'[f] + Cardinality(DOMAIN shares_received'[f])
    BY Zenon DEF CountersAgree
  <2>1. DOMAIN shares_received[f] \subseteq 0..(ticks - 2)
    BY Zenon, <1>1
  <2>2. IsFiniteSet(0..(ticks - 2))
    <3>1. 0 \in Int /\ ticks - 2 \in Int
      BY <1>1
    <3> QED
      BY Zenon, <3>1, FS_Interval
  <2>3. IsFiniteSet(DOMAIN shares_received[f])
    BY Zenon, <2>1, <2>2, FS_Subset
  <2>4. ticks - 1 \notin DOMAIN shares_received[f]
    BY Zenon, <1>9
  <2>5. Cardinality(DOMAIN shares_received'[f]) = Cardinality(DOMAIN shares_received[f]) + 1
    BY Zenon, <2>3, <2>4, <1>9, FS_AddElement
  <2>6. Cardinality(DOMAIN shares_received[f]) \in Nat
    BY Zenon, <2>3, FS_CardinalityType
  <2>7. messages_tx[f] = messages_rx[f] + Cardinality(DOMAIN shares_received[f])
    BY Zenon DEF Inv, CountersAgree
  <2>8. QED
    BY <1>1, <2>5, <2>6, <2>7
<1>18. OneHopPerStep'
    BY <1>7, <1>1, <1>2, <1>4, PathOfShare DEF Share, Inv, OneHopPerStep, Moved, IsPath
<1>19. QED
  BY Zenon, <1>11, <1>12, <1>13, <1>14, <1>15, <1>16, <1>17, <1>18 DEF Inv

-----------------------------------------------------------------------------
(* What a move does to the shares: each goes on to the next node of its    *)
(* path, the ones that arrive leave, and a message is complete when none   *)
(* of its shares travels any more.                                         *)
LEMMA MovedShares ==
  ASSUME Inv, MoveShares
  PROVE  /\ \A m \in Nodes : \A s \in resident_shares'[m] :
               /\ s \in Share
               /\ \E n \in Nodes : s \in resident_shares[n] /\ ~ AtEnd(s, n)
               /\ ticks - s.seq_num + 1 \in 1..Len(path_of(s))
               /\ path_of(s)[ticks - s.seq_num + 1] = m
         /\ \A f \in Flows : \A q : InFlight(f, q)' = InFlight(f, q) \ Arriving(f, q)
         /\ \A f \in Flows : \A q \in DOMAIN shares_received[f] :
               /\ IsFiniteSet(InFlight(f, q)')
               /\ Cardinality(InFlight(f, q)') \in Nat
               /\ ReceivedNow(f, q) \in Nat
               /\ ReceivedNow(f, q) + Cardinality(InFlight(f, q)') = K
               /\ q \in Completed(f) <=> InFlight(f, q)' = {}
<1>1. phase = "move" /\ ~ MoveRaises
  BY Zenon, MoveNeverRaises DEF MoveShares
<1>2. /\ phase' = "hop" /\ ticks' = ticks /\ ticks \in Nat \ {0}
      /\ resident_shares' = [m \in Nodes |-> InjectedInto(m)]
      /\ shares_received' =
           [f \in Flows |-> [q \in DOMAIN shares_received[f] \ Completed(f) |-> ReceivedNow(f, q)]]
      /\ messages_rx' = [f \in Flows |-> messages_rx[f] + Cardinality(Completed(f))]
      /\ UNCHANGED <<active_paths, seq_num, messages_tx>>
  BY Zenon, <1>1 DEF MoveShares, Inv, SeqNumsFollowTicks
<1>3. ASSUME NEW m \in Nodes, NEW s \in resident_shares'[m]
      PROVE  /\ s \in Share
             /\ \E n \in Nodes : s \in resident_shares[n] /\ ~ AtEnd(s, n)
             /\ ticks - s.seq_num + 1 \in 1..Len(path_of(s))
             /\ path_of(s)[ticks - s.seq_num + 1] = m
    BY <1>2, <1>1, PositionInMove DEF InjectedInto
<1>4. ASSUME NEW f \in Flows, NEW q
      PROVE  InFlight(f, q)' = InFlight(f, q) \ Arriving(f, q)
    BY <1>3, <1>1, PositionInMove, <1>2 DEF InFlight, Arriving, InjectedInto
<1>5. ASSUME NEW f \in Flows, NEW q \in DOMAIN shares_received[f]
      PROVE  /\ IsFiniteSet(InFlight(f, q)')
             /\ Cardinality(InFlight(f, q)') \in Nat
             /\ ReceivedNow(f, q) \in Nat
             /\ ReceivedNow(f, q) + Cardinality(InFlight(f, q)') = K
  BY <1>1, <1>4, ArrivingCounts
<1>6. ASSUME NEW f \in Flows, NEW q \in DOMAIN shares_received[f]
      PROVE  q \in Completed(f) <=> InFlight(f, q)' = {}
    BY <1>5, FS_EmptySet, KAssumption, <1>4 DEF Inv, SharesConserved, Completed
<1>7. QED
  BY Zenon, <1>3, <1>4, <1>5, <1>6

(* Moving every share one hop keeps the invariant.                         *)
LEMMA MoveSharesInv == Inv /\ MoveShares => Inv'
<1> SUFFICES ASSUME Inv, MoveShares PROVE Inv'
  OBVIOUS
<1> USE DEF NeverRaises
<1>1. phase = "move" /\ ~ MoveRaises
  BY Zenon, MoveNeverRaises DEF MoveShares
<1>2. /\ phase' = "hop" /\ ticks' = ticks /\ ticks \in Nat \ {0}
      /\ resident_shares' = [m \in Nodes |-> InjectedInto(m)]
      /\ shares_received' =
           [f \in Flows |-> [q \in DOMAIN shares_received[f] \ Completed(f) |-> ReceivedNow(f, q)]]
      /\ messages_rx' = [f \in Flows |-> messages_rx[f] + Cardinality(Completed(f))]
      /\ UNCHANGED <<active_paths, seq_num, messages_tx>>
  BY Zenon, <1>1 DEF MoveShares, Inv, SeqNumsFollowTicks
<1>3. \A m \in Nodes : \A s \in resident_shares'[m] :
         /\ s \in Share
         /\ \E n \in Nodes : s \in resident_shares[n] /\ ~ AtEnd(s, n)
         /\ ticks - s.seq_num + 1 \in 1..Len(path_of(s))
         /\ path_of(s)[ticks - s.seq_num + 1] = m
  BY Zenon, MovedShares
<1>5. \A f \in Flows : \A q \in DOMAIN shares_received[f] :
         /\ IsFiniteSet(InFlight(f, q)')
         /\ Cardinality(InFlight(f, q)') \in Nat
         /\ ReceivedNow(f, q) \in Nat
         /\ ReceivedNow(f, q) + Cardinality(InFlight(f, q)') = K
  BY Zenon, MovedShares
<1>6. \A f \in Flows : \A q \in DOMAIN shares_received[f] :
         q \in Completed(f) <=> InFlight(f, q)' = {}
  BY Zenon, MovedShares
<1>7. ASSUME NEW f \in Flows
      PROVE  /\ DOMAIN shares_received'[f] = DOMAIN shares_received[f] \ Completed(f)
             /\ \A q \in DOMAIN shares_received'[f] :
                  q \in DOMAIN shares_received[f] /\ shares_received'[f][q] = ReceivedNow(f, q)
  BY Zenon, <1>2
<1>8. ASSUME NEW f \in Flows
      PROVE  /\ IsFiniteSet(DOMAIN shares_received[f])
             /\ Completed(f) \subseteq DOMAIN shares_received[f]
             /\ Cardinality(Completed(f)) \in Nat
             /\ Cardinality(DOMAIN shares_received[f]) \in Nat
             /\ Cardinality(DOMAIN shares_received'[f])
                  = Cardinality(DOMAIN shares_received[f]) - Cardinality(Completed(f))
  <2>1. seq_num[f] \in Nat /\ DOMAIN shares_received[f] \subseteq 0..(seq_num[f] - 1)
    BY Zenon DEF Inv, SeqNumsFollowTicks, TypeOK
  <2>2. IsFiniteSet(0..(seq_num[f] - 1))
    BY <2>1, FS_Interval
  <2>3. IsFiniteSet(DOMAIN shares_received[f])
    BY Zenon, <2>1, <2>2, FS_Subset
  <2>4. Completed(f) \subseteq DOMAIN shares_received[f]
    BY Zenon DEF Completed
  <2>5. IsFiniteSet(Completed(f))
    BY Zenon, <2>3, <2>4, FS_Subset
  <2>6. DOMAIN shares_received[f] \cap Completed(f) = Completed(f)
    BY Zenon, <2>4
  <2>7. Cardinality(DOMAIN shares_received'[f])
          = Cardinality(DOMAIN shares_received[f]) - Cardinality(Completed(f))
    <3>1. DOMAIN shares_received'[f] = DOMAIN shares_received[f] \ Completed(f)
      BY Zenon, <1>7
    <3>2. Cardinality(DOMAIN shares_received[f] \ Completed(f))
            = Cardinality(DOMAIN shares_received[f])
                - Cardinality(DOMAIN shares_received[f] \cap Completed(f))
      BY Zenon, <2>3, FS_Difference
    <3>3. QED
      BY Zenon, <2>6, <3>1, <3>2
  <2>8. QED
    BY Zenon, <2>3, <2>4, <2>5, <2>7, FS_CardinalityType
<1>9. TypeOK'
  <2>1. resident_shares' \in [Nodes -> SUBSET Share]
    BY Zenon, <1>2, <1>3
  <2>2. messages_rx' \in [Flows -> Nat]
    <3>1. \A f \in Flows : messages_rx[f] + Cardinality(Completed(f)) \in Nat
      BY <1>8 DEF Inv, TypeOK
    <3>2. QED
      BY Zenon, <1>2, <3>1
  <2>3. /\ DOMAIN shares_received' = Flows
        /\ \A f \in Flows : shares_received'[f] \in [DOMAIN shares_received'[f] -> Nat]
    BY Zenon, <1>2, <1>5
  <2>4. QED
    BY Zenon, <1>2, <2>1, <2>2, <2>3 DEF Inv, TypeOK
<1>10. NeverRaises'
  BY Zenon, <1>2
<1>11. PathIndicesOK'
  BY Zenon, <1>3 DEF Inv, PathIndicesOK
<1>12. SeqNumsFollowTicks'
  BY Zenon, <1>1, <1>2, <1>7 DEF Inv, SeqNumsFollowTicks
<1>13. SharesFinite'
  BY Zenon, <1>5, <1>7 DEF SharesFinite
<1>14. SharesConserved'
    BY SMTT(30), <1>5, <1>6, <1>7, <1>3 DEF Share, Inv, SharesConserved, InFlight
<1>15. CountersAgree'
    BY <1>2, <1>8 DEF CountersAgree, Inv, TypeOK
<1>16. OneHopPerStep'
    BY Zenon, <1>3, <1>2 DEF Share, OneHopPerStep, Moved
<1>17. QED
  BY Zenon, <1>9, <1>10, <1>11, <1>12, <1>13, <1>14, <1>15, <1>16 DEF Inv

(* Drawing new paths keeps the invariant.                                  *)
LEMMA HopInv == Inv /\ Hop => Inv'
<1> SUFFICES ASSUME Inv, Hop PROVE Inv'
  OBVIOUS
<1>1. \A f, q : InFlight(f, q)' = InFlight(f, q)
  BY Zenon DEF Hop, InFlight
<1>2. TypeOK' /\ NeverRaises' /\ PathIndicesOK' /\ SeqNumsFollowTicks'
  BY Zenon DEF Inv, Hop, TypeOK, NeverRaises, PathIndicesOK, SeqNumsFollowTicks
<1>3. SharesFinite' /\ SharesConserved' /\ CountersAgree'
  BY Zenon, <1>1 DEF Inv, Hop, SharesFinite, SharesConserved, CountersAgree
<1>4. OneHopPerStep'
  BY Zenon DEF Inv, Hop, OneHopPerStep, Moved
<1>5. QED
  BY Zenon, <1>2, <1>3, <1>4 DEF Inv

(* The end of step(), attackers included, keeps the invariant.             *)
LEMMA EndStepInv == Inv /\ EndStep => Inv'
<1> SUFFICES ASSUME Inv, EndStep PROVE Inv'
  OBVIOUS
<1>1. \A f, q : InFlight(f, q)' = InFlight(f, q)
  BY Zenon DEF EndStep, InFlight
<1>2. TypeOK' /\ NeverRaises' /\ PathIndicesOK' /\ SeqNumsFollowTicks'
  BY DEF Inv, EndStep, flowVars, TypeOK, NeverRaises, PathIndicesOK, SeqNumsFollowTicks
<1>3. SharesFinite' /\ SharesConserved' /\ CountersAgree'
  BY Zenon, <1>1 DEF Inv, EndStep, flowVars, SharesFinite, SharesConserved, CountersAgree
<1>4. OneHopPerStep'
    BY DEF Inv, TypeOK, Share, EndStep, flowVars, OneHopPerStep, Moved
<1>5. QED
  BY Zenon, <1>2, <1>3, <1>4 DEF Inv

(* So does a step in which nothing changes.                                *)
LEMMA StutterInv == Inv /\ UNCHANGED vars => Inv'
<1> SUFFICES ASSUME Inv, UNCHANGED vars PROVE Inv'
  OBVIOUS
<1>1. \A f, q : InFlight(f, q)' = InFlight(f, q)
  BY Zenon DEF vars, flowVars, InFlight
<1>2. QED
  BY <1>1 DEF vars, flowVars, Inv, TypeOK, NeverRaises, PathIndicesOK, SeqNumsFollowTicks,
     SharesFinite, SharesConserved, CountersAgree, OneHopPerStep, Moved

-----------------------------------------------------------------------------
(* The invariant holds in every reachable state.                           *)
LEMMA Invariance == Spec => []Inv
<1>1. Inv /\ [Next]_vars => Inv'
    BY Zenon, CreateSharesInv, MoveSharesInv, HopInv, EndStepInv, StutterInv DEF SimulationOver,
       Next
<1>2. QED
  BY <1>1, InitInv, PTL DEF Spec

(* The simulator's variables keep their types. *)
THEOREM TypeCorrect == Spec => []TypeOK
<1>1. Inv => TypeOK
  BY Zenon DEF Inv
<1>2. QED
  BY <1>1, Invariance, PTL

(* step() never raises: get_next_hop_for_share finds the node on the path    *)
(* and receive_share finds the entry, for every graph, K and path choice.    *)
THEOREM StepNeverRaises == Spec => []NeverRaises
<1>1. Inv => NeverRaises
  BY Zenon DEF Inv
<1>2. QED
  BY <1>1, Invariance, PTL

(* No share of any message is ever lost or duplicated by step().             *)
THEOREM SharesAreConserved == Spec => []SharesConserved
<1>1. Inv => SharesConserved
  BY Zenon DEF Inv
<1>2. QED
  BY <1>1, Invariance, PTL

(* messages_tx, messages_rx and the dictionary of receive_share agree.       *)
THEOREM CountersAlwaysAgree == Spec => []CountersAgree
<1>1. Inv => CountersAgree
  BY Zenon DEF Inv
<1>2. QED
  BY <1>1, Invariance, PTL

(* Every share walks its own path at one hop per step.                       *)
THEOREM SharesWalkTheirPath == Spec => []OneHopPerStep
<1>1. Inv => OneHopPerStep
  BY Zenon DEF Inv
<1>2. QED
  BY <1>1, Invariance, PTL

(* An entry of _shares_received is gone once the flow's longest path has     *)
(* been walked: an entry has a share on its way, which is on its path.       *)
THEOREM MessagesCompleteInTime == Spec => []CompleteInTime
<1>1. Inv => CompleteInTime
  <2> SUFFICES ASSUME Inv, NEW f \in Flows, NEW q \in DOMAIN shares_received[f]
               PROVE  \E i \in 1..Len(Paths[f]) : ticks - q + Moved <= Len(Paths[f][i])
    BY Zenon DEF CompleteInTime
  <2>1. PICK s \in InFlight(f, q) : TRUE
    BY Zenon DEF Inv, SharesConserved
  <2>2. PICK n \in Nodes : s \in resident_shares[n]
    BY Zenon DEF InFlight
  <2>3. s.flow_id = f /\ s.seq_num = q
    BY Zenon DEF InFlight
  <2>4. s \in Share /\ s.path_idx \in 1..Len(Paths[f])
    BY Zenon, <2>2, <2>3 DEF Inv, TypeOK, PathIndicesOK
  <2>5. ticks - q + Moved \in 1..Len(path_of(s))
    BY Zenon, <2>2, <2>3 DEF Inv, OneHopPerStep
  <2>6. Len(path_of(s)) \in Nat
    BY Zenon, <2>3, <2>4, PathOfShare
  <2>7. ticks - q + Moved <= Len(Paths[f][s.path_idx])
    BY SMTT(30), <2>3, <2>5, <2>6 DEF path_of
  <2>8. QED
    BY Zenon, <2>4, <2>7
<1>2. QED
  BY <1>1, Invariance, PTL

-----------------------------------------------------------------------------
(* The simulator implements ShareDelivery: its initial states are initial  *)
(* states of the delivery service, and every phase of step() is one of its *)
(* steps or leaves it unchanged.                                           *)
(* The refinement mapping, one name per variable of ShareDelivery.         *)
Stage == CASE phase = "create" -> "send"
           [] phase = "move" -> "deliver"
           [] phase = "raised" -> "raised"
           [] OTHER -> "rest"
Waiting == [f \in Flows |-> [q \in DOMAIN shares_received[f] |-> Timers(f, q)]]

(* A share arrives in the move whose step is its timer, and in no other.   *)
LEMMA TimerRunsOut ==
  ASSUME Inv, phase = "move", NEW f \in Flows, NEW q, NEW s \in InFlight(f, q)
  PROVE  q + Len(path_of(s)) = ticks <=> s \in Arriving(f, q)
    BY SMTT(30), PathOfShare, PositionInMove DEF InFlight, Inv, TypeOK, Share, PathIndicesOK, Arriving

(* A move stops exactly the timers that have run out.                      *)
LEMMA MovedTimers ==
  ASSUME Inv, MoveShares, NEW f \in Flows, NEW q
  PROVE  Timers(f, q)' = Timers(f, q) \ {ticks}
<1>1. phase = "move"
  BY Zenon DEF MoveShares
<1>2. InFlight(f, q)' = InFlight(f, q) \ Arriving(f, q)
  BY Zenon, MovedShares
<1>3. \A s \in InFlight(f, q) : q + Len(path_of(s)) = ticks <=> s \in Arriving(f, q)
  BY Zenon, <1>1, TimerRunsOut
<1>4. Timers(f, q)' = {q + Len(path_of(s)) : s \in InFlight(f, q)'}
  BY Zenon DEF Timers, path_of
<1>5. QED
  BY Zenon, <1>2, <1>3, <1>4 DEF Timers

(* Init: no message was sent and no timer runs.                            *)
LEMMA InitDelivery ==
  ASSUME Init
  PROVE  D!Init
    BY Zenon DEF Init, Stage, Waiting, D!Init

(* create_shares sends one message per flow, on K of its paths.            *)
LEMMA CreateSends ==
  ASSUME Inv, CreateShares
  PROVE  D!Send
<1>1. /\ phase = "create" /\ phase' = "move" /\ ticks <= SimDuration
      /\ ticks' = ticks /\ messages_rx' = messages_rx
  BY Zenon DEF CreateShares
<1>2. ASSUME NEW f \in Flows
      PROVE  /\ seq_num[f] = ticks - 1
             /\ DOMAIN shares_received'[f] = DOMAIN shares_received[f] \cup {ticks - 1}
  BY Zenon, <1>1 DEF CreateShares, Inv, SeqNumsFollowTicks
<1>3. ASSUME NEW f \in Flows
      PROVE  \E lens \in HopSets[f] : Waiting'[f] = D!Sent(f, lens)
  <2> DEFINE a == active_paths[f]
             lens == {Len(Paths[f][a[i]]) : i \in ShareNums}
  <2>0. PICK q0 : q0 = ticks - 1
    OBVIOUS
  <2>1. lens \in HopSets[f]
    <3>1. a \in PathChoices(f)
      BY Zenon DEF Inv, TypeOK, HopChoices
    <3>2. QED
      BY Zenon, <3>1 DEF HopSets
  <2>2. Timers(f, q0)' = {q0 + h : h \in lens}
    <3>0. \A q : InFlight(f, q)' = IF q = ticks - 1 THEN create_shares_for(f, seq_num[f])
                                                  ELSE InFlight(f, q)
      BY Zenon, CreatedShares
    <3>1. InFlight(f, q0)' = create_shares_for(f, seq_num[f])
      BY Zenon, <2>0, <3>0
    <3> DEFINE sh(i) == [flow_id |-> f, seq_num |-> q0, share_num |-> i, path_idx |-> a[i]]
    <3>2. \A s : s \in InFlight(f, q0)' <=> \E i \in ShareNums : s = sh(i)
      BY Zenon, <1>2, <2>0, <3>1 DEF create_shares_for
    <3>3. \A t : t \in Timers(f, q0)' <=> \E s \in InFlight(f, q0)' : t = q0 + Len(path_of(s))
      BY Zenon DEF Timers, path_of
    <3>4. \A i : path_of(sh(i)) = Paths[f][a[i]]
      BY Zenon DEF path_of
    <3> HIDE DEF sh
    <3>5. \A t : t \in Timers(f, q0)' <=> \E i \in ShareNums : t = q0 + Len(Paths[f][a[i]])
      BY <3>2, <3>3, <3>4
    <3>6. QED
      BY Zenon, <3>5
  <2>3. ASSUME NEW q, q # q0
        PROVE  Timers(f, q)' = Timers(f, q)
      BY Zenon, CreatedShares, <2>0, <2>3 DEF Timers, path_of
  <2>4. Waiting'[f] = [q \in DOMAIN shares_received[f] \cup {q0} |-> Timers(f, q)']
    BY Zenon, <1>2, <2>0 DEF Waiting
  <2>5. Waiting[f] = [q \in DOMAIN shares_received[f] |-> Timers(f, q)]
    BY Zenon DEF Waiting
  <2> HIDE DEF lens
  <2>6. Waiting'[f] = [q \in DOMAIN Waiting[f] \cup {q0} |->
                         IF q = q0 THEN {q0 + h : h \in lens} ELSE Waiting[f][q]]
    BY <2>2, <2>3, <2>4, <2>5
  <2>7. D!Sent(f, lens) = [q \in DOMAIN Waiting[f] \cup {ticks - 1} |->
                             IF q = ticks - 1 THEN {ticks - 1 + h : h \in lens} ELSE Waiting[f][q]]
    BY Zenon DEF D!Sent, Waiting
  <2>8. QED
    BY <2>0, <2>1, <2>6, <2>7
<1>4. Waiting' = [f \in Flows |-> Waiting'[f]]
  BY Zenon DEF Waiting
<1>5. Stage = "send" /\ Stage' = "deliver"
  BY Zenon, <1>1 DEF Stage
<1>6. QED
  BY Zenon, <1>1, <1>3, <1>4, <1>5 DEF D!Send, Stage, Waiting

(* A move delivers the messages whose last share arrives.                  *)
LEMMA MoveDelivers ==
  ASSUME Inv, MoveShares
  PROVE  D!Deliver
<1>1. phase = "move" /\ ~ MoveRaises
  BY Zenon, MoveNeverRaises DEF MoveShares
<1>2. /\ phase' = "hop" /\ ticks' = ticks
      /\ shares_received' =
           [f \in Flows |-> [q \in DOMAIN shares_received[f] \ Completed(f) |-> ReceivedNow(f, q)]]
      /\ messages_rx' = [f \in Flows |-> messages_rx[f] + Cardinality(Completed(f))]
  BY Zenon, <1>1 DEF MoveShares
<1>3. \A f \in Flows : \A q : Timers(f, q)' = Timers(f, q) \ {ticks}
  BY Zenon, MovedTimers
<1>4. ASSUME NEW f \in Flows
      PROVE  D!Due(f) = Completed(f)
  <2>1. \A q \in DOMAIN shares_received[f] : q \in Completed(f) <=> InFlight(f, q)' = {}
    BY Zenon, MovedShares
  <2>2. \A q : InFlight(f, q)' = {} <=> Timers(f, q)' = {}
    BY Zenon DEF Timers
  <2>3. D!Due(f) = {q \in DOMAIN shares_received[f] : Timers(f, q) \ {ticks} = {}}
    BY Zenon DEF D!Due
  <2>4. Completed(f) \subseteq DOMAIN shares_received[f]
    BY Zenon DEF Completed
  <2>5. QED
    BY Zenon, <1>3, <2>1, <2>2, <2>3, <2>4
<1>5. Waiting' = [f \in Flows |-> [q \in DOMAIN Waiting[f] \ Completed(f) |-> Waiting[f][q] \ {ticks}]]
    BY Zenon, <1>2, <1>3 DEF Waiting
<1>6. Stage = "deliver" /\ Stage' = "rest"
  BY Zenon, <1>1, <1>2 DEF Stage
<1>7. \A S : D!Cardinality(S) = Cardinality(S)
  BY Zenon DEF D!Cardinality, Cardinality, D!IsFiniteSet, IsFiniteSet
<1>8. /\ Waiting' = [f \in Flows |-> [q \in DOMAIN Waiting[f] \ D!Due(f) |-> Waiting[f][q] \ {ticks}]]
      /\ messages_rx' = [f \in Flows |-> messages_rx[f] + D!Cardinality(D!Due(f))]
  BY Zenon, <1>2, <1>4, <1>5, <1>7
<1>9. QED
  BY Zenon, <1>2, <1>6, <1>8 DEF D!Deliver, Stage, Waiting

(* Drawing paths, and what the attackers do, is not visible to delivery.   *)
LEMMA UnchangedTimers ==
  ASSUME UNCHANGED <<resident_shares, shares_received>>
  PROVE  Waiting' = Waiting
    BY DEF Timers, InFlight, path_of, Waiting

(* Every phase of step() is a step of the delivery service, or none.       *)
LEMMA StepDelivers ==
  ASSUME Inv, [Next]_vars
  PROVE  [D!Next]_(D!deliveryVars)
    BY Zenon, CreateSends, MoveDelivers, UnchangedTimers DEF D!Next, Hop, Stage, D!deliveryVars,
       Waiting, EndStep, flowVars, D!Rest, vars, Next, SimulationOver

(* The simulator implements delivery by timers: each message is delivered  *)
(* once, in the step in which the last of its K shares reaches the sink.   *)
THEOREM ImplementsDelivery == Spec => Delivery
<1>1. Init => D!Init
  BY Zenon, InitDelivery
<1>2. Inv /\ [Next]_vars => [D!Next]_(D!deliveryVars)
  BY Zenon, StepDelivers
<1>3. QED
  BY <1>1, <1>2, Invariance, PTL DEF Spec, Delivery, D!Spec
=============================================================================
