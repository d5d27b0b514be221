--------------------------- MODULE ShareDelivery ---------------------------
(***************************************************************************)
(* What the path-hopping simulator promises, without nodes, paths or       *)
(* share counters: a message is a set of timers, one per hop count of the  *)
(* paths its shares were given.  Every flow sends one message per step; a  *)
(* timer runs out in exactly the step in which a share with that many hops *)
(* arrives; the message is delivered, once, with its last timer.           *)
(***************************************************************************)
EXTENDS Integers, FiniteSets

CONSTANTS
  Flows,     \* flow ids
  HopSets,   \* HopSets[f]: the sets of hop counts a message of f can be given
  Steps      \* how many steps there are

VARIABLES
  clock,     \* the number of the step
  stage,     \* "send", "deliver" or "rest"
  waiting,   \* per flow: the timers of every message not yet delivered
  delivered  \* per flow: how many messages were delivered

deliveryVars == <<clock, stage, waiting, delivered>>

Init ==
  /\ clock = 1
  /\ stage = "send"
  /\ waiting = [f \in Flows |-> [q \in {} |-> {}]]
  /\ delivered = [f \in Flows |-> 0]

(* The message sent in step q + 1 has number q. *)
Sent(f, hops) ==
  [q \in DOMAIN waiting[f] \cup {clock - 1} |->
     IF q = clock - 1 THEN {clock - 1 + h : h \in hops} ELSE waiting[f][q]]

Send ==
  /\ stage = "send" /\ clock <= Steps
  /\ waiting' = [f \in Flows |-> waiting'[f]]
  /\ \A f \in Flows : \E hops \in HopSets[f] : waiting'[f] = Sent(f, hops)
  /\ stage' = "deliver"
  /\ UNCHANGED <<clock, delivered>>

Due(f) == {q \in DOMAIN waiting[f] : waiting[f][q] \ {clock} = {}}

Deliver ==
  /\ stage = "deliver"
  /\ waiting' =
       [f \in Flows |-> [q \in DOMAIN waiting[f] \ Due(f) |-> waiting[f][q] \ {clock}]]
  /\ delivered' = [f \in Flows |-> delivered[f] + Cardinality(Due(f))]
  /\ stage' = "rest"
  /\ UNCHANGED clock

Rest ==
  /\ stage = "rest"
  /\ clock' = clock + 1
  /\ stage' = "send"
  /\ UNCHANGED <<waiting, delivered>>

Next == Send \/ Deliver \/ Rest

Spec == Init /\ [][Next]_deliveryVars
=============================================================================
