--------------------------- MODULE MCTrialSources ---------------------------
(***************************************************************************)
(* Where trials come from: the directories of precomputed trials           *)
(* (TrialFiles) and the solver files of the bulk transfer experiments      *)
(* (TuitiTrial). A behaviour is one of the two, as `part' says.            *)
(***************************************************************************)
EXTENDS Integers, Sequences

(* Directories of one to three virtual networks of one to three flows.     *)
VARIABLES part, counts, lost, parser, f_pc, unread, rates, routes, at, flow_defs
fileVars == <<counts, lost, parser, f_pc, unread, rates, routes, at, flow_defs>>
Counts == UNION {[1 .. n -> 1 .. 3] : n \in 1 .. 3}

F == INSTANCE TrialFiles WITH
        FlowCounts <- Counts, K <- 3, Mu <- 2, Losses <- {0, 1}, pc <- f_pc
ASSUME F!TrialFilesAssumption

filesIdle ==
    /\ counts = << >> /\ lost = 0 /\ parser = "none" /\ f_pc = "idle" /\ unread = {}
    /\ rates = << >> /\ routes = << >> /\ at = 0 /\ flow_defs = << >>

(* Files with up to two paths, two requests and two timeslots of one or    *)
(* two seconds, or with three paths, for a network of two paths.           *)
VARIABLES directory, todo, trials, provider, u_pc
tuitiVars == <<directory, todo, trials, provider, u_pc>>

Slots == [1 .. 2 -> {0, 1}]
Requests == {<<a>> : a \in Slots} \cup {<<a, <<1, 1>>>> : a \in Slots} \cup {<< >>}
Contents ==
    {[number_of_paths |-> 1, slot_duration |-> d, allocations |-> <<r>>, capacities |-> <<c>>]
        : d \in {1, 2}, r \in Requests, c \in {<<0, 0>>, <<1, 2>>, <<2, 1>>}}
    \cup
    {[number_of_paths |-> 2, slot_duration |-> 2, allocations |-> <<r, <<<<0, 1>>>>>>,
      capacities |-> <<c, <<1, 1>>>>] : r \in Requests, c \in {<<2, 1>>, <<0, 0>>}}
    \cup
    {[number_of_paths |-> 3, slot_duration |-> 1, allocations |-> <<<< >>, << >>, << >>>>,
      capacities |-> <<<<1>>, <<1>>, <<1>>>>]}

U == INSTANCE TuitiTrial WITH
        NetworkPaths <- 2, Bandwidth <- 2, Names <- {"a.p", "b.p"}, Contents <- Contents, pc <- u_pc
ASSUME U!TuitiAssumption

tuitiIdle == directory = << >> /\ todo = {} /\ trials = << >> /\ provider = << >> /\ u_pc = "idle"

MCInit ==
    \/ part = "files" /\ F!Init /\ tuitiIdle
    \/ part = "tuiti" /\ filesIdle /\ U!Init
MCNext ==
    \/ part = "files" /\ F!Next /\ UNCHANGED <<part, tuitiVars>>
    \/ part = "tuiti" /\ U!Next /\ UNCHANGED <<part, fileVars>>
MCSpec == MCInit /\ [][MCNext]_<<part, fileVars, tuitiVars>>
-----------------------------------------------------------------------------
(* The variables of each part have the values the code can give them.      *)
TypesOK == (part = "files" => F!TypeOK) /\ (part = "tuiti" => U!TypeOK)

(* TrialFiles: get_flow_defs gives every flow the hosts at the ends of its *)
(* own paths.                                                              *)
EndsOfItsOwnPaths == F!EndsOfItsOwnPaths

(* TuitiTrial: the bulk flow of a path carries a timeslot's volume, of all *)
(* requests together, during the seconds of that timeslot.                 *)
VolumeInItsTimeslot == U!VolumeInItsTimeslot
=============================================================================
