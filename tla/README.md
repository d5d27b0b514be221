# Verification of the SDN testbed tools

TLA+ models, TLC runs and TLAPS proofs for the tools under `src/`: the Python
programs that drive experiments on an SDN testbed (multipath routing, path
hopping, port and flow mirroring, bulk transfers), the traffic generators they
start on the end hosts, the simulator that stands in for the testbed, and the
code that stores and evaluates what was measured.

1. [The system](#1-the-system) - inventory
2. [Modules](#2-modules) - which module models which code, and how
3. [Runs](#3-runs) - what TLC checks, bounds, fairness
4. [Proofs](#4-proofs) - what TLAPS proves, from what, and how
5. [Where code and comments disagree](#5-where-code-and-comments-disagree)
6. [Not modelled](#6-not-modelled)
7. [Plan](#7-plan)

`PROJECT.json` has the same in machine-readable form: components, runs, the
lines every definition stands for, a mutant for every property, the hazards.

## 1. The system

| part | source (below `src/`) | state | operations | hard behaviour |
|---|---|---|---|---|
| path hopping simulator | `rest_client/path_hopping_simulator/simulator.py` | shares at nodes, open receive entries, counters | the three phases of `step()` | shares of many messages under way on paths of different length; entries deleted at the K-th share |
| simulated attackers | `.../attackers.py` | monitored nodes, captured shares | `monitor`, `select_monitored_nodes` of seven classes | a choice takes effect one step after what it was based on |
| statistics monitor | `mp_routing/multipath_orchestrator.py` | timer chain, stop event, lists | start, fire, append, stop, retrieve | a busy-waiting main thread and a timer thread that may die |
| route adder | same file, `nw_control/{of_*,flowmod}.py`, `mp_routing/main.py` | flow tables, installed routes | reset, install, remove | switches that disconnect, reboot, expire entries; undiscovered links |
| virtual hosts and path hopping trials | `virtual_hosts/`, `path_hopping.py`, `nw_control/stat_monitor.py` | addresses, controller tables, processes, tokens | a trial call by call, `except`/`finally` | any call raises, with or without its effect |
| attacker tests | `path_hopping_attacker_testing.py`, `nw_control/packet_capture.py` | endpoints, capture, qdisc, files with fixed names | sessions of trials | failures in clean-up; files of earlier trials |
| results repository | `nw_control/{results_repository,trial_provider}.py` | directories, metadata, pickled providers | create, write results, merge providers | a kill between any two file operations |
| flow allocation | `path_hopping/flow_allocation.py` | admitted flows, link utilisation, worklist | admission round, end of an allocator, path extension | the first refused flow; cycles in a solution |
| traffic generators | `traffic_generation/`, `traffic-generation-rs/` | delays, counters, threads | send, wait, signal, receive | SIGINT in the middle of a burst; overruns |
| trials on remote hosts | `mp_routing.py`, `mininet_tuiti.py`, `nw_control/host*.py` | remote processes, pid and result files | start, stop, collect, report | late processes, lost pids, stale files |
| mirroring | `port_mirroring/`, `trials/`, `nw_control/topo_mapper.py` | topology, mapping, tokens, solver files | map, request, remove, solve, iterate, re-read | network changes between requests; ignored exit codes |
| trial sources | `mp_routing/{vle_trial,trial,file_parsing}.py`, `simulations*`, `tuiti/` | solver output, parsed files | solve, verify, parse | failed solver with an old file in place |
| evaluation | `stat_monitor.py`, `mp_routing/stats_processor.py`, `data_visualization/` | counters, snapshots, captures | sample, compute | links missing from a snapshot; lost and duplicated packets |

The programs are scripts run one at a time by an experimenter. They meet in the
network (addresses, routes, rules), in files with fixed names, and in the
results repository; concurrency is within a program (timer threads, signal
handlers, sender threads) and between a program and the processes it starts on
other machines. Controllers, switches, solvers and the operating system are
outside `src/`; they appear as external actions, modelled by what the code asks
of them, and are allowed to fail in the ways the code has a branch for.

What must be right: a trial gives back what it acquired and touches nothing of
another; what is recorded for a trial was measured in it; counters agree with
what was sent; routes, rules and allocations are the ones the solution asks for;
loops and waits end.

## 2. Modules

Every action stands for a whole handler, loop body or statement with its early
returns; a call that may raise has an outcome (`ok`, `failed`: no effect,
`lost`: the effect without the answer). Variables keep the names of the code.
Definitions marked `mutant` are wrong variants used to show that each property
can fail; no specification uses them.

| module | models | state and actions |
|---|---|---|
| `PathHoppingSimulation` | `PathHoppingSimulation`, `PathHoppingFlow`, `PathHoppingShare` | `resident_shares`, `shares_received`, `seq_num`, counters; `CreateShares`, `MoveShares`, `Hop` and `EndStep` are the parts of `step()`; `phase` is the part that runs next, or "raised" |
| `PathHoppingAttackers` | the attacker classes, extends the simulator | one selection operator per class; `Attack` is `monitor` followed by `select_monitored_nodes`, part of the last phase of a step |
| `ShareDelivery` | what the simulator promises (abstract) | no nodes, paths or counters: per message the set of steps in which a share is due; `Send`, `Deliver`, `Rest` |
| `MPStatMonitor` | `MPStatMonitor` | per timer chain the place of its thread; `TimerFires`, `_update_stat_lists` (one switch a step), `TestEvent`, `RestartTimer`, `ClearEvent`; main thread: `start_monitor`, `stop_monitor`, `SpinOnEvent`, `retrieve_results` |
| `RouteInstallation` | `MPRouteAdder`, `OFProcessor`, the driver's reset | `tables` of the switches, `installed_routes`; one action per request; switches disconnect, reboot, forget entries |
| `VirtualHost`, `PathHoppingTrial` | `virtual_host.py`, `conduct_path_hopping_trial` and `main` | who holds each address, virtual host, process, route, monitor; one action per call, `pc` the statement |
| `AttackerTesting` | `path_hopping_attacker_testing.py` | as above for sender and receiver pairs, capture, delays, hopping-time files, over several sessions; the calls that set and remove the delays raise too |
| `TrialLifecycle` | what a program that conducts trials promises to those who share the testbed (abstract) | what is held by which trial, running monitors, recorded trials, whether something was lost track of; `Acquire`, `Watch`, `Measure`, `Release`, `Over`, `Restart`, `Misfortune` |
| `ResultsRepository` | `ResultsRepository`, `TrialProvider`, `Trial` | files as absent, empty or with contents; each open, write and dump is a step; `Crash` between any two |
| `FlowAllocation` | greedy, k-paths and path hopping allocators | stream of seeded requests; one round per action; the Gurobi models are the set of optimal solutions of their constraints |
| `FlowRoutes` | `compute_mcf_flow_routes`, `traverse_graph_iterative` | the worklist; one path extended per step |
| `TrafficGeneration` | `traffic_gen.py`, `traffic_server.py` | remaining delays, bursts, tags, counts, files, the exception that ended the generator (`exc`); signals at any statement; packets lost, or refused by the socket (`sendto_raises`) |
| `TrafficGenerationRs` | `traffic-generation-rs/src/main.rs` | sockets, threads with their wake-up time, a clock |
| `MultipathTrial` | `mp_routing.py`, `onos_route_adder.py`, `host.py` | tags, tokens, remote processes, copies of result files, the report; the scripts deployed on the hosts are external (see section 6) |
| `MininetTrial` | `mininet_tuiti.py`, `host_rewrite.py` | `/tmp/last-proc.pid`, held and lost pids, result files per host and instance; a host's files are read in one step, as no property compares two of them |
| `PortMirroring` | `onos_rest_helpers.py`, `topo_mapper.py` | links and hosts of the controller, mapping, rules, tokens; cables move, hosts are forgotten |
| `MirroringTrials` | `flow_mirroring_trial.py`, `port_mirroring_trial.py`, providers | the solver's files by the run that wrote them, or none; whether trials are verified (`verifies`), trials, what was kept under which label |
| `SolverTrials` | `vle_trial.py`, `trial.py`, `simulation_trial.py`, `simulations.py` | requests, the result file per seed, verification, results kept |
| `TrialFiles` | `file_parsing.py` | directories of routes, partitions, rates; parsing flow by flow |
| `TuitiTrial` | `tuiti_trial.py` | a directory of solver files, rates per second, batch |
| `LinkUtilization` | `stat_monitor.py`, helpers of the plots | bytes sent, snapshots; the computations are operators over the snapshots and give bytes: the constants the programs then multiply by differ and are left out |
| `StatsProcessor` | `stats_processor.py` | port counters, samples, counts in files, the names DNS has for the hosts; the passes in the order of `plot_test`, port by port, each asking for a topology that may have changed or an answer that cannot be read |
| `CaptureAnalysis` | `data_visualization/path_hopping_attacker.py` | a capture replayed packet by packet to one of four observers, each share with the interval it was heard in (`hops`); packets of the control port are passed over |

Five modules bring components together with `INSTANCE`, give the names two of
them share to different variables, and state the properties of the instances
that runs check and theorems prove under one name: `Orchestrator`
(`MPStatMonitor`, `RouteInstallation`), `Traffic` (the two generators),
`Mirroring` (`PortMirroring`, `MirroringTrials`), `TrialPrograms`
(`MininetTrial`, `SolverTrials`) and `Measurements` (`StatsProcessor`,
`CaptureAnalysis`). They are extended by the `MC` module of the run and by the
module with the proofs, so both speak of the same definitions.

`MC*` modules give the constants their values. Most put two or three components
into one run: a variable `part`, fixed in the initial state, says which of them a
behaviour is of, and the others stand still. The components of such a run share
no state, so this checks each of them exactly as a run of its own would; it is
not a claim about their composition (see the plan). `PathHoppingAttackers` with
the simulator, and `VirtualHost` with `PathHoppingTrial`, are real compositions.

**Refinements.** Three specifications are shown to implement an abstract one.

- `PathHoppingSimulation` implements `ShareDelivery` (`Delivery`). A message's
  timers are computed from the shares still at nodes: one of message *q* on a
  path of *n* nodes is due in step *q + n*. Because the abstract
  specification delivers exactly when the last timer runs out, the refinement
  says at once that `step()` never raises, that `receive_share` completes a
  message once, and that it does so in the right step.
- `PathHoppingTrial` (`Lifecycle`) and `AttackerTesting` (`TestingLifecycle`)
  implement `TrialLifecycle`. What is held is read off the state outside the
  program (addresses, virtual hosts, processes, routes), not off the program's
  own variables; that the two agree is what could go wrong. `custody` is not in
  the programs' code: it records that a release failed or an answer was lost,
  the only excuses for leaving something behind.

## 3. Runs

All runs pass but `mirroring_verdict`, whose property is a comment of the code
that does not hold. Deadlock is checked unless noted; specifications of programs
that end have a stuttering step for the ended state. Every module has a type
invariant (`TypeOK`, joined as `TypesOK` in the `MC` modules); those of the
simulator, the monitor, the routes, the path hopping trials, the repository and
the traffic generator are proved, the others can be added to a
configuration and are not among the properties of the runs.

| run | shows | bounds, and why they are enough |
|---|---|---|
| `simulation` | the simulator implements `ShareDelivery`; shares are conserved; every message that has the time to walk the longest path is received, and in time | two crossing flows, K = 2 of 3 and 2 paths of 2 to 4 nodes, 4 steps: entries of several messages are open at once and short paths overtake long ones |
| `attackers` | a first-hop attacker recovers a message in the step that sends it or never; the planned one recovers the message its sweep follows | N = 3, K = 2, all seven classes, periods 1 and 2, 3 steps: a whole sweep of the planned attacker |
| `orchestrator` | a stopped monitor is quiet and its lists are whole; stop returns unless a request failed in the timer thread; no forwarding loop while traffic runs, and all entries are removed after it | 3 switches, 2 starts, 2 periods; 4 switches in a ring with a diagonal, 2 trials, 2 disruptions: two routes with one match crossing a link both ways |
| `virtual_hosts` | both kinds of trials implement `TrialLifecycle`: nothing is left behind unless a release fails or an answer is lost, nothing of another trial is touched, nothing is recorded without hosts or with a running monitor; a leaked address stops the trials that follow; measurements and delays belong to their trial and session; runs end, and so do sessions unless the sender died and its receiver listens for ever | 2 hosts, 3 trials, 3 flows, 2 failures; 2 sessions of 2 trials with 3 failures: a leak of one trial meets the next and the one after that |
| `results_repository` | merges keep every name, with the trials of one run; a torn file stays torn; results of two runs are not mixed | 2 names, 2 copies, 2 providers, 2 files, 3 program runs with a kill anywhere |
| `flows` | routes are exactly the simple paths a flow uses, and the traversal ends; the utilisation an allocator reports covers the load of what it admitted, within the capacity | a square behind a stub, cycles in the solution possible, amounts in halves; links that hold one and a half flows, so that splitting matters |
| `traffic` | counters differ by at most a burst, nobody is faster than its rate (ten times its rate in the Rust generator), a generator ends without a file only for a refused packet or the shares of the flow it was sending | 2 flows with zero and negative rates, 3 slices, overruns of 1; 3 Rust threads, 4 ticks |
| `trials` | a stale file needs two faults; parallel flows are reported in order; a mininet result is of its own trial if its process wrote one; held processes are stopped; a stale solver file is used only within its seed | 2 trials on 2 hosts, 2 failures and 2 crashes; 2 lost pids; 3 solver runs, 1 failure: both programs at once, and one of them again |
| `mirroring` | rules mirror what the solution says and stay only after an exception; solutions are kept under their label, for every flow where trials are verified | 4 switches with two isomorphisms, 2 calls, 2 changes of the network; 2 providers of 2 trials, iterated twice, 2 solver failures, with and without files of an earlier session |
| `mirroring_verdict` | **violated**: see section 5 | as `mirroring` |
| `trial_sources` | flows get the ends of their own paths; volumes stay in their timeslot | directories of up to 3 networks of up to 3 flows; 2 files |
| `measurements` | every byte is counted once and all computations agree in bytes; only entries of ports whose cable moved, or whose answer was garbled, are wrong; losses are of exactly the flows whose two ends are counted and known by their names; each observer listens on K ports at a time and hops no sooner than it should | 2 packets, 3 samples, 1 fault, 4 topologies, 4 reverse zones; 3 snapshots, 2 flaps; 2 messages of 2 shares over 3 ports, one lost or duplicated, or one of the control port |

Runs without a deadlock check: `virtual_hosts` (`wait_until_done` has no
timeout, so a receiver without its sender blocks the session), `traffic` (a
generator that raised, was killed or used up its bound), `trial_sources` and
`measurements` (programs that evaluate their input and end, or are at a bound).

**Fairness.** Only what scheduling provides: weak fairness of the single thread
of a sequential program (`simulation`, path hopping trials, `Traversal` of
`FlowRoutes`); of the main thread and of every timer thread of the monitor; of
the driver and of the remote processes of a mininet trial. In the attacker tests
the endpoints are other programs: a sender that is able to hop does (weak), and
strong fairness of `SomeSenderEnds` and `SomeReceiverEnds` says that an endpoint
that is able to finish again and again does. External failures are never forced
nor forbidden; liveness properties name the failure that excuses them
(`StopTerminates`, and `ProgramsEnd`, in which a session may fail to end only by
being `Abandoned` from some point on: in `wait_until_done`, its receiver
listening, its sender gone before everything was across).

**Symmetry** is not used: hosts and switches are told apart by the topologies.

## 4. Proofs

Thirteen components have theorems, in eight modules, for all values of the
constants. `theorems` in `PROJECT.json` lists them with the properties they
state. Some (`NeverRaises`, `NothingLeftBehind`, `OneHopPerStep`, ...) are proved
and not repeated by a run: the proof covers every instance. A theorem about a
component that is instantiated is about its own specification (`R!Spec`, `T!Spec`,
...), from the assumption on its constants that the `MC` module has TLC evaluate
for the run.

Every proof has the same layout: the conjuncts of the inductive invariant, one
lemma for each (or, where the conjuncts hang together, one for each action), a
lemma that joins them, and the theorems, which follow from the invariant in one
step.

**`PathHoppingSimulationProofs`** (assumptions: `K` a positive natural number,
every flow has at least K paths, every path is a sequence of distinct nodes with
at least two of them, from the flow's source to its sink; any number of flows
and steps). The inductive invariant is

    Inv == TypeOK, NeverRaises, PathIndicesOK, SeqNumsFollowTicks,
           SharesFinite, SharesConserved, CountersAgree, OneHopPerStep

`NeverRaises` alone is not inductive: that `path.index(node)` finds the node
needs `OneHopPerStep` (a share is at the position of its path that its age
gives), which needs `PathIndicesOK` and, for ages, `SeqNumsFollowTicks`; that
the receive entry is there when a share arrives needs `SharesConserved`
(received and travelling shares of an open message add up to K), whose step is
arithmetic on cardinalities and so needs `SharesFinite`. Lemmas `IndexOnPath`,
`PathOfShare`, `SharesOfMessage`, `PositionInMove`, `ArrivingCounts` and
`MoveNeverRaises` carry the argument; there is one lemma per action. Theorems:
`TypeCorrect`, `StepNeverRaises`, `SharesAreConserved`, `CountersAlwaysAgree`,
`SharesWalkTheirPath`, `MessagesCompleteInTime`.

`ImplementsDelivery` is *Spec => Delivery*. The initial states map to initial
states; creating shares is `Send` (the new message's timers are one per hop count
of the K paths chosen); moving them is `Deliver`; the end of the step is `Rest`.
The step for `Deliver` is the one with content: the entry deleted at the K-th
share is the message none of whose timers is left, which is `SharesConserved`
read together with `OneHopPerStep`.

**`OrchestratorProofs`**, the monitor (assumptions: at least one switch; any
number of rounds and periods). `Inv == TypeOK, CurrentChainOnly, EventProtocol,
FailureIsLast, SamplesInStep`: only the chain of the latest start can be alive;
the event is set only while the main thread waits in stop; a failed chain has no
successor until the next start; lists differ by the position of the sampling
thread. `QuietAfterStop`, `NoTornSample` and `OneChain` follow. The action
property behind `FailureHangsStop`, that nothing clears the event after a
failure, is proved as well (`StopHangsAfterFailure`); that stop then waits for
ever is its consequence.

Route installation in the same module (assumption `RoutesAssumption`: any wiring,
trials and lists of simple routes along it). The invariant `TablesAsOf` says of
every entry of a switch that was reset which hop of which route put it there,
and that no later route replaced it (`InstalledBy`). `RoutesRemoved` is then
immediate. For `RoutesLoopFree`, take a circle of switches for one match and the
last route that owns an entry on it (`Largest`, well-founded induction on the
list of routes): its own next hops stay on the circle and lead to its last node,
which has no entry of that route, a contradiction. Both exclusions of the
property are needed: with a missing link *and* a shared match the hop that
closes the circle may be another route's.

**`PathHoppingTrialProofs`**
(assumptions `TrialAssumption` and `VirtualHostAssumption`: positive numbers of
hosts and trials, flows between hosts, any number of failures). `Inv == TypeOK,
IndexOK, HostsSoFar, HostsInPlace, Accounted, MeasuredSoFar, TagsBelowNext`.
`NothingLeftBehind` speaks of the end of a trial; inductively one must say for
every resource, at every statement, that it is either recorded in the trial's
own variables and its release is still ahead (`Ahead`), or was given up by a
failed call: that is `Accounted`. There is one lemma per statement, first those
that set a trial up and measure, then the clean-up; `OthersResourcesKept` is an
action property from the same invariant.

`ImplementsLifecycle` is *Spec => Lifecycle*. The invariant is `LifeInv`, `Inv`
with `LostByFailure` (something is lost track of only after a failed call): an
address in the way of a new one makes a trial turn back without a failure of its
own, and the abstract `GoesOn` wants an earlier one. The lemmas `HeldSame`,
`HeldGrows` and `HeldShrinks` say what a change of one variable does to the set
of what is held; `AcquireStep` and `ReleaseStep` turn them into abstract steps;
one lemma per statement then shows which abstract step, or stutter, it is. That a
trial is over only with nothing held is `Accounted` at the end of `finally`.

**`TrafficProofs`** (assumption `GenerationAssumption`: finitely many flows, rates
and shares as given; any losses, overruns and times of the two SIGINTs). `Inv ==
TypeOK, Queue, Paced, Counts, Files, EndsUnwrittenForACause`.
`CountsWithinABurst` at the end of both programs needs `Counts` in between: what
the server has counted and what is on its way is at most what the generator has
counted and the packets of the current burst that it has not; that a flow is
served once per iteration is `Queue`. `NeverFasterThanItsRate` needs `Paced`:
the delays a flow has waited through pay for its bursts. For `EndsUnwritten`, that
`select_dscp` answers every draw up to 1 when the shares add up to 1, and so
raises for no other flow than the property says, needs their sum; the module starts with the
facts about sums over finite sets and minima that the library has no theorems
for, by infinite descent, since no induction principle can be instantiated.
`TenTimesItsRate` is about the generator in Rust (`GeneratorAssumption`; any
interleaving of its threads), with the invariant `Slept`: every burst but the
last has been slept for.

**`MultipathTrialProofs`** (`MultipathAssumption`: any trials, lists of flows,
failures and crashes). `StaleNeedsTwoFaults` and `ReportedInOrder`. The argument
counts faults by host: a step makes the files of at most one host go missing and
is then a fault (`Missing`), so a sender's and a receiver's file missing on two
hosts are two faults (`Accounted`); the loop over the flows takes a count of
another trial only from two such files. For the order, `InOrder` says which
entries of the receiver's file the loop has used up.

**`MirroringProofs`** (`MirroringAssumption`: any topology of the solver, cabling
with one cable per port, paths and solution). `MirroredPorts` needs `Translated`
(a number entered for a port id is the port of a cable between the two switches,
as it was when it was read) and `Wired` (two cables have shared a port only
after two disruptions); `RequestAsSolved` concludes that a request crosses a
mirrored port exactly when the solution says so. `FlowsLeft`, that flows stay at
the controller only by a call that raised, has one more assumption, `Complete`:
every flow has a solution and every switch but the collector's a host; without
it the call raises in a network without disruptions, which is what the property
excludes. The run's instance satisfies it. `Labels` (`TrialsAssumption`: any
number of trials, flows and passes) has the invariant that a trial holds the
solutions of the type set last, except for what the wrong assignment noted in
section 5 leaves (`HeldType`); that they are complete is only claimed, and only
true, where trials are verified.

**`ResultsProofs`**, the repository (assumption `RepositoryAssumption`: positive
bounds on runs and copies, repositories told apart from the absent one, at least
one file; kills between any two steps). `Inv == TypeOK, prog \in Prog,
ProvidersInv, WritingInv, ResultsInv`. The three properties are about steps, and
a step writes what an earlier one has read; so the invariant says what a program
that got past its checks still knows: a provider about to be opened is whole or
absent, and empty until it is dumped; a merge has taken along all the names it
found; a run that does not overwrite found no file and has written those that
are there. Theorems `MergesKeepNames`, `TornForEver`, `RunsNotMixed`: all
properties of the run `results_repository`; and `TypeCorrect`.

In the same module, what is computed from measurements. `ObserversRules` is about
`CaptureAnalysis` (assumption `CaptureAssumption`: packets in the order of their
times; any captures, K and timestep). The property speaks of the end of a walk;
inductively, what was heard in an interval came over one set of K ports, in the
current interval over those listened on; each hop so far has used up its share of
the time walked through; and the synchronised observer has made the hops the
packet it is at allows. `LossRates` is about `StatsProcessor`
(`StatsAssumption`: any flows, topologies and reverse zones): an entry brings
together the generator's and the server's counts of one flow because a host that
answers to no other's name gives its key to no other flow (`OwnKeys`,
`KeyParts`, `EndsMeet`), and the flows left out are those the property lists
(`KnownEnds`).

**`TrialProgramsProofs`**, the mininet trials (`MininetAssumption`: any hosts,
flows and trials), `OwnResults`. The loops of the driver start the processes in an
order (`Started`), every living process that is not lost is on a list that
`finally` goes through (`Tracked`), and so a file that was written in this trial
is this trial's still (`Fresh`) when it is collected. The solver trials,
`ResultsOfTheirSeed`: the invariant `Filed` follows the seed from the name of the
file to the result.

**Only model-checked.** Out of the prover's reach: liveness under fairness
(`EventuallyReceived`, `StopTerminates`, `ProgramsEnd`, `EveryTraversalEnds`,
`HeldProcessesStopped`) and what a recursion over data computes for every input:
`RoutesAreTheSimplePaths` and `UtilizationCoversLoad` (sums and paths of a
worklist), `EveryByteOnce`, `RightWhereverItIs`, `VolumeInItsTimeslot` (sums over
snapshots, samples and timeslots), `EndsOfItsOwnPaths` (parsing recursively).
Not proved so far: `FirstHopOrNever` and `PlannedSweepRecoversItsMessage` of the
attackers, and the properties of `AttackerTesting` (`TestingLifecycle`,
`OwnMeasurements`).

## 5. Where code and comments disagree

`mirroring_verdict`: `verify_that_all_flows_are_mirrored`
(`port_mirroring/onos_rest_helpers.py:12`) prints "All flows have been mirrored."
The map it uses goes from switch to port id to port number but is indexed with
the port id alone, so it compares whole maps, not ports; TLC finds a solution
for which it says so although a flow crosses no mirrored port.

Noticed while modelling, and modelled as the code is:

- `trials/flow_mirroring_trial.py:224` assigns to `self_solutions`, a local name:
  after the optimal solutions were selected once, selecting the approximate ones
  changes the label only (`LabelledAsSolved` states the exception).
- `path_hopping_simulator/attackers.py:166` tests the hop period with `&` where
  the sibling classes use `%`.
- `mp_routing/trial.py:112` compares with `1**-10`, which is 1.
- `mp_routing/file_parsing.py:188` drops three routes per flow, right for three
  paths per flow only.
- `tuiti/tuiti_trial.py:44` and `:124` scale capacities differently.
- `data_visualization/tuiti.py:195` says a plot of lists of unequal length "will
  throw"; it does so only when a later list is the shorter one.
- `path_hopping/flow_allocation.py:984`: the ratios of paths that merge and split
  can add up to more than 1.
- `nw_control/results_repository.py:52`: a kill before the metadata is written
  leaves a directory that is refused from then on; `:112` without
  `merge_existing` all the earlier trials are dropped, where `:95` speaks of
  those with the same names.
- `path_hopping.py:171`: tags start at 0, the value of untagged traffic.
- `path_hopping_attacker_testing.py`: `CREATE_VHOST_RETRY_COUNT` is 1; with 2 the
  loop would go on after a success.

## 6. Not modelled

- Agreement with what is deployed on the hosts. `MultipathTrial` assumes that the
  generator and server the hosts run take the arguments `host.py` gives them and
  write the files it fetches. The copies under `src/traffic_generation/` do not:
  `host.py:121-128` passes no `-source_addr`, which `traffic_server.py:20-21`
  requires; `host.py:233-239` passes a literal where `traffic_gen.py:224` opens a
  file; the names of `host.py:150-157` differ from those of `traffic_gen.py:316`
  and `traffic_server.py:32`. The scripts on the hosts are therefore taken for
  others than these, and `TrafficGeneration` is not composed with `MultipathTrial`.
- In `TuitiTrial`: requests of differing length, an empty list of capacities and
  transfers without a path are not among the inputs; what the code does then is open.
- How the paths of a mirroring trial are written to the repository and read back
  (`trials/port_mirroring_trial.py:57`, where a path gains a switch at its end):
  no property is about the paths.
- Plots and interactive drivers (`data_visualization/` but for the computations
  above, `generate_graphs.py`, `mp_routing/test_driver.py`): no state of their own.
- `port_mirroring.py` as a program: at this revision it raises before its first
  trial (it hands a path to a mapper that wants text); its operations are in
  `PortMirroring` and `MirroringTrials`. `mp_routing/main.py` needs `MPTestHost`,
  which is gone; `RouteInstallation` and `StatsProcessor` model what surrounds it.
- The arithmetic of floating point, random distributions (any value they can
  give is a choice), wording of messages, layout of JSON and command lines.
- The optimisers: a solution is any optimum of the constraints the code states.
- Controller applications, switches, SSH, the operating system: external
  actions, as far as the code depends on them.
- Code nothing runs: `verify_trial_state`, `map_to_physical_network` and the
  renaming helpers of `trials/port_mirroring_trial.py`; the test trial of
  `mininet_tuiti.py` (commented out in its `main`); `create_test_k_paths_model`,
  the test, equal and unequal allocations of `flow_allocation.py` and the
  recursive twin of `traverse_graph_iterative`.
- Tables of parameters, containers, properties and lookups without state
  (`path_hopping/trials.py`, `simulations*`, `nw_control/host_mapper.py` but for
  the names `StatsProcessor` looks up, most of `trial_provider.py`, the argument lists of `host.py` and `host_rewrite.py`).
- `StatsProcessor` takes a sample of all switches in one step; that samples can
  be torn is the subject of `MPStatMonitor`, and no property compares two ports.

## 7. Plan

Done in this order: simulator and its proofs, attackers, monitor and its proofs,
path hopping trials and their proofs, repository, the remaining components; then
the two abstract specifications with their refinement proofs, the proofs of the
repository, and those of the traffic generators, routes, multipath, mininet and
mirroring trials, solver and evaluation. What is left is depth, not coverage:

1. Compositions: `RouteInstallation` with `MPStatMonitor` (a stop that hangs
   keeps the routes of the trial), `TuitiTrial` with `MininetTrial`,
   `SolverTrials` with `MultipathTrial`, any trial with `ResultsRepository`.
2. An atomic provider store implemented by `ResultsRepository` without kills.
3. Theorems: the refinement of `AttackerTesting` and `OwnMeasurements`, for which
   the invariant of the path hopping trials is the pattern.
