------------------------ MODULE TrialProgramsProofs -------------------------
(***************************************************************************)
(* Proofs about the programs beside the multipath trials: whose files the  *)
(* results of a mininet trial come from, for any hosts, flows and trials,  *)
(* and whose output a solver program reads, for any seeds and requests.    *)
(***************************************************************************)
EXTENDS TrialPrograms, Integers, Sequences, TLAPS

(* The results of mininet trials. The driver tracks its processes by their *)
(* pids: those of a trial whose pid it holds are signalled before the next *)
(* trial begins, so that a file that a process of this trial has written   *)
(* is overwritten only by one whose pid was lost.                          *)

Typed ==
  /\ m_trial \in M!Trials /\ host \in M!Hosts
  /\ DOMAIN server_proc = M!Hosts /\ client_procs \in [M!Hosts -> Seq(M!Pid)]
  /\ alive \in SUBSET M!Pid /\ dumped \in SUBSET M!Pid
  /\ DOMAIN host_files = M!Hosts \X M!Kinds
  /\ DOMAIN end_host_results = M!Hosts /\ DOMAIN recorded = M!Trials

(* The driver's loops have passed the start of process p of this trial.    *)
Begun(p) ==
  IF p.kind = "server" THEN m_pc # "setup" /\ (m_pc = "servers" => p.host < host)
  ELSE /\ m_pc \notin {"setup", "servers", "flows"}
       /\ m_pc = "clients-0" => p.host < host
       /\ m_pc = "clients-1" => p.host < host \/ (p.host = host /\ p.kind = "instance-0")

Started == \A p \in alive \cup dumped : p.trial <= m_trial /\ (p.trial = m_trial => Begun(p))

(* A process that runs and is not lost is one of this trial, the driver    *)
(* holds its pid, and once finally has passed its host it has been sent a  *)
(* SIGINT.                                                                 *)
Tracked ==
  \A p \in alive \ lost :
     /\ p.trial = m_trial /\ p \in M!Held(p.host)
     /\ (m_pc = "destroy" /\ p.host < host) \/ m_pc = "next" => p \in signalled

(* Once a process of this trial has written its file, only a process that  *)
(* was lost writes over it.                                                *)
Fresh ==
  \A p \in dumped : p.trial = m_trial =>
     p \notin alive /\ host_files[<<p.host, p.kind>>] \in {p, M!Torn} \cup lost

OwnResult(t, h, r) ==
  r.receiver # M!NoPid =>
     /\ "server" \in r.written => r.receiver \in {M!Own(t, h, "server")} \cup lost
     /\ \A i \in DOMAIN r.sender : M!Instance(i - 1) \in r.written =>
           r.sender[i] \in {M!Own(t, h, M!Instance(i - 1)), M!NoPid} \cup lost

Collected == \A h \in M!Hosts : OwnResult(m_trial, h, end_host_results[h])
Recorded == \A t \in M!Trials, h \in M!Hosts : OwnResult(t, h, recorded[t][h])

MInv == Typed /\ Started /\ Tracked /\ Fresh /\ Collected /\ Recorded

-----------------------------------------------------------------------------
(* What the driver does while it neither starts a process nor begins a     *)
(* trial: its own moves, and those that signal, collect and record.        *)
Quiet ==
  \/ M!Raise \/ M!create_mininet_hosts \/ M!ConfigureFlows \/ M!NoClients \/ M!Sleep
  \/ M!NoReceiverFile \/ M!DestroyRaises
Signals ==
  M!stop_traffic_generation_client \/ M!stop_traffic_generation_server \/ M!disconnect
DriverStep == Quiet \/ Signals \/ M!collect_end_host_results \/ M!AddResults

(* The hosts are numbered from 0 without gaps, so that the driver's loops  *)
(* over them reach each one.                                               *)
LEMMA HostBounds ==
  ASSUME M!MininetAssumption
  PROVE  /\ 0 \in M!Hosts /\ \A h \in M!Hosts : h \in Nat
         /\ \A h \in M!Hosts : h < M!LastHost => h + 1 \in M!Hosts
         /\ \A h \in M!Hosts : h <= M!LastHost
  BY DEF M!MininetAssumption, M!Hosts, M!LastHost

(* The loops only go forward: what has been passed stays passed.           *)
LEMMA DriverMoves ==
  ASSUME M!MininetAssumption, Typed, DriverStep
  PROVE  /\ UNCHANGED <<m_trial, server_proc, client_procs, alive, dumped, host_files, lost>>
         /\ host' \in M!Hosts
         /\ \A p \in M!Pid : Begun(p) => Begun(p)'
  <1> USE DEF M!driver, M!procs
  <1>0. /\ \A p \in M!Pid : p.host \in Nat /\ p.host <= M!LastHost
        /\ host \in Nat /\ host \in M!Hosts
    BY Zenon, HostBounds DEF M!Pid, Typed
  <1>1. UNCHANGED <<m_trial, server_proc, client_procs, alive, dumped, host_files, lost>>
      BY Zenon DEF Quiet, M!Raise, M!create_mininet_hosts, M!ConfigureFlows, M!NoClients, M!Sleep,
         M!NoReceiverFile, M!DestroyRaises, Signals, M!stop_traffic_generation_client,
         M!stop_traffic_generation_server, M!disconnect, M!collect_end_host_results, M!AddResults,
         DriverStep
  <1>2. /\ host' = host \/ host' = 0 \/ (host < M!LastHost /\ host' = host + 1 /\ m_pc' = m_pc)
        /\ \/ m_pc' \in {"destroy", "crashed", "run", "stop-clients", "stop-servers", "collect",
                       "add-results", "next"}
           \/ m_pc = "setup" /\ m_pc' = "servers" /\ host' = 0
           \/ m_pc = "flows" /\ m_pc' = "clients-0" /\ host' = 0
           \/ m_pc = "clients-0" /\ m_pc' = "clients-0" /\ host' = host + 1
    <2>1. CASE Quiet
      BY Zenon, <2>1 DEF Quiet, M!Raise, M!create_mininet_hosts, M!ConfigureFlows, M!NoClients, M!Sleep,
         M!NoReceiverFile, M!DestroyRaises
    <2>2. CASE Signals
      BY Zenon, <2>2 DEF Signals, M!stop_traffic_generation_client, M!stop_traffic_generation_server,
         M!disconnect, M!NextHost
    <2>3. CASE M!collect_end_host_results \/ M!AddResults
      BY Zenon, <2>3 DEF M!collect_end_host_results, M!AddResults, M!NextHost
    <2> QED
      BY Zenon, <2>1, <2>2, <2>3 DEF DriverStep
  <1>3. host' \in M!Hosts
    BY Zenon, <1>0, <1>2, HostBounds
  <1>4. ASSUME NEW p \in M!Pid, Begun(p)
        PROVE  Begun(p)'
    BY <1>0, <1>2, <1>4 DEF Begun
  <1> QED
    BY Zenon, <1>1, <1>3, <1>4

(* A process that comes up, dies, or writes its file.                      *)
LEMMA ProcessMoves ==
  ASSUME NEW p \in alive, M!ComeUp(p) \/ M!Die(p) \/ M!OpenFile(p) \/ M!Dump(p)
  PROVE  /\ UNCHANGED <<m_trial, m_pc, host, server_proc, client_procs, end_host_results, recorded, lost>>
         /\ alive' \subseteq alive /\ dumped' \subseteq dumped \cup {p}
         /\ \A q \in alive' : q \in signalled => q \in signalled'
         /\ \/ host_files' = host_files /\ dumped' = dumped
            \/ host_files' = [host_files EXCEPT ![<<p.host, p.kind>>] = M!Torn] /\ dumped' = dumped
            \/ host_files' = [host_files EXCEPT ![<<p.host, p.kind>>] = p] /\ dumped' = dumped \cup {p} /\ p \notin alive'
  BY Zenon DEF M!ComeUp, M!Die, M!OpenFile, M!Dump, M!Leave, M!driver

(* A process is started and the driver goes on to the next start; it has   *)
(* the pid unless it is lost.                                              *)
StartStep(kind) ==
  /\ \/ kind = "server" /\ m_pc = "servers"
     \/ kind = "instance-0" /\ m_pc = "clients-0"
     \/ kind = "instance-1" /\ m_pc = "clients-1"
  /\ alive' = alive \cup {M!Own(m_trial, host, kind)}
  /\ UNCHANGED <<m_trial, signalled, host_files, dumped, end_host_results, recorded>>
  /\ lost \subseteq lost'
  /\ DOMAIN server_proc' = M!Hosts /\ client_procs' \in [M!Hosts -> Seq(M!Pid)]
  /\ \A h \in M!Hosts : M!Held(h) \subseteq M!Held(h)' \/ (h = host /\ kind = "server")
  /\ \A h \in M!Hosts : M!Range(client_procs[h]) \subseteq M!Held(h)'
  /\ M!Own(m_trial, host, kind) \in lost' \/ \E h \in M!Hosts : h = host /\ M!Own(m_trial, host, kind) \in M!Held(h)'
  /\ host' \in M!Hosts
  /\ \/ m_pc' = "destroy" /\ host' = 0
     \/ kind = "server" /\ \/ m_pc' = "servers" /\ host' = host + 1
                           \/ m_pc' = "flows" /\ host' = 0
     \/ kind = "instance-0" /\ m_pc' = "clients-1" /\ host' = host
     \/ kind = "instance-1" /\ \/ m_pc' = "clients-0" /\ host' = host + 1
                               \/ m_pc' = "run" /\ host' = 0

(* The three calls that start a process, and the one whose pid file is     *)
(* missing, all start one process of the kind whose turn it is.            *)
LEMMA StartMoves ==
  ASSUME M!MininetAssumption, Typed,
         M!NoPidFile \/ M!start_traffic_generation_server
           \/ M!start_traffic_generation_client(0) \/ M!start_traffic_generation_client(1)
  PROVE  \E kind \in M!Kinds : StartStep(kind)
  <1>0. /\ host \in M!Hosts /\ DOMAIN server_proc = M!Hosts /\ client_procs \in [M!Hosts -> Seq(M!Pid)]
        /\ 0 \in M!Hosts /\ (host < M!LastHost => host + 1 \in M!Hosts)
    BY Zenon, HostBounds DEF Typed
  <1>h. PICK here \in M!Hosts : here = host
    BY Zenon, <1>0
  <1>1. CASE M!NoPidFile
      BY Zenon, <1>1, <1>0, HostBounds DEF M!NoPidFile, M!Own, M!Held, M!Range, StartStep
  <1>2. CASE M!start_traffic_generation_server
      BY <1>2, <1>0, <1>h DEF M!start_traffic_generation_server, M!Own, M!run_async, M!NextHost,
         M!Held, M!Range, StartStep, M!Kinds
  <1>3. ASSUME NEW i \in {0, 1}, M!start_traffic_generation_client(i)
        PROVE  StartStep(M!Instance(i))
    <2> DEFINE p == M!Own(m_trial, host, M!Instance(i))
    <2>1. PICK pid \in M!Pid : /\ M!run_async(p, pid)
                               /\ client_procs' = [client_procs EXCEPT ![host] = Append(client_procs[host], pid)]
      BY Zenon, <1>3 DEF M!start_traffic_generation_client, M!Own
    <2>2. /\ alive' = alive \cup {p} /\ UNCHANGED <<signalled, host_files, dumped>>
          /\ lost \subseteq lost' /\ (p \in lost' \/ pid = p)
      BY Zenon, <2>1 DEF M!run_async
    <2>3. UNCHANGED <<m_trial, server_proc, end_host_results, recorded>>
      BY Zenon, <1>3 DEF M!start_traffic_generation_client
    <2>4. /\ host' \in M!Hosts
          /\ \/ i = 0 /\ m_pc = "clients-0" /\ m_pc' = "clients-1" /\ host' = host
             \/ i = 1 /\ m_pc = "clients-1" /\ ((m_pc' = "clients-0" /\ host' = host + 1) \/ (m_pc' = "run" /\ host' = 0))
      BY Zenon, <1>0, <1>3 DEF M!start_traffic_generation_client
    <2>5. \A h \in M!Hosts : M!Range(client_procs[h]) \subseteq M!Range(client_procs[h])'
      <3> SUFFICES ASSUME NEW h \in M!Hosts, NEW j \in DOMAIN client_procs[h]
                   PROVE  \E l \in DOMAIN client_procs'[h] : client_procs'[h][l] = client_procs[h][j]
        BY DEF M!Range
      <3>1. client_procs[h] \in Seq(M!Pid)
        BY Zenon, <1>0
      <3> QED
        BY <2>1, <3>1
    <2>6. pid \in M!Range(client_procs[here])'
        BY <1>0, <1>h, <2>1 DEF M!Range
    <2>7. client_procs' \in [M!Hosts -> Seq(M!Pid)]
        BY <1>0, <2>1
    <2> HIDE DEF p
    <2>8. /\ \A h \in M!Hosts : M!Held(h) \subseteq M!Held(h)'
          /\ \A h \in M!Hosts : M!Range(client_procs[h]) \subseteq M!Held(h)'
          /\ pid \in M!Held(here)'
      BY Zenon, <2>3, <2>5, <2>6 DEF M!Held
    <2> QED
      BY <1>0, <1>h, <2>2, <2>3, <2>4, <2>7, <2>8 DEF StartStep, p, M!Instance
  <1> QED
    BY Zenon, <1>1, <1>2, <1>3 DEF M!Kinds, M!Instance

(* The new process is one the loops are just passing.                      *)
LEMMA StartsInOrder ==
  ASSUME M!MininetAssumption, Typed, NEW kind \in M!Kinds, StartStep(kind),
         NEW p, p = M!Own(m_trial, host, kind)
  PROVE  /\ p \in M!Pid /\ p.trial = m_trial /\ p.host = host /\ ~ Begun(p) /\ Begun(p)'
         /\ \A q \in M!Pid : Begun(q) => Begun(q)'
  <1>0. /\ \A q \in M!Pid : q.host \in Nat /\ q.kind \in M!Kinds
        /\ host \in Nat /\ host \in M!Hosts /\ m_trial \in M!Trials
    BY Zenon, HostBounds DEF M!Pid, Typed
  <1>1. p \in M!Pid /\ p.host = host /\ p.kind = kind /\ p.trial = m_trial
    BY Zenon, <1>0 DEF M!Own, M!Pid
  <1>2. ~ Begun(p)
    BY <1>0, <1>1 DEF Begun, StartStep
  <1>3. Begun(p)'
    BY <1>0, <1>1 DEF Begun, StartStep
  <1>4. ASSUME NEW q \in M!Pid, Begun(q)
        PROVE  Begun(q)'
    BY <1>0, <1>4 DEF Begun, StartStep, M!Kinds
  <1> QED
    BY Zenon, <1>1, <1>2, <1>3, <1>4

-----------------------------------------------------------------------------
(* A pid is its trial, host and kind, and no file without one holds a pid. *)
LEMMA Pids ==
  /\ \A p, q \in M!Pid : p.trial = q.trial /\ p.host = q.host /\ p.kind = q.kind => p = q
  /\ \A p \in M!Pid : /\ p = M!Own(p.trial, p.host, p.kind) /\ <<p.host, p.kind>> \in M!Hosts \X M!Kinds
                      /\ p.trial \in M!Trials /\ p.host \in M!Hosts /\ p.kind \in M!Kinds
  /\ M!Torn \notin M!Pid /\ M!NoPid \notin M!Pid
  BY DEF M!Pid, M!Own, M!Torn, M!NoPid, M!Kinds

(* The results change only when they are collected and when they are       *)
(* added, and signals are sent before finally goes on to the next host.    *)
LEMMA DriverResults ==
  ASSUME DriverStep
  PROVE  /\ \/ UNCHANGED end_host_results
            \/ /\ M!Readable(<<host, "server">>)
               /\ end_host_results' = [end_host_results EXCEPT ![host] =
                     [receiver |-> host_files[<<host, "server">>], sender |-> M!get_sender_results(host),
                      written |-> M!Written(host)]]
         /\ UNCHANGED recorded \/ recorded' = [recorded EXCEPT ![m_trial] = end_host_results]
         /\ signalled \subseteq signalled'
         /\ (m_pc' = "destroy" /\ host' # 0) \/ m_pc' = "next" => M!disconnect
  <1> USE DEF M!driver, M!procs
  <1>1. CASE Quiet
    BY Zenon, <1>1 DEF Quiet, M!Raise, M!create_mininet_hosts, M!ConfigureFlows, M!NoClients, M!Sleep,
       M!NoReceiverFile, M!DestroyRaises
  <1>2. CASE Signals
    BY Zenon, <1>2 DEF Signals, M!stop_traffic_generation_client, M!stop_traffic_generation_server,
       M!disconnect, M!NextHost, M!kill
  <1>3. CASE M!collect_end_host_results
    BY Zenon, <1>3 DEF M!collect_end_host_results, M!NextHost
  <1>4. CASE M!AddResults
    BY Zenon, <1>4 DEF M!AddResults
  <1> QED
    BY Zenon, <1>1, <1>2, <1>3, <1>4 DEF DriverStep

(* Every step keeps the types; the pid lists hold pids.                    *)
LEMMA TypedKept ==
  ASSUME M!MininetAssumption, Typed,
         \/ DriverStep \/ M!NextTrial \/ \E kind \in M!Kinds : StartStep(kind)
         \/ \E p \in alive : M!ComeUp(p) \/ M!Die(p) \/ M!OpenFile(p) \/ M!Dump(p)
  PROVE  Typed'
  <1>1. CASE DriverStep
    BY Zenon, <1>1, DriverMoves, DriverResults DEF Typed
  <1>2. CASE M!NextTrial
      BY <1>2, HostBounds DEF M!NextTrial, M!procs, Typed, M!Trials, M!MininetAssumption, M!NoResults
  <1>3. ASSUME NEW kind \in M!Kinds, StartStep(kind)
        PROVE  Typed'
      BY Zenon, <1>3, StartsInOrder DEF StartStep, Typed
  <1>4. ASSUME NEW p \in alive, M!ComeUp(p) \/ M!Die(p) \/ M!OpenFile(p) \/ M!Dump(p)
        PROVE  Typed'
    BY Zenon, <1>4, ProcessMoves DEF Typed
  <1> QED
    BY Zenon, <1>1, <1>2, <1>3, <1>4

(* A process that lives, or has written, was started by this trial's loops *)
(* or by an earlier trial.                                                 *)
LEMMA StartedKept ==
  ASSUME M!MininetAssumption, Typed, Started,
         \/ DriverStep \/ M!NextTrial \/ \E kind \in M!Kinds : StartStep(kind)
         \/ \E p \in alive : M!ComeUp(p) \/ M!Die(p) \/ M!OpenFile(p) \/ M!Dump(p)
  PROVE  Started'
  <1>0. m_trial \in Nat /\ \A p \in alive \cup dumped : p \in M!Pid /\ p.trial \in Nat
    <2>1. \A t \in M!Trials : t \in Nat
      BY DEF M!Trials
    <2> QED
      BY Zenon, <2>1, Pids DEF Typed
  <1>1. CASE DriverStep
    BY Zenon, <1>0, <1>1, DriverMoves DEF Started
  <1>2. CASE M!NextTrial
      BY <1>2, <1>0 DEF M!NextTrial, M!procs, Started
  <1>3. ASSUME NEW kind \in M!Kinds, StartStep(kind)
        PROVE  Started'
    <2>1. PICK p : p = M!Own(m_trial, host, kind)
      OBVIOUS
    <2>2. p.trial = m_trial /\ Begun(p)' /\ \A q \in M!Pid : Begun(q) => Begun(q)'
      BY Zenon, <1>3, <2>1, StartsInOrder
    <2>3. alive' = alive \cup {p} /\ UNCHANGED <<m_trial, dumped>>
      BY Zenon, <1>3, <2>1 DEF StartStep
    <2>4. m_trial <= m_trial
      BY <1>0
    <2> QED
      BY Zenon, <1>0, <2>2, <2>3, <2>4 DEF Started
  <1>4. ASSUME NEW p \in alive, M!ComeUp(p) \/ M!Die(p) \/ M!OpenFile(p) \/ M!Dump(p)
        PROVE  Started'
    <2>1. UNCHANGED <<m_trial, m_pc, host>> /\ alive' \cup dumped' \subseteq alive \cup dumped
      BY Zenon, <1>4, ProcessMoves
    <2> QED
      BY Zenon, <2>1 DEF Started, Begun
  <1> QED
    BY Zenon, <1>1, <1>2, <1>3, <1>4

(* Every living process whose pid was not lost is on one of the lists that *)
(* finally goes through, or has been signalled.                            *)
LEMMA TrackedKept ==
  ASSUME M!MininetAssumption, Typed, Started, Tracked,
         \/ DriverStep \/ M!NextTrial \/ \E kind \in M!Kinds : StartStep(kind)
         \/ \E p \in alive : M!ComeUp(p) \/ M!Die(p) \/ M!OpenFile(p) \/ M!Dump(p)
  PROVE  Tracked'
  <1>0. \A p \in alive : p \in M!Pid /\ p.host \in M!Hosts /\ p.host \in Nat /\ p.host <= M!LastHost
    BY Zenon, Pids, HostBounds DEF Typed
  <1>1. CASE DriverStep
    <2>1. UNCHANGED <<m_trial, server_proc, client_procs, alive, lost>> /\ signalled \subseteq signalled'
      BY Zenon, <1>1, DriverMoves, DriverResults
    <2>2. \A h : M!Held(h)' = M!Held(h)
      BY Zenon, <2>1 DEF M!Held, M!Range
    <2>3. ASSUME NEW p \in alive \ lost, (m_pc' = "destroy" /\ p.host < host') \/ m_pc' = "next"
          PROVE  p \in signalled'
      <3>1. M!disconnect
        BY SMTT(45), <1>0, <1>1, <2>3, DriverResults
      <3>2. /\ m_pc = "destroy" /\ signalled' = signalled \cup (M!Held(host) \cap alive)
            /\ \/ host < M!LastHost /\ host' = host + 1 /\ m_pc' = m_pc
               \/ ~ (host < M!LastHost) /\ m_pc' = "next"
        BY Zenon, <3>1 DEF M!disconnect, M!kill, M!NextHost
      <3>3. host \in Nat /\ host <= M!LastHost /\ M!LastHost \in Int
        BY SMTT(45), HostBounds DEF Typed, M!LastHost, M!MininetAssumption
      <3>4. p.host < host \/ p.host = host
        BY <1>0, <2>3, <3>2, <3>3
      <3> QED
        BY Zenon, <3>2, <3>4 DEF Tracked
    <2> QED
      BY Zenon, <2>1, <2>2, <2>3 DEF Tracked
  <1>2. CASE M!NextTrial
      BY Zenon, <1>2 DEF M!NextTrial, M!procs, Tracked
  <1>3. ASSUME NEW kind \in M!Kinds, StartStep(kind)
        PROVE  Tracked'
    <2>1. PICK p : p = M!Own(m_trial, host, kind)
      OBVIOUS
    <2>2. p \in M!Pid /\ p.trial = m_trial /\ p.host = host
      BY Zenon, <1>3, <2>1, StartsInOrder
    <2>3. /\ alive' = alive \cup {p} /\ lost \subseteq lost' /\ m_trial' = m_trial
          /\ p \in lost' \/ p \in M!Held(p.host)'
          /\ m_pc' # "next" /\ (m_pc' = "destroy" => host' = 0)
      BY SMTT(30), <1>3, <2>1, <2>2 DEF StartStep
    <2>4. ASSUME NEW q \in alive \ lost
          PROVE  q \in M!Held(q.host)'
      <3>1. /\ q \in M!Held(q.host) /\ q.host \in M!Hosts /\ q.host \in Nat
            /\ Begun(q)
        BY Zenon, <1>0 DEF Tracked, Started
      <3>2. ASSUME q.host = host, kind = "server" PROVE FALSE
        <4>1. q.host < q.host
          BY Zenon, <1>3, <3>1, <3>2 DEF StartStep, Begun
        <4> QED
          BY <3>1, <4>1
      <3> QED
        BY Zenon, <1>3, <3>1, <3>2 DEF StartStep
    <2>5. \A q \in alive \cup {p} : ~ (q.host < 0)
      BY SMTT(45), <1>0, <2>2, HostBounds DEF Typed
    <2> QED
      BY Zenon, <2>2, <2>3, <2>4, <2>5 DEF Tracked
  <1>4. ASSUME NEW p \in alive, M!ComeUp(p) \/ M!Die(p) \/ M!OpenFile(p) \/ M!Dump(p)
        PROVE  Tracked'
    <2>1. /\ UNCHANGED <<m_trial, m_pc, host, server_proc, client_procs, lost>> /\ alive' \subseteq alive
          /\ \A q \in alive' : q \in signalled => q \in signalled'
      BY Zenon, <1>4, ProcessMoves
    <2>2. \A h : M!Held(h)' = M!Held(h)
      BY Zenon, <2>1 DEF M!Held, M!Range
    <2> QED
      BY Zenon, <2>1, <2>2 DEF Tracked
  <1> QED
    BY Zenon, <1>1, <1>2, <1>3, <1>4

(* A file a process of this trial has written holds its results still:     *)
(* only a lost process can overwrite it.                                   *)
LEMMA FreshKept ==
  ASSUME M!MininetAssumption, Typed, Started, Tracked, Fresh,
         \/ DriverStep \/ M!NextTrial \/ \E kind \in M!Kinds : StartStep(kind)
         \/ \E p \in alive : M!ComeUp(p) \/ M!Die(p) \/ M!OpenFile(p) \/ M!Dump(p)
  PROVE  Fresh'
  <1>1. CASE DriverStep
    BY Zenon, <1>1, DriverMoves DEF Fresh
  <1>2. CASE M!NextTrial
    <2>1. m_trial' = m_trial + 1 /\ UNCHANGED dumped
      BY Zenon, <1>2 DEF M!NextTrial, M!procs
    <2>2. m_trial \in Nat /\ \A p \in dumped : p.trial <= m_trial /\ p.trial \in Nat
      <3>1. \A t \in M!Trials : t \in Nat
        BY SMTT(45) DEF M!Trials, M!MininetAssumption
      <3> QED
        BY Zenon, <3>1, Pids DEF Started, Typed
    <2> QED
      BY SMTT(45), <2>1, <2>2 DEF Fresh
  <1>3. ASSUME NEW kind \in M!Kinds, StartStep(kind)
        PROVE  Fresh'
      BY Zenon, <1>3, StartsInOrder DEF StartStep, Started, Fresh
  <1>4. ASSUME NEW p \in alive, M!ComeUp(p) \/ M!Die(p) \/ M!OpenFile(p) \/ M!Dump(p)
        PROVE  Fresh'
    <2> DEFINE f(q) == <<q.host, q.kind>>
    <2>1. /\ m_trial' = m_trial /\ lost' = lost /\ alive' \subseteq alive
          /\ \/ host_files' = host_files /\ dumped' = dumped
             \/ host_files' = [host_files EXCEPT ![f(p)] = M!Torn] /\ dumped' = dumped
             \/ host_files' = [host_files EXCEPT ![f(p)] = p] /\ dumped' = dumped \cup {p} /\ p \notin alive'
      BY Zenon, <1>4, ProcessMoves
    <2>2. p \in M!Pid /\ f(p) \in DOMAIN host_files
      BY Zenon, Pids DEF Typed
    <2>3. ASSUME NEW q \in dumped, q.trial = m_trial
          PROVE  q \notin alive' /\ host_files'[f(q)] \in {q, M!Torn} \cup lost
      <3>1. q \notin alive /\ host_files[f(q)] \in {q, M!Torn} \cup lost /\ q \in M!Pid /\ f(q) \in DOMAIN host_files
        BY Zenon, <2>3, Pids DEF Fresh, Typed
      <3>2. CASE f(q) = f(p)
          BY <2>2, <2>3, <3>1, <3>2, Pids, <2>1 DEF Tracked
      <3>3. CASE f(q) # f(p)
          BY Zenon, <2>1, <3>1, <3>3
      <3> QED
        BY Zenon, <3>2, <3>3
    <2>4. p \in dumped' /\ p \notin dumped => p \notin alive' /\ host_files'[f(p)] = p
      BY Zenon, <2>1, <2>2
    <2>5. dumped' \subseteq dumped \cup {p}
      BY Zenon, <2>1
    <2> QED
      BY Zenon, <2>1, <2>3, <2>4, <2>5 DEF Fresh
  <1> QED
    BY Zenon, <1>1, <1>2, <1>3, <1>4

(* What is collected is this trial's own where it had been written.        *)
LEMMA OwnCollected ==
  ASSUME Typed, Fresh, M!Readable(<<host, "server">>), NEW r,
         r = [receiver |-> host_files[<<host, "server">>], sender |-> M!get_sender_results(host),
              written |-> M!Written(host)]
  PROVE  OwnResult(m_trial, host, r)
    BY Pids DEF M!Written, Typed, Fresh, M!Readable, M!get_sender_results, M!SenderFiles, OwnResult

(* Collected and recorded results of a host were this trial's own where    *)
(* they had been written.                                                  *)
LEMMA ResultsKept ==
  ASSUME M!MininetAssumption, Typed, Fresh, Collected, Recorded,
         \/ DriverStep \/ M!NextTrial \/ \E kind \in M!Kinds : StartStep(kind)
         \/ \E p \in alive : M!ComeUp(p) \/ M!Die(p) \/ M!OpenFile(p) \/ M!Dump(p)
  PROVE  Collected' /\ Recorded'
  <1>1. lost \subseteq lost'
      BY Zenon, DriverMoves, ProcessMoves DEF M!NextTrial, StartStep
  <1>2. \A t, h, r : OwnResult(t, h, r) => OwnResult(t, h, r)'
    BY <1>1 DEF OwnResult, M!Own
  <1>3. Collected'
    <2>1. CASE DriverStep
      <3>0. m_trial' = m_trial /\ host \in M!Hosts
        BY Zenon, <2>1, DriverMoves DEF Typed
      <3> SUFFICES ASSUME NEW h \in M!Hosts
                   PROVE  \A t : t = m_trial => OwnResult(t, h, end_host_results'[h])
        BY Zenon, <1>2, <3>0 DEF Collected
      <3>1. OwnResult(m_trial, h, end_host_results[h])
        BY Zenon DEF Collected
      <3>2. CASE end_host_results'[h] = end_host_results[h]
        BY Zenon, <3>1, <3>2
      <3>3. CASE end_host_results'[h] # end_host_results[h]
          BY Zenon, <2>1, <3>3, DriverResults, OwnCollected DEF Typed
      <3> QED
        BY Zenon, <3>2, <3>3
    <2>2. CASE M!NextTrial
      BY Zenon, <2>2 DEF M!NextTrial, M!NoResults, Collected, OwnResult
    <2>3. CASE \E kind \in M!Kinds : StartStep(kind)
        BY Zenon, <2>3, <1>2 DEF StartStep, Collected
    <2>4. CASE \E p \in alive : M!ComeUp(p) \/ M!Die(p) \/ M!OpenFile(p) \/ M!Dump(p)
        BY Zenon, <2>4, ProcessMoves, <1>2 DEF Collected
    <2> QED
      BY Zenon, <2>1, <2>2, <2>3, <2>4
  <1>4. Recorded'
      BY Zenon, ProcessMoves, DriverResults, <1>2 DEF M!NextTrial, StartStep, Typed, Recorded,
         Collected
  <1> QED
    BY Zenon, <1>3, <1>4

(* Results of another trial are recorded only in place of a file that had  *)
(* not been written when it was read, or through a process whose pid was   *)
(* lost: finally has signalled every other process before the next trial.  *)
THEOREM OwnResults ==
  ASSUME M!MininetAssumption
  PROVE  M!Spec => []OwnUnlessUnwritten
  <1>1. M!Init => MInv
    <2> SUFFICES ASSUME M!Init PROVE MInv
      OBVIOUS
    <2>1. Typed
      BY SMTT(30), HostBounds DEF M!Init, Typed, M!NoResults, M!Trials, M!MininetAssumption
    <2>2. Started /\ Tracked /\ Fresh
      BY Zenon DEF M!Init, Started, Tracked, Fresh
    <2>3. Collected /\ Recorded
      BY Zenon DEF M!Init, M!NoResults, Collected, Recorded, OwnResult
    <2> QED
      BY Zenon, <2>1, <2>2, <2>3 DEF MInv
  <1>2. MInv /\ [M!Next]_M!vars => MInv'
    <2> SUFFICES ASSUME MInv, [M!Next]_M!vars PROVE MInv'
      OBVIOUS
    <2>1. CASE UNCHANGED M!vars
      <3>1. UNCHANGED <<m_trial, m_pc, host, server_proc, client_procs, alive, ready, signalled, host_files,
                        dumped, end_host_results, recorded, lost>>
        BY Zenon, <2>1 DEF M!vars, M!driver, M!procs
      <3>2. Typed' /\ Started' /\ Fresh'
        BY Zenon, <3>1 DEF MInv, Typed, Started, Begun, Fresh
      <3>3. Tracked'
        <4>1. \A h : M!Held(h)' = M!Held(h)
          BY Zenon, <3>1 DEF M!Held, M!Range
        <4> QED
          BY Zenon, <3>1, <4>1 DEF MInv, Tracked
      <3>4. Collected' /\ Recorded'
        BY Zenon, <3>1 DEF MInv, Collected, Recorded, OwnResult, M!Own
      <3> QED
        BY Zenon, <3>2, <3>3, <3>4 DEF MInv
    <2>2. CASE ~ UNCHANGED M!vars
        BY Zenon, <2>2, StartMoves, TypedKept, StartedKept, TrackedKept, FreshKept, ResultsKept DEF
           M!Done, MInv, M!Next, M!Driver, M!Processes, DriverStep, Quiet, Signals
    <2> QED
      BY Zenon, <2>1, <2>2
  <1>3. MInv => OwnUnlessUnwritten
    BY Zenon DEF MInv, Recorded, OwnResult, OwnUnlessUnwritten, M!OwnUnlessUnwritten, M!HasResults
  <1> QED
    BY <1>1, <1>2, <1>3, PTL DEF M!Spec

-----------------------------------------------------------------------------
(* The results of the solver. Both programs name the files of a request    *)
(* after their seed, and the invariant follows the name from the file to   *)
(* the result that is kept.                                                *)
Filed ==
  /\ DOMAIN s_pc = V!Programs
  /\ DOMAIN result = V!Programs /\ DOMAIN idx = V!Programs /\ DOMAIN asked = V!Programs
  /\ \A file \in DOMAIN outputs : V!file_of(outputs[file].of) = file
  /\ \A p \in V!Programs : s_pc[p] = "keep" => V!file_of(result[p].of) = V!file_of(V!request(p))
  /\ \A r \in DOMAIN kept : V!file_of(kept[r].of) = V!file_of(r)

(* Every file of the solver, every result read from one and every result   *)
(* kept belongs to the program and seed in its name.                       *)
LEMMA FiledKept ==
  ASSUME Filed, [V!Next]_V!vars
  PROVE  Filed'
  <1>1. CASE V!mp_routing_main \/ V!simulations_main
      BY <1>1 DEF V!mp_routing_main, V!simulations_main, V!Programs, V!Start, V!goto, Filed,
         V!request, V!file_of
  <1>2. ASSUME NEW p \in V!Programs, V!create_solver_cmd(p) \/ V!solver_fails(p) \/ V!finish(p)
        PROVE  Filed'
      BY Zenon, <1>2 DEF V!create_solver_cmd, V!solver_fails, V!finish, V!goto, Filed, V!request,
         V!file_of
  <1>3. ASSUME NEW p \in V!Programs, V!run_solver(p)
        PROVE  Filed'
    <2>1. PICK solved : /\ solved.of = params
                        /\ outputs' = V!Put(outputs, V!file_of(params), solved)
      BY Zenon, <1>3 DEF V!run_solver, V!Trial, V!Simulation
    <2>2. \A file \in DOMAIN outputs' : V!file_of(outputs'[file].of) = file
      BY Zenon, <2>1 DEF V!Put, Filed
    <2>3. UNCHANGED <<asked, idx, result, kept>> /\ s_pc' = [s_pc EXCEPT ![p] = "read"]
      BY Zenon, <1>3 DEF V!run_solver, V!goto
    <2> QED
      BY Zenon, <2>2, <2>3 DEF Filed, V!request, V!file_of
  <1>4. ASSUME NEW p \in V!Programs, V!invoke_solver_with_params(p)
        PROVE  Filed'
      BY Zenon, <1>4 DEF V!invoke_solver_with_params, V!goto, Filed, V!request, V!file_of
  <1>5. ASSUME NEW p \in V!Programs, V!write_trial_results(p)
        PROVE  Filed'
      BY <1>5 DEF V!write_trial_results, V!goto, V!request, Filed, V!Put, V!file_of
  <1>6. CASE V!AllRunsOver \/ UNCHANGED V!vars
    BY Zenon, <1>6 DEF V!AllRunsOver, V!vars, Filed, V!request, V!file_of
  <1> QED
    BY Zenon, <1>1, <1>2, <1>3, <1>4, <1>5, <1>6 DEF V!Next

(* Whatever the solver did and however the two programs overlap, a result  *)
(* that is kept is one of the same program and seed as its request.        *)
THEOREM ResultsOfTheirSeed == V!Spec => []StaleOnlyWithinSeed
  <1>1. V!Init => Filed
    BY DEF V!Init, Filed
  <1>2. Filed /\ [V!Next]_V!vars => Filed'
    BY Zenon, FiledKept
  <1>3. Filed => StaleOnlyWithinSeed
    BY Zenon DEF Filed, StaleOnlyWithinSeed, V!StaleOnlyWithinSeed, V!file_of
  <1> QED
    BY <1>1, <1>2, <1>3, PTL DEF V!Spec

=============================================================================
