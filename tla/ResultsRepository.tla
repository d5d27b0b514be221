------------------------- MODULE ResultsRepository -------------------------
(***************************************************************************)
(* The results repository (nw_control/results_repository.py) and the trial *)
(* providers kept in it (nw_control/trial_provider.py).  Programs run one  *)
(* after the other; each opens or creates the repository and writes either *)
(* a provider of trials or the result files of one trial.  The file system *)
(* outlives them: a program may be killed between any two of its steps, a  *)
(* file opened for writing being empty until its contents are written.     *)
(*                                                                         *)
(* A trial is a name, a number among the trials of that name in its        *)
(* provider (providers of repeated experiments give many trials one name)  *)
(* and the run that created it; the three stand for its random id: two     *)
(* trials have the same id only if they are the same trial.                *)
(***************************************************************************)
EXTENDS Integers, FiniteSets

CONSTANTS Repositories, \* (repository_name, schema) pairs programs ask for
          Providers,    \* output paths of providers
          Keys,         \* output paths of result files
          Files,        \* names of the result files of a trial
          Names,        \* trial names
          MaxCopies,    \* bound on the trials of one name in a provider
          MaxRuns       \* bound on the number of program runs

NoRepository == {"absent", "bare", "empty"}

ASSUME RepositoryAssumption ==
    /\ MaxRuns \in Nat \ {0} /\ MaxCopies \in Nat \ {0}
    /\ Repositories \cap NoRepository = {}
    /\ Files # {}

VARIABLES base,         \* base_path: absent, a directory without metadata, with an
                        \* empty metadata file, or a repository
          provider_file,\* provider -> "absent", "empty" or "full"
          trials,       \* provider -> the trials of its last completed dump, which are the
                        \* contents of a full file
          result_dirs,  \* the keys whose directory exists
          results,      \* key, file -> the run that wrote it (0: missing or empty)
          run,          \* number of runs started
          prog          \* the running program: where it is and what it was asked to do

providerVars == <<provider_file, trials>>
resultVars == <<result_dirs, results>>
files == <<base, providerVars, resultVars>>
vars == <<files, run, prog>>

Trial == Names \X (1 .. MaxCopies) \X (1 .. MaxRuns)
name(t) == t[1]
creator(t) == t[3]
names(S) == {name(t) : t \in S}
Idle == [at |-> "idle"]

Init ==
    /\ base = "absent"
    /\ provider_file = [p \in Providers |-> "absent"]
    /\ trials = [p \in Providers |-> {}]
    /\ result_dirs = {}
    /\ results = [k \in Keys |-> [f \in Files |-> 0]]
    /\ run = 0
    /\ prog = Idle

at(l) == prog.at = l
goto(l) == prog' = [prog EXCEPT !.at = l]
raise == goto("raised")

StartProvider(r, p, N, c, overwrite, merge) ==
    /\ at("idle") /\ run < MaxRuns
    /\ run' = run + 1
    /\ prog' = [at |-> "create", op |-> "provider", repo |-> r, out |-> p,
                trials |-> N \X (1 .. c) \X {run + 1}, overwrite |-> overwrite, merge |-> merge]
    /\ UNCHANGED files

StartRepublish(r, q, p) ==
    /\ at("idle") /\ run < MaxRuns
    /\ provider_file[q] = "full"
    /\ run' = run + 1
    /\ prog' = [at |-> "create", op |-> "provider", repo |-> r, out |-> p,
                trials |-> trials[q], overwrite |-> TRUE, merge |-> FALSE]
    /\ UNCHANGED files

StartResults(r, k, overwrite) ==
    /\ at("idle") /\ run < MaxRuns
    /\ run' = run + 1
    /\ prog' = [at |-> "create", op |-> "results", repo |-> r, out |-> k,
                todo |-> Files, overwrite |-> overwrite]
    /\ UNCHANGED files

repository_exists == base \notin {"absent", "bare"}

(* create_repository: an existing repository must be the one asked for (an *)
(* empty metadata file does not parse); otherwise mkdir, which raises if   *)
(* the directory is there, and then the metadata file.                     *)
create_repository ==
    /\ at("create")
    /\ IF repository_exists
       THEN /\ IF base = prog.repo THEN goto("ready") ELSE goto("refused")
            /\ UNCHANGED base
       ELSE IF base = "absent" THEN base' = "bare" /\ goto("metadata")
                               ELSE goto("refused") /\ UNCHANGED base
    /\ UNCHANGED <<providerVars, resultVars, run>>

OpenMetadata ==
    /\ at("metadata") /\ base = "bare"
    /\ base' = "empty"
    /\ UNCHANGED <<providerVars, resultVars, run, prog>>

WriteMetadata ==
    /\ at("metadata") /\ base = "empty"
    /\ base' = prog.repo
    /\ goto("ready")
    /\ UNCHANGED <<providerVars, resultVars, run>>

ExistingDropped(existing) == prog.trials  \* mutant: nothing is added
Merged(existing) ==
    {t \in existing : name(t) \notin names(prog.trials)} \cup prog.trials

EmptyTakenAsAbsent ==  \* mutant: a file that cannot be loaded is written over
    /\ at("ready") /\ prog.op = "provider"
    /\ goto("open")
    /\ UNCHANGED <<files, run>>
write_trial_provider ==
    LET existing == trials[prog.out]
    IN  /\ at("ready") /\ prog.op = "provider"
        /\ IF provider_file[prog.out] = "absent" THEN goto("open")
           ELSE IF \/ provider_file[prog.out] = "empty"
                   \/ existing \cap prog.trials # {}
                   \/ names(existing) \cap names(prog.trials) # {} /\ ~prog.overwrite
           THEN raise
           ELSE prog' = [prog EXCEPT !.at = "open",
                                     !.trials = IF prog.merge THEN Merged(existing) ELSE @]
        /\ UNCHANGED <<files, run>>

OpenProvider ==
    /\ at("open")
    /\ provider_file' = [provider_file EXCEPT ![prog.out] = "empty"]
    /\ goto("dump")
    /\ UNCHANGED <<base, trials, resultVars, run>>

DumpProvider ==
    /\ at("dump")
    /\ provider_file' = [provider_file EXCEPT ![prog.out] = "full"]
    /\ trials' = [trials EXCEPT ![prog.out] = prog.trials]
    /\ goto("done")
    /\ UNCHANGED <<base, resultVars, run>>

(* write_trial_results: mkdir with exist_ok=overwrite, then file by file.  *)
ExistsAlwaysOk ==  \* mutant: exist_ok=True
    /\ at("ready") /\ prog.op = "results"
    /\ result_dirs' = result_dirs \cup {prog.out}
    /\ goto("write")
    /\ UNCHANGED <<base, providerVars, results, run>>
write_trial_results ==
    /\ at("ready") /\ prog.op = "results"
    /\ result_dirs' = result_dirs \cup {prog.out}
    /\ IF prog.out \in result_dirs /\ ~prog.overwrite THEN raise ELSE goto("write")
    /\ UNCHANGED <<base, providerVars, results, run>>

WriteFile(f) ==
    /\ at("write") /\ f \in prog.todo
    /\ results' = [results EXCEPT ![prog.out][f] = run]
    /\ prog' = [prog EXCEPT !.todo = @ \ {f}, !.at = IF prog.todo = {f} THEN "done" ELSE "write"]
    /\ UNCHANGED <<base, providerVars, result_dirs, run>>

(* The program ends, by returning or by its exception.                     *)
Exit ==
    /\ prog.at \in {"done", "raised", "refused"}
    /\ prog' = Idle
    /\ UNCHANGED <<files, run>>

(* The program is killed; a result file it had just opened is left empty.  *)
Crash ==
    /\ prog.at \notin {"idle", "done", "raised", "refused"}
    /\ prog' = Idle
    /\ \/ UNCHANGED results
       \/ /\ at("write")
          /\ \E f \in prog.todo : results' = [results EXCEPT ![prog.out][f] = 0]
    /\ UNCHANGED <<base, providerVars, result_dirs, run>>

Finished == at("idle") /\ run = MaxRuns /\ UNCHANGED vars

Start == \E r \in Repositories :
            \/ \E p \in Providers, N \in SUBSET Names, c \in 1 .. MaxCopies,
                  overwrite, merge \in BOOLEAN :
                  N # {} /\ StartProvider(r, p, N, c, overwrite, merge)
            \/ \E p, q \in Providers : p # q /\ StartRepublish(r, q, p)
            \/ \E k \in Keys, overwrite \in BOOLEAN : StartResults(r, k, overwrite)
Next == \/ Start \/ create_repository \/ OpenMetadata \/ WriteMetadata
        \/ write_trial_provider \/ OpenProvider \/ DumpProvider
        \/ write_trial_results \/ (\E f \in Files : WriteFile(f))
        \/ Exit \/ Crash \/ Finished

Spec == Init /\ [][Next]_vars
----------------------------------------------------------------------------
(* Every variable has its type.                                            *)
TypeOK ==
    /\ base \in NoRepository \cup Repositories
    /\ provider_file \in [Providers -> {"absent", "empty", "full"}]
    /\ trials \in [Providers -> SUBSET Trial]
    /\ result_dirs \subseteq Keys
    /\ results \in [Keys -> [Files -> 0 .. MaxRuns]]
    /\ run \in 0 .. MaxRuns

(* A write with merge_existing loses no name: a trial that was kept is     *)
(* still kept after it, or the new trial of the same name took its place,  *)
(* never the old ones beside the new: whatever runs, merges and kills came *)
(* before, the trials under one name were all made by one run.             *)
MergeKeepsNames ==
    [][\A p \in Providers : trials'[p] # trials[p] /\ prog.merge =>
          /\ names(trials[p]) \subseteq names(trials'[p])
          /\ \A t, u \in trials'[p] : name(t) = name(u) => creator(t) = creator(u)]_vars

Torn(p) == provider_file[p] = "empty" /\ ~(at("dump") /\ prog.out = p)

(* A kill between opening and dumping a provider is final: the trials that *)
(* were in the file are gone, every later write of that provider raises    *)
(* when it loads the empty file, and none ever fills it again.             *)
TornStaysTorn == [][\A p \in Providers : Torn(p) => Torn(p)']_vars

(* Result files of two runs are mixed under one key only by a run that     *)
(* asked to overwrite.                                                     *)
ResultsNotMixed ==
    [][\A k \in Keys : results'[k] # results[k] /\ ~prog.overwrite =>
          \A f \in Files : results[k][f] \in {0, run}]_vars
============================================================================
