--------------------------- MODULE ResultsProofs ----------------------------
(***************************************************************************)
(* Proofs about what is kept as results and what is computed from it: the  *)
(* results repository, for any programs, providers, keys, files and trial  *)
(* names, any number of runs, and kills between any two steps; the capture *)
(* analysis, for any capture; and the loss rates of the older trials, for  *)
(* any flows, reverse zones and missing files.                             *)
(*                                                                         *)
(* The repository's inductive invariant says what a program that got past  *)
(* its checks still knows about the files when it writes them.             *)
(***************************************************************************)
EXTENDS ResultsRepository, Measurements, Sequences, TLAPS

Places == {"create", "metadata", "ready", "open", "dump", "write", "done", "raised", "refused"}

ProviderProg == [at : Places \ {"write"}, op : {"provider"}, repo : Repositories, out : Providers,
                 trials : SUBSET Trial, overwrite : BOOLEAN, merge : BOOLEAN]
ResultsProg == [at : Places \ {"open", "dump"}, op : {"results"}, repo : Repositories, out : Keys,
                todo : SUBSET Files, overwrite : BOOLEAN]
Prog == ProviderProg \cup ResultsProg \cup {Idle}

(* The trials under one name were made by one run.                         *)
OneCreator(S) == \A t, u \in S : name(t) = name(u) => creator(t) = creator(u)

(* What is in a provider, or on its way into one.                          *)
ProvidersInv ==
    /\ \A p \in Providers : provider_file[p] = "absent" => trials[p] = {}
    /\ \A p \in Providers : OneCreator(trials[p])
    /\ prog \in ProviderProg => OneCreator(prog.trials)

(* A provider is opened only if it is whole or not there, and is empty     *)
(* until it is dumped; a merge has taken all its names along.              *)
WritingInv ==
    prog \in ProviderProg =>
        /\ prog.at = "open" => provider_file[prog.out] # "empty"
        /\ prog.at = "dump" => provider_file[prog.out] = "empty"
        /\ prog.at \in {"open", "dump"} /\ prog.merge =>
              names(trials[prog.out]) \subseteq names(prog.trials)

(* A key without a directory has no files; a run that does not overwrite   *)
(* found none, and has written those that are there.                       *)
ResultsInv ==
    /\ \A k \in Keys \ result_dirs : \A f \in Files : results[k][f] = 0
    /\ prog \in ResultsProg /\ prog.at = "write" =>
          /\ prog.out \in result_dirs
          /\ ~prog.overwrite => \A f \in Files : results[prog.out][f] \in {0, run}

Inv == TypeOK /\ prog \in Prog /\ ProvidersInv /\ WritingInv /\ ResultsInv
-----------------------------------------------------------------------------
(* A program is of one kind, and none is idle.                             *)
LEMMA Kinds ==
    /\ \A x \in ProviderProg : x.op = "provider" /\ x # Idle /\ x \notin ResultsProg
    /\ \A x \in ResultsProg : x.op = "results" /\ x # Idle /\ x \notin ProviderProg
    /\ Idle.at = "idle"
    /\ \A x \in ProviderProg \cup ResultsProg : x.at \in Places /\ x.at # "idle"
    BY DEF ProviderProg, ResultsProg, Idle, Places

(* A program that only moves on stays the program it is.                   *)
LEMMA GotoKeeps ==
    ASSUME NEW l \in Places, goto(l)
    PROVE  /\ prog \in ProviderProg /\ l # "write" =>
                 /\ prog' \in ProviderProg /\ prog'.at = l
                 /\ prog'.out = prog.out /\ prog'.trials = prog.trials
                 /\ prog'.overwrite = prog.overwrite /\ prog'.merge = prog.merge
           /\ prog \in ResultsProg /\ l \notin {"open", "dump"} =>
                 /\ prog' \in ResultsProg /\ prog'.at = l
                 /\ prog'.out = prog.out /\ prog'.todo = prog.todo
                 /\ prog'.overwrite = prog.overwrite
BY Zenon DEF goto, ProviderProg, ResultsProg, Places

(* The file system is empty and no program runs.                           *)
LEMMA InitInv ==
    ASSUME Init
    PROVE  Inv
    BY RepositoryAssumption, Kinds DEF Init, TypeOK, NoRepository, Prog, Inv, ProvidersInv,
       WritingInv, ResultsInv, OneCreator

(* Starting a program that writes a new provider, or one read elsewhere.   *)
LEMMA StartProviderInv ==
    ASSUME Inv, NEW r \in Repositories, NEW p \in Providers,
           NEW N \in SUBSET Names, NEW c \in 1 .. MaxCopies,
           NEW overwrite \in BOOLEAN, NEW merge \in BOOLEAN,
           StartProvider(r, p, N, c, overwrite, merge)
    PROVE  Inv'
<1>1. run \in Nat /\ run + 1 \in 1 .. MaxRuns /\ run' = run + 1
      BY RepositoryAssumption DEF Inv, TypeOK, StartProvider
<1>2. N \X (1 .. c) \X {run + 1} \in SUBSET Trial
      BY <1>1, RepositoryAssumption DEF Trial
<1>3. prog' = [at |-> "create", op |-> "provider", repo |-> r, out |-> p,
               trials |-> N \X (1 .. c) \X {run + 1}, overwrite |-> overwrite, merge |-> merge]
      BY Zenon DEF StartProvider
<1>4. /\ prog' \in ProviderProg /\ prog'.at = "create"
      /\ prog'.trials = N \X (1 .. c) \X {run + 1}
      BY Zenon, <1>2, <1>3 DEF ProviderProg, Places
<1>5. OneCreator(prog'.trials)
      BY Zenon, <1>4 DEF OneCreator, creator, name
<1>6. UNCHANGED <<base, provider_file, trials, result_dirs, results>>
      BY Zenon DEF StartProvider, files, providerVars, resultVars
<1>7. TypeOK'
      BY <1>1, <1>6, RepositoryAssumption DEF Inv, TypeOK
<1>8. ProvidersInv'
      BY Zenon, <1>5, <1>6 DEF Inv, ProvidersInv
<1>9. (WritingInv /\ ResultsInv)'
      BY Zenon, <1>4, <1>6, Kinds DEF Inv, WritingInv, ResultsInv
<1> QED BY Zenon, <1>4, <1>7, <1>8, <1>9 DEF Inv, Prog

(* A program that starts has not touched the file system.                  *)
LEMMA StartsInv ==
    ASSUME Inv, UNCHANGED files, run' \in 0 .. MaxRuns,
           prog' \in ProviderProg \cup ResultsProg, prog'.at = "create",
           prog' \in ProviderProg => OneCreator(prog'.trials)
    PROVE  Inv'
    BY Zenon DEF Inv, TypeOK, ProvidersInv, WritingInv, ResultsInv, Prog, files, providerVars,
       resultVars

(* A number of runs that has not reached its bound.                        *)
LEMMA OneMoreRun ==
    ASSUME Inv, run < MaxRuns, run' = run + 1
    PROVE  run' \in 0 .. MaxRuns
    BY RepositoryAssumption DEF Inv, TypeOK

(* A provider that was read from the repository is written elsewhere.      *)
LEMMA StartRepublishInv ==
    ASSUME Inv, NEW r \in Repositories, NEW p \in Providers, NEW q \in Providers,
           StartRepublish(r, q, p)
    PROVE  Inv'
<1>1. run < MaxRuns /\ run' = run + 1 /\ UNCHANGED files
      BY Zenon DEF StartRepublish
<1>2. trials[q] \in SUBSET Trial /\ OneCreator(trials[q])
      BY Zenon DEF Inv, TypeOK, ProvidersInv
<1>3. prog' \in ProviderProg /\ prog'.at = "create" /\ prog'.trials = trials[q]
      BY Zenon, <1>2 DEF StartRepublish, ProviderProg, Places
<1> QED BY Zenon, <1>1, <1>2, <1>3, OneMoreRun, StartsInv

(* Starting a program that writes the results of a trial.                  *)
LEMMA StartResultsInv ==
    ASSUME Inv, NEW r \in Repositories, NEW k \in Keys, NEW overwrite \in BOOLEAN,
           StartResults(r, k, overwrite)
    PROVE  Inv'
<1>1. run < MaxRuns /\ run' = run + 1 /\ UNCHANGED files
      BY Zenon DEF StartResults
<1>2. prog' \in ResultsProg /\ prog'.at = "create"
      BY Zenon DEF StartResults, ResultsProg, Places
<1> QED BY Zenon, <1>1, <1>2, OneMoreRun, StartsInv, Kinds

(* A program that goes on, or raises, without touching what is written.    *)
LEMMA MovesOn ==
    ASSUME Inv, prog # Idle, NEW l \in Places \ {"open", "dump", "write"}, goto(l),
           base' \in NoRepository \cup Repositories,
           UNCHANGED <<provider_file, trials, result_dirs, results, run>>
    PROVE  Inv'
<1>1. TypeOK'
      BY Zenon DEF Inv, TypeOK
<1>2. /\ prog' \in ProviderProg \cup ResultsProg /\ prog'.at = l
      /\ prog' \in ProviderProg => OneCreator(prog'.trials)
      BY Zenon, GotoKeeps, Kinds DEF Inv, Prog, ProvidersInv
<1>3. (ProvidersInv /\ WritingInv /\ ResultsInv)'
      BY Zenon, <1>2 DEF Inv, ProvidersInv, WritingInv, ResultsInv
<1> QED BY Zenon, <1>1, <1>2, <1>3 DEF Inv, Prog

(* Opening or creating the repository and its metadata.                    *)
LEMMA RepositoryInv ==
    ASSUME Inv, create_repository \/ WriteMetadata
    PROVE  Inv'
<1>1. prog # Idle /\ prog.repo \in Repositories
      BY Zenon, Kinds DEF create_repository, WriteMetadata, at, Inv, Prog, ProviderProg, ResultsProg
<1>2. UNCHANGED <<provider_file, trials, result_dirs, results, run>>
      BY Zenon DEF create_repository, WriteMetadata, providerVars, resultVars
<1>3. base' \in NoRepository \cup Repositories
      BY Zenon, <1>1 DEF create_repository, WriteMetadata, Inv, TypeOK, NoRepository
<1>4. \E l \in Places \ {"open", "dump", "write"} : goto(l)
      BY Zenon DEF create_repository, WriteMetadata, Places
<1> QED BY Zenon, <1>1, <1>2, <1>3, <1>4, MovesOn

(* Creating the metadata file.                                             *)
LEMMA OpenMetadataInv ==
    ASSUME Inv, OpenMetadata
    PROVE  Inv'
    BY Zenon DEF OpenMetadata, providerVars, resultVars, Inv, TypeOK, NoRepository, ProvidersInv,
       WritingInv, ResultsInv

(* The names kept by a merge, and that it mixes no two runs under one.     *)
LEMMA MergedNames ==
    ASSUME NEW existing \in SUBSET Trial, prog \in ProviderProg,
           OneCreator(existing), OneCreator(prog.trials)
    PROVE  /\ Merged(existing) \in SUBSET Trial
           /\ names(existing) \subseteq names(Merged(existing))
           /\ OneCreator(Merged(existing))
    BY DEF ProviderProg, Merged, names, OneCreator

(* Loading, checking and merging what the provider holds already.          *)
LEMMA WriteTrialProviderInv ==
    ASSUME Inv, write_trial_provider
    PROVE  Inv'
<1>1. prog \in ProviderProg /\ prog.out \in Providers
      BY Zenon, Kinds DEF Inv, Prog, ProviderProg, write_trial_provider, at
<1>2. UNCHANGED <<base, provider_file, trials, result_dirs, results, run>>
      BY Zenon DEF write_trial_provider, files, providerVars, resultVars
<1>3. CASE goto("raised")
    BY Zenon, <1>1, Kinds, <1>2, <1>3, MovesOn DEF Places, Inv, TypeOK
<1>4. CASE /\ provider_file[prog.out] # "empty"
           /\ prog' \in ProviderProg /\ prog'.at = "open" /\ prog'.out = prog.out
           /\ OneCreator(prog'.trials)
           /\ prog'.merge => names(trials[prog.out]) \subseteq names(prog'.trials)
    BY <1>2, <1>1, <1>4, Kinds DEF Inv, TypeOK, ProvidersInv, WritingInv, ResultsInv, Prog
<1>5. CASE provider_file[prog.out] = "absent"
    BY Zenon, <1>5, <1>1, GotoKeeps, <1>4 DEF write_trial_provider, Places, Inv, ProvidersInv,
       names
<1>6. CASE /\ provider_file[prog.out] \notin {"absent", "empty"}
           /\ prog' = [prog EXCEPT !.at = "open",
                         !.trials = IF prog.merge THEN Merged(trials[prog.out]) ELSE @]
    BY Zenon, <1>1, MergedNames, <1>6, <1>4 DEF Inv, TypeOK, ProvidersInv, ProviderProg, Places
<1>7. \/ provider_file[prog.out] = "absent"
      \/ goto("raised")
      \/ /\ provider_file[prog.out] \notin {"absent", "empty"}
         /\ prog' = [prog EXCEPT !.at = "open",
                       !.trials = IF prog.merge THEN Merged(trials[prog.out]) ELSE @]
      BY Zenon DEF write_trial_provider, raise
<1> QED BY Zenon, <1>3, <1>5, <1>6, <1>7

(* Opening the provider for writing, which empties it.                     *)
LEMMA OpenProviderInv ==
    ASSUME Inv, OpenProvider
    PROVE  Inv'
<1>1. prog \in ProviderProg /\ prog.out \in Providers /\ prog.at = "open"
      BY Zenon, Kinds DEF Inv, Prog, ProviderProg, ResultsProg, OpenProvider, at
<1>2. /\ UNCHANGED <<base, trials, result_dirs, results, run>>
      /\ provider_file' = [provider_file EXCEPT ![prog.out] = "empty"]
      BY Zenon DEF OpenProvider, resultVars
<1>3. /\ prog' \in ProviderProg /\ prog'.at = "dump" /\ prog'.out = prog.out
      /\ prog'.trials = prog.trials /\ prog'.merge = prog.merge
      BY Zenon, <1>1, GotoKeeps DEF OpenProvider, Places
<1>4. TypeOK'
      BY Zenon, <1>1, <1>2 DEF Inv, TypeOK
<1>5. /\ provider_file'[prog.out] = "empty"
      /\ \A p \in Providers \ {prog.out} : provider_file'[p] = provider_file[p]
      BY Zenon, <1>1, <1>2 DEF Inv, TypeOK
<1>6. ProvidersInv'
      BY Zenon, <1>1, <1>2, <1>3, <1>5 DEF Inv, ProvidersInv
<1>7. WritingInv'
      BY Zenon, <1>1, <1>2, <1>3, <1>5 DEF Inv, WritingInv
<1>8. ResultsInv'
      BY Zenon, <1>2, <1>3, Kinds DEF Inv, ResultsInv
<1> QED BY Zenon, <1>3, <1>4, <1>6, <1>7, <1>8 DEF Inv, Prog

(* Dumping the trials.                                                     *)
LEMMA DumpProviderInv ==
    ASSUME Inv, DumpProvider
    PROVE  Inv'
<1>1. prog \in ProviderProg /\ prog.out \in Providers /\ prog.at = "dump"
      BY Zenon, Kinds DEF Inv, Prog, ProviderProg, ResultsProg, DumpProvider, at
<1>2. /\ UNCHANGED <<base, result_dirs, results, run>>
      /\ provider_file' = [provider_file EXCEPT ![prog.out] = "full"]
      /\ trials' = [trials EXCEPT ![prog.out] = prog.trials]
      BY Zenon DEF DumpProvider, resultVars
<1>3. /\ prog' \in ProviderProg /\ prog'.at = "done" /\ prog'.out = prog.out
      /\ prog'.trials = prog.trials /\ prog'.merge = prog.merge
      BY Zenon, <1>1, GotoKeeps DEF DumpProvider, Places
<1>4. prog.trials \in SUBSET Trial
      BY Zenon, <1>1 DEF ProviderProg
<1>5. TypeOK'
      BY Zenon, <1>1, <1>2, <1>4 DEF Inv, TypeOK
<1>6. /\ provider_file'[prog.out] = "full" /\ trials'[prog.out] = prog.trials
      /\ \A p \in Providers \ {prog.out} :
            provider_file'[p] = provider_file[p] /\ trials'[p] = trials[p]
      BY Zenon, <1>1, <1>2 DEF Inv, TypeOK
<1>7. ProvidersInv'
      BY Zenon, <1>1, <1>3, <1>6 DEF Inv, ProvidersInv
<1>8. (WritingInv /\ ResultsInv)'
      BY Zenon, <1>2, <1>3, Kinds DEF Inv, WritingInv, ResultsInv
<1> QED BY Zenon, <1>3, <1>5, <1>7, <1>8 DEF Inv, Prog

(* Creating the directory of the results.                                  *)
LEMMA WriteTrialResultsInv ==
    ASSUME Inv, write_trial_results
    PROVE  Inv'
<1>1. prog \in ResultsProg /\ prog.out \in Keys
      BY Zenon, Kinds DEF Inv, Prog, ResultsProg, write_trial_results, at
<1>2. /\ UNCHANGED <<base, provider_file, trials, results, run>>
      /\ result_dirs' = result_dirs \cup {prog.out}
      BY Zenon DEF write_trial_results, providerVars
<1>3. /\ prog' \in ResultsProg /\ prog'.out = prog.out /\ prog'.overwrite = prog.overwrite
      /\ prog'.at = "write" => prog.out \notin result_dirs \/ prog.overwrite
      BY Zenon, <1>1, GotoKeeps DEF write_trial_results, raise, Places
<1>4. TypeOK'
      BY Zenon, <1>1, <1>2 DEF Inv, TypeOK
<1>5. (ProvidersInv /\ WritingInv)'
      BY Zenon, <1>2, <1>3, Kinds DEF Inv, ProvidersInv, WritingInv
<1>6. ResultsInv'
      BY Zenon, <1>1, <1>2, <1>3 DEF Inv, ResultsInv
<1> QED BY Zenon, <1>3, <1>4, <1>5, <1>6 DEF Inv, Prog

(* Writing one of the result files.                                        *)
LEMMA WriteFileInv ==
    ASSUME Inv, NEW f \in Files, WriteFile(f)
    PROVE  Inv'
<1>1. prog \in ResultsProg /\ prog.out \in Keys /\ prog.at = "write"
      BY Zenon, Kinds DEF Inv, Prog, ProviderProg, ResultsProg, WriteFile, at
<1>2. /\ UNCHANGED <<base, provider_file, trials, result_dirs, run>>
      /\ results' = [results EXCEPT ![prog.out][f] = run]
      BY Zenon DEF WriteFile, providerVars
<1>3. /\ prog' \in ResultsProg /\ prog'.out = prog.out /\ prog'.overwrite = prog.overwrite
      /\ prog'.at \in {"write", "done"}
      BY Zenon, <1>1 DEF WriteFile, ResultsProg, Places
<1>4. /\ results \in [Keys -> [Files -> 0 .. MaxRuns]] /\ run \in 0 .. MaxRuns
      /\ results'[prog.out] = [results[prog.out] EXCEPT ![f] = run]
      /\ \A k \in Keys \ {prog.out} : results'[k] = results[k]
      BY Zenon, <1>1, <1>2 DEF Inv, TypeOK
<1>5. TypeOK'
      BY Zenon, <1>1, <1>2, <1>4 DEF Inv, TypeOK
<1>6. (ProvidersInv /\ WritingInv)'
      BY Zenon, <1>2, <1>3, Kinds DEF Inv, ProvidersInv, WritingInv
<1>7. prog.out \in result_dirs
      BY Zenon, <1>1 DEF Inv, ResultsInv
<1>8. ResultsInv'
      BY <1>1, <1>2, <1>3, <1>4, <1>7 DEF Inv, ResultsInv
<1> QED BY Zenon, <1>3, <1>5, <1>6, <1>8 DEF Inv, Prog

(* The end of a program, and a kill.                                       *)
LEMMA EndInv ==
    ASSUME Inv, Exit \/ Crash
    PROVE  Inv'
<1>1. /\ prog' = Idle
      /\ UNCHANGED <<base, provider_file, trials, result_dirs, run>>
      BY Zenon DEF Exit, Crash, files, providerVars, resultVars
<1>2. prog' \notin ProviderProg /\ prog' \notin ResultsProg /\ prog' \in Prog
      BY Zenon, <1>1, Kinds DEF Prog
<1>3. /\ results' \in [Keys -> [Files -> 0 .. MaxRuns]]
      /\ \A k \in Keys, f \in Files : results'[k][f] \in {results[k][f], 0}
  <2>1. CASE UNCHANGED results
        BY Zenon, <2>1 DEF Inv, TypeOK
  <2>2. CASE at("write") /\ \E f \in prog.todo : results' = [results EXCEPT ![prog.out][f] = 0]
    <3>1. prog \in ResultsProg /\ prog.out \in Keys /\ prog.todo \subseteq Files
          BY Zenon, <2>2, Kinds DEF Inv, Prog, ProviderProg, ResultsProg, at
    <3>2. PICK f \in Files : results' = [results EXCEPT ![prog.out][f] = 0]
          BY Zenon, <2>2, <3>1
    <3>3. 0 \in 0 .. MaxRuns /\ results \in [Keys -> [Files -> 0 .. MaxRuns]]
          BY RepositoryAssumption DEF Inv, TypeOK
    <3> QED BY Zenon, <3>1, <3>2, <3>3
  <2> QED BY Zenon, <2>1, <2>2 DEF Exit, Crash, files, resultVars
<1>4. TypeOK'
      BY Zenon, <1>1, <1>3 DEF Inv, TypeOK
<1>5. (ProvidersInv /\ WritingInv /\ ResultsInv)'
      BY <1>1, <1>2, <1>3 DEF Inv, ProvidersInv, WritingInv, ResultsInv
<1> QED BY Zenon, <1>2, <1>4, <1>5 DEF Inv

(* A step in which nothing changes.                                        *)
LEMMA StutterInv ==
    ASSUME Inv, UNCHANGED vars
    PROVE  Inv'
BY DEF Inv, TypeOK, ProvidersInv, WritingInv, ResultsInv, vars, files, providerVars, resultVars

(* Every step keeps the invariant.                                         *)
LEMMA NextInv ==
    ASSUME Inv, [Next]_vars
    PROVE  Inv'
<1>1. CASE Start
      BY <1>1, StartProviderInv, StartRepublishInv, StartResultsInv DEF Start
<1>2. CASE create_repository \/ WriteMetadata
      BY Zenon, <1>2, RepositoryInv
<1>3. CASE OpenMetadata
      BY Zenon, <1>3, OpenMetadataInv
<1>4. CASE write_trial_provider
      BY Zenon, <1>4, WriteTrialProviderInv
<1>5. CASE OpenProvider \/ DumpProvider
      BY Zenon, <1>5, OpenProviderInv, DumpProviderInv
<1>6. CASE write_trial_results \/ \E f \in Files : WriteFile(f)
      BY Zenon, <1>6, WriteTrialResultsInv, WriteFileInv
<1>7. CASE Exit \/ Crash
      BY Zenon, <1>7, EndInv
<1>8. CASE UNCHANGED vars
      BY Zenon, <1>8, StutterInv
<1> QED BY Zenon, <1>1, <1>2, <1>3, <1>4, <1>5, <1>6, <1>7, <1>8 DEF Next, Finished

(* The invariant holds in every reachable state.                           *)
LEMMA Invariance == Spec => []Inv
BY InitInv, NextInv, PTL DEF Spec

-----------------------------------------------------------------------------
(* Every variable keeps its type.                                          *)
THEOREM TypeCorrect == Spec => []TypeOK
<1>1. Inv => TypeOK
      BY Zenon DEF Inv
<1> QED BY <1>1, Invariance, PTL

(* Only dump_trials changes the trials of a provider, and what it writes   *)
(* with merge_existing has every name that was there, each from one run.   *)
THEOREM MergesKeepNames == Spec => MergeKeepsNames
<1> DEFINE Kept == \A p \in Providers : trials'[p] # trials[p] /\ prog.merge =>
                      /\ names(trials[p]) \subseteq names(trials'[p])
                      /\ \A t, u \in trials'[p] : name(t) = name(u) => creator(t) = creator(u)
<1>1. ASSUME Inv, [Next]_vars PROVE [Kept]_vars
  <2>1. CASE UNCHANGED trials
        BY Zenon, <2>1
  <2>2. CASE DumpProvider
      BY <1>1, <2>2, Kinds DEF Inv, Prog, ProviderProg, ResultsProg, DumpProvider, at,
         TypeOK, WritingInv, ProvidersInv, OneCreator
  <2>3. UNCHANGED trials \/ DumpProvider
        BY Zenon, <1>1 DEF Next, Start, StartProvider, StartRepublish, StartResults, create_repository,
           OpenMetadata, WriteMetadata, write_trial_provider, OpenProvider, write_trial_results,
           WriteFile, Exit, Crash, Finished, vars, files, providerVars
  <2> QED BY Zenon, <2>1, <2>2, <2>3
<1> QED BY <1>1, Invariance, PTL DEF Spec, MergeKeepsNames

(* No program gets past loading a provider that a kill left empty, so none *)
(* ever opens or dumps it again.                                           *)
THEOREM TornForEver == Spec => TornStaysTorn
<1> DEFINE Stays == \A p \in Providers : Torn(p) => Torn(p)'
<1>1. ASSUME Inv, [Next]_vars PROVE [Stays]_vars
  <2>1. CASE OpenProvider
    <3>1. prog \in ProviderProg /\ prog.at = "open"
          BY Zenon, <1>1, <2>1, Kinds DEF Inv, Prog, ResultsProg, OpenProvider, at
    <3>2. provider_file[prog.out] # "empty" /\ prog'.out = prog.out
          BY Zenon, <1>1, <2>1, <3>1, GotoKeeps DEF Inv, WritingInv, OpenProvider, Places
    <3>3. \A p \in Providers \ {prog.out} : provider_file'[p] = provider_file[p]
          BY Zenon, <1>1, <2>1 DEF Inv, TypeOK, OpenProvider
    <3> QED BY Zenon, <3>2, <3>3 DEF Torn, at
  <2>2. CASE DumpProvider
    <3>1. prog \in ProviderProg /\ prog.at = "dump"
          BY Zenon, <1>1, <2>2, Kinds DEF Inv, Prog, ResultsProg, DumpProvider, at
    <3>2. prog'.at # "dump"
          BY Zenon, <2>2, <3>1, GotoKeeps DEF DumpProvider, Places
    <3>3. \A p \in Providers \ {prog.out} : provider_file'[p] = provider_file[p]
          BY Zenon, <1>1, <2>2 DEF Inv, TypeOK, DumpProvider
    <3> QED BY Zenon, <3>1, <3>2, <3>3 DEF Torn, at
  <2>3. CASE UNCHANGED provider_file /\ ~(prog'.at = "dump")
        BY Zenon, <2>3 DEF Torn, at
  <2>4. CASE UNCHANGED vars
        BY Zenon, <2>4 DEF vars
  <2>5. ASSUME Start PROVE UNCHANGED provider_file /\ ~(prog'.at = "dump")
        BY <2>5 DEF Start, StartProvider, StartRepublish, StartResults, files, providerVars
  <2>6. ASSUME create_repository \/ WriteMetadata \/ write_trial_provider \/ write_trial_results
        PROVE  UNCHANGED provider_file /\ ~(prog'.at = "dump")
    <3>1. prog \in ProviderProg \cup ResultsProg
          BY Zenon, <1>1, <2>6, Kinds DEF Inv, Prog, create_repository, WriteMetadata,
             write_trial_provider, write_trial_results, at
    <3>2. UNCHANGED provider_file
          BY Zenon, <2>6 DEF create_repository, WriteMetadata, write_trial_provider,
             write_trial_results, files, providerVars
    <3>3. ASSUME NEW l, goto(l), l # "dump" PROVE prog'.at # "dump"
          BY Zenon, <3>1, <3>3 DEF goto, ProviderProg, ResultsProg
    <3>4. ASSUME NEW S, prog' = [prog EXCEPT !.at = "open", !.trials = S] PROVE prog'.at # "dump"
          BY Zenon, <3>1, <3>4 DEF ProviderProg, ResultsProg
    <3>5. \/ \E l \in Places \ {"dump"} : goto(l)
          \/ \E S : prog' = [prog EXCEPT !.at = "open", !.trials = S]
          BY Zenon, <2>6 DEF create_repository, WriteMetadata, write_trial_provider,
             write_trial_results, raise, Places
    <3> QED BY Zenon, <3>2, <3>3, <3>4, <3>5
  <2>7. ASSUME NEW f \in Files, WriteFile(f) PROVE UNCHANGED provider_file /\ ~(prog'.at = "dump")
      BY Zenon, <1>1, <2>7, Kinds DEF Inv, Prog, ProviderProg, WriteFile, at, ResultsProg,
         providerVars
  <2>8. ASSUME Exit \/ Crash PROVE UNCHANGED provider_file /\ ~(prog'.at = "dump")
        BY Zenon, <2>8, Kinds DEF Exit, Crash, files, providerVars
  <2>9. CASE OpenMetadata
        BY Zenon, <2>9 DEF OpenMetadata, providerVars, Torn, at
  <2> QED BY <1>1, <2>1, <2>2, <2>3, <2>4, <2>5, <2>6, <2>7, <2>8, <2>9 DEF Next, Finished
<1> QED BY <1>1, Invariance, PTL DEF Spec, TornStaysTorn

(* write_trial_results writes beside the files of another run only when    *)
(* it was asked to overwrite.                                              *)
THEOREM RunsNotMixed == Spec => ResultsNotMixed
<1> DEFINE Unmixed == \A k \in Keys : results'[k] # results[k] /\ ~prog.overwrite =>
                         \A f \in Files : results[k][f] \in {0, run}
<1>1. ASSUME Inv, [Next]_vars PROVE [Unmixed]_vars
  <2>1. CASE UNCHANGED results
        BY Zenon, <2>1
  <2>2. CASE /\ at("write")
             /\ \E f \in Files, r \in {0, run} : results' = [results EXCEPT ![prog.out][f] = r]
    <3>1. prog \in ResultsProg /\ prog.at = "write"
          BY Zenon, <1>1, <2>2, Kinds DEF Inv, Prog, ProviderProg, at
    <3>2. \A k \in Keys \ {prog.out} : results'[k] = results[k]
          BY Zenon, <1>1, <2>2 DEF Inv, TypeOK
    <3> QED BY Zenon, <1>1, <3>1, <3>2 DEF Inv, ResultsInv
  <2>3. ASSUME NEW f \in Files, WriteFile(f) PROVE [Unmixed]_vars
        BY Zenon, <2>2, <2>3 DEF WriteFile
  <2>4. CASE Crash
      BY Zenon, <1>1, Kinds, <2>2, <2>1, <2>4 DEF Inv, Prog, ProviderProg, at, Places, ResultsProg,
         Crash
  <2>5. UNCHANGED results \/ Crash \/ \E f \in Files : WriteFile(f)
        BY Zenon, <1>1 DEF Next, Start, StartProvider, StartRepublish, StartResults, create_repository,
           OpenMetadata, WriteMetadata, write_trial_provider, OpenProvider, DumpProvider,
           write_trial_results, Exit, Finished, vars, files, resultVars
  <2> QED BY Zenon, <2>1, <2>3, <2>4, <2>5
<1> QED BY <1>1, Invariance, PTL DEF Spec, ResultsNotMixed

-----------------------------------------------------------------------------
(* The capture analysis.                                                   *)
Packet == [seq : Nat, share : 1 .. NumShares, port : Nat, time : Nat]

(* An observer is somewhere in a capture whose packets are in order.       *)
Walked ==
    /\ packets \in Seq(Packet) /\ sender_hop_times \in Seq(Nat)
    /\ \A i, j \in 1 .. Len(packets) : i <= j => packets[i].time <= packets[j].time
    /\ idx \in 0 .. Len(packets) /\ hops \in Nat
    /\ attacker \in {"fixed", "random", "perturbed", "synchronized"}
    /\ pc \in {"start", "walk", "raised", "done"}

(* What it captured in an interval came over K ports, in the current one   *)
(* over those it listens on.                                               *)
PortSets == C!kSubset(NumShares, C!ports)
Listening ==
    /\ pc = "start" => captured = {}
    /\ attacker # "synchronized" => \A c \in captured : c[2] \in Nat /\ c[2] <= hops
    /\ pc \in {"walk", "done"} /\ attacker # "synchronized" =>
          /\ ports_to_listen_on \in PortSets
          /\ \A c \in captured : c[2] = hops => packets[c[1]].port \in ports_to_listen_on
          /\ \A h \in Nat : \E L \in PortSets :
                \A c \in captured : c[2] = h => packets[c[1]].port \in L

(* The hops so far took their time before the interval started.            *)
shortest == 1 + IF attacker = "perturbed" THEN Timestep \div 2 ELSE Timestep
Spaced ==
    /\ pc = "start" => hops = 0
    /\ pc \in {"walk", "done"} /\ attacker \in {"random", "perturbed"} =>
          /\ Len(packets) > 0 /\ interval_start_time \in Nat
          /\ perturbation \in Int /\ shortest <= Timestep + perturbation + 1
          /\ hops * shortest <= interval_start_time - packets[1].time
          /\ interval_start_time <= packets[Len(packets)].time

InStep ==
    /\ attacker = "synchronized" => hops <= Len(sender_hop_times) /\ (idx = 0 => hops = 0)
    /\ C!InStepWithTheSender

(* The packets are those of a capture.                                     *)
LEMMA WalkedInitially ==
  ASSUME C!CaptureAssumption, C!Init
  PROVE  Walked /\ Listening /\ Spaced /\ InStep
  <1>1. PICK c \in Captures : packets = c.packets /\ sender_hop_times = c.hop_times
    BY Zenon DEF C!Init
  <1>2. /\ c.packets \in Seq(Packet) /\ c.hop_times \in Seq(Nat)
        /\ \A i, j \in 1 .. Len(c.packets) : i <= j => c.packets[i].time <= c.packets[j].time
    BY Zenon DEF C!CaptureAssumption, Packet
  <1>3. packets \in Seq(Packet) /\ sender_hop_times \in Seq(Nat)
    BY Zenon, <1>1, <1>2
  <1>4. Len(packets) \in Nat /\ Len(sender_hop_times) \in Nat
    BY <1>3
  <1>5. /\ idx = 0 /\ hops = 0 /\ captured = {} /\ pc = "start"
        /\ attacker \in {"fixed", "random", "perturbed", "synchronized"}
    BY Zenon DEF C!Init
  <1>6. Walked
    BY <1>1, <1>2, <1>3, <1>4, <1>5 DEF Walked
  <1>7. Listening /\ Spaced
    BY Zenon, <1>5 DEF Listening, Spaced
  <1>8. InStep
    BY <1>4, <1>5 DEF InStep, C!InStepWithTheSender
  <1> QED
    BY Zenon, <1>6, <1>7, <1>8

(* The three walks in one: the next packet is gone through, and heard only *)
(* if it came over a port listened on.                                     *)
LEMMA StepsOfAWalk ==
  ASSUME Walked,
         C!fixed_attacker \/ C!random_attacker \/ C!synchronized_random_attacker
  PROVE  /\ pc = "walk" /\ pc' = "walk" /\ idx' = idx + 1 /\ idx + 1 \in 1 .. Len(packets)
         /\ UNCHANGED <<attacker, packets, sender_hop_times>>
         /\ hops' \in {hops, hops + 1}
  <1>1. /\ pc = "walk" /\ pc' = "walk" /\ idx' = idx + 1 /\ idx < Len(packets)
        /\ UNCHANGED <<attacker, packets, sender_hop_times>>
        /\ hops' \in {hops, hops + 1}
    BY Zenon DEF C!fixed_attacker, C!random_attacker, C!synchronized_random_attacker, C!capture
  <1>2. Len(packets) \in Nat /\ idx \in 0 .. Len(packets)
    BY DEF Walked
  <1>3. idx + 1 \in 1 .. Len(packets)
    BY <1>1, <1>2
  <1> QED
    BY Zenon, <1>1, <1>3

LEMMA WalkedKept ==
  ASSUME Walked, [C!Next]_C!vars
  PROVE  Walked'
  <1>1. CASE UNCHANGED C!vars \/ C!Start \/ C!Finish
    <2>1. /\ UNCHANGED <<attacker, packets, sender_hop_times, idx, hops>>
          /\ pc' \in {pc, "walk", "raised", "done"}
      BY Zenon, <1>1 DEF C!vars, C!Start, C!Finish, C!capture
    <2> QED
      BY Zenon, <2>1 DEF Walked
  <1>2. CASE C!fixed_attacker \/ C!random_attacker \/ C!synchronized_random_attacker
    <2>1. /\ pc' = "walk" /\ idx' = idx + 1 /\ idx + 1 \in 1 .. Len(packets)
          /\ UNCHANGED <<attacker, packets, sender_hop_times>>
          /\ hops' \in {hops, hops + 1}
      BY Zenon, <1>2, StepsOfAWalk
    <2>2. Len(packets) \in Nat /\ hops \in Nat
      BY DEF Walked
    <2>3. idx' \in 0 .. Len(packets) /\ hops' \in Nat
      BY <2>1, <2>2
    <2> QED
      BY Zenon, <2>1, <2>3 DEF Walked
  <1> QED
    BY Zenon, <1>1, <1>2 DEF C!Next

LEMMA PortsKept ==
  ASSUME packets' = packets
  PROVE  PortSets' = PortSets
  <1>1. C!ports' = C!ports
    BY DEF C!ports
  <1> QED
    BY Zenon, <1>1 DEF PortSets

(* An observer never listens on other ports within an interval.            *)
LEMMA ListeningKept ==
  ASSUME Walked, Listening, [C!Next]_C!vars
  PROVE  Listening'
  <1>0. hops \in Nat
    BY Zenon DEF Walked
  <1>1. CASE UNCHANGED C!vars \/ C!Finish
    <2>1. UNCHANGED <<attacker, packets, captured, hops, ports_to_listen_on>>
      BY Zenon, <1>1 DEF C!vars, C!Finish, C!capture
    <2>2. pc' = pc \/ (pc = "walk" /\ pc' = "done")
      BY Zenon, <1>1 DEF C!vars, C!Finish, C!capture
    <2>3. PortSets' = PortSets
      BY Zenon, <2>1, PortsKept
    <2>4. pc' = "start" => pc = "start"
      BY <2>2
    <2>5. pc' \in {"walk", "done"} => pc \in {"walk", "done"}
      BY <2>2
    <2> QED
      BY Zenon, <2>1, <2>3, <2>4, <2>5 DEF Listening
  <1>2. CASE C!Start
    <2>1. /\ UNCHANGED <<attacker, packets, captured, hops>>
          /\ pc = "start" /\ captured = {} /\ pc' \in {"raised", "walk"}
          /\ pc' = "walk" => ports_to_listen_on' \in PortSets
      BY Zenon, <1>2 DEF C!Start, C!capture, C!choice, PortSets, Listening
    <2>2. PortSets' = PortSets
      BY Zenon, <2>1, PortsKept
    <2>3. pc' # "start" /\ (pc' \in {"walk", "done"} => pc' = "walk")
      BY <2>1
    <2> QED
      BY Zenon, <2>1, <2>2, <2>3 DEF Listening
  <1>3. CASE C!fixed_attacker \/ C!random_attacker
    <2>1. /\ pc = "walk" /\ pc' = "walk" /\ UNCHANGED <<attacker, packets>>
          /\ hops' \in {hops, hops + 1}
      BY Zenon, <1>3, StepsOfAWalk
    <2>2. PortSets' = PortSets
      BY Zenon, <2>1, PortsKept
    <2>3. /\ captured' = C!Heard(idx + 1, ports_to_listen_on, hops)
          /\ \/ hops' = hops /\ ports_to_listen_on' = ports_to_listen_on
             \/ hops' = hops + 1 /\ ports_to_listen_on' \in PortSets
          /\ attacker # "synchronized"
      <3>1. CASE C!fixed_attacker
        BY <3>1 DEF C!fixed_attacker
      <3>2. CASE C!random_attacker
        BY <3>2 DEF C!random_attacker, C!choice, PortSets
      <3> QED
        BY Zenon, <1>3, <3>1, <3>2
    <2>4. ASSUME NEW c \in captured'
          PROVE  c \in captured \/ (c[2] = hops /\ packets[c[1]].port \in ports_to_listen_on)
      <3>1. c \in captured \/ (c = <<idx + 1, hops>> /\ packets[idx + 1].port \in ports_to_listen_on)
        BY Zenon, <2>3 DEF C!Heard
      <3> QED
        BY <3>1
    <2>5. /\ \A c \in captured : c[2] \in Nat /\ c[2] <= hops
          /\ \A c \in captured : c[2] = hops => packets[c[1]].port \in ports_to_listen_on
          /\ ports_to_listen_on \in PortSets
          /\ \A h \in Nat : \E L \in PortSets :
                \A c \in captured : c[2] = h => packets[c[1]].port \in L
      BY Zenon, <2>1, <2>3 DEF Listening
    <2>6. \A c \in captured' : c[2] \in Nat /\ c[2] <= hops
      BY <1>0, <2>4, <2>5
    <2>7. \A c \in captured' : c[2] <= hops'
      BY <1>0, <2>1, <2>6
    <2>8. \A c \in captured' : c[2] = hops => packets[c[1]].port \in ports_to_listen_on
      BY Zenon, <2>4, <2>5
    <2>9. \A c \in captured' : c[2] = hops' => packets[c[1]].port \in ports_to_listen_on'
      <3>1. CASE hops' = hops /\ ports_to_listen_on' = ports_to_listen_on
        BY Zenon, <3>1, <2>8
      <3>2. CASE hops' = hops + 1
        BY <1>0, <3>2, <2>6
      <3> QED
        BY Zenon, <2>3, <3>1, <3>2
    <2>10. ASSUME NEW h \in Nat
           PROVE  \E L \in PortSets : \A c \in captured' : c[2] = h => packets[c[1]].port \in L
      <3>1. CASE h = hops
        BY Zenon, <3>1, <2>5, <2>8
      <3>2. CASE h # hops
        <4>1. PICK L \in PortSets : \A c \in captured : c[2] = h => packets[c[1]].port \in L
          BY Zenon, <2>5
        <4>2. \A c \in captured' : c[2] = h => packets[c[1]].port \in L
          BY Zenon, <3>2, <4>1, <2>4
        <4> QED
          BY Zenon, <4>2
      <3> QED
        BY Zenon, <3>1, <3>2
    <2>11. ports_to_listen_on' \in PortSets
      BY Zenon, <2>3, <2>5
    <2>12. pc' # "start" /\ attacker' # "synchronized"
      BY <2>1, <2>3
    <2> QED
      BY Zenon, <2>1, <2>2, <2>6, <2>7, <2>9, <2>10, <2>11, <2>12 DEF Listening
  <1>4. CASE C!synchronized_random_attacker
    <2>1. attacker = "synchronized" /\ attacker' = attacker /\ pc' = "walk"
      BY Zenon, <1>4, StepsOfAWalk DEF C!synchronized_random_attacker
    <2>2. attacker' = "synchronized" /\ pc' # "start"
      BY <2>1
    <2> QED
      BY Zenon, <2>2 DEF Listening
  <1> QED
    BY Zenon, <1>1, <1>2, <1>3, <1>4 DEF C!Next

(* Every hop of an observer with a timestep has its time.                  *)
LEMMA OneMore ==
  \A a, b, c, d, e \in Int : a * b <= c - d /\ b <= e - c => (a + 1) * b <= e - d
  <1> SUFFICES ASSUME NEW a \in Int, NEW b \in Int, NEW c \in Int, NEW d \in Int, NEW e \in Int,
                      a * b <= c - d, b <= e - c
               PROVE  (a + 1) * b <= e - d
    BY Zenon
  <1>1. a * b \in Int /\ (a + 1) * b = a * b + b
    OBVIOUS
  <1> QED
    BY <1>1

LEMMA TimesOfPackets ==
  ASSUME Walked
  PROVE  Len(packets) \in Nat /\ \A i \in 1 .. Len(packets) : packets[i].time \in Nat
  <1>1. packets \in Seq(Packet) /\ \A p \in Packet : p.time \in Nat
    BY Zenon DEF Walked, Packet
  <1> HIDE DEF Packet
  <1>2. Len(packets) \in Nat /\ \A i \in 1 .. Len(packets) : packets[i] \in Packet
    BY <1>1
  <1> QED
    BY Zenon, <1>1, <1>2

LEMMA Shortest ==
  ASSUME C!CaptureAssumption
  PROVE  /\ shortest \in Nat
         /\ \A d \in C!Perturbations : d \in Int /\ shortest <= Timestep + d + 1
  <1>1. Timestep \in Nat /\ Timestep % 2 = 0
    BY Zenon DEF C!CaptureAssumption
  <1>2. PICK half \in Nat : half = Timestep \div 2 /\ Timestep = half + half
    BY <1>1
  <1>3. shortest = 1 + IF attacker = "perturbed" THEN half ELSE Timestep
    BY Zenon, <1>2 DEF shortest
  <1>4. C!Perturbations = IF attacker = "perturbed" THEN - half .. half ELSE {0}
    BY Zenon, <1>2 DEF C!Perturbations
  <1> QED
    BY <1>1, <1>2, <1>3, <1>4

LEMMA SpacedKept ==
  ASSUME C!CaptureAssumption, C!Cardinality({}) = 0, Walked, Spaced, [C!Next]_C!vars
  PROVE  Spaced'
  <1>0. hops \in Nat /\ shortest \in Nat /\ Len(packets) \in Nat
    BY Zenon, Shortest, TimesOfPackets DEF Walked
  <1>1. CASE UNCHANGED C!vars \/ C!Finish \/ C!fixed_attacker \/ C!synchronized_random_attacker
    <2>1. UNCHANGED <<attacker, packets, interval_start_time, perturbation>>
      BY Zenon, <1>1 DEF C!vars, C!Finish, C!fixed_attacker, C!synchronized_random_attacker, C!capture
    <2>2. pc' = pc \/ (pc = "walk" /\ pc' = "done")
      BY Zenon, <1>1 DEF C!vars, C!Finish, C!fixed_attacker, C!synchronized_random_attacker, C!capture
    <2>3. hops' = hops \/ (attacker = "synchronized" /\ pc = "walk")
      BY Zenon, <1>1 DEF C!vars, C!Finish, C!fixed_attacker, C!synchronized_random_attacker, C!capture
    <2>4. shortest' = shortest
      BY Zenon, <2>1 DEF shortest
    <2>5. pc' = "start" => pc = "start" /\ hops' = hops
      BY <2>2, <2>3
    <2>6. pc' \in {"walk", "done"} /\ attacker' \in {"random", "perturbed"} =>
              pc \in {"walk", "done"} /\ hops' = hops
      BY <2>1, <2>2, <2>3
    <2> QED
      BY Zenon, <2>1, <2>4, <2>5, <2>6 DEF Spaced
  <1>2. CASE C!Start
    <2>1. /\ UNCHANGED <<attacker, packets, hops>> /\ pc = "start" /\ hops = 0
          /\ pc' \in {"raised", "walk"}
          /\ pc' = "walk" => /\ ~ (C!Cardinality(C!ports) < NumShares)
                             /\ interval_start_time' = packets[1].time
                             /\ perturbation' \in C!Perturbations
      BY <1>2 DEF C!Start, C!capture, Spaced
    <2>2. shortest' = shortest
      BY Zenon, <2>1 DEF shortest
    <2>3. CASE pc' = "raised"
      BY <2>3 DEF Spaced
    <2>4. CASE pc' = "walk"
      <3>1. C!ports # {}
        <4> SUFFICES ASSUME C!ports = {} PROVE FALSE
          OBVIOUS
        <4>1. C!Cardinality(C!ports) = 0
          BY Zenon
        <4> QED
          BY <2>1, <2>4, <4>1 DEF C!CaptureAssumption
      <3>2. Len(packets) > 0
        BY <1>0, <3>1 DEF C!ports, Walked
      <3>3. /\ packets[1].time \in Nat /\ packets[Len(packets)].time \in Nat
            /\ packets[1].time <= packets[Len(packets)].time
        BY <1>0, <3>2, TimesOfPackets DEF Walked
      <3>4. perturbation' \in Int /\ shortest <= Timestep + perturbation' + 1
        BY Zenon, <2>1, <2>4, Shortest
      <3>5. 0 * shortest <= packets[1].time - packets[1].time
        BY <1>0, <3>3
      <3>6. pc' # "start"
        BY <2>4
      <3> QED
        BY Zenon, <2>1, <2>2, <2>4, <3>2, <3>3, <3>4, <3>5, <3>6 DEF Spaced
    <2> QED
      BY Zenon, <2>1, <2>3, <2>4
  <1>3. CASE C!random_attacker
    <2>1. /\ pc = "walk" /\ pc' = "walk" /\ idx + 1 \in 1 .. Len(packets)
          /\ UNCHANGED <<attacker, packets>>
      BY Zenon, <1>3, StepsOfAWalk
    <2>2. attacker \in {"random", "perturbed"}
      BY Zenon, <1>3 DEF C!random_attacker
    <2>3. shortest' = shortest
      BY Zenon, <2>1 DEF shortest
    <2>4. /\ Len(packets) > 0 /\ interval_start_time \in Nat
          /\ perturbation \in Int /\ shortest <= Timestep + perturbation + 1
          /\ hops * shortest <= interval_start_time - packets[1].time
          /\ interval_start_time <= packets[Len(packets)].time
      BY <2>1, <2>2 DEF Spaced
    <2>5. pc' # "start"
      BY <2>1
    <2>6. CASE UNCHANGED <<hops, interval_start_time, perturbation>>
      BY Zenon, <2>1, <2>3, <2>4, <2>5, <2>6 DEF Spaced
    <2>7. CASE /\ packets[idx + 1].time - interval_start_time > Timestep + perturbation
               /\ hops' = hops + 1 /\ interval_start_time' = packets[idx + 1].time
               /\ perturbation' \in C!Perturbations
      <3>1. perturbation' \in Int /\ shortest <= Timestep + perturbation' + 1
        BY Zenon, <2>7, Shortest
      <3>2. /\ packets[1].time \in Nat /\ packets[idx + 1].time \in Nat
            /\ packets[idx + 1].time <= packets[Len(packets)].time
        BY <1>0, <2>1, <2>4, TimesOfPackets DEF Walked
      <3>3. Timestep \in Nat
        BY Zenon DEF C!CaptureAssumption
      <3>a. shortest <= packets[idx + 1].time - interval_start_time
        BY <1>0, <2>4, <2>7, <3>2, <3>3
      <3>4. (hops + 1) * shortest <= packets[idx + 1].time - packets[1].time
        BY <1>0, <2>4, <3>2, <3>a, OneMore
      <3> QED
        BY Zenon, <2>1, <2>3, <2>4, <2>5, <2>7, <3>1, <3>2, <3>4 DEF Spaced
    <2> QED
      BY Zenon, <1>3, <2>6, <2>7 DEF C!random_attacker, C!NewStart
  <1> QED
    BY Zenon, <1>1, <1>2, <1>3 DEF C!Next

(* Between a hop of the sender and the next there is a packet.             *)
PacketBetweenHops ==
    \A h \in 1 .. Len(sender_hop_times) - 1 : \E i \in DOMAIN packets :
        sender_hop_times[h] <= packets[i].time /\ packets[i].time < sender_hop_times[h + 1]

LEMMA InStepKept ==
  ASSUME Walked, InStep, [C!Next]_C!vars
  PROVE  InStep'
  <1>1. CASE ~ C!synchronized_random_attacker
    <2>1. CASE UNCHANGED C!vars \/ C!Start \/ C!Finish
      <3>1. UNCHANGED <<attacker, packets, sender_hop_times, idx, hops>>
        BY Zenon, <2>1 DEF C!vars, C!Start, C!Finish, C!capture
      <3> QED
        BY Zenon, <3>1 DEF InStep, C!InStepWithTheSender
    <2>2. CASE C!fixed_attacker \/ C!random_attacker
      <3>1. attacker' # "synchronized"
        BY <2>2 DEF C!fixed_attacker, C!random_attacker, C!capture
      <3> QED
        BY Zenon, <3>1 DEF InStep, C!InStepWithTheSender
    <2> QED
      BY Zenon, <1>1, <2>1, <2>2 DEF C!Next
  <1>2. CASE C!synchronized_random_attacker
    <2> DEFINE times == sender_hop_times
               next == packets[idx + 1].time
    <2>1. /\ idx' = idx + 1 /\ idx + 1 \in 1 .. Len(packets) /\ idx \in Nat /\ hops \in Nat
          /\ UNCHANGED <<packets, sender_hop_times>>
      <3>1. idx \in Nat /\ hops \in Nat
        BY DEF Walked
      <3> QED
        BY Zenon, <1>2, <3>1, StepsOfAWalk
    <2>2. /\ Len(packets) \in Nat /\ Len(times) \in Nat /\ DOMAIN packets = 1 .. Len(packets)
          /\ \A h \in 1 .. Len(times) : times[h] \in Nat
          /\ \A i \in 1 .. Len(packets) : packets[i].time \in Nat
          /\ \A i, j \in 1 .. Len(packets) : i <= j => packets[i].time <= packets[j].time
      <3>1. times \in Seq(Nat) /\ packets \in Seq(Packet)
        BY Zenon DEF Walked
      <3> HIDE DEF Packet
      <3>2. /\ Len(times) \in Nat /\ \A h \in 1 .. Len(times) : times[h] \in Nat
            /\ DOMAIN packets = 1 .. Len(packets)
        BY <3>1
      <3> QED
        BY Zenon, <3>2, TimesOfPackets DEF Walked
    <2>3. attacker = "synchronized"
      BY Zenon, <1>2 DEF C!synchronized_random_attacker
    <2>4. /\ hops <= Len(times) /\ (idx = 0 => hops = 0)
          /\ idx > 0 =>
                /\ hops > 0 => times[hops] <= packets[idx].time
                /\ PacketBetweenHops => \/ hops = Len(times)
                                        \/ packets[idx].time < times[hops + 1]
      BY Zenon, <2>3 DEF InStep, C!InStepWithTheSender, PacketBetweenHops
    <2>5. CASE hops < Len(times) /\ next >= times[hops + 1] /\ hops' = hops + 1
      <3>1. hops' <= Len(times) /\ hops' > 0 /\ times[hops'] <= next
        BY <2>1, <2>2, <2>5
      <3>2. ASSUME PacketBetweenHops, hops' # Len(times)
            PROVE  next < times[hops' + 1]
        <4>1. hops + 1 \in 1 .. Len(times) - 1 /\ hops' + 1 \in 1 .. Len(times)
          BY <2>1, <2>2, <2>5, <3>2
        <4>2. PICK i \in 1 .. Len(packets) :
                 times[hops + 1] <= packets[i].time /\ packets[i].time < times[hops + 1 + 1]
          BY Zenon, <2>2, <3>2, <4>1 DEF PacketBetweenHops
        <4>3. idx + 1 <= i
          <5>1. CASE idx = 0
            BY <5>1, <4>2
          <5>2. CASE idx > 0
            <6>1. packets[idx].time < times[hops + 1] /\ idx \in 1 .. Len(packets)
              BY <2>1, <2>2, <2>4, <2>5, <3>2, <5>2
            <6>2. packets[idx].time \in Nat /\ packets[i].time \in Nat
              BY Zenon, <2>2, <4>2, <6>1
            <6>3. times[hops + 1] \in Nat
              BY <2>2, <4>1
            <6>4. packets[idx].time < packets[i].time
              BY <4>2, <6>1, <6>2, <6>3
            <6>5. i <= idx => packets[i].time <= packets[idx].time
              BY Zenon, <2>2, <4>2, <6>1
            <6>6. ~ (i <= idx)
              BY <6>2, <6>4, <6>5
            <6> QED
              BY <2>1, <2>2, <4>2, <6>6
          <5> QED
            BY <2>1, <5>1, <5>2
        <4>4. next <= packets[i].time
          BY <2>1, <2>2, <4>2, <4>3
        <4> QED
          BY <2>1, <2>2, <2>5, <4>1, <4>2, <4>4
      <3>3. idx' # 0
        BY <2>1
      <3>4. PacketBetweenHops' <=> PacketBetweenHops
        BY Zenon, <2>1 DEF PacketBetweenHops
      <3> HIDE DEF times
      <3>5. hops' <= Len(times) /\ (idx' = 0 => hops' = 0)
        BY Zenon, <3>1, <3>3
      <3>6. PacketBetweenHops' => hops' = Len(times) \/ next < times[hops' + 1]
        BY Zenon, <3>2, <3>4
      <3> QED
        BY Zenon, <2>1, <3>1, <3>5, <3>6 DEF InStep, C!InStepWithTheSender, times, PacketBetweenHops
    <2>6. CASE ~ (hops < Len(times) /\ next >= times[hops + 1]) /\ hops' = hops
      <3>1. hops = Len(times) \/ next < times[hops + 1]
        BY <2>1, <2>2, <2>4, <2>6
      <3>2. hops > 0 => times[hops] <= next
        <4> SUFFICES ASSUME hops > 0 PROVE times[hops] <= next
          OBVIOUS
        <4>1. idx > 0 /\ idx \in 1 .. Len(packets) /\ hops \in 1 .. Len(times)
          BY <2>1, <2>2, <2>4
        <4>2. packets[idx].time <= next
          BY <2>1, <2>2, <4>1
        <4> QED
          BY <2>1, <2>2, <2>4, <4>1, <4>2
      <3>3. idx' # 0
        BY <2>1
      <3> QED
        BY Zenon, <2>1, <2>4, <2>6, <3>1, <3>2, <3>3 DEF InStep, C!InStepWithTheSender
    <2> QED
      BY Zenon, <1>2, <2>5, <2>6 DEF C!synchronized_random_attacker, C!SenderHopped
  <1> QED
    BY Zenon, <1>1, <1>2

-----------------------------------------------------------------------------
(* The statistics computed from the counts of generators and servers.      *)

(* A flow is known by the host and the port it is sent from.               *)
LEMMA OwnKeys ==
  ASSUME SP!StatsAssumption, NEW f \in StatFlows, NEW g \in StatFlows,
         f.src_port = g.src_port,
         SP!qualify_host_domain(f.src_host) = SP!qualify_host_domain(g.src_host)
  PROVE  f = g
  <1>1. f.src_host = g.src_host
    BY DEF SP!qualify_host_domain
  <1> QED
    BY Zenon, <1>1 DEF SP!StatsAssumption

LEMMA KeyParts ==
  \A a, b, c, d, e, f : <<a, b, c>> = <<d, e, f>> <=> a = d /\ b = e /\ c = f
  OBVIOUS

(* Where no host has the name of another, the ends that meet under a key   *)
(* are those of one flow, which has its own name.                          *)
LEMMA EndsMeet ==
  ASSUME SP!StatsAssumption, SP!NoneByAnothersName,
         NEW f \in SP!TxEntries, NEW g \in SP!RxEntries, SP!TxKey(ptr, f) = SP!RxKey(ptr, g)
  PROVE  f = g /\ SP!KnownByTheirNames(f) /\ SP!TxKey(ptr, f) = SP!OwnKey(f)
  <1> DEFINE Q(h) == SP!qualify_host_domain(h)
             H(ip) == SP!Hostname(ptr, ip)
  <1>1. /\ Q(f.src_host) = H(g.src_ip) /\ H(SP!Turned(f.dst_ip)) = Q(g.dst_host)
        /\ f.src_port = g.src_port
    BY Zenon, KeyParts DEF SP!TxKey, SP!RxKey
  <1>2. f.src_host = g.src_host
    BY Zenon, <1>1 DEF SP!NoneByAnothersName
  <1>3. f \in StatFlows /\ g \in StatFlows
    BY Zenon DEF SP!TxEntries, SP!RxEntries
  <1>4. f = g
    BY Zenon, <1>1, <1>2, <1>3 DEF SP!StatsAssumption
  <1>5. SP!KnownByTheirNames(f)
    BY Zenon, <1>1, <1>4 DEF SP!KnownByTheirNames
  <1>6. SP!TxKey(ptr, f) = SP!OwnKey(f)
    BY Zenon, <1>5 DEF SP!KnownByTheirNames, SP!TxKey, SP!OwnKey
  <1> QED
    BY Zenon, <1>4, <1>5, <1>6

LEMMA KnownEnds ==
  ASSUME NEW f, SP!KnownByTheirNames(f)
  PROVE  SP!TxKey(ptr, f) = SP!OwnKey(f) /\ SP!RxKey(ptr, f) = SP!OwnKey(f)
  BY Zenon DEF SP!KnownByTheirNames, SP!TxKey, SP!RxKey, SP!OwnKey

(* The dictionaries of that moment have what the property says.            *)
LEMMA LossOfThatMoment ==
  ASSUME SP!StatsAssumption, SP!NoneByAnothersName,
         loss_dict = SP!_mk_loss_dict(SP!_mk_tx_dict(ptr), SP!_mk_rx_dict(ptr))
  PROVE  LossOfItsOwnFlow
  <1>1. PICK tx, rx : tx = SP!_mk_tx_dict(ptr) /\ rx = SP!_mk_rx_dict(ptr)
    OBVIOUS
  <1>2. /\ DOMAIN loss_dict = DOMAIN tx \cap DOMAIN rx
        /\ \A k \in DOMAIN loss_dict : loss_dict[k] = [num |-> tx[k] - rx[k], den |-> tx[k]]
    BY Zenon, <1>1 DEF SP!_mk_loss_dict, SP!calc_pkt_loss
  <1>3. /\ DOMAIN tx = {SP!TxKey(ptr, f) : f \in SP!TxEntries}
        /\ \A k \in DOMAIN tx : tx[k] = pkt_count[CHOOSE f \in SP!TxEntries : SP!TxKey(ptr, f) = k]
    BY Zenon, <1>1 DEF SP!_mk_tx_dict
  <1>4. /\ DOMAIN rx = {SP!RxKey(ptr, f) : f \in SP!RxEntries}
        /\ \A k \in DOMAIN rx : rx[k] = received[CHOOSE f \in SP!RxEntries : SP!RxKey(ptr, f) = k]
    BY Zenon, <1>1 DEF SP!_mk_rx_dict
  <1> DEFINE Met == {f \in SP!TxEntries \cap SP!RxEntries : SP!KnownByTheirNames(f)}
  <1>5. ASSUME NEW k \in DOMAIN loss_dict
        PROVE  \E f \in Met : k = SP!OwnKey(f)
    <2>1. PICK f \in SP!TxEntries, g \in SP!RxEntries : k = SP!TxKey(ptr, f) /\ k = SP!RxKey(ptr, g)
      BY Zenon, <1>2, <1>3, <1>4
    <2>2. f = g /\ SP!KnownByTheirNames(f) /\ SP!TxKey(ptr, f) = SP!OwnKey(f)
      BY Zenon, <2>1, EndsMeet
    <2> QED
      BY Zenon, <2>1, <2>2
  <1>6. ASSUME NEW f \in Met
        PROVE  /\ SP!OwnKey(f) \in DOMAIN loss_dict
               /\ tx[SP!OwnKey(f)] = pkt_count[f] /\ rx[SP!OwnKey(f)] = received[f]
    <2> DEFINE k == SP!OwnKey(f)
               t == CHOOSE g \in SP!TxEntries : SP!TxKey(ptr, g) = k
               r == CHOOSE g \in SP!RxEntries : SP!RxKey(ptr, g) = k
    <2>1. SP!TxKey(ptr, f) = k /\ SP!RxKey(ptr, f) = k
      BY Zenon, KnownEnds
    <2>2. t \in SP!TxEntries /\ SP!TxKey(ptr, t) = k
      BY Zenon, <2>1
    <2>3. r \in SP!RxEntries /\ SP!RxKey(ptr, r) = k
      BY Zenon, <2>1
    <2>4. k \in DOMAIN tx /\ k \in DOMAIN rx
      BY Zenon, <1>3, <1>4, <2>1
    <2>5. tx[k] = pkt_count[t] /\ rx[k] = received[r]
      BY Zenon, <1>3, <1>4, <2>4
    <2> HIDE DEF t, r
    <2>6. t = f
      BY Zenon, <2>1, <2>2, EndsMeet
    <2>7. r = f
      BY Zenon, <2>1, <2>3, EndsMeet
    <2> QED
      BY Zenon, <1>2, <2>4, <2>5, <2>6, <2>7
  <1>7. DOMAIN loss_dict = {SP!OwnKey(f) : f \in Met}
    BY Zenon, <1>5, <1>6
  <1>8. ASSUME NEW f \in StatFlows, SP!OwnKey(f) \in DOMAIN loss_dict
        PROVE  loss_dict[SP!OwnKey(f)] = [num |-> pkt_count[f] - received[f], den |-> pkt_count[f]]
    <2>1. PICK g \in Met : SP!OwnKey(f) = SP!OwnKey(g)
      BY Zenon, <1>5, <1>8
    <2>2. g \in StatFlows
      BY Zenon DEF SP!TxEntries
    <2>3. /\ SP!qualify_host_domain(f.src_host) = SP!qualify_host_domain(g.src_host)
          /\ f.src_port = g.src_port
      BY Zenon, <2>1, KeyParts DEF SP!OwnKey
    <2>4. f = g
      BY Zenon, <2>2, <2>3, OwnKeys
    <2> QED
      BY Zenon, <1>2, <1>6, <1>8, <2>4
  <1> QED
    BY Zenon, <1>7, <1>8 DEF LossOfItsOwnFlow, SP!LossOfItsOwnFlow

(* Once they are computed, the loss rates are those of the counts.         *)
Computed ==
    step \in {"uplinks", "rates", "done"} =>
        loss_dict = SP!_mk_loss_dict(SP!_mk_tx_dict(ptr), SP!_mk_rx_dict(ptr))
counts == <<pkt_count, received, tx_files, rx_files, ptr, loss_dict>>

TxDict(entries, count, dns) ==
    [k \in {SP!TxKey(dns, f) : f \in entries} |->
        count[CHOOSE f \in entries : SP!TxKey(dns, f) = k]]
RxDict(entries, count, dns) ==
    [k \in {SP!RxKey(dns, f) : f \in entries} |->
        count[CHOOSE f \in entries : SP!RxKey(dns, f) = k]]

(* The dictionaries depend on the entries, their counts and DNS alone.     *)
LEMMA Dicts ==
  ASSUME NEW dns
  PROVE  /\ SP!_mk_tx_dict(dns) = TxDict(SP!TxEntries, pkt_count, dns)
         /\ SP!_mk_rx_dict(dns) = RxDict(SP!RxEntries, received, dns)
         /\ SP!_mk_tx_dict(ptr)' = TxDict(SP!TxEntries', pkt_count', ptr')
         /\ SP!_mk_rx_dict(ptr)' = RxDict(SP!RxEntries', received', ptr')
  BY Zenon DEF SP!_mk_tx_dict, SP!_mk_rx_dict, TxDict, RxDict

LEMMA SameCounts ==
  ASSUME Computed, UNCHANGED counts,
         step' \in {"uplinks", "rates", "done"} => step \in {"uplinks", "rates", "done"}
  PROVE  Computed'
  <1>1. UNCHANGED <<pkt_count, received, tx_files, rx_files, ptr, loss_dict>>
    BY Zenon DEF counts
  <1>2. SP!TxEntries' = SP!TxEntries /\ SP!RxEntries' = SP!RxEntries
    BY Zenon, <1>1 DEF SP!TxEntries, SP!RxEntries
  <1>3. SP!_mk_tx_dict(ptr)' = SP!_mk_tx_dict(ptr)
    BY Zenon, <1>1, <1>2, Dicts
  <1>4. SP!_mk_rx_dict(ptr)' = SP!_mk_rx_dict(ptr)
    BY Zenon, <1>1, <1>2, Dicts
  <1> QED
    BY Zenon, <1>1, <1>3, <1>4 DEF Computed

(* For every set of flows and reverse zones, and whichever files are       *)
(* missing and packets not counted: as long as DNS gives no host the name  *)
(* of another, calc_loss_rates puts the counts of a flow's generator and   *)
(* of its own server together, and of those flows alone that both are      *)
(* there of and that DNS knows by their own names.                         *)
THEOREM LossRates ==
  ASSUME SP!StatsAssumption
  PROVE  SP!Spec => []LossOfItsOwnFlow
  <1> USE DEF SP!traffic, SP!files, SP!controller, SP!tables, SP!flow_tables
  <1>1. SP!Init => Computed
    BY DEF SP!Init, Computed
  <1>2. Computed /\ [SP!Next]_SP!vars => Computed'
    <2> SUFFICES ASSUME Computed, [SP!Next]_SP!vars PROVE Computed'
      OBVIOUS
    <2>1. CASE \/ \E f \in StatFlows : SP!Transmit(f)
               \/ SP!Sample \/ SP!stop_monitor
               \/ \E uncounted \in SUBSET StatFlows, no_tx, no_rx \in SUBSET SP!Hosts :
                     SP!Retrieve(uncounted, no_tx, no_rx)
      <3>1. step' = "trial" \/ step' = "frames" \/ step' = "loss"
        BY Zenon, <2>1 DEF SP!Transmit, SP!Sample, SP!stop_monitor, SP!Retrieve
      <3>2. step' \notin {"uplinks", "rates", "done"}
        BY <3>1
      <3> QED
        BY Zenon, <3>2 DEF Computed
    <2>2. CASE \/ SP!get_response_raises
               \/ \E dns \in Zones : SP!calc_loss_rates_raises(dns) \/ SP!calc_flow_rate_raises(dns)
      <3>1. step' = "raised"
        BY Zenon, <2>2 DEF SP!get_response_raises, SP!calc_loss_rates_raises,
                           SP!calc_flow_rate_raises, SP!Raised
      <3>2. step' \notin {"uplinks", "rates", "done"}
        BY <3>1
      <3> QED
        BY Zenon, <3>2 DEF Computed
    <2>3. CASE \/ UNCHANGED SP!vars
               \/ \E t \in Topologies : SP!TopologyChange(t)
               \/ \E garbled \in BOOLEAN :
                     \/ SP!_calc_link_util_pps_t(garbled)
                     \/ SP!_calc_link_util_pps(garbled)
                     \/ SP!_calc_uplink_port_util_pps(garbled)
      <3>1. step' = step /\ UNCHANGED counts
        BY Zenon, <2>3 DEF SP!vars, SP!TopologyChange, SP!_calc_link_util_pps_t,
                           SP!_calc_link_util_pps, SP!_calc_uplink_port_util_pps, counts
      <3> QED
        BY Zenon, <3>1, SameCounts
    <2>4. CASE SP!plot_test \/ \E dns \in Zones : SP!calc_flow_rate(dns)
      <3>1. /\ UNCHANGED counts
            /\ \/ step = "frames" /\ step' = "links"
               \/ step = "uplinks" \/ step = "rates"
        BY Zenon, <2>4 DEF SP!plot_test, SP!calc_flow_rate, counts
      <3>2. step' \in {"uplinks", "rates", "done"} => step \in {"uplinks", "rates", "done"}
        BY <3>1
      <3> QED
        BY Zenon, <3>1, <3>2, SameCounts
    <2>5. ASSUME NEW dns \in Zones, SP!calc_loss_rates(dns)
          PROVE  Computed'
      <3>1. /\ loss_dict' = SP!_mk_loss_dict(SP!_mk_tx_dict(dns), SP!_mk_rx_dict(dns))
            /\ ptr' = dns /\ UNCHANGED <<pkt_count, received, tx_files, rx_files>>
        BY Zenon, <2>5 DEF SP!calc_loss_rates
      <3>2. SP!TxEntries' = SP!TxEntries /\ SP!RxEntries' = SP!RxEntries
        BY Zenon, <3>1 DEF SP!TxEntries, SP!RxEntries
      <3>3. SP!_mk_tx_dict(ptr)' = SP!_mk_tx_dict(dns)
        BY Zenon, <3>1, <3>2, Dicts
      <3>4. SP!_mk_rx_dict(ptr)' = SP!_mk_rx_dict(dns)
        BY Zenon, <3>1, <3>2, Dicts
      <3> QED
        BY Zenon, <3>1, <3>3, <3>4 DEF Computed
    <2> QED
      BY Zenon, <2>1, <2>2, <2>3, <2>4, <2>5 DEF SP!Next
  <1>3. Computed => LossOfItsOwnFlow
    <2> SUFFICES ASSUME Computed, step = "done", SP!NoneByAnothersName PROVE LossOfItsOwnFlow
      BY Zenon DEF LossOfItsOwnFlow, SP!LossOfItsOwnFlow
    <2>1. step \in {"uplinks", "rates", "done"}
      OBVIOUS
    <2> QED
      BY Zenon, <2>1, LossOfThatMoment DEF Computed
  <1> QED
    BY <1>1, <1>2, <1>3, PTL DEF SP!Spec
-----------------------------------------------------------------------------
(* What needs the number of ports.                                         *)
INSTANCE FiniteSetTheorems

(* The module's number of elements is the library's.                       *)
LEMMA SameCardinality ==
  \A S : C!Cardinality(S) = Cardinality(S)
  BY Zenon DEF C!Cardinality, Cardinality

(* The ports of a capture are finitely many.                               *)
LEMMA FinitelyManyPorts ==
  ASSUME Walked
  PROVE  IsFiniteSet(C!ports)
  <1>1. Len(packets) \in Nat /\ DOMAIN packets = 1 .. Len(packets)
    BY DEF Walked
  <1> DEFINE P == {packets[i].port : i \in DOMAIN packets}
             f == [i \in DOMAIN packets |-> packets[i].port]
  <1>2. f \in Surjection(DOMAIN packets, P)
    BY Zenon DEF Surjection
  <1>3. IsFiniteSet(DOMAIN packets)
    BY <1>1, FS_Interval
  <1>4. C!ports \in SUBSET P
    BY DEF C!ports
  <1> HIDE DEF P, f
  <1>5. IsFiniteSet(P)
    BY Zenon, <1>2, <1>3, FS_Surjection
  <1> QED
    BY Zenon, <1>4, <1>5, FS_Subset

(* Two messages counted within an interval came over the same ports.       *)
LEMMA OneSetOfPorts ==
  ASSUME Walked, Listening
  PROVE  C!KPortsAtATime
  <1> DEFINE Over(l) == {packets[c[1]].port : c \in C!seq_num_to_share_count(l)}
  <1> SUFFICES ASSUME pc = "done", attacker # "synchronized", NEW m, NEW n, NEW h \in 0 .. hops,
                      C!Cardinality(Over(m)) = NumShares, C!Cardinality(Over(n)) = NumShares,
                      \A c \in C!seq_num_to_share_count(m) : c[2] = h,
                      \A c \in C!seq_num_to_share_count(n) : c[2] = h
               PROVE  Over(m) = Over(n)
    BY Zenon DEF C!KPortsAtATime
  <1>1. h \in Nat
    BY DEF Walked
  <1>2. pc \in {"walk", "done"}
    OBVIOUS
  <1>3. PICK L \in PortSets : \A c \in captured : c[2] = h => packets[c[1]].port \in L
    BY Zenon, <1>1, <1>2 DEF Listening
  <1>4. L \in SUBSET C!ports /\ Cardinality(L) = NumShares
    BY Zenon, <1>3, SameCardinality DEF PortSets, C!kSubset
  <1>5. IsFiniteSet(L)
    BY Zenon, <1>4, FinitelyManyPorts, FS_Subset
  <1>6. ASSUME NEW l,
               C!Cardinality(Over(l)) = NumShares, \A c \in C!seq_num_to_share_count(l) : c[2] = h
        PROVE  Over(l) = L
    <2> DEFINE O == Over(l)
    <2>1. O \in SUBSET L
      BY Zenon, <1>3, <1>6 DEF C!seq_num_to_share_count
    <2>2. C!Cardinality(O) = NumShares
      BY Zenon, <1>6
    <2> HIDE DEF O
    <2>3. Cardinality(O) = Cardinality(L)
      BY Zenon, <2>2, <1>4, SameCardinality
    <2>4. O = L
      BY Zenon, <1>5, <2>1, <2>3, FS_Subset
    <2> QED
      BY Zenon, <2>4 DEF O
  <1> QED
    BY Zenon, <1>6

(* In any capture whose packets are in order, and for any K and timestep,  *)
(* every observer keeps to its rules.                                      *)
THEOREM ObserversRules ==
  ASSUME C!CaptureAssumption
  PROVE  C!Spec => []ObserversKeepTheirRules
  <1> DEFINE Observing == Walked /\ Listening /\ Spaced /\ InStep
  <1>1. C!Init => Observing
    BY Zenon, WalkedInitially
  <1>0. C!Cardinality({}) = 0
    BY Zenon, SameCardinality, FS_EmptySet
  <1>2. Observing /\ [C!Next]_C!vars => Observing'
    BY Zenon, <1>0, WalkedKept, ListeningKept, SpacedKept, InStepKept
  <1>3. Observing => ObserversKeepTheirRules
    <2> SUFFICES ASSUME Observing PROVE ObserversKeepTheirRules
      OBVIOUS
    <2>1. C!KPortsAtATime
      BY Zenon, OneSetOfPorts
    <2>2. C!InStepWithTheSender
      BY Zenon DEF InStep
    <2>3. C!NotMoreOften
      <3> SUFFICES ASSUME pc = "done", attacker \in {"random", "perturbed"}
                   PROVE  hops * shortest <= packets[Len(packets)].time - packets[1].time
        BY Zenon DEF C!NotMoreOften, shortest
      <3>1. pc \in {"walk", "done"}
        OBVIOUS
      <3>2. /\ Len(packets) > 0 /\ interval_start_time \in Nat
            /\ hops * shortest <= interval_start_time - packets[1].time
            /\ interval_start_time <= packets[Len(packets)].time
        BY Zenon, <3>1 DEF Spaced
      <3>3. packets[1].time \in Nat /\ packets[Len(packets)].time \in Nat
        BY <3>2, TimesOfPackets
      <3>4. shortest \in Nat /\ hops \in Nat
        BY Zenon, Shortest DEF Walked
      <3>5. hops * shortest \in Int
        BY <3>4
      <3> HIDE DEF shortest
      <3> QED
        BY <3>2, <3>3, <3>5
    <2> QED
      BY Zenon, <2>1, <2>2, <2>3 DEF ObserversKeepTheirRules, C!ObserversKeepTheirRules
  <1> QED
    BY <1>1, <1>2, <1>3, PTL DEF C!Spec

=============================================================================
