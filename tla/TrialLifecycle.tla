--------------------------- MODULE TrialLifecycle ---------------------------
(***************************************************************************)
(* What a program that conducts trials on the testbed promises to whoever  *)
(* shares it, whatever the trial is about.  Trials follow one another.  On *)
(* its way up a trial acquires resources (addresses on the interface,      *)
(* entries of the controller's tables, processes) and watches its traffic; *)
(* it comes down again when its results are recorded or when something     *)
(* failed, and then gives back what is its own.  A program that was left   *)
(* by an exception can be started again.                                   *)
(***************************************************************************)
EXTENDS Integers

CONSTANT Needed   \* the resources without which a trial records no results

VARIABLES
    current,   \* the trial
    stage,     \* "up", "down", "over" or "crashed"
    held,      \* the resources there are: <<trial, resource>>
    watched,   \* trials whose monitor is running
    measured,  \* trials whose results were recorded
    custody,   \* "lost" once a resource was lost track of
    faults     \* calls and programs that have failed

lifecycleVars == <<current, stage, held, watched, measured, custody, faults>>

Init ==
    /\ stage = "up" /\ held = {} /\ watched = {} /\ measured = {}
    /\ custody = "kept" /\ faults = 0

Fault == faults' = faults + 1
Calls == Fault \/ UNCHANGED faults

(* Nothing is lost track of without a call that failed.                    *)
Tracks == custody' = custody \/ (custody' = "lost" /\ Fault)

(* A trial turns back only if something failed, now or earlier.            *)
GoesOn == stage' = "up" \/ (stage' = "down" /\ faults' > 0)

(* A trial adds to what is there and takes nothing from another one.       *)
Acquire ==
    /\ stage = "up"
    /\ held \subseteq held' /\ \A x \in held' \ held : x[1] = current
    /\ Calls /\ Tracks /\ GoesOn
    /\ UNCHANGED <<current, watched, measured>>

Watch ==
    /\ stage = "up"
    /\ watched \ {current} = watched' \ {current}
    /\ Calls /\ GoesOn
    /\ UNCHANGED <<current, held, measured, custody>>

(* Results are recorded by a trial that holds all it needs and whose       *)
(* monitor was stopped.                                                    *)
Measure ==
    /\ stage = "up" /\ stage' = "down"
    /\ current \notin watched
    /\ \A r \in Needed : <<current, r>> \in held
    /\ measured' = measured \cup {current}
    /\ UNCHANGED <<current, held, watched, custody, faults>>

(* On its way down a trial gives back its own, and nobody else's.          *)
Release ==
    /\ stage = "down" /\ stage' \in {"down", "crashed"}
    /\ held' \subseteq held /\ \A x \in held \ held' : x[1] = current
    /\ Calls /\ (stage' = "crashed" \/ Tracks)
    /\ stage' = "crashed" => Fault /\ custody' = "lost"
    /\ UNCHANGED <<current, watched, measured>>

(* A trial is over when nothing is held, unless it was lost track of.      *)
Over ==
    /\ stage = "down"
    /\ custody = "kept" => held = {}
    /\ \/ stage' = "up" /\ current' = current + 1
       \/ stage' = "over" /\ UNCHANGED current
    /\ UNCHANGED <<held, watched, measured, custody, faults>>

Restart ==
    /\ stage \in {"over", "crashed"} /\ stage' = "up"
    /\ current' > current
    /\ UNCHANGED <<held, watched, measured, custody, faults>>

(* An exception may leave the program before a trial has anything of its   *)
(* own, or after the last one.                                             *)
Abort ==
    /\ stage \in {"up", "over"} /\ stage' = "crashed"
    /\ stage = "up" => \A x \in held : x[1] # current
    /\ Fault /\ custody' = "lost"
    /\ UNCHANGED <<current, held, watched, measured>>

(* Something outside the trials' control goes wrong.                       *)
Misfortune ==
    /\ Fault /\ Tracks
    /\ UNCHANGED <<current, stage, held, watched, measured>>

Next == Acquire \/ Watch \/ Measure \/ Release \/ Over \/ Restart \/ Abort \/ Misfortune

Spec == Init /\ [][Next]_lifecycleVars
=============================================================================
