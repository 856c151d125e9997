------------------------------ MODULE TaskPool ------------------------------
(***************************************************************************)
(* What a pool of workers promises: each job is processed once, none is    *)
(* left when the last worker leaves, and none waits for ever.              *)
(***************************************************************************)
EXTENDS Naturals

CONSTANTS NumWorkers, Job

VARIABLES pending, done, alive

vars == <<pending, done, alive>>

Init ==
    /\ pending = {}
    /\ done = {}
    /\ alive = 1..NumWorkers

Submit(j) ==
    /\ j \notin pending \cup done
    /\ alive # {}
    /\ pending' = pending \cup {j}
    /\ UNCHANGED <<done, alive>>

Process(j) ==
    /\ j \in pending
    /\ alive # {}
    /\ pending' = pending \ {j}
    /\ done' = done \cup {j}
    /\ UNCHANGED alive

Quit(w) ==
    /\ w \in alive
    /\ alive = {w} => pending = {}
    /\ alive' = alive \ {w}
    /\ UNCHANGED <<pending, done>>

Next ==
    \/ \E j \in Job : Submit(j) \/ Process(j)
    \/ \E w \in 1..NumWorkers : Quit(w)

Spec == Init /\ [][Next]_vars /\ \A j \in Job : WF_vars(Process(j))
=============================================================================
