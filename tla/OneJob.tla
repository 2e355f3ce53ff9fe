-------------------------------- MODULE OneJob --------------------------------
(****************************************************************************)
(* What the maintenance desk promises about work: a worker has at most one  *)
(* job at a time, a job goes to one worker, and a job that was given up or  *)
(* finished is never handed out again (F04_IMPLEMENTATION.md, "Existing     *)
(* worker availability permits one active job at a time").                  *)
(****************************************************************************)
CONSTANTS Worker, Job

VARIABLES
    jobs,    \* the jobs each worker holds
    given    \* the jobs handed out so far

Init ==
    /\ jobs = [w \in Worker |-> {}]
    /\ given = {}

Take(w, j) ==
    /\ jobs[w] = {}
    /\ j \notin given
    /\ jobs' = [jobs EXCEPT ![w] = {j}]
    /\ given' = given \cup {j}

Drop(w) ==
    /\ jobs[w] # {}
    /\ jobs' = [jobs EXCEPT ![w] = {}]
    /\ given' = given

Next == \E w \in Worker : Drop(w) \/ \E j \in Job : Take(w, j)

Spec == Init /\ [][Next]_<<jobs, given>>

=============================================================================
