---------------------------- MODULE MCServiceDesk ----------------------------
(* Small instances of ServiceDesk for TLC. *)
EXTENDS ServiceDesk

MCRequiredWorkType == [c \in Complaint |-> CHOOSE k \in Specialty : TRUE]
MCServiceWork == [r \in Request |-> CHOOSE k \in Specialty : TRUE]

\* One window; and two adjacent ones with a third that overlaps both.
OneWindow == {[from |-> 1, to |-> 2]}
ThreeWindows == {[from |-> 1, to |-> 2], [from |-> 2, to |-> 3], [from |-> 1, to |-> 3]}

Symmetry == Permutations(Worker) \cup Permutations(Complaint) \cup Permutations(Request)
=============================================================================
