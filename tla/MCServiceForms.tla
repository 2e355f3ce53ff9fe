---------------------------- MODULE MCServiceForms ----------------------------
(* Small instance of ServiceForms for TLC. *)
EXTENDS ServiceForms, RequestPages

MCRequiredWorkType == [c \in Complaint |-> CHOOSE k \in Specialty : TRUE]
MCServiceWork == [r \in Request |-> CHOOSE k \in Specialty : TRUE]
TwoWindows == {[from |-> 1, to |-> 2], [from |-> 2, to |-> 3]}
=============================================================================
