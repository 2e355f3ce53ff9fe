------------------------------- MODULE MCPortal -------------------------------
(* Instance of Portal. Liveness is checked, so there is no symmetry. *)
EXTENDS Portal

\* The list can be loaded again by an action while an older load is under way.
MCMaxReads == [x \in Resource |-> IF x = "LIST" THEN 3 ELSE 1]
=============================================================================
