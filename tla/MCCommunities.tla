----------------------------- MODULE MCCommunities -----------------------------
(* Small sets for TLC: two communities that compete for the same rows. *)
EXTENDS Jurisdiction, TLC

MCPlan == [towers : {1, 2}, apartments : {1, 2}]

\* No community has less than the largest plan, in force and without an upgrade
\* under way.
Settled ==
    \A c \in Community :
        \/ subscription[c].status = "NONE"
        \/ /\ subscription[c].status = "ACTIVE"
           /\ subscription[c].plan = [towers |-> 2, apartments |-> 2]
           /\ subscription[c].pending = NoPlan

\* Bound: a ticket exists only while Settled, which leaves every move possible.
TicketBound == Complaints \cup Requests # {} => Settled

Symmetry ==
    Permutations(Community) \cup Permutations(Tower) \cup Permutations(Floor)
        \cup Permutations(Apartment) \cup Permutations(User)
=============================================================================
