------------------------------ MODULE MCLeases ------------------------------
(* Small instances of Leases for TLC. *)
EXTENDS LeasePages, TLC

Days(a, b) == [start |-> a, end |-> b]

\* Leases that follow each other, and one that meets both.
MCTerms == {Days(0, 1), Days(1, 2), Days(2, 3)}
\* A limited and an unlimited availability.
MCOffers == {[from |-> 0, until |-> 2], [from |-> 0, until |-> Never]}

Symmetry == Permutations(Lease) \cup Permutations(Apartment) \cup Permutations(Listing)
=============================================================================
