------------------------------ MODULE MCRentLedger ------------------------------
(* Small instance of RentLedger for TLC. *)
EXTENDS LedgerPages, TLC

\* Every obligation asks for two cents.
MCDue == [o \in Obligation |-> 2]

\* Bound: either rent is paid or the deposit is dealt with. Nothing reads both, so
\* that together they reach no more than the pairs of what each reaches.
OneLedger ==
    \/ \A p \in Payment : payment[p].status = "NONE"
    \/ /\ \A e \in Entry : entry[e].type = "NONE"
       /\ \A m \in Amendment : amendment[m].status = "NONE"

Symmetry == Permutations(Payment) \cup Permutations(Refund) \cup Permutations(Entry)
            \cup Permutations(Amendment)
=============================================================================
