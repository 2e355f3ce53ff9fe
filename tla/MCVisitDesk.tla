----------------------------- MODULE MCVisitDesk -----------------------------
(* Small instances of VisitDesk and VisitPages for TLC. A day has two hours and one slot,    *)
(* its second hour; visits are booked on day 0 and day 1.                     *)
EXTENDS VisitPages, TLC

MCRequiredWorkType == [c \in Complaint |-> CHOOSE k \in Specialty : TRUE]
MCSlots == {[from |-> 1, to |-> 2], [from |-> 3, to |-> 4]}

\* What the preferred slot of a settled request was is only displayed, and no guard
\* reads what the worker has done before.
Settled(p) ==
    IF appointment[p].status = "REQUESTED" THEN appointment[p]
    ELSE [appointment[p] EXCEPT !.requested = NoSlot]

View ==
    <<status, specialization, reservation, complaintVars,
      [p \in Appointment |-> Settled(p)], hour>>

Symmetry == Permutations(Appointment)
=============================================================================
