-------------------------- MODULE MCAmenityClients --------------------------
(* Small instance of AmenityClients for TLC. *)
EXTENDS AmenityClients

Span2(a, b) == [from |-> a, to |-> b]
MCWindows == {Span2(1, 2), Span2(1, 3), Span2(1, 4)}

\* A court whose bookings are approved at once. Half of 3 is rounded up.
Court ==
    [open |-> TRUE, hours |-> MCWindows, exclusive |-> TRUE, capacity |-> 1, turnaround |-> 0,
     allowExtensions |-> TRUE, requiresApproval |-> FALSE, cutoff |-> 0, maxActive |-> 1,
     notice |-> 0, minDuration |-> 1, maxDuration |-> 3, fee |-> 3, deposit |-> 0]

\* The same court at another price, and with approval.
DearCourt == [Court EXCEPT !.fee = 5, !.deposit = 1]
GuardedCourt == [Court EXCEPT !.requiresApproval = TRUE]

MCConfigs == {Court, DearCourt, GuardedCourt}
=============================================================================
