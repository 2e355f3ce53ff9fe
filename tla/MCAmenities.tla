----------------------------- MODULE MCAmenities -----------------------------
(* Small instances of Amenities for TLC. *)
EXTENDS BookingPages, TLC

Span2(a, b) == [from |-> a, to |-> b]
MCWindows == {Span2(1, 2), Span2(1, 3), Span2(3, 4)}
MCBlockWindows == {Span2(3, 4)}

\* A hall for one guest at a time, with a turnaround.
Hall ==
    [open |-> TRUE, hours |-> MCWindows, exclusive |-> TRUE, capacity |-> 1, turnaround |-> 1,
     allowExtensions |-> TRUE, requiresApproval |-> TRUE, cutoff |-> 0, maxActive |-> 1,
     notice |-> 0, minDuration |-> 1, maxDuration |-> 2, fee |-> 1, deposit |-> 0]

\* A pool for three, booked at a day's notice.
Pool ==
    [Hall EXCEPT !.exclusive = FALSE, !.capacity = 3, !.turnaround = 0, !.cutoff = 1,
                 !.notice = 1, !.maxActive = 2, !.fee = 0]

MCConfigs == {Hall, Pool}

Symmetry == Permutations(Booking) \cup Permutations(Resident)
=============================================================================
