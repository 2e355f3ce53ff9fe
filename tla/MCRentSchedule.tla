---------------------------- MODULE MCRentSchedule ----------------------------
(* A small instance of RentSchedule for TLC. *)
EXTENDS RentSchedule, TLC

Steps(method, value, month, interval, increases) ==
    [method |-> method, value |-> value, month |-> month, interval |-> interval,
     increases |-> increases]

\* Half as much again in month 2; an amendment may instead add one unit then, or one unit
\* in month 1, before which the lease has not begun, and one in month 2.
MCBaseEscalation == Steps("PERCENTAGE", 50, 2, 1, 1)
MCEscalations == {Steps("FIXED", 1, 2, 1, 1), Steps("FIXED", 1, 1, 1, 2)}

Symmetry == Permutations(Amendment)
=============================================================================
