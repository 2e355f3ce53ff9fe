------------------------------- MODULE VisitDesk -------------------------------
(****************************************************************************)
(* Complaints, the workers assigned to them and the visits that schedule    *)
(* the work. Appointments call ComplaintsService.assignWorker inside        *)
(* confirm; otherwise a visit and its complaint run independently, and a    *)
(* complaint may be resolved or deleted under a visit.                      *)
(****************************************************************************)
EXTENDS Appointments

visitDeskVars == <<workforceVars, complaintVars, visitVars>>

VisitsInit ==
    /\ WorkforceInit
    /\ ComplaintsInit
    /\ AppointmentsInit

VisitsNext ==
    \/ WorkforceNext /\ UNCHANGED <<complaintVars, visitVars>>
    \/ ComplaintsNext /\ UNCHANGED visitVars
    \/ AppointmentsNext

VisitsSpec == VisitsInit /\ [][VisitsNext]_visitDeskVars

VisitsTypeOK ==
    /\ WorkforceTypeOK
    /\ ComplaintsTypeOK
    /\ AppointmentsTypeOK

\* No worker is promised to two homes in one slot: the unique constraint on
\* (workerId, scheduledDate, scheduledTimeSlot) that the service header says
\* the synchronous handlers stand in for.
SlotPromisedOnce ==
    \A p, o \in Appointment :
        p # o /\ HoldsSlot(p) /\ HoldsSlot(o) /\ appointment[p].worker = appointment[o].worker
            => appointment[p].scheduled # appointment[o].scheduled

\* "Active statuses hold (or request) a visit; at most one may exist per
\* complaint."
OneActiveVisit ==
    \A p, o \in Appointment :
        /\ appointment[p].status \in ActiveStatus
        /\ appointment[o].status \in ActiveStatus
        /\ appointment[p].complaint = appointment[o].complaint
        => p = o

\* Neither a worker nor a complaint is booked twice, after requests, moves and
\* confirmations in any order.
NoVisitTwice == SlotPromisedOnce /\ OneActiveVisit

\* A visit that got a worker got the worker of its complaint, and the
\* complaint still names that worker in every later state.
VisitUsesAssignedWorker ==
    \A p \in Appointment :
        HasComplaint(p) /\ appointment[p].worker # NoWorker
            => complaint[appointment[p].complaint].assignedWorker = appointment[p].worker

\* A recorded arrival belongs to the slot the visit is scheduled for, also
\* after the visit was moved: completing it means somebody came.
ArrivalMatchesSlot ==
    \A p \in Appointment :
        LET q == appointment[p] IN
        q.arrivedAt # NotArrived =>
            /\ q.scheduled.from <= q.arrivedAt + EarlyArrivalHours
            /\ Day(q.arrivedAt) <= Day(q.scheduled.from)

\* Who and when a visit names is who comes and when, whichever of the two services
\* changed its record of it last.
VisitHeldAsRecorded == VisitUsesAssignedWorker /\ ArrivalMatchesSlot

=============================================================================
