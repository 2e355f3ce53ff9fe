----------------------------- MODULE Appointments -----------------------------
(****************************************************************************)
(* Visits attached to complaints:                                           *)
(* back-end/src/modules/appointments/appointments.service.ts.               *)
(*                                                                          *)
(* The clock counts hours of the server's local time; a slot is a record    *)
(* [from, to] of hours, and two slots are the same when they are equal.     *)
(* "Resident" is the complaint's resident, "representative" the Tower       *)
(* Representative with authority over it. Notes, photos, the follow-up flag *)
(* and the activity history are left out. A handler of an appointment whose *)
(* complaint was deleted always throws (complaintFor).                      *)
(****************************************************************************)
EXTENDS Complaints

CONSTANTS
    Appointment,         \* appointment ids
    Slot,                \* bookable slots
    NoSlot,              \* slot not set
    NoComplaint,         \* appointment not created yet
    EmergencyComplaint,  \* complaints with isEmergency
    CommunityComplaint,  \* complaints of type COMMUNITY: no visits
    DayHours,            \* hours in a day
    MaxHours,            \* bound: the clock
    ChangeCutoffHours,   \* RESIDENT_CHANGE_CUTOFF_HOURS
    HorizonHours,        \* MAX_BOOKING_HORIZON_DAYS, in hours
    EarlyArrivalHours    \* EARLY_ARRIVAL_WINDOW_HOURS

ASSUME AppointmentAssumption ==
    /\ Slot \subseteq [from : Nat, to : Nat]
    /\ NoSlot \notin Slot
    /\ NoComplaint \notin Complaint
    /\ EmergencyComplaint \subseteq Complaint
    /\ CommunityComplaint \subseteq Complaint
    /\ DayHours \in Nat \ {0}
    /\ {MaxHours, ChangeCutoffHours, HorizonHours, EarlyArrivalHours} \subseteq Nat

VARIABLES
    appointment,   \* the stored appointments
    hour           \* Date.now(), in hours

visitVars == <<appointment, hour>>

AppointmentStatus ==
    {"REQUESTED", "CONFIRMED", "RESCHEDULE_REQUESTED", "COMPLETED", "CANCELLED", "MISSED"}
ActiveStatus == {"REQUESTED", "CONFIRMED", "RESCHEDULE_REQUESTED"}
SlotHoldingStatus == {"CONFIRMED", "RESCHEDULE_REQUESTED"}
SchedulableStatus == {"SUBMITTED", "UNDER_REVIEW", "ASSIGNED", "IN_PROGRESS"}

NotArrived == MaxHours + 1   \* arrivedAt is not set

AppointmentType ==
    [status : AppointmentStatus \cup {"NONE"},
     complaint : Complaint \cup {NoComplaint},
     requested : Slot \cup {NoSlot},
     scheduled : Slot \cup {NoSlot},
     proposed : Slot \cup {NoSlot},      \* rescheduleRequest
     worker : Worker \cup {NoWorker},
     arrivedAt : Nat]

AppointmentsTypeOK ==
    /\ appointment \in [Appointment -> AppointmentType]
    /\ hour \in Nat

BlankAppointment ==
    [status |-> "NONE", complaint |-> NoComplaint, requested |-> NoSlot, scheduled |-> NoSlot,
     proposed |-> NoSlot, worker |-> NoWorker, arrivedAt |-> NotArrived]

AppointmentsInit ==
    /\ appointment = [p \in Appointment |-> BlankAppointment]
    /\ hour = 0

-----------------------------------------------------------------------------

Day(t) == t \div DayHours

Save(p, q) == appointment' = [appointment EXCEPT ![p] = q]

\* The appointment is there and its complaint still is.
HasComplaint(p) ==
    /\ appointment[p].status # "NONE"
    /\ Stored(appointment[p].complaint)

NoActiveAppointment(c) ==
    ~\E p \in Appointment : appointment[p].complaint = c /\ appointment[p].status \in ActiveStatus

SchedulableComplaint(c) ==
    /\ c \notin CommunityComplaint
    /\ complaint[c].status \in SchedulableStatus

\* An emergency may use the slot that is running.
BookableSlot(slot, c) ==
    /\ IF c \in EmergencyComplaint THEN hour < slot.to ELSE hour < slot.from
    /\ slot.from <= hour + HorizonHours

\* The resident's cutoff, which an emergency is exempt from.
BeforeResidentCutoff(p) ==
    \/ appointment[p].complaint \in EmergencyComplaint
    \/ appointment[p].scheduled.from >= hour + ChangeCutoffHours

HoldsSlot(p) ==
    /\ appointment[p].status \in SlotHoldingStatus
    /\ appointment[p].scheduled # NoSlot
    /\ Stored(appointment[p].complaint)

\* Mutant: the worker's other confirmed visits are not looked at.
WorkerPresent(w, slot, p) == status[w] \notin {"ON_LEAVE", "INACTIVE"}

WorkerAvailable(w, slot, p) ==
    /\ status[w] \notin {"ON_LEAVE", "INACTIVE"}
    /\ ~\E o \in Appointment \ {p} :
           appointment[o].worker = w /\ HoldsSlot(o) /\ appointment[o].scheduled = slot

-----------------------------------------------------------------------------
(* The resident. *)

RequestVisit(p, c, slot) ==
    /\ appointment[p].status = "NONE"
    /\ SchedulableComplaint(c)
    /\ NoActiveAppointment(c)
    /\ BookableSlot(slot, c)
    /\ Save(p, [BlankAppointment EXCEPT !.status = "REQUESTED", !.complaint = c, !.requested = slot])
    /\ UNCHANGED <<workforceVars, complaintVars, hour>>

\* requestReschedule: edits a request, or asks to move a confirmed visit.
RequestReschedule(p, slot) ==
    LET q == appointment[p] IN
    /\ HasComplaint(p)
    /\ SchedulableComplaint(q.complaint)
    /\ BookableSlot(slot, q.complaint)
    /\ \/ /\ q.status = "REQUESTED"
          /\ slot # q.requested
          /\ Save(p, [q EXCEPT !.requested = slot])
       \/ /\ q.status = "CONFIRMED"
          /\ BeforeResidentCutoff(p)
          /\ slot # q.scheduled
          /\ Save(p, [q EXCEPT !.status = "RESCHEDULE_REQUESTED", !.proposed = slot])
    /\ UNCHANGED <<workforceVars, complaintVars, hour>>

CancelVisit(p) ==
    /\ appointment[p].status \in ActiveStatus
    /\ appointment[p].arrivedAt = NotArrived
    /\ Save(p, [appointment[p] EXCEPT !.status = "CANCELLED", !.proposed = NoSlot])
    /\ UNCHANGED <<workforceVars, complaintVars, hour>>

ResidentCancels(p) ==
    /\ HasComplaint(p)
    /\ appointment[p].status \in SlotHoldingStatus => BeforeResidentCutoff(p)
    /\ CancelVisit(p)

-----------------------------------------------------------------------------
(* The representative. *)

RepresentativeCancels(p) ==
    /\ HasComplaint(p)
    /\ CancelVisit(p)

\* The worker of the complaint, or assigning one as the last step.
UseWorker(c, w) ==
    \/ complaint[c].assignedWorker = w /\ UNCHANGED <<workforceVars, complaintVars>>
    \/ complaint[c].assignedWorker = NoWorker /\ AssignWorker(c, w)

\* The checks of confirm, those of assignWorker included.
CanConfirm(p, slot, w) ==
    LET c == appointment[p].complaint IN
    /\ HasComplaint(p)
    /\ appointment[p].status = "REQUESTED"
    /\ complaint[c].status # "SUBMITTED"
    /\ SchedulableComplaint(c)
    /\ BookableSlot(slot, c)
    /\ AssertValidAssignmentTarget(w)
    /\ WorkerAvailable(w, slot, p)
    /\ complaint[c].assignedWorker = w \/ CanAssignWorker(c, w)

Confirm(p, slot, w) ==
    LET q == appointment[p] IN
    /\ CanConfirm(p, slot, w)
    /\ UseWorker(q.complaint, w)
    /\ Save(p, [q EXCEPT !.status = "CONFIRMED", !.scheduled = slot, !.worker = w])
    /\ hour' = hour

DeclineReschedule(p) ==
    LET q == appointment[p] IN
    /\ HasComplaint(p)
    /\ q.status = "RESCHEDULE_REQUESTED"
    /\ Save(p, [q EXCEPT !.status = "CONFIRMED", !.proposed = NoSlot])
    /\ UNCHANGED <<workforceVars, complaintVars, hour>>

\* Mutant: the arrival for the old slot is kept.
MovedKeepingArrival(q, slot) ==
    [q EXCEPT !.status = "CONFIRMED", !.scheduled = slot, !.proposed = NoSlot]

Moved(q, slot) ==
    [q EXCEPT !.status = "CONFIRMED", !.scheduled = slot, !.proposed = NoSlot, !.arrivedAt = NotArrived]

\* The representative may pick another slot than the one proposed.
CanApproveReschedule(p, slot) ==
    LET q == appointment[p] IN
    /\ HasComplaint(p)
    /\ q.status = "RESCHEDULE_REQUESTED"
    /\ SchedulableComplaint(q.complaint)
    /\ BookableSlot(slot, q.complaint)
    /\ AssertValidAssignmentTarget(q.worker)
    /\ WorkerAvailable(q.worker, slot, p)

ApproveReschedule(p, slot) ==
    /\ CanApproveReschedule(p, slot)
    /\ Save(p, Moved(appointment[p], slot))
    /\ UNCHANGED <<workforceVars, complaintVars, hour>>

MarkMissed(p) ==
    /\ HasComplaint(p)
    /\ appointment[p].status = "CONFIRMED"
    /\ appointment[p].arrivedAt = NotArrived
    /\ appointment[p].scheduled.from <= hour
    /\ Save(p, [appointment[p] EXCEPT !.status = "MISSED"])
    /\ UNCHANGED <<workforceVars, complaintVars, hour>>

-----------------------------------------------------------------------------
(* The assigned worker. *)

RecordArrival(p) ==
    LET q == appointment[p] IN
    /\ HasComplaint(p)
    /\ q.status = "CONFIRMED"
    /\ q.arrivedAt = NotArrived
    /\ q.scheduled.from <= hour + EarlyArrivalHours
    /\ Day(hour) <= Day(q.scheduled.from)
    /\ Save(p, [q EXCEPT !.arrivedAt = hour])
    /\ UNCHANGED <<workforceVars, complaintVars, hour>>

RecordOutcome(p) ==
    LET q == appointment[p] IN
    /\ HasComplaint(p)
    /\ q.status = "CONFIRMED"
    /\ \/ q.arrivedAt # NotArrived /\ Save(p, [q EXCEPT !.status = "COMPLETED"])
       \/ q.scheduled.from <= hour /\ Save(p, [q EXCEPT !.status = "MISSED"])
    /\ UNCHANGED <<workforceVars, complaintVars, hour>>

-----------------------------------------------------------------------------

HourPasses ==
    /\ hour < MaxHours
    /\ hour' = hour + 1
    /\ UNCHANGED <<workforceVars, complaintVars, appointment>>

AppointmentsNext ==
    \/ \E p \in Appointment :
           \/ \E c \in Complaint, slot \in Slot : RequestVisit(p, c, slot)
           \/ \E slot \in Slot : RequestReschedule(p, slot) \/ ApproveReschedule(p, slot)
           \/ \E slot \in Slot, w \in Worker : Confirm(p, slot, w)
           \/ ResidentCancels(p) \/ RepresentativeCancels(p) \/ DeclineReschedule(p)
           \/ MarkMissed(p) \/ RecordArrival(p) \/ RecordOutcome(p)
    \/ HourPasses

=============================================================================
