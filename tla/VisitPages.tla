------------------------------- MODULE VisitPages -------------------------------
(****************************************************************************)
(* The pages through which complaints and visits are dealt with, under      *)
(* front-end/src/features: the two details pages of the Tower               *)
(* Representative with their modals, the maintenance worker's task and the  *)
(* resident's review. Visits have no page of the resident's or the worker's.*)
(*                                                                          *)
(* A page loads again after every request, so a page is a function of the   *)
(* stores. Each action is a button or a form: when it is shown and what it  *)
(* lets one choose, and the request it sends. Ratings, reasons, notes and   *)
(* files are given. The person is the one responsible, and the worker the   *)
(* one assigned; the others see no buttons.                                 *)
(****************************************************************************)
EXTENDS VisitDesk

-----------------------------------------------------------------------------
(* The representative's complaint. *)

NextAuthorityAction ==
    [SUBMITTED |-> "review", UNDER_REVIEW |-> "assign",
     PENDING_VERIFICATION |-> "verify", REVIEWED |-> "close"]

IsNext(c, action) ==
    /\ complaint[c].status \in DOMAIN NextAuthorityAction
    /\ NextAuthorityAction[complaint[c].status] = action

StartReview(c) == IsNext(c, "review") /\ TransitionStatus(c)

\* Mutant: a worker who has once been assigned is not listed again.
UnusedWorkers(c) ==
    {w \in Worker : /\ status[w] = "AVAILABLE" /\ specialization[w] = RequiredWorkType[c]
                    /\ \A a \in assignments : a.worker # w}

\* eligibleWorkers of the service, which the two modals list: unlike assignWorker it
\* does not ask whether the worker is reserved.
EligibleWorkers(c) ==
    {w \in Worker : /\ status[w] = "AVAILABLE" /\ specialization[w] = RequiredWorkType[c]
                    /\ ~HasActiveAssignment(w)}

SubmitAssignment(c, w) ==
    IsNext(c, "assign") /\ w \in EligibleWorkers(c) /\ AssignWorker(c, w)

SubmitVerification(c) == IsNext(c, "verify") /\ VerifyResolution(c)

CancellableAppointments(c) ==
    {p \in Appointment : /\ appointment[p].complaint = c
                         /\ appointment[p].status \in ActiveStatus
                         /\ appointment[p].arrivedAt = NotArrived}

\* The requests of Close: the visits that can be cancelled are, then the complaint is
\* closed. This is the first of them.
CloseComplaint(c) ==
    /\ IsNext(c, "close")
    /\ IF CancellableAppointments(c) = {} THEN TransitionStatus(c)
       ELSE \E p \in CancellableAppointments(c) : RepresentativeCancels(p)

-----------------------------------------------------------------------------
(* The representative's appointment. *)

ComplaintNeedsVisit(c) == complaint[c].status \in SchedulableStatus

HasSlotStarted(p) ==
    appointment[p].scheduled # NoSlot /\ appointment[p].scheduled.from <= hour

IsSlotPast(slot, c) ==
    IF c \in EmergencyComplaint THEN slot.to <= hour ELSE slot.from <= hour

\* The dates the picker takes: today and the days up to its horizon
OnCalendar(slot) == Day(slot.from) - Day(hour) \in 0 .. (HorizonHours \div DayHours) - 1

WorkerBookings(w, p) ==
    {appointment[o].scheduled : o \in {x \in Appointment \ {p} : HoldsSlot(x) /\ appointment[x].worker = w}}

\* What both modals ask of a slot
Pickable(slot, w, p) ==
    /\ OnCalendar(slot)
    /\ ~IsSlotPast(slot, appointment[p].complaint)
    /\ slot \notin WorkerBookings(w, p)

\* The workers the modal lists for a request
WorkerChoices(c) ==
    IF complaint[c].assignedWorker # NoWorker THEN {complaint[c].assignedWorker}
    ELSE IF complaint[c].status = "UNDER_REVIEW" THEN EligibleWorkers(c) ELSE {}

\* Confirm visit, and the modal's submit
ConfirmOffered(p, slot, w) ==
    LET c == appointment[p].complaint IN
    /\ HasComplaint(p) /\ appointment[p].status = "REQUESTED"
    /\ ComplaintNeedsVisit(c) /\ complaint[c].status # "SUBMITTED"
    /\ w \in WorkerChoices(c)
    /\ Pickable(slot, w, p)

SubmitConfirmation(p, slot, w) == ConfirmOffered(p, slot, w) /\ Confirm(p, slot, w)

\* Process reschedule
ApprovalOffered(p, slot) ==
    /\ HasComplaint(p) /\ appointment[p].status = "RESCHEDULE_REQUESTED"
    /\ ComplaintNeedsVisit(appointment[p].complaint)
    /\ Pickable(slot, appointment[p].worker, p)

SubmitApproval(p, slot) == ApprovalOffered(p, slot) /\ ApproveReschedule(p, slot)

DeclineRequest(p) ==
    HasComplaint(p) /\ appointment[p].status = "RESCHEDULE_REQUESTED" /\ DeclineReschedule(p)

MarkAsMissed(p) ==
    /\ HasComplaint(p)
    /\ appointment[p].status = "CONFIRMED" /\ HasSlotStarted(p)
    /\ appointment[p].arrivedAt = NotArrived
    /\ MarkMissed(p)

CancelAppointment(p) ==
    /\ HasComplaint(p)
    /\ p \in CancellableAppointments(appointment[p].complaint)
    /\ RepresentativeCancels(p)

-----------------------------------------------------------------------------
(* The worker's task, and the resident's review. *)

StartTask(c) == complaint[c].status = "ASSIGNED" /\ StartWork(c)

UploadImage(c) == complaint[c].status = "IN_PROGRESS" /\ UploadProof(c)

SubmitResolution(c) ==
    complaint[c].status = "IN_PROGRESS" /\ complaint[c].hasProof /\ ResolveWork(c)

SubmitRating(c) ==
    /\ complaint[c].status = "RESOLVED"
    /\ ~\E v \in reviews : v.complaint = c
    /\ SubmitReview(c)

-----------------------------------------------------------------------------
(* Properties. *)

\* Whatever became of its worker and its visits, a complaint has a button for the
\* person whose turn it is, and the service takes the request. It waits for a worker
\* while none is eligible; a review waits for ever once a reviewed complaint of the
\* same worker was deleted.
WorkMovesOn(c) ==
    CASE complaint[c].status = "SUBMITTED" -> ENABLED StartReview(c)
      [] complaint[c].status = "UNDER_REVIEW" ->
            \A w \in Worker :
               w \in EligibleWorkers(c) \/ ENABLED AssignWorker(c, w) =>
                   ENABLED SubmitAssignment(c, w)
      [] complaint[c].status = "ASSIGNED" -> ENABLED StartTask(c)
      [] complaint[c].status = "IN_PROGRESS" ->
            /\ ENABLED UploadImage(c)
            /\ complaint[c].hasProof => ENABLED SubmitResolution(c)
      [] complaint[c].status = "PENDING_VERIFICATION" -> ENABLED SubmitVerification(c)
      [] complaint[c].status = "RESOLVED" ->
            (\A v \in reviews : Stored(v.complaint)) => ENABLED SubmitRating(c)
      [] complaint[c].status = "REVIEWED" -> ENABLED CloseComplaint(c)
      [] OTHER -> TRUE

\* Until the worker has come, the representative can end a visit, whatever became of its
\* complaint; and, once its time has come, record that it was missed.
VisitCanEnd(p) ==
    appointment[p].status \in ActiveStatus /\ appointment[p].arrivedAt = NotArrived =>
        /\ ENABLED CancelAppointment(p)
        /\ appointment[p].status = "RESCHEDULE_REQUESTED" => ENABLED DeclineRequest(p)
        /\ appointment[p].status = "CONFIRMED" /\ HasSlotStarted(p) => ENABLED MarkAsMissed(p)

Present(w) == status[w] \notin {"ON_LEAVE", "INACTIVE"}

\* Within the calendar, the modals let the representative choose exactly the workers and
\* the slots the service accepts, unless the assigned worker is away: they are told then.
ModalsAreExact(p) ==
    \A slot \in {s \in Slot : OnCalendar(s)} :
        /\ appointment[p].status = "REQUESTED" =>
              \A w \in {x \in Worker : Present(x)} :
                  ConfirmOffered(p, slot, w) <=> CanConfirm(p, slot, w)
        /\ appointment[p].status = "RESCHEDULE_REQUESTED" /\ Present(appointment[p].worker) =>
              ApprovalOffered(p, slot) <=> CanApproveReschedule(p, slot)

\* No complaint and no visit is left without the button of the person it waits for, and
\* no choice that button offers is refused, though the pages work out for themselves
\* what the two services will say.
VisitWithinReach ==
    /\ \A c \in Complaint : WorkMovesOn(c)
    /\ \A p \in Appointment : HasComplaint(p) => VisitCanEnd(p) /\ ModalsAreExact(p)

\* A visit to which the worker came can be finished. Not so: no page has the worker's
\* outcome, and the representative's offers none after the arrival.
ArrivedCanEnd ==
    \A p \in Appointment : HasComplaint(p) /\ appointment[p].status = "CONFIRMED" =>
        ENABLED CancelAppointment(p) \/ ENABLED MarkAsMissed(p) \/ appointment[p].scheduled.from > hour
=============================================================================
