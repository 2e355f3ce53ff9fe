----------------------------- MODULE ServiceDesk -----------------------------
(****************************************************************************)
(* The maintenance desk of one community: complaints and paid services that *)
(* draw on one pool of workers. The three services call each other          *)
(* synchronously inside one process, so their handlers interleave but never *)
(* overlap. A restart loses every repository at once and is the initial     *)
(* state again.                                                             *)
(****************************************************************************)
EXTENDS PaidServices

\* Ids are random UUIDs.
ASSUME JobIdsAssumption == Complaint \cap Request = {}

vars == <<workforceVars, complaintVars, serviceVars>>

TypeOK ==
    /\ WorkforceTypeOK
    /\ ComplaintsTypeOK
    /\ ServicesTypeOK

Init ==
    /\ WorkforceInit
    /\ ComplaintsInit
    /\ ServicesInit

Next ==
    \/ WorkforceNext /\ UNCHANGED <<complaintVars, serviceVars>>
    \/ ComplaintsNext /\ UNCHANGED serviceVars
    \/ ServicesNext

Spec == Init /\ [][Next]_vars

-----------------------------------------------------------------------------
(* One job at a time. *)

\* Request r has taken its worker and has neither finished nor been cancelled.
Reserves(r) ==
    /\ request[r].worker # NoWorker
    /\ ~request[r].completed
    /\ request[r].status # "CANCELLED"

JobsOf(w) ==
    {a.complaint : a \in {b \in ActiveAssignments : b.worker = w}}
        \cup ({reservation[w]} \ {NoRequest})

GivenJobs ==
    {a.complaint : a \in assignments} \cup {r \in Request : request[r].worker # NoWorker}

Jobs == INSTANCE OneJob WITH
            Job <- Complaint \cup Request,
            jobs <- [w \in Worker |-> JobsOf(w)],
            given <- GivenJobs

\* The worker pool as complaints and paid services use it together implements
\* OneJob: no order of assignments, releases, cancellations, deletions and
\* profile edits gives a worker a second job or hands out a job twice.
OneJobAtATime == Jobs!Spec

\* The reservation map of WorkforceService and the requests of
\* PaidServicesService are separate stores: an entry is there exactly while
\* its request is under way with that worker, so a release never throws.
ReservationAgrees ==
    \A w \in Worker, r \in Request :
        (reservation[w] = r) <=> (Reserves(r) /\ request[r].worker = w)

\* A reserved worker is BUSY: no complaint operation and no profile edit
\* offers it to somebody else.
ReservedIsBusy ==
    \A w \in Worker : HasPaidServiceReservation(w) => status[w] = "BUSY"

\* The private assignment list agrees with the complaint that points to it: a
\* stored complaint has the one assignment that goes with its worker and its
\* status, or none while it has no worker.
AssignmentAgrees ==
    \A c \in Complaint : Stored(c) =>
        {a \in assignments : a.complaint = c} =
            IF complaint[c].assignedWorker = NoWorker THEN {}
            ELSE {[complaint |-> c, worker |-> complaint[c].assignedWorker,
                   status |-> IF complaint[c].status \in {"ASSIGNED", "IN_PROGRESS"}
                              THEN complaint[c].status ELSE "COMPLETED"]}

\* Three separate stores tell one story about every worker: the profiles with the
\* reservation map (WorkforceService), the requests (PaidServicesService) and the
\* complaints with their assignment list (ComplaintsService).
StoresAgree == ReservationAgrees /\ ReservedIsBusy /\ AssignmentAgrees

\* A worker's record is earned: its history names each verified complaint
\* once, and its completed count is the number of reviews it received.
RecordIsEarned ==
    \A w \in Worker :
        /\ \A i, j \in DOMAIN workHistory[w] :
               workHistory[w][i] = workHistory[w][j] => i = j
        /\ \A c \in Complaint :
               complaint[c].status \in {"RESOLVED", "REVIEWED", "CLOSED"} /\ complaint[c].assignedWorker = w
                   => c \in ToSet(workHistory[w])
        /\ completedWorkCount[w] = Cardinality({v \in reviews : v.worker = w})

\* While a worker stays reserved for a request, nothing changes its profile
\* (F04_IMPLEMENTATION.md: "prevents profile changes/deactivation during
\* reserved work").
ReservedProfileFrozen ==
    [][\A w \in Worker :
          HasPaidServiceReservation(w) /\ reservation'[w] = reservation[w]
              => status'[w] = status[w] /\ specialization'[w] = specialization[w]]_vars

\* A reservation ends only in the step that completes or cancels its own
\* request ("Correcting an old bill does not release a worker's newer
\* assignment").
OnlyOwnRequestReleases ==
    [][\A w \in Worker, r \in Request :
          reservation[w] = r /\ reservation'[w] # r
              => \/ request[r].status # "CANCELLED" /\ request'[r].status = "CANCELLED"
                 \/ ~request[r].completed /\ request'[r].completed]_vars

\* "RESOLVED to REVIEWED ... Owning Resident only; one review"
\* (docs/ARCHITECTURE.md): the owner of a resolved complaint can review it. It does
\* not hold: once an admin deletes a reviewed complaint of the same worker, the
\* average that submitReview computes throws (complaints.service.ts:167).
ResolvedCanBeReviewed ==
    \A c \in Complaint :
        complaint[c].status = "RESOLVED" => \E a \in assignments : CanSubmitReview(c, a)

-----------------------------------------------------------------------------
(* Appointments and money. *)

\* Two requests of one worker or of one resident that were not cancelled
\* never hold overlapping appointments, whatever was rescheduled in between;
\* a completed request keeps its window.
NoDoubleBooking ==
    \A r, o \in Request :
        /\ r # o
        /\ request[r].appointment # NoWindow /\ request[o].appointment # NoWindow
        /\ request[r].status # "CANCELLED" /\ request[o].status # "CANCELLED"
        /\ \/ request[r].worker = request[o].worker
           \/ request[r].resident = request[o].resident
        => ~Overlap(request[r].appointment, request[o].appointment)

\* One external payment reference backs at most one payment record, through
\* rejected evidence and corrected reports.
ReferenceBacksOnePayment ==
    \A r, o \in Request :
        r # o /\ request[r].reference # NoReference => request[r].reference # request[o].reference

\* From scheduling on, the latest estimate is the approved one, and a
\* reported cost is within it: a revision submitted in between stops the
\* work until the resident decides.
WorkIsApproved ==
    \A r \in Request :
        request[r].status \in {"SCHEDULED", "IN_PROGRESS", "COMPLETED", "FINAL_COST_REJECTED",
                               "FINAL_COST_APPROVED"}
            => /\ ApprovedEstimate(request[r])
               /\ request[r].finalCost <= LatestEstimate(request[r]).amount

\* A payment record carries the final cost an authority approved against the
\* estimate the resident approved, and nothing said later changes it.
PaymentIsAuthorized ==
    \A r \in Request :
        request[r].payment # "NONE" =>
            /\ request[r].status = "FINAL_COST_APPROVED"
            /\ request[r].reviewApproved
            /\ request[r].reviewedEstimate = Len(request[r].estimates)
            /\ request[r].paid = request[r].finalCost
            /\ request[r].paid <= LatestEstimate(request[r]).amount
            /\ (request[r].payment \notin {"APPROVED"}) <=> (request[r].reference # NoReference)

\* No work goes on and no money is authorized beyond what was approved, while
\* estimates are revised and bills corrected.
NothingUnapproved == WorkIsApproved /\ PaymentIsAuthorized

=============================================================================
