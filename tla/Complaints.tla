------------------------------ MODULE Complaints ------------------------------
(****************************************************************************)
(* The complaint workflow and its worker assignments:                       *)
(* back-end/src/modules/complaints/complaints.service.ts, with the proof    *)
(* upload of back-end/src/modules/attachments/attachments.service.ts.       *)
(*                                                                          *)
(* "Authority" in a comment is the responsible Community Admin or Tower     *)
(* Representative. Titles, descriptions, resident photos and the numeric    *)
(* rating are left out; PATCH /complaints/:id changes only those.           *)
(****************************************************************************)
EXTENDS Workforce, FiniteSets

CONSTANTS
    RequiredWorkType,   \* the specialization each complaint asks for
    NoWorker            \* assignedWorkerId is not set

ASSUME RequiredWorkTypeAssumption == RequiredWorkType \in [Complaint -> Specialty]
ASSUME NoWorkerAssumption == NoWorker \notin Worker

VARIABLES
    complaint,     \* the stored complaints; "NONE" not created yet, "DELETED" removed
    assignments,   \* the service's private list of ComplaintAssignment
    reviews        \* the service's private list of ComplaintReview

complaintVars == <<complaint, assignments, reviews>>

ComplaintStatus ==
    {"SUBMITTED", "UNDER_REVIEW", "ASSIGNED", "IN_PROGRESS",
     "PENDING_VERIFICATION", "RESOLVED", "REVIEWED", "CLOSED"}

ComplaintType ==
    [status : ComplaintStatus \cup {"NONE", "DELETED"},
     assignedWorker : Worker \cup {NoWorker},
     hasProof : BOOLEAN]      \* an uploaded attachment with purpose RESOLUTION_PROOF

AssignmentType ==
    [complaint : Complaint, worker : Worker, status : {"ASSIGNED", "IN_PROGRESS", "COMPLETED"}]

ReviewType == [complaint : Complaint, worker : Worker]

ComplaintsTypeOK ==
    /\ complaint \in [Complaint -> ComplaintType]
    /\ assignments \in SUBSET AssignmentType
    /\ reviews \in SUBSET ReviewType

NewComplaint(s) == [status |-> s, assignedWorker |-> NoWorker, hasProof |-> FALSE]

ComplaintsInit ==
    /\ complaint \in [Complaint -> {NewComplaint("NONE"), NewComplaint("SUBMITTED")}]
    /\ assignments = {}
    /\ reviews = {}

-----------------------------------------------------------------------------

Stored(c) == complaint[c].status \in ComplaintStatus

ActiveAssignments == {a \in assignments : a.status # "COMPLETED"}

\* Mutant: the worker's status is trusted instead of the assignments.
IsBusy(w) == status[w] = "BUSY"

HasActiveAssignment(w) == \E a \in ActiveAssignments : a.worker = w

UpdateStatus(c, s) == complaint' = [complaint EXCEPT ![c].status = s]

SetAssignment(a, s) == assignments' = (assignments \ {a}) \cup {[a EXCEPT !.status = s]}

CreateComplaint(c) ==
    /\ complaint[c].status = "NONE"
    /\ complaint' = [complaint EXCEPT ![c] = NewComplaint("SUBMITTED")]
    /\ UNCHANGED <<workforceVars, assignments, reviews>>

\* Only the stored complaint goes: assignments, reviews and the worker's
\* status are not touched.
DeleteComplaint(c) ==
    /\ Stored(c)
    /\ complaint' = [complaint EXCEPT ![c] = NewComplaint("DELETED")]
    /\ UNCHANGED <<workforceVars, assignments, reviews>>

\* transitionStatus: the two generic transitions, by the authority.
TransitionStatus(c) ==
    /\ \/ complaint[c].status = "SUBMITTED" /\ UpdateStatus(c, "UNDER_REVIEW")
       \/ complaint[c].status = "REVIEWED" /\ UpdateStatus(c, "CLOSED")
    /\ UNCHANGED <<workforceVars, assignments, reviews>>

\* The guards of assignWorker, in the code's order.
CanAssignWorker(c, w) ==
    /\ complaint[c].status = "UNDER_REVIEW"
    /\ complaint[c].assignedWorker = NoWorker
    /\ ~\E a \in ActiveAssignments : a.complaint = c
    /\ AssertValidAssignmentTarget(w)
    /\ status[w] = "AVAILABLE"
    /\ specialization[w] = RequiredWorkType[c]
    /\ ~HasActiveAssignment(w)

AssignWorker(c, w) ==
    /\ CanAssignWorker(c, w)
    /\ assignments' = assignments \cup {[complaint |-> c, worker |-> w, status |-> "ASSIGNED"]}
    /\ UpdateSystemStatus(w, "BUSY")
    /\ complaint' = [complaint EXCEPT ![c].status = "ASSIGNED", ![c].assignedWorker = w]
    /\ UNCHANGED <<specialization, reservation, workHistory, completedWorkCount, reviews>>

\* a is the active assignment of complaint c, and its worker is the caller.
ActiveAssignment(c, a) ==
    /\ Stored(c)
    /\ a \in ActiveAssignments
    /\ a.complaint = c
    /\ complaint[c].assignedWorker = a.worker

StartWork(c) ==
    \E a \in assignments :
        /\ ActiveAssignment(c, a)
        /\ complaint[c].status = "ASSIGNED"
        /\ SetAssignment(a, "IN_PROGRESS")
        /\ UpdateStatus(c, "IN_PROGRESS")
        /\ UNCHANGED <<workforceVars, reviews>>

\* Attachments.upload by the assigned worker while the work is in progress.
UploadProof(c) ==
    /\ complaint[c].status = "IN_PROGRESS"
    /\ \E a \in assignments : ActiveAssignment(c, a)
    /\ complaint' = [complaint EXCEPT ![c].hasProof = TRUE]
    /\ UNCHANGED <<workforceVars, assignments, reviews>>

\* resolveWork: the worker becomes AVAILABLE whatever its status was.
ResolveWork(c) ==
    \E a \in assignments :
        /\ ActiveAssignment(c, a)
        /\ complaint[c].status = "IN_PROGRESS"
        /\ complaint[c].hasProof
        /\ SetAssignment(a, "COMPLETED")
        /\ UpdateSystemStatus(a.worker, "AVAILABLE")
        /\ UpdateStatus(c, "PENDING_VERIFICATION")
        /\ UNCHANGED <<specialization, reservation, workHistory, completedWorkCount, reviews>>

\* a is the completed assignment of complaint c.
CompletedAssignment(c, a) == a.complaint = c /\ a.status = "COMPLETED"

VerifyResolution(c) ==
    \E a \in assignments :
        /\ complaint[c].status = "PENDING_VERIFICATION"
        /\ CompletedAssignment(c, a)
        /\ AddCompletedComplaint(a.worker, c)
        /\ UpdateStatus(c, "RESOLVED")
        /\ UNCHANGED <<status, specialization, reservation, completedWorkCount, assignments, reviews>>

\* The guards of submitReview. The new rating is recomputed over every review
\* of the worker, and looking up a reviewed complaint that is no longer
\* stored throws.
CanSubmitReview(c, a) ==
    /\ complaint[c].status = "RESOLVED"
    /\ ~\E v \in reviews : v.complaint = c
    /\ CompletedAssignment(c, a)
    /\ \A v \in reviews : v.worker = a.worker => Stored(v.complaint)

SubmitReview(c) ==
    \E a \in assignments :
        /\ CanSubmitReview(c, a)
        /\ reviews' = reviews \cup {[complaint |-> c, worker |-> a.worker]}
        /\ UpdatePerformance(a.worker, Cardinality({v \in reviews : v.worker = a.worker}) + 1)
        /\ UpdateStatus(c, "REVIEWED")
        /\ UNCHANGED <<status, specialization, reservation, workHistory, assignments>>

ComplaintsNext ==
    \E c \in Complaint :
        \/ CreateComplaint(c) \/ DeleteComplaint(c) \/ TransitionStatus(c)
        \/ \E w \in Worker : AssignWorker(c, w)
        \/ StartWork(c) \/ UploadProof(c) \/ ResolveWork(c)
        \/ VerifyResolution(c) \/ SubmitReview(c)

=============================================================================
