----------------------------- MODULE PaidServices -----------------------------
(****************************************************************************)
(* The paid-service request, from submission to the worker's receipt:       *)
(* back-end/src/modules/paid-services/paid-services.service.ts and          *)
(* paid-service-evidence.service.ts.                                        *)
(*                                                                          *)
(* A handler is named after its method. Its parameter v is the version the  *)
(* client sends back: the handler runs only when nothing changed the        *)
(* request since the client read that version. Role checks are implied by   *)
(* the handler (resident, authority, assigned worker). Refusals because the *)
(* resident or the payee moved away are not modelled: they leave the state  *)
(* as it is. Notes, the activity history and the catalogue are left out.    *)
(****************************************************************************)
EXTENDS Complaints, SequencesExt

CONSTANTS
    Resident,       \* who a request belongs to
    ServiceWork,    \* specialization in the request's catalogue snapshot
    Amount,         \* amounts in paise the clients send
    Window,         \* appointment windows the clients ask for
    MaxWindow,      \* eight hours, in clock units
    NoWindow,       \* no appointment set
    Reference,      \* external payment references
    NoReference,    \* no reference reported
    NoResident,     \* request not created yet
    MaxEvidence,    \* at most this many receipt images (five in the code)
    MaxEstimates,   \* bound: estimates per request
    MaxVersion,     \* bound: mutations per request
    MaxTime         \* bound: the clock

ASSUME ServiceAssumption ==
    /\ ServiceWork \in [Request -> Specialty]
    /\ Amount \subseteq Nat \ {0}
    /\ Window \subseteq [from : Nat, to : Nat]
    /\ NoWindow \notin Window
    /\ NoReference \notin Reference
    /\ NoResident \notin Resident
    /\ {MaxWindow, MaxEvidence, MaxEstimates, MaxVersion, MaxTime} \subseteq Nat

VARIABLES
    request,   \* the stored requests
    now        \* Date.now()

serviceVars == <<request, now>>

ServiceStatus ==
    {"REQUESTED", "ASSIGNED", "AWAITING_ESTIMATE_APPROVAL", "ESTIMATE_REJECTED",
     "REVISION_REQUESTED", "ESTIMATE_APPROVED", "SCHEDULED", "IN_PROGRESS", "COMPLETED",
     "FINAL_COST_REJECTED", "FINAL_COST_APPROVED", "CANCELLED"}

EstimateType ==
    [amount : Amount, status : {"PENDING", "APPROVED", "REJECTED", "REVISION_REQUESTED"}]

PaymentStatus ==
    {"NONE", "APPROVED", "PAYMENT_REPORTED", "EVIDENCE_VERIFIED", "RECEIPT_CONFIRMED"}

\* One stored request. An estimate is known by its number in the list, and 0
\* stands for an id or an amount that is not set.
RequestType ==
    [status : ServiceStatus \cup {"NONE"},
     version : Nat,
     resident : Resident \cup {NoResident},
     worker : Worker \cup {NoWorker},
     estimates : Seq(EstimateType),
     approvedEstimate : Nat,
     appointment : Window \cup {NoWindow},
     started : BOOLEAN,
     completed : BOOLEAN,
     finalCost : Amount \cup {0},
     reviewApproved : BOOLEAN,       \* finalReview.approved
     reviewedEstimate : Nat,         \* finalReview.estimateId
     payment : PaymentStatus,
     paid : Amount \cup {0},         \* payment.amountPaise
     reference : Reference \cup {NoReference},
     evidence : Nat,                 \* evidence.length
     rated : BOOLEAN]                \* review

ServicesTypeOK ==
    /\ request \in [Request -> RequestType]
    /\ now \in Nat

BlankRequest ==
    [status |-> "NONE", version |-> 0, resident |-> NoResident, worker |-> NoWorker,
     estimates |-> <<>>, approvedEstimate |-> 0, appointment |-> NoWindow,
     started |-> FALSE, completed |-> FALSE, finalCost |-> 0,
     reviewApproved |-> FALSE, reviewedEstimate |-> 0,
     payment |-> "NONE", paid |-> 0, reference |-> NoReference, evidence |-> 0, rated |-> FALSE]

ServicesInit ==
    /\ request = [r \in Request |-> BlankRequest]
    /\ now = 0

-----------------------------------------------------------------------------

Created(r) == request[r].status # "NONE"

\* Mutant: any version the client ever saw is accepted.
AnyVersion(r, v) ==
    /\ Created(r)
    /\ request[r].version < MaxVersion

Mutation(r, v) ==
    /\ Created(r)
    /\ request[r].version = v
    /\ request[r].version < MaxVersion

\* change(): the new content q with its status and the next version.
Change(q, s) == [q EXCEPT !.status = s, !.version = @ + 1]

Store(r, q) == request' = [request EXCEPT ![r] = q]

LatestEstimate(q) == q.estimates[Len(q.estimates)]

\* approvedEstimate(): the latest estimate is the one the resident approved.
ApprovedEstimate(q) ==
    /\ q.estimates # <<>>
    /\ q.approvedEstimate = Len(q.estimates)
    /\ LatestEstimate(q).status = "APPROVED"

Overlap(a, b) == a.from < b.to /\ a.to > b.from

\* Mutant: only the worker's other appointments are looked at.
WorkerConflict(r, slot) ==
    \E o \in Request \ {r} :
        /\ request[o].status # "CANCELLED"
        /\ request[o].appointment # NoWindow
        /\ request[o].worker = request[r].worker
        /\ Overlap(slot, request[o].appointment)

AppointmentConflict(r, slot) ==
    \E o \in Request \ {r} :
        /\ request[o].status # "CANCELLED"
        /\ request[o].appointment # NoWindow
        /\ \/ request[o].worker = request[r].worker
           \/ request[o].resident = request[r].resident
        /\ Overlap(slot, request[o].appointment)

\* Mutant: only confirmed payments are looked at.
ReferenceReceived(ref) ==
    \E o \in Request : request[o].reference = ref /\ request[o].payment = "RECEIPT_CONFIRMED"

ReferenceTaken(ref) == \E o \in Request : request[o].reference = ref

-----------------------------------------------------------------------------
(* Handlers that touch only the request. *)

\* Repeating a submission with the same clientRequestId returns the stored
\* request, so one key stands for one request.
CreateRequest(r, res) ==
    /\ ~Created(r)
    /\ Store(r, [BlankRequest EXCEPT !.status = "REQUESTED", !.version = 1, !.resident = res])
    /\ UNCHANGED <<workforceVars, complaintVars, now>>

\* Mutant: a rejected bill may be answered with a new estimate.
CanReviseBill(q) ==
    q.status \in {"ASSIGNED", "ESTIMATE_REJECTED", "REVISION_REQUESTED", "ESTIMATE_APPROVED",
                  "SCHEDULED", "IN_PROGRESS", "FINAL_COST_REJECTED"}

CanEstimate(q) ==
    q.status \in {"ASSIGNED", "ESTIMATE_REJECTED", "REVISION_REQUESTED", "ESTIMATE_APPROVED",
                  "SCHEDULED", "IN_PROGRESS"}

SubmitEstimate(r, v, amount) ==
    LET q == request[r] IN
    /\ Mutation(r, v)
    /\ CanEstimate(q)
    /\ Len(q.estimates) < MaxEstimates
    /\ Store(r, [Change(q, "AWAITING_ESTIMATE_APPROVAL") EXCEPT
                    !.estimates = Append(@, [amount |-> amount, status |-> "PENDING"])])
    /\ UNCHANGED <<workforceVars, complaintVars, now>>

\* Where an approval resumes the work.
ResumedStatus(q) ==
    IF q.started THEN "IN_PROGRESS"
    ELSE IF q.appointment # NoWindow THEN "SCHEDULED"
    ELSE "ESTIMATE_APPROVED"

Decided(q, n, decision) == [q.estimates EXCEPT ![n].status = decision]

\* decideEstimate: n is the estimate the resident's screen showed. Approval
\* replaces the ceiling.
DecideEstimate(r, v, n, decision) ==
    LET q == request[r] IN
    /\ Mutation(r, v)
    /\ q.status = "AWAITING_ESTIMATE_APPROVAL"
    /\ n = Len(q.estimates)
    /\ LatestEstimate(q).status = "PENDING"
    /\ \/ /\ decision = "APPROVED"
          /\ Store(r, [Change(q, ResumedStatus(q)) EXCEPT
                          !.estimates = Decided(q, n, decision), !.approvedEstimate = n])
       \/ /\ decision = "REJECTED"
          /\ Store(r, [Change(q, "ESTIMATE_REJECTED") EXCEPT !.estimates = Decided(q, n, decision)])
       \/ /\ decision = "REVISION_REQUESTED"
          /\ Store(r, [Change(q, decision) EXCEPT !.estimates = Decided(q, n, decision)])
    /\ UNCHANGED <<workforceVars, complaintVars, now>>

\* schedule: by the resident or an authority, again while SCHEDULED.
Schedule(r, v, slot) ==
    LET q == request[r] IN
    /\ Mutation(r, v)
    /\ q.status \in {"ESTIMATE_APPROVED", "SCHEDULED"}
    /\ ApprovedEstimate(q)
    /\ now < slot.from
    /\ slot.from < slot.to
    /\ slot.to - slot.from <= MaxWindow
    /\ ~AppointmentConflict(r, slot)
    /\ Store(r, [Change(q, "SCHEDULED") EXCEPT !.appointment = slot])
    /\ UNCHANGED <<workforceVars, complaintVars, now>>

Start(r, v) ==
    LET q == request[r] IN
    /\ Mutation(r, v)
    /\ q.status = "SCHEDULED"
    /\ ApprovedEstimate(q)
    /\ q.appointment # NoWindow
    /\ q.appointment.from <= now
    /\ now < q.appointment.to
    /\ Store(r, [Change(q, "IN_PROGRESS") EXCEPT !.started = TRUE])
    /\ UNCHANGED <<workforceVars, complaintVars, now>>

Progress(r, v) ==
    LET q == request[r] IN
    /\ Mutation(r, v)
    /\ q.status = "IN_PROGRESS"
    /\ ApprovedEstimate(q)
    /\ Store(r, Change(q, q.status))
    /\ UNCHANGED <<workforceVars, complaintVars, now>>

ReviewFinalCost(r, v, approved) ==
    LET q == request[r] IN
    /\ Mutation(r, v)
    /\ q.status = "COMPLETED"
    /\ ApprovedEstimate(q)
    /\ q.completed
    /\ q.finalCost # 0
    /\ q.finalCost <= LatestEstimate(q).amount
    /\ Store(r, [Change(q, IF approved THEN "FINAL_COST_APPROVED" ELSE "FINAL_COST_REJECTED")
                 EXCEPT !.reviewApproved = approved, !.reviewedEstimate = Len(q.estimates)])
    /\ UNCHANGED <<workforceVars, complaintVars, now>>

CanApprovePayment(q) ==
    /\ q.status = "FINAL_COST_APPROVED"
    /\ q.payment = "NONE"
    /\ ApprovedEstimate(q)
    /\ q.reviewApproved
    /\ q.reviewedEstimate = Len(q.estimates)
    /\ q.finalCost # 0
    /\ q.finalCost <= LatestEstimate(q).amount

ApprovePayment(r, v) ==
    LET q == request[r] IN
    /\ Mutation(r, v)
    /\ CanApprovePayment(q)
    /\ Store(r, [Change(q, q.status) EXCEPT !.payment = "APPROVED", !.paid = q.finalCost])
    /\ UNCHANGED <<workforceVars, complaintVars, now>>

\* addEvidence sends no version but increments it.
AddEvidence(r) ==
    LET q == request[r] IN
    /\ q.version < MaxVersion
    /\ q.payment = "APPROVED"
    /\ q.evidence < MaxEvidence
    /\ Store(r, [Change(q, q.status) EXCEPT !.evidence = @ + 1])
    /\ UNCHANGED <<workforceVars, complaintVars, now>>

ReportPayment(r, v, ref) ==
    LET q == request[r] IN
    /\ Mutation(r, v)
    /\ q.payment = "APPROVED"
    /\ q.evidence > 0
    /\ ~ReferenceTaken(ref)
    /\ Store(r, [Change(q, q.status) EXCEPT !.payment = "PAYMENT_REPORTED", !.reference = ref])
    /\ UNCHANGED <<workforceVars, complaintVars, now>>

\* verifyPayment: a rejection clears the reference, which may be used again.
VerifyPayment(r, v, approved) ==
    LET q == request[r] IN
    /\ Mutation(r, v)
    /\ q.payment = "PAYMENT_REPORTED"
    /\ IF approved
       THEN Store(r, [Change(q, q.status) EXCEPT !.payment = "EVIDENCE_VERIFIED"])
       ELSE Store(r, [Change(q, q.status) EXCEPT !.payment = "APPROVED", !.reference = NoReference])
    /\ UNCHANGED <<workforceVars, complaintVars, now>>

ConfirmReceipt(r, v) ==
    LET q == request[r] IN
    /\ Mutation(r, v)
    /\ q.payment = "EVIDENCE_VERIFIED"
    /\ Store(r, [Change(q, q.status) EXCEPT !.payment = "RECEIPT_CONFIRMED"])
    /\ UNCHANGED <<workforceVars, complaintVars, now>>

Review(r, v) ==
    LET q == request[r] IN
    /\ Mutation(r, v)
    /\ q.status = "FINAL_COST_APPROVED"
    /\ ~q.rated
    /\ Store(r, [Change(q, q.status) EXCEPT !.rated = TRUE])
    /\ UNCHANGED <<workforceVars, complaintVars, now>>

-----------------------------------------------------------------------------
(* Handlers that also reserve or release the worker. *)

Assign(r, v, w) ==
    LET q == request[r] IN
    /\ Mutation(r, v)
    /\ q.status = "REQUESTED"
    /\ specialization[w] = ServiceWork[r]
    /\ ~HasActiveAssignment(w)
    /\ ReservePaidService(w, r)
    /\ Store(r, [Change(q, "ASSIGNED") EXCEPT !.worker = w])
    /\ UNCHANGED <<specialization, recordVars, complaintVars, now>>

\* Mutant: every completion releases the worker, a corrected bill's too.
ReleaseAnyWorker(q, r) ==
    /\ reservation' = [reservation EXCEPT ![q.worker] = NoRequest]
    /\ UpdateSystemStatus(q.worker, "AVAILABLE")

ReleaseFirstTime(q, r) ==
    IF q.completed THEN UNCHANGED <<status, reservation>>
    ELSE ReleasePaidService(q.worker, r)

\* complete: a first completion releases the worker, a corrected bill does not.
Complete(r, v, cost) ==
    LET q == request[r] IN
    /\ Mutation(r, v)
    /\ q.status \in {"IN_PROGRESS", "FINAL_COST_REJECTED"}
    /\ ApprovedEstimate(q)
    /\ cost <= LatestEstimate(q).amount
    /\ ReleaseFirstTime(q, r)
    /\ Store(r, [Change(q, "COMPLETED") EXCEPT !.finalCost = cost, !.completed = TRUE])
    /\ UNCHANGED <<specialization, recordVars, complaintVars, now>>

Cancel(r, v) ==
    LET q == request[r] IN
    /\ Mutation(r, v)
    /\ ~q.started /\ q.status # "CANCELLED" /\ q.payment = "NONE"
    /\ IF q.worker = NoWorker THEN UNCHANGED <<status, reservation>>
       ELSE ReleasePaidService(q.worker, r)
    /\ Store(r, Change(q, "CANCELLED"))
    /\ UNCHANGED <<specialization, recordVars, complaintVars, now>>

-----------------------------------------------------------------------------

\* Every mutation a client may send for request r with version v.
ServiceMutation(r, v) ==
    \/ \E w \in Worker : Assign(r, v, w)
    \/ \E amount \in Amount : SubmitEstimate(r, v, amount) \/ Complete(r, v, amount)
    \/ \E n \in 1..MaxEstimates, d \in {"APPROVED", "REJECTED", "REVISION_REQUESTED"} :
           DecideEstimate(r, v, n, d)
    \/ \E slot \in Window : Schedule(r, v, slot)
    \/ Start(r, v) \/ Progress(r, v)
    \/ \E approved \in BOOLEAN : ReviewFinalCost(r, v, approved) \/ VerifyPayment(r, v, approved)
    \/ ApprovePayment(r, v)
    \/ \E ref \in Reference : ReportPayment(r, v, ref)
    \/ ConfirmReceipt(r, v) \/ Review(r, v) \/ Cancel(r, v)

Tick ==
    /\ now < MaxTime
    /\ now' = now + 1
    /\ UNCHANGED <<workforceVars, complaintVars, request>>

ServicesNext ==
    \/ \E r \in Request :
           \/ \E res \in Resident : CreateRequest(r, res)
           \/ \E v \in 1..MaxVersion : ServiceMutation(r, v)
           \/ AddEvidence(r)
    \/ Tick

=============================================================================
