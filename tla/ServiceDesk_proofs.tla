-------------------------- MODULE ServiceDesk_proofs --------------------------
(****************************************************************************)
(* Proofs about ServiceDesk, ServiceForms and VisitDesk, for any number of  *)
(* workers, complaints, requests and visits: the stores agree on who works  *)
(* for whom, the pool implements OneJob, appointments, references, work and *)
(* money are as approved, and visits are held by those and when they say.   *)
(****************************************************************************)
EXTENDS ServiceForms, VisitPages, SequenceTheorems, FiniteSetTheorems, TLAPS

FreshStatus == {"NONE", "REQUESTED"}

\* The request before and after a handler that leaves the worker alone.
SameJob(p, q) ==
    /\ q.worker = p.worker
    /\ q.completed = p.completed
    /\ (q.status = "CANCELLED") <=> (p.status = "CANCELLED")
    /\ q.status \in FreshStatus <=> p.status \in FreshStatus

Routine(r) ==
    \E q \in RequestType :
        /\ SameJob(request[r], q)
        /\ Store(r, q)
        /\ UNCHANGED <<workforceVars, complaintVars, now>>

-----------------------------------------------------------------------------
(* Stored records. *)

\* change() keeps a request well typed and touches the status and the version.
LEMMA ChangeType ==
    ASSUME NEW q \in RequestType, NEW s \in ServiceStatus \cup {"NONE"}
    PROVE  /\ Change(q, s) \in RequestType
           /\ Change(q, s).status = s
           /\ Change(q, s).worker = q.worker
           /\ Change(q, s).completed = q.completed
           /\ Change(q, s).estimates = q.estimates
<1>1. ASSUME NEW v \in Nat
      PROVE  [q EXCEPT !.status = s, !.version = v] \in RequestType
      BY <1>1 DEF RequestType
<1>2. q.version + 1 \in Nat
      BY DEF RequestType
<1>3. Change(q, s) \in RequestType
      BY <1>1, <1>2 DEF Change
<1>4. /\ Change(q, s).status = s
      /\ Change(q, s).worker = q.worker
      /\ Change(q, s).completed = q.completed
      /\ Change(q, s).estimates = q.estimates
      BY DEF RequestType, Change
<1> QED
    BY <1>3, <1>4

\* Deciding an estimate keeps the list of estimates well typed.
LEMMA DecidedType ==
    ASSUME NEW q \in RequestType, NEW n \in 1..Len(q.estimates),
           NEW d \in {"APPROVED", "REJECTED", "REVISION_REQUESTED"}
    PROVE  Decided(q, n, d) \in Seq(EstimateType)
<1>1. q.estimates \in Seq(EstimateType)
      BY DEF RequestType
<1>2. q.estimates[n] \in EstimateType
      BY <1>1
<1>3. [q.estimates[n] EXCEPT !.status = d] \in EstimateType
      BY <1>2 DEF EstimateType
<1>4. [q.estimates EXCEPT ![n] = [q.estimates[n] EXCEPT !.status = d]] \in Seq(EstimateType)
      BY <1>1, <1>3, ExceptSeq
<1> QED
    BY <1>4 DEF Decided

\* A request that was not created yet is well typed.
LEMMA BlankType == BlankRequest \in RequestType
<1>1. <<>> \in Seq(EstimateType) /\ "NONE" \in PaymentStatus
      BY DEF PaymentStatus
<1> QED
    BY <1>1 DEF RequestType, BlankRequest

\* A request with a decided list of estimates is well typed.
LEMMA DecidedRequestType ==
    ASSUME NEW p \in RequestType, NEW es \in Seq(EstimateType), NEW n \in Nat
    PROVE  /\ [p EXCEPT !.estimates = es] \in RequestType
           /\ [p EXCEPT !.estimates = es, !.approvedEstimate = n] \in RequestType
<1>1. [p EXCEPT !.estimates = es] \in RequestType
      BY DEF RequestType
<1>2. [p EXCEPT !.estimates = es, !.approvedEstimate = n] \in RequestType
      BY DEF RequestType
<1> QED
    BY <1>1, <1>2

\* How a handler of one request shows that it is routine.
LEMMA RoutineStep ==
    ASSUME NEW r \in Request, NEW q \in RequestType, SameJob(request[r], q), Store(r, q),
           UNCHANGED <<workforceVars, complaintVars, now>>
    PROVE  Routine(r)
    BY DEF Routine

-----------------------------------------------------------------------------
(* Every handler of a request but assign, complete and cancel is routine. *)

\* A submission is routine: the new request has no worker yet.
LEMMA CreateRequestRoutine ==
    ASSUME TypeOK, NEW r \in Request, NEW res \in Resident, CreateRequest(r, res),
           request[r].worker = NoWorker, ~request[r].completed
    PROVE  Routine(r)
<1> DEFINE q == [BlankRequest EXCEPT !.status = "REQUESTED", !.version = 1, !.resident = res]
<1>1. q \in RequestType
      BY BlankType DEF RequestType, ServiceStatus
<1>2. /\ q.status = "REQUESTED"
      /\ q.worker = NoWorker
      /\ q.completed = FALSE
      BY DEF BlankRequest
<1>3. request[r].status = "NONE" /\ request[r].completed = FALSE
      BY DEF CreateRequest, Created, TypeOK, ServicesTypeOK, RequestType
<1>4. SameJob(request[r], q)
      BY <1>2, <1>3 DEF SameJob, FreshStatus
<1> QED
    BY <1>1, <1>4, RoutineStep DEF CreateRequest

\* An estimate is routine: it stops the work but keeps the worker.
LEMMA SubmitEstimateRoutine ==
    ASSUME TypeOK, NEW r \in Request, NEW v, NEW amount \in Amount, SubmitEstimate(r, v, amount)
    PROVE  Routine(r)
<1> DEFINE p == Change(request[r], "AWAITING_ESTIMATE_APPROVAL")
           q == [p EXCEPT !.estimates = Append(@, [amount |-> amount, status |-> "PENDING"])]
<1>1. request[r] \in RequestType
      BY DEF TypeOK, ServicesTypeOK
<1>2. /\ p \in RequestType /\ p.status = "AWAITING_ESTIMATE_APPROVAL"
      /\ p.worker = request[r].worker /\ p.completed = request[r].completed
      BY <1>1, ChangeType DEF ServiceStatus
<1>3. Append(p.estimates, [amount |-> amount, status |-> "PENDING"]) \in Seq(EstimateType)
      BY <1>2 DEF RequestType, EstimateType
<1>4. q \in RequestType
      BY <1>2, <1>3 DEF RequestType
<1>5. q.status = p.status /\ q.worker = p.worker /\ q.completed = p.completed
      BY <1>2 DEF RequestType
<1>6. SameJob(request[r], q)
      BY <1>2, <1>5 DEF SubmitEstimate, CanEstimate, SameJob, FreshStatus
<1> QED
    BY <1>4, <1>6, RoutineStep DEF SubmitEstimate

\* Scheduling is routine.
LEMMA ScheduleRoutine ==
    ASSUME TypeOK, NEW r \in Request, NEW v, NEW slot \in Window, Schedule(r, v, slot)
    PROVE  Routine(r)
<1> DEFINE p == Change(request[r], "SCHEDULED")
           q == [p EXCEPT !.appointment = slot]
<1>1. request[r] \in RequestType
      BY DEF TypeOK, ServicesTypeOK
<1>2. /\ p \in RequestType /\ p.status = "SCHEDULED"
      /\ p.worker = request[r].worker /\ p.completed = request[r].completed
      BY <1>1, ChangeType DEF ServiceStatus
<1>3. q \in RequestType
      BY <1>2 DEF RequestType
<1>4. q.status = p.status /\ q.worker = p.worker /\ q.completed = p.completed
      BY <1>2 DEF RequestType
<1>5. SameJob(request[r], q)
      BY <1>2, <1>4 DEF Schedule, SameJob, FreshStatus
<1> QED
    BY <1>3, <1>5, RoutineStep DEF Schedule

\* Starting the work is routine.
LEMMA StartRoutine ==
    ASSUME TypeOK, NEW r \in Request, NEW v, Start(r, v)
    PROVE  Routine(r)
<1> DEFINE p == Change(request[r], "IN_PROGRESS")
           q == [p EXCEPT !.started = TRUE]
<1>1. request[r] \in RequestType
      BY DEF TypeOK, ServicesTypeOK
<1>2. /\ p \in RequestType /\ p.status = "IN_PROGRESS"
      /\ p.worker = request[r].worker /\ p.completed = request[r].completed
      BY <1>1, ChangeType DEF ServiceStatus
<1>3. q \in RequestType
      BY <1>2 DEF RequestType
<1>4. q.status = p.status /\ q.worker = p.worker /\ q.completed = p.completed
      BY <1>2 DEF RequestType
<1>5. SameJob(request[r], q)
      BY <1>2, <1>4 DEF Start, SameJob, FreshStatus
<1> QED
    BY <1>3, <1>5, RoutineStep DEF Start

\* A progress note is routine.
LEMMA ProgressRoutine ==
    ASSUME TypeOK, NEW r \in Request, NEW v, Progress(r, v)
    PROVE  Routine(r)
<1> DEFINE p == Change(request[r], request[r].status)
<1>1. request[r] \in RequestType
      BY DEF TypeOK, ServicesTypeOK
<1>2. /\ p \in RequestType /\ p.status = request[r].status
      /\ p.worker = request[r].worker /\ p.completed = request[r].completed
      BY <1>1, ChangeType DEF RequestType
<1>3. SameJob(request[r], p)
      BY <1>2 DEF Progress, SameJob, FreshStatus
<1> QED
    BY <1>2, <1>3, RoutineStep DEF Progress

\* A request keeps its shape when the review of its final cost is written down.
LEMMA ReviewedType ==
    ASSUME NEW p \in RequestType, NEW approved \in BOOLEAN, NEW n \in Nat
    PROVE  [p EXCEPT !.reviewApproved = approved, !.reviewedEstimate = n] \in RequestType
BY ZenonT(30) DEF RequestType

\* The authority's decision on the final cost is routine.
LEMMA ReviewFinalCostRoutine ==
    ASSUME TypeOK, NEW r \in Request, NEW v, NEW approved \in BOOLEAN, ReviewFinalCost(r, v, approved)
    PROVE  Routine(r)
<1> DEFINE p == Change(request[r], IF approved THEN "FINAL_COST_APPROVED" ELSE "FINAL_COST_REJECTED")
           n == Len(request[r].estimates)
           q == [p EXCEPT !.reviewApproved = approved, !.reviewedEstimate = n]
<1>1. request[r] \in RequestType
      BY DEF TypeOK, ServicesTypeOK
<1>2. /\ p \in RequestType /\ p.status = IF approved THEN "FINAL_COST_APPROVED" ELSE "FINAL_COST_REJECTED"
      /\ p.worker = request[r].worker /\ p.completed = request[r].completed
      BY <1>1, ChangeType DEF ServiceStatus
<1>3. n \in Nat
      BY <1>1 DEF RequestType
<1>4. q \in RequestType
  <2> HIDE DEF p, n
  <2> QED
      BY <1>2, <1>3, ReviewedType, ZenonT(30)
<1>5. q.status = p.status /\ q.worker = p.worker /\ q.completed = p.completed
      BY <1>2 DEF RequestType
<1>6. SameJob(request[r], q)
      BY <1>2, <1>5 DEF ReviewFinalCost, SameJob, FreshStatus
<1> QED
    BY <1>4, <1>6, RoutineStep DEF ReviewFinalCost

\* Authorizing the payment is routine.
LEMMA ApprovePaymentRoutine ==
    ASSUME TypeOK, NEW r \in Request, NEW v, ApprovePayment(r, v)
    PROVE  Routine(r)
<1> DEFINE p == Change(request[r], request[r].status)
           q == [p EXCEPT !.payment = "APPROVED", !.paid = request[r].finalCost]
<1>1. request[r] \in RequestType
      BY DEF TypeOK, ServicesTypeOK
<1>2. /\ p \in RequestType /\ p.status = request[r].status
      /\ p.worker = request[r].worker /\ p.completed = request[r].completed
      BY <1>1, ChangeType DEF RequestType
<1>3. request[r].finalCost \in Amount \cup {0} /\ "APPROVED" \in PaymentStatus
      BY <1>1 DEF RequestType, PaymentStatus
<1>4. q \in RequestType
      BY <1>2, <1>3 DEF RequestType
<1>5. q.status = p.status /\ q.worker = p.worker /\ q.completed = p.completed
      BY <1>2 DEF RequestType
<1>6. SameJob(request[r], q)
      BY <1>2, <1>5 DEF SameJob, FreshStatus
<1> QED
    BY <1>4, <1>6, RoutineStep DEF ApprovePayment

\* Uploading a receipt is routine.
LEMMA AddEvidenceRoutine ==
    ASSUME TypeOK, NEW r \in Request, AddEvidence(r)
    PROVE  Routine(r)
<1> DEFINE p == Change(request[r], request[r].status)
           q == [p EXCEPT !.evidence = @ + 1]
<1>1. request[r] \in RequestType
      BY DEF TypeOK, ServicesTypeOK
<1>2. /\ p \in RequestType /\ p.status = request[r].status
      /\ p.worker = request[r].worker /\ p.completed = request[r].completed
      BY <1>1, ChangeType DEF RequestType
<1>3. p.evidence + 1 \in Nat
      BY <1>2 DEF RequestType
<1>4. q \in RequestType
      BY <1>2, <1>3 DEF RequestType
<1>5. q.status = p.status /\ q.worker = p.worker /\ q.completed = p.completed
      BY <1>2 DEF RequestType
<1>6. SameJob(request[r], q)
      BY <1>2, <1>5 DEF SameJob, FreshStatus
<1> QED
    BY <1>4, <1>6, RoutineStep DEF AddEvidence

\* Reporting the payment is routine.
LEMMA ReportPaymentRoutine ==
    ASSUME TypeOK, NEW r \in Request, NEW v, NEW ref \in Reference, ReportPayment(r, v, ref)
    PROVE  Routine(r)
<1> DEFINE p == Change(request[r], request[r].status)
           q == [p EXCEPT !.payment = "PAYMENT_REPORTED", !.reference = ref]
<1>1. request[r] \in RequestType
      BY DEF TypeOK, ServicesTypeOK
<1>2. /\ p \in RequestType /\ p.status = request[r].status
      /\ p.worker = request[r].worker /\ p.completed = request[r].completed
      BY <1>1, ChangeType DEF RequestType
<1>3. "PAYMENT_REPORTED" \in PaymentStatus
      BY DEF PaymentStatus
<1>4. q \in RequestType
      BY <1>2, <1>3 DEF RequestType
<1>5. q.status = p.status /\ q.worker = p.worker /\ q.completed = p.completed
      BY <1>2 DEF RequestType
<1>6. SameJob(request[r], q)
      BY <1>2, <1>5 DEF SameJob, FreshStatus
<1> QED
    BY <1>4, <1>6, RoutineStep DEF ReportPayment

\* The worker's receipt is routine.
LEMMA ConfirmReceiptRoutine ==
    ASSUME TypeOK, NEW r \in Request, NEW v, ConfirmReceipt(r, v)
    PROVE  Routine(r)
<1> DEFINE p == Change(request[r], request[r].status)
           q == [p EXCEPT !.payment = "RECEIPT_CONFIRMED"]
<1>1. request[r] \in RequestType
      BY DEF TypeOK, ServicesTypeOK
<1>2. /\ p \in RequestType /\ p.status = request[r].status
      /\ p.worker = request[r].worker /\ p.completed = request[r].completed
      BY <1>1, ChangeType DEF RequestType
<1>3. "RECEIPT_CONFIRMED" \in PaymentStatus
      BY DEF PaymentStatus
<1>4. q \in RequestType
      BY <1>2, <1>3 DEF RequestType
<1>5. q.status = p.status /\ q.worker = p.worker /\ q.completed = p.completed
      BY <1>2 DEF RequestType
<1>6. SameJob(request[r], q)
      BY <1>2, <1>5 DEF SameJob, FreshStatus
<1> QED
    BY <1>4, <1>6, RoutineStep DEF ConfirmReceipt

\* The resident's review is routine.
LEMMA ReviewRoutine ==
    ASSUME TypeOK, NEW r \in Request, NEW v, Review(r, v)
    PROVE  Routine(r)
<1> DEFINE p == Change(request[r], request[r].status)
           q == [p EXCEPT !.rated = TRUE]
<1>1. request[r] \in RequestType
      BY DEF TypeOK, ServicesTypeOK
<1>2. /\ p \in RequestType /\ p.status = request[r].status
      /\ p.worker = request[r].worker /\ p.completed = request[r].completed
      BY <1>1, ChangeType DEF RequestType
<1>3. q \in RequestType
      BY <1>2 DEF RequestType
<1>4. q.status = p.status /\ q.worker = p.worker /\ q.completed = p.completed
      BY <1>2 DEF RequestType
<1>5. SameJob(request[r], q)
      BY <1>2, <1>4 DEF SameJob, FreshStatus
<1> QED
    BY <1>3, <1>5, RoutineStep DEF Review

\* Each of the three decisions on an estimate is routine.
LEMMA DecideEstimateRoutine ==
    ASSUME TypeOK, NEW r \in Request, NEW v, NEW n \in 1..MaxEstimates,
           NEW d \in {"APPROVED", "REJECTED", "REVISION_REQUESTED"}, DecideEstimate(r, v, n, d)
    PROVE  Routine(r)
<1> DEFINE s == IF d = "APPROVED" THEN ResumedStatus(request[r])
                ELSE IF d = "REJECTED" THEN "ESTIMATE_REJECTED" ELSE d
           p == Change(request[r], s)
           es == Decided(request[r], n, d)
<1>1. request[r] \in RequestType
      BY DEF TypeOK, ServicesTypeOK
<1>2. /\ s \in ServiceStatus
      /\ s # "CANCELLED"
      /\ s # "REQUESTED"
      BY DEF ResumedStatus, ServiceStatus
<1>3. /\ p \in RequestType /\ p.status = s
      /\ p.worker = request[r].worker /\ p.completed = request[r].completed
      BY <1>1, <1>2, ChangeType
<1>4. n \in 1..Len(request[r].estimates)
      BY <1>1 DEF DecideEstimate, RequestType
<1>5. es \in Seq(EstimateType)
      BY <1>1, <1>4, DecidedType
<1>6. ASSUME NEW q \in {[p EXCEPT !.estimates = es], [p EXCEPT !.estimates = es, !.approvedEstimate = n]}
      PROVE  q \in RequestType /\ SameJob(request[r], q)
  <2>1. q \in RequestType
    <3>1. n \in Nat
      <4>1. Len(request[r].estimates) \in Nat
            BY <1>1 DEF RequestType
      <4> QED
          BY <1>4, <4>1
    <3>2. /\ [p EXCEPT !.estimates = es] \in RequestType
          /\ [p EXCEPT !.estimates = es, !.approvedEstimate = n] \in RequestType
      <4> HIDE DEF p, es
      <4> QED
          BY <1>3, <1>5, <3>1, DecidedRequestType
    <3> HIDE DEF p, es
    <3> QED
        BY <3>2
  <2>2. q.status = p.status /\ q.worker = p.worker /\ q.completed = p.completed
        BY <1>3 DEF RequestType
  <2>3. s \notin FreshStatus
        BY <1>2 DEF FreshStatus, ServiceStatus
  <2>4. request[r].status # "CANCELLED" /\ request[r].status \notin FreshStatus
        BY DEF DecideEstimate, FreshStatus
  <2> QED
      BY <1>2, <1>3, <2>1, <2>2, <2>3, <2>4 DEF SameJob
<1>7. \/ Store(r, [p EXCEPT !.estimates = es])
      \/ Store(r, [p EXCEPT !.estimates = es, !.approvedEstimate = n])
      BY DEF DecideEstimate
<1> QED
    BY <1>6, <1>7, RoutineStep DEF DecideEstimate

\* Accepting or rejecting the evidence is routine.
LEMMA VerifyPaymentRoutine ==
    ASSUME TypeOK, NEW r \in Request, NEW v, NEW approved \in BOOLEAN, VerifyPayment(r, v, approved)
    PROVE  Routine(r)
<1> DEFINE p == Change(request[r], request[r].status)
<1>1. request[r] \in RequestType
      BY DEF TypeOK, ServicesTypeOK
<1>2. /\ p \in RequestType /\ p.status = request[r].status
      /\ p.worker = request[r].worker /\ p.completed = request[r].completed
      BY <1>1, ChangeType DEF RequestType
<1>3. ASSUME NEW q \in {[p EXCEPT !.payment = "EVIDENCE_VERIFIED"],
                        [p EXCEPT !.payment = "APPROVED", !.reference = NoReference]}
      PROVE  q \in RequestType /\ SameJob(request[r], q)
  <2>1. "EVIDENCE_VERIFIED" \in PaymentStatus /\ "APPROVED" \in PaymentStatus
        BY DEF PaymentStatus
  <2>2. q \in RequestType
    <3>1. [p EXCEPT !.payment = "EVIDENCE_VERIFIED"] \in RequestType
          BY <1>2, <2>1 DEF RequestType
    <3>2. [p EXCEPT !.payment = "APPROVED", !.reference = NoReference] \in RequestType
          BY <1>2, <2>1 DEF RequestType
    <3> QED
        BY <3>1, <3>2
  <2>3. q.status = p.status /\ q.worker = p.worker /\ q.completed = p.completed
        BY <1>2 DEF RequestType
  <2> QED
      BY <1>2, <2>2, <2>3 DEF SameJob
<1> QED
    BY <1>3, RoutineStep DEF VerifyPayment

-----------------------------------------------------------------------------
(* The inductive invariant. ReservationAgrees, ReservedIsBusy and            *)
(* AssignmentAgrees are not inductive alone: completing a complaint frees    *)
(* its worker, which must then not be reserved, and a second active          *)
(* assignment would survive the completion of the first.                     *)

\* A request that waits for a worker has none and was never completed; one
\* that is under way or finished has a worker.
FreshRequest ==
    \A r \in Request :
        /\ request[r].status \in FreshStatus => request[r].worker = NoWorker /\ ~request[r].completed
        /\ request[r].worker = NoWorker => request[r].status \in FreshStatus \cup {"CANCELLED"}

\* A complaint that does not exist yet has no assignment.
NewComplaintUnassigned ==
    \A c \in Complaint : complaint[c].status = "NONE" => \A a \in assignments : a.complaint # c

\* A worker has at most one active complaint assignment.
OneActiveAssignment ==
    \A a, b \in assignments :
        a.status # "COMPLETED" /\ b.status # "COMPLETED" /\ a.worker = b.worker => a = b

\* A worker reserved for a paid service has no active complaint assignment.
ReservedHasNoAssignment ==
    \A a \in assignments : a.status # "COMPLETED" => reservation[a.worker] = NoRequest

\* Reviews can be counted.
FiniteReviews == IsFiniteSet(reviews)

IInv ==
    /\ TypeOK
    /\ FiniteReviews
    /\ FreshRequest
    /\ NewComplaintUnassigned
    /\ OneActiveAssignment
    /\ ReservedHasNoAssignment
    /\ ReservationAgrees
    /\ ReservedIsBusy
    /\ AssignmentAgrees

\* The invariant holds initially: no worker is reserved and nothing is assigned.
LEMMA InitIInv == Init => IInv
<1> SUFFICES ASSUME Init PROVE IInv
    OBVIOUS
<1> USE DEF Init, WorkforceInit, ComplaintsInit, ServicesInit
<1>1. WorkforceTypeOK
      BY DEF WorkforceTypeOK, WorkerStatus
<1>2. ComplaintsTypeOK
  <2>1. NewComplaint("NONE") \in ComplaintType /\ NewComplaint("SUBMITTED") \in ComplaintType
        BY DEF ComplaintType, ComplaintStatus, NewComplaint
  <2> QED
      BY <2>1 DEF ComplaintsTypeOK
<1>3. ServicesTypeOK
      BY BlankType DEF ServicesTypeOK
<1>4. \A r \in Request : /\ request[r].status = "NONE" /\ request[r].worker = NoWorker
                         /\ request[r].completed = FALSE
      BY DEF BlankRequest
<1>5. \A c \in Complaint : complaint[c].assignedWorker = NoWorker
      BY DEF NewComplaint
<1>6. FreshRequest
      BY <1>4 DEF FreshRequest, FreshStatus
<1>7. /\ NewComplaintUnassigned /\ OneActiveAssignment
      /\ ReservedHasNoAssignment /\ FiniteReviews
      BY FS_EmptySet DEF FiniteReviews, NewComplaintUnassigned, OneActiveAssignment, ReservedHasNoAssignment
<1>8. ReservationAgrees
      BY <1>4, NoRequestAssumption DEF ReservationAgrees, Reserves
<1>9. ReservedIsBusy
      BY DEF ReservedIsBusy, HasPaidServiceReservation
<1>10. AssignmentAgrees
      BY <1>5 DEF AssignmentAgrees
<1> QED
    BY <1>1, <1>2, <1>3, <1>6, <1>7, <1>8, <1>9, <1>10 DEF IInv, TypeOK

-----------------------------------------------------------------------------
(* Steps of WorkforceService. *)

\* Creating, updating and deactivating a profile keep the invariant, because
\* a reserved profile is refused.
LEMMA WorkforceStep ==
    ASSUME IInv, WorkforceNext, UNCHANGED <<complaintVars, serviceVars>>
    PROVE  IInv'
<1> USE DEF complaintVars, serviceVars
<1>1. PICK w \in Worker : CreateProfile(w) \/ UpdateProfile(w) \/ Deactivate(w)
      BY DEF WorkforceNext
<1>2. TypeOK
      BY DEF IInv
<1>3. \E s \in WorkerStatus \cup {"ABSENT"} : status' = [status EXCEPT ![w] = s]
  <2>1. status[w] \in WorkerStatus \cup {"ABSENT"}
        BY <1>2 DEF TypeOK, WorkforceTypeOK
  <2> QED
      BY <1>1, <2>1 DEF CreateProfile, UpdateProfile, Deactivate, UpdateSystemStatus, WorkerStatus
<1>4. specialization' \in [Worker -> Specialty]
      BY <1>1, <1>2 DEF CreateProfile, UpdateProfile, Deactivate, TypeOK, WorkforceTypeOK
<1>5. UNCHANGED <<reservation, workHistory, completedWorkCount>>
      BY <1>1 DEF CreateProfile, UpdateProfile, Deactivate
<1>6. TypeOK'
  <2>1. WorkforceTypeOK'
        BY <1>2, <1>3, <1>4, <1>5 DEF TypeOK, WorkforceTypeOK
  <2>2. ComplaintsTypeOK' /\ ServicesTypeOK'
        BY <1>2 DEF TypeOK, ComplaintsTypeOK, ServicesTypeOK
  <2> QED
      BY <2>1, <2>2 DEF TypeOK
<1>7. ~HasPaidServiceReservation(w)
      BY <1>1 DEF IInv, ReservedIsBusy, CreateProfile, UpdateProfile, Deactivate, CanChangeProfile
<1>8. ReservedIsBusy'
      BY <1>2, <1>3, <1>5, <1>7
      DEF IInv, ReservedIsBusy, HasPaidServiceReservation, TypeOK, WorkforceTypeOK
<1>9. /\ FreshRequest' /\ FiniteReviews' /\ NewComplaintUnassigned' /\ OneActiveAssignment'
      /\ ReservedHasNoAssignment' /\ ReservationAgrees' /\ AssignmentAgrees'
      BY <1>5 DEF IInv, FreshRequest, FiniteReviews, NewComplaintUnassigned, OneActiveAssignment,
                  ReservedHasNoAssignment, ReservationAgrees, Reserves, AssignmentAgrees, Stored
<1> QED
    BY <1>6, <1>8, <1>9 DEF IInv

-----------------------------------------------------------------------------
(* Steps of ComplaintsService that leave the assignments alone. *)

\* Complaint c changes and stays as the assignments say.
LEMMA ComplaintOnlyStep ==
    ASSUME IInv, NEW c \in Complaint, NEW k \in ComplaintType,
           complaint' = [complaint EXCEPT ![c] = k], WorkforceTypeOK', reviews' \in SUBSET ReviewType, FiniteReviews',
           UNCHANGED <<status, reservation, assignments, serviceVars>>,
           k.status # "NONE",
           k.status \in ComplaintStatus =>
               \/ /\ complaint[c].status = "NONE"
                  /\ k.assignedWorker = NoWorker
               \/ /\ Stored(c)
                  /\ k.assignedWorker = complaint[c].assignedWorker
                  /\ \/ k.status = complaint[c].status
                     \/ {k.status, complaint[c].status} \cap {"ASSIGNED", "IN_PROGRESS"} = {}
    PROVE  IInv'
<1> USE DEF serviceVars
<1>1. TypeOK /\ complaint \in [Complaint -> ComplaintType]
      BY DEF IInv, TypeOK, ComplaintsTypeOK
<1>2. TypeOK'
      BY <1>1 DEF TypeOK, ComplaintsTypeOK, ServicesTypeOK
<1>3. NewComplaintUnassigned'
      BY <1>1 DEF IInv, NewComplaintUnassigned
<1>4. AssignmentAgrees'
  <2> SUFFICES ASSUME NEW d \in Complaint, Stored(d)'
               PROVE  {a \in assignments : a.complaint = d} =
                          IF complaint'[d].assignedWorker = NoWorker THEN {}
                          ELSE {[complaint |-> d, worker |-> complaint'[d].assignedWorker,
                                 status |-> IF complaint'[d].status \in {"ASSIGNED", "IN_PROGRESS"}
                                            THEN complaint'[d].status ELSE "COMPLETED"]}
      BY DEF AssignmentAgrees
  <2>1. CASE d # c
        BY <1>1, <2>1 DEF IInv, AssignmentAgrees, Stored
  <2>2. CASE d = c /\ complaint[c].status = "NONE"
    <3>1. complaint'[d] = k /\ k.status \in ComplaintStatus
          BY <1>1, <2>2 DEF Stored
    <3>2. k.assignedWorker = NoWorker
          BY <2>2, <3>1 DEF Stored, ComplaintStatus
    <3>3. \A a \in assignments : a.complaint # d
          BY <2>2 DEF IInv, NewComplaintUnassigned
    <3> QED
        BY <3>1, <3>2, <3>3
  <2>3. CASE d = c /\ complaint[c].status # "NONE"
    <3>1. complaint'[d] = k /\ k.status \in ComplaintStatus
          BY <1>1, <2>3 DEF Stored
    <3>2. /\ Stored(d)
          /\ k.assignedWorker = complaint[d].assignedWorker
          /\ \/ k.status = complaint[d].status
             \/ {k.status, complaint[d].status} \cap {"ASSIGNED", "IN_PROGRESS"} = {}
          BY <2>3, <3>1
    <3>3. {a \in assignments : a.complaint = d} =
              IF complaint[d].assignedWorker = NoWorker THEN {}
              ELSE {[complaint |-> d, worker |-> complaint[d].assignedWorker,
                     status |-> IF complaint[d].status \in {"ASSIGNED", "IN_PROGRESS"}
                                THEN complaint[d].status ELSE "COMPLETED"]}
          BY <3>2 DEF IInv, AssignmentAgrees
    <3> QED
        BY <3>1, <3>2, <3>3
  <2> QED
      BY <2>1, <2>2, <2>3
<1>5. /\ FreshRequest' /\ OneActiveAssignment'
      /\ ReservedHasNoAssignment' /\ ReservationAgrees' /\ ReservedIsBusy'
      BY DEF IInv, FreshRequest, OneActiveAssignment, ReservedHasNoAssignment,
             ReservationAgrees, Reserves, ReservedIsBusy, HasPaidServiceReservation
<1> QED
    BY <1>2, <1>3, <1>4, <1>5 DEF IInv

\* Creating, deleting, moving, proving, verifying and reviewing a complaint.
LEMMA ComplaintOnlyActions ==
    ASSUME IInv, NEW c \in Complaint, UNCHANGED serviceVars,
           \/ CreateComplaint(c) \/ DeleteComplaint(c) \/ TransitionStatus(c)
           \/ UploadProof(c) \/ VerifyResolution(c) \/ SubmitReview(c)
    PROVE  IInv'
<1> USE DEF workforceVars
<1>1. /\ TypeOK /\ WorkforceTypeOK
      /\ complaint \in [Complaint -> ComplaintType] /\ complaint[c] \in ComplaintType
      /\ assignments \in SUBSET AssignmentType /\ reviews \in SUBSET ReviewType
      BY DEF IInv, TypeOK, ComplaintsTypeOK
<1>2. \A s \in ComplaintStatus \cup {"NONE", "DELETED"} :
          LET k == [complaint[c] EXCEPT !.status = s] IN
          /\ k \in ComplaintType
          /\ k.status = s
          /\ k.assignedWorker = complaint[c].assignedWorker
      BY <1>1 DEF ComplaintType
<1>3. reviews' = reviews => FiniteReviews'
      BY DEF IInv, FiniteReviews
<1>4. CASE CreateComplaint(c)
  <2>1. /\ NewComplaint("SUBMITTED") \in ComplaintType
        /\ NewComplaint("SUBMITTED").status = "SUBMITTED"
        /\ NewComplaint("SUBMITTED").assignedWorker = NoWorker
        BY DEF NewComplaint, ComplaintType, ComplaintStatus
  <2>2. WorkforceTypeOK'
        BY <1>1, <1>4 DEF CreateComplaint, WorkforceTypeOK
  <2> QED
      BY <1>1, <1>3, <1>4, <2>1, <2>2, ComplaintOnlyStep DEF CreateComplaint
<1>5. CASE DeleteComplaint(c)
  <2>1. /\ NewComplaint("DELETED") \in ComplaintType
        /\ NewComplaint("DELETED").status = "DELETED"
        BY DEF NewComplaint, ComplaintType
  <2>2. WorkforceTypeOK'
        BY <1>1, <1>5 DEF DeleteComplaint, WorkforceTypeOK
  <2>3. "DELETED" \notin ComplaintStatus
        BY DEF ComplaintStatus
  <2> QED
      BY <1>1, <1>3, <1>5, <2>1, <2>2, <2>3, ComplaintOnlyStep DEF DeleteComplaint
<1>6. CASE TransitionStatus(c)
  <2>1. WorkforceTypeOK'
        BY <1>1, <1>6 DEF TransitionStatus, WorkforceTypeOK
  <2>2. PICK s \in {"UNDER_REVIEW", "CLOSED"} : UpdateStatus(c, s)
        BY <1>6 DEF TransitionStatus
  <2>3. Stored(c) /\ complaint[c].status \notin {"ASSIGNED", "IN_PROGRESS"}
        BY <1>6 DEF TransitionStatus, Stored, ComplaintStatus
  <2>4. s \in ComplaintStatus
        BY DEF ComplaintStatus
  <2> DEFINE k == [complaint[c] EXCEPT !.status = s]
  <2>5. k \in ComplaintType /\ k.status = s /\ k.assignedWorker = complaint[c].assignedWorker
        BY <1>2, <2>4
  <2>6. complaint' = [complaint EXCEPT ![c] = k]
        BY <2>2 DEF UpdateStatus
  <2>7. UNCHANGED <<status, reservation, assignments, serviceVars>> /\ reviews' = reviews
        BY <1>6 DEF TransitionStatus
  <2> HIDE DEF k
  <2>8. reviews' \in SUBSET ReviewType /\ FiniteReviews'
        BY <1>1, <1>3, <2>7
  <2>9. {k.status, complaint[c].status} \cap {"ASSIGNED", "IN_PROGRESS"} = {} /\ k.status # "NONE"
        BY <2>3, <2>5
  <2> QED
      BY <2>1, <2>3, <2>5, <2>6, <2>7, <2>8, <2>9, ComplaintOnlyStep
<1>7. CASE UploadProof(c)
  <2> DEFINE k == [complaint[c] EXCEPT !.hasProof = TRUE]
  <2>1. WorkforceTypeOK'
        BY <1>1, <1>7 DEF UploadProof, WorkforceTypeOK
  <2>2. /\ k \in ComplaintType /\ k.status = complaint[c].status
        /\ k.assignedWorker = complaint[c].assignedWorker
        BY <1>1 DEF ComplaintType
  <2>3. Stored(c) /\ complaint[c].status # "NONE"
        BY <1>7 DEF UploadProof, Stored, ComplaintStatus
  <2>4. complaint' = [complaint EXCEPT ![c] = k]
        BY <1>7 DEF UploadProof
  <2> QED
      BY <1>1, <1>3, <1>7, <2>1, <2>2, <2>3, <2>4, ComplaintOnlyStep DEF UploadProof
<1>8. CASE VerifyResolution(c)
  <2>1. PICK a \in assignments : AddCompletedComplaint(a.worker, c)
        BY <1>8 DEF VerifyResolution
  <2>2. workHistory' \in [Worker -> Seq(Complaint)]
        BY <1>1, <2>1 DEF AddCompletedComplaint, WorkforceTypeOK, AssignmentType
  <2>3. WorkforceTypeOK'
        BY <1>1, <1>8, <2>2 DEF VerifyResolution, WorkforceTypeOK
  <2>4. Stored(c) /\ complaint[c].status \notin {"ASSIGNED", "IN_PROGRESS"}
        BY <1>8 DEF VerifyResolution, Stored, ComplaintStatus
  <2>5. "RESOLVED" \in ComplaintStatus
        BY DEF ComplaintStatus
  <2>6. /\ complaint' = [complaint EXCEPT ![c] = [complaint[c] EXCEPT !.status = "RESOLVED"]]
        /\ UNCHANGED <<status, reservation, assignments, reviews>>
        BY <1>8 DEF VerifyResolution, UpdateStatus
  <2> DEFINE k == [complaint[c] EXCEPT !.status = "RESOLVED"]
  <2>7. /\ k \in ComplaintType /\ k.status = "RESOLVED"
        /\ k.assignedWorker = complaint[c].assignedWorker
        /\ {k.status, complaint[c].status} \cap {"ASSIGNED", "IN_PROGRESS"} = {}
        BY <1>1, <1>2, <2>4, <2>5
  <2>8. complaint' = [complaint EXCEPT ![c] = k]
        BY <2>6
  <2> HIDE DEF k
  <2> QED
      BY <1>1, <1>3, <2>3, <2>4, <2>6, <2>7, <2>8, ComplaintOnlyStep
<1>9. CASE SubmitReview(c)
  <2>1. PICK a \in assignments :
            /\ CanSubmitReview(c, a)
            /\ reviews' = reviews \cup {[complaint |-> c, worker |-> a.worker]}
            /\ UpdatePerformance(a.worker, Cardinality({v \in reviews : v.worker = a.worker}) + 1)
        BY <1>9 DEF SubmitReview
  <2>2. reviews' \in SUBSET ReviewType
        BY <1>1, <2>1 DEF AssignmentType, ReviewType
  <2>3. completedWorkCount' \in [Worker -> Nat]
    <3>1. Cardinality({v \in reviews : v.worker = a.worker}) \in Nat
          BY FS_Subset, FS_CardinalityType DEF IInv, FiniteReviews
    <3>2. Cardinality({v \in reviews : v.worker = a.worker}) + 1 \in Nat
          BY <3>1
    <3>3. completedWorkCount' =
              [completedWorkCount EXCEPT ![a.worker] = Cardinality({v \in reviews : v.worker = a.worker}) + 1]
          BY <2>1 DEF UpdatePerformance
    <3> QED
        BY <1>1, <3>2, <3>3 DEF WorkforceTypeOK
  <2>4. WorkforceTypeOK'
        BY <1>1, <1>9, <2>3 DEF SubmitReview, WorkforceTypeOK
  <2>5. Stored(c) /\ complaint[c].status \notin {"ASSIGNED", "IN_PROGRESS"}
        BY <2>1 DEF CanSubmitReview, Stored, ComplaintStatus
  <2>6. FiniteReviews'
        BY <2>1, FS_AddElement DEF IInv, FiniteReviews
  <2>7. "REVIEWED" \in ComplaintStatus
        BY DEF ComplaintStatus
  <2>8. /\ complaint' = [complaint EXCEPT ![c] = [complaint[c] EXCEPT !.status = "REVIEWED"]]
        /\ UNCHANGED <<status, reservation, assignments>>
        BY <1>9 DEF SubmitReview, UpdateStatus
  <2> DEFINE k == [complaint[c] EXCEPT !.status = "REVIEWED"]
  <2>9. /\ k \in ComplaintType /\ k.status = "REVIEWED"
        /\ k.assignedWorker = complaint[c].assignedWorker
        /\ {k.status, complaint[c].status} \cap {"ASSIGNED", "IN_PROGRESS"} = {}
        BY <1>1, <1>2, <2>5, <2>7
  <2>10. complaint' = [complaint EXCEPT ![c] = k]
        BY <2>8
  <2> HIDE DEF k
  <2> QED
      BY <1>1, <2>2, <2>4, <2>5, <2>6, <2>8, <2>9, <2>10, ComplaintOnlyStep
<1> QED
    BY <1>4, <1>5, <1>6, <1>7, <1>8, <1>9

-----------------------------------------------------------------------------
(* Steps of ComplaintsService that give out, move on or finish an assignment. *)

\* Giving a complaint an available worker keeps the invariant.
LEMMA AssignWorkerStep ==
    ASSUME IInv, NEW c \in Complaint, NEW w \in Worker, AssignWorker(c, w), UNCHANGED serviceVars
    PROVE  IInv'
<1> DEFINE b == [complaint |-> c, worker |-> w, status |-> "ASSIGNED"]
<1> USE DEF serviceVars
<1>1. /\ TypeOK /\ WorkforceTypeOK
      /\ complaint \in [Complaint -> ComplaintType]
      /\ assignments \in SUBSET AssignmentType
      BY DEF IInv, TypeOK, ComplaintsTypeOK
<1>2. b \in AssignmentType
      BY DEF AssignmentType
<1>3. complaint' \in [Complaint -> ComplaintType]
      /\ complaint'[c].status = "ASSIGNED" /\ complaint'[c].assignedWorker = w
      /\ \A d \in Complaint \ {c} : complaint'[d] = complaint[d]
      BY <1>1 DEF AssignWorker, ComplaintType, ComplaintStatus
<1>4. TypeOK'
  <2>1. WorkforceTypeOK'
        BY <1>1 DEF AssignWorker, UpdateSystemStatus, WorkforceTypeOK, WorkerStatus
  <2>2. ComplaintsTypeOK'
        BY <1>1, <1>2, <1>3 DEF AssignWorker, ComplaintsTypeOK, TypeOK
  <2> QED
      BY <1>1, <2>1, <2>2 DEF TypeOK, ServicesTypeOK
<1>5. \A a \in assignments : a.complaint # c
  <2>1. Stored(c) /\ complaint[c].assignedWorker = NoWorker
        BY DEF AssignWorker, CanAssignWorker, Stored, ComplaintStatus
  <2> QED
      BY <2>1 DEF IInv, AssignmentAgrees
<1>6. NewComplaintUnassigned'
      BY <1>1, <1>3 DEF IInv, NewComplaintUnassigned, AssignWorker
<1>7. \A a \in assignments : a.status # "COMPLETED" => a.worker # w
      BY DEF AssignWorker, CanAssignWorker, HasActiveAssignment, ActiveAssignments
<1>8. OneActiveAssignment'
      BY <1>7 DEF IInv, OneActiveAssignment, AssignWorker
<1>9. reservation[w] = NoRequest
      BY DEF AssignWorker, CanAssignWorker, AssertValidAssignmentTarget, HasPaidServiceReservation
<1>10. ReservedHasNoAssignment' /\ ReservedIsBusy'
      BY <1>1, <1>9 DEF IInv, ReservedHasNoAssignment, ReservedIsBusy, HasPaidServiceReservation,
                        AssignWorker, UpdateSystemStatus, WorkforceTypeOK
<1>11. AssignmentAgrees'
  <2> SUFFICES ASSUME NEW d \in Complaint, Stored(d)'
               PROVE  {a \in assignments' : a.complaint = d} =
                          IF complaint'[d].assignedWorker = NoWorker THEN {}
                          ELSE {[complaint |-> d, worker |-> complaint'[d].assignedWorker,
                                 status |-> IF complaint'[d].status \in {"ASSIGNED", "IN_PROGRESS"}
                                            THEN complaint'[d].status ELSE "COMPLETED"]}
      BY DEF AssignmentAgrees
  <2>1. CASE d # c
        BY <1>3, <2>1 DEF IInv, AssignmentAgrees, Stored, AssignWorker
  <2>2. CASE d = c
        BY <1>3, <1>5, <2>2, NoWorkerAssumption DEF AssignWorker
  <2> QED
      BY <2>1, <2>2
<1>12. FreshRequest' /\ ReservationAgrees' /\ FiniteReviews'
      BY DEF IInv, FreshRequest, ReservationAgrees, Reserves, FiniteReviews, AssignWorker
<1> QED
    BY <1>4, <1>6, <1>8, <1>10, <1>11, <1>12 DEF IInv

\* Assignment a of complaint c gets status s, and the complaint status k.
LEMMA AssignmentMovesOn ==
    ASSUME IInv, NEW c \in Complaint, NEW a \in assignments, ActiveAssignment(c, a),
           NEW s \in {"IN_PROGRESS", "COMPLETED"}, SetAssignment(a, s),
           NEW k \in {"IN_PROGRESS", "PENDING_VERIFICATION"}, UpdateStatus(c, k),
           (s = "IN_PROGRESS") <=> (k = "IN_PROGRESS"),
           WorkforceTypeOK', UNCHANGED <<reservation, reviews, serviceVars>>,
           status' = status \/ status' = [status EXCEPT ![a.worker] = "AVAILABLE"]
    PROVE  IInv'
<1> DEFINE b == [a EXCEPT !.status = s]
<1> USE DEF serviceVars
<1>1. /\ TypeOK /\ WorkforceTypeOK
      /\ complaint \in [Complaint -> ComplaintType]
      /\ assignments \in SUBSET AssignmentType
      BY DEF IInv, TypeOK, ComplaintsTypeOK
<1>2. /\ b \in AssignmentType
      /\ b.complaint = c /\ a.complaint = c
      /\ b.worker = a.worker /\ complaint[c].assignedWorker = a.worker
      /\ b.status = s
      /\ a.status # "COMPLETED" /\ a.worker \in Worker
      BY <1>1 DEF AssignmentType, ActiveAssignment, ActiveAssignments
<1>3. /\ complaint' \in [Complaint -> ComplaintType]
      /\ complaint'[c].status = k /\ complaint'[c].assignedWorker = a.worker
      /\ \A d \in Complaint \ {c} : complaint'[d] = complaint[d]
      BY <1>1, <1>2 DEF UpdateStatus, ComplaintType, ComplaintStatus
<1> HIDE DEF b
<1>4. assignments' = (assignments \ {a}) \cup {b}
      BY DEF SetAssignment, b
<1>5. TypeOK'
      BY <1>1, <1>2, <1>3, <1>4 DEF TypeOK, ComplaintsTypeOK, ServicesTypeOK
<1>6. NewComplaintUnassigned'
      BY <1>2, <1>3, <1>4 DEF IInv, NewComplaintUnassigned
<1>7. OneActiveAssignment'
      BY <1>2, <1>4 DEF IInv, OneActiveAssignment
<1>8. reservation[a.worker] = NoRequest
      BY <1>2 DEF IInv, ReservedHasNoAssignment
<1>9. ReservedHasNoAssignment'
      BY <1>2, <1>4, <1>8 DEF IInv, ReservedHasNoAssignment
<1>10. ReservedIsBusy'
      BY <1>1, <1>8 DEF IInv, ReservedIsBusy, HasPaidServiceReservation, WorkforceTypeOK
<1>11. AssignmentAgrees'
  <2> SUFFICES ASSUME NEW d \in Complaint, Stored(d)'
               PROVE  {e \in assignments' : e.complaint = d} =
                          IF complaint'[d].assignedWorker = NoWorker THEN {}
                          ELSE {[complaint |-> d, worker |-> complaint'[d].assignedWorker,
                                 status |-> IF complaint'[d].status \in {"ASSIGNED", "IN_PROGRESS"}
                                            THEN complaint'[d].status ELSE "COMPLETED"]}
      BY DEF AssignmentAgrees
  <2>1. CASE d # c
        BY <1>2, <1>3, <1>4, <2>1 DEF IInv, AssignmentAgrees, Stored
  <2>2. CASE d = c
    <3>1. {e \in assignments : e.complaint = c} = {a}
      <4>1. Stored(c)
            BY DEF ActiveAssignment
      <4>2. a \in {e \in assignments : e.complaint = c}
            BY <1>2
      <4> QED
          BY <4>1, <4>2 DEF IInv, AssignmentAgrees
    <3>2. {e \in assignments' : e.complaint = c} = {b}
          BY <1>2, <1>4, <3>1
    <3>3. b = [complaint |-> c, worker |-> a.worker, status |-> s]
          BY <1>2 DEF AssignmentType
    <3>4. a.worker # NoWorker
          BY <1>2, NoWorkerAssumption
    <3>5. s = IF k \in {"ASSIGNED", "IN_PROGRESS"} THEN k ELSE "COMPLETED"
          OBVIOUS
    <3> QED
        BY <1>3, <2>2, <3>2, <3>3, <3>4, <3>5
  <2> QED
      BY <2>1, <2>2
<1>12. FreshRequest' /\ ReservationAgrees' /\ FiniteReviews'
      BY DEF IInv, FreshRequest, ReservationAgrees, Reserves, FiniteReviews
<1> QED
    BY <1>5, <1>6, <1>7, <1>9, <1>10, <1>11, <1>12 DEF IInv

\* Every step of ComplaintsService keeps the invariant.
LEMMA ComplaintsStep ==
    ASSUME IInv, ComplaintsNext, UNCHANGED serviceVars
    PROVE  IInv'
<1>1. PICK c \in Complaint :
          \/ CreateComplaint(c) \/ DeleteComplaint(c) \/ TransitionStatus(c)
          \/ \E w \in Worker : AssignWorker(c, w)
          \/ StartWork(c) \/ UploadProof(c) \/ ResolveWork(c)
          \/ VerifyResolution(c) \/ SubmitReview(c)
      BY DEF ComplaintsNext
<1>2. CASE \E w \in Worker : AssignWorker(c, w)
      BY <1>2, AssignWorkerStep
<1>3. CASE StartWork(c)
  <2>1. PICK a \in assignments : ActiveAssignment(c, a) /\ SetAssignment(a, "IN_PROGRESS")
        BY <1>3 DEF StartWork
  <2>2. WorkforceTypeOK' /\ UpdateStatus(c, "IN_PROGRESS") /\ UNCHANGED <<status, reservation, reviews>>
        BY <1>3 DEF StartWork, workforceVars, IInv, TypeOK, WorkforceTypeOK
  <2> QED
      BY <2>1, <2>2, AssignmentMovesOn
<1>4. CASE ResolveWork(c)
  <2>1. PICK a \in assignments :
            /\ ActiveAssignment(c, a) /\ SetAssignment(a, "COMPLETED")
            /\ UpdateSystemStatus(a.worker, "AVAILABLE")
        BY <1>4 DEF ResolveWork
  <2>2. WorkforceTypeOK' /\ UpdateStatus(c, "PENDING_VERIFICATION") /\ UNCHANGED <<reservation, reviews>>
        BY <1>4, <2>1 DEF ResolveWork, UpdateSystemStatus, IInv, TypeOK, WorkforceTypeOK, WorkerStatus
  <2> QED
      BY <2>1, <2>2, AssignmentMovesOn DEF UpdateSystemStatus
<1> QED
    BY <1>1, <1>2, <1>3, <1>4, ComplaintOnlyActions

-----------------------------------------------------------------------------
(* Steps of PaidServicesService. *)

\* A routine step keeps the invariant.
LEMMA RoutineKeepsIInv ==
    ASSUME IInv, NEW r \in Request, Routine(r)
    PROVE  IInv'
<1> USE DEF workforceVars, complaintVars
<1>1. PICK q \in RequestType :
          /\ SameJob(request[r], q)
          /\ request' = [request EXCEPT ![r] = q]
          /\ UNCHANGED <<workforceVars, complaintVars, now>>
      BY DEF Routine, Store
<1>2. TypeOK /\ request \in [Request -> RequestType]
      BY DEF IInv, TypeOK, ServicesTypeOK
<1>3. TypeOK'
      BY <1>1, <1>2 DEF TypeOK, WorkforceTypeOK, ComplaintsTypeOK, ServicesTypeOK
<1>4. FreshRequest'
      BY <1>1, <1>2 DEF IInv, FreshRequest, SameJob
<1>5. ReservationAgrees'
      BY <1>1, <1>2 DEF IInv, ReservationAgrees, Reserves, SameJob
<1>6. /\ FiniteReviews' /\ NewComplaintUnassigned' /\ OneActiveAssignment'
      /\ ReservedHasNoAssignment' /\ ReservedIsBusy' /\ AssignmentAgrees'
      BY <1>1 DEF IInv, FiniteReviews, NewComplaintUnassigned, OneActiveAssignment,
                  ReservedHasNoAssignment, ReservedIsBusy, HasPaidServiceReservation,
                  AssignmentAgrees, Stored
<1> QED
    BY <1>3, <1>4, <1>5, <1>6 DEF IInv

\* Reserving an available worker for a request keeps the invariant.
LEMMA AssignStep ==
    ASSUME IInv, NEW r \in Request, NEW v, NEW w \in Worker, Assign(r, v, w)
    PROVE  IInv'
<1> DEFINE p == Change(request[r], "ASSIGNED")
           q == [p EXCEPT !.worker = w]
<1> USE DEF recordVars, complaintVars
<1>1. /\ TypeOK /\ WorkforceTypeOK
      /\ request \in [Request -> RequestType] /\ request[r] \in RequestType
      BY DEF IInv, TypeOK, ServicesTypeOK
<1>2. /\ p \in RequestType /\ p.status = "ASSIGNED" /\ p.completed = request[r].completed
      BY <1>1, ChangeType DEF ServiceStatus
<1>3. /\ q \in RequestType /\ q.status = "ASSIGNED" /\ q.worker = w
      /\ q.completed = request[r].completed
      BY <1>2 DEF RequestType
<1>4. request' = [request EXCEPT ![r] = q]
      BY DEF Assign, Store
<1> HIDE DEF p, q
<1>5. /\ request[r].status = "REQUESTED"
      /\ reservation[w] = NoRequest
      /\ reservation' = [reservation EXCEPT ![w] = r]
      /\ status' = [status EXCEPT ![w] = "BUSY"]
      /\ \A a \in assignments : a.status # "COMPLETED" => a.worker # w
      /\ UNCHANGED <<specialization, workHistory, completedWorkCount>>
      /\ UNCHANGED <<complaint, assignments, reviews, now>>
      BY DEF Assign, ReservePaidService, AssertValidAssignmentTarget, HasPaidServiceReservation,
             UpdateSystemStatus, HasActiveAssignment, ActiveAssignments
<1>6. request[r].worker = NoWorker /\ ~request[r].completed
      BY <1>5 DEF IInv, FreshRequest, FreshStatus
<1>7. TypeOK'
  <2>1. WorkforceTypeOK'
        BY <1>1, <1>5 DEF WorkforceTypeOK, WorkerStatus
  <2>2. ServicesTypeOK' /\ ComplaintsTypeOK'
        BY <1>1, <1>3, <1>4, <1>5 DEF TypeOK, ServicesTypeOK, ComplaintsTypeOK
  <2> QED
      BY <2>1, <2>2 DEF TypeOK
<1>8. FreshRequest'
      BY <1>1, <1>3, <1>4, NoWorkerAssumption DEF IInv, FreshRequest, FreshStatus
<1>9. ReservationAgrees'
  <2>1. \A u \in Worker : reservation[u] # r
        BY <1>6, NoWorkerAssumption DEF IInv, ReservationAgrees
  <2>2. /\ \A u \in Worker : reservation'[u] = IF u = w THEN r ELSE reservation[u]
        /\ \A o \in Request : request'[o] = IF o = r THEN q ELSE request[o]
        BY <1>1, <1>4, <1>5 DEF WorkforceTypeOK
  <2>3. w # NoWorker
        BY NoWorkerAssumption
  <2> QED
      BY <1>3, <1>5, <1>6, <2>1, <2>2, <2>3, NoRequestAssumption
      DEF IInv, ReservationAgrees, Reserves
<1>10. ReservedHasNoAssignment'
      BY <1>1, <1>5 DEF IInv, ReservedHasNoAssignment, WorkforceTypeOK
<1>11. ReservedIsBusy'
      BY <1>1, <1>5 DEF IInv, ReservedIsBusy, HasPaidServiceReservation, WorkforceTypeOK
<1>12. /\ FiniteReviews' /\ NewComplaintUnassigned' /\ OneActiveAssignment' /\ AssignmentAgrees'
      BY <1>5 DEF IInv, FiniteReviews, NewComplaintUnassigned, OneActiveAssignment,
                  AssignmentAgrees, Stored
<1> QED
    BY <1>7, <1>8, <1>9, <1>10, <1>11, <1>12 DEF IInv

\* Request r gives up its worker, by finishing for the first time or by
\* being cancelled.
LEMMA ReleaseStep ==
    ASSUME IInv, NEW r \in Request, NEW q \in RequestType, Store(r, q),
           ReleasePaidService(request[r].worker, r),
           request[r].worker # NoWorker, q.worker = request[r].worker, q.status \notin FreshStatus,
           q.status = "CANCELLED" \/ q.completed,
           UNCHANGED <<specialization, recordVars, complaintVars, now>>
    PROVE  IInv'
<1> DEFINE w == request[r].worker
<1> USE DEF recordVars, complaintVars
<1>1. /\ TypeOK /\ WorkforceTypeOK /\ request \in [Request -> RequestType]
      BY DEF IInv, TypeOK, ServicesTypeOK
<1>2. /\ request' = [request EXCEPT ![r] = q]
      /\ reservation[w] = r
      /\ reservation' = [reservation EXCEPT ![w] = NoRequest]
      /\ status' = [status EXCEPT ![w] = "AVAILABLE"]
      BY DEF Store, ReleasePaidService, UpdateSystemStatus
<1>3. TypeOK'
  <2>1. WorkforceTypeOK'
        BY <1>1, <1>2 DEF WorkforceTypeOK, WorkerStatus
  <2>2. ServicesTypeOK' /\ ComplaintsTypeOK'
        BY <1>1, <1>2 DEF TypeOK, ServicesTypeOK, ComplaintsTypeOK
  <2> QED
      BY <2>1, <2>2 DEF TypeOK
<1>4. FreshRequest'
      BY <1>1, <1>2 DEF IInv, FreshRequest
<1>5. ReservationAgrees'
  <2>1. /\ \A u \in Worker : reservation'[u] = IF u = w THEN NoRequest ELSE reservation[u]
        /\ \A o \in Request : request'[o] = IF o = r THEN q ELSE request[o]
        BY <1>1, <1>2 DEF WorkforceTypeOK
  <2>2. \A u \in Worker \ {w} : reservation[u] # r
        BY DEF IInv, ReservationAgrees
  <2>3. \A o \in Request \ {r} : ~(Reserves(o) /\ request[o].worker = w)
        <3>1. SUFFICES ASSUME NEW o \in Request \ {r}, Reserves(o), request[o].worker = w PROVE FALSE
              OBVIOUS
        <3>2. w \in Worker
              BY <1>1, <3>1 DEF Reserves, RequestType
        <3> QED
            BY <1>2, <3>1, <3>2 DEF IInv, ReservationAgrees
  <2> QED
      BY <2>1, <2>2, <2>3, NoRequestAssumption DEF IInv, ReservationAgrees, Reserves
<1>6. ReservedHasNoAssignment'
      BY <1>1, <1>2 DEF IInv, ReservedHasNoAssignment, WorkforceTypeOK, TypeOK, ComplaintsTypeOK,
                        AssignmentType
<1>7. ReservedIsBusy'
      BY <1>1, <1>2 DEF IInv, ReservedIsBusy, HasPaidServiceReservation, WorkforceTypeOK
<1>8. /\ FiniteReviews' /\ NewComplaintUnassigned' /\ OneActiveAssignment' /\ AssignmentAgrees'
      BY DEF IInv, FiniteReviews, NewComplaintUnassigned, OneActiveAssignment,
             AssignmentAgrees, Stored
<1> QED
    BY <1>3, <1>4, <1>5, <1>6, <1>7, <1>8 DEF IInv

\* Completion keeps the invariant: the first one gives the worker back, a
\* corrected bill leaves the worker alone.
LEMMA CompleteStep ==
    ASSUME IInv, NEW r \in Request, NEW v, NEW cost \in Amount, Complete(r, v, cost)
    PROVE  IInv'
<1> DEFINE p == Change(request[r], "COMPLETED")
           q == [p EXCEPT !.finalCost = cost, !.completed = TRUE]
<1>1. request[r] \in RequestType
      BY DEF IInv, TypeOK, ServicesTypeOK
<1>2. p \in RequestType /\ p.status = "COMPLETED" /\ p.worker = request[r].worker
      BY <1>1, ChangeType DEF ServiceStatus
<1>3. /\ q \in RequestType /\ q.status = "COMPLETED" /\ q.completed = TRUE
      /\ q.worker = request[r].worker
      BY <1>2 DEF RequestType
<1>4. /\ Store(r, q)
      /\ request[r].status \in {"IN_PROGRESS", "FINAL_COST_REJECTED"}
      /\ UNCHANGED <<specialization, recordVars, complaintVars, now>>
      BY DEF Complete
<1>5. CASE request[r].completed
  <2>1. request[r].completed = TRUE
        BY <1>1, <1>5 DEF RequestType
  <2>2. SameJob(request[r], q)
    <3> HIDE DEF p, q
    <3> QED
        BY <1>3, <1>4, <2>1 DEF SameJob, FreshStatus
  <2>3. UNCHANGED <<workforceVars, complaintVars, now>>
        BY <1>4, <1>5 DEF Complete, ReleaseFirstTime, workforceVars, recordVars
  <2> HIDE DEF p, q
  <2> QED
      BY <1>3, <1>4, <2>2, <2>3, RoutineStep, RoutineKeepsIInv
<1>6. CASE ~request[r].completed
  <2>1. ReleasePaidService(request[r].worker, r)
        BY <1>6 DEF Complete, ReleaseFirstTime
  <2> HIDE DEF p, q
  <2>2. q.status \notin FreshStatus
        BY <1>3 DEF FreshStatus
  <2>3. request[r].worker # NoWorker
        BY <1>4 DEF IInv, FreshRequest, FreshStatus
  <2> QED
      BY <1>3, <1>4, <2>1, <2>2, <2>3, ReleaseStep
<1> QED
    BY <1>5, <1>6

\* Cancellation keeps the invariant, with and without a worker.
LEMMA CancelStep ==
    ASSUME IInv, NEW r \in Request, NEW v, Cancel(r, v)
    PROVE  IInv'
<1> DEFINE q == Change(request[r], "CANCELLED")
<1>1. request[r] \in RequestType
      BY DEF IInv, TypeOK, ServicesTypeOK
<1>2. /\ q \in RequestType /\ q.status = "CANCELLED"
      /\ q.worker = request[r].worker /\ q.completed = request[r].completed
      BY <1>1, ChangeType DEF ServiceStatus
<1>3. /\ Store(r, q)
      /\ UNCHANGED <<specialization, recordVars, complaintVars, now>>
      BY DEF Cancel
<1> HIDE DEF q
<1>4. CASE request[r].worker = NoWorker
  <2>1. request' = [request EXCEPT ![r] = q]
        BY <1>3 DEF Store
  <2>2. UNCHANGED <<status, specialization, reservation, workHistory, completedWorkCount>>
        /\ UNCHANGED <<complaint, assignments, reviews, now>>
        BY <1>3, <1>4 DEF Cancel, recordVars, complaintVars
  <2>3. TypeOK /\ request \in [Request -> RequestType]
        BY DEF IInv, TypeOK, ServicesTypeOK
  <2>4. TypeOK'
        BY <1>2, <2>1, <2>2, <2>3 DEF TypeOK, WorkforceTypeOK, ComplaintsTypeOK, ServicesTypeOK
  <2>5. FreshRequest'
        BY <1>2, <2>1, <2>3 DEF IInv, FreshRequest, FreshStatus
  <2>6. ReservationAgrees'
        BY <1>2, <1>4, <2>1, <2>2, <2>3, NoWorkerAssumption DEF IInv, ReservationAgrees, Reserves
  <2>7. /\ FiniteReviews' /\ NewComplaintUnassigned' /\ OneActiveAssignment'
        /\ ReservedHasNoAssignment' /\ ReservedIsBusy' /\ AssignmentAgrees'
        BY <2>2 DEF IInv, FiniteReviews, NewComplaintUnassigned, OneActiveAssignment,
                    ReservedHasNoAssignment, ReservedIsBusy, HasPaidServiceReservation,
                    AssignmentAgrees, Stored
  <2> QED
      BY <2>4, <2>5, <2>6, <2>7 DEF IInv
<1>5. CASE request[r].worker # NoWorker
  <2>1. ReleasePaidService(request[r].worker, r)
        BY <1>5 DEF Cancel
  <2>2. q.status \notin FreshStatus
        BY <1>2 DEF FreshStatus
  <2> QED
      BY <1>2, <1>3, <1>5, <2>1, <2>2, ReleaseStep
<1> QED
    BY <1>4, <1>5

\* What a client may send for one request: a routine mutation, or one that
\* takes or gives up the worker.
LEMMA ServiceMutationCases ==
    ASSUME TypeOK, NEW r \in Request, NEW v, ServiceMutation(r, v)
    PROVE  \/ Routine(r)
           \/ \E w \in Worker : Assign(r, v, w)
           \/ \E cost \in Amount : Complete(r, v, cost)
           \/ Cancel(r, v)
<1>1. CASE \E amount \in Amount : SubmitEstimate(r, v, amount)
      BY <1>1, SubmitEstimateRoutine
<1>2. CASE \E n \in 1..MaxEstimates, d \in {"APPROVED", "REJECTED", "REVISION_REQUESTED"} :
               DecideEstimate(r, v, n, d)
      BY <1>2, DecideEstimateRoutine
<1>3. CASE \E slot \in Window : Schedule(r, v, slot)
      BY <1>3, ScheduleRoutine
<1>4. CASE Start(r, v) \/ Progress(r, v)
      BY <1>4, StartRoutine, ProgressRoutine
<1>5. CASE \E approved \in BOOLEAN : ReviewFinalCost(r, v, approved) \/ VerifyPayment(r, v, approved)
      BY <1>5, ReviewFinalCostRoutine, VerifyPaymentRoutine
<1>6. CASE ApprovePayment(r, v) \/ ConfirmReceipt(r, v) \/ Review(r, v)
      BY <1>6, ApprovePaymentRoutine, ConfirmReceiptRoutine, ReviewRoutine
<1>7. CASE \E ref \in Reference : ReportPayment(r, v, ref)
      BY <1>7, ReportPaymentRoutine
<1> QED
    BY <1>1, <1>2, <1>3, <1>4, <1>5, <1>6, <1>7 DEF ServiceMutation

\* The same for a whole step of the service.
LEMMA ServicesNextCases ==
    ASSUME IInv, ServicesNext
    PROVE  \/ \E r \in Request :
                  \/ Routine(r)
                  \/ \E v \in 1..MaxVersion :
                         \/ \E w \in Worker : Assign(r, v, w)
                         \/ \E cost \in Amount : Complete(r, v, cost)
                         \/ Cancel(r, v)
           \/ Tick
<1>1. TypeOK
      BY DEF IInv
<1>2. ASSUME NEW r \in Request, NEW res \in Resident, CreateRequest(r, res)
      PROVE  Routine(r)
  <2>1. request[r].status = "NONE"
        BY <1>2 DEF CreateRequest, Created
  <2>2. request[r].worker = NoWorker /\ ~request[r].completed
        BY <2>1 DEF IInv, FreshRequest, FreshStatus
  <2> QED
      BY <1>1, <1>2, <2>2, CreateRequestRoutine
<1> QED
    BY <1>1, <1>2, ServiceMutationCases, AddEvidenceRoutine DEF ServicesNext

\* Nothing the invariant speaks about changes when only time passes.
LEMMA TickStep ==
    ASSUME IInv, Tick
    PROVE  IInv'
<1> USE DEF workforceVars, complaintVars
<1>1. now' \in Nat
      BY DEF Tick, IInv, TypeOK, ServicesTypeOK
<1>2. TypeOK'
      BY <1>1 DEF Tick, IInv, TypeOK, WorkforceTypeOK, ComplaintsTypeOK, ServicesTypeOK
<1> QED
    BY <1>2 DEF Tick, IInv, FreshRequest, FiniteReviews, NewComplaintUnassigned, OneActiveAssignment,
                ReservedHasNoAssignment, ReservationAgrees, Reserves, ReservedIsBusy,
                HasPaidServiceReservation, AssignmentAgrees, Stored

\* Every step of PaidServicesService keeps the invariant.
LEMMA ServicesStep ==
    ASSUME IInv, ServicesNext
    PROVE  IInv'
    BY ServicesNextCases, RoutineKeepsIInv, AssignStep, CompleteStep, CancelStep, TickStep

\* So does a step that changes nothing.
LEMMA StutterStep ==
    ASSUME IInv, UNCHANGED vars
    PROVE  IInv'
<1> USE DEF vars, workforceVars, complaintVars, serviceVars
<1>1. TypeOK'
      BY DEF IInv, TypeOK, WorkforceTypeOK, ComplaintsTypeOK, ServicesTypeOK
<1> QED
    BY <1>1 DEF IInv, FreshRequest, FiniteReviews, NewComplaintUnassigned, OneActiveAssignment,
                ReservedHasNoAssignment, ReservationAgrees, Reserves, ReservedIsBusy,
                HasPaidServiceReservation, AssignmentAgrees, Stored

-----------------------------------------------------------------------------
(* The invariants. *)

\* The strengthened invariant is inductive.
LEMMA Inductive == IInv /\ [Next]_vars => IInv'
    BY WorkforceStep, ComplaintsStep, ServicesStep, StutterStep DEF Next

\* The strengthened invariant holds in every reachable state.
THEOREM DeskInvariant == Spec => []IInv
<1>1. Init => IInv
      BY InitIInv
<1>2. IInv /\ [Next]_vars => IInv'
      BY Inductive
<1> QED
    BY <1>1, <1>2, PTL DEF Spec

\* Every stored record keeps its type: WorkerProfile, CommunityComplaint,
\* ComplaintAssignment and PaidServiceRequest.
THEOREM TypeCorrect == Spec => []TypeOK
<1>1. IInv => TypeOK
      BY DEF IInv
<1> QED
    BY <1>1, DeskInvariant, PTL

\* The reservations of WorkforceService and the requests of
\* PaidServicesService agree, so no release is refused half way.
THEOREM ReservationsAgree == Spec => []ReservationAgrees
<1>1. IInv => ReservationAgrees
      BY DEF IInv
<1> QED
    BY <1>1, DeskInvariant, PTL

\* A reserved worker stays BUSY, whatever complaints and profile edits do.
THEOREM ReservedStaysBusy == Spec => []ReservedIsBusy
<1>1. IInv => ReservedIsBusy
      BY DEF IInv
<1> QED
    BY <1>1, DeskInvariant, PTL

\* The assignment list and the stored complaints agree.
THEOREM AssignmentsAgree == Spec => []AssignmentAgrees
<1>1. IInv => AssignmentAgrees
      BY DEF IInv
<1> QED
    BY <1>1, DeskInvariant, PTL

\* The profiles, the requests and the complaints with their assignments stay in step,
\* for any number of each.
THEOREM StoresStayInStep == Spec => []StoresAgree
<1>1. IInv => StoresAgree
      BY DEF IInv, StoresAgree
<1> QED
    BY <1>1, DeskInvariant, PTL

-----------------------------------------------------------------------------
(* What one step does to the reservations and to the workers' profiles. *)

\* Reservations stay, and no reserved worker's profile is touched.
ProfilesKept ==
    /\ UNCHANGED reservation
    /\ \A w \in Worker : HasPaidServiceReservation(w) =>
           status'[w] = status[w] /\ specialization'[w] = specialization[w]

\* Worker w, who was free, is reserved for r.
Reserved(w, r) ==
    /\ reservation[w] = NoRequest
    /\ reservation' = [reservation EXCEPT ![w] = r]
    /\ status' = [status EXCEPT ![w] = "BUSY"]
    /\ UNCHANGED specialization

\* Worker w, who was reserved for r, is free again: r is finished or cancelled.
Released(w, r) ==
    /\ reservation[w] = r
    /\ reservation' = [reservation EXCEPT ![w] = NoRequest]
    /\ status' = [status EXCEPT ![w] = "AVAILABLE"]
    /\ UNCHANGED specialization
    /\ \/ request[r].status # "CANCELLED" /\ request'[r].status = "CANCELLED"
       \/ ~request[r].completed /\ request'[r].completed

\* A completion that ends a reservation is the first completion of that request.
LEMMA CompleteReleases ==
    ASSUME IInv, NEW r \in Request, NEW v, NEW cost \in Amount, Complete(r, v, cost)
    PROVE  ProfilesKept \/ \E w \in Worker : Released(w, r)
<1> DEFINE p == Change(request[r], "COMPLETED")
           q == [p EXCEPT !.finalCost = cost, !.completed = TRUE]
<1>1. request \in [Request -> RequestType] /\ request[r] \in RequestType
      BY DEF IInv, TypeOK, ServicesTypeOK
<1>2. q.completed = TRUE
  <2>1. p \in RequestType
        BY <1>1, ChangeType DEF ServiceStatus
  <2> QED
      BY <2>1 DEF RequestType
<1>3. request'[r] = q
      BY <1>1 DEF Complete, Store
<1> HIDE DEF p, q
<1>4. CASE request[r].completed
      BY <1>4 DEF Complete, ReleaseFirstTime, ProfilesKept
<1>5. CASE ~request[r].completed
  <2>1. ReleasePaidService(request[r].worker, r) /\ UNCHANGED specialization
        BY <1>5 DEF Complete, ReleaseFirstTime
  <2>2. request[r].worker \in Worker
    <3>1. request[r].status \in {"IN_PROGRESS", "FINAL_COST_REJECTED"}
          BY DEF Complete
    <3>2. request[r].worker # NoWorker
          BY <3>1 DEF IInv, FreshRequest, FreshStatus
    <3> QED
        BY <1>1, <3>2 DEF RequestType
  <2> QED
      BY <1>2, <1>3, <1>5, <2>1, <2>2 DEF Released, ReleasePaidService, UpdateSystemStatus
<1> QED
    BY <1>4, <1>5

\* A cancellation ends the reservation of its own request only.
LEMMA CancelReleases ==
    ASSUME IInv, NEW r \in Request, NEW v, Cancel(r, v)
    PROVE  ProfilesKept \/ \E w \in Worker : Released(w, r)
<1>1. request \in [Request -> RequestType] /\ request[r] \in RequestType
      BY DEF IInv, TypeOK, ServicesTypeOK
<1>2. request[r].status # "CANCELLED"
      BY DEF Cancel
<1>3. request'[r].status = "CANCELLED"
  <2>1. Change(request[r], "CANCELLED").status = "CANCELLED"
        BY <1>1, ChangeType DEF ServiceStatus
  <2> QED
      BY <1>1, <2>1 DEF Cancel, Store
<1>4. CASE request[r].worker = NoWorker
      BY <1>4 DEF Cancel, ProfilesKept
<1>5. CASE request[r].worker # NoWorker
  <2>1. ReleasePaidService(request[r].worker, r) /\ UNCHANGED specialization
        BY <1>5 DEF Cancel
  <2>2. request[r].worker \in Worker
        BY <1>1, <1>5 DEF RequestType
  <2> QED
      BY <1>2, <1>3, <2>1, <2>2 DEF Released, ReleasePaidService, UpdateSystemStatus
<1> QED
    BY <1>4, <1>5

\* Every step leaves the reserved profiles alone, reserves one worker or
\* releases one.
LEMMA ReservationSteps ==
    ASSUME IInv, [Next]_vars
    PROVE  \/ ProfilesKept
           \/ \E w \in Worker, r \in Request : Reserved(w, r) \/ Released(w, r)
<1>1. TypeOK /\ WorkforceTypeOK
      BY DEF IInv, TypeOK
<1>2. CASE WorkforceNext
  <2>1. PICK w \in Worker : CreateProfile(w) \/ UpdateProfile(w) \/ Deactivate(w)
        BY <1>2 DEF WorkforceNext
  <2>2. ~HasPaidServiceReservation(w)
        BY <2>1 DEF IInv, ReservedIsBusy, CreateProfile, UpdateProfile, Deactivate, CanChangeProfile
  <2> QED
      BY <1>1, <2>1, <2>2 DEF ProfilesKept, CreateProfile, UpdateProfile, Deactivate,
                              UpdateSystemStatus, WorkforceTypeOK
<1>3. CASE ComplaintsNext
  <2>1. PICK c \in Complaint :
            \/ CreateComplaint(c) \/ DeleteComplaint(c) \/ TransitionStatus(c)
            \/ \E w \in Worker : AssignWorker(c, w)
            \/ StartWork(c) \/ UploadProof(c) \/ ResolveWork(c)
            \/ VerifyResolution(c) \/ SubmitReview(c)
        BY <1>3 DEF ComplaintsNext
  <2>2. CASE \E w \in Worker : AssignWorker(c, w)
        BY <1>1, <2>2 DEF AssignWorker, CanAssignWorker, AssertValidAssignmentTarget,
                          UpdateSystemStatus, ProfilesKept, HasPaidServiceReservation, WorkforceTypeOK
  <2>3. CASE ResolveWork(c)
    <3>1. PICK a \in assignments : /\ ActiveAssignment(c, a)
                                   /\ UpdateSystemStatus(a.worker, "AVAILABLE")
                                   /\ UNCHANGED <<specialization, reservation>>
          BY <2>3 DEF ResolveWork
    <3>2. reservation[a.worker] = NoRequest
          BY <3>1 DEF ActiveAssignment, ActiveAssignments, IInv, ReservedHasNoAssignment
    <3> QED
        BY <1>1, <3>1, <3>2 DEF UpdateSystemStatus, ProfilesKept, HasPaidServiceReservation, WorkforceTypeOK
  <2> QED
      BY <2>1, <2>2, <2>3 DEF CreateComplaint, DeleteComplaint, TransitionStatus, StartWork, UploadProof,
                              VerifyResolution, SubmitReview, workforceVars, ProfilesKept
<1>4. CASE ServicesNext
  <2>1. ASSUME NEW r \in Request, Routine(r) PROVE ProfilesKept
        BY <2>1 DEF Routine, workforceVars, ProfilesKept
  <2>2. ASSUME NEW r \in Request, NEW v, NEW w \in Worker, Assign(r, v, w) PROVE Reserved(w, r)
        BY <2>2 DEF Assign, ReservePaidService, AssertValidAssignmentTarget, HasPaidServiceReservation,
                    UpdateSystemStatus, Reserved
  <2>3. Tick => ProfilesKept
        BY DEF Tick, workforceVars, ProfilesKept
  <2> QED
      BY <1>4, <2>1, <2>2, <2>3, ServicesNextCases, CompleteReleases, CancelReleases
<1>5. CASE UNCHANGED vars
      BY <1>5 DEF vars, workforceVars, ProfilesKept
<1> QED
    BY <1>2, <1>3, <1>4, <1>5 DEF Next

\* No step changes the profile of a worker who stays reserved.
THEOREM ReservedProfilesFrozen == Spec => ReservedProfileFrozen
<1> DEFINE Frozen ==
        \A w \in Worker :
            HasPaidServiceReservation(w) /\ reservation'[w] = reservation[w]
                => status'[w] = status[w] /\ specialization'[w] = specialization[w]
<1>1. ASSUME IInv, [Next]_vars PROVE Frozen
  <2>1. reservation \in [Worker -> Request \cup {NoRequest}] /\ status \in [Worker -> WorkerStatus \cup {"ABSENT"}]
        BY <1>1 DEF IInv, TypeOK, WorkforceTypeOK
  <2>2. CASE ProfilesKept
        BY <2>2 DEF ProfilesKept
  <2>3. CASE \E w \in Worker, r \in Request : Reserved(w, r) \/ Released(w, r)
        BY <2>1, <2>3, NoRequestAssumption DEF Reserved, Released, HasPaidServiceReservation
  <2> QED
      BY <1>1, <2>2, <2>3, ReservationSteps
<1> QED
    BY <1>1, DeskInvariant, PTL DEF Spec, ReservedProfileFrozen

\* A reservation ends only with its own request.
THEOREM OnlyOwnRequestsRelease == Spec => OnlyOwnRequestReleases
<1> DEFINE Own ==
        \A w \in Worker, r \in Request :
            reservation[w] = r /\ reservation'[w] # r
                => \/ request[r].status # "CANCELLED" /\ request'[r].status = "CANCELLED"
                   \/ ~request[r].completed /\ request'[r].completed
<1>1. ASSUME IInv, [Next]_vars PROVE Own
  <2>1. reservation \in [Worker -> Request \cup {NoRequest}]
        BY <1>1 DEF IInv, TypeOK, WorkforceTypeOK
  <2>2. CASE ProfilesKept
        BY <2>2 DEF ProfilesKept
  <2>3. CASE \E w \in Worker, r \in Request : Reserved(w, r) \/ Released(w, r)
        BY <2>1, <2>3, NoRequestAssumption DEF Reserved, Released
  <2> QED
      BY <1>1, <2>2, <2>3, ReservationSteps
<1> QED
    BY <1>1, DeskInvariant, PTL DEF Spec, OnlyOwnRequestReleases

-----------------------------------------------------------------------------
(* The desk implements OneJob. *)

jobsNow == [w \in Worker |-> JobsOf(w)]

\* An assignment moves on or ends under its worker: the job list is what its
\* other parts say.
LEMMA JobsStay ==
    ASSUME UNCHANGED <<reservation, assignments>>,
           \A r \in Request : request'[r].worker = request[r].worker
    PROVE  UNCHANGED <<jobsNow, GivenJobs>>
    BY DEF jobsNow, JobsOf, GivenJobs, ActiveAssignments

\* A routine step is a stutter of OneJob.
LEMMA RoutineJobs ==
    ASSUME IInv, NEW r \in Request, Routine(r)
    PROVE  UNCHANGED <<jobsNow, GivenJobs>>
<1>1. \A o \in Request : request'[o].worker = request[o].worker
      BY DEF Routine, Store, SameJob, IInv, TypeOK, ServicesTypeOK
<1>2. UNCHANGED <<reservation, assignments>>
      BY DEF Routine, workforceVars, complaintVars
<1> QED
    BY <1>1, <1>2, JobsStay

\* Giving a complaint to a worker is Take.
LEMMA AssignWorkerTakes ==
    ASSUME IInv, NEW c \in Complaint, NEW w \in Worker, AssignWorker(c, w), UNCHANGED serviceVars
    PROVE  Jobs!Take(w, c)
<1> DEFINE b == [complaint |-> c, worker |-> w, status |-> "ASSIGNED"]
<1>1. /\ assignments' = assignments \cup {b}
      /\ UNCHANGED <<reservation, request>>
      /\ reservation[w] = NoRequest
      /\ \A a \in assignments : a.status # "COMPLETED" => a.worker # w
      BY DEF AssignWorker, CanAssignWorker, AssertValidAssignmentTarget, HasPaidServiceReservation,
             HasActiveAssignment, ActiveAssignments, serviceVars
<1>2. b.complaint = c /\ b.worker = w /\ b.status # "COMPLETED"
      OBVIOUS
<1> HIDE DEF b
<1>3. JobsOf(w) = {}
      BY <1>1 DEF JobsOf, ActiveAssignments
<1>4. c \notin GivenJobs
  <2>1. Stored(c) /\ complaint[c].assignedWorker = NoWorker
        BY DEF AssignWorker, CanAssignWorker, Stored, ComplaintStatus
  <2>2. \A a \in assignments : a.complaint # c
        BY <2>1 DEF IInv, AssignmentAgrees
  <2> QED
      BY <2>2, JobIdsAssumption DEF GivenJobs
<1>5. jobsNow' = [jobsNow EXCEPT ![w] = {c}]
  <2>1. JobsOf(w)' = {c}
        BY <1>1, <1>2 DEF JobsOf, ActiveAssignments
  <2>2. ASSUME NEW u \in Worker \ {w} PROVE JobsOf(u)' = JobsOf(u)
        BY <1>1, <1>2 DEF JobsOf, ActiveAssignments
  <2> QED
      BY <2>1, <2>2 DEF jobsNow
<1>6. GivenJobs' = GivenJobs \cup {c}
      BY <1>1, <1>2 DEF GivenJobs
<1> QED
    BY <1>3, <1>4, <1>5, <1>6 DEF Jobs!Take, jobsNow

\* Starting the work changes no job.
LEMMA StartWorkJobs ==
    ASSUME IInv, NEW c \in Complaint, StartWork(c), UNCHANGED serviceVars
    PROVE  UNCHANGED <<jobsNow, GivenJobs>>
<1>1. PICK a \in assignments : ActiveAssignment(c, a) /\ SetAssignment(a, "IN_PROGRESS")
      BY DEF StartWork
<1> DEFINE b == [a EXCEPT !.status = "IN_PROGRESS"]
<1>2. /\ b.complaint = a.complaint /\ b.worker = a.worker /\ b.status = "IN_PROGRESS"
      /\ a.status # "COMPLETED"
      BY <1>1 DEF IInv, TypeOK, ComplaintsTypeOK, AssignmentType, ActiveAssignment, ActiveAssignments
<1>3. assignments' = (assignments \ {a}) \cup {b} /\ UNCHANGED <<reservation, request>>
      BY <1>1 DEF SetAssignment, StartWork, workforceVars, serviceVars
<1> HIDE DEF b
<1>4. ASSUME NEW u \in Worker PROVE JobsOf(u)' = JobsOf(u)
      BY <1>2, <1>3 DEF JobsOf, ActiveAssignments
<1>5. GivenJobs' = GivenJobs
      BY <1>2, <1>3 DEF GivenJobs
<1> QED
    BY <1>4, <1>5 DEF jobsNow

\* Resolving the work is Drop.
LEMMA ResolveWorkDrops ==
    ASSUME IInv, NEW c \in Complaint, ResolveWork(c), UNCHANGED serviceVars
    PROVE  \E w \in Worker : Jobs!Drop(w)
<1>1. PICK a \in assignments : ActiveAssignment(c, a) /\ SetAssignment(a, "COMPLETED")
      BY DEF ResolveWork
<1> DEFINE b == [a EXCEPT !.status = "COMPLETED"]
           w == a.worker
<1>2. /\ b.complaint = a.complaint /\ b.worker = a.worker /\ b.status = "COMPLETED"
      /\ a.status # "COMPLETED" /\ w \in Worker
      BY <1>1 DEF IInv, TypeOK, ComplaintsTypeOK, AssignmentType, ActiveAssignment, ActiveAssignments
<1>3. assignments' = (assignments \ {a}) \cup {b} /\ UNCHANGED <<reservation, request>>
      BY <1>1 DEF SetAssignment, ResolveWork, serviceVars
<1> HIDE DEF b
<1>4. reservation[w] = NoRequest
      BY <1>2 DEF IInv, ReservedHasNoAssignment
<1>5. JobsOf(w) # {}
      BY <1>2 DEF JobsOf, ActiveAssignments
<1>6. JobsOf(w)' = {}
  <2>1. \A e \in assignments : e.status # "COMPLETED" /\ e.worker = w => e = a
        BY <1>2 DEF IInv, OneActiveAssignment
  <2> QED
      BY <1>2, <1>3, <1>4, <2>1 DEF JobsOf, ActiveAssignments
<1>7. ASSUME NEW u \in Worker \ {w} PROVE JobsOf(u)' = JobsOf(u)
      BY <1>2, <1>3 DEF JobsOf, ActiveAssignments
<1>8. jobsNow' = [jobsNow EXCEPT ![w] = {}]
      BY <1>6, <1>7 DEF jobsNow
<1>9. GivenJobs' = GivenJobs
      BY <1>2, <1>3 DEF GivenJobs
<1> QED
    BY <1>2, <1>5, <1>8, <1>9 DEF Jobs!Drop, jobsNow

\* Giving a paid service to a worker is Take.
LEMMA AssignTakes ==
    ASSUME IInv, NEW r \in Request, NEW v, NEW w \in Worker, Assign(r, v, w)
    PROVE  Jobs!Take(w, r)
<1> DEFINE p == Change(request[r], "ASSIGNED")
           q == [p EXCEPT !.worker = w]
<1>1. request \in [Request -> RequestType] /\ request[r] \in RequestType
      BY DEF IInv, TypeOK, ServicesTypeOK
<1>2. q.worker = w
  <2>1. p \in RequestType
        BY <1>1, ChangeType DEF ServiceStatus
  <2> QED
      BY <2>1 DEF RequestType
<1>3. \A o \in Request : request'[o].worker = IF o = r THEN w ELSE request[o].worker
  <2>1. request' = [request EXCEPT ![r] = q]
        BY DEF Assign, Store
  <2> HIDE DEF p, q
  <2> QED
      BY <1>1, <1>2, <2>1
<1>4. /\ request[r].status = "REQUESTED"
      /\ reservation[w] = NoRequest
      /\ reservation' = [reservation EXCEPT ![w] = r]
      /\ \A a \in assignments : a.status # "COMPLETED" => a.worker # w
      /\ UNCHANGED assignments
      BY DEF Assign, ReservePaidService, AssertValidAssignmentTarget, HasPaidServiceReservation,
             HasActiveAssignment, ActiveAssignments, complaintVars
<1>5. request[r].worker = NoWorker
      BY <1>4 DEF IInv, FreshRequest, FreshStatus
<1>6. reservation \in [Worker -> Request \cup {NoRequest}] /\ assignments \in SUBSET AssignmentType
      BY DEF IInv, TypeOK, WorkforceTypeOK, ComplaintsTypeOK
<1>7. JobsOf(w) = {}
      BY <1>4 DEF JobsOf, ActiveAssignments
<1>8. r \notin GivenJobs
      BY <1>5, <1>6, JobIdsAssumption DEF GivenJobs, AssignmentType
<1>9. jobsNow' = [jobsNow EXCEPT ![w] = {r}]
  <2>1. JobsOf(w)' = {r}
        BY <1>4, <1>6, NoRequestAssumption DEF JobsOf, ActiveAssignments
  <2>2. ASSUME NEW u \in Worker \ {w} PROVE JobsOf(u)' = JobsOf(u)
        BY <1>4, <1>6 DEF JobsOf, ActiveAssignments
  <2> QED
      BY <2>1, <2>2 DEF jobsNow
<1>10. GivenJobs' = GivenJobs \cup {r}
      BY <1>3, <1>4, NoWorkerAssumption DEF GivenJobs
<1> QED
    BY <1>7, <1>8, <1>9, <1>10 DEF Jobs!Take, jobsNow

\* A step that keeps every request's worker and the assignments is a Drop
\* when it releases a reservation, and no change when it does not.
LEMMA ReleaseDrops ==
    ASSUME IInv, NEW r \in Request, NEW w \in Worker, Released(w, r), UNCHANGED assignments,
           \A o \in Request : request'[o].worker = request[o].worker
    PROVE  Jobs!Drop(w)
<1>1. /\ reservation \in [Worker -> Request \cup {NoRequest}]
      /\ reservation[w] = r
      /\ reservation' = [reservation EXCEPT ![w] = NoRequest]
      BY DEF IInv, TypeOK, WorkforceTypeOK, Released
<1>2. r # NoRequest
      BY NoRequestAssumption
<1>3. JobsOf(w) # {}
      BY <1>1, <1>2 DEF JobsOf
<1>4. JobsOf(w)' = {}
  <2>1. \A a \in assignments : a.status # "COMPLETED" => a.worker # w
        BY <1>1, <1>2 DEF IInv, ReservedHasNoAssignment
  <2> QED
      BY <1>1, <2>1 DEF JobsOf, ActiveAssignments
<1>5. ASSUME NEW u \in Worker \ {w} PROVE JobsOf(u)' = JobsOf(u)
      BY <1>1 DEF JobsOf, ActiveAssignments
<1>6. jobsNow' = [jobsNow EXCEPT ![w] = {}]
      BY <1>4, <1>5 DEF jobsNow
<1>7. GivenJobs' = GivenJobs
      BY DEF GivenJobs
<1> QED
    BY <1>3, <1>6, <1>7 DEF Jobs!Drop, jobsNow

\* Giving up the worker of a request is the Drop of OneJob.
LEMMA EndingJobs ==
    ASSUME IInv, NEW r \in Request, NEW v,
           Cancel(r, v) \/ \E cost \in Amount : Complete(r, v, cost)
    PROVE  (\E w \in Worker : Jobs!Drop(w)) \/ UNCHANGED <<jobsNow, GivenJobs>>
<1>1. request \in [Request -> RequestType] /\ request[r] \in RequestType
      BY DEF IInv, TypeOK, ServicesTypeOK
<1>2. UNCHANGED assignments
      BY DEF Cancel, Complete, complaintVars
<1>3. \A o \in Request : request'[o].worker = request[o].worker
  <2>1. CASE Cancel(r, v)
    <3>1. Change(request[r], "CANCELLED").worker = request[r].worker
          BY <1>1, ChangeType DEF ServiceStatus
    <3> QED
        BY <1>1, <2>1, <3>1 DEF Cancel, Store
  <2>2. CASE \E cost \in Amount : Complete(r, v, cost)
    <3>1. PICK cost \in Amount : Complete(r, v, cost)
          BY <2>2
    <3> DEFINE p == Change(request[r], "COMPLETED")
               q == [p EXCEPT !.finalCost = cost, !.completed = TRUE]
    <3>2. p \in RequestType /\ p.worker = request[r].worker
          BY <1>1, ChangeType DEF ServiceStatus
    <3>3. q.worker = request[r].worker
          BY <3>2 DEF RequestType
    <3>4. request' = [request EXCEPT ![r] = q]
          BY <3>1 DEF Complete, Store
    <3> HIDE DEF p, q
    <3> QED
        BY <1>1, <3>3, <3>4
  <2> QED
      BY <2>1, <2>2
<1>4. ProfilesKept \/ \E w \in Worker : Released(w, r)
      BY CompleteReleases, CancelReleases
<1>5. CASE ProfilesKept
      BY <1>2, <1>3, <1>5, JobsStay DEF ProfilesKept
<1>6. CASE \E w \in Worker : Released(w, r)
      BY <1>2, <1>3, <1>6, ReleaseDrops
<1> QED
    BY <1>4, <1>5, <1>6

\* Every step of the desk is a step of OneJob or leaves the jobs alone.
LEMMA StepRefines ==
    ASSUME IInv, [Next]_vars
    PROVE  [Jobs!Next]_<<jobsNow, GivenJobs>>
<1>1. CASE WorkforceNext /\ UNCHANGED <<complaintVars, serviceVars>>
      BY <1>1, JobsStay DEF WorkforceNext, CreateProfile, UpdateProfile, Deactivate,
                            complaintVars, serviceVars
<1>2. CASE ComplaintsNext /\ UNCHANGED serviceVars
  <2>1. PICK c \in Complaint :
            \/ CreateComplaint(c) \/ DeleteComplaint(c) \/ TransitionStatus(c)
            \/ \E w \in Worker : AssignWorker(c, w)
            \/ StartWork(c) \/ UploadProof(c) \/ ResolveWork(c)
            \/ VerifyResolution(c) \/ SubmitReview(c)
        BY <1>2 DEF ComplaintsNext
  <2>2. CASE \E w \in Worker : AssignWorker(c, w)
        BY <1>2, <2>2, AssignWorkerTakes DEF Jobs!Next
  <2>3. CASE StartWork(c)
        BY <1>2, <2>3, StartWorkJobs
  <2>4. CASE ResolveWork(c)
        BY <1>2, <2>4, ResolveWorkDrops DEF Jobs!Next
  <2>5. CASE \/ CreateComplaint(c) \/ DeleteComplaint(c) \/ TransitionStatus(c)
             \/ UploadProof(c) \/ VerifyResolution(c) \/ SubmitReview(c)
    <3>1. UNCHANGED <<reservation, assignments, request>>
          BY <1>2, <2>5 DEF CreateComplaint, DeleteComplaint, TransitionStatus, UploadProof,
                            VerifyResolution, SubmitReview, workforceVars, serviceVars
    <3> QED
        BY <3>1, JobsStay
  <2> QED
      BY <2>1, <2>2, <2>3, <2>4, <2>5
<1>3. CASE ServicesNext
  <2>1. Tick => UNCHANGED <<jobsNow, GivenJobs>>
        BY JobsStay DEF Tick, workforceVars, complaintVars
  <2>2. ASSUME NEW r \in Request, NEW v, NEW w \in Worker, Assign(r, v, w) PROVE Jobs!Next
        BY <2>2, AssignTakes DEF Jobs!Next
  <2>3. ASSUME NEW r \in Request, NEW v, Cancel(r, v) \/ \E cost \in Amount : Complete(r, v, cost)
        PROVE  [Jobs!Next]_<<jobsNow, GivenJobs>>
        BY <2>3, EndingJobs DEF Jobs!Next
  <2> QED
      BY <1>3, <2>1, <2>2, <2>3, ServicesNextCases, RoutineJobs
<1>4. CASE UNCHANGED vars
      BY <1>4, JobsStay DEF vars, workforceVars, complaintVars, serviceVars
<1> QED
    BY <1>1, <1>2, <1>3, <1>4 DEF Next

\* The initial states of the desk are initial states of OneJob.
LEMMA InitRefines == Init => Jobs!Init
<1> SUFFICES ASSUME Init PROVE Jobs!Init
    OBVIOUS
<1>1. assignments = {} /\ \A w \in Worker : reservation[w] = NoRequest
      BY DEF Init, ComplaintsInit, WorkforceInit
<1>2. \A r \in Request : request[r].worker = NoWorker
      BY DEF Init, ServicesInit, BlankRequest
<1>3. \A w \in Worker : JobsOf(w) = {}
      BY <1>1 DEF JobsOf, ActiveAssignments
<1>4. GivenJobs = {}
      BY <1>1, <1>2 DEF GivenJobs
<1> QED
    BY <1>3, <1>4 DEF Jobs!Init

\* Complaints, paid services and the worker profiles together hand out one
\* job at a time per worker, and each job once.
THEOREM DeskImplementsOneJob == Spec => OneJobAtATime
<1>1. Init => Jobs!Init
      BY InitRefines
<1>2. IInv /\ [Next]_vars => [Jobs!Next]_<<[w \in Worker |-> JobsOf(w)], GivenJobs>>
      BY StepRefines DEF jobsNow
<1> QED
    BY <1>1, <1>2, DeskInvariant, PTL DEF Spec, OneJobAtATime, Jobs!Spec

-----------------------------------------------------------------------------
(* Appointments and money: what one request says by itself, and how a       *)
(* request moves among the others.                                          *)

WorkStatus ==
    {"SCHEDULED", "IN_PROGRESS", "COMPLETED", "FINAL_COST_REJECTED", "FINAL_COST_APPROVED"}

\* A request has no appointment before it has a worker, a cost only once it was
\* completed, and a reference only with a payment; its work is approved and its
\* payment authorized.
RowOK(q) ==
    /\ q.status \in FreshStatus => q.appointment = NoWindow
    /\ q.status \in WorkStatus => ApprovedEstimate(q) /\ q.finalCost <= LatestEstimate(q).amount
    /\ q.finalCost # 0 =>
          q.status \in {"COMPLETED", "FINAL_COST_REJECTED", "FINAL_COST_APPROVED", "CANCELLED"}
    /\ q.payment = "NONE" => q.reference = NoReference
    /\ q.payment # "NONE" =>
          /\ q.status = "FINAL_COST_APPROVED"
          /\ q.reviewApproved
          /\ q.reviewedEstimate = Len(q.estimates)
          /\ q.paid = q.finalCost
          /\ q.paid <= LatestEstimate(q).amount
          /\ q.payment # "APPROVED" <=> q.reference # NoReference

RequestInv ==
    /\ \A r \in Request : RowOK(request[r])
    /\ NoDoubleBooking
    /\ ReferenceBacksOnePayment

SamePlace(p, q) ==
    q.worker = p.worker /\ q.resident = p.resident /\ q.appointment = p.appointment

SameTerms(p, q) ==
    /\ q.estimates = p.estimates /\ q.approvedEstimate = p.approvedEstimate
    /\ q.finalCost = p.finalCost

SameReview(p, q) ==
    q.reviewApproved = p.reviewApproved /\ q.reviewedEstimate = p.reviewedEstimate

SamePayment(p, q) ==
    q.payment = p.payment /\ q.paid = p.paid /\ q.reference = p.reference

\* Request r becomes q: it keeps its place, has none, or takes one that is free; and its
\* reference is the one it had, none, or one that nobody has.
Moves(r, q) ==
    LET p == request[r] IN
    /\ Store(r, q)
    /\ RowOK(q)
    /\ \/ SamePlace(p, q) /\ (p.status = "CANCELLED" => q.status = "CANCELLED")
       \/ q.appointment = NoWindow
       \/ /\ q.worker = p.worker /\ q.resident = p.resident
          /\ ~AppointmentConflict(r, q.appointment)
    /\ \/ q.reference \in {p.reference, NoReference}
       \/ ~ReferenceTaken(q.reference)

\* A move keeps the requests apart.
LEMMA MoveKeeps ==
    ASSUME TypeOK, TypeOK', RequestInv, NEW r \in Request, NEW q, Moves(r, q)
    PROVE  RequestInv'
<1>1. /\ request'[r] = q
      /\ \A o \in Request \ {r} : request'[o] = request[o]
      BY DEF Moves, Store, TypeOK, ServicesTypeOK
<1>2. \A o \in Request : RowOK(request'[o])
      BY <1>1 DEF Moves, RequestInv
<1>3. \A o \in Request \ {r} :
          /\ q.appointment # NoWindow /\ request[o].appointment # NoWindow
          /\ q.status # "CANCELLED" /\ request[o].status # "CANCELLED"
          /\ q.worker = request[o].worker \/ q.resident = request[o].resident
          => ~Overlap(q.appointment, request[o].appointment)
      BY DEF Moves, SamePlace, RequestInv, NoDoubleBooking, AppointmentConflict
<1>4. ASSUME NEW a \in Window, NEW b \in Window, Overlap(a, b) PROVE Overlap(b, a)
      BY <1>4, ServiceAssumption DEF Overlap
<1>5. \A o \in Request : request'[o].appointment \in Window \cup {NoWindow}
      BY DEF TypeOK, ServicesTypeOK, RequestType
<1>6. NoDoubleBooking'
    <2> SUFFICES ASSUME NEW s \in Request, NEW o \in Request, s # o,
                        request'[s].appointment # NoWindow, request'[o].appointment # NoWindow,
                        request'[s].status # "CANCELLED", request'[o].status # "CANCELLED",
                        \/ request'[s].worker = request'[o].worker
                        \/ request'[s].resident = request'[o].resident
                 PROVE  ~Overlap(request'[s].appointment, request'[o].appointment)
        BY DEF NoDoubleBooking
    <2>1. CASE s = r
          BY <1>1, <1>3, <2>1
    <2>2. CASE o = r
      <3>1. ~Overlap(request'[o].appointment, request'[s].appointment)
            BY <1>1, <1>3, <2>2
      <3> QED
          BY <1>4, <1>5, <3>1
    <2>3. CASE s # r /\ o # r
          BY <1>1, <2>3 DEF RequestInv, NoDoubleBooking
    <2> QED
        BY <2>1, <2>2, <2>3
<1>7. \A o \in Request \ {r} : q.reference # NoReference => q.reference # request[o].reference
      BY DEF Moves, ReferenceTaken, RequestInv, ReferenceBacksOnePayment
<1>8. ReferenceBacksOnePayment'
      BY <1>1, <1>7 DEF RequestInv, ReferenceBacksOnePayment
<1> QED
    BY <1>2, <1>6, <1>8 DEF RequestInv

\* change() touches the status and the version.
LEMMA ChangeKeeps ==
    ASSUME NEW p \in RequestType, NEW s \in ServiceStatus
    PROVE  LET q == Change(p, s) IN
           /\ q \in RequestType /\ q.status = s
           /\ SamePlace(p, q) /\ SameTerms(p, q) /\ SameReview(p, q) /\ SamePayment(p, q)
<1>1. Change(p, s) \in RequestType /\ Change(p, s).status = s
      BY ChangeType
<1>2. LET q == Change(p, s) IN
      /\ q.worker = p.worker /\ q.resident = p.resident /\ q.appointment = p.appointment
      /\ q.estimates = p.estimates /\ q.approvedEstimate = p.approvedEstimate
      /\ q.finalCost = p.finalCost
      /\ q.reviewApproved = p.reviewApproved /\ q.reviewedEstimate = p.reviewedEstimate
      /\ q.payment = p.payment /\ q.paid = p.paid /\ q.reference = p.reference
      BY DEF RequestType, Change
<1> QED
    BY <1>1, <1>2 DEF SamePlace, SameTerms, SameReview, SamePayment

\* With the same estimates the same work is approved.
LEMMA SameApproval ==
    ASSUME NEW p, NEW q, SameTerms(p, q)
    PROVE  /\ ApprovedEstimate(q) <=> ApprovedEstimate(p)
           /\ LatestEstimate(q) = LatestEstimate(p)
BY DEF SameTerms, ApprovedEstimate, LatestEstimate

\* The handlers before the work: the cost is not known yet and nothing is paid.
LEMMA NothingOwedYet ==
    ASSUME NEW p \in RequestType, RowOK(p),
           p.status \notin {"COMPLETED", "FINAL_COST_REJECTED", "FINAL_COST_APPROVED", "CANCELLED"}
    PROVE  p.finalCost = 0 /\ p.payment = "NONE" /\ p.reference = NoReference
BY DEF RowOK

\* How a handler that leaves the place alone shows its move.
LEMMA StaysInPlace ==
    ASSUME NEW r \in Request, NEW q, Store(r, q), RowOK(q), SamePlace(request[r], q),
           request[r].status # "CANCELLED",
           \/ q.reference \in {request[r].reference, NoReference}
           \/ ~ReferenceTaken(q.reference)
    PROVE  Moves(r, q)
BY DEF Moves

LEMMA CreateMoves ==
    ASSUME NEW r \in Request, NEW res \in Resident, CreateRequest(r, res)
    PROVE  \E q : Moves(r, q)
<1> DEFINE q == [BlankRequest EXCEPT !.status = "REQUESTED", !.version = 1, !.resident = res]
<1>1. /\ q.status = "REQUESTED" /\ q.appointment = NoWindow /\ q.finalCost = 0
      /\ q.payment = "NONE" /\ q.reference = NoReference
      BY DEF BlankRequest
<1>2. Store(r, q)
      BY DEF CreateRequest
<1> HIDE DEF q
<1>3. RowOK(q)
      BY <1>1 DEF RowOK, WorkStatus
<1> QED
    BY <1>1, <1>2, <1>3 DEF Moves

LEMMA SubmitEstimateMoves ==
    ASSUME TypeOK, RequestInv, NEW r \in Request, NEW v, NEW amount, SubmitEstimate(r, v, amount)
    PROVE  \E q : Moves(r, q)
<1> DEFINE p == request[r]
           c == Change(p, "AWAITING_ESTIMATE_APPROVAL")
           q == [c EXCEPT !.estimates = Append(@, [amount |-> amount, status |-> "PENDING"])]
<1>1. p \in RequestType /\ RowOK(p)
      BY DEF TypeOK, ServicesTypeOK, RequestInv
<1>2. Store(r, q) /\ CanEstimate(p)
      BY DEF SubmitEstimate
<1>3. /\ c \in RequestType /\ c.status = "AWAITING_ESTIMATE_APPROVAL"
      /\ SamePlace(p, c) /\ SameTerms(p, c) /\ SamePayment(p, c)
      BY <1>1, ChangeKeeps DEF ServiceStatus
<1> HIDE DEF c
<1>4. /\ q.status = c.status /\ q.finalCost = c.finalCost
      /\ SamePlace(c, q) /\ SamePayment(c, q)
      BY <1>3 DEF RequestType, SamePlace, SamePayment
<1> HIDE DEF q
<1>5. p.finalCost = 0 /\ p.payment = "NONE" /\ p.reference = NoReference /\ p.status # "CANCELLED"
      BY <1>1, <1>2, NothingOwedYet DEF CanEstimate
<1>6. RowOK(q)
      BY <1>3, <1>4, <1>5 DEF RowOK, WorkStatus, FreshStatus, SameTerms, SamePayment
<1>7. SamePlace(p, q) /\ q.reference = p.reference
      BY <1>3, <1>4 DEF SamePlace, SamePayment
<1> QED
    BY <1>2, <1>5, <1>6, <1>7, StaysInPlace

LEMMA DecideEstimateMoves ==
    ASSUME TypeOK, RequestInv, NEW r \in Request, NEW v, NEW n \in 1..MaxEstimates,
           NEW d \in {"APPROVED", "REJECTED", "REVISION_REQUESTED"}, DecideEstimate(r, v, n, d)
    PROVE  \E q : Moves(r, q)
<1> DEFINE p == request[r]
           s == IF d = "APPROVED" THEN ResumedStatus(p)
                ELSE IF d = "REJECTED" THEN "ESTIMATE_REJECTED" ELSE d
           c == Change(p, s)
           es == Decided(p, n, d)
           Rejecting == [c EXCEPT !.estimates = es]
           Approving == [c EXCEPT !.estimates = es, !.approvedEstimate = n]
<1>1. p \in RequestType /\ RowOK(p) /\ p.status = "AWAITING_ESTIMATE_APPROVAL"
      BY DEF TypeOK, ServicesTypeOK, RequestInv, DecideEstimate
<1>2. s \in ServiceStatus /\ s \notin FreshStatus
      BY DEF ResumedStatus, ServiceStatus, FreshStatus
<1>3. /\ c \in RequestType /\ c.status = s
      /\ SamePlace(p, c) /\ SameTerms(p, c) /\ SamePayment(p, c)
      BY <1>1, <1>2, ChangeKeeps
<1>4. p.finalCost = 0 /\ p.payment = "NONE" /\ p.reference = NoReference
      BY <1>1, NothingOwedYet
<1>5. n = Len(p.estimates) /\ p.estimates \in Seq(EstimateType)
      BY <1>1 DEF DecideEstimate, RequestType
<1>6. /\ es \in Seq(EstimateType) /\ es # <<>> /\ Len(es) = n
      /\ es[n].status = d /\ es[n].amount \in Nat
    <2>1. p.estimates[n] \in EstimateType
          BY <1>5
    <2>2. es = [p.estimates EXCEPT ![n] = [p.estimates[n] EXCEPT !.status = d]]
          BY DEF Decided
    <2>3. es \in Seq(EstimateType)
          BY <1>1, <1>5, DecidedType
    <2>4. Len(es) = n /\ es[n] = [p.estimates[n] EXCEPT !.status = d]
          BY <1>5, <2>2, <2>3
    <2>5. es[n].status = d /\ es[n].amount = p.estimates[n].amount
          BY <2>1, <2>4 DEF EstimateType
    <2>6. p.estimates[n].amount \in Nat
          BY <2>1, ServiceAssumption DEF EstimateType
    <2> QED
        BY <2>3, <2>4, <2>5, <2>6
<1>7. \/ d = "APPROVED" /\ Store(r, Approving)
      \/ d # "APPROVED" /\ Store(r, Rejecting)
      BY DEF DecideEstimate
<1>8. s \in WorkStatus => d = "APPROVED"
      BY DEF WorkStatus
<1> HIDE DEF c, es, s
<1>9. ASSUME NEW q \in {Rejecting, Approving}
      PROVE  /\ q.status = s /\ q.estimates = es /\ q.finalCost = c.finalCost
             /\ SamePlace(c, q) /\ SamePayment(c, q)
      BY <1>3 DEF RequestType, SamePlace, SamePayment
<1>10. Approving.approvedEstimate = n
      BY <1>3 DEF RequestType
<1> HIDE DEF Rejecting, Approving
<1>11. ASSUME NEW q \in {Rejecting, Approving},
              s \in WorkStatus => ApprovedEstimate(q) /\ q.finalCost <= LatestEstimate(q).amount,
              Store(r, q)
       PROVE  \E x : Moves(r, x)
    <2>1. RowOK(q)
          BY <1>2, <1>3, <1>4, <1>9, <1>11 DEF RowOK, SameTerms, SamePayment
    <2>2. SamePlace(p, q) /\ q.reference = p.reference
          BY <1>3, <1>9 DEF SamePlace, SamePayment
    <2> QED
        BY <1>1, <1>11, <2>1, <2>2, StaysInPlace
<1>12. d = "APPROVED" => /\ ApprovedEstimate(Approving)
                         /\ Approving.finalCost <= LatestEstimate(Approving).amount
    <2> SUFFICES ASSUME d = "APPROVED"
                 PROVE  ApprovedEstimate(Approving)
                        /\ Approving.finalCost <= LatestEstimate(Approving).amount
        OBVIOUS
    <2>1. Approving.estimates = es /\ Approving.finalCost = 0
          BY <1>3, <1>4, <1>9 DEF SameTerms
    <2>2. 0 <= es[n].amount
          BY <1>6
    <2> QED
        BY <1>6, <1>10, <2>1, <2>2 DEF ApprovedEstimate, LatestEstimate
<1> QED
    BY <1>7, <1>8, <1>11, <1>12

\* The work starts as it was scheduled.
LEMMA StartMoves ==
    ASSUME TypeOK, RequestInv, NEW r \in Request, NEW v, Start(r, v)
    PROVE  \E q : Moves(r, q)
<1> DEFINE p == request[r]
           c == Change(p, "IN_PROGRESS")
           q == [c EXCEPT !.started = TRUE]
<1>1. p \in RequestType /\ RowOK(p)
      BY DEF TypeOK, ServicesTypeOK, RequestInv
<1>2. Store(r, q) /\ p.status = "SCHEDULED" /\ ApprovedEstimate(p)
      BY DEF Start
<1>3. /\ c \in RequestType /\ c.status = "IN_PROGRESS"
      /\ SamePlace(p, c) /\ SameTerms(p, c) /\ SameReview(p, c) /\ SamePayment(p, c)
      BY <1>1, ChangeKeeps DEF ServiceStatus
<1> HIDE DEF c
<1>4. q.status = c.status /\ SamePlace(c, q) /\ SameTerms(c, q) /\ SamePayment(c, q)
      BY <1>3 DEF RequestType, SamePlace, SameTerms, SamePayment
<1> HIDE DEF q
<1>5. SamePlace(p, q) /\ SameTerms(p, q) /\ SamePayment(p, q)
      BY <1>3, <1>4 DEF SamePlace, SameTerms, SamePayment
<1>6. p.finalCost = 0 /\ p.payment = "NONE" /\ p.finalCost <= LatestEstimate(p).amount
      BY <1>1, <1>2, NothingOwedYet DEF RowOK, WorkStatus
<1>7. q.finalCost = 0 /\ q.payment = "NONE"
      BY <1>5, <1>6 DEF SameTerms, SamePayment
<1>8. q.status = "IN_PROGRESS" /\ q.status \notin FreshStatus
      BY <1>3, <1>4 DEF FreshStatus
<1>9. RowOK(q)
      BY <1>1, <1>2, <1>5, <1>6, <1>7, <1>8, SameApproval DEF RowOK, SameTerms, SamePayment
<1>10. q.reference = p.reference /\ p.status # "CANCELLED"
      BY <1>2, <1>5 DEF SamePayment
<1> QED
    BY <1>2, <1>5, <1>9, <1>10, StaysInPlace

LEMMA ScheduleMoves ==
    ASSUME TypeOK, RequestInv, NEW r \in Request, NEW v, NEW slot \in Window, Schedule(r, v, slot)
    PROVE  \E q : Moves(r, q)
<1> DEFINE p == request[r]
           c == Change(p, "SCHEDULED")
           q == [c EXCEPT !.appointment = slot]
<1>1. p \in RequestType /\ RowOK(p)
      BY DEF TypeOK, ServicesTypeOK, RequestInv
<1>2. /\ Store(r, q) /\ p.status \in {"ESTIMATE_APPROVED", "SCHEDULED"} /\ ApprovedEstimate(p)
      /\ ~AppointmentConflict(r, slot)
      BY DEF Schedule
<1>3. /\ c \in RequestType /\ c.status = "SCHEDULED"
      /\ SamePlace(p, c) /\ SameTerms(p, c) /\ SamePayment(p, c)
      BY <1>1, ChangeKeeps DEF ServiceStatus
<1> HIDE DEF c
<1>4. /\ q.status = c.status /\ SameTerms(c, q) /\ SamePayment(c, q)
      /\ q.appointment = slot /\ q.worker = c.worker /\ q.resident = c.resident
      BY <1>3 DEF RequestType, SameTerms, SamePayment
<1> HIDE DEF q
<1>5. /\ SameTerms(p, q) /\ SamePayment(p, q)
      /\ q.appointment = slot /\ q.worker = p.worker /\ q.resident = p.resident
      BY <1>3, <1>4 DEF SamePlace, SameTerms, SamePayment
<1>6. p.finalCost = 0 /\ p.payment = "NONE" /\ p.reference = NoReference
      BY <1>1, <1>2, NothingOwedYet
<1>7. 0 <= LatestEstimate(p).amount
    <2>1. p.estimates \in Seq(EstimateType) /\ p.estimates # <<>>
          BY <1>1, <1>2 DEF RequestType, ApprovedEstimate
    <2>2. LatestEstimate(p) \in EstimateType
          BY <2>1 DEF LatestEstimate
    <2>3. LatestEstimate(p).amount \in Amount
          BY <2>2 DEF EstimateType
    <2>4. LatestEstimate(p).amount \in Nat
          BY <2>3, ServiceAssumption
    <2> QED
        BY <2>4
<1>8. RowOK(q)
    <2>1. ApprovedEstimate(q) /\ LatestEstimate(q) = LatestEstimate(p)
          BY <1>2, <1>5, SameApproval
    <2>2. /\ q.status = "SCHEDULED" /\ q.finalCost = 0
          /\ q.payment = "NONE" /\ q.reference = NoReference
          BY <1>3, <1>4, <1>5, <1>6 DEF SameTerms, SamePayment
    <2> QED
        BY <1>7, <2>1, <2>2 DEF RowOK, FreshStatus
<1>9. Moves(r, q)
      BY <1>2, <1>5, <1>6, <1>8 DEF Moves, SamePayment
<1> QED
    BY <1>9

\* Progress, ratings and evidence leave the status, the terms and the money alone.
LEMMA NotesMove ==
    ASSUME TypeOK, RequestInv, NEW r \in Request, NEW v,
           \/ Progress(r, v) \/ Review(r, v) \/ AddEvidence(r)
    PROVE  \E q : Moves(r, q)
<1> DEFINE p == request[r]
           c == Change(p, p.status)
           rated == [c EXCEPT !.rated = TRUE]
           more == [c EXCEPT !.evidence = @ + 1]
<1>1. p \in RequestType /\ RowOK(p)
      BY DEF TypeOK, ServicesTypeOK, RequestInv
<1>2. p.status \in {"IN_PROGRESS", "FINAL_COST_APPROVED"}
      BY <1>1 DEF Progress, Review, AddEvidence, RowOK
<1>3. /\ c \in RequestType /\ c.status = p.status
      /\ SamePlace(p, c) /\ SameTerms(p, c) /\ SameReview(p, c) /\ SamePayment(p, c)
      BY <1>1, <1>2, ChangeKeeps DEF ServiceStatus
<1>4. Store(r, c) \/ Store(r, rated) \/ Store(r, more)
      BY DEF Progress, Review, AddEvidence
<1> HIDE DEF c
<1>5. \A q \in {c, rated, more} :
          /\ q.status = p.status
          /\ SamePlace(c, q) /\ SameTerms(c, q) /\ SameReview(c, q) /\ SamePayment(c, q)
      BY <1>3 DEF RequestType, SamePlace, SameTerms, SameReview, SamePayment
<1> HIDE DEF rated, more
<1>6. PICK q \in {c, rated, more} : Store(r, q)
      BY <1>4
<1>7. SamePlace(p, q) /\ SameTerms(p, q) /\ SameReview(p, q) /\ SamePayment(p, q)
      BY <1>3, <1>5 DEF SamePlace, SameTerms, SameReview, SamePayment
<1>8. q.status = p.status
      BY <1>5
<1>9. RowOK(q)
      BY <1>1, <1>7, <1>8, SameApproval DEF RowOK, SameTerms, SameReview, SamePayment, SamePlace
<1>10. q.reference \in {p.reference, NoReference} /\ p.status # "CANCELLED"
      BY <1>2, <1>7 DEF SamePayment
<1> QED
    BY <1>6, <1>7, <1>9, <1>10, StaysInPlace

\* A bill that is approved or sent back is within the approved estimate.
LEMMA ReviewFinalCostMoves ==
    ASSUME TypeOK, RequestInv, NEW r \in Request, NEW v, NEW approved \in BOOLEAN,
           ReviewFinalCost(r, v, approved)
    PROVE  \E q : Moves(r, q)
<1> DEFINE p == request[r]
           s == IF approved THEN "FINAL_COST_APPROVED" ELSE "FINAL_COST_REJECTED"
           c == Change(p, s)
           q == [c EXCEPT !.reviewApproved = approved, !.reviewedEstimate = Len(p.estimates)]
<1>1. p \in RequestType /\ RowOK(p)
      BY DEF TypeOK, ServicesTypeOK, RequestInv
<1>2. /\ Store(r, q) /\ p.status = "COMPLETED" /\ ApprovedEstimate(p)
      /\ p.finalCost <= LatestEstimate(p).amount
      BY DEF ReviewFinalCost
<1>3. /\ c \in RequestType /\ c.status = s
      /\ SamePlace(p, c) /\ SameTerms(p, c) /\ SamePayment(p, c)
      BY <1>1, ChangeKeeps DEF ServiceStatus
<1> HIDE DEF c
<1>4. q.status = s /\ SamePlace(c, q) /\ SameTerms(c, q) /\ SamePayment(c, q)
      BY <1>3 DEF RequestType, SamePlace, SameTerms, SamePayment
<1> HIDE DEF q
<1>5. SamePlace(p, q) /\ SameTerms(p, q) /\ SamePayment(p, q)
      BY <1>3, <1>4 DEF SamePlace, SameTerms, SamePayment
<1>6. RowOK(q)
    <2>1. /\ ApprovedEstimate(q) /\ LatestEstimate(q) = LatestEstimate(p)
          /\ q.finalCost = p.finalCost
          BY <1>2, <1>5, SameApproval DEF SameTerms
    <2>2. p.payment = "NONE" /\ p.reference = NoReference
          BY <1>1, <1>2 DEF RowOK
    <2>3. q.payment = "NONE" /\ q.reference = NoReference
          BY <1>5, <2>2 DEF SamePayment
    <2> QED
        BY <1>2, <1>4, <2>1, <2>3 DEF RowOK, FreshStatus
<1>7. q.reference = p.reference /\ p.status # "CANCELLED"
      BY <1>2, <1>5 DEF SamePayment
<1> QED
    BY <1>2, <1>5, <1>6, <1>7, StaysInPlace

\* The payment that is authorized is the reviewed cost.
LEMMA ApprovePaymentMoves ==
    ASSUME TypeOK, RequestInv, NEW r \in Request, NEW v, ApprovePayment(r, v)
    PROVE  \E q : Moves(r, q)
<1> DEFINE p == request[r]
           c == Change(p, p.status)
           q == [c EXCEPT !.payment = "APPROVED", !.paid = p.finalCost]
<1>1. p \in RequestType /\ RowOK(p)
      BY DEF TypeOK, ServicesTypeOK, RequestInv
<1>2. Store(r, q) /\ CanApprovePayment(p)
      BY DEF ApprovePayment
<1>3. /\ c \in RequestType /\ c.status = "FINAL_COST_APPROVED"
      /\ SamePlace(p, c) /\ SameTerms(p, c) /\ SameReview(p, c) /\ SamePayment(p, c)
      BY <1>1, <1>2, ChangeKeeps DEF ServiceStatus, CanApprovePayment
<1> HIDE DEF c
<1>4. /\ q.status = c.status /\ q.payment = "APPROVED" /\ q.paid = p.finalCost
      /\ q.reference = c.reference
      /\ SamePlace(c, q) /\ SameTerms(c, q) /\ SameReview(c, q)
      BY <1>3 DEF RequestType, SamePlace, SameTerms, SameReview
<1> HIDE DEF q
<1>5. /\ SamePlace(p, q) /\ SameTerms(p, q) /\ SameReview(p, q) /\ q.reference = p.reference
      /\ q.status = "FINAL_COST_APPROVED"
      BY <1>3, <1>4 DEF SamePlace, SameTerms, SameReview, SamePayment
<1>6. ApprovedEstimate(q) /\ LatestEstimate(q) = LatestEstimate(p)
      BY <1>2, <1>5, SameApproval DEF CanApprovePayment
<1>7. p.reference = NoReference
      BY <1>1, <1>2 DEF RowOK, CanApprovePayment
<1>8. RowOK(q)
      BY <1>2, <1>4, <1>5, <1>6, <1>7
         DEF RowOK, CanApprovePayment, FreshStatus, SameTerms, SameReview
<1>9. p.status # "CANCELLED"
      BY <1>2 DEF CanApprovePayment
<1> QED
    BY <1>2, <1>5, <1>8, <1>9, StaysInPlace

\* Reports, decisions on them and the receipt move a payment that was authorized.
LEMMA PaymentMoves ==
    ASSUME TypeOK, RequestInv, NEW r \in Request, NEW v,
           \/ \E ref \in Reference : ReportPayment(r, v, ref)
           \/ \E approved \in BOOLEAN : VerifyPayment(r, v, approved)
           \/ ConfirmReceipt(r, v)
    PROVE  \E q : Moves(r, q)
<1> DEFINE p == request[r]
           c == Change(p, p.status)
           reported(ref) == [c EXCEPT !.payment = "PAYMENT_REPORTED", !.reference = ref]
           verified == [c EXCEPT !.payment = "EVIDENCE_VERIFIED"]
           rejected == [c EXCEPT !.payment = "APPROVED", !.reference = NoReference]
           received == [c EXCEPT !.payment = "RECEIPT_CONFIRMED"]
           Kept(q) == /\ q.status = c.status /\ q.paid = c.paid
                      /\ SamePlace(c, q) /\ SameTerms(c, q) /\ SameReview(c, q)
<1>1. p \in RequestType /\ RowOK(p)
      BY DEF TypeOK, ServicesTypeOK, RequestInv
<1>2. p.payment # "NONE" /\ p.status = "FINAL_COST_APPROVED"
      BY <1>1 DEF ReportPayment, VerifyPayment, ConfirmReceipt, RowOK
<1>3. /\ c \in RequestType /\ c.status = p.status
      /\ SamePlace(p, c) /\ SameTerms(p, c) /\ SameReview(p, c) /\ SamePayment(p, c)
      BY <1>1, <1>2, ChangeKeeps DEF ServiceStatus
<1>4. \/ \E ref \in Reference : Store(r, reported(ref)) /\ ~ReferenceTaken(ref)
      \/ p.payment # "APPROVED" /\ (Store(r, verified) \/ Store(r, received))
      \/ Store(r, rejected)
      BY DEF ReportPayment, VerifyPayment, ConfirmReceipt
<1> HIDE DEF c
<1>5. \A ref \in Reference :
          /\ Kept(reported(ref))
          /\ reported(ref).payment = "PAYMENT_REPORTED" /\ reported(ref).reference = ref
      BY <1>3 DEF RequestType, SamePlace, SameTerms, SameReview
<1>6. /\ Kept(verified) /\ verified.payment = "EVIDENCE_VERIFIED"
      /\ verified.reference = c.reference
      /\ Kept(received) /\ received.payment = "RECEIPT_CONFIRMED"
      /\ received.reference = c.reference
      BY <1>3 DEF RequestType, SamePlace, SameTerms, SameReview
<1>7. Kept(rejected) /\ rejected.payment = "APPROVED" /\ rejected.reference = NoReference
      BY <1>3 DEF RequestType, SamePlace, SameTerms, SameReview
<1> HIDE DEF reported, verified, rejected, received
<1>8. PICK q : /\ Store(r, q) /\ Kept(q) /\ q.payment # "NONE"
               /\ q.payment # "APPROVED" <=> q.reference # NoReference
               /\ q.reference \in {p.reference, NoReference} \/ ~ReferenceTaken(q.reference)
    <2>1. p.payment # "APPROVED" => p.reference # NoReference
          BY <1>1, <1>2 DEF RowOK
    <2>2. c.reference = p.reference
          BY <1>3 DEF SamePayment
    <2>3. \A ref \in Reference : ref # NoReference
          BY ServiceAssumption
    <2> QED
        BY <1>4, <1>5, <1>6, <1>7, <2>1, <2>2, <2>3
<1>9. /\ SamePlace(p, q) /\ SameTerms(p, q) /\ SameReview(p, q)
      /\ q.status = "FINAL_COST_APPROVED" /\ q.paid = p.paid
      BY <1>2, <1>3, <1>8 DEF SamePlace, SameTerms, SameReview, SamePayment
<1>10. RowOK(q)
    <2>1. /\ ApprovedEstimate(q) <=> ApprovedEstimate(p)
          /\ LatestEstimate(q) = LatestEstimate(p)
          BY <1>9, SameApproval
    <2>2. /\ ApprovedEstimate(p) /\ p.finalCost <= LatestEstimate(p).amount
          /\ p.reviewApproved /\ p.reviewedEstimate = Len(p.estimates)
          /\ p.paid = p.finalCost /\ p.paid <= LatestEstimate(p).amount
          BY <1>1, <1>2 DEF RowOK, WorkStatus
    <2>3. /\ q.reviewApproved /\ q.reviewedEstimate = Len(q.estimates)
          /\ q.paid = q.finalCost /\ q.finalCost = p.finalCost
          BY <1>9, <2>2 DEF SameTerms, SameReview
    <2> QED
        BY <1>8, <1>9, <2>1, <2>2, <2>3 DEF RowOK, FreshStatus
<1> QED
    BY <1>2, <1>8, <1>9, <1>10, StaysInPlace

\* A worker comes to a request that has no appointment.
LEMMA AssignMoves ==
    ASSUME TypeOK, RequestInv, NEW r \in Request, NEW v, NEW w \in Worker, Assign(r, v, w)
    PROVE  \E q : Moves(r, q)
<1> DEFINE p == request[r]
           c == Change(p, "ASSIGNED")
           q == [c EXCEPT !.worker = w]
<1>1. p \in RequestType /\ RowOK(p)
      BY DEF TypeOK, ServicesTypeOK, RequestInv
<1>2. Store(r, q) /\ p.status = "REQUESTED"
      BY DEF Assign
<1>3. /\ c \in RequestType /\ c.status = "ASSIGNED"
      /\ SamePlace(p, c) /\ SameTerms(p, c) /\ SamePayment(p, c)
      BY <1>1, ChangeKeeps DEF ServiceStatus
<1> HIDE DEF c
<1>4. /\ q.status = c.status /\ q.appointment = c.appointment
      /\ SameTerms(c, q) /\ SamePayment(c, q)
      BY <1>3 DEF RequestType, SameTerms, SamePayment
<1> HIDE DEF q
<1>5. p.finalCost = 0 /\ p.payment = "NONE" /\ p.reference = NoReference /\ p.appointment = NoWindow
      BY <1>1, <1>2, NothingOwedYet DEF RowOK, FreshStatus
<1>6. /\ q.status = "ASSIGNED" /\ q.appointment = NoWindow /\ q.finalCost = 0
      /\ q.payment = "NONE" /\ q.reference = NoReference
      BY <1>3, <1>4, <1>5 DEF SamePlace, SameTerms, SamePayment
<1>7. RowOK(q)
      BY <1>6 DEF RowOK, WorkStatus
<1> QED
    BY <1>2, <1>6, <1>7 DEF Moves

\* The reported cost is within the approved estimate.
LEMMA CompleteMoves ==
    ASSUME TypeOK, RequestInv, NEW r \in Request, NEW v, NEW cost \in Amount, Complete(r, v, cost)
    PROVE  \E q : Moves(r, q)
<1> DEFINE p == request[r]
           c == Change(p, "COMPLETED")
           q == [c EXCEPT !.finalCost = cost, !.completed = TRUE]
<1>1. p \in RequestType /\ RowOK(p)
      BY DEF TypeOK, ServicesTypeOK, RequestInv
<1>2. /\ Store(r, q) /\ p.status \in {"IN_PROGRESS", "FINAL_COST_REJECTED"}
      /\ ApprovedEstimate(p) /\ cost <= LatestEstimate(p).amount
      BY DEF Complete
<1>3. /\ c \in RequestType /\ c.status = "COMPLETED"
      /\ SamePlace(p, c) /\ SameTerms(p, c) /\ SamePayment(p, c)
      BY <1>1, ChangeKeeps DEF ServiceStatus
<1> HIDE DEF c
<1>4. /\ q.status = c.status /\ q.finalCost = cost
      /\ q.estimates = c.estimates /\ q.approvedEstimate = c.approvedEstimate
      /\ SamePlace(c, q) /\ SamePayment(c, q)
      BY <1>3 DEF RequestType, SamePlace, SamePayment
<1> HIDE DEF q
<1>5. /\ q.status = "COMPLETED" /\ SamePlace(p, q) /\ SamePayment(p, q)
      /\ q.estimates = p.estimates /\ q.approvedEstimate = p.approvedEstimate
      BY <1>3, <1>4 DEF SamePlace, SameTerms, SamePayment
<1>6. ApprovedEstimate(q) /\ LatestEstimate(q) = LatestEstimate(p)
      BY <1>2, <1>5 DEF ApprovedEstimate, LatestEstimate
<1>7. p.payment = "NONE" /\ p.reference = NoReference
      BY <1>1, <1>2 DEF RowOK
<1>8. q.payment = "NONE" /\ q.reference = NoReference
      BY <1>5, <1>7 DEF SamePayment
<1>9. RowOK(q)
      BY <1>2, <1>4, <1>5, <1>6, <1>8 DEF RowOK, FreshStatus
<1>10. q.reference = NoReference /\ p.status # "CANCELLED"
      BY <1>2, <1>8
<1> QED
    BY <1>2, <1>5, <1>9, <1>10, StaysInPlace

\* A cancelled request owes nothing, and its appointment stands in nobody's way.
LEMMA CancelMoves ==
    ASSUME TypeOK, RequestInv, NEW r \in Request, NEW v, Cancel(r, v)
    PROVE  \E q : Moves(r, q)
<1> DEFINE p == request[r]
           q == Change(p, "CANCELLED")
<1>1. p \in RequestType /\ RowOK(p)
      BY DEF TypeOK, ServicesTypeOK, RequestInv
<1>2. Store(r, q) /\ p.payment = "NONE" /\ p.status # "CANCELLED"
      BY DEF Cancel
<1>3. q.status = "CANCELLED" /\ SamePlace(p, q) /\ SameTerms(p, q) /\ SamePayment(p, q)
      BY <1>1, ChangeKeeps DEF ServiceStatus
<1> HIDE DEF q
<1>4. q.payment = "NONE" /\ q.reference = NoReference
      BY <1>1, <1>2, <1>3 DEF SamePayment, RowOK
<1>5. RowOK(q)
      BY <1>3, <1>4 DEF RowOK, FreshStatus, WorkStatus
<1> QED
    BY <1>2, <1>3, <1>4, <1>5, StaysInPlace

\* Every step moves one request or none.
LEMMA RequestSteps ==
    ASSUME TypeOK, RequestInv, [Next]_vars
    PROVE  UNCHANGED request \/ \E r \in Request : \E q : Moves(r, q)
<1>1. ASSUME NEW r \in Request, NEW v \in 1..MaxVersion, ServiceMutation(r, v)
      PROVE  \E q : Moves(r, q)
    <2>1. CASE \E w \in Worker : Assign(r, v, w)
          BY <2>1, AssignMoves
    <2>2. CASE \E amount \in Amount : SubmitEstimate(r, v, amount) \/ Complete(r, v, amount)
          BY <2>2, SubmitEstimateMoves, CompleteMoves
    <2>3. CASE \E n \in 1..MaxEstimates, d \in {"APPROVED", "REJECTED", "REVISION_REQUESTED"} :
                   DecideEstimate(r, v, n, d)
          BY <2>3, DecideEstimateMoves
    <2>4. CASE \E slot \in Window : Schedule(r, v, slot)
          BY <2>4, ScheduleMoves
    <2>5. CASE Start(r, v)
          BY <2>5, StartMoves
    <2>6. CASE Progress(r, v) \/ Review(r, v)
          BY <2>6, NotesMove
    <2>7. CASE \E approved \in BOOLEAN : ReviewFinalCost(r, v, approved)
          BY <2>7, ReviewFinalCostMoves
    <2>8. CASE ApprovePayment(r, v)
          BY <2>8, ApprovePaymentMoves
    <2>9. CASE \/ \E ref \in Reference : ReportPayment(r, v, ref)
               \/ \E approved \in BOOLEAN : VerifyPayment(r, v, approved)
               \/ ConfirmReceipt(r, v)
          BY <2>9, PaymentMoves
    <2>10. CASE Cancel(r, v)
          BY <2>10, CancelMoves
    <2> QED
        BY <1>1, <2>1, <2>2, <2>3, <2>4, <2>5, <2>6, <2>7, <2>8, <2>9, <2>10 DEF ServiceMutation
<1>2. CASE ServicesNext
      BY <1>1, <1>2, CreateMoves, NotesMove DEF ServicesNext, Tick
<1> QED
    BY <1>2 DEF Next, vars, serviceVars

LEMMA InitRequests == Init => RequestInv
<1> SUFFICES ASSUME Init PROVE RequestInv
    OBVIOUS
<1>1. \A r \in Request :
          /\ request[r].status = "NONE" /\ request[r].appointment = NoWindow
          /\ request[r].finalCost = 0 /\ request[r].payment = "NONE"
          /\ request[r].reference = NoReference
      BY DEF Init, ServicesInit, BlankRequest
<1>2. \A r \in Request : RowOK(request[r])
      BY <1>1 DEF RowOK, WorkStatus
<1> QED
    BY <1>1, <1>2 DEF RequestInv, NoDoubleBooking, ReferenceBacksOnePayment

LEMMA RequestsStep ==
    ASSUME TypeOK, TypeOK', RequestInv, [Next]_vars
    PROVE  RequestInv'
<1>1. CASE UNCHANGED request
      BY <1>1 DEF RequestInv, NoDoubleBooking, ReferenceBacksOnePayment
<1>2. CASE \E r \in Request : \E q : Moves(r, q)
      BY <1>2, MoveKeeps
<1> QED
    BY <1>1, <1>2, RequestSteps

\* Appointments do not overlap, references are used once, and nothing unapproved is worked
\* on or paid (paid-services.service.ts, paid-service-evidence.service.ts), for any number
\* of requests and whatever is revised, moved, corrected or rejected in between.
THEOREM RequestInvariant == Spec => []RequestInv
<1>1. TypeOK /\ TypeOK' /\ RequestInv /\ [Next]_vars => RequestInv'
      BY RequestsStep
<1> QED
    BY <1>1, InitRequests, TypeCorrect, PTL DEF Spec

\* Two requests of one worker or resident never hold overlapping appointments (schedule),
\* whatever is rescheduled, cancelled or completed in between.
THEOREM AppointmentsApart == Spec => []NoDoubleBooking
<1>1. RequestInv => NoDoubleBooking
      BY DEF RequestInv
<1> QED
    BY <1>1, RequestInvariant, PTL

\* A payment reference backs one payment (report), through rejections and new reports.
THEOREM ReferencesUsedOnce == Spec => []ReferenceBacksOnePayment
<1>1. RequestInv => ReferenceBacksOnePayment
      BY DEF RequestInv
<1> QED
    BY <1>1, RequestInvariant, PTL

\* Work and payment follow the latest decision of the resident and of the authority.
THEOREM OnlyApprovedWork == Spec => []NothingUnapproved
<1>1. RequestInv => NothingUnapproved
      BY DEF RequestInv, RowOK, WorkStatus, NothingUnapproved, WorkIsApproved, PaymentIsAuthorized
<1> QED
    BY <1>1, RequestInvariant, PTL

-----------------------------------------------------------------------------
(* Workers' records. What a history names must still be a verified complaint *)
(* or a deleted one, or the complaint could be verified and named again.     *)

VerifiedStatus == {"RESOLVED", "REVIEWED", "CLOSED"}

\* A history names only complaints that were verified, and none twice; a verified
\* complaint is named in the history of its worker.
HistoryInv ==
    \A w \in Worker :
        /\ \A i \in DOMAIN workHistory[w] :
               complaint[workHistory[w][i]].status \in VerifiedStatus \cup {"DELETED"}
        /\ \A i, j \in DOMAIN workHistory[w] : workHistory[w][i] = workHistory[w][j] => i = j
        /\ \A c \in Complaint :
               complaint[c].status \in VerifiedStatus /\ complaint[c].assignedWorker = w
                   => \E i \in DOMAIN workHistory[w] : workHistory[w][i] = c

ReviewsOf(w) == {v \in reviews : v.worker = w}

CountInv == \A w \in Worker : completedWorkCount[w] = Cardinality(ReviewsOf(w))

\* Complaint c is verified after a step that leaves the histories alone only if it was
\* verified before it, and it does not lose that but by being deleted.
Follows(c) ==
    /\ complaint[c].status \in VerifiedStatus \cup {"DELETED"}
           => complaint'[c].status \in VerifiedStatus \cup {"DELETED"}
    /\ complaint'[c].status \in VerifiedStatus
           => /\ complaint[c].status \in VerifiedStatus
              /\ complaint'[c].assignedWorker = complaint[c].assignedWorker

LEMMA HistoryStays ==
    ASSUME TypeOK, HistoryInv, UNCHANGED workHistory, \A c \in Complaint : Follows(c)
    PROVE  HistoryInv'
<1>1. \A w \in Worker : \A i \in DOMAIN workHistory[w] : workHistory[w][i] \in Complaint
      BY DEF TypeOK, WorkforceTypeOK
<1> QED
    BY <1>1 DEF HistoryInv, Follows

\* verifyResolution adds a complaint that no history names yet to its worker's.
LEMMA VerifyResolutionRecords ==
    ASSUME IInv, HistoryInv, NEW c \in Complaint, VerifyResolution(c)
    PROVE  HistoryInv'
<1>1. /\ TypeOK /\ AssignmentAgrees /\ complaint[c] \in ComplaintType
      /\ \A w \in Worker : workHistory[w] \in Seq(Complaint)
      BY DEF IInv, TypeOK, WorkforceTypeOK, ComplaintsTypeOK
<1>2. PICK a \in assignments : a.complaint = c /\ AddCompletedComplaint(a.worker, c)
      BY DEF VerifyResolution, CompletedAssignment
<1>3. /\ complaint[c].status = "PENDING_VERIFICATION"
      /\ complaint' = [complaint EXCEPT ![c].status = "RESOLVED"]
      BY DEF VerifyResolution, UpdateStatus
<1>4. a.worker \in Worker /\ complaint[c].assignedWorker = a.worker
  <2>1. a \in {b \in assignments : b.complaint = c} /\ Stored(c)
        BY <1>2, <1>3 DEF Stored, ComplaintStatus
  <2>2. complaint[c].assignedWorker # NoWorker /\ a.worker = complaint[c].assignedWorker
        BY <1>1, <2>1 DEF AssignmentAgrees
  <2> QED
      BY <1>1, <2>2 DEF ComplaintType
<1>5. /\ complaint'[c].status = "RESOLVED" /\ complaint'[c].assignedWorker = a.worker
      /\ \A o \in Complaint \ {c} : complaint'[o] = complaint[o]
      BY <1>1, <1>3, <1>4 DEF TypeOK, ComplaintsTypeOK, ComplaintType
<1>6. /\ workHistory'[a.worker] = Append(workHistory[a.worker], c)
      /\ \A w \in Worker \ {a.worker} : workHistory'[w] = workHistory[w]
      BY <1>1, <1>2, <1>4 DEF AddCompletedComplaint, TypeOK, WorkforceTypeOK
<1>7. \A w \in Worker : \A i \in DOMAIN workHistory[w] :
          workHistory[w][i] \in Complaint /\ workHistory[w][i] # c
      BY <1>1, <1>3 DEF HistoryInv, VerifiedStatus
<1>8. ASSUME NEW w \in Worker, w # a.worker
      PROVE  /\ \A i \in DOMAIN workHistory'[w] :
                    complaint'[workHistory'[w][i]].status \in VerifiedStatus \cup {"DELETED"}
             /\ \A i, j \in DOMAIN workHistory'[w] : workHistory'[w][i] = workHistory'[w][j] => i = j
             /\ \A o \in Complaint :
                    complaint'[o].status \in VerifiedStatus /\ complaint'[o].assignedWorker = w
                        => \E i \in DOMAIN workHistory'[w] : workHistory'[w][i] = o
      BY <1>5, <1>6, <1>7, <1>8 DEF HistoryInv
<1> DEFINE n == Len(workHistory[a.worker])
           h == workHistory'[a.worker]
<1>9. /\ n \in Nat /\ DOMAIN workHistory[a.worker] = 1..n /\ DOMAIN h = 1..(n + 1)
      /\ h[n + 1] = c /\ \A i \in 1..n : h[i] = workHistory[a.worker][i]
      BY <1>1, <1>4, <1>6
<1>10. /\ \A i \in 1..n : complaint[workHistory[a.worker][i]].status \in VerifiedStatus \cup {"DELETED"}
       /\ \A i, j \in 1..n : workHistory[a.worker][i] = workHistory[a.worker][j] => i = j
       /\ \A o \in Complaint :
              complaint[o].status \in VerifiedStatus /\ complaint[o].assignedWorker = a.worker
                  => \E i \in 1..n : workHistory[a.worker][i] = o
       /\ \A i \in 1..n : workHistory[a.worker][i] \in Complaint /\ workHistory[a.worker][i] # c
       BY <1>4, <1>7, <1>9 DEF HistoryInv
<1>11. /\ \A i \in DOMAIN h : complaint'[h[i]].status \in VerifiedStatus \cup {"DELETED"}
       /\ \A i, j \in DOMAIN h : h[i] = h[j] => i = j
       /\ \A o \in Complaint :
              complaint'[o].status \in VerifiedStatus /\ complaint'[o].assignedWorker = a.worker
                  => \E i \in DOMAIN h : h[i] = o
  <2> HIDE DEF n, h
  <2>1. \A i \in 1..(n + 1) : i \in 1..n \/ i = n + 1
        BY <1>9
  <2>2. ASSUME NEW i \in 1..n PROVE h[i] \in Complaint \ {c} /\ i \in DOMAIN h
        BY <1>9, <1>10, <2>2
  <2>3. "RESOLVED" \in VerifiedStatus /\ n + 1 \in DOMAIN h
        BY <1>9 DEF VerifiedStatus
  <2>4. \A i \in DOMAIN h : complaint'[h[i]].status \in VerifiedStatus \cup {"DELETED"}
        BY <1>5, <1>9, <1>10, <2>1, <2>2, <2>3
  <2>5. \A i, j \in DOMAIN h : h[i] = h[j] => i = j
        BY <1>9, <1>10, <2>1, <2>2
  <2>6. ASSUME NEW o \in Complaint, complaint'[o].status \in VerifiedStatus,
               complaint'[o].assignedWorker = a.worker
        PROVE  \E i \in DOMAIN h : h[i] = o
        BY <1>5, <1>9, <1>10, <2>2, <2>3, <2>6
  <2> QED
      BY <2>4, <2>5, <2>6
<1> QED
    BY <1>8, <1>11 DEF HistoryInv

\* Every other step of ComplaintsService leaves the histories alone.
LEMMA ComplaintsFollow ==
    ASSUME TypeOK, NEW c \in Complaint,
           \/ CreateComplaint(c) \/ DeleteComplaint(c) \/ TransitionStatus(c)
           \/ \E w \in Worker : AssignWorker(c, w)
           \/ StartWork(c) \/ UploadProof(c) \/ ResolveWork(c) \/ SubmitReview(c)
    PROVE  UNCHANGED workHistory /\ \A o \in Complaint : Follows(o)
<1> USE DEF workforceVars
<1>1. complaint \in [Complaint -> ComplaintType]
      BY DEF TypeOK, ComplaintsTypeOK
<1> DEFINE Turns == /\ \A o \in Complaint \ {c} : complaint'[o] = complaint[o]
                    /\ UNCHANGED workHistory
<1>2. Turns /\ Follows(c) => UNCHANGED workHistory /\ \A o \in Complaint : Follows(o)
      BY DEF Follows
<1>3. CASE CreateComplaint(c) \/ DeleteComplaint(c)
  <2>1. /\ Turns
        /\ \/ complaint[c].status = "NONE" /\ complaint'[c].status = "SUBMITTED"
           \/ complaint'[c].status = "DELETED"
        BY <1>1, <1>3 DEF CreateComplaint, DeleteComplaint, NewComplaint
  <2>2. Follows(c)
        BY <2>1 DEF Follows, VerifiedStatus
  <2> QED
      BY <1>2, <2>1, <2>2
<1>4. CASE TransitionStatus(c)
  <2>1. /\ Turns /\ complaint'[c].assignedWorker = complaint[c].assignedWorker
        /\ \/ complaint[c].status = "SUBMITTED" /\ complaint'[c].status = "UNDER_REVIEW"
           \/ complaint[c].status = "REVIEWED" /\ complaint'[c].status = "CLOSED"
        BY <1>1, <1>4 DEF TransitionStatus, UpdateStatus, ComplaintType
  <2>2. Follows(c)
        BY <2>1 DEF Follows, VerifiedStatus
  <2> QED
      BY <1>2, <2>1, <2>2
<1>5. CASE (\E w \in Worker : AssignWorker(c, w)) \/ StartWork(c) \/ UploadProof(c) \/ ResolveWork(c)
  <2>1. /\ Turns
        /\ complaint[c].status \in {"UNDER_REVIEW", "ASSIGNED", "IN_PROGRESS"}
        /\ complaint'[c].status \in {"ASSIGNED", "IN_PROGRESS", "PENDING_VERIFICATION"}
        BY <1>1, <1>5 DEF AssignWorker, CanAssignWorker, StartWork, UploadProof, ResolveWork,
                          UpdateStatus, ComplaintType
  <2>2. Follows(c)
        BY <2>1 DEF Follows, VerifiedStatus
  <2> QED
      BY <1>2, <2>1, <2>2
<1>6. CASE SubmitReview(c)
  <2>1. /\ Turns /\ complaint'[c].assignedWorker = complaint[c].assignedWorker
        /\ complaint[c].status = "RESOLVED" /\ complaint'[c].status = "REVIEWED"
        BY <1>1, <1>6 DEF SubmitReview, CanSubmitReview, UpdateStatus, ComplaintType
  <2>2. Follows(c)
        BY <2>1 DEF Follows, VerifiedStatus
  <2> QED
      BY <1>2, <2>1, <2>2
<1> QED
    BY <1>3, <1>4, <1>5, <1>6

\* submitReview: the worker's count becomes the number of its reviews, this one too.
LEMMA SubmitReviewCounts ==
    ASSUME IInv, CountInv, NEW c \in Complaint, SubmitReview(c)
    PROVE  CountInv'
<1>1. PICK a \in assignments :
          /\ CanSubmitReview(c, a)
          /\ reviews' = reviews \cup {[complaint |-> c, worker |-> a.worker]}
          /\ UpdatePerformance(a.worker, Cardinality({v \in reviews : v.worker = a.worker}) + 1)
      BY DEF SubmitReview
<1>2. /\ completedWorkCount \in [Worker -> Nat] /\ a.worker \in Worker
      /\ \A w : IsFiniteSet(ReviewsOf(w))
      BY FS_Subset DEF IInv, FiniteReviews, ReviewsOf, TypeOK, WorkforceTypeOK, ComplaintsTypeOK, AssignmentType
<1> DEFINE new == [complaint |-> c, worker |-> a.worker]
<1>3. new \notin ReviewsOf(a.worker)
      BY <1>1 DEF CanSubmitReview, ReviewsOf
<1>4. /\ ReviewsOf(a.worker)' = ReviewsOf(a.worker) \cup {new}
      /\ \A w \in Worker \ {a.worker} : ReviewsOf(w)' = ReviewsOf(w)
      BY <1>1 DEF ReviewsOf
<1>5. Cardinality(ReviewsOf(a.worker) \cup {new}) = Cardinality(ReviewsOf(a.worker)) + 1
  <2> HIDE DEF new
  <2> QED
      BY <1>2, <1>3, FS_AddElement
<1>6. /\ completedWorkCount'[a.worker] = Cardinality(ReviewsOf(a.worker)) + 1
      /\ \A w \in Worker \ {a.worker} : completedWorkCount'[w] = completedWorkCount[w]
      BY <1>1, <1>2 DEF UpdatePerformance, ReviewsOf
<1> QED
    BY <1>4, <1>5, <1>6 DEF CountInv

LEMMA RecordSteps ==
    ASSUME IInv, HistoryInv, CountInv, [Next]_vars
    PROVE  HistoryInv' /\ CountInv'
<1> USE DEF workforceVars, complaintVars, serviceVars, recordVars
<1>1. TypeOK
      BY DEF IInv
<1>2. CASE ComplaintsNext /\ UNCHANGED serviceVars
  <2>1. PICK c \in Complaint :
            \/ CreateComplaint(c) \/ DeleteComplaint(c) \/ TransitionStatus(c)
            \/ \E w \in Worker : AssignWorker(c, w)
            \/ StartWork(c) \/ UploadProof(c) \/ ResolveWork(c)
            \/ VerifyResolution(c) \/ SubmitReview(c)
        BY <1>2 DEF ComplaintsNext
  <2>2. HistoryInv'
        BY <1>1, <2>1, VerifyResolutionRecords, ComplaintsFollow, HistoryStays
  <2>3. CASE SubmitReview(c)
        BY <2>2, <2>3, SubmitReviewCounts
  <2>4. CASE ~SubmitReview(c)
    <3>1. UNCHANGED <<reviews, completedWorkCount>>
          BY <2>1, <2>4 DEF CreateComplaint, DeleteComplaint, TransitionStatus, AssignWorker, StartWork,
                            UploadProof, ResolveWork, VerifyResolution
    <3> QED
        BY <2>2, <3>1 DEF CountInv, ReviewsOf
  <2> QED
      BY <2>3, <2>4
<1>3. CASE UNCHANGED <<recordVars, complaintVars>>
  <2>1. \A c \in Complaint : Follows(c)
        BY <1>3 DEF Follows
  <2>2. HistoryInv'
        BY <1>1, <1>3, <2>1, HistoryStays
  <2>3. CountInv'
        BY <1>3 DEF CountInv, ReviewsOf
  <2> QED
      BY <2>2, <2>3
<1>4. CASE WorkforceNext /\ UNCHANGED <<complaintVars, serviceVars>>
      BY <1>3, <1>4 DEF WorkforceNext, CreateProfile, UpdateProfile, Deactivate
<1>5. CASE ServicesNext
  <2>1. ASSUME Tick PROVE UNCHANGED <<recordVars, complaintVars>>
        BY <2>1 DEF Tick
  <2>2. ASSUME NEW r \in Request, Routine(r) PROVE UNCHANGED <<recordVars, complaintVars>>
        BY <2>2 DEF Routine
  <2>3. ASSUME NEW r \in Request, NEW v, NEW w, Assign(r, v, w) PROVE UNCHANGED <<recordVars, complaintVars>>
        BY <2>3 DEF Assign
  <2>4. ASSUME NEW r \in Request, NEW v, NEW cost, Complete(r, v, cost)
        PROVE  UNCHANGED <<recordVars, complaintVars>>
        BY <2>4 DEF Complete
  <2>5. ASSUME NEW r \in Request, NEW v, Cancel(r, v) PROVE UNCHANGED <<recordVars, complaintVars>>
        BY <2>5 DEF Cancel
  <2> HIDE DEF recordVars, complaintVars
  <2>6. UNCHANGED <<recordVars, complaintVars>>
        BY <1>5, <2>1, <2>2, <2>3, <2>4, <2>5, ServicesNextCases
  <2> QED
      BY <1>3, <2>6
<1> QED
    BY <1>2, <1>3, <1>4, <1>5 DEF Next, vars

\* A worker's history names each verified complaint once (verifyResolution) and the count
\* is that of its reviews (submitReview), whatever is deleted in between.
THEOREM RecordsAreEarned == Spec => []RecordIsEarned
<1>1. Init => HistoryInv /\ CountInv
  <2> SUFFICES ASSUME Init PROVE HistoryInv /\ CountInv
      OBVIOUS
  <2>1. \A w \in Worker : workHistory[w] = <<>> /\ completedWorkCount[w] = 0
        BY DEF Init, WorkforceInit
  <2>2. \A c \in Complaint : complaint[c].status \notin VerifiedStatus
        BY DEF Init, ComplaintsInit, NewComplaint, VerifiedStatus
  <2>3. HistoryInv
    <3>1. \A w \in Worker : \A i : i \notin DOMAIN workHistory[w]
      <4>1. \A i : i \notin DOMAIN <<>>
            OBVIOUS
      <4> QED
          BY <2>1, <4>1
    <3> QED
        BY <2>2, <3>1 DEF HistoryInv
  <2>4. \A w : Cardinality(ReviewsOf(w)) = 0
        BY FS_EmptySet DEF Init, ComplaintsInit, ReviewsOf
  <2> QED
      BY <2>1, <2>3, <2>4 DEF CountInv
<1>2. IInv /\ HistoryInv /\ CountInv /\ [Next]_vars => HistoryInv' /\ CountInv'
      BY RecordSteps
<1>3. HistoryInv /\ CountInv => RecordIsEarned
  <2>1. ASSUME NEW h, NEW c, \E i \in DOMAIN h : h[i] = c PROVE c \in ToSet(h)
        BY <2>1 DEF ToSet
  <2>2. SUFFICES ASSUME HistoryInv, CountInv PROVE RecordIsEarned
        OBVIOUS
  <2>3. \A w \in Worker : completedWorkCount[w] = Cardinality({v \in reviews : v.worker = w})
        BY <2>2 DEF CountInv, ReviewsOf
  <2> QED
      BY <2>1, <2>2, <2>3 DEF HistoryInv, RecordIsEarned, VerifiedStatus
<1> QED
    BY <1>1, <1>2, <1>3, DeskInvariant, PTL DEF Spec

-----------------------------------------------------------------------------
(* Open forms. A form is stale exactly when its version is: every mutation  *)
(* moves the version of its request, and no version comes back.             *)

\* A handler that moves the version of request r.
Advances(r) ==
    \E q :
        /\ Store(r, q)
        /\ q.version = request[r].version + 1
        /\ q.status # "NONE"

\* change() moves the version.
LEMMA ChangeAdvances ==
    ASSUME NEW p \in RequestType, NEW s \in ServiceStatus
    PROVE  LET q == Change(p, s) IN
           q \in RequestType /\ q.version = p.version + 1 /\ q.status # "NONE"
<1>1. Change(p, s) \in RequestType /\ Change(p, s).status = s
      BY ChangeType
<1>2. Change(p, s).version = p.version + 1
      BY DEF Change, RequestType
<1> QED
    BY <1>1, <1>2 DEF ServiceStatus

\* Every mutation a client may send moves the version.
LEMMA MutationAdvances ==
    ASSUME TypeOK, NEW r \in Request, NEW v, ServiceMutation(r, v)
    PROVE  Advances(r)
<1> DEFINE p == request[r]
<1>1. p \in RequestType
      BY DEF TypeOK, ServicesTypeOK
<1>2. p.status \in ServiceStatus
  <2>1. Mutation(r, v)
        BY DEF ServiceMutation, Assign, SubmitEstimate, Complete, DecideEstimate, Schedule, Start, Progress,
               ReviewFinalCost, VerifyPayment, ApprovePayment, ReportPayment, ConfirmReceipt, Review, Cancel
  <2> QED
      BY <1>1, <2>1 DEF Mutation, Created, RequestType
<1>3. ASSUME NEW w \in Worker, Assign(r, v, w) PROVE Advances(r)
  <2> DEFINE q == Change(p, "ASSIGNED")
             k == [q EXCEPT !.worker = w]
  <2>1. q \in RequestType /\ q.version = p.version + 1 /\ q.status # "NONE"
        BY <1>1, ChangeAdvances DEF ServiceStatus
  <2>2. k.version = q.version /\ k.status = q.status
        BY <2>1 DEF RequestType
  <2>3. Store(r, k)
        BY <1>3 DEF Assign
  <2> HIDE DEF q, k
  <2> QED
      BY <2>1, <2>2, <2>3 DEF Advances
<1>4. ASSUME NEW amount \in Amount, SubmitEstimate(r, v, amount) PROVE Advances(r)
  <2> DEFINE q == Change(p, "AWAITING_ESTIMATE_APPROVAL")
             k == [q EXCEPT !.estimates = Append(@, [amount |-> amount, status |-> "PENDING"])]
  <2>1. q \in RequestType /\ q.version = p.version + 1 /\ q.status # "NONE"
        BY <1>1, ChangeAdvances DEF ServiceStatus
  <2>2. k.version = q.version /\ k.status = q.status
        BY <2>1 DEF RequestType
  <2>3. Store(r, k)
        BY <1>4 DEF SubmitEstimate
  <2> HIDE DEF q, k
  <2> QED
      BY <2>1, <2>2, <2>3 DEF Advances
<1>5. ASSUME NEW cost \in Amount, Complete(r, v, cost) PROVE Advances(r)
  <2> DEFINE q == Change(p, "COMPLETED")
             k == [q EXCEPT !.finalCost = cost, !.completed = TRUE]
  <2>1. q \in RequestType /\ q.version = p.version + 1 /\ q.status # "NONE"
        BY <1>1, ChangeAdvances DEF ServiceStatus
  <2>2. k.version = q.version /\ k.status = q.status
        BY <2>1 DEF RequestType
  <2>3. Store(r, k)
        BY <1>5 DEF Complete
  <2> HIDE DEF q, k
  <2> QED
      BY <2>1, <2>2, <2>3 DEF Advances
<1>6. ASSUME NEW n, DecideEstimate(r, v, n, "APPROVED") PROVE Advances(r)
  <2> DEFINE q == Change(p, ResumedStatus(p))
             k == [q EXCEPT !.estimates = Decided(p, n, "APPROVED"), !.approvedEstimate = n]
  <2>1. q \in RequestType /\ q.version = p.version + 1 /\ q.status # "NONE"
        BY <1>1, ChangeAdvances DEF ResumedStatus, ServiceStatus
  <2>2. k.version = q.version /\ k.status = q.status
        BY <2>1 DEF RequestType
  <2>3. Store(r, k)
        BY <1>6 DEF DecideEstimate
  <2> HIDE DEF q, k
  <2> QED
      BY <2>1, <2>2, <2>3 DEF Advances
<1>7. ASSUME NEW n, DecideEstimate(r, v, n, "REJECTED") PROVE Advances(r)
  <2> DEFINE q == Change(p, "ESTIMATE_REJECTED")
             k == [q EXCEPT !.estimates = Decided(p, n, "REJECTED")]
  <2>1. q \in RequestType /\ q.version = p.version + 1 /\ q.status # "NONE"
        BY <1>1, ChangeAdvances DEF ServiceStatus
  <2>2. k.version = q.version /\ k.status = q.status
        BY <2>1 DEF RequestType
  <2>3. Store(r, k)
        BY <1>7 DEF DecideEstimate
  <2> HIDE DEF q, k
  <2> QED
      BY <2>1, <2>2, <2>3 DEF Advances
<1>8. ASSUME NEW n, DecideEstimate(r, v, n, "REVISION_REQUESTED") PROVE Advances(r)
  <2> DEFINE q == Change(p, "REVISION_REQUESTED")
             k == [q EXCEPT !.estimates = Decided(p, n, "REVISION_REQUESTED")]
  <2>1. q \in RequestType /\ q.version = p.version + 1 /\ q.status # "NONE"
        BY <1>1, ChangeAdvances DEF ServiceStatus
  <2>2. k.version = q.version /\ k.status = q.status
        BY <2>1 DEF RequestType
  <2>3. Store(r, k)
        BY <1>8 DEF DecideEstimate
  <2> HIDE DEF q, k
  <2> QED
      BY <2>1, <2>2, <2>3 DEF Advances
<1>9. ASSUME NEW slot \in Window, Schedule(r, v, slot) PROVE Advances(r)
  <2> DEFINE q == Change(p, "SCHEDULED")
             k == [q EXCEPT !.appointment = slot]
  <2>1. q \in RequestType /\ q.version = p.version + 1 /\ q.status # "NONE"
        BY <1>1, ChangeAdvances DEF ServiceStatus
  <2>2. k.version = q.version /\ k.status = q.status
        BY <2>1 DEF RequestType
  <2>3. Store(r, k)
        BY <1>9 DEF Schedule
  <2> HIDE DEF q, k
  <2> QED
      BY <2>1, <2>2, <2>3 DEF Advances
<1>10. ASSUME Start(r, v) PROVE Advances(r)
  <2> DEFINE q == Change(p, "IN_PROGRESS")
             k == [q EXCEPT !.started = TRUE]
  <2>1. q \in RequestType /\ q.version = p.version + 1 /\ q.status # "NONE"
        BY <1>1, ChangeAdvances DEF ServiceStatus
  <2>2. k.version = q.version /\ k.status = q.status
        BY <2>1 DEF RequestType
  <2>3. Store(r, k)
        BY <1>10 DEF Start
  <2> HIDE DEF q, k
  <2> QED
      BY <2>1, <2>2, <2>3 DEF Advances
<1>11. ASSUME Progress(r, v) PROVE Advances(r)
  <2> DEFINE q == Change(p, p.status)
  <2>1. q \in RequestType /\ q.version = p.version + 1 /\ q.status # "NONE"
        BY <1>1, <1>2, ChangeAdvances
  <2>2. Store(r, q)
        BY <1>11 DEF Progress
  <2> HIDE DEF q
  <2> QED
      BY <2>1, <2>2 DEF Advances
<1>12. ASSUME NEW approved \in BOOLEAN, ReviewFinalCost(r, v, approved) PROVE Advances(r)
  <2> DEFINE q == Change(p, IF approved THEN "FINAL_COST_APPROVED" ELSE "FINAL_COST_REJECTED")
             k == [q EXCEPT !.reviewApproved = approved, !.reviewedEstimate = Len(p.estimates)]
  <2>1. q \in RequestType /\ q.version = p.version + 1 /\ q.status # "NONE"
        BY <1>1, ChangeAdvances DEF ServiceStatus
  <2>2. k.version = q.version /\ k.status = q.status
        BY <2>1 DEF RequestType
  <2>3. Store(r, k)
        BY <1>12 DEF ReviewFinalCost
  <2> HIDE DEF q, k
  <2> QED
      BY <2>1, <2>2, <2>3 DEF Advances
<1>13. ASSUME ApprovePayment(r, v) PROVE Advances(r)
  <2> DEFINE q == Change(p, p.status)
             k == [q EXCEPT !.payment = "APPROVED", !.paid = p.finalCost]
  <2>1. q \in RequestType /\ q.version = p.version + 1 /\ q.status # "NONE"
        BY <1>1, <1>2, ChangeAdvances
  <2>2. k.version = q.version /\ k.status = q.status
        BY <2>1 DEF RequestType
  <2>3. Store(r, k)
        BY <1>13 DEF ApprovePayment
  <2> HIDE DEF q, k
  <2> QED
      BY <2>1, <2>2, <2>3 DEF Advances
<1>14. ASSUME NEW ref \in Reference, ReportPayment(r, v, ref) PROVE Advances(r)
  <2> DEFINE q == Change(p, p.status)
             k == [q EXCEPT !.payment = "PAYMENT_REPORTED", !.reference = ref]
  <2>1. q \in RequestType /\ q.version = p.version + 1 /\ q.status # "NONE"
        BY <1>1, <1>2, ChangeAdvances
  <2>2. k.version = q.version /\ k.status = q.status
        BY <2>1 DEF RequestType
  <2>3. Store(r, k)
        BY <1>14 DEF ReportPayment
  <2> HIDE DEF q, k
  <2> QED
      BY <2>1, <2>2, <2>3 DEF Advances
<1>15. ASSUME VerifyPayment(r, v, TRUE) PROVE Advances(r)
  <2> DEFINE q == Change(p, p.status)
             k == [q EXCEPT !.payment = "EVIDENCE_VERIFIED"]
  <2>1. q \in RequestType /\ q.version = p.version + 1 /\ q.status # "NONE"
        BY <1>1, <1>2, ChangeAdvances
  <2>2. k.version = q.version /\ k.status = q.status
        BY <2>1 DEF RequestType
  <2>3. Store(r, k)
        BY <1>15 DEF VerifyPayment
  <2> HIDE DEF q, k
  <2> QED
      BY <2>1, <2>2, <2>3 DEF Advances
<1>16. ASSUME VerifyPayment(r, v, FALSE) PROVE Advances(r)
  <2> DEFINE q == Change(p, p.status)
             k == [q EXCEPT !.payment = "APPROVED", !.reference = NoReference]
  <2>1. q \in RequestType /\ q.version = p.version + 1 /\ q.status # "NONE"
        BY <1>1, <1>2, ChangeAdvances
  <2>2. k.version = q.version /\ k.status = q.status
        BY <2>1 DEF RequestType
  <2>3. Store(r, k)
        BY <1>16 DEF VerifyPayment
  <2> HIDE DEF q, k
  <2> QED
      BY <2>1, <2>2, <2>3 DEF Advances
<1>17. ASSUME ConfirmReceipt(r, v) PROVE Advances(r)
  <2> DEFINE q == Change(p, p.status)
             k == [q EXCEPT !.payment = "RECEIPT_CONFIRMED"]
  <2>1. q \in RequestType /\ q.version = p.version + 1 /\ q.status # "NONE"
        BY <1>1, <1>2, ChangeAdvances
  <2>2. k.version = q.version /\ k.status = q.status
        BY <2>1 DEF RequestType
  <2>3. Store(r, k)
        BY <1>17 DEF ConfirmReceipt
  <2> HIDE DEF q, k
  <2> QED
      BY <2>1, <2>2, <2>3 DEF Advances
<1>18. ASSUME Review(r, v) PROVE Advances(r)
  <2> DEFINE q == Change(p, p.status)
             k == [q EXCEPT !.rated = TRUE]
  <2>1. q \in RequestType /\ q.version = p.version + 1 /\ q.status # "NONE"
        BY <1>1, <1>2, ChangeAdvances
  <2>2. k.version = q.version /\ k.status = q.status
        BY <2>1 DEF RequestType
  <2>3. Store(r, k)
        BY <1>18 DEF Review
  <2> HIDE DEF q, k
  <2> QED
      BY <2>1, <2>2, <2>3 DEF Advances
<1>19. ASSUME Cancel(r, v) PROVE Advances(r)
  <2> DEFINE q == Change(p, "CANCELLED")
  <2>1. q \in RequestType /\ q.version = p.version + 1 /\ q.status # "NONE"
        BY <1>1, ChangeAdvances DEF ServiceStatus
  <2>2. Store(r, q)
        BY <1>19 DEF Cancel
  <2> HIDE DEF q
  <2> QED
      BY <2>1, <2>2 DEF Advances
<1> QED
    BY <1>3, <1>4, <1>5, <1>6, <1>7, <1>8, <1>9, <1>10, <1>11, <1>12,
       <1>13, <1>14, <1>15, <1>16, <1>17, <1>18, <1>19 DEF ServiceMutation

\* A request has a version as soon as it exists.
VersionInv == \A r \in Request : Created(r) <=> request[r].version # 0

\* So does every other step of the desk that touches a request.
LEMMA DeskAdvances ==
    ASSUME TypeOK, RequestInv, VersionInv, [Next]_vars
    PROVE  UNCHANGED request \/ \E r \in Request : Advances(r)
<1>1. ASSUME NEW r \in Request, NEW res \in Resident, CreateRequest(r, res)
      PROVE  Advances(r)
  <2> DEFINE q == [BlankRequest EXCEPT !.status = "REQUESTED", !.version = 1, !.resident = res]
  <2>1. q.version = 1 /\ q.status = "REQUESTED" /\ Store(r, q)
        BY <1>1 DEF BlankRequest, CreateRequest
  <2>2. request[r].version = 0
        BY <1>1 DEF CreateRequest, VersionInv
  <2> HIDE DEF q
  <2> QED
      BY <2>1, <2>2 DEF Advances
<1>2. ASSUME NEW r \in Request, AddEvidence(r)
      PROVE  Advances(r)
  <2>1. request[r] \in RequestType /\ request[r].status \in ServiceStatus
        BY <1>2 DEF AddEvidence, RequestInv, RowOK, ServiceStatus, TypeOK, ServicesTypeOK
  <2> DEFINE q == Change(request[r], request[r].status)
             k == [q EXCEPT !.evidence = @ + 1]
  <2>2. q \in RequestType /\ q.version = request[r].version + 1 /\ q.status # "NONE"
        BY <2>1, ChangeAdvances
  <2>3. k.version = q.version /\ k.status = q.status
        BY <2>2 DEF RequestType
  <2>4. Store(r, k)
        BY <1>2 DEF AddEvidence
  <2> HIDE DEF q, k
  <2> QED
      BY <2>2, <2>3, <2>4 DEF Advances
<1>3. CASE ServicesNext
      BY <1>1, <1>2, <1>3, MutationAdvances DEF ServicesNext, Tick
<1> QED
    BY <1>3 DEF Next, vars, serviceVars

\* An open form shows a request as it was at the version it carries.
FormInv ==
    form # NoForm =>
        /\ form.id \in Request
        /\ Created(form.id)
        /\ form.shown.version \in Nat
        /\ form.shown.version <= request[form.id].version
        /\ form.shown.version = request[form.id].version => request[form.id] = form.shown

LEMMA VersionsMove ==
    ASSUME TypeOK, RequestInv, VersionInv, [Next]_vars
    PROVE  /\ VersionInv'
           /\ UNCHANGED form /\ FormInv => FormInv'
<1>1. /\ request \in [Request -> RequestType]
      /\ \A r \in Request : request[r].version \in Nat
      BY DEF TypeOK, ServicesTypeOK, RequestType
<1>2. CASE UNCHANGED request
      BY <1>2 DEF VersionInv, FormInv, Created
<1>3. ASSUME NEW r \in Request, Advances(r)
      PROVE  VersionInv' /\ (UNCHANGED form /\ FormInv => FormInv')
  <2>1. /\ request'[r].version = request[r].version + 1 /\ request'[r].status # "NONE"
        /\ \A o \in Request \ {r} : request'[o] = request[o]
        BY <1>1, <1>3 DEF Advances, Store
  <2>2. VersionInv'
        BY <1>1, <2>1 DEF VersionInv, Created
  <2>3. ASSUME UNCHANGED form, FormInv, form # NoForm PROVE FormInv'
        BY <1>1, <2>1, <2>3 DEF FormInv, Created
  <2> QED
      BY <2>2, <2>3 DEF FormInv
<1> QED
    BY <1>2, <1>3, DeskAdvances

\* What a form submits is a mutation that any client may send.
LEMMA FormsStep ==
    ASSUME TypeOK, VersionInv, FormInv, [FormsNext]_formVars
    PROVE  [Next]_vars
<1>1. CASE SubmitForm
  <2>1. PICK r \in Request : r = form.id /\ ServiceMutation(r, form.shown.version)
        BY <1>1 DEF SubmitForm, FormInv
  <2> DEFINE v == form.shown.version
  <2>2. Mutation(r, v)
        BY <2>1 DEF ServiceMutation, Assign, SubmitEstimate, Complete, DecideEstimate, Schedule, Start, Progress,
                    ReviewFinalCost, VerifyPayment, ApprovePayment, ReportPayment, ConfirmReceipt, Review, Cancel
  <2>3. v \in 1..MaxVersion
    <3>1. request[r].version \in Nat /\ request[r].version # 0 /\ v = request[r].version /\ v < MaxVersion
          BY <2>2 DEF Mutation, VersionInv, TypeOK, ServicesTypeOK, RequestType
    <3> QED
        BY <3>1, ServiceAssumption
  <2> QED
      BY <2>1, <2>3 DEF Next, ServicesNext
<1>2. CASE \E r \in Request : OpenForm(r)
      BY <1>2 DEF OpenForm
<1> QED
    BY <1>1, <1>2 DEF FormsNext, CloseForm, formVars

LEMMA FormInvSteps ==
    ASSUME TypeOK, RequestInv, VersionInv, FormInv, [FormsNext]_formVars
    PROVE  VersionInv' /\ FormInv'
<1>1. VersionInv' /\ (UNCHANGED form => FormInv')
      BY FormsStep, VersionsMove
<1>2. CASE form' = NoForm
      BY <1>1, <1>2 DEF FormInv
<1>3. CASE \E r \in Request : OpenForm(r)
  <2>1. PICK r \in Request : OpenForm(r)
        BY <1>3
  <2>2. form' = [id |-> r, shown |-> request[r]] /\ UNCHANGED request /\ Created(r)
        BY <2>1 DEF OpenForm, vars, serviceVars
  <2>3. form'.id = r /\ form'.shown = request[r] /\ request[r].version \in Nat
        BY <2>2 DEF TypeOK, ServicesTypeOK, RequestType
  <2> QED
      BY <1>1, <2>2, <2>3 DEF FormInv, Created
<1>4. CASE UNCHANGED form
      BY <1>1, <1>4
<1> QED
    BY <1>2, <1>3, <1>4 DEF FormsNext, SubmitForm, CloseForm, formVars

FormsInv == IInv /\ RequestInv /\ VersionInv /\ FormInv

LEMMA FormsInvariant == FormsSpec => []FormsInv
<1>1. FormsInit => FormsInv
  <2> SUFFICES ASSUME FormsInit PROVE FormsInv
      OBVIOUS
  <2>1. IInv /\ RequestInv
        BY InitIInv, InitRequests DEF FormsInit
  <2>2. VersionInv
        BY DEF FormsInit, Init, ServicesInit, BlankRequest, VersionInv, Created
  <2> QED
      BY <2>1, <2>2 DEF FormsInit, FormsInv, FormInv
<1>2. FormsInv /\ [FormsNext]_formVars => FormsInv'
  <2> SUFFICES ASSUME FormsInv, [FormsNext]_formVars PROVE FormsInv'
      OBVIOUS
  <2>1. TypeOK /\ [Next]_vars
        BY FormsStep DEF FormsInv, IInv
  <2>2. IInv' /\ TypeOK'
        BY <2>1, Inductive DEF FormsInv, IInv
  <2>3. RequestInv'
        BY <2>1, <2>2, RequestsStep DEF FormsInv
  <2> QED
      BY <2>1, <2>2, <2>3, FormInvSteps DEF FormsInv
<1> QED
    BY <1>1, <1>2, PTL DEF FormsSpec

\* The desk with a slow client is still the desk: everything proved of Spec holds.
THEOREM SlowClientIsAClient == FormsSpec => Spec
<1>1. FormsInit => Init
      BY DEF FormsInit
<1>2. FormsInv /\ [FormsNext]_formVars => [Next]_vars
      BY FormsStep DEF FormsInv, IInv
<1> QED
    BY <1>1, <1>2, FormsInvariant, PTL DEF FormsSpec, Spec

\* A form submitted after its request changed is refused by the version check (mutation),
\* however long it was open and whatever was decided, uploaded or released meanwhile.
THEOREM NothingStaleIsSubmitted == FormsSpec => NoStaleSubmission
<1> DEFINE Fresh == form # NoForm /\ form' = NoForm /\ request' # request => request[form.id] = form.shown
<1>1. ASSUME FormsInv, [FormsNext]_formVars PROVE Fresh
  <2> SUFFICES ASSUME form # NoForm, form' = NoForm, request' # request PROVE request[form.id] = form.shown
      OBVIOUS
  <2>1. ServiceMutation(form.id, form.shown.version)
        BY <1>1 DEF FormsNext, SubmitForm, CloseForm, OpenForm, formVars, vars, serviceVars
  <2>2. form.shown.version = request[form.id].version
        BY <2>1 DEF ServiceMutation, Assign, SubmitEstimate, Complete, DecideEstimate, Schedule, Start, Progress,
                    ReviewFinalCost, VerifyPayment, ApprovePayment, ReportPayment, ConfirmReceipt, Review, Cancel,
                    Mutation
  <2> QED
      BY <1>1, <2>2 DEF FormsInv, FormInv
<1>2. FormsInv /\ [FormsNext]_formVars => [Fresh]_formVars
      BY <1>1
<1> QED
    BY <1>2, FormsInvariant, PTL DEF FormsSpec, NoStaleSubmission

-----------------------------------------------------------------------------
(* VisitDesk: no visit takes what another one has, and who and when it      *)
(* names is who comes and when, while the complaints go on by themselves.   *)

\* What a visit has in each of its states.
VisitOK(q) ==
    /\ q.status # "NONE" => q.complaint # NoComplaint
    /\ q.status = "NONE" => q.complaint = NoComplaint
    /\ q.status \in {"NONE", "REQUESTED"} => q.worker = NoWorker /\ q.arrivedAt = NotArrived
    /\ q.status \in SlotHoldingStatus => q.scheduled # NoSlot /\ q.worker # NoWorker
    /\ q.arrivedAt # NotArrived => q.scheduled # NoSlot

\* Visits are of complaints that were created.
VisitsFiled ==
    \A p \in Appointment :
        /\ VisitOK(appointment[p])
        /\ appointment[p].status # "NONE" => complaint[appointment[p].complaint].status # "NONE"

VisitsInv ==
    /\ complaint \in [Complaint -> ComplaintType]
    /\ AppointmentsTypeOK
    /\ VisitsFiled
    /\ NoVisitTwice
    /\ VisitHeldAsRecorded

LEMMA BlankVisitType == BlankAppointment \in AppointmentType
BY AppointmentAssumption DEF BlankAppointment, AppointmentType, AppointmentStatus, NotArrived

LEMMA VisitsInitInv == VisitsInit => VisitsInv
<1> SUFFICES ASSUME VisitsInit PROVE VisitsInv
    OBVIOUS
<1>1. complaint \in [Complaint -> ComplaintType]
    <2>1. NewComplaint("NONE") \in ComplaintType /\ NewComplaint("SUBMITTED") \in ComplaintType
          BY DEF NewComplaint, ComplaintType, ComplaintStatus
    <2> QED
        BY <2>1 DEF VisitsInit, ComplaintsInit
<1>3. AppointmentsTypeOK
      BY BlankVisitType DEF VisitsInit, AppointmentsInit, AppointmentsTypeOK
<1>4. \A p \in Appointment :
         /\ appointment[p].status = "NONE" /\ appointment[p].complaint = NoComplaint
         /\ appointment[p].worker = NoWorker /\ appointment[p].arrivedAt = NotArrived
      BY DEF VisitsInit, AppointmentsInit, BlankAppointment
<1>5. VisitsFiled
      BY <1>4 DEF VisitsFiled, VisitOK, SlotHoldingStatus
<1>6. NoVisitTwice /\ VisitHeldAsRecorded
      BY <1>4 DEF NoVisitTwice, SlotPromisedOnce, OneActiveVisit, HoldsSlot, SlotHoldingStatus,
                  ActiveStatus, VisitHeldAsRecorded, VisitUsesAssignedWorker, HasComplaint,
                  ArrivalMatchesSlot
<1> QED
    BY <1>1, <1>3, <1>5, <1>6 DEF VisitsInv

-----------------------------------------------------------------------------
(* What happens to complaints. *)

\* A complaint that was created never comes back after its deletion, and keeps the
\* worker it once got.
ComplaintsKept ==
    /\ complaint' \in [Complaint -> ComplaintType]
    /\ \A c \in Complaint : complaint[c].status # "NONE" =>
          /\ complaint'[c].status # "NONE"
          /\ Stored(c)' => /\ Stored(c)
                           /\ complaint[c].assignedWorker # NoWorker =>
                                 complaint'[c].assignedWorker = complaint[c].assignedWorker

LEMMA StatusKeeps ==
    ASSUME complaint \in [Complaint -> ComplaintType], NEW c \in Complaint, Stored(c),
           NEW s \in ComplaintStatus, UpdateStatus(c, s)
    PROVE  ComplaintsKept
<1>1. complaint' \in [Complaint -> ComplaintType]
      BY DEF UpdateStatus, ComplaintType
<1>2. /\ complaint'[c].status = s /\ complaint'[c].assignedWorker = complaint[c].assignedWorker
      /\ \A d \in Complaint \ {c} : complaint'[d] = complaint[d]
      BY DEF UpdateStatus, ComplaintType
<1> QED
    BY <1>1, <1>2 DEF ComplaintsKept, Stored, ComplaintStatus

LEMMA AssignKeeps ==
    ASSUME complaint \in [Complaint -> ComplaintType], NEW c \in Complaint, NEW w \in Worker,
           AssignWorker(c, w)
    PROVE  ComplaintsKept /\ Stored(c) /\ complaint'[c].assignedWorker = w
<1>1. /\ complaint[c].status = "UNDER_REVIEW" /\ complaint[c].assignedWorker = NoWorker
      /\ complaint' = [complaint EXCEPT ![c] =
            [[complaint[c] EXCEPT !.status = "ASSIGNED"] EXCEPT !.assignedWorker = w]]
      BY DEF AssignWorker, CanAssignWorker, ComplaintType
<1>2. /\ complaint'[c].status = "ASSIGNED" /\ complaint'[c].assignedWorker = w
      /\ complaint'[c] \in ComplaintType
      /\ \A d \in Complaint \ {c} : complaint'[d] = complaint[d]
      BY <1>1 DEF ComplaintType, ComplaintStatus
<1>3. complaint' \in [Complaint -> ComplaintType]
      BY <1>1, <1>2
<1> QED
    BY <1>1, <1>2, <1>3 DEF ComplaintsKept, Stored, ComplaintStatus

LEMMA ComplaintsNextKeeps ==
    ASSUME complaint \in [Complaint -> ComplaintType], ComplaintsNext
    PROVE  ComplaintsKept
<1> PICK c \in Complaint :
        \/ CreateComplaint(c) \/ DeleteComplaint(c) \/ TransitionStatus(c)
        \/ \E w \in Worker : AssignWorker(c, w)
        \/ StartWork(c) \/ UploadProof(c) \/ ResolveWork(c)
        \/ VerifyResolution(c) \/ SubmitReview(c)
    BY DEF ComplaintsNext
<1>1. CASE CreateComplaint(c)
    <2>1. NewComplaint("SUBMITTED") \in ComplaintType
          BY DEF NewComplaint, ComplaintType, ComplaintStatus
    <2> QED
        BY <1>1, <2>1 DEF CreateComplaint, ComplaintsKept, Stored
<1>2. CASE DeleteComplaint(c)
    <2>1. /\ NewComplaint("DELETED") \in ComplaintType
          /\ NewComplaint("DELETED").status = "DELETED"
          BY DEF NewComplaint, ComplaintType
    <2> QED
        BY <1>2, <2>1 DEF DeleteComplaint, ComplaintsKept, Stored, ComplaintStatus
<1>3. CASE \E w \in Worker : AssignWorker(c, w)
      BY <1>3, AssignKeeps
<1>4. CASE UploadProof(c)
    <2>1. complaint' = [complaint EXCEPT ![c].hasProof = TRUE]
          BY <1>4 DEF UploadProof
    <2>2. /\ complaint' \in [Complaint -> ComplaintType]
          /\ \A d \in Complaint :
                /\ complaint'[d].status = complaint[d].status
                /\ complaint'[d].assignedWorker = complaint[d].assignedWorker
          BY <2>1 DEF ComplaintType
    <2> QED
        BY <2>2 DEF ComplaintsKept, Stored
<1>5. CASE TransitionStatus(c) \/ StartWork(c) \/ ResolveWork(c) \/ VerifyResolution(c) \/ SubmitReview(c)
    <2>1. Stored(c) /\ \E s \in ComplaintStatus : UpdateStatus(c, s)
          BY <1>5 DEF TransitionStatus, StartWork, ActiveAssignment, ResolveWork, VerifyResolution,
                      SubmitReview, CanSubmitReview, Stored, ComplaintStatus
    <2> QED
        BY <2>1, StatusKeeps
<1> QED
    BY <1>1, <1>2, <1>3, <1>4, <1>5

\* While the visits stay, whatever happens to the complaints is all right.
LEMMA VisitsSurvive ==
    ASSUME VisitsInv, ComplaintsKept, UNCHANGED appointment, hour' \in Nat
    PROVE  VisitsInv'
<1>1. \A p \in Appointment : /\ appointment[p].status # "NONE" => appointment[p].complaint \in Complaint
                             /\ VisitOK(appointment[p])
      BY DEF VisitsInv, AppointmentsTypeOK, AppointmentType, VisitsFiled, VisitOK
<1>2. AppointmentsTypeOK'
      BY DEF VisitsInv, AppointmentsTypeOK
<1>3. VisitsFiled'
      BY <1>1 DEF VisitsInv, VisitsFiled, ComplaintsKept
<1>4. \A p \in Appointment : HasComplaint(p)' => HasComplaint(p)
      BY <1>1 DEF VisitsInv, VisitsFiled, HasComplaint, ComplaintsKept, Stored
<1>5. \A p \in Appointment : HoldsSlot(p)' => HoldsSlot(p)
      BY <1>1, <1>4 DEF HoldsSlot, HasComplaint, SlotHoldingStatus
<1>6. NoVisitTwice'
      BY <1>5 DEF VisitsInv, NoVisitTwice, SlotPromisedOnce, OneActiveVisit
<1>7. VisitUsesAssignedWorker'
    <2> SUFFICES ASSUME NEW p \in Appointment, HasComplaint(p)', appointment[p].worker # NoWorker
                 PROVE  complaint'[appointment[p].complaint].assignedWorker = appointment[p].worker
        BY DEF VisitUsesAssignedWorker
    <2>1. complaint[appointment[p].complaint].assignedWorker = appointment[p].worker
          BY <1>4 DEF VisitsInv, VisitHeldAsRecorded, VisitUsesAssignedWorker
    <2> QED
        BY <1>1, <2>1 DEF VisitsInv, VisitsFiled, HasComplaint, ComplaintsKept, Stored
<1>8. ArrivalMatchesSlot'
      BY DEF VisitsInv, VisitHeldAsRecorded, ArrivalMatchesSlot
<1> QED
    BY <1>2, <1>3, <1>6, <1>7, <1>8 DEF VisitsInv, ComplaintsKept, VisitHeldAsRecorded

-----------------------------------------------------------------------------
(* A handler replaces one visit by r. *)

SameClaim(q, r) ==
    /\ q.status \in ActiveStatus
    /\ q.complaint = r.complaint

SameHold(q, r) ==
    /\ q.status \in SlotHoldingStatus
    /\ q.complaint = r.complaint /\ q.worker = r.worker /\ q.scheduled = r.scheduled

ArrivalOK(r) ==
    r.arrivedAt # NotArrived =>
        /\ r.scheduled.from <= r.arrivedAt + EarlyArrivalHours
        /\ Day(r.arrivedAt) <= Day(r.scheduled.from)

LEMMA VisitReplaced ==
    ASSUME VisitsInv, ComplaintsKept, hour' \in Nat,
           NEW p \in Appointment, NEW r \in AppointmentType, Save(p, r),
           r.status # "NONE", VisitOK(r),
           complaint[r.complaint].status # "NONE",
           r.status \in ActiveStatus => SameClaim(appointment[p], r) \/ NoActiveAppointment(r.complaint),
           r.status \in SlotHoldingStatus =>
              \/ SameHold(appointment[p], r)
              \/ ~\E o \in Appointment \ {p} : /\ appointment[o].worker = r.worker
                                               /\ HoldsSlot(o)
                                               /\ appointment[o].scheduled = r.scheduled,
           Stored(r.complaint)' /\ r.worker # NoWorker =>
              complaint'[r.complaint].assignedWorker = r.worker,
           ArrivalOK(r)
    PROVE  VisitsInv'
<1>1. \A o \in Appointment : appointment'[o] = IF o = p THEN r ELSE appointment[o]
      BY DEF Save, VisitsInv, AppointmentsTypeOK
<1>2. /\ r.complaint \in Complaint
      /\ \A o \in Appointment : /\ appointment[o].status # "NONE" => appointment[o].complaint \in Complaint
                                /\ VisitOK(appointment[o])
      BY DEF VisitsInv, AppointmentsTypeOK, AppointmentType, VisitsFiled, VisitOK
<1>3. AppointmentsTypeOK'
      BY DEF Save, VisitsInv, AppointmentsTypeOK
<1>4. VisitsFiled'
      BY <1>1, <1>2 DEF VisitsInv, VisitsFiled, ComplaintsKept
<1>5. \A o \in Appointment \ {p} : HasComplaint(o)' => HasComplaint(o)
      BY <1>1, <1>2 DEF VisitsInv, VisitsFiled, HasComplaint, ComplaintsKept, Stored
<1>6. \A o \in Appointment \ {p} : HoldsSlot(o)' => HoldsSlot(o)
      BY <1>1, <1>2, <1>5 DEF HoldsSlot, HasComplaint, SlotHoldingStatus
<1>7. HoldsSlot(p)' => r.status \in SlotHoldingStatus /\ Stored(r.complaint)
      BY <1>1, <1>2 DEF HoldsSlot, ComplaintsKept, Stored
<1>8. SlotPromisedOnce'
    <2>1. ASSUME NEW o \in Appointment \ {p}, HoldsSlot(p)', HoldsSlot(o)',
                 appointment[o].worker = r.worker
          PROVE  appointment[o].scheduled # r.scheduled
        <3>1. CASE SameHold(appointment[p], r)
            <4>1. HoldsSlot(p)
                  BY <1>2, <1>7, <2>1, <3>1 DEF HoldsSlot, SameHold, VisitOK
            <4> QED
                BY <1>6, <2>1, <3>1, <4>1 DEF SameHold, VisitsInv, NoVisitTwice, SlotPromisedOnce
        <3>2. CASE ~SameHold(appointment[p], r)
              BY <1>6, <1>7, <2>1, <3>2
        <3> QED
            BY <3>1, <3>2
    <2>2. ASSUME NEW o \in Appointment, NEW n \in Appointment, o # n, HoldsSlot(o)', HoldsSlot(n)',
                 appointment'[o].worker = appointment'[n].worker
          PROVE  appointment'[o].scheduled # appointment'[n].scheduled
        <3>1. CASE o # p /\ n # p
              BY <1>1, <1>6, <2>2, <3>1 DEF VisitsInv, NoVisitTwice, SlotPromisedOnce
        <3>2. CASE o = p \/ n = p
              BY <1>1, <2>1, <2>2, <3>2
        <3> QED
            BY <3>1, <3>2
    <2> QED
        BY <2>2 DEF SlotPromisedOnce
<1>9. OneActiveVisit'
    <2>1. ASSUME NEW o \in Appointment \ {p}, appointment[o].status \in ActiveStatus,
                 r.status \in ActiveStatus
          PROVE  appointment[o].complaint # r.complaint
          BY <2>1 DEF SameClaim, NoActiveAppointment, VisitsInv, NoVisitTwice, OneActiveVisit
    <2> QED
        BY <1>1, <2>1 DEF VisitsInv, NoVisitTwice, OneActiveVisit
<1>10. VisitUsesAssignedWorker'
    <2>1. ASSUME NEW o \in Appointment, HasComplaint(o)', appointment'[o].worker # NoWorker
          PROVE  complaint'[appointment'[o].complaint].assignedWorker = appointment'[o].worker
        <3>1. CASE o = p
              BY <1>1, <2>1, <3>1 DEF HasComplaint, Stored
        <3>2. CASE o # p
            <4>1. HasComplaint(o) /\ appointment'[o] = appointment[o]
                  BY <1>1, <1>5, <2>1, <3>2
            <4>2. complaint[appointment[o].complaint].assignedWorker = appointment[o].worker
                  BY <2>1, <4>1 DEF VisitsInv, VisitHeldAsRecorded, VisitUsesAssignedWorker
            <4> QED
                BY <1>2, <2>1, <4>1, <4>2 DEF VisitsInv, VisitsFiled, HasComplaint, ComplaintsKept, Stored
        <3> QED
            BY <3>1, <3>2
    <2> QED
        BY <2>1 DEF VisitUsesAssignedWorker
<1>11. ArrivalMatchesSlot'
      BY <1>1 DEF VisitsInv, VisitHeldAsRecorded, ArrivalMatchesSlot, ArrivalOK
<1> QED
    BY <1>3, <1>4, <1>8, <1>9, <1>10, <1>11 DEF VisitsInv, ComplaintsKept, NoVisitTwice, VisitHeldAsRecorded

\* Most handlers leave the complaint, the worker and the slot of the visit alone.
LEMMA VisitContinues ==
    ASSUME VisitsInv, UNCHANGED <<complaint, hour>>, NEW p \in Appointment, HasComplaint(p),
           NEW r \in AppointmentType, Save(p, r), r.status # "NONE", VisitOK(r),
           r.complaint = appointment[p].complaint, r.worker = appointment[p].worker,
           r.status \in ActiveStatus => appointment[p].status \in ActiveStatus,
           r.status \in SlotHoldingStatus =>
              appointment[p].status \in SlotHoldingStatus /\ r.scheduled = appointment[p].scheduled,
           ArrivalOK(r)
    PROVE  VisitsInv'
<1>1. ComplaintsKept
      BY DEF ComplaintsKept, VisitsInv, Stored
<1>2. hour' \in Nat
      BY DEF VisitsInv, AppointmentsTypeOK
<1>3. complaint[r.complaint].status # "NONE"
      BY DEF VisitsInv, VisitsFiled, HasComplaint
<1>4. r.worker # NoWorker => complaint'[r.complaint].assignedWorker = r.worker
      BY DEF VisitsInv, VisitHeldAsRecorded, VisitUsesAssignedWorker
<1> QED
    BY <1>1, <1>2, <1>3, <1>4, VisitReplaced DEF SameClaim, SameHold
-----------------------------------------------------------------------------
(* The handlers. *)

LEMMA RowNow ==
    ASSUME VisitsInv, NEW p \in Appointment
    PROVE  /\ appointment[p] \in AppointmentType
           /\ VisitOK(appointment[p])
           /\ ArrivalOK(appointment[p])
           /\ appointment[p].status # "NONE" => appointment[p].complaint \in Complaint
           /\ hour \in Nat
BY DEF VisitsInv, AppointmentsTypeOK, AppointmentType, VisitsFiled, VisitOK, VisitHeldAsRecorded,
       ArrivalMatchesSlot, ArrivalOK

LEMMA RequestKeeps ==
    ASSUME VisitsInv, NEW p \in Appointment, NEW c \in Complaint, NEW slot \in Slot, RequestVisit(p, c, slot)
    PROVE  VisitsInv'
<1> DEFINE r == [BlankAppointment EXCEPT !.status = "REQUESTED", !.complaint = c, !.requested = slot]
<1>1. /\ r \in AppointmentType /\ r.status = "REQUESTED" /\ r.complaint = c
      /\ r.worker = NoWorker /\ r.arrivedAt = NotArrived
    <2>1. /\ BlankAppointment \in AppointmentType
          /\ BlankAppointment.worker = NoWorker /\ BlankAppointment.arrivedAt = NotArrived
          BY BlankVisitType DEF BlankAppointment
    <2> QED
        BY <2>1 DEF AppointmentType, AppointmentStatus
<1>2. Save(p, r) /\ NoActiveAppointment(c) /\ UNCHANGED <<complaint, hour>>
      BY DEF RequestVisit, complaintVars
<1>3. complaint[c].status # "NONE"
      BY DEF RequestVisit, SchedulableComplaint, SchedulableStatus
<1>4. ComplaintsKept /\ hour' \in Nat
      BY <1>2 DEF ComplaintsKept, VisitsInv, Stored, AppointmentsTypeOK
<1>5. VisitOK(r) /\ ArrivalOK(r) /\ r.status \notin SlotHoldingStatus
      BY <1>1, AppointmentAssumption DEF VisitOK, ArrivalOK, SlotHoldingStatus
<1> HIDE DEF r
<1> QED
    BY <1>1, <1>2, <1>3, <1>4, <1>5, VisitReplaced

LEMMA RescheduleKeeps ==
    ASSUME VisitsInv, NEW p \in Appointment, NEW slot \in Slot, RequestReschedule(p, slot)
    PROVE  VisitsInv'
<1> DEFINE q == appointment[p]
<1>1. HasComplaint(p) /\ UNCHANGED <<complaint, hour>>
      BY DEF RequestReschedule, complaintVars
<1>2. q \in AppointmentType /\ VisitOK(q) /\ ArrivalOK(q)
      BY RowNow
<1>3. CASE q.status = "REQUESTED" /\ Save(p, [q EXCEPT !.requested = slot])
    <2> DEFINE r == [q EXCEPT !.requested = slot]
    <2>1. /\ r \in AppointmentType /\ r.status = q.status /\ r.complaint = q.complaint
          /\ r.worker = q.worker /\ r.arrivedAt = q.arrivedAt /\ r.scheduled = q.scheduled
          BY <1>2 DEF AppointmentType
    <2>2. VisitOK(r) /\ ArrivalOK(r)
          BY <1>2, <2>1 DEF VisitOK, ArrivalOK
    <2> HIDE DEF r
    <2> QED
        BY <1>1, <1>3, <2>1, <2>2, VisitContinues DEF r
<1>4. CASE /\ q.status = "CONFIRMED"
           /\ Save(p, [q EXCEPT !.status = "RESCHEDULE_REQUESTED", !.proposed = slot])
    <2> DEFINE r == [q EXCEPT !.status = "RESCHEDULE_REQUESTED", !.proposed = slot]
    <2>1. /\ r \in AppointmentType /\ r.status = "RESCHEDULE_REQUESTED"
          /\ r.complaint = q.complaint
          /\ r.worker = q.worker /\ r.arrivedAt = q.arrivedAt /\ r.scheduled = q.scheduled
          BY <1>2 DEF AppointmentType, AppointmentStatus
    <2>2. VisitOK(r) /\ ArrivalOK(r)
          BY <1>2, <1>4, <2>1 DEF VisitOK, ArrivalOK, SlotHoldingStatus
    <2> HIDE DEF r
    <2> QED
        BY <1>1, <1>4, <2>1, <2>2, VisitContinues DEF r, ActiveStatus, SlotHoldingStatus
<1> QED
    BY <1>3, <1>4 DEF RequestReschedule

\* Handlers that only move a visit on: to a status that holds no more than it did.
LEMMA MovedOn ==
    ASSUME VisitsInv, NEW p \in Appointment, UNCHANGED <<complaint, hour>>, HasComplaint(p),
           NEW s \in AppointmentStatus, NEW proposed \in Slot \cup {NoSlot},
           Save(p, [appointment[p] EXCEPT !.status = s, !.proposed = proposed]),
           s # "REQUESTED", s \in ActiveStatus => appointment[p].status \in SlotHoldingStatus
    PROVE  VisitsInv'
<1> DEFINE q == appointment[p]
           r == [q EXCEPT !.status = s, !.proposed = proposed]
<1>1. q \in AppointmentType /\ VisitOK(q) /\ ArrivalOK(q)
      BY RowNow
<1>2. /\ r \in AppointmentType /\ r.status = s /\ r.complaint = q.complaint
      /\ r.worker = q.worker /\ r.arrivedAt = q.arrivedAt /\ r.scheduled = q.scheduled
      BY <1>1 DEF AppointmentType
<1>3. q.status # "NONE" /\ s # "NONE"
      BY DEF HasComplaint, AppointmentStatus
<1>4. VisitOK(r) /\ ArrivalOK(r)
      BY <1>1, <1>2, <1>3 DEF VisitOK, ArrivalOK, SlotHoldingStatus, ActiveStatus
<1> HIDE DEF r
<1> QED
    BY <1>2, <1>3, <1>4, VisitContinues DEF r, ActiveStatus, SlotHoldingStatus

LEMMA MoveOnKeeps ==
    ASSUME VisitsInv, NEW p \in Appointment,
           \/ ResidentCancels(p) \/ RepresentativeCancels(p) \/ DeclineReschedule(p)
           \/ MarkMissed(p) \/ RecordOutcome(p)
    PROVE  VisitsInv'
<1> DEFINE q == appointment[p]
<1>1. q \in AppointmentType
      BY RowNow
<1>2. \A s \in AppointmentStatus :
         [q EXCEPT !.status = s] = [q EXCEPT !.status = s, !.proposed = q.proposed]
      BY <1>1 DEF AppointmentType
<1>3. NoSlot \in Slot \cup {NoSlot} /\ q.proposed \in Slot \cup {NoSlot}
      BY <1>1 DEF AppointmentType
<1>4. HasComplaint(p) /\ UNCHANGED <<complaint, hour>>
      BY DEF ResidentCancels, RepresentativeCancels, CancelVisit, DeclineReschedule, MarkMissed,
             RecordOutcome, complaintVars
<1>5. CASE ResidentCancels(p) \/ RepresentativeCancels(p)
    <2>1. Save(p, [q EXCEPT !.status = "CANCELLED", !.proposed = NoSlot])
          BY <1>5 DEF ResidentCancels, RepresentativeCancels, CancelVisit
    <2> QED
        BY <1>3, <1>4, <2>1, MovedOn DEF AppointmentStatus, ActiveStatus
<1>6. CASE DeclineReschedule(p)
    <2>1. /\ Save(p, [q EXCEPT !.status = "CONFIRMED", !.proposed = NoSlot])
          /\ q.status = "RESCHEDULE_REQUESTED"
          BY <1>6 DEF DeclineReschedule
    <2> QED
        BY <1>3, <1>4, <2>1, MovedOn DEF AppointmentStatus, SlotHoldingStatus
<1>7. CASE MarkMissed(p) \/ RecordOutcome(p)
    <2>1. PICK s \in {"COMPLETED", "MISSED"} : Save(p, [q EXCEPT !.status = s])
          BY <1>7 DEF MarkMissed, RecordOutcome
    <2>2. s \in AppointmentStatus /\ s # "REQUESTED" /\ s \notin ActiveStatus
          BY DEF AppointmentStatus, ActiveStatus
    <2>3. Save(p, [q EXCEPT !.status = s, !.proposed = q.proposed])
          BY <1>2, <2>1, <2>2
    <2> QED
        BY <1>3, <1>4, <2>2, <2>3, MovedOn
<1> QED
    BY <1>5, <1>6, <1>7

LEMMA ConfirmKeeps ==
    ASSUME VisitsInv, NEW p \in Appointment, NEW slot \in Slot, NEW w \in Worker, Confirm(p, slot, w)
    PROVE  VisitsInv'
<1> DEFINE q == appointment[p]
           c == q.complaint
           r == [q EXCEPT !.status = "CONFIRMED", !.scheduled = slot, !.worker = w]
<1>1. /\ HasComplaint(p) /\ q.status = "REQUESTED" /\ Save(p, r) /\ hour' = hour
      /\ WorkerAvailable(w, slot, p) /\ UseWorker(c, w)
      BY DEF Confirm, CanConfirm
<1>2. q \in AppointmentType /\ VisitOK(q) /\ c \in Complaint /\ hour' \in Nat
      BY <1>1, RowNow
<1>3. /\ r \in AppointmentType /\ r.status = "CONFIRMED" /\ r.complaint = c /\ r.worker = w
      /\ r.scheduled = slot /\ r.arrivedAt = q.arrivedAt
      BY <1>2 DEF AppointmentType, AppointmentStatus
<1>4. ComplaintsKept /\ complaint'[c].assignedWorker = w
    <2>1. CASE complaint[c].assignedWorker = w /\ UNCHANGED complaint
          BY <2>1 DEF ComplaintsKept, VisitsInv, Stored
    <2>2. CASE AssignWorker(c, w)
          BY <1>2, <2>2, AssignKeeps DEF VisitsInv
    <2> QED
        BY <1>1, <2>1, <2>2 DEF UseWorker, complaintVars
<1>5. VisitOK(r) /\ ArrivalOK(r)
    <2>1. w # NoWorker /\ slot # NoSlot
          BY NoWorkerAssumption, AppointmentAssumption
    <2>2. c # NoComplaint
          BY <1>1, <1>2 DEF VisitOK
    <2> QED
        BY <1>1, <1>2, <1>3, <2>1, <2>2 DEF VisitOK, ArrivalOK
<1>6. complaint[c].status # "NONE" /\ SameClaim(q, r)
      BY <1>1, <1>3 DEF HasComplaint, VisitsInv, VisitsFiled, SameClaim, ActiveStatus
<1>7. ~\E o \in Appointment \ {p} :
          appointment[o].worker = w /\ HoldsSlot(o) /\ appointment[o].scheduled = slot
      BY <1>1 DEF WorkerAvailable
<1> HIDE DEF r
<1> QED
    BY <1>1, <1>2, <1>3, <1>4, <1>5, <1>6, <1>7, VisitReplaced

LEMMA ApproveKeeps ==
    ASSUME VisitsInv, NEW p \in Appointment, NEW slot \in Slot, ApproveReschedule(p, slot)
    PROVE  VisitsInv'
<1> DEFINE q == appointment[p]
           r == Moved(q, slot)
<1>1. /\ HasComplaint(p) /\ q.status = "RESCHEDULE_REQUESTED" /\ Save(p, r)
      /\ WorkerAvailable(q.worker, slot, p) /\ UNCHANGED <<complaint, hour>>
      BY DEF ApproveReschedule, CanApproveReschedule, complaintVars
<1>2. q \in AppointmentType /\ VisitOK(q) /\ hour \in Nat
      BY RowNow
<1>3. NotArrived \in Nat
      BY AppointmentAssumption DEF NotArrived
<1>4. /\ r \in AppointmentType /\ r.status = "CONFIRMED" /\ r.complaint = q.complaint
      /\ r.worker = q.worker /\ r.scheduled = slot /\ r.arrivedAt = NotArrived
      BY <1>2, <1>3 DEF Moved, AppointmentType, AppointmentStatus
<1>5. VisitOK(r) /\ ArrivalOK(r)
      BY <1>1, <1>2, <1>4, AppointmentAssumption DEF VisitOK, ArrivalOK, SlotHoldingStatus
<1>6. complaint[q.complaint].status # "NONE" /\ SameClaim(q, r)
      BY <1>1, <1>4 DEF HasComplaint, VisitsInv, VisitsFiled, SameClaim, ActiveStatus
<1>7. r.worker # NoWorker => complaint[q.complaint].assignedWorker = r.worker
      BY <1>1, <1>4 DEF VisitsInv, VisitHeldAsRecorded, VisitUsesAssignedWorker
<1>8. ~\E o \in Appointment \ {p} :
          appointment[o].worker = q.worker /\ HoldsSlot(o) /\ appointment[o].scheduled = slot
      BY <1>1 DEF WorkerAvailable
<1>9. ComplaintsKept
      BY <1>1 DEF ComplaintsKept, VisitsInv, Stored
<1> HIDE DEF r
<1> QED
    BY <1>1, <1>2, <1>4, <1>5, <1>6, <1>7, <1>8, <1>9, VisitReplaced

LEMMA ArrivalKeeps ==
    ASSUME VisitsInv, NEW p \in Appointment, RecordArrival(p)
    PROVE  VisitsInv'
<1> DEFINE q == appointment[p]
           r == [q EXCEPT !.arrivedAt = hour]
<1>1. /\ HasComplaint(p) /\ q.status = "CONFIRMED" /\ Save(p, r) /\ UNCHANGED <<complaint, hour>>
      /\ q.scheduled.from <= hour + EarlyArrivalHours
      /\ Day(hour) <= Day(q.scheduled.from)
      BY DEF RecordArrival, complaintVars
<1>2. q \in AppointmentType /\ VisitOK(q) /\ hour \in Nat
      BY RowNow
<1>3. /\ r \in AppointmentType /\ r.status = q.status /\ r.complaint = q.complaint
      /\ r.worker = q.worker /\ r.scheduled = q.scheduled /\ r.arrivedAt = hour
      BY <1>2 DEF AppointmentType
<1>4. VisitOK(r) /\ ArrivalOK(r)
      BY <1>1, <1>2, <1>3 DEF VisitOK, ArrivalOK, SlotHoldingStatus
<1> HIDE DEF r
<1> QED
    BY <1>1, <1>3, <1>4, VisitContinues

-----------------------------------------------------------------------------
(* Every step. *)

LEMMA VisitsNextInv == VisitsInv /\ [VisitsNext]_visitDeskVars => VisitsInv'
<1> SUFFICES ASSUME VisitsInv, [VisitsNext]_visitDeskVars PROVE VisitsInv'
    OBVIOUS
<1>1. hour \in Nat /\ complaint \in [Complaint -> ComplaintType]
      BY DEF VisitsInv, AppointmentsTypeOK
<1>2. ASSUME UNCHANGED complaint, UNCHANGED appointment, hour' \in Nat PROVE VisitsInv'
      BY <1>2, VisitsSurvive DEF ComplaintsKept, VisitsInv, Stored
<1>3. ASSUME ComplaintsNext, UNCHANGED visitVars PROVE VisitsInv'
      BY <1>1, <1>3, VisitsSurvive, ComplaintsNextKeeps DEF visitVars
<1>4. ASSUME HourPasses PROVE VisitsInv'
      BY <1>1, <1>2, <1>4 DEF HourPasses, complaintVars
<1>5. ASSUME NEW p \in Appointment,
             \/ \E c \in Complaint, slot \in Slot : RequestVisit(p, c, slot)
             \/ \E slot \in Slot : RequestReschedule(p, slot) \/ ApproveReschedule(p, slot)
             \/ \E slot \in Slot, w \in Worker : Confirm(p, slot, w)
             \/ ResidentCancels(p) \/ RepresentativeCancels(p) \/ DeclineReschedule(p)
             \/ MarkMissed(p) \/ RecordArrival(p) \/ RecordOutcome(p)
      PROVE  VisitsInv'
      BY <1>5, RequestKeeps, RescheduleKeeps, ApproveKeeps, ConfirmKeeps, MoveOnKeeps, ArrivalKeeps
<1>6. ASSUME UNCHANGED <<complaintVars, visitVars>> PROVE VisitsInv'
      BY <1>1, <1>2, <1>6 DEF complaintVars, visitVars
<1> QED
    BY <1>3, <1>4, <1>5, <1>6 DEF VisitsNext, AppointmentsNext, visitDeskVars

\* The invariant holds for any workers, complaints, visits, slots and bounds.
THEOREM VisitsInvariant == VisitsSpec => []VisitsInv
BY VisitsInitInv, VisitsNextInv, PTL DEF VisitsSpec

\* No worker is promised to two homes in one slot and no complaint has two active
\* visits, after requests, confirmations, moves and cancellations in any order
\* (appointments.service.ts: confirm, approveReschedule, requestVisit).
THEOREM VisitsApart == VisitsSpec => []NoVisitTwice
<1>1. VisitsInv => NoVisitTwice
      BY DEF VisitsInv
<1> QED
    BY <1>1, VisitsInvariant, PTL

\* A visit keeps the worker of its complaint and an arrival the slot it was recorded
\* for, while the complaint is worked on, resolved or deleted by itself
\* (appointments.service.ts, complaints.service.ts).
THEOREM VisitsAsRecorded == VisitsSpec => []VisitHeldAsRecorded
<1>1. VisitsInv => VisitHeldAsRecorded
      BY DEF VisitsInv
<1> QED
    BY <1>1, VisitsInvariant, PTL

-----------------------------------------------------------------------------
(* VisitPages: the modals of a visit.                                        *)

\* No complaint has a worker without a profile, nor work under way without a worker;
\* nobody is reserved, for paid services are not here; community complaints get no visit.
AssignedOK ==
    /\ status \in [Worker -> WorkerStatus \cup {"ABSENT"}]
    /\ assignments \subseteq AssignmentType
    /\ \A w \in Worker : ~HasPaidServiceReservation(w)
    /\ \A c \in Complaint :
          complaint[c].assignedWorker # NoWorker => ProfileExists(complaint[c].assignedWorker)
    /\ \A a \in ActiveAssignments :
          /\ complaint[a.complaint].status # "NONE"
          /\ Stored(a.complaint) => complaint[a.complaint].assignedWorker # NoWorker

VisitsOfHomes ==
    \A p \in Appointment : appointment[p].complaint \notin CommunityComplaint

\* A step leaves profiles where they are and reserves nobody.
ProfilesStay ==
    /\ status' \in [Worker -> WorkerStatus \cup {"ABSENT"}]
    /\ reservation' = reservation
    /\ \A w \in Worker : ProfileExists(w) => status'[w] # "ABSENT"

\* A complaint keeps its worker, loses it or gets one that has a profile.
WorkersKept ==
    \A c \in Complaint :
        \/ complaint'[c].assignedWorker = complaint[c].assignedWorker
        \/ complaint'[c].assignedWorker = NoWorker
        \/ /\ complaint'[c].assignedWorker \in Worker
           /\ status'[complaint'[c].assignedWorker] # "ABSENT"

\* Work under way was so before, or is of a complaint that just got its worker.
WorkKept ==
    /\ assignments' \subseteq AssignmentType
    /\ \A a \in assignments' : a.status # "COMPLETED" =>
          \/ \E b \in ActiveAssignments : b.complaint = a.complaint
          \/ /\ complaint'[a.complaint].assignedWorker # NoWorker
             /\ complaint'[a.complaint].status # "NONE"

LEMMA AssignedStays ==
    ASSUME complaint \in [Complaint -> ComplaintType], AssignedOK,
           ComplaintsKept, ProfilesStay, WorkersKept, WorkKept
    PROVE  AssignedOK'
<1>1. \A w \in Worker : ~HasPaidServiceReservation(w)'
      BY DEF AssignedOK, ProfilesStay, HasPaidServiceReservation
<1>2. ASSUME NEW c \in Complaint, complaint'[c].assignedWorker # NoWorker
      PROVE  status'[complaint'[c].assignedWorker] # "ABSENT"
    <2>1. complaint[c].assignedWorker \in Worker \cup {NoWorker}
          BY DEF ComplaintType
    <2> QED
        BY <1>2, <2>1 DEF WorkersKept, ProfilesStay, AssignedOK, ProfileExists
<1>3. ASSUME NEW a \in assignments', a.status # "COMPLETED"
      PROVE  /\ complaint'[a.complaint].status # "NONE"
             /\ Stored(a.complaint)' => complaint'[a.complaint].assignedWorker # NoWorker
    <2>1. CASE /\ complaint'[a.complaint].assignedWorker # NoWorker
               /\ complaint'[a.complaint].status # "NONE"
          BY <2>1
    <2>2. CASE \E b \in ActiveAssignments : b.complaint = a.complaint
        <3>1. PICK b \in ActiveAssignments : b.complaint = a.complaint
              BY <2>2
        <3>2. b.complaint \in Complaint
              BY DEF ActiveAssignments, AssignedOK, AssignmentType
        <3>3. /\ complaint[b.complaint].status # "NONE"
              /\ Stored(b.complaint) => complaint[b.complaint].assignedWorker # NoWorker
              BY DEF AssignedOK
        <3> QED
            BY <3>1, <3>2, <3>3 DEF ComplaintsKept
    <2> QED
        BY <1>3, <2>1, <2>2 DEF WorkKept
<1> QED
    BY <1>1, <1>2, <1>3 DEF AssignedOK, ProfilesStay, WorkKept, ActiveAssignments, ProfileExists

LEMMA WorkforceKeeps ==
    ASSUME AssignedOK, WorkforceNext
    PROVE  ProfilesStay
<1>1. PICK w \in Worker : CreateProfile(w) \/ UpdateProfile(w) \/ Deactivate(w)
      BY DEF WorkforceNext
<1>2. reservation' = reservation
      BY <1>1 DEF CreateProfile, UpdateProfile, Deactivate
<1>3. \E s \in WorkerStatus : status' = [status EXCEPT ![w] = s]
    <2>1. CASE CreateProfile(w)
          BY <2>1 DEF CreateProfile, UpdateSystemStatus
    <2>2. CASE UpdateProfile(w)
          BY <2>2 DEF UpdateProfile, UpdateSystemStatus, CanChangeProfile, ProfileExists, AssignedOK
    <2>3. CASE Deactivate(w)
          BY <2>3 DEF Deactivate, UpdateSystemStatus, WorkerStatus
    <2> QED
        BY <1>1, <2>1, <2>2, <2>3
<1> QED
    BY <1>2, <1>3 DEF ProfilesStay, AssignedOK, ProfileExists, WorkerStatus

LEMMA StatusKeepsProfiles ==
    ASSUME AssignedOK, NEW w \in Worker, NEW s \in WorkerStatus, UpdateSystemStatus(w, s),
           reservation' = reservation
    PROVE  ProfilesStay
BY DEF UpdateSystemStatus, ProfilesStay, AssignedOK, ProfileExists, WorkerStatus

LEMMA SameProfiles ==
    ASSUME AssignedOK, UNCHANGED <<status, reservation>>
    PROVE  ProfilesStay
BY DEF ProfilesStay, AssignedOK, ProfileExists

LEMMA SameWork ==
    ASSUME AssignedOK, assignments' = assignments
    PROVE  WorkKept
BY DEF WorkKept, AssignedOK, ActiveAssignments

LEMMA SameWorkers ==
    ASSUME complaint \in [Complaint -> ComplaintType], NEW c \in Complaint, NEW s, UpdateStatus(c, s)
    PROVE  WorkersKept
<1>1. \A d \in Complaint : complaint'[d].assignedWorker = complaint[d].assignedWorker
      BY DEF UpdateStatus, ComplaintType
<1> QED
    BY <1>1 DEF WorkersKept

LEMMA AssignmentMoves ==
    ASSUME AssignedOK, NEW a \in ActiveAssignments, NEW s \in {"IN_PROGRESS", "COMPLETED"},
           SetAssignment(a, s)
    PROVE  WorkKept
<1>1. a \in AssignmentType
      BY DEF ActiveAssignments, AssignedOK
<1>2. [a EXCEPT !.status = s] \in AssignmentType /\ [a EXCEPT !.status = s].complaint = a.complaint
      BY <1>1 DEF AssignmentType
<1> QED
    BY <1>2 DEF SetAssignment, WorkKept, AssignedOK, ActiveAssignments

LEMMA AssignWorkerKeeps ==
    ASSUME complaint \in [Complaint -> ComplaintType], AssignedOK,
           NEW c \in Complaint, NEW w \in Worker, AssignWorker(c, w)
    PROVE  ProfilesStay /\ WorkersKept /\ WorkKept
<1>1. ProfilesStay /\ status'[w] = "BUSY"
    <2>1. UpdateSystemStatus(w, "BUSY") /\ reservation' = reservation /\ "BUSY" \in WorkerStatus
          BY DEF AssignWorker, WorkerStatus
    <2> QED
        BY <2>1, StatusKeepsProfiles DEF UpdateSystemStatus, AssignedOK
<1>2. /\ complaint'[c].assignedWorker = w /\ complaint'[c].status = "ASSIGNED"
      /\ \A d \in Complaint \ {c} : complaint'[d] = complaint[d]
      BY DEF AssignWorker, ComplaintType
<1>3. WorkersKept
      BY <1>1, <1>2 DEF WorkersKept
<1>4. WorkKept
    <2> DEFINE n == [complaint |-> c, worker |-> w, status |-> "ASSIGNED"]
    <2>1. n \in AssignmentType /\ n.complaint = c
          BY DEF AssignmentType
    <2>2. assignments' = assignments \cup {n}
          BY DEF AssignWorker
    <2> HIDE DEF n
    <2> QED
        BY <1>2, <2>1, <2>2, NoWorkerAssumption DEF WorkKept, AssignedOK, ActiveAssignments
<1> QED
    BY <1>1, <1>3, <1>4

LEMMA ComplaintsNextAssigned ==
    ASSUME complaint \in [Complaint -> ComplaintType], AssignedOK, ComplaintsNext
    PROVE  ProfilesStay /\ WorkersKept /\ WorkKept
<1> PICK c \in Complaint :
        \/ CreateComplaint(c) \/ DeleteComplaint(c) \/ TransitionStatus(c)
        \/ \E w \in Worker : AssignWorker(c, w)
        \/ StartWork(c) \/ UploadProof(c) \/ ResolveWork(c)
        \/ VerifyResolution(c) \/ SubmitReview(c)
    BY DEF ComplaintsNext
<1>1. CASE CreateComplaint(c) \/ DeleteComplaint(c)
    <2>1. UNCHANGED <<status, reservation, assignments>>
          BY <1>1 DEF CreateComplaint, DeleteComplaint, workforceVars
    <2>2. \A d \in Complaint : \/ complaint'[d] = complaint[d]
                               \/ complaint'[d].assignedWorker = NoWorker
          BY <1>1 DEF CreateComplaint, DeleteComplaint, NewComplaint
    <2> QED
        BY <2>1, <2>2, SameProfiles, SameWork DEF WorkersKept
<1>2. CASE UploadProof(c)
    <2>1. UNCHANGED <<status, reservation, assignments>>
          BY <1>2 DEF UploadProof, workforceVars
    <2>2. \A d \in Complaint : complaint'[d].assignedWorker = complaint[d].assignedWorker
          BY <1>2 DEF UploadProof, ComplaintType
    <2> QED
        BY <2>1, <2>2, SameProfiles, SameWork DEF WorkersKept
<1>3. CASE \E w \in Worker : AssignWorker(c, w)
      BY <1>3, AssignWorkerKeeps
<1>4. CASE TransitionStatus(c) \/ VerifyResolution(c) \/ SubmitReview(c)
    <2>1. UNCHANGED <<status, reservation, assignments>> /\ \E s : UpdateStatus(c, s)
          BY <1>4 DEF TransitionStatus, VerifyResolution, SubmitReview, workforceVars
    <2> QED
        BY <2>1, SameProfiles, SameWork, SameWorkers
<1>5. CASE StartWork(c)
    <2>1. PICK a \in ActiveAssignments :
              /\ SetAssignment(a, "IN_PROGRESS") /\ UpdateStatus(c, "IN_PROGRESS")
              /\ UNCHANGED <<status, reservation>>
          BY <1>5 DEF StartWork, ActiveAssignment, workforceVars
    <2> QED
        BY <2>1, SameProfiles, SameWorkers, AssignmentMoves
<1>6. CASE ResolveWork(c)
    <2>1. PICK a \in ActiveAssignments :
              /\ SetAssignment(a, "COMPLETED") /\ UpdateStatus(c, "PENDING_VERIFICATION")
              /\ UpdateSystemStatus(a.worker, "AVAILABLE") /\ reservation' = reservation
          BY <1>6 DEF ResolveWork, ActiveAssignment
    <2>2. a.worker \in Worker /\ "AVAILABLE" \in WorkerStatus
          BY DEF ActiveAssignments, AssignedOK, AssignmentType, WorkerStatus
    <2> QED
        BY <2>1, <2>2, StatusKeepsProfiles, SameWorkers, AssignmentMoves
<1> QED
    BY <1>1, <1>2, <1>3, <1>4, <1>5, <1>6

LEMMA AppointmentsNextAssigned ==
    ASSUME VisitsInv, AssignedOK, AppointmentsNext
    PROVE  AssignedOK'
<1>1. complaint \in [Complaint -> ComplaintType]
      BY DEF VisitsInv
<1>2. CASE UNCHANGED <<workforceVars, complaintVars>>
      BY <1>2 DEF workforceVars, complaintVars, AssignedOK, HasPaidServiceReservation, ProfileExists,
                  ActiveAssignments, Stored
<1>3. ASSUME NEW p \in Appointment, NEW slot \in Slot, NEW w \in Worker, Confirm(p, slot, w)
      PROVE  AssignedOK'
    <2> DEFINE c == appointment[p].complaint
    <2>1. UseWorker(c, w)
          BY <1>3 DEF Confirm
    <2>2. c \in Complaint
          BY <1>3, RowNow DEF Confirm, CanConfirm
    <2>3. CASE AssignWorker(c, w)
          BY <1>1, <2>2, <2>3, AssignKeeps, AssignWorkerKeeps, AssignedStays
    <2> QED
        BY <1>2, <2>1, <2>3 DEF UseWorker
<1>4. CASE ~UNCHANGED <<workforceVars, complaintVars>>
      BY <1>3, <1>4 DEF AppointmentsNext, RequestVisit, RequestReschedule, ApproveReschedule,
          ResidentCancels, RepresentativeCancels, CancelVisit, DeclineReschedule, MarkMissed,
          RecordArrival, RecordOutcome, HourPasses
<1> QED
    BY <1>2, <1>4

LEMMA NextAssigned ==
    ASSUME VisitsInv, AssignedOK, [VisitsNext]_visitDeskVars
    PROVE  AssignedOK'
<1>1. complaint \in [Complaint -> ComplaintType]
      BY DEF VisitsInv
<1>2. CASE WorkforceNext /\ UNCHANGED complaintVars
    <2>1. ComplaintsKept /\ WorkersKept
          BY <1>1, <1>2 DEF complaintVars, ComplaintsKept, WorkersKept, Stored
    <2> QED
        BY <1>1, <1>2, <2>1, WorkforceKeeps, SameWork, AssignedStays DEF complaintVars
<1>3. CASE ComplaintsNext
      BY <1>1, <1>3, ComplaintsNextKeeps, ComplaintsNextAssigned, AssignedStays
<1>4. CASE UNCHANGED visitDeskVars
      BY <1>4 DEF visitDeskVars, workforceVars, complaintVars, AssignedOK,
                  HasPaidServiceReservation, ProfileExists, ActiveAssignments, Stored
<1> QED
    BY <1>2, <1>3, <1>4, AppointmentsNextAssigned DEF VisitsNext

LEMMA NextOfHomes ==
    ASSUME VisitsInv, VisitsOfHomes, [VisitsNext]_visitDeskVars
    PROVE  VisitsOfHomes'
<1>1. appointment \in [Appointment -> AppointmentType]
      BY DEF VisitsInv, AppointmentsTypeOK
<1>2. CASE appointment' = appointment
      BY <1>2 DEF VisitsOfHomes
<1>3. ASSUME NEW p \in Appointment, NEW c \in Complaint, NEW slot \in Slot, RequestVisit(p, c, slot)
      PROVE  VisitsOfHomes'
    <2> DEFINE r == [BlankAppointment EXCEPT !.status = "REQUESTED", !.complaint = c, !.requested = slot]
    <2>1. r.complaint = c
          BY DEF BlankAppointment
    <2>2. Save(p, r) /\ c \notin CommunityComplaint
          BY <1>3 DEF RequestVisit, SchedulableComplaint
    <2> HIDE DEF r
    <2> QED
        BY <1>1, <2>1, <2>2 DEF Save, VisitsOfHomes
<1>4. ASSUME NEW p \in Appointment, NEW r, r.complaint = appointment[p].complaint, Save(p, r)
      PROVE  VisitsOfHomes'
      BY <1>1, <1>4 DEF Save, VisitsOfHomes
<1>5. ASSUME NEW p \in Appointment,
             \/ \E slot \in Slot : RequestReschedule(p, slot) \/ ApproveReschedule(p, slot)
             \/ \E slot \in Slot, w \in Worker : Confirm(p, slot, w)
             \/ ResidentCancels(p) \/ RepresentativeCancels(p) \/ DeclineReschedule(p)
             \/ MarkMissed(p) \/ RecordArrival(p) \/ RecordOutcome(p)
      PROVE  \E r : r.complaint = appointment[p].complaint /\ Save(p, r)
    <2> DEFINE q == appointment[p]
    <2>1. q \in AppointmentType
          BY <1>1
    <2> DEFINE OfSame == \E r : r.complaint = q.complaint /\ Save(p, r)
    <2>2. ASSUME NEW slot \in Slot, RequestReschedule(p, slot) PROVE OfSame
        <3>1. /\ [q EXCEPT !.requested = slot].complaint = q.complaint
              /\ [q EXCEPT !.status = "RESCHEDULE_REQUESTED", !.proposed = slot].complaint = q.complaint
              BY <2>1 DEF AppointmentType
        <3> QED
            BY <2>2, <3>1 DEF RequestReschedule
    <2>3. ASSUME NEW slot \in Slot, ApproveReschedule(p, slot) PROVE OfSame
        <3>1. Moved(q, slot).complaint = q.complaint
              BY <2>1 DEF AppointmentType, Moved
        <3> QED
            BY <2>3, <3>1 DEF ApproveReschedule
    <2>4. ASSUME NEW slot \in Slot, NEW w \in Worker, Confirm(p, slot, w) PROVE OfSame
        <3>1. [q EXCEPT !.status = "CONFIRMED", !.scheduled = slot, !.worker = w].complaint = q.complaint
              BY <2>1 DEF AppointmentType
        <3> QED
            BY <2>4, <3>1 DEF Confirm
    <2>5. CASE ResidentCancels(p) \/ RepresentativeCancels(p)
        <3>1. [q EXCEPT !.status = "CANCELLED", !.proposed = NoSlot].complaint = q.complaint
              BY <2>1 DEF AppointmentType
        <3> QED
            BY <2>5, <3>1 DEF ResidentCancels, RepresentativeCancels, CancelVisit
    <2>6. CASE DeclineReschedule(p)
        <3>1. [q EXCEPT !.status = "CONFIRMED", !.proposed = NoSlot].complaint = q.complaint
              BY <2>1 DEF AppointmentType
        <3> QED
            BY <2>6, <3>1 DEF DeclineReschedule
    <2>7. CASE MarkMissed(p) \/ RecordArrival(p) \/ RecordOutcome(p)
        <3>1. /\ \A s : [q EXCEPT !.status = s].complaint = q.complaint
              /\ [q EXCEPT !.arrivedAt = hour].complaint = q.complaint
              BY <2>1 DEF AppointmentType
        <3> QED
            BY <2>7, <3>1 DEF MarkMissed, RecordArrival, RecordOutcome
    <2> QED
        BY <1>5, <2>2, <2>3, <2>4, <2>5, <2>6, <2>7
<1>6. CASE AppointmentsNext
      BY <1>2, <1>3, <1>4, <1>5, <1>6 DEF AppointmentsNext, HourPasses
<1> QED
    BY <1>2, <1>6 DEF VisitsNext, visitDeskVars, visitVars

\* The days the picker takes lie within the horizon of the service.
LEMMA CalendarWithinHorizon ==
    ASSUME hour \in Nat, NEW slot \in Slot, OnCalendar(slot)
    PROVE  slot.from <= hour + HorizonHours
<1> DEFINE D == DayHours
           x == slot.from
           k == HorizonHours \div D
<1>1. D \in Nat \ {0} /\ HorizonHours \in Nat /\ x \in Nat
      BY AppointmentAssumption
<1>2. ASSUME NEW n \in Nat
      PROVE  n \div D \in Nat /\ D * (n \div D) <= n /\ n < D * (n \div D) + D
      BY <1>1
<1>3. x \div D <= (hour \div D) + k - 1
    <2>1. (x \div D) - (hour \div D) \in 0 .. k - 1
          BY DEF OnCalendar, Day
    <2> QED
        BY <1>1, <1>2, <2>1
<1>4. \A u, v \in Nat : u < v => D * u + D <= D * v
      BY <1>1
<1> QED
    BY <1>1, <1>2, <1>3, <1>4

LEMMA ModalsTell ==
    ASSUME VisitsInv, AssignedOK, VisitsOfHomes, NEW p \in Appointment, HasComplaint(p)
    PROVE  ModalsAreExact(p)
<1> DEFINE c == appointment[p].complaint
<1>1. /\ c \in Complaint /\ c \notin CommunityComplaint /\ hour \in Nat
      /\ appointment[p] \in AppointmentType
      BY RowNow DEF HasComplaint, VisitsOfHomes
<1>2. ASSUME NEW slot \in Slot, NEW w \in Worker
      PROVE  /\ slot \notin WorkerBookings(w, p) <=>
                    ~\E o \in Appointment \ {p} :
                        appointment[o].worker = w /\ HoldsSlot(o) /\ appointment[o].scheduled = slot
             /\ ~HasPaidServiceReservation(w)
      BY DEF WorkerBookings, AssignedOK
<1>3. ASSUME NEW slot \in Slot, OnCalendar(slot)
      PROVE  ~IsSlotPast(slot, c) <=> BookableSlot(slot, c)
    <2>1. slot.from \in Nat /\ slot.to \in Nat
          BY AppointmentAssumption
    <2> QED
        BY <1>1, <1>3, <2>1, CalendarWithinHorizon DEF IsSlotPast, BookableSlot
<1>4. ASSUME NEW w \in Worker, complaint[c].assignedWorker = w PROVE ProfileExists(w)
      BY <1>1, <1>4, NoWorkerAssumption DEF AssignedOK
<1>5. ASSUME NEW slot \in Slot, OnCalendar(slot), appointment[p].status = "REQUESTED",
             NEW w \in Worker, Present(w)
      PROVE  ConfirmOffered(p, slot, w) <=> CanConfirm(p, slot, w)
    <2>1. Pickable(slot, w, p) <=> BookableSlot(slot, c) /\ WorkerAvailable(w, slot, p)
          BY <1>2, <1>3, <1>5 DEF Pickable, WorkerAvailable, Present
    <2>2. ComplaintNeedsVisit(c) <=> SchedulableComplaint(c)
          BY <1>1 DEF ComplaintNeedsVisit, SchedulableComplaint
    <2>3. w \in WorkerChoices(c) <=>
              /\ AssertValidAssignmentTarget(w)
              /\ complaint[c].assignedWorker = w \/ CanAssignWorker(c, w)
        <3>1. CASE complaint[c].assignedWorker # NoWorker
              BY <1>2, <1>4, <1>5, <3>1 DEF WorkerChoices, CanAssignWorker, AssertValidAssignmentTarget
        <3>2. CASE complaint[c].assignedWorker = NoWorker
            <4>1. complaint[c].status = "UNDER_REVIEW" => ~\E a \in ActiveAssignments : a.complaint = c
                  BY <3>2 DEF AssignedOK, Stored, ComplaintStatus
            <4>2. w \in EligibleWorkers(c) <=>
                      /\ status[w] = "AVAILABLE" /\ specialization[w] = RequiredWorkType[c]
                      /\ ~HasActiveAssignment(w)
                  BY DEF EligibleWorkers
            <4>3. status[w] = "AVAILABLE" => ProfileExists(w)
                  BY DEF ProfileExists
            <4> QED
                BY <1>2, <1>5, <3>2, <4>1, <4>2, <4>3, NoWorkerAssumption
                DEF WorkerChoices, CanAssignWorker, AssertValidAssignmentTarget
        <3> QED
            BY <3>1, <3>2
    <2> QED
        BY <1>5, <2>1, <2>2, <2>3 DEF ConfirmOffered, CanConfirm
<1>6. ASSUME NEW slot \in Slot, OnCalendar(slot), appointment[p].status = "RESCHEDULE_REQUESTED",
             Present(appointment[p].worker)
      PROVE  ApprovalOffered(p, slot) <=> CanApproveReschedule(p, slot)
    <2> DEFINE w == appointment[p].worker
    <2>1. w \in Worker /\ complaint[c].assignedWorker = w
        <3>1. w # NoWorker /\ w \in Worker \cup {NoWorker}
              BY <1>1, <1>6, RowNow DEF VisitOK, SlotHoldingStatus, AppointmentType
        <3> QED
            BY <3>1 DEF VisitsInv, VisitHeldAsRecorded, VisitUsesAssignedWorker
    <2>2. AssertValidAssignmentTarget(w)
          BY <1>2, <1>4, <1>6, <2>1 DEF AssertValidAssignmentTarget
    <2>3. Pickable(slot, w, p) <=> BookableSlot(slot, c) /\ WorkerAvailable(w, slot, p)
          BY <1>2, <1>3, <1>6, <2>1 DEF Pickable, WorkerAvailable, Present
    <2> QED
        BY <1>1, <1>6, <2>2, <2>3
        DEF ApprovalOffered, CanApproveReschedule, ComplaintNeedsVisit, SchedulableComplaint
<1> QED
    BY <1>5, <1>6 DEF ModalsAreExact

\* Confirm visit and Process reschedule offer exactly the workers and, within their
\* calendar, the slots that confirm and approveReschedule accept, though the modals work
\* out both by themselves (ConfirmAppointmentModal.jsx, RescheduleDecisionModal.jsx).
THEOREM ModalsOfferWhatFits ==
    VisitsSpec => [](\A p \in Appointment : HasComplaint(p) => ModalsAreExact(p))
<1>1. VisitsInit => AssignedOK /\ VisitsOfHomes
    <2> SUFFICES ASSUME VisitsInit PROVE AssignedOK /\ VisitsOfHomes
        OBVIOUS
    <2>1. /\ status \in [Worker -> WorkerStatus \cup {"ABSENT"}] /\ assignments = {}
          /\ \A w \in Worker : reservation[w] = NoRequest
          BY DEF VisitsInit, WorkforceInit, ComplaintsInit, WorkerStatus
    <2>2. \A c \in Complaint : complaint[c].assignedWorker = NoWorker
          BY DEF VisitsInit, ComplaintsInit, NewComplaint
    <2>3. \A p \in Appointment : appointment[p].complaint = NoComplaint
          BY DEF VisitsInit, AppointmentsInit, BlankAppointment
    <2> QED
        BY <2>1, <2>2, <2>3, AppointmentAssumption
        DEF AssignedOK, VisitsOfHomes, HasPaidServiceReservation, ActiveAssignments
<1>2. VisitsInv /\ AssignedOK /\ [VisitsNext]_visitDeskVars => AssignedOK'
      BY NextAssigned
<1>3. VisitsInv /\ VisitsOfHomes /\ [VisitsNext]_visitDeskVars => VisitsOfHomes'
      BY NextOfHomes
<1>4. VisitsInv /\ AssignedOK /\ VisitsOfHomes =>
          \A p \in Appointment : HasComplaint(p) => ModalsAreExact(p)
      BY ModalsTell
<1> QED
    BY <1>1, <1>2, <1>3, <1>4, VisitsInvariant, PTL DEF VisitsSpec

=============================================================================
