------------------------------ MODULE RequestPages ------------------------------
(****************************************************************************)
(* The page through which residents, workers and authorities deal with paid *)
(* services: front-end/src/features/paid-services/pages/PaidServicesPage.jsx*)
(*                                                                          *)
(* The dialog of a request takes over the view that every request returns,  *)
(* so it is a function of the store and sends the version it shows. Each    *)
(* action is a button or a form: when it is shown and what it lets one      *)
(* enter, and the request it sends. The person is the one the dialog knows  *)
(* by role, and the one concerned. Notes and texts are given. A dialog that *)
(* is answered late is ServiceForms.                                        *)
(****************************************************************************)
EXTENDS ServiceDesk

-----------------------------------------------------------------------------
(* The requests the table lists, and the form of a new one. *)

Ended(q) == q.status \in {"FINAL_COST_APPROVED", "CANCELLED"}

Rows(filter) ==
    {r \in Request :
        Created(r) /\ CASE filter = "HISTORY" -> Ended(request[r])
                        [] filter = "ACTIVE" -> ~Ended(request[r])
                        [] OTHER -> TRUE}

\* BookingModal
RequestService(r, res) == CreateRequest(r, res)

-----------------------------------------------------------------------------
(* The authority. *)

\* eligibleWorkers of the service, listed while the request waits for a worker
EligibleFor(r) ==
    {w \in Worker : /\ status[w] = "AVAILABLE" /\ ~HasPaidServiceReservation(w)
                    /\ specialization[w] = ServiceWork[r] /\ ~HasActiveAssignment(w)}

AssignWorkerTo(r, w) ==
    /\ request[r].status = "REQUESTED" /\ w \in EligibleFor(r)
    /\ Assign(r, request[r].version, w)

SubmitFinalReview(r, approved) ==
    request[r].status = "COMPLETED" /\ ReviewFinalCost(r, request[r].version, approved)

AuthorizePayment(r) ==
    /\ request[r].status = "FINAL_COST_APPROVED" /\ request[r].payment = "NONE"
    /\ ApprovePayment(r, request[r].version)

RecordEvidenceDecision(r, approved) ==
    request[r].payment = "PAYMENT_REPORTED" /\ VerifyPayment(r, request[r].version, approved)

-----------------------------------------------------------------------------
(* The worker. *)

\* Mutant: a revision that was asked for has no form.
FirstEstimateShown(q) ==
    q.status \in {"ASSIGNED", "ESTIMATE_REJECTED", "ESTIMATE_APPROVED", "SCHEDULED", "IN_PROGRESS"}

EstimateShown(q) ==
    q.status \in {"ASSIGNED", "ESTIMATE_REJECTED", "REVISION_REQUESTED", "ESTIMATE_APPROVED",
                  "SCHEDULED", "IN_PROGRESS"}

SendEstimate(r, amount) ==
    EstimateShown(request[r]) /\ SubmitEstimate(r, request[r].version, amount)

StartButton(r) == request[r].status = "SCHEDULED" /\ Start(r, request[r].version)

PostProgress(r) == request[r].status = "IN_PROGRESS" /\ Progress(r, request[r].version)

\* The field takes at most the latest estimate.
SubmitCompletion(r, cost) ==
    /\ request[r].status \in {"IN_PROGRESS", "FINAL_COST_REJECTED"}
    /\ cost <= LatestEstimate(request[r]).amount
    /\ Complete(r, request[r].version, cost)

AcknowledgeReceipt(r) ==
    request[r].payment = "EVIDENCE_VERIFIED" /\ ConfirmReceipt(r, request[r].version)

-----------------------------------------------------------------------------
(* The resident; the first two of them are the authority's as well. *)

SaveAppointment(r, slot) ==
    /\ request[r].status \in {"ESTIMATE_APPROVED", "SCHEDULED"}
    /\ Schedule(r, request[r].version, slot)

CancelShown(q) == ~q.started /\ q.status # "CANCELLED"

CancelRequest(r) == CancelShown(request[r]) /\ Cancel(r, request[r].version)

\* The decision is on the last estimate shown.
SubmitDecision(r, decision) ==
    /\ request[r].status = "AWAITING_ESTIMATE_APPROVAL"
    /\ DecideEstimate(r, request[r].version, Len(request[r].estimates), decision)

UploadEvidence(r) == request[r].payment = "APPROVED" /\ AddEvidence(r)

ReportExternalPayment(r, ref) ==
    /\ request[r].payment = "APPROVED" /\ request[r].evidence > 0
    /\ ReportPayment(r, request[r].version, ref)

SubmitServiceReview(r) ==
    /\ request[r].status = "FINAL_COST_APPROVED" /\ ~request[r].rated
    /\ Review(r, request[r].version)

-----------------------------------------------------------------------------
(* Properties. *)

Decisions == {"APPROVED", "REJECTED", "REVISION_REQUESTED"}

\* Up to the first day of work somebody can take the request further, or cancel it.
WorkCanProceed(r) ==
    LET q == request[r] IN
    CASE q.status = "REQUESTED" ->
            \A w \in Worker : w \in EligibleFor(r) <=> ENABLED Assign(r, q.version, w)
      [] q.status \in {"ASSIGNED", "ESTIMATE_REJECTED", "REVISION_REQUESTED"} ->
            Len(q.estimates) < MaxEstimates =>
                \A amount \in Amount : ENABLED SendEstimate(r, amount)
      [] q.status = "AWAITING_ESTIMATE_APPROVAL" ->
            \A d \in Decisions : ENABLED SubmitDecision(r, d)
      [] q.status \in {"ESTIMATE_APPROVED", "SCHEDULED"} ->
            \A slot \in Window :
                now < slot.from /\ slot.to - slot.from <= MaxWindow /\ ~AppointmentConflict(r, slot)
                    => ENABLED SaveAppointment(r, slot)
      [] q.status = "IN_PROGRESS" -> ENABLED PostProgress(r)
      [] OTHER -> TRUE

\* From then on the bill can be written, corrected and decided, until it is approved.
BillCanProceed(r) ==
    LET q == request[r] IN
    CASE q.status \in {"IN_PROGRESS", "FINAL_COST_REJECTED"} ->
            \A cost \in Amount : cost <= LatestEstimate(q).amount => ENABLED SubmitCompletion(r, cost)
      [] q.status = "COMPLETED" -> \A d \in BOOLEAN : ENABLED SubmitFinalReview(r, d)
      [] OTHER -> TRUE

\* And an approved bill can be paid: also a second time, when what was reported first was
\* refused, with any reference that is not another request's.
PaymentCanProceed(r) ==
    LET q == request[r] IN
    q.status = "FINAL_COST_APPROVED" =>
        CASE q.payment = "NONE" -> ENABLED AuthorizePayment(r)
          [] q.payment = "APPROVED" ->
                IF q.evidence = 0 THEN ENABLED UploadEvidence(r)
                ELSE \A ref \in Reference \ {request[o].reference : o \in Request \ {r}} :
                        ENABLED ReportExternalPayment(r, ref)
          [] q.payment = "PAYMENT_REPORTED" ->
                \A d \in BOOLEAN : ENABLED RecordEvidenceDecision(r, d)
          [] q.payment = "EVIDENCE_VERIFIED" -> ENABLED AcknowledgeReceipt(r)
          [] OTHER -> TRUE

\* However often it was revised, rescheduled, refused and corrected, a request is never
\* stuck on this page: whoever's turn it is has the button or form for it and the service
\* takes what it sends, until the worker has the money or the request was cancelled,
\* which it can be as long as the page offers it.
RequestNeverStuck ==
    \A r \in Request :
        Created(r) /\ request[r].version < MaxVersion =>
            /\ WorkCanProceed(r) /\ BillCanProceed(r) /\ PaymentCanProceed(r)
            /\ CancelShown(request[r]) => ENABLED CancelRequest(r)

\* The filter for active requests lists those that wait for somebody. Not so: a bill
\* that is approved and not paid is history.
ActiveListsUnpaid ==
    \A r \in Request :
        Created(r) /\ ENABLED AuthorizePayment(r) => r \in Rows("ACTIVE")
=============================================================================
