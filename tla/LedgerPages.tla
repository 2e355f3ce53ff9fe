------------------------------ MODULE LedgerPages ------------------------------
(****************************************************************************)
(* The two pages through which people reach RentLedger: the lease dialog of *)
(* the manager,                                                             *)
(*   front-end/src/features/community-admin/pages/RentalsPage.jsx,          *)
(* and the tenant's lease card,                                             *)
(*   front-end/src/features/resident/pages/RentalsPage.jsx,                 *)
(* with the figures the server computes for both (leaseView,                *)
(* depositSummary of rentals.service.ts).                                   *)
(*                                                                          *)
(* Both pages load again after every request, so a page is a function of    *)
(* the stores. Each action here is a button or a form: it is there when the *)
(* page shows it, and it is the request the page then sends. References,    *)
(* reasons and the drafts of the forms are left out; amounts are typed.     *)
(****************************************************************************)
EXTENDS RentLedger

-----------------------------------------------------------------------------
(* The figures of a lease. *)

\* Mutant: what was given back still counts as paid.
GrossPaid(o) == TotalOf(payment, PaymentsWith(o, {"VERIFIED"}))

AmountPaid(o) == NetPaidTotal(o)

Outstanding(o) == Max({0, AmountDue[o] - AmountPaid(o)})

\* collected, deductions, refunded, held and status of depositSummary
DepositSummary ==
    LET verified(type) == TotalOf(entry, EntriesWith(type, {"VERIFIED"}))
        collected == verified("COLLECTION")
        deductions == verified("DEDUCTION")
        refunded == verified("REFUND")
        held == Max({0, collected - deductions - refunded})
    IN  [collected |-> collected, deductions |-> deductions,
         refunded |-> refunded, held |-> held,
         status |-> CASE AgreedDeposit = 0 -> "NOT_REQUIRED"
                      [] AgreedDeposit # 0 /\ collected = 0 -> "UNPAID"
                      [] AgreedDeposit # 0 /\ collected # 0 /\ held = 0 ->
                            IF refunded # 0 THEN "REFUNDED" ELSE "DEDUCTED"
                      [] OTHER ->
                            CASE collected < AgreedDeposit -> "PARTIALLY_COLLECTED"
                              [] collected >= AgreedDeposit /\ refunded # 0 -> "PARTIALLY_REFUNDED"
                              [] OTHER -> "HELD"]

-----------------------------------------------------------------------------
(* The manager's lease dialog. *)

WithdrawRentAmendment(m) == PendingAmendment(m) /\ WithdrawAmendment(m)

\* Verify and Reject beside payment evidence
ReviewRentalPayment(p, decision) ==
    payment[p].status = "PENDING_VERIFICATION" /\ ReviewPayment(p, decision)

\* Record refund beside a verified payment opens a form.
RefundFormShown(p) == payment[p].status = "VERIFIED"

SubmitRentRefund(f, p, a) == RefundFormShown(p) /\ RecordPaymentRefund(f, p, a)

\* Verify and Reject beside deposit evidence
ReviewCollection(e, decision) ==
    /\ entry[e].status = "PENDING_VERIFICATION" /\ entry[e].type = "COLLECTION"
    /\ ReviewDeposit(e, decision)

\* Resolve as accepted and Reject deduction open the form for a reason.
ResolutionShown(e) == entry[e].type = "DEDUCTION" /\ entry[e].status = "DISPUTED"

SubmitResolution(e, decision) == ResolutionShown(e) /\ ResolveDepositDispute(e, decision)

\* The deposit form is there unless the lease is ACTIVE.
AdjustmentShown == ~active

SubmitAdjustment(e, type, a) ==
    /\ AdjustmentShown
    /\ IF type = "REFUND" THEN RecordRefund(e, a) ELSE RecordDeduction(e, a)

-----------------------------------------------------------------------------
(* The tenant's lease card. *)

\* One form for every obligation that is not paid in verified money
EvidenceFormShown(o) == AmountPaid(o) < AmountDue[o]

SubmitEvidence(p, o, a) == EvidenceFormShown(o) /\ RequestPayment(p, o, a)

ReviewRentalRefund(f, decision) ==
    refund[f].status = "PENDING_TENANT_CONFIRMATION" /\ ReviewPaymentRefund(f, decision)

\* Confirm refund and Reject beside a refund of the deposit
ReviewDepositRefund(e, decision) ==
    /\ entry[e].status = "PENDING_VERIFICATION" /\ entry[e].type = "REFUND"
    /\ ReviewDeposit(e, decision)

\* Mutant: the card offers a decision only on what the manager has yet to review.
DecideReviewed(e, decision) ==
    /\ entry[e].type = "DEDUCTION" /\ entry[e].status = "PENDING_VERIFICATION"
    /\ DecideDepositDeduction(e, decision)

\* Accept and Dispute beside a deduction
DecideDeduction(e, decision) ==
    /\ entry[e].type = "DEDUCTION" /\ entry[e].status = "PENDING_TENANT_CONFIRMATION"
    /\ DecideDepositDeduction(e, decision)

\* The form compares the deposit of the lease, not the one amended since.
DepositFormShown == active /\ InitialDeposit > DepositSummary.collected

SubmitDeposit(e, a) == DepositFormShown /\ SubmitDepositEvidence(e, a)

DecideRentAmendment(m, decision) == PendingAmendment(m) /\ DecideAmendment(m, decision)

-----------------------------------------------------------------------------
(* Properties. *)

Decision == {"VERIFIED", "REJECTED"}
TenantDecision == {"ACCEPTED", "DISPUTED"}

\* What waits for a decision, on whosever page, can be decided there, either way: the
\* button is shown and the service takes the request.
DecisionsWithinReach ==
    /\ \A p \in Payment : payment[p].status = "PENDING_VERIFICATION" =>
          \A d \in Decision : ENABLED ReviewRentalPayment(p, d)
    /\ \A f \in Refund : refund[f].status = "PENDING_TENANT_CONFIRMATION" =>
          \A d \in Decision : ENABLED ReviewRentalRefund(f, d)
    /\ \A e \in Entry : entry[e].status \notin {"NONE", "VERIFIED", "REJECTED"} =>
          \/ \A d \in Decision : ENABLED ReviewCollection(e, d)
          \/ \A d \in Decision : ENABLED ReviewDepositRefund(e, d)
          \/ \A d \in Decision : ENABLED SubmitResolution(e, d)
          \/ \A d \in TenantDecision : ENABLED DecideDeduction(e, d)
    /\ \A m \in Amendment : PendingAmendment(m) =>
          \A d \in {"ACCEPTED", "REJECTED"} : ENABLED DecideRentAmendment(m, d)

Free(store, kind) == {i \in DOMAIN store : store[i][kind] = "NONE"}

\* Money that is owed and not claimed can be reported, and money that is held and not
\* spoken for can be given back: the form is shown and the service takes that amount.
MoneyCanMove ==
    /\ \A o \in Obligation, p \in Free(payment, "status"), a \in Amount :
          FitsOutstanding(o, a) => ENABLED SubmitEvidence(p, o, a)
    /\ \A e \in Free(entry, "type"), a \in Amount :
          ~active /\ a <= Held - Reserved => ENABLED SubmitAdjustment(e, "REFUND", a)

\* However often money was reported, given back and reported again, no more is taken
\* than is due, and both pages print so: what is paid and outstanding is what is due.
RentAddsUp ==
    /\ NeverOverpaid
    /\ \A o \in Obligation : AmountPaid(o) + Outstanding(o) = AmountDue[o]

\* No more of the deposit is claimed than there is, and what the pages print as held is
\* what was collected less what was deducted and refunded.
DepositAddsUp ==
    /\ DepositCovered
    /\ DepositSummary.collected =
          DepositSummary.deductions + DepositSummary.refunded + DepositSummary.held

\* Whatever was recorded before, nobody is stuck on these pages: every decision that is
\* awaited and every amount that is owed or held is within reach of the person it
\* concerns.
MoneyWithinReach == DecisionsWithinReach /\ MoneyCanMove

\* An amendment that raises the deposit leaves the tenant without a form: the card
\* compares what is collected with the deposit of the lease. Not so.
RaisedDepositPayable ==
    \A e \in Free(entry, "type"), a \in Amount :
        active /\ a <= AgreedDeposit - CommittedDeposit => ENABLED SubmitDeposit(e, a)

\* The Withdraw button outlives the lease, the service's permission does not. Not so.
WithdrawalsAccepted ==
    \A m \in Amendment : PendingAmendment(m) => ENABLED WithdrawRentAmendment(m)
=============================================================================
