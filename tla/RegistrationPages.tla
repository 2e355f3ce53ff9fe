---------------------------- MODULE RegistrationPages ----------------------------
(****************************************************************************)
(* What the Super Admin and the applicant see of Registrations and can do   *)
(* there: front-end/src/features/super-admin/pages/RegistrationsPage.jsx,   *)
(* RegistrationPage.jsx and RegistrationStatusPage.jsx of                   *)
(* front-end/src/features/registration/pages, with the view of an           *)
(* application that registration.service.ts answers with.                   *)
(*                                                                          *)
(* Every operator reads the stores as a page does that has just loaded. An  *)
(* action is a button: when it can be pressed, and the request it sends. A  *)
(* reason is typed when its field is shown, and the authority of the        *)
(* representative is confirmed; amounts, texts and the search are left out. *)
(****************************************************************************)
EXTENDS Registrations

-----------------------------------------------------------------------------
(* The view of an application. *)

PendingMinor(a) == Worth(evidence, Pending(a))

OutstandingMinor(a) == Total - Paid(evidence, a)

\* What was verified in the initial phase: nothing is left of it once it is complete.
InitialVerified(a) == Min({Paid(evidence, a), application[a].initial})

\* Mutant: the whole fee is payable from the start.
PayableAtOnce(a) == Max({0, Total - Paid(evidence, a) - PendingMinor(a)})

PayableMinor(a) == Max({0, Limit(a) - Paid(evidence, a) - PendingMinor(a)})

\* Credentials are set with the approval.
StatusOf(a) ==
    CASE IsActive(a) -> "ACTIVE"
      [] ~IsActive(a) /\ application[a].decision = "REJECTED" -> "REJECTED"
      [] ~IsActive(a) /\ application[a].decision = "PENDING" ->
            IF Paid(evidence, a) >= application[a].initial THEN "AWAITING_REVIEW"
            ELSE IF PendingMinor(a) > 0 THEN "PAYMENT_UNDER_REVIEW" ELSE "AWAITING_INITIAL_PAYMENT"
      [] OTHER ->
            IF OutstandingMinor(a) > 0 THEN "AWAITING_REMAINING_PAYMENT" ELSE "READY_FOR_ACTIVATION"

\* The rows the table shows under a filter, "" for all of them.
Filtered(filter) ==
    {a \in Application :
        /\ application[a].decision # "NONE"
        /\ \/ filter \in {"", StatusOf(a)}
           \/ filter = "APPROVED" /\ application[a].decision = "APPROVED"}

-----------------------------------------------------------------------------
(* The Super Admin's page. *)

\* Evaluation payment configuration
SaveConfiguration(enabled) == Configure(enabled)

\* Review reason: the one field of the dialog every decision takes its reason from
ReasonShown(a) == ~IsActive(a) /\ application[a].decision \in {"PENDING", "APPROVED"}

\* Mutant: the button waits for the whole fee.
AcceptPaidUp(a) ==
    /\ ReasonShown(a) /\ application[a].decision = "PENDING"
    /\ Paid(evidence, a) = Total /\ PendingMinor(a) = 0
    /\ Accept(a, TRUE)

\* Accept & Send Email
AcceptAndNotify(a) ==
    /\ ReasonShown(a) /\ application[a].decision = "PENDING"
    /\ InitialVerified(a) >= application[a].initial /\ PendingMinor(a) = 0
    /\ Accept(a, TRUE)

RejectApplication(a) ==
    /\ ReasonShown(a) /\ application[a].decision = "PENDING"
    /\ Reject(a)

\* Retry Accept & Send Email
RetryNotification(a) ==
    /\ application[a].decision = "APPROVED"
    /\ ~IsActive(a) \/ application[a].notified = 0
    /\ RetryAccept(a)

\* Verify receipt, Reject evidence
DecideEvidence(e, decision) ==
    /\ evidence[e].status = "PENDING_VERIFICATION"
    /\ application[evidence[e].of].decision # "REJECTED"
    /\ ReasonShown(evidence[e].of)
    /\ ReviewPayment(e, decision)

-----------------------------------------------------------------------------
(* The applicant's two pages. *)

\* The page is a form as long as registration is open.
FormShown == pricing.enabled

\* Review fee & application, after the three steps of fields
ReviewFee(a) == FormShown /\ ShowQuote(a)

\* The last step, with its facts and Submit Registration Request
ReviewShown(a) == FormShown /\ application[a].decision = "NONE" /\ page[a].quote # 0

SubmitRegistration(a, m) == ReviewShown(a) /\ Submit(a, m, TRUE)

\* Back
BackToFields(a) == ReviewShown(a) /\ EditForm(a)

\* The facts of an application
Facts(a) ==
    [fee |-> Total, requirement |-> application[a].initial, satisfied |-> InitialVerified(a),
     credited |-> Paid(evidence, a), outstanding |-> OutstandingMinor(a), mock |-> Mocked(a),
     waiting |-> PendingMinor(a)]

\* Pay Initial EvidenceAmount, Pay Remaining EvidenceAmount
PayShown(a) ==
    /\ page[a].session /\ application[a].decision \in {"PENDING", "APPROVED"}
    /\ PayableMinor(a) > 0

PayEnabled(a) == PayShown(a) /\ PendingMinor(a) = 0

\* The phase and the amount that the dialog confirms.
Confirms(a) ==
    [phase |-> IF application[a].decision = "PENDING" THEN "INITIAL" ELSE "REMAINING",
     due |-> PayableMinor(a)]

-----------------------------------------------------------------------------
(* Properties. *)

\* An application that waits for its decision can be refused, and accepted as soon as
\* the service would: unless its email was taken meanwhile. Its evidence can be
\* decided, and a mail that failed can be sent again.
DecisionsWithinReach ==
    \A a \in Application :
        /\ application[a].decision = "PENDING" => ENABLED RejectApplication(a)
        /\ ReadyToApprove(a) /\ account[application[a].email] = "NONE" =>
              ENABLED AcceptAndNotify(a)
        /\ application[a].decision = "PENDING" =>
              \A e \in Pending(a) : ENABLED DecideEvidence(e, "VERIFIED")
        /\ application[a].decision = "APPROVED" /\ application[a].notified = 0 =>
              ENABLED RetryNotification(a)

\* Whoever owes something can pay it, unless evidence waits, and the dialog confirms
\* what the service charges.
DebtsCanBePaid ==
    \A a \in Application :
        page[a].session /\ IsOpen(a) /\ Paid(evidence, a) < Limit(a) /\ Pending(a) = {} =>
            /\ PayEnabled(a)
            /\ Confirms(a).due = AmountDue(a, Confirms(a).phase)

\* The status an application is listed under tells what it waits for: of the reviewer
\* exactly when one can be made, of the applicant when something is to be paid.
StatusTells ==
    \A a \in Application :
        /\ a \in Filtered("AWAITING_REVIEW") <=> ReadyToApprove(a)
        /\ a \in Filtered("AWAITING_INITIAL_PAYMENT") =>
              Pending(a) = {} /\ AmountDue(a, "INITIAL") > 0
        /\ a \in Filtered("ACTIVE") => a \in Filtered("APPROVED")

\* While registration is open an applicant can have a quote, leave one that the service
\* refuses because the pricing changed, and submit the current one with an email that
\* nobody uses.
FormLeadsOn ==
    \A a \in Application : application[a].decision = "NONE" /\ pricing.enabled =>
        /\ ENABLED ReviewFee(a)
        /\ page[a].quote \notin {0, pricing.version} => ENABLED BackToFields(a)
        /\ QuoteIsCurrent(a) =>
              \A m \in Email : EmailFree(m) => ENABLED SubmitRegistration(a, m)

\* The amounts the applicant reads fit each other: what is credited and outstanding is
\* the fee, the requirement is met before the rest is, and what waits is still owed.
FactsAddUp ==
    \A a \in Application : IsOpen(a) =>
        LET f == Facts(a) IN
        /\ f.credited + f.outstanding = f.fee
        /\ f.satisfied < f.requirement => f.credited = f.satisfied
        /\ f.waiting <= f.outstanding
        /\ f.mock <= f.credited

\* Whatever was paid, claimed, refused and retried before, no application is stuck on
\* the pages before its approval.
ApplicationNeverStuck ==
    FormLeadsOn /\ DecisionsWithinReach

\* Nor is a debt beyond its applicant, before or afterwards, and its status and its
\* amounts tell both sides so.
PagesTellTheMoney ==
    DebtsCanBePaid /\ StatusTells /\ FactsAddUp

\* The money of an application is what was agreed, and the pages say so.
PaidAsTold == PaidAsAgreed /\ PagesTellTheMoney

\* registrations/README.md:18 lets evidence that waits stop the remaining payment until
\* it is resolved. The page offers its two buttons, but they need a reason, whose field
\* is hidden once the application is active; so the page resolves none. Not so.
EvidenceCanBeResolved ==
    \A a \in Application : IsOpen(a) =>
        \A e \in Pending(a) : ENABLED DecideEvidence(e, "REJECTED")
=============================================================================
