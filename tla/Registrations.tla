----------------------------- MODULE Registrations -----------------------------
(****************************************************************************)
(* The registration of a community: application, evaluation payments,       *)
(* manual payment evidence, the Super Admin's decision and what it creates, *)
(* with the applicant's two pages: registrations/registration.service.ts,   *)
(* createCommunity of community.service.ts, what subscription.service.ts    *)
(* does to a registration's subscription, RegistrationPage.jsx and          *)
(* RegistrationStatusPage.jsx.                                              *)
(*                                                                          *)
(* An application is named by the request id its page was mounted with, as  *)
(* submit() looks it up; the lock of a page keeps its requests one after    *)
(* another, and an answer may be lost. Amounts are in units that make the   *)
(* fee Total. An evaluation payment is known by its phase, whichever        *)
(* request id it carries; its reference is made from the application's id,  *)
(* and nothing keeps an applicant from entering the same as evidence.       *)
(* Credentials are set with the approval, so the older endpoints that set   *)
(* them up and activate later find nothing to do. The rate limit, the 5000  *)
(* applications and the sizes asked for may only refuse.                    *)
(****************************************************************************)
EXTENDS Integers, FiniteSets, FiniteSetsExt

CONSTANTS
    Application,   \* request ids of mounted registration pages
    Evidence,      \* request ids of manual payment evidence
    Reference,     \* references of bank transfers, as written in lower case
    Email,
    Total,         \* the fee of an application
    Initial,       \* version -> the part due before approval
    MaxVersion,    \* bound: pricing configurations
    EvidenceAmount, \* amounts entered as evidence
    NoEmail, NoReference, NoApplication

Version == 1..MaxVersion
Phase == {"INITIAL", "REMAINING"}

\* MOCK-<id>-<phase>, the reference of an evaluation payment
MockReference(a, phase) == <<a, phase>>

\* Whatever a payment may be recorded with.
AnyReference == Reference \cup {MockReference(a, phase) : a \in Application, phase \in Phase}

ASSUME RegistrationsAssumption ==
    /\ Total \in Nat \ {0} /\ MaxVersion \in Nat \ {0}
    /\ Initial \in [Version -> 1..Total]
    /\ EvidenceAmount \subseteq Nat \ {0}
    /\ IsFiniteSet(Evidence)
    /\ NoEmail \notin Email /\ NoReference \notin AnyReference
    /\ NoApplication \notin Application
    /\ Application \cap {"NONE", "OTHER"} = {}

VARIABLES
    pricing,       \* the configuration in force
    application,   \* the applications
    evidence,      \* the manual payments of all of them
    account,       \* email -> the account that has it
    linked,        \* what an application's approval created
    page           \* the applicant's browser

registrationVars == <<pricing, application, evidence, account, linked, page>>

ApplicationType ==
    [decision : {"NONE", "PENDING", "APPROVED", "REJECTED"},
     email : Email \cup {NoEmail},
     initial : 0..Total,                  \* pricing.initialMinor
     mock : [Phase -> 0..Total],          \* evaluation payments recorded
     notified : Nat]                      \* simulated approval mails

EvidenceType ==
    [of : Application \cup {NoApplication},
     amount : EvidenceAmount \cup {0},
     reference : AnyReference \cup {NoReference},
     status : {"NONE", "PENDING_VERIFICATION", "VERIFIED", "REJECTED"}]

LinkedType ==
    [community : BOOLEAN,
     admin : {"NONE", "AWAITING_ACTIVATION", "ACTIVE"},
     subscription : {"NONE", "PAYMENT_PENDING", "ACTIVE"},
     paymentStatus : {"PENDING", "SUCCESS"},
     upgrade : BOOLEAN]                   \* an upgrade awaits payment

PageType ==
    [quote : Version \cup {0},            \* version of the quote shown, 0 for none
     session : BOOLEAN,                   \* holds the applicant's cookie
     phase : Phase \cup {"NONE"},         \* payment the status page offers
     due : 0..Total]                      \* for this amount

\* The stores hold rows of their types.
RegistrationsTypeOK ==
    /\ pricing \in [enabled : BOOLEAN, version : Version]
    /\ application \in [Application -> ApplicationType]
    /\ evidence \in [Evidence -> EvidenceType]
    /\ account \in [Email -> {"NONE", "OTHER"} \cup Application]
    /\ linked \in [Application -> LinkedType]
    /\ page \in [Application -> PageType]

NothingLinked ==
    [community |-> FALSE, admin |-> "NONE", subscription |-> "NONE",
     paymentStatus |-> "PENDING", upgrade |-> FALSE]

RegistrationsInit ==
    /\ pricing = [enabled |-> TRUE, version |-> 1]
    /\ application = [a \in Application |->
          [decision |-> "NONE", email |-> NoEmail, initial |-> 0,
           mock |-> [p \in Phase |-> 0], notified |-> 0]]
    /\ evidence = [e \in Evidence |->
          [of |-> NoApplication, amount |-> 0, reference |-> NoReference, status |-> "NONE"]]
    /\ account = [m \in Email |-> "NONE"]
    /\ linked = [a \in Application |-> NothingLinked]
    /\ page = [a \in Application |->
          [quote |-> 0, session |-> FALSE, phase |-> "NONE", due |-> 0]]

-----------------------------------------------------------------------------
(* What the handlers ask of the stores. *)

IsOpen(a) == application[a].decision \in {"PENDING", "APPROVED"}
IsActive(a) == linked[a].admin = "ACTIVE"    \* activatedAt is set

Mocked(a) == application[a].mock["INITIAL"] + application[a].mock["REMAINING"]

EvidenceIn(es, a, status) == {e \in Evidence : es[e].of = a /\ es[e].status \in status}
Worth(es, E) == SumFunctionOnSet([e \in Evidence |-> es[e].amount], E)

\* paid(), when the evidence is es
Paid(es, a) == Mocked(a) + Worth(es, EvidenceIn(es, a, {"VERIFIED"}))

Pending(a) == EvidenceIn(evidence, a, {"PENDING_VERIFICATION"})

\* Paid or claimed to be.
Committed(a) ==
    Mocked(a) + Worth(evidence, EvidenceIn(evidence, a, {"PENDING_VERIFICATION", "VERIFIED"}))

Limit(a) == IF application[a].decision = "APPROVED" THEN Total ELSE application[a].initial

\* Mutant: the subscription is not told.
Unsynced(a, paid) == linked

\* syncSubscriptionPayment
Synced(a, paid) ==
    IF IsActive(a)
    THEN [linked EXCEPT ![a].paymentStatus = IF paid = Total THEN "SUCCESS" ELSE "PENDING"]
    ELSE linked

-----------------------------------------------------------------------------
(* The form. *)

Configure(enabled) ==
    /\ pricing.version < MaxVersion
    /\ pricing' = [enabled |-> enabled, version |-> pricing.version + 1]
    /\ UNCHANGED <<application, evidence, account, linked, page>>

\* The third step of the form; changing a field takes the quote away again.
ShowQuote(a) ==
    /\ application[a].decision = "NONE"
    /\ pricing.enabled
    /\ page' = [page EXCEPT ![a].quote = pricing.version]
    /\ UNCHANGED <<pricing, application, evidence, account, linked>>

EditForm(a) ==
    /\ application[a].decision = "NONE"
    /\ page' = [page EXCEPT ![a].quote = 0]
    /\ UNCHANGED <<pricing, application, evidence, account, linked>>

\* Mutant: open applications are not looked at.
NoAccount(m) == account[m] = "NONE"

EmailFree(m) ==
    /\ account[m] = "NONE"
    /\ \A b \in Application : application[b].email = m => ~IsOpen(b)

QuoteIsCurrent(a) == page[a].quote = pricing.version

\* Without its answer the page never gets the cookie.
Submit(a, m, answered) ==
    /\ application[a].decision = "NONE"
    /\ pricing.enabled
    /\ QuoteIsCurrent(a)
    /\ EmailFree(m)
    /\ application' = [application EXCEPT ![a].decision = "PENDING", ![a].email = m,
                                          ![a].initial = Initial[pricing.version]]
    /\ page' = [page EXCEPT ![a].session = answered]
    /\ UNCHANGED <<pricing, evidence, account, linked>>

-----------------------------------------------------------------------------
(* The status page and the applicant's payments. *)

\* What view() lets the page offer: payableMinor, when no evidence is pending.
Offer(a, row, es) ==
    LET due == (IF row.decision = "APPROVED" THEN Total ELSE row.initial)
                  - row.mock["INITIAL"] - row.mock["REMAINING"]
                  - Worth(es, EvidenceIn(es, a, {"VERIFIED"}))
    IN  IF row.decision # "REJECTED" /\ due > 0
           /\ EvidenceIn(es, a, {"PENDING_VERIFICATION"}) = {}
        THEN [page[a] EXCEPT !.phase = IF row.decision = "PENDING" THEN "INITIAL" ELSE "REMAINING",
                             !.due = due]
        ELSE [page[a] EXCEPT !.phase = "NONE", !.due = 0]

LoadStatus(a) ==
    /\ page[a].session
    /\ page' = [page EXCEPT ![a] = Offer(a, application[a], evidence)]
    /\ UNCHANGED <<pricing, application, evidence, account, linked>>

\* The session ends after 30 days.
ExpireSession(a) ==
    /\ page[a].session
    /\ page' = [page EXCEPT ![a].session = FALSE]
    /\ UNCHANGED <<pricing, application, evidence, account, linked>>

\* Mutant: a phase asks for the whole fee.
WholeFee(a, phase) == Total - Mocked(a)

AmountDue(a, phase) ==
    (IF phase = "INITIAL" THEN application[a].initial ELSE Total) - Paid(evidence, a)

InPhase(a, phase) ==
    /\ application[a].decision = (IF phase = "INITIAL" THEN "PENDING" ELSE "APPROVED")
    /\ Pending(a) = {}

\* Confirm Mock Payment. A phase that is recorded already is answered with the
\* view, as is one with nothing due; an answer brings a fresh view or is lost.
MockPayment(a, answered) ==
    LET phase == page[a].phase
        recorded == application[a].mock[phase] # 0
        row == IF ~recorded /\ AmountDue(a, phase) > 0
               THEN [application[a] EXCEPT !.mock[phase] = AmountDue(a, phase)]
               ELSE application[a]
    IN  /\ page[a].session
        /\ phase # "NONE"
        /\ application[a].decision # "REJECTED"
        /\ recorded \/ InPhase(a, phase)
        /\ application' = [application EXCEPT ![a] = row]
        /\ linked' = IF row # application[a]
                     THEN Synced(a, Paid(evidence, a) + AmountDue(a, phase)) ELSE linked
        /\ page' = IF answered THEN [page EXCEPT ![a] = Offer(a, row, evidence)] ELSE page
        /\ UNCHANGED <<pricing, evidence, account>>

\* An id is drawn when its application is submitted, and nobody knows it before.
CanBeEntered(r) ==
    \A b \in Application, phase \in Phase :
        r = MockReference(b, phase) => application[b].decision # "NONE"

\* An evaluation payment that is recorded has this reference.
IsMockOf(a, r) ==
    \E phase \in Phase : application[a].mock[phase] # 0 /\ r = MockReference(a, phase)

\* Mutant: evaluation payments are not compared with.
NewAmongEvidence(r) == \A e \in Evidence : evidence[e].reference # r

ReferenceIsNew(r) ==
    /\ \A e \in Evidence : evidence[e].reference # r
    /\ \A b \in Application : ~IsMockOf(b, r)

FitsLimit(a, amount) == Committed(a) + amount <= Limit(a)

\* A retry with the same request id and content changes nothing.
SubmitEvidence(a, e, amount, r) ==
    /\ page[a].session
    /\ evidence[e].status = "NONE"
    /\ IsOpen(a)
    /\ FitsLimit(a, amount)
    /\ CanBeEntered(r) /\ ReferenceIsNew(r)
    /\ evidence' = [evidence EXCEPT ![e] = [of |-> a, amount |-> amount, reference |-> r,
                                            status |-> "PENDING_VERIFICATION"]]
    /\ UNCHANGED <<pricing, application, account, linked, page>>

-----------------------------------------------------------------------------
(* The Super Admin. *)

ReviewPayment(e, decision) ==
    LET a == evidence[e].of
        es == [evidence EXCEPT ![e].status = decision]
    IN  /\ evidence[e].status = "PENDING_VERIFICATION"
        /\ application[a].decision # "REJECTED"
        /\ decision = "VERIFIED" => Paid(evidence, a) + evidence[e].amount <= Total
        /\ evidence' = es
        /\ linked' = Synced(a, Paid(es, a))
        /\ UNCHANGED <<pricing, application, account, page>>

\* Mutant: the community created so far is not deleted again.
KeepsCommunity(n) == [NothingLinked EXCEPT !.community = n > 0]

\* What createCommunity leaves when only n of its three steps were done.
Undone(n) == NothingLinked

Provisioned ==
    [NothingLinked EXCEPT !.community = TRUE, !.admin = "AWAITING_ACTIVATION",
                          !.subscription = "PAYMENT_PENDING"]

\* activateApproved
Activated(row, paid) ==
    [row EXCEPT !.admin = "ACTIVE", !.subscription = "ACTIVE",
                !.paymentStatus = IF paid = Total THEN "SUCCESS" ELSE "PENDING"]

ReadyToApprove(a) ==
    /\ application[a].decision = "PENDING"
    /\ Paid(evidence, a) >= application[a].initial
    /\ Pending(a) = {}

\* review with APPROVED
Approve(a) ==
    /\ ReadyToApprove(a)
    /\ account[application[a].email] = "NONE"
    /\ linked' = [linked EXCEPT ![a] = Activated(Provisioned, Paid(evidence, a))]
    /\ account' = [account EXCEPT ![application[a].email] = a]

\* review or acceptAndNotify; the mail may fail to be recorded.
Accept(a, mailed) ==
    /\ Approve(a)
    /\ application' = [application EXCEPT ![a].decision = "APPROVED",
                                          ![a].notified = IF mailed THEN 1 ELSE 0]
    /\ UNCHANGED <<pricing, evidence, page>>

\* An approval that fails inside createCommunity.
FailToAccept(a, n) ==
    /\ ReadyToApprove(a)
    /\ account[application[a].email] = "NONE"
    /\ linked' = [linked EXCEPT ![a] = Undone(n)]
    /\ UNCHANGED <<pricing, application, evidence, account, page>>

Mails(a) == IF application[a].notified = 0 THEN 1 ELSE application[a].notified

\* Retry Accept & Send Email, on an application that is approved
RetryAccept(a) ==
    /\ application[a].decision = "APPROVED"
    /\ application' = [application EXCEPT ![a].notified = Mails(a)]
    /\ UNCHANGED <<pricing, evidence, account, linked, page>>

Reject(a) ==
    /\ application[a].decision = "PENDING"
    /\ application' = [application EXCEPT ![a].decision = "REJECTED"]
    /\ UNCHANGED <<pricing, evidence, account, linked, page>>

-----------------------------------------------------------------------------
(* Accounts and upgrades elsewhere. *)

\* The user directory, which knows no applications and keeps their accounts.
CreateAccount(m) ==
    /\ account[m] = "NONE"
    /\ account' = [account EXCEPT ![m] = "OTHER"]
    /\ UNCHANGED <<pricing, application, evidence, linked, page>>

DeleteAccount(m) ==
    /\ account[m] = "OTHER"
    /\ account' = [account EXCEPT ![m] = "NONE"]
    /\ UNCHANGED <<pricing, application, evidence, linked, page>>

\* requestUpgrade, completeMockUpgrade
RequestLinkedUpgrade(a) ==
    /\ linked[a].subscription = "ACTIVE"
    /\ linked' = [linked EXCEPT ![a].upgrade = TRUE]
    /\ UNCHANGED <<pricing, application, evidence, account, page>>

CompleteLinkedUpgrade(a) ==
    /\ linked[a].upgrade
    /\ linked' = [linked EXCEPT ![a].upgrade = FALSE, ![a].paymentStatus = "SUCCESS"]
    /\ UNCHANGED <<pricing, application, evidence, account, page>>

RegistrationsNext ==
    \/ \E enabled \in BOOLEAN : Configure(enabled)
    \/ \E a \in Application :
          \/ ShowQuote(a) \/ EditForm(a) \/ LoadStatus(a) \/ ExpireSession(a)
          \/ \E m \in Email, answered \in BOOLEAN : Submit(a, m, answered)
          \/ \E answered \in BOOLEAN : MockPayment(a, answered)
          \/ \E e \in Evidence, amount \in EvidenceAmount, r \in AnyReference :
                SubmitEvidence(a, e, amount, r)
          \/ \E mailed \in BOOLEAN : Accept(a, mailed)
          \/ \E n \in 0..2 : FailToAccept(a, n)
          \/ RetryAccept(a) \/ Reject(a) \/ RequestLinkedUpgrade(a) \/ CompleteLinkedUpgrade(a)
    \/ \E e \in Evidence, decision \in {"VERIFIED", "REJECTED"} : ReviewPayment(e, decision)
    \/ \E m \in Email : CreateAccount(m) \/ DeleteAccount(m)

RegistrationsSpec == RegistrationsInit /\ [][RegistrationsNext]_registrationVars
-----------------------------------------------------------------------------
(* Properties. *)

\* An approved application has an open community, an administrator who can log
\* in under its email and an active subscription; any other has none of them,
\* also after an approval that failed halfway.
ProvisionedTogether ==
    \A a \in Application :
        IF application[a].decision = "APPROVED"
        THEN /\ linked[a].community
             /\ linked[a].admin = "ACTIVE"
             /\ linked[a].subscription = "ACTIVE"
             /\ account[application[a].email] = a
        ELSE /\ linked[a] = NothingLinked
             /\ \A m \in Email : account[m] # a

\* A subscription is settled as soon as the whole fee is paid, whichever payment
\* completes it and whenever that is.
BalanceRecorded(a) ==
    IsActive(a) /\ Paid(evidence, a) = Total => linked[a].paymentStatus = "SUCCESS"

\* The initial part of an application is the one its applicant saw when it was
\* submitted, though the pricing may have changed while the form was open. What is paid
\* and what is claimed in evidence never exceeds what the decision allows to be
\* due, so every claim of an open application can still be verified; an approved
\* application has paid its initial part, and one that paid everything is settled.
PaidAsAgreed ==
    \A a \in Application :
        /\ application[a].decision # "NONE" =>
              page[a].quote # 0 /\ application[a].initial = Initial[page[a].quote]
        /\ Committed(a) <= Limit(a)
        /\ application[a].decision = "APPROVED" => Paid(evidence, a) >= application[a].initial
        /\ BalanceRecorded(a)

\* While evidence waits, no evaluation payment of its application has its reference.
WaitsAlone(e) ==
    evidence[e].status = "PENDING_VERIFICATION" => ~IsMockOf(evidence[e].of, evidence[e].reference)

\* An email is in one open application at most, and a reference in one piece of evidence
\* among all applications, a rejected one included. What the Super Admin is asked to
\* verify has no reference that an evaluation payment of the same application already
\* has, though evaluation payments compare theirs with nothing.
ClaimsAreUnique ==
    /\ \A a, b \in Application :
          IsOpen(a) /\ IsOpen(b) /\ application[a].email = application[b].email => a = b
    /\ \A e, f \in Evidence :
          evidence[e].reference = evidence[f].reference /\ evidence[e].status # "NONE" => e = f
    /\ \A e \in Evidence : WaitsAlone(e)

\* A confirmed payment never charges more than the page showed, however old its
\* view was, and a retry after a lost answer charges nothing again.
ChargedAtMostShown ==
    [][\A a \in Application :
          Mocked(a)' - Mocked(a) <= (IF page[a].phase = "NONE" THEN 0 ELSE page[a].due)]_registrationVars

\* A reference backs one payment of whichever kind. It does not hold: an applicant can
\* enter the reference of an evaluation payment to come as evidence, of the own or of
\* another application, and mockPayment records it again without looking.
OnePaymentPerReference ==
    \A e \in Evidence, a \in Application :
        evidence[e].status # "NONE" => ~IsMockOf(a, evidence[e].reference)

\* registrations/README.md:13: the subscription stays pending until the balance is
\* settled. It does not hold: completeMockUpgrade marks it settled.
PendingUntilSettled ==
    \A a \in Application :
        linked[a].paymentStatus = "SUCCESS" => Paid(evidence, a) = Total
=============================================================================
