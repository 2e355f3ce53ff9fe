------------------------------ MODULE RentLedger ------------------------------
(****************************************************************************)
(* The money of one lease: rent evidence and its refunds, the deposit       *)
(* ledger, and the amendments that change the agreed deposit:               *)
(* back-end/src/modules/rentals/rentals.service.ts.                         *)
(*                                                                          *)
(* When the lease begins, ends and owes rent is the matter of module        *)
(* Leases; here it is ACTIVE and its obligations exist until it ends.       *)
(* Amounts are cents of a small set. The tenant reports payments and        *)
(* decides what the manager records, and the other way round. Transaction   *)
(* references, fresh in every report, and an amendment's other terms are    *)
(* left out, as is the label APPLIED of an ACCEPTED amendment.              *)
(****************************************************************************)
EXTENDS Integers, FiniteSets, FiniteSetsExt

CONSTANTS
    Obligation,     \* obligations of the lease
    AmountDue,      \* what each of them asks for
    Payment,        \* rent payment ids
    Refund,         \* rent refund ids
    Entry,          \* deposit entry ids
    Amendment,      \* amendment ids
    Amount,         \* amounts that are entered
    InitialDeposit, \* securityDeposit of the lease
    MonthDays,      \* days in a month
    MaxDay,         \* bound: the clock; also the last day of the lease
    NoObligation,   \* payment not reported yet
    NoPayment       \* refund not recorded yet

ASSUME LedgerAssumption ==
    /\ AmountDue \in [Obligation -> Nat]
    /\ Amount \subseteq Nat \ {0}
    /\ InitialDeposit \in Nat
    /\ MonthDays \in Nat \ {0}
    /\ MaxDay \in Nat
    /\ NoObligation \notin Obligation /\ NoPayment \notin Payment

VARIABLES
    payment,    \* payments
    refund,     \* paymentRefunds
    entry,      \* depositEntries
    amendment,  \* amendments
    active,     \* the lease is ACTIVE, not EXPIRED or TERMINATED
    today       \* the UTC date

vars == <<payment, refund, entry, amendment, active, today>>

MonthOf(day) == day \div MonthDays
FirstDay(month) == month * MonthDays
Month == 0..MonthOf(MaxDay)
AnyAmount == Amount \cup {0}

PaymentType ==
    [status : {"NONE", "PENDING_VERIFICATION", "VERIFIED", "REJECTED"},
     obligation : Obligation \cup {NoObligation}, amount : AnyAmount]

RefundType ==
    [status : {"NONE", "PENDING_TENANT_CONFIRMATION", "VERIFIED", "REJECTED"},
     payment : Payment \cup {NoPayment}, amount : AnyAmount]

\* A DEDUCTION waits for the tenant, the other types for a verification.
EntryType ==
    [type : {"NONE"}, status : {"NONE"}, amount : {0}]
    \cup [type : {"COLLECTION", "REFUND"}, amount : Amount,
          status : {"PENDING_VERIFICATION", "VERIFIED", "REJECTED"}]
    \cup [type : {"DEDUCTION"}, amount : Amount,
          status : {"PENDING_TENANT_CONFIRMATION", "DISPUTED", "VERIFIED", "REJECTED"}]

AmendmentType ==
    [status : {"NONE", "PENDING_TENANT_ACCEPTANCE", "ACCEPTED", "REJECTED", "WITHDRAWN"},
     month : Month, deposit : AnyAmount]

\* The stores hold rows of their types.
TypeOK ==
    /\ payment \in [Payment -> PaymentType]
    /\ refund \in [Refund -> RefundType]
    /\ entry \in [Entry -> EntryType]
    /\ amendment \in [Amendment -> AmendmentType]
    /\ active \in BOOLEAN
    /\ today \in 0..MaxDay

Init ==
    /\ payment = [p \in Payment |->
                     [status |-> "NONE", obligation |-> NoObligation, amount |-> 0]]
    /\ refund = [f \in Refund |-> [status |-> "NONE", payment |-> NoPayment, amount |-> 0]]
    /\ entry = [e \in Entry |-> [type |-> "NONE", status |-> "NONE", amount |-> 0]]
    /\ amendment = [m \in Amendment |-> [status |-> "NONE", month |-> 0, deposit |-> 0]]
    /\ active = TRUE
    /\ today = 0

-----------------------------------------------------------------------------
(* Sums. *)

TotalOf(store, ids) == SumFunctionOnSet([x \in DOMAIN store |-> store[x].amount], ids)

PaymentsWith(o, st) == {p \in Payment : payment[p].obligation = o /\ payment[p].status \in st}

\* Mutant: a refund the tenant has not confirmed counts already.
RefundedOrPending(o) ==
    TotalOf(refund, {f \in Refund : /\ refund[f].status \notin {"NONE", "REJECTED"}
                                    /\ payment[refund[f].payment].obligation = o})

Refunded(o) ==
    TotalOf(refund, {f \in Refund : /\ refund[f].status = "VERIFIED"
                                    /\ payment[refund[f].payment].obligation = o})

NetPaidTotal(o) ==
    Max({0, TotalOf(payment, PaymentsWith(o, {"VERIFIED"})) - Refunded(o)})

CommittedPaymentTotal(o) ==
    Max({0, TotalOf(payment, PaymentsWith(o, {"PENDING_VERIFICATION", "VERIFIED"})) - Refunded(o)})

EntriesWith(type, st) == {e \in Entry : entry[e].type = type /\ entry[e].status \in st}

\* Collection evidence that was not rejected
CommittedDeposit ==
    TotalOf(entry, EntriesWith("COLLECTION", {"PENDING_VERIFICATION", "VERIFIED"}))

Held ==
    TotalOf(entry, EntriesWith("COLLECTION", {"VERIFIED"}))
    - TotalOf(entry, EntriesWith("DEDUCTION", {"VERIFIED"}))
    - TotalOf(entry, EntriesWith("REFUND", {"VERIFIED"}))

\* Mutant: a disputed deduction is taken as settled.
ReservedUndisputed ==
    TotalOf(entry, EntriesWith("REFUND", {"PENDING_VERIFICATION"})
                   \cup EntriesWith("DEDUCTION", {"PENDING_TENANT_CONFIRMATION"}))

Reserved ==
    TotalOf(entry, EntriesWith("REFUND", {"PENDING_VERIFICATION"})
                   \cup EntriesWith("DEDUCTION", {"PENDING_TENANT_CONFIRMATION", "DISPUTED"}))

AcceptedAmendments == {m \in Amendment : amendment[m].status = "ACCEPTED"}

\* securityDepositForPeriod: the deposit of the last amendment in force
AgreedDeposit ==
    LET inForce == {m \in AcceptedAmendments : amendment[m].month <= MonthOf(today)}
    IN  IF inForce = {} THEN InitialDeposit
        ELSE LET last == CHOOSE m \in inForce :
                           \A n \in inForce : amendment[n].month <= amendment[m].month
             IN  amendment[last].deposit

-----------------------------------------------------------------------------
(* Rent payments and their refunds. *)

FitsOutstanding(o, a) == a <= AmountDue[o] - CommittedPaymentTotal(o)

RequestPayment(p, o, a) ==
    /\ payment[p].status = "NONE"
    /\ FitsOutstanding(o, a)
    /\ payment' = [payment EXCEPT ![p] =
                      [status |-> "PENDING_VERIFICATION", obligation |-> o, amount |-> a]]
    /\ UNCHANGED <<refund, entry, amendment, active, today>>

\* What verifyPayment asks of a payment that waits for it.
FitsVerified(p) ==
    LET o == payment[p].obligation IN
    payment[p].amount <= AmountDue[o] - NetPaidTotal(o)
                         - TotalOf(payment, PaymentsWith(o, {"PENDING_VERIFICATION"}) \ {p})

\* verifyPayment, reviewPayment
ReviewPayment(p, decision) ==
    /\ payment[p].status = "PENDING_VERIFICATION"
    /\ decision = "VERIFIED" => FitsVerified(p)
    /\ payment' = [payment EXCEPT ![p].status = decision]
    /\ UNCHANGED <<refund, entry, amendment, active, today>>

RecordPaymentRefund(f, p, a) ==
    /\ refund[f].status = "NONE"
    /\ payment[p].status = "VERIFIED"
    /\ a <= payment[p].amount
            - TotalOf(refund, {g \in Refund : /\ refund[g].payment = p
                                              /\ refund[g].status # "REJECTED"})
    /\ refund' = [refund EXCEPT ![f] =
                     [status |-> "PENDING_TENANT_CONFIRMATION", payment |-> p, amount |-> a]]
    /\ UNCHANGED <<payment, entry, amendment, active, today>>

ReviewPaymentRefund(f, decision) ==
    /\ refund[f].status = "PENDING_TENANT_CONFIRMATION"
    /\ refund' = [refund EXCEPT ![f].status = decision]
    /\ UNCHANGED <<payment, entry, amendment, active, today>>

-----------------------------------------------------------------------------
(* The deposit. *)

AddEntry(e, type, st, a) ==
    /\ entry[e].type = "NONE"
    /\ entry' = [entry EXCEPT ![e] = [type |-> type, status |-> st, amount |-> a]]
    /\ UNCHANGED <<payment, refund, amendment, active, today>>

SetEntry(e, st) ==
    /\ entry' = [entry EXCEPT ![e].status = st]
    /\ UNCHANGED <<payment, refund, amendment, active, today>>

SubmitDepositEvidence(e, a) ==
    /\ active
    /\ a <= AgreedDeposit - CommittedDeposit
    /\ AddEntry(e, "COLLECTION", "PENDING_VERIFICATION", a)

CanAdjust(a) == ~active /\ a <= Held - Reserved

\* recordDepositAdjustment
RecordDeduction(e, a) ==
    CanAdjust(a) /\ AddEntry(e, "DEDUCTION", "PENDING_TENANT_CONFIRMATION", a)

RecordRefund(e, a) ==
    CanAdjust(a) /\ AddEntry(e, "REFUND", "PENDING_VERIFICATION", a)

\* The manager reviews a collection, the tenant a refund.
ReviewDeposit(e, decision) ==
    /\ entry[e].status = "PENDING_VERIFICATION"
    /\ SetEntry(e, decision)

DecidedStatus(decision) == IF decision = "ACCEPTED" THEN "VERIFIED" ELSE "DISPUTED"

DecideDepositDeduction(e, decision) ==
    /\ entry[e].status = "PENDING_TENANT_CONFIRMATION"
    /\ SetEntry(e, DecidedStatus(decision))

ResolveDepositDispute(e, decision) ==
    /\ entry[e].status = "DISPUTED"
    /\ SetEntry(e, decision)

-----------------------------------------------------------------------------
(* Amendments of the deposit, the end of the lease and the clock. *)

PendingAmendment(m) == amendment[m].status = "PENDING_TENANT_ACCEPTANCE"

ProposeAmendment(m, month, deposit) ==
    /\ active
    /\ amendment[m].status = "NONE"
    /\ \A n \in Amendment : ~PendingAmendment(n)
    /\ today <= FirstDay(month)
    /\ \A n \in AcceptedAmendments : amendment[n].month < month
    /\ CommittedDeposit <= deposit
    /\ amendment' = [amendment EXCEPT ![m] =
          [status |-> "PENDING_TENANT_ACCEPTANCE", month |-> month, deposit |-> deposit]]
    /\ UNCHANGED <<payment, refund, entry, active, today>>

SetAmendment(m, st) ==
    /\ PendingAmendment(m)
    /\ amendment' = [amendment EXCEPT ![m].status = st]
    /\ UNCHANGED <<payment, refund, entry, active, today>>

\* The tenant decides, also after the lease has ended.
DecideAmendment(m, decision) == SetAmendment(m, decision)

WithdrawAmendment(m) == active /\ SetAmendment(m, "WITHDRAWN")

\* refreshLease or an approved termination
EndLease ==
    /\ active
    /\ active' = FALSE
    /\ UNCHANGED <<payment, refund, entry, amendment, today>>

Tick ==
    /\ today < MaxDay
    /\ today' = today + 1
    /\ UNCHANGED <<payment, refund, entry, amendment, active>>

Next ==
    \/ \E p \in Payment : \/ \E o \in Obligation, a \in Amount : RequestPayment(p, o, a)
                          \/ \E decision \in {"VERIFIED", "REJECTED"} : ReviewPayment(p, decision)
    \/ \E f \in Refund :
          \/ \E p \in Payment, a \in Amount : RecordPaymentRefund(f, p, a)
          \/ \E decision \in {"VERIFIED", "REJECTED"} : ReviewPaymentRefund(f, decision)
    \/ \E e \in Entry, a \in Amount :
          SubmitDepositEvidence(e, a) \/ RecordDeduction(e, a) \/ RecordRefund(e, a)
    \/ \E e \in Entry :
          \/ \E decision \in {"VERIFIED", "REJECTED"} :
                ReviewDeposit(e, decision) \/ ResolveDepositDispute(e, decision)
          \/ \E decision \in {"ACCEPTED", "DISPUTED"} : DecideDepositDeduction(e, decision)
    \/ \E m \in Amendment :
          \/ \E month \in Month, deposit \in AnyAmount : ProposeAmendment(m, month, deposit)
          \/ \E decision \in {"ACCEPTED", "REJECTED"} : DecideAmendment(m, decision)
          \/ WithdrawAmendment(m)
    \/ EndLease \/ Tick

Spec == Init /\ [][Next]_vars

-----------------------------------------------------------------------------
(* Properties. *)

\* Accepted evidence is never stuck: the second check of the amount, at verification,
\* refuses nothing that the first one, at the report, let in.
PendingCanBeVerified ==
    \A p \in Payment : payment[p].status = "PENDING_VERIFICATION" => FitsVerified(p)

\* Whatever is reported, verified, refunded and reported again, what was received for
\* an obligation less what the tenant confirmed back is at most what it asked for, and
\* so it would be with any claim that still waits.
NeverOverpaid ==
    /\ \A o \in Obligation :
          LET received == {p \in Payment : payment[p].obligation = o /\ payment[p].status = "VERIFIED"}
              returned == {f \in Refund : /\ refund[f].payment \in received
                                          /\ refund[f].status = "VERIFIED"}
          IN  TotalOf(payment, received) - TotalOf(refund, returned) \in 0..AmountDue[o]
    /\ PendingCanBeVerified

\* The verified collections always cover what was deducted and refunded together with
\* what waits for a decision or is disputed: all of it can be granted, in any order.
DepositCovered ==
    TotalOf(entry, {e \in Entry : /\ entry[e].type \in {"DEDUCTION", "REFUND"}
                                  /\ entry[e].status # "REJECTED"})
        <= TotalOf(entry, EntriesWith("COLLECTION", {"VERIFIED"}))

\* "Agreed deposit cannot be reduced below submitted collection evidence". The check
\* is made when the amendment is proposed; the tenant can submit more evidence before
\* accepting it, and then the invariant is lost.
AgreementCoversEvidence == active => CommittedDeposit <= AgreedDeposit
=============================================================================
