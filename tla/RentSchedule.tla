----------------------------- MODULE RentSchedule -----------------------------
(****************************************************************************)
(* What one lease charges for each month: the agreed rent, its scheduled    *)
(* increases and the amendments that change both, and the obligations made  *)
(* from them: back-end/src/modules/rentals/rentals.service.ts.              *)
(*                                                                          *)
(* The lease is approved and ACTIVE from the first state on. The clock      *)
(* counts days, MonthDays of them in a month, and the first day of month m  *)
(* is FirstDay(m). Increases and amendments begin on a first day, so a      *)
(* month stands for their dates. Amounts are cents. The agreed deposit is   *)
(* the matter of RentLedger: an amendment that changes nothing here changes *)
(* it. The label APPLIED of an ACCEPTED amendment is left out. A handler    *)
(* that refreshes the lease and then throws does what View does.            *)
(****************************************************************************)
EXTENDS Integers, FiniteSets, Folds

CONSTANTS
    Amendment,    \* amendment ids
    Rent,         \* rents the manager proposes
    Escalation,   \* escalations the manager proposes
    DueDay,       \* due days the manager proposes, from 1
    BaseRent,     \* monthlyRent of the lease
    BaseEscalation, \* escalation of the lease, or NoEscalation
    BaseDueDay,   \* dueDay of the lease
    LeaseStart, LeaseEnd, \* first and last day of the lease
    MonthDays,    \* days in a month
    MaxRent,      \* MAX_RENTAL_AMOUNT
    MaxDay,       \* bound: the clock
    NoEscalation, \* no escalation agreed
    Unchanged     \* a term the amendment leaves alone

MonthOf(day) == day \div MonthDays
FirstDay(month) == month * MonthDays
LastDay(month) == FirstDay(month + 1) - 1
Month == 0..MonthOf(LeaseEnd)
Never == MaxDay + 1

\* validateEscalation: e begins after the day its terms do, and within the lease.
ValidEscalation(e, start) ==
    /\ e.value \in (IF e.method = "FIXED" THEN 1..MaxRent ELSE 0..1000)
    /\ start < FirstDay(e.month)
    /\ FirstDay(e.month) <= LeaseEnd

ASSUME ScheduleAssumption ==
    /\ MonthDays \in Nat \ {0} /\ MaxDay \in Nat /\ MaxRent \in Nat
    /\ LeaseStart \in Nat /\ LeaseEnd \in Nat /\ LeaseStart < LeaseEnd
    /\ Rent \subseteq 0..MaxRent /\ BaseRent \in 0..MaxRent
    /\ DueDay \cup {BaseDueDay} \subseteq Nat \ {0}
    /\ (Escalation \cup {BaseEscalation}) \ {NoEscalation}
          \subseteq [method : {"PERCENTAGE", "FIXED"}, value : Nat, month : Nat,
                     interval : Nat \ {0}, increases : Nat \ {0}]
    /\ BaseEscalation # NoEscalation => ValidEscalation(BaseEscalation, LeaseStart)
    /\ NoEscalation \notin Escalation
    /\ Unchanged \notin Rent /\ Unchanged \notin DueDay
    /\ Unchanged \notin Escalation \cup {NoEscalation}

VARIABLES
    amendment,  \* amendments of the lease
    bill,       \* obligations: what each month owes and when
    status,     \* the lease is ACTIVE, EXPIRED or TERMINATED
    terminated, \* terminatedAt
    today       \* the UTC date

vars == <<amendment, bill, status, terminated, today>>

AmendmentType ==
    [status : {"NONE", "PENDING_TENANT_ACCEPTANCE", "ACCEPTED", "REJECTED", "WITHDRAWN"},
     month : Month, rent : Rent \cup {Unchanged},
     escalation : Escalation \cup {NoEscalation, Unchanged},
     dueDay : DueDay \cup {Unchanged},
     accepted : 0..Never]                \* decidedAt of an accepted one

NoBill == [amount |-> 0, due |-> Never]

\* The stores hold rows of their types.
TypeOK ==
    /\ amendment \in [Amendment -> AmendmentType]
    /\ bill \in [Month -> [amount : Nat, due : Nat]]
    /\ status \in {"ACTIVE", "EXPIRED", "TERMINATED"}
    /\ terminated \in 0..Never
    /\ today \in 0..MaxDay

Init ==
    /\ amendment = [a \in Amendment |->
          [status |-> "NONE", month |-> 0, rent |-> Unchanged, escalation |-> Unchanged,
           dueDay |-> Unchanged, accepted |-> Never]]
    /\ bill = [m \in Month |-> NoBill]
    /\ status = "ACTIVE"
    /\ terminated = Never
    /\ today = 0

Billed(m) == bill[m] # NoBill

-----------------------------------------------------------------------------
(* The rent of a month. *)

TooHigh == MaxRent + 1    \* "Scheduled rent exceeds the supported amount"

\* escalationDates: the months in which e raises the rent
IncreaseMonths(e) ==
    IF e = NoEscalation THEN {}
    ELSE {m \in Month : \E k \in 0..(e.increases - 1) : m = e.month + k * e.interval}

\* One increase, rounded half up; it throws above the limit.
Raise(rent, e) ==
    LET raised == IF e.method = "PERCENTAGE" THEN (rent * (100 + e.value) + 50) \div 100
                  ELSE rent + e.value
    IN  IF rent = TooHigh \/ raised > MaxRent THEN TooHigh ELSE raised

\* n increases, one after the other
RaisedTimes(rent, e, n) ==
    LET raised[i \in 0..n] == IF i = 0 THEN rent ELSE Raise(raised[i - 1], e)
    IN  raised[n]

\* rentAfterEscalation: the increases after month `from` up to month `to`
RentAfterEscalation(rent, e, from, to) ==
    RaisedTimes(rent, e, Cardinality(IncreaseMonths(e) \cap (from + 1)..to))

AcceptedAmendments == {a \in Amendment : amendment[a].status = "ACCEPTED"}

\* Accepted amendments of the lease up to month m, and the last of some by their dates
InForce(m) == {a \in AcceptedAmendments : amendment[a].month <= m}
LastOf(S) == CHOOSE a \in S : \A b \in S : amendment[b].month <= amendment[a].month

\* The term of month m: that of the last amendment which sets it
TermsOf(m, field, base) ==
    LET S == {a \in InForce(m) : amendment[a][field] # Unchanged}
    IN  IF S = {} THEN base ELSE amendment[LastOf(S)][field]

\* The terms from amendment x on, s being those before it. What the rent had become
\* is computed, and may throw, also when x replaces it.
Amended(s, x) ==
    LET before == RentAfterEscalation(s.rent, s.escalation, s.from, x.month - 1) IN
    [rent |-> IF before = TooHigh \/ x.rent = Unchanged THEN before ELSE x.rent,
     escalation |-> IF x.escalation = Unchanged THEN s.escalation ELSE x.escalation,
     from |-> x.month]

BaseTerms == [rent |-> BaseRent, escalation |-> BaseEscalation, from |-> MonthOf(LeaseStart)]

\* The amendments of S, applied in the order of their dates
TermsAfter(S) ==
    MapThenFoldSet(LAMBDA a, s : Amended(s, amendment[a]), BaseTerms, LAMBDA a : a, LastOf, S)

RentForPeriod(m) ==
    LET s == TermsAfter(InForce(m)) IN RentAfterEscalation(s.rent, s.escalation, s.from, m)

DueDayForPeriod(m) == TermsOf(m, "dueDay", BaseDueDay)

\* The due date of month m: within the month, and not before the lease begins
Least(a, b) == IF a <= b THEN a ELSE b
Greatest(a, b) == IF a >= b THEN a ELSE b
DueDate(m) == Greatest(LeaseStart, FirstDay(m) + Least(DueDayForPeriod(m), MonthDays) - 1)

\* Mutant: the increases an amendment agrees are not announced.
RentDatesAtFirst ==
    IncreaseMonths(BaseEscalation) \cup {amendment[a].month : a \in AcceptedAmendments}

RentDates ==
    IncreaseMonths(BaseEscalation)
    \cup {amendment[a].month : a \in AcceptedAmendments}
    \cup UNION {IncreaseMonths(amendment[a].escalation) :
                   a \in {b \in AcceptedAmendments : amendment[b].escalation # Unchanged}}

\* nextRentIncrease: the first later date on which an increase or an amendment falls
LaterDates == {m \in RentDates : m > MonthOf(today)}
NextRentIncrease == CHOOSE m \in LaterDates : \A k \in LaterDates : m <= k

-----------------------------------------------------------------------------
(* What the handlers do. *)

Past == today > LeaseEnd    \* the inclusive end date passed

\* generateCurrentObligations: the months that are due, up to the first whose rent
\* cannot be computed; there it throws and keeps the rows it made.
DueMonths ==
    {m \in Month : /\ LeaseStart <= today /\ MonthOf(LeaseStart) <= m
                   /\ FirstDay(m) <= today /\ FirstDay(m) <= LeaseEnd
                   /\ FirstDay(m) <= terminated}
Unreadable == {m \in DueMonths : ~Billed(m) /\ RentForPeriod(m) = TooHigh}
GenerateCurrentObligations ==
    bill' = [m \in Month |->
                IF m \in DueMonths /\ ~Billed(m) /\ (\A k \in Unreadable : m < k)
                THEN [amount |-> RentForPeriod(m), due |-> DueDate(m)] ELSE bill[m]]

\* myLease and every other read: refreshLease, then the bills
View ==
    /\ GenerateCurrentObligations
    /\ status' = IF status = "ACTIVE" /\ Past /\ Unreadable = {} THEN "EXPIRED" ELSE status
    /\ UNCHANGED <<amendment, terminated, today>>

\* Mutant: also on the day of an accepted amendment.
MayJoinAccepted(month) == \A b \in AcceptedAmendments : amendment[b].month <= month
FollowsAccepted(month) == \A b \in AcceptedAmendments : amendment[b].month < month

Pending(a) == amendment[a].status = "PENDING_TENANT_ACCEPTANCE"

\* proposeAmendment with month as the effectiveDate
ProposeAmendment(a, month, rent, escalation, dueDay) ==
    /\ status = "ACTIVE" /\ ~Past
    /\ amendment[a].status = "NONE"
    /\ \A b \in Amendment : ~Pending(b)
    /\ escalation \notin {NoEscalation, Unchanged} => ValidEscalation(escalation, FirstDay(month))
    /\ today <= FirstDay(month) /\ FirstDay(month) <= LeaseEnd
    /\ FollowsAccepted(month)
    /\ amendment' = [amendment EXCEPT ![a] =
          [status |-> "PENDING_TENANT_ACCEPTANCE", month |-> month, rent |-> rent,
           escalation |-> escalation, dueDay |-> dueDay, accepted |-> Never]]
    /\ UNCHANGED <<bill, status, terminated, today>>

Settle(a, decision) ==
    /\ Pending(a)
    /\ amendment' = [amendment EXCEPT ![a].status = decision,
                        ![a].accepted = IF decision = "ACCEPTED" THEN today ELSE Never]
    /\ UNCHANGED <<bill, status, terminated, today>>

\* decideAmendment, at any time, also when the lease has ended
DecideAmendment(a, decision) == Settle(a, decision)

WithdrawAmendment(a) == status = "ACTIVE" /\ Settle(a, "WITHDRAWN")

\* decideLifecycle approves a termination the tenant asked for while the lease was
\* active; the months up to now are billed first.
Terminate ==
    /\ status \in {"ACTIVE", "EXPIRED"}
    /\ Unreadable = {}
    /\ GenerateCurrentObligations
    /\ status' = "TERMINATED"
    /\ terminated' = today
    /\ UNCHANGED <<amendment, today>>

Tick ==
    /\ today < MaxDay
    /\ today' = today + 1
    /\ UNCHANGED <<amendment, bill, status, terminated>>

Next ==
    \/ \E a \in Amendment :
          \/ \E month \in Month, rent \in Rent \cup {Unchanged}, dueDay \in DueDay \cup {Unchanged},
                escalation \in Escalation \cup {NoEscalation, Unchanged} :
                ProposeAmendment(a, month, rent, escalation, dueDay)
          \/ \E decision \in {"ACCEPTED", "REJECTED"} : DecideAmendment(a, decision)
          \/ WithdrawAmendment(a)
    \/ View
    \/ Terminate
    \/ Tick

Spec == Init /\ [][Next]_vars

-----------------------------------------------------------------------------
(* What the schedule promises. *)

\* The months told one by one: an amendment of the month sets the rent, otherwise
\* the escalation in force may raise last month's. An active lease may be amended from a
\* month before its first day on.
EscalationOf(m) == TermsOf(m, "escalation", BaseEscalation)
SetsRent(m) == {a \in InForce(m) : amendment[a].month = m /\ amendment[a].rent # Unchanged}
AgreedRent ==
    LET agreed[m \in 0..MonthOf(LeaseEnd)] ==
            IF SetsRent(m) # {} THEN amendment[LastOf(SetsRent(m))].rent
            ELSE IF m = 0 THEN BaseRent
            ELSE IF m \in IncreaseMonths(EscalationOf(m))
                 THEN Raise(agreed[m - 1], EscalationOf(m)) ELSE agreed[m - 1]
    IN  agreed

\* An amendment that begins on the day of an increase and leaves rent and escalation
\* alone; see AmendmentLeavesRentAlone.
SwallowsIncrease(a) ==
    /\ amendment[a].rent = Unchanged /\ amendment[a].escalation = Unchanged
    /\ amendment[a].month \in IncreaseMonths(EscalationOf(amendment[a].month))

\* A month is billed what was agreed before it began: last month's rent, raised on the
\* dates of the escalation then in force and replaced by the amendments accepted in
\* time, due on the agreed day (generateCurrentObligations and rentForPeriod, which
\* computes the rent segment by segment between the amendments, whoever looks when).
BilledAsAgreed ==
    \A m \in Month :
        (/\ Billed(m)
         /\ \A a \in InForce(m) : amendment[a].accepted < FirstDay(m) /\ ~SwallowsIncrease(a))
        => /\ bill[m].amount = AgreedRent[m]
           /\ bill[m].due = DueDate(m)

\* The rent does not move before the date that nextRentIncrease announces to both
\* sides, and not at all when it announces none.
NothingUnannounced ==
    \A m \in Month :
        m > MonthOf(today) /\ (LaterDates = {} \/ m < NextRentIncrease)
        => RentForPeriod(m) = RentForPeriod(MonthOf(today))

\* Amendments come one after the other: at most one waits for the tenant, it begins
\* after all that were accepted, and no two accepted ones begin together, so the order
\* in which rentForPeriod applies them is settled (proposeAmendment, decideAmendment).
OneTermsPerMonth ==
    \A a, b \in Amendment : a # b =>
        /\ Pending(a) => ~Pending(b)
        /\ b \in AcceptedAmendments =>
              /\ Pending(a) => amendment[b].month < amendment[a].month
              /\ a \in AcceptedAmendments => amendment[b].month # amendment[a].month

\* Both sides know their rent: for each month there are terms of one amendment at most,
\* what is billed is what was agreed, and it changes when it was announced.
RentAsAgreed == OneTermsPerMonth /\ BilledAsAgreed /\ NothingUnannounced

\* Does not hold: an amendment that changes only the due day or the deposit and begins
\* on the date of an increase takes that increase away, for rentForPeriod applies the
\* increases up to the day before it and those after it.
AmendmentLeavesRentAlone ==
    \A a \in AcceptedAmendments : ~SwallowsIncrease(a)

\* Does not hold: with a due month whose rent exceeds the limit every read of the lease
\* throws, and the lease never expires.
AlwaysReadable == Unreadable = {}
=============================================================================
