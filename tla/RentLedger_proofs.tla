--------------------------- MODULE RentLedger_proofs ---------------------------
(****************************************************************************)
(* Proofs about RentLedger, for any number of obligations, payments,        *)
(* refunds and deposit entries and for any amounts: nothing is received     *)
(* beyond what was asked for, and what is taken from a deposit is in it.    *)
(*                                                                          *)
(* The sums of the ledger are what has to be reasoned about: every handler  *)
(* changes one row, and Sums says what this does to a total.                *)
(****************************************************************************)
EXTENDS LedgerPages, Sums

-----------------------------------------------------------------------------
(* Totals: what one row contributes, and what a change of one row does.      *)

Cents(store) == [x \in DOMAIN store |-> store[x].amount]

\* The rows of S are in the store, each with an amount.
Rows(store, S) ==
    /\ IsFiniteSet(S)
    /\ S \subseteq DOMAIN store
    /\ \A x \in S : store[x].amount \in Nat

LEMMA RowsCount ==
    ASSUME NEW store, NEW S, Rows(store, S)
    PROVE  Counts(Cents(store), S) /\ TotalOf(store, S) = SumFunctionOnSet(Cents(store), S)
BY DEF Rows, Counts, Cents, TotalOf

LEMMA TotalIsNat ==
    ASSUME NEW store, NEW S, Rows(store, S)
    PROVE  TotalOf(store, S) \in Nat
BY RowsCount, SumIsNat DEF Rows

LEMMA TotalOfNone ==
    ASSUME NEW store
    PROVE  TotalOf(store, {}) = 0
BY SumOfNone DEF TotalOf

LEMMA RowsOfPart ==
    ASSUME NEW store, NEW S, Rows(store, S), NEW T \in SUBSET S
    PROVE  Rows(store, T) /\ TotalOf(store, T) <= TotalOf(store, S)
<1>1. Rows(store, T)
      BY FS_Subset DEF Rows
<1> QED
    BY <1>1, RowsCount, SumOfSubset DEF Rows

LEMMA TotalOfParts ==
    ASSUME NEW store, NEW S, Rows(store, S), NEW T, Rows(store, T), S \cap T = {}
    PROVE  /\ Rows(store, S \cup T)
           /\ TotalOf(store, S \cup T) = TotalOf(store, S) + TotalOf(store, T)
<1>1. Rows(store, S \cup T)
      BY FS_Union DEF Rows
<1>2. SumFunctionOnSet(Cents(store), S \cup T)
          = SumFunctionOnSet(Cents(store), S) + SumFunctionOnSet(Cents(store), T)
      BY RowsCount, SumOfUnion DEF Rows
<1> QED
    BY <1>1, <1>2, RowsCount

LEMMA TotalWithout ==
    ASSUME NEW store, NEW S, Rows(store, S), NEW x \in S
    PROVE  /\ Rows(store, S \ {x})
           /\ TotalOf(store, S) = store[x].amount + TotalOf(store, S \ {x})
<1>1. Rows(store, S \ {x})
      BY FS_RemoveElement DEF Rows
<1>2. Cents(store)[x] = store[x].amount
      BY DEF Rows, Cents
<1>3. SumFunctionOnSet(Cents(store), S)
          = Cents(store)[x] + SumFunctionOnSet(Cents(store), S \ {x})
      BY RowsCount, SumOfOneMore DEF Rows
<1> QED
    BY <1>1, <1>2, <1>3, RowsCount

\* Between two stores and two sets of rows that agree except for row x, the totals
\* differ by what x adds and takes away.
LEMMA TotalAfter ==
    ASSUME NEW s, NEW S, Rows(s, S), NEW t, NEW T, Rows(t, T),
           NEW x, S \ {x} = T \ {x}, \A y \in S \ {x} : t[y].amount = s[y].amount
    PROVE  /\ TotalOf(s, S) \in Nat /\ TotalOf(t, T) \in Nat
           /\ TotalOf(t, T) = TotalOf(s, S) - (IF x \in S THEN s[x].amount ELSE 0)
                                            + (IF x \in T THEN t[x].amount ELSE 0)
<1>1. /\ Counts(Cents(s), S) /\ TotalOf(s, S) = SumFunctionOnSet(Cents(s), S)
      /\ Counts(Cents(t), T) /\ TotalOf(t, T) = SumFunctionOnSet(Cents(t), T)
      BY RowsCount
<1>2. \A y \in S \ {x} : Cents(t)[y] = Cents(s)[y]
      BY DEF Rows, Cents
<1>3. (x \in S => Cents(s)[x] = s[x].amount) /\ (x \in T => Cents(t)[x] = t[x].amount)
      BY DEF Rows, Cents
<1>4. IsFiniteSet(S) /\ IsFiniteSet(T)
      BY DEF Rows
<1>5. /\ SumFunctionOnSet(Cents(s), S) \in Nat /\ SumFunctionOnSet(Cents(t), T) \in Nat
      /\ SumFunctionOnSet(Cents(t), T)
            = SumFunctionOnSet(Cents(s), S) - (IF x \in S THEN Cents(s)[x] ELSE 0)
                                            + (IF x \in T THEN Cents(t)[x] ELSE 0)
      BY <1>1, <1>2, <1>4, SumAfterChange
<1> QED
    BY <1>1, <1>3, <1>5

\* The larger of 0 and d
LEMMA MaxWithZero ==
    ASSUME NEW d \in Int
    PROVE  Max({0, d}) \in Int /\ Max({0, d}) >= d /\ Max({0, d}) \in {0, d}
<1>1. \E x \in {0, d} : \A y \in {0, d} : x >= y
      OBVIOUS
<1>2. Max({0, d}) \in {0, d} /\ \A y \in {0, d} : Max({0, d}) >= y
      BY <1>1 DEF Max
<1> QED
    BY <1>2

-----------------------------------------------------------------------------
(* The inductive invariant.                                                  *)

ReportedPayments == {p \in Payment : payment[p].status # "NONE"}
RecordedRefunds == {f \in Refund : refund[f].status # "NONE"}
MadeEntries == {e \in Entry : entry[e].type # "NONE"}

\* However many ids there are, finitely many are in use.
FinitelyMany == IsFiniteSet(ReportedPayments) /\ IsFiniteSet(RecordedRefunds)

\* A reported payment is for an obligation, a recorded refund of a payment.
RowsRefer ==
    /\ \A p \in Payment : payment[p].status # "NONE" <=> payment[p].obligation # NoObligation
    /\ \A f \in Refund : refund[f].status # "NONE" <=> refund[f].payment # NoPayment

\* Only what was received is given back, and it stays VERIFIED.
RefundsOfReceived ==
    \A f \in RecordedRefunds : payment[refund[f].payment].status = "VERIFIED"

Claims(p) == {f \in Refund : refund[f].payment = p /\ refund[f].status # "REJECTED"}

\* What is claimed back of a payment, confirmed or not, is in it.
ClaimsCovered == \A p \in Payment : TotalOf(refund, Claims(p)) <= payment[p].amount

\* With all that waits verified, an obligation receives no more than it asks for.
DueCovered ==
    \A o \in Obligation :
        TotalOf(payment, PaymentsWith(o, {"PENDING_VERIFICATION", "VERIFIED"})) - Refunded(o)
            <= AmountDue[o]

RentInv == FinitelyMany /\ RowsRefer /\ RefundsOfReceived /\ ClaimsCovered /\ DueCovered

DepositInv == IsFiniteSet(MadeEntries) /\ DepositCovered

\* The two sides of DepositCovered
Collected == EntriesWith("COLLECTION", {"VERIFIED"})
Spent == {e \in Entry : entry[e].type \in {"DEDUCTION", "REFUND"} /\ entry[e].status # "REJECTED"}

IInv == TypeOK /\ RentInv /\ DepositInv

LEMMA RowAmounts ==
    /\ \A row \in PaymentType \cup RefundType : row.amount \in Nat
    /\ \A row \in EntryType : row.amount \in Nat
<1>1. AnyAmount \subseteq Nat
      BY LedgerAssumption DEF AnyAmount
<1>2. \A row \in PaymentType \cup RefundType : row.amount \in Nat
      BY <1>1 DEF PaymentType, RefundType
<1>3. \A row \in EntryType : row.amount \in Nat
      BY <1>1 DEF EntryType, AnyAmount
<1> QED
    BY <1>2, <1>3

LEMMA AmountsAreNat ==
    ASSUME TypeOK
    PROVE  /\ \A p \in Payment : payment[p].amount \in Nat
           /\ \A f \in Refund : refund[f].amount \in Nat
           /\ \A e \in Entry : entry[e].amount \in Nat
BY RowAmounts DEF TypeOK

LEMMA StoreRows ==
    /\ \A store \in [Payment -> PaymentType] :
          \A S \in SUBSET Payment : IsFiniteSet(S) => Rows(store, S)
    /\ \A store \in [Refund -> RefundType] :
          \A S \in SUBSET Refund : IsFiniteSet(S) => Rows(store, S)
    /\ \A store \in [Entry -> EntryType] :
          \A S \in SUBSET Entry : IsFiniteSet(S) => Rows(store, S)
BY RowAmounts DEF Rows

LEMMA InitIInv == Init => IInv
<1> SUFFICES ASSUME Init PROVE IInv
    OBVIOUS
<1>1. MonthOf(MaxDay) \in Nat /\ 0 \in Month /\ 0 \in AnyAmount /\ 0 \in 0..MaxDay
      BY LedgerAssumption DEF Month, MonthOf, AnyAmount
<1>2. TypeOK
      BY <1>1 DEF Init, TypeOK, PaymentType, RefundType, EntryType, AmendmentType
<1>3. ReportedPayments = {} /\ RecordedRefunds = {} /\ MadeEntries = {}
      BY DEF Init, ReportedPayments, RecordedRefunds, MadeEntries
<1>4. FinitelyMany /\ IsFiniteSet(MadeEntries)
      BY <1>3, FS_EmptySet DEF FinitelyMany
<1>5. RowsRefer /\ RefundsOfReceived
      BY <1>3 DEF Init, RowsRefer, RefundsOfReceived
<1>6. ClaimsCovered
    <2>1. \A p \in Payment : Claims(p) = {} /\ payment[p].amount = 0
          BY LedgerAssumption DEF Init, Claims
    <2> QED
        BY <2>1, TotalOfNone DEF ClaimsCovered
<1>7. DueCovered
    <2>1. ASSUME NEW o \in Obligation
          PROVE  /\ PaymentsWith(o, {"PENDING_VERIFICATION", "VERIFIED"}) = {}
                 /\ Refunded(o) = TotalOf(refund, {})
                 /\ AmountDue[o] \in Nat
        <3>1. {f \in Refund : /\ refund[f].status = "VERIFIED"
                              /\ payment[refund[f].payment].obligation = o} = {}
              BY DEF Init
        <3> QED
            BY <3>1, LedgerAssumption DEF Init, PaymentsWith, Refunded
    <2> QED
        BY <2>1, TotalOfNone DEF DueCovered
<1>8. DepositCovered
    <2>1. Spent = {} /\ Collected = {}
          BY DEF Init, Spent, Collected, EntriesWith
    <2>2. TotalOf(entry, Spent) = 0 /\ TotalOf(entry, Collected) = 0
          BY <2>1, TotalOfNone
    <2> QED
        BY <2>2 DEF DepositCovered, Spent, Collected
<1> QED
    BY <1>2, <1>4, <1>5, <1>6, <1>7, <1>8 DEF IInv, RentInv, DepositInv

-----------------------------------------------------------------------------
(* What is paid and refunded.                                                *)

\* The payments and the refunds that count for an obligation
Paying(o) == PaymentsWith(o, {"PENDING_VERIFICATION", "VERIFIED"})
Returned(o) == {f \in Refund : /\ refund[f].status = "VERIFIED"
                               /\ payment[refund[f].payment].obligation = o}

LEMMA RentRows ==
    ASSUME TypeOK, RentInv
    PROVE  /\ \A o \in Obligation : Rows(payment, Paying(o)) /\ Rows(refund, Returned(o))
           /\ \A p \in Payment : Rows(refund, Claims(p))
           /\ \A S \in SUBSET ReportedPayments : Rows(payment, S)
           /\ \A S \in SUBSET RecordedRefunds : Rows(refund, S)
           /\ \A f \in RecordedRefunds : refund[f].payment \in Payment
           /\ \A p \in ReportedPayments : payment[p].obligation \in Obligation
<1>1. /\ \A S \in SUBSET ReportedPayments : Rows(payment, S)
      /\ \A S \in SUBSET RecordedRefunds : Rows(refund, S)
    <2>1. /\ \A S \in SUBSET ReportedPayments : IsFiniteSet(S) /\ S \subseteq Payment
          /\ \A S \in SUBSET RecordedRefunds : IsFiniteSet(S) /\ S \subseteq Refund
          BY FS_Subset DEF RentInv, FinitelyMany, ReportedPayments, RecordedRefunds
    <2> QED
        BY <2>1, StoreRows DEF TypeOK
<1>2. /\ \A o \in Obligation : Paying(o) \subseteq ReportedPayments
                               /\ Returned(o) \subseteq RecordedRefunds
      /\ \A p \in Payment : Claims(p) \subseteq RecordedRefunds
      BY LedgerAssumption DEF RentInv, RowsRefer, Paying, PaymentsWith, Returned, Claims,
                              ReportedPayments, RecordedRefunds
<1>3. /\ \A f \in RecordedRefunds : refund[f].payment \in Payment
      /\ \A p \in ReportedPayments : payment[p].obligation \in Obligation
      BY DEF RentInv, RowsRefer, TypeOK, PaymentType, RefundType, ReportedPayments,
             RecordedRefunds
<1> QED
    BY <1>1, <1>2, <1>3

LEMMA RequestKeeps ==
    ASSUME TypeOK, TypeOK', RentInv, NEW p \in Payment, NEW o \in Obligation,
           NEW a \in Amount, RequestPayment(p, o, a)
    PROVE  RentInv'
<1> DEFINE row == [status |-> "PENDING_VERIFICATION", obligation |-> o, amount |-> a]
<1>1. /\ payment[p].status = "NONE" /\ refund' = refund
      /\ \A q \in Payment : payment'[q] = IF q = p THEN row ELSE payment[q]
      /\ a \in Nat
      BY LedgerAssumption DEF RequestPayment, TypeOK
<1>2. FinitelyMany'
    <2>1. ReportedPayments' = ReportedPayments \cup {p} /\ RecordedRefunds' = RecordedRefunds
          BY <1>1 DEF ReportedPayments, RecordedRefunds
    <2> QED
        BY <2>1, FS_AddElement DEF RentInv, FinitelyMany
<1>3. RowsRefer'
      BY <1>1, LedgerAssumption DEF RentInv, RowsRefer
<1>4. \A f \in RecordedRefunds : refund[f].payment \in Payment \ {p}
      BY <1>1, RentRows DEF RentInv, RefundsOfReceived
<1>5. RefundsOfReceived'
      BY <1>1, <1>4 DEF RentInv, RefundsOfReceived, RecordedRefunds
<1>6. ClaimsCovered'
    <2>1. ASSUME NEW q \in Payment
          PROVE  TotalOf(refund, Claims(q)) <= payment'[q].amount
        <3>1. CASE q = p
            <4>1. Claims(p) = {}
                  BY <1>1, <1>4, LedgerAssumption DEF RentInv, RowsRefer, Claims, RecordedRefunds
            <4>2. TotalOf(refund, Claims(p)) = 0
                  BY <4>1, TotalOfNone
            <4> QED
                BY <1>1, <3>1, <4>2
        <3>2. CASE q # p
              BY <1>1, <3>2 DEF RentInv, ClaimsCovered
        <3> QED
            BY <3>1, <3>2
    <2>2. \A q \in Payment : Claims(q)' = Claims(q)
          BY <1>1 DEF Claims
    <2> QED
        BY <1>1, <2>1, <2>2 DEF ClaimsCovered
<1>7. DueCovered'
    <2>1. ASSUME NEW q \in Obligation
          PROVE  TotalOf(payment', Paying(q)') - Refunded(q)' <= AmountDue[q]
        <3>1. Returned(q)' = Returned(q)
              BY <1>1, <1>4 DEF Returned, RecordedRefunds
        <3>2. Refunded(q)' = Refunded(q) /\ Refunded(q) \in Nat
              BY <1>1, <3>1, RentRows, TotalIsNat DEF Refunded, Returned
        <3>3. Rows(payment, Paying(q)) /\ Rows(payment', Paying(q)')
            <4>1. Paying(q)' \subseteq ReportedPayments' /\ ReportedPayments' \subseteq Payment
                  BY DEF Paying, PaymentsWith, ReportedPayments
            <4>2. IsFiniteSet(Paying(q)')
                  BY <1>2, <4>1, FS_Subset DEF FinitelyMany
            <4> QED
                BY <4>1, <4>2, RentRows, StoreRows DEF TypeOK
        <3>4. /\ p \notin Paying(q) /\ Paying(q) = Paying(q)' \ {p}
              /\ p \in Paying(q)' <=> q = o
              BY <1>1 DEF Paying, PaymentsWith
        <3>5. /\ TotalOf(payment, Paying(q)) \in Nat
              /\ TotalOf(payment', Paying(q)')
                    = TotalOf(payment, Paying(q)) + (IF q = o THEN a ELSE 0)
            <4>1. Paying(q) \ {p} = Paying(q)' \ {p}
                  BY <3>4
            <4>2. \A y \in Paying(q) \ {p} : payment'[y].amount = payment[y].amount
                  BY <1>1, <3>3 DEF Rows, Paying, PaymentsWith
            <4>3. payment'[p].amount = a
                  BY <1>1
            <4> QED
                BY <1>1, <3>3, <3>4, <4>1, <4>2, <4>3, TotalAfter
        <3>6. TotalOf(payment, Paying(q)) - Refunded(q) <= AmountDue[q]
              BY DEF RentInv, DueCovered, Paying
        <3>7. AmountDue[q] \in Nat
              BY LedgerAssumption
        <3>8. q = o => a <= AmountDue[q] - (TotalOf(payment, Paying(q)) - Refunded(q))
            <4> DEFINE d == TotalOf(payment, Paying(o)) - Refunded(o)
            <4>1. ASSUME q = o PROVE d \in Int /\ Max({0, d}) \in Int /\ Max({0, d}) >= d
                  BY <3>2, <3>5, <4>1, MaxWithZero
            <4>2. a <= AmountDue[o] - Max({0, d})
                  BY DEF RequestPayment, FitsOutstanding, CommittedPaymentTotal, Paying
            <4>3. ASSUME q = o PROVE a <= AmountDue[o] - d
                <5> HIDE DEF d
                <5> QED
                    BY <1>1, <3>7, <4>1, <4>2, <4>3
            <4> QED
                BY <4>3
        <3> QED
            BY <1>1, <3>2, <3>5, <3>6, <3>7, <3>8
    <2> QED
        BY <2>1 DEF DueCovered, Paying
<1> QED
    BY <1>2, <1>3, <1>5, <1>6, <1>7 DEF RentInv

LEMMA ReviewKeeps ==
    ASSUME TypeOK, TypeOK', RentInv, NEW p \in Payment,
           NEW decision \in {"VERIFIED", "REJECTED"}, ReviewPayment(p, decision)
    PROVE  RentInv'
<1>1. /\ payment[p].status = "PENDING_VERIFICATION" /\ refund' = refund
      /\ \A q \in Payment \ {p} : payment'[q] = payment[q]
      /\ payment'[p].status = decision /\ payment'[p].obligation = payment[p].obligation
      /\ payment'[p].amount = payment[p].amount
      BY DEF ReviewPayment, TypeOK, PaymentType
<1>2. FinitelyMany'
    <2>1. ReportedPayments' = ReportedPayments /\ RecordedRefunds' = RecordedRefunds
          BY <1>1 DEF ReportedPayments, RecordedRefunds
    <2> QED
        BY <2>1 DEF RentInv, FinitelyMany
<1>3. RowsRefer'
      BY <1>1 DEF RentInv, RowsRefer
<1>4. \A f \in RecordedRefunds : refund[f].payment \in Payment \ {p}
      BY <1>1, RentRows DEF RentInv, RefundsOfReceived
<1>5. RefundsOfReceived'
      BY <1>1, <1>4 DEF RentInv, RefundsOfReceived, RecordedRefunds
<1>6. ClaimsCovered'
    <2>1. \A q \in Payment : Claims(q)' = Claims(q) /\ payment'[q].amount = payment[q].amount
          BY <1>1 DEF Claims
    <2> QED
        BY <1>1, <2>1 DEF RentInv, ClaimsCovered
<1>7. DueCovered'
    <2>1. ASSUME NEW q \in Obligation
          PROVE  TotalOf(payment', Paying(q)') - Refunded(q)' <= AmountDue[q]
        <3>1. Returned(q)' = Returned(q)
              BY <1>1, <1>4 DEF Returned, RecordedRefunds
        <3>2. Refunded(q)' = Refunded(q) /\ Refunded(q) \in Nat
              BY <1>1, <3>1, RentRows, TotalIsNat DEF Refunded, Returned
        <3>3. Rows(payment, Paying(q)) /\ Paying(q)' \subseteq Paying(q)
              BY <1>1, RentRows DEF Paying, PaymentsWith
        <3>4. Rows(payment', Paying(q)')
            <4>1. IsFiniteSet(Paying(q)') /\ Paying(q)' \subseteq Payment
                  BY <3>3, FS_Subset DEF Rows, Paying, PaymentsWith
            <4> QED
                BY <4>1, StoreRows DEF TypeOK
        <3>5. Rows(payment, Paying(q)')
              BY <3>3, RowsOfPart
        <3>6. TotalOf(payment', Paying(q)') = TotalOf(payment, Paying(q)')
            <4>1. \A y \in Paying(q)' \ {p} : payment'[y].amount = payment[y].amount
                  BY <1>1 DEF Paying, PaymentsWith
            <4>2. payment[p].amount \in Nat
                  BY AmountsAreNat
            <4> QED
                BY <1>1, <3>4, <3>5, <4>1, <4>2, TotalAfter
        <3>7. TotalOf(payment, Paying(q)') <= TotalOf(payment, Paying(q))
              BY <3>3, RowsOfPart
        <3>8. TotalOf(payment, Paying(q)) - Refunded(q) <= AmountDue[q]
              BY DEF RentInv, DueCovered, Paying
        <3>9. /\ TotalOf(payment, Paying(q)) \in Nat /\ TotalOf(payment, Paying(q)') \in Nat
              /\ AmountDue[q] \in Nat
              BY <3>3, <3>5, TotalIsNat, LedgerAssumption
        <3> QED
            BY <3>2, <3>6, <3>7, <3>8, <3>9
    <2> QED
        BY <2>1 DEF DueCovered, Paying
<1> QED
    BY <1>2, <1>3, <1>5, <1>6, <1>7 DEF RentInv

LEMMA RecordKeeps ==
    ASSUME TypeOK, TypeOK', RentInv, NEW f \in Refund, NEW p \in Payment,
           NEW a \in Amount, RecordPaymentRefund(f, p, a)
    PROVE  RentInv'
<1> DEFINE row == [status |-> "PENDING_TENANT_CONFIRMATION", payment |-> p, amount |-> a]
<1>1. /\ refund[f].status = "NONE" /\ payment[p].status = "VERIFIED" /\ payment' = payment
      /\ \A g \in Refund : refund'[g] = IF g = f THEN row ELSE refund[g]
      /\ a \in Nat
      BY LedgerAssumption DEF RecordPaymentRefund, TypeOK
<1>2. /\ ReportedPayments' = ReportedPayments
      /\ RecordedRefunds' = RecordedRefunds \cup {f} /\ f \notin RecordedRefunds
      BY <1>1 DEF ReportedPayments, RecordedRefunds
<1>3. FinitelyMany'
      BY <1>2, FS_AddElement DEF RentInv, FinitelyMany
<1>4. RowsRefer'
      BY <1>1, LedgerAssumption DEF RentInv, RowsRefer
<1>5. RefundsOfReceived'
    <2>1. \A g \in RecordedRefunds : refund'[g] = refund[g]
          BY <1>1, <1>2 DEF RecordedRefunds
    <2>2. refund'[f].payment = p
          BY <1>1
    <2> QED
        BY <1>1, <1>2, <2>1, <2>2 DEF RentInv, RefundsOfReceived
<1>6. ClaimsCovered'
    <2>1. ASSUME NEW q \in Payment
          PROVE  TotalOf(refund', Claims(q)') <= payment[q].amount
        <3>1. /\ f \notin Claims(q) /\ (f \in Claims(q)' <=> q = p)
              /\ Claims(q) \ {f} = Claims(q)' \ {f}
              /\ \A g \in Claims(q) \ {f} : refund'[g].amount = refund[g].amount
              /\ refund'[f].amount = a
              BY <1>1, LedgerAssumption DEF RentInv, RowsRefer, Claims
        <3>2. Rows(refund, Claims(q)) /\ Rows(refund', Claims(q)')
            <4>1. Claims(q)' \subseteq RecordedRefunds'
                  BY <1>4, LedgerAssumption DEF RowsRefer, Claims, RecordedRefunds
            <4>2. IsFiniteSet(Claims(q)') /\ Claims(q)' \subseteq Refund
                  BY <1>3, <4>1, FS_Subset DEF FinitelyMany, Claims
            <4> QED
                BY <4>2, RentRows, StoreRows DEF TypeOK
        <3>3. /\ TotalOf(refund, Claims(q)) \in Nat
              /\ TotalOf(refund', Claims(q)')
                    = TotalOf(refund, Claims(q)) + (IF q = p THEN a ELSE 0)
              BY <1>1, <3>1, <3>2, TotalAfter
        <3>4. TotalOf(refund, Claims(q)) <= payment[q].amount /\ payment[q].amount \in Nat
              BY AmountsAreNat DEF RentInv, ClaimsCovered
        <3>5. a <= payment[p].amount - TotalOf(refund, Claims(p))
              BY DEF RecordPaymentRefund, Claims
        <3> QED
            BY <1>1, <3>3, <3>4, <3>5
    <2> QED
        BY <1>1, <2>1 DEF ClaimsCovered
<1>7. DueCovered'
    <2>1. ASSUME NEW q \in Obligation
          PROVE  Paying(q)' = Paying(q) /\ Refunded(q)' = Refunded(q)
        <3>1. /\ Returned(q)' = Returned(q) /\ f \notin Returned(q)
              /\ \A g \in Returned(q) \ {f} : refund'[g].amount = refund[g].amount
              BY <1>1 DEF Returned
        <3>2. Rows(refund, Returned(q)) /\ Rows(refund', Returned(q))
              BY <3>1, RentRows, StoreRows DEF TypeOK, Rows, Returned
        <3>3. TotalOf(refund', Returned(q)) = TotalOf(refund, Returned(q))
            <4> DEFINE R == Returned(q)
            <4>1. Rows(refund, R) /\ Rows(refund', R) /\ f \notin R
                  BY <3>1, <3>2
            <4>2. \A g \in R \ {f} : refund'[g].amount = refund[g].amount
                  BY <3>1
            <4> HIDE DEF R
            <4>3. /\ TotalOf(refund, R) \in Nat
                  /\ TotalOf(refund', R) = TotalOf(refund, R) - 0 + 0
                  BY <4>1, <4>2, TotalAfter
            <4> QED
                BY <4>3 DEF R
        <3>4. Refunded(q) = TotalOf(refund, Returned(q))
              BY DEF Refunded, Returned
        <3>5. Refunded(q)' = TotalOf(refund', Returned(q)')
              BY DEF Refunded, Returned
        <3>6. Paying(q)' = Paying(q)
              BY <1>1 DEF Paying, PaymentsWith
        <3> QED
            BY <3>1, <3>3, <3>4, <3>5, <3>6
    <2> QED
        BY <1>1, <2>1 DEF RentInv, DueCovered, Paying
<1> QED
    BY <1>3, <1>4, <1>5, <1>6, <1>7 DEF RentInv

LEMMA ReviewRefundKeeps ==
    ASSUME TypeOK, TypeOK', RentInv, NEW f \in Refund,
           NEW decision \in {"VERIFIED", "REJECTED"}, ReviewPaymentRefund(f, decision)
    PROVE  RentInv'
<1>1. /\ refund[f].status = "PENDING_TENANT_CONFIRMATION" /\ payment' = payment
      /\ \A g \in Refund \ {f} : refund'[g] = refund[g]
      /\ refund'[f].status = decision /\ refund'[f].payment = refund[f].payment
      /\ refund'[f].amount = refund[f].amount
      BY DEF ReviewPaymentRefund, TypeOK, RefundType
<1>2. ReportedPayments' = ReportedPayments /\ RecordedRefunds' = RecordedRefunds
      BY <1>1 DEF ReportedPayments, RecordedRefunds
<1>3. FinitelyMany'
      BY <1>2 DEF RentInv, FinitelyMany
<1>4. RowsRefer'
      BY <1>1 DEF RentInv, RowsRefer
<1>5. RefundsOfReceived'
    <2>1. \A g \in RecordedRefunds : refund'[g].payment = refund[g].payment
          BY <1>1 DEF RecordedRefunds
    <2> QED
        BY <1>1, <1>2, <2>1 DEF RentInv, RefundsOfReceived
<1>6. refund[f].amount \in Nat
      BY AmountsAreNat
<1>7. \A S \in SUBSET Refund : \A g \in S \ {f} : refund'[g].amount = refund[g].amount
      BY <1>1
<1>8. ClaimsCovered'
    <2>1. ASSUME NEW q \in Payment
          PROVE  TotalOf(refund', Claims(q)') <= payment[q].amount
        <3>1. Claims(q)' \subseteq Claims(q)
              BY <1>1 DEF Claims
        <3>2. Rows(refund, Claims(q)) /\ Rows(refund, Claims(q)')
              BY <3>1, RentRows, RowsOfPart
        <3>3. Claims(q)' \subseteq Refund /\ Rows(refund', Claims(q)')
              BY <3>2, StoreRows DEF TypeOK, Rows, Claims
        <3>4. TotalOf(refund', Claims(q)') = TotalOf(refund, Claims(q)')
            <4>1. \A g \in Claims(q)' \ {f} : refund'[g].amount = refund[g].amount
                  BY <1>7, <3>3
            <4> QED
                BY <1>1, <1>6, <3>2, <3>3, <4>1, TotalAfter
        <3>5. TotalOf(refund, Claims(q)') <= TotalOf(refund, Claims(q))
              BY <3>1, <3>2, RowsOfPart
        <3>6. TotalOf(refund, Claims(q)) <= payment[q].amount /\ payment[q].amount \in Nat
              BY AmountsAreNat DEF RentInv, ClaimsCovered
        <3>7. TotalOf(refund, Claims(q)) \in Nat /\ TotalOf(refund, Claims(q)') \in Nat
              BY <3>2, TotalIsNat
        <3> QED
            BY <3>4, <3>5, <3>6, <3>7
    <2> QED
        BY <1>1, <2>1 DEF ClaimsCovered
<1>9. DueCovered'
    <2>1. ASSUME NEW q \in Obligation
          PROVE  /\ Paying(q)' = Paying(q)
                 /\ Refunded(q) \in Nat /\ Refunded(q)' \in Nat /\ Refunded(q) <= Refunded(q)'
        <3>1. Returned(q) \subseteq Returned(q)' /\ Returned(q)' \ {f} = Returned(q) \ {f}
              BY <1>1 DEF Returned
        <3>2. Rows(refund, Returned(q)) /\ Rows(refund', Returned(q)')
            <4>1. Returned(q)' \subseteq RecordedRefunds' /\ RecordedRefunds' \subseteq Refund
                  BY DEF Returned, RecordedRefunds
            <4>2. IsFiniteSet(Returned(q)')
                  BY <1>3, <4>1, FS_Subset DEF FinitelyMany
            <4> QED
                BY <4>1, <4>2, RentRows, StoreRows DEF TypeOK
        <3>3. Returned(q) \subseteq Refund
              BY DEF Returned
        <3>4. \A g \in Returned(q) \ {f} : refund'[g].amount = refund[g].amount
              BY <1>7, <3>3
        <3>5. /\ TotalOf(refund, Returned(q)) \in Nat /\ TotalOf(refund', Returned(q)') \in Nat
              /\ TotalOf(refund, Returned(q)) <= TotalOf(refund', Returned(q)')
              BY <1>1, <1>6, <3>1, <3>2, <3>4, TotalAfter
        <3>6. Refunded(q) = TotalOf(refund, Returned(q))
              BY DEF Refunded, Returned
        <3>7. Refunded(q)' = TotalOf(refund', Returned(q)')
              BY DEF Refunded, Returned
        <3>8. Paying(q)' = Paying(q)
              BY <1>1 DEF Paying, PaymentsWith
        <3> QED
            BY <3>5, <3>6, <3>7, <3>8
    <2>2. ASSUME NEW q \in Obligation
          PROVE  TotalOf(payment', Paying(q)') - Refunded(q)' <= AmountDue[q]
        <3>1. TotalOf(payment, Paying(q)) \in Nat /\ AmountDue[q] \in Nat
              BY RentRows, TotalIsNat, LedgerAssumption
        <3>2. TotalOf(payment, Paying(q)) - Refunded(q) <= AmountDue[q]
              BY DEF RentInv, DueCovered, Paying
        <3>3. TotalOf(payment', Paying(q)') = TotalOf(payment, Paying(q))
              BY <1>1, <2>1
        <3> QED
            BY <2>1, <3>1, <3>2, <3>3
    <2> QED
        BY <2>2 DEF DueCovered, Paying
<1> QED
    BY <1>3, <1>4, <1>5, <1>8, <1>9 DEF RentInv

-----------------------------------------------------------------------------
(* What is taken from the deposit.                                           *)

LEMMA DepositRows ==
    ASSUME TypeOK, DepositInv
    PROVE  /\ \A S \in SUBSET MadeEntries : Rows(entry, S)
           /\ Collected \subseteq MadeEntries /\ Spent \subseteq MadeEntries
           /\ TotalOf(entry, Spent) <= TotalOf(entry, Collected)
<1>1. \A S \in SUBSET MadeEntries : IsFiniteSet(S) /\ S \subseteq Entry
      BY FS_Subset DEF DepositInv, MadeEntries
<1>2. Collected \subseteq MadeEntries /\ Spent \subseteq MadeEntries
      BY DEF Collected, Spent, EntriesWith, MadeEntries
<1>3. TotalOf(entry, Spent) <= TotalOf(entry, Collected)
      BY DEF DepositInv, DepositCovered, Collected, Spent
<1> QED
    BY <1>1, <1>2, <1>3, StoreRows DEF TypeOK

\* What a change of one entry does to the two sides
LEMMA OneEntryChanges ==
    ASSUME TypeOK, TypeOK', DepositInv, NEW e \in Entry,
           \A x \in Entry \ {e} : entry'[x] = entry[x], entry'[e].type # "NONE"
    PROVE  /\ IsFiniteSet(MadeEntries')
           /\ TotalOf(entry, Collected) \in Nat /\ TotalOf(entry', Collected') \in Nat
           /\ TotalOf(entry, Spent) \in Nat /\ TotalOf(entry', Spent') \in Nat
           /\ entry[e].amount \in Nat /\ entry'[e].amount \in Nat
           /\ TotalOf(entry', Collected')
                 = TotalOf(entry, Collected) - (IF e \in Collected THEN entry[e].amount ELSE 0)
                                             + (IF e \in Collected' THEN entry'[e].amount ELSE 0)
           /\ TotalOf(entry', Spent')
                 = TotalOf(entry, Spent) - (IF e \in Spent THEN entry[e].amount ELSE 0)
                                         + (IF e \in Spent' THEN entry'[e].amount ELSE 0)
<1>1. IsFiniteSet(MadeEntries')
    <2>1. MadeEntries' = MadeEntries \cup {e}
          BY DEF MadeEntries
    <2> QED
        BY <2>1, FS_AddElement DEF DepositInv
<1>2. Collected' \subseteq MadeEntries' /\ Spent' \subseteq MadeEntries' /\ MadeEntries' \subseteq Entry
      BY DEF Collected, Spent, EntriesWith, MadeEntries
<1>3. Rows(entry', Collected') /\ Rows(entry', Spent')
    <2>1. IsFiniteSet(Collected') /\ IsFiniteSet(Spent')
          BY <1>1, <1>2, FS_Subset
    <2> QED
        BY <1>2, <2>1, StoreRows DEF TypeOK
<1>4. Rows(entry, Collected) /\ Rows(entry, Spent)
      BY DepositRows
<1>5. Collected \ {e} = Collected' \ {e} /\ Spent \ {e} = Spent' \ {e}
      BY DEF Collected, Spent, EntriesWith
<1>6. /\ \A x \in Collected \ {e} : entry'[x].amount = entry[x].amount
      /\ \A x \in Spent \ {e} : entry'[x].amount = entry[x].amount
      BY DEF Collected, Spent, EntriesWith
<1>7. entry[e].amount \in Nat /\ entry'[e].amount \in Nat
      BY RowAmounts DEF TypeOK
<1>8. /\ TotalOf(entry, Collected) \in Nat /\ TotalOf(entry', Collected') \in Nat
      /\ TotalOf(entry', Collected')
            = TotalOf(entry, Collected) - (IF e \in Collected THEN entry[e].amount ELSE 0)
                                        + (IF e \in Collected' THEN entry'[e].amount ELSE 0)
      BY <1>3, <1>4, <1>5, <1>6, TotalAfter
<1>9. /\ TotalOf(entry, Spent) \in Nat /\ TotalOf(entry', Spent') \in Nat
      /\ TotalOf(entry', Spent')
            = TotalOf(entry, Spent) - (IF e \in Spent THEN entry[e].amount ELSE 0)
                                    + (IF e \in Spent' THEN entry'[e].amount ELSE 0)
      BY <1>3, <1>4, <1>5, <1>6, TotalAfter
<1> QED
    BY <1>1, <1>7, <1>8, <1>9

\* What canAdjust leaves is what is collected and not spent: Held less Reserved counts
\* every deduction and refund once.
LEMMA RoomInDeposit ==
    ASSUME TypeOK, DepositInv
    PROVE  /\ TotalOf(entry, Spent) \in Nat /\ TotalOf(entry, Collected) \in Nat
           /\ Held - Reserved = TotalOf(entry, Collected) - TotalOf(entry, Spent)
<1> DEFINE D == EntriesWith("DEDUCTION", {"VERIFIED"})
           R == EntriesWith("REFUND", {"VERIFIED"})
           W == EntriesWith("REFUND", {"PENDING_VERIFICATION"})
                \cup EntriesWith("DEDUCTION", {"PENDING_TENANT_CONFIRMATION", "DISPUTED"})
<1>1. Spent = (D \cup R) \cup W /\ D \cap R = {} /\ (D \cup R) \cap W = {}
      BY DEF Spent, EntriesWith, TypeOK, EntryType
<1>2. Rows(entry, Collected) /\ Rows(entry, Spent)
      BY DepositRows
<1>3. Rows(entry, D) /\ Rows(entry, R) /\ Rows(entry, W)
    <2>1. D \subseteq Spent /\ R \subseteq Spent /\ W \subseteq Spent
          BY <1>1
    <2> QED
        BY <1>2, <2>1, RowsOfPart
<1>4. Held = TotalOf(entry, Collected) - TotalOf(entry, D) - TotalOf(entry, R)
      BY DEF Held, Collected
<1>5. Reserved = TotalOf(entry, W)
      BY DEF Reserved
<1> HIDE DEF D, R, W
<1>6. /\ Rows(entry, D \cup R)
      /\ TotalOf(entry, D \cup R) = TotalOf(entry, D) + TotalOf(entry, R)
      BY <1>1, <1>3, TotalOfParts
<1>7. TotalOf(entry, Spent) = TotalOf(entry, D \cup R) + TotalOf(entry, W)
      BY <1>1, <1>3, <1>6, TotalOfParts
<1>8. /\ TotalOf(entry, Collected) \in Nat /\ TotalOf(entry, Spent) \in Nat
      /\ TotalOf(entry, D) \in Nat /\ TotalOf(entry, R) \in Nat /\ TotalOf(entry, W) \in Nat
      BY <1>2, <1>3, TotalIsNat
<1> QED
    BY <1>4, <1>5, <1>6, <1>7, <1>8

LEMMA AddEntryKeeps ==
    ASSUME TypeOK, TypeOK', DepositInv, NEW e \in Entry, NEW a \in Amount,
           NEW type \in {"COLLECTION", "DEDUCTION", "REFUND"}, NEW st,
           AddEntry(e, type, st, a), type = "COLLECTION" => st # "VERIFIED",
           type # "COLLECTION" => CanAdjust(a)
    PROVE  DepositInv'
<1>1. /\ entry[e].type = "NONE" /\ \A x \in Entry \ {e} : entry'[x] = entry[x]
      /\ entry'[e].type = type /\ entry'[e].amount = a /\ entry'[e].status = st
      BY DEF AddEntry, TypeOK
<1>2. e \notin Collected /\ e \notin Spent
      BY <1>1 DEF Collected, Spent, EntriesWith
<1>3. e \notin Collected' /\ (e \in Spent' => type # "COLLECTION")
      BY <1>1 DEF Collected, Spent, EntriesWith
<1>4. TotalOf(entry, Spent) <= TotalOf(entry, Collected)
      BY DepositRows
<1>5. TotalOf(entry', Spent') <= TotalOf(entry', Collected')
    <2>1. CASE e \in Spent'
        <3>1. a <= Held - Reserved /\ a \in Nat
              BY <1>3, <2>1, LedgerAssumption DEF CanAdjust
        <3>2. a + TotalOf(entry, Spent) <= TotalOf(entry, Collected)
              BY <3>1, RoomInDeposit
        <3> QED
            BY <1>1, <1>2, <1>3, <2>1, <3>1, <3>2, OneEntryChanges
    <2>2. CASE e \notin Spent'
          BY <1>1, <1>2, <1>3, <1>4, <2>2, OneEntryChanges
    <2> QED
        BY <2>1, <2>2
<1>6. IsFiniteSet(MadeEntries')
      BY <1>1, OneEntryChanges
<1> QED
    BY <1>5, <1>6 DEF DepositInv, DepositCovered, Collected, Spent

\* An entry that is decided: a collection is not taken back, and nothing rejected returns.
LEMMA SetEntryKeeps ==
    ASSUME TypeOK, TypeOK', DepositInv, NEW e \in Entry, NEW st, SetEntry(e, st),
           entry[e].status \in {"PENDING_VERIFICATION", "PENDING_TENANT_CONFIRMATION", "DISPUTED"}
    PROVE  DepositInv'
<1>1. /\ \A x \in Entry \ {e} : entry'[x] = entry[x]
      /\ entry'[e].type = entry[e].type /\ entry'[e].amount = entry[e].amount
      /\ entry[e].type # "NONE" /\ entry[e].amount \in Nat
    <2>1. entry[e] \in EntryType
          BY DEF TypeOK
    <2>2. entry[e].type # "NONE"
          BY <2>1 DEF EntryType
    <2>3. entry' = [entry EXCEPT ![e] = [entry[e] EXCEPT !.status = st]]
          BY DEF SetEntry
    <2>4. /\ [entry[e] EXCEPT !.status = st].type = entry[e].type
          /\ [entry[e] EXCEPT !.status = st].amount = entry[e].amount
          BY <2>1 DEF EntryType
    <2> QED
        BY <2>2, <2>3, <2>4, AmountsAreNat DEF TypeOK
<1>2. e \notin Collected /\ (e \in Spent' => e \in Spent)
      BY <1>1 DEF Collected, Spent, EntriesWith
<1>3. TotalOf(entry, Spent) <= TotalOf(entry, Collected)
      BY DepositRows
<1>4. TotalOf(entry', Spent') <= TotalOf(entry', Collected')
      BY <1>1, <1>2, <1>3, OneEntryChanges
<1>5. IsFiniteSet(MadeEntries')
      BY <1>1, OneEntryChanges
<1> QED
    BY <1>4, <1>5 DEF DepositInv, DepositCovered, Collected, Spent

-----------------------------------------------------------------------------
(* Every step.                                                               *)

LEMMA RentUnchanged ==
    ASSUME RentInv, UNCHANGED <<payment, refund>>
    PROVE  RentInv'
<1>1. ReportedPayments' = ReportedPayments /\ RecordedRefunds' = RecordedRefunds
      BY DEF ReportedPayments, RecordedRefunds
<1>2. \A p \in Payment : Claims(p)' = Claims(p)
      BY DEF Claims
<1>3. \A o \in Obligation :
          /\ PaymentsWith(o, {"PENDING_VERIFICATION", "VERIFIED"})'
                = PaymentsWith(o, {"PENDING_VERIFICATION", "VERIFIED"})
          /\ Refunded(o)' = Refunded(o)
      BY DEF PaymentsWith, Refunded
<1> QED
    BY <1>1, <1>2, <1>3 DEF RentInv, FinitelyMany, RowsRefer, RefundsOfReceived,
                            ClaimsCovered, DueCovered

LEMMA DepositUnchanged ==
    ASSUME DepositInv, entry' = entry
    PROVE  DepositInv'
BY DEF DepositInv, DepositCovered, MadeEntries, EntriesWith

\* The rows that the handlers write are of their types.
LEMMA TypeNext == TypeOK /\ [Next]_vars => TypeOK'
<1> SUFFICES ASSUME TypeOK, [Next]_vars PROVE TypeOK'
    OBVIOUS
<1>1. Amount \subseteq AnyAmount
      BY DEF AnyAmount
<1>2. ASSUME NEW p \in Payment, NEW o \in Obligation, NEW a \in Amount, RequestPayment(p, o, a)
      PROVE  TypeOK'
      BY <1>1, <1>2 DEF RequestPayment, TypeOK, PaymentType
<1>3. ASSUME NEW p \in Payment, NEW decision \in {"VERIFIED", "REJECTED"},
             ReviewPayment(p, decision)
      PROVE  TypeOK'
      BY <1>3 DEF ReviewPayment, TypeOK, PaymentType
<1>4. ASSUME NEW f \in Refund, NEW p \in Payment, NEW a \in Amount, RecordPaymentRefund(f, p, a)
      PROVE  TypeOK'
      BY <1>1, <1>4 DEF RecordPaymentRefund, TypeOK, RefundType
<1>5. ASSUME NEW f \in Refund, NEW decision \in {"VERIFIED", "REJECTED"},
             ReviewPaymentRefund(f, decision)
      PROVE  TypeOK'
      BY <1>5 DEF ReviewPaymentRefund, TypeOK, RefundType
<1>6. ASSUME NEW e \in Entry, NEW row \in EntryType, entry' = [entry EXCEPT ![e] = row],
             UNCHANGED <<payment, refund, amendment, active, today>>
      PROVE  TypeOK'
      BY <1>6 DEF TypeOK
<1>7. ASSUME NEW e \in Entry, NEW a \in Amount,
             SubmitDepositEvidence(e, a) \/ RecordDeduction(e, a) \/ RecordRefund(e, a)
      PROVE  TypeOK'
    <2>1. /\ [type |-> "COLLECTION", status |-> "PENDING_VERIFICATION", amount |-> a] \in EntryType
          /\ [type |-> "DEDUCTION", status |-> "PENDING_TENANT_CONFIRMATION", amount |-> a]
                \in EntryType
          /\ [type |-> "REFUND", status |-> "PENDING_VERIFICATION", amount |-> a] \in EntryType
          BY DEF EntryType
    <2> QED
        BY <1>6, <1>7, <2>1 DEF SubmitDepositEvidence, RecordDeduction, RecordRefund, AddEntry
<1>8. ASSUME NEW e \in Entry, NEW st, SetEntry(e, st), [entry[e] EXCEPT !.status = st] \in EntryType
      PROVE  TypeOK'
      BY <1>6, <1>8 DEF SetEntry
<1>9. ASSUME NEW e \in Entry, NEW decision \in {"VERIFIED", "REJECTED"},
             ReviewDeposit(e, decision) \/ ResolveDepositDispute(e, decision)
      PROVE  TypeOK'
    <2>1. entry[e] \in EntryType
          BY DEF TypeOK
    <2>2. [entry[e] EXCEPT !.status = decision] \in EntryType
          BY <1>9, <2>1 DEF ReviewDeposit, ResolveDepositDispute, EntryType
    <2> QED
        BY <1>8, <1>9, <2>2 DEF ReviewDeposit, ResolveDepositDispute
<1>10. ASSUME NEW e \in Entry, NEW decision \in {"ACCEPTED", "DISPUTED"},
              DecideDepositDeduction(e, decision)
       PROVE  TypeOK'
    <2>1. entry[e] \in EntryType
          BY DEF TypeOK
    <2>2. [entry[e] EXCEPT !.status = DecidedStatus(decision)] \in EntryType
          BY <1>10, <2>1 DEF DecideDepositDeduction, DecidedStatus, EntryType
    <2> QED
        BY <1>8, <1>10, <2>2 DEF DecideDepositDeduction
<1>11. ASSUME NEW m \in Amendment, NEW month \in Month, NEW deposit \in AnyAmount,
              ProposeAmendment(m, month, deposit)
       PROVE  TypeOK'
       BY <1>11 DEF ProposeAmendment, TypeOK, AmendmentType
<1>12. ASSUME NEW m \in Amendment, NEW st \in {"ACCEPTED", "REJECTED", "WITHDRAWN"},
              SetAmendment(m, st)
       PROVE  TypeOK'
       BY <1>12 DEF SetAmendment, TypeOK, AmendmentType
<1>13. CASE EndLease
       BY <1>13 DEF EndLease, TypeOK
<1>14. CASE Tick
       BY <1>14, LedgerAssumption DEF Tick, TypeOK
<1>15. CASE UNCHANGED vars
       BY <1>15 DEF vars, TypeOK
<1> QED
    BY <1>2, <1>3, <1>4, <1>5, <1>7, <1>9, <1>10, <1>11, <1>12, <1>13, <1>14, <1>15
       DEF Next, DecideAmendment, WithdrawAmendment

LEMMA NextIInv == IInv /\ [Next]_vars => IInv'
<1> SUFFICES ASSUME IInv, [Next]_vars PROVE IInv'
    OBVIOUS
<1> USE DEF IInv
<1>1. TypeOK'
      BY TypeNext
<1>2. ASSUME NEW p \in Payment, NEW o \in Obligation, NEW a \in Amount, RequestPayment(p, o, a)
      PROVE  IInv'
      BY <1>1, <1>2, RequestKeeps, DepositUnchanged DEF RequestPayment
<1>3. ASSUME NEW p \in Payment, NEW decision \in {"VERIFIED", "REJECTED"},
             ReviewPayment(p, decision)
      PROVE  IInv'
      BY <1>1, <1>3, ReviewKeeps, DepositUnchanged DEF ReviewPayment
<1>4. ASSUME NEW f \in Refund, NEW p \in Payment, NEW a \in Amount, RecordPaymentRefund(f, p, a)
      PROVE  IInv'
      BY <1>1, <1>4, RecordKeeps, DepositUnchanged DEF RecordPaymentRefund
<1>5. ASSUME NEW f \in Refund, NEW decision \in {"VERIFIED", "REJECTED"},
             ReviewPaymentRefund(f, decision)
      PROVE  IInv'
      BY <1>1, <1>5, ReviewRefundKeeps, DepositUnchanged DEF ReviewPaymentRefund
<1>6. ASSUME NEW e \in Entry, NEW a \in Amount, SubmitDepositEvidence(e, a)
      PROVE  IInv'
    <2>1. AddEntry(e, "COLLECTION", "PENDING_VERIFICATION", a)
          BY <1>6 DEF SubmitDepositEvidence
    <2>2. DepositInv'
          BY <1>1, <2>1, AddEntryKeeps
    <2> QED
        BY <1>1, <2>1, <2>2, RentUnchanged DEF AddEntry
<1>7. ASSUME NEW e \in Entry, NEW a \in Amount, RecordDeduction(e, a)
      PROVE  IInv'
    <2>1. AddEntry(e, "DEDUCTION", "PENDING_TENANT_CONFIRMATION", a) /\ CanAdjust(a)
          BY <1>7 DEF RecordDeduction
    <2> QED
        BY <1>1, <2>1, AddEntryKeeps, RentUnchanged DEF AddEntry
<1>8. ASSUME NEW e \in Entry, NEW a \in Amount, RecordRefund(e, a)
      PROVE  IInv'
    <2>1. AddEntry(e, "REFUND", "PENDING_VERIFICATION", a) /\ CanAdjust(a)
          BY <1>8 DEF RecordRefund
    <2> QED
        BY <1>1, <2>1, AddEntryKeeps, RentUnchanged DEF AddEntry
<1>9. ASSUME NEW e \in Entry, NEW decision \in {"VERIFIED", "REJECTED"},
             ReviewDeposit(e, decision) \/ ResolveDepositDispute(e, decision)
      PROVE  IInv'
      BY <1>1, <1>9, SetEntryKeeps, RentUnchanged DEF ReviewDeposit, ResolveDepositDispute, SetEntry
<1>10. ASSUME NEW e \in Entry, NEW decision \in {"ACCEPTED", "DISPUTED"},
              DecideDepositDeduction(e, decision)
       PROVE  IInv'
       BY <1>1, <1>10, SetEntryKeeps, RentUnchanged DEF DecideDepositDeduction, SetEntry
<1>11. ASSUME UNCHANGED <<payment, refund, entry>>
       PROVE  IInv'
       BY <1>1, <1>11, RentUnchanged, DepositUnchanged
<1>12. ASSUME NEW m \in Amendment, NEW month \in Month, NEW deposit \in AnyAmount,
              ProposeAmendment(m, month, deposit)
       PROVE  IInv'
       BY <1>11, <1>12 DEF ProposeAmendment
<1>13. ASSUME NEW m \in Amendment, NEW st, SetAmendment(m, st)
       PROVE  IInv'
       BY <1>11, <1>13 DEF SetAmendment
<1>14. EndLease \/ Tick \/ UNCHANGED vars => IInv'
       BY <1>11 DEF EndLease, Tick, vars
<1> QED
    BY <1>2, <1>3, <1>4, <1>5, <1>6, <1>7, <1>8, <1>9, <1>10, <1>12, <1>13, <1>14
       DEF Next, DecideAmendment, WithdrawAmendment

LEMMA SpecIInv == Spec => []IInv
BY InitIInv, NextIInv, PTL DEF Spec

-----------------------------------------------------------------------------
(* What follows.                                                             *)

\* The received payments of an obligation and what of them was confirmed back
Received(o) == {p \in Payment : payment[p].obligation = o /\ payment[p].status = "VERIFIED"}

\* Refunds are of received payments, so what was returned is in what was received.
LEMMA ReturnedWithinReceived ==
    ASSUME IInv, NEW o \in Obligation
    PROVE  /\ Rows(payment, Received(o))
           /\ Returned(o) = {f \in Refund : /\ refund[f].payment \in Received(o)
                                            /\ refund[f].status = "VERIFIED"}
           /\ TotalOf(refund, Returned(o)) <= TotalOf(payment, Received(o))
<1>1. /\ Rows(payment, Received(o)) /\ Rows(refund, Returned(o))
      /\ \A p \in Payment : Rows(refund, Claims(p))
      /\ \A f \in RecordedRefunds : refund[f].payment \in Payment
    <2>1. Received(o) \subseteq ReportedPayments
          BY DEF Received, ReportedPayments
    <2> QED
        BY <2>1, RentRows DEF IInv
<1>2. \A f \in Returned(o) : f \in RecordedRefunds /\ refund[f].payment \in Received(o)
      BY <1>1 DEF IInv, RentInv, RefundsOfReceived, Returned, Received, RecordedRefunds
<1>3. Returned(o) = {f \in Refund : /\ refund[f].payment \in Received(o)
                                    /\ refund[f].status = "VERIFIED"}
      BY <1>2 DEF Returned, Received
<1>4. TotalOf(refund, Returned(o)) <= TotalOf(payment, Received(o))
    <2> DEFINE of == [f \in Returned(o) |-> refund[f].payment]
    <2>1. ASSUME NEW p \in Received(o)
          PROVE  SumFunctionOnSet(Cents(refund), {f \in Returned(o) : of[f] = p})
                    <= Cents(payment)[p]
        <3> DEFINE T == {f \in Returned(o) : of[f] = p}
        <3>1. p \in Payment
              BY DEF Received
        <3>2. T \subseteq Claims(p)
              BY DEF Returned, Claims
        <3>3. /\ Rows(refund, T) /\ TotalOf(refund, T) <= TotalOf(refund, Claims(p))
              /\ TotalOf(refund, T) \in Nat /\ TotalOf(refund, Claims(p)) \in Nat
              BY <1>1, <3>1, <3>2, RowsOfPart, TotalIsNat
        <3>4. TotalOf(refund, Claims(p)) <= payment[p].amount /\ payment[p].amount \in Nat
              BY <3>1, AmountsAreNat DEF IInv, RentInv, ClaimsCovered
        <3>5. Cents(payment)[p] = payment[p].amount
              BY <1>1 DEF Rows, Cents
        <3>6. TotalOf(refund, T) = SumFunctionOnSet(Cents(refund), T)
              BY <3>3, RowsCount
        <3> HIDE DEF T
        <3>7. SumFunctionOnSet(Cents(refund), T) <= Cents(payment)[p]
              BY <3>3, <3>4, <3>5, <3>6
        <3> QED
            BY <3>7 DEF T
    <2>2. \A f \in Returned(o) : of[f] \in Received(o)
          BY <1>2
    <2> HIDE DEF of
    <2>3. SumFunctionOnSet(Cents(refund), Returned(o)) <= SumFunctionOnSet(Cents(payment), Received(o))
          BY <1>1, <2>1, <2>2, RowsCount, SumOfGroups DEF Rows
    <2> QED
        BY <1>1, <2>3, RowsCount
<1> QED
    BY <1>1, <1>3, <1>4

LEMMA IInvNeverOverpaid == IInv => NeverOverpaid
<1> SUFFICES ASSUME IInv PROVE NeverOverpaid
    OBVIOUS
<1>1. ASSUME NEW o \in Obligation
      PROVE  /\ TotalOf(payment, Received(o)) \in Nat /\ Refunded(o) \in Nat
             /\ Refunded(o) <= TotalOf(payment, Received(o))
             /\ Refunded(o) = TotalOf(refund, Returned(o))
      BY RentRows, ReturnedWithinReceived, TotalIsNat DEF IInv, Refunded, Returned
<1>2. ASSUME NEW o \in Obligation
      PROVE  /\ TotalOf(payment, Paying(o)) \in Nat /\ AmountDue[o] \in Nat
             /\ TotalOf(payment, Paying(o)) - Refunded(o) <= AmountDue[o]
             /\ Received(o) \subseteq Paying(o)
             /\ TotalOf(payment, Received(o)) <= TotalOf(payment, Paying(o))
    <2>1. Rows(payment, Paying(o)) /\ AmountDue[o] \in Nat
          BY RentRows, LedgerAssumption DEF IInv
    <2>2. Received(o) \subseteq Paying(o)
          BY DEF Received, Paying, PaymentsWith
    <2> QED
        BY <2>1, <2>2, RowsOfPart, TotalIsNat DEF IInv, RentInv, DueCovered, Paying
<1>3. ASSUME NEW o \in Obligation
      PROVE  TotalOf(payment, Received(o))
                - TotalOf(refund, {f \in Refund : /\ refund[f].payment \in Received(o)
                                                  /\ refund[f].status = "VERIFIED"})
                    \in 0..AmountDue[o]
    <2>1. TotalOf(payment, Received(o)) - TotalOf(refund, Returned(o)) \in 0..AmountDue[o]
          BY <1>1, <1>2
    <2> QED
        BY <2>1, ReturnedWithinReceived
<1>4. ASSUME NEW p \in Payment, payment[p].status = "PENDING_VERIFICATION"
      PROVE  FitsVerified(p)
    <2> DEFINE o == payment[p].obligation
               W == PaymentsWith(o, {"PENDING_VERIFICATION"})
               V == PaymentsWith(o, {"VERIFIED"})
    <2>1. o \in Obligation
          BY <1>4, RentRows DEF IInv, ReportedPayments
    <2>2. Paying(o) = V \cup W /\ V \cap W = {} /\ V = Received(o) /\ p \in W
          BY <1>4 DEF Paying, PaymentsWith, Received
    <2>3. Rows(payment, V) /\ Rows(payment, W)
        <3>1. V \subseteq Paying(o) /\ W \subseteq Paying(o) /\ Rows(payment, Paying(o))
              BY <2>1, <2>2, RentRows DEF IInv
        <3> QED
            BY <3>1, RowsOfPart
    <2> HIDE DEF V, W
    <2>4. TotalOf(payment, Paying(o)) = TotalOf(payment, V) + TotalOf(payment, W)
          BY <2>2, <2>3, TotalOfParts
    <2>5. /\ TotalOf(payment, W) = payment[p].amount + TotalOf(payment, W \ {p})
          /\ TotalOf(payment, W) \in Nat /\ TotalOf(payment, W \ {p}) \in Nat
          /\ TotalOf(payment, V) \in Nat /\ payment[p].amount \in Nat
          BY <2>2, <2>3, TotalWithout, TotalIsNat, AmountsAreNat DEF IInv
    <2>6. NetPaidTotal(o) = TotalOf(payment, V) - Refunded(o)
        <3>1. TotalOf(payment, V) - Refunded(o) \in Nat
              BY <1>1, <2>1, <2>2, <2>5
        <3>2. NetPaidTotal(o) = Max({0, TotalOf(payment, V) - Refunded(o)})
              BY DEF NetPaidTotal, V
        <3>3. ASSUME NEW d \in Nat PROVE Max({0, d}) = d
              BY MaxWithZero
        <3> QED
            BY <3>1, <3>2, <3>3
    <2>7. payment[p].amount <= AmountDue[o] - NetPaidTotal(o) - TotalOf(payment, W \ {p})
          BY <1>1, <1>2, <2>1, <2>4, <2>5, <2>6
    <2> QED
        BY <2>7 DEF FitsVerified, W
<1>5. PendingCanBeVerified
      BY <1>4 DEF PendingCanBeVerified
<1> QED
    BY <1>3, <1>5 DEF NeverOverpaid, Received

-----------------------------------------------------------------------------
(* The pages of LedgerPages: what they show of these stores.                 *)

\* What is paid of an obligation, without the cut at zero, and what may still come
LEMMA PaidOf ==
    ASSUME IInv, NEW o \in Obligation
    PROVE  /\ AmountPaid(o) \in 0..AmountDue[o]
           /\ AmountDue[o] \in Nat
           /\ CommittedPaymentTotal(o) \in Int
           /\ AmountPaid(o) <= CommittedPaymentTotal(o)
<1> DEFINE R == TotalOf(payment, Received(o))
           P == TotalOf(payment, Paying(o))
<1>1. AmountDue[o] \in Nat
      BY LedgerAssumption
<1>2. /\ R \in Nat /\ P \in Nat /\ R <= P
      /\ Refunded(o) \in Nat /\ Refunded(o) <= R /\ R - Refunded(o) <= AmountDue[o]
    <2>1. Rows(payment, Paying(o)) /\ Rows(payment, Received(o)) /\ Rows(refund, Returned(o))
          BY RentRows, ReturnedWithinReceived DEF IInv
    <2>2. Received(o) \subseteq Paying(o) /\ Refunded(o) = TotalOf(refund, Returned(o))
          BY DEF Received, Paying, PaymentsWith, Refunded, Returned
    <2>3. TotalOf(refund, Returned(o)) <= TotalOf(payment, Received(o))
          BY ReturnedWithinReceived
    <2>4. TotalOf(payment, Paying(o)) - Refunded(o) <= AmountDue[o]
          BY DEF IInv, RentInv, DueCovered, Paying
    <2>5. R \in Nat /\ P \in Nat /\ R <= P /\ Refunded(o) \in Nat
          BY <2>1, <2>2, RowsOfPart, TotalIsNat
    <2> QED
        BY <1>1, <2>2, <2>3, <2>4, <2>5
<1>3. /\ AmountPaid(o) = Max({0, R - Refunded(o)})
      /\ CommittedPaymentTotal(o) = Max({0, P - Refunded(o)})
    <2>1. PaymentsWith(o, {"VERIFIED"}) = Received(o)
          BY DEF PaymentsWith, Received
    <2> QED
        BY <2>1 DEF AmountPaid, NetPaidTotal, CommittedPaymentTotal, Paying
<1> HIDE DEF R, P
<1>4. /\ Max({0, R - Refunded(o)}) = R - Refunded(o)
      /\ Max({0, P - Refunded(o)}) \in Int /\ Max({0, P - Refunded(o)}) >= P - Refunded(o)
    <2>1. R - Refunded(o) \in Nat /\ P - Refunded(o) \in Int
          BY <1>2
    <2>2. ASSUME NEW d \in Nat PROVE Max({0, d}) = d
          BY MaxWithZero
    <2> QED
        BY <2>1, <2>2, MaxWithZero
<1> QED
    BY <1>1, <1>2, <1>3, <1>4

LEMMA IInvFigures == IInv => RentAddsUp /\ DepositAddsUp
<1> SUFFICES ASSUME IInv PROVE RentAddsUp /\ DepositAddsUp
    OBVIOUS
<1>1. ASSUME NEW o \in Obligation
      PROVE  AmountPaid(o) + Outstanding(o) = AmountDue[o]
    <2>1. AmountDue[o] - AmountPaid(o) \in Nat
          BY PaidOf
    <2>2. ASSUME NEW d \in Nat PROVE Max({0, d}) = d
          BY MaxWithZero
    <2>3. Outstanding(o) = AmountDue[o] - AmountPaid(o)
          BY <2>1, <2>2 DEF Outstanding
    <2> QED
        BY <2>3, PaidOf
<1>2. DepositSummary.collected =
          DepositSummary.deductions + DepositSummary.refunded + DepositSummary.held
    <2> DEFINE D == EntriesWith("DEDUCTION", {"VERIFIED"})
               R == EntriesWith("REFUND", {"VERIFIED"})
               c == TotalOf(entry, Collected)
               d == TotalOf(entry, D)
               r == TotalOf(entry, R)
    <2>1. D \cup R \subseteq Spent /\ D \cap R = {} /\ D \subseteq Spent /\ R \subseteq Spent
          BY DEF Spent, EntriesWith
    <2>2. Rows(entry, Collected) /\ Rows(entry, Spent) /\ TotalOf(entry, Spent) <= c
          BY DepositRows DEF IInv
    <2>3. Rows(entry, D) /\ Rows(entry, R) /\ TotalOf(entry, D \cup R) <= TotalOf(entry, Spent)
          BY <2>1, <2>2, RowsOfPart
    <2>4. TotalOf(entry, D \cup R) = d + r
          BY <2>1, <2>3, TotalOfParts
    <2>5. c \in Nat /\ d \in Nat /\ r \in Nat /\ TotalOf(entry, Spent) \in Nat
          BY <2>2, <2>3, TotalIsNat
    <2>6. /\ DepositSummary.collected = c /\ DepositSummary.deductions = d
          /\ DepositSummary.refunded = r /\ DepositSummary.held = Max({0, c - d - r})
          BY DEF DepositSummary, Collected
    <2> HIDE DEF c, d, r
    <2>7. c - d - r \in Nat
          BY <2>2, <2>3, <2>4, <2>5 DEF c
    <2>8. ASSUME NEW n \in Nat PROVE Max({0, n}) = n
          BY MaxWithZero
    <2>9. DepositSummary.held = c - d - r
          BY <2>6, <2>7, <2>8
    <2> QED
        BY <2>5, <2>6, <2>9
<1> QED
    BY <1>1, <1>2, IInvNeverOverpaid DEF RentAddsUp, DepositAddsUp, IInv, DepositInv

\* Whatever amount requestPayment would take of an obligation, its form is shown; and
\* whatever entry of the deposit is undecided is shown with one of its decisions.
FormsShown ==
    /\ \A o \in Obligation, a \in Amount : FitsOutstanding(o, a) => EvidenceFormShown(o)
    /\ \A e \in Entry : entry[e].status \notin {"NONE", "VERIFIED", "REJECTED"} =>
          \/ /\ entry[e].status = "PENDING_VERIFICATION"
             /\ entry[e].type \in {"COLLECTION", "REFUND"}
          \/ ResolutionShown(e)
          \/ /\ entry[e].status = "PENDING_TENANT_CONFIRMATION"
             /\ entry[e].type = "DEDUCTION"

LEMMA IInvForms == IInv => FormsShown
<1> SUFFICES ASSUME IInv PROVE FormsShown
    OBVIOUS
<1>1. ASSUME NEW o \in Obligation, NEW a \in Amount, FitsOutstanding(o, a)
      PROVE  EvidenceFormShown(o)
    <2>1. a \in Nat \ {0} /\ a <= AmountDue[o] - CommittedPaymentTotal(o)
          BY <1>1, LedgerAssumption DEF FitsOutstanding
    <2> QED
        BY <2>1, PaidOf DEF EvidenceFormShown
<1>2. ASSUME NEW e \in Entry, entry[e].status \notin {"NONE", "VERIFIED", "REJECTED"}
      PROVE  \/ /\ entry[e].status = "PENDING_VERIFICATION"
                /\ entry[e].type \in {"COLLECTION", "REFUND"}
             \/ ResolutionShown(e)
             \/ /\ entry[e].status = "PENDING_TENANT_CONFIRMATION"
                /\ entry[e].type = "DEDUCTION"
      BY <1>2 DEF IInv, TypeOK, EntryType, ResolutionShown
<1> QED
    BY <1>1, <1>2 DEF FormsShown

-----------------------------------------------------------------------------
(* The theorems.                                                             *)

\* Every store holds rows of its type, whatever is reported and decided.
THEOREM TypeCorrect == Spec => []TypeOK
<1>1. IInv => TypeOK
      BY DEF IInv
<1> QED
    BY <1>1, SpecIInv, PTL

\* No obligation receives more than it asks for, and no more is confirmed back than it
\* received, through any number of reports, reviews and refunds; what passed the check
\* at the report passes the one at verification (requestPayment, verifyPayment,
\* recordPaymentRefund and reviewPaymentRefund).
THEOREM RentNeverOverpaid == Spec => []NeverOverpaid
BY SpecIInv, IInvNeverOverpaid, PTL

\* Whatever is deducted from the deposit, refunded, disputed or still waiting is in the
\* collections the manager verified (recordDepositAdjustment and the three reviews).
THEOREM DepositStaysCovered == Spec => []DepositCovered
<1>1. IInv => DepositCovered
      BY DEF IInv, DepositInv
<1> QED
    BY <1>1, SpecIInv, PTL

\* What the tenant and the manager read of an obligation adds up to what is due, however
\* often it was paid and given back (AmountPaid and Outstanding of RentalsPage.jsx).
THEOREM RentFiguresAgree == Spec => []RentAddsUp
BY SpecIInv, IInvFigures, PTL

\* What they read of the deposit adds up, whatever was collected, deducted, disputed and
\* refunded (depositSummary).
THEOREM DepositFiguresAgree == Spec => []DepositAddsUp
BY SpecIInv, IInvFigures, PTL

\* What may still be paid or has to be decided has its form (the forms of both pages).
THEOREM FormsAreShown == Spec => []FormsShown
BY SpecIInv, IInvForms, PTL

================================================================================
