-------------------------- MODULE RentSchedule_proofs --------------------------
(****************************************************************************)
(* Proofs about RentSchedule, for any lease, any amendments and any clock:  *)
(* the order in which rentForPeriod applies the amendments is settled, what *)
(* it computes segment by segment is the rent agreed month by month, and    *)
(* every bill is made of it.                                                *)
(****************************************************************************)
EXTENDS RentSchedule, Sums

-----------------------------------------------------------------------------
(* Numbers. *)

\* What holds of the first number and with each number of the next holds of all.
LEMMA CountUp ==
    ASSUME NEW first \in Int, NEW last \in Int, NEW Good,
           first <= last => first \in Good,
           \A k \in first..(last - 1) : k \in Good => k + 1 \in Good
    PROVE  first..last \subseteq Good
<1> SUFFICES ASSUME NEW k \in first..last, k \notin Good PROVE FALSE
    OBVIOUS
<1> DEFINE Bad == {n \in Nat : first + n \in first..last /\ first + n \notin Good}
<1>1. Bad \subseteq Nat /\ k - first \in Bad
      OBVIOUS
<1> HIDE DEF Bad
<1>2. PICK n \in Bad : \A i \in Bad : n <= i
      BY <1>1, LeastNumber
<1> USE DEF Bad
<1>3. n # 0
      BY <1>2
<1>4. first + (n - 1) \in Good
  <2>1. n - 1 \in Nat /\ n - 1 \notin Bad
        BY <1>2, <1>3
  <2> QED
      BY <1>2, <2>1
<1>5. first + n \in Good
      BY <1>2, <1>3, <1>4
<1> QED
    BY <1>2, <1>5

LEMMA DaysAndMonths ==
    ASSUME NEW d \in Nat \ {0}
    PROVE  /\ \A a, b \in Nat : a * d < b * d => a < b
           /\ \A a \in Nat : a \div d \in Nat /\ (a \div d) * d <= a
<1>1. ASSUME NEW a \in Nat, NEW b \in Nat, b <= a PROVE b * d <= a * d
  <2>1. PICK c \in Nat : a = b + c
        BY <1>1
  <2>2. a * d = b * d + c * d /\ c * d \in Nat /\ b * d \in Nat
        BY <2>1
  <2> QED
      BY <2>2
<1>2. \A a, b \in Nat : a * d \in Nat /\ b * d \in Nat
      OBVIOUS
<1>3. \A a \in Nat : a \div d \in Nat /\ (a \div d) * d <= a
      OBVIOUS
<1> QED
    BY <1>1, <1>2, <1>3

-----------------------------------------------------------------------------
(* Increases. *)

Run(g, rent, e, n) == g = [i \in 0..n |-> IF i = 0 THEN rent ELSE Raise(g[i - 1], e)]

LEMMA RunExists ==
    ASSUME NEW rent, NEW e, NEW n \in Nat
    PROVE  \E g : Run(g, rent, e, n)
<1> DEFINE Good == {k \in Nat : \E g : Run(g, rent, e, k)}
<1>1. 0 \in Good
  <2>1. Run([i \in 0..0 |-> rent], rent, e, 0)
        BY DEF Run
  <2> QED
      BY <2>1
<1>2. ASSUME NEW k \in 0..(n - 1), k \in Good PROVE k + 1 \in Good
  <2>1. PICK g : Run(g, rent, e, k)
        BY <1>2
  <2> DEFINE h == [i \in 0..(k + 1) |-> IF i = k + 1 THEN Raise(g[k], e) ELSE g[i]]
  <2>2. \A i \in 0..k : g[i] = IF i = 0 THEN rent ELSE Raise(g[i - 1], e)
        BY <2>1 DEF Run
  <2>3. \A i \in 0..(k + 1) : h[i] = IF i = 0 THEN rent ELSE Raise(h[i - 1], e)
        BY <2>2
  <2>4. Run(h, rent, e, k + 1)
        BY <2>3 DEF Run
  <2> QED
      BY <2>4
<1> HIDE DEF Good
<1>3. 0..n \subseteq Good
      BY <1>1, <1>2, CountUp
<1> QED
    BY <1>3 DEF Good

LEMMA RunsAgree ==
    ASSUME NEW rent, NEW e, NEW n \in Nat, NEW k \in 0..n, NEW g, NEW h,
           Run(g, rent, e, n), Run(h, rent, e, k)
    PROVE  \A i \in 0..k : g[i] = h[i]
<1> DEFINE Good == {i \in 0..k : g[i] = h[i]}
<1>1. /\ \A i \in 0..k : g[i] = IF i = 0 THEN rent ELSE Raise(g[i - 1], e)
      /\ \A i \in 0..k : h[i] = IF i = 0 THEN rent ELSE Raise(h[i - 1], e)
      BY DEF Run
<1>2. 0 \in Good
      BY <1>1
<1>3. ASSUME NEW i \in 0..(k - 1), i \in Good PROVE i + 1 \in Good
      BY <1>1, <1>3
<1> HIDE DEF Good
<1>4. 0..k \subseteq Good
      BY <1>2, <1>3, CountUp
<1> QED
    BY <1>4 DEF Good

\* RaisedTimes raises the rent once more for each increase.
LEMMA RaisedTimesStep ==
    ASSUME NEW rent, NEW e, NEW n \in Nat
    PROVE  /\ RaisedTimes(rent, e, 0) = rent
           /\ RaisedTimes(rent, e, n + 1) = Raise(RaisedTimes(rent, e, n), e)
<1> DEFINE run(j) == CHOOSE g : Run(g, rent, e, j)
<1>1. ASSUME NEW k \in Nat PROVE Run(run(k), rent, e, k) /\ RaisedTimes(rent, e, k) = run(k)[k]
  <2>1. Run(run(k), rent, e, k)
        BY RunExists
  <2>2. RaisedTimes(rent, e, k) = run(k)[k]
        BY DEF RaisedTimes, Run
  <2> QED
      BY <2>1, <2>2
<1> HIDE DEF run
<1>2. \A k \in Nat : \A i \in 0..k : run(k)[i] = IF i = 0 THEN rent ELSE Raise(run(k)[i - 1], e)
      BY <1>1 DEF Run
<1>3. run(n + 1)[n] = run(n)[n]
  <2>1. n + 1 \in Nat /\ n \in 0..(n + 1) /\ n \in 0..n
        OBVIOUS
  <2>2. Run(run(n + 1), rent, e, n + 1) /\ Run(run(n), rent, e, n)
        BY <1>1, <2>1
  <2>3. \A i \in 0..n : run(n + 1)[i] = run(n)[i]
        BY <2>1, <2>2, RunsAgree
  <2> QED
      BY <2>1, <2>3
<1> QED
    BY <1>1, <1>2, <1>3

\* What a lease may have for its escalation
EscalationTerms == Escalation \cup {BaseEscalation, NoEscalation}
RealEscalation == EscalationTerms \ {NoEscalation}

LEMMA EscalationType ==
    ASSUME NEW e \in RealEscalation
    PROVE  /\ e.method \in {"PERCENTAGE", "FIXED"} /\ e.value \in Nat /\ e.month \in Nat
           /\ e.interval \in Nat \ {0} /\ e.increases \in Nat \ {0}
BY ScheduleAssumption DEF RealEscalation, EscalationTerms

LEMMA MonthsAreNumbers ==
    /\ MonthOf(LeaseEnd) \in Nat /\ MonthOf(LeaseStart) \in Nat
    /\ Month \subseteq Nat /\ IsFiniteSet(Month)
<1>1. MonthOf(LeaseEnd) \in Nat /\ MonthOf(LeaseStart) \in Nat
      BY ScheduleAssumption, DaysAndMonths DEF MonthOf
<1>2. IsFiniteSet(0..MonthOf(LeaseEnd))
      BY <1>1, FS_Interval
<1> QED
    BY <1>1, <1>2 DEF Month

\* An escalation raises no rent before the month its terms name.
LEMMA IncreasesBegin ==
    ASSUME NEW e \in RealEscalation, NEW m \in IncreaseMonths(e)
    PROVE  e.month <= m
<1>1. PICK k \in 0..(e.increases - 1) : m = e.month + k * e.interval
      BY DEF IncreaseMonths, RealEscalation
<1>2. k \in Nat /\ e.interval \in Nat /\ e.month \in Nat
      BY EscalationType
<1>3. k * e.interval \in Nat
      BY <1>2
<1> QED
    BY <1>1, <1>2, <1>3

\* The lease's own escalation begins after the month in which the lease does.
LEMMA BaseIncreasesBegin ==
    ASSUME NEW m \in IncreaseMonths(BaseEscalation)
    PROVE  MonthOf(LeaseStart) < m
<1>1. BaseEscalation \in RealEscalation
      BY DEF IncreaseMonths, RealEscalation, EscalationTerms
<1>2. BaseEscalation.month \in Nat /\ m \in Nat
      BY <1>1, EscalationType, MonthsAreNumbers DEF IncreaseMonths
<1>3. LeaseStart < BaseEscalation.month * MonthDays
      BY <1>1, ScheduleAssumption DEF ValidEscalation, RealEscalation, FirstDay
<1>4. MonthOf(LeaseStart) * MonthDays <= LeaseStart
      BY ScheduleAssumption, DaysAndMonths DEF MonthOf
<1>5. /\ MonthOf(LeaseStart) * MonthDays \in Int
      /\ BaseEscalation.month * MonthDays \in Int
      BY <1>2, MonthsAreNumbers, ScheduleAssumption
<1>6. MonthOf(LeaseStart) * MonthDays < BaseEscalation.month * MonthDays
      BY <1>3, <1>4, <1>5, ScheduleAssumption
<1>7. MonthOf(LeaseStart) < BaseEscalation.month
      BY <1>2, <1>6, DaysAndMonths, MonthsAreNumbers, ScheduleAssumption
<1> QED
    BY <1>1, <1>2, <1>7, IncreasesBegin, MonthsAreNumbers

LEMMA RaiseType ==
    ASSUME NEW rent \in 0..TooHigh, NEW e \in RealEscalation
    PROVE  Raise(rent, e) \in 0..TooHigh /\ Raise(TooHigh, e) = TooHigh
<1> DEFINE raised == IF e.method = "PERCENTAGE" THEN (rent * (100 + e.value) + 50) \div 100
                     ELSE rent + e.value
<1>1. rent \in Nat /\ e.value \in Nat /\ MaxRent \in Nat
      BY EscalationType, ScheduleAssumption DEF TooHigh
<1>2. raised \in Nat
  <2>1. rent * (100 + e.value) \in Nat
        BY <1>1
  <2> DEFINE p == rent * (100 + e.value)
  <2> HIDE DEF p
  <2>2. p \in Nat => (p + 50) \div 100 \in Nat
        OBVIOUS
  <2> QED
      BY <1>1, <2>1, <2>2 DEF p
<1> HIDE DEF raised
<1>3. Raise(rent, e) = IF rent = TooHigh \/ raised > MaxRent THEN TooHigh ELSE raised
      BY DEF Raise, raised
<1> QED
    BY <1>1, <1>2, <1>3 DEF TooHigh, Raise

LEMMA RaisedTimesType ==
    ASSUME NEW rent \in 0..TooHigh, NEW e \in RealEscalation, NEW n \in Nat
    PROVE  /\ RaisedTimes(rent, e, n) \in 0..TooHigh
           /\ rent = TooHigh => RaisedTimes(rent, e, n) = TooHigh
<1> DEFINE Good == {k \in Nat : /\ RaisedTimes(rent, e, k) \in 0..TooHigh
                                /\ rent = TooHigh => RaisedTimes(rent, e, k) = TooHigh}
<1>1. 0 \in Good
      BY RaisedTimesStep
<1>2. ASSUME NEW k \in 0..(n - 1), k \in Good PROVE k + 1 \in Good
  <2>1. RaisedTimes(rent, e, k + 1) = Raise(RaisedTimes(rent, e, k), e)
        BY RaisedTimesStep
  <2> QED
      BY <1>2, <2>1, RaiseType
<1> HIDE DEF Good
<1>3. 0..n \subseteq Good
      BY <1>1, <1>2, CountUp
<1> QED
    BY <1>3 DEF Good

\* Months from..to in which e raises the rent
LEMMA IncreasesFinite ==
    ASSUME NEW e, NEW from \in Int, NEW to \in Int
    PROVE  /\ IsFiniteSet(IncreaseMonths(e) \cap (from + 1)..to)
           /\ Cardinality(IncreaseMonths(e) \cap (from + 1)..to) \in Nat
<1>1. IsFiniteSet((from + 1)..to)
      BY FS_Interval
<1> QED
    BY <1>1, FS_Subset, FS_CardinalityType

LEMMA RentType ==
    ASSUME NEW rent \in 0..TooHigh, NEW e \in EscalationTerms, NEW from \in Int, NEW to \in Int
    PROVE  /\ RentAfterEscalation(rent, e, from, to) \in 0..TooHigh
           /\ rent = TooHigh => RentAfterEscalation(rent, e, from, to) = TooHigh
<1>1. CASE e = NoEscalation
  <2>1. IncreaseMonths(e) \cap (from + 1)..to = {}
        BY <1>1 DEF IncreaseMonths
  <2> QED
      BY <2>1, RaisedTimesStep, FS_EmptySet DEF RentAfterEscalation
<1>2. CASE e # NoEscalation
      BY <1>2, IncreasesFinite, RaisedTimesType DEF RentAfterEscalation, RealEscalation
<1> QED
    BY <1>1, <1>2

\* No month, no increase.
LEMMA RentStays ==
    ASSUME NEW rent, NEW e, NEW from \in Int, NEW to \in Int, to <= from
    PROVE  RentAfterEscalation(rent, e, from, to) = rent
<1>1. IncreaseMonths(e) \cap (from + 1)..to = {}
      OBVIOUS
<1> QED
    BY <1>1, RaisedTimesStep, FS_EmptySet DEF RentAfterEscalation

\* One month more: one increase more, or none.
LEMMA RentNextMonth ==
    ASSUME NEW rent, NEW e, NEW from \in Int, NEW to \in Int
    PROVE  RentAfterEscalation(rent, e, from, to + 1) =
              IF from <= to /\ to + 1 \in IncreaseMonths(e)
              THEN Raise(RentAfterEscalation(rent, e, from, to), e)
              ELSE RentAfterEscalation(rent, e, from, to)
<1> DEFINE I(k) == IncreaseMonths(e) \cap (from + 1)..k
<1>1. CASE from <= to /\ to + 1 \in IncreaseMonths(e)
  <2>1. I(to + 1) = I(to) \cup {to + 1} /\ to + 1 \notin I(to)
        BY <1>1
  <2>2. IsFiniteSet(I(to)) /\ Cardinality(I(to)) \in Nat
        BY IncreasesFinite
  <2> HIDE DEF I
  <2>3. Cardinality(I(to + 1)) = Cardinality(I(to)) + 1
        BY <2>1, <2>2, FS_AddElement
  <2>4. RaisedTimes(rent, e, Cardinality(I(to)) + 1) = Raise(RaisedTimes(rent, e, Cardinality(I(to))), e)
        BY <2>2, RaisedTimesStep
  <2> QED
      BY <1>1, <2>3, <2>4 DEF RentAfterEscalation, I
<1>2. CASE ~(from <= to /\ to + 1 \in IncreaseMonths(e))
  <2>1. I(to + 1) = I(to)
        BY <1>2
  <2> QED
      BY <1>2, <2>1 DEF RentAfterEscalation
<1> QED
    BY <1>1, <1>2

-----------------------------------------------------------------------------
(* Amendments. *)

AmendmentsOK == amendment \in [Amendment -> AmendmentType]

\* The last amendment of some is one of them.
LEMMA LastIsOne ==
    ASSUME AmendmentsOK, NEW T \in SUBSET Amendment, T # {}
    PROVE  /\ LastOf(T) \in T
           /\ \A b \in T : amendment[b].month <= amendment[LastOf(T)].month
<1> DEFINE left(a) == MonthOf(LeaseEnd) - amendment[a].month
           S == {left(a) : a \in T}
<1>1. \A a \in T : amendment[a].month \in Month
      BY DEF AmendmentsOK, AmendmentType
<1>2. \A a \in T : amendment[a].month \in Nat /\ left(a) \in Nat
      BY <1>1, MonthsAreNumbers DEF Month
<1>3. S \subseteq Nat /\ S # {}
      BY <1>2
<1> HIDE DEF S, left
<1>4. PICK n \in S : \A i \in S : n <= i
      BY <1>3, LeastNumber
<1>5. PICK a \in T : n = left(a)
      BY DEF S
<1>6. \A b \in T : left(a) <= left(b)
      BY <1>4, <1>5 DEF S
<1>7. \A b \in T : amendment[b].month <= amendment[a].month
      BY <1>2, <1>6, MonthsAreNumbers DEF left
<1> QED
    BY <1>7 DEF LastOf

Fold(g, T) ==
    g = [U \in SUBSET T |->
            IF U = {} THEN BaseTerms
            ELSE Amended(g[U \ {LastOf(U)}], amendment[LastOf(U)])]

LEMMA FoldsAgree ==
    ASSUME AmendmentsOK, NEW T \in SUBSET Amendment, NEW V \in SUBSET T, IsFiniteSet(T),
           NEW g, NEW h, Fold(g, T), Fold(h, V)
    PROVE  \A U \in SUBSET V : g[U] = h[U]
<1> DEFINE Good == {U \in SUBSET V : g[U] = h[U]}
<1>1. ASSUME NEW U \in SUBSET V, \A W \in SUBSET U : W # U => W \in Good
      PROVE  U \in Good
  <2>1. /\ g[U] = IF U = {} THEN BaseTerms
                  ELSE Amended(g[U \ {LastOf(U)}], amendment[LastOf(U)])
        /\ h[U] = IF U = {} THEN BaseTerms
                  ELSE Amended(h[U \ {LastOf(U)}], amendment[LastOf(U)])
        BY DEF Fold
  <2>2. CASE U = {}
        BY <2>1, <2>2
  <2>3. CASE U # {}
    <3>1. LastOf(U) \in U
          BY <2>3, LastIsOne
    <3>2. g[U \ {LastOf(U)}] = h[U \ {LastOf(U)}]
          BY <1>1, <3>1
    <3> QED
        BY <2>1, <2>3, <3>2
  <2> QED
      BY <2>2, <2>3
<1> HIDE DEF Good
<1>2. IsFiniteSet(V)
      BY FS_Subset
<1>3. SUBSET V \subseteq Good
      BY <1>1, <1>2, SubsetInduction
<1> QED
    BY <1>3 DEF Good

LEMMA FoldExists ==
    ASSUME AmendmentsOK, NEW T \in SUBSET Amendment, IsFiniteSet(T)
    PROVE  \E g : Fold(g, T)
<1> DEFINE Good == {U \in SUBSET T : \E g : Fold(g, U)}
<1>1. ASSUME NEW U \in SUBSET T, \A W \in SUBSET U : W # U => W \in Good
      PROVE  U \in Good
  <2> DEFINE fold(W) == CHOOSE g : Fold(g, W)
             of(W) == fold(W)[W]
             whole == IF U = {} THEN BaseTerms
                      ELSE Amended(of(U \ {LastOf(U)}), amendment[LastOf(U)])
             h == [W \in SUBSET U |-> IF W = U THEN whole ELSE of(W)]
  <2>1. \A W \in SUBSET U : W # U => Fold(fold(W), W)
        BY <1>1
  <2> HIDE DEF fold
  <2>2. ASSUME NEW W \in SUBSET U, W # U
        PROVE  of(W) = IF W = {} THEN BaseTerms
                       ELSE Amended(of(W \ {LastOf(W)}), amendment[LastOf(W)])
    <3>1. fold(W)[W] = IF W = {} THEN BaseTerms
                       ELSE Amended(fold(W)[W \ {LastOf(W)}], amendment[LastOf(W)])
          BY <2>1, <2>2 DEF Fold
    <3>2. CASE W = {}
          BY <3>1, <3>2
    <3>3. CASE W # {}
      <4> DEFINE V == W \ {LastOf(W)}
      <4>1. LastOf(W) \in W
            BY <3>3, LastIsOne
      <4>2. Fold(fold(W), W) /\ Fold(fold(V), V)
            BY <2>1, <2>2, <4>1
      <4>3. IsFiniteSet(W)
            BY FS_Subset
      <4>4. fold(W)[V] = fold(V)[V]
            BY <4>2, <4>3, FoldsAgree
      <4> QED
          BY <3>1, <3>3, <4>4
    <3> QED
        BY <3>2, <3>3
  <2>3. ASSUME U # {} PROVE U \ {LastOf(U)} # U
        BY <2>3, LastIsOne
  <2> HIDE DEF of
  <2>4. ASSUME NEW W \in SUBSET U
        PROVE  h[W] = IF W = {} THEN BaseTerms
                      ELSE Amended(h[W \ {LastOf(W)}], amendment[LastOf(W)])
    <3>1. CASE W = U
          BY <2>3, <3>1
    <3>2. CASE W # U
      <4>1. W \ {LastOf(W)} # U /\ W \ {LastOf(W)} \in SUBSET U
            BY <3>2
      <4> QED
          BY <2>2, <3>2, <4>1
    <3> QED
        BY <3>1, <3>2
  <2> HIDE DEF whole
  <2>5. Fold(h, U)
        BY <2>4 DEF Fold
  <2> QED
      BY <2>5
<1> HIDE DEF Good
<1>2. SUBSET T \subseteq Good
      BY <1>1, SubsetInduction
<1> QED
    BY <1>2 DEF Good

\* TermsAfter applies the last amendment after all others.
LEMMA TermsAfterLast ==
    ASSUME AmendmentsOK, NEW T \in SUBSET Amendment, IsFiniteSet(T)
    PROVE  /\ TermsAfter({}) = BaseTerms
           /\ T # {} => TermsAfter(T) =
                           Amended(TermsAfter(T \ {LastOf(T)}), amendment[LastOf(T)])
<1> DEFINE fold(W) == CHOOSE g : Fold(g, W)
<1>1. ASSUME NEW U \in SUBSET T PROVE Fold(fold(U), U) /\ TermsAfter(U) = fold(U)[U]
  <2>1. IsFiniteSet(U)
        BY FS_Subset
  <2>2. Fold(fold(U), U)
        BY <2>1, FoldExists
  <2>3. TermsAfter(U) = fold(U)[U]
        BY DEF TermsAfter, MapThenFoldSet, Fold
  <2> QED
      BY <2>2, <2>3
<1> HIDE DEF fold
<1>2. TermsAfter({}) = BaseTerms
  <2>1. Fold(fold({}), {}) /\ TermsAfter({}) = fold({})[{}]
        BY <1>1
  <2> QED
      BY <2>1 DEF Fold
<1>3. ASSUME T # {}
      PROVE  TermsAfter(T) = Amended(TermsAfter(T \ {LastOf(T)}), amendment[LastOf(T)])
  <2> DEFINE V == T \ {LastOf(T)}
  <2>1. fold(T)[T] = Amended(fold(T)[V], amendment[LastOf(T)])
        BY <1>1, <1>3 DEF Fold
  <2>2. fold(T)[V] = fold(V)[V]
        BY <1>1, FoldsAgree
  <2> QED
      BY <1>1, <2>1, <2>2
<1> QED
    BY <1>2, <1>3

\* validateEscalation: the escalation of an amendment begins after the amendment.
EscalationsBegin ==
    \A a \in Amendment :
        amendment[a].escalation \in Escalation
        => FirstDay(amendment[a].month) < FirstDay(amendment[a].escalation.month)

\* AmendmentsOK: what the store holds. OneTermsPerMonth is inductive with it, and the
\* rent of a month needs EscalationsBegin.
IInv == AmendmentsOK /\ OneTermsPerMonth /\ EscalationsBegin

LEMMA InitIInv == Init => IInv
<1> SUFFICES ASSUME Init PROVE IInv
    OBVIOUS
<1>1. 0 \in Month /\ Never \in 0..Never
      BY ScheduleAssumption DEF Month, MonthOf, Never
<1>2. AmendmentsOK
      BY <1>1 DEF Init, AmendmentsOK, AmendmentType
<1>3. OneTermsPerMonth
      BY DEF Init, OneTermsPerMonth, Pending, AcceptedAmendments
<1>4. EscalationsBegin
      BY ScheduleAssumption DEF Init, EscalationsBegin
<1> QED
    BY <1>2, <1>3, <1>4 DEF IInv

LEMMA ProposeKeeps ==
    ASSUME IInv, NEW a \in Amendment, NEW month \in Month, NEW rent \in Rent \cup {Unchanged},
           NEW escalation \in Escalation \cup {NoEscalation, Unchanged},
           NEW dueDay \in DueDay \cup {Unchanged},
           ProposeAmendment(a, month, rent, escalation, dueDay)
    PROVE  IInv'
<1> DEFINE row == [status |-> "PENDING_TENANT_ACCEPTANCE", month |-> month, rent |-> rent,
                   escalation |-> escalation, dueDay |-> dueDay, accepted |-> Never]
<1>1. amendment' = [amendment EXCEPT ![a] = row]
      BY DEF ProposeAmendment
<1>2. AmendmentsOK'
    <2>1. row \in AmendmentType
          BY ScheduleAssumption DEF AmendmentType, Never
    <2> QED
        BY <1>1, <2>1 DEF IInv, AmendmentsOK
<1>3. \A b \in Amendment : amendment'[b] = IF b = a THEN row ELSE amendment[b]
      BY <1>1 DEF IInv, AmendmentsOK
<1>4. \A b \in Amendment : ~Pending(b)
      BY DEF ProposeAmendment
<1>5. \A b \in AcceptedAmendments : amendment[b].month < month
      BY DEF ProposeAmendment, FollowsAccepted
<1>6. AcceptedAmendments' \subseteq AcceptedAmendments /\ a \notin AcceptedAmendments'
      BY <1>3 DEF AcceptedAmendments
<1>7. OneTermsPerMonth'
      BY <1>3, <1>4, <1>5, <1>6 DEF IInv, OneTermsPerMonth, Pending
<1>8. escalation \in Escalation => FirstDay(month) < FirstDay(escalation.month)
      BY ScheduleAssumption DEF ProposeAmendment, ValidEscalation
<1>9. EscalationsBegin'
      BY <1>3, <1>8 DEF IInv, EscalationsBegin
<1> QED
    BY <1>2, <1>7, <1>9 DEF IInv

LEMMA SettleKeeps ==
    ASSUME IInv, today \in 0..MaxDay, NEW a \in Amendment,
           NEW decision \in {"ACCEPTED", "REJECTED", "WITHDRAWN"}, Settle(a, decision)
    PROVE  IInv'
<1>1. /\ \A b \in Amendment \ {a} : amendment'[b] = amendment[b]
      /\ amendment'[a].status = decision
      /\ amendment'[a].month = amendment[a].month
      /\ amendment'[a].escalation = amendment[a].escalation
      BY DEF Settle, IInv, AmendmentsOK, AmendmentType
<1>2. AmendmentsOK'
    <2>1. (IF decision = "ACCEPTED" THEN today ELSE Never) \in 0..Never
          BY ScheduleAssumption DEF Never
    <2> DEFINE row == [[amendment[a] EXCEPT !.status = decision]
                          EXCEPT !.accepted = IF decision = "ACCEPTED" THEN today ELSE Never]
    <2>2. amendment[a] \in AmendmentType
          BY DEF IInv, AmendmentsOK
    <2>3. row \in AmendmentType
          BY <2>1, <2>2 DEF AmendmentType
    <2>4. amendment' = [amendment EXCEPT ![a] = row]
          BY <2>2 DEF Settle, IInv, AmendmentsOK, AmendmentType
    <2> QED
        BY <2>3, <2>4 DEF IInv, AmendmentsOK
<1>3. /\ \A b \in Amendment : ~Pending(b)'
      /\ \A b \in AcceptedAmendments' : b = a \/ b \in AcceptedAmendments
      BY <1>1 DEF Settle, IInv, OneTermsPerMonth, Pending, AcceptedAmendments
<1>4. \A b \in AcceptedAmendments : b # a => amendment[b].month < amendment[a].month
      BY DEF Settle, IInv, OneTermsPerMonth, AcceptedAmendments
<1>5. OneTermsPerMonth'
      BY <1>1, <1>3, <1>4 DEF IInv, OneTermsPerMonth, AcceptedAmendments, AmendmentsOK,
                             AmendmentType, Month
<1>6. EscalationsBegin'
      BY <1>1 DEF IInv, EscalationsBegin
<1> QED
    BY <1>2, <1>5, <1>6 DEF IInv

\* The clock is all that decides when something was accepted.
ClockOK == today \in 0..MaxDay

LEMMA NextIInv == IInv /\ ClockOK /\ [Next]_vars => IInv' /\ ClockOK'
<1> SUFFICES ASSUME IInv, ClockOK, [Next]_vars PROVE IInv' /\ ClockOK'
    OBVIOUS
<1>1. ASSUME UNCHANGED <<amendment, today>> PROVE IInv' /\ ClockOK'
      BY <1>1 DEF IInv, ClockOK, AmendmentsOK, OneTermsPerMonth, Pending, AcceptedAmendments,
                  EscalationsBegin
<1>2. ASSUME NEW a \in Amendment, NEW month \in Month, NEW rent \in Rent \cup {Unchanged},
             NEW dueDay \in DueDay \cup {Unchanged},
             NEW escalation \in Escalation \cup {NoEscalation, Unchanged},
             ProposeAmendment(a, month, rent, escalation, dueDay)
      PROVE  IInv' /\ ClockOK'
      BY <1>2, ProposeKeeps DEF ProposeAmendment, ClockOK
<1>3. ASSUME NEW a \in Amendment, NEW decision \in {"ACCEPTED", "REJECTED"},
             DecideAmendment(a, decision)
      PROVE  IInv' /\ ClockOK'
      BY <1>3, SettleKeeps DEF DecideAmendment, Settle, ClockOK
<1>4. ASSUME NEW a \in Amendment, WithdrawAmendment(a)
      PROVE  IInv' /\ ClockOK'
      BY <1>4, SettleKeeps DEF WithdrawAmendment, Settle, ClockOK
<1>5. ASSUME Tick PROVE IInv' /\ ClockOK'
    <2>1. ClockOK'
          BY <1>5, ScheduleAssumption DEF Tick, ClockOK
    <2>2. IInv'
          BY <1>5 DEF Tick, IInv, AmendmentsOK, OneTermsPerMonth, Pending, AcceptedAmendments,
                      EscalationsBegin
    <2> QED
        BY <2>1, <2>2
<1> QED
    BY <1>1, <1>2, <1>3, <1>4, <1>5 DEF Next, View, Terminate, vars

\* Amendments come one after the other, however many are proposed, accepted, refused
\* or taken back and whenever: one waits at most, it begins after all that were
\* accepted, and no two of those begin together (proposeAmendment, decideAmendment).
THEOREM AmendmentsAreOrdered == Spec => []OneTermsPerMonth
<1>1. Init => IInv /\ ClockOK
      BY InitIInv, ScheduleAssumption DEF Init, ClockOK
<1>2. IInv => OneTermsPerMonth
      BY DEF IInv
<1> QED
    BY <1>1, <1>2, NextIInv, PTL DEF Spec
-----------------------------------------------------------------------------
(* The months of a lease. *)

LEMMA RowType ==
    ASSUME IInv, NEW a \in Amendment
    PROVE  /\ amendment[a].month \in Month /\ amendment[a].month \in Nat
           /\ amendment[a].rent \in Rent \cup {Unchanged}
           /\ amendment[a].escalation \in EscalationTerms \cup {Unchanged}
           /\ amendment[a].dueDay \in DueDay \cup {Unchanged}
<1>1. amendment[a] \in AmendmentType
      BY DEF IInv, AmendmentsOK
<1> QED
    BY <1>1, MonthsAreNumbers DEF AmendmentType, EscalationTerms

\* No two accepted amendments begin together, and the months are finitely many.
LEMMA AcceptedFinite ==
    ASSUME IInv
    PROVE  IsFiniteSet(AcceptedAmendments)
<1> DEFINE begins == [a \in AcceptedAmendments |-> amendment[a].month]
<1>1. begins \in [AcceptedAmendments -> Month]
      BY RowType DEF AcceptedAmendments
<1>2. \A a, b \in AcceptedAmendments : begins[a] = begins[b] => a = b
      BY DEF IInv, OneTermsPerMonth, AcceptedAmendments
<1>3. begins \in Injection(AcceptedAmendments, Month)
      BY <1>1, <1>2 DEF Injection, IsInjective
<1> HIDE DEF begins
<1> QED
    BY <1>3, MonthsAreNumbers, FS_Injection

LEMMA InForceFinite ==
    ASSUME IInv, NEW k \in Int
    PROVE  InForce(k) \in SUBSET Amendment /\ IsFiniteSet(InForce(k))
<1>1. InForce(k) \in SUBSET AcceptedAmendments
      BY DEF InForce
<1> QED
    BY <1>1, AcceptedFinite, FS_Subset DEF AcceptedAmendments

\* What begins in month k
Begins(a, k) == a \in AcceptedAmendments /\ amendment[a].month = k

LEMMA MonthWithout ==
    ASSUME IInv, NEW k \in Int, \A a \in Amendment : ~Begins(a, k)
    PROVE  InForce(k) = InForce(k - 1)
BY RowType DEF Begins, InForce, AcceptedAmendments

LEMMA MonthWith ==
    ASSUME IInv, NEW k \in Int, NEW x \in Amendment, Begins(x, k)
    PROVE  /\ InForce(k) = InForce(k - 1) \cup {x} /\ x \notin InForce(k - 1)
           /\ \A T \in SUBSET InForce(k) : x \in T => LastOf(T) = x
<1>1. \A a \in InForce(k) : a # x => amendment[a].month # k
      BY DEF IInv, OneTermsPerMonth, InForce, Begins, AcceptedAmendments
<1>2. \A a \in Amendment : amendment[a].month \in Nat
      BY RowType
<1>3. InForce(k) = InForce(k - 1) \cup {x} /\ x \notin InForce(k - 1)
      BY <1>1, <1>2 DEF Begins, InForce, AcceptedAmendments
<1>4. ASSUME NEW T \in SUBSET InForce(k), x \in T PROVE LastOf(T) = x
  <2>1. T \in SUBSET Amendment /\ T # {} /\ AmendmentsOK
        BY <1>4, InForceFinite DEF IInv
  <2>2. LastOf(T) \in T /\ amendment[x].month <= amendment[LastOf(T)].month
        BY <1>4, <2>1, LastIsOne
  <2>3. amendment[x].month = k /\ amendment[LastOf(T)].month <= k
        BY <2>2 DEF Begins, InForce
  <2>4. amendment[LastOf(T)].month = k
        BY <1>2, <2>1, <2>2, <2>3
  <2> QED
      BY <1>1, <2>2, <2>4
<1> QED
    BY <1>3, <1>4

LEMMA NoMonthBefore ==
    ASSUME IInv
    PROVE  InForce(-1) = {}
BY RowType DEF InForce, AcceptedAmendments

\* The terms in force after month k
Terms(k) == TermsAfter(InForce(k))

LEMMA FirstTerms ==
    ASSUME IInv
    PROVE  Terms(-1) = BaseTerms /\ EscalationOf(-1) = BaseEscalation
<1>1. InForce(-1) = {}
      BY NoMonthBefore
<1>2. Terms(-1) = BaseTerms
      BY <1>1, TermsAfterLast, FS_EmptySet DEF Terms, IInv
<1>3. EscalationOf(-1) = BaseEscalation
      BY <1>1 DEF EscalationOf, TermsOf
<1> QED
    BY <1>2, <1>3

LEMMA SameTerms ==
    ASSUME IInv, NEW k \in Int, \A a \in Amendment : ~Begins(a, k)
    PROVE  Terms(k) = Terms(k - 1) /\ EscalationOf(k) = EscalationOf(k - 1)
BY MonthWithout DEF Terms, EscalationOf, TermsOf

LEMMA NewTerms ==
    ASSUME IInv, NEW k \in Int, NEW x \in Amendment, Begins(x, k)
    PROVE  /\ Terms(k) = Amended(Terms(k - 1), amendment[x])
           /\ EscalationOf(k) = IF amendment[x].escalation = Unchanged THEN EscalationOf(k - 1)
                                ELSE amendment[x].escalation
<1>1. /\ InForce(k) = InForce(k - 1) \cup {x} /\ x \notin InForce(k - 1)
      /\ \A T \in SUBSET InForce(k) : x \in T => LastOf(T) = x
      BY MonthWith
<1>2. Terms(k) = Amended(Terms(k - 1), amendment[x])
  <2>1. LastOf(InForce(k)) = x /\ InForce(k) # {} /\ InForce(k) \ {x} = InForce(k - 1)
        BY <1>1
  <2>2. InForce(k) \in SUBSET Amendment /\ IsFiniteSet(InForce(k)) /\ AmendmentsOK
        BY InForceFinite DEF IInv
  <2>3. TermsAfter(InForce(k)) =
           Amended(TermsAfter(InForce(k) \ {LastOf(InForce(k))}), amendment[LastOf(InForce(k))])
        BY <2>1, <2>2, TermsAfterLast
  <2> QED
      BY <2>1, <2>3 DEF Terms
<1>3. EscalationOf(k) = IF amendment[x].escalation = Unchanged THEN EscalationOf(k - 1)
                        ELSE amendment[x].escalation
  <2> DEFINE Sets(m) == {a \in InForce(m) : amendment[a].escalation # Unchanged}
  <2>1. \A m : EscalationOf(m) = IF Sets(m) = {} THEN BaseEscalation
                                 ELSE amendment[LastOf(Sets(m))].escalation
        BY DEF EscalationOf, TermsOf
  <2>2. CASE amendment[x].escalation = Unchanged
    <3>1. Sets(k) = Sets(k - 1)
          BY <1>1, <2>2
    <3> QED
        BY <2>1, <2>2, <3>1
  <2>3. CASE amendment[x].escalation # Unchanged
    <3>1. x \in Sets(k) /\ Sets(k) \in SUBSET InForce(k)
          BY <1>1, <2>3
    <3>2. LastOf(Sets(k)) = x
          BY <1>1, <3>1
    <3> QED
        BY <2>1, <2>3, <3>1, <3>2
  <2> QED
      BY <2>2, <2>3
<1> QED
    BY <1>2, <1>3

\* What rentForPeriod carries from amendment to amendment: a rent it can go on with or
\* TooHigh, the escalation in force, and where the last segment began.
TermsOK(k) ==
    LET s == Terms(k) IN
    /\ s.rent \in 0..TooHigh
    /\ s.escalation \in EscalationTerms /\ s.escalation = EscalationOf(k)
    /\ s.from \in Nat
    /\ s.from <= k \/ (s.from = MonthOf(LeaseStart) /\ s.escalation = BaseEscalation)

LEMMA TermsType ==
    ASSUME IInv, NEW k \in (-1)..MonthOf(LeaseEnd)
    PROVE  TermsOK(k)
<1> DEFINE Good == {m \in (-1)..MonthOf(LeaseEnd) : TermsOK(m)}
<1>0. MonthOf(LeaseEnd) \in Nat /\ MaxRent \in Nat /\ Rent \subseteq 0..MaxRent
      BY MonthsAreNumbers, ScheduleAssumption
<1>1. -1 \in Good
  <2>1. BaseTerms.rent \in 0..TooHigh
        BY ScheduleAssumption DEF BaseTerms, TooHigh
  <2>2. TermsOK(-1)
        BY <2>1, FirstTerms, MonthsAreNumbers DEF TermsOK, BaseTerms, EscalationTerms
  <2> QED
      BY <1>0, <2>2
<1>2. ASSUME NEW m \in (-1)..(MonthOf(LeaseEnd) - 1), m \in Good PROVE m + 1 \in Good
  <2>1. m \in Int /\ (m + 1) - 1 = m /\ m + 1 \in (-1)..MonthOf(LeaseEnd) /\ TermsOK(m)
        BY <1>0, <1>2
  <2>2. CASE \A a \in Amendment : ~Begins(a, m + 1)
    <3>1. Terms(m + 1) = Terms(m) /\ EscalationOf(m + 1) = EscalationOf(m)
          BY <2>1, <2>2, SameTerms
    <3>2. TermsOK(m + 1)
          BY <2>1, <3>1 DEF TermsOK
    <3> QED
        BY <2>1, <3>2
  <2>3. ASSUME NEW x \in Amendment, Begins(x, m + 1) PROVE m + 1 \in Good
    <3> DEFINE s == Terms(m)
               row == amendment[x]
               before == RentAfterEscalation(s.rent, s.escalation, s.from, row.month - 1)
    <3>1. /\ Terms(m + 1) = Amended(s, row)
          /\ EscalationOf(m + 1) = IF row.escalation = Unchanged THEN EscalationOf(m)
                                   ELSE row.escalation
          BY <2>1, <2>3, NewTerms
    <3>2. /\ row.month = m + 1 /\ row.month \in Nat /\ row.rent \in Rent \cup {Unchanged}
          /\ row.escalation \in EscalationTerms \cup {Unchanged}
          BY <2>3, RowType DEF Begins
    <3>3. before \in 0..TooHigh
          BY <2>1, <3>2, RentType DEF TermsOK
    <3>4. row.rent # Unchanged => row.rent \in 0..TooHigh
      <4>1. row.rent # Unchanged => row.rent \in Rent
            BY <3>2
      <4>2. \A r \in Rent : r \in 0..TooHigh
            BY <1>0 DEF TooHigh
      <4> QED
          BY <4>1, <4>2
    <3>5. /\ Terms(m + 1).rent = IF before = TooHigh \/ row.rent = Unchanged THEN before
                                 ELSE row.rent
          /\ Terms(m + 1).escalation = IF row.escalation = Unchanged THEN s.escalation
                                       ELSE row.escalation
          /\ Terms(m + 1).from = row.month
          BY <3>1 DEF Amended
    <3> HIDE DEF s, row, before
    <3>6. Terms(m + 1).rent \in 0..TooHigh
          BY <3>3, <3>4, <3>5
    <3>7. /\ Terms(m + 1).escalation \in EscalationTerms
          /\ Terms(m + 1).escalation = EscalationOf(m + 1)
          BY <2>1, <3>1, <3>2, <3>5 DEF TermsOK, s
    <3>8. TermsOK(m + 1)
          BY <2>1, <3>2, <3>5, <3>6, <3>7 DEF TermsOK
    <3> QED
        BY <2>1, <3>8
  <2> QED
      BY <2>2, <2>3
<1> HIDE DEF Good
<1> DEFINE before == -1
<1>3. before \in Int /\ MonthOf(LeaseEnd) \in Int
      BY <1>0
<1> HIDE DEF before
<1>4. before..MonthOf(LeaseEnd) \subseteq Good
      BY <1>1, <1>2, <1>3, CountUp DEF before
<1> QED
    BY <1>4 DEF Good, before
-----------------------------------------------------------------------------
(* The rent of a month, from the rent of the month before. *)

LEMMA RentForPeriodType ==
    ASSUME IInv, NEW k \in (-1)..MonthOf(LeaseEnd)
    PROVE  RentForPeriod(k) \in 0..TooHigh
<1>1. TermsOK(k) /\ k \in Int
      BY TermsType
<1> QED
    BY <1>1, RentType DEF RentForPeriod, TermsOK, Terms

LEMMA FirstRent ==
    ASSUME IInv
    PROVE  RentForPeriod(-1) = BaseRent
<1>1. Terms(-1) = BaseTerms
      BY FirstTerms
<1>2. -1 \in Int /\ MonthOf(LeaseStart) \in Int /\ -1 <= MonthOf(LeaseStart)
      BY MonthsAreNumbers
<1>3. RentAfterEscalation(BaseRent, BaseEscalation, MonthOf(LeaseStart), -1) = BaseRent
      BY <1>2, RentStays
<1> QED
    BY <1>1, <1>3 DEF RentForPeriod, Terms, BaseTerms

\* A month in which no amendment begins: the escalation in force may raise the rent.
LEMMA RentWithout ==
    ASSUME IInv, NEW k \in 0..MonthOf(LeaseEnd), \A a \in Amendment : ~Begins(a, k)
    PROVE  RentForPeriod(k) = IF k \in IncreaseMonths(EscalationOf(k))
                              THEN Raise(RentForPeriod(k - 1), EscalationOf(k))
                              ELSE RentForPeriod(k - 1)
<1> DEFINE s == Terms(k - 1)
<1>1. k \in Int /\ k - 1 \in (-1)..MonthOf(LeaseEnd) /\ k - 1 \in Int /\ (k - 1) + 1 = k
      BY MonthsAreNumbers
<1>2. Terms(k) = s /\ EscalationOf(k) = EscalationOf(k - 1)
      BY <1>1, SameTerms
<1>3. TermsOK(k - 1)
      BY <1>1, TermsType
<1>4. /\ RentForPeriod(k) = RentAfterEscalation(s.rent, s.escalation, s.from, k)
      /\ RentForPeriod(k - 1) = RentAfterEscalation(s.rent, s.escalation, s.from, k - 1)
      BY <1>2 DEF RentForPeriod, Terms
<1>5. s.from \in Int /\ s.escalation = EscalationOf(k)
      BY <1>2, <1>3 DEF TermsOK
<1> HIDE DEF s
<1>6. RentForPeriod(k) = IF s.from <= k - 1 /\ k \in IncreaseMonths(s.escalation)
                         THEN Raise(RentForPeriod(k - 1), s.escalation)
                         ELSE RentForPeriod(k - 1)
  <2>1. RentAfterEscalation(s.rent, s.escalation, s.from, (k - 1) + 1) =
              IF s.from <= k - 1 /\ (k - 1) + 1 \in IncreaseMonths(s.escalation)
              THEN Raise(RentAfterEscalation(s.rent, s.escalation, s.from, k - 1), s.escalation)
              ELSE RentAfterEscalation(s.rent, s.escalation, s.from, k - 1)
        BY <1>1, <1>5, RentNextMonth
  <2> QED
      BY <1>1, <1>4, <2>1
<1>7. ASSUME ~(s.from <= k - 1) PROVE k \notin IncreaseMonths(s.escalation)
  <2>1. s.from = MonthOf(LeaseStart) /\ s.escalation = BaseEscalation
        BY <1>3, <1>7 DEF TermsOK, s
  <2>2. ~(MonthOf(LeaseStart) < k)
        BY <1>1, <1>7, <2>1, MonthsAreNumbers
  <2> QED
      BY <2>1, <2>2, BaseIncreasesBegin
<1> QED
    BY <1>5, <1>6, <1>7

\* A month in which an amendment begins: its rent, or the last month's.
LEMMA RentWith ==
    ASSUME IInv, NEW k \in 0..MonthOf(LeaseEnd), NEW x \in Amendment, Begins(x, k)
    PROVE  RentForPeriod(k) =
              IF RentForPeriod(k - 1) = TooHigh \/ amendment[x].rent = Unchanged
              THEN RentForPeriod(k - 1) ELSE amendment[x].rent
<1> DEFINE s == Terms(k - 1)
<1>1. k \in Int /\ k - 1 \in Int /\ amendment[x].month = k
      BY DEF Begins
<1>2. Terms(k) = Amended(s, amendment[x])
      BY <1>1, NewTerms
<1>3. RentForPeriod(k - 1) = RentAfterEscalation(s.rent, s.escalation, s.from, k - 1)
      BY DEF RentForPeriod, Terms
<1>4. /\ Terms(k).from = k
      /\ Terms(k).rent = IF RentForPeriod(k - 1) = TooHigh \/ amendment[x].rent = Unchanged
                         THEN RentForPeriod(k - 1) ELSE amendment[x].rent
      BY <1>1, <1>2, <1>3 DEF Amended
<1>5. RentForPeriod(k) = RentAfterEscalation(Terms(k).rent, Terms(k).escalation, k, k)
      BY <1>4 DEF RentForPeriod, Terms
<1>6. RentAfterEscalation(Terms(k).rent, Terms(k).escalation, k, k) = Terms(k).rent
      BY <1>1, RentStays
<1> QED
    BY <1>4, <1>5, <1>6

\* The escalation an amendment agrees does not raise the rent of its own month.
LEMMA NoIncreaseAtOnce ==
    ASSUME IInv, NEW k \in 0..MonthOf(LeaseEnd), NEW x \in Amendment, Begins(x, k),
           amendment[x].escalation # Unchanged
    PROVE  k \notin IncreaseMonths(EscalationOf(k))
<1> DEFINE e == amendment[x].escalation
<1>1. k \in Nat /\ k \in Int /\ amendment[x].month = k
      BY DEF Begins
<1>2. EscalationOf(k) = e
      BY <1>1, NewTerms
<1>3. e \in Escalation \cup {NoEscalation}
  <2>1. amendment[x] \in AmendmentType
        BY DEF IInv, AmendmentsOK
  <2> QED
      BY <2>1 DEF AmendmentType
<1>4. CASE e = NoEscalation
      BY <1>2, <1>4 DEF IncreaseMonths
<1>5. ASSUME e # NoEscalation, k \in IncreaseMonths(e) PROVE FALSE
  <2>1. e \in RealEscalation /\ e \in Escalation
        BY <1>3, <1>5 DEF RealEscalation, EscalationTerms
  <2>2. e.month \in Nat /\ e.month <= k
        BY <1>5, <2>1, EscalationType, IncreasesBegin
  <2>3. k * MonthDays < e.month * MonthDays
        BY <1>1, <2>1 DEF IInv, EscalationsBegin, FirstDay
  <2>4. k < e.month
        BY <1>1, <2>2, <2>3, DaysAndMonths, ScheduleAssumption
  <2> QED
      BY <1>1, <2>2, <2>4
<1> QED
    BY <1>2, <1>4, <1>5

-----------------------------------------------------------------------------
(* The agreed rent, month by month. *)

AgreedFrom(before, m) ==
    IF SetsRent(m) # {} THEN amendment[LastOf(SetsRent(m))].rent
    ELSE IF m = 0 THEN BaseRent
    ELSE IF m \in IncreaseMonths(EscalationOf(m)) THEN Raise(before, EscalationOf(m)) ELSE before

AgreedRun(g, n) == g = [m \in 0..n |-> AgreedFrom(g[m - 1], m)]

LEMMA AgreedRunExists ==
    ASSUME NEW n \in Nat
    PROVE  \E g : AgreedRun(g, n)
<1> DEFINE Good == {k \in 0..n : \E g : AgreedRun(g, k)}
<1>1. 0 \in Good
  <2> DEFINE h == [m \in 0..0 |-> AgreedFrom(0, 0)]
  <2>1. \A b : AgreedFrom(b, 0) = AgreedFrom(0, 0)
        BY DEF AgreedFrom
  <2>2. \A m \in 0..0 : h[m] = AgreedFrom(h[m - 1], m)
        BY <2>1
  <2>3. AgreedRun(h, 0)
        BY <2>2 DEF AgreedRun
  <2> QED
      BY <2>3
<1>2. ASSUME NEW k \in 0..(n - 1), k \in Good PROVE k + 1 \in Good
  <2>1. PICK g : AgreedRun(g, k)
        BY <1>2
  <2> DEFINE h == [m \in 0..(k + 1) |-> IF m = k + 1 THEN AgreedFrom(g[k], k + 1) ELSE g[m]]
  <2>2. \A m \in 0..k : g[m] = AgreedFrom(g[m - 1], m)
        BY <2>1 DEF AgreedRun
  <2>3. ASSUME NEW m \in 0..(k + 1) PROVE h[m] = AgreedFrom(h[m - 1], m)
    <3>1. CASE m = k + 1
          BY <3>1
    <3>2. CASE m = 0
      <4>1. \A b, c : AgreedFrom(b, 0) = AgreedFrom(c, 0)
            BY DEF AgreedFrom
      <4> QED
          BY <2>2, <3>2, <4>1
    <3>3. CASE m \in 1..k
      <4>1. h[m] = g[m] /\ h[m - 1] = g[m - 1]
            BY <3>3
      <4> QED
          BY <2>2, <3>3, <4>1
    <3> QED
        BY <3>1, <3>2, <3>3
  <2>4. AgreedRun(h, k + 1)
        BY <2>3 DEF AgreedRun
  <2> QED
      BY <2>4
<1> HIDE DEF Good
<1>3. 0..n \subseteq Good
      BY <1>1, <1>2, CountUp
<1> QED
    BY <1>3 DEF Good

AgreedMonthByMonth == \A m \in Month : AgreedRent[m] = AgreedFrom(AgreedRent[m - 1], m)

LEMMA AgreedUnfolds == AgreedMonthByMonth
<1>1. MonthOf(LeaseEnd) \in Nat
      BY MonthsAreNumbers
<1> DEFINE g == CHOOSE f : AgreedRun(f, MonthOf(LeaseEnd))
<1>2. AgreedRun(g, MonthOf(LeaseEnd))
      BY <1>1, AgreedRunExists
<1>3. AgreedRent = g
      BY DEF AgreedRent, AgreedRun, AgreedFrom
<1> HIDE DEF g
<1> QED
    BY <1>2, <1>3 DEF AgreedRun, AgreedMonthByMonth, Month
LEMMA SetsRentWith ==
    ASSUME IInv, NEW k \in 0..MonthOf(LeaseEnd), NEW x \in Amendment, Begins(x, k)
    PROVE  /\ amendment[x].rent = Unchanged => SetsRent(k) = {}
           /\ amendment[x].rent # Unchanged => SetsRent(k) # {} /\ LastOf(SetsRent(k)) = x
<1>1. k \in Int /\ amendment[x].month = k
      BY DEF Begins
<1>2. /\ InForce(k) = InForce(k - 1) \cup {x}
      /\ \A T \in SUBSET InForce(k) : x \in T => LastOf(T) = x
      BY <1>1, MonthWith
<1>3. \A a \in InForce(k - 1) : amendment[a].month # k
  <2>1. \A a \in InForce(k - 1) : amendment[a].month \in Nat /\ amendment[a].month <= k - 1
        BY RowType DEF InForce, AcceptedAmendments
  <2> QED
      BY <1>1, <2>1
<1>4. SetsRent(k) = IF amendment[x].rent = Unchanged THEN {} ELSE {x}
      BY <1>1, <1>2, <1>3 DEF SetsRent
<1> QED
    BY <1>2, <1>4

\* As long as the rent can be computed, segment by segment is month by month.
LEMMA AgreedNextMonth ==
    ASSUME IInv, NEW k \in 0..MonthOf(LeaseEnd),
           \A a \in Amendment : Begins(a, k) => ~SwallowsIncrease(a),
           k # 0 => RentForPeriod(k - 1) \in {TooHigh, AgreedRent[k - 1]}
    PROVE  RentForPeriod(k) \in {TooHigh, AgreedRent[k]}
<1>1. AgreedRent[k] = AgreedFrom(AgreedRent[k - 1], k)
      BY AgreedUnfolds DEF AgreedMonthByMonth, Month
<1>2. k = 0 => RentForPeriod(k - 1) = BaseRent
      BY FirstRent
<1>3. CASE \A a \in Amendment : ~Begins(a, k)
  <2>1. SetsRent(k) = {}
        BY <1>3 DEF SetsRent, InForce, Begins, AcceptedAmendments
  <2>2. RentForPeriod(k) = IF k \in IncreaseMonths(EscalationOf(k))
                           THEN Raise(RentForPeriod(k - 1), EscalationOf(k))
                           ELSE RentForPeriod(k - 1)
        BY <1>3, RentWithout
  <2>3. CASE k = 0
    <3>1. EscalationOf(0) = BaseEscalation
      <4>1. EscalationOf(0) = EscalationOf(0 - 1) /\ 0 - 1 = -1
            BY <1>3, <2>3, SameTerms
      <4> QED
          BY <4>1, FirstTerms
    <3>2. 0 \notin IncreaseMonths(EscalationOf(0))
          BY <3>1, BaseIncreasesBegin, MonthsAreNumbers
    <3> QED
        BY <1>1, <1>2, <2>1, <2>2, <2>3, <3>2 DEF AgreedFrom
  <2>4. CASE k # 0
    <3>1. \A e : Raise(TooHigh, e) = TooHigh
          BY DEF Raise
    <3>2. AgreedRent[k] = IF k \in IncreaseMonths(EscalationOf(k))
                          THEN Raise(AgreedRent[k - 1], EscalationOf(k)) ELSE AgreedRent[k - 1]
          BY <1>1, <2>1, <2>4 DEF AgreedFrom
    <3> QED
        BY <2>2, <2>4, <3>1, <3>2
  <2> QED
      BY <2>3, <2>4
<1>4. ASSUME NEW x \in Amendment, Begins(x, k)
      PROVE  RentForPeriod(k) \in {TooHigh, AgreedRent[k]}
  <2>1. RentForPeriod(k) = IF RentForPeriod(k - 1) = TooHigh \/ amendment[x].rent = Unchanged
                           THEN RentForPeriod(k - 1) ELSE amendment[x].rent
        BY <1>4, RentWith
  <2>2. CASE amendment[x].rent # Unchanged
    <3>1. AgreedRent[k] = amendment[x].rent
          BY <1>1, <1>4, <2>2, SetsRentWith DEF AgreedFrom
    <3> QED
        BY <2>1, <2>2, <3>1
  <2>3. CASE amendment[x].rent = Unchanged
    <3>1. k \notin IncreaseMonths(EscalationOf(k))
          BY <1>4, <2>3, NoIncreaseAtOnce DEF SwallowsIncrease, Begins
    <3>2. AgreedRent[k] = IF k = 0 THEN BaseRent ELSE AgreedRent[k - 1]
          BY <1>1, <1>4, <2>3, <3>1, SetsRentWith DEF AgreedFrom
    <3> QED
        BY <1>2, <2>1, <2>3, <3>2
  <2> QED
      BY <2>2, <2>3
<1> QED
    BY <1>3, <1>4

LEMMA RentIsAgreed ==
    ASSUME IInv, NEW m \in Month, \A a \in InForce(m) : ~SwallowsIncrease(a)
    PROVE  RentForPeriod(m) \in {TooHigh, AgreedRent[m]}
<1> DEFINE Good == {k \in 0..m : RentForPeriod(k) \in {TooHigh, AgreedRent[k]}}
<1>1. m \in Nat /\ 0..m \subseteq 0..MonthOf(LeaseEnd)
      BY MonthsAreNumbers DEF Month
<1>2. ASSUME NEW k \in 0..m, k # 0 => k - 1 \in Good PROVE k \in Good
  <2>1. k \in 0..MonthOf(LeaseEnd)
        BY <1>1
  <2>2. \A a \in Amendment : Begins(a, k) => ~SwallowsIncrease(a)
        BY <1>1, <2>1 DEF Begins, InForce
  <2>3. RentForPeriod(k) \in {TooHigh, AgreedRent[k]}
        BY <1>2, <2>1, <2>2, AgreedNextMonth
  <2> QED
      BY <2>3
<1> HIDE DEF Good
<1>3. 0 \in Good
      BY <1>1, <1>2
<1>4. \A k \in 0..(m - 1) : k \in Good => k + 1 \in Good
  <2> SUFFICES ASSUME NEW k \in 0..(m - 1), k \in Good PROVE k + 1 \in Good
      OBVIOUS
  <2>1. k + 1 \in 0..m /\ (k + 1) - 1 = k
        BY <1>1
  <2> QED
      BY <1>2, <2>1
<1>5. 0..m \subseteq Good
      BY <1>1, <1>3, <1>4, CountUp
<1> QED
    BY <1>1, <1>5 DEF Good

-----------------------------------------------------------------------------
(* What nextRentIncrease announces. *)

\* A month that is no date of the rent keeps the rent of the month before.
LEMMA RentHolds ==
    ASSUME IInv, NEW k \in 0..MonthOf(LeaseEnd), k \notin RentDates
    PROVE  RentForPeriod(k) = RentForPeriod(k - 1)
<1>1. \A a \in Amendment : ~Begins(a, k)
      BY DEF Begins, RentDates
<1>2. IncreaseMonths(EscalationOf(k)) \subseteq RentDates
  <2> DEFINE S == {a \in InForce(k) : amendment[a].escalation # Unchanged}
  <2>1. EscalationOf(k) = IF S = {} THEN BaseEscalation ELSE amendment[LastOf(S)].escalation
        BY DEF EscalationOf, TermsOf
  <2>2. CASE S = {}
        BY <2>1, <2>2 DEF RentDates
  <2>3. CASE S # {}
    <3>1. S \in SUBSET Amendment /\ AmendmentsOK
          BY DEF InForce, AcceptedAmendments, IInv
    <3>2. LastOf(S) \in S
          BY <2>3, <3>1, LastIsOne
    <3>3. LastOf(S) \in AcceptedAmendments /\ amendment[LastOf(S)].escalation # Unchanged
          BY <3>2 DEF InForce
    <3> HIDE DEF S
    <3> QED
        BY <2>1, <2>3, <3>3 DEF RentDates
  <2> QED
      BY <2>2, <2>3
<1> QED
    BY <1>1, <1>2, RentWithout

LEMMA NothingIsUnannounced ==
    ASSUME IInv, ClockOK
    PROVE  NothingUnannounced
<1> DEFINE now == MonthOf(today)
<1>1. now \in Nat
      BY ScheduleAssumption, DaysAndMonths DEF ClockOK, MonthOf
<1>2. LaterDates \subseteq Nat
      BY RowType, MonthsAreNumbers
         DEF LaterDates, RentDates, IncreaseMonths, AcceptedAmendments
<1>3. ASSUME NEW d \in LaterDates PROVE NextRentIncrease \in Nat /\ NextRentIncrease <= d
  <2>1. PICK x \in LaterDates : \A y \in LaterDates : x <= y
        BY <1>2, <1>3, LeastNumber
  <2>2. NextRentIncrease \in LaterDates /\ \A y \in LaterDates : NextRentIncrease <= y
        BY <2>1 DEF NextRentIncrease
  <2> QED
      BY <1>2, <1>3, <2>2
<1>4. ASSUME NEW m \in Month, m > now, LaterDates = {} \/ m < NextRentIncrease
      PROVE  RentForPeriod(m) = RentForPeriod(now)
  <2> DEFINE Good == {k \in now..m : RentForPeriod(k) = RentForPeriod(now)}
  <2>1. m \in Nat /\ m \in 0..MonthOf(LeaseEnd) /\ MonthOf(LeaseEnd) \in Nat
        BY MonthsAreNumbers DEF Month
  <2>2. ASSUME NEW k \in now..(m - 1), k \in Good PROVE k + 1 \in Good
    <3>1. k + 1 \in 0..MonthOf(LeaseEnd) /\ (k + 1) - 1 = k /\ k + 1 > now /\ k + 1 <= m
          BY <1>1, <2>1
    <3>2. k + 1 \notin LaterDates
          BY <1>3, <1>4, <2>1, <3>1
    <3>3. k + 1 \notin RentDates
          BY <3>1, <3>2 DEF LaterDates
    <3>4. RentForPeriod(k + 1) = RentForPeriod(k)
          BY <3>1, <3>3, RentHolds
    <3> QED
        BY <1>1, <2>1, <2>2, <3>1, <3>4
  <2>3. now \in Good
        BY <1>1, <1>4, <2>1
  <2>4. m \in now..m
        BY <1>1, <1>4, <2>1
  <2> HIDE DEF Good, now
  <2>5. now \in Int /\ m \in Int
        BY <1>1, <2>1
  <2>6. now..m \subseteq Good
        BY <2>2, <2>3, <2>5, CountUp
  <2> QED
      BY <2>4, <2>6 DEF Good
<1> QED
    BY <1>4 DEF NothingUnannounced
-----------------------------------------------------------------------------
(* What is agreed for a month stays, while the amendments in force then stay. *)

LastsAreOnes ==
    AmendmentsOK =>
        \A T \in SUBSET Amendment : T # {} =>
            /\ LastOf(T) \in T
            /\ \A b \in T : amendment[b].month <= amendment[LastOf(T)].month

LEMMA LastsAreAlwaysOnes == LastsAreOnes
BY LastIsOne DEF LastsAreOnes

LEMMA AgreedStays ==
    ASSUME IInv, IInv', NEW m \in Month, InForce(m)' = InForce(m),
           \A a \in InForce(m) : amendment'[a] = amendment[a]
    PROVE  /\ AgreedRent'[m] = AgreedRent[m]
           /\ DueDate(m)' = DueDate(m)
           /\ \A a \in InForce(m) : SwallowsIncrease(a)' <=> SwallowsIncrease(a)
<1>1. LastsAreOnes /\ LastsAreOnes' /\ AgreedMonthByMonth /\ AgreedMonthByMonth'
      BY LastsAreAlwaysOnes, AgreedUnfolds, PTL
<1>2. /\ m \in Nat /\ m \in 0..MonthOf(LeaseEnd) /\ MonthOf(LeaseEnd) \in Nat
      /\ InForce(m) \in SUBSET Amendment
      BY MonthsAreNumbers DEF Month, InForce, AcceptedAmendments
<1>3. \A a \in Amendment : amendment[a].month \in Nat /\ amendment'[a].month \in Nat
  <2>1. \A a \in Amendment : amendment[a].month \in Month /\ amendment'[a].month \in Month
        BY DEF IInv, AmendmentsOK, AmendmentType
  <2> QED
      BY <2>1, MonthsAreNumbers
<1>4. ASSUME NEW k \in 0..m PROVE InForce(k)' = InForce(k) /\ InForce(k) \subseteq InForce(m)
  <2>1. InForce(k) = {a \in InForce(m) : amendment[a].month <= k}
        BY <1>2, <1>3 DEF InForce, AcceptedAmendments
  <2>2. InForce(k)' = {a \in InForce(m)' : amendment'[a].month <= k}
        BY <1>2, <1>3 DEF InForce, AcceptedAmendments
  <2> QED
      BY <2>1, <2>2
<1>5. ASSUME NEW T \in SUBSET InForce(m), T # {} PROVE LastOf(T)' = LastOf(T)
  <2> DEFINE x == LastOf(T)
             y == LastOf(T)'
  <2>1. x \in T /\ \A b \in T : amendment[b].month <= amendment[x].month
        BY <1>1, <1>2, <1>5 DEF LastsAreOnes, IInv
  <2>2. y \in T /\ \A b \in T : amendment'[b].month <= amendment'[y].month
        BY <1>1, <1>2, <1>5 DEF LastsAreOnes, IInv
  <2> HIDE DEF x, y
  <2>3. amendment[x].month <= amendment[y].month /\ amendment[y].month <= amendment[x].month
        BY <2>1, <2>2
  <2>4. x \in AcceptedAmendments /\ y \in AcceptedAmendments /\ x \in Amendment /\ y \in Amendment
        BY <2>1, <2>2 DEF InForce, AcceptedAmendments
  <2>5. amendment[x].month = amendment[y].month
        BY <1>3, <2>3, <2>4
  <2>6. x = y
        BY <2>4, <2>5 DEF IInv, OneTermsPerMonth
  <2> QED
      BY <2>6 DEF x, y
<1>6. ASSUME NEW k \in 0..m PROVE EscalationOf(k)' = EscalationOf(k) /\ SetsRent(k)' = SetsRent(k)
  <2> DEFINE S == {a \in InForce(k) : amendment[a].escalation # Unchanged}
  <2>1. EscalationOf(k) = IF S = {} THEN BaseEscalation ELSE amendment[LastOf(S)].escalation
        BY DEF EscalationOf, TermsOf
  <2>2. S' = S /\ S \in SUBSET InForce(m)
        BY <1>4
  <2>3. S # {} => LastOf(S)' = LastOf(S) /\ LastOf(S) \in S
    <3>1. \A T \in SUBSET InForce(m) : T # {} => LastOf(T)' = LastOf(T) /\ LastOf(T) \in T
          BY <1>1, <1>2, <1>5 DEF LastsAreOnes, IInv
    <3> QED
        BY <2>2, <3>1
  <2>4. EscalationOf(k)' = IF S' = {} THEN BaseEscalation
                           ELSE amendment'[LastOf(S)'].escalation
        BY DEF EscalationOf, TermsOf
  <2>5. SetsRent(k)' = SetsRent(k)
        BY <1>4 DEF SetsRent
  <2> HIDE DEF S
  <2> QED
      BY <2>1, <2>2, <2>3, <2>4, <2>5
<1>7. DueDate(m)' = DueDate(m)
  <2> DEFINE S == {a \in InForce(m) : amendment[a].dueDay # Unchanged}
  <2>1. DueDayForPeriod(m) = IF S = {} THEN BaseDueDay ELSE amendment[LastOf(S)].dueDay
        BY DEF DueDayForPeriod, TermsOf
  <2>2. S' = S /\ S \in SUBSET InForce(m)
        OBVIOUS
  <2>3. S # {} => LastOf(S)' = LastOf(S) /\ LastOf(S) \in S
    <3>1. \A T \in SUBSET InForce(m) : T # {} => LastOf(T)' = LastOf(T) /\ LastOf(T) \in T
          BY <1>1, <1>2, <1>5 DEF LastsAreOnes, IInv
    <3> QED
        BY <2>2, <3>1
  <2>4. DueDayForPeriod(m)' = IF S' = {} THEN BaseDueDay ELSE amendment'[LastOf(S)'].dueDay
        BY DEF DueDayForPeriod, TermsOf
  <2> HIDE DEF S
  <2>5. DueDayForPeriod(m)' = DueDayForPeriod(m)
        BY <2>1, <2>2, <2>3, <2>4
  <2> QED
      BY <2>5 DEF DueDate
<1>8. ASSUME NEW a \in InForce(m) PROVE SwallowsIncrease(a)' <=> SwallowsIncrease(a)
  <2>1. amendment[a].month \in 0..m /\ amendment'[a] = amendment[a]
        BY <1>2, <1>3 DEF InForce
  <2>2. PICK k \in 0..m : k = amendment[a].month /\ k = amendment'[a].month
        BY <2>1
  <2>3. EscalationOf(k)' = EscalationOf(k)
        BY <1>6
  <2>4. EscalationOf(amendment[a].month) = EscalationOf(k)
        BY <2>2
  <2>5. EscalationOf(amendment[a].month)' = EscalationOf(k)'
        BY <2>2 DEF EscalationOf, TermsOf, InForce, AcceptedAmendments, LastOf
  <2> QED
      BY <2>1, <2>2, <2>3, <2>4, <2>5 DEF SwallowsIncrease
<1>9. AgreedRent'[m] = AgreedRent[m]
  <2> DEFINE Good == {k \in 0..m : AgreedRent'[k] = AgreedRent[k]}
  <2>1. ASSUME NEW k \in 0..m, k # 0 => k - 1 \in Good PROVE k \in Good
    <3>1. k \in Month
          BY <1>2 DEF Month
    <3>2. AgreedRent[k] = IF SetsRent(k) # {} THEN amendment[LastOf(SetsRent(k))].rent
                          ELSE IF k = 0 THEN BaseRent
                          ELSE IF k \in IncreaseMonths(EscalationOf(k))
                               THEN Raise(AgreedRent[k - 1], EscalationOf(k))
                               ELSE AgreedRent[k - 1]
          BY <1>1, <3>1 DEF AgreedMonthByMonth, AgreedFrom
    <3>3. AgreedRent'[k] = IF SetsRent(k)' # {} THEN amendment'[LastOf(SetsRent(k))'].rent
                           ELSE IF k = 0 THEN BaseRent
                           ELSE IF k \in IncreaseMonths(EscalationOf(k)')
                                THEN Raise(AgreedRent'[k - 1], EscalationOf(k)')
                                ELSE AgreedRent'[k - 1]
          BY <1>1, <3>1 DEF AgreedMonthByMonth, AgreedFrom
    <3>4. SetsRent(k)' = SetsRent(k) /\ EscalationOf(k)' = EscalationOf(k)
          BY <1>6
    <3>5. SetsRent(k) # {} =>
             /\ LastOf(SetsRent(k))' = LastOf(SetsRent(k))
             /\ LastOf(SetsRent(k)) \in InForce(m)
      <4>1. \A T \in SUBSET InForce(m) : T # {} => LastOf(T)' = LastOf(T) /\ LastOf(T) \in T
            BY <1>1, <1>2, <1>5 DEF LastsAreOnes, IInv
      <4>2. SetsRent(k) \in SUBSET InForce(m)
            BY <1>4 DEF SetsRent
      <4> QED
          BY <3>4, <4>1, <4>2
    <3> QED
        BY <2>1, <3>2, <3>3, <3>4, <3>5
  <2> HIDE DEF Good
  <2>2. 0 \in Good
        BY <1>2, <2>1
  <2>3. ASSUME NEW k \in 0..(m - 1), k \in Good PROVE k + 1 \in Good
    <3>1. k + 1 \in 0..m /\ (k + 1) - 1 = k
          BY <1>2
    <3> QED
        BY <2>1, <2>3, <3>1
  <2>4. 0..m \subseteq Good
        BY <1>2, <2>2, <2>3, CountUp
  <2> QED
      BY <1>2, <2>4 DEF Good
<1> QED
    BY <1>7, <1>8, <1>9
-----------------------------------------------------------------------------
(* The bills. *)

BillsOK == bill \in [Month -> [amount : Nat, due : Nat]]
LeaseOK == status \in {"ACTIVE", "EXPIRED", "TERMINATED"} /\ terminated \in 0..Never

\* A month is billed when it has begun. What is accepted later is accepted after its
\* first day, so that BilledAsAgreed is inductive with this.
BillsBegun == \A m \in Month : Billed(m) => FirstDay(m) <= today

BInv == IInv /\ ClockOK /\ LeaseOK /\ BillsOK /\ BillsBegun /\ BilledAsAgreed

LEMMA DueDateType ==
    ASSUME IInv, NEW m \in Month
    PROVE  DueDate(m) \in Nat
<1> DEFINE S == {a \in InForce(m) : amendment[a].dueDay # Unchanged}
<1>1. m \in Nat /\ MonthDays \in Nat \ {0} /\ LeaseStart \in Nat
      BY MonthsAreNumbers, ScheduleAssumption
<1>2. m * MonthDays \in Nat
      BY <1>1
<1>3. DueDayForPeriod(m) = IF S = {} THEN BaseDueDay ELSE amendment[LastOf(S)].dueDay
      BY DEF DueDayForPeriod, TermsOf
<1>4. DueDayForPeriod(m) \in Nat \ {0}
  <2>1. CASE S = {}
        BY <1>3, <2>1, ScheduleAssumption
  <2>2. CASE S # {}
    <3>1. S \in SUBSET Amendment /\ AmendmentsOK
          BY DEF InForce, AcceptedAmendments, IInv
    <3>2. LastOf(S) \in S
          BY <2>2, <3>1, LastIsOne
    <3>3. LastOf(S) \in Amendment /\ amendment[LastOf(S)].dueDay # Unchanged
          BY <3>1, <3>2
    <3>4. amendment[LastOf(S)].dueDay \in DueDay
          BY <3>3, RowType
    <3> HIDE DEF S
    <3> QED
        BY <1>3, <2>2, <3>4, ScheduleAssumption
  <2> QED
      BY <2>1, <2>2
<1>5. Least(DueDayForPeriod(m), MonthDays) \in Nat \ {0}
      BY <1>1, <1>4 DEF Least
<1>6. FirstDay(m) + Least(DueDayForPeriod(m), MonthDays) - 1 \in Nat
      BY <1>2, <1>5 DEF FirstDay
<1> QED
    BY <1>1, <1>6 DEF DueDate, Greatest

\* What is in force in month m is what it was before the step.
Stays(m) == InForce(m)' = InForce(m) /\ \A a \in InForce(m) : amendment'[a] = amendment[a]

LEMMA AcceptedStay ==
    ASSUME AcceptedAmendments' = AcceptedAmendments,
           \A a \in AcceptedAmendments : amendment'[a] = amendment[a], NEW m
    PROVE  Stays(m)
<1>1. InForce(m)' = {a \in AcceptedAmendments' : amendment'[a].month <= m}
      BY DEF InForce
<1>2. InForce(m) = {a \in AcceptedAmendments : amendment[a].month <= m}
      BY DEF InForce
<1> QED
    BY <1>1, <1>2 DEF Stays

\* A bill stays right: the terms of its month stay, or what joins them is accepted too
\* late for it.
LEMMA BillsStay ==
    ASSUME BInv, IInv', bill' = bill, today' \in Nat, today <= today',
           \A m \in Month : Stays(m) \/ \E a \in InForce(m)' : amendment'[a].accepted = today
    PROVE  BillsOK' /\ BillsBegun' /\ BilledAsAgreed'
<1>1. \A m \in Month : Billed(m)' <=> Billed(m)
      BY DEF Billed
<1>2. today \in Nat /\ \A m \in Month : FirstDay(m) \in Nat
  <2>1. \A m \in Nat : m * MonthDays \in Nat
        BY ScheduleAssumption
  <2> QED
      BY <2>1, MonthsAreNumbers, ScheduleAssumption DEF BInv, ClockOK, FirstDay
<1>3. BillsBegun'
  <2>1. ASSUME NEW m \in Month, Billed(m)' PROVE FirstDay(m) <= today'
    <3>1. FirstDay(m) <= today
          BY <1>1, <2>1 DEF BInv, BillsBegun
    <3> QED
        BY <1>2, <3>1
  <2> QED
      BY <2>1 DEF BillsBegun
<1>4. ASSUME NEW m \in Month, Billed(m)',
             \A a \in InForce(m)' : amendment'[a].accepted < FirstDay(m) /\ ~SwallowsIncrease(a)'
      PROVE  bill'[m].amount = AgreedRent'[m] /\ bill'[m].due = DueDate(m)'
  <2>1. Billed(m) /\ FirstDay(m) <= today
        BY <1>1, <1>4 DEF BInv, BillsBegun
  <2>2. Stays(m)
    <3>1. ASSUME NEW a \in InForce(m)', amendment'[a].accepted = today PROVE FALSE
          BY <1>2, <1>4, <2>1, <3>1
    <3> QED
        BY <3>1
  <2>3. /\ AgreedRent'[m] = AgreedRent[m] /\ DueDate(m)' = DueDate(m)
        /\ \A a \in InForce(m) : SwallowsIncrease(a)' <=> SwallowsIncrease(a)
        BY <2>2, AgreedStays DEF BInv, Stays
  <2>4. \A a \in InForce(m) : amendment[a].accepted < FirstDay(m) /\ ~SwallowsIncrease(a)
        BY <1>4, <2>2, <2>3 DEF Stays
  <2>5. bill[m].amount = AgreedRent[m] /\ bill[m].due = DueDate(m)
        BY <2>1, <2>4 DEF BInv, BilledAsAgreed
  <2> QED
      BY <2>3, <2>5
<1>5. BilledAsAgreed'
      BY <1>4 DEF BilledAsAgreed
<1>6. BillsOK'
      BY DEF BInv, BillsOK
<1> QED
    BY <1>3, <1>5, <1>6

\* generateCurrentObligations bills what is agreed.
LEMMA BillsMade ==
    ASSUME BInv, IInv', amendment' = amendment, today' = today, GenerateCurrentObligations
    PROVE  BillsOK' /\ BillsBegun' /\ BilledAsAgreed'
<1> DEFINE Made(m) == m \in DueMonths /\ ~Billed(m) /\ (\A k \in Unreadable : m < k)
<1>1. \A m \in Month : bill'[m] = IF Made(m) THEN [amount |-> RentForPeriod(m), due |-> DueDate(m)]
                                  ELSE bill[m]
      BY DEF GenerateCurrentObligations
<1>2. ASSUME NEW m \in Month, Made(m)
      PROVE  /\ FirstDay(m) <= today /\ RentForPeriod(m) # TooHigh
             /\ RentForPeriod(m) \in Nat /\ DueDate(m) \in Nat
  <2>1. m \in Nat /\ m \in (-1)..MonthOf(LeaseEnd) /\ MaxRent \in Nat
        BY MonthsAreNumbers, ScheduleAssumption DEF Month
  <2>2. m \notin Unreadable /\ FirstDay(m) <= today
    <3>1. ~(m < m)
          BY <2>1
    <3> QED
        BY <1>2, <3>1 DEF DueMonths
  <2>3. RentForPeriod(m) # TooHigh
        BY <1>2, <2>2 DEF Unreadable
  <2>4. RentForPeriod(m) \in Nat
    <3>1. RentForPeriod(m) \in 0..TooHigh
          BY <2>1, RentForPeriodType DEF BInv
    <3> QED
        BY <2>1, <3>1 DEF TooHigh
  <2>5. DueDate(m) \in Nat
        BY DueDateType DEF BInv
  <2> QED
      BY <2>2, <2>3, <2>4, <2>5
<1>3. \A m \in Month : Stays(m)
      BY DEF Stays, InForce, AcceptedAmendments
<1> HIDE DEF Made
<1>4. BillsOK'
  <2>1. ASSUME NEW m \in Month PROVE bill'[m] \in [amount : Nat, due : Nat]
    <3>1. CASE Made(m)
      <4>1. bill'[m] = [amount |-> RentForPeriod(m), due |-> DueDate(m)]
            BY <1>1, <3>1
      <4>2. RentForPeriod(m) \in Nat /\ DueDate(m) \in Nat
            BY <1>2, <3>1
      <4> QED
          BY <4>1, <4>2
    <3>2. CASE ~Made(m)
      <4>1. bill'[m] = bill[m]
            BY <1>1, <3>2
      <4> QED
          BY <4>1 DEF BInv, BillsOK
    <3> QED
        BY <3>1, <3>2
  <2>2. bill' = [m \in Month |-> bill'[m]]
        BY DEF GenerateCurrentObligations
  <2> QED
      BY <2>1, <2>2 DEF BillsOK
<1>5. BillsBegun'
  <2>1. ASSUME NEW m \in Month, Billed(m)' PROVE FirstDay(m) <= today'
        BY <1>1, <1>2, <2>1 DEF BInv, BillsBegun, Billed
  <2> QED
      BY <2>1 DEF BillsBegun
<1>6. ASSUME NEW m \in Month, Billed(m)',
             \A a \in InForce(m)' : amendment'[a].accepted < FirstDay(m) /\ ~SwallowsIncrease(a)'
      PROVE  bill'[m].amount = AgreedRent'[m] /\ bill'[m].due = DueDate(m)'
  <2>1. /\ AgreedRent'[m] = AgreedRent[m] /\ DueDate(m)' = DueDate(m)
        /\ \A a \in InForce(m) : SwallowsIncrease(a)' <=> SwallowsIncrease(a)
        BY <1>3, AgreedStays DEF BInv, Stays
  <2>2. \A a \in InForce(m) : amendment[a].accepted < FirstDay(m) /\ ~SwallowsIncrease(a)
        BY <1>3, <1>6, <2>1 DEF Stays
  <2>3. CASE Made(m)
    <3>1. RentForPeriod(m) = AgreedRent[m]
          BY <1>2, <2>2, <2>3, RentIsAgreed DEF BInv
    <3>2. bill'[m] = [amount |-> RentForPeriod(m), due |-> DueDate(m)]
          BY <1>1, <2>3
    <3>3. bill'[m].amount = RentForPeriod(m) /\ bill'[m].due = DueDate(m)
          BY <3>2
    <3> QED
        BY <2>1, <3>1, <3>3
  <2>4. CASE ~Made(m)
    <3>1. Billed(m) /\ bill'[m] = bill[m]
          BY <1>1, <1>6, <2>4 DEF Billed
    <3>2. bill[m].amount = AgreedRent[m] /\ bill[m].due = DueDate(m)
          BY <2>2, <3>1 DEF BInv, BilledAsAgreed
    <3> QED
        BY <2>1, <3>1, <3>2
  <2> QED
      BY <2>3, <2>4
<1>7. BilledAsAgreed'
      BY <1>6 DEF BilledAsAgreed
<1> QED
    BY <1>4, <1>5, <1>7

LEMMA InitBInv == Init => BInv
<1> SUFFICES ASSUME Init PROVE BInv
    OBVIOUS
<1>1. IInv /\ ClockOK /\ LeaseOK
      BY InitIInv, ScheduleAssumption DEF Init, ClockOK, LeaseOK, Never
<1>2. \A m \in Month : bill[m] = NoBill
      BY DEF Init
<1>3. BillsOK
      BY ScheduleAssumption DEF Init, BillsOK, NoBill, Never
<1>4. BillsBegun /\ BilledAsAgreed
      BY <1>2 DEF BillsBegun, BilledAsAgreed, Billed
<1> QED
    BY <1>1, <1>3, <1>4 DEF BInv

LEMMA ProposeBills ==
    ASSUME BInv, IInv', NEW a \in Amendment, NEW month, NEW rent, NEW escalation, NEW dueDay,
           ProposeAmendment(a, month, rent, escalation, dueDay)
    PROVE  BillsOK' /\ BillsBegun' /\ BilledAsAgreed'
<1>1. /\ a \notin AcceptedAmendments /\ a \notin AcceptedAmendments'
      /\ \A b \in Amendment \ {a} : amendment'[b] = amendment[b]
      BY DEF ProposeAmendment, AcceptedAmendments, BInv, IInv, AmendmentsOK
<1>2. /\ AcceptedAmendments' = AcceptedAmendments
      /\ \A b \in AcceptedAmendments : amendment'[b] = amendment[b]
      BY <1>1 DEF AcceptedAmendments
<1>3. \A m \in Month : Stays(m)
      BY <1>2, AcceptedStay
<1>4. bill' = bill /\ today' = today /\ today \in Nat
      BY ScheduleAssumption DEF ProposeAmendment, BInv, ClockOK
<1> QED
    BY <1>3, <1>4, BillsStay

LEMMA SettleBills ==
    ASSUME BInv, IInv', NEW a \in Amendment,
           NEW decision \in {"ACCEPTED", "REJECTED", "WITHDRAWN"}, Settle(a, decision)
    PROVE  BillsOK' /\ BillsBegun' /\ BilledAsAgreed'
<1>1. /\ a \notin AcceptedAmendments
      /\ \A b \in Amendment \ {a} : amendment'[b] = amendment[b]
      /\ amendment'[a].status = decision
      /\ decision = "ACCEPTED" => amendment'[a].accepted = today
      BY DEF Settle, Pending, AcceptedAmendments, BInv, IInv, AmendmentsOK, AmendmentType
<1>2. bill' = bill /\ today' = today /\ today \in Nat
      BY ScheduleAssumption DEF Settle, BInv, ClockOK
<1>3. CASE decision # "ACCEPTED"
  <2>1. /\ AcceptedAmendments' = AcceptedAmendments
        /\ \A b \in AcceptedAmendments : amendment'[b] = amendment[b]
        BY <1>1, <1>3 DEF AcceptedAmendments
  <2>2. \A m \in Month : Stays(m)
        BY <2>1, AcceptedStay
  <2> QED
      BY <1>2, <2>2, BillsStay
<1>4. CASE decision = "ACCEPTED"
  <2>1. /\ AcceptedAmendments' = AcceptedAmendments \cup {a}
        /\ \A b \in AcceptedAmendments : amendment'[b] = amendment[b]
        BY <1>1, <1>4 DEF AcceptedAmendments
  <2>2. ASSUME NEW m \in Month
        PROVE  Stays(m) \/ \E b \in InForce(m)' : amendment'[b].accepted = today
    <3>1. CASE amendment'[a].month <= m
      <4>1. a \in InForce(m)'
            BY <2>1, <3>1 DEF InForce
      <4> QED
          BY <1>1, <1>4, <4>1
    <3>2. CASE ~(amendment'[a].month <= m)
      <4>1. InForce(m)' = {b \in AcceptedAmendments' : amendment'[b].month <= m}
            BY DEF InForce
      <4>2. InForce(m) = {b \in AcceptedAmendments : amendment[b].month <= m}
            BY DEF InForce
      <4> QED
          BY <2>1, <3>2, <4>1, <4>2 DEF Stays
    <3> QED
        BY <3>1, <3>2
  <2> QED
      BY <1>2, <2>2, BillsStay
<1> QED
    BY <1>3, <1>4

LEMMA NextBInv == BInv /\ [Next]_vars => BInv'
<1> SUFFICES ASSUME BInv, [Next]_vars PROVE BInv'
    OBVIOUS
<1>1. IInv' /\ ClockOK'
      BY NextIInv DEF BInv
<1>2. today \in Nat /\ today \in 0..Never /\ Never \in Nat
      BY ScheduleAssumption DEF BInv, ClockOK, Never
<1>3. LeaseOK'
      BY <1>2 DEF BInv, LeaseOK, Next, vars, View, Terminate, Tick, ProposeAmendment,
                  DecideAmendment, WithdrawAmendment, Settle
<1>4. ASSUME UNCHANGED vars PROVE BillsOK' /\ BillsBegun' /\ BilledAsAgreed'
  <2>1. bill' = bill /\ amendment' = amendment /\ today' = today
        BY <1>4 DEF vars
  <2>2. \A m \in Month : Stays(m)
        BY <2>1 DEF Stays, InForce, AcceptedAmendments
  <2> QED
      BY <1>1, <1>2, <2>1, <2>2, BillsStay
<1>5. ASSUME NEW a \in Amendment, NEW month \in Month, NEW rent \in Rent \cup {Unchanged},
             NEW dueDay \in DueDay \cup {Unchanged},
             NEW escalation \in Escalation \cup {NoEscalation, Unchanged},
             ProposeAmendment(a, month, rent, escalation, dueDay)
      PROVE  BillsOK' /\ BillsBegun' /\ BilledAsAgreed'
      BY <1>1, <1>5, ProposeBills
<1>6. ASSUME NEW a \in Amendment, NEW decision \in {"ACCEPTED", "REJECTED"},
             DecideAmendment(a, decision)
      PROVE  BillsOK' /\ BillsBegun' /\ BilledAsAgreed'
      BY <1>1, <1>6, SettleBills DEF DecideAmendment
<1>7. ASSUME NEW a \in Amendment, WithdrawAmendment(a)
      PROVE  BillsOK' /\ BillsBegun' /\ BilledAsAgreed'
      BY <1>1, <1>7, SettleBills DEF WithdrawAmendment
<1>8. ASSUME View \/ Terminate PROVE BillsOK' /\ BillsBegun' /\ BilledAsAgreed'
  <2>1. amendment' = amendment /\ today' = today /\ GenerateCurrentObligations
        BY <1>8 DEF View, Terminate
  <2> QED
      BY <1>1, <2>1, BillsMade
<1>9. ASSUME Tick PROVE BillsOK' /\ BillsBegun' /\ BilledAsAgreed'
  <2>1. bill' = bill /\ amendment' = amendment /\ today' = today + 1
        BY <1>9 DEF Tick
  <2>2. \A m \in Month : Stays(m)
        BY <2>1 DEF Stays, InForce, AcceptedAmendments
  <2>3. today' \in Nat /\ today <= today'
        BY <1>2, <2>1
  <2> QED
      BY <1>1, <2>1, <2>2, <2>3, BillsStay
<1>10. BillsOK' /\ BillsBegun' /\ BilledAsAgreed'
      BY <1>4, <1>5, <1>6, <1>7, <1>8, <1>9 DEF Next
<1> QED
    BY <1>1, <1>3, <1>10 DEF BInv

\* What the stores hold is of its type; in particular no bill is made of a rent that
\* cannot be computed (rentForPeriod, generateCurrentObligations).
THEOREM TypeCorrect == Spec => []TypeOK
<1>1. BInv => TypeOK
      BY DEF BInv, IInv, AmendmentsOK, BillsOK, LeaseOK, ClockOK, TypeOK
<1> QED
    BY <1>1, InitBInv, NextBInv, PTL DEF Spec

\* Amendments come one after the other, every month is billed the rent and the due day
\* agreed before it began, whoever looks
\* when and whatever is amended in between, and the rent of no month differs from
\* today's before the date that is announced (rentForPeriod, dueDayForPeriod,
\* nextRentIncrease, generateCurrentObligations).
THEOREM RentIsAsAgreed == Spec => []RentAsAgreed
<1>1. BInv => RentAsAgreed
      BY NothingIsUnannounced DEF BInv, IInv, RentAsAgreed
<1> QED
    BY <1>1, InitBInv, NextBInv, PTL DEF Spec
================================================================================
