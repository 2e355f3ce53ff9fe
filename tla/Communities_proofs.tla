-------------------------- MODULE Communities_proofs --------------------------
(****************************************************************************)
(* Proofs about Communities, Jurisdiction and Registrations, for any        *)
(* communities, towers, floors, apartments, accounts and tickets, any plans *)
(* and rates, and any applications, evidence and pricing.                   *)
(****************************************************************************)
EXTENDS Jurisdiction, RegistrationPages, Sums

IInv == TypeOK /\ HierarchyWhole /\ PlanRespected

LEMMA KindsDiffer ==
    /\ \A x \in Community : x \notin Tower /\ x \notin Apartment /\ x # NoParent /\ x # Removed
    /\ \A x \in Tower : x \notin Apartment /\ x # NoParent /\ x # Removed
    /\ \A x \in Floor : x # NoParent
    /\ \A x \in Apartment : x # NoParent
    /\ NoParent # Removed
<1> DEFINE Kind == <<Community, Tower, Floor, Apartment, {NoParent}, {Removed}>>
<1>1. \A i, j \in 1..6 : i # j => Kind[i] \cap Kind[j] = {}
      BY CommunitiesAssumption
<1>2. /\ Kind[1] = Community /\ Kind[2] = Tower /\ Kind[3] = Floor
      /\ Kind[4] = Apartment /\ Kind[5] = {NoParent} /\ Kind[6] = {Removed}
      OBVIOUS
<1> HIDE DEF Kind
<1>3. /\ Community \cap Tower = {} /\ Community \cap Apartment = {}
      /\ Community \cap {NoParent} = {} /\ Community \cap {Removed} = {}
      /\ Tower \cap Apartment = {} /\ Tower \cap {NoParent} = {} /\ Tower \cap {Removed} = {}
      /\ Floor \cap {NoParent} = {} /\ Apartment \cap {NoParent} = {}
      /\ {NoParent} \cap {Removed} = {}
      BY <1>1, <1>2
<1> QED
    BY <1>3

-----------------------------------------------------------------------------
(* Types. *)

LEMMA PlanFields ==
    ASSUME NEW p \in Plan
    PROVE  p.towers \in Nat /\ p.apartments \in Nat /\ Amount(p) \in Int
<1>1. p.towers \in Nat /\ p.apartments \in Nat
      BY CommunitiesAssumption
<1>2. p.towers * TowerRate \in Int /\ p.apartments * ApartmentRate \in Int
      BY <1>1, CommunitiesAssumption
<1> QED
    BY <1>1, <1>2 DEF Amount

LEMMA NewSubscription ==
    ASSUME NEW plan \in Plan
    PROVE  LET s == [NoSubscription EXCEPT !.status = "PAYMENT_PENDING", !.plan = plan]
           IN  /\ s \in SubscriptionType
               /\ s.status = "PAYMENT_PENDING" /\ s.plan = plan
               /\ s.pending = NoPlan /\ s.due = 0
<1>1. NoSubscription \in SubscriptionType /\ NoSubscription.pending = NoPlan
         /\ NoSubscription.due = 0
      BY DEF NoSubscription, SubscriptionType
<1>2. ASSUME NEW x \in SubscriptionType
      PROVE  LET s == [x EXCEPT !.status = "PAYMENT_PENDING", !.plan = plan]
             IN  /\ s \in SubscriptionType
                 /\ s.status = "PAYMENT_PENDING" /\ s.plan = plan
                 /\ s.pending = x.pending /\ s.due = x.due
      BY DEF SubscriptionType
<1> QED
    BY <1>1, <1>2

LEMMA TypePreserved ==
    ASSUME TypeOK, Next
    PROVE  TypeOK'
<1>1. ASSUME NEW c \in Community, NEW u \in User, NEW plan \in Plan, NEW n \in 0..3,
             CreateCommunity(c, u, plan, n)
      PROVE  TypeOK'
    <2> DEFINE row == [NoSubscription EXCEPT !.status = "PAYMENT_PENDING", !.plan = plan]
    <2>1. row \in SubscriptionType /\ row.plan = plan
          BY NewSubscription
    <2>2. /\ community' \in [Community -> {"NONE", "OPEN", "DELETED"}]
          /\ place' \in [User -> Place \cup {NoParent}]
          BY <1>1 DEF CreateCommunity, TypeOK, Place
    <2>3. /\ subscription' \in [Community -> SubscriptionType]
          /\ \A d \in Community : subscription'[d].status # "NONE" => subscription'[d].plan \in Plan
        <3>1. subscription' \in {subscription, [subscription EXCEPT ![c] = row]}
              BY <1>1 DEF CreateCommunity
        <3> HIDE DEF row
        <3> QED
            BY <2>1, <3>1 DEF TypeOK
    <2> QED
        BY <1>1, <2>2, <2>3 DEF CreateCommunity, TypeOK
<1>2. ASSUME NEW c \in Community, DeleteCommunity(c)
      PROVE  TypeOK'
      BY <1>2 DEF DeleteCommunity, TypeOK
<1>3. ASSUME NEW c \in Community, CompleteMockPayment(c)
      PROVE  TypeOK'
      BY <1>3 DEF CompleteMockPayment, TypeOK, SubscriptionType
<1>4. ASSUME NEW c \in Community, NEW plan \in Plan, RequestUpgrade(c, plan)
      PROVE  TypeOK'
    <2>1. UpgradeAmount(subscription[c], plan) \in Int
          BY <1>4, PlanFields DEF RequestUpgrade, UpgradeAmount, TypeOK
    <2> DEFINE row == [subscription[c] EXCEPT !.pending = plan,
                                              !.due = UpgradeAmount(subscription[c], plan)]
    <2>2. /\ row \in SubscriptionType
          /\ row.status = subscription[c].status /\ row.plan = subscription[c].plan
          BY <2>1 DEF TypeOK, SubscriptionType
    <2>3. subscription' = [subscription EXCEPT ![c] = row]
          BY <1>4 DEF RequestUpgrade
    <2> HIDE DEF row
    <2> QED
        BY <1>4, <2>2, <2>3 DEF RequestUpgrade, TypeOK
<1>5. ASSUME NEW c \in Community, CompleteMockUpgrade(c)
      PROVE  TypeOK'
      BY <1>5 DEF CompleteMockUpgrade, TypeOK, SubscriptionType
<1>6. ASSUME NEW t \in Tower, NEW c \in Community, CreateTower(t, c) \/ UpdateTower(t, c)
      PROVE  TypeOK'
      BY <1>6 DEF CreateTower, UpdateTower, TypeOK
<1>7. ASSUME NEW t \in Tower, DeleteTower(t)
      PROVE  TypeOK'
      BY <1>7 DEF DeleteTower, TypeOK
<1>8. ASSUME NEW t \in Tower, NEW f \in Floor, CreateFloor(f, t) \/ UpdateFloor(f, t)
      PROVE  TypeOK'
      BY <1>8 DEF CreateFloor, UpdateFloor, TypeOK
<1>9. ASSUME NEW f \in Floor, DeleteFloor(f)
      PROVE  TypeOK'
      BY <1>9 DEF DeleteFloor, TypeOK
<1>10. ASSUME NEW a \in Apartment, NEW f \in Floor, NEW o \in User \cup {NoUser},
              CreateApartment(a, f, o)
       PROVE  TypeOK'
       BY <1>10 DEF CreateApartment, TypeOK
<1>11. ASSUME NEW a \in Apartment, NEW f \in Floor, UpdateApartment(a, f)
       PROVE  TypeOK'
       BY <1>11 DEF UpdateApartment, TypeOK
<1>12. ASSUME NEW a \in Apartment, NEW o \in User \cup {NoUser}, TransferOwnership(a, o)
       PROVE  TypeOK'
       BY <1>12 DEF TransferOwnership, TypeOK
<1>13. ASSUME NEW a \in Apartment, DeleteApartment(a)
       PROVE  TypeOK'
       BY <1>13 DEF DeleteApartment, TypeOK
<1>14. ASSUME NEW a \in Apartment, NEW u \in User,
              CreateOwnerOccupant(u, a) \/ AssociateResident(u, a)
       PROVE  TypeOK'
       BY <1>14 DEF CreateOwnerOccupant, AssociateResident, TypeOK, Place
<1>15. ASSUME NEW u \in User, NEW p \in Place, CreateUser(u, p) \/ UpdateUser(u, p)
       PROVE  TypeOK'
       BY <1>15 DEF CreateUser, UpdateUser, TypeOK
<1>16. ASSUME NEW u \in User, DeleteUser(u)
       PROVE  TypeOK'
       BY <1>16 DEF DeleteUser, TypeOK
<1>17. ASSUME NEW u \in User, NEW t \in Tower, AssociateRepresentative(u, t)
       PROVE  TypeOK'
       BY <1>17 DEF AssociateRepresentative, TypeOK, Place
<1> QED
    BY <1>1, <1>2, <1>3, <1>4, <1>5, <1>6, <1>7, <1>8, <1>9, <1>10, <1>11, <1>12, <1>13,
       <1>14, <1>15, <1>16, <1>17 DEF Next

-----------------------------------------------------------------------------
(* The hierarchy stays whole. *)

LEMMA HierarchyKept ==
    ASSUME TypeOK, HierarchyWhole, Next
    PROVE  HierarchyWhole'
<1> USE KindsDiffer DEF IsTower, IsFloor, IsApartment, IsResident
<1> USE DEF HierarchyWhole, RowsHang, OwnerIsResident, FoundedTogether, OneRepresentative
<1>1. ASSUME NEW c \in Community, NEW u \in User, NEW plan \in Plan, NEW n \in 0..3,
             CreateCommunity(c, u, plan, n)
      PROVE  HierarchyWhole'
      BY <1>1 DEF CreateCommunity, TypeOK, Kept, NoSubscription
<1>2. ASSUME NEW c \in Community, DeleteCommunity(c)
      PROVE  HierarchyWhole'
      BY <1>2 DEF DeleteCommunity, TypeOK, TowersOf
<1>3. ASSUME NEW c \in Community, CompleteMockPayment(c)
      PROVE  HierarchyWhole'
      BY <1>3 DEF CompleteMockPayment, TypeOK, SubscriptionType
<1>4. ASSUME NEW c \in Community, NEW plan \in Plan, RequestUpgrade(c, plan)
      PROVE  HierarchyWhole'
      BY <1>4 DEF RequestUpgrade, TypeOK, SubscriptionType
<1>5. ASSUME NEW c \in Community, CompleteMockUpgrade(c)
      PROVE  HierarchyWhole'
      BY <1>5 DEF CompleteMockUpgrade, TypeOK, SubscriptionType
<1>6. ASSUME NEW t \in Tower, NEW c \in Community, CreateTower(t, c) \/ UpdateTower(t, c)
      PROVE  HierarchyWhole'
      BY <1>6 DEF CreateTower, UpdateTower, TypeOK
<1>7. ASSUME NEW t \in Tower, DeleteTower(t)
      PROVE  HierarchyWhole'
      BY <1>7 DEF DeleteTower, HasNoFloors, TypeOK
<1>8. ASSUME NEW t \in Tower, NEW f \in Floor, CreateFloor(f, t) \/ UpdateFloor(f, t)
      PROVE  HierarchyWhole'
      BY <1>8 DEF CreateFloor, UpdateFloor, TypeOK
<1>9. ASSUME NEW f \in Floor, DeleteFloor(f)
      PROVE  HierarchyWhole'
      BY <1>9 DEF DeleteFloor, ApartmentsOnFloor, TypeOK
<1>10. ASSUME NEW a \in Apartment, NEW f \in Floor, NEW o \in User \cup {NoUser},
              CreateApartment(a, f, o)
       PROVE  HierarchyWhole'
       BY <1>10 DEF CreateApartment, CanOwn, TypeOK
<1>11. ASSUME NEW a \in Apartment, NEW f \in Floor, UpdateApartment(a, f)
       PROVE  HierarchyWhole'
       BY <1>11 DEF UpdateApartment, TypeOK
<1>12. ASSUME NEW a \in Apartment, NEW o \in User \cup {NoUser}, TransferOwnership(a, o)
       PROVE  HierarchyWhole'
       BY <1>12 DEF TransferOwnership, CanOwn, TypeOK
<1>13. ASSUME NEW a \in Apartment, DeleteApartment(a)
       PROVE  HierarchyWhole'
       BY <1>13 DEF DeleteApartment, TypeOK
<1>14. ASSUME NEW a \in Apartment, NEW u \in User, CreateOwnerOccupant(u, a)
       PROVE  HierarchyWhole'
       BY <1>14, CommunitiesAssumption DEF CreateOwnerOccupant, ValidPlace, Exists, TypeOK
<1>15. ASSUME NEW a \in Apartment, NEW u \in User, AssociateResident(u, a)
       PROVE  HierarchyWhole'
       BY <1>15 DEF AssociateResident, UserMutable, OwnsNothing, TypeOK
<1>16. ASSUME NEW u \in User, NEW p \in Place, CreateUser(u, p)
       PROVE  HierarchyWhole'
       BY <1>16 DEF CreateUser, ValidPlace, Exists, NoOtherRepresentative, Place, TypeOK
<1>17. ASSUME NEW u \in User, NEW p \in Place, UpdateUser(u, p)
       PROVE  HierarchyWhole'
       BY <1>17 DEF UpdateUser, UserMutable, OwnsNothing, ValidPlace, Exists,
                    NoOtherRepresentative, Place, TypeOK
<1>18. ASSUME NEW u \in User, DeleteUser(u)
       PROVE  HierarchyWhole'
       BY <1>18 DEF DeleteUser, UserMutable, OwnsNothing, TypeOK
<1>19. ASSUME NEW u \in User, NEW t \in Tower, AssociateRepresentative(u, t)
       PROVE  HierarchyWhole'
       BY <1>19 DEF AssociateRepresentative, NoOtherRepresentative, TypeOK
<1> QED
    BY <1>1, <1>2, <1>3, <1>4, <1>5, <1>6, <1>7, <1>8, <1>9, <1>10, <1>11, <1>12, <1>13,
       <1>14, <1>15, <1>16, <1>17, <1>18, <1>19 DEF Next

-----------------------------------------------------------------------------
(* Nothing exceeds its plan. *)

\* What is counted is finite.
LEMMA CountsAreNumbers ==
    ASSUME NEW S, S \subseteq Tower \/ S \subseteq Apartment
    PROVE  IsFiniteSet(S) /\ Cardinality(S) \in Nat
BY CommunitiesAssumption, FS_Subset, FS_CardinalityType

\* A part fits where the whole does, and a union where the sum does.
LEMMA PartFits ==
    ASSUME NEW S, NEW R, NEW T, NEW n \in Nat,
           \/ S \subseteq Tower /\ R \subseteq Tower
           \/ S \subseteq Apartment /\ R \subseteq Apartment,
           T \subseteq S \cup R,
           Cardinality(S) + Cardinality(R) <= n
    PROVE  Cardinality(T) <= n
<1>1. S \cup R \subseteq Tower \/ S \cup R \subseteq Apartment
      OBVIOUS
<1>2. /\ IsFiniteSet(S) /\ Cardinality(S) \in Nat
      /\ IsFiniteSet(R) /\ Cardinality(R) \in Nat
      /\ IsFiniteSet(S \cup R) /\ Cardinality(S \cup R) \in Nat
      /\ Cardinality(S \cap R) \in Nat
      BY <1>1, CountsAreNumbers
<1>3. Cardinality(S \cup R) = Cardinality(S) + Cardinality(R) - Cardinality(S \cap R)
      BY <1>2, FS_Union
<1>4. Cardinality(T) <= Cardinality(S \cup R) /\ Cardinality(T) \in Nat
      BY <1>2, FS_Subset, FS_CardinalityType
<1> QED
    BY <1>2, <1>3, <1>4

\* A count that only loses rows still fits its plan.
LEMMA FewerFit ==
    ASSUME TypeOK, NEW c \in Community,
           TowersFit(c, Cardinality(TowersOf(c))),
           ApartmentsFit(c, Cardinality(ApartmentsOf(c)))
    PROVE  /\ \A T \in SUBSET TowersOf(c) : TowersFit(c, Cardinality(T))
           /\ \A T \in SUBSET ApartmentsOf(c) : ApartmentsFit(c, Cardinality(T))
<1>1. TowersOf(c) \subseteq Tower /\ ApartmentsOf(c) \subseteq Apartment
      BY DEF TowersOf, ApartmentsOf
<1>2. /\ \A T \in SUBSET TowersOf(c) :
            /\ Cardinality(T) <= Cardinality(TowersOf(c))
            /\ Cardinality(T) \in Nat /\ Cardinality(TowersOf(c)) \in Nat
      /\ \A T \in SUBSET ApartmentsOf(c) :
            /\ Cardinality(T) <= Cardinality(ApartmentsOf(c))
            /\ Cardinality(T) \in Nat /\ Cardinality(ApartmentsOf(c)) \in Nat
      BY <1>1, CountsAreNumbers, FS_Subset
<1>3. subscription[c].status # "NONE" =>
          subscription[c].plan.towers \in Nat /\ subscription[c].plan.apartments \in Nat
      BY PlanFields DEF TypeOK
<1> QED
    BY <1>2, <1>3 DEF TowersFit, ApartmentsFit

\* The capacity of a community whose subscription stays can only be lost by a row
\* that comes to it.
LEMMA CapacityKept ==
    ASSUME TypeOK, CapacityRespected, UNCHANGED subscription,
           \A c \in Community :
              /\ \/ TowersOf(c)' \subseteq TowersOf(c)
                 \/ TowersFit(c, Cardinality(TowersOf(c)'))
              /\ \/ ApartmentsOf(c)' \subseteq ApartmentsOf(c)
                 \/ ApartmentsFit(c, Cardinality(ApartmentsOf(c)'))
    PROVE  CapacityRespected'
<1> SUFFICES ASSUME NEW c \in Community
             PROVE  /\ TowersFit(c, Cardinality(TowersOf(c)))'
                    /\ ApartmentsFit(c, Cardinality(ApartmentsOf(c)))'
    BY DEF CapacityRespected
<1>1. /\ TowersFit(c, Cardinality(TowersOf(c)'))
      /\ ApartmentsFit(c, Cardinality(ApartmentsOf(c)'))
      BY FewerFit DEF CapacityRespected
<1> QED
    BY <1>1 DEF TowersFit, ApartmentsFit

LEMMA AddOne ==
    ASSUME NEW S, IsFiniteSet(S), NEW x
    PROVE  /\ Cardinality(S \cup {x}) \in Nat
           /\ Cardinality(S \cup {x}) <= Cardinality(S) + 1
<1>1. IsFiniteSet(S \cup {x}) /\ Cardinality(S) \in Nat
      BY FS_AddElement, FS_CardinalityType
<1>2. Cardinality(S \cup {x}) \in Nat
      BY <1>1, FS_CardinalityType
<1>3. Cardinality(S \cup {x}) = IF x \in S THEN Cardinality(S) ELSE Cardinality(S) + 1
      BY FS_AddElement
<1> QED
    BY <1>1, <1>2, <1>3

\* One more row, where one more fits.
LEMMA OneMore ==
    ASSUME TypeOK, NEW c \in Community
    PROVE  /\ \A t \in Tower : TowersFit(c, Cardinality(TowersOf(c)) + 1) =>
                  TowersFit(c, Cardinality(TowersOf(c) \cup {t}))
           /\ \A a \in Apartment : ApartmentsFit(c, Cardinality(ApartmentsOf(c)) + 1) =>
                  ApartmentsFit(c, Cardinality(ApartmentsOf(c) \cup {a}))
<1>1. TowersOf(c) \subseteq Tower /\ ApartmentsOf(c) \subseteq Apartment
      BY DEF TowersOf, ApartmentsOf
<1>2. subscription[c].status # "NONE" =>
          subscription[c].plan.towers \in Nat /\ subscription[c].plan.apartments \in Nat
      BY PlanFields DEF TypeOK
<1>3. /\ IsFiniteSet(TowersOf(c)) /\ Cardinality(TowersOf(c)) \in Nat
      /\ IsFiniteSet(ApartmentsOf(c)) /\ Cardinality(ApartmentsOf(c)) \in Nat
      BY <1>1, CountsAreNumbers
<1>4. ASSUME NEW t \in Tower, TowersFit(c, Cardinality(TowersOf(c)) + 1)
      PROVE  TowersFit(c, Cardinality(TowersOf(c) \cup {t}))
    <2>1. Cardinality(TowersOf(c) \cup {t}) \in Nat
             /\ Cardinality(TowersOf(c) \cup {t}) <= Cardinality(TowersOf(c)) + 1
          BY <1>3, AddOne
    <2> QED
        BY <1>2, <1>3, <1>4, <2>1 DEF TowersFit
<1>5. ASSUME NEW a \in Apartment, ApartmentsFit(c, Cardinality(ApartmentsOf(c)) + 1)
      PROVE  ApartmentsFit(c, Cardinality(ApartmentsOf(c) \cup {a}))
    <2>1. Cardinality(ApartmentsOf(c) \cup {a}) \in Nat
             /\ Cardinality(ApartmentsOf(c) \cup {a}) <= Cardinality(ApartmentsOf(c)) + 1
          BY <1>3, AddOne
    <2> QED
        BY <1>2, <1>3, <1>5, <2>1 DEF ApartmentsFit
<1> QED
    BY <1>4, <1>5

\* Several apartments that come at once, where all of them fit.
LEMMA SeveralMore ==
    ASSUME TypeOK, NEW c \in Community, NEW R, R \subseteq Apartment,
           ApartmentsFit(c, Cardinality(ApartmentsOf(c)) + Cardinality(R)),
           NEW T, T \subseteq ApartmentsOf(c) \cup R
    PROVE  ApartmentsFit(c, Cardinality(T))
<1>1. ApartmentsOf(c) \subseteq Apartment
      BY DEF ApartmentsOf
<1>2. subscription[c].status # "NONE" => subscription[c].plan.apartments \in Nat
      BY PlanFields DEF TypeOK
<1> QED
    BY <1>1, <1>2, PartFits DEF ApartmentsFit

\* A community that does not exist has neither towers nor apartments.
LEMMA NothingInNone ==
    ASSUME TypeOK, RowsHang, NEW c \in Community, community[c] # "OPEN"
    PROVE  TowersOf(c) = {} /\ ApartmentsOf(c) = {}
BY KindsDiffer DEF TowersOf, ApartmentsOf, CommunityOfApartment, CommunityOfFloor,
                   RowsHang, IsTower, IsFloor, IsApartment, TypeOK

LEMMA CapacityPreserved ==
    ASSUME TypeOK, HierarchyWhole, PlanRespected, Next
    PROVE  CapacityRespected'
<1> USE KindsDiffer DEF IsTower, IsFloor, IsApartment, CommunityOfFloor, CommunityOfApartment
<1>0. RowsHang /\ CapacityRespected
      BY DEF HierarchyWhole, PlanRespected
<1>1. ASSUME NEW c \in Community, NEW u \in User, NEW plan \in Plan, NEW n \in 0..3,
             CreateCommunity(c, u, plan, n)
      PROVE  CapacityRespected'
    <2>1. /\ \A d \in Community : TowersOf(d)' = TowersOf(d) /\ ApartmentsOf(d)' = ApartmentsOf(d)
          /\ \A d \in Community \ {c} : subscription'[d] = subscription[d]
          /\ \/ subscription'[c] = subscription[c]
             \/ subscription'[c].plan = plan
        <3>1. UNCHANGED <<tower, floor, apartment>>
              BY <1>1 DEF CreateCommunity
        <3>2. \A d \in Community : TowersOf(d)' = TowersOf(d) /\ ApartmentsOf(d)' = ApartmentsOf(d)
              BY <3>1 DEF TowersOf, ApartmentsOf
        <3> DEFINE s == [NoSubscription EXCEPT !.status = "PAYMENT_PENDING", !.plan = plan]
        <3>3. s.plan = plan
              BY NewSubscription
        <3>4. subscription' = subscription \/ subscription' = [subscription EXCEPT ![c] = s]
              BY <1>1 DEF CreateCommunity
        <3> HIDE DEF s
        <3> QED
            BY <3>2, <3>3, <3>4 DEF TypeOK
    <2>2. Cardinality(TowersOf(c)) = 0 /\ Cardinality(ApartmentsOf(c)) = 0
          BY <1>0, <1>1, NothingInNone, FS_EmptySet DEF CreateCommunity
    <2>3. plan.towers \in Nat /\ plan.apartments \in Nat
          BY PlanFields
    <2> QED
        BY <1>0, <2>1, <2>2, <2>3 DEF CapacityRespected, TowersFit, ApartmentsFit
<1>2. ASSUME NEW c \in Community,
             CompleteMockPayment(c) \/ \E plan \in Plan : RequestUpgrade(c, plan)
      PROVE  CapacityRespected'
    <2>1. \A d \in Community : TowersOf(d)' = TowersOf(d) /\ ApartmentsOf(d)' = ApartmentsOf(d)
          BY <1>2 DEF CompleteMockPayment, RequestUpgrade, TowersOf, ApartmentsOf
    <2>2. \A d \in Community \ {c} : subscription'[d] = subscription[d]
          BY <1>2 DEF CompleteMockPayment, RequestUpgrade, TypeOK
    <2>3. subscription[c].status # "NONE" /\ subscription'[c].plan = subscription[c].plan
        <3>1. CASE CompleteMockPayment(c)
              BY <3>1 DEF CompleteMockPayment, TypeOK, SubscriptionType
        <3>2. ASSUME NEW plan \in Plan, RequestUpgrade(c, plan)
              PROVE  subscription[c].status # "NONE" /\ subscription'[c].plan = subscription[c].plan
              BY <3>2 DEF RequestUpgrade, TypeOK, SubscriptionType
        <3> QED
            BY <1>2, <3>1, <3>2
    <2> QED
        BY <1>0, <2>1, <2>2, <2>3 DEF CapacityRespected, TowersFit, ApartmentsFit
<1>3. ASSUME NEW c \in Community, CompleteMockUpgrade(c)
      PROVE  CapacityRespected'
    <2>1. /\ \A d \in Community : TowersOf(d)' = TowersOf(d) /\ ApartmentsOf(d)' = ApartmentsOf(d)
          /\ \A d \in Community \ {c} : subscription'[d] = subscription[d]
          /\ subscription'[c].status = subscription[c].status
          /\ subscription'[c].plan = subscription[c].pending
          BY <1>3 DEF CompleteMockUpgrade, TowersOf, ApartmentsOf, TypeOK, SubscriptionType
    <2>2. subscription[c].pending \in Plan /\ AtLeast(subscription[c].pending, subscription[c].plan)
          BY <1>3 DEF CompleteMockUpgrade, PlanRespected, UpgradePriced, IsUpgrade, TypeOK,
                      SubscriptionType
    <2>3. /\ Cardinality(TowersOf(c)) \in Nat /\ Cardinality(ApartmentsOf(c)) \in Nat
          BY CountsAreNumbers DEF TowersOf, ApartmentsOf
    <2>4. /\ TowersFit(c, Cardinality(TowersOf(c)))'
          /\ ApartmentsFit(c, Cardinality(ApartmentsOf(c)))'
          BY <1>0, <2>1, <2>2, <2>3, PlanFields
             DEF CapacityRespected, TowersFit, ApartmentsFit, AtLeast, TypeOK
    <2> QED
        BY <1>0, <2>1, <2>4 DEF CapacityRespected, TowersFit, ApartmentsFit
<1>4. ASSUME NEW t \in Tower, NEW c \in Community, CreateTower(t, c)
      PROVE  CapacityRespected'
    <2>1. /\ TowersOf(c)' = TowersOf(c) \cup {t}
          /\ \A d \in Community \ {c} : TowersOf(d)' \subseteq TowersOf(d)
          /\ \A d \in Community : ApartmentsOf(d)' \subseteq ApartmentsOf(d)
          BY <1>0, <1>4 DEF CreateTower, TowersOf, ApartmentsOf, RowsHang, TypeOK
    <2>2. TowersFit(c, Cardinality(TowersOf(c)'))
          BY <1>4, <2>1, OneMore DEF CreateTower
    <2> QED
        BY <1>0, <1>4, <2>1, <2>2, CapacityKept DEF CreateTower
<1>5. ASSUME NEW t \in Tower, NEW c \in Community, UpdateTower(t, c)
      PROVE  CapacityRespected'
    <2>1. /\ TowersOf(c)' = TowersOf(c) \cup {t}
          /\ \A d \in Community \ {c} : TowersOf(d)' \subseteq TowersOf(d)
          /\ ApartmentsOf(c)' \subseteq ApartmentsOf(c) \cup ApartmentsInTower(t)
          /\ \A d \in Community \ {c} : ApartmentsOf(d)' \subseteq ApartmentsOf(d)
          BY <1>0, <1>5 DEF UpdateTower, TowersOf, ApartmentsOf, ApartmentsInTower, RowsHang, TypeOK
    <2>2. CASE c = tower[t]
          BY <1>0, <1>5, <2>1, <2>2, CapacityKept
             DEF UpdateTower, TowersOf, ApartmentsOf, ApartmentsInTower
    <2>3. CASE c # tower[t]
        <3>1. TowersFit(c, Cardinality(TowersOf(c)'))
              BY <1>5, <2>1, <2>3, OneMore DEF UpdateTower, TowerFits
        <3>2. ApartmentsFit(c, Cardinality(ApartmentsOf(c)'))
              BY <1>5, <2>1, <2>3, SeveralMore DEF UpdateTower, TowerFits, ApartmentsInTower
        <3> QED
            BY <1>0, <1>5, <2>1, <3>1, <3>2, CapacityKept DEF UpdateTower
    <2> QED
        BY <2>2, <2>3
<1>6. ASSUME NEW t \in Tower, DeleteTower(t)
      PROVE  CapacityRespected'
    <2>1. \A d \in Community :
              TowersOf(d)' \subseteq TowersOf(d) /\ ApartmentsOf(d)' \subseteq ApartmentsOf(d)
          BY <1>0, <1>6 DEF DeleteTower, TowersOf, ApartmentsOf, RowsHang, TypeOK
    <2> QED
        BY <1>0, <1>6, <2>1, CapacityKept DEF DeleteTower
<1>7. ASSUME NEW t \in Tower, NEW f \in Floor, CreateFloor(f, t)
      PROVE  CapacityRespected'
    <2>1. \A d \in Community :
              TowersOf(d)' \subseteq TowersOf(d) /\ ApartmentsOf(d)' \subseteq ApartmentsOf(d)
          BY <1>0, <1>7 DEF CreateFloor, TowersOf, ApartmentsOf, RowsHang, TypeOK
    <2> QED
        BY <1>0, <1>7, <2>1, CapacityKept DEF CreateFloor
<1>8. ASSUME NEW t \in Tower, NEW f \in Floor, UpdateFloor(f, t)
      PROVE  CapacityRespected'
    <2>1. /\ \A d \in Community : TowersOf(d)' \subseteq TowersOf(d)
          /\ ApartmentsOf(tower[t])' \subseteq ApartmentsOf(tower[t]) \cup ApartmentsOnFloor(f)
          /\ \A d \in Community \ {tower[t]} : ApartmentsOf(d)' \subseteq ApartmentsOf(d)
          /\ tower[t] = tower[floor[f]] =>
                \A d \in Community : ApartmentsOf(d)' \subseteq ApartmentsOf(d)
          BY <1>0, <1>8 DEF UpdateFloor, TowersOf, ApartmentsOf, ApartmentsOnFloor, RowsHang, TypeOK
    <2>2. tower[t] # tower[floor[f]] =>
              ApartmentsFit(tower[t], Cardinality(ApartmentsOf(tower[t])'))
          BY <1>8, <2>1, SeveralMore DEF UpdateFloor, ApartmentsOnFloor
    <2> QED
        BY <1>0, <1>8, <2>1, <2>2, CapacityKept DEF UpdateFloor
<1>9. ASSUME NEW f \in Floor, DeleteFloor(f)
      PROVE  CapacityRespected'
    <2>1. \A d \in Community :
              TowersOf(d)' \subseteq TowersOf(d) /\ ApartmentsOf(d)' \subseteq ApartmentsOf(d)
          BY <1>0, <1>9 DEF DeleteFloor, TowersOf, ApartmentsOf, ApartmentsOnFloor, RowsHang, TypeOK
    <2> QED
        BY <1>0, <1>9, <2>1, CapacityKept DEF DeleteFloor
<1>10. ASSUME NEW a \in Apartment, NEW f \in Floor, NEW o \in User \cup {NoUser},
              CreateApartment(a, f, o) \/ UpdateApartment(a, f)
       PROVE  CapacityRespected'
    <2>0. PICK c \in Community : c = tower[floor[f]]
          BY <1>0, <1>10 DEF CreateApartment, UpdateApartment, RowsHang, TypeOK
    <2>1. /\ \A d \in Community : TowersOf(d)' \subseteq TowersOf(d)
          /\ ApartmentsOf(c)' = ApartmentsOf(c) \cup {a}
          /\ \A d \in Community \ {c} : ApartmentsOf(d)' \subseteq ApartmentsOf(d)
          BY <1>0, <1>10, <2>0
             DEF CreateApartment, UpdateApartment, TowersOf, ApartmentsOf, RowsHang, TypeOK
    <2>2. \/ a \in ApartmentsOf(c)
          \/ ApartmentsFit(c, Cardinality(ApartmentsOf(c)'))
          BY <1>10, <2>0, <2>1, OneMore DEF CreateApartment, UpdateApartment, ApartmentsOf
    <2>3. \A d \in Community :
              \/ ApartmentsOf(d)' \subseteq ApartmentsOf(d)
              \/ ApartmentsFit(d, Cardinality(ApartmentsOf(d)'))
        <3> TAKE d \in Community
        <3>1. CASE d # c
              BY <2>1, <3>1
        <3>2. CASE d = c /\ a \in ApartmentsOf(c)
              BY <2>1, <3>2
        <3>3. CASE d = c /\ ApartmentsFit(c, Cardinality(ApartmentsOf(c)'))
              BY <3>3
        <3> QED
            BY <2>2, <3>1, <3>2, <3>3
    <2> QED
        BY <1>0, <1>10, <2>1, <2>3, CapacityKept DEF CreateApartment, UpdateApartment
<1>11. ASSUME NEW a \in Apartment, DeleteApartment(a)
       PROVE  CapacityRespected'
    <2>1. \A d \in Community :
              TowersOf(d)' \subseteq TowersOf(d) /\ ApartmentsOf(d)' \subseteq ApartmentsOf(d)
          BY <1>11 DEF DeleteApartment, TowersOf, ApartmentsOf, TypeOK
    <2> QED
        BY <1>0, <1>11, <2>1, CapacityKept DEF DeleteApartment
<1>12. ASSUME UNCHANGED <<subscription, tower, floor, apartment>>
       PROVE  CapacityRespected'
       BY <1>0, <1>12 DEF CapacityRespected, TowersFit, ApartmentsFit, TowersOf, ApartmentsOf
<1> QED
    BY <1>1, <1>2, <1>3, <1>4, <1>5, <1>6, <1>7, <1>8, <1>9, <1>10, <1>11, <1>12
       DEF Next, DeleteCommunity, TransferOwnership, CreateOwnerOccupant, AssociateResident,
           AssociateRepresentative, CreateUser, UpdateUser, DeleteUser

\* What an upgrade is charged is settled when it is requested, and its plan stays
\* until it is paid or replaced.
LEMMA PricesPreserved ==
    ASSUME TypeOK, HierarchyWhole, PlanRespected, Next
    PROVE  UpgradePriced'
<1>0. UpgradePriced
      BY DEF PlanRespected
<1>1. ASSUME NEW c \in Community, NEW u \in User, NEW plan \in Plan, NEW n \in 0..3,
             CreateCommunity(c, u, plan, n)
      PROVE  UpgradePriced'
    <2> DEFINE row == [NoSubscription EXCEPT !.status = "PAYMENT_PENDING", !.plan = plan]
    <2>1. row.pending = NoPlan /\ row.due = 0
          BY NewSubscription
    <2>2. subscription' \in {subscription, [subscription EXCEPT ![c] = row]}
          BY <1>1 DEF CreateCommunity
    <2> HIDE DEF row
    <2> QED
        BY <1>0, <2>1, <2>2 DEF UpgradePriced, TypeOK
<1>2. ASSUME NEW c \in Community, CompleteMockPayment(c)
      PROVE  UpgradePriced'
      BY <1>0, <1>2 DEF CompleteMockPayment, UpgradePriced, TypeOK, SubscriptionType
<1>3. ASSUME NEW c \in Community, NEW plan \in Plan, RequestUpgrade(c, plan)
      PROVE  UpgradePriced'
    <2>1. /\ subscription'[c].plan = subscription[c].plan /\ subscription'[c].pending = plan
          /\ subscription'[c].due = UpgradeAmount(subscription[c], plan)
          /\ \A d \in Community \ {c} : subscription'[d] = subscription[d]
          BY <1>3 DEF RequestUpgrade, TypeOK, SubscriptionType
    <2>2. IsUpgrade(plan, subscription[c].plan) /\ plan # NoPlan
          BY <1>3, CommunitiesAssumption DEF RequestUpgrade
    <2> QED
        BY <1>0, <2>1, <2>2 DEF UpgradePriced, UpgradeAmount
<1>4. ASSUME NEW c \in Community, CompleteMockUpgrade(c)
      PROVE  UpgradePriced'
      BY <1>0, <1>4 DEF CompleteMockUpgrade, UpgradePriced, TypeOK, SubscriptionType
<1>5. ASSUME UNCHANGED subscription
      PROVE  UpgradePriced'
      BY <1>0, <1>5 DEF UpgradePriced
<1> QED
    BY <1>1, <1>2, <1>3, <1>4, <1>5
       DEF Next, DeleteCommunity, CreateTower, UpdateTower, DeleteTower, CreateFloor, UpdateFloor,
           DeleteFloor, CreateApartment, UpdateApartment, TransferOwnership, DeleteApartment,
           CreateOwnerOccupant, AssociateResident, AssociateRepresentative, CreateUser, UpdateUser,
           DeleteUser

-----------------------------------------------------------------------------
(* The theorems. *)

LEMMA InitIInv == Init => IInv
<1> SUFFICES ASSUME Init PROVE IInv
    OBVIOUS
<1>1. TypeOK
      BY DEF Init, TypeOK, NoSubscription, SubscriptionType, Place
<1>2. HierarchyWhole
      BY KindsDiffer DEF Init, HierarchyWhole, RowsHang, OwnerIsResident, FoundedTogether,
         OneRepresentative, IsTower, IsFloor, IsApartment, IsResident, NoSubscription
<1>3. PlanRespected
      BY DEF Init, PlanRespected, CapacityRespected, UpgradePriced, TowersFit, ApartmentsFit,
             NoSubscription
<1> QED
    BY <1>1, <1>2, <1>3 DEF IInv

LEMMA NextIInv == IInv /\ [Next]_vars => IInv'
<1> SUFFICES ASSUME IInv, [Next]_vars PROVE IInv'
    OBVIOUS
<1>1. CASE Next
      BY <1>1, TypePreserved, HierarchyKept, CapacityPreserved, PricesPreserved
         DEF IInv, PlanRespected
<1>2. CASE UNCHANGED vars
    <2>1. TypeOK'
          BY <1>2 DEF IInv, vars, TypeOK
    <2>2. HierarchyWhole'
          BY <1>2 DEF IInv, vars, HierarchyWhole, RowsHang, OwnerIsResident, FoundedTogether,
             OneRepresentative, IsTower, IsFloor, IsApartment, IsResident
    <2>3. PlanRespected'
          BY <1>2 DEF IInv, vars, PlanRespected, CapacityRespected, UpgradePriced, TowersFit,
             ApartmentsFit, TowersOf, ApartmentsOf, IsApartment, CommunityOfApartment, CommunityOfFloor
    <2> QED
        BY <2>1, <2>2, <2>3 DEF IInv
<1> QED
    BY <1>1, <1>2

\* The inductive invariant: its three parts support each other.
THEOREM CommunitiesInvariant == Spec => []IInv
BY InitIInv, NextIInv, PTL DEF Spec

\* The stores hold rows of their types (community.service.ts, user-access.service.ts).
THEOREM TypeCorrect == Spec => []TypeOK
BY CommunitiesInvariant, PTL DEF IInv

\* Whatever is created, moved, handed over and deleted, and wherever a creation fails,
\* no row points at nothing, owners are residents and a tower has one representative.
THEOREM HierarchyStaysWhole == Spec => []HierarchyWhole
BY CommunitiesInvariant, PTL DEF IInv

\* No community uses more than its plan, whether one apartment, a floor or a tower
\* comes to it, and an upgrade costs the difference of the prices (the capacity checks
\* of subscription.service.ts, called by every handler that adds or moves a row).
THEOREM PlansRespected == Spec => []PlanRespected
BY CommunitiesInvariant, PTL DEF IInv

-----------------------------------------------------------------------------
(* Jurisdiction: what holds of the hierarchy holds under tickets too, and   *)
(* gives that decisions and counts follow it.                               *)

\* A complaint names an apartment and an account that was responsible.
ComplaintsFiled ==
    \A k \in Complaints :
        /\ ticket[k].type \in ComplaintType
        /\ ticket[k].at.apartment \in Apartment
        /\ ticket[k].responsible \in User

JurisdictionInv == IInv /\ ComplaintsFiled

LEMMA ComplaintsStayFiled ==
    ASSUME TypeOK, ComplaintsFiled, JurisdictionNext
    PROVE  ComplaintsFiled'
<1>1. CASE HierarchyStep
      BY <1>1 DEF HierarchyStep, ComplaintsFiled, Complaints
<1>2. ASSUME NEW k \in Ticket, NEW u \in User, NEW type \in ComplaintType,
             FileComplaint(k, u, type)
      PROVE  ComplaintsFiled'
    <2>1. place[u] \in Apartment
          BY <1>2, KindsDiffer DEF FileComplaint, CanActivate, RoleOf, TypeOK, Place
    <2>2. PICK v \in User : ticket' = [ticket EXCEPT ![k] =
              [kind |-> "COMPLAINT", type |-> type, resident |-> u, responsible |-> v,
               at |-> Location(place[u])]]
          BY <1>2 DEF FileComplaint, Authorities
    <2>3. Location(place[u]).apartment = place[u]
          BY DEF Location
    <2> QED
        BY <2>1, <2>2, <2>3 DEF ComplaintsFiled, Complaints
<1>3. ASSUME NEW k \in Ticket, NEW u \in User, CreateRequest(k, u)
      PROVE  ComplaintsFiled'
      BY <1>3 DEF CreateRequest, ComplaintsFiled, Complaints
<1>4. ASSUME NEW k \in Ticket, NEW u \in User, DeleteComplaint(k, u)
      PROVE  ComplaintsFiled'
      BY <1>4 DEF DeleteComplaint, ComplaintsFiled, Complaints
<1> QED
    BY <1>1, <1>2, <1>3, <1>4 DEF JurisdictionNext

-----------------------------------------------------------------------------
(* Where a complaint is. *)

LEMMA MatchedLocation ==
    ASSUME JurisdictionInv, NEW k \in Complaints, LocationMatches(ticket[k])
    PROVE  LET at == ticket[k].at IN
           /\ at.apartment \in Apartment /\ IsApartment(at.apartment)
           /\ at.floor = apartment[at.apartment] /\ at.floor \in Floor /\ IsFloor(at.floor)
           /\ at.tower = floor[at.floor] /\ at.tower \in Tower
           /\ at.community = tower[at.tower] /\ at.community \in Community
           /\ at.community = CommunityOfApartment(at.apartment)
<1> DEFINE at == ticket[k].at
           a == at.apartment
<1>1. IsApartment(a) /\ at = Location(a)
      BY DEF LocationMatches
<1>2. a \in Apartment
      BY DEF JurisdictionInv, ComplaintsFiled
<1>3. /\ at.floor = apartment[a]
      /\ at.tower = floor[apartment[a]]
      /\ at.community = CommunityOfApartment(a)
      BY <1>1 DEF Location
<1>4. apartment[a] \in Floor /\ IsFloor(apartment[a])
      BY <1>1, <1>2, KindsDiffer DEF JurisdictionInv, IInv, HierarchyWhole, RowsHang, TypeOK, IsApartment
<1>5. floor[apartment[a]] \in Tower /\ IsTower(floor[apartment[a]])
      BY <1>4, KindsDiffer DEF JurisdictionInv, IInv, HierarchyWhole, RowsHang, TypeOK, IsFloor
<1>6. tower[floor[apartment[a]]] \in Community
      BY <1>5, KindsDiffer DEF JurisdictionInv, IInv, HierarchyWhole, RowsHang, TypeOK, IsTower
<1> QED
    BY <1>1, <1>2, <1>3, <1>4, <1>5, <1>6 DEF CommunityOfApartment, CommunityOfFloor

LEMMA Decided == JurisdictionInv => DecidedWhereItIs
<1> SUFFICES ASSUME JurisdictionInv, NEW k \in Complaints
             PROVE  LET t == ticket[k]
                        Deciding == {u \in User : CanActAsAuthority(u, t)} IN
                    /\ \A u \in Deciding :
                          /\ IsApartment(t.at.apartment)
                          /\ place[u] \in {floor[apartment[t.at.apartment]],
                                           CommunityOfApartment(t.at.apartment)}
                          /\ CanViewComplaint(u, t)
                          /\ u \in ShownAuthority(t)
                    /\ LocationMatches(t) /\ t.type = "TOWER" /\ Authorities("TOWER", t.at) # {} =>
                          Cardinality(Deciding) = 1
    BY DEF DecidedWhereItIs
<1> DEFINE t == ticket[k]
           Deciding == {u \in User : CanActAsAuthority(u, t)}
<1>1. ASSUME NEW u \in Deciding
      PROVE  /\ IsApartment(t.at.apartment)
             /\ place[u] \in {floor[apartment[t.at.apartment]],
                              CommunityOfApartment(t.at.apartment)}
             /\ CanViewComplaint(u, t)
             /\ u \in ShownAuthority(t)
    <2>1. LocationMatches(t)
          BY <1>1 DEF CanActAsAuthority
    <2>2. t.responsible \in User
          BY DEF JurisdictionInv, ComplaintsFiled
    <2>3. CASE RoleOf(u) = "COMMUNITY_ADMIN"
        <3>1. t.type = "COMMUNITY" /\ t.responsible = u /\ place[u] = t.at.community
              BY <1>1, <2>3 DEF CanActAsAuthority
        <3>2. CurrentTowerAuthority(t) = {}
              BY <3>1 DEF CurrentTowerAuthority
        <3> QED
            BY <2>1, <2>3, <3>1, <3>2, MatchedLocation DEF CanViewComplaint, ShownAuthority
    <2>4. CASE RoleOf(u) = "TOWER_REPRESENTATIVE"
        <3>1. u \in CurrentTowerAuthority(t)
              BY <1>1, <2>4 DEF CanActAsAuthority
        <3>2. t.type = "TOWER" /\ place[u] = t.at.tower
              BY <2>2, <3>1 DEF CurrentTowerAuthority
        <3> QED
            BY <2>1, <2>4, <3>1, <3>2, MatchedLocation DEF CanViewComplaint, ShownAuthority
    <2> QED
        BY <1>1, <2>3, <2>4 DEF CanActAsAuthority
<1>2. ASSUME LocationMatches(t), t.type = "TOWER", Authorities("TOWER", t.at) # {}
      PROVE  Cardinality(Deciding) = 1
    <2>1. PICK v \in User : place[v] = t.at.tower
          BY <1>2 DEF Authorities
    <2>2. t.at.tower \in Tower
          BY <1>2, MatchedLocation
    <2>3. \A u \in User : place[u] = t.at.tower => u = v
          BY <2>1, <2>2 DEF JurisdictionInv, IInv, HierarchyWhole, OneRepresentative
    <2>4. CurrentTowerAuthority(t) = {v}
          BY <1>2, <2>1, <2>3 DEF CurrentTowerAuthority, JurisdictionInv, ComplaintsFiled
    <2>5. RoleOf(v) = "TOWER_REPRESENTATIVE"
          BY <2>1, <2>2, KindsDiffer DEF RoleOf
    <2>6. Deciding = {v}
          BY <1>2, <2>1, <2>4, <2>5 DEF CanActAsAuthority
    <2> QED
        BY <2>6, FS_Singleton
<1> QED
    BY <1>1, <1>2

LEMMA Counted == JurisdictionInv => CountedWhereItIs
<1> SUFFICES ASSUME JurisdictionInv, NEW c \in Community, NEW k \in Summary(c).complaints
             PROVE  /\ ticket[k].at.apartment \in Summary(c).apartments
                    /\ ticket[k].at.floor \in Summary(c).floors
                    /\ ticket[k].at.tower \in Summary(c).towers
    BY DEF CountedWhereItIs
<1>1. k \in Complaints /\ LocationMatches(ticket[k]) /\ ticket[k].at.community = c
      BY DEF Summary
<1>2. /\ ticket[k].at.tower \in TowersOf(c)
      /\ ticket[k].at.floor \in FloorsOf(c)
      /\ ticket[k].at.apartment \in Apartment
      /\ apartment[ticket[k].at.apartment] \in FloorsOf(c)
      BY <1>1, MatchedLocation DEF TowersOf, FloorsOf
<1> QED
    BY <1>2 DEF Summary

-----------------------------------------------------------------------------
(* The theorems. *)

LEMMA NextJurisdictionInv ==
    JurisdictionInv /\ [JurisdictionNext]_jurisdictionVars => JurisdictionInv'
<1> SUFFICES ASSUME JurisdictionInv, [JurisdictionNext]_jurisdictionVars
             PROVE  JurisdictionInv'
    OBVIOUS
<1>1. [Next]_vars
      BY DEF JurisdictionNext, HierarchyStep, FileComplaint, CreateRequest, DeleteComplaint,
             jurisdictionVars
<1>2. IInv'
      BY <1>1, NextIInv DEF JurisdictionInv
<1>3. ComplaintsFiled'
    <2>1. CASE JurisdictionNext
          BY <2>1, ComplaintsStayFiled DEF JurisdictionInv, IInv
    <2>2. CASE UNCHANGED jurisdictionVars
          BY <2>2 DEF jurisdictionVars, JurisdictionInv, ComplaintsFiled, Complaints
    <2> QED
        BY <2>1, <2>2
<1> QED
    BY <1>2, <1>3 DEF JurisdictionInv

\* The hierarchy is as whole as it is without tickets, which never hold anything back.
THEOREM JurisdictionInvariant == JurisdictionSpec => []JurisdictionInv
<1>1. JurisdictionInit => JurisdictionInv
      BY InitIInv DEF JurisdictionInit, JurisdictionInv, ComplaintsFiled, Complaints
<1> QED
    BY <1>1, NextJurisdictionInv, PTL DEF JurisdictionSpec

\* Whoever may decide about a complaint is where its apartment lies now, may read it and
\* is shown, one of them can be found while the tower has a representative, and every
\* summary counts a complaint where it counts its apartment (complaints.service.ts,
\* dashboard.service.ts), whatever was moved since it was filed.
THEOREM HierarchyFollowed == JurisdictionSpec => []FollowsHierarchy
<1>1. JurisdictionInv => FollowsHierarchy
      BY Decided, Counted DEF FollowsHierarchy
<1> QED
    BY <1>1, JurisdictionInvariant, PTL

-----------------------------------------------------------------------------
(* Registrations: what an approval creates exists with it or not at all,    *)
(* nothing is claimed twice, and nobody pays beyond what was agreed.        *)

\* What the stores hold, as far as it is needed: what payments add up to is not.
StoresOK ==
    /\ DOMAIN application = Application
    /\ \A a \in Application :
          /\ DOMAIN application[a] = {"decision", "email", "initial", "mock", "notified"}
          /\ application[a].decision \in {"NONE", "PENDING", "APPROVED", "REJECTED"}
          /\ IsOpen(a) => application[a].email \in Email
    /\ evidence \in [Evidence -> EvidenceType]
    /\ \A e \in Evidence :
          evidence[e].status # "NONE" =>
              evidence[e].of # NoApplication /\ evidence[e].reference # NoReference
    /\ account \in [Email -> {"NONE", "OTHER"} \cup Application]
    /\ linked \in [Application -> LinkedType]

ApprovalInv == StoresOK /\ ProvisionedTogether /\ ClaimsAreUnique

LEMMA ApprovalInitInv == RegistrationsInit => ApprovalInv
<1> SUFFICES ASSUME RegistrationsInit PROVE ApprovalInv
    OBVIOUS
<1>1. NothingLinked \in LinkedType
      BY DEF NothingLinked, LinkedType
<1>2. StoresOK
      BY <1>1 DEF RegistrationsInit, StoresOK, EvidenceType, IsOpen
<1>3. ProvisionedTogether
      BY RegistrationsAssumption DEF RegistrationsInit, ProvisionedTogether
<1>4. ClaimsAreUnique
      BY DEF RegistrationsInit, ClaimsAreUnique, IsOpen, WaitsAlone
<1> QED
    BY <1>2, <1>3, <1>4 DEF ApprovalInv

-----------------------------------------------------------------------------
(* Three kinds of steps: on the applications, on the evidence and on what   *)
(* they are linked to.                                                      *)

\* What waits stays alone while its application records no evaluation payment.
LEMMA StaysAlone ==
    ASSUME NEW e \in Evidence, WaitsAlone(e),
           evidence'[e].status = "PENDING_VERIFICATION" =>
               /\ evidence[e].status = "PENDING_VERIFICATION"
               /\ evidence'[e].of = evidence[e].of /\ evidence'[e].reference = evidence[e].reference
               /\ application'[evidence[e].of].mock = application[evidence[e].of].mock
    PROVE  WaitsAlone(e)'
BY DEF WaitsAlone, IsMockOf

\* A step that leaves decisions and emails as they are, and payments while evidence waits.
LEMMA PaymentsKeep ==
    ASSUME ApprovalInv, NEW a \in Application, UNCHANGED <<evidence, account>>,
           DOMAIN application' = Application,
           \A b \in Application :
              /\ DOMAIN application'[b] = DOMAIN application[b]
              /\ application'[b].decision = application[b].decision
              /\ application'[b].email = application[b].email
              /\ application'[b].mock = application[b].mock \/ Pending(b) = {},
           linked' \in [Application -> LinkedType],
           \A b \in Application :
              \/ linked'[b] = linked[b]
              \/ /\ linked[b].admin = "ACTIVE"
                 /\ linked'[b].community = linked[b].community
                 /\ linked'[b].admin = linked[b].admin
                 /\ linked'[b].subscription = linked[b].subscription
    PROVE  ApprovalInv'
<1>1. StoresOK'
      BY DEF ApprovalInv, StoresOK, IsOpen
<1>2. ProvisionedTogether'
      BY DEF ApprovalInv, ProvisionedTogether, NothingLinked
<1>3. ASSUME NEW e \in Evidence PROVE WaitsAlone(e)'
    <2>1. evidence[e].status = "PENDING_VERIFICATION" =>
              evidence[e].of \in Application /\ e \in Pending(evidence[e].of)
          BY DEF ApprovalInv, StoresOK, EvidenceType, Pending, EvidenceIn
    <2>2. WaitsAlone(e)
          BY DEF ApprovalInv, ClaimsAreUnique
    <2> QED
        BY <2>1, <2>2, StaysAlone
<1>4. ClaimsAreUnique'
      BY <1>3 DEF ApprovalInv, ClaimsAreUnique, IsOpen
<1> QED
    BY <1>1, <1>2, <1>4 DEF ApprovalInv

\* Only an active administrator's subscription is told about payments.
LEMMA SyncedKeeps ==
    ASSUME ApprovalInv, NEW a \in Application, NEW paid
    PROVE  /\ Synced(a, paid) \in [Application -> LinkedType]
           /\ \A b \in Application :
                 \/ Synced(a, paid)[b] = linked[b]
                 \/ /\ linked[b].admin = "ACTIVE"
                    /\ Synced(a, paid)[b].community = linked[b].community
                    /\ Synced(a, paid)[b].admin = linked[b].admin
                    /\ Synced(a, paid)[b].subscription = linked[b].subscription
<1>1. CASE IsActive(a)
    <2>1. PICK s \in {"SUCCESS", "PENDING"} :
              Synced(a, paid) = [linked EXCEPT ![a].paymentStatus = s]
          BY <1>1 DEF Synced
    <2> QED
        BY <1>1, <2>1 DEF IsActive, ApprovalInv, StoresOK, LinkedType
<1>2. CASE ~IsActive(a)
      BY <1>2 DEF Synced, ApprovalInv, StoresOK
<1> QED
    BY <1>1, <1>2

LEMMA SubmitKeeps ==
    ASSUME ApprovalInv, NEW a \in Application, NEW m \in Email, NEW answered \in BOOLEAN,
           Submit(a, m, answered)
    PROVE  ApprovalInv'
<1>1. /\ DOMAIN application' = Application
      /\ \A b \in Application : DOMAIN application'[b] = DOMAIN application[b]
      /\ \A b \in Application \ {a} : application'[b] = application[b]
      /\ application'[a].decision = "PENDING" /\ application'[a].email = m
      /\ application'[a].mock = application[a].mock
      BY DEF Submit, ApprovalInv, StoresOK
<1>2. application[a].decision = "NONE" /\ EmailFree(m)
      BY DEF Submit
<1>3. UNCHANGED <<evidence, account, linked>>
      BY DEF Submit
<1>4. StoresOK'
      BY <1>1, <1>3 DEF ApprovalInv, StoresOK, IsOpen
<1>5. ProvisionedTogether'
      BY <1>1, <1>2, <1>3 DEF ApprovalInv, ProvisionedTogether
<1>6. ASSUME NEW e \in Evidence PROVE WaitsAlone(e)'
    <2>1. evidence[e].status = "PENDING_VERIFICATION" => evidence[e].of \in Application
          BY DEF ApprovalInv, StoresOK, EvidenceType
    <2>2. WaitsAlone(e)
          BY DEF ApprovalInv, ClaimsAreUnique
    <2> QED
        BY <1>1, <1>3, <2>1, <2>2, StaysAlone
<1>7. ClaimsAreUnique'
      BY <1>1, <1>2, <1>3, <1>6 DEF ApprovalInv, ClaimsAreUnique, IsOpen, EmailFree
<1> QED
    BY <1>4, <1>5, <1>7 DEF ApprovalInv

LEMMA EvidenceKeeps ==
    ASSUME ApprovalInv, NEW a \in Application, NEW e \in Evidence, NEW amount \in EvidenceAmount,
           NEW r \in AnyReference, SubmitEvidence(a, e, amount, r)
    PROVE  ApprovalInv'
<1> DEFINE row == [of |-> a, amount |-> amount, reference |-> r, status |-> "PENDING_VERIFICATION"]
<1>1. evidence' = [evidence EXCEPT ![e] = row] /\ UNCHANGED <<application, account, linked>>
      BY DEF SubmitEvidence
<1>2. row \in EvidenceType
      BY DEF EvidenceType
<1>3. StoresOK'
      BY <1>1, <1>2, RegistrationsAssumption DEF ApprovalInv, StoresOK, IsOpen
<1>4. ProvisionedTogether'
      BY <1>1 DEF ApprovalInv, ProvisionedTogether
<1>5. \A f \in Evidence : evidence[f].reference # r
      BY DEF SubmitEvidence, ReferenceIsNew
<1>6. ASSUME NEW f \in Evidence PROVE WaitsAlone(f)'
    <2>1. CASE f = e
        <3>1. evidence'[e] = row /\ ~IsMockOf(a, r)
              BY <1>1 DEF SubmitEvidence, ReferenceIsNew, ApprovalInv, StoresOK
        <3> QED
            BY <1>1, <2>1, <3>1 DEF WaitsAlone, IsMockOf
    <2>2. CASE f # e
        <3>1. evidence'[f] = evidence[f] /\ WaitsAlone(f)
              BY <1>1, <2>2 DEF ApprovalInv, ClaimsAreUnique, StoresOK
        <3> QED
            BY <1>1, <3>1, StaysAlone
    <2> QED
        BY <2>1, <2>2
<1>7. ClaimsAreUnique'
      BY <1>1, <1>5, <1>6 DEF ApprovalInv, ClaimsAreUnique, IsOpen, StoresOK
<1> QED
    BY <1>3, <1>4, <1>7 DEF ApprovalInv

LEMMA ReviewPaymentKeeps ==
    ASSUME ApprovalInv, NEW e \in Evidence, NEW decision \in {"VERIFIED", "REJECTED"},
           ReviewPayment(e, decision)
    PROVE  ApprovalInv'
<1> DEFINE a == evidence[e].of
<1>0. a \in Application
      BY DEF ReviewPayment, ApprovalInv, StoresOK, EvidenceType
<1>1. PICK paid : linked' = Synced(a, paid)
      BY DEF ReviewPayment
<1>2. UNCHANGED <<application, account>>
      BY DEF ReviewPayment
<1>3. evidence' \in [Evidence -> EvidenceType]
      BY DEF ReviewPayment, ApprovalInv, StoresOK, EvidenceType
<1>4. \A f \in Evidence :
         /\ evidence'[f].of = evidence[f].of
         /\ evidence'[f].reference = evidence[f].reference
         /\ evidence'[f].status # "NONE" => evidence[f].status # "NONE"
         /\ evidence'[f].status = "PENDING_VERIFICATION" => evidence[f].status = "PENDING_VERIFICATION"
      BY DEF ReviewPayment, ApprovalInv, StoresOK, EvidenceType
<1>5. StoresOK'
      BY <1>0, <1>1, <1>2, <1>3, <1>4, SyncedKeeps DEF ApprovalInv, StoresOK, IsOpen
<1>6. ProvisionedTogether'
      BY <1>0, <1>1, <1>2, SyncedKeeps DEF ApprovalInv, ProvisionedTogether, NothingLinked
<1>7. ASSUME NEW f \in Evidence PROVE WaitsAlone(f)'
      BY <1>2, <1>4, StaysAlone DEF ApprovalInv, ClaimsAreUnique
<1>8. ClaimsAreUnique'
      BY <1>2, <1>4, <1>7 DEF ApprovalInv, ClaimsAreUnique, IsOpen
<1> QED
    BY <1>5, <1>6, <1>8 DEF ApprovalInv

LEMMA AcceptKeeps ==
    ASSUME ApprovalInv, NEW a \in Application, NEW mailed \in BOOLEAN, Accept(a, mailed)
    PROVE  ApprovalInv'
<1> DEFINE m == application[a].email
           row == Activated(Provisioned, Paid(evidence, a))
<1>1. /\ application[a].decision = "PENDING" /\ account[m] = "NONE"
      /\ linked' = [linked EXCEPT ![a] = row]
      /\ account' = [account EXCEPT ![m] = a]
      /\ UNCHANGED evidence
      BY DEF Accept, Approve, ReadyToApprove
<1>2. m \in Email
      BY <1>1 DEF ApprovalInv, StoresOK, IsOpen
<1>3. /\ DOMAIN application' = Application
      /\ \A b \in Application : DOMAIN application'[b] = DOMAIN application[b]
      /\ \A b \in Application \ {a} : application'[b] = application[b]
      /\ application'[a].decision = "APPROVED" /\ application'[a].email = m
      /\ application'[a].mock = application[a].mock
      BY DEF Accept, ApprovalInv, StoresOK
<1>4. row \in LinkedType /\ row.community /\ row.admin = "ACTIVE" /\ row.subscription = "ACTIVE"
    <2>1. PICK s \in {"SUCCESS", "PENDING"} :
              row = [Provisioned EXCEPT !.admin = "ACTIVE", !.subscription = "ACTIVE",
                                        !.paymentStatus = s]
          BY DEF Activated
    <2> QED
        BY <2>1 DEF Provisioned, NothingLinked, LinkedType
<1>5. StoresOK'
      BY <1>1, <1>2, <1>3, <1>4 DEF ApprovalInv, StoresOK, IsOpen
<1>6. ProvisionedTogether'
    <2>1. ASSUME NEW b \in Application, b # a
          PROVE  IF application'[b].decision = "APPROVED"
                 THEN /\ linked'[b].community
                      /\ linked'[b].admin = "ACTIVE"
                      /\ linked'[b].subscription = "ACTIVE"
                      /\ account'[application'[b].email] = b
                 ELSE /\ linked'[b] = NothingLinked
                      /\ \A n \in Email : account'[n] # b
        <3>1. linked'[b] = linked[b] /\ application'[b] = application[b]
              BY <1>1, <1>3, <2>1 DEF ApprovalInv, StoresOK
        <3>2. \A n \in Email : account'[n] = IF n = m THEN a ELSE account[n]
              BY <1>1 DEF ApprovalInv, StoresOK
        <3>3. CASE application[b].decision = "APPROVED"
            <4>1. application[b].email \in Email /\ account[application[b].email] = b
                  BY <3>3 DEF ApprovalInv, StoresOK, IsOpen, ProvisionedTogether
            <4>2. application[b].email # m
                  BY <1>1, <4>1, RegistrationsAssumption
            <4> QED
                BY <3>1, <3>2, <3>3, <4>1, <4>2 DEF ApprovalInv, ProvisionedTogether
        <3>4. CASE application[b].decision # "APPROVED"
              BY <2>1, <3>1, <3>2, <3>4 DEF ApprovalInv, ProvisionedTogether
        <3> QED
            BY <3>3, <3>4
    <2>2. /\ linked'[a] = row /\ application'[a].decision = "APPROVED"
          /\ account'[application'[a].email] = a
          BY <1>1, <1>2, <1>3 DEF ApprovalInv, StoresOK
    <2> QED
        BY <1>4, <2>1, <2>2 DEF ProvisionedTogether
<1>7. ASSUME NEW e \in Evidence PROVE WaitsAlone(e)'
    <2>1. evidence[e].status = "PENDING_VERIFICATION" => evidence[e].of \in Application
          BY DEF ApprovalInv, StoresOK, EvidenceType
    <2>2. WaitsAlone(e)
          BY DEF ApprovalInv, ClaimsAreUnique
    <2> QED
        BY <1>1, <1>3, <2>1, <2>2, StaysAlone
<1>8. ClaimsAreUnique'
      BY <1>1, <1>3, <1>7 DEF ApprovalInv, ClaimsAreUnique, IsOpen
<1> QED
    BY <1>5, <1>6, <1>8 DEF ApprovalInv

LEMMA RejectKeeps ==
    ASSUME ApprovalInv, NEW a \in Application, Reject(a)
    PROVE  ApprovalInv'
<1>1. /\ application[a].decision = "PENDING"
      /\ DOMAIN application' = Application
      /\ \A b \in Application : DOMAIN application'[b] = DOMAIN application[b]
      /\ \A b \in Application \ {a} : application'[b] = application[b]
      /\ application'[a].decision = "REJECTED" /\ application'[a].mock = application[a].mock
      /\ UNCHANGED <<evidence, account, linked>>
      BY DEF Reject, ApprovalInv, StoresOK
<1>2. StoresOK'
      BY <1>1 DEF ApprovalInv, StoresOK, IsOpen
<1>3. ProvisionedTogether'
      BY <1>1 DEF ApprovalInv, ProvisionedTogether
<1>4. ASSUME NEW e \in Evidence PROVE WaitsAlone(e)'
    <2>1. evidence[e].status = "PENDING_VERIFICATION" => evidence[e].of \in Application
          BY DEF ApprovalInv, StoresOK, EvidenceType
    <2>2. WaitsAlone(e)
          BY DEF ApprovalInv, ClaimsAreUnique
    <2> QED
        BY <1>1, <2>1, <2>2, StaysAlone
<1>5. ClaimsAreUnique'
      BY <1>1, <1>4 DEF ApprovalInv, ClaimsAreUnique, IsOpen
<1> QED
    BY <1>2, <1>3, <1>5 DEF ApprovalInv

\* The user directory gives and takes only accounts of its own.
LEMMA DirectoryKeeps ==
    ASSUME ApprovalInv, NEW m \in Email, CreateAccount(m) \/ DeleteAccount(m)
    PROVE  ApprovalInv'
<1>1. PICK value \in {"NONE", "OTHER"} :
          /\ account' = [account EXCEPT ![m] = value]
          /\ account[m] \in {"NONE", "OTHER"}
      BY DEF CreateAccount, DeleteAccount
<1>2. UNCHANGED <<application, evidence, linked>>
      BY DEF CreateAccount, DeleteAccount
<1>3. StoresOK'
      BY <1>1, <1>2 DEF ApprovalInv, StoresOK, IsOpen
<1>4. \A n \in Email, b \in Application : account'[n] = b <=> account[n] = b
      BY <1>1, RegistrationsAssumption DEF ApprovalInv, StoresOK
<1>5. \A b \in Application : application[b].decision = "APPROVED" => application[b].email \in Email
      BY DEF ApprovalInv, StoresOK, IsOpen
<1>6. ProvisionedTogether'
      BY <1>2, <1>4, <1>5 DEF ApprovalInv, ProvisionedTogether
<1>7. ClaimsAreUnique'
      BY <1>2 DEF ApprovalInv, ClaimsAreUnique, IsOpen, WaitsAlone, IsMockOf
<1> QED
    BY <1>3, <1>6, <1>7 DEF ApprovalInv

-----------------------------------------------------------------------------
(* Every step. *)

LEMMA MockPaymentKeeps ==
    ASSUME ApprovalInv, NEW a \in Application, NEW answered \in BOOLEAN, MockPayment(a, answered)
    PROVE  ApprovalInv'
<1>1. PICK row : /\ application' = [application EXCEPT ![a] = row]
                 /\ \/ row = application[a]
                    \/ Pending(a) = {} /\ \E value : row = [application[a] EXCEPT !.mock = value]
    <2>1. CASE application[a].mock[page[a].phase] = 0 /\ AmountDue(a, page[a].phase) > 0
          BY <2>1 DEF MockPayment, InPhase
    <2>2. CASE ~(application[a].mock[page[a].phase] = 0 /\ AmountDue(a, page[a].phase) > 0)
          BY <2>2 DEF MockPayment
    <2> QED
        BY <2>1, <2>2
<1>2. PICK paid : linked' = linked \/ linked' = Synced(a, paid)
      BY DEF MockPayment
<1>3. UNCHANGED <<evidence, account>>
      BY DEF MockPayment
<1>4. /\ DOMAIN application' = Application
      /\ \A b \in Application :
            /\ DOMAIN application'[b] = DOMAIN application[b]
            /\ application'[b].decision = application[b].decision
            /\ application'[b].email = application[b].email
            /\ application'[b].mock = application[b].mock \/ Pending(b) = {}
      BY <1>1 DEF ApprovalInv, StoresOK
<1>5. linked \in [Application -> LinkedType]
      BY DEF ApprovalInv, StoresOK
<1> QED
    BY <1>2, <1>3, <1>4, <1>5, PaymentsKeep, SyncedKeeps

LEMMA RetryKeeps ==
    ASSUME ApprovalInv, NEW a \in Application, RetryAccept(a)
    PROVE  ApprovalInv'
<1>1. /\ DOMAIN application' = Application
      /\ \A b \in Application :
            /\ DOMAIN application'[b] = DOMAIN application[b]
            /\ application'[b].decision = application[b].decision
            /\ application'[b].email = application[b].email
            /\ application'[b].mock = application[b].mock
      BY DEF RetryAccept, ApprovalInv, StoresOK
<1>2. linked \in [Application -> LinkedType] /\ UNCHANGED <<evidence, account, linked>>
      BY DEF RetryAccept, ApprovalInv, StoresOK
<1> QED
    BY <1>1, <1>2, PaymentsKeep

\* Upgrades change two fields of a subscription that is active.
LEMMA UpgradeKeeps ==
    ASSUME ApprovalInv, NEW a \in Application, RequestLinkedUpgrade(a) \/ CompleteLinkedUpgrade(a)
    PROVE  ApprovalInv'
<1>1. application[a].decision = "APPROVED"
      BY DEF RequestLinkedUpgrade, CompleteLinkedUpgrade, ApprovalInv, ProvisionedTogether, NothingLinked
<1>2. linked[a].admin = "ACTIVE"
      BY <1>1 DEF ApprovalInv, ProvisionedTogether
<1>3. linked' \in [Application -> LinkedType]
    <2>1. linked[a] \in LinkedType /\ linked \in [Application -> LinkedType]
          BY DEF ApprovalInv, StoresOK
    <2>2. PICK row : /\ linked' = [linked EXCEPT ![a] = row]
                     /\ \/ row = [linked[a] EXCEPT !.upgrade = TRUE]
                        \/ row = [[linked[a] EXCEPT !.upgrade = FALSE]
                                      EXCEPT !.paymentStatus = "SUCCESS"]
        <3>1. CASE RequestLinkedUpgrade(a)
              BY <2>1, <3>1 DEF RequestLinkedUpgrade
        <3>2. CASE CompleteLinkedUpgrade(a)
              BY <2>1, <3>2 DEF CompleteLinkedUpgrade
        <3> QED
            BY <3>1, <3>2
    <2>3. row \in LinkedType
          BY <2>1, <2>2, Zenon DEF LinkedType
    <2> QED
        BY <2>1, <2>2, <2>3
<1>4. \A b \in Application :
         /\ linked'[b] = linked[b] \/ b = a
         /\ linked'[a].community = linked[a].community
         /\ linked'[a].admin = linked[a].admin
         /\ linked'[a].subscription = linked[a].subscription
      BY DEF RequestLinkedUpgrade, CompleteLinkedUpgrade, ApprovalInv, StoresOK, LinkedType
<1>5. UNCHANGED <<application, evidence, account>>
      BY DEF RequestLinkedUpgrade, CompleteLinkedUpgrade
<1>6. DOMAIN application = Application
      BY DEF ApprovalInv, StoresOK
<1> QED
    BY <1>2, <1>3, <1>4, <1>5, <1>6, PaymentsKeep

LEMMA FailureKeeps ==
    ASSUME ApprovalInv, NEW a \in Application, NEW n \in 0..2, FailToAccept(a, n)
    PROVE  ApprovalInv'
<1>1. linked[a] = NothingLinked
      BY DEF FailToAccept, ReadyToApprove, ApprovalInv, ProvisionedTogether
<1>2. linked' = linked
      BY <1>1 DEF FailToAccept, Undone, ApprovalInv, StoresOK
<1> QED
    BY <1>2 DEF FailToAccept, ApprovalInv, StoresOK, ProvisionedTogether, ClaimsAreUnique, IsOpen,
                    WaitsAlone, IsMockOf

LEMMA ApprovalNextInv == ApprovalInv /\ [RegistrationsNext]_registrationVars => ApprovalInv'
<1> SUFFICES ASSUME ApprovalInv, [RegistrationsNext]_registrationVars PROVE ApprovalInv'
    OBVIOUS
<1>1. ASSUME UNCHANGED <<application, evidence, account, linked>> PROVE ApprovalInv'
      BY <1>1 DEF ApprovalInv, StoresOK, ProvisionedTogether, ClaimsAreUnique, IsOpen, WaitsAlone, IsMockOf
<1>2. ASSUME NEW a \in Application, ShowQuote(a) \/ EditForm(a) \/ LoadStatus(a) \/ ExpireSession(a)
      PROVE  ApprovalInv'
      BY <1>1, <1>2 DEF ShowQuote, EditForm, LoadStatus, ExpireSession
<1>3. ASSUME NEW enabled \in BOOLEAN, Configure(enabled)
      PROVE  ApprovalInv'
      BY <1>1, <1>3 DEF Configure
<1> QED
    BY <1>1, <1>2, <1>3, SubmitKeeps, MockPaymentKeeps, EvidenceKeeps, AcceptKeeps, FailureKeeps,
       RetryKeeps, RejectKeeps, UpgradeKeeps, ReviewPaymentKeeps, DirectoryKeeps
    DEF RegistrationsNext, registrationVars

\* The invariant holds for any applications, evidence, pricing and accounts.
THEOREM RegistrationsInvariant == RegistrationsSpec => []ApprovalInv
BY ApprovalInitInv, ApprovalNextInv, PTL DEF RegistrationsSpec

\* Community, administrator, account and subscription come with the approval of their
\* application, all of them and only then, also when an approval fails halfway and
\* while the directory creates and deletes accounts (registration.service.ts,
\* createCommunity).
THEOREM ApprovalIsWhole == RegistrationsSpec => []ProvisionedTogether
<1>1. ApprovalInv => ProvisionedTogether
      BY DEF ApprovalInv
<1> QED
    BY <1>1, RegistrationsInvariant, PTL

\* No email is in two open applications and no reference in two pieces of evidence,
\* and none that waits has the reference of an evaluation payment of its application,
\* however many applicants submit, pay and retry (submit, evidence, mockPayment).
THEOREM NothingClaimedTwice == RegistrationsSpec => []ClaimsAreUnique
<1>1. ApprovalInv => ClaimsAreUnique
      BY DEF ApprovalInv
<1> QED
    BY <1>1, RegistrationsInvariant, PTL

-----------------------------------------------------------------------------
(* What was paid: the sums of the evidence.                                  *)

\* What one application has to do with money. Nothing is agreed or offered before it is
\* submitted, and what the page offers is at least what is still due, for the limit of
\* a phase stays and what is paid only grows.
MoneyOK(a) ==
    /\ application[a].decision = "NONE" =>
          application[a].initial = 0 /\ ~page[a].session /\ page[a].phase = "NONE"
    /\ application[a].decision # "NONE" =>
          page[a].quote # 0 /\ application[a].initial = Initial[page[a].quote]
    /\ Committed(a) <= Limit(a)
    /\ application[a].decision = "APPROVED" => Paid(evidence, a) >= application[a].initial
    /\ BalanceRecorded(a)
    /\ page[a].phase # "NONE" => AmountDue(a, page[a].phase) <= page[a].due

MoneyInv == RegistrationsTypeOK /\ \A a \in Application : MoneyOK(a)
Amounts(es) == [e \in Evidence |-> es[e].amount]

LEMMA AmountIsNat == \A row \in EvidenceType : row.amount \in Nat
<1>1. EvidenceAmount \cup {0} \subseteq Nat
      BY RegistrationsAssumption
<1> QED
    BY <1>1 DEF EvidenceType

LEMMA WorthCounts ==
    ASSUME NEW es \in [Evidence -> EvidenceType], NEW E \in SUBSET Evidence
    PROVE  /\ IsFiniteSet(E) /\ Counts(Amounts(es), E)
           /\ Worth(es, E) = SumFunctionOnSet(Amounts(es), E) /\ Worth(es, E) \in Nat
<1>1. IsFiniteSet(E) /\ Counts(Amounts(es), E)
      BY RegistrationsAssumption, AmountIsNat, FS_Subset DEF Counts, Amounts
<1> QED
    BY <1>1, SumIsNat DEF Worth, Amounts

\* What a change of one piece of evidence does to the sums
LEMMA WorthAfter ==
    ASSUME NEW es \in [Evidence -> EvidenceType], NEW fs \in [Evidence -> EvidenceType],
           NEW e \in Evidence, \A x \in Evidence \ {e} : fs[x] = es[x],
           NEW a, NEW st
    PROVE  /\ Worth(es, EvidenceIn(es, a, st)) \in Nat /\ Worth(fs, EvidenceIn(fs, a, st)) \in Nat
           /\ es[e].amount \in Nat /\ fs[e].amount \in Nat
           /\ Worth(fs, EvidenceIn(fs, a, st))
                 = Worth(es, EvidenceIn(es, a, st))
                   - (IF es[e].of = a /\ es[e].status \in st THEN es[e].amount ELSE 0)
                   + (IF fs[e].of = a /\ fs[e].status \in st THEN fs[e].amount ELSE 0)
<1> DEFINE E == EvidenceIn(es, a, st)
           F == EvidenceIn(fs, a, st)
<1>1. /\ E \in SUBSET Evidence /\ F \in SUBSET Evidence /\ E \ {e} = F \ {e}
      /\ (e \in E <=> es[e].of = a /\ es[e].status \in st)
      /\ (e \in F <=> fs[e].of = a /\ fs[e].status \in st)
      BY DEF EvidenceIn
<1>2. /\ IsFiniteSet(E) /\ Counts(Amounts(es), E)
      /\ Worth(es, E) = SumFunctionOnSet(Amounts(es), E) /\ Worth(es, E) \in Nat
      /\ IsFiniteSet(F) /\ Counts(Amounts(fs), F)
      /\ Worth(fs, F) = SumFunctionOnSet(Amounts(fs), F) /\ Worth(fs, F) \in Nat
      BY <1>1, WorthCounts
<1>3. /\ \A y \in E \ {e} : Amounts(fs)[y] = Amounts(es)[y]
      /\ Amounts(es)[e] = es[e].amount /\ Amounts(fs)[e] = fs[e].amount
      BY <1>1 DEF Amounts
<1>4. es[e].amount \in Nat /\ fs[e].amount \in Nat
      BY AmountIsNat
<1> HIDE DEF E, F
<1>5. SumFunctionOnSet(Amounts(fs), F)
          = SumFunctionOnSet(Amounts(es), E) - (IF e \in E THEN Amounts(es)[e] ELSE 0)
                                             + (IF e \in F THEN Amounts(fs)[e] ELSE 0)
      BY <1>1, <1>2, <1>3, SumAfterChange
<1>6. Worth(fs, F) = Worth(es, E) - (IF e \in E THEN es[e].amount ELSE 0)
                                  + (IF e \in F THEN fs[e].amount ELSE 0)
      BY <1>2, <1>3, <1>5
<1> QED
    BY <1>1, <1>2, <1>4, <1>6 DEF E, F

\* Everything in the ledger is a natural number, and what is not pending is paid.
LEMMA MoneyNumbers ==
    ASSUME RegistrationsTypeOK, NEW a \in Application
    PROVE  /\ application[a].mock["INITIAL"] \in 0..Total /\ application[a].mock["REMAINING"] \in 0..Total
           /\ application[a].initial \in 0..Total /\ Total \in Nat /\ Limit(a) \in 0..Total
           /\ Mocked(a) \in Nat /\ Paid(evidence, a) \in Nat /\ Committed(a) \in Nat
           /\ Paid(evidence, a) <= Committed(a)
           /\ Pending(a) = {} => Paid(evidence, a) = Committed(a)
           /\ page[a].due \in Nat
<1>1. application[a] \in ApplicationType /\ page[a] \in PageType /\ Total \in Nat
      BY RegistrationsAssumption DEF RegistrationsTypeOK
<1>2. /\ application[a].mock["INITIAL"] \in 0..Total /\ application[a].mock["REMAINING"] \in 0..Total
      /\ application[a].initial \in 0..Total /\ page[a].due \in 0..Total
      BY <1>1 DEF ApplicationType, PageType, Phase
<1> DEFINE V == EvidenceIn(evidence, a, {"VERIFIED"})
           C == EvidenceIn(evidence, a, {"PENDING_VERIFICATION", "VERIFIED"})
<1>3. V \subseteq C /\ C \subseteq Evidence /\ (Pending(a) = {} => V = C)
      BY DEF EvidenceIn, Pending
<1>4. /\ evidence \in [Evidence -> EvidenceType]
      /\ Worth(evidence, V) \in Nat /\ Worth(evidence, C) \in Nat
      /\ Worth(evidence, V) = SumFunctionOnSet(Amounts(evidence), V)
      /\ Worth(evidence, C) = SumFunctionOnSet(Amounts(evidence), C)
      /\ IsFiniteSet(C) /\ Counts(Amounts(evidence), C)
      BY <1>3, WorthCounts DEF RegistrationsTypeOK
<1>5. Paid(evidence, a) = Mocked(a) + Worth(evidence, V)
      BY DEF Paid
<1>6. Committed(a) = Mocked(a) + Worth(evidence, C)
      BY DEF Committed
<1> HIDE DEF V, C
<1>7. Worth(evidence, V) <= Worth(evidence, C)
      BY <1>3, <1>4, SumOfSubset
<1>8. Mocked(a) \in Nat
      BY <1>1, <1>2 DEF Mocked
<1>9. Limit(a) \in 0..Total
      BY <1>1, <1>2 DEF Limit
<1> QED
    BY <1>1, <1>2, <1>3, <1>4, <1>5, <1>6, <1>7, <1>8, <1>9

-----------------------------------------------------------------------------
(* The steps that move money, and those that do not.                         *)

\* What evidence of an application is verified, and what is verified or pending
Verified(es, a) == Worth(es, EvidenceIn(es, a, {"VERIFIED"}))
Claimed(es, a) == Worth(es, EvidenceIn(es, a, {"PENDING_VERIFICATION", "VERIFIED"}))

LEMMA WhatIsPaid ==
    \A a : /\ \A es : Paid(es, a) = Mocked(a) + Verified(es, a)
           /\ Committed(a) = Mocked(a) + Claimed(evidence, a)
BY DEF Paid, Committed, Verified, Claimed

LEMMA WhatIsPaidAfter ==
    \A a : /\ Paid(evidence, a)' = Mocked(a)' + Verified(evidence', a)
           /\ Committed(a)' = Mocked(a)' + Claimed(evidence', a)
BY DEF Paid, Committed, Verified, Claimed

\* An application whose row, account, page and evidence stay as they are
LEMMA OthersMoney ==
    ASSUME NEW b \in Application, MoneyOK(b),
           application'[b] = application[b], linked'[b] = linked[b], page'[b] = page[b],
           Verified(evidence', b) = Verified(evidence, b),
           Claimed(evidence', b) = Claimed(evidence, b)
    PROVE  MoneyOK(b)' /\ Mocked(b)' = Mocked(b)
<1>1. /\ Mocked(b)' = Mocked(b) /\ Limit(b)' = Limit(b) /\ IsActive(b)' = IsActive(b)
      BY DEF Mocked, Limit, IsActive
<1>2. Committed(b)' = Committed(b)
      BY <1>1, WhatIsPaid, WhatIsPaidAfter
<1>3. Paid(evidence, b)' = Paid(evidence, b)
      BY <1>1, WhatIsPaid, WhatIsPaidAfter
<1>4. \A phase : AmountDue(b, phase)' = AmountDue(b, phase)
      BY <1>3 DEF AmountDue
<1> QED
    BY <1>1, <1>2, <1>3, <1>4 DEF MoneyOK, BalanceRecorded

\* Only the page of application a changes, and not what was agreed.
LEMMA PageMoney ==
    ASSUME MoneyInv, NEW a \in Application, UNCHANGED <<application, evidence, linked>>,
           \A b \in Application \ {a} : page'[b] = page[b],
           application[a].decision = "NONE" => page'[a].phase = "NONE" /\ ~page'[a].session,
           application[a].decision # "NONE" => page'[a].quote = page[a].quote,
           page'[a].phase # "NONE" => AmountDue(a, page'[a].phase) <= page'[a].due
    PROVE  \A b \in Application : MoneyOK(b)' /\ Mocked(b)' = Mocked(b)
<1>1. /\ Verified(evidence', a) = Verified(evidence, a)
      /\ Claimed(evidence', a) = Claimed(evidence, a)
      /\ \A b : /\ Verified(evidence', b) = Verified(evidence, b)
                /\ Claimed(evidence', b) = Claimed(evidence, b)
      OBVIOUS
<1>2. \A b \in Application \ {a} : MoneyOK(b)' /\ Mocked(b)' = Mocked(b)
      BY <1>1, OthersMoney DEF MoneyInv
<1>3. /\ Mocked(a)' = Mocked(a) /\ Limit(a)' = Limit(a) /\ IsActive(a)' = IsActive(a)
      BY DEF Mocked, Limit, IsActive
<1>4. Committed(a)' = Committed(a) /\ Paid(evidence, a)' = Paid(evidence, a)
      BY <1>1, <1>3, WhatIsPaid, WhatIsPaidAfter
<1>5. \A phase : AmountDue(a, phase)' = AmountDue(a, phase)
      BY <1>4 DEF AmountDue
<1>6. MoneyOK(a)'
      BY <1>3, <1>4, <1>5 DEF MoneyInv, MoneyOK, BalanceRecorded
<1> QED
    BY <1>2, <1>3, <1>6

\* A view offers what is due in the phase of the decision.
LEMMA Offered ==
    ASSUME RegistrationsTypeOK, NEW a \in Application, NEW row \in ApplicationType, row.decision # "NONE",
           NEW es \in [Evidence -> EvidenceType]
    PROVE  /\ Offer(a, row, es) \in PageType
           /\ Offer(a, row, es).quote = page[a].quote
           /\ Offer(a, row, es).session = page[a].session
           /\ Offer(a, row, es).phase # "NONE" =>
                 Offer(a, row, es).due
                    = (IF Offer(a, row, es).phase = "INITIAL" THEN row.initial ELSE Total)
                      - (row.mock["INITIAL"] + row.mock["REMAINING"] + Verified(es, a))
<1> DEFINE limit == IF row.decision = "APPROVED" THEN Total ELSE row.initial
           due == limit - row.mock["INITIAL"] - row.mock["REMAINING"] - Verified(es, a)
           phase == IF row.decision = "PENDING" THEN "INITIAL" ELSE "REMAINING"
           shown == row.decision # "REJECTED" /\ due > 0
                    /\ EvidenceIn(es, a, {"PENDING_VERIFICATION"}) = {}
<1>1. Offer(a, row, es) = IF shown THEN [page[a] EXCEPT !.phase = phase, !.due = due]
                          ELSE [page[a] EXCEPT !.phase = "NONE", !.due = 0]
      BY DEF Offer, Verified
<1>2. page[a] \in PageType /\ Total \in Nat
      BY RegistrationsAssumption DEF RegistrationsTypeOK
<1>3. /\ row.mock["INITIAL"] \in 0..Total /\ row.mock["REMAINING"] \in 0..Total
      /\ row.initial \in 0..Total
      /\ row.decision \in {"PENDING", "APPROVED", "REJECTED"}
      BY DEF ApplicationType, Phase
<1>4. Verified(es, a) \in Nat
    <2>1. EvidenceIn(es, a, {"VERIFIED"}) \in SUBSET Evidence
          BY DEF EvidenceIn
    <2> QED
        BY <2>1, WorthCounts DEF Verified
<1>5. CASE shown
    <2>1. due \in 0..Total /\ phase \in Phase
          BY <1>2, <1>3, <1>4, <1>5 DEF Phase
    <2>2. /\ Offer(a, row, es).phase = phase /\ Offer(a, row, es).due = due
          /\ Offer(a, row, es).quote = page[a].quote
          /\ Offer(a, row, es).session = page[a].session
          BY <1>1, <1>2, <1>5 DEF PageType
    <2>3. Offer(a, row, es) \in PageType
          BY <1>1, <1>2, <1>5, <2>1 DEF PageType
    <2>4. due = (IF phase = "INITIAL" THEN row.initial ELSE Total)
                   - (row.mock["INITIAL"] + row.mock["REMAINING"] + Verified(es, a))
          BY <1>2, <1>3, <1>4, <1>5
    <2> QED
        BY <2>2, <2>3, <2>4
<1>6. CASE ~shown
    <2>1. Offer(a, row, es) = [page[a] EXCEPT !.phase = "NONE", !.due = 0]
          BY <1>1, <1>6
    <2>2. 0 \in 0..Total
          BY <1>2
    <2> QED
        BY <1>2, <2>1, <2>2 DEF PageType
<1> QED
    BY <1>5, <1>6

\* What the action property asks of one application
Charged(a) == Mocked(a)' - Mocked(a) <= (IF page[a].phase = "NONE" THEN 0 ELSE page[a].due)

LEMMA NothingCharged ==
    ASSUME RegistrationsTypeOK, NEW a \in Application, Mocked(a)' = Mocked(a)
    PROVE  Charged(a)
BY MoneyNumbers DEF Charged

LEMMA PageStepsMoney ==
    ASSUME MoneyInv, NEW a \in Application,
           ShowQuote(a) \/ EditForm(a) \/ LoadStatus(a) \/ ExpireSession(a)
    PROVE  \A b \in Application : MoneyOK(b)' /\ Mocked(b)' = Mocked(b)
<1>1. UNCHANGED <<application, evidence, linked>>
      BY DEF ShowQuote, EditForm, LoadStatus, ExpireSession
<1>2. page \in [Application -> PageType] /\ page[a] \in PageType /\ MoneyOK(a)
      BY DEF MoneyInv, RegistrationsTypeOK
<1>3. \A b \in Application \ {a} : page'[b] = page[b]
      BY <1>2 DEF ShowQuote, EditForm, LoadStatus, ExpireSession
<1>4. CASE ShowQuote(a) \/ EditForm(a)
    <2>1. /\ application[a].decision = "NONE"
          /\ page'[a].phase = page[a].phase /\ page'[a].session = page[a].session
          BY <1>2, <1>4 DEF ShowQuote, EditForm, PageType
    <2> QED
        BY <1>1, <1>2, <1>3, <2>1, PageMoney DEF MoneyOK
<1>5. CASE LoadStatus(a)
    <2>1. application[a].decision # "NONE" /\ page'[a] = Offer(a, application[a], evidence)
          BY <1>2, <1>5 DEF LoadStatus, MoneyOK
    <2>2. application[a] \in ApplicationType /\ evidence \in [Evidence -> EvidenceType] /\ RegistrationsTypeOK
          BY DEF MoneyInv, RegistrationsTypeOK
    <2> DEFINE phase == page'[a].phase
    <2>3. /\ page'[a].quote = page[a].quote
          /\ phase # "NONE" =>
                page'[a].due = (IF phase = "INITIAL" THEN application[a].initial ELSE Total)
                               - (application[a].mock["INITIAL"] + application[a].mock["REMAINING"]
                                  + Verified(evidence, a))
          BY <2>1, <2>2, Offered
    <2>4. AmountDue(a, phase) = (IF phase = "INITIAL" THEN application[a].initial ELSE Total)
                                - (application[a].mock["INITIAL"] + application[a].mock["REMAINING"]
                                   + Verified(evidence, a))
          BY WhatIsPaid DEF AmountDue, Mocked
    <2>5. AmountDue(a, phase) \in Int
          BY <2>2, MoneyNumbers DEF AmountDue
    <2>6. phase # "NONE" => AmountDue(a, phase) <= page'[a].due
          BY <2>3, <2>4, <2>5
    <2> QED
        BY <1>1, <1>3, <2>1, <2>3, <2>6, PageMoney
<1>6. CASE ExpireSession(a)
    <2>1. /\ page'[a].phase = page[a].phase /\ ~page'[a].session
          /\ page'[a].quote = page[a].quote /\ page'[a].due = page[a].due
          BY <1>2, <1>6 DEF ExpireSession, PageType
    <2> QED
        BY <1>1, <1>2, <1>3, <2>1, PageMoney DEF MoneyOK
<1> QED
    BY <1>4, <1>5, <1>6

LEMMA SubmitMoney ==
    ASSUME MoneyInv, NEW a \in Application, NEW m \in Email, NEW answered \in BOOLEAN,
           Submit(a, m, answered)
    PROVE  \A b \in Application : MoneyOK(b)' /\ Mocked(b)' = Mocked(b)
<1>1. /\ application \in [Application -> ApplicationType] /\ application[a] \in ApplicationType
      /\ page \in [Application -> PageType] /\ page[a] \in PageType
      /\ pricing.version \in 1..MaxVersion /\ MoneyOK(a) /\ RegistrationsTypeOK
      BY DEF MoneyInv, RegistrationsTypeOK, Version
<1>2. /\ application[a].decision = "NONE" /\ page[a].quote = pricing.version
      /\ UNCHANGED <<evidence, linked>>
      BY DEF Submit, QuoteIsCurrent
<1>3. /\ \A b \in Application \ {a} : application'[b] = application[b] /\ page'[b] = page[b]
      /\ application'[a].decision = "PENDING"
      /\ application'[a].initial = Initial[pricing.version]
      /\ application'[a].mock = application[a].mock
      /\ page'[a].quote = page[a].quote /\ page'[a].phase = page[a].phase
      BY <1>1 DEF Submit, ApplicationType, PageType
<1>4. \A b : /\ Verified(evidence', b) = Verified(evidence, b)
             /\ Claimed(evidence', b) = Claimed(evidence, b)
      BY <1>2
<1>5. \A b \in Application \ {a} : MoneyOK(b)' /\ Mocked(b)' = Mocked(b)
      BY <1>2, <1>3, <1>4, OthersMoney DEF MoneyInv
<1>6. Mocked(a)' = Mocked(a)
      BY <1>3 DEF Mocked
<1>7. Committed(a)' = Committed(a) /\ Paid(evidence, a)' = Paid(evidence, a)
      BY <1>4, <1>6, WhatIsPaid, WhatIsPaidAfter
<1>8. Committed(a)' <= Limit(a)'
    <2>1. Limit(a) = 0 /\ Committed(a) <= Limit(a)
          BY <1>1, <1>2 DEF MoneyOK, Limit
    <2>2. Limit(a)' = Initial[pricing.version] /\ Initial[pricing.version] \in 1..Total /\ Total \in Nat
          BY <1>1, <1>3, RegistrationsAssumption DEF Limit, Version
    <2>3. Committed(a) \in Nat
          BY <1>1, MoneyNumbers
    <2> QED
        BY <1>7, <2>1, <2>2, <2>3
<1>9. MoneyOK(a)'
    <2>1. page'[a].quote # 0 /\ application'[a].initial = Initial[page'[a].quote] /\ page'[a].phase = "NONE"
          BY <1>1, <1>2, <1>3 DEF MoneyOK
    <2>2. BalanceRecorded(a)'
          BY <1>1, <1>2, <1>7 DEF MoneyOK, BalanceRecorded, IsActive
    <2> QED
        BY <1>3, <1>8, <2>1, <2>2 DEF MoneyOK
<1> QED
    BY <1>5, <1>6, <1>9

\* A phase that is not recorded yet charges what is due in it, and this is at most what
\* the page showed; then nothing of the phase is due any more.
LEMMA MockPaymentMoney ==
    ASSUME MoneyInv, NEW a \in Application, NEW answered \in BOOLEAN, MockPayment(a, answered)
    PROVE  RegistrationsTypeOK' /\ \A b \in Application : MoneyOK(b)' /\ Charged(b)
<1> DEFINE phase == page[a].phase
           pays == application[a].mock[phase] = 0 /\ AmountDue(a, phase) > 0
           row == IF pays THEN [application[a] EXCEPT !.mock[phase] = AmountDue(a, phase)]
                  ELSE application[a]
<1>1. /\ application \in [Application -> ApplicationType] /\ application[a] \in ApplicationType
      /\ page \in [Application -> PageType] /\ page[a] \in PageType
      /\ linked \in [Application -> LinkedType]
      /\ evidence \in [Evidence -> EvidenceType] /\ MoneyOK(a) /\ RegistrationsTypeOK
      BY DEF MoneyInv, RegistrationsTypeOK
<1>2. /\ page[a].session /\ phase \in Phase /\ application[a].decision # "NONE"
      /\ application' = [application EXCEPT ![a] = row]
      /\ page' = IF answered THEN [page EXCEPT ![a] = Offer(a, row, evidence)] ELSE page
      /\ linked' = IF row # application[a]
                   THEN Synced(a, Paid(evidence, a) + AmountDue(a, phase)) ELSE linked
      /\ evidence' = evidence
      BY <1>1 DEF MockPayment, MoneyOK, PageType
<1>3. \A b : /\ Verified(evidence', b) = Verified(evidence, b)
             /\ Claimed(evidence', b) = Claimed(evidence, b)
      BY <1>2
<1>4. /\ AmountDue(a, phase) \in Int /\ Paid(evidence, a) \in Nat /\ Committed(a) \in Nat
      /\ Mocked(a) \in Nat /\ application[a].initial \in 0..Total /\ Total \in Nat
      /\ page[a].due \in Nat
      BY <1>1, MoneyNumbers DEF AmountDue
<1>5. ASSUME pays
      PROVE  /\ application[a].decision = (IF phase = "INITIAL" THEN "PENDING" ELSE "APPROVED")
             /\ Pending(a) = {} /\ AmountDue(a, phase) = Limit(a) - Paid(evidence, a)
             /\ AmountDue(a, phase) \in 0..Total
    <2>1. InPhase(a, phase)
          BY <1>5 DEF MockPayment
    <2>2. /\ application[a].decision = (IF phase = "INITIAL" THEN "PENDING" ELSE "APPROVED")
          /\ Pending(a) = {}
          BY <2>1 DEF InPhase
    <2>3. AmountDue(a, phase) = Limit(a) - Paid(evidence, a)
          BY <1>2, <2>2 DEF AmountDue, Limit, Phase
    <2>4. Limit(a) \in 0..Total
          BY <1>1, MoneyNumbers
    <2> QED
        BY <1>4, <1>5, <2>2, <2>3, <2>4
<1>6. /\ row \in ApplicationType /\ row.decision = application[a].decision
      /\ row.initial = application[a].initial
      /\ pays => /\ row.mock = [application[a].mock EXCEPT ![phase] = AmountDue(a, phase)]
                 /\ row # application[a]
      /\ ~pays => row = application[a]
    <2>1. CASE pays
        <3>1. application[a].mock \in [Phase -> 0..Total]
              BY <1>1 DEF ApplicationType
        <3>2. row = [application[a] EXCEPT !.mock = [application[a].mock EXCEPT
                                                         ![phase] = AmountDue(a, phase)]]
              BY <1>1, <2>1 DEF ApplicationType
        <3>3. [application[a].mock EXCEPT ![phase] = AmountDue(a, phase)] \in [Phase -> 0..Total]
              BY <1>2, <1>5, <2>1, <3>1
        <3>4. /\ row \in ApplicationType /\ row.decision = application[a].decision
              /\ row.initial = application[a].initial
              /\ row.mock = [application[a].mock EXCEPT ![phase] = AmountDue(a, phase)]
              BY <1>1, <3>2, <3>3 DEF ApplicationType
        <3>5. row.mock[phase] # application[a].mock[phase]
            <4>1. row.mock[phase] = AmountDue(a, phase)
                  BY <1>2, <3>1, <3>4
            <4> QED
                BY <1>4, <2>1, <4>1
        <3> QED
            BY <2>1, <3>4, <3>5
    <2>2. CASE ~pays
          BY <1>1, <2>2
    <2> QED
        BY <2>1, <2>2
<1>7. /\ application'[a] = row
      /\ \A b \in Application \ {a} : application'[b] = application[b] /\ page'[b] = page[b]
      /\ \A b \in Application \ {a} : linked'[b] = linked[b]
      /\ linked'[a].admin = linked[a].admin
    <2>1. \A paid : /\ \A b \in Application \ {a} : Synced(a, paid)[b] = linked[b]
                    /\ Synced(a, paid)[a].admin = linked[a].admin
          BY <1>1 DEF Synced, LinkedType
    <2> HIDE DEF row, phase, pays
    <2> QED
        BY <1>1, <1>2, <2>1
<1>8. \A b \in Application \ {a} : MoneyOK(b)' /\ Mocked(b)' = Mocked(b)
      BY <1>3, <1>7, OthersMoney DEF MoneyInv
<1>9. Mocked(a)' = Mocked(a) + (IF pays THEN AmountDue(a, phase) ELSE 0)
    <2>1. Mocked(a)' = row.mock["INITIAL"] + row.mock["REMAINING"]
          BY <1>7 DEF Mocked
    <2>2. /\ application[a].mock["INITIAL"] \in Nat /\ application[a].mock["REMAINING"] \in Nat
          /\ application[a].mock \in [Phase -> 0..Total]
          BY <1>1, <1>4, MoneyNumbers DEF ApplicationType
    <2>3. CASE pays
        <3>1. phase = "INITIAL" \/ phase = "REMAINING"
              BY <1>2 DEF Phase
        <3>2. row.mock = [application[a].mock EXCEPT ![phase] = AmountDue(a, phase)]
              BY <1>6, <2>3
        <3>3. /\ phase = "INITIAL" => /\ row.mock["INITIAL"] = AmountDue(a, phase)
                                      /\ row.mock["REMAINING"] = application[a].mock["REMAINING"]
                                      /\ application[a].mock["INITIAL"] = 0
              /\ phase = "REMAINING" => /\ row.mock["REMAINING"] = AmountDue(a, phase)
                                        /\ row.mock["INITIAL"] = application[a].mock["INITIAL"]
                                        /\ application[a].mock["REMAINING"] = 0
              BY <2>2, <2>3, <3>2 DEF Phase
        <3> HIDE DEF row, phase
        <3> QED
            BY <1>4, <2>1, <2>2, <2>3, <3>1, <3>3 DEF Mocked
    <2>4. CASE ~pays
          BY <1>4, <1>6, <2>1, <2>4 DEF Mocked
    <2> QED
        BY <2>3, <2>4
<1> DEFINE charge == IF pays THEN AmountDue(a, phase) ELSE 0
<1>10. /\ Paid(evidence, a)' = Paid(evidence, a) + charge
       /\ Committed(a)' = Committed(a) + charge
    <2>1. /\ Paid(evidence, a) = Mocked(a) + Verified(evidence, a)
          /\ Committed(a) = Mocked(a) + Claimed(evidence, a)
          /\ Paid(evidence, a)' = Mocked(a)' + Verified(evidence, a)
          /\ Committed(a)' = Mocked(a)' + Claimed(evidence, a)
          BY <1>3, WhatIsPaid, WhatIsPaidAfter
    <2>2. Verified(evidence, a) \in Nat /\ Claimed(evidence, a) \in Nat
        <3>1. /\ EvidenceIn(evidence, a, {"VERIFIED"}) \in SUBSET Evidence
              /\ EvidenceIn(evidence, a, {"PENDING_VERIFICATION", "VERIFIED"}) \in SUBSET Evidence
              BY DEF EvidenceIn
        <3> QED
            BY <1>1, <3>1, WorthCounts DEF Verified, Claimed
    <2> HIDE DEF pays, phase
    <2> QED
        BY <1>4, <1>9, <2>1, <2>2
<1>11. Limit(a)' = Limit(a) /\ Limit(a) \in 0..Total
    <2>1. application'[a].decision = application[a].decision /\ application'[a].initial = application[a].initial
          BY <1>6, <1>7
    <2> QED
        BY <1>1, <2>1, MoneyNumbers DEF Limit
<1>12. Committed(a)' <= Limit(a)'
    <2>1. CASE pays
        <3>1. Committed(a) = Paid(evidence, a)
              BY <1>1, <1>5, <2>1, MoneyNumbers
        <3> QED
            BY <1>4, <1>5, <1>10, <1>11, <2>1, <3>1
    <2>2. CASE ~pays
          BY <1>1, <1>4, <1>10, <1>11, <2>2 DEF MoneyOK
    <2> QED
        BY <2>1, <2>2
<1>13. BalanceRecorded(a)'
    <2>1. CASE pays
        <3>1. linked' = Synced(a, Paid(evidence, a)')
              BY <1>2, <1>6, <1>10, <2>1
        <3>2. Paid(evidence, a)' = Total /\ IsActive(a) => linked'[a].paymentStatus = "SUCCESS"
              BY <1>1, <3>1 DEF Synced, LinkedType
        <3> QED
            BY <1>7, <3>2 DEF BalanceRecorded, IsActive
    <2>2. CASE ~pays
        <3>1. linked' = linked /\ Paid(evidence, a)' = Paid(evidence, a)
              BY <1>2, <1>4, <1>6, <1>10, <2>2
        <3> QED
            BY <1>1, <3>1 DEF MoneyOK, BalanceRecorded, IsActive
    <2> QED
        BY <2>1, <2>2
<1>14. /\ page'[a].quote = page[a].quote
       /\ page'[a].phase # "NONE" =>
             (IF page'[a].phase = "INITIAL" THEN application[a].initial ELSE Total)
                - Paid(evidence, a)' <= page'[a].due
    <2>1. CASE ~answered
        <3> DEFINE part == IF phase = "INITIAL" THEN application[a].initial ELSE Total
        <3>1. page'[a] = page[a]
              BY <1>2, <2>1
        <3>2. AmountDue(a, phase) = part - Paid(evidence, a) /\ part \in Nat
              BY <1>4 DEF AmountDue
        <3>3. AmountDue(a, phase) <= page[a].due
              BY <1>1, <1>2 DEF MoneyOK, Phase
        <3>4. charge \in Int /\ charge >= 0
              BY <1>4
        <3>5. part - Paid(evidence, a)' <= page[a].due
            <4> HIDE DEF part, phase, charge, pays
            <4> QED
                BY <1>4, <1>10, <3>2, <3>3, <3>4
        <3> QED
            BY <3>1, <3>5
    <2>2. CASE answered
        <3>1. page'[a] = Offer(a, row, evidence)
              BY <1>1, <1>2, <2>2
        <3>2. row.decision # "NONE" /\ row.initial = application[a].initial
              BY <1>2, <1>6
        <3>3. row \in ApplicationType /\ evidence \in [Evidence -> EvidenceType] /\ RegistrationsTypeOK
              BY <1>1, <1>6
        <3>4. Paid(evidence, a)' = row.mock["INITIAL"] + row.mock["REMAINING"] + Verified(evidence, a)
              BY <1>3, <1>7, WhatIsPaidAfter DEF Mocked
        <3>5. Paid(evidence, a)' \in Int
              BY <1>4, <1>10
        <3> HIDE DEF row, phase, pays, charge
        <3>6. /\ page'[a].quote = page[a].quote
              /\ page'[a].phase # "NONE" =>
                    page'[a].due = (IF page'[a].phase = "INITIAL" THEN row.initial ELSE Total)
                                   - (row.mock["INITIAL"] + row.mock["REMAINING"]
                                      + Verified(evidence, a))
              BY <3>1, <3>2, <3>3, Offered
        <3> QED
            BY <1>4, <3>2, <3>4, <3>5, <3>6
    <2> QED
        BY <2>1, <2>2
<1>15. MoneyOK(a)'
    <2>1. /\ application'[a].decision = application[a].decision
          /\ application'[a].initial = application[a].initial
          BY <1>6, <1>7
    <2>2. Paid(evidence, a)' >= Paid(evidence, a) /\ Paid(evidence, a)' \in Int
          BY <1>4, <1>10
    <2> HIDE DEF row, phase, pays, charge
    <2>3. application'[a].decision = "APPROVED" => Paid(evidence, a)' >= application'[a].initial
          BY <1>1, <1>4, <2>1, <2>2 DEF MoneyOK
    <2>4. page'[a].phase # "NONE" => (AmountDue(a, page[a].phase) <= page[a].due)'
          BY <1>14, <2>1 DEF AmountDue
    <2>5. page'[a].quote # 0 /\ application'[a].initial = Initial[page'[a].quote]
          BY <1>1, <1>2, <1>14, <2>1 DEF MoneyOK
    <2> QED
        BY <1>2, <1>12, <1>13, <2>1, <2>3, <2>4, <2>5 DEF MoneyOK
<1>16. Charged(a)
    <2>1. AmountDue(a, phase) <= page[a].due
          BY <1>1, <1>2 DEF MoneyOK, Phase
    <2>2. phase # "NONE"
          BY <1>2 DEF Phase
    <2> QED
        BY <1>4, <1>9, <2>1, <2>2 DEF Charged
<1>17. RegistrationsTypeOK'
    <2>1. page' \in [Application -> PageType]
        <3>1. Offer(a, row, evidence) \in PageType
              BY <1>1, <1>2, <1>6, Offered
        <3> HIDE DEF row
        <3> QED
            BY <1>1, <1>2, <3>1
    <2>2. linked' \in [Application -> LinkedType]
        <3>1. \A paid : Synced(a, paid) \in [Application -> LinkedType]
            <4>1. ASSUME NEW s \in {"SUCCESS", "PENDING"}
                  PROVE  [linked EXCEPT ![a].paymentStatus = s] \in [Application -> LinkedType]
                  BY <1>1 DEF LinkedType
            <4> QED
                BY <1>1, <4>1 DEF Synced
        <3> HIDE DEF row, phase, pays
        <3> QED
            BY <1>1, <1>2, <3>1
    <2>3. application' \in [Application -> ApplicationType]
          BY <1>1, <1>2, <1>6
    <2>4. UNCHANGED <<pricing, evidence, account>>
          BY DEF MockPayment
    <2> QED
        BY <1>1, <2>1, <2>2, <2>3, <2>4 DEF RegistrationsTypeOK
<1> QED
    BY <1>1, <1>8, <1>15, <1>16, <1>17, NothingCharged

\* What a change of evidence e means for the sums of application b
OneClaim(e, b) ==
    /\ Verified(evidence, b) \in Nat /\ Claimed(evidence, b) \in Nat
    /\ evidence[e].amount \in Nat /\ evidence'[e].amount \in Nat
    /\ Verified(evidence', b)
          = Verified(evidence, b)
            - (IF evidence[e].of = b /\ evidence[e].status = "VERIFIED"
               THEN evidence[e].amount ELSE 0)
            + (IF evidence'[e].of = b /\ evidence'[e].status = "VERIFIED"
               THEN evidence'[e].amount ELSE 0)
    /\ Claimed(evidence', b)
          = Claimed(evidence, b)
            - (IF evidence[e].of = b /\ evidence[e].status \in {"PENDING_VERIFICATION", "VERIFIED"}
               THEN evidence[e].amount ELSE 0)
            + (IF evidence'[e].of = b /\ evidence'[e].status \in {"PENDING_VERIFICATION", "VERIFIED"}
               THEN evidence'[e].amount ELSE 0)

LEMMA OneClaimChanges ==
    ASSUME MoneyInv, evidence' \in [Evidence -> EvidenceType], NEW e \in Evidence,
           \A x \in Evidence \ {e} : evidence'[x] = evidence[x],
           NEW b \in Application
    PROVE  OneClaim(e, b)
<1>1. evidence \in [Evidence -> EvidenceType]
      BY DEF MoneyInv, RegistrationsTypeOK
<1>2. /\ Verified(evidence, b) \in Nat
      /\ evidence[e].amount \in Nat /\ evidence'[e].amount \in Nat
      /\ Verified(evidence', b)
            = Verified(evidence, b)
              - (IF evidence[e].of = b /\ evidence[e].status \in {"VERIFIED"}
                 THEN evidence[e].amount ELSE 0)
              + (IF evidence'[e].of = b /\ evidence'[e].status \in {"VERIFIED"}
                 THEN evidence'[e].amount ELSE 0)
      BY <1>1, WorthAfter DEF Verified
<1>3. /\ Claimed(evidence, b) \in Nat
      /\ Claimed(evidence', b)
            = Claimed(evidence, b)
              - (IF evidence[e].of = b /\ evidence[e].status \in {"PENDING_VERIFICATION", "VERIFIED"}
                 THEN evidence[e].amount ELSE 0)
              + (IF evidence'[e].of = b /\ evidence'[e].status \in {"PENDING_VERIFICATION", "VERIFIED"}
                 THEN evidence'[e].amount ELSE 0)
      BY <1>1, WorthAfter DEF Claimed
<1> QED
    BY <1>2, <1>3 DEF OneClaim

LEMMA EvidenceMoney ==
    ASSUME MoneyInv, NEW a \in Application, NEW e \in Evidence, NEW amount \in EvidenceAmount,
           NEW r \in AnyReference, SubmitEvidence(a, e, amount, r)
    PROVE  \A b \in Application : MoneyOK(b)' /\ Mocked(b)' = Mocked(b)
<1> DEFINE row == [of |-> a, amount |-> amount, reference |-> r, status |-> "PENDING_VERIFICATION"]
<1>1. /\ evidence[e].status = "NONE" /\ IsOpen(a) /\ FitsLimit(a, amount)
      /\ evidence' = [evidence EXCEPT ![e] = row] /\ UNCHANGED <<application, linked, page>>
      BY DEF SubmitEvidence
<1>2. /\ evidence' \in [Evidence -> EvidenceType]
      /\ evidence'[e].of = a /\ evidence'[e].amount = amount
      /\ evidence'[e].status = "PENDING_VERIFICATION"
      /\ \A x \in Evidence \ {e} : evidence'[x] = evidence[x]
    <2>1. evidence \in [Evidence -> EvidenceType] /\ row \in EvidenceType
          BY DEF MoneyInv, RegistrationsTypeOK, EvidenceType
    <2> QED
        BY <1>1, <2>1
<1>3. \A b \in Application :
          /\ Verified(evidence', b) = Verified(evidence, b)
          /\ Claimed(evidence', b) = Claimed(evidence, b) + (IF b = a THEN amount ELSE 0)
          /\ Claimed(evidence, b) \in Nat /\ amount \in Nat
    <2>1. ASSUME NEW b \in Application
          PROVE  /\ Verified(evidence', b) = Verified(evidence, b)
                 /\ Claimed(evidence', b) = Claimed(evidence, b) + (IF b = a THEN amount ELSE 0)
                 /\ Claimed(evidence, b) \in Nat /\ amount \in Nat
        <3>1. OneClaim(e, b)
              BY <1>2, OneClaimChanges
        <3>2. /\ evidence[e].status = "NONE" /\ evidence'[e].status = "PENDING_VERIFICATION"
              /\ evidence'[e].of = a /\ evidence'[e].amount = amount
              BY <1>1, <1>2
        <3>3. Verified(evidence', b) = Verified(evidence, b)
              BY <3>1, <3>2 DEF OneClaim
        <3>4. CASE b = a
              BY <3>1, <3>2, <3>3, <3>4 DEF OneClaim
        <3>5. CASE b # a
              BY <3>1, <3>2, <3>3, <3>5 DEF OneClaim
        <3> QED
            BY <3>4, <3>5
    <2> QED
        BY <2>1
<1>4. \A b \in Application \ {a} : Claimed(evidence', b) = Claimed(evidence, b)
      BY <1>3
<1>5. \A b \in Application \ {a} : MoneyOK(b)' /\ Mocked(b)' = Mocked(b)
      BY <1>1, <1>3, <1>4, OthersMoney DEF MoneyInv
<1>6. /\ Mocked(a)' = Mocked(a) /\ Limit(a)' = Limit(a) /\ IsActive(a)' = IsActive(a)
      BY <1>1 DEF Mocked, Limit, IsActive
<1>7. Committed(a)' = Committed(a) + amount /\ Paid(evidence, a)' = Paid(evidence, a)
    <2>1. Mocked(a) \in Nat
          BY MoneyNumbers DEF MoneyInv
    <2> QED
        BY <1>3, <1>6, <2>1, WhatIsPaid, WhatIsPaidAfter
<1>8. Committed(a)' <= Limit(a)'
      BY <1>1, <1>6, <1>7 DEF FitsLimit
<1>9. \A phase : AmountDue(a, phase)' = AmountDue(a, phase)
      BY <1>1, <1>7 DEF AmountDue
<1>10. MoneyOK(a)
       BY DEF MoneyInv
<1>11. MoneyOK(a)'
       BY <1>1, <1>6, <1>7, <1>8, <1>9, <1>10 DEF MoneyOK, BalanceRecorded
<1> QED
    BY <1>5, <1>6, <1>11

LEMMA ReviewPaymentMoney ==
    ASSUME MoneyInv, ApprovalInv, NEW e \in Evidence, NEW decision \in {"VERIFIED", "REJECTED"},
           ReviewPayment(e, decision)
    PROVE  \A b \in Application : MoneyOK(b)' /\ Mocked(b)' = Mocked(b)
<1>0. PICK a \in Application : a = evidence[e].of
      BY DEF ReviewPayment, ApprovalInv, StoresOK, EvidenceType
<1>1. /\ evidence[e].status = "PENDING_VERIFICATION" /\ evidence[e].of = a
      /\ evidence' = [evidence EXCEPT ![e].status = decision]
      /\ linked' = Synced(a, Paid(evidence', a)) /\ UNCHANGED <<application, page>>
      BY <1>0 DEF ReviewPayment
<1>2. /\ evidence' \in [Evidence -> EvidenceType]
      /\ evidence'[e].of = a /\ evidence'[e].status = decision
      /\ evidence'[e].amount = evidence[e].amount
      /\ \A x \in Evidence \ {e} : evidence'[x] = evidence[x]
    <2>1. evidence \in [Evidence -> EvidenceType]
          BY DEF MoneyInv, RegistrationsTypeOK
    <2> QED
        BY <1>1, <2>1 DEF EvidenceType
<1>3. /\ linked \in [Application -> LinkedType] /\ MoneyOK(a)
      /\ Mocked(a) \in Nat /\ Limit(a) \in Nat /\ application[a].initial \in Nat
      BY <1>1, MoneyNumbers DEF MoneyInv, RegistrationsTypeOK
<1>4. /\ \A b \in Application \ {a} : linked'[b] = linked[b]
      /\ linked'[a].admin = linked[a].admin
      /\ IsActive(a) /\ Paid(evidence', a) = Total => linked'[a].paymentStatus = "SUCCESS"
      BY <1>1, <1>3 DEF Synced, LinkedType
<1> DEFINE same(b) == Verified(evidence', b) = Verified(evidence, b)
                      /\ Claimed(evidence', b) = Claimed(evidence, b)
<1>5. /\ \A b \in Application : OneClaim(e, b)
      /\ \A b \in Application \ {a} : same(b)
    <2>1. \A b \in Application : OneClaim(e, b)
          BY <1>2, OneClaimChanges
    <2>2. ASSUME NEW b \in Application \ {a} PROVE same(b)
        <3>1. evidence[e].of # b /\ evidence'[e].of # b
              BY <1>1, <1>2
        <3> QED
            BY <2>1, <3>1 DEF OneClaim
    <2> QED
        BY <2>1, <2>2
<1>6. \A b \in Application \ {a} : MoneyOK(b)' /\ Mocked(b)' = Mocked(b)
      BY <1>1, <1>4, <1>5, OthersMoney DEF MoneyInv
<1>7. /\ Mocked(a)' = Mocked(a) /\ Limit(a)' = Limit(a) /\ IsActive(a)' = IsActive(a)
      BY <1>1, <1>4 DEF Mocked, Limit, IsActive
<1>8. /\ Verified(evidence', a) >= Verified(evidence, a) /\ Verified(evidence', a) \in Int
      /\ Verified(evidence, a) \in Int
      /\ Claimed(evidence', a) <= Claimed(evidence, a) /\ Claimed(evidence', a) \in Int
      /\ Claimed(evidence, a) \in Int
    <2>1. OneClaim(e, a)
          BY <1>5
    <2>2. /\ evidence[e].status = "PENDING_VERIFICATION" /\ evidence[e].of = a
          /\ evidence'[e].of = a /\ evidence'[e].amount = evidence[e].amount
          BY <1>1, <1>2
    <2>3. CASE decision = "VERIFIED"
        <3>1. evidence'[e].status = "VERIFIED"
              BY <1>2, <2>3
        <3> QED
            BY <2>1, <2>2, <3>1 DEF OneClaim
    <2>4. CASE decision = "REJECTED"
        <3>1. evidence'[e].status = "REJECTED"
              BY <1>2, <2>4
        <3> QED
            BY <2>1, <2>2, <3>1 DEF OneClaim
    <2> QED
        BY <2>3, <2>4
<1>9. /\ Paid(evidence, a)' >= Paid(evidence, a) /\ Paid(evidence, a)' \in Int
      /\ Committed(a)' <= Committed(a) /\ Committed(a)' \in Int
      /\ Paid(evidence, a) \in Int /\ Committed(a) \in Int
      BY <1>3, <1>7, <1>8, WhatIsPaid, WhatIsPaidAfter
<1>10. Committed(a)' <= Limit(a)'
       BY <1>3, <1>7, <1>9 DEF MoneyOK
<1>11. application'[a].decision = "APPROVED" => Paid(evidence, a)' >= application'[a].initial
       BY <1>1, <1>3, <1>9 DEF MoneyOK
<1>12. BalanceRecorded(a)'
    <2>1. Paid(evidence, a)' = Paid(evidence', a)
          BY <1>7, WhatIsPaid, WhatIsPaidAfter
    <2> QED
        BY <1>4, <1>7, <2>1 DEF BalanceRecorded
<1>13. page'[a].phase # "NONE" => (AmountDue(a, page[a].phase) <= page[a].due)'
    <2> DEFINE part == IF page[a].phase = "INITIAL" THEN application[a].initial ELSE Total
    <2>1. /\ AmountDue(a, page[a].phase) = part - Paid(evidence, a)
          /\ AmountDue(a, page[a].phase)' = part - Paid(evidence, a)'
          /\ part \in Int /\ page[a].due \in Int
          BY <1>1, <1>3, MoneyNumbers DEF AmountDue, MoneyInv
    <2>2. page[a].phase # "NONE" => AmountDue(a, page[a].phase) <= page[a].due
          BY <1>3 DEF MoneyOK
    <2> HIDE DEF part
    <2>3. page[a].phase # "NONE" => AmountDue(a, page[a].phase)' <= page[a].due
          BY <1>9, <2>1, <2>2
    <2> QED
        BY <1>1, <2>3
<1>14. MoneyOK(a)'
       BY <1>1, <1>3, <1>10, <1>11, <1>12, <1>13 DEF MoneyOK
<1> QED
    BY <1>6, <1>7, <1>14

\* A decision on the application: what is agreed and paid stays, and the limit only grows.
LEMMA DecisionMoney ==
    ASSUME MoneyInv, NEW a \in Application, UNCHANGED <<evidence, page>>,
           \A b \in Application \ {a} : application'[b] = application[b] /\ linked'[b] = linked[b],
           application'[a].initial = application[a].initial,
           application'[a].mock = application[a].mock,
           application[a].decision # "NONE" => application'[a].decision # "NONE",
           application[a].decision = "NONE" => application'[a].decision = "NONE",
           application[a].decision = "APPROVED" => application'[a].decision = "APPROVED",
           application'[a].decision = "APPROVED" => Paid(evidence, a) >= application[a].initial,
           linked'[a].admin = "ACTIVE" /\ Paid(evidence, a) = Total
               => linked'[a].paymentStatus = "SUCCESS"
    PROVE  \A b \in Application : MoneyOK(b)' /\ Mocked(b)' = Mocked(b)
<1>1. \A b : Verified(evidence', b) = Verified(evidence, b) /\ Claimed(evidence', b) = Claimed(evidence, b)
      OBVIOUS
<1>2. \A b \in Application \ {a} : MoneyOK(b)' /\ Mocked(b)' = Mocked(b)
      BY <1>1, OthersMoney DEF MoneyInv
<1>3. Mocked(a)' = Mocked(a)
      BY DEF Mocked
<1>4. Committed(a)' = Committed(a) /\ Paid(evidence, a)' = Paid(evidence, a)
      BY <1>1, <1>3, WhatIsPaid, WhatIsPaidAfter
<1>5. Limit(a) <= Limit(a)' /\ Limit(a) \in Nat /\ Limit(a)' \in Nat /\ Committed(a) \in Nat
      BY MoneyNumbers DEF Limit, MoneyInv
<1>6. MoneyOK(a)
      BY DEF MoneyInv
<1>7. Committed(a)' <= Limit(a)'
      BY <1>4, <1>5, <1>6 DEF MoneyOK
<1>8. \A phase : AmountDue(a, phase)' = AmountDue(a, phase)
      BY <1>4 DEF AmountDue
<1>9. BalanceRecorded(a)'
      BY <1>4 DEF BalanceRecorded, IsActive
<1>10. MoneyOK(a)'
       BY <1>4, <1>6, <1>7, <1>8, <1>9 DEF MoneyOK
<1> QED
    BY <1>2, <1>3, <1>10

LEMMA SuperAdminMoney ==
    ASSUME MoneyInv, NEW a \in Application,
           \/ \E mailed \in BOOLEAN : Accept(a, mailed)
           \/ \E n \in 0..2 : FailToAccept(a, n)
           \/ RetryAccept(a) \/ Reject(a) \/ RequestLinkedUpgrade(a) \/ CompleteLinkedUpgrade(a)
    PROVE  \A b \in Application : MoneyOK(b)' /\ Mocked(b)' = Mocked(b)
<1>1. /\ application \in [Application -> ApplicationType] /\ application[a] \in ApplicationType
      /\ linked \in [Application -> LinkedType] /\ linked[a] \in LinkedType
      /\ MoneyOK(a)
      BY DEF MoneyInv, RegistrationsTypeOK
<1>2. /\ application[a].decision = "APPROVED" => Paid(evidence, a) >= application[a].initial
      /\ linked[a].admin = "ACTIVE" /\ Paid(evidence, a) = Total => linked[a].paymentStatus = "SUCCESS"
      BY <1>1 DEF MoneyOK, BalanceRecorded, IsActive
<1>3. ASSUME NEW mailed \in BOOLEAN, Accept(a, mailed)
      PROVE  \A b \in Application : MoneyOK(b)' /\ Mocked(b)' = Mocked(b)
    <2>1. /\ application[a].decision = "PENDING" /\ Paid(evidence, a) >= application[a].initial
          /\ linked' = [linked EXCEPT ![a] = Activated(Provisioned, Paid(evidence, a))]
          /\ UNCHANGED <<evidence, page>>
          BY <1>3 DEF Accept, Approve, ReadyToApprove
    <2>2. /\ \A b \in Application \ {a} : application'[b] = application[b] /\ linked'[b] = linked[b]
          /\ application'[a].initial = application[a].initial
          /\ application'[a].mock = application[a].mock
          /\ application'[a].decision = "APPROVED"
          BY <1>1, <1>3, <2>1 DEF Accept, ApplicationType
    <2>3. Paid(evidence, a) = Total => linked'[a].paymentStatus = "SUCCESS"
          BY <1>1, <2>1 DEF Activated, Provisioned, NothingLinked
    <2> QED
        BY <2>1, <2>2, <2>3, DecisionMoney
<1>4. ASSUME NEW n \in 0..2, FailToAccept(a, n)
      PROVE  \A b \in Application : MoneyOK(b)' /\ Mocked(b)' = Mocked(b)
    <2>1. /\ linked'[a].admin = "NONE" /\ \A b \in Application \ {a} : linked'[b] = linked[b]
          /\ UNCHANGED <<application, evidence, page>>
          BY <1>1, <1>4 DEF FailToAccept, Undone, NothingLinked
    <2> QED
        BY <1>2, <2>1, DecisionMoney
<1>5. ASSUME RetryAccept(a) \/ Reject(a)
      PROVE  \A b \in Application : MoneyOK(b)' /\ Mocked(b)' = Mocked(b)
    <2>1. /\ UNCHANGED <<evidence, page, linked>>
          /\ \A b \in Application \ {a} : application'[b] = application[b]
          /\ application'[a].initial = application[a].initial
          /\ application'[a].mock = application[a].mock
          /\ \/ application'[a].decision = application[a].decision
             \/ application[a].decision = "PENDING" /\ application'[a].decision = "REJECTED"
          BY <1>1, <1>5 DEF RetryAccept, Reject, ApplicationType
    <2> QED
        BY <1>2, <2>1, DecisionMoney
<1>6. ASSUME RequestLinkedUpgrade(a) \/ CompleteLinkedUpgrade(a)
      PROVE  \A b \in Application : MoneyOK(b)' /\ Mocked(b)' = Mocked(b)
    <2>1. /\ UNCHANGED <<application, evidence, page>>
          /\ \A b \in Application \ {a} : linked'[b] = linked[b]
          /\ linked'[a].admin = linked[a].admin
          /\ \/ linked'[a].paymentStatus = linked[a].paymentStatus
             \/ linked'[a].paymentStatus = "SUCCESS"
          BY <1>1, <1>6 DEF RequestLinkedUpgrade, CompleteLinkedUpgrade, LinkedType
    <2> QED
        BY <1>2, <2>1, DecisionMoney
<1> QED
    BY <1>3, <1>4, <1>5, <1>6

\* The rows that the other handlers write are of their types.
LEMMA RegistrationsTypeNext ==
    ASSUME MoneyInv, ApprovalInv, RegistrationsNext,
           \A a \in Application, answered \in BOOLEAN : ~MockPayment(a, answered)
    PROVE  RegistrationsTypeOK'
<1>1. /\ RegistrationsTypeOK
      /\ \A a \in Application : MoneyOK(a) /\ application[a] \in ApplicationType
                                /\ linked[a] \in LinkedType /\ page[a] \in PageType
      /\ \A v \in Version : Initial[v] \in 0..Total
      BY RegistrationsAssumption DEF MoneyInv, RegistrationsTypeOK
<1>2. ASSUME NEW enabled \in BOOLEAN, Configure(enabled) PROVE RegistrationsTypeOK'
      BY <1>1, <1>2, RegistrationsAssumption DEF Configure, RegistrationsTypeOK, Version
<1>3. ASSUME NEW a \in Application, ShowQuote(a) \/ EditForm(a) \/ ExpireSession(a) PROVE RegistrationsTypeOK'
    <2>1. PICK row \in PageType : page' = [page EXCEPT ![a] = row]
        <3>1. CASE ShowQuote(a)
              BY <1>1, <3>1 DEF ShowQuote, PageType, RegistrationsTypeOK
        <3>2. CASE EditForm(a)
              BY <1>1, <3>2 DEF EditForm, PageType, RegistrationsTypeOK
        <3>3. CASE ExpireSession(a)
              BY <1>1, <3>3 DEF ExpireSession, PageType, RegistrationsTypeOK
        <3> QED
            BY <1>3, <3>1, <3>2, <3>3
    <2> QED
        BY <1>1, <1>3, <2>1 DEF ShowQuote, EditForm, ExpireSession, RegistrationsTypeOK
<1>4. ASSUME NEW a \in Application, LoadStatus(a) PROVE RegistrationsTypeOK'
    <2>1. application[a].decision # "NONE"
          BY <1>1, <1>4 DEF LoadStatus, MoneyOK
    <2>2. Offer(a, application[a], evidence) \in PageType
          BY <1>1, <2>1, Offered DEF RegistrationsTypeOK
    <2> QED
        BY <1>1, <1>4, <2>2 DEF LoadStatus, RegistrationsTypeOK
<1>5. ASSUME NEW a \in Application, NEW m \in Email, NEW answered \in BOOLEAN,
             Submit(a, m, answered)
      PROVE  RegistrationsTypeOK'
    <2>1. application' \in [Application -> ApplicationType]
        <3> DEFINE r1 == [application[a] EXCEPT !.decision = "PENDING"]
                   r2 == [r1 EXCEPT !.email = m]
                   row == [r2 EXCEPT !.initial = Initial[pricing.version]]
        <3>1. r1 \in ApplicationType
              BY <1>1 DEF ApplicationType
        <3>2. r2 \in ApplicationType
              BY <3>1 DEF ApplicationType
        <3>3. Initial[pricing.version] \in 0..Total
              BY <1>1 DEF RegistrationsTypeOK
        <3>4. row \in ApplicationType
            <4> HIDE DEF r2
            <4> QED
                BY <3>2, <3>3 DEF ApplicationType
        <3>5. application' = [application EXCEPT ![a] = row]
              BY <1>1, <1>5 DEF Submit, ApplicationType, RegistrationsTypeOK
        <3> HIDE DEF row
        <3> QED
            BY <1>1, <3>4, <3>5 DEF RegistrationsTypeOK
    <2>2. page' \in [Application -> PageType]
          BY <1>1, <1>5 DEF Submit, PageType, RegistrationsTypeOK
    <2> QED
        BY <1>1, <1>5, <2>1, <2>2 DEF Submit, RegistrationsTypeOK
<1>6. ASSUME NEW a \in Application, NEW e \in Evidence, NEW amount \in EvidenceAmount, NEW r \in AnyReference,
             SubmitEvidence(a, e, amount, r)
      PROVE  RegistrationsTypeOK'
      BY <1>1, <1>6 DEF SubmitEvidence, EvidenceType, RegistrationsTypeOK
<1>7. ASSUME NEW a \in Application, NEW row \in ApplicationType,
             application' = [application EXCEPT ![a] = row]
      PROVE  application' \in [Application -> ApplicationType]
      BY <1>1, <1>7 DEF RegistrationsTypeOK
<1>8. ASSUME NEW a \in Application, NEW row \in LinkedType, linked' = [linked EXCEPT ![a] = row]
      PROVE  linked' \in [Application -> LinkedType]
      BY <1>1, <1>8 DEF RegistrationsTypeOK
<1>9. \A paid : Activated(Provisioned, paid) \in LinkedType /\ NothingLinked \in LinkedType
    <2>1. ASSUME NEW s \in {"SUCCESS", "PENDING"}
          PROVE  [Provisioned EXCEPT !.admin = "ACTIVE", !.subscription = "ACTIVE",
                                     !.paymentStatus = s] \in LinkedType
          BY DEF Provisioned, NothingLinked, LinkedType
    <2> QED
        BY <2>1 DEF Activated, NothingLinked, LinkedType
<1>10. ASSUME NEW a \in Application, NEW mailed \in BOOLEAN, Accept(a, mailed) PROVE RegistrationsTypeOK'
    <2>1. application' \in [Application -> ApplicationType]
        <3> DEFINE r1 == [application[a] EXCEPT !.decision = "APPROVED"]
                   row == [r1 EXCEPT !.notified = IF mailed THEN 1 ELSE 0]
        <3>1. r1 \in ApplicationType
              BY <1>1 DEF ApplicationType
        <3>2. row \in ApplicationType
            <4> HIDE DEF r1
            <4> QED
                BY <3>1 DEF ApplicationType
        <3>3. application' = [application EXCEPT ![a] = row]
              BY <1>1, <1>10 DEF Accept, ApplicationType, RegistrationsTypeOK
        <3> HIDE DEF row
        <3> QED
            BY <1>7, <3>2, <3>3
    <2>2. linked' \in [Application -> LinkedType]
          BY <1>8, <1>9, <1>10 DEF Accept, Approve
    <2>3. account' \in [Email -> {"NONE", "OTHER"} \cup Application]
          BY <1>1, <1>10 DEF Accept, Approve, RegistrationsTypeOK
    <2> QED
        BY <1>1, <1>10, <2>1, <2>2, <2>3 DEF Accept, RegistrationsTypeOK
<1>11. ASSUME NEW a \in Application, NEW n \in 0..2, FailToAccept(a, n) PROVE RegistrationsTypeOK'
    <2>1. linked' \in [Application -> LinkedType]
          BY <1>8, <1>9, <1>11 DEF FailToAccept, Undone
    <2> QED
        BY <1>1, <1>11, <2>1 DEF FailToAccept, RegistrationsTypeOK
<1>12. ASSUME NEW a \in Application, RetryAccept(a) PROVE RegistrationsTypeOK'
    <2>1. Mails(a) \in Nat
          BY <1>1 DEF Mails, ApplicationType
    <2>2. application' \in [Application -> ApplicationType]
        <3> DEFINE row == [application[a] EXCEPT !.notified = Mails(a)]
        <3>1. row \in ApplicationType
              BY <1>1, <2>1 DEF ApplicationType
        <3>2. application' = [application EXCEPT ![a] = row]
              BY <1>12 DEF RetryAccept
        <3> HIDE DEF row
        <3> QED
            BY <1>7, <3>1, <3>2
    <2> QED
        BY <1>1, <1>12, <2>2 DEF RetryAccept, RegistrationsTypeOK
<1>13. ASSUME NEW a \in Application, Reject(a) PROVE RegistrationsTypeOK'
    <2> DEFINE row == [application[a] EXCEPT !.decision = "REJECTED"]
    <2>1. row \in ApplicationType
          BY <1>1 DEF ApplicationType
    <2>2. application' = [application EXCEPT ![a] = row]
          BY <1>13 DEF Reject
    <2> HIDE DEF row
    <2>3. application' \in [Application -> ApplicationType]
          BY <1>7, <2>1, <2>2
    <2> QED
        BY <1>1, <1>13, <2>3 DEF Reject, RegistrationsTypeOK
<1>14. ASSUME NEW a \in Application, RequestLinkedUpgrade(a) \/ CompleteLinkedUpgrade(a)
       PROVE  RegistrationsTypeOK'
    <2>1. linked' \in [Application -> LinkedType]
          BY <1>14, UpgradeKeeps DEF ApprovalInv, StoresOK
    <2> QED
        BY <1>1, <1>14, <2>1 DEF RequestLinkedUpgrade, CompleteLinkedUpgrade, RegistrationsTypeOK
<1>15. ASSUME NEW e \in Evidence, NEW decision \in {"VERIFIED", "REJECTED"}, ReviewPayment(e, decision)
      PROVE  RegistrationsTypeOK'
    <2>1. linked' \in [Application -> LinkedType] /\ evidence' \in [Evidence -> EvidenceType]
          BY <1>15, ReviewPaymentKeeps DEF ApprovalInv, StoresOK
    <2> QED
        BY <1>1, <1>15, <2>1 DEF ReviewPayment, RegistrationsTypeOK
<1>16. ASSUME NEW m \in Email, CreateAccount(m) \/ DeleteAccount(m) PROVE RegistrationsTypeOK'
      BY <1>1, <1>16 DEF CreateAccount, DeleteAccount, RegistrationsTypeOK
<1> QED
    BY <1>2, <1>3, <1>4, <1>5, <1>6, <1>10, <1>11, <1>12, <1>13, <1>14, <1>15, <1>16 DEF RegistrationsNext

LEMMA InitMoney == RegistrationsInit => MoneyInv
<1> SUFFICES ASSUME RegistrationsInit PROVE MoneyInv
    OBVIOUS
<1>1. /\ Total \in Nat /\ 0 \in 0..Total /\ 1 \in Version
      /\ [p \in Phase |-> 0] \in [Phase -> 0..Total]
      BY RegistrationsAssumption DEF Version
<1>2. RegistrationsTypeOK
      BY <1>1 DEF RegistrationsInit, RegistrationsTypeOK, ApplicationType, EvidenceType, LinkedType,
                  PageType, NothingLinked
<1>3. ASSUME NEW a \in Application PROVE MoneyOK(a)
    <2>1. /\ EvidenceIn(evidence, a, {"PENDING_VERIFICATION", "VERIFIED"}) = {}
          /\ Mocked(a) = 0 /\ Limit(a) = 0
          BY DEF RegistrationsInit, EvidenceIn, Mocked, Phase, Limit
    <2>2. Worth(evidence, {}) = 0
          BY SumOfNone DEF Worth
    <2>3. Committed(a) = 0
          BY <2>1, <2>2 DEF Committed
    <2> QED
        BY <2>1, <2>3 DEF RegistrationsInit, MoneyOK, BalanceRecorded, IsActive, NothingLinked
<1> QED
    BY <1>2, <1>3 DEF MoneyInv

LEMMA NextMoney ==
    ASSUME MoneyInv, ApprovalInv, [RegistrationsNext]_registrationVars
    PROVE  MoneyInv' /\ \A a \in Application : Charged(a)
<1>1. ASSUME NEW a \in Application, NEW answered \in BOOLEAN, MockPayment(a, answered)
      PROVE  MoneyInv' /\ \A b \in Application : Charged(b)
      BY <1>1, MockPaymentMoney DEF MoneyInv
<1> DEFINE kept == \A b \in Application : MoneyOK(b)' /\ Mocked(b)' = Mocked(b)
<1>2. ASSUME UNCHANGED <<application, evidence, linked, page>>
      PROVE  kept
    <2>1. \A b : Verified(evidence', b) = Verified(evidence, b) /\ Claimed(evidence', b) = Claimed(evidence, b)
          BY <1>2
    <2> QED
        BY <1>2, <2>1, OthersMoney DEF MoneyInv
<1>3. ASSUME RegistrationsNext, \A a \in Application, answered \in BOOLEAN : ~MockPayment(a, answered)
      PROVE  kept
    <2>1. ASSUME NEW enabled \in BOOLEAN, Configure(enabled) PROVE kept
          BY <1>2, <2>1 DEF Configure
    <2>2. ASSUME NEW m \in Email, CreateAccount(m) \/ DeleteAccount(m) PROVE kept
          BY <1>2, <2>2 DEF CreateAccount, DeleteAccount
    <2>3. ASSUME NEW a \in Application,
                 ShowQuote(a) \/ EditForm(a) \/ LoadStatus(a) \/ ExpireSession(a)
          PROVE  kept
          BY <2>3, PageStepsMoney
    <2>4. ASSUME NEW a \in Application, NEW m \in Email, NEW answered \in BOOLEAN,
                 Submit(a, m, answered)
          PROVE  kept
          BY <2>4, SubmitMoney
    <2>5. ASSUME NEW a \in Application, NEW e \in Evidence, NEW amount \in EvidenceAmount,
                 NEW r \in AnyReference, SubmitEvidence(a, e, amount, r)
          PROVE  kept
          BY <2>5, EvidenceMoney
    <2>6. ASSUME NEW a \in Application,
                 \/ \E mailed \in BOOLEAN : Accept(a, mailed)
                 \/ \E n \in 0..2 : FailToAccept(a, n)
                 \/ RetryAccept(a) \/ Reject(a) \/ RequestLinkedUpgrade(a) \/ CompleteLinkedUpgrade(a)
          PROVE  kept
          BY <2>6, SuperAdminMoney
    <2>7. ASSUME NEW e \in Evidence, NEW decision \in {"VERIFIED", "REJECTED"},
                 ReviewPayment(e, decision)
          PROVE  kept
          BY <2>7, ReviewPaymentMoney
    <2> HIDE DEF kept
    <2> QED
        BY <1>3, <2>1, <2>2, <2>3, <2>4, <2>5, <2>6, <2>7 DEF RegistrationsNext
<1>4. ASSUME kept, RegistrationsTypeOK'
      PROVE  MoneyInv' /\ \A a \in Application : Charged(a)
      BY <1>4, NothingCharged DEF MoneyInv
<1>5. CASE UNCHANGED registrationVars
    <2>1. RegistrationsTypeOK' /\ kept
          BY <1>2, <1>5 DEF registrationVars, MoneyInv, RegistrationsTypeOK
    <2> QED
        BY <1>4, <2>1
<1>6. CASE RegistrationsNext /\ \A a \in Application, answered \in BOOLEAN : ~MockPayment(a, answered)
      BY <1>3, <1>4, <1>6, RegistrationsTypeNext
<1> QED
    BY <1>1, <1>5, <1>6

\* Each application is offered what it was quoted, pays no more than it is asked for and
\* is settled when it has paid everything, in any order of evaluation payments, evidence
\* and reviews, whatever is configured meanwhile (submit, mockPayment,
\* submitManualPayment, reviewPayment, syncSubscriptionPayment).
THEOREM MoneyIsAsAgreed == RegistrationsSpec => []PaidAsAgreed
<1>1. MoneyInv /\ ApprovalInv /\ [RegistrationsNext]_registrationVars => MoneyInv'
      BY NextMoney
<1>2. MoneyInv => PaidAsAgreed
      BY DEF MoneyInv, MoneyOK, PaidAsAgreed
<1> QED
    BY InitMoney, <1>1, <1>2, RegistrationsInvariant, PTL DEF RegistrationsSpec

\* No step charges more than the page of the applicant showed before it, however old its
\* view was, and a retry of a payment that was recorded charges nothing (mockPayment).
THEOREM NoHiddenCharge == RegistrationsSpec => ChargedAtMostShown
<1>1. MoneyInv /\ ApprovalInv /\ [RegistrationsNext]_registrationVars => MoneyInv'
      BY NextMoney
<1>2. MoneyInv /\ ApprovalInv /\ [RegistrationsNext]_registrationVars =>
          [\A a \in Application :
              Mocked(a)' - Mocked(a) <= (IF page[a].phase = "NONE" THEN 0 ELSE page[a].due)]_registrationVars
      BY NextMoney DEF Charged
<1> QED
    BY InitMoney, <1>1, <1>2, RegistrationsInvariant, PTL DEF RegistrationsSpec, ChargedAtMostShown

-----------------------------------------------------------------------------
(* What the pages say of that money.                                         *)

\* Evidence that was submitted claims an amount.
AmountsEntered == \A e \in Evidence : evidence[e].status # "NONE" => evidence[e].amount \in EvidenceAmount

LEMMA NextAmountsEntered ==
    ASSUME RegistrationsTypeOK, AmountsEntered, [RegistrationsNext]_registrationVars
    PROVE  AmountsEntered'
<1>1. CASE evidence' = evidence
      BY <1>1 DEF AmountsEntered
<1>2. ASSUME NEW a \in Application, NEW e \in Evidence, NEW amount \in EvidenceAmount,
             NEW r \in AnyReference, SubmitEvidence(a, e, amount, r)
      PROVE  AmountsEntered'
      BY <1>2 DEF SubmitEvidence, AmountsEntered, RegistrationsTypeOK
<1>3. ASSUME NEW e \in Evidence, NEW decision \in {"VERIFIED", "REJECTED"},
             ReviewPayment(e, decision)
      PROVE  AmountsEntered'
    <2>1. /\ evidence' = [evidence EXCEPT ![e].status = decision]
          /\ evidence[e].status = "PENDING_VERIFICATION"
          BY <1>3 DEF ReviewPayment
    <2>2. ASSUME NEW f \in Evidence
          PROVE  /\ evidence'[f].amount = evidence[f].amount
                 /\ evidence'[f].status # "NONE" => evidence[f].status # "NONE"
          BY <2>1 DEF RegistrationsTypeOK, EvidenceType
    <2> QED
        BY <2>2 DEF AmountsEntered
<1>4. CASE UNCHANGED registrationVars
      BY <1>1, <1>4 DEF registrationVars
<1>5. ASSUME RegistrationsNext, evidence' # evidence PROVE AmountsEntered'
      BY <1>2, <1>3, <1>5
      DEF RegistrationsNext, Configure, ShowQuote, EditForm, LoadStatus, ExpireSession, Submit,
          MockPayment, Accept, Approve, FailToAccept, RetryAccept, Reject, RequestLinkedUpgrade,
          CompleteLinkedUpgrade, CreateAccount, DeleteAccount
<1> QED
    BY <1>1, <1>4, <1>5

\* The larger of 0 and d, and the smaller of x and y
LEMMA Extremes ==
    /\ \A d \in Int : Max({0, d}) = IF d > 0 THEN d ELSE 0
    /\ \A x, y \in Int : Min({x, y}) = IF x < y THEN x ELSE y
<1>1. ASSUME NEW d \in Int PROVE Max({0, d}) = IF d > 0 THEN d ELSE 0
    <2>1. \E x \in {0, d} : \A y \in {0, d} : x >= y
          OBVIOUS
    <2>2. Max({0, d}) \in {0, d} /\ \A y \in {0, d} : Max({0, d}) >= y
          BY <2>1 DEF Max
    <2> QED
        BY <2>2
<1>2. ASSUME NEW x \in Int, NEW y \in Int PROVE Min({x, y}) = IF x < y THEN x ELSE y
    <2>1. \E u \in {x, y} : \A v \in {x, y} : u <= v
          OBVIOUS
    <2>2. Min({x, y}) \in {x, y} /\ \A v \in {x, y} : Min({x, y}) <= v
          BY <2>1 DEF Min
    <2> QED
        BY <2>2
<1> QED
    BY <1>1, <1>2

\* What waits is the part of the claims that is not paid, and nothing waits exactly when
\* it is worth nothing.
LEMMA WhatWaits ==
    ASSUME RegistrationsTypeOK, AmountsEntered, NEW a \in Application
    PROVE  /\ PendingMinor(a) \in Nat
           /\ Committed(a) = Paid(evidence, a) + PendingMinor(a)
           /\ PendingMinor(a) = 0 <=> Pending(a) = {}
<1> DEFINE V == EvidenceIn(evidence, a, {"VERIFIED"})
           P == EvidenceIn(evidence, a, {"PENDING_VERIFICATION"})
           C == EvidenceIn(evidence, a, {"PENDING_VERIFICATION", "VERIFIED"})
<1>1. /\ V \in SUBSET Evidence /\ P \in SUBSET Evidence /\ C \in SUBSET Evidence
      /\ C = V \cup P /\ V \cap P = {}
      BY DEF EvidenceIn
<1>2. evidence \in [Evidence -> EvidenceType]
      BY DEF RegistrationsTypeOK
<1>3. ASSUME NEW e \in P PROVE Amounts(evidence)[e] \in Nat \ {0}
    <2>1. e \in Evidence /\ evidence[e].status # "NONE"
          BY <1>1 DEF EvidenceIn
    <2> QED
        BY <2>1, RegistrationsAssumption DEF AmountsEntered, Amounts
<1>4. /\ PendingMinor(a) = Worth(evidence, P) /\ Pending(a) = P
      /\ Paid(evidence, a) = Mocked(a) + Worth(evidence, V)
      /\ Committed(a) = Mocked(a) + Worth(evidence, C)
      BY DEF PendingMinor, Pending, Paid, Committed
<1>5. Mocked(a) \in Nat
      BY MoneyNumbers
<1> HIDE DEF V, P, C
<1>6. /\ IsFiniteSet(V) /\ IsFiniteSet(P)
      /\ Counts(Amounts(evidence), V) /\ Counts(Amounts(evidence), P)
      /\ Worth(evidence, V) = SumFunctionOnSet(Amounts(evidence), V) /\ Worth(evidence, V) \in Nat
      /\ Worth(evidence, P) = SumFunctionOnSet(Amounts(evidence), P) /\ Worth(evidence, P) \in Nat
      /\ Worth(evidence, C) = SumFunctionOnSet(Amounts(evidence), C)
      BY <1>1, <1>2, WorthCounts
<1>7. Worth(evidence, C) = Worth(evidence, V) + Worth(evidence, P)
    <2>1. SumFunctionOnSet(Amounts(evidence), V \cup P)
             = SumFunctionOnSet(Amounts(evidence), V) + SumFunctionOnSet(Amounts(evidence), P)
          BY <1>1, <1>6, SumOfUnion
    <2> QED
        BY <1>1, <1>6, <2>1
<1>8. P = {} => Worth(evidence, P) = 0
      BY <1>6, SumOfNone
<1>9. ASSUME NEW e \in P PROVE Worth(evidence, P) > 0
    <2>1. /\ SumFunctionOnSet(Amounts(evidence), P)
                = Amounts(evidence)[e] + SumFunctionOnSet(Amounts(evidence), P \ {e})
          /\ SumFunctionOnSet(Amounts(evidence), P \ {e}) \in Nat
          BY <1>6, SumOfOneMore, SumIsNat
    <2> QED
        BY <1>3, <1>6, <2>1
<1> QED
    BY <1>4, <1>5, <1>6, <1>7, <1>8, <1>9

\* The pages of an application, from what its money and its approval satisfy
LEMMA PagesTell ==
    ASSUME MoneyInv, ApprovalInv, AmountsEntered
    PROVE  PagesTellTheMoney
<1>1. ASSUME NEW a \in Application
      PROVE  /\ Paid(evidence, a) \in Nat /\ Limit(a) \in Nat /\ application[a].initial \in Nat
             /\ Total \in Nat /\ Limit(a) <= Total /\ Mocked(a) \in Nat
             /\ PendingMinor(a) \in Nat
             /\ PendingMinor(a) = 0 <=> Pending(a) = {}
             /\ Paid(evidence, a) + PendingMinor(a) <= Limit(a)
             /\ Mocked(a) <= Paid(evidence, a)
    <2>1. RegistrationsTypeOK /\ Committed(a) <= Limit(a)
          BY DEF MoneyInv, MoneyOK
    <2>2. Verified(evidence, a) \in Nat
        <3>1. EvidenceIn(evidence, a, {"VERIFIED"}) \in SUBSET Evidence
              BY DEF EvidenceIn
        <3> QED
            BY <2>1, <3>1, WorthCounts DEF Verified, RegistrationsTypeOK
    <2>3. Paid(evidence, a) = Mocked(a) + Verified(evidence, a)
          BY WhatIsPaid
    <2> QED
        BY <2>1, <2>2, <2>3, MoneyNumbers, WhatWaits
<1>2. ASSUME NEW a \in Application
      PROVE  /\ application[a].decision \in {"NONE", "PENDING", "APPROVED", "REJECTED"}
             /\ IsActive(a) <=> application[a].decision = "APPROVED"
      BY DEF MoneyInv, RegistrationsTypeOK, ApplicationType, ApprovalInv, ProvisionedTogether,
             IsActive, NothingLinked
<1>3. DebtsCanBePaid
    <2> SUFFICES ASSUME NEW a \in Application, page[a].session, IsOpen(a),
                        Paid(evidence, a) < Limit(a), Pending(a) = {}
                 PROVE  PayEnabled(a) /\ Confirms(a).due = AmountDue(a, Confirms(a).phase)
        BY DEF DebtsCanBePaid
    <2>1. PendingMinor(a) = 0
          BY <1>1
    <2>2. PayableMinor(a) = Limit(a) - Paid(evidence, a)
          BY <1>1, <2>1, Extremes DEF PayableMinor
    <2>3. PayEnabled(a)
          BY <1>1, <2>1, <2>2 DEF PayEnabled, PayShown, IsOpen
    <2>4. Confirms(a).due = Limit(a) - Paid(evidence, a)
          BY <2>2 DEF Confirms
    <2>5. Confirms(a).phase = IF application[a].decision = "PENDING" THEN "INITIAL" ELSE "REMAINING"
          BY DEF Confirms
    <2>6. Limit(a) = IF Confirms(a).phase = "INITIAL" THEN application[a].initial ELSE Total
          BY <2>5 DEF Limit, IsOpen
    <2> QED
        BY <2>3, <2>4, <2>6 DEF AmountDue
<1>4. StatusTells
    <2> SUFFICES ASSUME NEW a \in Application
                 PROVE  /\ a \in Filtered("AWAITING_REVIEW") <=> ReadyToApprove(a)
                        /\ a \in Filtered("AWAITING_INITIAL_PAYMENT") =>
                              Pending(a) = {} /\ AmountDue(a, "INITIAL") > 0
                        /\ a \in Filtered("ACTIVE") => a \in Filtered("APPROVED")
        BY DEF StatusTells
    <2>1. StatusOf(a) = "AWAITING_REVIEW" <=>
             application[a].decision = "PENDING" /\ Paid(evidence, a) >= application[a].initial
          BY <1>2 DEF StatusOf
    <2>2. application[a].decision = "PENDING" => Limit(a) = application[a].initial
          BY DEF Limit
    <2>3. a \in Filtered("AWAITING_REVIEW") <=> StatusOf(a) = "AWAITING_REVIEW"
          BY <2>1 DEF Filtered
    <2>4. a \in Filtered("AWAITING_REVIEW") <=> ReadyToApprove(a)
          BY <1>1, <2>1, <2>2, <2>3 DEF ReadyToApprove
    <2>5. ASSUME StatusOf(a) = "AWAITING_INITIAL_PAYMENT"
          PROVE  Pending(a) = {} /\ AmountDue(a, "INITIAL") > 0
        <3>1. ~(Paid(evidence, a) >= application[a].initial) /\ ~(PendingMinor(a) > 0)
              BY <2>5, <1>2 DEF StatusOf
        <3> QED
            BY <1>1, <3>1 DEF AmountDue
    <2>6. a \in Filtered("AWAITING_INITIAL_PAYMENT") => StatusOf(a) = "AWAITING_INITIAL_PAYMENT"
          BY DEF Filtered
    <2>7. StatusOf(a) = "ACTIVE" => application[a].decision = "APPROVED"
          BY <1>2 DEF StatusOf
    <2>8. a \in Filtered("ACTIVE") => a \in Filtered("APPROVED")
          BY <2>7 DEF Filtered
    <2> QED
        BY <2>4, <2>5, <2>6, <2>8
<1>5. FactsAddUp
    <2> SUFFICES ASSUME NEW a \in Application
                 PROVE  /\ Facts(a).credited + Facts(a).outstanding = Facts(a).fee
                        /\ Facts(a).satisfied < Facts(a).requirement =>
                              Facts(a).credited = Facts(a).satisfied
                        /\ Facts(a).waiting <= Facts(a).outstanding
                        /\ Facts(a).mock <= Facts(a).credited
        BY DEF FactsAddUp
    <2>1. /\ Facts(a).fee = Total /\ Facts(a).requirement = application[a].initial
          /\ Facts(a).satisfied = InitialVerified(a) /\ Facts(a).credited = Paid(evidence, a)
          /\ Facts(a).outstanding = OutstandingMinor(a) /\ Facts(a).mock = Mocked(a)
          /\ Facts(a).waiting = PendingMinor(a)
          BY DEF Facts
    <2>2. OutstandingMinor(a) = Total - Paid(evidence, a)
          BY DEF OutstandingMinor
    <2>3. InitialVerified(a) = IF Paid(evidence, a) < application[a].initial
                               THEN Paid(evidence, a) ELSE application[a].initial
          BY <1>1, Extremes DEF InitialVerified
    <2> QED
        BY <1>1, <2>1, <2>2, <2>3
<1> QED
    BY <1>3, <1>4, <1>5 DEF PagesTellTheMoney

\* Whoever owes something and has no evidence waiting can pay it, and confirms what is
\* due; an application is listed for review exactly when it can be approved, and as
\* waiting for its first payment only when that is due; and the amounts on its pages fit
\* each other (view, RegistrationsPage.jsx, RegistrationStatusPage.jsx).
THEOREM PagesAreTrue == RegistrationsSpec => []PaidAsTold
<1>1. MoneyInv /\ ApprovalInv /\ [RegistrationsNext]_registrationVars => MoneyInv'
      BY NextMoney
<1>2. RegistrationsInit => AmountsEntered
      BY DEF RegistrationsInit, AmountsEntered
<1>3. MoneyInv /\ AmountsEntered /\ [RegistrationsNext]_registrationVars => AmountsEntered'
      BY NextAmountsEntered DEF MoneyInv
<1>4. MoneyInv /\ ApprovalInv /\ AmountsEntered => PagesTellTheMoney
      BY PagesTell
<1>5. PaidAsAgreed /\ PagesTellTheMoney => PaidAsTold
      BY DEF PaidAsTold
<1> QED
    BY InitMoney, <1>1, <1>2, <1>3, <1>4, <1>5, RegistrationsInvariant, MoneyIsAsAgreed, PTL
    DEF RegistrationsSpec

=============================================================================
