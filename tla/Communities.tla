------------------------------ MODULE Communities ------------------------------
(****************************************************************************)
(* The hierarchy of communities, towers, floors and apartments with their   *)
(* owners, the accounts associated with it and the plan each community has  *)
(* contracted: back-end/src/modules/community/community.service.ts,         *)
(* users/user-access.service.ts and subscriptions/subscription.service.ts.  *)
(*                                                                          *)
(* An account is where it is associated: a resident with an apartment, a    *)
(* tower representative with a tower, an admin or a worker with a           *)
(* community; validate() allows no other pairs. Names and codes, which must *)
(* be unique, and the rental policy, which freezes an apartment or a        *)
(* resident under a listing or a lease, may only refuse a step that is      *)
(* possible here; that the policy freezes owners is kept. Steps are those   *)
(* of a Super Admin: a Community Admin has some of them, in one community.  *)
(* Communities linked with a registration are in Registrations.             *)
(****************************************************************************)
EXTENDS Integers, FiniteSets

CONSTANTS
    Community, Tower, Floor, Apartment,
    User,          \* account ids
    Plan,          \* capacities on offer: [towers, apartments]
    TowerRate, ApartmentRate,
    NoPlan,        \* no upgrade awaits payment
    NoParent,      \* not created
    Removed,       \* a deleted tower, whose id is never given again
    NoUser         \* no individual owner

ASSUME CommunitiesAssumption ==
    /\ Plan \subseteq [towers : Nat, apartments : Nat]
    /\ TowerRate \in Nat /\ ApartmentRate \in Nat
    /\ NoPlan \notin Plan /\ NoUser \notin User
    /\ LET Kind == <<Community, Tower, Floor, Apartment, {NoParent}, {Removed}>>
       IN  \A i, j \in 1..6 : i # j => Kind[i] \cap Kind[j] = {}
    /\ IsFiniteSet(Tower) /\ IsFiniteSet(Apartment)

VARIABLES
    community,     \* the communities: not yet, open or deleted
    subscription,  \* the plan of each
    tower,         \* tower -> community
    floor,         \* floor -> tower
    apartment,     \* apartment -> floor
    owner,         \* apartment -> individual owner
    place          \* account -> what it is associated with

vars == <<community, subscription, tower, floor, apartment, owner, place>>

Place == Community \cup Tower \cup Apartment

SubscriptionType ==
    [status : {"NONE", "PAYMENT_PENDING", "ACTIVE"},
     plan : Plan \cup {NoPlan},
     pending : Plan \cup {NoPlan},     \* the upgrade requested last
     due : Int]                        \* pendingUpgradeAmount

\* The stores hold rows of their types.
TypeOK ==
    /\ community \in [Community -> {"NONE", "OPEN", "DELETED"}]
    /\ subscription \in [Community -> SubscriptionType]
    /\ \A c \in Community : subscription[c].status # "NONE" => subscription[c].plan \in Plan
    /\ tower \in [Tower -> Community \cup {NoParent, Removed}]
    /\ floor \in [Floor -> Tower \cup {NoParent}]
    /\ apartment \in [Apartment -> Floor \cup {NoParent}]
    /\ owner \in [Apartment -> User \cup {NoUser}]
    /\ place \in [User -> Place \cup {NoParent}]

NoSubscription == [status |-> "NONE", plan |-> NoPlan, pending |-> NoPlan, due |-> 0]

Init ==
    /\ community = [c \in Community |-> "NONE"]
    /\ subscription = [c \in Community |-> NoSubscription]
    /\ tower = [t \in Tower |-> NoParent]
    /\ floor = [f \in Floor |-> NoParent]
    /\ apartment = [a \in Apartment |-> NoParent]
    /\ owner = [a \in Apartment |-> NoUser]
    /\ place = [u \in User |-> NoParent]

-----------------------------------------------------------------------------
(* What the handlers ask of the stores. *)

IsTower(t) == tower[t] \in Community
IsFloor(f) == floor[f] # NoParent
IsApartment(a) == apartment[a] # NoParent
IsResident(u) == place[u] \in Apartment

CommunityOfFloor(f) == tower[floor[f]]
CommunityOfApartment(a) == CommunityOfFloor(apartment[a])

\* The community of an association, communityIdFor of user-access.service.ts.
CommunityOf(p) ==
    CASE p \in Community -> p
      [] p \in Tower     -> tower[p]
      [] p \in Apartment -> CommunityOfApartment(p)

\* What validate() finds: a community, tower or apartment that exists.
Exists(p) ==
    \/ p \in Community /\ community[p] = "OPEN"
    \/ p \in Tower /\ IsTower(p)
    \/ p \in Apartment /\ IsApartment(p)

\* communityIdFor throws for a tower that is gone, and for no other association.
Resolves(p) == p \in Tower => IsTower(p)

TowersOf(c) == {t \in Tower : tower[t] = c}
ApartmentsOnFloor(f) == {a \in Apartment : apartment[a] = f}
ApartmentsInTower(t) == {a \in Apartment : IsApartment(a) /\ floor[apartment[a]] = t}
ApartmentsOf(c) == {a \in Apartment : IsApartment(a) /\ CommunityOfApartment(a) = c}

\* assertCommunityActive
Active(c) == subscription[c].status \in {"NONE", "ACTIVE"}

\* assertCapacityForTowers, assertCapacityForApartments
TowersFit(c, n) == subscription[c].status # "NONE" => n <= subscription[c].plan.towers
ApartmentsFit(c, n) ==
    subscription[c].status # "NONE" => n <= subscription[c].plan.apartments

OwnsNothing(u) == \A a \in Apartment : owner[a] # u

\* Mutant: the account itself is looked at, not the others.
NotYetThere(u, t) == place[u] # t

\* assertTowerHasNoOtherRepresentative
NoOtherRepresentative(u, t) == \A v \in User \ {u} : place[v] # t

-----------------------------------------------------------------------------
(* Communities and what they have contracted. *)

Steps == <<"community", "admin", "subscription">>

\* What the catch block of createCommunity leaves when n of its steps were done.
Kept(n) == IF n = 3 THEN {"community", "admin", "subscription"} ELSE {}

CreateCommunity(c, u, plan, n) ==
    LET kept == Kept(n) IN
    /\ community[c] = "NONE"
    /\ place[u] = NoParent
    /\ community' = IF "community" \in kept THEN [community EXCEPT ![c] = "OPEN"] ELSE community
    /\ place' = IF "admin" \in kept THEN [place EXCEPT ![u] = c] ELSE place
    /\ subscription' =
          IF "subscription" \in kept
          THEN [subscription EXCEPT ![c] = [NoSubscription EXCEPT !.status = "PAYMENT_PENDING",
                                                                  !.plan = plan]]
          ELSE subscription
    /\ UNCHANGED <<tower, floor, apartment, owner>>

\* Its accounts and its subscription stay.
DeleteCommunity(c) ==
    /\ community[c] = "OPEN"
    /\ TowersOf(c) = {}
    /\ community' = [community EXCEPT ![c] = "DELETED"]
    /\ UNCHANGED <<subscription, tower, floor, apartment, owner, place>>

Amount(plan) == plan.towers * TowerRate + plan.apartments * ApartmentRate

CompleteMockPayment(c) ==
    /\ subscription[c].status = "PAYMENT_PENDING"
    /\ subscription' = [subscription EXCEPT ![c].status = "ACTIVE"]
    /\ UNCHANGED <<community, tower, floor, apartment, owner, place>>

AtLeast(p, q) == p.towers >= q.towers /\ p.apartments >= q.apartments

IsUpgrade(p, q) == AtLeast(p, q) /\ p # q

UpgradeAmount(s, plan) == Amount(plan) - Amount(s.plan)

RequestUpgrade(c, plan) ==
    LET s == subscription[c] IN
    /\ s.status = "ACTIVE"
    /\ IsUpgrade(plan, s.plan)
    /\ subscription' = [subscription EXCEPT ![c].pending = plan,
                                            ![c].due = UpgradeAmount(s, plan)]
    /\ UNCHANGED <<community, tower, floor, apartment, owner, place>>

CompleteMockUpgrade(c) ==
    LET s == subscription[c] IN
    /\ s.pending # NoPlan
    /\ s.due # 0
    /\ subscription' = [subscription EXCEPT ![c].plan = s.pending,
                                            ![c].pending = NoPlan, ![c].due = 0]
    /\ UNCHANGED <<community, tower, floor, apartment, owner, place>>

-----------------------------------------------------------------------------
(* Towers, floors and apartments. *)

CreateTower(t, c) ==
    /\ tower[t] = NoParent
    /\ community[c] = "OPEN"
    /\ Active(c)
    /\ TowersFit(c, Cardinality(TowersOf(c)) + 1)
    /\ tower' = [tower EXCEPT ![t] = c]
    /\ UNCHANGED <<community, subscription, floor, apartment, owner, place>>

\* Mutant: only the tower itself is counted against the plan.
TowerAloneFits(t, c) == TowersFit(c, Cardinality(TowersOf(c)) + 1)

TowerFits(t, c) ==
    /\ TowersFit(c, Cardinality(TowersOf(c)) + 1)
    /\ ApartmentsFit(c, Cardinality(ApartmentsOf(c)) + Cardinality(ApartmentsInTower(t)))

\* updateTower: its floors, apartments and their people move with it.
UpdateTower(t, c) ==
    /\ IsTower(t)
    /\ community[c] = "OPEN"
    /\ Active(tower[t]) /\ Active(c)
    /\ c # tower[t] => TowerFits(t, c)
    /\ tower' = [tower EXCEPT ![t] = c]
    /\ UNCHANGED <<community, subscription, floor, apartment, owner, place>>

HasNoFloors(t) == \A f \in Floor : floor[f] # t

DeleteTower(t) ==
    /\ IsTower(t)
    /\ Active(tower[t])
    /\ HasNoFloors(t)
    /\ tower' = [tower EXCEPT ![t] = Removed]
    /\ UNCHANGED <<community, subscription, floor, apartment, owner, place>>

CreateFloor(f, t) ==
    /\ ~IsFloor(f)
    /\ IsTower(t)
    /\ Active(tower[t])
    /\ floor' = [floor EXCEPT ![f] = t]
    /\ UNCHANGED <<community, subscription, tower, apartment, owner, place>>

UpdateFloor(f, t) ==
    /\ IsFloor(f) /\ IsTower(t)
    /\ Active(CommunityOfFloor(f)) /\ Active(tower[t])
    /\ tower[t] # CommunityOfFloor(f) =>
          ApartmentsFit(tower[t], Cardinality(ApartmentsOf(tower[t]))
                                  + Cardinality(ApartmentsOnFloor(f)))
    /\ floor' = [floor EXCEPT ![f] = t]
    /\ UNCHANGED <<community, subscription, tower, apartment, owner, place>>

DeleteFloor(f) ==
    /\ IsFloor(f)
    /\ Active(CommunityOfFloor(f))
    /\ ApartmentsOnFloor(f) = {}
    /\ floor' = [floor EXCEPT ![f] = NoParent]
    /\ UNCHANGED <<community, subscription, tower, apartment, owner, place>>

CanOwn(u, c) == IsResident(u) /\ CommunityOf(place[u]) = c

CreateApartment(a, f, o) ==
    LET c == CommunityOfFloor(f) IN
    /\ ~IsApartment(a)
    /\ IsFloor(f)
    /\ Active(c)
    /\ ApartmentsFit(c, Cardinality(ApartmentsOf(c)) + 1)
    /\ o # NoUser => CanOwn(o, c)
    /\ apartment' = [apartment EXCEPT ![a] = f]
    /\ owner' = [owner EXCEPT ![a] = o]
    /\ UNCHANGED <<community, subscription, tower, floor, place>>

UpdateApartment(a, f) ==
    LET c == CommunityOfFloor(f) IN
    /\ IsApartment(a) /\ IsFloor(f)
    /\ Active(CommunityOfApartment(a)) /\ Active(c)
    /\ c # CommunityOfApartment(a) => ApartmentsFit(c, Cardinality(ApartmentsOf(c)) + 1)
    /\ apartment' = [apartment EXCEPT ![a] = f]
    /\ UNCHANGED <<community, subscription, tower, floor, owner, place>>

\* transferApartmentOwnershipForActor; assignOwner of the rentals is the case of
\* an apartment that had no owner.
TransferOwnership(a, o) ==
    /\ IsApartment(a)
    /\ owner[a] # o
    /\ o # NoUser => CanOwn(o, CommunityOfApartment(a))
    /\ owner' = [owner EXCEPT ![a] = o]
    /\ UNCHANGED <<community, subscription, tower, floor, apartment, place>>

DeleteApartment(a) ==
    /\ IsApartment(a)
    /\ Active(CommunityOfApartment(a))
    /\ \A u \in User : place[u] # a
    /\ apartment' = [apartment EXCEPT ![a] = NoParent]
    /\ owner' = [owner EXCEPT ![a] = NoUser]
    /\ UNCHANGED <<community, subscription, tower, floor, place>>

-----------------------------------------------------------------------------
(* Accounts. *)

\* validate() and assertCommunityActive for an account associated with p
ValidPlace(u, p) ==
    /\ Exists(p)
    /\ p \in Tower => NoOtherRepresentative(u, p)
    /\ Active(CommunityOf(p))

CreateUser(u, p) ==
    /\ place[u] = NoParent
    /\ ValidPlace(u, p)
    /\ place' = [place EXCEPT ![u] = p]
    /\ UNCHANGED <<community, subscription, tower, floor, apartment, owner>>

\* The transfer that follows the creation asks for what was asked before it.
CreateOwnerOccupant(u, a) ==
    /\ place[u] = NoParent
    /\ ValidPlace(u, a)
    /\ owner[a] = NoUser
    /\ place' = [place EXCEPT ![u] = a]
    /\ owner' = [owner EXCEPT ![a] = u]
    /\ UNCHANGED <<community, subscription, tower, floor, apartment>>

\* assertUserMutable
UserMutable(u) == OwnsNothing(u)

\* update; a representative may be given another tower without the rental check.
UpdateUser(u, p) ==
    /\ place[u] # NoParent
    /\ {place[u], p} \subseteq Tower \/ UserMutable(u)
    /\ ValidPlace(u, p)
    /\ place' = [place EXCEPT ![u] = p]
    /\ UNCHANGED <<community, subscription, tower, floor, apartment, owner>>

DeleteUser(u) ==
    /\ place[u] # NoParent
    /\ UserMutable(u)
    /\ Resolves(place[u])
    /\ Active(CommunityOf(place[u]))
    /\ place' = [place EXCEPT ![u] = NoParent]
    /\ UNCHANGED <<community, subscription, tower, floor, apartment, owner>>

AssociateResident(u, a) ==
    /\ IsResident(u)
    /\ UserMutable(u)
    /\ IsApartment(a)
    /\ Active(CommunityOfApartment(a))
    /\ place' = [place EXCEPT ![u] = a]
    /\ UNCHANGED <<community, subscription, tower, floor, apartment, owner>>

AssociateRepresentative(u, t) ==
    /\ place[u] \in Tower
    /\ IsTower(t)
    /\ Active(tower[t])
    /\ NoOtherRepresentative(u, t)
    /\ place' = [place EXCEPT ![u] = t]
    /\ UNCHANGED <<community, subscription, tower, floor, apartment, owner>>

Next ==
    \/ \E c \in Community :
          \/ \E u \in User, plan \in Plan, n \in 0..3 : CreateCommunity(c, u, plan, n)
          \/ DeleteCommunity(c) \/ CompleteMockPayment(c) \/ CompleteMockUpgrade(c)
          \/ \E plan \in Plan : RequestUpgrade(c, plan)
          \/ \E t \in Tower : CreateTower(t, c) \/ UpdateTower(t, c)
    \/ \E t \in Tower :
          \/ DeleteTower(t)
          \/ \E f \in Floor : CreateFloor(f, t) \/ UpdateFloor(f, t)
          \/ \E u \in User : AssociateRepresentative(u, t)
    \/ \E f \in Floor : DeleteFloor(f)
    \/ \E a \in Apartment :
          \/ \E f \in Floor, o \in User \cup {NoUser} : CreateApartment(a, f, o)
          \/ \E f \in Floor : UpdateApartment(a, f)
          \/ \E o \in User \cup {NoUser} : TransferOwnership(a, o)
          \/ DeleteApartment(a)
          \/ \E u \in User : CreateOwnerOccupant(u, a) \/ AssociateResident(u, a)
    \/ \E u \in User :
          \/ \E p \in Place : CreateUser(u, p) \/ UpdateUser(u, p)
          \/ DeleteUser(u)

Spec == Init /\ [][Next]_vars
-----------------------------------------------------------------------------
(* Properties. *)

\* No community ever has more towers or apartments than its plan, whatever is
\* created in it or moved into it, one apartment, a floor or a whole tower at a
\* time, and whichever upgrades were requested and paid meanwhile.
CapacityRespected ==
    \A c \in Community :
        /\ TowersFit(c, Cardinality(TowersOf(c)))
        /\ ApartmentsFit(c, Cardinality(ApartmentsOf(c)))

\* A tower has at most one representative: complaint routing assumes it
\* (community.service.ts:132), and three handlers can associate one.
OneRepresentative ==
    \A u, v \in User : place[u] = place[v] /\ place[u] \in Tower => u = v

\* Every floor, apartment and resident hangs on rows that exist, up to an open
\* community: what resolveResidentHierarchy walks never ends halfway.
RowsHang ==
    /\ \A u \in User : place[u] \in Apartment => IsApartment(place[u])
    /\ \A a \in Apartment : IsApartment(a) => IsFloor(apartment[a])
    /\ \A f \in Floor : IsFloor(f) => IsTower(floor[f])
    /\ \A t \in Tower : IsTower(t) => community[tower[t]] = "OPEN"

\* The owner of an apartment is an account of a resident as long as it is the
\* owner, through every change and deletion of accounts.
OwnerIsResident ==
    \A a \in Apartment : owner[a] # NoUser => IsApartment(a) /\ IsResident(owner[a])

\* A community has its subscription from the start, and one that was not created
\* has left no account and no subscription behind: createCommunity undoes what it did.
FoundedTogether ==
    \A c \in Community :
        /\ community[c] # "NONE" => subscription[c].status # "NONE"
        /\ community[c] = "NONE" =>
              subscription[c].status = "NONE" /\ \A u \in User : place[u] # c

\* Deletions, moves, transfers and failed creations leave no row that points at
\* nothing, though each module keeps its own and asks the others before it deletes.
\* And every tower has one account at most to route its complaints to.
HierarchyWhole == RowsHang /\ OwnerIsResident /\ FoundedTogether /\ OneRepresentative

\* What an upgrade will be charged is the price between the plan in force and the
\* plan requested last, which is never smaller in either capacity.
UpgradePriced ==
    \A c \in Community :
        LET s == subscription[c] IN
        IF s.pending = NoPlan THEN s.due = 0
        ELSE /\ IsUpgrade(s.pending, s.plan)
             /\ s.due = Amount(s.pending) - Amount(s.plan)

\* No community uses more than its plan, and none gets a larger one below its price.
PlanRespected == CapacityRespected /\ UpgradePriced

\* Every account leads to a community, as the directory of a Community Admin needs
\* (user-access.service.ts:14); docs/ACTOR_PERMISSIONS.md:33 gives each tower
\* representative a tower. It does not hold: deleteTower lets the tower of a
\* representative go, and the directory then fails for every Community Admin.
DirectoryReadable == \A u \in User : Resolves(place[u])

\* An owner lives in the community of the apartment, as the checks at
\* community.service.ts:111 and 124 demand of an owner who is recorded. It does not
\* hold: a Super Admin moves the apartment, its floor or its tower elsewhere.
OwnerIsNeighbour ==
    \A a \in Apartment : owner[a] # NoUser => CanOwn(owner[a], CommunityOfApartment(a))
=============================================================================
