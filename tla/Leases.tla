-------------------------------- MODULE Leases --------------------------------
(****************************************************************************)
(* Rental listings, leases, their lifecycle requests and the monthly rent   *)
(* they owe: back-end/src/modules/rentals/rentals.service.ts.               *)
(*                                                                          *)
(* The clock counts days (UTC dates), MonthDays of them in a month, and     *)
(* both ends of a lease are included. Every listing is a community rental   *)
(* of one community, its manager is the Community Admin, and no apartment   *)
(* here has an individual owner. Money, due days, payees and histories are  *)
(* left out; retry keys of onboarding are too: a known key changes nothing. *)
(* Amenity holds and paid services that block a handover (occupancy         *)
(* blockers) may only refuse an activation. A handler that refreshes a      *)
(* lease and then throws does what ViewLeases does with that lease.         *)
(****************************************************************************)
EXTENDS Integers, FiniteSets

CONSTANTS
    Apartment,     \* community apartments
    Resident,      \* residents of the community
    Legacy,        \* those among them with an account from before the rentals
    Listing,       \* listing ids
    Lease,         \* lease ids
    Offer,         \* availability an admin may enter: [from, until]
    Term,          \* dates an admin or a tenant may enter: [start, end]
    MonthDays,     \* days in a month
    MaxDay,        \* bound: the clock
    NoApartment,   \* a home outside the apartments above
    NoListing,     \* lease not created yet
    NoLease,       \* no predecessor
    NoResident,    \* no tenant yet
    NoTerm         \* a request without renewal terms

Never == MaxDay + 1    \* a date that is not set: after every day

ASSUME LeasesAssumption ==
    /\ MonthDays \in Nat \ {0}
    /\ MaxDay \in Nat
    /\ Offer \subseteq [from : 0..MaxDay, until : 0..Never]
    /\ Term \subseteq [start : 0..MaxDay, end : 0..MaxDay]
    /\ Legacy \subseteq Resident
    /\ NoApartment \notin Apartment /\ NoListing \notin Listing
    /\ NoLease \notin Lease /\ NoResident \notin Resident /\ NoTerm \notin Term

VARIABLES
    listing,    \* the stored listings
    lease,      \* the stored leases, each with its requests and billed months
    resident,   \* the residents' situation and apartment association
    today       \* the UTC date

vars == <<listing, lease, resident, today>>

ListingStatus == {"NONE", "DRAFT", "AVAILABLE", "RESERVED", "RENTED", "WITHDRAWN"}
LeaseStatus ==
    {"NONE", "PENDING_APPROVAL", "ACTIVE", "EXPIRED", "TERMINATED", "CANCELLED"}
Situation == {"NONE", "LEGACY", "TENANT_PENDING"}

MonthOf(day) == day \div MonthDays
FirstDay(month) == month * MonthDays
Month == 0..MonthOf(MaxDay)

ListingType ==
    [status : ListingStatus, apartment : Apartment \cup {NoApartment},
     from : 0..MaxDay, until : 0..Never]

NoRequest == [type |-> "NONE", term |-> NoTerm]

RequestType ==
    [type : {"RENEWAL"}, term : Term] \cup [type : {"NONE", "TERMINATION"}, term : {NoTerm}]

LeaseType ==
    [status : LeaseStatus,
     listing : Listing \cup {NoListing},
     tenant : Resident \cup {NoResident},
     start : 0..MaxDay, end : 0..MaxDay,
     accepted : BOOLEAN,                   \* tenantAccepted
     approved : BOOLEAN,                   \* adminApprovedBy is set
     predecessor : Lease \cup {NoLease},
     terminated : 0..Never,                \* terminatedAt
     request : RequestType,
     renewed : BOOLEAN,                    \* a renewal request was approved
     billed : SUBSET Month]                \* months with an obligation

ResidentType == [situation : Situation, home : Apartment \cup {NoApartment}]

\* The stores hold rows of their types.
TypeOK ==
    /\ listing \in [Listing -> ListingType]
    /\ lease \in [Lease -> LeaseType]
    /\ resident \in [Resident -> ResidentType]
    /\ today \in 0..MaxDay

NoListingRow == [status |-> "NONE", apartment |-> NoApartment, from |-> 0, until |-> 0]

NewLease(i, t, term) ==
    [status |-> "PENDING_APPROVAL", listing |-> i, tenant |-> t,
     start |-> term.start, end |-> term.end, accepted |-> FALSE, approved |-> FALSE,
     predecessor |-> NoLease, terminated |-> Never, request |-> NoRequest,
     renewed |-> FALSE, billed |-> {}]

NoLeaseRow ==
    [NewLease(NoListing, NoResident, [start |-> 0, end |-> 0]) EXCEPT !.status = "NONE"]

\* Older residents have no recorded situation and live elsewhere at first; the
\* others get their account when they are onboarded.
Init ==
    /\ listing = [i \in Listing |-> NoListingRow]
    /\ lease = [l \in Lease |-> NoLeaseRow]
    /\ resident = [r \in Resident |->
          [situation |-> IF r \in Legacy THEN "LEGACY" ELSE "NONE", home |-> NoApartment]]
    /\ today = 0

-----------------------------------------------------------------------------
(* What the handlers ask of the stores. *)

Live(x) == x.status \in {"ACTIVE", "PENDING_APPROVAL"}
ApartmentOf(x) == IF x.listing = NoListing THEN NoApartment ELSE listing[x.listing].apartment
Overlaps(x, y) == x.start <= y.end /\ x.end >= y.start

\* Mutant: the last day of a lease is taken as free.
ExclusiveConflicts(ls, w, except) ==
    {k \in Lease \ except : Live(ls[k]) /\ w.start < ls[k].end /\ w.end > ls[k].start}

\* Live leases among ls, other than those of `except`, that meet the dates of w.
Conflicts(ls, w, except) == {k \in Lease \ except : Live(ls[k]) /\ Overlaps(w, ls[k])}

\* assertNoLeaseOverlap
ApartmentFree(ls, a, w, except) ==
    \A k \in Conflicts(ls, w, except) : ApartmentOf(ls[k]) # a

TenantFree(ls, t, w, except) == \A k \in Conflicts(ls, w, except) : ls[k].tenant # t

\* Residents whose record says they live in a without any lease that explains it.
UnverifiedOccupants(a) ==
    {r \in Resident :
        /\ resident[r].home = a
        /\ resident[r].situation = "LEGACY"
        /\ \A l \in Lease : lease[l].tenant = r => ApartmentOf(lease[l]) # a}

\* Months of which generateCurrentObligations makes sure there is an obligation.
DueMonths(x) ==
    IF x.status \in {"ACTIVE", "EXPIRED", "TERMINATED"} /\ x.approved /\ x.start <= today
    THEN {m \in MonthOf(x.start)..MonthOf(today) :
              FirstDay(m) <= x.end /\ FirstDay(m) <= x.terminated}
    ELSE {}

GenerateObligations(x) == [x EXCEPT !.billed = @ \cup DueMonths(x)]

\* refreshLease, but for the listing
IsPast(x) == x.status = "ACTIVE" /\ x.end < today

\* Mutant: the lease expires without its last obligations.
ExpiredUnbilled(x) == [x EXCEPT !.status = "EXPIRED"]

Expired(x) == [GenerateObligations(x) EXCEPT !.status = "EXPIRED"]

RefreshLease(x) == IF IsPast(x) THEN Expired(x) ELSE x

Refreshed(L) == [l \in Lease |-> IF l \in L THEN RefreshLease(lease[l]) ELSE lease[l]]
Past(L) == {l \in L : IsPast(lease[l])}

\* Mutant: the listing's other leases are not looked at.
ReleaseAnyway(ls, ended) ==
    [i \in Listing |->
        IF i \in {ls[l].listing : l \in ended} THEN [listing[i] EXCEPT !.status = "WITHDRAWN"]
        ELSE listing[i]]

\* releaseListing for the leases that ended, ls being the leases afterwards
ReleaseListings(ls, ended) ==
    LET released == {i \in {ls[l].listing : l \in ended} :
                        \A k \in Lease : ls[k].listing = i => ~Live(ls[k])}
    IN  [i \in Listing |->
            IF i \in released THEN [listing[i] EXCEPT !.status = "WITHDRAWN"] ELSE listing[i]]

-----------------------------------------------------------------------------
(* Reading refreshes. *)

\* What managedLeases, myLease and myRentals show.
Views == {Lease} \cup {{l} : l \in Lease}
         \cup {{l \in Lease : lease[l].tenant = r} : r \in Resident}

ViewLeases(L) ==
    LET ls == Refreshed(L) IN
    /\ lease' = [l \in Lease |-> IF l \in L THEN GenerateObligations(ls[l]) ELSE ls[l]]
    /\ listing' = ReleaseListings(ls, Past(L))
    /\ UNCHANGED <<resident, today>>

\* availableListings, managed
ViewListings ==
    /\ lease' = Refreshed(Lease)
    /\ listing' = ReleaseListings(Refreshed(Lease), Past(Lease))
    /\ UNCHANGED <<resident, today>>

-----------------------------------------------------------------------------
(* Listings. *)

OpenStatus == {"DRAFT", "AVAILABLE", "RESERVED", "RENTED"}
LetStatus == {"AVAILABLE", "RESERVED", "RENTED"}

CreateListing(i, a, offer) ==
    LET ls == Refreshed(Lease)
        li == ReleaseListings(ls, Past(Lease))
    IN  /\ listing[i].status = "NONE"
        /\ UnverifiedOccupants(a) = {}
        /\ \A j \in Listing : li[j].apartment = a => li[j].status \notin OpenStatus
        /\ offer.from < offer.until
        /\ \A l \in Lease :
              ApartmentOf(ls[l]) = a /\ Live(ls[l]) => ls[l].end < today
        /\ lease' = ls
        /\ listing' = [li EXCEPT ![i] = [status |-> "DRAFT", apartment |-> a,
                                         from |-> offer.from, until |-> offer.until]]
        /\ UNCHANGED <<resident, today>>

CanPublish(i) ==
    /\ \A j \in Listing \ {i} :
          listing[j].apartment = listing[i].apartment => listing[j].status \notin LetStatus
    /\ UnverifiedOccupants(listing[i].apartment) = {}

\* A patch that leaves the status out repeats the one the listing has.
UpdateListing(i, status, offer) ==
    /\ listing[i].status \in {"DRAFT", "AVAILABLE"}
    /\ offer.from < offer.until
    /\ offer.until = Never => listing[i].until = Never   \* a date cannot be cleared
    /\ status = "AVAILABLE" /\ listing[i].status # "AVAILABLE" => CanPublish(i)
    /\ listing' = [listing EXCEPT ![i].status = status,
                                  ![i].from = offer.from, ![i].until = offer.until]
    /\ UNCHANGED <<lease, resident, today>>

-----------------------------------------------------------------------------
(* From a proposal to an active lease. *)

CanCreateLease(ls, i, t, term) ==
    /\ listing[i].status = "AVAILABLE"
    /\ term.start < term.end
    /\ ApartmentFree(ls, listing[i].apartment, term, {})
    /\ term.end <= listing[i].until
    /\ listing[i].from <= term.start
    /\ TenantFree(ls, t, term, {})

Propose(l, row, i, ls) ==
    /\ lease[l].status = "NONE"
    /\ lease' = [ls EXCEPT ![l] = row]
    /\ listing' = [ReleaseListings(ls, Past(Lease)) EXCEPT ![i].status = "RESERVED"]

CreateLease(l, i, t, term) ==
    /\ resident[t].situation # "NONE"
    /\ CanCreateLease(Refreshed(Lease), i, t, term)
    /\ Propose(l, NewLease(i, t, term), i, Refreshed(Lease))
    /\ UNCHANGED <<resident, today>>

\* onboardTenant: an account is created with the lease or not at all.
OnboardTenant(l, i, t, term) ==
    /\ ApartmentFree(lease, listing[i].apartment, term, {})
    /\ CanCreateLease(Refreshed(Lease), i, t, term)
    /\ Propose(l, [NewLease(i, t, term) EXCEPT !.approved = TRUE], i, Refreshed(Lease))
    /\ resident' = IF resident[t].situation = "NONE"
                   THEN [resident EXCEPT ![t] = [situation |-> "TENANT_PENDING",
                                                 home |-> listing[i].apartment]]
                   ELSE resident
    /\ UNCHANGED today

AcceptLease(l) ==
    /\ lease[l].status = "PENDING_APPROVAL"
    /\ ~lease[l].accepted
    /\ lease' = [lease EXCEPT ![l].accepted = TRUE]
    /\ UNCHANGED <<listing, resident, today>>

CanHandOver(x) == UnverifiedOccupants(ApartmentOf(x)) \subseteq {x.tenant}

\* Mutant: the tenant's acceptance is not asked for.
IsProposed(x) == x.status = "PENDING_APPROVAL"

IsAgreed(x) == x.status = "PENDING_APPROVAL" /\ x.accepted

CanActivate(l) ==
    LET x == lease[l] IN
    /\ IsAgreed(x)
    /\ x.end >= today
    /\ listing[x.listing].status = "RESERVED" \/ x.predecessor # NoLease
    /\ ApartmentFree(lease, ApartmentOf(x), x, {l})
    /\ TenantFree(lease, x.tenant, x, {l})
    /\ CanHandOver(x)

ActivateLease(l) ==
    /\ CanActivate(l)
    /\ lease' = [lease EXCEPT ![l] =
          GenerateObligations([lease[l] EXCEPT !.status = "ACTIVE", !.approved = TRUE])]
    /\ listing' = [listing EXCEPT ![lease[l].listing].status = "RENTED"]
    /\ UNCHANGED <<resident, today>>

ApproveLease(l) ==
    /\ lease[l].status = "PENDING_APPROVAL"
    /\ ~lease[l].approved
    /\ ApartmentFree(lease, ApartmentOf(lease[l]), lease[l], {l})
    /\ lease' = [lease EXCEPT ![l].approved = TRUE]
    /\ UNCHANGED <<listing, resident, today>>

\* reviewLease with REJECTED, cancelProposal
CancelProposal(l) ==
    LET ls == [lease EXCEPT ![l].status = "CANCELLED"] IN
    /\ lease[l].status = "PENDING_APPROVAL"
    /\ lease' = ls
    /\ listing' = ReleaseListings(ls, {l})
    /\ UNCHANGED <<resident, today>>

-----------------------------------------------------------------------------
(* Renewal and termination. *)

\* validateRenewalTerms
ValidRenewal(l, ls, term) ==
    /\ term.end <= listing[ls[l].listing].until
    /\ term.start > ls[l].end
    /\ term.end >= term.start
    /\ ApartmentFree(ls, ApartmentOf(ls[l]), term, {l})

CanRequest(l) ==
    /\ lease[l].status = "ACTIVE"
    /\ ~IsPast(lease[l])
    /\ lease[l].request = NoRequest

RequestRenewal(l, term) ==
    /\ CanRequest(l)
    /\ ~lease[l].renewed
    /\ ValidRenewal(l, lease, term)
    /\ lease' = [lease EXCEPT ![l].request = [type |-> "RENEWAL", term |-> term]]
    /\ UNCHANGED <<listing, resident, today>>

RequestTermination(l) ==
    /\ CanRequest(l)
    /\ lease' = [lease EXCEPT ![l].request = [type |-> "TERMINATION", term |-> NoTerm]]
    /\ UNCHANGED <<listing, resident, today>>

WithdrawLifecycle(l) ==
    /\ lease[l].request # NoRequest
    /\ lease' = [lease EXCEPT ![l].request = NoRequest]
    /\ UNCHANGED <<listing, resident, today>>

DeclineLifecycle(l) ==
    LET ls == Refreshed({l}) IN
    /\ lease[l].request # NoRequest
    /\ lease' = [ls EXCEPT ![l].request = NoRequest]
    /\ listing' = ReleaseListings(ls, Past({l}))
    /\ UNCHANGED <<resident, today>>

Successor(l, term) ==
    [NewLease(lease[l].listing, lease[l].tenant, term)
        EXCEPT !.accepted = TRUE, !.predecessor = l]

ApproveRenewal(l, k) ==
    LET term == lease[l].request.term IN
    /\ lease[l].request.type = "RENEWAL"
    /\ lease[k].status = "NONE"
    /\ RefreshLease(lease[l]).status = "ACTIVE"
    /\ ValidRenewal(l, lease, term)
    /\ lease' = [lease EXCEPT ![l].request = NoRequest, ![l].renewed = TRUE,
                              ![k] = Successor(l, term)]
    /\ UNCHANGED <<listing, resident, today>>

Terminated(x) ==
    [GenerateObligations(x) EXCEPT !.status = "TERMINATED", !.terminated = today,
                                   !.request = NoRequest]

\* The lease may have expired since the request.
ApproveTermination(l) ==
    LET ls == [lease EXCEPT ![l] = Terminated(RefreshLease(lease[l]))] IN
    /\ lease[l].request.type = "TERMINATION"
    /\ lease' = ls
    /\ listing' = ReleaseListings(ls, {l})
    /\ UNCHANGED <<resident, today>>

-----------------------------------------------------------------------------
(* The user records and the clock. *)

\* assertUserMutable
CanMove(r, a) ==
    /\ \A l \in Lease : lease[l].tenant # r
    /\ \A l \in Lease : Live(lease[l]) /\ ApartmentOf(lease[l]) = a => lease[l].end < today

\* associateResident
AssociateResident(r, a) ==
    /\ resident[r].situation # "NONE"
    /\ CanMove(r, a)
    /\ resident' = [resident EXCEPT ![r].home = a]
    /\ UNCHANGED <<listing, lease, today>>

Tick ==
    /\ today < MaxDay
    /\ today' = today + 1
    /\ UNCHANGED <<listing, lease, resident>>

Next ==
    \/ \E L \in Views : ViewLeases(L)
    \/ ViewListings
    \/ \E i \in Listing, offer \in Offer :
          \/ \E a \in Apartment : CreateListing(i, a, offer)
          \/ \E status \in {"DRAFT", "AVAILABLE", "WITHDRAWN"} : UpdateListing(i, status, offer)
    \/ \E l \in Lease, i \in Listing, t \in Resident, term \in Term :
          CreateLease(l, i, t, term) \/ OnboardTenant(l, i, t, term)
    \/ \E l \in Lease :
          \/ AcceptLease(l) \/ ActivateLease(l) \/ ApproveLease(l) \/ CancelProposal(l)
          \/ RequestTermination(l) \/ WithdrawLifecycle(l) \/ DeclineLifecycle(l)
          \/ ApproveTermination(l)
          \/ \E term \in Term : RequestRenewal(l, term)
          \/ \E k \in Lease : ApproveRenewal(l, k)
    \/ \E r \in Resident, a \in Apartment \cup {NoApartment} : AssociateResident(r, a)
    \/ Tick

Spec == Init /\ [][Next]_vars
-----------------------------------------------------------------------------
(* Who may act for an apartment today: resolveOccupancy without owners. *)

CurrentLeases(a) ==
    {l \in Lease : /\ ApartmentOf(lease[l]) = a
                   /\ lease[l].status = "ACTIVE"
                   /\ lease[l].start <= today /\ today <= lease[l].end}

Covers(x, r) == x.tenant = r /\ x.approved /\ x.accepted

LivesOutsideLeases(r, a) ==
    /\ resident[r].situation = "LEGACY" /\ resident[r].home = a
    /\ \A l \in Lease :
          lease[l].tenant = r /\ lease[l].start <= today
            => lease[l].status \notin {"ACTIVE", "EXPIRED", "TERMINATED"}

ResolveOccupancy(r, a) ==
    IF CurrentLeases(a) = {}
    THEN LivesOutsideLeases(r, a)
    ELSE \E l \in CurrentLeases(a) : CurrentLeases(a) = {l} /\ Covers(lease[l], r)

-----------------------------------------------------------------------------
(* Properties. *)

\* Proposals, renewals and onboarding never let an apartment twice: two live leases
\* of it have no day in common (assertNoLeaseOverlap, checked at four places). Nor do
\* two active leases of one tenant, though renewals are not checked against the
\* tenant's other leases until they are activated.
LetOnce ==
    \A k, l \in Lease :
        k # l /\ Live(lease[k]) /\ Live(lease[l]) /\ Overlaps(lease[k], lease[l]) =>
            /\ ApartmentOf(lease[k]) # ApartmentOf(lease[l])
            /\ {lease[k].status, lease[l].status} = {"ACTIVE"}
                  => lease[k].tenant # lease[l].tenant

\* A listing is off the market exactly while some proposal, lease or renewal needs it,
\* however its leases end (releaseListing), and an apartment has one open listing.
ListingsMatch ==
    /\ \A i \in Listing :
          LET live == {l \in Lease : lease[l].listing = i /\ Live(lease[l])} IN
          /\ listing[i].status \in {"RESERVED", "RENTED"} <=> live # {}
          /\ listing[i].status = "RESERVED" => \A l \in live : lease[l].status # "ACTIVE"
    /\ \A i, j \in Listing :
          /\ i # j /\ listing[i].apartment = listing[j].apartment
          /\ listing[i].status \in OpenStatus
          => listing[j].status \notin OpenStatus

\* No older resident without a lease is recorded in an apartment that is let, from
\* the activation to the last day, wherever the records moved in between.
LetIsVacant ==
    \A l \in Lease :
        lease[l].status = "ACTIVE" /\ today <= lease[l].end => CanHandOver(lease[l])

\* What is recorded of an apartment follows its leases: neither is it offered while it
\* is let, nor let while somebody else is recorded in it.
ListingFollowsLeases == ListingsMatch /\ LetIsVacant

\* While a lease runs, its tenant and nobody else may act for the apartment: an
\* overlap would lock both tenants out, a stale association would let a stranger in.
AccessFollowsLease ==
    \A a \in Apartment : \A l \in CurrentLeases(a) : \A r \in Resident :
        ResolveOccupancy(r, a) <=> r = lease[l].tenant

\* A lease that began and has expired or was terminated has an obligation for exactly
\* the months it touched, even if nobody looked at it for months, and also when its
\* termination is approved after it expired (refreshLease, decideLifecycle).
BilledInFull ==
    \A l \in Lease :
        LET x == lease[l] IN
        x.status \in {"EXPIRED", "TERMINATED"} /\ x.start <= x.terminated =>
            x.billed = {m \in MonthOf(x.start)..MonthOf(x.end) : FirstDay(m) <= x.terminated}

\* "Rent is generated only after approved activation and commencement": a lease that
\* was terminated before its first day owes nothing. The code bills it nevertheless
\* once that day has come, when it was to begin later in the month it ended.
RentFollowsCommencement ==
    \A l \in Lease : lease[l].billed # {} => lease[l].start <= lease[l].terminated
=============================================================================
