---------------------------- MODULE Leases_proofs ----------------------------
(****************************************************************************)
(* Proofs about Leases, for any number of apartments, residents, listings   *)
(* and leases, and any length of months.                                    *)
(****************************************************************************)
EXTENDS LeasePages, TLAPS, FunctionTheorems, FiniteSetTheorems

-----------------------------------------------------------------------------
(* The inductive invariant, of listings li and leases ls. *)

LiveOn(ls, i) == {l \in Lease : ls[l].listing = i /\ Live(ls[l])}

\* A lease that does not exist yet has no listing, no tenant and no request.
FreshRows(ls) ==
    \A l \in Lease : ls[l].status = "NONE" =>
        /\ ls[l].listing = NoListing /\ ls[l].tenant = NoResident
        /\ ls[l].request = NoRequest

\* Every other lease has a listing that exists.
Listed(li, ls) ==
    \A l \in Lease : ls[l].status # "NONE" =>
        ls[l].listing \in Listing /\ li[ls[l].listing].status # "NONE"

Agreed(ls) ==
    \A l \in Lease : ls[l].status = "ACTIVE" => ls[l].accepted /\ ls[l].approved

\* Live leases and listings off the market belong to each other.
Marked(li, ls) ==
    /\ \A l \in Lease : Live(ls[l]) => li[ls[l].listing].status \in {"RESERVED", "RENTED"}
    /\ \A l \in Lease : ls[l].status = "ACTIVE" => li[ls[l].listing].status = "RENTED"
    /\ \A i \in Listing : li[i].status \in {"RESERVED", "RENTED"} => LiveOn(ls, i) # {}

OneOpen(li) ==
    \A i, j \in Listing :
        i # j /\ li[i].apartment = li[j].apartment /\ li[i].status \in OpenStatus
        => li[j].status \notin OpenStatus

LetApart(li, ls) ==
    \A k, l \in Lease :
        k # l /\ Live(ls[k]) /\ Live(ls[l]) /\ Overlaps(ls[k], ls[l]) =>
            /\ li[ls[k].listing].apartment # li[ls[l].listing].apartment
            /\ ls[k].status = "ACTIVE" /\ ls[l].status = "ACTIVE"
                  => ls[k].tenant # ls[l].tenant

Core(li, ls) ==
    /\ FreshRows(ls) /\ Listed(li, ls) /\ Agreed(ls)
    /\ Marked(li, ls) /\ OneOpen(li) /\ LetApart(li, ls)

IInv == TypeOK /\ Core(listing, lease) /\ LetIsVacant

\* A lease stays what it is, or ends.
Settles(x, y) ==
    /\ y.listing = x.listing /\ y.tenant = x.tenant
    /\ y.start = x.start /\ y.end = x.end
    /\ y.status \in {x.status, "EXPIRED", "TERMINATED", "CANCELLED"}
    /\ x.status = "NONE" => y.status = "NONE" /\ y.request = x.request
    /\ x.accepted => y.accepted
    /\ x.approved => y.approved

\* The listings li keep their status while ls still needs them, or are withdrawn.
Follow(li, ls) ==
    /\ li \in [Listing -> ListingType]
    /\ \A i \in Listing :
          /\ li[i].apartment = listing[i].apartment
          /\ \/ /\ li[i].status = listing[i].status
                /\ li[i].status \in {"RESERVED", "RENTED"} => LiveOn(ls, i) # {}
             \/ li[i].status = "WITHDRAWN" /\ LiveOn(ls, i) = {}

-----------------------------------------------------------------------------
(* Rows. *)

LEMMA MonthMonotone ==
    ASSUME NEW a \in Nat, NEW b \in Nat, a <= b
    PROVE  MonthOf(a) \in Nat /\ MonthOf(a) <= MonthOf(b)
BY LeasesAssumption, SMTT(30) DEF MonthOf

\* Obligations are generated for months of the model only.
LEMMA DueMonthsType ==
    ASSUME TypeOK, NEW x \in LeaseType
    PROVE  DueMonths(x) \subseteq Month
<1>1. today \in Nat /\ MaxDay \in Nat /\ today <= MaxDay /\ x.start \in Nat
      BY LeasesAssumption DEF TypeOK, LeaseType
<1>2. /\ MonthOf(x.start) \in Nat /\ MonthOf(today) \in Nat /\ MonthOf(MaxDay) \in Nat
      /\ MonthOf(today) <= MonthOf(MaxDay)
      BY <1>1, MonthMonotone
<1>3. MonthOf(x.start)..MonthOf(today) \subseteq Month
      BY <1>2 DEF Month
<1> QED
    BY <1>3 DEF DueMonths

\* A field of a lease may take any value of its type.
LEMMA LeaseFields ==
    ASSUME NEW x \in LeaseType
    PROVE  /\ \A s \in LeaseStatus : [x EXCEPT !.status = s] \in LeaseType
           /\ \A b \in SUBSET Month : [x EXCEPT !.billed = b] \in LeaseType
           /\ [x EXCEPT !.accepted = TRUE] \in LeaseType
           /\ [x EXCEPT !.approved = TRUE] \in LeaseType
BY DEF LeaseType, LeaseStatus

LEMMA NoRequestType == NoRequest \in RequestType
BY DEF NoRequest, RequestType

LEMMA GenerateSettles ==
    ASSUME TypeOK, NEW x \in LeaseType
    PROVE  /\ GenerateObligations(x) \in LeaseType
           /\ Settles(x, GenerateObligations(x))
           /\ GenerateObligations(x).status = x.status
<1>1. x.billed \cup DueMonths(x) \in SUBSET Month
      BY DueMonthsType DEF LeaseType
<1>2. GenerateObligations(x) \in LeaseType
      BY <1>1, LeaseFields DEF GenerateObligations
<1>3. Settles(x, GenerateObligations(x)) /\ GenerateObligations(x).status = x.status
      BY DEF GenerateObligations, Settles, LeaseType
<1> QED
    BY <1>2, <1>3

LEMMA RefreshSettles ==
    ASSUME TypeOK, NEW x \in LeaseType
    PROVE  /\ RefreshLease(x) \in LeaseType
           /\ Settles(x, RefreshLease(x))
           /\ ~IsPast(x) => RefreshLease(x) = x
<1>1. CASE ~IsPast(x)
      BY <1>1 DEF RefreshLease, Settles
<1>2. CASE IsPast(x)
  <2> DEFINE g == GenerateObligations(x)
  <2>1. g \in LeaseType /\ Settles(x, g)
        BY GenerateSettles
  <2> HIDE DEF g
  <2>2. RefreshLease(x) = [g EXCEPT !.status = "EXPIRED"]
        BY <1>2 DEF RefreshLease, Expired, g
  <2>3. RefreshLease(x) \in LeaseType
        BY <2>1, <2>2, LeaseFields DEF LeaseStatus
  <2>4. Settles(x, RefreshLease(x))
        BY <1>2, <2>1, <2>2 DEF Settles, LeaseType, IsPast
  <2> QED
      BY <1>2, <2>3, <2>4
<1> QED
    BY <1>1, <1>2

\* refreshRentals and refreshLease end leases whose last day has passed, no others.
LEMMA RefreshedSettles ==
    ASSUME TypeOK, NEW L \in SUBSET Lease
    PROVE  /\ Refreshed(L) \in [Lease -> LeaseType]
           /\ \A l \in Lease : Settles(lease[l], Refreshed(L)[l])
           /\ \A l \in Lease \ Past(L) : Refreshed(L)[l] = lease[l]
<1>1. \A l \in Lease : lease[l] \in LeaseType
      BY DEF TypeOK
<1>2. \A l \in Lease : Refreshed(L)[l] = IF l \in L THEN RefreshLease(lease[l]) ELSE lease[l]
      BY DEF Refreshed
<1>3. \A l \in Lease : Settles(lease[l], lease[l])
      BY DEF Settles
<1>4. ASSUME NEW l \in Lease
      PROVE  /\ Refreshed(L)[l] \in LeaseType
             /\ Settles(lease[l], Refreshed(L)[l])
             /\ l \notin Past(L) => Refreshed(L)[l] = lease[l]
      BY <1>1, <1>2, <1>3, RefreshSettles DEF Past
<1> QED
    BY <1>4 DEF Refreshed

-----------------------------------------------------------------------------
(* Leases that end and listings that are released. *)

\* releaseListing withdraws listings nobody needs and leaves the others.
LEMMA ReleaseFollows ==
    ASSUME TypeOK, Core(listing, lease),
           NEW ls \in [Lease -> LeaseType],
           \A l \in Lease : Settles(lease[l], ls[l]),
           NEW ended \in SUBSET Lease,
           \A l \in Lease : Live(lease[l]) /\ ~Live(ls[l]) => l \in ended
    PROVE  Follow(ReleaseListings(ls, ended), ls)
<1> DEFINE li == ReleaseListings(ls, ended)
           Gone(i) == i \in {ls[l].listing : l \in ended} /\ LiveOn(ls, i) = {}
<1>1. \A i \in Listing :
        li[i] = IF Gone(i) THEN [listing[i] EXCEPT !.status = "WITHDRAWN"] ELSE listing[i]
      BY DEF ReleaseListings, LiveOn
<1>2. li \in [Listing -> ListingType]
  <2>1. \A i \in Listing : listing[i] \in ListingType
        BY DEF TypeOK
  <2>2. \A i \in Listing : [listing[i] EXCEPT !.status = "WITHDRAWN"] \in ListingType
        BY <2>1 DEF ListingType, ListingStatus
  <2> QED
      BY <2>1, <2>2 DEF ReleaseListings
<1>3. ASSUME NEW i \in Listing, Gone(i)
      PROVE  li[i].apartment = listing[i].apartment /\ li[i].status = "WITHDRAWN"
      BY <1>1, <1>3 DEF TypeOK, ListingType
<1>4. ASSUME NEW i \in Listing, ~Gone(i), listing[i].status \in {"RESERVED", "RENTED"}
      PROVE  LiveOn(ls, i) # {}
  <2>1. PICK l \in Lease : lease[l].listing = i /\ Live(lease[l])
        BY <1>4 DEF Core, Marked, LiveOn
  <2>2. ls[l].listing = i
        BY <2>1 DEF Settles
  <2>3. CASE Live(ls[l])
        BY <2>2, <2>3 DEF LiveOn
  <2>4. CASE ~Live(ls[l])
        BY <1>4, <2>1, <2>2, <2>4
  <2> QED
      BY <2>3, <2>4
<1> HIDE DEF li
<1>5. Follow(li, ls)
      BY <1>1, <1>2, <1>3, <1>4 DEF Follow
<1> QED
    BY <1>5 DEF li

\* Where no lease changes its status, the listings may stay.
LEMMA StayFollows ==
    ASSUME TypeOK, Core(listing, lease),
           NEW ls \in [Lease -> LeaseType],
           \A l \in Lease : Settles(lease[l], ls[l]) /\ ls[l].status = lease[l].status
    PROVE  Follow(listing, ls)
<1>1. \A i \in Listing : LiveOn(ls, i) = LiveOn(lease, i)
      BY DEF LiveOn, Live, Settles
<1> QED
    BY <1>1 DEF Follow, TypeOK, Core, Marked

\* Ending leases and releasing their listings keeps the invariant.
LEMMA SettlingKeepsCore ==
    ASSUME TypeOK, Core(listing, lease),
           NEW ls \in [Lease -> LeaseType],
           \A l \in Lease : Settles(lease[l], ls[l]),
           NEW li, Follow(li, ls)
    PROVE  Core(li, ls)
<1>1. \A l \in Lease :
        /\ Live(ls[l]) => Live(lease[l])
        /\ ls[l].status = "ACTIVE" => lease[l].status = "ACTIVE"
        /\ ls[l].status = "NONE" <=> lease[l].status = "NONE"
      BY DEF Settles, Live
<1>2. FreshRows(ls)
      BY <1>1 DEF Core, FreshRows, Settles
<1>3. Listed(li, ls)
      BY <1>1 DEF Core, Listed, Settles, Follow
<1>4. Agreed(ls)
      BY <1>1 DEF Core, Agreed, Settles
<1>5. Marked(li, ls)
  <2>1. ASSUME NEW l \in Lease, Live(ls[l])
        PROVE  /\ ls[l].listing \in Listing
               /\ li[ls[l].listing].status = listing[lease[l].listing].status
    <3>1. lease[l].listing \in Listing /\ ls[l].listing = lease[l].listing
          BY <1>1, <2>1 DEF Core, Listed, Settles, Live
    <3>2. l \in LiveOn(ls, ls[l].listing)
          BY <2>1 DEF LiveOn
    <3> QED
        BY <3>1, <3>2 DEF Follow
  <2>2. \A l \in Lease : ls[l].status = "ACTIVE" => Live(ls[l])
        BY DEF Live
  <2>3. \A i \in Listing : li[i].status \in {"RESERVED", "RENTED"} => LiveOn(ls, i) # {}
        BY DEF Follow
  <2> QED
      BY <1>1, <2>1, <2>2, <2>3 DEF Core, Marked
<1>6. OneOpen(li)
  <2>1. \A i \in Listing :
          /\ li[i].apartment = listing[i].apartment
          /\ li[i].status \in OpenStatus => listing[i].status \in OpenStatus
        BY DEF Follow, OpenStatus
  <2> QED
      BY <2>1 DEF Core, OneOpen
<1>7. LetApart(li, ls)
  <2>1. \A l \in Lease : Live(ls[l]) =>
          li[ls[l].listing].apartment = listing[lease[l].listing].apartment
        BY <1>1 DEF Core, Listed, Settles, Live, Follow
  <2>2. \A k, l \in Lease : Overlaps(ls[k], ls[l]) = Overlaps(lease[k], lease[l])
        BY DEF Overlaps, Settles
  <2> QED
      BY <1>1, <2>1, <2>2 DEF Core, LetApart, Settles
<1> QED
    BY <1>2, <1>3, <1>4, <1>5, <1>6, <1>7 DEF Core

-----------------------------------------------------------------------------
(* Leases that are proposed and activated. *)

\* A proposal for dates the listing's apartment is free on keeps the invariant.
LEMMA ArrivalKeepsCore ==
    ASSUME NEW li \in [Listing -> ListingType], NEW ls \in [Lease -> LeaseType],
           Core(li, ls),
           NEW k \in Lease, ls[k].status = "NONE",
           NEW row \in LeaseType, row.status = "PENDING_APPROVAL",
           NEW i \in Listing, row.listing = i, li[i].status \in OpenStatus,
           NEW li2 \in [Listing -> ListingType],
           \A j \in Listing \ {i} : li2[j] = li[j],
           li2[i].apartment = li[i].apartment,
           \/ li2[i].status = "RENTED"
           \/ /\ li2[i].status = "RESERVED"
              /\ \A l \in Lease : ls[l].listing = i => ls[l].status # "ACTIVE",
           \A l \in Lease \ {k} :
              Live(ls[l]) /\ Overlaps(row, ls[l]) => li[ls[l].listing].apartment # li[i].apartment
    PROVE  Core(li2, [ls EXCEPT ![k] = row])
<1> DEFINE ls2 == [ls EXCEPT ![k] = row]
<1>1. ls2[k] = row /\ \A l \in Lease \ {k} : ls2[l] = ls[l]
      OBVIOUS
<1> HIDE DEF ls2
<1>2. FreshRows(ls2)
      BY <1>1 DEF Core, FreshRows
<1>3. Listed(li2, ls2)
      BY <1>1 DEF Core, Listed
<1>4. Agreed(ls2)
      BY <1>1 DEF Core, Agreed
<1>5. Marked(li2, ls2)
  <2>1. \A l \in Lease : Live(ls2[l]) => li2[ls2[l].listing].status \in {"RESERVED", "RENTED"}
        BY <1>1 DEF Core, Marked, Listed, Live
  <2>2. \A l \in Lease : ls2[l].status = "ACTIVE" => li2[ls2[l].listing].status = "RENTED"
        BY <1>1 DEF Core, Marked, Listed
  <2>3. k \in LiveOn(ls2, i)
        BY <1>1 DEF LiveOn, Live
  <2>4. ASSUME NEW j \in Listing \ {i}, li2[j].status \in {"RESERVED", "RENTED"}
        PROVE  LiveOn(ls2, j) # {}
    <3>1. PICK l \in Lease : ls[l].listing = j /\ Live(ls[l])
          BY <2>4 DEF Core, Marked, LiveOn
    <3>2. ls2[l] = ls[l]
          BY <1>1, <3>1 DEF Live
    <3> QED
        BY <3>1, <3>2 DEF LiveOn
  <2> QED
      BY <2>1, <2>2, <2>3, <2>4 DEF Marked
<1>6. OneOpen(li2)
      BY DEF Core, OneOpen, OpenStatus
<1>7. LetApart(li2, ls2)
  <2>1. \A l \in Lease \ {k} : Live(ls2[l]) /\ Overlaps(row, ls2[l]) =>
          li2[ls2[l].listing].apartment # li2[i].apartment
        BY <1>1 DEF Core, Listed, Live
  <2>2. \A l \in Lease : Overlaps(ls2[l], row) = Overlaps(row, ls2[l])
    <3>1. \A l \in Lease : ls2[l] \in LeaseType
          BY <1>1
    <3> QED
        BY <3>1, LeasesAssumption DEF Overlaps, LeaseType
  <2>3. \A l \in Lease \ {k} : Live(ls2[l]) =>
          li2[ls2[l].listing].apartment = li[ls[l].listing].apartment
        BY <1>1 DEF Core, Listed, Live
  <2>4. ASSUME NEW l \in Lease, NEW m \in Lease, l # m, Live(ls2[l]), Live(ls2[m]),
               Overlaps(ls2[l], ls2[m])
        PROVE  /\ li2[ls2[l].listing].apartment # li2[ls2[m].listing].apartment
               /\ ls2[l].status = "ACTIVE" /\ ls2[m].status = "ACTIVE"
                     => ls2[l].tenant # ls2[m].tenant
    <3>1. CASE l = k
          BY <1>1, <2>1, <2>4, <3>1
    <3>2. CASE m = k
          BY <1>1, <2>1, <2>2, <2>4, <3>2
    <3>3. CASE l # k /\ m # k
          BY <1>1, <2>3, <2>4, <3>3 DEF Core, LetApart
    <3> QED
        BY <3>1, <3>2, <3>3
  <2> QED
      BY <2>4 DEF LetApart
<1>8. Core(li2, ls2)
      BY <1>2, <1>3, <1>4, <1>5, <1>6, <1>7 DEF Core
<1> QED
    BY <1>8 DEF ls2

\* Activating an accepted lease keeps the invariant.
LEMMA ActivationKeepsCore ==
    ASSUME TypeOK, Core(listing, lease), NEW l \in Lease, CanActivate(l),
           NEW row \in LeaseType, row.status = "ACTIVE", row.accepted, row.approved,
           row.listing = lease[l].listing, row.tenant = lease[l].tenant,
           row.start = lease[l].start, row.end = lease[l].end
    PROVE  /\ [listing EXCEPT ![lease[l].listing].status = "RENTED"]
                 \in [Listing -> ListingType]
           /\ Core([listing EXCEPT ![lease[l].listing].status = "RENTED"],
                   [lease EXCEPT ![l] = row])
<1> DEFINE ls == [lease EXCEPT ![l] = row]
           i == lease[l].listing
           li == [listing EXCEPT ![i].status = "RENTED"]
<1>1. ls[l] = row /\ \A k \in Lease \ {l} : ls[k] = lease[k]
      BY DEF TypeOK
<1>2. lease[l].status = "PENDING_APPROVAL" /\ Live(lease[l])
      BY DEF CanActivate, IsAgreed, Live
<1>3. i \in Listing /\ listing[i].status \in {"RESERVED", "RENTED"}
      BY <1>2 DEF Core, Listed, Marked
<1>4. /\ li \in [Listing -> ListingType]
      /\ \A j \in Listing \ {i} : li[j] = listing[j]
      /\ li[i].status = "RENTED" /\ li[i].apartment = listing[i].apartment
      BY <1>3 DEF TypeOK, ListingType, ListingStatus
<1> HIDE DEF ls, li
<1>5. FreshRows(ls)
      BY <1>1 DEF Core, FreshRows
<1>6. Listed(li, ls)
      BY <1>1, <1>3, <1>4 DEF Core, Listed
<1>7. Agreed(ls)
      BY <1>1 DEF Core, Agreed
<1>8. Marked(li, ls)
  <2>1. \A k \in Lease : Live(ls[k]) =>
          /\ li[ls[k].listing].status \in {"RESERVED", "RENTED"}
          /\ ls[k].status = "ACTIVE" => li[ls[k].listing].status = "RENTED"
        BY <1>1, <1>3, <1>4 DEF Core, Marked, Listed, Live
  <2>2. \A j \in Listing : LiveOn(ls, j) = LiveOn(lease, j)
        BY <1>1, <1>2 DEF LiveOn, Live
  <2> QED
      BY <1>3, <1>4, <2>1, <2>2 DEF Core, Marked, Live
<1>9. OneOpen(li)
      BY <1>3, <1>4 DEF Core, OneOpen, OpenStatus
<1>10. LetApart(li, ls)
  <2>1. \A k \in Lease : Live(ls[k]) =>
          /\ Live(lease[k])
          /\ li[ls[k].listing].apartment = listing[lease[k].listing].apartment
        BY <1>1, <1>2, <1>3, <1>4 DEF Core, Listed, Live
  <2>2. \A k, m \in Lease : Overlaps(ls[k], ls[m]) = Overlaps(lease[k], lease[m])
        BY <1>1 DEF Overlaps
  <2>3. \A k \in Lease \ {l} :
          Live(ls[k]) /\ Overlaps(ls[l], ls[k]) => ls[k].tenant # ls[l].tenant
        BY <1>1 DEF CanActivate, TenantFree, Conflicts, Overlaps
  <2>4. \A k \in Lease : Overlaps(ls[k], ls[l]) = Overlaps(ls[l], ls[k])
    <3>1. \A k \in Lease : ls[k] \in LeaseType
          BY <1>1 DEF TypeOK
    <3> QED
        BY <3>1, LeasesAssumption DEF Overlaps, LeaseType
  <2>5. ASSUME NEW k \in Lease, NEW m \in Lease, k # m, Live(ls[k]), Live(ls[m]),
               Overlaps(ls[k], ls[m])
        PROVE  /\ li[ls[k].listing].apartment # li[ls[m].listing].apartment
               /\ ls[k].status = "ACTIVE" /\ ls[m].status = "ACTIVE"
                     => ls[k].tenant # ls[m].tenant
    <3>1. li[ls[k].listing].apartment # li[ls[m].listing].apartment
          BY <2>1, <2>2, <2>5 DEF Core, LetApart
    <3>2. CASE k = l
          BY <2>3, <2>5, <3>1, <3>2
    <3>3. CASE m = l
          BY <2>3, <2>4, <2>5, <3>1, <3>3
    <3>4. CASE k # l /\ m # l
          BY <1>1, <2>5, <3>1, <3>4 DEF Core, LetApart
    <3> QED
        BY <3>2, <3>3, <3>4
  <2> QED
      BY <2>5 DEF LetApart
<1>11. Core(li, ls)
      BY <1>5, <1>6, <1>7, <1>8, <1>9, <1>10 DEF Core
<1> QED
    BY <1>4, <1>11 DEF ls, li

-----------------------------------------------------------------------------
(* Who is recorded in an apartment that is let. *)

\* Nothing happens that could put an older resident into an apartment that is let.
Quiet ==
    /\ \A l \in Lease : lease'[l].status = "ACTIVE" => lease[l].status = "ACTIVE"
    /\ \A l \in Lease : lease[l].status # "NONE" =>
          /\ lease'[l].listing = lease[l].listing
          /\ lease'[l].tenant = lease[l].tenant
          /\ lease'[l].end = lease[l].end
          /\ listing'[lease[l].listing].apartment = listing[lease[l].listing].apartment
    /\ \A r \in Resident : resident'[r].situation = "LEGACY" => resident'[r] = resident[r]
    /\ today <= today'

LEMMA OccupantsWereThere ==
    ASSUME TypeOK, Core(listing, lease),
           \A l \in Lease : lease[l].status # "NONE" =>
              /\ lease'[l].listing = lease[l].listing
              /\ lease'[l].tenant = lease[l].tenant
              /\ listing'[lease[l].listing].apartment = listing[lease[l].listing].apartment,
           \A r \in Resident : resident'[r].situation = "LEGACY" => resident'[r] = resident[r],
           NEW a
    PROVE  UnverifiedOccupants(a)' \subseteq UnverifiedOccupants(a)
<1>1. SUFFICES ASSUME NEW r \in Resident, r \in UnverifiedOccupants(a)'
               PROVE  r \in UnverifiedOccupants(a)
      BY DEF UnverifiedOccupants
<1>2. resident[r].home = a /\ resident[r].situation = "LEGACY"
      BY <1>1 DEF UnverifiedOccupants
<1>3. ASSUME NEW l \in Lease, lease[l].tenant = r
      PROVE  ApartmentOf(lease[l]) # a
  <2>1. lease[l].status # "NONE"
        BY <1>3, LeasesAssumption DEF Core, FreshRows
  <2>2. lease[l].listing \in Listing /\ lease[l].listing # NoListing
        BY <2>1, LeasesAssumption DEF Core, Listed
  <2>3. lease'[l].tenant = r
        BY <1>3, <2>1
  <2>4. ApartmentOf(lease[l])' # a
        BY <1>1, <2>3 DEF UnverifiedOccupants
  <2>5. ApartmentOf(lease[l])' = ApartmentOf(lease[l])
        BY <2>1, <2>2 DEF ApartmentOf
  <2> QED
      BY <2>4, <2>5
<1> QED
    BY <1>1, <1>2, <1>3 DEF UnverifiedOccupants

\* A lease is handed over to a vacant apartment, and the apartment stays vacant.
LEMMA QuietKeepsVacant ==
    ASSUME IInv, TypeOK', Quiet
    PROVE  LetIsVacant'
<1>1. SUFFICES ASSUME NEW l \in Lease, lease'[l].status = "ACTIVE", today' <= lease'[l].end
               PROVE  CanHandOver(lease[l])'
      BY DEF LetIsVacant
<1>2. lease[l].status = "ACTIVE"
      BY <1>1 DEF Quiet
<1>3. lease'[l].end = lease[l].end /\ lease'[l].tenant = lease[l].tenant
      BY <1>2 DEF Quiet
<1>4. lease[l].end \in Int /\ today \in Int /\ today' \in Int
      BY LeasesAssumption DEF IInv, TypeOK, LeaseType
<1>5. today <= lease[l].end
      BY <1>1, <1>3, <1>4 DEF Quiet
<1>6. CanHandOver(lease[l])
      BY <1>2, <1>5 DEF IInv, LetIsVacant
<1>7. PICK a : a = ApartmentOf(lease[l])
      OBVIOUS
<1>8. a = ApartmentOf(lease[l])'
      BY <1>2, <1>7, LeasesAssumption DEF Quiet, ApartmentOf, IInv, Core, Listed
<1>9. UnverifiedOccupants(a)' \subseteq UnverifiedOccupants(a)
      BY OccupantsWereThere DEF IInv, Quiet
<1>10. UnverifiedOccupants(a)' \subseteq {lease[l].tenant}
      BY <1>6, <1>7, <1>9 DEF CanHandOver
<1>11. UnverifiedOccupants(a)' = UnverifiedOccupants(ApartmentOf(lease[l]))'
      BY <1>8 DEF UnverifiedOccupants
<1> QED
    BY <1>3, <1>10, <1>11 DEF CanHandOver

-----------------------------------------------------------------------------
(* The steps. *)

\* Steps in which leases end, or only change what nothing else depends on.
LEMMA SettlingKeepsIInv ==
    ASSUME IInv, UNCHANGED <<resident, today>>,
           lease' \in [Lease -> LeaseType],
           \A l \in Lease : Settles(lease[l], lease'[l]),
           Follow(listing', lease')
    PROVE  IInv'
<1>1. TypeOK'
      BY DEF IInv, TypeOK, Follow
<1>2. Core(listing, lease)'
      BY SettlingKeepsCore DEF IInv
<1>3. \A l \in Lease : lease[l].status # "NONE" =>
        listing'[lease[l].listing].apartment = listing[lease[l].listing].apartment
      BY DEF IInv, Core, Listed, Follow
<1>4. today <= today'
      BY LeasesAssumption DEF IInv, TypeOK
<1>5. \A l \in Lease : lease'[l].status = "ACTIVE" => lease[l].status = "ACTIVE"
      BY DEF Settles
<1>6. Quiet
      BY <1>3, <1>4, <1>5 DEF Quiet, Settles
<1> QED
    BY <1>1, <1>2, <1>6, QuietKeepsVacant DEF IInv

\* One lease changes, and no listing has to follow it.
LEMMA RowKeepsIInv ==
    ASSUME IInv, UNCHANGED <<listing, resident, today>>,
           NEW l \in Lease, NEW row \in LeaseType,
           lease' = [lease EXCEPT ![l] = row],
           Settles(lease[l], row), row.status = lease[l].status
    PROVE  IInv'
<1>1. lease' \in [Lease -> LeaseType]
      BY DEF IInv, TypeOK
<1>2. \A k \in Lease : Settles(lease[k], lease'[k]) /\ lease'[k].status = lease[k].status
      BY DEF IInv, TypeOK, Settles
<1>3. Follow(listing, lease')
      BY <1>1, <1>2, StayFollows DEF IInv
<1> QED
    BY <1>1, <1>2, <1>3, SettlingKeepsIInv

\* A lease ends, after reading it or not, and its listing is released.
LEMMA EndKeepsIInv ==
    ASSUME IInv, UNCHANGED <<resident, today>>,
           NEW l \in Lease, NEW row \in LeaseType,
           lease' = [lease EXCEPT ![l] = row],
           Settles(lease[l], row),
           listing' = ReleaseListings(lease', {l})
    PROVE  IInv'
<1>1. lease' \in [Lease -> LeaseType]
      BY DEF IInv, TypeOK
<1>2. \A k \in Lease : Settles(lease[k], lease'[k])
      BY DEF IInv, TypeOK, Settles
<1>3. \A k \in Lease : Live(lease[k]) /\ ~Live(lease'[k]) => k \in {l}
      BY DEF IInv, TypeOK
<1>4. Follow(listing', lease')
      BY <1>1, <1>2, <1>3, ReleaseFollows DEF IInv
<1> QED
    BY <1>1, <1>2, <1>4, SettlingKeepsIInv

\* The leases as they are after reading those of L.
LEMMA RefreshKeepsCore ==
    ASSUME IInv, NEW L \in SUBSET Lease
    PROVE  /\ Follow(ReleaseListings(Refreshed(L), Past(L)), Refreshed(L))
           /\ Core(ReleaseListings(Refreshed(L), Past(L)), Refreshed(L))
<1>1. TypeOK /\ Core(listing, lease) /\ Past(L) \in SUBSET Lease
      BY DEF IInv, Past
<1>2. /\ Refreshed(L) \in [Lease -> LeaseType]
      /\ \A l \in Lease : Settles(lease[l], Refreshed(L)[l])
      /\ \A l \in Lease \ Past(L) : Refreshed(L)[l] = lease[l]
      BY <1>1, RefreshedSettles
<1>3. \A l \in Lease : Live(lease[l]) /\ ~Live(Refreshed(L)[l]) => l \in Past(L)
      BY <1>2
<1>4. Follow(ReleaseListings(Refreshed(L), Past(L)), Refreshed(L))
      BY <1>1, <1>2, <1>3, ReleaseFollows
<1> QED
    BY <1>1, <1>2, <1>4, SettlingKeepsCore

LEMMA ViewLeasesKeepsIInv ==
    ASSUME IInv, NEW L \in SUBSET Lease, ViewLeases(L)
    PROVE  IInv'
<1> DEFINE ls == Refreshed(L)
<1>1. TypeOK
      BY DEF IInv
<1>2. /\ ls \in [Lease -> LeaseType]
      /\ \A l \in Lease : Settles(lease[l], ls[l])
      BY <1>1, RefreshedSettles
<1>3. Follow(listing', ls)
      BY RefreshKeepsCore DEF ViewLeases
<1>4. /\ lease' = [l \in Lease |-> IF l \in L THEN GenerateObligations(ls[l]) ELSE ls[l]]
      /\ UNCHANGED <<resident, today>>
      BY DEF ViewLeases
<1> HIDE DEF ls
<1>5. ASSUME NEW l \in Lease
      PROVE  /\ lease'[l] \in LeaseType
             /\ Settles(ls[l], lease'[l])
             /\ lease'[l].status = ls[l].status
  <2>1. ls[l] \in LeaseType
        BY <1>2
  <2> QED
      BY <1>1, <1>4, <2>1, GenerateSettles DEF Settles
<1>6. lease' \in [Lease -> LeaseType]
      BY <1>4, <1>5
<1>7. \A l \in Lease : Settles(lease[l], lease'[l])
      BY <1>2, <1>5 DEF Settles
<1>8. \A i \in Listing : LiveOn(lease', i) = LiveOn(ls, i)
      BY <1>5 DEF LiveOn, Live, Settles
<1>9. Follow(listing', lease')
      BY <1>3, <1>8 DEF Follow
<1> QED
    BY <1>4, <1>6, <1>7, <1>9, SettlingKeepsIInv

LEMMA ViewListingsKeepsIInv ==
    ASSUME IInv, ViewListings
    PROVE  IInv'
<1>1. TypeOK /\ UNCHANGED <<resident, today>>
      BY DEF IInv, ViewListings
<1>2. /\ lease' \in [Lease -> LeaseType]
      /\ \A l \in Lease : Settles(lease[l], lease'[l])
      BY <1>1, RefreshedSettles DEF ViewListings
<1>3. Follow(listing', lease')
      BY RefreshKeepsCore DEF ViewListings
<1> QED
    BY <1>1, <1>2, <1>3, SettlingKeepsIInv

LEMMA AcceptLeaseKeepsIInv ==
    ASSUME IInv, NEW l \in Lease, AcceptLease(l)
    PROVE  IInv'
<1> DEFINE row == [lease[l] EXCEPT !.accepted = TRUE]
<1>1. lease[l] \in LeaseType
      BY DEF IInv, TypeOK
<1>2. row \in LeaseType /\ row.status = lease[l].status /\ Settles(lease[l], row)
      BY <1>1, LeaseFields DEF AcceptLease, Settles, LeaseType
<1> QED
    BY <1>2, RowKeepsIInv DEF AcceptLease

LEMMA ApproveLeaseKeepsIInv ==
    ASSUME IInv, NEW l \in Lease, ApproveLease(l)
    PROVE  IInv'
<1> DEFINE row == [lease[l] EXCEPT !.approved = TRUE]
<1>1. lease[l] \in LeaseType
      BY DEF IInv, TypeOK
<1>2. row \in LeaseType /\ row.status = lease[l].status /\ Settles(lease[l], row)
      BY <1>1, LeaseFields DEF ApproveLease, Settles, LeaseType
<1> QED
    BY <1>2, RowKeepsIInv DEF ApproveLease

LEMMA CancelProposalKeepsIInv ==
    ASSUME IInv, NEW l \in Lease, CancelProposal(l)
    PROVE  IInv'
<1> DEFINE row == [lease[l] EXCEPT !.status = "CANCELLED"]
<1>1. lease[l] \in LeaseType
      BY DEF IInv, TypeOK
<1>2. row \in LeaseType
      BY <1>1, LeaseFields DEF LeaseStatus
<1>3. Settles(lease[l], row)
      BY <1>1 DEF CancelProposal, Settles, LeaseType
<1> QED
    BY <1>2, <1>3, EndKeepsIInv DEF CancelProposal

\* The requests for a renewal or a termination, and their withdrawal.
LEMMA RequestKeepsIInv ==
    ASSUME IInv, NEW l \in Lease,
           \/ \E term \in Term : RequestRenewal(l, term)
           \/ RequestTermination(l) \/ WithdrawLifecycle(l)
    PROVE  IInv'
<1>1. lease[l] \in LeaseType
      BY DEF IInv, TypeOK
<1>2. ASSUME NEW q \in RequestType, lease[l].status # "NONE",
             lease' = [lease EXCEPT ![l].request = q], UNCHANGED <<listing, resident, today>>
      PROVE  IInv'
  <2> DEFINE row == [lease[l] EXCEPT !.request = q]
  <2>1. row \in LeaseType
        BY <1>1 DEF LeaseType
  <2>2. row.status = lease[l].status /\ Settles(lease[l], row)
        BY <1>1, <1>2 DEF Settles, LeaseType
  <2> QED
      BY <1>2, <2>1, <2>2, RowKeepsIInv
<1>3. CASE \E term \in Term : RequestRenewal(l, term)
  <2>1. PICK term \in Term : RequestRenewal(l, term)
        BY <1>3
  <2>2. [type |-> "RENEWAL", term |-> term] \in RequestType
        BY DEF RequestType
  <2> QED
      BY <1>2, <2>1, <2>2 DEF RequestRenewal, CanRequest
<1>4. CASE RequestTermination(l)
  <2>1. [type |-> "TERMINATION", term |-> NoTerm] \in RequestType
        BY DEF RequestType
  <2> QED
      BY <1>2, <1>4, <2>1 DEF RequestTermination, CanRequest
<1>5. CASE WithdrawLifecycle(l)
  <2>1. lease[l].status # "NONE"
        BY <1>5 DEF WithdrawLifecycle, IInv, Core, FreshRows
  <2> QED
      BY <1>2, <1>5, <2>1, NoRequestType DEF WithdrawLifecycle
<1> QED
    BY <1>3, <1>4, <1>5

LEMMA DeclineLifecycleKeepsIInv ==
    ASSUME IInv, NEW l \in Lease, DeclineLifecycle(l)
    PROVE  IInv'
<1> DEFINE ls == Refreshed({l})
<1>1. TypeOK /\ UNCHANGED <<resident, today>>
      BY DEF IInv, DeclineLifecycle
<1>2. /\ ls \in [Lease -> LeaseType]
      /\ \A k \in Lease : Settles(lease[k], ls[k])
      BY <1>1, RefreshedSettles
<1>3. lease[l].status # "NONE"
      BY DEF DeclineLifecycle, IInv, Core, FreshRows
<1>4. Follow(listing', ls)
      BY RefreshKeepsCore DEF DeclineLifecycle
<1>5. lease' = [ls EXCEPT ![l].request = NoRequest]
      BY DEF DeclineLifecycle
<1> HIDE DEF ls
<1>6. lease' \in [Lease -> LeaseType]
  <2>1. ls[l] \in LeaseType
        BY <1>2
  <2>2. [ls[l] EXCEPT !.request = NoRequest] \in LeaseType
        BY <2>1, NoRequestType DEF LeaseType
  <2> QED
      BY <1>2, <1>5, <2>2
<1>7. \A k \in Lease : /\ Settles(lease[k], lease'[k])
                       /\ lease'[k].status = ls[k].status /\ lease'[k].listing = ls[k].listing
      BY <1>2, <1>3, <1>5 DEF Settles, LeaseType
<1>8. \A i \in Listing : LiveOn(lease', i) = LiveOn(ls, i)
      BY <1>7 DEF LiveOn, Live
<1>9. Follow(listing', lease')
      BY <1>4, <1>8 DEF Follow
<1> QED
    BY <1>1, <1>6, <1>7, <1>9, SettlingKeepsIInv

LEMMA ApproveTerminationKeepsIInv ==
    ASSUME IInv, NEW l \in Lease, ApproveTermination(l)
    PROVE  IInv'
<1> DEFINE x == RefreshLease(lease[l])
           g == GenerateObligations(x)
           row == [g EXCEPT !.status = "TERMINATED", !.terminated = today,
                            !.request = NoRequest]
<1>1. TypeOK /\ lease[l] \in LeaseType /\ lease[l].status # "NONE"
      BY DEF IInv, TypeOK, Core, FreshRows, NoRequest, ApproveTermination
<1>2. x \in LeaseType /\ Settles(lease[l], x)
      BY <1>1, RefreshSettles
<1>3. g \in LeaseType /\ Settles(x, g)
      BY <1>1, <1>2, GenerateSettles
<1>4. Terminated(x) = row
      BY DEF Terminated
<1> HIDE DEF x, g
<1>5. row \in LeaseType
  <2>1. today \in 0..Never
        BY <1>1, LeasesAssumption DEF TypeOK, Never
  <2> QED
      BY <1>3, <2>1, NoRequestType DEF LeaseType, LeaseStatus
<1>6. Settles(lease[l], row)
      BY <1>1, <1>2, <1>3 DEF Settles, LeaseType
<1> HIDE DEF row
<1>7. /\ lease' = [lease EXCEPT ![l] = row]
      /\ listing' = ReleaseListings(lease', {l})
      /\ UNCHANGED <<resident, today>>
      BY <1>4 DEF ApproveTermination, x
<1> QED
    BY <1>5, <1>6, <1>7, EndKeepsIInv

\* A new row, well typed.
LEMMA NewLeaseType ==
    ASSUME NEW i \in Listing, NEW t \in Resident \cup {NoResident}, NEW term \in Term
    PROVE  /\ NewLease(i, t, term) \in LeaseType
           /\ NewLease(i, t, term).status = "PENDING_APPROVAL"
           /\ NewLease(i, t, term).listing = i
           /\ NewLease(i, t, term).start = term.start
           /\ NewLease(i, t, term).end = term.end
<1>1. term.start \in 0..MaxDay /\ term.end \in 0..MaxDay
      BY LeasesAssumption
<1>2. Never \in 0..Never
      BY LeasesAssumption DEF Never
<1> QED
    BY <1>1, <1>2, NoRequestType DEF NewLease, LeaseType, LeaseStatus

\* Steps that add a proposal and neither end nor activate a lease.
LEMMA ArrivalKeepsVacant ==
    ASSUME IInv, TypeOK',
           NEW ls \in [Lease -> LeaseType],
           \A l \in Lease : Settles(lease[l], ls[l]),
           NEW k \in Lease, lease[k].status = "NONE",
           NEW row \in LeaseType, row.status = "PENDING_APPROVAL",
           lease' = [ls EXCEPT ![k] = row],
           \A i \in Listing : listing'[i].apartment = listing[i].apartment,
           \A r \in Resident : resident'[r].situation = "LEGACY" => resident'[r] = resident[r],
           today' = today
    PROVE  LetIsVacant'
<1>1. lease'[k] = row /\ \A l \in Lease \ {k} : lease'[l] = ls[l]
      OBVIOUS
<1>2. \A l \in Lease : lease'[l].status = "ACTIVE" => lease[l].status = "ACTIVE"
      BY <1>1 DEF Settles
<1>3. \A l \in Lease : lease[l].status # "NONE" =>
        /\ lease'[l].listing = lease[l].listing
        /\ lease'[l].tenant = lease[l].tenant
        /\ lease'[l].end = lease[l].end
        /\ listing'[lease[l].listing].apartment = listing[lease[l].listing].apartment
      BY <1>1 DEF Settles, IInv, Core, Listed
<1>4. today <= today'
      BY LeasesAssumption DEF IInv, TypeOK
<1> QED
    BY <1>2, <1>3, <1>4, QuietKeepsVacant DEF Quiet

\* createLease and onboardTenant
LEMMA ProposeKeepsIInv ==
    ASSUME IInv, NEW l \in Lease, NEW i \in Listing, NEW t \in Resident, NEW term \in Term,
           CanCreateLease(Refreshed(Lease), i, t, term),
           NEW row \in LeaseType, row.status = "PENDING_APPROVAL", row.listing = i,
           row.start = term.start, row.end = term.end,
           Propose(l, row, i, Refreshed(Lease)),
           resident' \in [Resident -> ResidentType],
           \A r \in Resident : resident'[r].situation = "LEGACY" => resident'[r] = resident[r],
           today' = today
    PROVE  IInv'
<1> DEFINE ls == Refreshed(Lease)
           li == ReleaseListings(ls, Past(Lease))
<1>1. /\ TypeOK /\ lease[l].status = "NONE"
      /\ lease' = [ls EXCEPT ![l] = row]
      /\ listing' = [li EXCEPT ![i].status = "RESERVED"]
      BY DEF IInv, Propose
<1>2. /\ ls \in [Lease -> LeaseType]
      /\ \A k \in Lease : Settles(lease[k], ls[k])
      BY <1>1, RefreshedSettles
<1>3. Follow(li, ls) /\ Core(li, ls)
      BY RefreshKeepsCore
<1>4. listing[i].status = "AVAILABLE"
      BY DEF CanCreateLease
<1>5. li[i] = listing[i]
  <2>1. \A k \in Past(Lease) : ls[k].listing # i
        BY <1>2, <1>4 DEF Past, IsPast, IInv, Core, Marked, Settles
  <2> QED
      BY <2>1 DEF ReleaseListings
<1>6. \A k \in Lease \ {l} : Live(ls[k]) /\ Overlaps(row, ls[k]) =>
        li[ls[k].listing].apartment # li[i].apartment
  <2>1. ASSUME NEW k \in Lease, Live(ls[k]), Overlaps(row, ls[k])
        PROVE  li[ls[k].listing].apartment # li[i].apartment
    <3>1. Overlaps(term, ls[k])
          BY <2>1 DEF Overlaps
    <3>2. ApartmentOf(ls[k]) # listing[i].apartment
          BY <2>1, <3>1 DEF CanCreateLease, ApartmentFree, Conflicts
    <3>3. ls[k].listing \in Listing
          BY <1>3, <2>1 DEF Core, Listed, Live
    <3>4. ApartmentOf(ls[k]) = listing[ls[k].listing].apartment
          BY <3>3, LeasesAssumption DEF ApartmentOf
    <3> QED
        BY <1>3, <3>2, <3>3, <3>4 DEF Follow
  <2> QED
      BY <2>1
<1> HIDE DEF ls, li
<1>7. li \in [Listing -> ListingType]
      BY <1>3 DEF Follow
<1>8. /\ listing' \in [Listing -> ListingType]
      /\ \A j \in Listing \ {i} : listing'[j] = li[j]
      /\ listing'[i].status = "RESERVED" /\ listing'[i].apartment = li[i].apartment
      BY <1>1, <1>7 DEF ListingType, ListingStatus
<1>9. \A k \in Lease : ls[k].listing = i => ls[k].status # "ACTIVE"
      BY <1>3, <1>4, <1>5 DEF Core, Marked
<1>10. ls[l].status = "NONE"
      BY <1>1, <1>2 DEF Settles
<1>11. li[i].status \in OpenStatus
      BY <1>4, <1>5 DEF OpenStatus
<1>12. Core(listing', lease')
  <2>1. Core(listing', [ls EXCEPT ![l] = row])
        BY <1>2, <1>3, <1>6, <1>7, <1>8, <1>9, <1>10, <1>11, ArrivalKeepsCore
  <2> QED
      BY <1>1, <2>1
<1>13. TypeOK'
      BY <1>1, <1>2, <1>8 DEF TypeOK
<1>14. \A j \in Listing : listing'[j].apartment = listing[j].apartment
      BY <1>3, <1>8 DEF Follow
<1>15. LetIsVacant'
      BY <1>1, <1>2, <1>13, <1>14, ArrivalKeepsVacant
<1> QED
    BY <1>12, <1>13, <1>15 DEF IInv

LEMMA CreateLeaseKeepsIInv ==
    ASSUME IInv, NEW l \in Lease, NEW i \in Listing, NEW t \in Resident, NEW term \in Term,
           CreateLease(l, i, t, term)
    PROVE  IInv'
<1>1. /\ CanCreateLease(Refreshed(Lease), i, t, term)
      /\ Propose(l, NewLease(i, t, term), i, Refreshed(Lease))
      /\ UNCHANGED <<resident, today>>
      BY DEF CreateLease
<1>2. resident' \in [Resident -> ResidentType]
      BY <1>1 DEF IInv, TypeOK
<1> QED
    BY <1>1, <1>2, NewLeaseType, ProposeKeepsIInv

LEMMA OnboardTenantKeepsIInv ==
    ASSUME IInv, NEW l \in Lease, NEW i \in Listing, NEW t \in Resident, NEW term \in Term,
           OnboardTenant(l, i, t, term)
    PROVE  IInv'
<1> DEFINE new == NewLease(i, t, term)
           row == [new EXCEPT !.approved = TRUE]
<1>1. /\ CanCreateLease(Refreshed(Lease), i, t, term)
      /\ Propose(l, row, i, Refreshed(Lease))
      /\ today' = today
      BY DEF OnboardTenant
<1>2. /\ new \in LeaseType /\ new.status = "PENDING_APPROVAL" /\ new.listing = i
      /\ new.start = term.start /\ new.end = term.end
      BY NewLeaseType
<1>3. resident' \in [Resident -> ResidentType]
  <2>1. listing[i].apartment \in Apartment \cup {NoApartment}
        BY DEF IInv, TypeOK, ListingType
  <2>2. [situation |-> "TENANT_PENDING", home |-> listing[i].apartment] \in ResidentType
        BY <2>1 DEF ResidentType, Situation
  <2>3. resident \in [Resident -> ResidentType]
        BY DEF IInv, TypeOK
  <2> QED
      BY <2>2, <2>3 DEF OnboardTenant
<1>4. \A r \in Resident : resident'[r].situation = "LEGACY" => resident'[r] = resident[r]
      BY DEF OnboardTenant, IInv, TypeOK
<1> HIDE DEF new
<1>5. /\ row \in LeaseType /\ row.status = "PENDING_APPROVAL" /\ row.listing = i
      /\ row.start = term.start /\ row.end = term.end
      BY <1>2, LeaseFields DEF LeaseType
<1> QED
    BY <1>1, <1>3, <1>4, <1>5, ProposeKeepsIInv

LEMMA ApproveRenewalKeepsIInv ==
    ASSUME IInv, NEW l \in Lease, NEW k \in Lease, ApproveRenewal(l, k)
    PROVE  IInv'
<1> DEFINE term == lease[l].request.term
           i == lease[l].listing
           old == [lease[l] EXCEPT !.request = NoRequest, !.renewed = TRUE]
           ls == [lease EXCEPT ![l] = old]
           row == Successor(l, term)
<1>1. TypeOK /\ lease \in [Lease -> LeaseType] /\ listing \in [Listing -> ListingType]
      BY DEF IInv, TypeOK
<1>2. lease[k].status = "NONE" /\ ValidRenewal(l, lease, term)
      BY DEF ApproveRenewal
<1>3. lease[l].status = "ACTIVE"
  <2>1. RefreshLease(lease[l]).status = "ACTIVE" /\ lease[l] \in LeaseType
        BY <1>1 DEF ApproveRenewal
  <2> QED
      BY <1>1, <2>1, RefreshSettles DEF Settles
<1>4. i \in Listing /\ listing[i].status = "RENTED"
      BY <1>3 DEF IInv, Core, Listed, Marked
<1>5. k # l
      BY <1>2, <1>3
<1>6. term \in Term
      BY <1>1 DEF ApproveRenewal, LeaseType, RequestType
<1>7. /\ row \in LeaseType /\ row.status = "PENDING_APPROVAL" /\ row.listing = i
      /\ row.start = term.start /\ row.end = term.end
  <2> DEFINE t == lease[l].tenant
             new == NewLease(i, t, term)
  <2>1. t \in Resident \cup {NoResident}
        BY <1>1 DEF LeaseType
  <2> HIDE DEF t, term, i, old, ls, row
  <2>2. /\ new \in LeaseType /\ new.status = "PENDING_APPROVAL" /\ new.listing = i
        /\ new.start = term.start /\ new.end = term.end
        BY <1>4, <1>6, <2>1, NewLeaseType
  <2> USE DEF t, term, i, row
  <2>3. row = [new EXCEPT !.accepted = TRUE, !.predecessor = l]
        BY DEF Successor
  <2> HIDE DEF new, row
  <2> QED
      BY <2>2, <2>3 DEF LeaseType
<1>8. /\ old \in LeaseType /\ old.status = lease[l].status /\ Settles(lease[l], old)
  <2>1. lease[l] \in LeaseType
        BY <1>1
  <2>2. old \in LeaseType
        BY <2>1, NoRequestType DEF LeaseType
  <2> QED
      BY <1>3, <2>1, <2>2 DEF Settles, LeaseType
<1>9. /\ lease' = [ls EXCEPT ![k] = row]
      /\ UNCHANGED <<listing, resident, today>>
  <2>1. lease' = [lease EXCEPT ![l].request = NoRequest, ![l].renewed = TRUE, ![k] = row]
        BY DEF ApproveRenewal
  <2> HIDE DEF row
  <2>2. ls = [lease EXCEPT ![l].request = NoRequest, ![l].renewed = TRUE]
        BY <1>1
  <2> QED
      BY <2>1, <2>2 DEF ApproveRenewal
<1>10. /\ ls \in [Lease -> LeaseType]
       /\ \A m \in Lease : Settles(lease[m], ls[m]) /\ ls[m].status = lease[m].status
       /\ ls[k] = lease[k]
      BY <1>1, <1>5, <1>8 DEF Settles
<1> HIDE DEF ls, row, old
<1>11. Core(listing, ls)
      BY <1>1, <1>10, StayFollows, SettlingKeepsCore DEF IInv
<1>12. \A m \in Lease \ {k} : Live(ls[m]) /\ Overlaps(row, ls[m]) =>
         listing[ls[m].listing].apartment # listing[i].apartment
  <2>1. ASSUME NEW m \in Lease, Live(ls[m]), Overlaps(row, ls[m])
        PROVE  listing[ls[m].listing].apartment # listing[i].apartment
    <3>1. /\ Live(lease[m]) /\ Overlaps(term, lease[m])
          /\ ls[m].listing = lease[m].listing
          BY <1>7, <1>10, <2>1 DEF Live, Overlaps, Settles
    <3>2. m # l
      <4>1. term.start > lease[l].end
            BY <1>2 DEF ValidRenewal
      <4>2. lease[l].end \in Int /\ term.start \in Int
            BY <1>1, <1>6, LeasesAssumption DEF LeaseType
      <4> QED
          BY <3>1, <4>1, <4>2 DEF Overlaps
    <3>3. lease[m].listing \in Listing
          BY <3>1 DEF IInv, Core, Listed, Live
    <3>4. ApartmentOf(lease[m]) # ApartmentOf(lease[l])
          BY <1>2, <3>1, <3>2 DEF ValidRenewal, ApartmentFree, Conflicts
    <3> QED
        BY <1>4, <3>1, <3>3, <3>4, LeasesAssumption DEF ApartmentOf
  <2> QED
      BY <2>1
<1>13. ls[k].status = "NONE" /\ listing[i].status \in OpenStatus
      BY <1>2, <1>4, <1>10 DEF OpenStatus
<1>14. Core(listing, [ls EXCEPT ![k] = row])
      BY <1>1, <1>4, <1>7, <1>10, <1>11, <1>12, <1>13, ArrivalKeepsCore
<1>15. Core(listing', lease')
      BY <1>9, <1>14
<1>16. TypeOK'
      BY <1>1, <1>7, <1>9, <1>10 DEF TypeOK
<1>17. LetIsVacant'
      BY <1>2, <1>7, <1>9, <1>10, <1>16, ArrivalKeepsVacant
<1> QED
    BY <1>15, <1>16, <1>17 DEF IInv

LEMMA ActivateLeaseKeepsIInv ==
    ASSUME IInv, NEW l \in Lease, ActivateLease(l)
    PROVE  IInv'
<1> DEFINE x == [lease[l] EXCEPT !.status = "ACTIVE", !.approved = TRUE]
           row == GenerateObligations(x)
           i == lease[l].listing
<1>1. TypeOK /\ Core(listing, lease) /\ lease[l] \in LeaseType
      BY DEF IInv, TypeOK
<1>2. /\ CanActivate(l)
      /\ lease' = [lease EXCEPT ![l] = row]
      /\ listing' = [listing EXCEPT ![i].status = "RENTED"]
      /\ UNCHANGED <<resident, today>>
      BY DEF ActivateLease
<1>3. lease[l].status = "PENDING_APPROVAL" /\ lease[l].accepted
      BY <1>2 DEF CanActivate, IsAgreed
<1>4. i \in Listing /\ i # NoListing
      BY <1>1, <1>3, LeasesAssumption DEF Core, Listed
<1>5. /\ x \in LeaseType /\ x.status = "ACTIVE" /\ x.approved /\ x.accepted
      /\ x.listing = i /\ x.tenant = lease[l].tenant
      /\ x.start = lease[l].start /\ x.end = lease[l].end
  <2>1. [lease[l] EXCEPT !.status = "ACTIVE"] \in LeaseType
        BY <1>1, LeaseFields DEF LeaseStatus
  <2>2. x \in LeaseType
        BY <2>1, LeaseFields
  <2> QED
      BY <1>1, <1>3, <2>2 DEF LeaseType
<1> HIDE DEF x
<1>6. /\ row \in LeaseType /\ row.status = "ACTIVE" /\ row.approved /\ row.accepted
      /\ row.listing = i /\ row.tenant = lease[l].tenant
      /\ row.start = lease[l].start /\ row.end = lease[l].end
      BY <1>1, <1>5, GenerateSettles DEF Settles
<1> HIDE DEF row
<1>7. listing' \in [Listing -> ListingType] /\ Core(listing', lease')
      BY <1>1, <1>2, <1>6, ActivationKeepsCore
<1>8. TypeOK'
      BY <1>1, <1>2, <1>6, <1>7 DEF TypeOK
<1>9. lease'[l] = row /\ \A k \in Lease \ {l} : lease'[k] = lease[k]
      BY <1>1, <1>2 DEF TypeOK
<1>10. \A j \in Listing : listing'[j].apartment = listing[j].apartment
      BY <1>1, <1>2, <1>4 DEF TypeOK, ListingType
<1>11. ASSUME NEW a
       PROVE  UnverifiedOccupants(a)' \subseteq UnverifiedOccupants(a)
  <2>1. \A k \in Lease : lease[k].status # "NONE" =>
          /\ lease'[k].listing = lease[k].listing
          /\ lease'[k].tenant = lease[k].tenant
          /\ listing'[lease[k].listing].apartment = listing[lease[k].listing].apartment
        BY <1>1, <1>6, <1>9, <1>10 DEF Core, Listed
  <2> QED
      BY <1>1, <1>2, <2>1, OccupantsWereThere
<1>12. ASSUME NEW k \in Lease, lease'[k].status = "ACTIVE", today' <= lease'[k].end
       PROVE  CanHandOver(lease[k])'
  <2>1. CanHandOver(lease[k])
    <3>1. CASE k = l
          BY <1>2, <3>1 DEF CanActivate
    <3>2. CASE k # l
          BY <1>2, <1>9, <1>12, <3>2 DEF IInv, LetIsVacant
    <3> QED
        BY <3>1, <3>2
  <2>2. lease[k].listing \in Listing
        BY <1>1, <1>3, <1>9, <1>12 DEF Core, Listed
  <2>3. lease'[k].listing = lease[k].listing /\ lease'[k].tenant = lease[k].tenant
        BY <1>6, <1>9
  <2>4. PICK a : a = ApartmentOf(lease[k])
        OBVIOUS
  <2>5. a = ApartmentOf(lease[k])'
        BY <1>10, <2>2, <2>3, <2>4, LeasesAssumption DEF ApartmentOf
  <2>6. UnverifiedOccupants(a)' \subseteq {lease[k].tenant}
        BY <1>11, <2>1, <2>4 DEF CanHandOver
  <2>7. UnverifiedOccupants(a)' = UnverifiedOccupants(ApartmentOf(lease[k]))'
        BY <2>5 DEF UnverifiedOccupants
  <2> QED
      BY <2>3, <2>6, <2>7 DEF CanHandOver
<1>13. LetIsVacant'
      BY <1>12 DEF LetIsVacant
<1> QED
    BY <1>7, <1>8, <1>13 DEF IInv

\* A listing that is not let may be created, opened or withdrawn.
LEMMA ListingKeepsCore ==
    ASSUME NEW li \in [Listing -> ListingType], NEW ls \in [Lease -> LeaseType],
           Core(li, ls),
           NEW i \in Listing, li[i].status \in {"NONE", "DRAFT", "AVAILABLE"},
           NEW row \in ListingType, row.status \in {"DRAFT", "AVAILABLE", "WITHDRAWN"},
           \/ li[i].status # "NONE" /\ row.apartment = li[i].apartment
           \/ /\ li[i].status = "NONE"
              /\ \A j \in Listing :
                    li[j].apartment = row.apartment => li[j].status \notin OpenStatus
    PROVE  Core([li EXCEPT ![i] = row], ls)
<1> DEFINE li2 == [li EXCEPT ![i] = row]
<1>1. li2[i] = row /\ \A j \in Listing \ {i} : li2[j] = li[j]
      OBVIOUS
<1>2. \A l \in Lease : ls[l].listing = i => ~Live(ls[l])
      BY DEF Core, Marked
<1> HIDE DEF li2
<1>3. FreshRows(ls) /\ Agreed(ls)
      BY DEF Core
<1>4. Listed(li2, ls)
      BY <1>1 DEF Core, Listed
<1>5. Marked(li2, ls)
  <2>1. \A l \in Lease : Live(ls[l]) => li2[ls[l].listing] = li[ls[l].listing]
        BY <1>1, <1>2 DEF Core, Listed, Live
  <2>2. \A l \in Lease : ls[l].status = "ACTIVE" => Live(ls[l])
        BY DEF Live
  <2> QED
      BY <1>1, <2>1, <2>2 DEF Core, Marked
<1>6. OneOpen(li2)
      BY <1>1 DEF Core, OneOpen, OpenStatus
<1>7. LetApart(li2, ls)
      BY <1>1, <1>2 DEF Core, LetApart, Listed, Live
<1> QED
    BY <1>3, <1>4, <1>5, <1>6, <1>7 DEF Core, li2

LEMMA CreateListingKeepsIInv ==
    ASSUME IInv, NEW i \in Listing, NEW a \in Apartment, NEW offer \in Offer,
           CreateListing(i, a, offer)
    PROVE  IInv'
<1> DEFINE ls == Refreshed(Lease)
           li == ReleaseListings(ls, Past(Lease))
           row == [status |-> "DRAFT", apartment |-> a, from |-> offer.from,
                   until |-> offer.until]
<1>1. /\ TypeOK /\ listing[i].status = "NONE"
      /\ \A j \in Listing : li[j].apartment = a => li[j].status \notin OpenStatus
      /\ lease' = ls /\ listing' = [li EXCEPT ![i] = row]
      /\ UNCHANGED <<resident, today>>
      BY DEF IInv, CreateListing
<1>2. /\ ls \in [Lease -> LeaseType]
      /\ \A k \in Lease : Settles(lease[k], ls[k])
      BY <1>1, RefreshedSettles
<1>3. Follow(li, ls) /\ Core(li, ls)
      BY RefreshKeepsCore
<1>4. row \in ListingType
      BY LeasesAssumption DEF ListingType, ListingStatus
<1>5. li[i] = listing[i]
  <2>1. \A k \in Past(Lease) : ls[k].listing # i
        BY <1>1, <1>2 DEF Past, IsPast, IInv, Core, Listed, Settles
  <2> QED
      BY <2>1 DEF ReleaseListings
<1>6. row.apartment = a /\ row.status = "DRAFT"
      OBVIOUS
<1> HIDE DEF ls, li, row
<1>7. li \in [Listing -> ListingType]
      BY <1>3 DEF Follow
<1>8. Core(listing', lease')
      BY <1>1, <1>2, <1>3, <1>4, <1>5, <1>6, <1>7, ListingKeepsCore
<1>9. TypeOK'
      BY <1>1, <1>2, <1>4, <1>7 DEF TypeOK
<1>10. \A k \in Lease : lease[k].status # "NONE" =>
         listing'[lease[k].listing].apartment = listing[lease[k].listing].apartment
  <2>1. ASSUME NEW k \in Lease, lease[k].status # "NONE"
        PROVE  listing'[lease[k].listing].apartment = listing[lease[k].listing].apartment
    <3>1. lease[k].listing \in Listing \ {i}
          BY <1>1, <2>1 DEF IInv, Core, Listed
    <3> QED
        BY <1>1, <1>3, <1>7, <3>1 DEF Follow
  <2> QED
      BY <2>1
<1>11. today <= today'
      BY <1>1, LeasesAssumption DEF TypeOK
<1>12. Quiet
      BY <1>1, <1>2, <1>10, <1>11 DEF Quiet, Settles
<1> QED
    BY <1>8, <1>9, <1>12, QuietKeepsVacant DEF IInv

LEMMA UpdateListingKeepsIInv ==
    ASSUME IInv, NEW i \in Listing, NEW status \in {"DRAFT", "AVAILABLE", "WITHDRAWN"},
           NEW offer \in Offer, UpdateListing(i, status, offer)
    PROVE  IInv'
<1> DEFINE row == [listing[i] EXCEPT !.status = status, !.from = offer.from,
                                     !.until = offer.until]
<1>1. /\ TypeOK /\ Core(listing, lease)
      /\ listing \in [Listing -> ListingType] /\ lease \in [Lease -> LeaseType]
      BY DEF IInv, TypeOK
<1>2. row \in ListingType /\ row.status = status /\ row.apartment = listing[i].apartment
  <2>1. offer.from \in 0..MaxDay /\ offer.until \in 0..Never
        BY LeasesAssumption
  <2>2. listing[i] \in ListingType
        BY <1>1
  <2> QED
      BY <2>1, <2>2 DEF ListingType, ListingStatus
<1>3. /\ listing' = [listing EXCEPT ![i] = row]
      /\ UNCHANGED <<lease, resident, today>>
      /\ listing[i].status \in {"DRAFT", "AVAILABLE"}
      BY <1>1 DEF UpdateListing
<1> HIDE DEF row
<1>4. Core(listing', lease')
  <2>1. Core([listing EXCEPT ![i] = row], lease)
        BY <1>1, <1>2, <1>3, ListingKeepsCore
  <2> QED
      BY <1>3, <2>1
<1>5. TypeOK'
      BY <1>1, <1>2, <1>3 DEF TypeOK
<1>6. \A k \in Lease : lease[k].status # "NONE" =>
        listing'[lease[k].listing].apartment = listing[lease[k].listing].apartment
      BY <1>1, <1>2, <1>3 DEF Core, Listed
<1>7. today <= today'
      BY <1>1, <1>3, LeasesAssumption DEF TypeOK
<1>8. Quiet
      BY <1>3, <1>6, <1>7 DEF Quiet
<1> QED
    BY <1>4, <1>5, <1>8, QuietKeepsVacant DEF IInv

\* Nobody is moved into an apartment that is let.
LEMMA AssociateResidentKeepsIInv ==
    ASSUME IInv, NEW r \in Resident, NEW a \in Apartment \cup {NoApartment},
           AssociateResident(r, a)
    PROVE  IInv'
<1>1. /\ TypeOK /\ CanMove(r, a)
      /\ resident' = [resident EXCEPT ![r].home = a]
      /\ UNCHANGED <<listing, lease, today>>
      BY DEF IInv, AssociateResident
<1>2. resident' \in [Resident -> ResidentType]
      BY <1>1 DEF TypeOK, ResidentType
<1>3. TypeOK'
      BY <1>1, <1>2 DEF TypeOK
<1>4. Core(listing', lease')
      BY <1>1 DEF IInv
<1>5. ASSUME NEW l \in Lease, lease[l].status = "ACTIVE", today <= lease[l].end
      PROVE  CanHandOver(lease[l])'
  <2>1. CanHandOver(lease[l])
        BY <1>5 DEF IInv, LetIsVacant
  <2>2. ApartmentOf(lease[l]) # a
    <3>1. lease[l].end \in Int /\ today \in Int
          BY <1>1, LeasesAssumption DEF TypeOK, LeaseType
    <3> QED
        BY <1>1, <1>5, <3>1 DEF CanMove, Live
  <2>3. PICK b : b = ApartmentOf(lease[l])
        OBVIOUS
  <2>4. b = ApartmentOf(lease[l])'
        BY <1>1, <2>3 DEF ApartmentOf
  <2>5. \A q \in Resident : resident'[q].home = b =>
          resident[q].home = b /\ resident'[q].situation = resident[q].situation
        BY <1>1, <2>2, <2>3 DEF TypeOK, ResidentType
  <2>6. UnverifiedOccupants(b)' \subseteq UnverifiedOccupants(b)
        BY <1>1, <2>5 DEF UnverifiedOccupants, ApartmentOf
  <2>7. UnverifiedOccupants(b)' = UnverifiedOccupants(ApartmentOf(lease[l]))'
        BY <2>4 DEF UnverifiedOccupants
  <2>8. UnverifiedOccupants(b)' \subseteq {lease[l].tenant}
        BY <2>1, <2>3, <2>6 DEF CanHandOver
  <2> QED
      BY <1>1, <2>7, <2>8 DEF CanHandOver
<1>6. LetIsVacant'
      BY <1>1, <1>5 DEF LetIsVacant
<1> QED
    BY <1>3, <1>4, <1>6 DEF IInv

LEMMA TickKeepsIInv ==
    ASSUME IInv, Tick
    PROVE  IInv'
<1>1. /\ TypeOK /\ today < MaxDay /\ today' = today + 1
      /\ UNCHANGED <<listing, lease, resident>>
      BY DEF IInv, Tick
<1>2. TypeOK' /\ today <= today'
      BY <1>1, LeasesAssumption DEF TypeOK
<1>3. Core(listing', lease')
      BY <1>1 DEF IInv
<1>4. Quiet
      BY <1>1, <1>2 DEF Quiet
<1> QED
    BY <1>2, <1>3, <1>4, QuietKeepsVacant DEF IInv

LEMMA StutterKeepsIInv ==
    ASSUME IInv, UNCHANGED vars
    PROVE  IInv'
<1>1. TypeOK' /\ Core(listing', lease')
      BY DEF IInv, TypeOK, vars
<1>2. today <= today'
      BY LeasesAssumption DEF IInv, TypeOK, vars
<1>3. Quiet
      BY <1>2 DEF Quiet, vars
<1> QED
    BY <1>1, <1>3, QuietKeepsVacant DEF IInv

LEMMA InitHasIInv ==
    ASSUME Init
    PROVE  IInv
<1>1. \A l \in Lease : lease[l] = NoLeaseRow
      BY DEF Init
<1>2. /\ NoLeaseRow.status = "NONE" /\ NoLeaseRow.listing = NoListing
      /\ NoLeaseRow.tenant = NoResident /\ NoLeaseRow.request = NoRequest
      BY DEF NoLeaseRow, NewLease
<1>3. NoLeaseRow \in LeaseType
  <2> DEFINE day == [start |-> 0, end |-> 0]
             new == NewLease(NoListing, NoResident, day)
  <2>1. 0 \in 0..MaxDay /\ Never \in 0..Never
        BY LeasesAssumption DEF Never
  <2>2. day.start \in 0..MaxDay /\ day.end \in 0..MaxDay
        BY <2>1
  <2> HIDE DEF day
  <2>3. new \in LeaseType
        BY <2>1, <2>2, NoRequestType DEF NewLease, LeaseType, LeaseStatus
  <2>4. NoLeaseRow = [new EXCEPT !.status = "NONE"]
        BY DEF NoLeaseRow, day
  <2> QED
      BY <2>3, <2>4, LeaseFields DEF LeaseStatus
<1>4. TypeOK
  <2>1. NoListingRow \in ListingType
        BY LeasesAssumption DEF NoListingRow, ListingType, ListingStatus, Never
  <2>2. \A r \in Resident : resident[r] \in ResidentType
        BY DEF Init, ResidentType, Situation
  <2> QED
      BY <1>3, <2>1, <2>2, LeasesAssumption DEF Init, TypeOK
<1>5. \A i \in Listing : listing[i].status = "NONE"
      BY DEF Init, NoListingRow
<1>6. Core(listing, lease)
      BY <1>1, <1>2, <1>5
      DEF Core, FreshRows, Listed, Agreed, Marked, OneOpen, LetApart, Live, OpenStatus
<1>7. LetIsVacant
      BY <1>1, <1>2 DEF LetIsVacant
<1> QED
    BY <1>4, <1>6, <1>7 DEF IInv

-----------------------------------------------------------------------------
(* Theorems. *)

\* The inductive invariant: rows are well typed, listings and live leases belong to
\* each other, live leases are apart, and let apartments are vacant. It holds whatever
\* the handlers of rentals.service.ts and the edits of user records do, in any order.
THEOREM LeasesInvariant == Spec => []IInv
<1>1. Init => IInv
      BY InitHasIInv
<1>2. IInv /\ [Next]_vars => IInv'
  <2> SUFFICES ASSUME IInv, [Next]_vars
               PROVE  IInv'
      OBVIOUS
  <2>1. ASSUME NEW L \in Views, ViewLeases(L)
        PROVE  IInv'
    <3>1. L \in SUBSET Lease
          BY <2>1 DEF Views
    <3> QED
        BY <2>1, <3>1, ViewLeasesKeepsIInv
  <2>2. CASE ViewListings
        BY <2>2, ViewListingsKeepsIInv
  <2>3. ASSUME NEW i \in Listing, NEW offer \in Offer,
               \/ \E a \in Apartment : CreateListing(i, a, offer)
               \/ \E status \in {"DRAFT", "AVAILABLE", "WITHDRAWN"} :
                     UpdateListing(i, status, offer)
        PROVE  IInv'
        BY <2>3, CreateListingKeepsIInv, UpdateListingKeepsIInv
  <2>4. ASSUME NEW l \in Lease, NEW i \in Listing, NEW t \in Resident, NEW term \in Term,
               CreateLease(l, i, t, term) \/ OnboardTenant(l, i, t, term)
        PROVE  IInv'
        BY <2>4, CreateLeaseKeepsIInv, OnboardTenantKeepsIInv
  <2>5. ASSUME NEW l \in Lease,
               \/ AcceptLease(l) \/ ActivateLease(l) \/ ApproveLease(l) \/ CancelProposal(l)
        PROVE  IInv'
        BY <2>5, AcceptLeaseKeepsIInv, ActivateLeaseKeepsIInv, ApproveLeaseKeepsIInv,
           CancelProposalKeepsIInv
  <2>6. ASSUME NEW l \in Lease,
               \/ RequestTermination(l) \/ WithdrawLifecycle(l)
               \/ \E term \in Term : RequestRenewal(l, term)
        PROVE  IInv'
        BY <2>6, RequestKeepsIInv
  <2>7. ASSUME NEW l \in Lease,
               \/ DeclineLifecycle(l) \/ ApproveTermination(l)
               \/ \E k \in Lease : ApproveRenewal(l, k)
        PROVE  IInv'
        BY <2>7, DeclineLifecycleKeepsIInv, ApproveTerminationKeepsIInv, ApproveRenewalKeepsIInv
  <2>8. ASSUME NEW r \in Resident, NEW a \in Apartment \cup {NoApartment},
               AssociateResident(r, a)
        PROVE  IInv'
        BY <2>8, AssociateResidentKeepsIInv
  <2>9. CASE Tick
        BY <2>9, TickKeepsIInv
  <2>10. CASE UNCHANGED vars
        BY <2>10, StutterKeepsIInv
  <2> QED
      BY <2>1, <2>2, <2>3, <2>4, <2>5, <2>6, <2>7, <2>8, <2>9, <2>10 DEF Next
<1> QED
    BY <1>1, <1>2, PTL DEF Spec

\* The stores hold rows of their types.
THEOREM TypeCorrect == Spec => []TypeOK
<1>1. IInv => TypeOK
      BY DEF IInv
<1> QED
    BY <1>1, LeasesInvariant, PTL

\* No two live leases share an apartment and a day, whatever is proposed, renewed and
\* activated, and no tenant has two active leases with a day in common.
THEOREM LetAtMostOnce == Spec => []LetOnce
<1>1. IInv => LetOnce
  <2> SUFFICES ASSUME IInv, NEW k \in Lease, NEW l \in Lease, k # l, Live(lease[k]),
                      Live(lease[l]), Overlaps(lease[k], lease[l])
               PROVE  /\ ApartmentOf(lease[k]) # ApartmentOf(lease[l])
                      /\ {lease[k].status, lease[l].status} = {"ACTIVE"}
                            => lease[k].tenant # lease[l].tenant
      BY DEF LetOnce
  <2>1. lease[k].listing \in Listing /\ lease[l].listing \in Listing
        BY DEF IInv, Core, Listed, Live
  <2>2. ApartmentOf(lease[k]) # ApartmentOf(lease[l])
        BY <2>1, LeasesAssumption DEF IInv, Core, LetApart, ApartmentOf
  <2>3. {lease[k].status, lease[l].status} = {"ACTIVE"} => lease[k].tenant # lease[l].tenant
        BY DEF IInv, Core, LetApart
  <2> QED
      BY <2>2, <2>3
<1> QED
    BY <1>1, LeasesInvariant, PTL

\* However leases end, their listing is withdrawn when the last live one does, and not
\* before (releaseListing); a proposal that was never activated holds a RESERVED listing.
\* And from its activation to its last day no older resident is recorded in a let apartment.
THEOREM ListingsFollowLeases == Spec => []ListingFollowsLeases
<1>1. IInv => ListingsMatch
  <2> SUFFICES ASSUME IInv
               PROVE  ListingsMatch
      OBVIOUS
  <2>1. \A i \in Listing : listing[i].status \in {"RESERVED", "RENTED"} <=> LiveOn(lease, i) # {}
        BY DEF IInv, Core, Marked, LiveOn
  <2>2. \A i \in Listing : listing[i].status = "RESERVED" =>
          \A l \in LiveOn(lease, i) : lease[l].status # "ACTIVE"
        BY DEF IInv, Core, Marked, LiveOn
  <2>3. OneOpen(listing)
        BY DEF IInv, Core
  <2> QED
      BY <2>1, <2>2, <2>3 DEF ListingsMatch, LiveOn, OneOpen
<1>2. IInv => LetIsVacant
      BY DEF IInv
<1> QED
    BY <1>1, <1>2, LeasesInvariant, PTL DEF ListingFollowsLeases

\* While a lease runs its tenant may act for the apartment and nobody else: there is
\* one such lease, it is accepted and approved, and resolveOccupancy finds it.
THEOREM AccessFollowsLeases == Spec => []AccessFollowsLease
<1>1. IInv => AccessFollowsLease
  <2> SUFFICES ASSUME IInv, NEW a \in Apartment, NEW l \in CurrentLeases(a), NEW r \in Resident
               PROVE  ResolveOccupancy(r, a) <=> r = lease[l].tenant
      BY DEF AccessFollowsLease
  <2>1. /\ l \in Lease /\ lease[l].status = "ACTIVE" /\ ApartmentOf(lease[l]) = a
        /\ lease[l].start <= today /\ today <= lease[l].end
        BY DEF CurrentLeases
  <2>2. CurrentLeases(a) = {l}
    <3> SUFFICES ASSUME NEW k \in CurrentLeases(a), k # l
                 PROVE  FALSE
        OBVIOUS
    <3>1. /\ k \in Lease /\ lease[k].status = "ACTIVE" /\ ApartmentOf(lease[k]) = a
          /\ lease[k].start <= today /\ today <= lease[k].end
          BY DEF CurrentLeases
    <3>2. /\ lease[k].start \in Int /\ lease[k].end \in Int /\ today \in Int
          /\ lease[l].start \in Int /\ lease[l].end \in Int
          BY <2>1, <3>1, LeasesAssumption DEF IInv, TypeOK, LeaseType
    <3>3. Overlaps(lease[k], lease[l])
          BY <2>1, <3>1, <3>2 DEF Overlaps
    <3>4. lease[k].listing \in Listing /\ lease[l].listing \in Listing
          BY <2>1, <3>1 DEF IInv, Core, Listed
    <3>5. ApartmentOf(lease[k]) # ApartmentOf(lease[l])
          BY <2>1, <3>1, <3>3, <3>4, LeasesAssumption DEF IInv, Core, LetApart, ApartmentOf, Live
    <3> QED
        BY <2>1, <3>1, <3>5
  <2>3. lease[l].approved /\ lease[l].accepted
        BY <2>1 DEF IInv, Core, Agreed
  <2> QED
      BY <2>2, <2>3 DEF ResolveOccupancy, Covers
<1> QED
    BY <1>1, LeasesInvariant, PTL

-----------------------------------------------------------------------------
(* The months that are billed. *)

MonthsUntil(x, d) == {m \in MonthOf(x.start)..MonthOf(x.end) : FirstDay(m) <= d}

\* What a row says about its months on day d: nothing before it is active, none too
\* early while it is, and exactly those it touched once it ended.
BillOK(x, d) ==
    /\ x.status \in {"NONE", "PENDING_APPROVAL", "CANCELLED"} =>
          x.billed = {} /\ x.request = NoRequest
    /\ x.status # "NONE" => x.start <= x.end
    /\ x.status \in {"PENDING_APPROVAL", "ACTIVE", "EXPIRED"} => x.terminated = Never
    /\ x.status \in {"ACTIVE", "EXPIRED", "TERMINATED"} => x.approved
    /\ x.status = "ACTIVE" => x.billed \subseteq MonthsUntil(x, d)
    /\ x.status = "EXPIRED" => x.end < d /\ x.billed = MonthsUntil(x, x.terminated)
    /\ x.status = "TERMINATED" =>
          /\ x.terminated <= d /\ x.request = NoRequest
          /\ x.start <= x.terminated => x.billed = MonthsUntil(x, x.terminated)

BillsOK == \A l \in Lease : BillOK(lease[l], today)

\* A month begins no later than a day exactly if it is no later than the day's month.
LEMMA MonthBegins ==
    ASSUME NEW m \in Nat, NEW d \in Nat
    PROVE  MonthOf(d) \in Nat /\ (FirstDay(m) <= d <=> m <= MonthOf(d))
<1>1. MonthDays \in Nat /\ MonthDays >= 1
      BY LeasesAssumption
<1> DEFINE k == d \div MonthDays
           z == d % MonthDays
<1>2. k \in Nat /\ z \in Nat /\ z < MonthDays /\ d = MonthDays * k + z
      BY <1>1, SMTT(30)
<1> HIDE DEF k, z
<1>3. CASE m <= k
    <2>1. PICK j \in Nat : k = m + j
      <3>1. k - m \in Nat /\ k = m + (k - m)
            BY <1>2, <1>3
      <3> QED
          BY <3>1
    <2>2. MonthDays * k = m * MonthDays + MonthDays * j /\ MonthDays * j \in Nat
          BY <1>1, <2>1, SMTT(30)
    <2>3. m * MonthDays \in Nat
          BY <1>1, SMTT(30)
    <2> QED
        BY <1>2, <1>3, <2>2, <2>3 DEF FirstDay, MonthOf, k
<1>4. CASE m > k
    <2>1. PICK j \in Nat : m = k + 1 + j
      <3>1. m - k - 1 \in Nat /\ m = k + 1 + (m - k - 1)
            BY <1>2, <1>4
      <3> QED
          BY <3>1
    <2>2. m * MonthDays = MonthDays * k + MonthDays + MonthDays * j /\ MonthDays * j \in Nat
          BY <1>1, <1>2, <2>1, SMTT(30)
    <2>3. MonthDays * k \in Nat
          BY <1>1, <1>2, SMTT(30)
    <2> QED
        BY <1>1, <1>2, <1>4, <2>2, <2>3 DEF FirstDay, MonthOf, k
<1> QED
    BY <1>2, <1>3, <1>4

\* Until its last day, or a later one, a lease touches all its months.
LEMMA AllMonths ==
    ASSUME NEW x \in LeaseType, NEW d \in Nat, x.end <= d
    PROVE  MonthsUntil(x, d) = MonthOf(x.start)..MonthOf(x.end)
<1>1. x.start \in Nat /\ x.end \in Nat
      BY LeasesAssumption DEF LeaseType
<1>2. MonthOf(x.start) \in Nat /\ MonthOf(x.end) \in Nat
      BY <1>1, MonthBegins
<1>3. ASSUME NEW m \in MonthOf(x.start)..MonthOf(x.end) PROVE FirstDay(m) <= d
    <2>1. m \in Nat /\ m <= MonthOf(x.end)
          BY <1>2
    <2>2. MonthOf(x.end) <= MonthOf(d) /\ MonthOf(d) \in Nat
          BY <1>1, MonthMonotone
    <2> QED
        BY <1>2, <2>1, <2>2, MonthBegins
<1> QED
    BY <1>3 DEF MonthsUntil

\* The later the day, the more months.
LEMMA MoreMonths ==
    ASSUME NEW x \in LeaseType, NEW c \in Nat, NEW d \in Nat, c <= d
    PROVE  MonthsUntil(x, c) \subseteq MonthsUntil(x, d)
<1>1. MonthOf(x.start) \in Nat /\ MonthOf(x.end) \in Nat
      BY LeasesAssumption, MonthBegins DEF LeaseType
<1>2. MonthOf(c) \in Nat /\ MonthOf(d) \in Nat /\ MonthOf(c) <= MonthOf(d)
      BY MonthMonotone
<1>3. ASSUME NEW m \in MonthOf(x.start)..MonthOf(x.end), FirstDay(m) <= c PROVE FirstDay(m) <= d
    <2>1. m \in Nat /\ m <= MonthOf(c)
          BY <1>1, <1>3, MonthBegins
    <2> QED
        BY <1>2, <2>1, MonthBegins
<1> QED
    BY <1>3 DEF MonthsUntil

\* What is due of a lease that has begun are the months until today, its last day and
\* its termination.
LEMMA DueIsUntil ==
    ASSUME TypeOK, NEW x \in LeaseType, x.approved,
           x.status \in {"ACTIVE", "EXPIRED", "TERMINATED"}, x.start <= today
    PROVE  /\ x.terminated <= today => DueMonths(x) = MonthsUntil(x, x.terminated)
           /\ x.terminated = Never => DueMonths(x) = MonthsUntil(x, today)
<1>1. /\ x.start \in Nat /\ x.end \in Nat /\ x.terminated \in Nat /\ today \in Nat
      /\ today < Never /\ Never \in Nat
      BY LeasesAssumption DEF TypeOK, LeaseType, Never
<1>2. /\ MonthOf(x.start) \in Nat /\ MonthOf(x.end) \in Nat /\ MonthOf(x.terminated) \in Nat
      /\ MonthOf(today) \in Nat /\ MonthOf(Never) \in Nat
      BY <1>1, MonthBegins
<1>3. ASSUME NEW m \in Nat
      PROVE  /\ FirstDay(m) <= x.end <=> m <= MonthOf(x.end)
             /\ FirstDay(m) <= x.terminated <=> m <= MonthOf(x.terminated)
             /\ FirstDay(m) <= today <=> m <= MonthOf(today)
      BY <1>1, MonthBegins
<1>4. /\ x.terminated <= today => MonthOf(x.terminated) <= MonthOf(today)
      /\ x.terminated = Never => MonthOf(today) <= MonthOf(x.terminated)
      BY <1>1, MonthMonotone
<1>5. DueMonths(x) = {m \in MonthOf(x.start)..MonthOf(today) :
                         FirstDay(m) <= x.end /\ FirstDay(m) <= x.terminated}
      BY DEF DueMonths
<1>6. CASE x.terminated <= today
    <2>1. \A m \in Nat :
             /\ m \in MonthOf(x.start)..MonthOf(today)
             /\ FirstDay(m) <= x.end /\ FirstDay(m) <= x.terminated
             <=> m \in MonthOf(x.start)..MonthOf(x.end) /\ FirstDay(m) <= x.terminated
          BY <1>2, <1>3, <1>4, <1>6
    <2>2. /\ MonthOf(x.start)..MonthOf(today) \subseteq Nat
          /\ MonthOf(x.start)..MonthOf(x.end) \subseteq Nat
          BY <1>2
    <2>3. DueMonths(x) = MonthsUntil(x, x.terminated)
          BY <1>5, <2>1, <2>2 DEF MonthsUntil
    <2> QED
        BY <1>1, <1>6, <2>3
<1>7. CASE x.terminated = Never
    <2>1. \A m \in Nat :
             /\ m \in MonthOf(x.start)..MonthOf(today)
             /\ FirstDay(m) <= x.end /\ FirstDay(m) <= x.terminated
             <=> m \in MonthOf(x.start)..MonthOf(x.end) /\ FirstDay(m) <= today
          BY <1>2, <1>3, <1>4, <1>7
    <2>2. /\ MonthOf(x.start)..MonthOf(today) \subseteq Nat
          /\ MonthOf(x.start)..MonthOf(x.end) \subseteq Nat
          BY <1>2
    <2>3. DueMonths(x) = MonthsUntil(x, today)
          BY <1>5, <2>1, <2>2 DEF MonthsUntil
    <2> QED
        BY <1>1, <1>7, <2>3
<1> QED
    BY <1>6, <1>7

\* Looking at a lease bills what is due and never too much.
LEMMA GenerateBills ==
    ASSUME TypeOK, NEW x \in LeaseType, BillOK(x, today)
    PROVE  LET y == GenerateObligations(x) IN
           /\ y \in LeaseType /\ BillOK(y, today)
           /\ y.status = x.status /\ y.start = x.start /\ y.end = x.end
           /\ y.terminated = x.terminated /\ y.request = x.request /\ y.approved = x.approved
           /\ x.status = "ACTIVE" /\ x.start <= today => y.billed = MonthsUntil(x, today)
<1> DEFINE y == GenerateObligations(x)
<1>1. /\ y.status = x.status /\ y.start = x.start /\ y.end = x.end
      /\ y.terminated = x.terminated /\ y.request = x.request /\ y.approved = x.approved
      /\ y.billed = x.billed \cup DueMonths(x)
      BY DEF GenerateObligations, LeaseType
<1>2. y \in LeaseType
      BY GenerateSettles
<1> HIDE DEF y
<1>3. \A d : MonthsUntil(y, d) = MonthsUntil(x, d)
      BY <1>1 DEF MonthsUntil
<1>4. /\ x.start \in Nat /\ x.end \in Nat /\ x.terminated \in Nat /\ today \in Nat
      /\ today < Never /\ Never \in Nat
      BY LeasesAssumption DEF TypeOK, LeaseType, Never
<1>5. CASE DueMonths(x) = {}
    <2>1. y.billed = x.billed
          BY <1>1, <1>5
    <2>2. BillOK(y, today)
          BY <1>1, <1>3, <2>1 DEF BillOK
    <2>3. x.status = "ACTIVE" /\ x.start <= today => x.billed = MonthsUntil(x, today)
          BY <1>5, DueIsUntil DEF BillOK
    <2> QED
        BY <1>1, <1>2, <2>1, <2>2, <2>3 DEF y
<1>6. CASE x.status \in {"ACTIVE", "EXPIRED", "TERMINATED"} /\ x.approved /\ x.start <= today
    <2>1. CASE x.status = "ACTIVE"
      <3>1. x.terminated = Never /\ DueMonths(x) = MonthsUntil(x, today)
            BY <1>6, <2>1, DueIsUntil DEF BillOK
      <3>2. y.billed = MonthsUntil(x, today)
            BY <1>1, <2>1, <3>1 DEF BillOK
      <3>3. BillOK(y, today)
            BY <1>1, <1>3, <2>1, <3>2 DEF BillOK
      <3> QED
          BY <1>1, <1>2, <3>2, <3>3 DEF y
    <2>2. CASE x.status = "EXPIRED"
      <3>1. x.terminated = Never /\ x.end < today /\ DueMonths(x) = MonthsUntil(x, today)
            BY <1>6, <2>2, DueIsUntil DEF BillOK
      <3>2. MonthsUntil(x, today) = MonthsUntil(x, x.terminated)
            BY <1>4, <3>1, AllMonths
      <3>3. y.billed = x.billed
            BY <1>1, <2>2, <3>1, <3>2 DEF BillOK
      <3>4. BillOK(y, today)
            BY <1>1, <1>3, <3>3 DEF BillOK
      <3> QED
          BY <1>1, <1>2, <2>2, <3>4 DEF y
    <2>3. CASE x.status = "TERMINATED"
      <3>1. x.terminated <= today /\ DueMonths(x) = MonthsUntil(x, x.terminated)
            BY <1>6, <2>3, DueIsUntil DEF BillOK
      <3>2. x.start <= x.terminated => y.billed = MonthsUntil(x, x.terminated)
            BY <1>1, <2>3, <3>1 DEF BillOK
      <3>3. BillOK(y, today)
            BY <1>1, <1>3, <2>3, <3>2 DEF BillOK
      <3> QED
          BY <1>1, <1>2, <2>3, <3>3 DEF y
    <2> QED
        BY <1>6, <2>1, <2>2, <2>3
<1> QED
    BY <1>5, <1>6 DEF DueMonths

\* A lease that expires owes all its months.
LEMMA RefreshBills ==
    ASSUME TypeOK, NEW x \in LeaseType, BillOK(x, today)
    PROVE  LET y == RefreshLease(x) IN
           /\ y \in LeaseType /\ BillOK(y, today)
           /\ y.request = x.request
           /\ y.status \in {x.status, "EXPIRED"}
           /\ y.status = "ACTIVE" => x = y
           /\ x.status # "ACTIVE" => y = x
<1> DEFINE g == GenerateObligations(x)
           y == [g EXCEPT !.status = "EXPIRED"]
<1>1. CASE ~IsPast(x)
      BY <1>1 DEF RefreshLease
<1>2. CASE IsPast(x)
    <2>1. /\ g \in LeaseType /\ BillOK(g, today) /\ g.status = "ACTIVE"
          /\ g.request = x.request /\ g.start = x.start /\ g.end = x.end
          BY <1>2, GenerateBills DEF IsPast
    <2>2. /\ x.start \in Nat /\ x.end \in Nat /\ today \in Nat
          /\ today < Never /\ Never \in Nat
          BY LeasesAssumption DEF TypeOK, LeaseType, Never
    <2>3. x.start <= x.end /\ x.end < today /\ x.start <= today /\ x.status = "ACTIVE"
          BY <1>2, <2>2 DEF IsPast, BillOK
    <2>4. g.billed = MonthsUntil(x, today)
          BY <2>3, GenerateBills
    <2> HIDE DEF g
    <2>5. /\ y.status = "EXPIRED" /\ y.billed = g.billed /\ y.terminated = g.terminated
          /\ y.start = g.start /\ y.end = g.end /\ y.approved = g.approved
          /\ y.request = g.request
          BY <2>1 DEF LeaseType
    <2>6. y \in LeaseType
          BY <2>1, LeaseFields DEF LeaseStatus
    <2>7. RefreshLease(x) = y
          BY <1>2 DEF RefreshLease, Expired, g
    <2> HIDE DEF y
    <2>8. y.terminated = Never /\ y.approved
          BY <2>1, <2>5 DEF BillOK
    <2>9. MonthsUntil(x, today) = MonthsUntil(x, Never)
          BY <2>2, <2>3, AllMonths
    <2>10. MonthsUntil(y, Never) = MonthsUntil(x, Never)
          BY <2>1, <2>5 DEF MonthsUntil
    <2>11. BillOK(y, today)
          BY <2>1, <2>3, <2>4, <2>5, <2>8, <2>9, <2>10 DEF BillOK
    <2> QED
        BY <2>1, <2>3, <2>5, <2>6, <2>7, <2>11
<1> QED
    BY <1>1, <1>2

\* A lease that is terminated owes the months it had begun.
LEMMA TerminationBills ==
    ASSUME TypeOK, NEW x \in LeaseType, BillOK(x, today), x.request # NoRequest
    PROVE  BillOK(Terminated(x), today)
<1> DEFINE g == GenerateObligations(x)
           y == Terminated(x)
<1>1. /\ g \in LeaseType /\ BillOK(g, today)
      /\ g.status = x.status /\ g.start = x.start /\ g.end = x.end
      /\ g.approved = x.approved
      BY GenerateBills
<1>2. x.status \in {"ACTIVE", "EXPIRED"} /\ x.approved /\ x.start <= x.end
      BY DEF BillOK, LeaseType, LeaseStatus
<1>3. /\ x.start \in Nat /\ x.end \in Nat /\ today \in Nat /\ today < Never /\ Never \in Nat
      BY LeasesAssumption DEF TypeOK, LeaseType, Never
<1>4. x.start <= today => g.billed = MonthsUntil(x, today)
    <2>1. CASE x.status = "ACTIVE"
          BY <2>1, GenerateBills
    <2>2. CASE x.status = "EXPIRED"
      <3>1. g.billed = MonthsUntil(g, g.terminated) /\ g.terminated = Never /\ x.end < today
            BY <1>1, <2>2 DEF BillOK
      <3>2. MonthsUntil(x, today) = MonthsUntil(x, Never)
            BY <1>3, <3>1, AllMonths
      <3>3. MonthsUntil(g, Never) = MonthsUntil(x, Never)
            BY <1>1 DEF MonthsUntil
      <3> QED
          BY <3>1, <3>2, <3>3
    <2> QED
        BY <1>2, <2>1, <2>2
<1> HIDE DEF g
<1>5. /\ y.status = "TERMINATED" /\ y.terminated = today /\ y.request = NoRequest
      /\ y.billed = g.billed /\ y.start = x.start /\ y.end = x.end /\ y.approved
      BY <1>1, <1>2 DEF Terminated, LeaseType, g
<1> HIDE DEF y
<1>6. MonthsUntil(y, today) = MonthsUntil(x, today)
      BY <1>5 DEF MonthsUntil
<1>7. BillOK(y, today)
      BY <1>2, <1>3, <1>4, <1>5, <1>6 DEF BillOK
<1> QED
    BY <1>7 DEF y

LEMMA RefreshedBills ==
    ASSUME TypeOK, BillsOK, NEW L \in SUBSET Lease
    PROVE  \A l \in Lease : /\ Refreshed(L)[l] \in LeaseType /\ BillOK(Refreshed(L)[l], today)
                            /\ lease[l].status = "NONE" => Refreshed(L)[l] = lease[l]
<1> SUFFICES ASSUME NEW l \in Lease
             PROVE  /\ Refreshed(L)[l] \in LeaseType /\ BillOK(Refreshed(L)[l], today)
                    /\ lease[l].status = "NONE" => Refreshed(L)[l] = lease[l]
    OBVIOUS
<1>1. lease[l] \in LeaseType /\ BillOK(lease[l], today)
      BY DEF TypeOK, BillsOK
<1>2. Refreshed(L)[l] = IF l \in L THEN RefreshLease(lease[l]) ELSE lease[l]
      BY DEF Refreshed
<1> QED
    BY <1>1, <1>2, RefreshBills

LEMMA ViewBills ==
    ASSUME TypeOK, BillsOK, NEW L \in SUBSET Lease, ViewLeases(L)
    PROVE  BillsOK'
<1>1. \A l \in Lease :
          lease'[l] \in {Refreshed(L)[l], GenerateObligations(Refreshed(L)[l])}
      BY DEF ViewLeases
<1>2. \A l \in Lease : BillOK(lease'[l], today)
      BY <1>1, RefreshedBills, GenerateBills
<1> QED
    BY <1>2 DEF BillsOK, ViewLeases

\* A proposal, or the successor of a lease, owes nothing yet.
LEMMA NewBills ==
    ASSUME NEW row, NEW d, row.status = "PENDING_APPROVAL", row.start <= row.end,
           row.terminated = Never, row.request = NoRequest, row.billed = {}
    PROVE  BillOK(row, d)
BY DEF BillOK

LEMMA ProposalBills ==
    ASSUME TypeOK, BillsOK, NEW l \in Lease, NEW i \in Listing, NEW t \in Resident, NEW term \in Term,
           CreateLease(l, i, t, term) \/ OnboardTenant(l, i, t, term)
    PROVE  BillsOK'
<1> DEFINE row == NewLease(i, t, term)
           approved == [row EXCEPT !.approved = TRUE]
<1>1. PICK r \in {row, approved} : lease' = [Refreshed(Lease) EXCEPT ![l] = r]
      BY DEF CreateLease, OnboardTenant, Propose
<1>2. term.start <= term.end /\ today' = today
    <2>1. term.start \in Nat /\ term.end \in Nat /\ term.start < term.end
          BY LeasesAssumption DEF CreateLease, OnboardTenant, CanCreateLease
    <2> QED
        BY <2>1 DEF CreateLease, OnboardTenant
<1>3. /\ r.status = "PENDING_APPROVAL" /\ r.start = term.start /\ r.end = term.end
      /\ r.terminated = Never /\ r.request = NoRequest /\ r.billed = {}
      BY DEF NewLease
<1>4. BillOK(r, today)
      BY <1>2, <1>3, NewBills
<1>5. DOMAIN Refreshed(Lease) = Lease
      BY DEF Refreshed
<1>6. \A k \in Lease : lease'[k] = IF k = l THEN r ELSE Refreshed(Lease)[k]
      BY <1>1, <1>5
<1> QED
    BY <1>2, <1>4, <1>6, RefreshedBills DEF BillsOK

\* What concerns one row y of lease l.
LEMMA RowBills ==
    ASSUME TypeOK, BillsOK, NEW l \in Lease, NEW y, BillOK(y, today), UNCHANGED today,
           lease' = [lease EXCEPT ![l] = y]
    PROVE  BillsOK'
BY DEF BillsOK, TypeOK

\* Acceptance, approval, activation and rejection of a proposal.
LEMMA ReviewBills ==
    ASSUME TypeOK, BillsOK, NEW l \in Lease,
           AcceptLease(l) \/ ApproveLease(l) \/ CancelProposal(l) \/ ActivateLease(l)
    PROVE  BillsOK'
<1> DEFINE x == lease[l]
           accepted == [x EXCEPT !.accepted = TRUE]
           approved == [x EXCEPT !.approved = TRUE]
           cancelled == [x EXCEPT !.status = "CANCELLED"]
           active == [x EXCEPT !.status = "ACTIVE", !.approved = TRUE]
<1>1. x \in LeaseType /\ BillOK(x, today)
      BY DEF TypeOK, BillsOK
<1>2. x.status = "PENDING_APPROVAL" /\ today' = today
      BY DEF AcceptLease, ApproveLease, CancelProposal, ActivateLease, CanActivate, IsAgreed
<1>3. \/ lease' = [lease EXCEPT ![l] = accepted]
      \/ lease' = [lease EXCEPT ![l] = approved]
      \/ lease' = [lease EXCEPT ![l] = cancelled]
      \/ lease' = [lease EXCEPT ![l] = GenerateObligations(active)]
      BY DEF AcceptLease, ApproveLease, CancelProposal, ActivateLease
<1>4. x.billed = {} /\ x.request = NoRequest /\ x.start <= x.end /\ x.terminated = Never
      BY <1>1, <1>2 DEF BillOK
<1>5. \A y \in {accepted, approved, cancelled, active} :
          /\ y.billed = {} /\ y.request = NoRequest /\ y.start = x.start /\ y.end = x.end
          /\ y.terminated = Never
      BY <1>1, <1>4 DEF LeaseType
<1>6. /\ accepted.status = "PENDING_APPROVAL" /\ approved.status = "PENDING_APPROVAL"
      /\ cancelled.status = "CANCELLED" /\ active.status = "ACTIVE" /\ active.approved
      BY <1>1, <1>2 DEF LeaseType
<1>7. active \in LeaseType
      BY <1>1, LeasesAssumption DEF LeaseType, LeaseStatus
<1> HIDE DEF accepted, approved, cancelled, active
<1>8. /\ BillOK(accepted, today) /\ BillOK(approved, today)
      /\ BillOK(cancelled, today) /\ BillOK(active, today)
      BY <1>4, <1>5, <1>6 DEF BillOK
<1>9. BillOK(GenerateObligations(active), today)
      BY <1>7, <1>8, GenerateBills
<1> QED
    BY <1>2, <1>3, <1>8, <1>9, RowBills

\* A request changes nothing that is owed; it stays with a lease that runs or ran.
LEMMA RequestedBills ==
    ASSUME NEW x \in LeaseType, NEW d, BillOK(x, d), NEW q,
           q = NoRequest \/ x.status \in {"ACTIVE", "EXPIRED"}
    PROVE  /\ BillOK([x EXCEPT !.request = q], d)
           /\ BillOK([x EXCEPT !.request = NoRequest, !.renewed = TRUE], d)
<1>1. \A y \in {[x EXCEPT !.request = q], [x EXCEPT !.request = NoRequest, !.renewed = TRUE]} :
          /\ y.status = x.status /\ y.start = x.start /\ y.end = x.end /\ y.billed = x.billed
          /\ y.terminated = x.terminated /\ y.approved = x.approved
          /\ y.request \in {q, NoRequest}
      BY DEF LeaseType
<1>2. ASSUME NEW y, y.status = x.status, y.start = x.start, y.end = x.end, y.billed = x.billed,
             y.terminated = x.terminated, y.approved = x.approved, y.request \in {q, NoRequest}
      PROVE  BillOK(y, d)
    <2>1. \A e : MonthsUntil(y, e) = MonthsUntil(x, e)
          BY <1>2 DEF MonthsUntil
    <2> QED
        BY <1>2, <2>1 DEF BillOK
<1> QED
    BY <1>1, <1>2

LEMMA LifecycleBills ==
    ASSUME TypeOK, BillsOK, NEW l \in Lease,
           \/ RequestTermination(l) \/ WithdrawLifecycle(l) \/ DeclineLifecycle(l)
           \/ ApproveTermination(l)
           \/ \E term \in Term : RequestRenewal(l, term)
    PROVE  BillsOK'
<1>1. lease[l] \in LeaseType /\ BillOK(lease[l], today)
      BY DEF TypeOK, BillsOK
<1>2. UNCHANGED today
      BY DEF RequestTermination, WithdrawLifecycle, DeclineLifecycle, ApproveTermination, RequestRenewal
<1>3. CASE RequestTermination(l) \/ \E term \in Term : RequestRenewal(l, term)
    <2>1. lease[l].status = "ACTIVE"
          BY <1>3 DEF RequestTermination, RequestRenewal, CanRequest
    <2>2. \E q : lease' = [lease EXCEPT ![l] = [lease[l] EXCEPT !.request = q]]
          BY <1>3 DEF RequestTermination, RequestRenewal
    <2> QED
        BY <1>1, <1>2, <2>1, <2>2, RequestedBills, RowBills
<1>4. CASE WithdrawLifecycle(l)
    <2>1. lease' = [lease EXCEPT ![l] = [lease[l] EXCEPT !.request = NoRequest]]
          BY <1>4 DEF WithdrawLifecycle
    <2> QED
        BY <1>1, <1>2, <2>1, RequestedBills, RowBills
<1>5. CASE DeclineLifecycle(l)
    <2> DEFINE ls == Refreshed({l})
    <2>1. \A k \in Lease : ls[k] \in LeaseType /\ BillOK(ls[k], today)
          BY RefreshedBills
    <2>2. lease' = [ls EXCEPT ![l] = [ls[l] EXCEPT !.request = NoRequest]]
          BY <1>5 DEF DeclineLifecycle
    <2>3. DOMAIN ls = Lease
          BY DEF Refreshed
    <2> HIDE DEF ls
    <2>4. \A k \in Lease :
              lease'[k] = IF k = l THEN [ls[l] EXCEPT !.request = NoRequest] ELSE ls[k]
          BY <2>2, <2>3
    <2>5. BillOK([ls[l] EXCEPT !.request = NoRequest], today)
          BY <2>1, RequestedBills
    <2>6. \A k \in Lease : BillOK(lease'[k], today)
          BY <2>1, <2>4, <2>5
    <2> QED
        BY <1>2, <2>6 DEF BillsOK
<1>6. CASE ApproveTermination(l)
    <2> DEFINE y == RefreshLease(lease[l])
    <2>1. y \in LeaseType /\ BillOK(y, today) /\ y.request = lease[l].request
          BY <1>1, RefreshBills
    <2>2. lease[l].request # NoRequest
          BY <1>6 DEF ApproveTermination, NoRequest
    <2>3. BillOK(Terminated(y), today)
          BY <2>1, <2>2, TerminationBills
    <2>4. lease' = [lease EXCEPT ![l] = Terminated(y)]
          BY <1>6 DEF ApproveTermination
    <2> QED
        BY <1>2, <2>3, <2>4, RowBills
<1> QED
    BY <1>3, <1>4, <1>5, <1>6

LEMMA RenewalBills ==
    ASSUME TypeOK, BillsOK, NEW l \in Lease, NEW k \in Lease, ApproveRenewal(l, k)
    PROVE  BillsOK'
<1> DEFINE term == lease[l].request.term
           y == [lease[l] EXCEPT !.request = NoRequest, !.renewed = TRUE]
           row == Successor(l, term)
<1>1. lease[l] \in LeaseType /\ BillOK(lease[l], today)
      BY DEF TypeOK, BillsOK
<1>2. BillOK(y, today)
      BY <1>1, RequestedBills
<1>3. term \in Term
    <2>1. lease[l].request \in RequestType /\ lease[l].request.type = "RENEWAL"
          BY <1>1 DEF LeaseType, ApproveRenewal
    <2> QED
        BY <2>1 DEF RequestType
<1>4. term.start <= term.end
      BY <1>3, LeasesAssumption DEF ApproveRenewal, ValidRenewal
<1>5. /\ row.status = "PENDING_APPROVAL" /\ row.start = term.start /\ row.end = term.end
      /\ row.terminated = Never /\ row.request = NoRequest /\ row.billed = {}
      BY DEF Successor, NewLease
<1>6. BillOK(row, today)
      BY <1>4, <1>5, NewBills
<1>7. lease[l].status = "ACTIVE" /\ lease[k].status = "NONE" /\ today' = today
      BY <1>1, RefreshBills DEF ApproveRenewal
<1>8. lease' = [[lease EXCEPT ![l] = y] EXCEPT ![k] = row]
      BY DEF ApproveRenewal
<1> HIDE DEF y, row
<1>9. \A j \in Lease : lease'[j] = IF j = k THEN row ELSE IF j = l THEN y ELSE lease[j]
      BY <1>8 DEF TypeOK
<1> QED
    BY <1>2, <1>6, <1>7, <1>9 DEF BillsOK

\* While time passes more months may be billed, and those of the past stay the same.
LEMMA TickBills ==
    ASSUME TypeOK, BillsOK, Tick
    PROVE  BillsOK'
<1> SUFFICES ASSUME NEW l \in Lease PROVE BillOK(lease[l], today + 1)
    BY DEF Tick, BillsOK
<1>1. lease[l] \in LeaseType /\ BillOK(lease[l], today) /\ today \in Nat
      BY LeasesAssumption DEF TypeOK, BillsOK
<1>2. MonthsUntil(lease[l], today) \subseteq MonthsUntil(lease[l], today + 1)
      BY <1>1, MoreMonths
<1>3. lease[l].end \in Nat /\ lease[l].terminated \in Nat
      BY <1>1, LeasesAssumption DEF LeaseType, Never
<1> QED
    BY <1>1, <1>2, <1>3 DEF BillOK

\* What is owed for a lease that began and has ended are the months it touched, even if
\* nobody looked at it for months (refreshLease, generateCurrentObligations).
THEOREM EndedLeasesAreBilled == Spec => []BilledInFull
<1>1. Init => BillsOK
    <2> SUFFICES ASSUME Init, NEW l \in Lease PROVE BillOK(lease[l], today)
        BY DEF BillsOK
    <2>1. lease[l].status = "NONE" /\ lease[l].billed = {} /\ lease[l].request = NoRequest
          BY DEF Init, NoLeaseRow, NewLease
    <2> QED
        BY <2>1 DEF BillOK
<1>2. ASSUME TypeOK, BillsOK, [Next]_vars PROVE BillsOK'
    <2>1. ASSUME NEW L \in Views, ViewLeases(L) PROVE BillsOK'
      <3>1. L \in SUBSET Lease
            BY <2>1 DEF Views
      <3> QED
          BY <1>2, <2>1, <3>1, ViewBills
    <2>2. CASE \/ ViewListings
               \/ \E i \in Listing, offer \in Offer : \E a \in Apartment : CreateListing(i, a, offer)
      <3>1. lease' = Refreshed(Lease) /\ today' = today
            BY <2>2 DEF ViewListings, CreateListing
      <3> QED
          BY <1>2, <3>1, RefreshedBills DEF BillsOK
    <2>3. ASSUME NEW l \in Lease, NEW i \in Listing, NEW t \in Resident, NEW term \in Term,
                 CreateLease(l, i, t, term) \/ OnboardTenant(l, i, t, term)
          PROVE  BillsOK'
          BY <1>2, <2>3, ProposalBills
    <2>4. ASSUME NEW l \in Lease,
                 AcceptLease(l) \/ ActivateLease(l) \/ ApproveLease(l) \/ CancelProposal(l)
          PROVE  BillsOK'
          BY <1>2, <2>4, ReviewBills
    <2>5. ASSUME NEW l \in Lease,
                 \/ RequestTermination(l) \/ WithdrawLifecycle(l) \/ DeclineLifecycle(l)
                 \/ ApproveTermination(l)
                 \/ \E term \in Term : RequestRenewal(l, term)
          PROVE  BillsOK'
          BY <1>2, <2>5, LifecycleBills
    <2>6. ASSUME NEW l \in Lease, NEW k \in Lease, ApproveRenewal(l, k) PROVE BillsOK'
          BY <1>2, <2>6, RenewalBills
    <2>7. CASE Tick
          BY <1>2, <2>7, TickBills
    <2>8. ASSUME UNCHANGED <<lease, today>> PROVE BillsOK'
          BY <1>2, <2>8 DEF BillsOK
    <2>9. CASE \/ \E i \in Listing, offer \in Offer :
                     \E status \in {"DRAFT", "AVAILABLE", "WITHDRAWN"} : UpdateListing(i, status, offer)
               \/ \E r \in Resident, a \in Apartment \cup {NoApartment} : AssociateResident(r, a)
               \/ UNCHANGED vars
          BY <2>8, <2>9 DEF UpdateListing, AssociateResident, vars
    <2> QED
        BY <1>2, <2>1, <2>2, <2>3, <2>4, <2>5, <2>6, <2>7, <2>9 DEF Next
<1>3. TypeOK /\ BillsOK => BilledInFull
    <2> SUFFICES ASSUME TypeOK, BillsOK, NEW l \in Lease,
                        lease[l].status \in {"EXPIRED", "TERMINATED"},
                        lease[l].start <= lease[l].terminated
                 PROVE  lease[l].billed = MonthsUntil(lease[l], lease[l].terminated)
        BY DEF BilledInFull, MonthsUntil
    <2> QED
        BY DEF BillsOK, BillOK
<1> QED
    BY <1>1, <1>2, <1>3, TypeCorrect, PTL DEF Spec
-----------------------------------------------------------------------------
(* The pages of LeasePages: what they show of these stores.                  *)

\* What is open or leased is an apartment of the community.
Placed ==
    /\ \A i \in Listing : listing[i].status \in OpenStatus => listing[i].apartment \in Apartment
    /\ \A l \in Lease : lease[l].status # "NONE" => ApartmentOf(lease[l]) \in Apartment

\* A listing keeps its apartment, and is opened by getting one.
KeepsPlace(i) ==
    \/ /\ listing'[i].apartment = listing[i].apartment
       /\ \/ listing'[i].status \in OpenStatus => listing[i].status \in OpenStatus
          \/ listing[i].apartment \in Apartment
    \/ listing[i].status = "NONE" /\ listing'[i].apartment \in Apartment

\* A lease keeps its listing, or begins on one that is open or leased.
KeepsListing(l) ==
    \/ /\ lease'[l].listing = lease[l].listing
       /\ lease[l].status = "NONE" => lease'[l].status = "NONE"
    \/ \E i \in Listing : lease'[l].listing = i /\ listing[i].status \in OpenStatus
    \/ \E k \in Lease : lease[k].status # "NONE" /\ lease'[l].listing = lease[k].listing

LEMMA PlacesStay ==
    ASSUME IInv, Placed, \A i \in Listing : KeepsPlace(i), \A l \in Lease : KeepsListing(l)
    PROVE  Placed'
<1>1. \A i \in Listing : listing[i].apartment \in Apartment => listing'[i].apartment \in Apartment
      BY DEF KeepsPlace
<1>2. \A l \in Lease : lease[l].status # "NONE" =>
          /\ lease[l].listing \in Listing
          /\ listing[lease[l].listing].apartment \in Apartment
      BY LeasesAssumption DEF Placed, ApartmentOf, IInv, Core, Listed
<1>3. \A i \in Listing :
          listing'[i].status \in OpenStatus => listing'[i].apartment \in Apartment
      BY DEF Placed, KeepsPlace
<1>4. ASSUME NEW l \in Lease, lease'[l].status # "NONE"
      PROVE  lease'[l].listing \in Listing /\ listing'[lease'[l].listing].apartment \in Apartment
      BY <1>1, <1>2, <1>4 DEF KeepsListing, Placed
<1> QED
    BY <1>3, <1>4, LeasesAssumption DEF Placed, ApartmentOf

LEMMA ReleasedPlaces ==
    ASSUME TypeOK, NEW ls, NEW ended, NEW i \in Listing
    PROVE  /\ ReleaseListings(ls, ended)[i].apartment = listing[i].apartment
           /\ ReleaseListings(ls, ended)[i].status \in {listing[i].status, "WITHDRAWN"}
           /\ DOMAIN ReleaseListings(ls, ended)[i] = DOMAIN listing[i]
<1>1. listing[i] \in ListingType
      BY DEF TypeOK
<1>2. ReleaseListings(ls, ended)[i] \in {listing[i], [listing[i] EXCEPT !.status = "WITHDRAWN"]}
      BY DEF ReleaseListings
<1> QED
    BY <1>1, <1>2 DEF ListingType

\* Refreshed leases keep their listing.
LEMMA RefreshedListings ==
    ASSUME TypeOK, NEW L \in SUBSET Lease, NEW l \in Lease
    PROVE  /\ Refreshed(L)[l] \in LeaseType
           /\ Refreshed(L)[l].listing = lease[l].listing
           /\ lease[l].status = "NONE" => Refreshed(L)[l].status = "NONE"
BY RefreshedSettles DEF Settles

LEMMA NextPlaced == IInv /\ Placed /\ [Next]_vars => Placed'
<1> SUFFICES ASSUME IInv, Placed, [Next]_vars PROVE Placed'
    OBVIOUS
<1>1. TypeOK /\ lease \in [Lease -> LeaseType] /\ listing \in [Listing -> ListingType]
      BY DEF IInv, TypeOK
<1>2. ASSUME UNCHANGED listing PROVE \A i \in Listing : KeepsPlace(i)
      BY <1>2 DEF KeepsPlace
<1>3. ASSUME UNCHANGED lease PROVE \A l \in Lease : KeepsListing(l)
      BY <1>3 DEF KeepsListing
<1>4. ASSUME NEW ls, NEW ended, listing' = ReleaseListings(ls, ended)
      PROVE  \A i \in Listing : KeepsPlace(i)
      BY <1>1, <1>4, ReleasedPlaces DEF KeepsPlace, OpenStatus
<1>5. ASSUME NEW l \in Lease, NEW row, lease' = [lease EXCEPT ![l] = row],
             row.listing = lease[l].listing, lease[l].status # "NONE"
      PROVE  \A k \in Lease : KeepsListing(k)
      BY <1>1, <1>5 DEF KeepsListing
<1>6. ASSUME NEW L \in SUBSET Lease, ViewLeases(L) PROVE Placed'
    <2>1. ASSUME NEW l \in Lease PROVE KeepsListing(l)
        <3>1. lease'[l] \in {Refreshed(L)[l], GenerateObligations(Refreshed(L)[l])}
              BY <1>6 DEF ViewLeases
        <3>2. Settles(Refreshed(L)[l], GenerateObligations(Refreshed(L)[l]))
              BY <1>1, RefreshedListings, GenerateSettles
        <3> QED
            BY <1>1, <3>1, <3>2, RefreshedListings DEF KeepsListing, Settles
    <2> QED
        BY <1>4, <1>6, <2>1, PlacesStay DEF ViewLeases
<1>7. ASSUME ViewListings PROVE Placed'
    <2>1. \A l \in Lease : KeepsListing(l)
          BY <1>1, <1>7, RefreshedListings DEF ViewListings, KeepsListing
    <2> QED
        BY <1>4, <1>7, <2>1, PlacesStay DEF ViewListings
<1>8. ASSUME NEW i \in Listing, NEW offer \in Offer, NEW a \in Apartment, CreateListing(i, a, offer)
      PROVE  Placed'
    <2> DEFINE li == ReleaseListings(Refreshed(Lease), Past(Lease))
    <2>1. \A l \in Lease : KeepsListing(l)
          BY <1>1, <1>8, RefreshedListings DEF CreateListing, KeepsListing
    <2>2. ASSUME NEW j \in Listing PROVE KeepsPlace(j)
        <3>1. /\ li[j].apartment = listing[j].apartment
              /\ li[j].status \in {listing[j].status, "WITHDRAWN"}
              BY <1>1, ReleasedPlaces
        <3>2. /\ listing[i].status = "NONE" /\ DOMAIN li = Listing
              /\ listing' = [li EXCEPT ![i] = [status |-> "DRAFT", apartment |-> a,
                                               from |-> offer.from, until |-> offer.until]]
              BY <1>8 DEF CreateListing, ReleaseListings
        <3> HIDE DEF li
        <3> QED
            BY <3>1, <3>2 DEF KeepsPlace, OpenStatus
    <2> QED
        BY <2>1, <2>2, PlacesStay
<1>9. ASSUME NEW i \in Listing, NEW offer \in Offer, NEW status, UpdateListing(i, status, offer)
      PROVE  Placed'
    <2>1. \A j \in Listing : KeepsPlace(j)
          BY <1>1, <1>9 DEF UpdateListing, KeepsPlace, ListingType, OpenStatus
    <2> QED
        BY <1>3, <1>9, <2>1, PlacesStay DEF UpdateListing
<1>10. ASSUME NEW l \in Lease, NEW i \in Listing, NEW row, row.listing = i,
              listing[i].status = "AVAILABLE",
              Propose(l, row, i, Refreshed(Lease))
       PROVE  Placed'
    <2> DEFINE li == ReleaseListings(Refreshed(Lease), Past(Lease))
               ls == Refreshed(Lease)
    <2>1. ASSUME NEW k \in Lease PROVE KeepsListing(k)
        <3>1. lease' = [ls EXCEPT ![l] = row] /\ DOMAIN ls = Lease
              BY <1>10 DEF Propose, Refreshed
        <3>2. ls[k].listing = lease[k].listing /\ (lease[k].status = "NONE" => ls[k].status = "NONE")
              BY <1>1, RefreshedListings
        <3> HIDE DEF ls
        <3> QED
            BY <1>10, <3>1, <3>2 DEF KeepsListing, OpenStatus
    <2>2. ASSUME NEW j \in Listing PROVE KeepsPlace(j)
        <3>1. /\ li[j].apartment = listing[j].apartment
              /\ li[j].status \in {listing[j].status, "WITHDRAWN"}
              /\ DOMAIN li[j] = DOMAIN listing[j]
              BY <1>1, ReleasedPlaces
        <3>2. listing' = [li EXCEPT ![i].status = "RESERVED"] /\ DOMAIN li = Listing
              BY <1>10 DEF Propose, ReleaseListings
        <3> HIDE DEF li
        <3> QED
            BY <1>1, <1>10, <3>1, <3>2 DEF KeepsPlace, OpenStatus, ListingType
    <2> QED
        BY <2>1, <2>2, PlacesStay
<1>11. ASSUME NEW l \in Lease, NEW i \in Listing, NEW t \in Resident, NEW term \in Term,
              CreateLease(l, i, t, term) \/ OnboardTenant(l, i, t, term)
       PROVE  Placed'
    <2>1. PICK row : /\ row \in {NewLease(i, t, term), [NewLease(i, t, term) EXCEPT !.approved = TRUE]}
                     /\ Propose(l, row, i, Refreshed(Lease))
          BY <1>11 DEF CreateLease, OnboardTenant
    <2>2. row.listing = i
          BY <2>1 DEF NewLease
    <2>3. listing[i].status = "AVAILABLE"
          BY <1>11 DEF CreateLease, OnboardTenant, CanCreateLease
    <2> QED
        BY <1>10, <2>1, <2>2, <2>3
<1>12. ASSUME NEW l \in Lease, AcceptLease(l) \/ ApproveLease(l) PROVE Placed'
    <2>1. \A k \in Lease : KeepsListing(k)
          BY <1>1, <1>12 DEF AcceptLease, ApproveLease, KeepsListing, LeaseType
    <2> QED
        BY <1>2, <1>12, <2>1, PlacesStay DEF AcceptLease, ApproveLease
<1>13. ASSUME NEW l \in Lease, ActivateLease(l) PROVE Placed'
    <2> DEFINE x == [lease[l] EXCEPT !.status = "ACTIVE", !.approved = TRUE]
    <2>1. lease[l].status = "PENDING_APPROVAL"
          BY <1>13 DEF ActivateLease, CanActivate, IsAgreed
    <2>2. GenerateObligations(x).listing = lease[l].listing
          BY <1>1 DEF GenerateObligations, LeaseType
    <2>3. \A k \in Lease : KeepsListing(k)
          BY <1>5, <1>13, <2>1, <2>2 DEF ActivateLease
    <2>4. lease[l].listing \in Listing /\ listing[lease[l].listing].apartment \in Apartment
          BY <2>1, LeasesAssumption DEF Placed, ApartmentOf, IInv, Core, Listed
    <2>5. \A j \in Listing : KeepsPlace(j)
          BY <1>1, <1>13, <2>4 DEF ActivateLease, KeepsPlace, ListingType
    <2> QED
        BY <2>3, <2>5, PlacesStay
<1>14. ASSUME NEW l \in Lease, CancelProposal(l) PROVE Placed'
    <2>1. \A k \in Lease : KeepsListing(k)
          BY <1>1, <1>14 DEF CancelProposal, KeepsListing, LeaseType
    <2> QED
        BY <1>4, <1>14, <2>1, PlacesStay DEF CancelProposal
<1>15. ASSUME NEW l \in Lease,
              \/ RequestTermination(l) \/ WithdrawLifecycle(l)
              \/ \E term \in Term : RequestRenewal(l, term)
       PROVE  Placed'
    <2>1. \A k \in Lease : KeepsListing(k)
          BY <1>1, <1>15 DEF RequestTermination, WithdrawLifecycle, RequestRenewal,
                             KeepsListing, LeaseType
    <2> QED
        BY <1>2, <1>15, <2>1, PlacesStay DEF RequestTermination, WithdrawLifecycle, RequestRenewal
<1>16. ASSUME NEW l \in Lease, DeclineLifecycle(l) PROVE Placed'
    <2>1. ASSUME NEW k \in Lease PROVE KeepsListing(k)
        <3> DEFINE ls == Refreshed({l})
        <3>1. /\ ls[k] \in LeaseType /\ ls[k].listing = lease[k].listing
              /\ lease[k].status = "NONE" => ls[k].status = "NONE"
              BY <1>1, RefreshedListings
        <3>2. lease' = [ls EXCEPT ![l].request = NoRequest] /\ DOMAIN ls = Lease
              BY <1>16 DEF DeclineLifecycle, Refreshed
        <3> HIDE DEF ls
        <3> QED
            BY <3>1, <3>2 DEF KeepsListing, LeaseType
    <2> QED
        BY <1>4, <1>16, <2>1, PlacesStay DEF DeclineLifecycle
<1>17. ASSUME NEW l \in Lease, ApproveTermination(l) PROVE Placed'
    <2> DEFINE x == RefreshLease(lease[l])
    <2>1. x \in LeaseType /\ x.listing = lease[l].listing
          BY <1>1, RefreshSettles DEF Settles
    <2>2. lease' = [lease EXCEPT ![l] = Terminated(x)] /\ lease[l].status # "NONE"
          BY <1>17 DEF ApproveTermination, IInv, Core, FreshRows, NoRequest
    <2> HIDE DEF x
    <2>3. Terminated(x).listing = lease[l].listing
          BY <2>1 DEF Terminated, GenerateObligations, LeaseType
    <2>4. \A k \in Lease : KeepsListing(k)
          BY <1>5, <2>2, <2>3
    <2> QED
        BY <1>4, <1>17, <2>4, PlacesStay DEF ApproveTermination
<1>18. ASSUME NEW l \in Lease, NEW k \in Lease, ApproveRenewal(l, k) PROVE Placed'
    <2> DEFINE row == Successor(l, lease[l].request.term)
    <2>1. row.listing = lease[l].listing
          BY DEF Successor, NewLease
    <2>2. lease[l].status # "NONE"
          BY <1>18 DEF ApproveRenewal, IInv, Core, FreshRows, NoRequest
    <2>3. /\ lease' = [lease EXCEPT ![l].request = NoRequest, ![l].renewed = TRUE, ![k] = row]
          /\ UNCHANGED listing
          BY <1>18 DEF ApproveRenewal
    <2> HIDE DEF row
    <2>4. \A m \in Lease : KeepsListing(m)
          BY <1>1, <2>1, <2>2, <2>3 DEF KeepsListing, LeaseType
    <2> QED
        BY <1>2, <2>3, <2>4, PlacesStay
<1>19. ASSUME UNCHANGED <<listing, lease>> PROVE Placed'
      BY <1>2, <1>3, <1>19, PlacesStay
<1>20. \A L \in Views : L \in SUBSET Lease
      BY DEF Views
<1> QED
    BY <1>6, <1>7, <1>8, <1>9, <1>11, <1>12, <1>13, <1>14, <1>15, <1>16, <1>17, <1>18, <1>19, <1>20
       DEF Next, vars, AssociateResident, Tick

\* A running lease is the only one of its apartment today, and after the refresh it is
\* what makes the apartment COMMUNITY_TENANT.
Running == {l \in Lease : lease[l].status = "ACTIVE" /\ lease[l].start <= today}
OccupiedApartments == {a \in Apartment : Occupancy(a) = "COMMUNITY_TENANT"}

LEMMA OneRunningEach ==
    ASSUME IInv, Placed, Loaded
    PROVE  /\ [l \in Running |-> ApartmentOf(lease[l])] \in Injection(Running, OccupiedApartments)
           /\ [l \in Running |-> ApartmentOf(lease[l])] \in Surjection(Running, OccupiedApartments)
<1> DEFINE f == [l \in Running |-> ApartmentOf(lease[l])]
<1>1. /\ today \in Int
      /\ \A l \in Lease : lease[l].start \in Int /\ lease[l].end \in Int
      BY LeasesAssumption DEF IInv, TypeOK, LeaseType
<1>2. ASSUME NEW l \in Running
      PROVE  /\ l \in Lease /\ lease[l].status = "ACTIVE" /\ Live(lease[l])
             /\ lease[l].start <= today /\ today <= lease[l].end
             /\ lease[l].listing \in Listing
             /\ ApartmentOf(lease[l]) = listing[lease[l].listing].apartment
    <2>1. l \in Lease /\ lease[l].status = "ACTIVE" /\ lease[l].start <= today
          BY DEF Running
    <2>2. ~IsPast(lease[l])
          BY <2>1 DEF Loaded, Past
    <2>3. lease[l].listing \in Listing
          BY <2>1 DEF IInv, Core, Listed
    <2> QED
        BY <1>1, <2>1, <2>2, <2>3, LeasesAssumption DEF IsPast, Live, ApartmentOf
<1>3. ASSUME NEW l \in Running
      PROVE  ApartmentOf(lease[l]) \in Apartment /\ l \in CurrentLeases(ApartmentOf(lease[l]))
      BY <1>2 DEF Placed, CurrentLeases
<1>4. \A l \in Running : f[l] \in OccupiedApartments
      BY <1>3 DEF OccupiedApartments, Occupancy
<1>5. ASSUME NEW k \in Running, NEW l \in Running, f[k] = f[l]
      PROVE  k = l
    <2>1. Overlaps(lease[k], lease[l])
          BY <1>1, <1>2 DEF Overlaps
    <2> QED
        BY <1>2, <1>5, <2>1 DEF IInv, Core, LetApart
<1>6. ASSUME NEW a \in OccupiedApartments
      PROVE  \E l \in Running : f[l] = a
    <2>1. PICK l \in CurrentLeases(a) : TRUE
          BY DEF OccupiedApartments, Occupancy
    <2> QED
        BY <2>1 DEF CurrentLeases, Running
<1>7. f \in [Running -> OccupiedApartments]
      BY <1>4
<1> HIDE DEF f
<1>8. f \in Injection(Running, OccupiedApartments) /\ f \in Surjection(Running, OccupiedApartments)
      BY <1>5, <1>6, <1>7 DEF Injection, IsInjective, Surjection
<1> QED
    BY <1>8 DEF f

\* An apartment the service takes a listing for is one the page offers.
ListingsOffered ==
    \A i \in Listing, a \in Apartment, from \in 0..MaxDay :
        Loaded /\ CreateListing(i, a, [from |-> from, until |-> Never]) => SubmitListing(i, a, from)

LEMMA CreationIsOffered == IInv => ListingsOffered
<1> SUFFICES ASSUME IInv, NEW i \in Listing, NEW a \in Apartment, NEW from \in 0..MaxDay, Loaded,
                    CreateListing(i, a, [from |-> from, until |-> Never])
             PROVE  SubmitListing(i, a, from)
    BY DEF ListingsOffered
<1>1. Refreshed(Lease) = lease /\ ReleaseListings(Refreshed(Lease), Past(Lease)) = listing
    <2>1. Past(Lease) = {} /\ lease \in [Lease -> LeaseType] /\ listing \in [Listing -> ListingType]
          BY DEF Loaded, IInv, TypeOK
    <2>2. \A l \in Lease : RefreshLease(lease[l]) = lease[l]
          BY <2>1 DEF Past, RefreshLease
    <2> QED
        BY <2>1, <2>2 DEF Refreshed, ReleaseListings
<1>2. /\ UnverifiedOccupants(a) = {}
      /\ \A j \in Listing : listing[j].apartment = a => listing[j].status \notin OpenStatus
      /\ \A l \in Lease : ApartmentOf(lease[l]) = a /\ Live(lease[l]) => lease[l].end < today
      BY <1>1 DEF CreateListing
<1>3. CurrentLeases(a) = {}
    <2>1. today \in Int /\ \A l \in Lease : lease[l].end \in Int
          BY LeasesAssumption DEF IInv, TypeOK, LeaseType
    <2> QED
        BY <1>2, <2>1 DEF CurrentLeases, Live
<1>4. LegacyOccupants(a) = {}
      BY <1>2 DEF LegacyOccupants, UnverifiedOccupants
<1>5. a \in EligibleApartments
      BY <1>2, <1>3, <1>4 DEF EligibleApartments, Occupancy
<1> QED
    BY <1>5 DEF SubmitListing, ListingForm

\* In a community of finitely many apartments, a page that was just loaded counts an
\* apartment as occupied exactly once for every lease that runs, and its onboarding form
\* takes every agreement the service would (overview and EligibleApartments of
\* RentalsPage.jsx, inventory of rentals.service.ts).
THEOREM OverviewIsRight ==
    ASSUME IsFiniteSet(Apartment)
    PROVE  Spec => []InventoryFollowsLeases
<1>1. Init => Placed
    <2> SUFFICES ASSUME Init PROVE Placed
        OBVIOUS
    <2>1. /\ \A i \in Listing : listing[i].status = "NONE"
          /\ \A l \in Lease : lease[l].status = "NONE"
          BY DEF Init, NoListingRow, NoLeaseRow, NewLease
    <2> QED
        BY <2>1 DEF Placed, OpenStatus
<1>2. ASSUME IInv, Placed, Loaded
      PROVE  OverviewCounts
    <2> DEFINE f == [l \in Running |-> ApartmentOf(lease[l])]
    <2>1. IsFiniteSet(OccupiedApartments)
          BY FS_Subset DEF OccupiedApartments
    <2>2. f \in Injection(Running, OccupiedApartments) /\ f \in Surjection(Running, OccupiedApartments)
          BY <1>2, OneRunningEach
    <2> HIDE DEF f
    <2>3. Cardinality(Running) = Cardinality(OccupiedApartments)
          BY <2>1, <2>2, FS_Injection
    <2> QED
        BY <2>3 DEF OverviewCounts, Overview, Running, OccupiedApartments
<1>3. AgreementsOffered
      BY DEF AgreementsOffered, CanCreateLease, CanOnboard, FormTakes, TenantOnboardingPayload,
             AvailableListings
<1>4. IInv /\ Placed => PagesFitLeases
      BY <1>2, <1>3 DEF PagesFitLeases
<1>5. ListingFollowsLeases /\ PagesFitLeases => InventoryFollowsLeases
      BY DEF InventoryFollowsLeases
<1> QED
    BY <1>1, <1>4, <1>5, NextPlaced, LeasesInvariant, ListingsFollowLeases, PTL DEF Spec

\* The service takes no new listing of an apartment that a page just loaded does not
\* offer: it forgives less than the page does (createListing, EligibleApartments).
THEOREM OffersAreAll == Spec => [][ListingsOffered]_vars
<1>1. IInv => [ListingsOffered]_vars
      BY CreationIsOffered
<1> QED
    BY <1>1, LeasesInvariant, PTL

=============================================================================
