SPECIFICATION Spec
CONSTANTS
    Apartment = {a1, a2}
    Resident = {r1, r2}
    Legacy = {r1}
    Listing = {i1, i2}
    Lease = {l1, l2, l3}
    Offer <- MCOffers
    Term <- MCTerms
    MonthDays = 2
    MaxDay = 3
    NoApartment = NoApartment
    NoListing = NoListing
    NoLease = NoLease
    NoResident = NoResident
    NoTerm = NoTerm
SYMMETRY Symmetry
INVARIANTS
    LetOnce
    AccessFollowsLease
    BilledInFull
    LettingWithinReach
    InventoryFollowsLeases
CHECK_DEADLOCK FALSE
