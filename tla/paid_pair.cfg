SPECIFICATION Spec
CONSTANTS
    Worker = {w1, w2}
    Specialty = {plumbing}
    Complaint = {}
    Request = {r1, r2}
    NoRequest = NoRequest
    NoWorker = NoWorker
    NoWindow = NoWindow
    NoReference = NoReference
    NoResident = NoResident
    Resident = {resident}
    RequiredWorkType <- MCRequiredWorkType
    ServiceWork <- MCServiceWork
    Amount = {1}
    Window <- ThreeWindows
    MaxWindow = 2
    Reference = {utr1}
    MaxEvidence = 1
    MaxEstimates = 1
    MaxVersion = 13
    MaxTime = 2
SYMMETRY Symmetry
INVARIANTS
    NoDoubleBooking
    ReferenceBacksOnePayment
PROPERTIES
    OnlyOwnRequestReleases
CHECK_DEADLOCK FALSE
