SPECIFICATION Spec
CONSTANTS
    Worker = {w1, w2}
    Specialty = {plumbing}
    Complaint = {c1, c2}
    Request = {r1}
    NoRequest = NoRequest
    NoWorker = NoWorker
    NoWindow = NoWindow
    NoReference = NoReference
    NoResident = NoResident
    Resident = {resident}
    RequiredWorkType <- MCRequiredWorkType
    ServiceWork <- MCServiceWork
    Amount = {1}
    Window <- OneWindow
    MaxWindow = 2
    Reference = {}
    MaxEvidence = 0
    MaxEstimates = 1
    MaxVersion = 8
    MaxTime = 1
SYMMETRY Symmetry
INVARIANTS
    StoresAgree
    RecordIsEarned
PROPERTIES
    OneJobAtATime
CHECK_DEADLOCK FALSE
