SPECIFICATION FormsSpec
CONSTANTS
    Worker = {w1}
    Specialty = {plumbing}
    Complaint = {}
    Request = {r1}
    NoRequest = NoRequest
    NoWorker = NoWorker
    NoWindow = NoWindow
    NoReference = NoReference
    NoResident = NoResident
    Resident = {resident}
    RequiredWorkType <- MCRequiredWorkType
    ServiceWork <- MCServiceWork
    Amount = {1, 2}
    Window <- TwoWindows
    MaxWindow = 2
    Reference = {utr1}
    MaxEvidence = 1
    MaxEstimates = 2
    MaxVersion = 15
    MaxTime = 2
    NoForm = NoForm
INVARIANTS
    NothingUnapproved
    RequestNeverStuck
PROPERTIES
    NoStaleSubmission
CHECK_DEADLOCK FALSE
