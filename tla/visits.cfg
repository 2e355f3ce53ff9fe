SPECIFICATION VisitsSpec
CONSTANTS
    Worker = {w1}
    Specialty = {plumbing}
    Complaint = {c1, c2}
    Request = {}
    NoRequest = NoRequest
    NoWorker = NoWorker
    RequiredWorkType <- MCRequiredWorkType
    Appointment = {p1, p2}
    Slot <- MCSlots
    NoSlot = NoSlot
    NoComplaint = NoComplaint
    EmergencyComplaint = {c1}
    CommunityComplaint = {}
    DayHours = 2
    MaxHours = 2
    ChangeCutoffHours = 2
    HorizonHours = 4
    EarlyArrivalHours = 1
SYMMETRY Symmetry
VIEW View
INVARIANTS
    NoVisitTwice
    VisitHeldAsRecorded
    VisitWithinReach
CHECK_DEADLOCK FALSE
