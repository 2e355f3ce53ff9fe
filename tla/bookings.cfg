SPECIFICATION Spec
CONSTANTS
    Booking = {b1, b2}
    Block = {k1}
    Resident = {resident1, resident2}
    Config <- MCConfigs
    Window <- MCWindows
    BlockWindow <- MCBlockWindows
    Attendees = {1, 2}
    Key = {key1}
    NoKey = NoKey
    NoResident = NoResident
    MaxChanges = 1
    MaxTime = 2
SYMMETRY Symmetry
INVARIANTS
    NoOverbooking
    CreatedOnce
    BookingWithinReach
    FormIsExact
    WaitingIsHonoured
PROPERTIES
    OnlyApprovedChangesMove
CHECK_DEADLOCK FALSE
