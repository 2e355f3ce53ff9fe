SPECIFICATION ClientsSpec
CONSTANTS
    Booking = {b1}
    Block = {}
    Resident = {resident1}
    Config <- MCConfigs
    Window <- MCWindows
    BlockWindow = {}
    Attendees = {1}
    Key = {key1, key2}
    NoKey = NoKey
    NoResident = NoResident
    MaxChanges = 2
    MaxTime = 3
    NoForm = NoForm
INVARIANTS
    OwedForTimeHeld
PROPERTIES
    AcceptedAsQuoted
CHECK_DEADLOCK FALSE
