SPECIFICATION Spec
CONSTANTS
    Amendment = {a1, a2}
    Rent = {4}
    Escalation <- MCEscalations
    DueDay = {2}
    BaseRent = 3
    BaseEscalation <- MCBaseEscalation
    BaseDueDay = 1
    LeaseStart = 2
    LeaseEnd = 4
    MonthDays = 2
    MaxRent = 5
    MaxDay = 5
    NoEscalation = NoEscalation
    Unchanged = Unchanged
SYMMETRY Symmetry
INVARIANTS
    RentAsAgreed
CHECK_DEADLOCK FALSE
