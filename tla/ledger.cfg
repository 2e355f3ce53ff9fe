SPECIFICATION Spec
CONSTANTS
    Obligation = {o1, o2}
    AmountDue <- MCDue
    Payment = {p1, p2, p3}
    Refund = {f1, f2}
    Entry = {e1, e2, e3}
    Amendment = {m1}
    Amount = {1, 2}
    InitialDeposit = 2
    MonthDays = 1
    MaxDay = 1
    NoObligation = NoObligation
    NoPayment = NoPayment
CONSTRAINT OneLedger
SYMMETRY Symmetry
INVARIANTS
    RentAddsUp
    DepositAddsUp
    MoneyWithinReach
CHECK_DEADLOCK FALSE
