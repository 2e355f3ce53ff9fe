SPECIFICATION JurisdictionSpec
CONSTANTS
    Community = {c1, c2}
    Tower = {t1, t2}
    Floor = {f1, f2}
    Apartment = {a1, a2}
    User = {u1, u2}
    Plan <- MCPlan
    TowerRate = 3
    ApartmentRate = 1
    NoPlan = NoPlan
    NoParent = NoParent
    Removed = Removed
    NoUser = NoUser
    Ticket = {k1}
    NoTicket = NoTicket
CONSTRAINT TicketBound
SYMMETRY Symmetry
\* Every community id may be used up.
CHECK_DEADLOCK FALSE
INVARIANTS
    PlanRespected
    HierarchyWhole
    FollowsHierarchy
