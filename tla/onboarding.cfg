SPECIFICATION RegistrationsSpec
CONSTANTS
    Application = {p1, p2}
    Evidence = {e1, e2}
    Reference = {r1}
    Email = {m1, m2}
    Total = 3
    MaxVersion = 2
    Initial <- MCInitial
    EvidenceAmount = {2}
    NoEmail = NoEmail
    NoReference = NoReference
    NoApplication = NoApplication
CONSTRAINT SecondEvidenceApart
SYMMETRY Symmetry
INVARIANTS
    ProvisionedTogether
    ClaimsAreUnique
    ApplicationNeverStuck
    PaidAsTold
PROPERTY ChargedAtMostShown
