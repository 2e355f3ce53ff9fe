SPECIFICATION FairSpec
CONSTANTS
    User = {u1}
    Token = {t1, t2}
    MaxVersion = 2
    MaxReads <- MCMaxReads
    NoUser = NoUser
    NoToken = NoToken
\* Every token may be used up.
CHECK_DEADLOCK FALSE
INVARIANTS
    CopiesAgree
PROPERTIES
    ShownNeverGoesBack
    EveryWaitEnds
