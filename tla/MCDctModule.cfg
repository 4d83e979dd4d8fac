\* The DctModule with an owner who awaits each issue callback.
CONSTANTS
    Owners = {o1, o2}
    SC = sc
    NoToken = none
    TokenIds = {T1, T2}
    IssueCost = 1
    Costs = {0, 1}
    Amounts = {1, 2}
    InitMoax = 2
    MaxPending = 2
    MaxSupply = 2
    OwnerAwaitsCallback = TRUE
SPECIFICATION Spec
INVARIANTS TypeOK
PROPERTIES TokenIdStable IssueSettles RolesAfterIssue
