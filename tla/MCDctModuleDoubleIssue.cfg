\* The DctModule with an owner who may issue again before the first callback.
CONSTANTS
    Owners = {o1, o2}
    SC = sc
    NoToken = none
    TokenIds = {T1, T2}
    IssueCost = 1
    Costs = {0, 1}
    Amounts = {1, 2}
    InitMoax = 2
    MaxPending = 2
    MaxSupply = 2
    OwnerAwaitsCallback = FALSE
SPECIFICATION Spec
PROPERTY TokenIdStable
