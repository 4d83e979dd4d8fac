\* Expected to fail: RefundToCaller. The contract changes owner while an issue is in flight.
CONSTANTS
    Owners = {o1, o2}
    SC = sc
    NoToken = none
    TokenIds = {T1, T2}
    IssueCost = 1
    Costs = {0, 1}
    Amounts = {1, 2}
    InitMoax = 2
    MaxPending = 2
    MaxSupply = 2
    OwnerAwaitsCallback = TRUE
SPECIFICATION Spec
INVARIANT RefundToCaller
