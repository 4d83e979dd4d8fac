\* Expected to fail: two issues in flight strand the first wrapped token.
CONSTANTS
    owner = owner
    alice = alice
    sc = sc
    none = none
    W1 = W1
    W2 = W2
    Users = {owner, alice}
    Owner = owner
    SC = sc
    NoToken = none
    WrappedIds = {W1, W2}
    IssueCost = 1
    Supplies = {1, 2}
    Amounts = {1, 2}
    InitMoax = 2
    OwnerAwaitsCallback = FALSE

SPECIFICATION Spec
CONSTRAINT SwapBound
INVARIANT
    Backing
