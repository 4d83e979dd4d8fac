\* The swap contract with the owner and two other users; the owner awaits
\* each issue's callback.
CONSTANTS
    owner = owner
    alice = alice
    bob = bob
    sc = sc
    none = none
    W1 = W1
    W2 = W2
    Users = {owner, alice, bob}
    Owner = owner
    SC = sc
    NoToken = none
    WrappedIds = {W1, W2}
    IssueCost = 1
    Supplies = {1, 2}
    Amounts = {1, 2}
    InitMoax = 2
    OwnerAwaitsCallback = TRUE

SPECIFICATION Spec
CONSTRAINT SwapBound
INVARIANTS
    TypeOK
    Backing
    UnusedMatchesHoldings
PROPERTIES
    ExchangeRefined
