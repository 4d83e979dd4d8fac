\* Expected to fail: LastNonceHighWater.
CONSTANTS
    u1 = u1
    sc = sc
    TKN = TKN
    MDefault = MDefault
    M1 = M1
    NoMeta = NoMeta
    Users = {u1}
    SC = sc
    Tokens = {TKN}
    Nonces = {0, 1}
    Metas = {MDefault, M1}
    Roles = {}
    DefaultMeta = MDefault
    MoaxValues = {0}
    DctValues = {0, 1}
    MaxPayments = 2

SPECIFICATION Spec
CONSTRAINT BalanceBound
INVARIANT
    LastNonceHighWater
