\* Payments, sends and teardown with MOAX, a fungible nonce and a non-fungible
\* nonce, and two metadata values; the roles setter runs with the empty role set.
CONSTANTS
    u1 = u1
    sc = sc
    TKN = TKN
    MDefault = MDefault
    M1 = M1
    NoMeta = NoMeta
    Users = {u1}
    SC = sc
    Tokens = {TKN}
    Nonces = {0, 1}
    Metas = {MDefault, M1}
    Roles = {}
    DefaultMeta = MDefault
    MoaxValues = {0, 1}
    DctValues = {0, 1}
    MaxPayments = 2

SPECIFICATION Spec
CONSTRAINT BalanceBound
VIEW HarnessView
INVARIANTS
    TypeOK
    StackBalanced
PROPERTIES
    TxIsolation
    CommitConserves
    MetadataTravels
