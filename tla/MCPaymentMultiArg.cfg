\* Up to three payments of two tokens, with nonce and amount ranges that overlap.
CONSTANTS
    TokenIds = {TKA, TKB}
    Nonces = {0, 1}
    Amounts = {1, 2}
    MaxPayments = 3
SPECIFICATION Spec
CHECK_DEADLOCK FALSE
INVARIANTS
    RoundTrip
