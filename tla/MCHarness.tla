----------------------------- MODULE MCHarness -----------------------------
(* Small instances of Harness.  The sets of users, tokens, nonces and      *)
(* values are given in each .cfg; MCHarness.cfg checks payments and sends  *)
(* of MOAX and of a token at a fungible and a non-fungible nonce, with two *)
(* metadata values.                                                        *)
EXTENDS Harness

\* Setters can pump value into the contract without end (set, pay, set
\* again): exploration stops past this balance in any account.
MaxBalance == 1

BalanceBound ==
    \A a \in DOMAIN world :
        /\ world[a].moax <= MaxBalance
        /\ \A t \in DOMAIN world[a].dct :
              \A n \in DOMAIN world[a].dct[t].instances :
                  world[a].dct[t].instances[n].balance <= MaxBalance

\* The state without `result`: the TxResult of the last transaction is
\* read by no action and no property, so two states that differ only in it
\* have the same futures.
HarnessView == <<world, cache, phase, tx, ret, stack>>

=============================================================================
