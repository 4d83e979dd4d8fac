---------------------------- MODULE SwapExchange ----------------------------
(***************************************************************************)
(* What the MOAX/wrapped-MOAX swap promises its users ("1 MOAX = 1 wrapped *)
(* MOAX and is interchangeable at all times", swap.rs), stated without     *)
(* async calls, token identifiers or storage.  Every user holds MOAX and   *)
(* claims on wrapped MOAX.  Every claim is backed by one locked MOAX.  A   *)
(* user's MOAX and claims change only by exchanging one for the other, 1:1. *)
(* The owner's MOAX also changes by fees: the issue cost it pays, which    *)
(* either comes back or is kept by the chain.                              *)
(***************************************************************************)
EXTENDS Naturals, FiniteSets

CONSTANTS Users, Owner, InitMoax

VARIABLES
    held,       \* user -> MOAX
    claims,     \* user -> wrapped MOAX, each redeemable for one MOAX
    locked,     \* MOAX backing the claims
    fees        \* MOAX paid as fees and not yet returned or kept

vars == <<held, claims, locked, fees>>

\* Every amount in play is at most the MOAX that exists.
Quantities == 1 .. (InitMoax * Cardinality(Users))

Init ==
    /\ held = [u \in Users |-> InitMoax]
    /\ claims = [u \in Users |-> 0]
    /\ locked = 0
    /\ fees = 0

Wrap(u, a) ==
    /\ held[u] >= a
    /\ held' = [held EXCEPT ![u] = @ - a]
    /\ claims' = [claims EXCEPT ![u] = @ + a]
    /\ locked' = locked + a
    /\ UNCHANGED fees

Unwrap(u, a) ==
    /\ claims[u] >= a
    /\ claims' = [claims EXCEPT ![u] = @ - a]
    /\ held' = [held EXCEPT ![u] = @ + a]
    /\ locked' = locked - a
    /\ UNCHANGED fees

PayFee(a) ==
    /\ held[Owner] >= a
    /\ held' = [held EXCEPT ![Owner] = @ - a]
    /\ fees' = fees + a
    /\ UNCHANGED <<claims, locked>>

ReturnFee(a) ==
    /\ fees >= a
    /\ fees' = fees - a
    /\ held' = [held EXCEPT ![Owner] = @ + a]
    /\ UNCHANGED <<claims, locked>>

KeepFee(a) ==
    /\ fees >= a
    /\ fees' = fees - a
    /\ UNCHANGED <<held, claims, locked>>

Next ==
    \E a \in Quantities :
        \/ \E u \in Users : Wrap(u, a) \/ Unwrap(u, a)
        \/ PayFee(a) \/ ReturnFee(a) \/ KeepFee(a)

Spec == Init /\ [][Next]_vars

=============================================================================
