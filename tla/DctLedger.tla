----------------------------- MODULE DctLedger -----------------------------
(***************************************************************************)
(* The per-account token ledger of the debug world mock: AccountDct        *)
(* (world_mock/account_dct.rs) and the DctInstances store it delegates to. *)
(* Pure operators only; the state machines that use them are TxCache and   *)
(* Harness.                                                                *)
(*                                                                         *)
(* An account's ledger is a partial function from token identifier to a   *)
(* DctData record; a DctData's instances are a partial function from nonce *)
(* to [balance, metadata].  Metadata is a model value: only its identity   *)
(* matters to the properties.  The `frozen` flag of DctData is left out:   *)
(* no code of this repository ever sets it.                                *)
(***************************************************************************)
EXTENDS Naturals, TLC

CONSTANTS
    Tokens,     \* token identifiers
    Nonces,     \* token nonces in play (0 is the fungible instance)
    Metas,      \* instance metadata values
    Roles       \* local role names

ASSUME Nonces \subseteq Nat /\ 0 \in Nonces

\* The empty map, used for a fresh instance store and a fresh ledger.
EmptyMap == [x \in {} |-> 0]

Instance == [balance : Nat, metadata : Metas]

\* A DctData record as created by the or_insert_with closures of AccountDct.
NewDctData(lastNonce) ==
    [instances |-> EmptyMap, last_nonce |-> lastNonce, roles |-> {}]

(***************************************************************************)
(* DctInstances (not under src/, modelled from the spec, section 4.1):     *)
(* increase and set create the nonce with the given metadata when absent,  *)
(* and otherwise touch the balance only.                                   *)
(***************************************************************************)
InstancesIncrease(insts, nonce, value, md) ==
    IF nonce \in DOMAIN insts
    THEN [insts EXCEPT ![nonce].balance = @ + value]
    ELSE insts @@ (nonce :> [balance |-> value, metadata |-> md])

InstancesSet(insts, nonce, value, md) ==
    IF nonce \in DOMAIN insts
    THEN [insts EXCEPT ![nonce].balance = value]
    ELSE insts @@ (nonce :> [balance |-> value, metadata |-> md])

(***************************************************************************)
(* AccountDct.  `entry(..).or_insert_with(..)`: a missing identifier gets  *)
(* a fresh DctData whose last_nonce is the nonce of this very call; an     *)
(* existing one keeps its last_nonce.                                      *)
(***************************************************************************)
EntryOrInsert(dct, tokenId, lastNonce) ==
    IF tokenId \in DOMAIN dct THEN dct
    ELSE dct @@ (tokenId :> NewDctData(lastNonce))

IncreaseBalance(dct, tokenId, nonce, value, md) ==
    LET d == EntryOrInsert(dct, tokenId, nonce)
    IN  [d EXCEPT ![tokenId].instances = InstancesIncrease(@, nonce, value, md)]

SetDctBalance(dct, tokenId, nonce, value, md) ==
    LET d == EntryOrInsert(dct, tokenId, nonce)
    IN  [d EXCEPT ![tokenId].instances = InstancesSet(@, nonce, value, md)]

SetRoles(dct, tokenId, roles) ==
    LET d == EntryOrInsert(dct, tokenId, 0)
    IN  [d EXCEPT ![tokenId].roles = roles]

\* get_by_identifier_or_default: the token's DctData, or a default one
\* (no instances, last_nonce 0, no roles) when the identifier is absent.
GetByIdentifierOrDefault(dct, tokenId) ==
    IF tokenId \in DOMAIN dct THEN dct[tokenId] ELSE NewDctData(0)

\* Zero, not an error, when the identifier or the nonce is absent.
GetDctBalance(dct, tokenId, nonce) ==
    IF tokenId \in DOMAIN dct /\ nonce \in DOMAIN dct[tokenId].instances
    THEN dct[tokenId].instances[nonce].balance
    ELSE 0

=============================================================================
