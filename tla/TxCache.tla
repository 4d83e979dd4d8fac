------------------------------ MODULE TxCache ------------------------------
(***************************************************************************)
(* The balance operations of the transaction cache                         *)
(* (tx_mock/tx_cache_balance_util.rs).  The cache is the copy-on-write     *)
(* overlay of one transaction; its view of the world is modelled as a full *)
(* map from address to account, which is what every read observes (a read  *)
(* falls through to the backing world when the overlay has no entry).      *)
(*                                                                         *)
(* Every operation returns a record [ok, panic, accts, md]: `ok` is FALSE  *)
(* when the Rust code panics, `panic` names the panic, `accts` is the      *)
(* cache view after the operation and `md` is the metadata returned by     *)
(* subtract_dct_balance.  A panic unwinds with no partial write: each      *)
(* operation checks before it writes.                                      *)
(***************************************************************************)
EXTENDS DctLedger

CONSTANTS
    NoMeta,         \* the `md` of results that carry no metadata
    DefaultMeta     \* DctInstanceMetadata::default(): empty attribute bytes

\* An account of the world mock, restricted to the fields the cache touches.
IsAccount(acc) ==
    /\ DOMAIN acc = {"moax", "dct"}
    /\ acc.moax \in Nat
    /\ DOMAIN acc.dct \subseteq Tokens
    /\ \A t \in DOMAIN acc.dct :
          /\ acc.dct[t].last_nonce \in Nonces
          /\ acc.dct[t].roles \subseteq Roles
          /\ DOMAIN acc.dct[t].instances \subseteq Nonces
          /\ \A n \in DOMAIN acc.dct[t].instances : acc.dct[t].instances[n] \in Instance

\* The panics of the cache: TxPanic{status: 10} of panic_insufficient_funds,
\* the two assert! messages of the MOAX operations, and the missing account
\* of with_account_mut (TxCache, not under src/; see spec section 3).
Panics == {"InsufficientFunds", "MoaxInsufficient", "GasInsufficient", "AccountNotFound"}

Done(accts) == [ok |-> TRUE, panic |-> "None", accts |-> accts, md |-> NoMeta]
Panic(accts, why) == [ok |-> FALSE, panic |-> why, accts |-> accts, md |-> NoMeta]

\* with_account_mut: the closure runs on the account, which must exist.
WithAccount(accts, address, Body(_)) ==
    IF address \notin DOMAIN accts THEN Panic(accts, "AccountNotFound")
    ELSE Body(accts[address])

subtract_moax_balance(accts, address, value) ==
    LET Body(acc) ==
            IF acc.moax >= value
            THEN Done([accts EXCEPT ![address].moax = @ - value])
            ELSE Panic(accts, "MoaxInsufficient")
    IN  WithAccount(accts, address, Body)

subtract_tx_gas(accts, address, gasLimit, gasPrice) ==
    LET gasCost == gasLimit * gasPrice
        Body(acc) ==
            IF acc.moax >= gasCost
            THEN Done([accts EXCEPT ![address].moax = @ - gasCost])
            ELSE Panic(accts, "GasInsufficient")
    IN  WithAccount(accts, address, Body)

increase_moax_balance(accts, address, amount) ==
    LET Body(acc) == Done([accts EXCEPT ![address].moax = @ + amount])
    IN  WithAccount(accts, address, Body)

\* Fault model: the debit without its affordability check.
SubtractDctUnchecked(accts, address, tokenId, nonce, value) ==
    LET Body(acc) ==
            IF \/ tokenId \notin DOMAIN acc.dct
               \/ nonce \notin DOMAIN acc.dct[tokenId].instances
            THEN Panic(accts, "InsufficientFunds")
            ELSE [Done([accts EXCEPT ![address].dct[tokenId].instances[nonce].balance = @ - value])
                    EXCEPT !.md = acc.dct[tokenId].instances[nonce].metadata]
    IN  WithAccount(accts, address, Body)

\* Panics when the identifier, the nonce or the balance is missing;
\* otherwise debits and hands back the instance's metadata.
subtract_dct_balance(accts, address, tokenId, nonce, value) ==
    LET Body(acc) ==
            IF \/ tokenId \notin DOMAIN acc.dct
               \/ nonce \notin DOMAIN acc.dct[tokenId].instances
               \/ acc.dct[tokenId].instances[nonce].balance < value
            THEN Panic(accts, "InsufficientFunds")
            ELSE [Done([accts EXCEPT ![address].dct[tokenId].instances[nonce].balance = @ - value])
                    EXCEPT !.md = acc.dct[tokenId].instances[nonce].metadata]
    IN  WithAccount(accts, address, Body)

increase_dct_balance(accts, address, tokenId, nonce, value, md) ==
    LET Body(acc) ==
            Done([accts EXCEPT ![address].dct = IncreaseBalance(@, tokenId, nonce, value, md)])
    IN  WithAccount(accts, address, Body)

\* Fault model: the credit applied to the view read before the debit.
TransferDctStale(accts, from, to, tokenId, nonce, value) ==
    LET sub == subtract_dct_balance(accts, from, tokenId, nonce, value)
    IN  IF ~sub.ok THEN sub
        ELSE increase_dct_balance(accts, to, tokenId, nonce, value, sub.md)

\* Fault model: the credit made with the default metadata instead of the
\* metadata the debit handed back.
TransferDctDefaultMeta(accts, from, to, tokenId, nonce, value) ==
    LET sub == subtract_dct_balance(accts, from, tokenId, nonce, value)
    IN  IF ~sub.ok THEN sub
        ELSE increase_dct_balance(sub.accts, to, tokenId, nonce, value, DefaultMeta)

\* Subtract first; a failed subtract panics before the credit is attempted.
transfer_dct_balance(accts, from, to, tokenId, nonce, value) ==
    LET sub == subtract_dct_balance(accts, from, tokenId, nonce, value)
    IN  IF ~sub.ok THEN sub
        ELSE increase_dct_balance(sub.accts, to, tokenId, nonce, value, sub.md)

\* MOAX moved by subtract_moax_balance followed by increase_moax_balance,
\* as execute_tx_any does for the call value.
MoaxPayment(accts, from, to, value) ==
    LET sub == subtract_moax_balance(accts, from, value)
    IN  IF ~sub.ok THEN sub ELSE increase_moax_balance(sub.accts, to, value)

=============================================================================
