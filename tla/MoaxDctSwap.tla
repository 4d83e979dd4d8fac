---------------------------- MODULE MoaxDctSwap ----------------------------
(***************************************************************************)
(* The MOAX <-> wrapped-MOAX swap contract                                 *)
(* (contracts/examples/moax-dct-swap/src/swap.rs) against the chain it     *)
(* runs on: every endpoint is one atomic transaction that either completes *)
(* or, when a require! fails, reverts with its payment; an async call to   *)
(* the DCT system contract is sent at the end of the transaction and its   *)
(* callback runs in a later transaction, so other calls interleave with    *)
(* it.  Callbacks of in-flight calls arrive in any order, each ending in   *)
(* Ok or Err.                                                              *)
(*                                                                         *)
(* Balances are MOAX per address and wrapped tokens per address and token  *)
(* identifier; the system contract hands out a fresh identifier from       *)
(* WrappedIds on every successful issue.                                   *)
(***************************************************************************)
EXTENDS Naturals, FiniteSets, Bags, BagsExt, FiniteSetsExt

CONSTANTS
    Users,              \* user addresses, the owner among them
    Owner,              \* the contract owner (#[only_owner])
    SC,                 \* the swap contract's address
    NoToken,            \* the empty wrapped_moax_token_id
    WrappedIds,         \* identifiers the system contract can issue
    IssueCost,          \* MOAX paid to issueWrappedMoax
    Supplies,           \* initial supplies an issue may ask for
    Amounts,            \* amounts of wrap, unwrap and mint calls
    InitMoax,           \* MOAX each user starts with
    OwnerAwaitsCallback \* TRUE: the owner never issues while an issue is in flight

ASSUME Owner \in Users /\ SC \notin Users /\ NoToken \notin WrappedIds

Addrs == Users \cup {SC}

VARIABLES
    moax,       \* address -> MOAX balance
    wrapped,    \* address -> identifier -> wrapped-token balance
    tokenId,    \* storage wrapped_moax_token_id
    unused,     \* storage unused_wrapped_moax
    pending,    \* bag of async calls whose callback has not run
    issued,     \* identifiers the system contract has handed out
    burnt       \* issue costs kept by the system contract

vars == <<moax, wrapped, tokenId, unused, pending, issued, burnt>>

IssueCall == [kind : {"issue"}, caller : Users, cost : {IssueCost}, supply : Supplies]
MintCall == [kind : {"mint"}, caller : Users, token : WrappedIds, amount : Amounts]

TypeOK ==
    /\ moax \in [Addrs -> Nat]
    /\ wrapped \in [Addrs -> [WrappedIds -> Nat]]
    /\ tokenId \in WrappedIds \cup {NoToken}
    /\ unused \in Nat
    /\ IsABag(pending) /\ BagToSet(pending) \subseteq IssueCall \cup MintCall
    /\ issued \subseteq WrappedIds
    /\ burnt \in Nat

Init ==
    /\ moax = [a \in Addrs |-> IF a = SC THEN 0 ELSE InitMoax]
    /\ wrapped = [a \in Addrs |-> [w \in WrappedIds |-> 0]]
    /\ tokenId = NoToken
    /\ unused = 0
    /\ pending = EmptyBag
    /\ issued = {}
    /\ burnt = 0

IssuePending == \E c \in BagToSet(pending) : c.kind = "issue"

-----------------------------------------------------------------------------
(* Endpoints.  A guard that fails is a require! that reverts the call,     *)
(* payment included: such a call changes nothing and is no step here.      *)

\* The owner pays the issue cost, which the contract forwards with the
\* async issue_fungible call.
issue_wrapped_moax(supply) ==
    /\ tokenId = NoToken
    /\ moax[Owner] >= IssueCost
    /\ OwnerAwaitsCallback => ~IssuePending
    /\ moax' = [moax EXCEPT ![Owner] = @ - IssueCost]
    /\ pending' = BagAdd(pending, [kind |-> "issue", caller |-> Owner,
                                   cost |-> IssueCost, supply |-> supply])
    /\ UNCHANGED <<wrapped, tokenId, unused, issued, burnt>>

\* Fault model: the refund sent without the returned cost credited first.
IssueRefundBeforeReturn(call) ==
    moax' = IF call.cost > 0
            THEN [moax EXCEPT ![SC] = @ - call.cost, ![call.caller] = @ + call.cost]
            ELSE moax

\* Fault model: the refund guarded by the wrong token test, so the
\* returned cost stays with the contract.
IssueRefundKept(call) == moax' = [moax EXCEPT ![SC] = @ + call.cost]

\* The Err arm: the returned issue cost arrives at the contract with the
\* callback and is sent on to the caller when it is MOAX and more than 0.
IssueRefund(call) ==
    LET back == [moax EXCEPT ![SC] = @ + call.cost]
    IN  moax' = IF call.cost > 0
                THEN [back EXCEPT ![SC] = @ - call.cost, ![call.caller] = @ + call.cost]
                ELSE back

\* Ok: the callback arrives with the issued supply of the new token, which
\* becomes the wrapped token and its unused amount.  Err: the issue cost
\* comes back with the callback and is sent on to the caller when it is
\* MOAX and more than zero.
dct_issue_callback(call, isOk) ==
    /\ call \in BagToSet(pending) /\ call.kind = "issue"
    /\ pending' = BagRemove(pending, call)
    /\ IF isOk
       THEN \E w \in WrappedIds \ issued :
              /\ issued' = issued \cup {w}
              /\ wrapped' = [wrapped EXCEPT ![SC][w] = @ + call.supply]
              /\ unused' = call.supply
              /\ tokenId' = w
              /\ burnt' = burnt + call.cost
              /\ UNCHANGED moax
       ELSE /\ IssueRefund(call)
            /\ UNCHANGED <<wrapped, tokenId, unused, issued, burnt>>

\* The owner asks the system contract to mint more of the current token.
mint_wrapped_moax(amount) ==
    /\ tokenId # NoToken
    /\ pending' = BagAdd(pending, [kind |-> "mint", caller |-> Owner,
                                   token |-> tokenId, amount |-> amount])
    /\ UNCHANGED <<moax, wrapped, tokenId, unused, issued, burnt>>

\* Fault model: unused_wrapped_moax raised whatever the mint's result.
MintCallbackAnyResult(call, isOk) ==
    /\ call \in BagToSet(pending) /\ call.kind = "mint"
    /\ pending' = BagRemove(pending, call)
    /\ wrapped' = IF isOk THEN [wrapped EXCEPT ![SC][call.token] = @ + call.amount]
                 ELSE wrapped
    /\ unused' = unused + call.amount
    /\ UNCHANGED <<moax, tokenId, issued, burnt>>

\* Ok: the minted tokens are the contract's and the amount the callback was
\* given is added to unused_wrapped_moax.  Err: only an event.
dct_mint_callback(call, isOk) ==
    /\ call \in BagToSet(pending) /\ call.kind = "mint"
    /\ pending' = BagRemove(pending, call)
    /\ IF isOk
       THEN /\ wrapped' = [wrapped EXCEPT ![SC][call.token] = @ + call.amount]
            /\ unused' = unused + call.amount
       ELSE UNCHANGED <<wrapped, unused>>
    /\ UNCHANGED <<moax, tokenId, issued, burnt>>

\* The require! of wrap_moax: more unused wrapped MOAX than the payment.
WrapAllowed(payment) ==
    /\ payment > 0
    /\ tokenId # NoToken
    /\ unused > payment

\* The caller pays MOAX and gets as much of the wrapped token; the direct
\* send fails the whole call when the contract does not hold the tokens.
wrap_moax(user, payment) ==
    /\ WrapAllowed(payment)
    /\ moax[user] >= payment
    /\ wrapped[SC][tokenId] >= payment
    /\ unused' = unused - payment
    /\ moax' = [moax EXCEPT ![user] = @ - payment, ![SC] = @ + payment]
    /\ wrapped' = [wrapped EXCEPT ![SC][tokenId] = @ - payment,
                                  ![user][tokenId] = @ + payment]
    /\ UNCHANGED <<tokenId, pending, issued, burnt>>

\* The caller pays wrapped tokens of the current identifier and gets as much
\* MOAX back; the check against the contract's MOAX balance is the one the
\* code says should never fail.
unwrap_moax(user, token, payment) ==
    /\ tokenId # NoToken
    /\ token = tokenId
    /\ payment > 0
    /\ payment <= moax[SC]
    /\ wrapped[user][token] >= payment
    /\ unused' = unused + payment
    /\ wrapped' = [wrapped EXCEPT ![user][token] = @ - payment,
                                  ![SC][token] = @ + payment]
    /\ moax' = [moax EXCEPT ![SC] = @ - payment, ![user] = @ + payment]
    /\ UNCHANGED <<tokenId, pending, issued, burnt>>

-----------------------------------------------------------------------------
Next ==
    \/ \E s \in Supplies : issue_wrapped_moax(s)
    \/ \E c \in BagToSet(pending), ok \in BOOLEAN : dct_issue_callback(c, ok)
    \/ \E a \in Amounts : mint_wrapped_moax(a)
    \/ \E c \in BagToSet(pending), ok \in BOOLEAN : dct_mint_callback(c, ok)
    \/ \E u \in Users, a \in Amounts : wrap_moax(u, a)
    \/ \E u \in Users, w \in WrappedIds, a \in Amounts : unwrap_moax(u, w, a)

Spec == Init /\ [][Next]_vars

-----------------------------------------------------------------------------
(* Properties.                                                             *)

\* The getLockedMoaxBalance view: the contract's own MOAX balance.
GetLockedMoaxBalance == moax[SC]

UserHoldings(w) == MapThenSumSet(LAMBDA u : wrapped[u][w], Users)

\* 1 MOAX = 1 wrapped MOAX: the MOAX the contract holds is exactly the
\* wrapped tokens of the current identifier held by users, so every one of
\* them can be unwrapped, and the contract holds no other MOAX.
Backing ==
    GetLockedMoaxBalance = IF tokenId = NoToken THEN 0 ELSE UserHoldings(tokenId)

\* unused_wrapped_moax is the contract's own balance of the current wrapped
\* token, and no wrapped token of another identifier is stranded in users'
\* hands.
UnusedMatchesHoldings ==
    /\ tokenId # NoToken => unused = wrapped[SC][tokenId]
    /\ \A w \in WrappedIds \ {tokenId} : UserHoldings(w) = 0

\* The doc comment: 1 MOAX = 1 wrapped MOAX, interchangeable at all times.
\* Whenever the contract has at least `a` unused wrapped MOAX, a wrap of `a`
\* passes the contract's check.
WrapServesUnused ==
    \A a \in Amounts :
        (tokenId # NoToken /\ 0 < a /\ a <= unused) => WrapAllowed(a)

-----------------------------------------------------------------------------
(* Refinement: the contract implements the exchange it promises.  A user's *)
(* claims are its balance of the current wrapped token, the locked MOAX is *)
(* the contract's MOAX, and the fees are the issue costs in flight.        *)

InFlightCost ==
    MapThenSumSet(LAMBDA c : CopiesIn(c, pending) * c.cost,
                  {c \in BagToSet(pending) : c.kind = "issue"})

Exchange == INSTANCE SwapExchange WITH
    held   <- [u \in Users |-> moax[u]],
    claims <- [u \in Users |-> IF tokenId = NoToken THEN 0 ELSE wrapped[u][tokenId]],
    locked <- GetLockedMoaxBalance,
    fees   <- InFlightCost

\* Every step of the contract and its callbacks is a 1:1 exchange between a
\* user's MOAX and wrapped MOAX of the current token, or the owner paying,
\* getting back or losing an issue cost: no MOAX or claim appears, vanishes
\* or changes hands any other way (issue, mint and callback interleavings
\* included).
ExchangeRefined == Exchange!Spec

=============================================================================
