----------------------------- MODULE DctModule -----------------------------
(***************************************************************************)
(* The standard DctModule (dharitri-wasm-modules/src/dct.rs), which manages *)
(* one token owned by a contract, and the DCT system contract it calls.    *)
(* issueToken and setLocalRoles are owner endpoints that end in an async   *)
(* call.  The call leaves at the end of the transaction.  The system       *)
(* contract handles it in a later step, and for an issue the callback runs *)
(* after that.  The owner's further calls interleave with calls in flight, *)
(* and the calls in flight are handled in any order.  The chain's          *)
(* ChangeOwnerAddress built-in may hand the contract to another owner at   *)
(* any time, in particular while an issue is in flight.                    *)
(*                                                                         *)
(* The system contract as assumed here:                                    *)
(*   - issue_fungible succeeds exactly when the paid cost is IssueCost.    *)
(*     On success it keeps the cost, hands out a fresh identifier and      *)
(*     sends the initial supply to the contract.  On failure the cost goes *)
(*     back with the callback.                                             *)
(*   - set_special_roles has no callback.  It grants Mint and Burn of an   *)
(*     issued token (the contract is its manager), and on any other token  *)
(*     it fails with nobody told.                                          *)
(***************************************************************************)
EXTENDS Naturals, FiniteSets, Bags, BagsExt, FiniteSetsExt

CONSTANTS
    Owners,             \* addresses that may own the contract (#[only_owner])
    SC,                 \* the contract using the module
    NoToken,            \* the empty token_id
    TokenIds,           \* identifiers the system contract can issue
    IssueCost,          \* the cost issue_fungible accepts
    Costs,              \* MOAX payments the owner may attach to issueToken
    Amounts,            \* amounts of mint and burn
    InitMoax,           \* the owner's MOAX at the start
    MaxPending,         \* bound: async calls in flight
    MaxSupply,          \* bound: the contract's balance of a token
    OwnerAwaitsCallback \* TRUE: the owner never issues while an issue is in flight

ASSUME /\ SC \notin Owners /\ Owners # {} /\ NoToken \notin TokenIds
       /\ IssueCost \in Costs /\ Costs \subseteq Nat

Addrs == Owners \cup {SC}
LocalRoles == {"Mint", "Burn"}
InitialSupply == 1

VARIABLES
    moax,       \* address -> MOAX balance
    supply,     \* identifier -> the contract's balance of that token
    tokenId,    \* storage token_id
    roles,      \* address -> identifier -> local roles granted
    pending,    \* bag of async calls not yet handled
    issued,     \* identifiers the system contract has handed out
    burnt,      \* owner -> issue costs the system contract kept from it
    owner       \* the contract's owner, get_owner_address()

vars == <<moax, supply, tokenId, roles, pending, issued, burnt, owner>>

IssueCall == [kind : {"issue"}, cost : Costs, caller : Owners]
RolesCall == [kind : {"roles"}, dest : Addrs, token : TokenIds \cup {NoToken},
              roles : SUBSET LocalRoles]

TypeOK ==
    /\ moax \in [Addrs -> Nat]
    /\ supply \in [TokenIds -> Nat]
    /\ tokenId \in TokenIds \cup {NoToken}
    /\ roles \in [Addrs -> [TokenIds -> SUBSET LocalRoles]]
    /\ IsABag(pending) /\ BagToSet(pending) \subseteq IssueCall \cup RolesCall
    /\ issued \subseteq TokenIds
    /\ burnt \in [Owners -> Nat]
    /\ owner \in Owners

Init ==
    /\ moax = [a \in Addrs |-> IF a \in Owners THEN InitMoax ELSE 0]
    /\ supply = [t \in TokenIds |-> 0]
    /\ tokenId = NoToken
    /\ roles = [a \in Addrs |-> [t \in TokenIds |-> {}]]
    /\ pending = EmptyBag
    /\ issued = {}
    /\ burnt = [o \in Owners |-> 0]
    /\ owner \in Owners

IssuePending == \E c \in BagToSet(pending) : c.kind = "issue"
CanSend == BagCardinality(pending) < MaxPending

\* require_token_issued: defined by the module, called by none of its
\* endpoints.
TokenIssued == tokenId # NoToken

\* require_local_roles_set: the address holds both Mint and Burn of t; the
\* empty identifier has no roles.
HasLocalRoles(a, t) == t # NoToken /\ LocalRoles \subseteq roles[a][t]

-----------------------------------------------------------------------------
(* Endpoints.  A failing require! reverts the call with its payment, so it *)
(* is no step.                                                             *)

\* Fault model: issueToken without the "Token already issued" check.
IssueTokenUnguarded(cost) ==
    /\ moax[owner] >= cost
    /\ OwnerAwaitsCallback => ~IssuePending
    /\ CanSend
    /\ moax' = [moax EXCEPT ![owner] = @ - cost]
    /\ pending' = BagAdd(pending, [kind |-> "issue", cost |-> cost, caller |-> owner])
    /\ UNCHANGED <<supply, tokenId, roles, issued, burnt, owner>>

\* The owner pays `cost`, which the contract forwards with issue_fungible.
issue_token(cost) ==
    /\ tokenId = NoToken
    /\ moax[owner] >= cost
    /\ OwnerAwaitsCallback => ~IssuePending
    /\ CanSend
    /\ moax' = [moax EXCEPT ![owner] = @ - cost]
    /\ pending' = BagAdd(pending, [kind |-> "issue", cost |-> cost, caller |-> owner])
    /\ UNCHANGED <<supply, tokenId, roles, issued, burnt, owner>>

RolesRequest(dest, rs) ==
    /\ CanSend
    /\ pending' = BagAdd(pending, [kind |-> "roles", dest |-> dest,
                                   token |-> tokenId, roles |-> rs])
    /\ UNCHANGED <<moax, supply, tokenId, roles, issued, burnt, owner>>

\* Fault model: the roles array without Burn.
SetLocalRolesMintOnly(dest) == RolesRequest(dest, {"Mint"})

\* Asks for Mint and Burn of token_id as it is now, which is the empty
\* identifier before the issue callback; there is no check that the token
\* was issued.
set_local_roles(dest) == RolesRequest(dest, LocalRoles)

\* Fault model: the refund kept by the contract.
IssueRefundKept(call) == moax' = [moax EXCEPT ![SC] = @ + call.cost]

\* The Err arm: the returned cost reaches the contract with the callback
\* and is sent, when it is more than zero, to get_owner_address(): the
\* owner when the callback runs, not the call's caller.
IssueRefund(call) ==
    LET back == [moax EXCEPT ![SC] = @ + call.cost]
    IN  moax' = IF call.cost > 0
                THEN [back EXCEPT ![SC] = @ - call.cost, ![owner] = @ + call.cost]
                ELSE back

\* The system contract answers an issue and the callback runs: Ok stores
\* the new identifier, whose initial supply the contract now holds; Err
\* refunds the cost.
issue_callback(call, isOk) ==
    /\ call \in BagToSet(pending) /\ call.kind = "issue"
    /\ isOk => call.cost = IssueCost
    /\ pending' = BagRemove(pending, call)
    /\ IF isOk
       THEN \E t \in TokenIds \ issued :
              /\ issued' = issued \cup {t}
              /\ supply' = [supply EXCEPT ![t] = @ + InitialSupply]
              /\ tokenId' = t
              /\ burnt' = [burnt EXCEPT ![call.caller] = @ + call.cost]
              /\ UNCHANGED <<moax, roles, owner>>
       ELSE /\ IssueRefund(call)
            /\ UNCHANGED <<supply, tokenId, roles, issued, burnt, owner>>

\* The system contract handles a set_special_roles call: the roles of an
\* issued token are granted, any other call fails silently.
SystemSetRoles(call) ==
    /\ call \in BagToSet(pending) /\ call.kind = "roles"
    /\ pending' = BagRemove(pending, call)
    /\ roles' = IF call.token \in issued
                THEN [roles EXCEPT ![call.dest][call.token] = @ \cup call.roles]
                ELSE roles
    /\ UNCHANGED <<moax, supply, tokenId, issued, burnt, owner>>

\* mint and burn, as called by a contract endpoint: both need the two local
\* roles; a burn of more than the contract holds fails dct_local_burn.
mint(amount) ==
    /\ HasLocalRoles(SC, tokenId)
    /\ supply[tokenId] + amount <= MaxSupply
    /\ supply' = [supply EXCEPT ![tokenId] = @ + amount]
    /\ UNCHANGED <<moax, tokenId, roles, pending, issued, burnt, owner>>

\* Fault model: a burn that does not check the contract's balance.
BurnUnchecked(amount) ==
    /\ HasLocalRoles(SC, tokenId)
    /\ supply' = [supply EXCEPT ![tokenId] = @ - amount]
    /\ UNCHANGED <<moax, tokenId, roles, pending, issued, burnt, owner>>

burn(amount) ==
    /\ HasLocalRoles(SC, tokenId)
    /\ supply[tokenId] >= amount
    /\ supply' = [supply EXCEPT ![tokenId] = @ - amount]
    /\ UNCHANGED <<moax, tokenId, roles, pending, issued, burnt, owner>>

\* The chain's ChangeOwnerAddress built-in, called by the current owner:
\* the contract passes to another address, whatever is in flight.
ChangeOwner(o) ==
    /\ o # owner
    /\ owner' = o
    /\ UNCHANGED <<moax, supply, tokenId, roles, pending, issued, burnt>>

-----------------------------------------------------------------------------
Next ==
    \/ \E c \in Costs : issue_token(c)
    \/ \E d \in Addrs : set_local_roles(d)
    \/ \E c \in BagToSet(pending), ok \in BOOLEAN : issue_callback(c, ok)
    \/ \E c \in BagToSet(pending) : SystemSetRoles(c)
    \/ \E a \in Amounts : mint(a) \/ burn(a)
    \/ \E o \in Owners : ChangeOwner(o)

\* The chain handles every async call it accepted, and runs the callback of
\* every issue: weak fairness for each call.  The owner is under no
\* obligation to act.
Fairness ==
    /\ \A c \in IssueCall : WF_vars(\E ok \in BOOLEAN : issue_callback(c, ok))
    /\ \A c \in RolesCall : WF_vars(SystemSetRoles(c))

Spec == Init /\ [][Next]_vars /\ Fairness

-----------------------------------------------------------------------------
(* Properties.                                                             *)

\* A setLocalRoles request for `d` is in flight, naming token `t`.
RolesRequested(d, t) ==
    \E c \in BagToSet(pending) : c.kind = "roles" /\ c.dest = d /\ c.token = t

\* issueToken's "Token already issued" check: once issue_callback has
\* stored an identifier, the module's token never changes, so the supply
\* and roles the contract holds stay those of its token.
TokenIdStable == [][tokenId # NoToken => tokenId' = tokenId]_tokenId

\* The MOAX the owners together hold.
OwnersMoax == MapThenSumSet(LAMBDA o : moax[o], Owners)

\* The issue costs of o's issueToken calls still in flight.
InFlightCost(o) ==
    MapThenSumSet(LAMBDA c : CopiesIn(c, pending) * c.cost,
                  {c \in BagToSet(pending) : c.kind = "issue" /\ c.caller = o})

\* An issue in flight always settles: issue_callback either stores the
\* token or gives the whole cost back to an owner (the Err arm's refund),
\* so none of the owners' MOAX stays in the contract.
IssueSettles ==
    IssuePending ~> (TokenIssued \/ OwnersMoax = InitMoax * Cardinality(Owners))

\* A setLocalRoles request made once the token is issued eventually gives
\* its destination both roles mint and burn require.
RolesAfterIssue ==
    \A d \in Addrs :
        (TokenIssued /\ RolesRequested(d, tokenId)) ~> HasLocalRoles(d, tokenId)

\* Every setLocalRoles request the contract accepts eventually gives its
\* destination Mint and Burn of the module's token.
RolesRequestHonoured ==
    \A d \in Addrs :
        (\E t \in TokenIds \cup {NoToken} : RolesRequested(d, t))
            ~> HasLocalRoles(d, tokenId)

\* The Err arm's comment, "return payment to initial caller": every MOAX an
\* address paid to issueToken is in flight, kept by the system contract as
\* the issue cost, or back with that address; nobody is refunded a cost
\* another address paid.
RefundToCaller ==
    \A o \in Owners : moax[o] + InFlightCost(o) + burnt[o] = InitMoax

=============================================================================
