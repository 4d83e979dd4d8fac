------------------------------ MODULE Harness ------------------------------
(***************************************************************************)
(* The execution harness of the testing framework: BlockchainStateWrapper  *)
(* (testing_framework/contract_obj_wrapper.rs) over the world mock.        *)
(*                                                                         *)
(* A top-level transaction is three steps of one Rust call, execute_tx_any:*)
(*   BeginTx  - payments into a fresh TxCache, then push of the context;   *)
(*   Body*    - the caller-supplied closure tx_fn running the contract     *)
(*              against the cache (sends, failures), ending in a directive *)
(*              or a panic caught by catch_unwind;                         *)
(*   EndTx    - pop of the context, and fold of the cache into the world   *)
(*              on Commit only.                                            *)
(* A panic outside catch_unwind (a failed payment, a setter or getter on a *)
(* missing account, a failed check) ends the test process: phase          *)
(* "aborted", from which nothing else happens.                             *)
(***************************************************************************)
EXTENDS TxCache, Sequences, SequencesExt, FiniteSetsExt

CONSTANTS
    Users,          \* addresses handed out by AddressFactory::new_address
    SC,             \* the contract address of the ContractObjWrapper
    MoaxValues,     \* MOAX amounts a test passes
    DctValues,      \* token amounts a test passes
    MaxPayments     \* longest dct_payments list of one call

Addrs == Users \cup {SC}

ASSUME DefaultMeta \in Metas /\ SC \notin Users

VARIABLES
    world,      \* rc_b_mock.accounts: address -> account
    cache,      \* the TxCache view of the running transaction
    phase,      \* "idle", "body", "returned" or "aborted"
    tx,         \* [caller, query] of the running transaction
    ret,        \* result_state_change: "None", a StateChange or a panic
    stack,      \* TxContextStack, top at the end
    result      \* TxResult of the last transaction

vars == <<world, cache, phase, tx, ret, stack, result>>

Payment == [token_identifier : Tokens, nonce : Nonces, value : DctValues]
Directives == {"Commit", "Revert"}
Rets == {"None", "UserError"} \cup Directives \cup Panics
Results == {"None", "Empty", "UserError"} \cup Panics

TypeOK ==
    /\ DOMAIN world \subseteq Addrs /\ \A a \in DOMAIN world : IsAccount(world[a])
    /\ DOMAIN cache \subseteq Addrs /\ \A a \in DOMAIN cache : IsAccount(cache[a])
    /\ phase \in {"idle", "body", "returned", "aborted"}
    /\ tx \in [caller : Addrs, query : BOOLEAN]
    /\ ret \in Rets
    /\ stack \in Seq({"Tx", "Dummy"})
    /\ result \in Results

\* The tx of the harness at rest.
NoTx == [caller |-> SC, query |-> FALSE]

Init ==
    /\ world = EmptyMap
    /\ cache = EmptyMap
    /\ phase = "idle"
    /\ tx = NoTx
    /\ ret = "None"
    /\ stack = <<>>
    /\ result = "None"

\* A panic that no catch_unwind intercepts ends the test.
Abort == phase' = "aborted" /\ UNCHANGED <<world, cache, tx, ret, stack, result>>

NewAccount(balance) == [moax |-> balance, dct |-> EmptyMap]

-----------------------------------------------------------------------------
(* Account creation and the setters of the test driver.                    *)

create_user_account(address, balance) ==
    /\ phase = "idle"
    /\ address \in Users \ DOMAIN world
    /\ world' = world @@ (address :> NewAccount(balance))
    /\ UNCHANGED <<cache, phase, tx, ret, stack, result>>

create_sc_account(balance) ==
    /\ phase = "idle"
    /\ SC \notin DOMAIN world
    /\ world' = world @@ (SC :> NewAccount(balance))
    /\ UNCHANGED <<cache, phase, tx, ret, stack, result>>

\* Each setter panics when the account does not exist.
SetAccount(address, NewAcc(_)) ==
    /\ phase = "idle"
    /\ IF address \in DOMAIN world
       THEN /\ world' = [world EXCEPT ![address] = NewAcc(@)]
            /\ UNCHANGED <<cache, phase, tx, ret, stack, result>>
       ELSE Abort

set_moax_balance(address, balance) ==
    SetAccount(address, LAMBDA acc : [acc EXCEPT !.moax = balance])

set_dct_balance(address, tokenId, balance) ==
    SetAccount(address, LAMBDA acc :
        [acc EXCEPT !.dct = SetDctBalance(@, tokenId, 0, balance, DefaultMeta)])

set_nft_balance_all_properties(address, tokenId, nonce, balance, md) ==
    SetAccount(address, LAMBDA acc :
        [acc EXCEPT !.dct = SetDctBalance(@, tokenId, nonce, balance, md)])

set_dct_local_roles(address, tokenId, roles) ==
    SetAccount(address, LAMBDA acc : [acc EXCEPT !.dct = SetRoles(@, tokenId, roles)])

-----------------------------------------------------------------------------
(* execute_tx_any and the three entry points that funnel into it.          *)

\* The dct_payments loop: a zero value is skipped; each other payment is a
\* subtract from the caller and a credit of its metadata to the contract.
RECURSIVE PayDct(_, _, _)
PayDct(r, caller, payments) ==
    IF payments = <<>> \/ ~r.ok THEN r
    ELSE LET p == Head(payments)
             next == IF p.value > 0
                     THEN transfer_dct_balance(r.accts, caller, SC, p.token_identifier,
                                               p.nonce, p.value)
                     ELSE r
         IN  PayDct(next, caller, Tail(payments))

\* The payments of execute_tx_any, applied to a cache fresh from the world.
Setup(caller, moaxPayment, dctPayments) ==
    LET r == IF moaxPayment > 0 THEN MoaxPayment(world, caller, SC, moaxPayment)
             ELSE Done(world)
    IN  PayDct(r, caller, dctPayments)

\* Setup, then push of the TxContext.  A failed payment panics before
\* catch_unwind is entered, so it ends the test and the cache is dropped.
BeginTx(caller, moaxPayment, dctPayments, query) ==
    /\ phase = "idle"
    /\ SC \in DOMAIN world
    /\ LET r == Setup(caller, moaxPayment, dctPayments)
       IN  IF r.ok
           THEN /\ cache' = r.accts
                /\ stack' = Append(stack, "Tx")
                /\ phase' = "body"
                /\ tx' = [caller |-> caller, query |-> query]
                /\ ret' = "None"
                /\ UNCHANGED <<world, result>>
           ELSE Abort

execute_tx_any(caller, moaxPayment, dctPayments) ==
    BeginTx(caller, moaxPayment, dctPayments, FALSE)

\* execute_query: the contract calls itself with no payment, and the
\* closure always answers Revert.
execute_query == BeginTx(SC, 0, <<>>, TRUE)

\* The contract body sends from its own balance in the cache; a panic of
\* the cache unwinds to catch_unwind with no write.
BodyStep(r) ==
    /\ phase = "body"
    /\ IF r.ok
       THEN cache' = r.accts /\ UNCHANGED <<phase, ret>>
       ELSE phase' = "returned" /\ ret' = r.panic /\ UNCHANGED cache
    /\ UNCHANGED <<world, tx, stack, result>>

BodySendMoax(to, amount) == BodyStep(MoaxPayment(cache, SC, to, amount))

\* SendDct::finish: a transfer of the fungible instance (nonce 0).
BodySendDct(to, tokenId, amount) ==
    BodyStep(transfer_dct_balance(cache, SC, to, tokenId, 0, amount))

\* A require! of the contract fails: a panic with the contract's message.
BodyFail ==
    /\ phase = "body"
    /\ phase' = "returned" /\ ret' = "UserError"
    /\ UNCHANGED <<world, cache, tx, stack, result>>

\* tx_fn returns its StateChange; a query's closure returns Revert.
BodyReturn(directive) ==
    /\ phase = "body"
    /\ tx.query => directive = "Revert"
    /\ phase' = "returned" /\ ret' = directive
    /\ UNCHANGED <<world, cache, tx, stack, result>>

\* Fault model: the pop placed on the Ok path only, skipped by a caught panic.
EndTxPopOnOk ==
    /\ phase = "returned"
    /\ stack # <<>>
    /\ stack' = IF ret \in Directives THEN SubSeq(stack, 1, Len(stack) - 1) ELSE stack
    /\ world' = IF ret = "Commit" THEN cache ELSE world
    /\ result' = IF ret \in Directives THEN "Empty" ELSE ret
    /\ phase' = "idle"
    /\ cache' = EmptyMap
    /\ tx' = NoTx
    /\ ret' = "None"

\* Fault model: the updates applied for Revert as well as for Commit.
EndTxFoldAnyOk ==
    /\ phase = "returned"
    /\ stack # <<>>
    /\ stack' = SubSeq(stack, 1, Len(stack) - 1)
    /\ world' = IF ret \in Directives THEN cache ELSE world
    /\ result' = IF ret \in Directives THEN "Empty" ELSE ret
    /\ phase' = "idle"
    /\ cache' = EmptyMap
    /\ tx' = NoTx
    /\ ret' = "None"

\* Teardown: pop the context whatever the outcome, fold the cache into the
\* world on Commit only, and turn a caught panic into the TxResult.
EndTx ==
    /\ phase = "returned"
    /\ stack # <<>>
    /\ stack' = SubSeq(stack, 1, Len(stack) - 1)
    /\ world' = IF ret = "Commit" THEN cache ELSE world
    /\ result' = IF ret \in Directives THEN "Empty" ELSE ret
    /\ phase' = "idle"
    /\ cache' = EmptyMap
    /\ tx' = NoTx
    /\ ret' = "None"

\* DebugApi::dummy() pushes a context, f runs, and the top is popped; a
\* panic of f skips the pop and ends the test.
execute_in_managed_environment ==
    /\ phase = "idle"
    /\ phase' = "aborted"
    /\ stack' = Append(stack, "Dummy")
    /\ UNCHANGED <<world, cache, tx, ret, result>>

-----------------------------------------------------------------------------
(* Read-only calls of the test driver.                                     *)

\* get_moax_balance, get_dct_balance and get_nft_attributes panic on a
\* missing account and read nothing else that can fail.
GetOnMissingAccount(address) ==
    /\ phase = "idle"
    /\ address \in Addrs \ DOMAIN world
    /\ Abort

DecodeAttributes(md) == IF md = DefaultMeta THEN "Empty" ELSE md

\* check_nft_balance: TRUE when neither of its assertions fires.  An absent
\* account or instance yields empty attribute bytes and no balance check.
CheckNftBalancePasses(address, tokenId, nonce, expected, expectedAttrs) ==
    LET insts == IF address \in DOMAIN world
                 THEN GetByIdentifierOrDefault(world[address].dct, tokenId).instances
                 ELSE EmptyMap
        present == nonce \in DOMAIN insts
        attrs == IF present THEN DecodeAttributes(insts[nonce].metadata) ELSE "Empty"
    IN  /\ present => insts[nonce].balance = expected
        /\ attrs = expectedAttrs

check_nft_balance(address, tokenId, nonce, expected, expectedAttrs) ==
    /\ phase = "idle"
    /\ ~CheckNftBalancePasses(address, tokenId, nonce, expected, expectedAttrs)
    /\ Abort

\* check_moax_balance and check_dct_balance assert against the world; a
\* missing account reads as 0, and so does a missing token or nonce-0
\* instance (get_dct_balance).  Only a failing assertion is a step.
check_moax_balance(address, expected) ==
    /\ phase = "idle"
    /\ expected # IF address \in DOMAIN world THEN world[address].moax ELSE 0
    /\ Abort

check_dct_balance(address, tokenId, expected) ==
    /\ phase = "idle"
    /\ expected # IF address \in DOMAIN world
                  THEN GetDctBalance(world[address].dct, tokenId, 0) ELSE 0
    /\ Abort

\* After the test's last call, or after a panic ended it, nothing happens.
Finished == phase = "aborted" /\ UNCHANGED vars

-----------------------------------------------------------------------------
Next ==
    \/ \E a \in Users, b \in MoaxValues : create_user_account(a, b)
    \/ \E b \in MoaxValues : create_sc_account(b)
    \/ \E a \in Addrs, b \in MoaxValues : set_moax_balance(a, b)
    \/ \E a \in Addrs, t \in Tokens, b \in DctValues : set_dct_balance(a, t, b)
    \/ \E a \in Addrs, t \in Tokens, n \in Nonces, b \in DctValues, m \in Metas :
          set_nft_balance_all_properties(a, t, n, b, m)
    \/ \E a \in Addrs, t \in Tokens, r \in SUBSET Roles : set_dct_local_roles(a, t, r)
    \/ \E c \in Addrs, v \in MoaxValues, ps \in SeqOf(Payment, MaxPayments) :
          execute_tx_any(c, v, ps)
    \/ execute_query
    \/ \E to \in Addrs, v \in MoaxValues : BodySendMoax(to, v)
    \/ \E to \in Addrs, t \in Tokens, v \in DctValues : BodySendDct(to, t, v)
    \/ BodyFail
    \/ \E d \in Directives : BodyReturn(d)
    \/ EndTx
    \/ execute_in_managed_environment
    \/ \E a \in Addrs : GetOnMissingAccount(a)
    \/ \E a \in Addrs, t \in Tokens, n \in Nonces, b \in DctValues, x \in {"Empty"} \cup Metas :
          check_nft_balance(a, t, n, b, x)
    \/ \E a \in Addrs, b \in MoaxValues : check_moax_balance(a, b)
    \/ \E a \in Addrs, t \in Tokens, b \in DctValues : check_dct_balance(a, t, b)
    \/ Finished

Spec == Init /\ [][Next]_vars

-----------------------------------------------------------------------------
(* Properties.                                                             *)

\* The MOAX and the (token, nonce) balances summed over all accounts.
MoaxSupply(w) == MapThenSumSet(LAMBDA a : w[a].moax, DOMAIN w)
DctSupply(w, t, n) == MapThenSumSet(LAMBDA a : GetDctBalance(w[a].dct, t, n), DOMAIN w)

\* The context stack holds exactly the running transaction's context: the
\* pop of execute_tx_any runs on every exit of the closure, a caught panic
\* included.
StackBalanced ==
    /\ phase = "idle" => stack = <<>>
    /\ phase \in {"body", "returned"} => stack = <<"Tx">>

\* The cache never writes through: the world changes only by a setter of the
\* test driver while no transaction runs, or by the teardown of a
\* transaction whose closure returned Commit.  A Revert, a query, a caught
\* panic and a failed payment all leave the world as it was.
TxIsolation ==
    [][world' # world =>
          \/ phase = "idle" /\ phase' = "idle"
          \/ phase = "returned" /\ ret = "Commit"]_world

\* A committed transaction neither creates nor destroys value: payments and
\* sends of the contract move MOAX and every (token, nonce) between accounts.
CommitConserves ==
    [][phase = "returned" /\ phase' = "idle" =>
          /\ MoaxSupply(world') = MoaxSupply(world)
          /\ \A t \in Tokens, n \in Nonces : DctSupply(world', t, n) = DctSupply(world, t, n)]_vars

\* Whether account a of world w holds an instance (t, n).
HoldsInstance(w, a, t, n) ==
    a \in DOMAIN w /\ t \in DOMAIN w[a].dct /\ n \in DOMAIN w[a].dct[t].instances

\* Metadata travels with the tokens: every instance a committed transaction
\* creates at an account (by a DCT payment or a send of the contract) carries
\* the metadata of an instance of the same (token, nonce) that some account
\* held before the transaction.  This is what transfer_dct_balance does by
\* handing the metadata returned by the debit to the credit.
MetadataTravels ==
    [][phase = "returned" /\ phase' = "idle" =>
          \A a \in DOMAIN world', t \in Tokens, n \in Nonces :
              HoldsInstance(world', a, t, n) /\ ~HoldsInstance(world, a, t, n)
              => \E b \in DOMAIN world :
                    /\ HoldsInstance(world, b, t, n)
                    /\ world[b].dct[t].instances[n].metadata
                         = world'[a].dct[t].instances[n].metadata]_vars

\* Spec section 4.2: last_nonce is a high-water mark of the nonces an
\* account's ledger has recorded for a token.
LastNonceHighWater ==
    \A a \in DOMAIN world, t \in Tokens :
        t \in DOMAIN world[a].dct =>
            \A n \in DOMAIN world[a].dct[t].instances : n <= world[a].dct[t].last_nonce

\* A check_nft_balance that passes on an existing account tells the test
\* that the account holds exactly the expected balance of that instance.
CheckNftBalanceSound ==
    \A a \in DOMAIN world, t \in Tokens, n \in Nonces, b \in DctValues,
       x \in {"Empty"} \cup Metas :
        CheckNftBalancePasses(a, t, n, b, x) => GetDctBalance(world[a].dct, t, n) = b

=============================================================================
