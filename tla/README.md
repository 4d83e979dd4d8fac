# TLA+ models of the dharitri-wasm debug ledger and the MOAX/wrapped-MOAX swap

These modules model the parts of this repository that hold or move value:
- the in-memory blockchain that Rust contract tests run against (`dharitri-wasm-debug`);
- the example swap contract `moax-dct-swap`;
- the contract-side send results.

TLC checks them.

## 1. The system

| Part | Source | State | Operations |
|---|---|---|---|
| Token instance store `DctInstances` | not under `src/` (spec §4.1) | nonce → (balance, metadata) | increase, set |
| Account token ledger `AccountDct` | `world_mock/account_dct.rs` | token id → `DctData{instances, last_nonce, roles}` | `increase_balance`, `set_dct_balance`, `set_roles`, `get_dct_balance` |
| World state | `BlockchainMock` (spec §3) | address → account (MOAX, ledger) | read by the harness, replaced on commit |
| Transaction cache | `tx_mock/tx_cache_balance_util.rs` | a copy-on-write view of the world for one transaction | subtract/increase MOAX, gas, subtract/increase/transfer DCT; each panics on insufficient funds or a missing account |
| Context stack | `TxContextStack` (spec §3) | a stack of transaction contexts | push before the contract runs, pop after |
| Execution harness | `testing_framework/contract_obj_wrapper.rs` | world, current cache, stack | account creation, balance and role setters, `execute_tx*`, `execute_query`, `execute_in_managed_environment`, getters, checks |
| Contract sends | `forwarder_main.rs` `send_moax`, `send_moax.rs`, `send_dct.rs` | none of their own | a direct MOAX or DCT transfer from the contract, run on the cache |
| Swap contract | `moax-dct-swap/src/swap.rs` | `wrapped_moax_token_id`, `unused_wrapped_moax`, balances | `issueWrappedMoax` + callback, `mintWrappedMoax` + callback, `wrapMoax`, `unwrapMoax` |
| DCT module | `dharitri-wasm-modules/src/dct.rs` | `token_id` | `issue_token` + callback, `set_local_roles`, mint, burn |
| Scenario builders, codecs | `tx_denali.rs`, `dct_token_payment_multi_arg.rs`, `dct_token_data.rs`, `denali/.../dct_data/mod.rs` | none | encode and decode only |

### How the parts interact

`execute_tx_any` is the sequence the harness model follows step by step:
1. It builds a `TxCache` over the world.
2. It pays the call value and the DCT payments into the contract. This runs **outside** `catch_unwind`, so a failed payment panics straight into the test.
3. It pushes a context.
4. It runs the test's closure under `catch_unwind`. The closure is the contract body, whose sends debit the contract in the same cache.
5. It pops the context.
6. It folds the cache into the world only when the closure returned `Ok(Commit)`. A `Revert`, a caught panic, or any query (`execute_query` forces `Revert`) discards the cache.

The swap contract talks to the DCT system contract through **async calls**. The call leaves at the end of the transaction, and its callback runs in a later transaction. Other transactions interleave in between, and the callbacks of several calls in flight arrive in any order.

### Hard behaviours in the code
- Several payments of one transaction can fail part-way (`contract_obj_wrapper.rs:606-621`).
- Three exits must all pop the stack and must not leak cache writes: Commit, Revert and a caught panic.
- A transfer debits and then credits. When caller and callee are the same account (a self-call), the credit must see the debit.
- A transfer that creates an instance at the receiver must carry the metadata the debit returned for the sender's instance.
- In the swap contract, storage checked before an async call is set only in its callback. This is the double-issue window.
- The swap contract's Err refund is marked "TODO: test that it works".

## 2. Modules

| Module | Models | Notes |
|---|---|---|
| `DctLedger` | `DctInstances` (from the spec) and `AccountDct` as pure operators | Each ledger is a partial function built with `:>` and `@@`. Metadata is a model value. |
| `TxCache` | every function of `tx_cache_balance_util.rs` | An operation returns `[ok, panic, accts, md]`. `ok = FALSE` is the Rust panic. |
| `Harness` | `BlockchainStateWrapper` composed with `TxCache` and `DctLedger` | The state machine, described below. |
| `MCHarness` | bounds for `Harness` | `BalanceBound` caps every balance at `MaxBalance` = 1. |
| `MoaxDctSwap` | `swap.rs` and the chain around it | The state machine, described below. |
| `SwapExchange` | the abstract promise of `swap.rs` | MOAX ↔ claims at 1:1, plus the owner's fees. It has no source lines. |
| `DctModule` | `dharitri-wasm-modules/src/dct.rs` and the DCT system contract | The state machine, described below. |
| `PaymentMultiArg` | `dct_token_payment_multi_arg.rs` | The argument stream between `push_dyn_arg`/`finish` and `dyn_load`. |
| `MCMoaxDctSwap` | bounds for `MoaxDctSwap` | `SwapBound` caps `unused` at 3 and the pending calls at 2. |

### Harness

**Variables**
- `world`: the blockchain mock.
- `cache`: the cache's view of the current transaction.
- `phase`: one of `idle`, `body`, `returned` or `aborted`.
- `tx`: the caller, and whether the call is a query.
- `ret`: what the closure returned.
- `stack`: the context stack.
- `result`: what the last transaction ended with.

**Actions**
- Account creation: `create_user_account`, `create_sc_account`.
- Setters: `set_moax_balance`, `set_dct_balance`, `set_nft_balance_all_properties`, `set_dct_local_roles`.
- Starting a transaction: `execute_tx_any` and `execute_query`, both through `BeginTx`. `BeginTx` covers the payments of lines 597-626 and the push.
- Steps of the contract body:
  - `BodySendMoax` (the forwarder's `send_moax`);
  - `BodySendDct` (`SendDct::finish`, which always sends the fungible instance, nonce 0);
  - `BodyFail`, a `require!` failure caught by `catch_unwind`;
  - `BodyReturn`, the closure's `Commit` or `Revert`.
- Ending a transaction: `EndTx`, the pop and then the conditional commit.
- Checks: `check_moax_balance`, `check_dct_balance` and `check_nft_balance`. Only a failing assertion is a step, and it aborts the test.
- Panics that reach the test: `execute_in_managed_environment` (the panic path of `f`), `GetOnMissingAccount` and `check_nft_balance`.

A panic outside `catch_unwind` ends the test. Such a panic comes from a payment, a setter or getter on a missing account, a failed check, or a panic inside `execute_in_managed_environment`. It is modelled as `phase = "aborted"`, a terminal phase with the stutter step `Finished`. The model does not follow a test that catches such a panic and goes on, so the dummy context that a panic in `execute_in_managed_environment` leaves on the stack (`contract_obj_wrapper.rs:648`) is not something any property can see; PROJECT.json lists it as a hazard without a property.

### MoaxDctSwap

**Variables**
- `moax` and `wrapped`: per-address balances.
- The two storage mappers: `tokenId` and `unused`.
- `pending`: a bag of async calls in flight.
- `issued`: the identifiers the system contract has handed out.
- `burnt`: the issue costs the system contract keeps.

**Actions**
- One action per endpoint and per callback. Each callback ends in Ok or Err.
- A failing `require!` reverts the whole call, so it is no step.
- `OwnerAwaitsCallback` chooses whether the owner may issue again while an issue is in flight.

### Refinement of the swap contract

`MoaxDctSwap` defines `Exchange == INSTANCE SwapExchange WITH ...`, which maps the contract's state onto the abstract exchange:

| Abstract variable | Contract state |
|---|---|
| `held[u]` | `moax[u]` |
| `claims[u]` | `wrapped[u][tokenId]`, or 0 before the issue |
| `locked` | `GetLockedMoaxBalance`, the `getLockedMoaxBalance` view (`moax[SC]`) |
| `fees` | the issue costs in flight |

`ExchangeRefined == Exchange!Spec` is checked as a property. Each detailed step corresponds to an abstract step:
- an issue is `PayFee`;
- an Ok issue callback is `KeepFee`;
- an Err callback is `ReturnFee`;
- wrap and unwrap are `Wrap` and `Unwrap`;
- mints and their callbacks are stuttering steps.

### DctModule

**Variables**
- `moax`: the MOAX of the possible owners and of the contract.
- `supply`: the contract's balance of each token.
- `tokenId`: the `token_id` storage.
- `roles`: the local roles the system contract granted, per address and token.
- `pending`: a bag of async calls in flight.
- `issued`, and `burnt`: the issue costs the system contract kept, per address that paid them.
- `owner`: the contract's owner, which `get_owner_address()` reads.

**Actions**
- `issue_token` adds an issue call to `pending`. The call records its caller, the owner at that time.
- `set_local_roles` adds a roles call naming `token_id` as it is now. This is the empty identifier before the callback.
- `issue_callback` runs when the system contract answers the issue:
  - Ok stores a fresh identifier, and the contract receives the initial supply of 1.
  - Err refunds the owner **at the time of the callback** (`get_owner_address()`), when the returned amount is more than zero.
- `SystemSetRoles` is the system contract handling `set_special_roles`. It grants the roles for an issued token. Otherwise it fails, and nobody is told, because the call has no callback.
- `mint` and `burn` are guarded by `require_local_roles_set`.
- `ChangeOwner` is the chain's `ChangeOwnerAddress` built-in. It can run at any time, including while an issue is in flight. It has no source lines in this repository.

**Assumptions about the system contract**
- `issue_fungible` succeeds only when the paid cost equals `IssueCost`.
- The contract that issued a token is its manager, so its `set_special_roles` calls succeed.

### PaymentMultiArg
**Variables**
- `args`: the argument list.
- `sent`: the payments the caller pushed.
- `received`: the payments the callee loaded.

**Actions**
- `push_dyn_arg(p)` appends three arguments.
- `dyn_load` consumes three.

## 3. Runs

| Run | Config | Expect | Checks |
|---|---|---|---|
| `harness_tx` | `MCHarness.cfg` | pass | `TypeOK`, `StackBalanced`, `TxIsolation` (action), `CommitConserves` (action), `MetadataTravels` (action: an instance a commit creates carries the metadata some account held for it before), over one user, the contract, one token at nonces 0 and 1, two metadata values, MOAX and DCT values {0, 1} and up to 2 DCT payments. 471,941 distinct states (under `HarnessView`), about 40 s. |
| `harness_last_nonce` | `MCHarnessLastNonceHighWater.cfg` | violation | `LastNonceHighWater`: spec §4.2 calls `last_nonce` a high-water mark. The code sets it only when it creates the `DctData`. |
| `harness_check_nft` | `MCHarnessCheckNftBalanceSound.cfg` | violation | `CheckNftBalanceSound`: a passing `check_nft_balance` implies the balance. The code skips the balance check when the instance is absent. |
| `swap` | `MCMoaxDctSwap.cfg` | pass | `TypeOK`, `Backing` (the locked MOAX equals the users' wrapped tokens), `UnusedMatchesHoldings` and `ExchangeRefined` (the contract implements `SwapExchange`), with issues, mints, wraps, unwraps and out-of-order Ok/Err callbacks. Three users, 651 states. |
| `dct` | `MCDctModule.cfg` | pass | `TypeOK`, `TokenIdStable` (action), `IssueSettles` (liveness: an issue ends as a token or a full refund to an owner), `RolesAfterIssue` (liveness: a roles request made after the issue grants Mint and Burn). Two possible owners, and the owner awaits each issue callback. 11,508 states. |
| `dct_double_issue` | `MCDctModuleDoubleIssue.cfg` | violation | `TokenIdStable` when the owner may issue again before the first callback. |
| `dct_roles_before_issue` | `MCDctModuleRolesBeforeIssue.cfg` | violation | `RolesRequestHonoured`: every accepted `setLocalRoles` eventually grants the roles. |
| `dct_owner_change` | `MCDctModuleOwnerChange.cfg` | violation | `RefundToCaller`: every MOAX an address paid to `issueToken` is in flight, kept as the issue cost, or back with that address. |
| `multiarg` | `MCPaymentMultiArg.cfg` | pass | `RoundTrip` (the callee loads the pushed payments in order, and the unread arguments are their encodings). Up to 3 payments, with 2,257 states. |
| `swap_double_issue` | `MCMoaxDctSwapDoubleIssue.cfg` | violation | `Backing` when the owner may issue again before the first callback arrives. |
| `swap_wrap_all` | `MCMoaxDctSwapWrapAll.cfg` | violation | `WrapServesUnused`: the strict `>` of `wrap_moax` refuses the last unit. |

### Findings
1. **`last_nonce` is not a high-water mark** (`account_dct.rs:91,111`). This is a divergence from spec §4.2.
2. **`check_nft_balance` passes on an absent instance whatever the expected balance** (`contract_obj_wrapper.rs:138-153`). The condition is that the expected attributes decode from empty bytes.
3. **Double issue** (`swap.rs:28`). The issue guard reads `wrapped_moax_token_id`, but only the callback sets it. With two issues in flight, the second callback replaces the token. Users' wrapped tokens of the first issue can then never be unwrapped, and the MOAX behind them stays locked.
4. **`wrap_moax` off-by-one** (`swap.rs:139`). `unused > payment` should be `>=`.
5. **DctModule double issue** (`dct.rs:29`). This is the same window as in the swap. The second issue callback replaces `token_id`, and the contract keeps a supply (and perhaps roles) of a token it no longer uses.
6. **`setLocalRoles` before the issue is lost** (`dct.rs:67`). `require_token_issued` is defined and never called. A request for the empty identifier fails in the system contract, and it has no callback, so nobody is told. Mint and burn keep failing until the owner asks again.
7. **The issue refund goes to the current owner, not the caller** (`dct.rs:83-84`). The comment says "return payment to initial caller", but the code sends to `get_owner_address()`, read when the callback runs. TLC: o1 issues with cost 1, ownership passes to o2, the issue fails, and o2 receives o1's cost.

### Bounds
- **Harness.** All balances are capped at 1.
  - This still reaches every branch: payment failure, a send without funds, self-calls, and the metadata of a second credit.
  - `MaxPayments` = 2 makes a second payment fail after the first succeeded, which is the partial-payment case.
  - One user and the contract suffice because every property relates the caller, the contract and the world. A second user multiplies the states by about 30 without adding a case.
  - Nonces {0, 1} and two metadata values let a payment or a send create a non-fungible instance at the receiver whose metadata differs from the default, and reach its supply under payments.
  - The pass run gives no roles to `set_dct_local_roles` (`Roles = {}`). The setter still creates the token's `DctData`, which is the only effect the run's properties can see, and leaving out the roles keeps the run under a minute.
  - `MCHarness.cfg` checks under `VIEW HarnessView`, which leaves out `result`. No action and no property reads the last `TxResult`, so states that differ only in it have the same futures. This reduces the states about fourfold.
- **Swap.** Three users (the owner, alice and bob) and two identifiers: a second identifier is what the double issue needs. Supplies and amounts are {1, 2}, which reaches the `unused = payment` boundary. At most 2 calls are pending, so two issues and a mint can be in flight.

- **DctModule.**
  - The owner starts with 2 MOAX, and the payments are {0, 1} against an issue cost of 1. So both the Err arm (a wrong cost, with and without a refund) and a retry are reached.
  - There are two identifiers, which is what the double issue needs.
  - There are two possible owners, which is what an ownership change needs.
  - At most 2 calls are pending (`MaxPending`). This is enough for an issue and a roles request in flight together.
  - `MaxSupply` = 2 bounds minting in the guard, not with a constraint, so the liveness check is sound.
- **PaymentMultiArg.**
  - Nonces {0, 1} and amounts {1, 2} overlap, so a field-order mix-up can decode to a value that is in range.
  - There are up to 3 payments.
  - Deadlock checking is off, because a call's argument list ends.

### Fairness
Only `DctModule` states liveness. Its `Spec` has weak fairness for each async call: each pending issue callback and each pending `set_special_roles`. This is justified because the chain executes every async call it accepted and runs the callback, so a call cannot stay pending forever. The owner's endpoints, mint and burn have no fairness, since the owner may stop at any time.

### Mutants
Each property of a passing run is broken by a plausible bug in the code it is about. The mutant operators sit next to the definitions they replace and are marked "Fault model":
- a dropped balance check;
- a pop only on Ok;
- a fold on Revert;
- a credit of the stale view;
- a credit with the default metadata instead of the one the debit returned;
- a refund before the cost is returned;
- a refund kept by the contract;
- `unused` raised on a failed mint.

## 4. Not modelled
- **Block-info setters** (`set_block_*`, `contract_obj_wrapper.rs:373-471`). Nothing that we model reads them.
- **The success path of `execute_in_managed_environment`.** It pushes a dummy context and pops it, with no net change.
- **`DctTokenData::decode_attributes`.** It delegates to the codec, which the harness abstracts as `DecodeAttributes`.
- **The denali generator (`tx_denali.rs`).** It builds passive scenario records and does serialization only.
- **`subtract_tx_gas`.** It is modelled as an operator only, because the harness runs with gas price 0.
- **The reference-count checks** `Rc::try_unwrap(..).unwrap()` and `Rc::get_mut(..).unwrap()` (lines 632 and 634). The model has no reference counts, and which clones outlive the closure depends on the contract and the test.
- **The mock's own async semantics.** Spec §5 says that in the debug mock an async call is a synchronous dispatch followed at once by its callback. `MoaxDctSwap` and `DctModule` model the chain the contracts are written for instead, where other transactions run between a call and its callback. Under the mock's semantics the double-issue window does not open, while a roles request made before the issue is lost all the same.
- **Events and views of the swap contract**, apart from `getLockedMoaxBalance`. Events are logging only, and the other views read a storage mapper.

## 5. Left open, and why
1. **An abstract atomic-ledger specification for `Harness`.** The promise would be "a transaction either moves its payments and sends, or nothing". Between one open and one close of a transaction, any sequence of transfers among existing accounts reaches exactly the balance functions with the same totals. So such a refinement would say no more than `TxIsolation` and `CommitConserves` together, and those two already break under the mutants.
2. **Body mint and burn, and nested contract calls.** The debug mock's built-in functions (local mint and burn, role checks) and its nested dispatch are not in this repository. Only `tx_cache_balance_util.rs` is, and its operations are all modelled.
3. **Composing `DctModule` with the harness.** This needs the same missing built-in functions.
4. **Liveness of the swap contract.** Each callback's effect on balances and storage is already stated as a safety invariant (`Backing`, `UnusedMatchesHoldings`, `ExchangeRefined`). Given weak fairness on delivery, "every call in flight eventually settles" follows from the fairness alone, and no code of the contract could break it.
