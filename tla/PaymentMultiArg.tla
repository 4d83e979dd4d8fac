--------------------------- MODULE PaymentMultiArg ---------------------------
(***************************************************************************)
(* DctTokenPaymentMultiArg                                                 *)
(* (dharitri-wasm/src/types/general/dct_token_payment_multi_arg.rs) as it  *)
(* travels between two contracts.  The caller appends each payment to the  *)
(* call's argument list as three arguments (ContractCallArg::push_dyn_arg, *)
(* which is also the order EndpointResult::finish writes results in).  The *)
(* callee's endpoint loads its var-args one payment at a time, taking three *)
(* arguments each (DynArg::dyn_load).  An argument is a raw value: a token *)
(* identifier, a nonce or an amount, as the bytes they are on the wire do  *)
(* not say which they are.                                                 *)
(***************************************************************************)
EXTENDS Naturals, Sequences, SequencesExt

CONSTANTS
    TokenIds,       \* token identifiers
    Nonces,         \* token nonces
    Amounts,        \* amounts
    MaxPayments     \* bound: payments sent in one call

DctTokenPayment == [token_identifier : TokenIds, token_nonce : Nonces, amount : Amounts]

VARIABLES
    args,       \* the argument list, as far as the callee has not loaded it
    sent,       \* payments the caller pushed, in order
    received    \* payments the callee loaded, in order

vars == <<args, sent, received>>

\* Fault model: the nonce and the amount pushed in the wrong order.
PushArgsSwapped(p) == <<p.token_identifier, p.amount, p.token_nonce>>

\* push_dyn_arg and finish: identifier, nonce, amount.
PushArgs(p) == <<p.token_identifier, p.token_nonce, p.amount>>

\* dyn_load: identifier, nonce and amount from the next three arguments.
LoadArgs(a) == [token_identifier |-> a[1], token_nonce |-> a[2], amount |-> a[3]]

TypeOK ==
    /\ args \in Seq(TokenIds \cup Nonces \cup Amounts)
    /\ sent \in Seq(DctTokenPayment)
    /\ received \in Seq(DctTokenPayment)

Init == args = <<>> /\ sent = <<>> /\ received = <<>>

push_dyn_arg(p) ==
    /\ Len(sent) < MaxPayments
    /\ args' = args \o PushArgs(p)
    /\ sent' = Append(sent, p)
    /\ UNCHANGED received

dyn_load ==
    /\ Len(args) >= 3
    /\ received' = Append(received, LoadArgs(SubSeq(args, 1, 3)))
    /\ args' = SubSeq(args, 4, Len(args))
    /\ UNCHANGED sent

Next == (\E p \in DctTokenPayment : push_dyn_arg(p)) \/ dyn_load

Spec == Init /\ [][Next]_vars

\* The callee loads exactly the payments the caller pushed, in the order
\* pushed, field for field; the arguments still unread are the three-
\* argument encodings of the payments not yet loaded.
RoundTrip ==
    /\ IsPrefix(received, sent)
    /\ args = FlattenSeq([i \in 1 .. (Len(sent) - Len(received)) |->
                             PushArgs(sent[Len(received) + i])])

=============================================================================
