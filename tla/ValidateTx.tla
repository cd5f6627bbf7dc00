----------------------------- MODULE ValidateTx -----------------------------
(***************************************************************************)
(* What the validators make of a transaction on the Pocket chain that      *)
(* sends POKT to the vault: cosmos/util/validate_tx.go, events.go and      *)
(* memo.go.  The mint monitor, the mint signer and the burn signer all     *)
(* decide with this function.                                              *)
(***************************************************************************)
EXTENDS Integers, FiniteSets, Sequences

CONSTANT
    MinimumAmount       \* Pocket.TxFee

ASSUME MinimumAssumption == MinimumAmount \in Nat

\* A transfer event: whether sender, recipient and amount can be read, whether
\* it is for the vault, in its denomination, and how much it is.
Transfer ==
    [ sender    : BOOLEAN,
      recipient : {"vault", "other", "missing"},
      readable  : BOOLEAN,
      denom     : {"upokt", "other"},
      amount    : Nat ]

Tx == [code: {0, 1}, transfers: Seq(Transfer), memo: {"valid", "invalid"}]

\* ParseTransferEvents stops with an error at an event it cannot read; of a
\* transfer to somebody else it reads sender and recipient only.
Unreadable(event) ==
    \/ ~event.sender
    \/ event.recipient = "missing"
    \/ event.recipient = "vault" /\ ~event.readable

ParseFails(tx) == \E i \in 1 .. Len(tx.transfers) : Unreadable(tx.transfers[i])

ToVault(event) == event.recipient = "vault" /\ event.denom = "upokt"

\* The transfers ParseTransferEvents returns, by their place among the events.
VaultTransfers(tx) == {i \in DOMAIN tx.transfers : ToVault(tx.transfers[i])}

\* result.TxValid: the amount is neither zero nor covered by the fee.
TxValid(tx) ==
    /\ tx.code = 0
    /\ ~ParseFails(tx)
    /\ Cardinality(VaultTransfers(tx)) = 1
    /\ \A i \in VaultTransfers(tx) : tx.transfers[i].amount > MinimumAmount

\* result.NeedsRefund of a valid transaction.
NeedsRefund(tx, maximum) ==
    \/ tx.memo = "invalid"
    \/ \E i \in VaultTransfers(tx) : tx.transfers[i].amount > maximum

\* What becomes of the transaction under a maximal amount.
Verdict(tx, maximum) ==
    IF ~TxValid(tx) THEN "failed"
    ELSE IF NeedsRefund(tx, maximum) THEN "refund" ELSE "mint"

=============================================================================
