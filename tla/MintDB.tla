------------------------------- MODULE MintDB -------------------------------
(***************************************************************************)
(* The state the validators share while they approve mints of wPOKT: the   *)
(* collection "mints", the locks "mints/<recipient>" of the "locks"        *)
(* collection (app/database.go), the height of the Pocket chain, and what  *)
(* the contracts on Ethereum keep about mints: the limit of one mint, the  *)
(* nonces of the recipients and the Minted events.                         *)
(*                                                                         *)
(* Amount, recipient, sender and memo of a document never change after it  *)
(* is inserted, so they are functions of the document's identity.          *)
(***************************************************************************)
EXTENDS Integers, FiniteSets, Sequences

CONSTANTS
    Validators,     \* the validator processes, one Ethereum key each
    Mints,          \* documents of the collection "mints"
    Recipients,     \* addresses that receive wPOKT
    RecipientOf,    \* recipient_address of a document
    Amount,         \* amount of a document
    Accepts,        \* the documents whose transaction ValidateMint of a
                    \* validator accepts, the maximal amount left aside
    OriginHeight,   \* the height of the Pocket transaction of a document
    Confirmations,  \* Pocket.Confirmations
    Threshold,      \* signerThreshold of the mint controller
    InitialLimit,   \* maxMintLimit of the mint controller, at first
    CallsFail,      \* whether calls to the database and to the nodes may fail
    Nil             \* an empty string, no document

ASSUME ValidatorsAssumption == IsFiniteSet(Validators)
ASSUME MintsAssumption == IsFiniteSet(Mints)
ASSUME RecipientAssumption == RecipientOf \in [Mints -> Recipients]
ASSUME AmountAssumption == Amount \in [Mints -> Nat]
ASSUME AcceptsAssumption == Accepts \in [Validators -> SUBSET Mints]
ASSUME HeightAssumption == OriginHeight \in [Mints -> Nat]
ASSUME ConfirmationsAssumption == Confirmations \in Nat
ASSUME ThresholdAssumption == Threshold \in Nat \ {0}
ASSUME LimitAssumption == InitialLimit \in Nat
ASSUME CallsFailAssumption == CallsFail \in BOOLEAN
ASSUME NilAssumption == Nil \notin Nat \cup Mints

-----------------------------------------------------------------------------
(* Documents *)

Status == {"pending", "confirmed", "signed", "success", "failed"}

\* The statuses FindNonce looks at: the mints that may still be minted.
OpenStatus == {"pending", "confirmed", "signed"}

\* An EIP-712 signature covers recipient, amount and nonce.
Signature == [signer: Validators, nonce: Nat]

\* "nonce" and "data" are written together: data is recipient, amount, nonce.
Document ==
    [ status        : Status,
      confirmations : Int,
      signatures    : SUBSET Signature,
      nonce         : Nat \cup {Nil} ]

NewDocument ==
    [ status |-> "pending", confirmations |-> 0, signatures |-> {}, nonce |-> Nil ]

Signers(signatures) == {sig.signer : sig \in signatures}

\* The services that lock recipients: a signer and an executor per validator.
Workers == {"signer", "executor"} \X Validators

ASSUME WorkerAssumption == Nil \notin Workers

\* A Minted event, with the document and the signatures the contract was
\* called with.
Event ==
    [ mint       : Mints,
      nonce      : Nat,
      signatures : SUBSET Signature ]

VARIABLES
    mints,      \* the collection
    known,      \* the documents the monitors have inserted so far
    locks,      \* exclusive locks "mints/<recipient>": the holder, or Nil
    height,     \* the height of the Pocket chain
    limit,      \* maxMintLimit of the mint controller
    minted      \* the Minted events of the wPOKT contract, one in a block

mintVars == <<mints, known, locks>>
chainVars == <<height, limit, minted>>

-----------------------------------------------------------------------------
(* Locks *)

Unlocked(m) == locks[RecipientOf[m]] = Nil
LockRecipient(m, w) == locks' = [locks EXCEPT ![RecipientOf[m]] = w]

\* Unlock(lockID) releases nothing when the lock has expired or changed hands.
UnlockRecipient(m, w) ==
    locks' = [locks EXCEPT
                 ![RecipientOf[m]] = IF locks[RecipientOf[m]] = w THEN Nil ELSE @]

\* The call of Unlock may fail: the lock stays until it expires.
ReleaseRecipient(m, w) ==
    \/ UnlockRecipient(m, w)
    \/ CallsFail /\ UNCHANGED locks

-----------------------------------------------------------------------------
(* The contracts *)

\* GetUserNonce: the contract counts the mints of a recipient.
UserNonce(r) == Cardinality({i \in 1 .. Len(minted) : RecipientOf[minted[i].mint] = r})

\* The number of the newest block, counted from the configured start block.
BlockNumber == Len(minted)

-----------------------------------------------------------------------------

DBInit ==
    /\ mints = [m \in Mints |-> NewDocument]
    /\ known = {}
    /\ locks = [r \in Recipients |-> Nil]
    /\ height = 0
    /\ limit = InitialLimit
    /\ minted = <<>>

DBTypeOK ==
    /\ mints \in [Mints -> Document]
    /\ known \in SUBSET Mints
    /\ locks \in [Recipients -> Workers \cup {Nil}]
    /\ height \in Nat
    /\ limit \in Nat
    /\ minted \in Seq(Event)

=============================================================================
