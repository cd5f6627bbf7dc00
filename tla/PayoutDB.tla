------------------------------ MODULE PayoutDB ------------------------------
(***************************************************************************)
(* The state the validators share while they pay POKT out of the vault:    *)
(* the collections "burns" and "invalidMints", the locks in the "locks"    *)
(* collection (app/database.go), and what the Pocket chain keeps about     *)
(* the vault's multisig account.  One document is one payout that is owed: *)
(* a burn of wPOKT, or a refund of an invalid mint.                        *)
(*                                                                         *)
(* Amounts, addresses and memos of a document never change after it is     *)
(* inserted and determine the message of its return transaction, so they   *)
(* are abstracted by the document's identity.                              *)
(***************************************************************************)
EXTENDS Integers, FiniteSets, Sequences

CONSTANTS
    Validators,     \* the validator processes, one signing key each
    Burns,          \* documents of the collection "burns"
    InvalidMints,   \* documents of the collection "invalidMints"
    Approves,       \* the documents a validator's ValidateBurn and
                    \* ValidateInvalidMint accept, for each of the settings
                    \* that it may be started with
    OriginHeight,   \* the height of the transaction a document is about
    Confirmations,  \* Pocket.Confirmations and Ethereum.Confirmations
    Threshold,      \* Pocket.MultisigThreshold
    CallsFail,      \* whether calls to the database and to the nodes may fail
    Nil             \* a nil pointer, an empty string, no document

Docs == Burns \cup InvalidMints

ASSUME ValidatorsAssumption == IsFiniteSet(Validators)
ASSUME DocsAssumption == Burns \cap InvalidMints = {}
ASSUME ApprovesAssumption == Approves \in [Validators -> SUBSET SUBSET Docs]
ASSUME HeightAssumption == OriginHeight \in [Docs -> Nat]
ASSUME ConfirmationsAssumption == Confirmations \in Nat
ASSUME ThresholdAssumption == Threshold \in Nat \ {0}
ASSUME CallsFailAssumption == CallsFail \in BOOLEAN
ASSUME NilAssumption == Nil \notin Nat \cup Docs

\* Whether a validator may approve a document: under some of its settings.
MayApprove(v, d) == \E accepted \in Approves[v] : d \in accepted

\* "coll" values: the order in which SyncTxs of both services visits them.
Collections == {"invalidMints", "burns"}
DocsOf(coll) == IF coll = "burns" THEN Burns ELSE InvalidMints
CollectionOf(d) == IF d \in Burns THEN "burns" ELSE "invalidMints"

-----------------------------------------------------------------------------
(* Documents, signatures and return transactions *)

Status == {"pending", "confirmed", "signed", "submitted", "success", "failed"}

\* A signature covers the document's message and one account sequence.
Signature == [signer: Validators, sequence: Nat]

\* A multisig transaction; its hash is abstracted by the transaction.
Tx == [doc: Docs, sequence: Nat, signers: SUBSET Validators]

Document ==
    [ status        : Status,
      confirmations : Int,
      signatures    : SUBSET Signature,
      sequence      : Nat \cup {Nil},
      hash          : Tx \cup {Nil} ]

NewDocument ==
    [ status        |-> "pending",
      confirmations |-> 0,
      signatures    |-> {},
      sequence      |-> Nil,
      hash          |-> Nil ]

Signers(signatures) == {sig.signer : sig \in signatures}

\* The transaction the executor assembles from a signed document.
ReturnTx(d, doc) ==
    [doc |-> d, sequence |-> doc.sequence, signers |-> Signers(doc.signatures)]

-----------------------------------------------------------------------------
(* Workers and locks *)

\* The services that lock documents: a signer and an executor per validator.
Workers == {"signer", "executor"} \X Validators

VARIABLES
    db,         \* the two collections
    locks,      \* exclusive locks "<collection>/<id>": the holder, or Nil
    readers,    \* holders of the shared lock "comsos_sequence"
    writer,     \* holder of the exclusive lock "comsos_sequence", or Nil
    height,     \* the current height of each chain, by the collection it feeds
    mempool,    \* return transactions a Pocket node has accepted
    ledger      \* the vault account's transactions in blocks, with their result

dbVars == <<db, locks, readers, writer>>
chainVars == <<height, mempool, ledger>>

ASSUME WorkerAssumption == Nil \notin Workers

Unlocked(d) == locks[d] = Nil
LockDoc(d, w) == locks' = [locks EXCEPT ![d] = w]

\* Mutant of UnlockDoc: a return path without Unlock.
UnlockDocForgotten(d, w) == UNCHANGED locks

\* Unlock(lockID) releases nothing when the lock has expired or changed hands.
UnlockDoc(d, w) ==
    locks' = [locks EXCEPT ![d] = IF locks[d] = w THEN Nil ELSE locks[d]]

-----------------------------------------------------------------------------
(* The vault's account on the Pocket chain *)

\* A block entry of the vault account: a transaction and whether its Code is 0.
Entry == [tx: Tx, ok: BOOLEAN]

\* account.Sequence: one for every transaction of the account in a block.
AccountSequence == Len(ledger)

\* CheckTx accepts the next sequence of the account, counting the
\* transactions that are already in the mempool.
Acceptable(tx) ==
    /\ tx.sequence >= AccountSequence
    /\ \A s \in AccountSequence .. (tx.sequence - 1) :
           \E other \in mempool : other.sequence = s

\* GetTx finds a transaction once it is in a block.
Found(tx, ok) == \E i \in 1 .. Len(ledger) : ledger[i] = [tx |-> tx, ok |-> ok]

Paid(d) == {i \in 1 .. Len(ledger) : ledger[i].tx.doc = d /\ ledger[i].ok}

-----------------------------------------------------------------------------

DBInit ==
    /\ db = [d \in Docs |-> NewDocument]
    /\ locks = [d \in Docs |-> Nil]
    /\ readers = {}
    /\ writer = Nil
    /\ height = [c \in Collections |-> 0]
    /\ mempool = {}
    /\ ledger = <<>>

DBTypeOK ==
    /\ db \in [Docs -> Document]
    /\ locks \in [Docs -> Workers \cup {Nil}]
    /\ readers \in SUBSET Workers
    /\ writer \in Workers \cup {Nil}
    /\ height \in [Collections -> Nat]
    /\ mempool \in SUBSET Tx
    /\ ledger \in Seq(Entry)

=============================================================================
