------------------------------ MODULE Payouts -------------------------------
(***************************************************************************)
(* Paying burns and refunds out of the vault: the burn signers and the     *)
(* burn executors of all validators over one database, the Pocket chain,   *)
(* crashes of validator processes, and locks that expire.                  *)
(***************************************************************************)
EXTENDS BurnSigner, BurnExecutor

CONSTANTS
    MaxHeight,      \* bound on the heights of the two chains
    MaxFailed,      \* bound on the return transactions that fail in a block
    MaxDropped,     \* bound on the transactions that leave the mempool
    MaxCrashes,     \* bound on the crashes of validator processes
    LocksExpire     \* whether a lock may expire while it is held

ASSUME BoundsAssumption ==
    /\ MaxHeight \in Nat /\ MaxFailed \in Nat /\ MaxDropped \in Nat
    /\ MaxCrashes \in Nat /\ LocksExpire \in BOOLEAN

VARIABLES
    dropped,        \* transactions dropped from the mempool so far
    crashes         \* crashes so far

vars == <<db, locks, readers, writer, height, mempool, ledger,
          signer, executor, dropped, crashes>>

Init ==
    /\ DBInit
    /\ SignerInit
    /\ ExecutorInit
    /\ dropped = 0
    /\ crashes = 0

-----------------------------------------------------------------------------
(* The environment *)

\* A block of the chain that feeds collection c.
Block(c) ==
    /\ height[c] < MaxHeight
    /\ height' = [height EXCEPT ![c] = @ + 1]
    /\ UNCHANGED <<dbVars, mempool, ledger, signer, executor, dropped, crashes>>

Failures == Cardinality({i \in 1 .. Len(ledger) : ~ledger[i].ok})

\* A block takes the vault transaction with the account's sequence; with it
\* every other transaction of the same sequence becomes invalid.
Commit(tx, ok) ==
    /\ tx \in mempool
    /\ tx.sequence = AccountSequence
    /\ ~ok => Failures < MaxFailed
    /\ ledger' = Append(ledger, [tx |-> tx, ok |-> ok])
    /\ mempool' = {other \in mempool : other.sequence > tx.sequence}
    /\ UNCHANGED <<dbVars, height, signer, executor, dropped, crashes>>

\* A node forgets an accepted transaction: a full mempool, a restart.
Drop(tx) ==
    /\ tx \in mempool
    /\ dropped < MaxDropped
    /\ dropped' = dropped + 1
    /\ mempool' = mempool \ {tx}
    /\ UNCHANGED <<dbVars, height, ledger, signer, executor, crashes>>

\* The process stops between two steps and starts again, maybe with other
\* settings: both services lose their local state, and the locks they hold
\* stay in the database.
Crash(v) ==
    /\ crashes < MaxCrashes
    /\ crashes' = crashes + 1
    /\ \E accepts \in Approves[v] : signer' = [signer EXCEPT ![v] = NewSigner(accepts)]
    /\ executor' = [executor EXCEPT ![v] = NewExecutor]
    /\ UNCHANGED <<dbVars, chainVars, dropped>>

\* The TTL of a lock passes, whether its holder is alive or not.
ExpireLock ==
    /\ LocksExpire
    /\ \/ \E d \in Docs :
              /\ locks[d] # Nil
              /\ locks' = [locks EXCEPT ![d] = Nil]
              /\ UNCHANGED <<readers, writer>>
       \/ \E w \in readers :
              /\ readers' = readers \ {w}
              /\ UNCHANGED <<locks, writer>>
       \/ /\ writer # Nil
          /\ writer' = Nil
          /\ UNCHANGED <<locks, readers>>
    /\ UNCHANGED <<db, chainVars, signer, executor, dropped, crashes>>

-----------------------------------------------------------------------------

SignerStep(v) == SignerNext(v) /\ UNCHANGED <<executor, dropped, crashes>>
ExecutorStep(v) == ExecutorNext(v) /\ UNCHANGED <<signer, dropped, crashes>>

Next ==
    \/ \E v \in Validators :
           \/ SignerStep(v)
           \/ v \in Executors /\ ExecutorStep(v)
           \/ Crash(v)
    \/ \E c \in Collections : Block(c)
    \/ \E tx \in mempool : Drop(tx) \/ \E ok \in BOOLEAN : Commit(tx, ok)
    \/ ExpireLock

Spec == Init /\ [][Next]_vars

\* Every service runs in a loop of its own that never ends (app/runner.go),
\* and the chains keep making blocks.
Fairness ==
    /\ \A v \in Validators : WF_vars(SignerStep(v))
    /\ \A v \in Executors : WF_vars(ExecutorStep(v))
    /\ \A c \in Collections : WF_vars(Block(c))
    /\ WF_vars(\E tx \in mempool : Commit(tx, TRUE))

FairSpec == Spec /\ Fairness

-----------------------------------------------------------------------------
(* Type correctness *)

\* Every variable holds a value of its type: documents, locks, the local
\* state of the services and the chain.
TypeOK ==
    /\ DBTypeOK
    /\ signer \in [Validators -> SignerState]
    /\ executor \in [Validators -> ExecutorState]
    /\ dropped \in Nat
    /\ crashes \in Nat

-----------------------------------------------------------------------------
(* Safety *)

\* The signatures of a document are by validators that may approve it, and they
\* all cover the sequence stored with them: a stale writer replaces
\* signatures and sequence together (Sign writes both in one $set).
SignaturesAgree ==
    \A d \in Docs : \A sig \in db[d].signatures :
        /\ sig.sequence = db[d].sequence
        /\ MayApprove(sig.signer, d)

\* Every vault transaction that reaches Pocket carries the signatures of at
\* least Threshold validators, each of which validated the document it pays.
PayoutsApproved ==
    \A tx \in mempool \cup {ledger[i].tx : i \in 1 .. Len(ledger)} :
        /\ Cardinality(tx.signers) >= Threshold
        /\ \A v \in tx.signers : MayApprove(v, tx.doc)

\* A document with status success has been paid, although the result that is
\* written belongs to the hash of a snapshot and not of the document.
SuccessIsPaid == \A d \in Docs : db[d].status = "success" => Paid(d) # {}

\* No burn is paid and no invalid mint is refunded twice, whatever crashes,
\* retries and stale snapshots the validators go through.
PaidAtMostOnce == \A d \in Docs : Cardinality(Paid(d)) <= 1

\* No validator signs before the transaction a document is about has the
\* configured number of confirmations, although the status is recomputed from
\* stale heights and stale documents.
SignedIsConfirmed ==
    \A d \in Docs : db[d].signatures # {} =>
        \/ Confirmations = 0
        \/ height[CollectionOf(d)] - OriginHeight[d] >= Confirmations

\* What may become of a document in a step, once it is signed.
DocFrozen(old, new) ==
    /\ old.status = "signed" =>
           new \in {old, [old EXCEPT !.status = "submitted", !.hash = new.hash]}
    /\ old.status = "submitted" =>
           new \in {old, [old EXCEPT !.status = "success"],
                    [old EXCEPT !.status = "confirmed", !.hash = Nil,
                                !.signatures = {}, !.sequence = Nil]}
    /\ old.status \in {"success", "failed"} => new = old

\* Once signed, a document changes only as the executor intends, whatever
\* stale snapshots are written back: it is submitted with the signatures it
\* has, and then succeeds or loses signatures, sequence and hash together.
SignedIsFrozen == [][\A d \in Docs : DocFrozen(db[d], db'[d])]_vars

-----------------------------------------------------------------------------
(* Refinement: what the vault owes, and what it pays *)

Vault == INSTANCE VaultPayments WITH
    payments <- [d \in Docs |-> Cardinality(Paid(d))],
    settled  <- {d \in Docs : db[d].status = "success"},
    refused  <- {d \in Docs : db[d].status = "failed"}

\* The services implement the abstract vault: each step pays one document
\* that enough validators approve and that was not paid before, or closes
\* one, or is invisible.
VaultSpec == Vault!Spec

-----------------------------------------------------------------------------
(* Liveness *)

\* Every burn is paid in the end and its document says so.
BurnsArePaid == \A d \in Burns : <>(Paid(d) # {} /\ db[d].status = "success")

=============================================================================
