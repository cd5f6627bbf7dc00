# A verification of the wPOKT validator

TLA+ modules, TLC configurations and TLAPS proofs for the wPOKT validator
(`src/`), the program that bridges POKT on the Pocket network and wPOKT on
Ethereum. Paths below are relative to `src/`.

## The system

N validators (seven on mainnet, with a threshold of five) run the same program.
Each process starts seven services (`main.go:83-102`), one goroutine each, that
loop `Run` → publish health → wait an interval (`app/runner.go:28-48`). The
services of one process share no memory. All validators share one MongoDB:
collections `mints`, `invalidMints`, `burns`, `healthchecks`, and `locks`, which
`mongo-lock` uses for exclusive and shared locks with a 60 second expiry
(`app/database.go:94-131`). Everything the validators agree on goes through it.

    wPOKT holder --BurnAndBridge--> Ethereum --burn monitor--> burns ---------+
    POKT holder --send + memo--> vault --mint monitor--> mints | invalidMints |
    mints --mint signer (threshold)--> signed --user--> Ethereum --mint executor--> success
    burns, invalidMints --burn signer (threshold)--> signed --burn executor--> Pocket --> success

A document of `burns` or `invalidMints` is a payout that the vault, a multisig
account of the Pocket chain, owes somebody. Its status goes pending → confirmed
→ signed → submitted → success, back to confirmed when its return transaction
fails in a block, or to failed when a validator cannot validate it. A document
of `mints` goes pending → confirmed → signed; then its recipient claims it from
the contract with the stored nonce and signatures, and the mint executor that
sees the Minted event records it as success.

### Inventory

| component | state | operations | makes it correct | status |
|---|---|---|---|---|
| mint monitor (`cosmos/monitor.go`, `util/validate_tx.go`, `memo.go`) | cursor `startHeight`, the maximal amount of its start | classify deposits, insert | each deposit becomes one mint or one refund, none is skipped | modelled |
| mint signer (`eth/signer.go`, `eth/util/signer.go`) | height, contract data; during a pass the documents `FindMany` returned | find a nonce, confirm, sign, fail | one nonce per mint; signatures of one message; nothing is signed unconfirmed or unvalidated | modelled |
| mint executor (`eth/executor.go`) | cursor | match Minted events with documents | success means minted; the cursor passes no event it has not recorded | modelled |
| burn monitor (`eth/monitor.go`) | cursor | insert burns | each event is stored once, none is skipped | modelled |
| burn signer (`cosmos/signer.go`, `sequence.go`, `tx_sign.go`, `util/signer.go`) | the two heights; during a pass the documents `FindMany` returned | confirm, fail, reserve a sequence, sign | signatures fit the stored sequence; a sequence serves one document and is not skipped | modelled |
| burn executor (`cosmos/executor.go`) | during a pass, the documents `FindMany` returned | broadcast, record, check, close, reset | paid once; success means paid; what is paid gets recorded | modelled |
| health (`app/health.go`) | snapshot of the services' health | post, read at start | the cursor that survives a restart is one that was reached | modelled |
| runner, process (`app/runner.go`, `app/service.go`, `main.go`) | stop channel, wait group, health | start, run, stop | nothing runs after the database is disconnected; a signal ends the process | modelled |
| configuration, secrets (`app/config.go`, `env.go`, `gsm.go`, constructors) | the configuration | read, override, validate | it starts with exactly the sound configurations | modelled |
| keys, encodings (`app/signer.go`, `common/`) | none | derive addresses, sign with a KMS key | signatures are canonical and recoverable; all validators mean the same vault | partly: no byte encodings |
| database and locks (`app/database.go`, `models/`) | documents, locks | find, filtered update, unique indexes, XLock, SLock, Unlock | a filter protects what a lock no longer does | partly: the lock library is outside the repository |
| Pocket chain (`cosmos/client/client.go`) | account sequence, mempool, blocks | GetAccount, BroadcastTx, GetTx, paged queries | external | partly: as the services see it |
| Ethereum client, contracts (`eth/client/`) | blocks, nonces, the limit | events of a range, nonce, limit, minting | external | partly: as the services see it |
| generated bindings (`eth/autogen`) | – | the calls the services use | generated | partly |
| end-to-end tests, deployment | – | – | quoted for what they expect | not modelled |

### How the parts interact, and what is hard

The services meet only in database documents, so each hard behaviour is a
matter of what was read when:

- a pass of a signer or of the burn executor works on a **snapshot**: `FindMany`
  reads the documents at the start, each is locked only when its turn comes,
  and is handled as it was read;
- the locks do not wait: a worker that is refused drops the document until its
  next pass; and they expire while their holder waits for a node;
- choosing a sequence is **three steps** under two locks (read the maximum and
  the account, sign, write); choosing a nonce is **two reads** of two systems
  under a lock of the recipient, from a snapshot read before;
- submitting is **two steps** in two systems: broadcast, then record;
- the account accepts its sequences in order, and the contract a recipient's
  nonces, so one document that cannot move holds up all later ones;
- a cursor may pass only what is stored, while the chain grows between the read
  of the height, the pages or ranges of the query and the inserts, any of which
  may fail, and a restart begins where the last health document says;
- an event is recognised by its data, not by the document it is for;
- heights, settings and fetched limits are per validator and may differ; a
  validator may restart at any step; each call may fail, or take effect and lose
  its answer.

`PROJECT.json` lists the hazards, each at its line with the properties that
cover it.

## The modules

| module | what it is |
|---|---|
| `PayoutDB` | documents, locks, the vault account and its transactions: the shared state of payouts |
| `BurnSigner`, `BurnExecutor` | these services of every validator, one action per access to the shared state |
| `Payouts` | both over the database and the chain; blocks, failures, crashes, expiring locks; the properties |
| `VaultPayments` | the abstract specification: pay once with enough approvals, close only what is paid, never pay what was refused |
| `PayoutsProofs`, `PayoutsSafetyProofs`, `PayoutsVaultProofs` | theorems about `Payouts` |
| `MintDB` | the documents of mints, the recipients' locks, what the contract has minted |
| `MintSigner`, `MintExecutor` | these services of every validator |
| `BlockRanges` | how a monitor or executor of Ethereum cuts new blocks into ranges, for `MintExecutor` and `BurnMonitor` |
| `Mints` | both over the database, the contract and its users; the properties |
| `WrappedMints` | the abstract specification: issue once with enough approvals, settle only what is issued, never issue what was refused |
| `MintsProofs` | theorems about `Mints` |
| `ValidateTx` | the classification of a deposit |
| `MonitorDB` | the collections the monitors fill, and the health documents |
| `MintMonitor`, `BurnMonitor` | these services of every validator |
| `Monitors` | both over the database and the two chains, with health, restarts and reorganisations; the properties |
| `MonitorsProofs`, `MonitorsSafetyProofs` | theorems about `Monitors` |
| `Lifecycle`, `LifecycleProofs` | the goroutines of a process from start to end, and theorems about them |
| `KmsSigner` | the signatures of a KMS key, as functions over a small group |
| `Startup` | configuration, validation and connection before `Lifecycle`, signatures during it |
| `StartupProofs` | theorems about `Startup` and `KmsSigner` |
| `MCPayouts`, `MCMints`, `MCMonitors`, `MCProcess` | the constants of the TLC instances |

An operator whose comment begins with "Mutant of" is a plausible bug: with it
in place of the definition it names, a property of a run fails. Nothing refers
to these operators otherwise.

## From the code to the model

### Payouts

*State.* `db[d]` is a document; `locks[d]` the holder of `burns/<id>` or
`invalidMints/<id>`; `readers` and `writer` hold the shared and exclusive lock
`comsos_sequence`. `signer[v]` and `executor[v]` are a service's fields and the
local variables of a pass: `snap` is the slice `FindMany` filled, `todo` what is
left of it, `doc` the document under way. `ledger` is the sequence of the vault
account's transactions in blocks, so its length is the account's sequence.

*Actions.* A service's action runs from one access to database or node to the
next. `SignerHandle` is XLock together with the handler up to the branch it
takes; `SignerFail` and `SignerWait` are the two plain `UpdateOne`s;
`ReadMaxSequence`, `ReadAccount`, `LockSequence` and `SignerSign` are the four
accesses of a signature. In the executor, `ExecutorHandle` locks, `Broadcast` or
`CheckTx` talks to the node, and `Submit`, `Succeed` or `Reset` writes. The
write and the `Unlock` after it are one action: between them nobody else can do
anything with the document but be refused its lock. Documents of a pass are
handled in any order, which includes the order of the database.

*Filters.* Every `UpdateOne` filters on the status (`Writable`, `Submittable`,
`Checkable`); when nothing matches, the update is an error and the pass goes on.

*Failures.* With `CallsFail`, any call of a handler may fail: the handler
returns and releases its locks (`SignerAbort`, `ExecutorAbort`), XLock may be
refused for no reason, `UpdateBlocks` keeps one or both old heights, and
`Broadcast` may lose its answer after the node accepted. An `UpdateOne` that
takes effect and loses its answer is the same as one that succeeds, since no
caller looks at the result except to log it. `Crash` stops both services at any
step, resets their local state and leaves their locks. An `Unlock` that fails
leaves a lock behind like a crash does.

*Data.* Amounts, addresses, memos and transaction bodies never change after
insertion, so a document stands for its message. A signature is its signer and
the sequence it covers; the body's signatures and the field `signatures` are
always written together and are one set. A transaction stands for its hash.
What the chain says of a transaction in a block does not change, so the answer of
a validation depends on the document and on the settings of the validator:
`minimumAmount`, `maximumAmount` and `MintDisabled`, read at start
(`NewBurnSigner`, `UpdateMaxMintLimit`) and kept until the process ends.
`Approves[v]` has one set of accepted documents for each of the settings that `v`
may be started with; `SignerInit` and `Crash` choose one of them, and `Valid`
looks it up. Validators may differ, and a validator may sign a refund, restart,
and then refuse it.

*Confirmations* are kept as the code keeps them: recomputed while the status is
pending *or the stored number is zero* (`cosmos/util/signer.go:17,46`), not
stored with a signature, read as zero when negative. So a validator that lags
may write a confirmed document back to pending.

*Sequences* are chosen as in `FindMaxSequence`: the maximum over documents with
`vault_address`, a field that no burn has (`HasVaultAddress`).

### Mints

`mints[m]` is a document, `known` the set of those a monitor has inserted,
`locks[r]` the holder of a recipient's lock, `minted` the Minted events of the
contract, one per block. A pass of the signer is `UpdateSigner` (height and
limit), `SignerFind` (`FindMany`), and for each document `SignerLock` or
`SignerSkip`, `ReadUserNonce` and `ReadOtherNonces` (the two reads of
`FindNonce`, left out when the snapshot has a nonce), and `WriteMint`, which is
`HandleMint` from the validation to `UpdateOne` and `Unlock`. A pass of the
executor is `UpdateExecutor`, and for each range of `BlockRanges` `QueryMinted`,
`LockEvent` or `SkipEvent` and `MarkMint` for each event, and `FinishRange`,
which moves the cursor if everything succeeded. `MatchesEvent` is the filter of
the executor's `UpdateOne`: recipient, amount, nonce and status. `Claim` is a
recipient's transaction: the contract wants the next nonce and signatures of
exactly the stored data. `SetMintLimit` is the owner's. A crash puts the
executor's cursor back to any earlier one, which includes those of its health
documents. `Accepts` is the part of the validation that does not change; the
maximal amount is what the validator fetched last.

### Monitors

`paidAt` and `burnedAt` say in which block a deposit or burn event is, and `Nil`
that it is in none yet. A pass of the mint monitor is `UpdateCurrentHeight`,
`QueryPage` for each page, `FindElsewhere` and `InsertDeposit` for each
transaction, and `FinishTxs`. The query has no upper height, and pages are
numbered, so deposits of blocks after the height read first may be among them;
it ends without an error at `MaxPageDepth`. `Verdict` of `ValidateTx` goes
through the checks of `ValidateTxToCosmosMultisig` in their order. The burn
monitor has `UpdateCurrentBlockNumber`, `QueryBurns`, `PassOverBurn`,
`InsertBurn`, `FinishBurns`. `PostHealth` copies the last published cursors into
the validator's document; `Crash` makes both monitors anew from it (`LastHealth`,
`FirstCursor`), possibly with another value of `MintDisabled`. `Reorg` replaces
the newest Ethereum block. The unique indexes are `IsDuplicateBurn`, whose key is
the transaction alone, and the collections' being sets of deposits.

### Process

`Startup` has one action per stage of `main`: read the file, the variables and
the secrets, validate, connect, set up indexes, check the networks, create
health service and services. A stage that fails ends in `refused` when the
configuration is at fault and in another final stage when a call is. An address
of a multisig is its prefix, threshold and sequence of keys; a key is its number
in the order of the addresses, and `SortKeys` is `sort.Slice` of
`app/signer.go:82`: any sorted rearrangement, since keys of one address are one key. What was started then follows `Lifecycle`: a
service alternates `run` and `select`, `main` waits for a signal, stops every
service, waits for the wait group and disconnects. In a run of the burn signer
with a KMS key, `Sign` signs a digest with a nonce the KMS chooses; the curve is
a cyclic group of prime order, a point its multiple of the generator. (`EthSign`
is called by `scripts/gcp_kms` only.)

## The runs

| run | instance | checks |
|---|---|---|
| `payouts_faults` | a refund, two executors, threshold 2, a crash, one validator whose settings accept the refund at one start and not at another, a dropped transaction, locks that expire in use | `TypeOK`, `VaultSpec` |
| `payouts_two` | a burn and a refund one of two validators refuses, threshold 1, one executor, all calls may fail, a failed return transaction | `PayoutsApproved`, `SignaturesAgree`, `PaidAtMostOnce`, `SuccessIsPaid`, `SignedIsFrozen` |
| `payouts_live` | a burn of height 1 seen from heights 0 to 2, one executor, a failed return transaction, `FairSpec` | `SignedIsConfirmed`, `BurnsArePaid`, `VaultSpec` |
| `paid_twice` | a burn, two executors, threshold 2, a failed return transaction, no failing calls | finds `PaidAtMostOnce` violated |
| `mints_faults` | two mints of one recipient and one amount, two signers, one executor, ranges of one block, heights 0 to 2 for deposits of height 1, a crash, all calls may fail | `TypeOK`, `SuccessIsMinted`, `SignedIsConfirmed`, `CursorIsSettled`, `NoncesDistinct`, `WrappedSpec` |
| `mints_expiry` | two mints of one recipient, three signers, two of which refuse one of the mints, threshold 2, locks that expire in use, no executor | `MintedAtMostOnce`, `SignaturesAgree`, `SignedIsFrozen`, `WrappedSpec` |
| `mints_live` | two mints of two recipients, two signers, one executor, a crash, `FairSpec` | `MintsSucceed`, `MintedIsRecorded` |
| `nonce_twice` | three mints of one recipient, three signers, threshold 3, no failures at all; symmetric in signers and mints | finds `NoncesDistinct` violated |
| `monitors_faults` | one validator, two deposits (one without a valid memo), pages of one, two burns, ranges of one block, heights 2 to 5, a reorganisation, a crash, all calls may fail | `TypeOK`, `DepositsBehindCursorAreFiled`, `BurnsBehindCursorAreStored` |
| `monitors_live` | as before without failing calls; two valid deposits, one of them too large until the limit is raised, either value of `MintDisabled` at each start, one burn within the fee; fairness | `InOneCollection`, `DepositsAreFiled`, `BurnsAreStored` |
| `second_burn` | two burn events of one transaction | finds `BurnsBehindCursorAreStored` violated |
| `process` | eight files and ten environments around one that works, two services enabled, failing calls, a group of order 7 | `TypeOK`, `NoRunAfterDisconnect`, `StartedIsSound`, `SoundIsNotRefused`, `EthSignaturesRecover`, `CosmosSignaturesAreCanonical`, `SignalEndsProcess` |

Only `nonce_twice` uses symmetry: the others name validators, or have temporal
properties. Deadlock is checked in every run but `process`, since a process ends.
`MCMonitors` adds a variable `chain`: a behaviour of these instances follows one
of the two chains and restarts on the way, because the two monitors of a
validator share only their process and its health document. The theorems are
about `Monitors` itself, with both chains at once.

### Properties

`VaultSpec` says that `Payouts` implements `VaultPayments` with the payments
counted in the ledger and the statuses success and failed read from the
documents: each step pays one document, closes one, or is invisible. It implies
that no document is paid twice, that none is closed before it is paid, that a
failed document is not paid, and that no closed document is reopened.
`PaidAtMostOnce` is its core alone, for the larger run with a failed return
transaction and the one that violates it. `WrappedSpec` says the same of `Mints`
and `WrappedMints`.
`SignedIsFrozen`, of payouts and of mints, is about writers with old snapshots:
from signed on, a document changes only by being submitted, closed or reset.
`SignaturesAgree`, `SignedIsConfirmed` and `PayoutsApproved` relate what is
stored or sent to the sequence or nonce, the height and the approvals it rests
on. `SuccessIsMinted` and `CursorIsSettled` are about the executor's match of an
event with a document. `DepositsBehindCursorAreFiled` and
`BurnsBehindCursorAreStored` speak of every cursor a validator works with or would
restart from: the one in memory, the one it published and the one in its health
document. `InOneCollection` is what the look into the other collection is for: a monitor
that restarts at an older cursor with other settings meets its own documents.
`StartedIsSound` and `SoundIsNotRefused` together say that the order of stages,
overrides and checks accepts exactly the configurations `Sound` describes; the
second is about the step that refuses, as the file and the variables may have been
replaced in memory by then.

### Bounds

*Payouts.* Two validators and a threshold of two are the least for which a
document is written by several signers; the hazards found are races of two
workers. A threshold of one, below the number of validators, is the least for
which a signer that is no longer needed still has an old snapshot while the
executor is at work: with two of two and locks that do not expire every signer
is needed, and none is late. Sequences are what documents compete for, hence two
documents, one of each collection. `MaxHeight` is one past the heights at which
a status can change. `MaxFailed`, `MaxDropped` and `MaxCrashes` bound faults; a
failed transaction sends a document through the whole cycle twice.

*Mints.* Nonces are what mints of one recipient compete for, hence two mints of
one recipient; equal amounts leave the nonce as the executor's only distinction.
Three signers for a threshold of two are the least for which one is late. With
two signers nonces stay distinct (`mints_faults`, and a theorem for any number of
mints); `nonce_twice` has three signers and three mints. One crash, since what a crash leaves behind (a lock,
a cursor put back) is there for all that follows.

*Monitors.* Pages of one and ranges of one block make every deposit and every
block a boundary. Four heights leave room for a deposit before, during and after
a pass that a restart repeats. In `monitors_faults` the two pages that
`MaxPageDepth` allows are just enough for the two deposits. In `monitors_live` one
deposit is within the limit and one is not until it is raised; since either value
of `MintDisabled` may hold before and after the restart, the restarted monitor
meets a mint it would have to refund by now as well as a refund it could mint, so
both lookups find something. One validator: to its cursors others only add
documents, and the theorems about cursors are for any number; `InOneCollection`
needs one, or agreement (`OneCollection`, `OneCollectionAgreed`).

*Process.* One file and one environment that are wrong at each check, and
combinations in which one corrects or spoils the other. A group of order 7 has
points with either parity, an S above and below half the order, and two nonces
for each x coordinate.

### Fairness

`FairSpec` assumes weak fairness of each validator's services, as every service
is a goroutine in a loop, and every call returns (`app/runner.go:34-47`); that
the chains make blocks and include what they accepted; that deposits reach a
monitor, that recipients claim what they can, and that locks nobody uses expire.
Nothing is assumed of `Crash`, `Drop` and of locks that expire in use. In
`Lifecycle`, `StopReceived` is strongly fair: a `select` whose two channels are
both ready picks at random, so it does not pass over the closed one for ever.
`Startup` adds weak fairness of the stages of `main`.

`BurnsArePaid` is stated for one burn, two signers and one executor without
failing calls. With two burns it does not hold even under strong fairness of
`LockSequence`: the lock `comsos_sequence` is tried and not waited for, and two
signers that keep in step refuse it to each other. With two executors and a
failed transaction it does not hold for the reason `paid_twice` shows.
`MintsSucceed` is stated for the mints of two recipients, which share no lock and
no nonces.

### What the violations say

1. `paid_twice`: an executor decides on the hash in its snapshot, but its
   `UpdateOne` matches whatever is submitted now
   (`cosmos/executor.go:193-209`, `300-316`). If the return transaction failed,
   another executor reset the document, and it was signed and submitted anew
   since the snapshot, the stale executor resets it again; the
   second transaction and a third one both pay.
2. `second_burn`: the unique index of `burns` is on `transaction_hash` and
   `d.logger.index` (`app/database.go:178`), a field no document has, so the
   second event of a transaction is a duplicate, and duplicates count as stored
   (`eth/monitor.go:62-70`): the cursor passes a burn nobody pays.
3. `nonce_twice`: `HandleMint` writes the nonce of its snapshot, or a new one if
   the snapshot has none (`eth/signer.go:85-143`, `330`), whatever the document
   has by now. A mint's nonce therefore moves up, when a signer with an empty
   snapshot comes late, and back, when one with an earlier snapshot follows; a
   third mint is given the higher one in between. In the end two signed mints
   have one nonce and one of them can never be claimed.

Other scenarios that the model has, and why no property forbids them:

- *Gap of sequences*: a signer with a snapshot from before another signer
  reserved a sequence for the same refund chooses again
  (`cosmos/signer.go:167-173`); the maximum is now the refund's own sequence, so
  it takes the next one and overwrites. The account waits for the sequence in
  between, for ever. A document that is failed keeps its sequence
  (`cosmos/signer.go:229`) with the same effect.
- *Paid and not recorded*: between `BroadcastTx` and the `UpdateOne` that stores
  the hash (`cosmos/executor.go:164-222`, `271-329`) a restart, or an error of
  the database, loses the hash. The document stays signed, each later pass
  broadcasts a used sequence, and nothing looks the payment up.
- *Shared sequence*: a refund and a burn may be given the same sequence, as the
  maximum over burns is always empty (`cosmos/sequence.go:44`); the one that is
  submitted second stays signed.
- *Gap of nonces*: a mint that fails, or moves to a higher nonce, leaves one
  behind that the contract waits for (`eth/signer.go:107`).
- *Wrong document marked*: with equal nonces and amounts the event of one mint
  marks another (`eth/executor.go:67`). `SuccessIsMinted` therefore rests on
  `NoncesDistinct`, which two signers keep while locks outlast their use.
- *Both collections*: two validators that disagree on `MintDisabled` look and
  insert in turns (`cosmos/monitor.go:132`), and a lookup that fails counts as
  finding nothing; and a mint whose amount is above a lowered limit is not looked
  for at all after a restart (`cosmos/monitor.go:94`). `InOneCollection` is
  checked with one validator, calls that work, and a limit that rises.
- *Lost deposits*: with `StartHeight = 0` a restart before the first health
  document begins at the current height (`cosmos/monitor.go:205`), and a query of
  more than `maxPageDepth` pages ends without an error (`client.go:215`).

## The proofs

Eight modules prove, for every value of the constants that the named assumptions
of the modules allow (TLC evaluates these in every run):

| theorem | states |
|---|---|
| `TypeCorrect`, `MintsTypeOK`, `MonitorsTypeOK`, `LifecycleTypeOK` | `Spec => []TypeOK` of each system |
| `OnlyApprovedPayouts` | `Spec => []PayoutsApproved` |
| `SignaturesAlwaysAgree`, `MintSignaturesAgree` | `Spec => []SignaturesAgree` |
| `SuccessAlwaysPaid` | `Spec => []SuccessIsPaid` |
| `SignedStaysFrozen`, `MintSignedIsFrozen` | `Spec => SignedIsFrozen` |
| `SignedAlwaysConfirmed`, `MintSignedIsConfirmed` | `Spec => []SignedIsConfirmed` |
| `NeverPaidTwice` | `NoStaleReset => (Spec => []PaidAtMostOnce)`, where `NoStaleReset` is `MaxFailed = 0 \/ \A v, w \in Executors : v = w` |
| `VaultImplemented` | `NoStaleReset => (Spec => VaultSpec)` |
| `NeverMintedTwice` | `Spec => []MintedAtMostOnce` |
| `SuccessAlwaysMinted` | `Spec /\ []NoncesDistinct => []SuccessIsMinted` |
| `CursorAlwaysSettled` | `Spec /\ []NoncesDistinct => []CursorIsSettled` |
| `WrappedImplemented` | `Spec /\ []NoncesDistinct => WrappedSpec` |
| `NoncesStayDistinct` | `NoLateSigner => (Spec => []NoncesDistinct)`, where `NoLateSigner` is: locks do not expire in use, and the threshold is one or there are at most two validators |
| `SuccessMintedUnlessLate`, `CursorSettledUnlessLate`, `WrappedUnlessLate` | the three theorems before it, with `NoLateSigner` in the place of `[]NoncesDistinct` |
| `DepositsFiled` | `Spec => []DepositsBehindCursorAreFiled`, if the start height is configured and not after the first deposit, and all deposits fit into the pages |
| `BurnsStored` | `Spec => []BurnsBehindCursorAreStored`, if the start block is configured and not after the first burn, and no two burns are of one transaction |
| `OneCollection` | `Spec => []InOneCollection`, if one validator monitors the deposits, its calls work and the limit only rises (`OneMonitorRising`) |
| `OneCollectionAgreed` | `Spec => []InOneCollection`, if all starts have one value of `MintDisabled` and the limit stays (`SettingsAgree`) |
| `LifecycleNoRunAfterDisconnect` | `Spec => []NoRunAfterDisconnect` |
| `StartsSound` | `ProcessSpec => []StartedIsSound` |
| `RefusesUnsound` | `ProcessSpec => SoundIsNotRefused` |
| `ProcessIsLifecycle`, `ProcessLifecycle` | `ProcessSpec => Spec`, where `Spec` is that of `Lifecycle`, and so `ProcessSpec => [](TypeOK /\ NoRunAfterDisconnect)` |
| `EthSignaturesRecovered` | `ProcessSpec => []EthSignaturesRecover` |
| `CosmosSignaturesCanonical` | `ProcessSpec => []CosmosSignaturesAreCanonical` |

### Payouts

`TypeOK` alone is not inductive. `TypeInv` adds the control state: a service
holds a document exactly between lock and unlock, a signer about to write has a
sequence, and an executor that has broadcast has seen valid signatures, so that
the stored hash is that of a well-formed transaction.

`SafetyInv` adds what must be known of *copies*. A snapshot may be older than
the document, so no relation between the two can be inductive; what is
inductive is that each copy is right by itself: its signatures fit its own
sequence and are by validators that may approve it (`DocApproved`), and the hash of a
submitted copy pays that document (`HashPays`). To that, each program counter
adds what its holder has established: a signer past the validation accepts the
document under its settings of this start, which `Approves` allows; a
sequence of its own choice is for a copy without one, and so without
signatures; an executor about to write success has seen the
payment, which the ledger never loses. With these, each write is right whatever
it overwrites, and each transaction sent carries approved signatures
(`ChainOK`). `SignerSafetyStep`, `ExecutorSafetyStep` and `CommitSafetyStep`
take the actions one by one.

`SignedStaysFrozen` needs only the types: each write is filtered on the status
(`SignerWrites`). `ConfirmedInv` is about copies again: whoever claims
confirmations, a copy by its status or signatures or a signer by where it is in
its handler, is right to (`ClaimOK`, `SignerClaims`), since a signer's height is
never above the chain's and belongs to the collection it is handling.

`VaultInv` relates the copies to the database after all, from signed on. A
document keeps its sequence and signatures once it is signed, until it is reset
(`ClosedKept`). So every transaction on its way, and every one that has paid, is
the one its document determines (`SentCurrent`); the ledger takes transactions
in the order of their sequences (`LedgerInOrder`), and what is on its way is for
later places. The crux is the reset. An executor that resets has found the
transaction of its snapshot failed in a block; if that snapshot is current, the
place that the document's sequence names is taken by the failed transaction, so
no other transaction of the document is on its way, and none has paid
(`ResetUnsent`). Snapshots stay current because the only executor forgets the
document it resets (`ResetForgotten`); if no transaction fails there is no reset.
That is `NoStaleReset`, and `paid_twice`, with two executors and one failed
transaction, is a counterexample without it. A document is then paid at one
place at most (`PaidPlace`), however often it is broadcast, and the refinement
follows: a successful `Commit` is `Pay`, `Succeed` is `Settle`, `SignerFail` is
`Refuse`, and every other step, a reset included, is invisible (`StepRefines`).
Crashes, dropped transactions, expired locks and resets may be as many as one
likes.

### Mints

`TypeInv` adds where a signer is (`SignerControl`) and that every set of nonces
in the database has a largest element (`NoncesBounded`): what `FindNonce` chooses
must exist. The natural proof, by induction over finite sets, is out of the
prover's reach, so it is an induction over states: each write adds one nonce.
`CopiesInv` says of each copy of a document, in the database or in a snapshot,
that its own nonce fits its own signatures, that the signers accept it, and that
a status or signature that claims confirmations is right to. `EventsInv` says
that a minted document keeps the nonce of its event, at most the contract's:
since the contract wants the next nonce and a signed mint is frozen, it is not
minted again, however nonces collide. `CursorInv` follows an executor's pass:
while every event so far was handled, the documents of the events behind it are
marked (`PassOK`, `Settled`). That an event marks its own document, and not
another with the same data, is where `NoncesDistinct` is needed, and it is a
hypothesis of three theorems because `nonce_twice` shows that it may fail. The
third is the refinement: `Claim` is `Issue`, with the approvals that `CopiesInv`
finds behind the signatures, `MarkMint` is `Settle`, a `WriteMint` that fails the
mint is `Refuse`, and every other step is invisible (`WrappedStep`).

`NonceInv` proves `NoncesDistinct` where it does hold. Two accesses of `FindNonce`
and the write after them exclude each other per recipient, as locks outlast their
use (`LocksHeld`, `LocksStep`): while a signer is at work on a mint, the other
mints of the recipient stay as they are (`RivalsStay`). So the nonce from the two
reads is above every nonce that was minted and every one that is open
(`NonceFresh`). The other source of nonces is the snapshot. As long as the document
may be written, a snapshot with a nonce has the document's own (`CopyCurrent`):
whoever could have changed it since is the other signer, whose signature it already
has, and who does not sign it again (`CopyKept`). With three signers that argument
fails, and `nonce_twice` is the counterexample; when one signature is enough, the
first write closes the document (`SignedAtOnce`). `NonceInv` includes `CursorInv`,
whose step needs distinct nonces, and is itself used for them: a mint recorded as
successful has a nonce that the contract has passed (`SuccessIsPassed`).

### Monitors

`DepositInv` joins the types, what is known of the chain (`PaidInv`: no deposit
is above the height) and that each monitor is good (`GoodMints`): what its cursor
has passed is filed, and during a successful pass what lies between the cursor
and the height read first is filed, still to do, or not queried yet. The last
page is the hard case: that no page is left when the page number reaches
`MaxPageDepth` is a matter of counting, and needs that the deposits are finite
and at most `MaxPageDepth * PageSize`. `BurnInv` has the same shape over ranges.
A reorganisation concerns the newest block only, and a cursor is at most at the
newest block, so the range of the next query begins with what may change.

`CollectionInv` is about what a monitor remembers. Its maximal amount is one it
fetched before, so at most the limit, and what is in `mints` may be minted under
that amount (`MintsMayBe`): a mint stays acceptable when the limit rises
(`RisingKeepsMint`), so a restarted monitor refunds an existing mint only
because of `MintDisabled`, and in that case it looks for it. `LookedUp` carries
what the lookup found over the insert that follows. With two monitors, a lookup
that fails, or a falling limit none of this holds; then nothing but agreement on
the settings helps, and with it nothing else is needed (`AgreedInv`): the place of
each deposit is a function of its transaction.

### The process

`LifecycleTypeOK` rests on an invariant that relates the counter of the wait
group to the services that have not finished (`WaitGroupCountsUnfinished`):
every service counts itself down once, a running one when its loop ends and an
empty one in `Stop`.

`StartInv` says of each stage what the configuration has passed by then: from the
secrets on the named ones are read, from the validation on every check holds, and
no later stage changes what the check was about. A refusal is shown from the other
side: each stage that refuses names a check, and `Sound` implies it
(`RefusedStep`). Most of it is propositional; the vault's address is not. That the
code's comparison with the sorted keys accepts the address of exactly the multisig
of these keys, in whatever order a file lists them, needs that there is a sorted
rearrangement and only one (`SortingOrder`, `SortKeysUnique`), for sequences of any
length. The textbook proof is an induction over the length; here it counts. A
key's rank is the number of positions that are smaller, or equal and not later;
ranks are distinct, so they are a bijection and its inverse sorts. If two sorted
rearrangements differed at position `i`, one would have the smaller key there, and
its first `i` keys would be among the first `i - 1` of the other (`NotSmaller`).

`ProcessStep` maps each stage of `main` to a stutter of `Lifecycle` and every other
step to itself, so what is proved of `Lifecycle` holds of the process.

The signatures are arithmetic modulo the order of the group. That the order is a
prime enters as `OrderAssumption` of `KmsSigner` (above 2, and it divides no product
of two positive numbers below it), which TLC evaluates for the order of the run.
From it follow cancelling, that multiplying is one to one and so inverses exist
(`InverseExists`), and that the order is odd, so that a point and its opposite have
different parities and are the only two with their x coordinate (`Points`). A
recovery ID therefore names the signer's key and no other (`SignatureRecovers`),
and negating S gives the signature of the opposite nonce (`OppositeSigns`): exactly
one of the two is canonical.

### What is only model-checked

Liveness: under fairness it is out of the prover's reach, and so is `ENABLED`. Every
invariant and every action property of the runs is a theorem. Three theorems
about `Mints` rest on `[]NoncesDistinct`, which is proved for two signers and for a
threshold of one, and which `nonce_twice` violates with three signers that are all
needed. What lies between, a threshold of two with more signers and locks that
expire in use, is checked only for what does not depend on it (`mints_expiry`).

## The plan

Done: payouts, mints, monitors with health and restarts, the process with its
configuration, each with its runs and theorems.

Left, in this order:

1. `Monitors` and `Payouts` composed, with one mint limit for both: a deposit is
   minted or refunded, not neither. Each has the settings of a start by itself.
2. The sequence protocol for many documents: gaps left by failed documents,
   duplicates across the collections.

## Not modelled

- Cryptography proper and byte encodings (hex, bech32, the codec, EIP-712 hashes):
  a signature covers the data the model names. Only the KMS signer's treatment
  of its answers is modelled, over a small group.
- RPC and gRPC transport, and what chooses between them; calls without a
  deadline (`eth/executor.go:102`): every call of the model returns.
- Changes of the contract's `signerThreshold` and validator set
  (`eth/signer.go:379`): both are constants.
- Reorganisations of either chain deeper than the newest block, or below the
  configured confirmations.
- The lock library. That locks expire rests on the comment at
  `app/database.go:104`; the repository starts no purger of expired locks.
- Logging, and the generated contract bindings beyond the calls in use.
- Which services run is fixed for the process: `RunnersAssumption` says that all
  sound configurations of an instance enable the same ones.
