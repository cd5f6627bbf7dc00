------------------------------- MODULE Mints --------------------------------
(***************************************************************************)
(* Minting wPOKT for the deposits of POKT: the mint signers and the mint   *)
(* executors of all validators over one database, the contracts, the       *)
(* recipients who claim signed mints, crashes of validator processes, and  *)
(* locks that expire.                                                      *)
(***************************************************************************)
EXTENDS MintSigner, MintExecutor

CONSTANTS
    MaxHeight,      \* bound on the height of the Pocket chain
    Limits,         \* the values the owner gives to maxMintLimit later
    MaxCrashes,     \* bound on the crashes of validator processes
    LocksExpire     \* whether a lock may expire while it is in use

ASSUME BoundsAssumption ==
    /\ MaxHeight \in Nat /\ Limits \subseteq Nat
    /\ MaxCrashes \in Nat /\ LocksExpire \in BOOLEAN

VARIABLE crashes    \* crashes so far

vars == <<mints, known, locks, height, limit, minted, signer, executor, crashes>>

Init ==
    /\ DBInit
    /\ SignerInit
    /\ ExecutorInit
    /\ crashes = 0

-----------------------------------------------------------------------------
(* The environment *)

\* A block of the Pocket chain.
PocketBlock ==
    /\ height < MaxHeight
    /\ height' = height + 1
    /\ UNCHANGED <<mintVars, limit, minted, signer, executor, crashes>>

\* A mint monitor inserts the document of a deposit.
InsertMint(m) ==
    /\ m \notin known
    /\ known' = known \cup {m}
    /\ UNCHANGED <<mints, locks, chainVars, signer, executor, crashes>>

\* The owner of the mint controller sets maxMintLimit.
SetMintLimit(l) ==
    /\ limit = InitialLimit
    /\ l # InitialLimit
    /\ limit' = l
    /\ UNCHANGED <<mintVars, height, minted, signer, executor, crashes>>

\* The recipient calls mintWrappedPocket with the data and the signatures of
\* a signed document.  The contract wants the recipient's next nonce and
\* Threshold signatures of exactly these data.
Claim(m) ==
    LET doc == mints[m]
    IN  /\ doc.status = "signed"
        /\ doc.nonce = UserNonce(RecipientOf[m]) + 1
        /\ Cardinality({sig.signer : sig \in {s \in doc.signatures : s.nonce = doc.nonce}})
               >= Threshold
        /\ minted' = Append(minted, [mint |-> m, nonce |-> doc.nonce,
                                     signatures |-> doc.signatures])
        /\ UNCHANGED <<mintVars, height, limit, signer, executor, crashes>>

\* The process stops between two steps and starts again: both services lose
\* their local state, the executor begins at the configured start block or at
\* a cursor it has put into a health document, and the locks they hold stay
\* in the database.
Crash(v) ==
    /\ crashes < MaxCrashes
    /\ crashes' = crashes + 1
    /\ signer' = [signer EXCEPT ![v] = [NewSigner EXCEPT !.limit = limit]]
    /\ \E start \in 0 .. executor[v].start :
           executor' = [executor EXCEPT ![v] = [NewExecutor EXCEPT !.start = start]]
    /\ UNCHANGED <<mintVars, chainVars>>

\* Whether the worker that took the lock of recipient r still needs it.
InUse(r) ==
    \E v \in Validators :
        \/ /\ locks[r] = SignerWorker(v)
           /\ signer[v].mint # Nil
           /\ RecipientOf[signer[v].mint] = r
        \/ /\ locks[r] = ExecutorWorker(v)
           /\ executor[v].pc = "mark"
           /\ RecipientOf[EventRecipient(v)] = r

\* The TTL of a lock passes.
ExpireLock(r) ==
    /\ locks[r] # Nil
    /\ LocksExpire \/ ~InUse(r)
    /\ locks' = [locks EXCEPT ![r] = Nil]
    /\ UNCHANGED <<mints, known, chainVars, signer, executor, crashes>>

-----------------------------------------------------------------------------

SignerStep(v) == SignerNext(v) /\ UNCHANGED <<executor, crashes>>
ExecutorStep(v) == ExecutorNext(v) /\ UNCHANGED <<signer, crashes>>

Next ==
    \/ \E v \in Validators :
           \/ SignerStep(v)
           \/ v \in Executors /\ ExecutorStep(v)
           \/ Crash(v)
    \/ PocketBlock
    \/ \E m \in Mints : InsertMint(m) \/ Claim(m)
    \/ \E l \in Limits : SetMintLimit(l)
    \/ \E r \in Recipients : ExpireLock(r)

Spec == Init /\ [][Next]_vars

\* Every service runs in a loop of its own that never ends (app/runner.go),
\* the Pocket chain keeps making blocks, deposits reach the monitors,
\* recipients claim what they can, and locks nobody uses expire.
Fairness ==
    /\ \A v \in Validators : WF_vars(SignerStep(v))
    /\ \A v \in Executors : WF_vars(ExecutorStep(v))
    /\ WF_vars(PocketBlock)
    /\ \A m \in Mints : WF_vars(InsertMint(m)) /\ WF_vars(Claim(m))
    /\ \A r \in Recipients : WF_vars(ExpireLock(r))

FairSpec == Spec /\ Fairness

-----------------------------------------------------------------------------
(* Type correctness *)

\* Every variable holds a value of its type: documents, locks, the local
\* state of the services, and the chains.
TypeOK ==
    /\ DBTypeOK
    /\ signer \in [Validators -> SignerState]
    /\ executor \in [Validators -> ExecutorState]
    /\ crashes \in Nat

-----------------------------------------------------------------------------
(* Safety *)

\* The signatures of a document are by validators that accept it, and they
\* all cover the nonce stored with them: a writer with a stale snapshot
\* replaces signatures and nonce together (HandleMint writes both in one $set).
SignaturesAgree ==
    \A m \in Mints : \A sig \in mints[m].signatures :
        /\ sig.nonce = mints[m].nonce
        /\ m \in Accepts[sig.signer]

\* No two mints of one recipient that may still be minted, or were, have the
\* same nonce: only one of two such mints could ever be claimed.  Two
\* signers keep this, three do not: one with an old snapshot of a mint writes
\* its first nonce back after another has moved the mint to a higher one, and
\* a third mint is given the higher one meanwhile.
NoncesDistinct ==
    \A m, other \in Mints :
        /\ m # other
        /\ RecipientOf[m] = RecipientOf[other]
        /\ mints[m].status # "failed" /\ mints[other].status # "failed"
        /\ mints[m].nonce # Nil
        => mints[m].nonce # mints[other].nonce

\* The events of the wPOKT contract for document m.
MintedEvents(m) == {i \in 1 .. Len(minted) : minted[i].mint = m}

\* No deposit is minted twice, whatever crashes, overwritten signatures and
\* stale snapshots the validators go through.
MintedAtMostOnce == \A m \in Mints : Cardinality(MintedEvents(m)) <= 1

\* A mint that is recorded as successful has been minted, although the
\* executor recognises it by recipient, amount and nonce only.
SuccessIsMinted ==
    \A m \in Mints : mints[m].status = "success" => MintedEvents(m) # {}

\* No validator signs before the deposit has the configured number of
\* confirmations, although the status is recomputed from stale heights.
SignedIsConfirmed ==
    \A m \in Mints : mints[m].signatures # {} =>
        \/ Confirmations = 0
        \/ height - OriginHeight[m] >= Confirmations

\* What may become of a document in a step, once it is signed or closed.
DocFrozen(old, new) ==
    /\ old.status = "signed" => new \in {old, [old EXCEPT !.status = "success"]}
    /\ old.status \in {"success", "failed"} => new = old

\* Once signed, a document keeps nonce and signatures for the recipient to
\* claim, whatever stale snapshots are written back.
SignedIsFrozen == [][\A m \in Mints : DocFrozen(mints[m], mints'[m])]_vars

\* The cursor of a mint executor never passes an event whose document is not
\* marked as successful.
CursorIsSettled ==
    \A v \in Executors : \A i \in 1 .. executor[v].start :
        mints[minted[i].mint].status = "success"

-----------------------------------------------------------------------------
(* Refinement: what is owed to the recipients, and what is minted *)

Wrapped == INSTANCE WrappedMints WITH
    issued  <- [m \in Mints |-> Cardinality(MintedEvents(m))],
    settled <- {m \in Mints : mints[m].status = "success"},
    refused <- {m \in Mints : mints[m].status = "failed"}

\* The services implement the abstract token: each step mints one deposit
\* that enough validators accept and that was not minted before, or closes
\* one, or is invisible.
WrappedSpec == Wrapped!Spec

-----------------------------------------------------------------------------
(* Liveness *)

\* Every deposit is minted in the end and its document says so.
MintsSucceed == \A m \in Mints : <>(MintedEvents(m) # {} /\ mints[m].status = "success")

\* Every Minted event reaches its document.
MintedIsRecorded == \A m \in Mints : MintedEvents(m) # {} ~> mints[m].status = "success"

=============================================================================
