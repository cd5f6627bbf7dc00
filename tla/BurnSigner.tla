----------------------------- MODULE BurnSigner -----------------------------
(***************************************************************************)
(* The burn signer of every validator (cosmos/signer.go, sequence.go,      *)
(* tx_sign.go): it confirms the documents of "invalidMints" and "burns",   *)
(* reserves a sequence of the vault account for each, and adds its own     *)
(* signature to the document's return transaction.                         *)
(*                                                                         *)
(* One action is one access to the shared state.  The documents handled    *)
(* in a pass are the snapshot FindMany returned at its beginning, although *)
(* each is locked only when its turn comes.                                *)
(***************************************************************************)
EXTENDS PayoutDB

VARIABLE signer     \* the local state of each validator's burn signer

SignerPC ==
    {"run",         \* between two passes
     "find",        \* about to read the documents of coll
     "loop",        \* between two documents of the snapshot
     "fail",        \* holds the lock, will write status failed
     "wait",        \* holds the lock, will write status and confirmations
     "sequence",    \* holds the lock, will read the maximal sequence
     "account",     \* holds SLock, will read the account's sequence
     "lock",        \* has signed, will take XLock on the sequences
     "sign"}        \* holds XLock, will write the signatures

SignerState ==
    [ pc      : SignerPC,
      accepts : SUBSET Docs,                \* the documents it validates
      height  : [Collections -> Nat],       \* cosmosHeight, ethBlockNumber
      coll    : Collections,
      todo    : SUBSET Docs,                \* snapshot documents still to do
      snap    : [Docs -> Document],         \* what FindMany returned for them
      doc     : Docs \cup {Nil},            \* the document being handled
      seq     : Nat \cup {Nil} ]            \* the sequence to sign with

\* NewBurnSigner: with the MintDisabled of the configuration and the maximal
\* amount of this start, the validator accepts these documents.
NewSigner(accepts) ==
    [ pc |-> "run", accepts |-> accepts, height |-> [c \in Collections |-> 0],
      coll |-> "invalidMints", todo |-> {},
      snap |-> [d \in Docs |-> NewDocument], doc |-> Nil, seq |-> Nil ]

SignerInit ==
    /\ signer \in [Validators -> {NewSigner(accepts) : accepts \in SUBSET Docs}]
    /\ \A v \in Validators : signer[v].accepts \in Approves[v]

SignerWorker(v) == <<"signer", v>>

\* Back to the loop of SyncInvalidMints or SyncBurns, done with document d.
SignerDone(v, d) ==
    signer' = [signer EXCEPT ![v].pc = "loop", ![v].doc = Nil, ![v].seq = Nil,
                             ![v].todo = @ \ {d},
                             ![v].snap = [@ EXCEPT ![d] = NewDocument]]

-----------------------------------------------------------------------------
(* Validation and confirmations *)

\* Mutant of Valid: the result of the validation is ignored.
ValidUnchecked(v, d) == TRUE

\* ValidateBurn and ValidateInvalidMint: what the chain says of the document's
\* transaction does not change, and neither do the settings until a restart.
Valid(v, d) == d \in signer[v].accepts

\* ParseInt of the stored confirmations: a negative number is read as zero.
StoredConfirmations(doc) ==
    IF doc.confirmations < 0 THEN 0 ELSE doc.confirmations

\* The count starts over unless an earlier pass stored a positive number.
Recounts(doc) == doc.status = "pending" \/ StoredConfirmations(doc) = 0

\* doc.Confirmations after UpdateStatusAndConfirmationsFor...
UpdatedConfirmations(d, doc, h) ==
    IF Recounts(doc) /\ Confirmations # 0
    THEN h - OriginHeight[d]
    ELSE StoredConfirmations(doc)

\* Mutant of UpdatedStatus: one confirmation too few.
UpdatedStatusEarly(d, doc, h) ==
    IF Recounts(doc)
    THEN IF Confirmations = 0 \/ h - OriginHeight[d] + 1 >= Confirmations
         THEN "confirmed"
         ELSE "pending"
    ELSE doc.status

\* doc.Status after UpdateStatusAndConfirmationsFor...
UpdatedStatus(d, doc, h) ==
    IF Recounts(doc)
    THEN IF Confirmations = 0 \/ h - OriginHeight[d] >= Confirmations
         THEN "confirmed"
         ELSE "pending"
    ELSE doc.status

-----------------------------------------------------------------------------
(* Sequences *)

\* The match on vault_address selects every refund, but no document of
\* "burns": a burn has no such field.
HasVaultAddress(d) == d \in InvalidMints

ReservedSequences ==
    {db[d].sequence : d \in {x \in Docs : HasVaultAddress(x)}} \ {Nil}

\* max is what $max returns for a set of sequences: Nil when it is empty.
IsMaxSequence(max, S) ==
    IF S = {} THEN max = Nil ELSE max \in S /\ \A s \in S : s <= max

\* Mutant of NextSequence: the case of no maximum is forgotten.
NextSequenceOrNil(max) ==
    IF max # Nil /\ max + 1 <= AccountSequence THEN AccountSequence ELSE max

\* The sequence FindMaxSequence chooses from the maximum it has read.
NextSequence(max) ==
    IF max = Nil \/ max + 1 <= AccountSequence THEN AccountSequence ELSE max + 1

\* The unique index on "sequence" of each collection.
UniqueSequence(d, s) ==
    \A other \in DocsOf(CollectionOf(d)) \ {d} : db[other].sequence # s

-----------------------------------------------------------------------------
(* Actions *)

\* UpdateBlocks: an error of the Pocket node leaves both heights as they
\* are, one of the Ethereum node the block number.
UpdateBlocks(v) ==
    /\ signer[v].pc = "run"
    /\ \E known \in {{}, {"invalidMints"}, Collections} :
           /\ CallsFail \/ known = Collections
           /\ signer' = [signer EXCEPT
               ![v].pc = "find", ![v].coll = "invalidMints",
               ![v].height = [c \in Collections |->
                                 IF c \in known THEN height[c] ELSE signer[v].height[c]]]
    /\ UNCHANGED <<dbVars, chainVars>>

\* FindMany of SyncInvalidMints and SyncBurns.
Unsigned(v, d) ==
    /\ db[d].status \in {"pending", "confirmed"}
    /\ v \notin Signers(db[d].signatures)

SignerFind(v) ==
    /\ signer[v].pc = "find"
    /\ LET found == {d \in DocsOf(signer[v].coll) : Unsigned(v, d)}
       IN  signer' = [signer EXCEPT
               ![v].pc = "loop", ![v].todo = found,
               ![v].snap = [d \in Docs |->
                               IF d \in found THEN db[d] ELSE NewDocument]]
    /\ UNCHANGED <<dbVars, chainVars>>

\* SyncTxs: the refunds first, then the burns, then the next Run.
SignerNextCollection(v) ==
    /\ signer[v].pc = "loop"
    /\ signer[v].todo = {}
    /\ signer' = [signer EXCEPT
           ![v].pc = IF signer[v].coll = "burns" THEN "run" ELSE "find",
           ![v].coll = "burns"]
    /\ UNCHANGED <<dbVars, chainVars>>

\* XLock fails: another worker holds the document, or the call itself fails.
\* A pass whose FindMany fails is one that skips every document.
SignerSkip(v, d) ==
    /\ signer[v].pc = "loop"
    /\ d \in signer[v].todo
    /\ CallsFail \/ ~Unlocked(d)
    /\ SignerDone(v, d)
    /\ UNCHANGED <<dbVars, chainVars>>

\* XLock succeeds: document d is under way.
SignerBegin(v, d, pc) ==
    /\ LockDoc(d, SignerWorker(v))
    /\ signer' = [signer EXCEPT ![v].pc = pc, ![v].doc = d,
                                ![v].seq = signer[v].snap[d].sequence]

\* XLock, then HandleInvalidMint or HandleBurn up to its next access to the
\* database.  A document that fails the validation without confirmations is
\* left alone, and unlocked in the same step.
SignerHandle(v, d) ==
    /\ signer[v].pc = "loop"
    /\ d \in signer[v].todo
    /\ Unlocked(d)
    /\ LET doc           == signer[v].snap[d]
           h             == signer[v].height[signer[v].coll]
           confirmed     == UpdatedStatus(d, doc, h) = "confirmed"
           confirmations == UpdatedConfirmations(d, doc, h)
           valid         == Valid(v, d)
       IN  \/ ~valid /\ confirmations = 0 /\ SignerDone(v, d) /\ UNCHANGED locks
           \/ ~valid /\ confirmations # 0 /\ SignerBegin(v, d, "fail")
           \/ valid /\ ~confirmed /\ SignerBegin(v, d, "wait")
           \/ valid /\ confirmed /\ doc.sequence = Nil /\ SignerBegin(v, d, "sequence")
           \/ valid /\ confirmed /\ doc.sequence # Nil /\ SignerBegin(v, d, "lock")
    /\ UNCHANGED <<db, readers, writer, chainVars>>

\* SLock or XLock on the sequences fails: it does not wait for the holder.
SequenceRefused(v) ==
    \/ signer[v].pc = "sequence" /\ writer # Nil
    \/ signer[v].pc = "lock" /\ ~(readers = {} /\ writer = Nil)

\* A document under way is given up when one of its calls fails: the handler
\* returns false and the locks are released.
SignerAbort(v) ==
    /\ signer[v].doc # Nil
    /\ CallsFail \/ SequenceRefused(v)
    /\ LET d == signer[v].doc
       IN  /\ SignerDone(v, d)
           /\ UnlockDoc(d, SignerWorker(v))
    /\ readers' = readers \ {SignerWorker(v)}
    /\ writer' = IF writer = SignerWorker(v) THEN Nil ELSE writer
    /\ UNCHANGED <<db, chainVars>>

\* Mutant of Writable: UpdateOne without the filter on the status.
WritableAlways(d) == TRUE

\* UpdateOne writes only a document that is still pending or confirmed.
Writable(d) == db[d].status \in {"pending", "confirmed"}

SignerFail(v) ==
    /\ signer[v].pc = "fail"
    /\ LET d == signer[v].doc
       IN  /\ db' = IF Writable(d)
                    THEN [db EXCEPT ![d].status = "failed"]
                    ELSE db
           /\ UnlockDoc(d, SignerWorker(v))
           /\ SignerDone(v, d)
    /\ UNCHANGED <<readers, writer, chainVars>>

SignerWait(v) ==
    /\ signer[v].pc = "wait"
    /\ LET d   == signer[v].doc
           doc == signer[v].snap[d]
           h   == signer[v].height[signer[v].coll]
       IN  /\ db' = IF Writable(d)
                    THEN [db EXCEPT
                             ![d].status = UpdatedStatus(d, doc, h),
                             ![d].confirmations = UpdatedConfirmations(d, doc, h)]
                    ELSE db
           /\ UnlockDoc(d, SignerWorker(v))
           /\ SignerDone(v, d)
    /\ UNCHANGED <<readers, writer, chainVars>>

\* FindMaxSequence, first half: SLock and the maximum over the documents.
ReadMaxSequence(v) ==
    /\ signer[v].pc = "sequence"
    /\ writer = Nil
    /\ readers' = readers \cup {SignerWorker(v)}
    /\ \E max \in ReservedSequences \cup {Nil} :
           /\ IsMaxSequence(max, ReservedSequences)
           /\ signer' = [signer EXCEPT ![v].pc = "account", ![v].seq = max]
    /\ UNCHANGED <<db, locks, writer, chainVars>>

\* FindMaxSequence, second half: the account, then Unlock; and the signature.
ReadAccount(v) ==
    /\ signer[v].pc = "account"
    /\ readers' = readers \ {SignerWorker(v)}
    /\ signer' = [signer EXCEPT ![v].pc = "lock", ![v].seq = NextSequence(@)]
    /\ UNCHANGED <<db, locks, writer, chainVars>>

LockSequence(v) ==
    /\ signer[v].pc = "lock"
    /\ readers = {} /\ writer = Nil
    /\ writer' = SignerWorker(v)
    /\ signer' = [signer EXCEPT ![v].pc = "sign"]
    /\ UNCHANGED <<db, locks, readers, chainVars>>

\* Mutant of FinalSignatures: the signature is pushed onto those in the database.
FinalSignaturesPushed(v) ==
    db[signer[v].doc].signatures \cup {[signer |-> v, sequence |-> signer[v].seq]}

\* The signatures of the snapshot with one more, as SignTx returns them.
FinalSignatures(v) ==
    signer[v].snap[signer[v].doc].signatures
        \cup {[signer |-> v, sequence |-> signer[v].seq]}

\* UpdateOne of a signed document, rejected by the unique index when another
\* document of the collection has the sequence; then both locks are released.
SignerSign(v) ==
    /\ signer[v].pc = "sign"
    /\ LET d == signer[v].doc
       IN  /\ db' = IF Writable(d) /\ UniqueSequence(d, signer[v].seq)
                    THEN [db EXCEPT
                             ![d].status = IF Cardinality(FinalSignatures(v)) >= Threshold
                                           THEN "signed" ELSE "confirmed",
                             ![d].signatures = FinalSignatures(v),
                             ![d].sequence = signer[v].seq]
                    ELSE db
           /\ UnlockDoc(d, SignerWorker(v))
           /\ SignerDone(v, d)
    /\ writer' = IF writer = SignerWorker(v) THEN Nil ELSE writer
    /\ UNCHANGED <<readers, chainVars>>

SignerNext(v) ==
    \/ UpdateBlocks(v)
    \/ SignerFind(v)
    \/ SignerNextCollection(v)
    \/ \E d \in Docs : SignerSkip(v, d) \/ SignerHandle(v, d)
    \/ SignerAbort(v)
    \/ SignerFail(v)
    \/ SignerWait(v)
    \/ ReadMaxSequence(v)
    \/ ReadAccount(v)
    \/ LockSequence(v)
    \/ SignerSign(v)

=============================================================================
