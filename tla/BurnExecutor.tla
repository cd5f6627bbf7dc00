---------------------------- MODULE BurnExecutor ----------------------------
(***************************************************************************)
(* The burn executor of every validator (cosmos/executor.go): it submits   *)
(* the return transaction of a signed document to Pocket, and later looks  *)
(* up whether the transaction succeeded.                                   *)
(*                                                                         *)
(* As in the signer, the documents of a pass are a snapshot read before    *)
(* any of them is locked.                                                  *)
(***************************************************************************)
EXTENDS PayoutDB

CONSTANT Executors  \* the validators with BurnExecutor.Enabled

ASSUME ExecutorsAssumption == Executors \subseteq Validators

VARIABLE executor   \* the local state of each validator's burn executor

ExecutorPC ==
    {"find",        \* about to read the documents of coll
     "loop",        \* between two documents of the snapshot
     "broadcast",   \* holds the lock, will call BroadcastTx
     "submit",      \* BroadcastTx succeeded, will write status submitted
     "check",       \* holds the lock, will call GetTx
     "succeed",     \* Code was 0, will write status success
     "reset"}       \* Code was not 0, will write status confirmed

ExecutorState ==
    [ pc   : ExecutorPC,
      coll : Collections,
      todo : SUBSET Docs,               \* snapshot documents still to do
      snap : [Docs -> Document],        \* what FindMany returned for them
      doc  : Docs \cup {Nil} ]          \* the document being handled

NewExecutor ==
    [ pc |-> "find", coll |-> "invalidMints", todo |-> {},
      snap |-> [d \in Docs |-> NewDocument], doc |-> Nil ]

ExecutorInit == executor = [v \in Validators |-> NewExecutor]

ExecutorWorker(v) == <<"executor", v>>

\* Back to the loop of SyncInvalidMints or SyncBurns, done with document d.
ExecutorDone(v, d) ==
    executor' = [executor EXCEPT ![v].pc = "loop", ![v].doc = Nil,
                                 ![v].todo = @ \ {d},
                                 ![v].snap = [@ EXCEPT ![d] = NewDocument]]

-----------------------------------------------------------------------------

\* ValidateSignaturesAndAddMultiSignatureToTxConfig: enough signatures, of
\* distinct keys, each valid for the document's sequence.
ValidSignatures(doc) ==
    /\ Cardinality(doc.signatures) >= Threshold
    /\ Cardinality(Signers(doc.signatures)) = Cardinality(doc.signatures)
    /\ \A sig \in doc.signatures : sig.sequence = doc.sequence

-----------------------------------------------------------------------------
(* Actions *)

ExecutorFind(v) ==
    /\ executor[v].pc = "find"
    /\ LET found == {d \in DocsOf(executor[v].coll) :
                        db[d].status \in {"signed", "submitted"}}
       IN  executor' = [executor EXCEPT
               ![v].pc = "loop", ![v].todo = found,
               ![v].snap = [d \in Docs |->
                               IF d \in found THEN db[d] ELSE NewDocument]]
    /\ UNCHANGED <<dbVars, chainVars>>

\* SyncTxs: the refunds first, then the burns, then the next Run.
ExecutorNextCollection(v) ==
    /\ executor[v].pc = "loop"
    /\ executor[v].todo = {}
    /\ executor' = [executor EXCEPT
           ![v].pc = "find",
           ![v].coll = IF @ = "burns" THEN "invalidMints" ELSE "burns"]
    /\ UNCHANGED <<dbVars, chainVars>>

\* XLock fails: another worker holds the document, or the call itself fails.
\* A pass whose FindMany fails is one that skips every document.
ExecutorSkip(v, d) ==
    /\ executor[v].pc = "loop"
    /\ d \in executor[v].todo
    /\ CallsFail \/ ~Unlocked(d)
    /\ ExecutorDone(v, d)
    /\ UNCHANGED <<dbVars, chainVars>>

\* XLock, then the branch of HandleInvalidMint or HandleBurn that the status
\* in the snapshot selects.
ExecutorHandle(v, d) ==
    /\ executor[v].pc = "loop"
    /\ d \in executor[v].todo
    /\ Unlocked(d)
    /\ LockDoc(d, ExecutorWorker(v))
    /\ executor' = [executor EXCEPT
           ![v].pc = IF executor[v].snap[d].status = "signed"
                     THEN "broadcast" ELSE "check",
           ![v].doc = d]
    /\ UNCHANGED <<db, readers, writer, chainVars>>

\* BroadcastTx or GetTx returns an error: the signatures or the sequence of
\* the transaction are not right, or no block has it.
Refused(v) ==
    LET d   == executor[v].doc
        doc == executor[v].snap[d]
    IN  \/ /\ executor[v].pc = "broadcast"
           /\ ~(ValidSignatures(doc) /\ Acceptable(ReturnTx(d, doc)))
        \/ /\ executor[v].pc = "check"
           /\ ~\E ok \in BOOLEAN : Found(doc.hash, ok)

\* A call fails, the handler returns false and the lock is released.
ExecutorAbort(v) ==
    /\ executor[v].doc # Nil
    /\ CallsFail \/ Refused(v)
    /\ UnlockDoc(executor[v].doc, ExecutorWorker(v))
    /\ ExecutorDone(v, executor[v].doc)
    /\ UNCHANGED <<db, readers, writer, chainVars>>

\* BroadcastTx in sync mode: it returns once CheckTx has accepted the
\* transaction, or the answer is lost and the handler gives up.
Broadcast(v) ==
    /\ executor[v].pc = "broadcast"
    /\ LET d   == executor[v].doc
           doc == executor[v].snap[d]
           tx  == ReturnTx(d, doc)
       IN  /\ ValidSignatures(doc)
           /\ Acceptable(tx)
           /\ mempool' = mempool \cup {tx}
           /\ \/ /\ executor' = [executor EXCEPT ![v].pc = "submit"]
                 /\ UNCHANGED locks
              \/ /\ CallsFail
                 /\ ExecutorDone(v, d)
                 /\ UnlockDoc(d, ExecutorWorker(v))
    /\ UNCHANGED <<db, readers, writer, height, ledger>>

\* Mutant of Submittable: UpdateOne without the filter on the status.
SubmittableAlways(d) == TRUE

\* UpdateOne records a submission only for a document that is still signed.
Submittable(d) == db[d].status = "signed"

Submit(v) ==
    /\ executor[v].pc = "submit"
    /\ LET d == executor[v].doc
       IN  /\ db' = IF Submittable(d)
                    THEN [db EXCEPT ![d].status = "submitted",
                                    ![d].hash = ReturnTx(d, executor[v].snap[d])]
                    ELSE db
           /\ UnlockDoc(d, ExecutorWorker(v))
           /\ ExecutorDone(v, d)
    /\ UNCHANGED <<readers, writer, chainVars>>

\* Mutant of CheckTx: the Code of the transaction is not looked at.
CheckTxIgnoresCode(v) ==
    /\ executor[v].pc = "check"
    /\ \E ok \in BOOLEAN : Found(executor[v].snap[executor[v].doc].hash, ok)
    /\ executor' = [executor EXCEPT ![v].pc = "succeed"]
    /\ UNCHANGED <<dbVars, chainVars>>

\* Mutant of CheckTx: a transaction that is in no block yet counts as failed.
CheckTxMissingFailed(v) ==
    /\ executor[v].pc = "check"
    /\ LET ok == Found(executor[v].snap[executor[v].doc].hash, TRUE)
       IN  executor' = [executor EXCEPT ![v].pc = IF ok THEN "succeed" ELSE "reset"]
    /\ UNCHANGED <<dbVars, chainVars>>

\* GetTx of the hash in the snapshot.
CheckTx(v) ==
    /\ executor[v].pc = "check"
    /\ \E ok \in BOOLEAN :
           /\ Found(executor[v].snap[executor[v].doc].hash, ok)
           /\ executor' = [executor EXCEPT ![v].pc = IF ok THEN "succeed" ELSE "reset"]
    /\ UNCHANGED <<dbVars, chainVars>>

\* UpdateOne records a result only for a document that is still submitted.
Checkable(d) == db[d].status = "submitted"

Succeed(v) ==
    /\ executor[v].pc = "succeed"
    /\ LET d == executor[v].doc
       IN  /\ db' = IF Checkable(d)
                    THEN [db EXCEPT ![d].status = "success"]
                    ELSE db
           /\ UnlockDoc(d, ExecutorWorker(v))
           /\ ExecutorDone(v, d)
    /\ UNCHANGED <<readers, writer, chainVars>>

\* Mutant of Reset: the signatures over the old sequence are kept.
ResetKeepsSignatures(v) ==
    /\ executor[v].pc = "reset"
    /\ LET d == executor[v].doc
       IN  /\ db' = IF Checkable(d)
                    THEN [db EXCEPT ![d].status = "confirmed",
                                    ![d].hash = Nil,
                                    ![d].sequence = Nil]
                    ELSE db
           /\ UnlockDoc(d, ExecutorWorker(v))
           /\ ExecutorDone(v, d)
    /\ UNCHANGED <<readers, writer, chainVars>>

\* The transaction failed: the document starts over as a confirmed one.
Reset(v) ==
    /\ executor[v].pc = "reset"
    /\ LET d == executor[v].doc
       IN  /\ db' = IF Checkable(d)
                    THEN [db EXCEPT ![d].status = "confirmed",
                                    ![d].hash = Nil,
                                    ![d].signatures = {},
                                    ![d].sequence = Nil]
                    ELSE db
           /\ UnlockDoc(d, ExecutorWorker(v))
           /\ ExecutorDone(v, d)
    /\ UNCHANGED <<readers, writer, chainVars>>

ExecutorNext(v) ==
    \/ ExecutorFind(v)
    \/ ExecutorNextCollection(v)
    \/ \E d \in Docs : ExecutorSkip(v, d) \/ ExecutorHandle(v, d)
    \/ ExecutorAbort(v)
    \/ Broadcast(v)
    \/ Submit(v)
    \/ CheckTx(v)
    \/ Succeed(v)
    \/ Reset(v)

=============================================================================
