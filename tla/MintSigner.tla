----------------------------- MODULE MintSigner -----------------------------
(***************************************************************************)
(* The mint signer of every validator (eth/signer.go, eth/util/signer.go): *)
(* it confirms the documents of "mints", gives each a nonce of its         *)
(* recipient, and adds the validator's signature.                          *)
(*                                                                         *)
(* One action is one access to the shared state.  The documents handled    *)
(* in a pass are the snapshot FindMany returned at its beginning, although *)
(* each recipient is locked only when the turn of a document comes; the    *)
(* nonces of the recipient's other documents are read anew.                *)
(***************************************************************************)
EXTENDS MintDB

VARIABLE signer     \* the local state of each validator's mint signer

SignerPC ==
    {"run",         \* between two passes
     "find",        \* about to read the documents
     "loop",        \* between two documents of the snapshot
     "contract",    \* holds the lock, will read the contract's nonce
     "others",      \* holds the lock, will read the recipient's other mints
     "write"}       \* holds the lock, will validate and write the document

SignerState ==
    [ pc     : SignerPC,
      height : Nat,                     \* cosmosHeight
      limit  : Nat,                     \* maximumAmount
      todo   : SUBSET Mints,            \* snapshot documents still to do
      snap   : [Mints -> Document],     \* what FindMany returned for them
      mint   : Mints \cup {Nil},        \* the document being handled
      nonce  : Nat \cup {Nil} ]         \* the nonce FindNonce has come to

NewSigner ==
    [ pc |-> "run", height |-> 0, limit |-> InitialLimit, todo |-> {},
      snap |-> [m \in Mints |-> NewDocument], mint |-> Nil, nonce |-> Nil ]

SignerInit == signer = [v \in Validators |-> NewSigner]

SignerWorker(v) == <<"signer", v>>

\* Back to the loop of SyncTxs, done with document m.
SignerDone(v, m) ==
    signer' = [signer EXCEPT ![v].pc = "loop", ![v].mint = Nil, ![v].nonce = Nil,
                             ![v].todo = @ \ {m},
                             ![v].snap = [@ EXCEPT ![m] = NewDocument]]

-----------------------------------------------------------------------------
(* Validation, confirmations and signatures *)

\* Mutant of Valid: the result of ValidateMint is ignored.
ValidUnchecked(v, m) == TRUE

\* ValidateMint: the transaction on the Pocket chain does not change, the
\* maximal amount is the one this validator fetched last.
Valid(v, m) == m \in Accepts[v] /\ Amount[m] <= signer[v].limit

\* ParseInt of the stored confirmations: a negative number is read as zero.
StoredConfirmations(doc) ==
    IF doc.confirmations < 0 THEN 0 ELSE doc.confirmations

\* The count starts over unless an earlier pass stored a positive number.
Recounts(doc) == doc.status = "pending" \/ StoredConfirmations(doc) = 0

\* mint.Confirmations after UpdateStatusAndConfirmationsForMint.
UpdatedConfirmations(m, doc, h) ==
    IF Recounts(doc) /\ Confirmations # 0
    THEN h - OriginHeight[m]
    ELSE StoredConfirmations(doc)

\* Mutant of Confirmed: one confirmation too few.
ConfirmedEarly(m, doc, h) ==
    ~Recounts(doc) \/ Confirmations = 0 \/ h - OriginHeight[m] + 1 >= Confirmations

\* mint.Status is confirmed after UpdateStatusAndConfirmationsForMint.
Confirmed(m, doc, h) ==
    ~Recounts(doc) \/ Confirmations = 0 \/ h - OriginHeight[m] >= Confirmations

\* Mutant of FinalSignatures: the signature is pushed onto those in the database.
FinalSignaturesPushed(v, m) ==
    mints[m].signatures \cup {[signer |-> v, nonce |-> signer[v].nonce]}

\* Mutant of FinalSignatures: the data signed have the nonce of the snapshot.
FinalSignaturesOfSnapshot(v, m) ==
    signer[v].snap[m].signatures \cup {[signer |-> v, nonce |-> signer[v].snap[m].nonce]}

\* The signatures of the snapshot with one more, as SignMint returns them.
FinalSignatures(v, m) ==
    signer[v].snap[m].signatures \cup {[signer |-> v, nonce |-> signer[v].nonce]}

-----------------------------------------------------------------------------
(* Nonces *)

\* The documents of the same recipient whose data FindNonce reads.
OpenNonces(m) ==
    {mints[other].nonce : other \in {x \in known \ {m} :
        RecipientOf[x] = RecipientOf[m] /\ mints[x].status \in OpenStatus}} \ {Nil}

\* The larger of the contract's nonce and the largest of the open mints.
LargestNonce(contract, nonces) ==
    CHOOSE n \in nonces \cup {contract} : \A other \in nonces \cup {contract} : other <= n

-----------------------------------------------------------------------------
(* Actions *)

\* UpdateBlocks and UpdateMaxMintLimit: an error leaves what was known.
UpdateSigner(v) ==
    /\ signer[v].pc = "run"
    /\ \E h \in {height} \cup (IF CallsFail THEN {signer[v].height} ELSE {}) :
       \E l \in {limit} \cup (IF CallsFail THEN {signer[v].limit} ELSE {}) :
           signer' = [signer EXCEPT ![v].pc = "find", ![v].height = h, ![v].limit = l]
    /\ UNCHANGED <<mintVars, chainVars>>

\* FindMany of SyncTxs.
Unsigned(v, m) ==
    /\ m \in known
    /\ mints[m].status \in {"pending", "confirmed"}
    /\ v \notin Signers(mints[m].signatures)

SignerFind(v) ==
    /\ signer[v].pc = "find"
    /\ LET found == {m \in Mints : Unsigned(v, m)}
       IN  signer' = [signer EXCEPT
               ![v].pc = IF found = {} THEN "run" ELSE "loop",
               ![v].todo = found,
               ![v].snap = [m \in Mints |->
                               IF m \in found THEN mints[m] ELSE NewDocument]]
    /\ UNCHANGED <<mintVars, chainVars>>

\* The end of a pass.
SignerPassDone(v) ==
    /\ signer[v].pc = "loop"
    /\ signer[v].todo = {}
    /\ signer' = [signer EXCEPT ![v].pc = "run"]
    /\ UNCHANGED <<mintVars, chainVars>>

\* XLock fails: another worker holds the recipient, or the call itself fails.
\* A pass whose FindMany fails is one that skips every document.
SignerSkip(v, m) ==
    /\ signer[v].pc = "loop"
    /\ m \in signer[v].todo
    /\ CallsFail \/ ~Unlocked(m)
    /\ SignerDone(v, m)
    /\ UNCHANGED <<mintVars, chainVars>>

\* XLock, then FindNonce keeps the nonce the snapshot has.
SignerLock(v, m) ==
    /\ signer[v].pc = "loop"
    /\ m \in signer[v].todo
    /\ Unlocked(m)
    /\ LockRecipient(m, SignerWorker(v))
    /\ LET nonce == signer[v].snap[m].nonce
       IN  signer' = [signer EXCEPT
               ![v].pc = IF nonce \in {Nil, 0} THEN "contract" ELSE "write",
               ![v].mint = m, ![v].nonce = nonce]
    /\ UNCHANGED <<mints, known, chainVars>>

\* FindNonce, first half: GetUserNonce of the contract.
ReadUserNonce(v) ==
    /\ signer[v].pc = "contract"
    /\ signer' = [signer EXCEPT
           ![v].pc = "others", ![v].nonce = UserNonce(RecipientOf[signer[v].mint])]
    /\ UNCHANGED <<mintVars, chainVars>>

\* Mutant of ReadOtherNonces: the largest nonce is not counted up.
ReadOtherNoncesSame(v) ==
    /\ signer[v].pc = "others"
    /\ signer' = [signer EXCEPT
           ![v].pc = "write",
           ![v].nonce = LargestNonce(@, OpenNonces(signer[v].mint))]
    /\ UNCHANGED <<mintVars, chainVars>>

\* FindNonce, second half: FindMany of the recipient's other open mints.
ReadOtherNonces(v) ==
    /\ signer[v].pc = "others"
    /\ signer' = [signer EXCEPT
           ![v].pc = "write",
           ![v].nonce = LargestNonce(@, OpenNonces(signer[v].mint)) + 1]
    /\ UNCHANGED <<mintVars, chainVars>>

\* A call of HandleMint fails: nothing is written, the lock is released.
SignerAbort(v) ==
    /\ CallsFail
    /\ signer[v].mint # Nil
    /\ SignerDone(v, signer[v].mint)
    /\ ReleaseRecipient(signer[v].mint, SignerWorker(v))
    /\ UNCHANGED <<mints, known, chainVars>>

\* Mutant of Writable: UpdateOne without the filter on the status.
WritableAlways(m) == TRUE

\* UpdateOne writes only a document that is still pending or confirmed.
Writable(m) == mints[m].status \in {"pending", "confirmed"}

\* What HandleMint stores of document m: failed, signed, or still waiting.
Handled(v, m) ==
    LET snap == signer[v].snap[m]
        doc  == [mints[m] EXCEPT
                    !.confirmations = UpdatedConfirmations(m, snap, signer[v].height)]
    IN  IF ~Valid(v, m) THEN [mints[m] EXCEPT !.status = "failed"]
        ELSE IF ~Confirmed(m, snap, signer[v].height)
        THEN [doc EXCEPT !.status = "pending"]
        ELSE [doc EXCEPT
                 !.status = IF Cardinality(FinalSignatures(v, m)) >= Threshold
                            THEN "signed" ELSE "confirmed",
                 !.signatures = FinalSignatures(v, m),
                 !.nonce = signer[v].nonce]

\* HandleMint from ValidateMint to UpdateOne, then Unlock.
WriteMint(v) ==
    /\ signer[v].pc = "write"
    /\ LET m == signer[v].mint
       IN  /\ mints' = IF Writable(m) THEN [mints EXCEPT ![m] = Handled(v, m)] ELSE mints
           /\ ReleaseRecipient(m, SignerWorker(v))
           /\ SignerDone(v, m)
    /\ UNCHANGED <<known, chainVars>>

SignerNext(v) ==
    \/ UpdateSigner(v)
    \/ SignerFind(v)
    \/ SignerPassDone(v)
    \/ \E m \in Mints : SignerSkip(v, m) \/ SignerLock(v, m)
    \/ ReadUserNonce(v)
    \/ ReadOtherNonces(v)
    \/ SignerAbort(v)
    \/ WriteMint(v)

=============================================================================
