------------------------ MODULE PayoutsSafetyProofs ------------------------
(***************************************************************************)
(* The safety properties of Payouts that hold whatever fails: only         *)
(* approved payouts reach Pocket, status success means paid, and signers   *)
(* with old data neither touch a document that is signed nor sign one that *)
(* is not confirmed.                                                       *)
(***************************************************************************)
EXTENDS PayoutsProofs

-----------------------------------------------------------------------------
(* The inductive invariant *)

\* The signatures of a copy of document d, in the database or in a snapshot.
DocApproved(d, doc) ==
    \A sig \in doc.signatures :
        sig.sequence = doc.sequence /\ MayApprove(sig.signer, d)

\* The hash of a submitted copy of document d is of a transaction that pays d.
HashPays(d, doc) == doc.status = "submitted" => doc.hash.doc = d

DocOK(d, doc) == DocApproved(d, doc) /\ HashPays(d, doc)

DocsOK == \A d \in Docs : DocOK(d, db[d])

\* What a signer knows about the document it has locked: whether it is valid,
\* and that a sequence of its own choice is for one without signatures.
SignerOK(v, s) ==
    /\ \A d \in Docs : DocOK(d, s.snap[d])
    /\ \A d \in Docs : s.snap[d].status \in {"pending", "confirmed"}
    /\ s.accepts \in Approves[v]
    /\ s.pc = "fail" => s.doc \notin s.accepts
    /\ s.pc \in {"sequence", "account", "lock", "sign"} => s.doc \in s.accepts
    /\ s.pc \in {"sequence", "account"} => s.snap[s.doc].sequence = Nil
    /\ s.pc \in {"lock", "sign"} => s.snap[s.doc].sequence \in {Nil, s.seq}

SignersOK == \A v \in Validators : SignerOK(v, signer[v])

\* What an executor knows about the document it has locked: the status of its
\* snapshot, and that it is paid when GetTx has returned Code 0.
ExecutorOK(s) ==
    /\ \A d \in Docs : DocOK(d, s.snap[d])
    /\ \A d \in s.todo : s.snap[d].status \in {"signed", "submitted"}
    /\ s.pc \in {"broadcast", "submit"} => s.snap[s.doc].status = "signed"
    /\ s.pc \in {"check", "succeed", "reset"} => s.snap[s.doc].status = "submitted"
    /\ s.pc = "succeed" => Paid(s.doc) # {}

ExecutorsOK == \A v \in Validators : ExecutorOK(executor[v])

TxApproved(tx) ==
    /\ Cardinality(tx.signers) >= Threshold
    /\ \A v \in tx.signers : MayApprove(v, tx.doc)

ChainOK ==
    /\ \A tx \in mempool : TxApproved(tx)
    /\ \A i \in 1 .. Len(ledger) : TxApproved(ledger[i].tx)

SafetyInv == TypeInv /\ DocsOK /\ SignersOK /\ ExecutorsOK /\ ChainOK /\ SuccessIsPaid

-----------------------------------------------------------------------------
(* Lemmas *)

\* A document as the monitor inserts it carries nothing that can be wrong.
LEMMA NewDocumentOK ==
    /\ \A d \in Docs : DocOK(d, NewDocument)
    /\ NewDocument.status = "pending"
BY DEF DocOK, DocApproved, HashPays, NewDocument

\* A right local state for one signer keeps what all signers know right.
LEMMA SignersUpdate ==
    ASSUME signer \in [Validators -> SignerState], SignersOK,
           NEW v \in Validators, NEW new, SignerOK(v, new),
           signer' = [signer EXCEPT ![v] = new]
    PROVE  SignersOK'
BY DEF SignersOK, SignerOK, DocOK, DocApproved, HashPays

\* A signer that is done with a document forgets what it knew about it.
LEMMA SignersDone ==
    ASSUME signer \in [Validators -> SignerState], SignersOK,
           NEW v \in Validators, NEW d, SignerDone(v, d)
    PROVE  SignersOK'
<1> DEFINE old == signer[v]
           new == [old EXCEPT !.pc = "loop", !.doc = Nil, !.seq = Nil,
                              !.todo = @ \ {d},
                              !.snap = [@ EXCEPT ![d] = NewDocument]]
<1>1. signer' = [signer EXCEPT ![v] = new]
  BY DEF SignerDone
<1>2. /\ new.pc = "loop" /\ new.snap = [old.snap EXCEPT ![d] = NewDocument]
      /\ new.accepts = old.accepts
  BY DEF SignerState
<1>3. old.snap \in [Docs -> Document]
  BY DEF SignerState
<1> HIDE DEF new
<1>4. SignerOK(v, new)
  BY <1>2, <1>3, NewDocumentOK DEF SignersOK, SignerOK
<1> QED
  BY <1>1, <1>4, SignersUpdate

\* While the ledger does not change, nothing an executor knows goes stale.
LEMMA ExecutorsUpdate ==
    ASSUME executor \in [Validators -> ExecutorState], ExecutorsOK,
           UNCHANGED ledger,
           NEW v \in Validators, NEW new, ExecutorOK(new),
           executor' = [executor EXCEPT ![v] = new]
    PROVE  ExecutorsOK'
BY DEF ExecutorsOK, ExecutorOK, DocOK, DocApproved, HashPays, Paid

\* An executor that is done with a document forgets what it knew about it.
LEMMA ExecutorsDone ==
    ASSUME executor \in [Validators -> ExecutorState], ExecutorsOK,
           UNCHANGED ledger, NEW v \in Validators, NEW d, ExecutorDone(v, d)
    PROVE  ExecutorsOK'
<1> DEFINE old == executor[v]
           new == [old EXCEPT !.pc = "loop", !.doc = Nil,
                              !.todo = @ \ {d},
                              !.snap = [@ EXCEPT ![d] = NewDocument]]
<1>1. executor' = [executor EXCEPT ![v] = new]
  BY DEF ExecutorDone
<1>2. /\ new.pc = "loop" /\ new.snap = [old.snap EXCEPT ![d] = NewDocument]
      /\ new.todo = old.todo \ {d}
  BY DEF ExecutorState
<1>3. old.snap \in [Docs -> Document] /\ old.todo \in SUBSET Docs
  BY DEF ExecutorState
<1> HIDE DEF new
<1>4. ExecutorOK(new)
  BY <1>2, <1>3, NewDocumentOK DEF ExecutorsOK, ExecutorOK
<1> QED
  BY <1>1, <1>4, ExecutorsUpdate

\* Executors and chain are as right after a step that leaves both alone.
LEMMA ExecutorsUnchanged ==
    ASSUME ExecutorsOK, ChainOK, UNCHANGED <<executor, mempool, ledger>>
    PROVE  ExecutorsOK' /\ ChainOK'
BY DEF ExecutorsOK, ExecutorOK, DocOK, DocApproved, HashPays, Paid, ChainOK, TxApproved

\* What signers know is about their snapshots only.
LEMMA SignersUnchanged ==
    ASSUME SignersOK, UNCHANGED signer
    PROVE  SignersOK'
BY DEF SignersOK, SignerOK, DocOK, DocApproved, HashPays

\* Writing a document that is right, and successful only if paid.
LEMMA DocsUpdate ==
    ASSUME db \in [Docs -> Document], DocsOK, SuccessIsPaid, UNCHANGED ledger,
           NEW d, NEW new, d \in Docs => DocOK(d, new),
           new.status = "success" => Paid(d) # {},
           db' = [db EXCEPT ![d] = new] \/ db' = db
    PROVE  DocsOK' /\ SuccessIsPaid'
BY DEF DocsOK, DocOK, DocApproved, HashPays, SuccessIsPaid, Paid

\* Documents are as right after a step that leaves database and ledger alone.
LEMMA DocsUnchanged ==
    ASSUME DocsOK, SuccessIsPaid, UNCHANGED <<db, ledger>>
    PROVE  DocsOK' /\ SuccessIsPaid'
BY DEF DocsOK, DocOK, DocApproved, HashPays, SuccessIsPaid, Paid

\* The inductive invariant holds before the first step.
LEMMA InitSafetyInv == Init => SafetyInv
<1> SUFFICES ASSUME Init PROVE SafetyInv
  OBVIOUS
<1>1. DocsOK /\ SuccessIsPaid /\ ChainOK
  <2>1. DocsOK
    BY NewDocumentOK DEF Init, DBInit, DocsOK
  <2>2. SuccessIsPaid
    BY DEF Init, DBInit, SuccessIsPaid, NewDocument
  <2>3. ChainOK
    BY DEF Init, DBInit, ChainOK
  <2> QED
    BY <2>1, <2>2, <2>3
<1>2. SignersOK
  BY NewDocumentOK, InitSigners, NewSignerFields DEF SignersOK, SignerOK
<1>3. ExecutorsOK
  BY NewDocumentOK DEF Init, ExecutorInit, NewExecutor, ExecutorsOK, ExecutorOK
<1> QED
  BY <1>1, <1>2, <1>3, InitTypeInv DEF SafetyInv

-----------------------------------------------------------------------------
(* Steps *)

\* The steps of a signer keep the documents and what signers know right.
LEMMA SignerSafetyStep ==
    ASSUME SafetyInv, NEW v \in Validators, SignerNext(v)
    PROVE  DocsOK' /\ SuccessIsPaid' /\ SignersOK'
<1> DEFINE old == signer[v]
<1>0. /\ signer \in [Validators -> SignerState] /\ old \in SignerState
      /\ db \in [Docs -> Document] /\ SignerOK(v, old)
      /\ DocsOK /\ SuccessIsPaid /\ SignersOK
      /\ old.doc = Nil <=> old.pc \in {"run", "find", "loop"}
      /\ old.pc \in {"lock", "sign"} => old.seq \in Nat
  BY DEF SafetyInv, TypeInv, TypeOK, DBTypeOK, SignersOK, SignerControl
<1>0a. old.snap \in [Docs -> Document] /\ old.doc \in Docs \cup {Nil}
  BY <1>0 DEF SignerState
<1>1. CASE UpdateBlocks(v)
  <2>1. DocsOK' /\ SuccessIsPaid'
    BY <1>0, <1>1, DocsUnchanged DEF UpdateBlocks, dbVars, chainVars
  <2>2. PICK known : signer' = [signer EXCEPT
            ![v].pc = "find", ![v].coll = "invalidMints",
            ![v].height = [c \in Collections |->
                              IF c \in known THEN height[c] ELSE signer[v].height[c]]]
    BY <1>1 DEF UpdateBlocks
  <2> DEFINE h == [c \in Collections |-> IF c \in known THEN height[c] ELSE old.height[c]]
             new == [old EXCEPT !.pc = "find", !.coll = "invalidMints", !.height = h]
  <2>3. new.pc = "find" /\ new.snap = old.snap /\ new.accepts = old.accepts
    BY <1>0 DEF SignerState
  <2>4. SignerOK(v, new)
    BY <1>0, <2>3 DEF SignerOK
  <2>5. signer' = [signer EXCEPT ![v] = new]
    BY <2>2
  <2> QED
    BY <1>0, <2>1, <2>4, <2>5, SignersUpdate
<1>2. CASE SignerFind(v)
  <2>1. DocsOK' /\ SuccessIsPaid'
    BY <1>0, <1>2, DocsUnchanged DEF SignerFind, dbVars, chainVars
  <2> DEFINE found == {d \in DocsOf(old.coll) : Unsigned(v, d)}
             snap == [d \in Docs |-> IF d \in found THEN db[d] ELSE NewDocument]
             new == [old EXCEPT !.pc = "loop", !.todo = found, !.snap = snap]
  <2>2. new.pc = "loop" /\ new.snap = snap /\ new.accepts = old.accepts
    BY <1>0 DEF SignerState
  <2>3. \A d \in Docs : DocOK(d, snap[d]) /\ snap[d].status \in {"pending", "confirmed"}
    BY <1>0, NewDocumentOK DEF DocsOK, Unsigned
  <2>4. SignerOK(v, new)
    <3>1. old.accepts \in Approves[v]
      BY <1>0 DEF SignersOK, SignerOK
    <3> HIDE DEF new, snap
    <3> QED
      BY <2>2, <2>3, <3>1 DEF SignerOK
  <2>5. signer' = [signer EXCEPT ![v] = new]
    BY <1>2 DEF SignerFind
  <2> QED
    BY <1>0, <2>1, <2>4, <2>5, SignersUpdate
<1>3. CASE SignerNextCollection(v)
  <2>1. DocsOK' /\ SuccessIsPaid'
    BY <1>0, <1>3, DocsUnchanged DEF SignerNextCollection, dbVars, chainVars
  <2> DEFINE pc == IF old.coll = "burns" THEN "run" ELSE "find"
             new == [old EXCEPT !.pc = pc, !.coll = "burns"]
  <2>2. new.pc \in {"run", "find"} /\ new.snap = old.snap /\ new.accepts = old.accepts
    BY <1>0 DEF SignerState
  <2>3. SignerOK(v, new)
    BY <1>0, <2>2 DEF SignerOK
  <2>4. signer' = [signer EXCEPT ![v] = new]
    BY <1>3 DEF SignerNextCollection
  <2> QED
    BY <1>0, <2>1, <2>3, <2>4, SignersUpdate
<1>4. ASSUME NEW d \in Docs, SignerSkip(v, d)
      PROVE  DocsOK' /\ SuccessIsPaid' /\ SignersOK'
  BY <1>0, <1>4, DocsUnchanged, SignersDone DEF SignerSkip, dbVars, chainVars
<1>5. ASSUME NEW d \in Docs, SignerHandle(v, d)
      PROVE  DocsOK' /\ SuccessIsPaid' /\ SignersOK'
  <2>1. DocsOK' /\ SuccessIsPaid'
    BY <1>0, <1>5, DocsUnchanged DEF SignerHandle, chainVars
  <2>2. CASE SignerDone(v, d)
    BY <1>0, <2>1, <2>2, SignersDone
  <2>3. ASSUME NEW pc, SignerBegin(v, d, pc),
               pc \notin {"account", "sign"},
               pc = "fail" => d \notin old.accepts,
               pc \in {"sequence", "lock"} => d \in old.accepts,
               pc = "sequence" => old.snap[d].sequence = Nil
        PROVE  SignersOK'
    <3> DEFINE new == [old EXCEPT !.pc = pc, !.doc = d, !.seq = old.snap[d].sequence]
    <3>1. /\ new.pc = pc /\ new.doc = d /\ new.snap = old.snap /\ new.accepts = old.accepts
          /\ new.seq = old.snap[d].sequence
      BY <1>0 DEF SignerState
    <3>2. signer' = [signer EXCEPT ![v] = new]
      BY <2>3 DEF SignerBegin
    <3> HIDE DEF new
    <3>3. SignerOK(v, new)
      BY <1>0, <2>3, <3>1 DEF SignerOK
    <3> QED
      BY <1>0, <3>2, <3>3, SignersUpdate
  <2> QED
    BY <1>5, <2>1, <2>2, <2>3 DEF SignerHandle, Valid
<1>6. CASE SignerAbort(v)
  BY <1>0, <1>6, DocsUnchanged, SignersDone DEF SignerAbort, chainVars
<1>7. CASE SignerFail(v)
  <2> DEFINE d == old.doc
             new == [db[d] EXCEPT !.status = "failed"]
  <2>1. d \in Docs
    BY <1>0, <1>0a, <1>7 DEF SignerFail
  <2>2. /\ new.status = "failed" /\ new.signatures = db[d].signatures
        /\ new.sequence = db[d].sequence
    BY <1>0, <2>1 DEF Document
  <2>3. db' = [db EXCEPT ![d] = new] \/ db' = db
    BY <1>7 DEF SignerFail
  <2> HIDE DEF new
  <2>4. DocOK(d, new)
    BY <1>0, <2>1, <2>2 DEF DocsOK, DocOK, DocApproved, HashPays
  <2>5. SignersOK'
    BY <1>0, <1>7, SignersDone DEF SignerFail
  <2> QED
    BY <1>0, <1>7, <2>2, <2>3, <2>4, <2>5, DocsUpdate DEF SignerFail, chainVars
<1>8. CASE SignerWait(v)
  <2> DEFINE d == old.doc
             h == old.height[old.coll]
             status == UpdatedStatus(d, old.snap[d], h)
             confirmations == UpdatedConfirmations(d, old.snap[d], h)
             new == [db[d] EXCEPT !.status = status, !.confirmations = confirmations]
  <2>1. d \in Docs
    BY <1>0, <1>0a, <1>8 DEF SignerWait
  <2>2. /\ new.status = status /\ new.signatures = db[d].signatures
        /\ new.sequence = db[d].sequence
    BY <1>0, <2>1 DEF Document
  <2>3. status \in {"pending", "confirmed", old.snap[d].status}
    BY DEF UpdatedStatus
  <2>4. db' = [db EXCEPT ![d] = new] \/ db' = db
    BY <1>8 DEF SignerWait
  <2> HIDE DEF new, status
  <2>5. new.status \in {"pending", "confirmed"}
    BY <1>0, <1>8, <2>1, <2>2, <2>3 DEF SignerOK, SignerWait
  <2>6. DocOK(d, new)
    BY <1>0, <2>1, <2>2, <2>5 DEF DocsOK, DocOK, DocApproved, HashPays
  <2>7. SignersOK'
    BY <1>0, <1>8, SignersDone DEF SignerWait
  <2> QED
    BY <1>0, <1>8, <2>4, <2>5, <2>6, <2>7, DocsUpdate DEF SignerWait, chainVars
<1>9. CASE ReadMaxSequence(v)
  <2>1. DocsOK' /\ SuccessIsPaid'
    BY <1>0, <1>9, DocsUnchanged DEF ReadMaxSequence, chainVars
  <2>2. PICK max : signer' = [signer EXCEPT ![v].pc = "account", ![v].seq = max]
    BY <1>9 DEF ReadMaxSequence
  <2> DEFINE new == [old EXCEPT !.pc = "account", !.seq = max]
  <2>3. new.pc = "account" /\ new.doc = old.doc /\ new.snap = old.snap /\ new.accepts = old.accepts
    BY <1>0 DEF SignerState
  <2>4. SignerOK(v, new)
    BY <1>0, <1>9, <2>3 DEF SignerOK, ReadMaxSequence
  <2>5. signer' = [signer EXCEPT ![v] = new]
    BY <2>2
  <2> QED
    BY <1>0, <2>1, <2>4, <2>5, SignersUpdate
<1>10. CASE ReadAccount(v)
  <2>1. DocsOK' /\ SuccessIsPaid'
    BY <1>0, <1>10, DocsUnchanged DEF ReadAccount, chainVars
  <2> DEFINE seq == NextSequence(old.seq)
             new == [old EXCEPT !.pc = "lock", !.seq = seq]
  <2>2. new.pc = "lock" /\ new.doc = old.doc /\ new.snap = old.snap /\ new.accepts = old.accepts
    BY <1>0 DEF SignerState
  <2>3. SignerOK(v, new)
    BY <1>0, <1>10, <2>2 DEF SignerOK, ReadAccount
  <2>4. signer' = [signer EXCEPT ![v] = new]
    BY <1>10 DEF ReadAccount
  <2> QED
    BY <1>0, <2>1, <2>3, <2>4, SignersUpdate
<1>11. CASE LockSequence(v)
  <2>1. DocsOK' /\ SuccessIsPaid'
    BY <1>0, <1>11, DocsUnchanged DEF LockSequence, chainVars
  <2> DEFINE new == [old EXCEPT !.pc = "sign"]
  <2>2. /\ new.pc = "sign" /\ new.doc = old.doc /\ new.snap = old.snap /\ new.accepts = old.accepts
        /\ new.seq = old.seq
    BY <1>0 DEF SignerState
  <2>3. SignerOK(v, new)
    BY <1>0, <1>11, <2>2 DEF SignerOK, LockSequence
  <2>4. signer' = [signer EXCEPT ![v] = new]
    BY <1>11 DEF LockSequence
  <2> QED
    BY <1>0, <2>1, <2>3, <2>4, SignersUpdate
<1>12. CASE SignerSign(v)
  <2> DEFINE d == old.doc
             status == IF Cardinality(FinalSignatures(v)) >= Threshold
                       THEN "signed" ELSE "confirmed"
             new == [db[d] EXCEPT !.status = status,
                                  !.signatures = FinalSignatures(v),
                                  !.sequence = old.seq]
  <2>1. d \in Docs /\ old.seq \in Nat /\ MayApprove(v, d)
    BY <1>0, <1>0a, <1>12 DEF SignerSign, SignerOK, MayApprove
  <2>2. /\ new.status \in {"signed", "confirmed"}
        /\ new.signatures = FinalSignatures(v) /\ new.sequence = old.seq
    BY <1>0, <2>1 DEF Document
  <2>3. db' = [db EXCEPT ![d] = new] \/ db' = db
    BY <1>12 DEF SignerSign
  <2> HIDE DEF new
  <2>4. \A sig \in old.snap[d].signatures : sig.sequence = old.seq /\ MayApprove(sig.signer, d)
    <3> SUFFICES ASSUME NEW sig \in old.snap[d].signatures
                 PROVE  sig.sequence = old.seq /\ MayApprove(sig.signer, d)
      OBVIOUS
    <3>1. sig.sequence = old.snap[d].sequence /\ MayApprove(sig.signer, d)
      BY <1>0, <2>1 DEF SignerOK, DocOK, DocApproved
    <3>2. sig.sequence \in Nat
      BY <1>0a, <2>1 DEF Document, Signature
    <3>3. old.snap[d].sequence \in {Nil, old.seq}
      BY <1>0, <1>12 DEF SignerOK, SignerSign
    <3> QED
      BY <3>1, <3>2, <3>3, NilFacts
  <2>5. DocOK(d, new)
    BY <2>1, <2>2, <2>4 DEF DocOK, DocApproved, HashPays, FinalSignatures
  <2>6. SignersOK'
    BY <1>0, <1>12, SignersDone DEF SignerSign
  <2> QED
    BY <1>0, <1>12, <2>2, <2>3, <2>5, <2>6, DocsUpdate DEF SignerSign, chainVars
<1> QED
  BY <1>1, <1>2, <1>3, <1>4, <1>5, <1>6, <1>7, <1>8, <1>9, <1>10, <1>11, <1>12 DEF SignerNext

\* The steps of an executor keep the documents, what executors know and the
\* transactions in the mempool right.
LEMMA ExecutorSafetyStep ==
    ASSUME SafetyInv, NEW v \in Validators, ExecutorNext(v)
    PROVE  DocsOK' /\ SuccessIsPaid' /\ ExecutorsOK' /\ ChainOK'
<1> DEFINE old == executor[v]
<1>0. /\ executor \in [Validators -> ExecutorState] /\ old \in ExecutorState
      /\ db \in [Docs -> Document] /\ ExecutorOK(old)
      /\ DocsOK /\ SuccessIsPaid /\ ExecutorsOK /\ ChainOK
      /\ old.doc = Nil <=> old.pc \in {"find", "loop"}
      /\ old.pc = "submit" => ValidSignatures(old.snap[old.doc])
  BY DEF SafetyInv, TypeInv, TypeOK, DBTypeOK, ExecutorsOK, ExecutorControl
<1>0a. /\ old.snap \in [Docs -> Document] /\ old.doc \in Docs \cup {Nil}
       /\ old.todo \in SUBSET Docs
  BY <1>0 DEF ExecutorState
<1>0b. ASSUME UNCHANGED <<mempool, ledger>> PROVE ChainOK'
  BY <1>0, <1>0b DEF ChainOK, TxApproved
<1>1. CASE ExecutorFind(v)
  <2>1. DocsOK' /\ SuccessIsPaid' /\ ChainOK'
    BY <1>0, <1>0b, <1>1, DocsUnchanged DEF ExecutorFind, dbVars, chainVars
  <2> DEFINE found == {d \in DocsOf(old.coll) : db[d].status \in {"signed", "submitted"}}
             snap == [d \in Docs |-> IF d \in found THEN db[d] ELSE NewDocument]
             new == [old EXCEPT !.pc = "loop", !.todo = found, !.snap = snap]
  <2>2. new.pc = "loop" /\ new.todo = found /\ new.snap = snap
    BY <1>0 DEF ExecutorState
  <2>3. found \in SUBSET Docs
    BY DEF DocsOf, Docs
  <2>4. ExecutorOK(new)
    BY <1>0, <2>2, <2>3, NewDocumentOK DEF ExecutorOK, DocsOK
  <2>5. executor' = [executor EXCEPT ![v] = new]
    BY <1>1 DEF ExecutorFind
  <2> QED
    BY <1>0, <1>1, <2>1, <2>4, <2>5, ExecutorsUpdate DEF ExecutorFind, chainVars
<1>2. CASE ExecutorNextCollection(v)
  <2>1. DocsOK' /\ SuccessIsPaid' /\ ChainOK'
    BY <1>0, <1>0b, <1>2, DocsUnchanged DEF ExecutorNextCollection, dbVars, chainVars
  <2> DEFINE coll == IF old.coll = "burns" THEN "invalidMints" ELSE "burns"
             new == [old EXCEPT !.pc = "find", !.coll = coll]
  <2>2. new.pc = "find" /\ new.todo = old.todo /\ new.snap = old.snap
    BY <1>0 DEF ExecutorState
  <2>3. ExecutorOK(new)
    BY <1>0, <2>2 DEF ExecutorOK
  <2>4. executor' = [executor EXCEPT ![v] = new]
    BY <1>2 DEF ExecutorNextCollection
  <2> QED
    BY <1>0, <1>2, <2>1, <2>3, <2>4, ExecutorsUpdate DEF ExecutorNextCollection, chainVars
<1>3. ASSUME NEW d \in Docs, ExecutorSkip(v, d)
      PROVE  DocsOK' /\ SuccessIsPaid' /\ ExecutorsOK' /\ ChainOK'
  BY <1>0, <1>0b, <1>3, DocsUnchanged, ExecutorsDone DEF ExecutorSkip, dbVars, chainVars
<1>4. ASSUME NEW d \in Docs, ExecutorHandle(v, d)
      PROVE  DocsOK' /\ SuccessIsPaid' /\ ExecutorsOK' /\ ChainOK'
  <2>1. DocsOK' /\ SuccessIsPaid' /\ ChainOK'
    BY <1>0, <1>0b, <1>4, DocsUnchanged DEF ExecutorHandle, chainVars
  <2> DEFINE pc == IF old.snap[d].status = "signed" THEN "broadcast" ELSE "check"
             new == [old EXCEPT !.pc = pc, !.doc = d]
  <2>2. new.pc = pc /\ new.doc = d /\ new.todo = old.todo /\ new.snap = old.snap
    BY <1>0 DEF ExecutorState
  <2>3. d \in old.todo
    BY <1>4 DEF ExecutorHandle
  <2>4. ExecutorOK(new)
    BY <1>0, <2>2, <2>3 DEF ExecutorOK
  <2>5. executor' = [executor EXCEPT ![v] = new]
    BY <1>4 DEF ExecutorHandle
  <2> QED
    BY <1>0, <1>4, <2>1, <2>4, <2>5, ExecutorsUpdate DEF ExecutorHandle, chainVars
<1>5. CASE ExecutorAbort(v)
  BY <1>0, <1>0b, <1>5, DocsUnchanged, ExecutorsDone DEF ExecutorAbort, chainVars
<1>6. CASE Broadcast(v)
  <2> DEFINE d == old.doc
             doc == old.snap[d]
             tx == ReturnTx(d, doc)
             new == [old EXCEPT !.pc = "submit"]
  <2>1. DocsOK' /\ SuccessIsPaid'
    BY <1>0, <1>6, DocsUnchanged DEF Broadcast
  <2>2. d \in Docs
    BY <1>0, <1>0a, <1>6 DEF Broadcast
  <2>3. DocApproved(d, doc)
    BY <1>0, <2>2 DEF ExecutorOK, DocOK
  <2>4. ValidSignatures(doc)
    BY <1>6 DEF Broadcast
  <2>5. Cardinality(tx.signers) >= Threshold
    BY <2>4 DEF ValidSignatures, ReturnTx
  <2>6. \A w \in tx.signers : MayApprove(w, tx.doc)
    BY <2>3 DEF DocApproved, ReturnTx, Signers
  <2>7. ChainOK'
    BY <1>0, <1>6, <2>5, <2>6 DEF Broadcast, ChainOK, TxApproved
  <2>8. CASE executor' = [executor EXCEPT ![v].pc = "submit"]
    <3>1. /\ new.pc = "submit" /\ new.doc = d /\ new.todo = old.todo
          /\ new.snap = old.snap
      BY <1>0 DEF ExecutorState
    <3>2. ExecutorOK(new)
      BY <1>0, <1>6, <3>1 DEF ExecutorOK, Broadcast
    <3>3. executor' = [executor EXCEPT ![v] = new]
      BY <2>8
    <3> QED
      BY <1>0, <1>6, <2>1, <2>7, <3>2, <3>3, ExecutorsUpdate DEF Broadcast
  <2>9. CASE ExecutorDone(v, d)
    BY <1>0, <1>6, <2>1, <2>7, <2>9, ExecutorsDone DEF Broadcast
  <2> QED
    BY <1>6, <2>8, <2>9 DEF Broadcast
<1>7. CASE Submit(v)
  <2> DEFINE d == old.doc
             tx == ReturnTx(d, old.snap[d])
             new == [db[d] EXCEPT !.status = "submitted", !.hash = tx]
  <2>1. d \in Docs
    BY <1>0, <1>0a, <1>7 DEF Submit
  <2>2. /\ new.status = "submitted" /\ new.hash = tx
        /\ new.signatures = db[d].signatures /\ new.sequence = db[d].sequence
    BY <1>0, <2>1 DEF Document
  <2>3. db' = [db EXCEPT ![d] = new] \/ db' = db
    BY <1>7 DEF Submit
  <2>4. tx.doc = d
    BY DEF ReturnTx
  <2> HIDE DEF new, tx
  <2>5. DocOK(d, new)
    BY <1>0, <2>1, <2>2, <2>4 DEF DocsOK, DocOK, DocApproved, HashPays
  <2> QED
    BY <1>0, <1>0b, <1>7, <2>2, <2>3, <2>5, DocsUpdate, ExecutorsDone DEF Submit, chainVars
<1>8. CASE CheckTx(v)
  <2>1. DocsOK' /\ SuccessIsPaid' /\ ChainOK'
    BY <1>0, <1>0b, <1>8, DocsUnchanged DEF CheckTx, dbVars, chainVars
  <2>2. PICK ok \in BOOLEAN :
            /\ Found(old.snap[old.doc].hash, ok)
            /\ executor' = [executor EXCEPT ![v].pc = IF ok THEN "succeed" ELSE "reset"]
    BY <1>8 DEF CheckTx
  <2> DEFINE pc == IF ok THEN "succeed" ELSE "reset"
             new == [old EXCEPT !.pc = pc]
  <2>3. old.doc \in Docs /\ old.snap[old.doc].status = "submitted"
    BY <1>0, <1>0a, <1>8 DEF CheckTx, ExecutorOK
  <2>4. old.snap[old.doc].hash.doc = old.doc
    BY <1>0, <2>3 DEF ExecutorOK, DocOK, HashPays
  <2>5. ok => Paid(old.doc) # {}
    BY <2>2, <2>4 DEF Found, Paid
  <2>6. /\ new.pc = pc /\ new.doc = old.doc /\ new.todo = old.todo
        /\ new.snap = old.snap
    BY <1>0 DEF ExecutorState
  <2>7. ExecutorOK(new)
    BY <1>0, <2>3, <2>5, <2>6 DEF ExecutorOK
  <2>8. executor' = [executor EXCEPT ![v] = new]
    BY <2>2
  <2> QED
    BY <1>0, <1>8, <2>1, <2>7, <2>8, ExecutorsUpdate DEF CheckTx, chainVars
<1>9. CASE Succeed(v)
  <2> DEFINE d == old.doc
             new == [db[d] EXCEPT !.status = "success"]
  <2>1. d \in Docs /\ Paid(d) # {}
    BY <1>0, <1>0a, <1>9 DEF Succeed, ExecutorOK
  <2>2. /\ new.status = "success" /\ new.signatures = db[d].signatures
        /\ new.sequence = db[d].sequence
    BY <1>0, <2>1 DEF Document
  <2>3. db' = [db EXCEPT ![d] = new] \/ db' = db
    BY <1>9 DEF Succeed
  <2> HIDE DEF new
  <2>4. DocOK(d, new)
    BY <1>0, <2>1, <2>2 DEF DocsOK, DocOK, DocApproved, HashPays
  <2> QED
    BY <1>0, <1>0b, <1>9, <2>1, <2>3, <2>4, DocsUpdate, ExecutorsDone DEF Succeed, chainVars
<1>10. CASE Reset(v)
  <2> DEFINE d == old.doc
             new == [db[d] EXCEPT !.status = "confirmed", !.hash = Nil,
                                  !.signatures = {}, !.sequence = Nil]
  <2>1. d \in Docs
    BY <1>0, <1>0a, <1>10 DEF Reset
  <2>2. new.status = "confirmed" /\ new.signatures = {}
    BY <1>0, <2>1 DEF Document
  <2>3. db' = [db EXCEPT ![d] = new] \/ db' = db
    BY <1>10 DEF Reset
  <2> HIDE DEF new
  <2>4. DocOK(d, new)
    BY <2>2 DEF DocOK, DocApproved, HashPays
  <2> QED
    BY <1>0, <1>0b, <1>10, <2>2, <2>3, <2>4, DocsUpdate, ExecutorsDone DEF Reset, chainVars
<1> QED
  BY <1>1, <1>2, <1>3, <1>4, <1>5, <1>6, <1>7, <1>8, <1>9, <1>10 DEF ExecutorNext

\* A block that takes an approved transaction keeps what was paid paid.
LEMMA CommitSafetyStep ==
    ASSUME SafetyInv, NEW tx \in mempool, NEW ok \in BOOLEAN, Commit(tx, ok)
    PROVE  ExecutorsOK' /\ ChainOK' /\ SuccessIsPaid'
<1>1. /\ ledger \in Seq(Entry) /\ ledger' = Append(ledger, [tx |-> tx, ok |-> ok])
      /\ mempool' \subseteq mempool /\ UNCHANGED <<db, executor>>
  BY DEF SafetyInv, TypeInv, TypeOK, DBTypeOK, Commit, dbVars
<1>2. /\ Len(ledger') = Len(ledger) + 1
      /\ \A i \in 1 .. Len(ledger) : ledger'[i] = ledger[i]
      /\ ledger'[Len(ledger) + 1] = [tx |-> tx, ok |-> ok]
      /\ Len(ledger) \in Nat
  BY <1>1
<1>3. \A d : Paid(d) \subseteq Paid(d)'
  BY <1>2 DEF Paid
<1>4. TxApproved(tx)
  BY DEF SafetyInv, ChainOK
<1>5. ChainOK'
  <2>1. \A other \in mempool' : TxApproved(other)
    BY <1>1 DEF SafetyInv, ChainOK
  <2>2. \A i \in 1 .. Len(ledger') : TxApproved(ledger'[i].tx)
    <3> SUFFICES ASSUME NEW i \in 1 .. Len(ledger') PROVE TxApproved(ledger'[i].tx)
      OBVIOUS
    <3>1. CASE i \in 1 .. Len(ledger)
      BY <1>2, <3>1 DEF SafetyInv, ChainOK
    <3>2. CASE i = Len(ledger) + 1
      BY <1>2, <1>4, <3>2
    <3> QED
      BY <1>2, <3>1, <3>2
  <2> QED
    BY <2>1, <2>2 DEF ChainOK, TxApproved
<1>6. ExecutorsOK'
  BY <1>1, <1>3 DEF SafetyInv, ExecutorsOK, ExecutorOK, DocOK, DocApproved, HashPays
<1>7. SuccessIsPaid'
  BY <1>1, <1>3 DEF SafetyInv, SuccessIsPaid
<1> QED
  BY <1>5, <1>6, <1>7

\* A signer does not touch the chain.
LEMMA SignerChain ==
    ASSUME NEW v, SignerNext(v)
    PROVE  UNCHANGED <<mempool, ledger>>
BY DEF SignerNext, UpdateBlocks, SignerFind, SignerNextCollection, SignerSkip,
       SignerHandle, SignerAbort, SignerFail, SignerWait, ReadMaxSequence,
       ReadAccount, LockSequence, SignerSign, chainVars

\* Every step keeps the inductive invariant.
LEMMA SafetyStep == SafetyInv /\ [Next]_vars => SafetyInv'
<1> SUFFICES ASSUME SafetyInv, [Next]_vars PROVE SafetyInv'
  OBVIOUS
<1>0. TypeInv' /\ TypeInv /\ DocsOK /\ SuccessIsPaid /\ SignersOK /\ ExecutorsOK /\ ChainOK
  BY TypeStep DEF SafetyInv
<1>1. ASSUME NEW v \in Validators, SignerStep(v) PROVE SafetyInv'
  <2>1. ExecutorsOK' /\ ChainOK'
    BY <1>0, <1>1, ExecutorsUnchanged, SignerChain DEF SignerStep
  <2> QED
    BY <1>0, <1>1, <2>1, SignerSafetyStep DEF SignerStep, SafetyInv
<1>2. ASSUME NEW v \in Validators, ExecutorStep(v) PROVE SafetyInv'
  BY <1>0, <1>2, SignersUnchanged, ExecutorSafetyStep DEF ExecutorStep, SafetyInv
<1>3. ASSUME NEW v \in Validators, Crash(v) PROVE SafetyInv'
  <2>1. DocsOK' /\ SuccessIsPaid' /\ ChainOK'
    BY <1>0, <1>3, DocsUnchanged DEF Crash, dbVars, chainVars, ChainOK, TxApproved
  <2>2. PICK new : signer' = [signer EXCEPT ![v] = new] /\ SignerOK(v, new)
    <3>1. PICK accepts \in Approves[v] : signer' = [signer EXCEPT ![v] = NewSigner(accepts)]
      BY <1>3, CrashSigners
    <3>2. SignerOK(v, NewSigner(accepts))
      BY NewSignerFields, NewDocumentOK DEF SignerOK
    <3> QED
      BY <3>1, <3>2
  <2>3. ExecutorOK(NewExecutor)
    BY NewDocumentOK DEF NewExecutor, ExecutorOK
  <2>4. SignersOK'
    BY <1>0, <1>3, <2>2, SignersUpdate DEF Crash, TypeInv, TypeOK
  <2>5. ExecutorsOK'
    BY <1>0, <1>3, <2>3, ExecutorsUpdate DEF Crash, TypeInv, TypeOK, chainVars
  <2> QED
    BY <1>0, <2>1, <2>4, <2>5 DEF SafetyInv
<1>4. ASSUME NEW c \in Collections, Block(c) PROVE SafetyInv'
  BY <1>0, <1>4, DocsUnchanged, SignersUnchanged, ExecutorsUnchanged
  DEF Block, dbVars, SafetyInv
<1>5. ASSUME NEW tx \in mempool, Drop(tx) PROVE SafetyInv'
  <2>1. ChainOK'
    BY <1>0, <1>5 DEF Drop, ChainOK, TxApproved
  <2>2. ExecutorsOK'
    BY <1>0, <1>5 DEF Drop, ExecutorsOK, ExecutorOK, DocOK, DocApproved, HashPays, Paid
  <2> QED
    BY <1>0, <1>5, <2>1, <2>2, DocsUnchanged, SignersUnchanged DEF Drop, dbVars, SafetyInv
<1>6. ASSUME NEW tx \in mempool, NEW ok \in BOOLEAN, Commit(tx, ok) PROVE SafetyInv'
  <2>1. DocsOK'
    BY <1>0, <1>6 DEF Commit, dbVars, DocsOK, DocOK, DocApproved, HashPays
  <2> QED
    BY <1>0, <1>6, <2>1, CommitSafetyStep, SignersUnchanged DEF Commit, SafetyInv
<1>7. CASE ExpireLock
  BY <1>0, <1>7, DocsUnchanged, SignersUnchanged, ExecutorsUnchanged
  DEF ExpireLock, chainVars, SafetyInv
<1>8. CASE UNCHANGED vars
  BY <1>0, <1>8, DocsUnchanged, SignersUnchanged, ExecutorsUnchanged DEF vars, SafetyInv
<1> QED
  BY <1>1, <1>2, <1>3, <1>4, <1>5, <1>6, <1>7, <1>8, ExecutorsAssumption DEF Next

-----------------------------------------------------------------------------
(* Theorems *)

\* The inductive invariant holds in every reachable state.
LEMMA SafetyInvHolds == Spec => []SafetyInv
  BY InitSafetyInv, SafetyStep, PTL DEF Spec

\* Only transactions that Threshold validators signed after validating the
\* document reach Pocket: no crash, lost lock or stale write gets a payout
\* through that ValidateBurn or ValidateInvalidMint refused.
THEOREM OnlyApprovedPayouts == Spec => []PayoutsApproved
<1>1. ChainOK => PayoutsApproved
  BY DEF ChainOK, TxApproved, PayoutsApproved
<1> QED
  BY SafetyInvHolds, <1>1, PTL DEF SafetyInv

\* The signatures of a document always fit the sequence stored with them.
THEOREM SignaturesAlwaysAgree == Spec => []SignaturesAgree
<1>1. DocsOK => SignaturesAgree
  BY DEF DocsOK, DocOK, DocApproved, SignaturesAgree
<1> QED
  BY SafetyInvHolds, <1>1, PTL DEF SafetyInv

\* The executor writes status success only for a document that is paid.
THEOREM SuccessAlwaysPaid == Spec => []SuccessIsPaid
  BY SafetyInvHolds, PTL DEF SafetyInv

-----------------------------------------------------------------------------
(* Signed documents are frozen *)

\* What SignedIsFrozen says of one step.
DocsFrozen == \A d \in Docs : DocFrozen(db[d], db'[d])

\* A step that leaves the collections alone freezes every document.
LEMMA UnchangedFrozen ==
    ASSUME UNCHANGED db
    PROVE  DocsFrozen
BY DEF DocsFrozen, DocFrozen

\* A step writes one document at most.
LEMMA WriteFrozen ==
    ASSUME db \in [Docs -> Document], NEW d, NEW new,
           db' = db \/ (db' = [db EXCEPT ![d] = new] /\ DocFrozen(db[d], new))
    PROVE  DocsFrozen
BY DEF DocsFrozen, DocFrozen

\* The filter of a signer's UpdateOne spares documents that are signed.
LEMMA SignerWrites ==
    ASSUME NEW v \in Validators, SignerNext(v), NEW x \in Docs, ~Writable(x),
           db \in [Docs -> Document]
    PROVE  db'[x] = db[x]
<1> DEFINE d == signer[v].doc
<1>1. ASSUME NEW new, db' = IF Writable(d) THEN [db EXCEPT ![d] = new] ELSE db
      PROVE  db'[x] = db[x]
  BY <1>1
<1>2. CASE SignerFail(v)
  <2> DEFINE new == [db[d] EXCEPT !.status = "failed"]
  <2>1. db' = IF Writable(d) THEN [db EXCEPT ![d] = new] ELSE db
    BY <1>2 DEF SignerFail
  <2> HIDE DEF new
  <2> QED
    BY <1>1, <2>1
<1>3. CASE SignerWait(v)
  <2> DEFINE doc == signer[v].snap[d]
             h == signer[v].height[signer[v].coll]
             new == [db[d] EXCEPT !.status = UpdatedStatus(d, doc, h),
                                  !.confirmations = UpdatedConfirmations(d, doc, h)]
  <2>1. db' = IF Writable(d) THEN [db EXCEPT ![d] = new] ELSE db
    BY <1>3 DEF SignerWait
  <2> HIDE DEF new
  <2> QED
    BY <1>1, <2>1
<1>4. CASE SignerSign(v)
  <2> DEFINE status == IF Cardinality(FinalSignatures(v)) >= Threshold
                       THEN "signed" ELSE "confirmed"
             new == [db[d] EXCEPT !.status = status,
                                  !.signatures = FinalSignatures(v),
                                  !.sequence = signer[v].seq]
  <2>1. \/ db' = IF Writable(d) THEN [db EXCEPT ![d] = new] ELSE db
        \/ db' = db
    BY <1>4 DEF SignerSign
  <2> HIDE DEF new
  <2> QED
    BY <1>1, <2>1
<1>5. SignerFail(v) \/ SignerWait(v) \/ SignerSign(v) \/ UNCHANGED db
  BY DEF SignerNext, UpdateBlocks, SignerFind, SignerNextCollection, SignerSkip,
         SignerHandle, SignerAbort, ReadMaxSequence, ReadAccount, LockSequence, dbVars
<1> QED
  BY <1>2, <1>3, <1>4, <1>5

\* An executor writes signed and submitted documents as SignedIsFrozen allows.
LEMMA ExecutorFrozen ==
    ASSUME DBTypeOK, NEW v \in Validators, ExecutorNext(v),
           executor[v].doc \in Docs \cup {Nil},
           executor[v].doc = Nil => executor[v].pc \in {"find", "loop"}
    PROVE  DocsFrozen
<1> DEFINE d == executor[v].doc
<1>1. CASE Submit(v)
  <2> DEFINE tx == ReturnTx(d, executor[v].snap[d])
             new == [db[d] EXCEPT !.status = "submitted", !.hash = tx]
  <2>1. db' = IF Submittable(d) THEN [db EXCEPT ![d] = new] ELSE db
    BY <1>1 DEF Submit
  <2>2. db[d] \in Document
    BY <1>1 DEF Submit, DBTypeOK
  <2> HIDE DEF tx
  <2>3. new.hash = tx
    BY <2>2 DEF Document
  <2>4. new = [db[d] EXCEPT !.status = "submitted", !.hash = new.hash]
    BY <2>3
  <2> HIDE DEF new
  <2>5. Submittable(d) => DocFrozen(db[d], new)
    BY <2>4 DEF Submittable, DocFrozen
  <2> QED
    BY <2>1, <2>5, WriteFrozen DEF DBTypeOK
<1>2. CASE Succeed(v)
  <2> DEFINE new == [db[d] EXCEPT !.status = "success"]
  <2>1. db' = IF Checkable(d) THEN [db EXCEPT ![d] = new] ELSE db
    BY <1>2 DEF Succeed
  <2>2. Checkable(d) => DocFrozen(db[d], new)
    BY DEF Checkable, DocFrozen
  <2> HIDE DEF new
  <2> QED
    BY <2>1, <2>2, WriteFrozen DEF DBTypeOK
<1>3. CASE Reset(v)
  <2> DEFINE new == [db[d] EXCEPT !.status = "confirmed", !.hash = Nil,
                                  !.signatures = {}, !.sequence = Nil]
  <2>1. db' = IF Checkable(d) THEN [db EXCEPT ![d] = new] ELSE db
    BY <1>3 DEF Reset
  <2>2. Checkable(d) => DocFrozen(db[d], new)
    BY DEF Checkable, DocFrozen
  <2> HIDE DEF new
  <2> QED
    BY <2>1, <2>2, WriteFrozen DEF DBTypeOK
<1>4. Submit(v) \/ Succeed(v) \/ Reset(v) \/ UNCHANGED db
  BY DEF ExecutorNext, ExecutorFind, ExecutorNextCollection, ExecutorSkip,
         ExecutorHandle, ExecutorAbort, Broadcast, CheckTx, dbVars
<1> QED
  BY <1>1, <1>2, <1>3, <1>4, UnchangedFrozen

\* No step changes a signed document in any other way.
LEMMA StepFrozen == TypeInv /\ [Next]_vars => DocsFrozen
<1> SUFFICES ASSUME TypeInv, [Next]_vars PROVE DocsFrozen
  OBVIOUS
<1> USE DEF TypeInv, TypeOK
<1>1. ASSUME NEW v \in Validators, SignerStep(v) PROVE DocsFrozen
  <2>1. \A d \in Docs : ~Writable(d) => db'[d] = db[d]
    BY <1>1, SignerWrites DEF SignerStep, DBTypeOK
  <2> QED
    BY <2>1 DEF Writable, DocsFrozen, DocFrozen
<1>2. ASSUME NEW v \in Validators, ExecutorStep(v) PROVE DocsFrozen
  BY <1>2, ExecutorFrozen DEF ExecutorStep, ExecutorControl, ExecutorState
<1>3. \/ \E v \in Validators : SignerStep(v) \/ ExecutorStep(v)
      \/ UNCHANGED db
  BY DEF Next, Crash, Block, Drop, Commit, ExpireLock, vars, dbVars
<1> QED
  BY <1>1, <1>2, <1>3, UnchangedFrozen

\* Whatever old snapshots the services write back, a signed document is only
\* submitted, and a submitted one only closed or reset.
THEOREM SignedStaysFrozen == Spec => SignedIsFrozen
<1>1. TypeInv /\ [Next]_vars => [\A d \in Docs : DocFrozen(db[d], db'[d])]_vars
  BY StepFrozen DEF DocsFrozen
<1>2. Spec => []TypeInv
  BY InitTypeInv, TypeStep, PTL DEF Spec
<1> QED
  BY <1>1, <1>2, PTL DEF Spec, SignedIsFrozen

-----------------------------------------------------------------------------
(* Signed documents are confirmed *)

\* The chain itself has reached the confirmations of a document.
Confirmed(d) ==
    \/ Confirmations = 0
    \/ height[CollectionOf(d)] - OriginHeight[d] >= Confirmations

\* A copy of document d that claims confirmations is right to do so.
ClaimOK(d, doc) ==
    doc.signatures # {} \/ doc.status \in {"confirmed", "signed", "submitted", "success"}
        => Confirmed(d)

ClaimsOK == \A d \in Docs : ClaimOK(d, db[d])

\* A signer knows no block that does not exist, handles documents of the
\* collection whose height it uses, and signs what is confirmed.
SignerClaims(s) ==
    /\ \A c \in Collections : s.height[c] <= height[c]
    /\ \A d \in Docs : ClaimOK(d, s.snap[d])
    /\ s.pc \notin {"run", "find"} => s.todo \subseteq DocsOf(s.coll)
    /\ s.doc # Nil => s.doc \in DocsOf(s.coll)
    /\ s.pc \in {"sequence", "account", "lock", "sign"} => Confirmed(s.doc)

SignersClaims == \A v \in Validators : SignerClaims(signer[v])

ConfirmedInv == TypeInv /\ ClaimsOK /\ SignersClaims

\* A collection is the collection of its documents.
LEMMA CollectionFacts ==
    ASSUME NEW coll \in Collections, NEW d \in DocsOf(coll)
    PROVE  d \in Docs /\ CollectionOf(d) = coll
BY DocsAssumption DEF Collections, DocsOf, CollectionOf, Docs

\* A document has a collection.
LEMMA CollectionType == \A d : CollectionOf(d) \in Collections
BY DEF CollectionOf, Collections

\* Blocks are only added.
LEMMA ConfirmedStable ==
    ASSUME height \in [Collections -> Nat], height' \in [Collections -> Nat],
           \A c \in Collections : height[c] <= height'[c],
           NEW d \in Docs, Confirmed(d)
    PROVE  Confirmed(d)'
<1>1. height[CollectionOf(d)] \in Nat /\ height'[CollectionOf(d)] \in Nat
  BY CollectionType
<1>2. OriginHeight[d] \in Nat /\ Confirmations \in Nat
  BY HeightAssumption, ConfirmationsAssumption
<1>3. height[CollectionOf(d)] <= height'[CollectionOf(d)]
  BY CollectionType
<1> QED
  BY <1>1, <1>2, <1>3 DEF Confirmed, CollectionOf

\* A document as the monitor inserts it claims nothing.
LEMMA NewDocumentClaims == \A d : ClaimOK(d, NewDocument)
BY DEF ClaimOK, NewDocument

\* The status a signer computes is right, however old its copy and height are.
LEMMA UpdatedStatusClaims ==
    ASSUME height \in [Collections -> Nat], NEW d \in Docs,
           NEW doc, ClaimOK(d, doc),
           NEW h \in Nat, h <= height[CollectionOf(d)],
           UpdatedStatus(d, doc, h) \in {"confirmed", "signed", "submitted", "success"}
    PROVE  Confirmed(d)
<1>1. height[CollectionOf(d)] \in Nat /\ OriginHeight[d] \in Nat /\ Confirmations \in Nat
  BY CollectionType, HeightAssumption, ConfirmationsAssumption
<1>2. CASE Recounts(doc)
  <2>1. Confirmations = 0 \/ h - OriginHeight[d] >= Confirmations
    BY <1>2 DEF UpdatedStatus
  <2> QED
    BY <1>1, <2>1 DEF Confirmed
<1>3. CASE ~Recounts(doc)
  BY <1>3 DEF UpdatedStatus, ClaimOK
<1> QED
  BY <1>2, <1>3

\* A right local state of one signer, while no block is added.
LEMMA SignerClaimsUpdate ==
    ASSUME signer \in [Validators -> SignerState], SignersClaims, UNCHANGED height,
           NEW v \in Validators, NEW new, SignerClaims(new),
           signer' = [signer EXCEPT ![v] = new]
    PROVE  SignersClaims'
BY DEF SignersClaims, SignerClaims, ClaimOK, Confirmed

\* A signer that is done with a document claims nothing about it.
LEMMA SignerClaimsDone ==
    ASSUME signer \in [Validators -> SignerState], SignersClaims, UNCHANGED height,
           NEW v \in Validators, signer[v].pc \notin {"run", "find"},
           NEW d, SignerDone(v, d)
    PROVE  SignersClaims'
<1> DEFINE old == signer[v]
           new == [old EXCEPT !.pc = "loop", !.doc = Nil, !.seq = Nil,
                              !.todo = @ \ {d},
                              !.snap = [@ EXCEPT ![d] = NewDocument]]
<1>1. signer' = [signer EXCEPT ![v] = new]
  BY DEF SignerDone
<1>2. /\ new.pc = "loop" /\ new.snap = [old.snap EXCEPT ![d] = NewDocument]
      /\ new.todo = old.todo \ {d} /\ new.doc = Nil
      /\ new.height = old.height /\ new.coll = old.coll
  BY DEF SignerState
<1>3. old.snap \in [Docs -> Document] /\ SignerClaims(old)
  BY DEF SignerState, SignersClaims
<1> HIDE DEF new
<1>4. SignerClaims(new)
  BY <1>2, <1>3, NewDocumentClaims DEF SignerClaims
<1> QED
  BY <1>1, <1>4, SignerClaimsUpdate

\* Writing a document whose claims are right, while no block is added.
LEMMA ClaimsUpdate ==
    ASSUME db \in [Docs -> Document], ClaimsOK, UNCHANGED height,
           NEW d, NEW new, d \in Docs => ClaimOK(d, new),
           db' = [db EXCEPT ![d] = new] \/ db' = db
    PROVE  ClaimsOK'
BY DEF ClaimsOK, ClaimOK, Confirmed

\* Claims are as right after a step that leaves collections and blocks alone.
LEMMA ClaimsUnchanged ==
    ASSUME ClaimsOK, UNCHANGED <<db, height>>
    PROVE  ClaimsOK'
BY DEF ClaimsOK, ClaimOK, Confirmed

\* The inductive invariant holds before the first step.
LEMMA InitConfirmedInv == Init => ConfirmedInv
<1> SUFFICES ASSUME Init PROVE ConfirmedInv
  OBVIOUS
<1>1. ClaimsOK
  BY NewDocumentClaims DEF Init, DBInit, ClaimsOK
<1>2. SignersClaims
  BY NewDocumentClaims, InitSigners, NewSignerFields
     DEF Init, DBInit, SignersClaims, SignerClaims
<1> QED
  BY <1>1, <1>2, InitTypeInv DEF ConfirmedInv

\* The steps of a signer make no claim that is not right.
LEMMA SignerClaimsStep ==
    ASSUME ConfirmedInv, NEW v \in Validators, SignerNext(v)
    PROVE  ClaimsOK' /\ SignersClaims'
<1> DEFINE old == signer[v]
<1>0. /\ signer \in [Validators -> SignerState] /\ old \in SignerState
      /\ db \in [Docs -> Document] /\ height \in [Collections -> Nat]
      /\ ClaimsOK /\ SignersClaims /\ SignerClaims(old)
      /\ old.doc = Nil <=> old.pc \in {"run", "find", "loop"}
  BY DEF ConfirmedInv, TypeInv, TypeOK, DBTypeOK, SignersClaims, SignerControl
<1>0a. /\ old.snap \in [Docs -> Document] /\ old.doc \in Docs \cup {Nil}
       /\ old.coll \in Collections /\ old.height \in [Collections -> Nat]
       /\ old.todo \subseteq Docs
  BY <1>0 DEF SignerState
<1>1. CASE UpdateBlocks(v)
  <2>1. PICK known : signer' = [signer EXCEPT
            ![v].pc = "find", ![v].coll = "invalidMints",
            ![v].height = [c \in Collections |->
                              IF c \in known THEN height[c] ELSE signer[v].height[c]]]
    BY <1>1 DEF UpdateBlocks
  <2> DEFINE h == [c \in Collections |-> IF c \in known THEN height[c] ELSE old.height[c]]
             new == [old EXCEPT !.pc = "find", !.coll = "invalidMints", !.height = h]
  <2>2. \A c \in Collections : h[c] <= height[c]
    BY <1>0 DEF SignerClaims
  <2>3. signer' = [signer EXCEPT ![v] = new]
    BY <2>1
  <2>4. /\ new.pc = "find" /\ new.snap = old.snap /\ new.height = h
        /\ new.doc = Nil
    BY <1>0, <1>1 DEF SignerState, UpdateBlocks
  <2> HIDE DEF new, h
  <2>5. SignerClaims(new)
    BY <1>0, <2>2, <2>4 DEF SignerClaims
  <2> QED
    BY <1>0, <1>1, <2>3, <2>5, SignerClaimsUpdate, ClaimsUnchanged
       DEF UpdateBlocks, dbVars, chainVars
<1>2. CASE SignerFind(v)
  <2> DEFINE found == {d \in DocsOf(old.coll) : Unsigned(v, d)}
             snap == [d \in Docs |-> IF d \in found THEN db[d] ELSE NewDocument]
             new == [old EXCEPT !.pc = "loop", !.todo = found, !.snap = snap]
  <2>1. /\ new.pc = "loop" /\ new.snap = snap /\ new.todo = found
        /\ new.height = old.height /\ new.coll = old.coll /\ new.doc = Nil
    BY <1>0, <1>2 DEF SignerState, SignerFind
  <2>2. \A d \in Docs : ClaimOK(d, snap[d])
    BY <1>0, NewDocumentClaims DEF ClaimsOK
  <2>3. found \subseteq DocsOf(old.coll)
    OBVIOUS
  <2>4. signer' = [signer EXCEPT ![v] = new]
    BY <1>2 DEF SignerFind
  <2> HIDE DEF new, snap, found
  <2>5. SignerClaims(new)
    BY <1>0, <2>1, <2>2, <2>3 DEF SignerClaims
  <2> QED
    BY <1>0, <1>2, <2>4, <2>5, SignerClaimsUpdate, ClaimsUnchanged
       DEF SignerFind, dbVars, chainVars
<1>3. CASE SignerNextCollection(v)
  <2> DEFINE pc == IF old.coll = "burns" THEN "run" ELSE "find"
             new == [old EXCEPT !.pc = pc, !.coll = "burns"]
  <2>1. /\ new.pc \in {"run", "find"} /\ new.snap = old.snap
        /\ new.height = old.height /\ new.doc = Nil
    BY <1>0, <1>3 DEF SignerState, SignerNextCollection
  <2>2. signer' = [signer EXCEPT ![v] = new]
    BY <1>3 DEF SignerNextCollection
  <2> HIDE DEF new
  <2>3. SignerClaims(new)
    BY <1>0, <2>1 DEF SignerClaims
  <2> QED
    BY <1>0, <1>3, <2>2, <2>3, SignerClaimsUpdate, ClaimsUnchanged
       DEF SignerNextCollection, dbVars, chainVars
<1>4. ASSUME NEW d \in Docs, SignerSkip(v, d)
      PROVE  ClaimsOK' /\ SignersClaims'
  BY <1>0, <1>4, SignerClaimsDone, ClaimsUnchanged DEF SignerSkip, dbVars, chainVars
<1>5. ASSUME NEW d \in Docs, SignerHandle(v, d)
      PROVE  ClaimsOK' /\ SignersClaims'
  <2> DEFINE h == old.height[old.coll]
  <2>1. ClaimsOK' /\ UNCHANGED height
    BY <1>0, <1>5, ClaimsUnchanged DEF SignerHandle, chainVars
  <2>2. CASE SignerDone(v, d)
    BY <1>0, <1>5, <2>1, <2>2, SignerClaimsDone DEF SignerHandle
  <2>3. d \in DocsOf(old.coll) /\ CollectionOf(d) = old.coll
    BY <1>0, <1>0a, <1>5, CollectionFacts DEF SignerHandle, SignerClaims
  <2>4. UpdatedStatus(d, old.snap[d], h) = "confirmed" => Confirmed(d)
    <3>1. h \in Nat /\ h <= height[CollectionOf(d)] /\ ClaimOK(d, old.snap[d])
      BY <1>0, <1>0a, <2>3 DEF SignerClaims
    <3> QED
      BY <1>0, <3>1, UpdatedStatusClaims
  <2>5. ASSUME NEW pc, SignerBegin(v, d, pc), pc \notin {"run", "find"},
               pc \in {"sequence", "account", "lock", "sign"} => Confirmed(d)
        PROVE  SignersClaims'
    <3> DEFINE new == [old EXCEPT !.pc = pc, !.doc = d, !.seq = old.snap[d].sequence]
    <3>1. /\ new.pc = pc /\ new.doc = d /\ new.snap = old.snap
          /\ new.todo = old.todo /\ new.coll = old.coll /\ new.height = old.height
      BY <1>0 DEF SignerState
    <3>2. signer' = [signer EXCEPT ![v] = new]
      BY <2>5 DEF SignerBegin
    <3>3. old.todo \subseteq DocsOf(old.coll)
      BY <1>0, <1>5 DEF SignerHandle, SignerClaims
    <3> HIDE DEF new
    <3>4. SignerClaims(new)
      BY <1>0, <2>3, <2>5, <3>1, <3>3 DEF SignerClaims
    <3> QED
      BY <1>0, <2>1, <3>2, <3>4, SignerClaimsUpdate
  <2>6. \/ SignerDone(v, d) \/ SignerBegin(v, d, "fail") \/ SignerBegin(v, d, "wait")
        \/ /\ UpdatedStatus(d, old.snap[d], h) = "confirmed"
           /\ SignerBegin(v, d, "sequence") \/ SignerBegin(v, d, "lock")
    BY <1>5 DEF SignerHandle
  <2> QED
    BY <2>1, <2>2, <2>4, <2>5, <2>6
<1>6. CASE SignerAbort(v)
  BY <1>0, <1>6, SignerClaimsDone, ClaimsUnchanged DEF SignerAbort, chainVars
<1>7. CASE SignerFail(v)
  <2> DEFINE d == old.doc
             new == [db[d] EXCEPT !.status = "failed"]
  <2>1. d \in Docs
    BY <1>0, <1>0a, <1>7 DEF SignerFail
  <2>2. new.status = "failed" /\ new.signatures = db[d].signatures
    BY <1>0, <2>1 DEF Document
  <2>3. db' = [db EXCEPT ![d] = new] \/ db' = db
    BY <1>7 DEF SignerFail
  <2> HIDE DEF new
  <2>4. ClaimOK(d, new)
    BY <1>0, <2>1, <2>2 DEF ClaimsOK, ClaimOK
  <2>5. UNCHANGED height /\ SignersClaims'
    BY <1>0, <1>7, SignerClaimsDone DEF SignerFail, chainVars
  <2> QED
    BY <1>0, <2>3, <2>4, <2>5, ClaimsUpdate
<1>8. CASE SignerWait(v)
  <2> DEFINE d == old.doc
             h == old.height[old.coll]
             status == UpdatedStatus(d, old.snap[d], h)
             confirmations == UpdatedConfirmations(d, old.snap[d], h)
             new == [db[d] EXCEPT !.status = status, !.confirmations = confirmations]
  <2>1. d \in Docs /\ CollectionOf(d) = old.coll
    BY <1>0, <1>0a, <1>8, CollectionFacts DEF SignerWait, SignerClaims
  <2>2. new.status = status /\ new.signatures = db[d].signatures
    BY <1>0, <2>1 DEF Document
  <2>3. h \in Nat /\ h <= height[CollectionOf(d)] /\ ClaimOK(d, old.snap[d])
    BY <1>0, <1>0a, <2>1 DEF SignerClaims
  <2>4. status \in {"confirmed", "signed", "submitted", "success"} => Confirmed(d)
    BY <1>0, <2>1, <2>3, UpdatedStatusClaims
  <2>5. db' = [db EXCEPT ![d] = new] \/ db' = db
    BY <1>8 DEF SignerWait
  <2> HIDE DEF new, status
  <2>6. ClaimOK(d, new)
    BY <1>0, <2>1, <2>2, <2>4 DEF ClaimsOK, ClaimOK
  <2>7. UNCHANGED height /\ SignersClaims'
    BY <1>0, <1>8, SignerClaimsDone DEF SignerWait, chainVars
  <2> QED
    BY <1>0, <2>5, <2>6, <2>7, ClaimsUpdate
<1>9. CASE ReadMaxSequence(v)
  <2>1. PICK max : signer' = [signer EXCEPT ![v].pc = "account", ![v].seq = max]
    BY <1>9 DEF ReadMaxSequence
  <2> DEFINE new == [old EXCEPT !.pc = "account", !.seq = max]
  <2>2. /\ new.pc = "account" /\ new.doc = old.doc /\ new.snap = old.snap
        /\ new.todo = old.todo /\ new.coll = old.coll /\ new.height = old.height
    BY <1>0 DEF SignerState
  <2>3. signer' = [signer EXCEPT ![v] = new]
    BY <2>1
  <2> HIDE DEF new
  <2>4. SignerClaims(new)
    BY <1>0, <1>9, <2>2 DEF SignerClaims, ReadMaxSequence
  <2> QED
    BY <1>0, <1>9, <2>3, <2>4, SignerClaimsUpdate, ClaimsUnchanged DEF ReadMaxSequence, chainVars
<1>10. CASE ReadAccount(v)
  <2> DEFINE seq == NextSequence(old.seq)
             new == [old EXCEPT !.pc = "lock", !.seq = seq]
  <2>1. /\ new.pc = "lock" /\ new.doc = old.doc /\ new.snap = old.snap
        /\ new.todo = old.todo /\ new.coll = old.coll /\ new.height = old.height
    BY <1>0 DEF SignerState
  <2>2. signer' = [signer EXCEPT ![v] = new]
    BY <1>10 DEF ReadAccount
  <2> HIDE DEF new
  <2>3. SignerClaims(new)
    BY <1>0, <1>10, <2>1 DEF SignerClaims, ReadAccount
  <2> QED
    BY <1>0, <1>10, <2>2, <2>3, SignerClaimsUpdate, ClaimsUnchanged DEF ReadAccount, chainVars
<1>11. CASE LockSequence(v)
  <2> DEFINE new == [old EXCEPT !.pc = "sign"]
  <2>1. /\ new.pc = "sign" /\ new.doc = old.doc /\ new.snap = old.snap
        /\ new.todo = old.todo /\ new.coll = old.coll /\ new.height = old.height
    BY <1>0 DEF SignerState
  <2>2. signer' = [signer EXCEPT ![v] = new]
    BY <1>11 DEF LockSequence
  <2> HIDE DEF new
  <2>3. SignerClaims(new)
    BY <1>0, <1>11, <2>1 DEF SignerClaims, LockSequence
  <2> QED
    BY <1>0, <1>11, <2>2, <2>3, SignerClaimsUpdate, ClaimsUnchanged DEF LockSequence, chainVars
<1>12. CASE SignerSign(v)
  <2> DEFINE d == old.doc
             status == IF Cardinality(FinalSignatures(v)) >= Threshold
                       THEN "signed" ELSE "confirmed"
             new == [db[d] EXCEPT !.status = status,
                                  !.signatures = FinalSignatures(v),
                                  !.sequence = old.seq]
  <2>1. Confirmed(d)
    BY <1>0, <1>12 DEF SignerSign, SignerClaims
  <2>2. ClaimOK(d, new)
    BY <2>1 DEF ClaimOK
  <2>3. db' = [db EXCEPT ![d] = new] \/ db' = db
    BY <1>12 DEF SignerSign
  <2> HIDE DEF new
  <2>4. UNCHANGED height /\ SignersClaims'
    BY <1>0, <1>12, SignerClaimsDone DEF SignerSign, chainVars
  <2> QED
    BY <1>0, <2>2, <2>3, <2>4, ClaimsUpdate
<1> QED
  BY <1>1, <1>2, <1>3, <1>4, <1>5, <1>6, <1>7, <1>8, <1>9, <1>10, <1>11, <1>12
     DEF SignerNext

\* The steps of an executor only change documents that are confirmed.
LEMMA ExecutorClaimsStep ==
    ASSUME ConfirmedInv, NEW v \in Validators, ExecutorNext(v)
    PROVE  ClaimsOK'
<1> DEFINE d == executor[v].doc
<1>0. db \in [Docs -> Document] /\ ClaimsOK
  BY DEF ConfirmedInv, TypeInv, TypeOK, DBTypeOK
<1>1. UNCHANGED height
  BY DEF ExecutorNext, ExecutorFind, ExecutorNextCollection, ExecutorSkip, ExecutorHandle,
         ExecutorAbort, Broadcast, Submit, CheckTx, Succeed, Reset, chainVars
<1>2. ASSUME NEW new, db' = IF db[d].status \in {"signed", "submitted"}
                            THEN [db EXCEPT ![d] = new] ELSE db
      PROVE  ClaimsOK'
  <2>1. CASE d \in Docs /\ db[d].status \in {"signed", "submitted"}
    <3>1. ClaimOK(d, new)
      BY <1>0, <2>1 DEF ClaimsOK, ClaimOK
    <3> QED
      BY <1>0, <1>1, <1>2, <2>1, <3>1, ClaimsUpdate
  <2>2. CASE d \notin Docs
    <3>1. db' = [db EXCEPT ![d] = new] \/ db' = db
      BY <1>2
    <3> QED
      BY <1>0, <1>1, <2>2, <3>1, ClaimsUpdate
  <2>3. CASE db[d].status \notin {"signed", "submitted"}
    BY <1>0, <1>1, <1>2, <2>3, ClaimsUnchanged
  <2> QED
    BY <2>1, <2>2, <2>3
<1>3. CASE Submit(v)
  <2> DEFINE new == [db[d] EXCEPT !.status = "submitted",
                                  !.hash = ReturnTx(d, executor[v].snap[d])]
  <2>1. \/ db' = IF db[d].status \in {"signed", "submitted"}
                 THEN [db EXCEPT ![d] = new] ELSE db
        \/ db' = db
    BY <1>3 DEF Submit, Submittable
  <2> HIDE DEF new
  <2> QED
    BY <1>0, <1>1, <1>2, <2>1, ClaimsUnchanged
<1>4. CASE Succeed(v)
  <2> DEFINE new == [db[d] EXCEPT !.status = "success"]
  <2>1. \/ db' = IF db[d].status \in {"signed", "submitted"}
                 THEN [db EXCEPT ![d] = new] ELSE db
        \/ db' = db
    BY <1>4 DEF Succeed, Checkable
  <2> HIDE DEF new
  <2> QED
    BY <1>0, <1>1, <1>2, <2>1, ClaimsUnchanged
<1>5. CASE Reset(v)
  <2> DEFINE new == [db[d] EXCEPT !.status = "confirmed", !.hash = Nil,
                                  !.signatures = {}, !.sequence = Nil]
  <2>1. \/ db' = IF db[d].status \in {"signed", "submitted"}
                 THEN [db EXCEPT ![d] = new] ELSE db
        \/ db' = db
    BY <1>5 DEF Reset, Checkable
  <2> HIDE DEF new
  <2> QED
    BY <1>0, <1>1, <1>2, <2>1, ClaimsUnchanged
<1>6. Submit(v) \/ Succeed(v) \/ Reset(v) \/ UNCHANGED db
  BY DEF ExecutorNext, ExecutorFind, ExecutorNextCollection, ExecutorSkip,
         ExecutorHandle, ExecutorAbort, Broadcast, CheckTx, dbVars
<1> QED
  BY <1>0, <1>1, <1>3, <1>4, <1>5, <1>6, ClaimsUnchanged

\* Every step keeps the claims right: a new block only confirms more.
LEMMA ConfirmedStep == ConfirmedInv /\ [Next]_vars => ConfirmedInv'
<1> SUFFICES ASSUME ConfirmedInv, [Next]_vars PROVE ClaimsOK' /\ SignersClaims'
  BY TypeStep DEF ConfirmedInv
<1>0. /\ signer \in [Validators -> SignerState] /\ height \in [Collections -> Nat]
      /\ ClaimsOK /\ SignersClaims
  BY DEF ConfirmedInv, TypeInv, TypeOK, DBTypeOK
<1>1. ASSUME NEW v \in Validators, SignerStep(v) PROVE ClaimsOK' /\ SignersClaims'
  BY <1>1, SignerClaimsStep DEF SignerStep
<1>2. ASSUME NEW v \in Validators, ExecutorStep(v) PROVE ClaimsOK' /\ SignersClaims'
  <2>1. UNCHANGED <<signer, height>>
    BY <1>2 DEF ExecutorStep, ExecutorNext, ExecutorFind, ExecutorNextCollection,
       ExecutorSkip, ExecutorHandle, ExecutorAbort, Broadcast, Submit, CheckTx, Succeed,
       Reset, chainVars
  <2>2. SignersClaims'
    BY <1>0, <2>1 DEF SignersClaims, SignerClaims, ClaimOK, Confirmed
  <2> QED
    BY <1>2, <2>2, ExecutorClaimsStep DEF ExecutorStep
<1>3. ASSUME NEW v \in Validators, Crash(v) PROVE ClaimsOK' /\ SignersClaims'
  <2>1. PICK new : signer' = [signer EXCEPT ![v] = new] /\ SignerClaims(new)
    BY <1>0, <1>3, CrashSigners, NewSignerFields, NewDocumentClaims DEF SignerClaims
  <2> QED
    BY <1>0, <1>3, <2>1, SignerClaimsUpdate, ClaimsUnchanged DEF Crash, dbVars, chainVars
<1>4. ASSUME NEW c \in Collections, Block(c) PROVE ClaimsOK' /\ SignersClaims'
  <2>1. /\ height' \in [Collections -> Nat]
        /\ \A x \in Collections : height[x] <= height'[x]
    BY <1>0, <1>4 DEF Block
  <2>2. UNCHANGED <<db, signer>>
    BY <1>4 DEF Block, dbVars
  <2>3. ClaimsOK'
    BY <1>0, <2>1, <2>2, ConfirmedStable DEF ClaimsOK, ClaimOK
  <2>4. ASSUME NEW v \in Validators PROVE SignerClaims(signer[v])'
    <3> DEFINE s == signer[v]
    <3>1. SignerClaims(s) /\ s' = s /\ s.height \in [Collections -> Nat]
          /\ s.doc \in Docs \cup {Nil}
      BY <1>0, <2>2 DEF SignersClaims, SignerState
    <3>2. \A x \in Collections : s.height[x] <= height'[x]
      BY <1>0, <2>1, <3>1 DEF SignerClaims
    <3>3. s.pc \in {"sequence", "account", "lock", "sign"} => s.doc \in Docs
      BY <3>1 DEF ConfirmedInv, TypeInv, SignerControl
    <3>4. s.pc \in {"sequence", "account", "lock", "sign"} => Confirmed(s.doc)'
      BY <1>0, <2>1, <2>2, <3>1, <3>3, ConfirmedStable DEF SignerClaims, Confirmed
    <3>5. \A d \in Docs : ClaimOK(d, s.snap[d])'
      BY <1>0, <2>1, <2>2, <3>1, ConfirmedStable DEF SignerClaims, ClaimOK
    <3> QED
      BY <2>2, <3>1, <3>2, <3>4, <3>5 DEF SignerClaims
  <2> QED
    BY <2>3, <2>4 DEF SignersClaims
<1>5. CASE UNCHANGED <<db, height, signer>>
  <2>1. SignersClaims'
    BY <1>0, <1>5 DEF SignersClaims, SignerClaims, ClaimOK, Confirmed
  <2> QED
    BY <1>0, <1>5, <2>1, ClaimsUnchanged
<1>6. \/ \E v \in Validators : SignerStep(v) \/ ExecutorStep(v) \/ Crash(v)
      \/ \E c \in Collections : Block(c)
      \/ UNCHANGED <<db, height, signer>>
  BY DEF Next, Drop, Commit, ExpireLock, vars, dbVars, chainVars
<1> QED
  BY <1>1, <1>2, <1>3, <1>4, <1>5, <1>6

\* No document carries a signature before its transaction is confirmed.
THEOREM SignedAlwaysConfirmed == Spec => []SignedIsConfirmed
<1>1. ConfirmedInv => SignedIsConfirmed
  BY DEF ConfirmedInv, ClaimsOK, ClaimOK, Confirmed, SignedIsConfirmed
<1> QED
  BY <1>1, InitConfirmedInv, ConfirmedStep, PTL DEF Spec

=============================================================================
