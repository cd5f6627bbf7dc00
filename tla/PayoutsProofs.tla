--------------------------- MODULE PayoutsProofs ---------------------------
(***************************************************************************)
(* Theorems about Payouts, for any number of validators and documents, any *)
(* threshold and any bound on the faults.                                  *)
(***************************************************************************)
EXTENDS Payouts, FiniteSetTheorems, TLAPS

-----------------------------------------------------------------------------
(* The control state of the services *)

\* A service holds a document exactly between XLock and Unlock, and a signer
\* that is about to write signatures has a sequence.
SignerControl ==
    \A v \in Validators :
        /\ signer[v].doc = Nil <=> signer[v].pc \in {"run", "find", "loop"}
        /\ signer[v].pc \in {"lock", "sign"} => signer[v].seq \in Nat

\* An executor that has broadcast a transaction has checked its signatures.
ExecutorControl ==
    \A v \in Validators :
        /\ executor[v].doc = Nil <=> executor[v].pc \in {"find", "loop"}
        /\ executor[v].pc = "submit" =>
               ValidSignatures(executor[v].snap[executor[v].doc])

TypeInv == TypeOK /\ SignerControl /\ ExecutorControl

-----------------------------------------------------------------------------

\* Nil is no document and no sequence.
LEMMA NilFacts == Nil \notin Docs /\ Nil \notin Nat /\ Docs = Burns \cup InvalidMints
BY NilAssumption DEF Docs

\* The statuses of models/status.go.
LEMMA StatusFacts ==
    Status = {"pending", "confirmed", "signed", "submitted", "success", "failed"}
BY DEF Status

\* A document with another status is a document.
LEMMA StatusUpdate ==
    ASSUME NEW doc \in Document, NEW status \in Status
    PROVE  [doc EXCEPT !.status = status] \in Document
BY DEF Document

\* A document after a reset is a document.
LEMMA ResetUpdate ==
    ASSUME NEW doc \in Document
    PROVE  [doc EXCEPT !.status = "confirmed", !.hash = Nil,
                       !.signatures = {}, !.sequence = Nil] \in Document
<1>1. "confirmed" \in Status
  BY StatusFacts
<1>2. PICK status \in Status : status = "confirmed"
  BY <1>1
<1>3. [doc EXCEPT !.status = status, !.hash = Nil,
                  !.signatures = {}, !.sequence = Nil] \in Document
  BY DEF Document
<1> QED
  BY <1>2, <1>3

\* A new document is a document.
LEMMA NewDocumentType == NewDocument \in Document
BY DEF NewDocument, Document, Status

\* The return transaction of a document with enough signatures is well formed.
LEMMA ReturnTxType ==
    ASSUME NEW d \in Docs, NEW doc \in Document, ValidSignatures(doc)
    PROVE  /\ doc.sequence \in Nat
           /\ ReturnTx(d, doc) \in Tx
<1>1. doc.signatures # {}
  BY FS_EmptySet, ThresholdAssumption DEF ValidSignatures
<1>2. PICK sig \in doc.signatures : sig.sequence = doc.sequence
  BY <1>1 DEF ValidSignatures
<1>3. doc.sequence \in Nat
  BY <1>2 DEF Document, Signature
<1>4. Signers(doc.signatures) \in SUBSET Validators
  BY DEF Signers, Document, Signature
<1> QED
  BY <1>3, <1>4 DEF ReturnTx, Tx

\* The sequence FindMaxSequence chooses is a number.
LEMMA NextSequenceType ==
    ASSUME NEW max \in Nat \cup {Nil}, ledger \in Seq(Entry)
    PROVE  NextSequence(max) \in Nat
BY DEF NextSequence, AccountSequence

\* What a signer is made of when it starts.
LEMMA NewSignerFields ==
    ASSUME NEW accepts
    PROVE  /\ NewSigner(accepts).accepts = accepts /\ NewSigner(accepts).pc = "run"
           /\ NewSigner(accepts).doc = Nil /\ NewSigner(accepts).todo = {}
           /\ \A d \in Docs : NewSigner(accepts).snap[d] = NewDocument
           /\ \A c \in Collections : NewSigner(accepts).height[c] = 0
           /\ accepts \in SUBSET Docs => NewSigner(accepts) \in SignerState
BY NewDocumentType DEF NewSigner, SignerState, SignerPC, Collections

\* In the beginning every signer has just started, with some of its settings.
LEMMA InitSigners ==
    ASSUME Init, NEW v \in Validators
    PROVE  \E accepts \in Approves[v] : accepts \in SUBSET Docs /\ signer[v] = NewSigner(accepts)
<1>1. PICK accepts \in SUBSET Docs : signer[v] = NewSigner(accepts)
  BY DEF Init, SignerInit
<1>2. signer[v].accepts = accepts
  BY <1>1, NewSignerFields
<1> QED
  BY <1>1, <1>2 DEF Init, SignerInit

\* A validator that restarts starts its signer with some of its settings.
LEMMA CrashSigners ==
    ASSUME NEW v \in Validators, Crash(v)
    PROVE  \E accepts \in Approves[v] :
               /\ accepts \in SUBSET Docs
               /\ signer' = [signer EXCEPT ![v] = NewSigner(accepts)]
BY ApprovesAssumption DEF Crash

\* A fresh database and freshly started services are well typed.
LEMMA InitTypeInv == Init => TypeInv
<1> SUFFICES ASSUME Init PROVE TypeInv
  OBVIOUS
<1> USE DEF Init
<1>1. DBTypeOK
  BY NewDocumentType DEF DBInit, DBTypeOK, Entry
<1>2. signer \in [Validators -> SignerState]
  <2>1. \A v \in Validators : signer[v] \in SignerState
    BY InitSigners, NewSignerFields
  <2> QED
    BY <2>1 DEF SignerInit
<1>3. executor \in [Validators -> ExecutorState]
  BY NewDocumentType DEF ExecutorInit, NewExecutor, ExecutorState, ExecutorPC, Collections
<1>4. SignerControl /\ ExecutorControl
  <2>1. SignerControl
    BY InitSigners, NewSignerFields DEF SignerControl
  <2> QED
    BY <2>1 DEF ExecutorInit, NewExecutor, ExecutorControl
<1> QED
  BY <1>1, <1>2, <1>3, <1>4 DEF TypeInv, TypeOK

\* Releasing locks keeps their types.
LEMMA UnlockType ==
    ASSUME locks \in [Docs -> Workers \cup {Nil}], NEW d, NEW w, UnlockDoc(d, w)
    PROVE  locks' \in [Docs -> Workers \cup {Nil}]
BY DEF UnlockDoc

\* A new local state of a well-formed signer, in control terms too.
LEMMA SignerUpdate ==
    ASSUME signer \in [Validators -> SignerState], SignerControl,
           NEW v \in Validators, NEW new \in SignerState,
           signer' = [signer EXCEPT ![v] = new],
           new.doc = Nil <=> new.pc \in {"run", "find", "loop"},
           new.pc \in {"lock", "sign"} => new.seq \in Nat
    PROVE  signer' \in [Validators -> SignerState] /\ SignerControl'
BY DEF SignerControl

\* A new local state of a well-formed executor, in control terms too.
LEMMA ExecutorUpdate ==
    ASSUME executor \in [Validators -> ExecutorState], ExecutorControl,
           NEW v \in Validators, NEW new \in ExecutorState,
           executor' = [executor EXCEPT ![v] = new],
           new.doc = Nil <=> new.pc \in {"find", "loop"},
           new.pc = "submit" => ValidSignatures(new.snap[new.doc])
    PROVE  executor' \in [Validators -> ExecutorState] /\ ExecutorControl'
BY DEF ExecutorControl

\* Writing one well-formed document keeps the type of the collections.
LEMMA DocumentUpdate ==
    ASSUME db \in [Docs -> Document], NEW d, NEW new \in Document,
           db' = [db EXCEPT ![d] = new] \/ db' = db
    PROVE  db' \in [Docs -> Document]
OBVIOUS

\* Going back to the loop keeps the type and the control state of a signer.
LEMMA SignerDoneType ==
    ASSUME signer \in [Validators -> SignerState], SignerControl,
           NEW v \in Validators, NEW d, SignerDone(v, d)
    PROVE  signer' \in [Validators -> SignerState] /\ SignerControl'
<1> DEFINE old == signer[v]
           new == [old EXCEPT !.pc = "loop", !.doc = Nil, !.seq = Nil,
                              !.todo = @ \ {d},
                              !.snap = [@ EXCEPT ![d] = NewDocument]]
<1>1. signer' = [signer EXCEPT ![v] = new]
  BY DEF SignerDone
<1>2. new \in SignerState
  BY NewDocumentType DEF SignerState, SignerPC
<1>3. new.doc = Nil /\ new.pc = "loop"
  BY DEF SignerState
<1> HIDE DEF new
<1> QED
  BY <1>1, <1>2, <1>3 DEF SignerControl

\* Going back to the loop keeps the type and the control state of an executor.
LEMMA ExecutorDoneType ==
    ASSUME executor \in [Validators -> ExecutorState], ExecutorControl,
           NEW v \in Validators, NEW d, ExecutorDone(v, d)
    PROVE  executor' \in [Validators -> ExecutorState] /\ ExecutorControl'
<1> DEFINE old == executor[v]
           new == [old EXCEPT !.pc = "loop", !.doc = Nil,
                              !.todo = @ \ {d},
                              !.snap = [@ EXCEPT ![d] = NewDocument]]
<1>1. executor' = [executor EXCEPT ![v] = new]
  BY DEF ExecutorDone
<1>2. new \in ExecutorState
  BY NewDocumentType DEF ExecutorState, ExecutorPC
<1>3. new.doc = Nil /\ new.pc = "loop"
  BY DEF ExecutorState
<1> HIDE DEF new
<1> QED
  BY <1>1, <1>2, <1>3 DEF ExecutorControl

\* Every step of a signer keeps the types.
LEMMA SignerTypeStep ==
    ASSUME TypeInv, NEW v \in Validators, SignerNext(v)
    PROVE  DBTypeOK' /\ signer' \in [Validators -> SignerState] /\ SignerControl'
<1> USE DEF TypeInv, TypeOK
<1>1. CASE UpdateBlocks(v)
  <2>1. DBTypeOK'
    BY <1>1 DEF UpdateBlocks, DBTypeOK, dbVars, chainVars
  <2>2. signer' \in [Validators -> SignerState] /\ SignerControl'
    <3>1. PICK known : signer' = [signer EXCEPT
              ![v].pc = "find", ![v].coll = "invalidMints",
              ![v].height = [c \in Collections |->
                                IF c \in known THEN height[c] ELSE signer[v].height[c]]]
      BY <1>1 DEF UpdateBlocks
    <3> DEFINE old == signer[v]
               h == [c \in Collections |-> IF c \in known THEN height[c] ELSE old.height[c]]
               new == [old EXCEPT !.pc = "find", !.coll = "invalidMints", !.height = h]
    <3>2. old \in SignerState /\ old.doc = Nil
      BY <1>1 DEF UpdateBlocks, SignerControl
    <3>3. h \in [Collections -> Nat]
      BY <3>2 DEF DBTypeOK, SignerState
    <3>4. new \in SignerState /\ new.doc = Nil /\ new.pc = "find"
      BY <3>2, <3>3 DEF SignerState, SignerPC, Collections
    <3>5. signer' = [signer EXCEPT ![v] = new]
      BY <3>1
    <3> QED
      BY <3>4, <3>5, SignerUpdate
  <2> QED
    BY <2>1, <2>2
<1>2. CASE SignerFind(v)
  <2>1. DBTypeOK'
    BY <1>2 DEF SignerFind, DBTypeOK, dbVars, chainVars
  <2>2. {d \in DocsOf(signer[v].coll) : Unsigned(v, d)} \in SUBSET Docs
    BY DEF DocsOf, Docs
  <2>3. signer' \in [Validators -> SignerState] /\ SignerControl'
    <3> DEFINE old == signer[v]
               found == {d \in DocsOf(old.coll) : Unsigned(v, d)}
               snap == [d \in Docs |-> IF d \in found THEN db[d] ELSE NewDocument]
               new == [old EXCEPT !.pc = "loop", !.todo = found, !.snap = snap]
    <3>1. old \in SignerState /\ old.doc = Nil
      BY <1>2 DEF SignerFind, SignerControl
    <3>2. snap \in [Docs -> Document]
      BY NewDocumentType DEF DBTypeOK
    <3>3. new \in SignerState /\ new.doc = Nil /\ new.pc = "loop"
      BY <2>2, <3>1, <3>2 DEF SignerState, SignerPC
    <3>4. signer' = [signer EXCEPT ![v] = new]
      BY <1>2 DEF SignerFind
    <3> QED
      BY <3>3, <3>4, SignerUpdate
  <2> QED
    BY <2>1, <2>3
<1>3. CASE SignerNextCollection(v)
  <2>1. DBTypeOK'
    BY <1>3 DEF SignerNextCollection, DBTypeOK, dbVars, chainVars
  <2>2. signer' \in [Validators -> SignerState] /\ SignerControl'
    <3> DEFINE old == signer[v]
               pc == IF old.coll = "burns" THEN "run" ELSE "find"
               new == [old EXCEPT !.pc = pc, !.coll = "burns"]
    <3>1. old \in SignerState /\ old.doc = Nil
      BY <1>3 DEF SignerNextCollection, SignerControl
    <3>2. new \in SignerState /\ new.doc = Nil /\ new.pc \in {"run", "find"}
      BY <3>1 DEF SignerState, SignerPC, Collections
    <3>3. signer' = [signer EXCEPT ![v] = new]
      BY <1>3 DEF SignerNextCollection
    <3> QED
      BY <3>2, <3>3, SignerUpdate
  <2> QED
    BY <2>1, <2>2
<1>4. ASSUME NEW d \in Docs, SignerSkip(v, d)
      PROVE  DBTypeOK' /\ signer' \in [Validators -> SignerState] /\ SignerControl'
  <2>1. DBTypeOK'
    BY <1>4 DEF SignerSkip, DBTypeOK, dbVars, chainVars
  <2> QED
    BY <1>4, <2>1, SignerDoneType DEF SignerSkip
<1>5. ASSUME NEW d \in Docs, SignerHandle(v, d)
      PROVE  DBTypeOK' /\ signer' \in [Validators -> SignerState] /\ SignerControl'
  <2>1. SignerWorker(v) \in Workers
    BY DEF SignerWorker, Workers
  <2>2. CASE SignerDone(v, d) /\ UNCHANGED locks
    <3>1. DBTypeOK'
      BY <1>5, <2>2 DEF SignerHandle, DBTypeOK, chainVars
    <3> QED
      BY <2>2, <3>1, SignerDoneType
  <2>3. ASSUME NEW pc \in {"fail", "wait", "sequence", "lock"}, SignerBegin(v, d, pc),
               pc = "lock" => signer[v].snap[d].sequence # Nil
        PROVE  DBTypeOK' /\ signer' \in [Validators -> SignerState] /\ SignerControl'
    <3>1. DBTypeOK'
      BY <1>5, <2>1, <2>3 DEF SignerHandle, SignerBegin, LockDoc, DBTypeOK, chainVars
    <3>2. signer[v].snap[d].sequence \in Nat \cup {Nil}
      BY DEF SignerState, Document
    <3>3. signer' \in [Validators -> SignerState] /\ SignerControl'
      <4> DEFINE old == signer[v]
                 new == [old EXCEPT !.pc = pc, !.doc = d, !.seq = old.snap[d].sequence]
      <4>1. new \in SignerState
        BY <3>2 DEF SignerState, SignerPC
      <4>2. new.doc = d /\ new.pc = pc /\ new.seq = old.snap[d].sequence
        BY DEF SignerState
      <4>3. signer' = [signer EXCEPT ![v] = new]
        BY <2>3 DEF SignerBegin
      <4> HIDE DEF new
      <4>4. pc # "sign" /\ pc \notin {"run", "find", "loop"} /\ d # Nil
        BY NilFacts
      <4>5. new.pc \in {"lock", "sign"} => new.seq \in Nat
        BY <2>3, <3>2, <4>2, <4>4
      <4> QED
        BY <4>1, <4>2, <4>3, <4>4, <4>5, SignerUpdate
    <3> QED
      BY <3>1, <3>3
  <2> QED
    BY <1>5, <2>2, <2>3 DEF SignerHandle
<1>6. CASE SignerAbort(v)
  <2>1. DBTypeOK'
    BY <1>6, UnlockType DEF SignerAbort, DBTypeOK, chainVars
  <2> QED
    BY <1>6, <2>1, SignerDoneType DEF SignerAbort
<1>7. CASE SignerFail(v)
  <2>1. db' \in [Docs -> Document]
    <3> DEFINE d == signer[v].doc
               new == [db[d] EXCEPT !.status = "failed"]
    <3>1. d \in Docs
      BY <1>7 DEF SignerFail, SignerControl, SignerState
    <3>2. new \in Document
      BY <3>1, StatusFacts, StatusUpdate DEF DBTypeOK
    <3>3. db' = [db EXCEPT ![d] = new] \/ db' = db
      BY <1>7 DEF SignerFail
    <3> QED
      BY <3>2, <3>3, DocumentUpdate DEF DBTypeOK
  <2>2. DBTypeOK'
    BY <1>7, <2>1, UnlockType DEF SignerFail, DBTypeOK, chainVars
  <2> QED
    BY <1>7, <2>2, SignerDoneType DEF SignerFail
<1>8. CASE SignerWait(v)
  <2> DEFINE d == signer[v].doc
             doc == signer[v].snap[d]
             h == signer[v].height[signer[v].coll]
  <2>1. d \in Docs /\ doc \in Document /\ h \in Nat
    BY <1>8 DEF SignerWait, SignerControl, SignerState
  <2>2. UpdatedStatus(d, doc, h) \in Status
    BY <2>1 DEF UpdatedStatus, Document, Status
  <2>3. UpdatedConfirmations(d, doc, h) \in Int
    BY <2>1, HeightAssumption DEF UpdatedConfirmations, StoredConfirmations, Document
  <2>4. db' \in [Docs -> Document]
    <3> DEFINE new == [db[d] EXCEPT !.status = UpdatedStatus(d, doc, h),
                                    !.confirmations = UpdatedConfirmations(d, doc, h)]
    <3>1. new \in Document
      BY <2>1, <2>2, <2>3 DEF DBTypeOK, Document
    <3>2. db' = [db EXCEPT ![d] = new] \/ db' = db
      BY <1>8 DEF SignerWait
    <3> QED
      BY <3>1, <3>2, DocumentUpdate DEF DBTypeOK
  <2>5. DBTypeOK'
    BY <1>8, <2>4, UnlockType DEF SignerWait, DBTypeOK, chainVars
  <2> QED
    BY <1>8, <2>5, SignerDoneType DEF SignerWait
<1>9. CASE ReadMaxSequence(v)
  <2>1. SignerWorker(v) \in Workers
    BY DEF SignerWorker, Workers
  <2>2. DBTypeOK'
    BY <1>9, <2>1 DEF ReadMaxSequence, DBTypeOK, chainVars
  <2>3. ReservedSequences \in SUBSET Nat
    BY DEF ReservedSequences, DBTypeOK, Document
  <2>4. signer' \in [Validators -> SignerState] /\ SignerControl'
    <3>1. PICK max \in Nat \cup {Nil} :
              signer' = [signer EXCEPT ![v].pc = "account", ![v].seq = max]
      BY <1>9, <2>3 DEF ReadMaxSequence
    <3> DEFINE old == signer[v]
               new == [old EXCEPT !.pc = "account", !.seq = max]
    <3>2. old \in SignerState /\ old.doc # Nil
      BY <1>9 DEF ReadMaxSequence, SignerControl
    <3>3. new \in SignerState /\ new.doc # Nil /\ new.pc = "account"
      BY <3>1, <3>2 DEF SignerState, SignerPC
    <3>4. signer' = [signer EXCEPT ![v] = new]
      BY <3>1
    <3> QED
      BY <3>3, <3>4, SignerUpdate
  <2> QED
    BY <2>2, <2>4
<1>10. CASE ReadAccount(v)
  <2>1. DBTypeOK'
    BY <1>10 DEF ReadAccount, DBTypeOK, chainVars
  <2>2. NextSequence(signer[v].seq) \in Nat
    BY NextSequenceType DEF SignerState, DBTypeOK
  <2>3. signer' \in [Validators -> SignerState] /\ SignerControl'
    <3> DEFINE old == signer[v]
               seq == NextSequence(old.seq)
               new == [old EXCEPT !.pc = "lock", !.seq = seq]
    <3>1. old \in SignerState /\ old.doc # Nil
      BY <1>10 DEF ReadAccount, SignerControl
    <3>2. seq \in Nat
      BY <2>2
    <3>3. signer' = [signer EXCEPT ![v] = new]
      BY <1>10 DEF ReadAccount
    <3> HIDE DEF seq
    <3>4. new \in SignerState /\ new.doc # Nil /\ new.pc = "lock" /\ new.seq \in Nat
      BY <3>1, <3>2 DEF SignerState, SignerPC
    <3> QED
      BY <3>3, <3>4, SignerUpdate
  <2> QED
    BY <2>1, <2>3
<1>11. CASE LockSequence(v)
  <2>1. SignerWorker(v) \in Workers
    BY DEF SignerWorker, Workers
  <2>2. DBTypeOK'
    BY <1>11, <2>1 DEF LockSequence, DBTypeOK, chainVars
  <2>3. signer' \in [Validators -> SignerState] /\ SignerControl'
    <3> DEFINE old == signer[v]
               new == [old EXCEPT !.pc = "sign"]
    <3>1. old \in SignerState /\ old.doc # Nil /\ old.seq \in Nat
      BY <1>11 DEF LockSequence, SignerControl
    <3>2. new \in SignerState /\ new.doc # Nil /\ new.pc = "sign" /\ new.seq \in Nat
      BY <3>1 DEF SignerState, SignerPC
    <3>3. signer' = [signer EXCEPT ![v] = new]
      BY <1>11 DEF LockSequence
    <3> QED
      BY <3>2, <3>3, SignerUpdate
  <2> QED
    BY <2>2, <2>3
<1>12. CASE SignerSign(v)
  <2>1. signer[v].seq \in Nat /\ signer[v].doc \in Docs
    BY <1>12 DEF SignerSign, SignerControl, SignerState
  <2>2. FinalSignatures(v) \in SUBSET Signature
    BY <2>1 DEF FinalSignatures, SignerState, Document, Signature
  <2>3. db' \in [Docs -> Document]
    <3> DEFINE d == signer[v].doc
               status == IF Cardinality(FinalSignatures(v)) >= Threshold
                         THEN "signed" ELSE "confirmed"
               new == [db[d] EXCEPT !.status = status,
                                    !.signatures = FinalSignatures(v),
                                    !.sequence = signer[v].seq]
    <3>1. status \in Status
      BY StatusFacts
    <3> HIDE DEF status
    <3>2. new \in Document
      BY <2>1, <2>2, <3>1 DEF DBTypeOK, Document
    <3>3. db' = [db EXCEPT ![d] = new] \/ db' = db
      BY <1>12 DEF SignerSign, status
    <3> QED
      BY <3>2, <3>3, DocumentUpdate DEF DBTypeOK
  <2>4. DBTypeOK'
    BY <1>12, <2>3, UnlockType DEF SignerSign, DBTypeOK, chainVars
  <2> QED
    BY <1>12, <2>4, SignerDoneType DEF SignerSign
<1> QED
  BY <1>1, <1>2, <1>3, <1>4, <1>5, <1>6, <1>7, <1>8, <1>9, <1>10, <1>11, <1>12 DEF SignerNext

\* Every step of an executor keeps the types.
LEMMA ExecutorTypeStep ==
    ASSUME TypeInv, NEW v \in Validators, ExecutorNext(v)
    PROVE  DBTypeOK' /\ executor' \in [Validators -> ExecutorState] /\ ExecutorControl'
<1> USE DEF TypeInv, TypeOK
<1> DEFINE old == executor[v]
<1>0. old \in ExecutorState
  OBVIOUS
<1>1. CASE ExecutorFind(v)
  <2>1. DBTypeOK'
    BY <1>1 DEF ExecutorFind, DBTypeOK, dbVars, chainVars
  <2> DEFINE found == {d \in DocsOf(old.coll) : db[d].status \in {"signed", "submitted"}}
             snap == [d \in Docs |-> IF d \in found THEN db[d] ELSE NewDocument]
             new == [old EXCEPT !.pc = "loop", !.todo = found, !.snap = snap]
  <2>2. old.doc = Nil /\ found \in SUBSET Docs
    BY <1>1 DEF ExecutorFind, ExecutorControl, DocsOf, Docs
  <2>3. snap \in [Docs -> Document]
    BY NewDocumentType DEF DBTypeOK
  <2>4. new \in ExecutorState /\ new.doc = Nil /\ new.pc = "loop"
    BY <1>0, <2>2, <2>3 DEF ExecutorState, ExecutorPC
  <2>5. executor' = [executor EXCEPT ![v] = new]
    BY <1>1 DEF ExecutorFind
  <2> QED
    BY <2>1, <2>4, <2>5, ExecutorUpdate
<1>2. CASE ExecutorNextCollection(v)
  <2>1. DBTypeOK'
    BY <1>2 DEF ExecutorNextCollection, DBTypeOK, dbVars, chainVars
  <2> DEFINE coll == IF old.coll = "burns" THEN "invalidMints" ELSE "burns"
             new == [old EXCEPT !.pc = "find", !.coll = coll]
  <2>2. old.doc = Nil
    BY <1>2 DEF ExecutorNextCollection, ExecutorControl
  <2>3. new \in ExecutorState /\ new.doc = Nil /\ new.pc = "find"
    BY <1>0, <2>2 DEF ExecutorState, ExecutorPC, Collections
  <2>4. executor' = [executor EXCEPT ![v] = new]
    BY <1>2 DEF ExecutorNextCollection
  <2> QED
    BY <2>1, <2>3, <2>4, ExecutorUpdate
<1>3. ASSUME NEW d \in Docs, ExecutorSkip(v, d)
      PROVE  DBTypeOK' /\ executor' \in [Validators -> ExecutorState] /\ ExecutorControl'
  <2>1. DBTypeOK'
    BY <1>3 DEF ExecutorSkip, DBTypeOK, dbVars, chainVars
  <2> QED
    BY <1>3, <2>1, ExecutorDoneType DEF ExecutorSkip
<1>4. ASSUME NEW d \in Docs, ExecutorHandle(v, d)
      PROVE  DBTypeOK' /\ executor' \in [Validators -> ExecutorState] /\ ExecutorControl'
  <2>1. ExecutorWorker(v) \in Workers
    BY DEF ExecutorWorker, Workers
  <2>2. DBTypeOK'
    BY <1>4, <2>1 DEF ExecutorHandle, LockDoc, DBTypeOK, chainVars
  <2> DEFINE pc == IF old.snap[d].status = "signed" THEN "broadcast" ELSE "check"
             new == [old EXCEPT !.pc = pc, !.doc = d]
  <2>3. new \in ExecutorState /\ new.doc # Nil /\ new.pc \in {"broadcast", "check"}
    BY <1>0, NilFacts DEF ExecutorState, ExecutorPC
  <2>4. executor' = [executor EXCEPT ![v] = new]
    BY <1>4 DEF ExecutorHandle
  <2> QED
    BY <2>2, <2>3, <2>4, ExecutorUpdate
<1>5. CASE ExecutorAbort(v)
  <2>1. DBTypeOK'
    BY <1>5, UnlockType DEF ExecutorAbort, DBTypeOK, chainVars
  <2> QED
    BY <1>5, <2>1, ExecutorDoneType DEF ExecutorAbort
<1>6. CASE Broadcast(v)
  <2> DEFINE d == old.doc
             doc == old.snap[d]
             new == [old EXCEPT !.pc = "submit"]
  <2>1. d # Nil /\ d \in Docs /\ doc \in Document
    BY <1>0, <1>6 DEF Broadcast, ExecutorControl, ExecutorState
  <2>2. ReturnTx(d, doc) \in Tx
    BY <1>6, <2>1, ReturnTxType DEF Broadcast
  <2>3. DBTypeOK'
    BY <1>6, <2>2, UnlockType DEF Broadcast, DBTypeOK
  <2>4. CASE executor' = [executor EXCEPT ![v].pc = "submit"]
    <3>1. new \in ExecutorState /\ new.doc = d /\ new.pc = "submit" /\ new.snap[d] = doc
      BY <1>0, <2>1 DEF ExecutorState, ExecutorPC
    <3>2. executor' = [executor EXCEPT ![v] = new]
      BY <2>4
    <3>3. ValidSignatures(new.snap[new.doc])
      BY <1>6, <3>1 DEF Broadcast
    <3> HIDE DEF new
    <3> QED
      BY <2>1, <2>3, <3>1, <3>2, <3>3, ExecutorUpdate
  <2>5. CASE ExecutorDone(v, d)
    BY <2>3, <2>5, ExecutorDoneType
  <2> QED
    BY <1>6, <2>4, <2>5 DEF Broadcast
<1>7. CASE Submit(v)
  <2> DEFINE d == old.doc
             tx == ReturnTx(d, old.snap[d])
             new == [db[d] EXCEPT !.status = "submitted", !.hash = tx]
  <2>1. d \in Docs /\ old.snap[d] \in Document
    BY <1>0, <1>7 DEF Submit, ExecutorControl, ExecutorState
  <2>2. tx \in Tx
    BY <1>7, <2>1, ReturnTxType DEF Submit, ExecutorControl
  <2>3. db' = [db EXCEPT ![d] = new] \/ db' = db
    BY <1>7 DEF Submit
  <2> HIDE DEF tx
  <2>4. new \in Document
    BY <2>1, <2>2, StatusFacts DEF DBTypeOK, Document
  <2>5. db' \in [Docs -> Document]
    BY <2>3, <2>4, DocumentUpdate DEF DBTypeOK
  <2>6. DBTypeOK'
    BY <1>7, <2>5, UnlockType DEF Submit, DBTypeOK, chainVars
  <2> QED
    BY <1>7, <2>6, ExecutorDoneType DEF Submit
<1>8. CASE CheckTx(v)
  <2>1. DBTypeOK'
    BY <1>8 DEF CheckTx, DBTypeOK, dbVars, chainVars
  <2>2. PICK pc \in {"succeed", "reset"} : executor' = [executor EXCEPT ![v].pc = pc]
    BY <1>8 DEF CheckTx
  <2> DEFINE new == [old EXCEPT !.pc = pc]
  <2>3. old.doc # Nil
    BY <1>8 DEF CheckTx, ExecutorControl
  <2>4. new \in ExecutorState /\ new.doc # Nil /\ new.pc = pc
    BY <1>0, <2>2, <2>3 DEF ExecutorState, ExecutorPC
  <2>5. executor' = [executor EXCEPT ![v] = new]
    BY <2>2
  <2> QED
    BY <2>1, <2>2, <2>4, <2>5, ExecutorUpdate
<1>9. CASE Succeed(v)
  <2> DEFINE d == old.doc
             new == [db[d] EXCEPT !.status = "success"]
  <2>1. d \in Docs
    BY <1>0, <1>9 DEF Succeed, ExecutorControl, ExecutorState
  <2>2. new \in Document
    BY <2>1, StatusFacts, StatusUpdate DEF DBTypeOK
  <2>3. db' = [db EXCEPT ![d] = new] \/ db' = db
    BY <1>9 DEF Succeed
  <2>4. db' \in [Docs -> Document]
    BY <2>2, <2>3, DocumentUpdate DEF DBTypeOK
  <2>5. DBTypeOK'
    BY <1>9, <2>4, UnlockType DEF Succeed, DBTypeOK, chainVars
  <2> QED
    BY <1>9, <2>5, ExecutorDoneType DEF Succeed
<1>10. CASE Reset(v)
  <2> DEFINE d == old.doc
             new == [db[d] EXCEPT !.status = "confirmed", !.hash = Nil,
                                  !.signatures = {}, !.sequence = Nil]
  <2>1. d \in Docs
    BY <1>0, <1>10 DEF Reset, ExecutorControl, ExecutorState
  <2>2. new \in Document
    BY <2>1, ResetUpdate DEF DBTypeOK
  <2>3. db' = [db EXCEPT ![d] = new] \/ db' = db
    BY <1>10 DEF Reset
  <2>4. db' \in [Docs -> Document]
    BY <2>2, <2>3, DocumentUpdate DEF DBTypeOK
  <2>5. DBTypeOK'
    BY <1>10, <2>4, UnlockType DEF Reset, DBTypeOK, chainVars
  <2> QED
    BY <1>10, <2>5, ExecutorDoneType DEF Reset
<1> QED
  BY <1>1, <1>2, <1>3, <1>4, <1>5, <1>6, <1>7, <1>8, <1>9, <1>10 DEF ExecutorNext

\* Every step keeps the types.
LEMMA TypeStep == TypeInv /\ [Next]_vars => TypeInv'
<1> SUFFICES ASSUME TypeInv, [Next]_vars PROVE TypeInv'
  OBVIOUS
<1> USE DEF TypeInv, TypeOK
<1>1. ASSUME NEW v \in Validators, SignerStep(v) PROVE TypeInv'
  BY <1>1, SignerTypeStep DEF SignerStep, ExecutorControl
<1>2. ASSUME NEW v \in Validators, ExecutorStep(v) PROVE TypeInv'
  BY <1>2, ExecutorTypeStep DEF ExecutorStep, SignerControl
<1>3. ASSUME NEW v \in Validators, Crash(v) PROVE TypeInv'
  <2>1. PICK new \in SignerState :
            signer' = [signer EXCEPT ![v] = new] /\ new.doc = Nil /\ new.pc = "run"
    BY <1>3, CrashSigners, NewSignerFields
  <2>2. NewExecutor \in ExecutorState /\ NewExecutor.doc = Nil /\ NewExecutor.pc = "find"
    BY NewDocumentType DEF NewExecutor, ExecutorState, ExecutorPC, Collections
  <2>3. signer' \in [Validators -> SignerState] /\ SignerControl'
    BY <1>3, <2>1, SignerUpdate DEF Crash
  <2>4. executor' \in [Validators -> ExecutorState] /\ ExecutorControl'
    BY <1>3, <2>2, ExecutorUpdate DEF Crash
  <2> QED
    BY <1>3, <2>3, <2>4 DEF Crash, DBTypeOK, dbVars, chainVars
<1>4. ASSUME NEW c \in Collections, Block(c) PROVE TypeInv'
  BY <1>4 DEF Block, DBTypeOK, dbVars, SignerControl, ExecutorControl
<1>5. ASSUME NEW tx \in mempool, Drop(tx) PROVE TypeInv'
  BY <1>5 DEF Drop, DBTypeOK, dbVars, SignerControl, ExecutorControl
<1>6. ASSUME NEW tx \in mempool, NEW ok \in BOOLEAN, Commit(tx, ok) PROVE TypeInv'
  <2>1. [tx |-> tx, ok |-> ok] \in Entry
    BY DEF Entry, DBTypeOK
  <2>2. ledger' \in Seq(Entry)
    BY <1>6, <2>1 DEF Commit, DBTypeOK
  <2> QED
    BY <1>6, <2>2 DEF Commit, DBTypeOK, dbVars, SignerControl, ExecutorControl
<1>7. CASE ExpireLock
  BY <1>7 DEF ExpireLock, DBTypeOK, chainVars, SignerControl, ExecutorControl
<1>8. CASE UNCHANGED vars
  BY <1>8 DEF vars, DBTypeOK, SignerControl, ExecutorControl
<1> QED
  BY <1>1, <1>2, <1>3, <1>4, <1>5, <1>6, <1>7, <1>8, ExecutorsAssumption DEF Next

\* In every behaviour, every variable holds a value of its type.
THEOREM TypeCorrect == Spec => []TypeOK
<1>1. Spec => []TypeInv
  BY InitTypeInv, TypeStep, PTL DEF Spec
<1> QED
  BY <1>1, PTL DEF TypeInv

=============================================================================
