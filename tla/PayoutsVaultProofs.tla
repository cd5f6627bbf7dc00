------------------------- MODULE PayoutsVaultProofs -------------------------
(***************************************************************************)
(* Payouts implements VaultPayments as long as no executor resets with an  *)
(* old snapshot: if there is one executor, or no return transaction fails  *)
(* in a block.  Whatever crashes, lost locks, lost answers and repeated    *)
(* broadcasts do, each document is then paid once at most, after the       *)
(* approval of enough validators, and closed only after its payment.       *)
(***************************************************************************)
EXTENDS PayoutsSafetyProofs

\* What keeps an executor's snapshots from being outrun by another's reset.
NoStaleReset == MaxFailed = 0 \/ \A v, w \in Executors : v = w

-----------------------------------------------------------------------------
(* The inductive invariant *)

\* Documents that will not be signed again, unless they are reset.
Closed(doc) == doc.status \in {"signed", "submitted", "success"}

\* A copy of document d has what the database has, and will have until a reset.
Current(d, doc) ==
    /\ Closed(db[d])
    /\ doc.signatures = db[d].signatures
    /\ doc.sequence = db[d].sequence

\* A transaction is the one its document determines.
TxCurrent(tx) ==
    /\ tx.doc \in Docs
    /\ Closed(db[tx.doc])
    /\ tx = ReturnTx(tx.doc, db[tx.doc])

\* So is every transaction that is on its way or has paid.
SentCurrent ==
    /\ \A tx \in mempool : TxCurrent(tx) /\ tx.sequence >= Len(ledger)
    /\ \A i \in 1 .. Len(ledger) : ledger[i].ok => TxCurrent(ledger[i].tx)

LedgerInOrder ==
    \A i \in 1 .. Len(ledger) :
        /\ ledger[i].tx.sequence = i - 1
        /\ MaxFailed = 0 => ledger[i].ok

\* The hash of a submitted document is that of its transaction.
HashCurrent(d, doc) == doc.status = "submitted" => doc.hash = ReturnTx(d, doc)

HashesCurrent == \A d \in Docs : HashCurrent(d, db[d])

\* No snapshot of an executor is out of date in what it sends, and one that is
\* about to be reset belongs to a transaction that failed.
SnapsCurrent ==
    \A v \in Validators :
        /\ \A d \in Docs :
               /\ executor[v].snap[d].status \in {"signed", "submitted"} =>
                      Current(d, executor[v].snap[d])
               /\ HashCurrent(d, executor[v].snap[d])
        /\ executor[v].pc = "reset" =>
               Found(executor[v].snap[executor[v].doc].hash, FALSE)

\* A validator without an executor has none at work.
IdleExecutors == \A v \in Validators \ Executors : executor[v] = NewExecutor

VaultInv ==
    /\ SafetyInv
    /\ SentCurrent
    /\ LedgerInOrder
    /\ HashesCurrent
    /\ SnapsCurrent
    /\ IdleExecutors

-----------------------------------------------------------------------------
(* Steps *)

\* An executor's snapshot of a document is as before, or new.
LEMMA ExecutorSnaps ==
    ASSUME executor \in [Validators -> ExecutorState], NEW v \in Validators,
           ExecutorNext(v), NEW w \in Validators, NEW x \in Docs
    PROVE  executor'[w].snap[x] \in {executor[w].snap[x], db[x], NewDocument}
<1> DEFINE old == executor[v]
<1>1. CASE ExecutorFind(v)
  <2> DEFINE found == {d \in DocsOf(old.coll) : db[d].status \in {"signed", "submitted"}}
             snap == [d \in Docs |-> IF d \in found THEN db[d] ELSE NewDocument]
             new == [old EXCEPT !.pc = "loop", !.todo = found, !.snap = snap]
  <2>1. new.snap = snap
    BY DEF ExecutorState
  <2>2. executor' = [executor EXCEPT ![v] = new]
    BY <1>1 DEF ExecutorFind
  <2>3. snap[x] \in {db[x], NewDocument}
    OBVIOUS
  <2> HIDE DEF new, snap
  <2> QED
    BY <2>1, <2>2, <2>3
<1>2. ASSUME NEW d, ExecutorDone(v, d)
      PROVE  executor'[w].snap[x] \in {executor[w].snap[x], NewDocument}
  <2> DEFINE new == [old EXCEPT !.pc = "loop", !.doc = Nil,
                                !.todo = @ \ {d},
                                !.snap = [@ EXCEPT ![d] = NewDocument]]
  <2>1. executor' = [executor EXCEPT ![v] = new]
    BY <1>2 DEF ExecutorDone
  <2>2. new.snap = [old.snap EXCEPT ![d] = NewDocument] /\ old.snap \in [Docs -> Document]
    BY DEF ExecutorState
  <2> HIDE DEF new
  <2> QED
    BY <2>1, <2>2
<1>3. CASE ExecutorNextCollection(v)
  <2> DEFINE coll == IF old.coll = "burns" THEN "invalidMints" ELSE "burns"
             new == [old EXCEPT !.pc = "find", !.coll = coll]
  <2>1. executor' = [executor EXCEPT ![v] = new] /\ new.snap = old.snap
    BY <1>3 DEF ExecutorNextCollection, ExecutorState
  <2> HIDE DEF new
  <2> QED
    BY <2>1
<1>4. ASSUME NEW d \in Docs, ExecutorHandle(v, d)
      PROVE  executor'[w].snap[x] = executor[w].snap[x]
  <2> DEFINE pc == IF old.snap[d].status = "signed" THEN "broadcast" ELSE "check"
             new == [old EXCEPT !.pc = pc, !.doc = d]
  <2>1. executor' = [executor EXCEPT ![v] = new] /\ new.snap = old.snap
    BY <1>4 DEF ExecutorHandle, ExecutorState
  <2> HIDE DEF new
  <2> QED
    BY <2>1
<1>5. ASSUME NEW pc, executor' = [executor EXCEPT ![v].pc = pc]
      PROVE  executor'[w].snap[x] = executor[w].snap[x]
  <2> DEFINE new == [old EXCEPT !.pc = pc]
  <2>1. executor' = [executor EXCEPT ![v] = new] /\ new.snap = old.snap
    BY <1>5 DEF ExecutorState
  <2> HIDE DEF new
  <2> QED
    BY <2>1
<1>6. CASE Broadcast(v)
  <2>1. CASE executor' = [executor EXCEPT ![v].pc = "submit"]
    BY <1>5, <2>1
  <2>2. CASE ExecutorDone(v, old.doc)
    BY <1>2, <2>2
  <2> QED
    BY <1>6, <2>1, <2>2 DEF Broadcast
<1>7. CASE CheckTx(v)
  <2>1. PICK ok \in BOOLEAN :
            executor' = [executor EXCEPT ![v].pc = IF ok THEN "succeed" ELSE "reset"]
    BY <1>7 DEF CheckTx
  <2> DEFINE pc == IF ok THEN "succeed" ELSE "reset"
  <2>2. executor' = [executor EXCEPT ![v].pc = pc]
    BY <2>1
  <2> HIDE DEF pc
  <2> QED
    BY <1>5, <2>2
<1>8. \/ ExecutorFind(v) \/ ExecutorNextCollection(v)
      \/ \E d \in Docs : ExecutorHandle(v, d)
      \/ \E d : ExecutorDone(v, d)
      \/ Broadcast(v) \/ CheckTx(v)
  BY DEF ExecutorNext, ExecutorSkip, ExecutorAbort, Submit, Succeed, Reset
<1> QED
  BY <1>1, <1>2, <1>3, <1>4, <1>6, <1>7, <1>8

\* Once closed, a document keeps its signatures and its sequence until an
\* executor resets it.
LEMMA ClosedKept ==
    ASSUME VaultInv, [Next]_vars, NEW x \in Docs, Closed(db[x])
    PROVE  \/ /\ Closed(db'[x])
              /\ db'[x].signatures = db[x].signatures
              /\ db'[x].sequence = db[x].sequence
           \/ \E v \in Executors : Reset(v) /\ executor[v].doc = x
<1> DEFINE Kept == /\ Closed(db'[x])
                   /\ db'[x].signatures = db[x].signatures
                   /\ db'[x].sequence = db[x].sequence
<1>0. db \in [Docs -> Document]
  BY DEF VaultInv, SafetyInv, TypeInv, TypeOK, DBTypeOK
<1>1. CASE db'[x] = db[x]
  BY <1>1
<1>2. ASSUME NEW v \in Executors, ExecutorNext(v)
      PROVE  Kept \/ (Reset(v) /\ executor[v].doc = x)
  <2> DEFINE d == executor[v].doc
  <2>1. ASSUME NEW new, db' = [db EXCEPT ![d] = new] \/ db' = db, Closed(new),
               x = d => /\ new.signatures = db[x].signatures
                        /\ new.sequence = db[x].sequence
        PROVE  Kept
    BY <1>0, <2>1
  <2>2. CASE Reset(v) /\ x # d
    <3> DEFINE new == [db[d] EXCEPT !.status = "confirmed", !.hash = Nil,
                                    !.signatures = {}, !.sequence = Nil]
    <3>1. db' = [db EXCEPT ![d] = new] \/ db' = db
      BY <2>2 DEF Reset
    <3> HIDE DEF new
    <3> QED
      BY <1>0, <1>1, <2>2, <3>1
  <2>3. CASE Submit(v)
    <3> DEFINE tx == ReturnTx(d, executor[v].snap[d])
               new == [db[d] EXCEPT !.status = "submitted", !.hash = tx]
    <3>1. db' = [db EXCEPT ![d] = new] \/ db' = db
      BY <2>3 DEF Submit
    <3>2. CASE x = d
      <4>1. /\ new.status = "submitted" /\ new.signatures = db[x].signatures
            /\ new.sequence = db[x].sequence
        BY <1>0, <3>2 DEF Document
      <4> HIDE DEF new
      <4> QED
        BY <2>1, <3>1, <4>1 DEF Closed
    <3>3. CASE x # d
      <4> HIDE DEF new
      <4> QED
        BY <1>0, <1>1, <3>1, <3>3
    <3> QED
      BY <3>2, <3>3
  <2>4. CASE Succeed(v)
    <3> DEFINE new == [db[d] EXCEPT !.status = "success"]
    <3>1. db' = [db EXCEPT ![d] = new] \/ db' = db
      BY <2>4 DEF Succeed
    <3>2. CASE x = d
      <4>1. /\ new.status = "success" /\ new.signatures = db[x].signatures
            /\ new.sequence = db[x].sequence
        BY <1>0, <3>2 DEF Document
      <4> HIDE DEF new
      <4> QED
        BY <2>1, <3>1, <4>1 DEF Closed
    <3>3. CASE x # d
      <4> HIDE DEF new
      <4> QED
        BY <1>0, <1>1, <3>1, <3>3
    <3> QED
      BY <3>2, <3>3
  <2>5. Submit(v) \/ Succeed(v) \/ Reset(v) \/ UNCHANGED db
    BY <1>2 DEF ExecutorNext, ExecutorFind, ExecutorNextCollection, ExecutorSkip,
           ExecutorHandle, ExecutorAbort, Broadcast, CheckTx, dbVars
  <2> QED
    BY <1>1, <2>2, <2>3, <2>4, <2>5
<1>3. ASSUME NEW v \in Validators, SignerNext(v) PROVE db'[x] = db[x]
  <2>1. ~Writable(x)
    BY DEF Closed, Writable
  <2> QED
    BY <1>0, <1>3, <2>1, SignerWrites
<1>4. \/ \E v \in Validators : SignerNext(v)
      \/ \E v \in Executors : ExecutorNext(v)
      \/ UNCHANGED db
  BY DEF Next, SignerStep, ExecutorStep, Crash, Block, Drop, Commit, ExpireLock, vars, dbVars
<1> QED
  BY <1>1, <1>2, <1>3, <1>4

\* When a document is reset, its transaction is at its place in the ledger and
\* failed: no other is on its way, and none has paid.
LEMMA ResetUnsent ==
    ASSUME VaultInv, NEW v \in Executors, Reset(v)
    PROVE  /\ executor[v].doc \in Docs
           /\ \A tx \in mempool : tx.doc # executor[v].doc
           /\ \A i \in 1 .. Len(ledger) : ledger[i].ok => ledger[i].tx.doc # executor[v].doc
           /\ MaxFailed # 0
<1> DEFINE d == executor[v].doc
           doc == executor[v].snap[d]
<1>1. v \in Validators /\ executor[v].pc = "reset" /\ d \in Docs
  BY ExecutorsAssumption
     DEF Reset, VaultInv, SafetyInv, TypeInv, TypeOK, ExecutorControl, ExecutorState
<1>2. doc.status = "submitted" /\ Found(doc.hash, FALSE)
  BY <1>1 DEF VaultInv, SafetyInv, ExecutorsOK, ExecutorOK, SnapsCurrent
<1>3. Current(d, doc) /\ doc.hash = ReturnTx(d, doc)
  BY <1>1, <1>2 DEF VaultInv, SnapsCurrent, HashCurrent
<1>4. doc.hash = ReturnTx(d, db[d])
  BY <1>3 DEF Current, ReturnTx
<1>5. PICK i \in 1 .. Len(ledger) : ledger[i] = [tx |-> doc.hash, ok |-> FALSE]
  BY <1>2 DEF Found
<1>6. ledger[i].tx = ReturnTx(d, db[d]) /\ ~ledger[i].ok
  BY <1>4, <1>5
<1>7. db[d].sequence = i - 1 /\ MaxFailed # 0
  BY <1>6 DEF VaultInv, LedgerInOrder, ReturnTx
<1>8. Len(ledger) \in Nat
  BY DEF VaultInv, SafetyInv, TypeInv, TypeOK, DBTypeOK
<1>9. ASSUME NEW tx \in mempool PROVE tx.doc # d
  <2>1. tx = ReturnTx(tx.doc, db[tx.doc]) /\ tx.sequence >= Len(ledger)
    BY DEF VaultInv, SentCurrent, TxCurrent
  <2>2. tx.sequence = db[tx.doc].sequence
    BY <2>1 DEF ReturnTx
  <2>3. ~(i - 1 >= Len(ledger))
    BY <1>8
  <2> QED
    BY <1>7, <2>1, <2>2, <2>3
<1>10. ASSUME NEW j \in 1 .. Len(ledger), ledger[j].ok PROVE ledger[j].tx.doc # d
  <2>1. ledger[j].tx = ReturnTx(ledger[j].tx.doc, db[ledger[j].tx.doc])
        /\ ledger[j].tx.sequence = j - 1
    BY <1>10 DEF VaultInv, SentCurrent, TxCurrent, LedgerInOrder
  <2>2. j - 1 = db[ledger[j].tx.doc].sequence
    BY <2>1 DEF ReturnTx
  <2>3. j # i
    BY <1>6, <1>10
  <2> QED
    BY <1>7, <2>2, <2>3
<1> QED
  BY <1>1, <1>7, <1>9, <1>10

\* What is sent stays current.
LEMMA SentKept ==
    ASSUME VaultInv, [Next]_vars
    PROVE  /\ \A tx \in mempool :
                  /\ tx.doc \in Docs
                  /\ Closed(db'[tx.doc])
                  /\ tx = ReturnTx(tx.doc, db'[tx.doc])
           /\ \A i \in 1 .. Len(ledger) : ledger[i].ok =>
                  /\ ledger[i].tx.doc \in Docs
                  /\ Closed(db'[ledger[i].tx.doc])
                  /\ ledger[i].tx = ReturnTx(ledger[i].tx.doc, db'[ledger[i].tx.doc])
<1>1. ASSUME NEW tx, TxCurrent(tx),
             \A v \in Executors : Reset(v) => executor[v].doc # tx.doc
      PROVE  /\ tx.doc \in Docs
             /\ Closed(db'[tx.doc])
             /\ tx = ReturnTx(tx.doc, db'[tx.doc])
  <2>1. tx.doc \in Docs /\ Closed(db[tx.doc]) /\ tx = ReturnTx(tx.doc, db[tx.doc])
    BY <1>1 DEF TxCurrent
  <2>2. /\ Closed(db'[tx.doc])
        /\ db'[tx.doc].signatures = db[tx.doc].signatures
        /\ db'[tx.doc].sequence = db[tx.doc].sequence
    BY <1>1, <2>1, ClosedKept
  <2>3. ReturnTx(tx.doc, db'[tx.doc]) = ReturnTx(tx.doc, db[tx.doc])
    BY <2>2 DEF ReturnTx
  <2> QED
    BY <2>1, <2>2, <2>3
<1>2. \A tx \in mempool :
          TxCurrent(tx) /\ \A v \in Executors : Reset(v) => executor[v].doc # tx.doc
  BY ResetUnsent DEF VaultInv, SentCurrent
<1>3. \A i \in 1 .. Len(ledger) : ledger[i].ok =>
          /\ TxCurrent(ledger[i].tx)
          /\ \A v \in Executors : Reset(v) => executor[v].doc # ledger[i].tx.doc
  BY ResetUnsent DEF VaultInv, SentCurrent
<1> QED
  BY <1>1, <1>2, <1>3

-----------------------------------------------------------------------------
(* The executors *)

\* An executor that is done with a document does not reset it any more.
LEMMA ExecutorDonePC ==
    ASSUME executor \in [Validators -> ExecutorState], NEW v \in Validators, NEW d,
           ExecutorDone(v, d)
    PROVE  /\ executor'[v].pc = "loop"
           /\ d \in Docs => executor'[v].snap[d] = NewDocument
           /\ \A w \in Validators \ {v} : executor'[w] = executor[w]
<1> DEFINE old == executor[v]
           new == [old EXCEPT !.pc = "loop", !.doc = Nil,
                              !.todo = @ \ {d},
                              !.snap = [@ EXCEPT ![d] = NewDocument]]
<1>1. executor' = [executor EXCEPT ![v] = new]
  BY DEF ExecutorDone
<1>2. new.pc = "loop" /\ new.snap = [old.snap EXCEPT ![d] = NewDocument]
      /\ old.snap \in [Docs -> Document]
  BY DEF ExecutorState
<1> HIDE DEF new
<1> QED
  BY <1>1, <1>2

\* An executor's step is its own, and it decides on a reset only when GetTx
\* has found a failed transaction.
LEMMA ExecutorResets ==
    ASSUME VaultInv, NEW v \in Validators, ExecutorNext(v)
    PROVE  /\ \A w \in Validators \ {v} : executor'[w] = executor[w]
           /\ executor'[v].pc = "reset" =>
                  Found(executor'[v].snap[executor'[v].doc].hash, FALSE)
<1> DEFINE old == executor[v]
           Goal == /\ \A w \in Validators \ {v} : executor'[w] = executor[w]
                   /\ executor'[v].pc = "reset" =>
                          Found(executor'[v].snap[executor'[v].doc].hash, FALSE)
<1>0. executor \in [Validators -> ExecutorState] /\ old \in ExecutorState
  BY DEF VaultInv, SafetyInv, TypeInv, TypeOK
<1>1. ASSUME NEW new, executor' = [executor EXCEPT ![v] = new],
             new.pc = "reset" => Found(new.snap[new.doc].hash, FALSE)
      PROVE  Goal
  BY <1>0, <1>1
<1>2. CASE ExecutorFind(v)
  <2> DEFINE found == {d \in DocsOf(old.coll) : db[d].status \in {"signed", "submitted"}}
             snap == [d \in Docs |-> IF d \in found THEN db[d] ELSE NewDocument]
             new == [old EXCEPT !.pc = "loop", !.todo = found, !.snap = snap]
  <2>1. executor' = [executor EXCEPT ![v] = new] /\ new.pc # "reset"
    BY <1>0, <1>2 DEF ExecutorFind, ExecutorState
  <2> HIDE DEF new
  <2> QED
    BY <1>1, <2>1
<1>3. CASE ExecutorNextCollection(v)
  <2> DEFINE coll == IF old.coll = "burns" THEN "invalidMints" ELSE "burns"
             new == [old EXCEPT !.pc = "find", !.coll = coll]
  <2>1. executor' = [executor EXCEPT ![v] = new] /\ new.pc # "reset"
    BY <1>0, <1>3 DEF ExecutorNextCollection, ExecutorState
  <2> HIDE DEF new
  <2> QED
    BY <1>1, <2>1
<1>4. ASSUME NEW d \in Docs, ExecutorHandle(v, d) PROVE Goal
  <2> DEFINE pc == IF old.snap[d].status = "signed" THEN "broadcast" ELSE "check"
             new == [old EXCEPT !.pc = pc, !.doc = d]
  <2>1. executor' = [executor EXCEPT ![v] = new] /\ new.pc # "reset"
    BY <1>0, <1>4 DEF ExecutorHandle, ExecutorState
  <2> HIDE DEF new
  <2> QED
    BY <1>1, <2>1
<1>5. ASSUME NEW d, ExecutorDone(v, d) PROVE Goal
  BY <1>0, <1>5, ExecutorDonePC
<1>6. CASE Broadcast(v)
  <2> DEFINE new == [old EXCEPT !.pc = "submit"]
  <2>1. CASE executor' = [executor EXCEPT ![v].pc = "submit"]
    <3>1. executor' = [executor EXCEPT ![v] = new] /\ new.pc # "reset"
      BY <1>0, <2>1 DEF ExecutorState
    <3> HIDE DEF new
    <3> QED
      BY <1>1, <3>1
  <2>2. CASE ExecutorDone(v, old.doc)
    BY <1>5, <2>2
  <2> QED
    BY <1>6, <2>1, <2>2 DEF Broadcast
<1>7. CASE CheckTx(v)
  <2>1. PICK ok \in BOOLEAN :
            /\ Found(old.snap[old.doc].hash, ok)
            /\ executor' = [executor EXCEPT ![v].pc = IF ok THEN "succeed" ELSE "reset"]
    BY <1>7 DEF CheckTx
  <2> DEFINE pc == IF ok THEN "succeed" ELSE "reset"
             new == [old EXCEPT !.pc = pc]
  <2>2. executor' = [executor EXCEPT ![v] = new]
    BY <1>0, <2>1 DEF ExecutorState
  <2>3. new.pc = pc /\ new.snap = old.snap /\ new.doc = old.doc
    BY <1>0 DEF ExecutorState
  <2>4. CASE ok
    <3>1. new.pc # "reset"
      BY <2>3, <2>4
    <3> HIDE DEF new
    <3> QED
      BY <1>1, <2>2, <3>1
  <2>5. CASE ~ok
    <3>1. ok = FALSE
      BY <2>5
    <3>2. Found(old.snap[old.doc].hash, FALSE)
      BY <2>1, <3>1
    <3> HIDE DEF new
    <3> QED
      BY <1>1, <2>2, <2>3, <3>2
  <2> QED
    BY <2>4, <2>5
<1>8. \/ ExecutorFind(v) \/ ExecutorNextCollection(v)
      \/ \E d \in Docs : ExecutorHandle(v, d)
      \/ \E d : ExecutorDone(v, d)
      \/ Broadcast(v) \/ CheckTx(v)
  BY DEF ExecutorNext, ExecutorSkip, ExecutorAbort, Submit, Succeed, Reset
<1> QED
  BY <1>2, <1>3, <1>4, <1>5, <1>6, <1>7, <1>8

\* A validator without an executor gets none at work.
LEMMA IdleStep ==
    ASSUME VaultInv, [Next]_vars
    PROVE  IdleExecutors'
<1>0. executor \in [Validators -> ExecutorState] /\ IdleExecutors
  BY DEF VaultInv, SafetyInv, TypeInv, TypeOK
<1>1. ASSUME NEW v \in Executors, ExecutorNext(v) PROVE IdleExecutors'
  BY <1>0, <1>1, ExecutorResets, ExecutorsAssumption DEF IdleExecutors
<1>2. ASSUME NEW v \in Validators, Crash(v) PROVE IdleExecutors'
  BY <1>0, <1>2 DEF IdleExecutors, Crash
<1>3. CASE UNCHANGED executor
  BY <1>0, <1>3 DEF IdleExecutors
<1> QED
  BY <1>1, <1>2, <1>3
     DEF Next, SignerStep, ExecutorStep, Block, Drop, Commit, ExpireLock, vars

\* The only executor forgets the document it resets, so no copy of it is left.
LEMMA ResetForgotten ==
    ASSUME VaultInv, NoStaleReset, [Next]_vars, NEW v \in Executors, Reset(v),
           NEW w \in Validators
    PROVE  executor'[w].snap[executor[v].doc] = NewDocument
<1> DEFINE d == executor[v].doc
<1>0. executor \in [Validators -> ExecutorState] /\ v \in Validators
  BY ExecutorsAssumption DEF VaultInv, SafetyInv, TypeInv, TypeOK
<1>1. d \in Docs /\ MaxFailed # 0
  BY ResetUnsent
<1>2. executor'[v].snap[d] = NewDocument
  BY <1>0, <1>1, ExecutorDonePC DEF Reset
<1>3. CASE w \in Executors
  BY <1>1, <1>2, <1>3 DEF NoStaleReset
<1>4. CASE w \notin Executors
  <2>1. executor'[w] = NewExecutor
    BY <1>4, IdleStep DEF IdleExecutors
  <2> QED
    BY <1>1, <2>1 DEF NewExecutor
<1> QED
  BY <1>3, <1>4

\* Every step keeps the snapshots of the executors current.
LEMMA SnapsStep ==
    ASSUME VaultInv, NoStaleReset, [Next]_vars
    PROVE  SnapsCurrent'
<1>0. executor \in [Validators -> ExecutorState] /\ SnapsCurrent /\ HashesCurrent
  BY DEF VaultInv, SafetyInv, TypeInv, TypeOK
<1> DEFINE Failed(w) == executor[w].pc = "reset" =>
                            Found(executor[w].snap[executor[w].doc].hash, FALSE)
<1>1. ASSUME \A w \in Validators : Failed(w)',
             \A w \in Validators : \A x \in Docs :
                 executor'[w].snap[x] \in {executor[w].snap[x], db[x], NewDocument}
      PROVE  SnapsCurrent'
  <2> SUFFICES ASSUME NEW w \in Validators, NEW x \in Docs
               PROVE  /\ executor'[w].snap[x].status \in {"signed", "submitted"} =>
                             /\ Closed(db'[x])
                             /\ executor'[w].snap[x].signatures = db'[x].signatures
                             /\ executor'[w].snap[x].sequence = db'[x].sequence
                      /\ HashCurrent(x, executor'[w].snap[x])
    BY <1>1 DEF SnapsCurrent, Current, Closed, HashCurrent, ReturnTx
  <2> DEFINE doc == executor'[w].snap[x]
  <2>1. doc \in {executor[w].snap[x], db[x], NewDocument}
    BY <1>1
  <2>2. HashCurrent(x, doc)
    BY <1>0, <2>1, NewDocumentOK DEF SnapsCurrent, HashesCurrent, HashCurrent
  <2>3. ASSUME doc.status \in {"signed", "submitted"}
        PROVE  /\ Closed(db'[x])
               /\ doc.signatures = db'[x].signatures
               /\ doc.sequence = db'[x].sequence
    <3>1. Current(x, doc) /\ doc # NewDocument
      BY <1>0, <2>1, <2>3, NewDocumentOK DEF SnapsCurrent, Current, Closed
    <3>2. ~\E v \in Executors : Reset(v) /\ executor[v].doc = x
      BY <3>1, ResetForgotten
    <3> QED
      BY <3>1, <3>2, ClosedKept DEF Current
  <2> HIDE DEF doc
  <2> QED
    BY <2>2, <2>3 DEF doc
<1>2. ASSUME NEW v \in Validators, ExecutorNext(v) PROVE SnapsCurrent'
  <2>1. UNCHANGED ledger
    BY <1>2 DEF ExecutorNext, ExecutorFind, ExecutorNextCollection, ExecutorSkip, ExecutorHandle,
           ExecutorAbort, Broadcast, Submit, CheckTx, Succeed, Reset, chainVars
  <2>2. ASSUME NEW w \in Validators PROVE Failed(w)'
    <3>1. executor'[w].pc = "reset" =>
              Found(executor'[w].snap[executor'[w].doc].hash, FALSE)
      BY <1>0, <1>2, ExecutorResets DEF SnapsCurrent
    <3> QED
      BY <2>1, <3>1 DEF Found
  <2> QED
    BY <1>0, <1>1, <1>2, <2>2, ExecutorSnaps
<1>3. ASSUME \/ executor' = executor
             \/ \E v \in Validators : executor' = [executor EXCEPT ![v] = NewExecutor],
             \A hash : Found(hash, FALSE) => Found(hash, FALSE)'
      PROVE  SnapsCurrent'
  <2>1. \A w \in Validators : executor'[w] = executor[w] \/ executor'[w] = NewExecutor
    BY <1>0, <1>3
  <2>2. NewExecutor.pc # "reset" /\ \A x \in Docs : NewExecutor.snap[x] = NewDocument
    BY DEF NewExecutor
  <2>3. ASSUME NEW w \in Validators PROVE Failed(w)'
    <3>1. CASE executor'[w].pc # "reset"
      BY <3>1
    <3>2. CASE executor'[w].pc = "reset"
      <4>1. executor'[w] = executor[w]
        BY <2>1, <2>2, <3>2
      <4>2. Found(executor[w].snap[executor[w].doc].hash, FALSE)
        BY <1>0, <3>2, <4>1 DEF SnapsCurrent
      <4> QED
        BY <1>3, <4>1, <4>2 DEF Found
    <3> QED
      BY <3>1, <3>2
  <2> QED
    BY <1>1, <2>1, <2>2, <2>3
<1>4. ASSUME NEW v \in Validators, Crash(v) PROVE SnapsCurrent'
  BY <1>3, <1>4 DEF Crash, chainVars, Found
<1>5. CASE UNCHANGED <<executor, ledger>>
  BY <1>3, <1>5 DEF Found
<1>6. ASSUME NEW tx \in mempool, NEW ok \in BOOLEAN, Commit(tx, ok) PROVE SnapsCurrent'
  <2>1. ledger \in Seq(Entry)
    BY DEF VaultInv, SafetyInv, TypeInv, TypeOK, DBTypeOK
  <2>2. ledger' = Append(ledger, [tx |-> tx, ok |-> ok]) /\ UNCHANGED executor
    BY <1>6 DEF Commit
  <2>3. Len(ledger') = Len(ledger) + 1 /\ \A i \in 1 .. Len(ledger) : ledger'[i] = ledger[i]
    BY <2>1, <2>2
  <2>4. \A hash : Found(hash, FALSE) => Found(hash, FALSE)'
    BY <2>1, <2>3 DEF Found
  <2> QED
    BY <1>3, <2>2, <2>4
<1> QED
  BY <1>2, <1>4, <1>5, <1>6, SignerChain
     DEF Next, SignerStep, ExecutorStep, Block, Drop, ExpireLock, vars, chainVars

-----------------------------------------------------------------------------
(* Documents, the mempool and the ledger *)

\* Signers submit nothing.
LEMMA SignerSubmitsNot ==
    ASSUME VaultInv, NEW v \in Validators, SignerNext(v), NEW x \in Docs,
           db'[x] # db[x]
    PROVE  db'[x].status # "submitted"
<1> DEFINE d == signer[v].doc
<1>0. /\ db \in [Docs -> Document] /\ SignerOK(v, signer[v])
      /\ d \in Docs \cup {Nil} /\ (d = Nil <=> signer[v].pc \in {"run", "find", "loop"})
  BY DEF VaultInv, SafetyInv, TypeInv, TypeOK, DBTypeOK, SignersOK, SignerControl, SignerState
<1>1. ASSUME NEW new, db' = db \/ db' = [db EXCEPT ![d] = new], new.status # "submitted"
      PROVE  db'[x].status # "submitted"
  BY <1>0, <1>1
<1>2. CASE SignerFail(v)
  <2> DEFINE new == [db[d] EXCEPT !.status = "failed"]
  <2>1. new.status # "submitted"
    BY <1>0, <1>2 DEF SignerFail, Document
  <2>2. db' = db \/ db' = [db EXCEPT ![d] = new]
    BY <1>2 DEF SignerFail
  <2> HIDE DEF new
  <2> QED
    BY <1>1, <2>1, <2>2
<1>3. CASE SignerWait(v)
  <2> DEFINE h == signer[v].height[signer[v].coll]
             status == UpdatedStatus(d, signer[v].snap[d], h)
             confirmations == UpdatedConfirmations(d, signer[v].snap[d], h)
             new == [db[d] EXCEPT !.status = status, !.confirmations = confirmations]
  <2>1. d \in Docs
    BY <1>0, <1>3 DEF SignerWait
  <2>2. status \in {"pending", "confirmed"}
    BY <1>0, <2>1 DEF UpdatedStatus, SignerOK
  <2>3. new.status = status
    BY <1>0, <2>1 DEF Document
  <2>4. db' = db \/ db' = [db EXCEPT ![d] = new]
    BY <1>3 DEF SignerWait
  <2> HIDE DEF new, status
  <2> QED
    BY <1>1, <2>2, <2>3, <2>4
<1>4. CASE SignerSign(v)
  <2> DEFINE status == IF Cardinality(FinalSignatures(v)) >= Threshold
                       THEN "signed" ELSE "confirmed"
             new == [db[d] EXCEPT !.status = status,
                                  !.signatures = FinalSignatures(v),
                                  !.sequence = signer[v].seq]
  <2>1. new.status # "submitted"
    BY <1>0, <1>4 DEF SignerSign, Document
  <2>2. db' = db \/ db' = [db EXCEPT ![d] = new]
    BY <1>4 DEF SignerSign
  <2> HIDE DEF new
  <2> QED
    BY <1>1, <2>1, <2>2
<1>5. SignerFail(v) \/ SignerWait(v) \/ SignerSign(v) \/ UNCHANGED db
  BY DEF SignerNext, UpdateBlocks, SignerFind, SignerNextCollection, SignerSkip,
         SignerHandle, SignerAbort, ReadMaxSequence, ReadAccount, LockSequence, dbVars
<1> QED
  BY <1>2, <1>3, <1>4, <1>5

\* Every step leaves submitted documents with the hash of their transaction.
LEMMA HashesStep ==
    ASSUME VaultInv, [Next]_vars
    PROVE  HashesCurrent'
<1> SUFFICES ASSUME NEW x \in Docs PROVE HashCurrent(x, db'[x])
  BY DEF HashesCurrent, HashCurrent, ReturnTx
<1>0. db \in [Docs -> Document] /\ HashesCurrent
  BY DEF VaultInv, SafetyInv, TypeInv, TypeOK, DBTypeOK
<1>1. CASE db'[x] = db[x]
  BY <1>0, <1>1 DEF HashesCurrent
<1>2. ASSUME NEW v \in Validators, ExecutorNext(v) PROVE HashCurrent(x, db'[x])
  <2> DEFINE d == executor[v].doc
             doc == executor[v].snap[d]
  <2>1. CASE Submit(v) /\ x = d
    <3> DEFINE new == [db[d] EXCEPT !.status = "submitted", !.hash = ReturnTx(d, doc)]
    <3>1. db' = db \/ db' = [db EXCEPT ![d] = new]
      BY <2>1 DEF Submit
    <3>2. new.hash = ReturnTx(d, doc)
          /\ new.signatures = db[d].signatures /\ new.sequence = db[d].sequence
      BY <1>0, <2>1 DEF Document
    <3>3. doc.status = "signed"
      BY <2>1 DEF Submit, VaultInv, SafetyInv, ExecutorsOK, ExecutorOK
    <3>4. Current(d, doc)
      BY <2>1, <3>3 DEF VaultInv, SnapsCurrent
    <3>5. ReturnTx(d, doc) = ReturnTx(d, new)
      BY <3>2, <3>4 DEF Current, ReturnTx
    <3> HIDE DEF new
    <3> QED
      BY <1>0, <1>1, <2>1, <3>1, <3>2, <3>5 DEF HashCurrent
  <2>2. CASE Succeed(v) /\ x = d
    <3> DEFINE new == [db[d] EXCEPT !.status = "success"]
    <3>1. db' = db \/ db' = [db EXCEPT ![d] = new]
      BY <2>2 DEF Succeed
    <3>2. new.status = "success"
      BY <1>0, <2>2 DEF Document
    <3> HIDE DEF new
    <3> QED
      BY <1>0, <1>1, <2>2, <3>1, <3>2 DEF HashCurrent
  <2>3. CASE Reset(v) /\ x = d
    <3> DEFINE new == [db[d] EXCEPT !.status = "confirmed", !.hash = Nil,
                                    !.signatures = {}, !.sequence = Nil]
    <3>1. db' = db \/ db' = [db EXCEPT ![d] = new]
      BY <2>3 DEF Reset
    <3>2. new.status = "confirmed"
      BY <1>0, <2>3 DEF Document
    <3> HIDE DEF new
    <3> QED
      BY <1>0, <1>1, <2>3, <3>1, <3>2 DEF HashCurrent
  <2>4. ASSUME NEW new, db' = db \/ db' = [db EXCEPT ![d] = new], x # d
        PROVE  db'[x] = db[x]
    BY <1>0, <2>4
  <2>5. \/ Submit(v) /\ x = d
        \/ Succeed(v) /\ x = d
        \/ Reset(v) /\ x = d
        \/ db'[x] = db[x]
    <3>1. CASE Submit(v) \/ Succeed(v) \/ Reset(v)
      BY <2>4, <3>1 DEF Submit, Succeed, Reset
    <3>2. CASE UNCHANGED db
      BY <3>2
    <3> QED
      BY <1>2, <3>1, <3>2 DEF ExecutorNext, ExecutorFind, ExecutorNextCollection, ExecutorSkip,
             ExecutorHandle, ExecutorAbort, Broadcast, CheckTx, dbVars
  <2> QED
    BY <1>1, <2>1, <2>2, <2>3, <2>5
<1>3. ASSUME NEW v \in Validators, SignerNext(v) PROVE HashCurrent(x, db'[x])
  BY <1>1, <1>3, SignerSubmitsNot DEF HashCurrent
<1>4. \/ \E v \in Validators : SignerNext(v) \/ ExecutorNext(v)
      \/ UNCHANGED db
  BY DEF Next, SignerStep, ExecutorStep, Crash, Block, Drop, Commit, ExpireLock, vars, dbVars
<1> QED
  BY <1>1, <1>2, <1>3, <1>4

\* An executor sends only the transaction that its document determines.
LEMMA BroadcastCurrent ==
    ASSUME VaultInv, NEW v \in Validators, Broadcast(v)
    PROVE  /\ UNCHANGED <<db, ledger>>
           /\ \A tx \in mempool' :
                  tx \in mempool \/ (TxCurrent(tx) /\ tx.sequence >= Len(ledger))
<1> DEFINE d == executor[v].doc
           doc == executor[v].snap[d]
<1>1. d \in Docs
  BY DEF Broadcast, VaultInv, SafetyInv, TypeInv, TypeOK, ExecutorControl, ExecutorState
<1>2. doc.status = "signed"
  BY DEF Broadcast, VaultInv, SafetyInv, ExecutorsOK, ExecutorOK
<1>3. Current(d, doc)
  BY <1>1, <1>2 DEF VaultInv, SnapsCurrent
<1>4. ReturnTx(d, doc).doc = d /\ ReturnTx(d, doc) = ReturnTx(d, db[d])
  BY <1>3 DEF ReturnTx, Current
<1>5. TxCurrent(ReturnTx(d, doc))
  BY <1>1, <1>3, <1>4 DEF TxCurrent, Current
<1>6. ReturnTx(d, doc).sequence >= Len(ledger)
  BY DEF Broadcast, Acceptable, AccountSequence
<1> QED
  BY <1>5, <1>6 DEF Broadcast

\* A transaction goes into a block at the place its sequence names, and does
\* not fail if none may; what stays on its way is for later places.
LEMMA CommitInOrder ==
    ASSUME VaultInv, NEW tx \in mempool, NEW ok \in BOOLEAN, Commit(tx, ok)
    PROVE  /\ MaxFailed = 0 => ok
           /\ Len(ledger) \in Nat /\ tx.sequence = Len(ledger)
           /\ Len(ledger') = Len(ledger) + 1
           /\ \A i \in 1 .. Len(ledger) : ledger'[i] = ledger[i]
           /\ ledger'[Len(ledger) + 1] = [tx |-> tx, ok |-> ok]
           /\ \A other \in mempool' :
                  other \in mempool /\ other.sequence >= Len(ledger')
<1>1. ledger \in Seq(Entry) /\ mempool \subseteq Tx
  BY DEF VaultInv, SafetyInv, TypeInv, TypeOK, DBTypeOK
<1>2. ASSUME MaxFailed = 0 PROVE ok
  <2>1. {i \in 1 .. Len(ledger) : ~ledger[i].ok} = {}
    BY <1>2 DEF VaultInv, LedgerInOrder
  <2>2. Failures = 0
    BY <2>1, FS_EmptySet DEF Failures
  <2> QED
    BY <1>2, <2>2 DEF Commit
<1>3. ledger' = Append(ledger, [tx |-> tx, ok |-> ok]) /\ tx.sequence = Len(ledger)
  BY DEF Commit, AccountSequence
<1>4. Len(ledger) \in Nat /\ Len(ledger') = Len(ledger) + 1
  BY <1>1, <1>3
<1>5. ASSUME NEW other \in mempool' PROVE other \in mempool /\ other.sequence >= Len(ledger')
  <2>1. other \in mempool /\ other.sequence > Len(ledger)
    BY <1>3, <1>5 DEF Commit
  <2>2. other.sequence \in Nat
    BY <1>1, <2>1 DEF Tx
  <2> QED
    BY <1>4, <2>1, <2>2
<1> QED
  BY <1>1, <1>2, <1>3, <1>4, <1>5

\* Every step sends and commits only transactions that are current.
LEMMA SentStep ==
    ASSUME VaultInv, [Next]_vars
    PROVE  SentCurrent' /\ LedgerInOrder'
<1>0. SentCurrent /\ LedgerInOrder
  BY DEF VaultInv
<1>1. ASSUME UNCHANGED ledger, mempool' \subseteq mempool
      PROVE  SentCurrent' /\ LedgerInOrder'
  <2>1. SentCurrent'
    BY <1>0, <1>1, SentKept DEF SentCurrent, TxCurrent, Closed, ReturnTx
  <2> QED
    BY <1>0, <1>1, <2>1 DEF LedgerInOrder
<1>2. ASSUME NEW v \in Validators, ExecutorNext(v) PROVE SentCurrent' /\ LedgerInOrder'
  <2>1. CASE Broadcast(v)
    <3>1. /\ UNCHANGED <<db, ledger>>
          /\ \A tx \in mempool' :
                 tx \in mempool \/ (TxCurrent(tx) /\ tx.sequence >= Len(ledger))
      BY <2>1, BroadcastCurrent
    <3> QED
      BY <1>0, <3>1 DEF SentCurrent, LedgerInOrder, TxCurrent, Closed, ReturnTx
  <2>2. CASE UNCHANGED <<mempool, ledger>>
    BY <1>1, <2>2
  <2> QED
    BY <1>2, <2>1, <2>2
       DEF ExecutorNext, ExecutorFind, ExecutorNextCollection, ExecutorSkip,
           ExecutorHandle, ExecutorAbort, Submit, CheckTx, Succeed, Reset, chainVars
<1>3. ASSUME NEW v \in Validators, SignerNext(v) PROVE SentCurrent' /\ LedgerInOrder'
  BY <1>1, <1>3, SignerChain
<1>4. ASSUME NEW tx \in mempool, NEW ok \in BOOLEAN, Commit(tx, ok)
      PROVE  SentCurrent' /\ LedgerInOrder'
  <2>1. /\ MaxFailed = 0 => ok
        /\ Len(ledger) \in Nat /\ tx.sequence = Len(ledger)
        /\ Len(ledger') = Len(ledger) + 1
        /\ \A i \in 1 .. Len(ledger) : ledger'[i] = ledger[i]
        /\ ledger'[Len(ledger) + 1] = [tx |-> tx, ok |-> ok]
        /\ \A other \in mempool' : other \in mempool /\ other.sequence >= Len(ledger')
    BY <1>4, CommitInOrder
  <2>2. UNCHANGED db
    BY <1>4 DEF Commit, dbVars
  <2>3. LedgerInOrder'
    <3> SUFFICES ASSUME NEW i \in 1 .. Len(ledger')
                 PROVE  /\ ledger'[i].tx.sequence = i - 1
                        /\ MaxFailed = 0 => ledger'[i].ok
      BY DEF LedgerInOrder
    <3>1. CASE i \in 1 .. Len(ledger)
      BY <1>0, <2>1, <3>1 DEF LedgerInOrder
    <3>2. CASE i = Len(ledger) + 1
      BY <2>1, <3>2
    <3> QED
      BY <2>1, <3>1, <3>2
  <2>4. \A i \in 1 .. Len(ledger') : ledger'[i].ok => TxCurrent(ledger'[i].tx)
    <3> SUFFICES ASSUME NEW i \in 1 .. Len(ledger'), ledger'[i].ok
                 PROVE  TxCurrent(ledger'[i].tx)
      OBVIOUS
    <3>1. CASE i \in 1 .. Len(ledger)
      BY <1>0, <2>1, <3>1 DEF SentCurrent
    <3>2. CASE i = Len(ledger) + 1
      BY <1>0, <2>1, <3>2 DEF SentCurrent
    <3> QED
      BY <2>1, <3>1, <3>2
  <2>5. SentCurrent'
    BY <1>0, <2>1, <2>2, <2>4 DEF SentCurrent, TxCurrent, Closed, ReturnTx
  <2> QED
    BY <2>3, <2>5
<1>5. ASSUME NEW tx \in mempool, Drop(tx) PROVE SentCurrent' /\ LedgerInOrder'
  BY <1>1, <1>5 DEF Drop
<1>6. CASE UNCHANGED <<mempool, ledger>>
  BY <1>1, <1>6
<1> QED
  BY <1>2, <1>3, <1>4, <1>5, <1>6
     DEF Next, SignerStep, ExecutorStep, Crash, Block, ExpireLock, vars, chainVars

\* The inductive invariant holds in every reachable state.
LEMMA VaultInvHolds == NoStaleReset => (Spec => []VaultInv)
<1> SUFFICES ASSUME NoStaleReset PROVE Spec => []VaultInv
  OBVIOUS
<1>1. Init => VaultInv
  <2> SUFFICES ASSUME Init PROVE VaultInv
    OBVIOUS
  <2>1. SentCurrent /\ LedgerInOrder
    BY DEF Init, DBInit, SentCurrent, LedgerInOrder
  <2>2. SnapsCurrent /\ IdleExecutors
    BY ExecutorsAssumption DEF Init, ExecutorInit, NewExecutor, SnapsCurrent, IdleExecutors,
       NewDocument, HashCurrent
  <2>3. HashesCurrent
    BY DEF Init, DBInit, HashesCurrent, HashCurrent, NewDocument
  <2> QED
    BY <2>1, <2>2, <2>3, InitSafetyInv DEF VaultInv
<1>2. VaultInv /\ [Next]_vars => VaultInv'
  BY SafetyStep, SnapsStep, SentStep, HashesStep, IdleStep DEF VaultInv
<1> QED
  BY <1>1, <1>2, PTL DEF Spec

-----------------------------------------------------------------------------
(* Payments *)

\* A payment is at the place that its document's sequence names.
LEMMA PaidPlace ==
    ASSUME VaultInv, NEW d \in Docs, NEW i \in Paid(d)
    PROVE  /\ i \in 1 .. Len(ledger) /\ Closed(db[d])
           /\ db[d].sequence = i - 1
<1>1. i \in 1 .. Len(ledger) /\ ledger[i].tx.doc = d /\ ledger[i].ok
  BY DEF Paid
<1>2. TxCurrent(ledger[i].tx) /\ ledger[i].tx.sequence = i - 1
  BY <1>1 DEF VaultInv, SentCurrent, LedgerInOrder
<1> QED
  BY <1>1, <1>2 DEF TxCurrent, ReturnTx

\* A document has been paid never or once.
LEMMA PaidOnce ==
    ASSUME VaultInv, NEW d \in Docs
    PROVE  Cardinality(Paid(d)) = IF Paid(d) = {} THEN 0 ELSE 1
<1>1. CASE Paid(d) = {}
  BY <1>1, FS_EmptySet
<1>2. CASE Paid(d) # {}
  <2>1. PICK i : i \in Paid(d)
    BY <1>2
  <2>2. \A j \in Paid(d) : j = i
    <3> SUFFICES ASSUME NEW j \in Paid(d) PROVE j = i
      OBVIOUS
    <3>1. db[d].sequence = i - 1 /\ i \in Int
      BY <2>1, PaidPlace
    <3>2. db[d].sequence = j - 1 /\ j \in Int
      BY PaidPlace
    <3> QED
      BY <3>1, <3>2
  <2>3. Paid(d) = {i}
    BY <2>1, <2>2
  <2> QED
    BY <2>3, FS_Singleton
<1> QED
  BY <1>1, <1>2

\* With one executor, or unless a return transaction fails, no document is paid
\* twice, whatever crashes, locks that expire and repeated broadcasts do.
THEOREM NeverPaidTwice == NoStaleReset => (Spec => []PaidAtMostOnce)
<1> SUFFICES ASSUME NoStaleReset PROVE Spec => []PaidAtMostOnce
  OBVIOUS
<1>1. VaultInv => PaidAtMostOnce
  BY PaidOnce DEF PaidAtMostOnce
<1>2. Spec => []VaultInv
  BY VaultInvHolds
<1> QED
  BY <1>1, <1>2, PTL

-----------------------------------------------------------------------------
(* Refinement *)

\* What the refinement mapping of Payouts substitutes for settled and refused.
SettledDocs == {d \in Docs : db[d].status = "success"}
RefusedDocs == {d \in Docs : db[d].status = "failed"}

\* A step that pays nothing and closes nothing is invisible.
LEMMA Invisible ==
    ASSUME UNCHANGED ledger, SettledDocs' = SettledDocs, RefusedDocs' = RefusedDocs
    PROVE  UNCHANGED Vault!vars
BY DEF Vault!vars, SettledDocs, RefusedDocs, Paid

\* So is one that writes a document without closing it.
LEMMA OpenWrite ==
    ASSUME db \in [Docs -> Document], UNCHANGED ledger, NEW d, NEW new,
           db' = db \/ /\ db' = [db EXCEPT ![d] = new]
                       /\ db[d].status \notin {"success", "failed"}
                       /\ new.status \notin {"success", "failed"}
    PROVE  UNCHANGED Vault!vars
<1>1. SettledDocs' = SettledDocs /\ RefusedDocs' = RefusedDocs
  BY DEF SettledDocs, RefusedDocs
<1> QED
  BY <1>1, Invisible

\* A signer refuses, or does nothing the abstract vault sees.
LEMMA SignerRefines ==
    ASSUME VaultInv, NEW v \in Validators, SignerNext(v)
    PROVE  (\E d \in Docs : Vault!Refuse(d)) \/ UNCHANGED Vault!vars
<1> DEFINE old == signer[v]
           d == old.doc
<1>0. /\ db \in [Docs -> Document] /\ SignerOK(v, old)
      /\ d \in Docs \cup {Nil} /\ (d = Nil <=> old.pc \in {"run", "find", "loop"})
  BY DEF VaultInv, SafetyInv, TypeInv, TypeOK, DBTypeOK, SignersOK, SignerControl, SignerState
<1>1. UNCHANGED ledger
  BY SignerChain
<1>2. CASE SignerFail(v)
  <2> DEFINE new == [db[d] EXCEPT !.status = "failed"]
  <2>1. d \in Docs /\ \E accepted \in Approves[v] : d \notin accepted
    BY <1>0, <1>2 DEF SignerFail, SignerOK
  <2>2. CASE db' = db
    BY <1>1, <2>2, Invisible DEF SettledDocs, RefusedDocs
  <2>3. CASE Writable(d) /\ db' = [db EXCEPT ![d] = new]
    <3>1. new.status = "failed"
      BY <1>0, <2>1 DEF Document
    <3> HIDE DEF new
    <3>2. SettledDocs' = SettledDocs /\ RefusedDocs' = RefusedDocs \cup {d}
      BY <1>0, <2>1, <2>3, <3>1 DEF SettledDocs, RefusedDocs, Writable
    <3>3. Paid(d) = {}
      BY <2>1, <2>3, PaidPlace DEF Closed, Writable
    <3>4. Cardinality(Paid(d)) = 0
      BY <3>3, FS_EmptySet
    <3>5. PICK x \in Docs : x = d
      BY <2>1
    <3>6. Vault!Refuse(x)
      BY <1>1, <2>1, <3>2, <3>4, <3>5 DEF Vault!Refuse, SettledDocs, RefusedDocs, Paid
    <3> QED
      BY <3>6
  <2> QED
    BY <1>2, <2>2, <2>3 DEF SignerFail
<1>3. CASE SignerWait(v)
  <2> DEFINE h == old.height[old.coll]
             status == UpdatedStatus(d, old.snap[d], h)
             confirmations == UpdatedConfirmations(d, old.snap[d], h)
             new == [db[d] EXCEPT !.status = status, !.confirmations = confirmations]
  <2>1. d \in Docs
    BY <1>0, <1>3 DEF SignerWait
  <2>2. status \in {"pending", "confirmed"}
    BY <1>0, <2>1 DEF UpdatedStatus, SignerOK
  <2>3. new.status = status
    BY <1>0, <2>1 DEF Document
  <2>4. db' = db \/ (Writable(d) /\ db' = [db EXCEPT ![d] = new])
    BY <1>3 DEF SignerWait
  <2> HIDE DEF new, status
  <2> QED
    BY <1>0, <1>1, <2>2, <2>3, <2>4, OpenWrite DEF Writable
<1>4. CASE SignerSign(v)
  <2> DEFINE status == IF Cardinality(FinalSignatures(v)) >= Threshold
                       THEN "signed" ELSE "confirmed"
             new == [db[d] EXCEPT !.status = status,
                                  !.signatures = FinalSignatures(v),
                                  !.sequence = old.seq]
  <2>1. d \in Docs
    BY <1>0, <1>4 DEF SignerSign
  <2>2. new.status \in {"signed", "confirmed"}
    BY <1>0, <2>1 DEF Document
  <2>3. db' = db \/ (Writable(d) /\ db' = [db EXCEPT ![d] = new])
    BY <1>4 DEF SignerSign
  <2> HIDE DEF new
  <2> QED
    BY <1>0, <1>1, <2>2, <2>3, OpenWrite DEF Writable
<1>5. SignerFail(v) \/ SignerWait(v) \/ SignerSign(v) \/ UNCHANGED db
  BY DEF SignerNext, UpdateBlocks, SignerFind, SignerNextCollection, SignerSkip,
         SignerHandle, SignerAbort, ReadMaxSequence, ReadAccount, LockSequence, dbVars
<1> QED
  BY <1>1, <1>2, <1>3, <1>4, <1>5, Invisible DEF SettledDocs, RefusedDocs

\* An executor settles what is paid, or does nothing the abstract vault sees.
LEMMA ExecutorRefines ==
    ASSUME VaultInv, NEW v \in Validators, ExecutorNext(v)
    PROVE  (\E d \in Docs : Vault!Settle(d)) \/ UNCHANGED Vault!vars
<1> DEFINE old == executor[v]
           d == old.doc
<1>0. /\ db \in [Docs -> Document] /\ ExecutorOK(old)
      /\ d \in Docs \cup {Nil} /\ (d = Nil <=> old.pc \in {"find", "loop"})
  BY DEF VaultInv, SafetyInv, TypeInv, TypeOK, DBTypeOK, ExecutorsOK, ExecutorControl,
         ExecutorState
<1>1. UNCHANGED ledger
  BY DEF ExecutorNext, ExecutorFind, ExecutorNextCollection, ExecutorSkip, ExecutorHandle,
         ExecutorAbort, Broadcast, Submit, CheckTx, Succeed, Reset, chainVars
<1>2. CASE Submit(v)
  <2> DEFINE tx == ReturnTx(d, old.snap[d])
             new == [db[d] EXCEPT !.status = "submitted", !.hash = tx]
  <2>1. d \in Docs
    BY <1>0, <1>2 DEF Submit
  <2>2. new.status = "submitted"
    BY <1>0, <2>1 DEF Document
  <2>3. db' = db \/ (Submittable(d) /\ db' = [db EXCEPT ![d] = new])
    BY <1>2 DEF Submit
  <2> HIDE DEF new
  <2> QED
    BY <1>0, <1>1, <2>2, <2>3, OpenWrite DEF Submittable
<1>3. CASE Succeed(v)
  <2> DEFINE new == [db[d] EXCEPT !.status = "success"]
  <2>1. d \in Docs /\ Paid(d) # {}
    BY <1>0, <1>3 DEF Succeed, ExecutorOK
  <2>2. CASE db' = db
    BY <1>1, <2>2, Invisible DEF SettledDocs, RefusedDocs
  <2>3. CASE Checkable(d) /\ db' = [db EXCEPT ![d] = new]
    <3>1. new.status = "success"
      BY <1>0, <2>1 DEF Document
    <3> HIDE DEF new
    <3>2. SettledDocs' = SettledDocs \cup {d} /\ RefusedDocs' = RefusedDocs
      BY <1>0, <2>1, <2>3, <3>1 DEF SettledDocs, RefusedDocs, Checkable
    <3>3. Cardinality(Paid(d)) = 1
      BY <2>1, PaidOnce
    <3>4. PICK x \in Docs : x = d
      BY <2>1
    <3>5. Vault!Settle(x)
      BY <1>1, <2>1, <3>2, <3>3, <3>4 DEF Vault!Settle, SettledDocs, RefusedDocs, Paid
    <3> QED
      BY <3>5
  <2> QED
    BY <1>3, <2>2, <2>3 DEF Succeed
<1>4. CASE Reset(v)
  <2> DEFINE new == [db[d] EXCEPT !.status = "confirmed", !.hash = Nil,
                                  !.signatures = {}, !.sequence = Nil]
  <2>1. d \in Docs
    BY <1>0, <1>4 DEF Reset
  <2>2. new.status = "confirmed"
    BY <1>0, <2>1 DEF Document
  <2>3. db' = db \/ (Checkable(d) /\ db' = [db EXCEPT ![d] = new])
    BY <1>4 DEF Reset
  <2> HIDE DEF new
  <2> QED
    BY <1>0, <1>1, <2>2, <2>3, OpenWrite DEF Checkable
<1>5. Submit(v) \/ Succeed(v) \/ Reset(v) \/ UNCHANGED db
  BY DEF ExecutorNext, ExecutorFind, ExecutorNextCollection, ExecutorSkip,
         ExecutorHandle, ExecutorAbort, Broadcast, CheckTx, dbVars
<1> QED
  BY <1>1, <1>2, <1>3, <1>4, <1>5, Invisible DEF SettledDocs, RefusedDocs

\* A failed transaction pays nothing.
LEMMA FailureInvisible ==
    ASSUME VaultInv, NEW tx \in mempool, Commit(tx, FALSE)
    PROVE  UNCHANGED Vault!vars
<1>1. /\ Len(ledger) \in Nat
      /\ Len(ledger') = Len(ledger) + 1
      /\ \A i \in 1 .. Len(ledger) : ledger'[i] = ledger[i]
      /\ ledger'[Len(ledger) + 1] = [tx |-> tx, ok |-> FALSE]
  BY CommitInOrder
<1>2. 1 .. Len(ledger') = (1 .. Len(ledger)) \cup {Len(ledger) + 1}
  BY <1>1
<1>3. ~ledger'[Len(ledger) + 1].ok
  BY <1>1
<1>4. \A x \in Docs : Paid(x)' = Paid(x)
  BY <1>1, <1>2, <1>3 DEF Paid
<1>5. UNCHANGED db
  BY DEF Commit, dbVars
<1> QED
  BY <1>4, <1>5 DEF Vault!vars

\* A block with a successful transaction pays a document that enough
\* validators approve, for the first time.
LEMMA CommitRefines ==
    ASSUME VaultInv, NEW tx \in mempool, Commit(tx, TRUE)
    PROVE  \E d \in Docs : Vault!Pay(d)
<1> DEFINE d == tx.doc
           n == Len(ledger) + 1
<1>1. /\ Len(ledger) \in Nat /\ tx.sequence = Len(ledger)
      /\ Len(ledger') = n
      /\ \A i \in 1 .. Len(ledger) : ledger'[i] = ledger[i]
      /\ ledger'[n] = [tx |-> tx, ok |-> TRUE]
  BY CommitInOrder
<1>2. d \in Docs /\ Closed(db[d]) /\ db[d].sequence = tx.sequence
  BY DEF VaultInv, SentCurrent, TxCurrent, ReturnTx
<1>3. Paid(d) = {}
  <2> SUFFICES ASSUME NEW i \in Paid(d) PROVE FALSE
    OBVIOUS
  <2>1. i \in 1 .. Len(ledger) /\ db[d].sequence = i - 1
    BY <1>2, PaidPlace
  <2> QED
    BY <1>1, <1>2, <2>1
<1>4. \A x \in Docs : Paid(x)' = IF x = d THEN {n} ELSE Paid(x)
  <2> SUFFICES ASSUME NEW x \in Docs PROVE Paid(x)' = IF x = d THEN {n} ELSE Paid(x)
    OBVIOUS
  <2>1. Paid(x)' = Paid(x) \cup (IF x = d THEN {n} ELSE {})
    <3>1. 1 .. Len(ledger') = (1 .. Len(ledger)) \cup {n} /\ n \notin 1 .. Len(ledger)
      BY <1>1
    <3>2. ledger'[n].tx.doc = d /\ ledger'[n].ok
      BY <1>1
    <3> QED
      BY <1>1, <3>1, <3>2 DEF Paid
  <2> QED
    BY <1>3, <2>1
<1>5. Cardinality(Paid(d)) = 0 /\ Cardinality({n}) = 1
  BY <1>3, FS_EmptySet, FS_Singleton
<1>6. Vault!Cardinality(Vault!Approvers(d)) >= Threshold
  <2> DEFINE A == {v \in Validators : MayApprove(v, d)}
  <2>1. tx.signers \subseteq A /\ Cardinality(tx.signers) >= Threshold
    BY DEF VaultInv, SafetyInv, TypeInv, TypeOK, DBTypeOK, Tx, ChainOK, TxApproved
  <2>2. IsFiniteSet(A)
    BY ValidatorsAssumption, FS_Subset
  <2>3. Cardinality(tx.signers) <= Cardinality(A)
        /\ Cardinality(tx.signers) \in Nat /\ Cardinality(A) \in Nat
    BY <2>1, <2>2, FS_Subset, FS_CardinalityType
  <2> HIDE DEF A
  <2>4. Cardinality(A) >= Threshold
    BY <2>1, <2>3, ThresholdAssumption
  <2>5. Vault!Cardinality(A) = Cardinality(A)
    BY DEF Vault!Cardinality, Cardinality
  <2>6. Vault!Approvers(d) = A
    BY DEF Vault!Approvers, MayApprove, A
  <2> QED
    BY <2>4, <2>5, <2>6
<1>7. UNCHANGED db
  BY DEF Commit, dbVars
<1>8. [x \in Docs |-> Cardinality(Paid(x))]' =
          [[x \in Docs |-> Cardinality(Paid(x))] EXCEPT ![d] = 1]
  BY <1>2, <1>4, <1>5
<1>9. Vault!Pay(d)
  BY <1>2, <1>5, <1>6, <1>7, <1>8 DEF Vault!Pay, Closed
<1> QED
  BY <1>2, <1>9

\* Every step is a step of the abstract vault, or invisible to it.
LEMMA StepRefines ==
    ASSUME VaultInv, [Next]_vars
    PROVE  [Vault!Next]_(Vault!vars)
<1>1. ASSUME NEW v \in Validators, SignerNext(v) PROVE [Vault!Next]_(Vault!vars)
  BY <1>1, SignerRefines DEF Vault!Next
<1>2. ASSUME NEW v \in Validators, ExecutorNext(v) PROVE [Vault!Next]_(Vault!vars)
  BY <1>2, ExecutorRefines DEF Vault!Next
<1>3. ASSUME NEW tx \in mempool, NEW ok \in BOOLEAN, Commit(tx, ok)
      PROVE  [Vault!Next]_(Vault!vars)
  <2>1. CASE ok = TRUE
    BY <1>3, <2>1, CommitRefines DEF Vault!Next
  <2>2. CASE ok = FALSE
    BY <1>3, <2>2, FailureInvisible
  <2> QED
    BY <2>1, <2>2
<1>4. CASE UNCHANGED <<db, ledger>>
  BY <1>4, Invisible DEF SettledDocs, RefusedDocs
<1> QED
  BY <1>1, <1>2, <1>3, <1>4
     DEF Next, SignerStep, ExecutorStep, Crash, Block, Drop, ExpireLock, vars, dbVars, chainVars

\* With one executor, or unless a return transaction fails, Payouts implements
\* the abstract vault.
THEOREM VaultImplemented == NoStaleReset => (Spec => VaultSpec)
<1> SUFFICES ASSUME NoStaleReset PROVE Spec => VaultSpec
  OBVIOUS
<1>1. Init => Vault!Init
  <2> SUFFICES ASSUME Init PROVE Vault!Init
    OBVIOUS
  <2>1. \A d \in Docs : Paid(d) = {}
    BY DEF Init, DBInit, Paid
  <2>2. SettledDocs = {} /\ RefusedDocs = {}
    BY DEF Init, DBInit, NewDocument, SettledDocs, RefusedDocs
  <2> QED
    BY <2>1, <2>2, FS_EmptySet DEF Vault!Init, SettledDocs, RefusedDocs
<1>2. VaultInv /\ [Next]_vars => [Vault!Next]_(Vault!vars)
  BY StepRefines
<1>3. Spec => []VaultInv
  BY VaultInvHolds
<1> QED
  BY <1>1, <1>2, <1>3, PTL DEF Spec, VaultSpec, Vault!Spec

=============================================================================
