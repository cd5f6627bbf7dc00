---------------------------- MODULE MintsProofs ----------------------------
(***************************************************************************)
(* Theorems about Mints, for any number of validators, mints and           *)
(* recipients, any threshold, any range size and any bound on the faults.  *)
(***************************************************************************)
EXTENDS Mints, FiniteSetTheorems, TLAPS

-----------------------------------------------------------------------------
(* The control state of the signers *)

\* A signer holds a document exactly between XLock and Unlock, and the nonce
\* it is about to sign is at least one.
SignerControl ==
    \A v \in Validators :
        /\ signer[v].mint = Nil <=> signer[v].pc \in {"run", "find", "loop"}
        /\ signer[v].pc = "others" => signer[v].nonce \in Nat
        /\ signer[v].pc = "write" => signer[v].nonce \in Nat \ {0}

\* The nonces of some documents.
NoncesOf(S) == {mints[m].nonce : m \in S} \ {Nil}

\* A set of numbers with a largest one.
HasLargest(S) == \E n \in S : \A other \in S : other <= n

\* FindNonce always finds a largest nonce.
NoncesBounded == \A S \in SUBSET Mints, c \in Nat : HasLargest(NoncesOf(S) \cup {c})

TypeInv == TypeOK /\ SignerControl /\ NoncesBounded

-----------------------------------------------------------------------------

\* Nil is no document and no nonce.
LEMMA NilFacts == Nil \notin Mints /\ Nil \notin Nat
BY NilAssumption

\* A new document is a document.
LEMMA NewDocumentType == NewDocument \in Document
BY DEF NewDocument, Document, Status

\* A document with another status is a document.
LEMMA StatusUpdate ==
    ASSUME NEW doc \in Document, NEW status \in Status
    PROVE  [doc EXCEPT !.status = status] \in Document
BY DEF Document

\* The contract's nonce of a recipient is a number.
LEMMA UserNonceType ==
    ASSUME minted \in Seq(Event), NEW r
    PROVE  UserNonce(r) \in Nat
<1> DEFINE S == {i \in 1 .. Len(minted) : RecipientOf[minted[i].mint] = r}
<1>1. IsFiniteSet(1 .. Len(minted))
  BY FS_Interval
<1>2. IsFiniteSet(S)
  BY <1>1, FS_Subset
<1> QED
  BY <1>2, FS_CardinalityType DEF UserNonce

\* The largest nonce, of the contract and of a set of documents, is a number.
LEMMA LargestNonceType ==
    ASSUME NoncesBounded, mints \in [Mints -> Document], known \in SUBSET Mints,
           NEW m, NEW c \in Nat
    PROVE  LargestNonce(c, OpenNonces(m)) \in Nat
<1> DEFINE S == {x \in known \ {m} : /\ RecipientOf[x] = RecipientOf[m]
                                     /\ mints[x].status \in OpenStatus}
           nonces == OpenNonces(m) \cup {c}
<1>1. OpenNonces(m) = NoncesOf(S)
  BY DEF OpenNonces, NoncesOf
<1>2. S \in SUBSET Mints
  OBVIOUS
<1>3. HasLargest(nonces)
  BY <1>1, <1>2 DEF NoncesBounded
<1>4. nonces \subseteq Nat
  BY <1>1, <1>2 DEF NoncesOf, Document
<1> HIDE DEF nonces
<1>5. (CHOOSE n \in nonces : \A other \in nonces : other <= n) \in nonces
  BY <1>3 DEF HasLargest
<1> QED
  BY <1>4, <1>5 DEF LargestNonce, nonces

\* Writing one document with a number, or without one, keeps the nonces bounded.
LEMMA NoncesUpdate ==
    ASSUME NoncesBounded, mints \in [Mints -> Document], NEW m \in Mints,
           NEW new \in Document, mints' = [mints EXCEPT ![m] = new]
    PROVE  NoncesBounded'
<1> SUFFICES ASSUME NEW S \in SUBSET Mints, NEW c \in Nat
             PROVE  HasLargest(NoncesOf(S) \cup {c})'
  BY DEF NoncesBounded
<1> DEFINE rest == NoncesOf(S \ {m}) \cup {c}
<1>1. HasLargest(rest)
  BY DEF NoncesBounded
<1>2. PICK n \in rest : \A other \in rest : other <= n
  BY <1>1 DEF HasLargest
<1>3. rest \subseteq Nat
  BY DEF NoncesOf, Document
<1>4. NoncesOf(S)' \cup {c} = rest \cup (IF m \in S THEN {new.nonce} \ {Nil} ELSE {})
  BY DEF NoncesOf
<1>5. new.nonce \in Nat \cup {Nil}
  BY DEF Document
<1> HIDE DEF rest
<1>6. CASE m \in S /\ new.nonce # Nil
  <2>1. NoncesOf(S)' \cup {c} = rest \cup {new.nonce}
    BY <1>4, <1>6
  <2>2. CASE new.nonce <= n
    BY <1>2, <1>3, <2>1, <2>2 DEF HasLargest
  <2>3. CASE ~(new.nonce <= n)
    <3>1. \A other \in rest : other <= new.nonce
      BY <1>2, <1>3, <1>5, <1>6, <2>3
    <3>2. new.nonce <= new.nonce
      BY <1>5, <1>6
    <3> QED
      BY <2>1, <3>1, <3>2 DEF HasLargest
  <2> QED
    BY <2>2, <2>3
<1>7. CASE ~(m \in S /\ new.nonce # Nil)
  BY <1>2, <1>4, <1>7 DEF HasLargest
<1> QED
  BY <1>6, <1>7

\* A fresh database and freshly started services are well typed.
LEMMA InitTypeInv == Init => TypeInv
<1> SUFFICES ASSUME Init PROVE TypeInv
  OBVIOUS
<1> USE DEF Init
<1>1. DBTypeOK
  BY NewDocumentType, LimitAssumption DEF DBInit, DBTypeOK
<1>2. signer \in [Validators -> SignerState]
  BY NewDocumentType, LimitAssumption DEF SignerInit, NewSigner, SignerState, SignerPC
<1>3. executor \in [Validators -> ExecutorState]
  BY DEF ExecutorInit, NewExecutor, ExecutorState, ExecutorPC
<1>4. SignerControl
  BY DEF SignerInit, NewSigner, SignerControl
<1>5. NoncesBounded
  <2>1. \A S \in SUBSET Mints : NoncesOf(S) = {}
    BY DEF NoncesOf, DBInit, NewDocument
  <2> QED
    BY <2>1 DEF NoncesBounded, HasLargest
<1> QED
  BY <1>1, <1>2, <1>3, <1>4, <1>5 DEF TypeInv, TypeOK

\* A new local state of a well-formed signer, in control terms too.
LEMMA SignerUpdate ==
    ASSUME signer \in [Validators -> SignerState], SignerControl,
           NEW v \in Validators, NEW new \in SignerState,
           signer' = [signer EXCEPT ![v] = new],
           new.mint = Nil <=> new.pc \in {"run", "find", "loop"},
           new.pc = "others" => new.nonce \in Nat,
           new.pc = "write" => new.nonce \in Nat \ {0}
    PROVE  signer' \in [Validators -> SignerState] /\ SignerControl'
BY DEF SignerControl

\* Going back to the loop keeps the type and the control state of a signer.
LEMMA SignerDoneType ==
    ASSUME signer \in [Validators -> SignerState], SignerControl,
           NEW v \in Validators, NEW m, SignerDone(v, m)
    PROVE  signer' \in [Validators -> SignerState] /\ SignerControl'
<1> DEFINE old == signer[v]
           new == [old EXCEPT !.pc = "loop", !.mint = Nil, !.nonce = Nil,
                              !.todo = @ \ {m},
                              !.snap = [@ EXCEPT ![m] = NewDocument]]
<1>1. signer' = [signer EXCEPT ![v] = new]
  BY DEF SignerDone
<1>2. new \in SignerState
  BY NewDocumentType DEF SignerState, SignerPC
<1>3. new.mint = Nil /\ new.pc = "loop"
  BY DEF SignerState
<1> HIDE DEF new
<1> QED
  BY <1>1, <1>2, <1>3 DEF SignerControl

\* Taking and releasing locks keeps their types.
LEMMA LockType ==
    ASSUME locks \in [Recipients -> Workers \cup {Nil}], NEW m, NEW w \in Workers,
           LockRecipient(m, w) \/ UnlockRecipient(m, w) \/ ReleaseRecipient(m, w)
    PROVE  locks' \in [Recipients -> Workers \cup {Nil}]
BY DEF LockRecipient, UnlockRecipient, ReleaseRecipient

\* What HandleMint may store, by the branch it takes.
LEMMA HandledCases ==
    ASSUME TypeInv, NEW v \in Validators, signer[v].pc = "write",
           NEW m, m = signer[v].mint
    PROVE  /\ m \in Mints
           /\ Handled(v, m) \in Document
           /\ \/ Handled(v, m) = [mints[m] EXCEPT !.status = "failed"]
              \/ /\ Handled(v, m).status = "pending"
                 /\ Handled(v, m).signatures = mints[m].signatures
                 /\ Handled(v, m).nonce = mints[m].nonce
              \/ /\ Valid(v, m)
                 /\ Confirmed(m, signer[v].snap[m], signer[v].height)
                 /\ Handled(v, m).status \in {"confirmed", "signed"}
                 /\ Handled(v, m).signatures = FinalSignatures(v, m)
                 /\ Handled(v, m).nonce = signer[v].nonce
                 /\ Handled(v, m).status = "signed"
                        => Cardinality(FinalSignatures(v, m)) >= Threshold
<1> USE DEF TypeInv, TypeOK
<1> DEFINE snap == signer[v].snap[m]
           h == signer[v].height
           c == UpdatedConfirmations(m, snap, h)
           final == FinalSignatures(v, m)
           status == IF Cardinality(final) >= Threshold THEN "signed" ELSE "confirmed"
           waits == [mints[m] EXCEPT !.confirmations = c, !.status = "pending"]
           signs == [mints[m] EXCEPT !.confirmations = c, !.status = status,
                                     !.signatures = final, !.nonce = signer[v].nonce]
           fails == [mints[m] EXCEPT !.status = "failed"]
<1>1. m \in Mints
  BY DEF SignerControl, SignerState
<1>2. snap \in Document /\ h \in Nat /\ mints[m] \in Document
  BY <1>1 DEF SignerState, DBTypeOK
<1>3. c \in Int
  BY <1>1, <1>2, HeightAssumption DEF UpdatedConfirmations, StoredConfirmations, Document
<1>4. signer[v].nonce \in Nat
  BY DEF SignerControl
<1>5. final \in SUBSET Signature
  BY <1>2, <1>4 DEF FinalSignatures, Document, Signature
<1>6. status \in {"signed", "confirmed"} /\ (status = "signed" => Cardinality(final) >= Threshold)
  OBVIOUS
<1>7. Handled(v, m) = IF ~Valid(v, m) THEN fails
                      ELSE IF ~Confirmed(m, snap, h) THEN waits ELSE signs
  BY <1>2 DEF Handled, Document
<1> HIDE DEF c, final, status, snap
<1>8. fails \in Document /\ waits \in Document /\ signs \in Document
  BY <1>2, <1>3, <1>4, <1>5, <1>6 DEF Document, Status
<1>9. /\ waits.status = "pending" /\ waits.signatures = mints[m].signatures
      /\ waits.nonce = mints[m].nonce
      /\ signs.status = status /\ signs.signatures = final
      /\ signs.nonce = signer[v].nonce
  BY <1>2 DEF Document
<1> HIDE DEF fails, waits, signs
<1> QED
  BY <1>1, <1>6, <1>7, <1>8, <1>9 DEF fails, final, snap

\* Every step of a signer keeps the types.
LEMMA SignerTypeStep ==
    ASSUME TypeInv, NEW v \in Validators, SignerNext(v)
    PROVE  /\ DBTypeOK' /\ signer' \in [Validators -> SignerState]
           /\ SignerControl' /\ NoncesBounded'
<1> USE DEF TypeInv, TypeOK
<1> DEFINE old == signer[v]
<1>0. old \in SignerState /\ SignerWorker(v) \in Workers
  BY DEF SignerWorker, Workers
<1>n. mints' = mints => NoncesBounded'
  BY DEF NoncesBounded, NoncesOf
<1>1. CASE UpdateSigner(v)
  <2>1. PICK h \in Nat, l \in Nat :
            signer' = [signer EXCEPT ![v].pc = "find", ![v].height = h, ![v].limit = l]
    <3>1. old.height \in Nat /\ old.limit \in Nat /\ height \in Nat /\ limit \in Nat
      BY <1>0 DEF DBTypeOK, SignerState
    <3> QED
      BY <1>1, <3>1 DEF UpdateSigner
  <2> DEFINE new == [old EXCEPT !.pc = "find", !.height = h, !.limit = l]
  <2>2. old.mint = Nil
    BY <1>1 DEF UpdateSigner, SignerControl
  <2>3. new \in SignerState /\ new.mint = Nil /\ new.pc = "find"
    BY <1>0, <2>2 DEF SignerState, SignerPC
  <2>4. signer' = [signer EXCEPT ![v] = new]
    BY <2>1
  <2>5. DBTypeOK' /\ mints' = mints
    BY <1>1 DEF UpdateSigner, DBTypeOK, mintVars, chainVars
  <2> QED
    BY <1>n, <2>3, <2>4, <2>5, SignerUpdate
<1>2. CASE SignerFind(v)
  <2> DEFINE found == {m \in Mints : Unsigned(v, m)}
             snap == [m \in Mints |-> IF m \in found THEN mints[m] ELSE NewDocument]
             pc == IF found = {} THEN "run" ELSE "loop"
             new == [old EXCEPT !.pc = pc, !.todo = found, !.snap = snap]
  <2>1. old.mint = Nil
    BY <1>2 DEF SignerFind, SignerControl
  <2>2. snap \in [Mints -> Document]
    BY NewDocumentType DEF DBTypeOK
  <2>3. new \in SignerState /\ new.mint = Nil /\ new.pc \in {"run", "loop"}
    BY <1>0, <2>1, <2>2 DEF SignerState, SignerPC
  <2>4. signer' = [signer EXCEPT ![v] = new]
    BY <1>2 DEF SignerFind
  <2>5. DBTypeOK' /\ mints' = mints
    BY <1>2 DEF SignerFind, DBTypeOK, mintVars, chainVars
  <2> QED
    BY <1>n, <2>3, <2>4, <2>5, SignerUpdate
<1>3. CASE SignerPassDone(v)
  <2> DEFINE new == [old EXCEPT !.pc = "run"]
  <2>1. old.mint = Nil
    BY <1>3 DEF SignerPassDone, SignerControl
  <2>2. new \in SignerState /\ new.mint = Nil /\ new.pc = "run"
    BY <1>0, <2>1 DEF SignerState, SignerPC
  <2>3. signer' = [signer EXCEPT ![v] = new]
    BY <1>3 DEF SignerPassDone
  <2>4. DBTypeOK' /\ mints' = mints
    BY <1>3 DEF SignerPassDone, DBTypeOK, mintVars, chainVars
  <2> QED
    BY <1>n, <2>2, <2>3, <2>4, SignerUpdate
<1>4. ASSUME NEW m \in Mints, SignerSkip(v, m)
      PROVE  /\ DBTypeOK' /\ signer' \in [Validators -> SignerState]
             /\ SignerControl' /\ NoncesBounded'
  <2>1. DBTypeOK' /\ mints' = mints
    BY <1>4 DEF SignerSkip, DBTypeOK, mintVars, chainVars
  <2> QED
    BY <1>n, <1>4, <2>1, SignerDoneType DEF SignerSkip
<1>5. ASSUME NEW m \in Mints, SignerLock(v, m)
      PROVE  /\ DBTypeOK' /\ signer' \in [Validators -> SignerState]
             /\ SignerControl' /\ NoncesBounded'
  <2> DEFINE nonce == old.snap[m].nonce
             pc == IF nonce \in {Nil, 0} THEN "contract" ELSE "write"
             new == [old EXCEPT !.pc = pc, !.mint = m, !.nonce = nonce]
  <2>1. nonce \in Nat \cup {Nil}
    BY <1>0 DEF SignerState, Document
  <2>2. pc \in {"contract", "write"} /\ (pc = "write" => nonce \in Nat \ {0})
    BY <2>1
  <2>3. signer' = [signer EXCEPT ![v] = new]
    BY <1>5 DEF SignerLock
  <2> HIDE DEF nonce, pc
  <2>4. new \in SignerState /\ new.mint # Nil /\ new.pc = pc /\ new.nonce = nonce
    BY <1>0, <2>1, <2>2, NilFacts DEF SignerState, SignerPC
  <2>5. locks' \in [Recipients -> Workers \cup {Nil}]
    BY <1>0, <1>5, LockType DEF SignerLock, DBTypeOK
  <2>6. DBTypeOK' /\ mints' = mints
    BY <1>5, <2>5 DEF SignerLock, DBTypeOK, chainVars
  <2> HIDE DEF new
  <2> QED
    BY <1>n, <2>2, <2>3, <2>4, <2>6, SignerUpdate
<1>6. CASE ReadUserNonce(v)
  <2> DEFINE nonce == UserNonce(RecipientOf[old.mint])
             new == [old EXCEPT !.pc = "others", !.nonce = nonce]
  <2>1. nonce \in Nat
    BY UserNonceType DEF DBTypeOK
  <2>2. signer' = [signer EXCEPT ![v] = new]
    BY <1>6 DEF ReadUserNonce
  <2> HIDE DEF nonce
  <2>3. old.mint # Nil
    BY <1>6 DEF ReadUserNonce, SignerControl
  <2>4. new \in SignerState /\ new.mint # Nil /\ new.pc = "others" /\ new.nonce \in Nat
    BY <1>0, <2>1, <2>3 DEF SignerState, SignerPC
  <2>5. DBTypeOK' /\ mints' = mints
    BY <1>6 DEF ReadUserNonce, DBTypeOK, mintVars, chainVars
  <2> QED
    BY <1>n, <2>2, <2>4, <2>5, SignerUpdate
<1>7. CASE ReadOtherNonces(v)
  <2> DEFINE largest == LargestNonce(old.nonce, OpenNonces(old.mint))
             new == [old EXCEPT !.pc = "write", !.nonce = largest + 1]
  <2>1. old.nonce \in Nat /\ old.mint # Nil
    BY <1>7 DEF ReadOtherNonces, SignerControl
  <2>2. largest \in Nat
    BY <2>1, LargestNonceType DEF DBTypeOK
  <2>3. signer' = [signer EXCEPT ![v] = new]
    BY <1>7 DEF ReadOtherNonces
  <2> HIDE DEF largest
  <2>4. largest + 1 \in Nat \ {0}
    BY <2>2
  <2>5. /\ new \in SignerState /\ new.mint # Nil /\ new.pc = "write"
        /\ new.nonce \in Nat \ {0}
    BY <1>0, <2>1, <2>4 DEF SignerState, SignerPC
  <2>6. DBTypeOK' /\ mints' = mints
    BY <1>7 DEF ReadOtherNonces, DBTypeOK, mintVars, chainVars
  <2> QED
    BY <1>n, <2>3, <2>5, <2>6, SignerUpdate
<1>8. CASE SignerAbort(v)
  <2>1. locks' \in [Recipients -> Workers \cup {Nil}]
    BY <1>0, <1>8, LockType DEF SignerAbort, DBTypeOK
  <2>2. DBTypeOK' /\ mints' = mints
    BY <1>8, <2>1 DEF SignerAbort, DBTypeOK, chainVars
  <2> QED
    BY <1>n, <1>8, <2>2, SignerDoneType DEF SignerAbort
<1>9. CASE WriteMint(v)
  <2> DEFINE m == old.mint
             new == Handled(v, m)
  <2>1. m \in Mints /\ new \in Document
    BY <1>9, HandledCases DEF WriteMint
  <2>2. mints' = [mints EXCEPT ![m] = new] \/ mints' = mints
    BY <1>9 DEF WriteMint
  <2> HIDE DEF new
  <2>3. mints' \in [Mints -> Document]
    BY <2>1, <2>2 DEF DBTypeOK
  <2>4. NoncesBounded'
    BY <1>n, <2>1, <2>2, NoncesUpdate DEF DBTypeOK
  <2>5. locks' \in [Recipients -> Workers \cup {Nil}]
    BY <1>0, <1>9, LockType DEF WriteMint, DBTypeOK
  <2>6. DBTypeOK'
    BY <1>9, <2>3, <2>5 DEF WriteMint, DBTypeOK, chainVars
  <2> QED
    BY <1>9, <2>4, <2>6, SignerDoneType DEF WriteMint
<1> QED
  BY <1>1, <1>2, <1>3, <1>4, <1>5, <1>6, <1>7, <1>8, <1>9 DEF SignerNext

\* The ranges of an executor are numbers.
LEMMA RangeType ==
    ASSUME NEW from \in Nat, NEW current \in Nat
    PROVE  RangeEnd(from, current) \in Nat /\ NextRange(from) \in Nat /\ FirstMinted(from) \in Nat
BY MaxQueryBlocksAssumption DEF RangeEnd, NextRange, FirstMinted

\* The document an executor marks keeps its type and its nonce.
LEMMA MarkUpdate ==
    ASSUME NEW doc \in Document
    PROVE  /\ [doc EXCEPT !.status = "success"] \in Document
           /\ [doc EXCEPT !.status = "success"].nonce = doc.nonce
BY DEF Document, Status

\* Every step of an executor keeps the types.
LEMMA ExecutorTypeStep ==
    ASSUME TypeInv, NEW v \in Validators, ExecutorNext(v)
    PROVE  DBTypeOK' /\ executor' \in [Validators -> ExecutorState] /\ NoncesBounded'
<1> USE DEF TypeInv, TypeOK
<1> DEFINE old == executor[v]
<1>0. old \in ExecutorState /\ ExecutorWorker(v) \in Workers
  BY DEF ExecutorWorker, Workers
<1>n. mints' = mints => NoncesBounded'
  BY DEF NoncesBounded, NoncesOf
<1>1. CASE UpdateExecutor(v)
  <2>1. DBTypeOK' /\ mints' = mints
    BY <1>1 DEF UpdateExecutor, DBTypeOK, mintVars, chainVars
  <2>2. BlockNumber \in Nat
    BY DEF BlockNumber, DBTypeOK
  <2>3. executor' \in [Validators -> ExecutorState]
    <3>1. old.current \in Nat /\ old.start \in Nat
      BY <1>0 DEF ExecutorState
    <3>2. PICK current \in Nat :
              executor' = [executor EXCEPT ![v].pc = "query", ![v].current = current,
                                           ![v].from = executor[v].start,
                                           ![v].success = TRUE]
      BY <1>1, <2>2, <3>1 DEF UpdateExecutor
    <3> QED
      BY <1>0, <3>1, <3>2 DEF ExecutorState, ExecutorPC
  <2> QED
    BY <1>n, <2>1, <2>3
<1>2. CASE QueryMinted(v)
  <2>1. DBTypeOK' /\ mints' = mints
    BY <1>2 DEF QueryMinted, DBTypeOK, mintVars, chainVars
  <2>2. FirstMinted(old.from) \in Nat
    BY <1>0 DEF FirstMinted, ExecutorState
  <2>3. executor' \in [Validators -> ExecutorState]
    BY <1>0, <1>2, <2>2 DEF QueryMinted, ExecutorState, ExecutorPC
  <2> QED
    BY <1>n, <2>1, <2>3
<1>3. CASE QueryFails(v)
  <2>1. DBTypeOK' /\ mints' = mints
    BY <1>3 DEF QueryFails, DBTypeOK, mintVars, chainVars
  <2>2. executor' \in [Validators -> ExecutorState]
    BY <1>0, <1>3 DEF QueryFails, ExecutorState, ExecutorPC
  <2> QED
    BY <1>n, <2>1, <2>2
<1>4. CASE SkipEvent(v)
  <2>1. DBTypeOK' /\ mints' = mints
    BY <1>4 DEF SkipEvent, DBTypeOK, mintVars, chainVars
  <2>2. executor' \in [Validators -> ExecutorState]
    <3>1. old.next + 1 \in Nat
      BY <1>0 DEF ExecutorState
    <3> QED
      BY <1>0, <1>4, <3>1 DEF SkipEvent, ExecutorState, ExecutorPC
  <2> QED
    BY <1>n, <2>1, <2>2
<1>5. CASE LockEvent(v)
  <2>1. locks' \in [Recipients -> Workers \cup {Nil}]
    BY <1>0, <1>5, LockType DEF LockEvent, DBTypeOK
  <2>2. DBTypeOK' /\ mints' = mints
    BY <1>5, <2>1 DEF LockEvent, DBTypeOK, chainVars
  <2>3. executor' \in [Validators -> ExecutorState]
    BY <1>0, <1>5 DEF LockEvent, ExecutorState, ExecutorPC
  <2> QED
    BY <1>n, <2>2, <2>3
<1>6. CASE MarkMint(v)
  <2> DEFINE event == minted[old.next]
             found == {m \in Mints : MatchesEvent(m, event)}
  <2>1. PICK m \in found \cup {Nil}, ok \in BOOLEAN :
          /\ mints' = IF m = Nil THEN mints ELSE [mints EXCEPT ![m].status = "success"]
          /\ IF ok THEN UnlockRecipient(event.mint, ExecutorWorker(v))
                   ELSE ReleaseRecipient(event.mint, ExecutorWorker(v))
          /\ executor' = [executor EXCEPT ![v].pc = "events", ![v].next = @ + 1,
                                          ![v].success = @ /\ ok]
    BY <1>6 DEF MarkMint
  <2>2. mints' \in [Mints -> Document] /\ NoncesBounded'
    <3>1. CASE m = Nil
      BY <1>n, <2>1, <3>1 DEF DBTypeOK
    <3>2. CASE m # Nil
      <4> DEFINE new == [mints[m] EXCEPT !.status = "success"]
      <4>1. m \in Mints /\ new \in Document
        BY <3>2, MarkUpdate DEF DBTypeOK
      <4>2. mints' = [mints EXCEPT ![m] = new]
        BY <2>1, <3>2
      <4> HIDE DEF new
      <4> QED
        BY <4>1, <4>2, NoncesUpdate DEF DBTypeOK
    <3> QED
      BY <3>1, <3>2
  <2>3. locks' \in [Recipients -> Workers \cup {Nil}]
    BY <1>0, <2>1, LockType DEF DBTypeOK
  <2>4. DBTypeOK'
    BY <1>6, <2>2, <2>3 DEF MarkMint, DBTypeOK, chainVars
  <2>5. executor' \in [Validators -> ExecutorState]
    <3>1. (old.success /\ ok) \in BOOLEAN /\ old.next + 1 \in Nat
      BY <1>0 DEF ExecutorState
    <3> QED
      BY <1>0, <2>1, <3>1 DEF ExecutorState, ExecutorPC
  <2> QED
    BY <2>2, <2>4, <2>5
<1>7. CASE FinishRange(v)
  <2>1. DBTypeOK' /\ mints' = mints
    BY <1>7 DEF FinishRange, DBTypeOK, mintVars, chainVars
  <2>2. NextRange(old.from) \in Nat
    BY <1>0, MaxQueryBlocksAssumption DEF NextRange, ExecutorState
  <2>3. executor' \in [Validators -> ExecutorState]
    BY <1>0, <1>7, <2>2 DEF FinishRange, ExecutorState, ExecutorPC
  <2> QED
    BY <1>n, <2>1, <2>3
<1> QED
  BY <1>1, <1>2, <1>3, <1>4, <1>5, <1>6, <1>7 DEF ExecutorNext

\* Every step keeps the types.
LEMMA TypeStep == TypeInv /\ [Next]_vars => TypeInv'
<1> SUFFICES ASSUME TypeInv, [Next]_vars PROVE TypeInv'
  OBVIOUS
<1> USE DEF TypeInv, TypeOK
<1>n. mints' = mints => NoncesBounded'
  BY DEF NoncesBounded, NoncesOf
<1>1. ASSUME NEW v \in Validators, SignerStep(v) PROVE TypeInv'
  BY <1>1, SignerTypeStep DEF SignerStep
<1>2. ASSUME NEW v \in Validators, ExecutorStep(v) PROVE TypeInv'
  BY <1>2, ExecutorTypeStep DEF ExecutorStep, SignerControl
<1>3. ASSUME NEW v \in Validators, Crash(v) PROVE TypeInv'
  <2> DEFINE new == [NewSigner EXCEPT !.limit = limit]
  <2>1. new \in SignerState /\ new.mint = Nil /\ new.pc = "run"
    BY NewDocumentType DEF NewSigner, SignerState, SignerPC, DBTypeOK
  <2>2. signer' = [signer EXCEPT ![v] = new]
    BY <1>3 DEF Crash
  <2> HIDE DEF new
  <2>3. signer' \in [Validators -> SignerState] /\ SignerControl'
    BY <2>1, <2>2, SignerUpdate
  <2>4. PICK start \in 0 .. executor[v].start :
            executor' = [executor EXCEPT ![v] = [NewExecutor EXCEPT !.start = start]]
    BY <1>3 DEF Crash
  <2>5. [NewExecutor EXCEPT !.start = start] \in ExecutorState
    <3>1. start \in Nat
      BY DEF ExecutorState
    <3> QED
      BY <3>1 DEF NewExecutor, ExecutorState, ExecutorPC
  <2>6. executor' \in [Validators -> ExecutorState]
    BY <2>4, <2>5
  <2> QED
    BY <1>3, <1>n, <2>3, <2>6 DEF Crash, DBTypeOK, mintVars, chainVars
<1>4. CASE PocketBlock
  BY <1>4, <1>n DEF PocketBlock, DBTypeOK, mintVars, SignerControl
<1>5. ASSUME NEW m \in Mints, InsertMint(m) PROVE TypeInv'
  BY <1>5, <1>n DEF InsertMint, DBTypeOK, chainVars, SignerControl
<1>6. ASSUME NEW m \in Mints, Claim(m) PROVE TypeInv'
  <2> DEFINE event == [mint |-> m, nonce |-> mints[m].nonce,
                       signatures |-> mints[m].signatures]
  <2>1. UserNonce(RecipientOf[m]) + 1 \in Nat
    BY UserNonceType DEF DBTypeOK
  <2>2. event \in Event
    BY <1>6, <2>1 DEF Claim, Event, Document, DBTypeOK
  <2>3. minted' = Append(minted, event)
    BY <1>6 DEF Claim
  <2> HIDE DEF event
  <2>4. minted' \in Seq(Event)
    BY <2>2, <2>3 DEF DBTypeOK
  <2> QED
    BY <1>6, <1>n, <2>4 DEF Claim, DBTypeOK, mintVars, SignerControl
<1>7. ASSUME NEW l \in Limits, SetMintLimit(l) PROVE TypeInv'
  BY <1>7, <1>n, BoundsAssumption DEF SetMintLimit, DBTypeOK, mintVars, SignerControl
<1>8. ASSUME NEW r \in Recipients, ExpireLock(r) PROVE TypeInv'
  BY <1>8, <1>n DEF ExpireLock, DBTypeOK, chainVars, SignerControl
<1>9. CASE UNCHANGED vars
  BY <1>9, <1>n DEF vars, DBTypeOK, SignerControl
<1> QED
  BY <1>1, <1>2, <1>3, <1>4, <1>5, <1>6, <1>7, <1>8, <1>9 DEF Next

\* In every behaviour, every variable holds a value of its type.
THEOREM MintsTypeOK == Spec => []TypeOK
<1>1. Spec => []TypeInv
  BY InitTypeInv, TypeStep, PTL DEF Spec
<1> QED
  BY <1>1, PTL DEF TypeInv

-----------------------------------------------------------------------------
(* What a step does to the documents and to the copies of the signers *)

\* Signer v stores what it makes of its copy of document m, and is done with it.
Writes(v, m) ==
    /\ signer[v].pc = "write"
    /\ signer[v].mint = m
    /\ Writable(m)
    /\ mints' = [mints EXCEPT ![m] = Handled(v, m)]
    /\ SignerDone(v, m)
    /\ UNCHANGED <<height, minted>>

\* An executor marks document m for the event that comes next.
Marks(v, m) ==
    /\ executor[v].pc = "mark"
    /\ MatchesEvent(m, minted[executor[v].next])
    /\ mints' = [mints EXCEPT ![m].status = "success"]
    /\ UNCHANGED <<height, minted>>

\* A document changes only when a signer writes it or an executor marks it.
LEMMA DocStep ==
    ASSUME TypeInv, [Next]_vars
    PROVE  \/ mints' = mints
           \/ \E v \in Validators, m \in Mints : Writes(v, m)
           \/ \E v \in Executors, m \in Mints : Marks(v, m)
<1>1. ASSUME NEW v \in Validators, SignerNext(v)
      PROVE  mints' = mints \/ \E m \in Mints : Writes(v, m)
  <2>1. CASE WriteMint(v)
    <3>1. signer[v].mint \in Mints
      BY <2>1, HandledCases DEF WriteMint
    <3> QED
      BY <2>1, <3>1 DEF WriteMint, Writes, chainVars
  <2>2. CASE ~WriteMint(v)
    BY <1>1, <2>2 DEF SignerNext, UpdateSigner, SignerFind, SignerPassDone, SignerSkip,
       SignerLock, ReadUserNonce, ReadOtherNonces, SignerAbort, mintVars
  <2> QED
    BY <2>1, <2>2
<1>2. ASSUME NEW v \in Executors, ExecutorNext(v)
      PROVE  mints' = mints \/ \E m \in Mints : Marks(v, m)
  <2>1. CASE MarkMint(v)
    <3> DEFINE found == {m \in Mints : MatchesEvent(m, minted[executor[v].next])}
    <3>1. PICK m \in found \cup {Nil} :
              mints' = IF m = Nil THEN mints ELSE [mints EXCEPT ![m].status = "success"]
      BY <2>1 DEF MarkMint
    <3> QED
      BY <2>1, <3>1 DEF MarkMint, Marks, chainVars
  <2>2. CASE ~MarkMint(v)
    BY <1>2, <2>2 DEF ExecutorNext, UpdateExecutor, QueryMinted, QueryFails, SkipEvent,
       LockEvent, FinishRange, mintVars
  <2> QED
    BY <2>1, <2>2
<1>3. CASE \/ \E v \in Validators : Crash(v)
           \/ PocketBlock
           \/ \E m \in Mints : InsertMint(m) \/ Claim(m)
           \/ \E l \in Limits : SetMintLimit(l)
           \/ \E r \in Recipients : ExpireLock(r)
           \/ UNCHANGED vars
  BY <1>3 DEF Crash, PocketBlock, InsertMint, Claim, SetMintLimit, ExpireLock, mintVars, vars
<1> QED
  BY <1>1, <1>2, <1>3 DEF Next, SignerStep, ExecutorStep

\* A copy of a signer stays, is dropped, or is read from an open document.
CopyStep(v, m) ==
    \/ signer'[v].snap[m] = signer[v].snap[m]
    \/ signer'[v].snap[m] = NewDocument
    \/ /\ signer'[v].snap[m] = mints[m]
       /\ mints[m].status \in {"pending", "confirmed"}
       /\ mints' = mints

\* What a step does to the control of a signer, its nonce and its height.
ControlStep(v) ==
    \/ signer'[v] = signer[v]
    \/ /\ signer'[v].pc = "find"
       /\ signer'[v].height \in {signer[v].height, height}
    \/ /\ signer'[v].pc \in {"run", "loop"}
       /\ signer'[v].height \in {0, signer[v].height}
    \/ /\ signer'[v].height = signer[v].height
       /\ signer'[v].snap = signer[v].snap
       /\ \/ /\ signer'[v].pc = "contract"
             /\ signer'[v].snap[signer'[v].mint].nonce \in {Nil, 0}
          \/ /\ signer'[v].pc = "write"
             /\ signer'[v].nonce = signer[v].snap[signer'[v].mint].nonce
          \/ /\ signer'[v].mint = signer[v].mint
             /\ signer[v].pc \in {"contract", "others"}
             /\ signer'[v].pc \in {"others", "write"}

\* Every step is one of these for every signer and copy.
LEMMA SignerEffects ==
    ASSUME TypeInv, [Next]_vars, NEW w \in Validators
    PROVE  ControlStep(w) /\ \A m \in Mints : CopyStep(w, m)
<1> USE DEF TypeInv, TypeOK
<1>0. signer[w] \in SignerState
  OBVIOUS
<1>1. CASE signer' = signer
  BY <1>1 DEF ControlStep, CopyStep
<1>2. ASSUME NEW v \in Validators, SignerNext(v)
      PROVE  ControlStep(w) /\ \A m \in Mints : CopyStep(w, m)
  <2>0. CASE v # w
    <3>1. signer'[w] = signer[w]
      BY <1>2, <2>0 DEF SignerNext, UpdateSigner, SignerFind, SignerPassDone, SignerSkip,
         SignerLock, ReadUserNonce, ReadOtherNonces, SignerAbort, WriteMint, SignerDone
    <3> QED
      BY <3>1 DEF ControlStep, CopyStep
  <2> SUFFICES ASSUME v = w
               PROVE  ControlStep(w) /\ \A m \in Mints : CopyStep(w, m)
    BY <2>0
  <2>1. CASE UpdateSigner(w)
    BY <1>0, <2>1 DEF UpdateSigner, ControlStep, CopyStep, SignerState
  <2>2. CASE SignerFind(w)
    BY <1>0, <2>2 DEF SignerFind, Unsigned, ControlStep, CopyStep, SignerState, mintVars
  <2>3. CASE SignerPassDone(w)
    BY <1>0, <2>3 DEF SignerPassDone, ControlStep, CopyStep, SignerState
  <2>4. CASE \E m \in Mints \cup {Nil} : SignerDone(w, m)
    BY <1>0, <2>4 DEF SignerDone, ControlStep, CopyStep, SignerState
  <2>5. ASSUME NEW m \in Mints, SignerLock(w, m)
        PROVE  ControlStep(w) /\ \A x \in Mints : CopyStep(w, x)
    BY <1>0, <2>5 DEF SignerLock, ControlStep, CopyStep, SignerState
  <2>6. CASE ReadUserNonce(w)
    BY <1>0, <2>6 DEF ReadUserNonce, ControlStep, CopyStep, SignerState
  <2>7. CASE ReadOtherNonces(w)
    BY <1>0, <2>7 DEF ReadOtherNonces, ControlStep, CopyStep, SignerState
  <2> QED
    BY <1>0, <1>2, <2>1, <2>2, <2>3, <2>4, <2>5, <2>6, <2>7
       DEF SignerNext, SignerSkip, SignerAbort, WriteMint, SignerState
<1>3. ASSUME NEW v \in Validators, Crash(v)
      PROVE  ControlStep(w) /\ \A m \in Mints : CopyStep(w, m)
  BY <1>3 DEF Crash, NewSigner, ControlStep, CopyStep
<1> QED
  BY <1>1, <1>2, <1>3 DEF Next, SignerStep, ExecutorStep, PocketBlock, InsertMint, Claim,
     SetMintLimit, ExpireLock, vars

\* The heights grow, and an event is added by a claim only.
LEMMA ChainStep ==
    ASSUME TypeInv, [Next]_vars
    PROVE  /\ height' \in {height, height + 1}
           /\ minted' = minted \/ \E m \in Mints : Claim(m)
<1>1. ASSUME NEW v \in Validators, SignerNext(v)
      PROVE  UNCHANGED <<height, minted>>
  BY <1>1 DEF SignerNext, UpdateSigner, SignerFind, SignerPassDone, SignerSkip, SignerLock,
     ReadUserNonce, ReadOtherNonces, SignerAbort, WriteMint, chainVars
<1>2. ASSUME NEW v \in Validators, ExecutorNext(v)
      PROVE  UNCHANGED <<height, minted>>
  BY <1>2 DEF ExecutorNext, UpdateExecutor, QueryMinted, QueryFails, SkipEvent, LockEvent,
     MarkMint, FinishRange, chainVars
<1>3. CASE \/ \E v \in Validators : Crash(v)
           \/ \E m \in Mints : InsertMint(m)
           \/ \E l \in Limits : SetMintLimit(l)
           \/ \E r \in Recipients : ExpireLock(r)
           \/ UNCHANGED vars
  BY <1>3 DEF Crash, InsertMint, SetMintLimit, ExpireLock, chainVars, vars
<1>4. CASE PocketBlock
  BY <1>4 DEF PocketBlock
<1>5. ASSUME NEW m \in Mints, Claim(m) PROVE height' = height
  BY <1>5 DEF Claim
<1> QED
  BY <1>1, <1>2, <1>3, <1>4, <1>5, ExecutorsAssumption DEF Next, SignerStep, ExecutorStep

-----------------------------------------------------------------------------
(* Signatures and confirmations: what each copy of a document guarantees *)

\* The signatures of a copy cover its own nonce, by validators that accept it.
CopyAgrees(m, doc) ==
    /\ doc.nonce # 0
    /\ \A sig \in doc.signatures : sig.nonce = doc.nonce /\ m \in Accepts[sig.signer]

\* The transaction of a document has its confirmations on the chain.
ConfirmedAt(m) == Confirmations = 0 \/ height - OriginHeight[m] >= Confirmations

\* A copy claims confirmations by its status or by a signature, and is right.
CopyConfirmed(m, doc) ==
    doc.status = "confirmed" \/ doc.signatures # {} => ConfirmedAt(m)

CopyOK(m, doc) == CopyAgrees(m, doc) /\ CopyConfirmed(m, doc)

DocumentsOK == \A m \in Mints : CopyOK(m, mints[m])

\* The snapshots, however old, are right by themselves, and a signer signs a
\* nonce of its own only for a copy without one, and so without signatures.
SignersOK ==
    \A v \in Validators :
        /\ signer[v].height <= height
        /\ \A m \in Mints : /\ CopyOK(m, signer[v].snap[m])
                            /\ signer[v].snap[m].status \in {"pending", "confirmed"}
        /\ signer[v].pc \in {"contract", "others"} =>
               signer[v].snap[signer[v].mint].nonce = Nil
        /\ signer[v].pc = "write" =>
               signer[v].snap[signer[v].mint].nonce \in {Nil, signer[v].nonce}

CopiesInv == TypeInv /\ DocumentsOK /\ SignersOK

\* A new document claims nothing.
LEMMA NewDocumentOK ==
    ASSUME NEW m
    PROVE  CopyOK(m, NewDocument) /\ NewDocument.status = "pending"
BY NilFacts DEF NewDocument, CopyOK, CopyAgrees, CopyConfirmed

\* Initially all copies are new documents.
LEMMA InitCopies == Init => CopiesInv
<1> SUFFICES ASSUME Init PROVE CopiesInv
  OBVIOUS
<1>1. DocumentsOK
  BY NewDocumentOK DEF Init, DBInit, DocumentsOK
<1>2. SignersOK
  BY NewDocumentOK DEF Init, DBInit, SignerInit, NewSigner, SignersOK
<1> QED
  BY <1>1, <1>2, InitTypeInv DEF CopiesInv

\* What a signer writes is right if its copy was, whatever it overwrites.
LEMMA WriteOK ==
    ASSUME CopiesInv, NEW v \in Validators, NEW m \in Mints, Writes(v, m)
    PROVE  CopyOK(m, Handled(v, m))
<1> DEFINE snap == signer[v].snap[m]
<1> USE DEF CopiesInv, Writes
<1>1. /\ CopyOK(m, snap) /\ snap.status \in {"pending", "confirmed"}
      /\ snap.nonce \in {Nil, signer[v].nonce} /\ signer[v].height <= height
  BY DEF SignersOK
<1>2. /\ snap \in Document /\ signer[v].height \in Nat /\ signer[v].nonce \in Nat \ {0}
      /\ height \in Nat /\ OriginHeight[m] \in Nat /\ mints[m] \in Document
  BY HeightAssumption DEF TypeInv, TypeOK, DBTypeOK, SignerState, SignerControl
<1>3. CopyOK(m, mints[m])
  BY DEF DocumentsOK
<1>4. CASE Handled(v, m) = [mints[m] EXCEPT !.status = "failed"]
  <2>1. /\ Handled(v, m).status = "failed" /\ Handled(v, m).nonce = mints[m].nonce
        /\ Handled(v, m).signatures = mints[m].signatures
    BY <1>2, <1>4 DEF Document
  <2> QED
    BY <1>3, <2>1 DEF CopyOK, CopyAgrees, CopyConfirmed
<1>5. CASE /\ Handled(v, m).status = "pending" /\ Handled(v, m).signatures = mints[m].signatures
           /\ Handled(v, m).nonce = mints[m].nonce
  BY <1>3, <1>5 DEF CopyOK, CopyAgrees, CopyConfirmed
<1>6. CASE /\ Valid(v, m) /\ Confirmed(m, snap, signer[v].height)
           /\ Handled(v, m).status \in {"confirmed", "signed"}
           /\ Handled(v, m).signatures = FinalSignatures(v, m) /\ Handled(v, m).nonce = signer[v].nonce
  <2>1. ConfirmedAt(m)
    <3>1. CASE ~Recounts(snap)
      BY <1>1, <3>1 DEF Recounts, CopyOK, CopyConfirmed
    <3>2. CASE Recounts(snap)
      BY <1>1, <1>2, <1>6, <3>2, ConfirmationsAssumption DEF Confirmed, ConfirmedAt
    <3> QED
      BY <3>1, <3>2
  <2>2. m \in Accepts[v]
    BY <1>6 DEF Valid
  <2>3. \A sig \in snap.signatures : sig.nonce = signer[v].nonce /\ m \in Accepts[sig.signer]
    BY <1>1, <1>2, NilFacts DEF CopyOK, CopyAgrees, Document, Signature
  <2> QED
    BY <1>2, <1>6, <2>1, <2>2, <2>3 DEF FinalSignatures, CopyOK, CopyAgrees, CopyConfirmed
<1> QED
  BY <1>4, <1>5, <1>6, HandledCases

\* A copy that is right stays right while the chain grows.
LEMMA CopyStays ==
    ASSUME height \in Nat, height' \in {height, height + 1}, NEW m \in Mints,
           NEW doc, CopyOK(m, doc)
    PROVE  CopyAgrees(m, doc) /\ (doc.status = "confirmed" \/ doc.signatures # {} => ConfirmedAt(m)')
BY HeightAssumption, ConfirmationsAssumption DEF CopyOK, CopyAgrees, CopyConfirmed, ConfirmedAt

\* Every step keeps every copy right by itself.
LEMMA CopiesStep == CopiesInv /\ [Next]_vars => CopiesInv'
<1> SUFFICES ASSUME CopiesInv, [Next]_vars PROVE CopiesInv'
  OBVIOUS
<1>1. TypeInv /\ TypeInv' /\ DocumentsOK /\ SignersOK
  BY TypeStep DEF CopiesInv
<1>2. height \in Nat /\ height' \in {height, height + 1}
  BY <1>1, ChainStep DEF TypeInv, TypeOK, DBTypeOK
<1>3. DocumentsOK'
  <2> SUFFICES ASSUME NEW m \in Mints PROVE CopyOK(m, mints[m])'
    BY DEF DocumentsOK
  <2>1. CopyOK(m, mints'[m])
    <3>1. CASE mints' = mints
      BY <1>1, <3>1 DEF DocumentsOK
    <3>2. ASSUME NEW v \in Validators, NEW x \in Mints, Writes(v, x)
          PROVE  CopyOK(m, mints'[m])
      BY <1>1, <3>2, WriteOK DEF CopiesInv, Writes, DocumentsOK, TypeInv, TypeOK, DBTypeOK
    <3>3. ASSUME NEW v \in Executors, NEW x \in Mints, Marks(v, x)
          PROVE  CopyOK(m, mints'[m])
      <4>1. mints[m] \in Document /\ mints'[m] \in {mints[m], [mints[m] EXCEPT !.status = "success"]}
        BY <1>1, <3>3 DEF Marks, TypeInv, TypeOK, DBTypeOK
      <4>2. /\ mints'[m].status \in {mints[m].status, "success"}
            /\ mints'[m].nonce = mints[m].nonce /\ mints'[m].signatures = mints[m].signatures
        BY <4>1 DEF Document
      <4> QED
        BY <1>1, <4>2 DEF DocumentsOK, CopyOK, CopyAgrees, CopyConfirmed
    <3> QED
      BY <1>1, <3>1, <3>2, <3>3, DocStep
  <2> QED
    BY <1>2, <2>1, CopyStays DEF CopyOK, CopyConfirmed, CopyAgrees
<1>4. SignersOK'
  <2> SUFFICES ASSUME NEW v \in Validators
               PROVE  /\ signer'[v].height <= height'
                      /\ \A m \in Mints : /\ CopyOK(m, signer[v].snap[m])'
                                          /\ signer'[v].snap[m].status \in {"pending", "confirmed"}
                      /\ signer'[v].pc \in {"contract", "others"} =>
                             signer'[v].snap[signer'[v].mint].nonce = Nil
                      /\ signer'[v].pc = "write" =>
                             signer'[v].snap[signer'[v].mint].nonce \in {Nil, signer'[v].nonce}
    BY DEF SignersOK
  <2>0. signer[v] \in SignerState /\ signer'[v] \in SignerState
    BY <1>1 DEF TypeInv, TypeOK
  <2>1. ControlStep(v) /\ \A m \in Mints : CopyStep(v, m)
    BY <1>1, SignerEffects
  <2>2. signer'[v].height <= height'
    BY <1>1, <1>2, <2>0, <2>1 DEF SignersOK, ControlStep, SignerState
  <2>3. ASSUME NEW m \in Mints
        PROVE  CopyOK(m, signer[v].snap[m])' /\ signer'[v].snap[m].status \in {"pending", "confirmed"}
    <3>1. CopyOK(m, signer'[v].snap[m]) /\ signer'[v].snap[m].status \in {"pending", "confirmed"}
      BY <1>1, <2>1, NewDocumentOK DEF CopyStep, SignersOK, DocumentsOK
    <3> QED
      BY <1>2, <3>1, CopyStays DEF CopyOK, CopyConfirmed, CopyAgrees
  <2>4. /\ signer'[v].pc \in {"contract", "others"} =>
               signer'[v].snap[signer'[v].mint].nonce = Nil
        /\ signer'[v].pc = "write" =>
               signer'[v].snap[signer'[v].mint].nonce \in {Nil, signer'[v].nonce}
    <3>1. signer'[v].pc \in {"contract", "others", "write"} => signer'[v].mint \in Mints
      BY <1>1, <2>0 DEF TypeInv, SignerControl, SignerState
    <3>2. CASE signer'[v] = signer[v]
      BY <1>1, <3>2 DEF SignersOK
    <3>3. CASE signer'[v].pc \in {"run", "find", "loop"}
      BY <3>3
    <3>4. CASE signer'[v].pc = "contract" /\ signer'[v].snap[signer'[v].mint].nonce \in {Nil, 0}
      BY <2>3, <3>1, <3>4 DEF CopyOK, CopyAgrees
    <3>5. CASE /\ signer'[v].snap = signer[v].snap /\ signer'[v].pc = "write"
               /\ signer'[v].nonce = signer[v].snap[signer'[v].mint].nonce
      BY <3>5
    <3>6. CASE /\ signer'[v].snap = signer[v].snap /\ signer'[v].mint = signer[v].mint
               /\ signer[v].pc \in {"contract", "others"} /\ signer'[v].pc \in {"others", "write"}
      BY <1>1, <3>6 DEF SignersOK
    <3> QED
      BY <2>1, <3>2, <3>3, <3>4, <3>5, <3>6 DEF ControlStep
  <2> QED
    BY <2>2, <2>3, <2>4
<1> QED
  BY <1>1, <1>3, <1>4 DEF CopiesInv

\* Every copy is right by itself in every reachable state.
LEMMA CopiesRight == Spec => []CopiesInv
BY InitCopies, CopiesStep, PTL DEF Spec

\* The signatures of a mint all cover the nonce stored with them, and are by
\* validators that accept the deposit, whatever stale copies are written back.
THEOREM MintSignaturesAgree == Spec => []SignaturesAgree
<1>1. CopiesInv => SignaturesAgree
  BY DEF CopiesInv, DocumentsOK, CopyOK, CopyAgrees, SignaturesAgree
<1> QED
  BY <1>1, CopiesRight, PTL

\* No mint is signed before its deposit has the configured confirmations.
THEOREM MintSignedIsConfirmed == Spec => []SignedIsConfirmed
<1>1. CopiesInv => SignedIsConfirmed
  BY DEF CopiesInv, DocumentsOK, CopyOK, CopyConfirmed, ConfirmedAt, SignedIsConfirmed
<1> QED
  BY <1>1, CopiesRight, PTL

\* A signed mint keeps its nonce and its signatures for the recipient.
THEOREM MintSignedIsFrozen == Spec => SignedIsFrozen
<1>1. ASSUME TypeInv, [Next]_vars PROVE [\A m \in Mints : DocFrozen(mints[m], mints'[m])]_vars
  <2> SUFFICES ASSUME NEW m \in Mints PROVE DocFrozen(mints[m], mints'[m])
    OBVIOUS
  <2>0. mints[m] \in Document /\ mints \in [Mints -> Document]
    BY <1>1 DEF TypeInv, TypeOK, DBTypeOK
  <2>1. CASE mints' = mints
    BY <2>1 DEF DocFrozen
  <2>2. ASSUME NEW v \in Validators, NEW x \in Mints, Writes(v, x)
        PROVE  DocFrozen(mints[m], mints'[m])
    <3>1. m # x => mints'[m] = mints[m]
      BY <2>0, <2>2 DEF Writes
    <3>2. m = x => mints[m].status \in {"pending", "confirmed"}
      BY <2>2 DEF Writes, Writable
    <3> QED
      BY <3>1, <3>2 DEF DocFrozen
  <2>3. ASSUME NEW v \in Executors, NEW x \in Mints, Marks(v, x)
        PROVE  DocFrozen(mints[m], mints'[m])
    <3>1. m # x => mints'[m] = mints[m]
      BY <2>0, <2>3 DEF Marks
    <3>2. m = x => mints'[m] = [mints[m] EXCEPT !.status = "success"]
      BY <2>0, <2>3 DEF Marks
    <3>3. m = x => mints[m].status \in {"confirmed", "signed", "success"}
      BY <2>3 DEF Marks, MatchesEvent
    <3>4. mints[m].status = "success" => [mints[m] EXCEPT !.status = "success"] = mints[m]
      BY <2>0 DEF Document
    <3> QED
      BY <3>1, <3>2, <3>3, <3>4 DEF DocFrozen
  <2> QED
    BY <1>1, <2>1, <2>2, <2>3, DocStep
<1> QED
  BY <1>1, InitTypeInv, TypeStep, PTL DEF Spec, SignedIsFrozen

-----------------------------------------------------------------------------
(* Events: the contract counts the nonces up, and signed mints keep theirs *)

\* A minted document keeps the nonce of its event, which the contract has
\* passed since.
EventOK(i) ==
    LET m == minted[i].mint
    IN  /\ mints[m].status \in {"signed", "success"}
        /\ mints[m].nonce = minted[i].nonce
        /\ minted[i].nonce \in Nat
        /\ minted[i].nonce <= UserNonce(RecipientOf[m])

EventsInv ==
    /\ TypeInv
    /\ \A i \in 1 .. Len(minted) : EventOK(i)
    /\ \A i, j \in 1 .. Len(minted) : minted[i].mint = minted[j].mint => i = j

\* The contract's nonce of a recipient does not fall when an event is added.
LEMMA UserNonceGrows ==
    ASSUME minted \in Seq(Event), NEW event, minted' = Append(minted, event),
           NEW r
    PROVE  /\ UserNonce(r) \in Nat /\ UserNonce(r)' \in Nat
           /\ UserNonce(r) <= UserNonce(r)'
           /\ RecipientOf[event.mint] = r => UserNonce(r)' = UserNonce(r) + 1
<1> DEFINE n == Len(minted)
           S == {i \in 1 .. n : RecipientOf[minted[i].mint] = r}
           T == {i \in 1 .. Len(minted') : RecipientOf[minted'[i].mint] = r}
<1>1. n \in Nat /\ Len(minted') = n + 1 /\ minted'[n + 1] = event
      /\ \A i \in 1 .. n : minted'[i] = minted[i]
  OBVIOUS
<1>2. IsFiniteSet(S)
  <2>1. IsFiniteSet(1 .. n)
    BY <1>1, FS_Interval
  <2>2. S \subseteq 1 .. n
    OBVIOUS
  <2> QED
    BY <2>1, <2>2, FS_Subset
<1>3. T = IF RecipientOf[event.mint] = r THEN S \cup {n + 1} ELSE S
  BY <1>1
<1>4. n + 1 \notin S
  BY <1>1
<1>5. UserNonce(r) = Cardinality(S) /\ UserNonce(r)' = Cardinality(T)
  BY DEF UserNonce
<1> HIDE DEF S, T
<1>6. Cardinality(S) \in Nat
  BY <1>2, FS_CardinalityType
<1>7. Cardinality(S \cup {n + 1}) = Cardinality(S) + 1
  BY <1>2, <1>4, FS_AddElement
<1> QED
  BY <1>3, <1>5, <1>6, <1>7

\* A document that was minted keeps its nonce, and only moves to success.
LEMMA MintedStays ==
    ASSUME TypeInv, [Next]_vars, NEW m \in Mints, mints[m].status \in {"signed", "success"}
    PROVE  mints'[m].status \in {"signed", "success"} /\ mints'[m].nonce = mints[m].nonce
<1>0. mints[m] \in Document /\ mints \in [Mints -> Document]
  BY DEF TypeInv, TypeOK, DBTypeOK
<1>1. CASE mints' = mints
  BY <1>1
<1>2. ASSUME NEW v \in Validators, NEW x \in Mints, Writes(v, x)
      PROVE  mints'[m] = mints[m]
  BY <1>0, <1>2 DEF Writes, Writable
<1>3. ASSUME NEW v \in Executors, NEW x \in Mints, Marks(v, x)
      PROVE  mints'[m] \in {mints[m], [mints[m] EXCEPT !.status = "success"]}
  BY <1>0, <1>3 DEF Marks
<1>4. [mints[m] EXCEPT !.status = "success"].status = "success"
      /\ [mints[m] EXCEPT !.status = "success"].nonce = mints[m].nonce
  BY <1>0 DEF Document
<1> QED
  BY <1>1, <1>2, <1>3, <1>4, DocStep

\* Every step keeps the events: a mint whose event is there has a nonce the
\* contract does not accept again.
LEMMA EventsStep == EventsInv /\ [Next]_vars => EventsInv'
<1> SUFFICES ASSUME EventsInv, [Next]_vars PROVE EventsInv'
  OBVIOUS
<1>1. TypeInv /\ TypeInv'
  BY TypeStep DEF EventsInv
<1>2. minted \in Seq(Event) /\ \A i \in 1 .. Len(minted) : minted[i].mint \in Mints
  <2>1. minted \in Seq(Event)
    BY <1>1 DEF TypeInv, TypeOK, DBTypeOK
  <2>2. \A i \in 1 .. Len(minted) : minted[i] \in Event
    BY <2>1
  <2> QED
    BY <2>1, <2>2 DEF Event
<1>3. CASE minted' = minted
  <2>1. ASSUME NEW i \in 1 .. Len(minted) PROVE EventOK(i)'
    <3>1. EventOK(i) /\ minted[i].mint \in Mints
      BY <1>2 DEF EventsInv
    <3>2. /\ mints'[minted[i].mint].status \in {"signed", "success"}
          /\ mints'[minted[i].mint].nonce = mints[minted[i].mint].nonce
      BY <1>1, <3>1, MintedStays DEF EventOK
    <3> QED
      BY <1>3, <3>1, <3>2 DEF EventOK, UserNonce
  <2> QED
    BY <1>1, <1>3, <2>1 DEF EventsInv
<1>4. ASSUME NEW m \in Mints, Claim(m) PROVE EventsInv'
  <2> DEFINE n == Len(minted)
             event == [mint |-> m, nonce |-> mints[m].nonce,
                       signatures |-> mints[m].signatures]
  <2>1. /\ minted' = Append(minted, event) /\ mints' = mints
        /\ mints[m].status = "signed" /\ mints[m].nonce = UserNonce(RecipientOf[m]) + 1
    BY <1>4 DEF Claim, mintVars
  <2>2. event.mint = m /\ event.nonce = mints[m].nonce
    OBVIOUS
  <2> HIDE DEF event
  <2>3. /\ n \in Nat /\ Len(minted') = n + 1 /\ minted'[n + 1] = event
        /\ \A i \in 1 .. n : minted'[i] = minted[i]
    BY <1>2, <2>1
  <2>4. \A r : /\ UserNonce(r) \in Nat /\ UserNonce(r)' \in Nat
               /\ UserNonce(r) <= UserNonce(r)'
               /\ RecipientOf[event.mint] = r => UserNonce(r)' = UserNonce(r) + 1
    BY <1>2, <2>1, UserNonceGrows
  <2>5. \A i \in 1 .. n : minted[i].mint # m
    <3> SUFFICES ASSUME NEW i \in 1 .. n, minted[i].mint = m PROVE FALSE
      OBVIOUS
    <3>1. EventOK(i)
      BY DEF EventsInv
    <3>2. mints[m].nonce \in Nat /\ mints[m].nonce <= UserNonce(RecipientOf[m])
      BY <3>1 DEF EventOK
    <3> QED
      BY <2>1, <2>4, <3>2
  <2>6. ASSUME NEW i \in 1 .. Len(minted') PROVE EventOK(i)'
    <3>1. CASE i \in 1 .. n
      <4>1. EventOK(i) /\ minted'[i] = minted[i]
        BY <2>3, <3>1 DEF EventsInv
      <4>2. minted[i].nonce <= UserNonce(RecipientOf[minted[i].mint])'
        BY <2>4, <4>1 DEF EventOK
      <4> QED
        BY <2>1, <4>1, <4>2 DEF EventOK
    <3>2. CASE i = n + 1
      <4>1. minted'[i] = event /\ UserNonce(RecipientOf[m])' = mints[m].nonce
        BY <2>1, <2>2, <2>3, <2>4, <3>2
      <4>2. mints[m].nonce \in Nat
        BY <2>1, <2>4
      <4> QED
        BY <2>1, <2>2, <4>1, <4>2 DEF EventOK
    <3> QED
      BY <2>3, <3>1, <3>2
  <2>7. \A i, j \in 1 .. Len(minted') : minted'[i].mint = minted'[j].mint => i = j
    <3> SUFFICES ASSUME NEW i \in 1 .. Len(minted'), NEW j \in 1 .. Len(minted'),
                        minted'[i].mint = minted'[j].mint
                 PROVE  i = j
      OBVIOUS
    <3>1. CASE i \in 1 .. n /\ j \in 1 .. n
      BY <2>3, <3>1 DEF EventsInv
    <3>2. CASE i = n + 1 \/ j = n + 1
      BY <2>2, <2>3, <2>5, <3>2
    <3> QED
      BY <2>3, <3>1, <3>2
  <2> QED
    BY <1>1, <2>6, <2>7 DEF EventsInv
<1> QED
  BY <1>1, <1>3, <1>4, ChainStep

\* The events are right in every reachable state.
LEMMA EventsRight == Spec => []EventsInv
<1>1. Init => EventsInv
  BY InitTypeInv DEF Init, DBInit, EventsInv
<1> QED
  BY <1>1, EventsStep, PTL DEF Spec

\* No deposit is minted twice, for any validators, threshold and faults.
THEOREM NeverMintedTwice == Spec => []MintedAtMostOnce
<1>1. ASSUME EventsInv PROVE MintedAtMostOnce
  <2> SUFFICES ASSUME NEW m \in Mints PROVE Cardinality(MintedEvents(m)) <= 1
    BY DEF MintedAtMostOnce
  <2>1. \A i, j \in MintedEvents(m) : i = j
    BY <1>1 DEF EventsInv, MintedEvents
  <2>2. CASE MintedEvents(m) = {}
    BY <2>2, FS_EmptySet
  <2>3. CASE MintedEvents(m) # {}
    <3>1. PICK i : MintedEvents(m) = {i}
      BY <2>1, <2>3
    <3>2. Cardinality({i}) = 1
      BY FS_Singleton
    <3> QED
      BY <3>1, <3>2
  <2> QED
    BY <2>2, <2>3
<1> QED
  BY <1>1, EventsRight, PTL

-----------------------------------------------------------------------------
(* The executors, as long as the nonces of a recipient's mints are distinct *)

\* The documents of the first k events are marked as successful.
Settled(k) == \A i \in 1 .. Len(minted) : i <= k => mints[minted[i].mint].status = "success"

\* Everything before the cursor is settled, and so is what the pass has
\* handled, unless it remembers a failure.
PassOK(e) ==
    /\ e.start <= Len(minted) /\ Settled(e.start)
    /\ e.current <= Len(minted)
    /\ e.pc # "run" => e.from < e.current
    /\ e.pc = "query" => e.success /\ Settled(e.from)
    /\ e.pc \in {"events", "mark"} =>
           /\ 1 <= e.next /\ e.next <= e.current + 1
           /\ e.success => Settled(e.next - 1)
    /\ e.pc = "mark" => e.next <= e.current

CursorInv == EventsInv /\ SuccessIsMinted /\ \A v \in Validators : PassOK(executor[v])

\* A document that a Minted event matches is the one that was minted.
LEMMA MatchIsMinted ==
    ASSUME EventsInv, NoncesDistinct, NEW i \in 1 .. Len(minted), NEW m \in Mints,
           MatchesEvent(m, minted[i])
    PROVE  m = minted[i].mint
<1>1. minted[i].mint \in Mints
  <2>1. minted \in Seq(Event)
    BY DEF EventsInv, TypeInv, TypeOK, DBTypeOK
  <2>2. minted[i] \in Event
    BY <2>1
  <2> QED
    BY <2>2 DEF Event
<1>2. EventOK(i)
  BY DEF EventsInv
<1>3. /\ mints[m].nonce = mints[minted[i].mint].nonce /\ mints[m].nonce # Nil
      /\ mints[m].status # "failed" /\ mints[minted[i].mint].status # "failed"
      /\ RecipientOf[m] = RecipientOf[minted[i].mint]
  BY <1>2, NilFacts DEF EventOK, MatchesEvent
<1> QED
  BY <1>1, <1>3 DEF NoncesDistinct

\* Documents that are marked stay so, and the events stay where they are.
LEMMA SettledStays ==
    ASSUME EventsInv, [Next]_vars
    PROVE  /\ Len(minted) \in Nat /\ Len(minted') \in Nat /\ Len(minted) <= Len(minted')
           /\ \A i \in 1 .. Len(minted) : minted'[i] = minted[i]
           /\ \A m \in Mints : mints[m].status = "success" => mints'[m].status = "success"
           /\ \A k \in Int : k <= Len(minted) /\ Settled(k) => Settled(k)'
<1>1. TypeInv /\ minted \in Seq(Event)
  BY DEF EventsInv, TypeInv, TypeOK, DBTypeOK
<1>2. /\ Len(minted) \in Nat /\ Len(minted') \in Nat /\ Len(minted) <= Len(minted')
      /\ \A i \in 1 .. Len(minted) : minted'[i] = minted[i]
  <2>1. CASE minted' = minted
    BY <1>1, <2>1
  <2>2. ASSUME NEW m \in Mints, Claim(m)
        PROVE  /\ Len(minted) \in Nat /\ Len(minted') \in Nat /\ Len(minted) <= Len(minted')
               /\ \A i \in 1 .. Len(minted) : minted'[i] = minted[i]
    <3>1. PICK event : minted' = Append(minted, event)
      BY <2>2 DEF Claim
    <3> QED
      BY <1>1, <3>1
  <2> QED
    BY <1>1, <2>1, <2>2, ChainStep
<1>3. ASSUME NEW m \in Mints, mints[m].status = "success"
      PROVE  mints'[m].status = "success"
  <2>0. mints \in [Mints -> Document] /\ mints[m] \in Document
    BY <1>1 DEF TypeInv, TypeOK, DBTypeOK
  <2>1. ASSUME NEW v \in Validators, NEW x \in Mints, Writes(v, x)
        PROVE  mints'[m] = mints[m]
    BY <1>3, <2>0, <2>1 DEF Writes, Writable
  <2>2. ASSUME NEW v \in Executors, NEW x \in Mints, Marks(v, x)
        PROVE  mints'[m] \in {mints[m], [mints[m] EXCEPT !.status = "success"]}
    BY <2>0, <2>2 DEF Marks
  <2>3. [mints[m] EXCEPT !.status = "success"].status = "success"
    BY <2>0 DEF Document
  <2> QED
    BY <1>1, <1>3, <2>1, <2>2, <2>3, DocStep
<1>4. ASSUME NEW k \in Int, k <= Len(minted), Settled(k) PROVE Settled(k)'
  <2> SUFFICES ASSUME NEW i \in 1 .. Len(minted'), i <= k
               PROVE  mints'[minted'[i].mint].status = "success"
    BY DEF Settled
  <2>1. i \in 1 .. Len(minted) /\ minted'[i] = minted[i]
    BY <1>2, <1>4
  <2>2. minted[i].mint \in Mints
    <3>1. minted[i] \in Event
      BY <1>1, <2>1
    <3> QED
      BY <3>1 DEF Event
  <2> QED
    BY <1>3, <1>4, <2>1, <2>2 DEF Settled
<1> QED
  BY <1>2, <1>3, <1>4

\* A pass that is right stays right while others take steps.
LEMMA PassStays ==
    ASSUME EventsInv, [Next]_vars, NEW e \in ExecutorState, PassOK(e)
    PROVE  PassOK(e)'
<1>1. /\ e.start \in Nat /\ e.current \in Nat /\ e.from \in Nat /\ e.next \in Nat
  BY DEF ExecutorState
<1>2. /\ Len(minted) \in Nat /\ Len(minted') \in Nat /\ Len(minted) <= Len(minted')
      /\ \A k \in Int : k <= Len(minted) /\ Settled(k) => Settled(k)'
  BY SettledStays
<1> QED
  BY <1>1, <1>2 DEF PassOK

\* A step of an executor keeps its pass right: over all ranges of a pass no
\* event is left out, and no failure is forgotten.
LEMMA ExecutorPassStep ==
    ASSUME CursorInv, NoncesDistinct, [Next]_vars, NEW v \in Validators, ExecutorNext(v)
    PROVE  PassOK(executor[v])'
<1> SUFFICES ASSUME NEW e, e = executor[v], NEW new, new = executor'[v]
             PROVE  PassOK(new)'
  BY DEF PassOK
<1>0. /\ EventsInv /\ PassOK(e) /\ e \in ExecutorState /\ new \in ExecutorState
      /\ executor \in [Validators -> ExecutorState]
  BY EventsStep DEF CursorInv, EventsInv, TypeInv, TypeOK
<1>t. /\ e.start \in Nat /\ e.current \in Nat /\ e.from \in Nat /\ e.next \in Nat
      /\ e.success \in BOOLEAN /\ Len(minted) \in Nat
      /\ MaxQueryBlocks \in Nat \ {0}
  BY <1>0, SettledStays, MaxQueryBlocksAssumption DEF ExecutorState
<1>1. CASE UpdateExecutor(v)
  <2>1. PICK current \in {BlockNumber, e.current} :
            /\ e.start < current
            /\ executor' = [executor EXCEPT ![v].pc = "query", ![v].current = current,
                                            ![v].from = executor[v].start,
                                            ![v].success = TRUE]
    BY <1>1 DEF UpdateExecutor, HasNewBlocks
  <2>2. /\ new.pc = "query" /\ new.current = current /\ new.from = e.start
        /\ new.success = TRUE /\ new.start = e.start
    BY <1>0, <2>1 DEF ExecutorState
  <2>3. PassOK(new)
    BY <1>0, <1>t, <2>1, <2>2 DEF PassOK, BlockNumber
  <2> QED
    BY <1>0, <2>3, PassStays
<1>2. CASE QueryMinted(v)
  <2>1. /\ e.pc = "query" /\ new.pc = "events" /\ new.next = FirstMinted(e.from)
        /\ new.success = e.success /\ new.start = e.start /\ new.from = e.from
        /\ new.current = e.current
    BY <1>0, <1>2 DEF QueryMinted, ExecutorState
  <2>2. /\ e.from < e.current /\ Settled(e.from)
    BY <1>0, <2>1 DEF PassOK
  <2>3. Settled(new.next - 1)
    BY <1>t, <2>1, <2>2 DEF Settled, FirstMinted
  <2>4. 1 <= new.next /\ new.next <= new.current + 1
    BY <1>t, <2>1, <2>2 DEF FirstMinted
  <2>5. PassOK(new)
    BY <1>0, <2>1, <2>2, <2>3, <2>4 DEF PassOK
  <2> QED
    BY <1>0, <2>5, PassStays
<1>3. CASE QueryFails(v)
  <2>1. new.pc = "run" /\ new.start = e.start /\ new.current = e.current
    BY <1>0, <1>3 DEF QueryFails, ExecutorState
  <2>2. PassOK(new)
    BY <1>0, <2>1 DEF PassOK
  <2> QED
    BY <1>0, <2>2, PassStays
<1>e. HasEvent(v) => e.pc = "events" /\ e.next <= e.current
  BY <1>t DEF HasEvent, RangeEnd
<1>4. CASE SkipEvent(v)
  <2>1. /\ new.pc = "events" /\ new.next = e.next + 1 /\ new.success = FALSE
        /\ new.start = e.start /\ new.from = e.from /\ new.current = e.current
    BY <1>0, <1>4, <1>e DEF SkipEvent, ExecutorState
  <2>2. e.pc = "events" /\ e.next <= e.current
    BY <1>4, <1>e DEF SkipEvent
  <2>3. PassOK(new)
    BY <1>0, <1>t, <2>1, <2>2 DEF PassOK
  <2> QED
    BY <1>0, <2>3, PassStays
<1>5. CASE LockEvent(v)
  <2>1. /\ new.pc = "mark" /\ new.next = e.next /\ new.success = e.success
        /\ new.start = e.start /\ new.from = e.from /\ new.current = e.current
    BY <1>0, <1>5 DEF LockEvent, ExecutorState
  <2>2. e.pc = "events" /\ e.next <= e.current
    BY <1>5, <1>e DEF LockEvent
  <2>3. PassOK(new)
    BY <1>0, <1>t, <2>1, <2>2 DEF PassOK
  <2> QED
    BY <1>0, <2>3, PassStays
<1>6. CASE MarkMint(v)
  <2> DEFINE event == minted[e.next]
             found == {m \in Mints : MatchesEvent(m, event)}
  <2>1. PICK m \in found \cup {Nil}, ok \in BOOLEAN :
          /\ m = Nil => ~ok
          /\ mints' = IF m = Nil THEN mints ELSE [mints EXCEPT ![m].status = "success"]
          /\ executor' = [executor EXCEPT ![v].pc = "events", ![v].next = @ + 1,
                                          ![v].success = @ /\ ok]
    BY <1>6 DEF MarkMint
  <2>2. /\ new.pc = "events" /\ new.next = e.next + 1 /\ new.success = (e.success /\ ok)
        /\ new.start = e.start /\ new.from = e.from /\ new.current = e.current
    BY <1>0, <2>1 DEF ExecutorState
  <2>3. /\ e.pc = "mark" /\ 1 <= e.next /\ e.next <= e.current /\ e.current <= Len(minted)
        /\ e.from < e.current
    BY <1>0, <1>6 DEF MarkMint, PassOK
  <2>4. minted' = minted
    BY <1>6 DEF MarkMint, chainVars
  <2>5. ok => mints'[event.mint].status = "success"
    <3> SUFFICES ASSUME ok PROVE mints'[event.mint].status = "success"
      OBVIOUS
    <3>1. m \in Mints /\ MatchesEvent(m, event) /\ m # Nil
      BY <2>1, NilFacts
    <3>2. m = event.mint
      BY <1>0, <1>t, <2>3, <3>1, MatchIsMinted
    <3>3. mints \in [Mints -> Document]
      BY <1>0 DEF EventsInv, TypeInv, TypeOK, DBTypeOK
    <3>4. [mints[m] EXCEPT !.status = "success"].status = "success"
      BY <3>1, <3>3 DEF Document
    <3> QED
      BY <2>1, <3>1, <3>2, <3>3, <3>4
  <2>6. new.success => Settled(new.next - 1)'
    <3> SUFFICES ASSUME new.success PROVE Settled(e.next)'
      BY <1>t, <2>2
    <3>1. Settled(e.next - 1)'
      <4>1. Settled(e.next - 1)
        BY <1>0, <2>2, <2>3 DEF PassOK
      <4>2. e.next - 1 \in Int /\ e.next - 1 <= Len(minted)
        BY <1>t, <2>3
      <4> QED
        BY <1>0, <4>1, <4>2, SettledStays
    <3>2. \A i \in 1 .. Len(minted') : i <= e.next => i <= e.next - 1 \/ i = e.next
      BY <1>t
    <3> QED
      BY <2>2, <2>4, <2>5, <3>1, <3>2 DEF Settled
  <2>7. Settled(new.start)'
    BY <1>0, <1>t, <2>2, SettledStays DEF PassOK
  <2>8. /\ new.start <= Len(minted') /\ new.current <= Len(minted')
        /\ 1 <= new.next /\ new.next <= new.current + 1
    BY <1>0, <1>t, <2>2, <2>3, <2>4 DEF PassOK
  <2> QED
    BY <2>2, <2>3, <2>6, <2>7, <2>8 DEF PassOK
<1>7. CASE FinishRange(v)
  <2>1. e.pc = "events" /\ ~(e.next <= RangeEnd(e.from, e.current))
    BY <1>7 DEF FinishRange, HasEvent
  <2>2. e.from < e.current /\ (e.success => Settled(e.next - 1))
    BY <1>0, <2>1 DEF PassOK
  <2>3. RangeEnd(e.from, e.current) \in Nat /\ (e.success => Settled(RangeEnd(e.from, e.current)))
    <3>1. RangeEnd(e.from, e.current) \in Nat
      BY <1>t DEF RangeEnd
    <3>2. RangeEnd(e.from, e.current) <= e.next - 1
      BY <1>t, <2>1, <3>1
    <3> QED
      BY <1>t, <2>2, <3>1, <3>2 DEF Settled
  <2>4. CASE e.success /\ InSync(NextRange(e.from), e.current)
    <3>1. /\ new.pc = "query" /\ new.from = NextRange(e.from) /\ new.success = e.success
          /\ new.start = e.start /\ new.current = e.current
      BY <1>0, <1>7, <2>4 DEF FinishRange, ExecutorState
    <3>2. NextRange(e.from) = RangeEnd(e.from, e.current) /\ NextRange(e.from) < e.current
      BY <1>t, <2>4 DEF InSync, NextRange, RangeEnd
    <3>3. PassOK(new)
      BY <1>0, <2>3, <2>4, <3>1, <3>2 DEF PassOK
    <3> QED
      BY <1>0, <3>3, PassStays
  <2>5. CASE ~(e.success /\ InSync(NextRange(e.from), e.current))
    <3>1. /\ new.pc = "run" /\ new.current = e.current
          /\ new.start = IF e.success THEN e.current ELSE e.start
      BY <1>0, <1>7, <2>5 DEF FinishRange, ExecutorState
    <3>2. e.success => RangeEnd(e.from, e.current) = e.current
      BY <1>t, <2>5 DEF InSync, NextRange, RangeEnd
    <3>3. PassOK(new)
      BY <1>0, <2>3, <3>1, <3>2 DEF PassOK
    <3> QED
      BY <1>0, <3>3, PassStays
  <2> QED
    BY <2>4, <2>5
<1> QED
  BY <1>1, <1>2, <1>3, <1>4, <1>5, <1>6, <1>7 DEF ExecutorNext

\* While the nonces are distinct, every step keeps the cursors behind what is
\* settled, and marks only what was minted.
LEMMA CursorStep == CursorInv /\ NoncesDistinct /\ [Next]_vars => CursorInv'
<1> SUFFICES ASSUME CursorInv, NoncesDistinct, [Next]_vars PROVE CursorInv'
  OBVIOUS
<1>1. EventsInv /\ EventsInv' /\ TypeInv /\ SuccessIsMinted
  BY EventsStep DEF CursorInv, EventsInv
<1>2. SuccessIsMinted'
  <2> SUFFICES ASSUME NEW m \in Mints, mints'[m].status = "success"
               PROVE  MintedEvents(m)' # {}
    BY DEF SuccessIsMinted
  <2>0. mints[m] \in Document /\ mints \in [Mints -> Document]
    BY <1>1 DEF TypeInv, TypeOK, DBTypeOK
  <2>1. ASSUME NEW i \in 1 .. Len(minted), minted[i].mint = m
        PROVE  MintedEvents(m)' # {}
    <3>1. i \in 1 .. Len(minted') /\ minted'[i] = minted[i]
      BY <1>1, SettledStays
    <3> QED
      BY <2>1, <3>1 DEF MintedEvents
  <2>2. CASE mints[m].status = "success"
    BY <1>1, <2>1, <2>2 DEF SuccessIsMinted, MintedEvents
  <2>3. ASSUME NEW v \in Validators, NEW x \in Mints, Writes(v, x), mints[m].status # "success"
        PROVE  FALSE
    <3>1. m = x /\ mints'[m] = Handled(v, m)
      BY <2>0, <2>3 DEF Writes
    <3>2. Handled(v, m).status \in {"failed", "pending", "confirmed", "signed"}
      BY <1>1, <2>0, <2>3, <3>1, HandledCases DEF Writes, Document
    <3> QED
      BY <3>1, <3>2
  <2>4. ASSUME NEW v \in Executors, NEW x \in Mints, Marks(v, x), mints[m].status # "success"
        PROVE  MintedEvents(m)' # {}
    <3>1. m = x
      BY <2>0, <2>4 DEF Marks
    <3>2. executor[v].next \in 1 .. Len(minted)
      <4>1. v \in Validators /\ executor[v].next \in Nat /\ executor[v].current \in Nat
        BY <1>1, ExecutorsAssumption DEF TypeInv, TypeOK, ExecutorState
      <4>2. PassOK(executor[v]) /\ executor[v].pc = "mark" /\ Len(minted) \in Nat
        BY <1>1, <2>4, <4>1, SettledStays DEF CursorInv, Marks
      <4> QED
        BY <4>1, <4>2 DEF PassOK
    <3>3. m = minted[executor[v].next].mint
      BY <1>1, <2>4, <3>1, <3>2, MatchIsMinted DEF Marks
    <3> QED
      BY <2>1, <3>2, <3>3
  <2> QED
    BY <1>1, <2>2, <2>3, <2>4, DocStep
<1>3. ASSUME NEW w \in Validators PROVE PassOK(executor[w])'
  <2> SUFFICES ASSUME NEW e, e = executor[w], NEW next, next = executor'[w]
               PROVE  PassOK(next)'
    BY DEF PassOK
  <2>0. e \in ExecutorState /\ PassOK(e)
    BY <1>1 DEF CursorInv, TypeInv, TypeOK
  <2>1. CASE next = e
    BY <1>1, <2>0, <2>1, PassStays
  <2>2. CASE ExecutorNext(w)
    <3>1. PassOK(executor[w])'
      BY <2>2, ExecutorPassStep
    <3> QED
      BY <3>1 DEF PassOK
  <2>3. ASSUME NEW v \in Validators, v # w, ExecutorNext(v)
        PROVE  next = e
    <3>1. executor \in [Validators -> ExecutorState]
      BY <1>1 DEF TypeInv, TypeOK
    <3>2. CASE MarkMint(v)
      BY <2>3, <3>1, <3>2 DEF MarkMint
    <3>3. CASE FinishRange(v)
      BY <2>3, <3>1, <3>3 DEF FinishRange
    <3>4. CASE \/ UpdateExecutor(v) \/ QueryMinted(v) \/ QueryFails(v)
               \/ SkipEvent(v) \/ LockEvent(v)
      BY <2>3, <3>1, <3>4 DEF UpdateExecutor, QueryMinted, QueryFails, SkipEvent, LockEvent
    <3> QED
      BY <2>3, <3>2, <3>3, <3>4 DEF ExecutorNext
  <2>4. ASSUME NEW v \in Validators, Crash(v)
        PROVE  PassOK(next)'
    <3>1. PICK start \in 0 .. executor[v].start :
              executor' = [executor EXCEPT ![v] = [NewExecutor EXCEPT !.start = start]]
      BY <2>4 DEF Crash
    <3> DEFINE new == [NewExecutor EXCEPT !.start = start]
    <3>2. executor[v].start \in Nat /\ PassOK(executor[v]) /\ Len(minted) \in Nat
      BY <1>1, SettledStays DEF CursorInv, TypeInv, TypeOK, ExecutorState
    <3>3. /\ new \in ExecutorState /\ new.pc = "run" /\ new.start = start /\ new.current = 0
      <4>1. start \in Nat
        BY <3>2
      <4> QED
        BY <4>1 DEF NewExecutor, ExecutorState, ExecutorPC
    <3>4. next \in {e, new}
      BY <1>1, <3>1 DEF TypeInv, TypeOK
    <3> HIDE DEF new
    <3>5. PassOK(new)
      BY <3>2, <3>3 DEF PassOK, Settled
    <3> QED
      BY <1>1, <2>0, <3>3, <3>4, <3>5, PassStays
  <2> QED
    BY <2>1, <2>2, <2>3, <2>4, ExecutorsAssumption DEF Next, SignerStep, ExecutorStep,
       PocketBlock, InsertMint, Claim, SetMintLimit, ExpireLock, vars
<1> QED
  BY <1>1, <1>2, <1>3 DEF CursorInv

\* Initially nothing was minted, and every cursor is at the start block.
LEMMA InitCursor == Init => CursorInv
<1> SUFFICES ASSUME Init PROVE CursorInv
  OBVIOUS
<1>1. EventsInv
  BY InitTypeInv DEF Init, DBInit, EventsInv
<1>2. minted = <<>> /\ SuccessIsMinted
  BY DEF Init, DBInit, NewDocument, SuccessIsMinted
<1>3. \A v \in Validators : PassOK(executor[v])
  BY <1>2 DEF Init, ExecutorInit, NewExecutor, PassOK, Settled
<1> QED
  BY <1>1, <1>2, <1>3 DEF CursorInv

\* As long as the nonces are distinct, the invariant holds.
LEMMA CursorsRight == Spec /\ []NoncesDistinct => []CursorInv
BY InitCursor, CursorStep, PTL DEF Spec

\* As long as no two mints of a recipient have the same nonce, an executor
\* marks only mints that were minted, although it compares recipient, amount
\* and nonce only.
THEOREM SuccessAlwaysMinted == Spec /\ []NoncesDistinct => []SuccessIsMinted
<1>1. CursorInv => SuccessIsMinted
  BY DEF CursorInv
<1> QED
  BY <1>1, CursorsRight, PTL

\* As long as the nonces are distinct, no cursor passes an event whose
\* document is not marked, for any size of the queried ranges.
THEOREM CursorAlwaysSettled == Spec /\ []NoncesDistinct => []CursorIsSettled
<1>1. ASSUME CursorInv PROVE CursorIsSettled
  <2> SUFFICES ASSUME NEW v \in Executors, NEW i \in 1 .. executor[v].start
               PROVE  mints[minted[i].mint].status = "success"
    BY DEF CursorIsSettled
  <2>1. /\ PassOK(executor[v]) /\ executor[v].start \in Nat /\ minted \in Seq(Event)
    BY <1>1, ExecutorsAssumption
       DEF CursorInv, EventsInv, TypeInv, TypeOK, DBTypeOK, ExecutorState
  <2>2. i \in 1 .. Len(minted) /\ i <= executor[v].start
    BY <2>1 DEF PassOK
  <2> QED
    BY <2>1, <2>2 DEF PassOK, Settled
<1> QED
  BY <1>1, CursorsRight, PTL

-----------------------------------------------------------------------------
(* Refinement *)

\* What the refinement mapping of Mints substitutes for settled and refused.
SettledMints == {m \in Mints : mints[m].status = "success"}
RefusedMints == {m \in Mints : mints[m].status = "failed"}

\* A mint has no event, or exactly one.
LEMMA IssuedOnce ==
    ASSUME EventsInv, NEW m \in Mints
    PROVE  Cardinality(MintedEvents(m)) = IF MintedEvents(m) = {} THEN 0 ELSE 1
<1>1. \A i, j \in MintedEvents(m) : i = j
  BY DEF EventsInv, MintedEvents
<1>2. CASE MintedEvents(m) = {}
  BY <1>2, FS_EmptySet
<1>3. CASE MintedEvents(m) # {}
  <2>1. PICK i : MintedEvents(m) = {i}
    BY <1>1, <1>3
  <2>2. Cardinality({i}) = 1
    BY FS_Singleton
  <2> QED
    BY <1>3, <2>1, <2>2
<1> QED
  BY <1>2, <1>3

\* A step that mints nothing and closes nothing is invisible.
LEMMA InvisibleStep ==
    ASSUME minted' = minted, SettledMints' = SettledMints, RefusedMints' = RefusedMints
    PROVE  UNCHANGED Wrapped!vars
BY DEF Wrapped!vars, SettledMints, RefusedMints, MintedEvents

\* A signer refuses what is not minted, or does nothing the abstract token
\* sees.
LEMMA WriteRefines ==
    ASSUME CursorInv, NEW v \in Validators, NEW m \in Mints, Writes(v, m)
    PROVE  Wrapped!Refuse(m) \/ UNCHANGED Wrapped!vars
<1>0. /\ EventsInv /\ TypeInv /\ mints \in [Mints -> Document] /\ mints[m] \in Document
      /\ minted' = minted /\ mints' = [mints EXCEPT ![m] = Handled(v, m)]
      /\ mints[m].status \in {"pending", "confirmed"}
  BY DEF CursorInv, EventsInv, TypeInv, TypeOK, DBTypeOK, Writes, Writable
<1>1. Handled(v, m).status \in {"failed", "pending", "confirmed", "signed"}
  BY <1>0, HandledCases DEF Writes, Document
<1>2. CASE Handled(v, m).status = "failed"
  <2>1. SettledMints' = SettledMints /\ RefusedMints' = RefusedMints \cup {m}
    BY <1>0, <1>2 DEF SettledMints, RefusedMints
  <2>2. MintedEvents(m) = {}
    BY <1>0 DEF EventsInv, EventOK, MintedEvents
  <2>3. Cardinality(MintedEvents(m)) = 0
    BY <2>2, FS_EmptySet
  <2>4. Wrapped!Refuse(m)
    BY <1>0, <2>1, <2>3 DEF Wrapped!Refuse, SettledMints, RefusedMints, MintedEvents
  <2> QED
    BY <2>4
<1>3. CASE Handled(v, m).status # "failed"
  <2>1. SettledMints' = SettledMints /\ RefusedMints' = RefusedMints
    BY <1>0, <1>1, <1>3 DEF SettledMints, RefusedMints
  <2> QED
    BY <1>0, <2>1, InvisibleStep
<1> QED
  BY <1>2, <1>3

\* An executor settles what was minted.
LEMMA MarkRefines ==
    ASSUME CursorInv, CursorInv', NEW v \in Executors, NEW m \in Mints, Marks(v, m)
    PROVE  Wrapped!Settle(m)
<1>0. /\ EventsInv /\ mints \in [Mints -> Document] /\ mints[m] \in Document
      /\ minted' = minted /\ mints' = [mints EXCEPT ![m].status = "success"]
      /\ mints[m].status # "failed"
  BY DEF CursorInv, EventsInv, TypeInv, TypeOK, DBTypeOK, Marks, MatchesEvent
<1>1. mints'[m].status = "success" /\ \A x \in Mints : x # m => mints'[x] = mints[x]
  BY <1>0 DEF Document
<1>2. MintedEvents(m) # {}
  BY <1>0, <1>1 DEF CursorInv, SuccessIsMinted, MintedEvents
<1>3. Cardinality(MintedEvents(m)) = 1
  BY <1>0, <1>2, IssuedOnce
<1>4. SettledMints' = SettledMints \cup {m} /\ RefusedMints' = RefusedMints
  BY <1>0, <1>1 DEF SettledMints, RefusedMints
<1> QED
  BY <1>0, <1>3, <1>4 DEF Wrapped!Settle, SettledMints, RefusedMints, MintedEvents

\* The contract issues a deposit that enough validators accept, once.
LEMMA ClaimRefines ==
    ASSUME CursorInv, CursorInv', CopiesInv, NEW m \in Mints, Claim(m)
    PROVE  Wrapped!Issue(m)
<1> DEFINE n == Len(minted) + 1
           event == [mint |-> m, nonce |-> mints[m].nonce, signatures |-> mints[m].signatures]
<1>0. /\ EventsInv /\ EventsInv' /\ minted \in Seq(Event) /\ mints' = mints
      /\ minted' = Append(minted, event) /\ mints[m].status = "signed" /\ event.mint = m
  BY DEF CursorInv, EventsInv, TypeInv, TypeOK, DBTypeOK, Claim, mintVars
<1> HIDE DEF event
<1>1. /\ Len(minted) \in Nat /\ Len(minted') = n /\ minted'[n] = event
      /\ \A i \in 1 .. Len(minted) : minted'[i] = minted[i]
  BY <1>0
<1>2. \A i \in 1 .. Len(minted) : i # n /\ i \in 1 .. Len(minted')
  BY <1>1
<1>3. n \in 1 .. Len(minted') /\ \A i \in 1 .. Len(minted') : i = n \/ i \in 1 .. Len(minted)
  BY <1>1
<1> HIDE DEF n
<1>4. \A x \in Mints : MintedEvents(x)' = IF x = m THEN MintedEvents(x) \cup {n} ELSE MintedEvents(x)
  BY <1>0, <1>1, <1>2, <1>3 DEF MintedEvents
<1>5. MintedEvents(m) = {}
  <2> SUFFICES ASSUME NEW i \in 1 .. Len(minted), minted[i].mint = m PROVE FALSE
    BY DEF MintedEvents
  <2>1. minted'[i].mint = minted'[n].mint /\ i \in 1 .. Len(minted') /\ i # n
    BY <1>0, <1>1, <1>2
  <2> QED
    BY <1>0, <1>3, <2>1 DEF EventsInv
<1>6. Cardinality(MintedEvents(m)) = 0
  BY <1>5, FS_EmptySet
<1>7. \A x \in Mints : Cardinality(MintedEvents(x))' =
                           IF x = m THEN 1 ELSE Cardinality(MintedEvents(x))
  <2> SUFFICES ASSUME NEW x \in Mints
               PROVE  Cardinality(MintedEvents(x)') =
                          IF x = m THEN 1 ELSE Cardinality(MintedEvents(x))
    OBVIOUS
  <2>1. Cardinality({n}) = 1
    BY FS_Singleton
  <2> QED
    BY <1>4, <1>5, <2>1
<1>8. Wrapped!Cardinality({v \in Validators : m \in Accepts[v]}) >= Threshold
  <2> DEFINE A == {v \in Validators : m \in Accepts[v]}
             S == {sig.signer : sig \in {s \in mints[m].signatures : s.nonce = mints[m].nonce}}
  <2>1. Cardinality(S) >= Threshold
    BY DEF Claim
  <2>2. S \subseteq A
    <3>1. mints[m].signatures \subseteq Signature
      BY DEF CopiesInv, TypeInv, TypeOK, DBTypeOK, Document
    <3> QED
      BY <3>1 DEF CopiesInv, DocumentsOK, CopyOK, CopyAgrees, Signature
  <2>3. IsFiniteSet(A)
    BY ValidatorsAssumption, FS_Subset
  <2> HIDE DEF A, S
  <2>4. Cardinality(S) <= Cardinality(A) /\ Cardinality(S) \in Nat /\ Cardinality(A) \in Nat
    BY <2>2, <2>3, FS_Subset, FS_CardinalityType
  <2>5. Cardinality(A) >= Threshold
    BY <2>1, <2>4, ThresholdAssumption
  <2>6. Wrapped!Cardinality(A) = Cardinality(A)
    BY DEF Wrapped!Cardinality, Cardinality
  <2> QED
    BY <2>5, <2>6 DEF A
<1>9. [x \in Mints |-> Cardinality(MintedEvents(x))]' =
          [[x \in Mints |-> Cardinality(MintedEvents(x))] EXCEPT ![m] = 1]
  BY <1>7
<1> QED
  BY <1>0, <1>6, <1>8, <1>9 DEF Wrapped!Issue

\* Every step is a step of the abstract token, or invisible to it.
LEMMA WrappedStep ==
    ASSUME CursorInv, CopiesInv, NoncesDistinct, [Next]_vars
    PROVE  [Wrapped!Next]_(Wrapped!vars)
<1>1. CursorInv' /\ TypeInv
  BY CursorStep DEF CopiesInv
<1>2. CASE minted' = minted /\ mints' = mints
  BY <1>2, InvisibleStep DEF SettledMints, RefusedMints
<1>3. ASSUME NEW m \in Mints, Claim(m) PROVE [Wrapped!Next]_(Wrapped!vars)
  BY <1>1, <1>3, ClaimRefines DEF Wrapped!Next
<1>4. ASSUME NEW v \in Validators, NEW m \in Mints, Writes(v, m)
      PROVE  [Wrapped!Next]_(Wrapped!vars)
  BY <1>4, WriteRefines DEF Wrapped!Next
<1>5. ASSUME NEW v \in Executors, NEW m \in Mints, Marks(v, m)
      PROVE  [Wrapped!Next]_(Wrapped!vars)
  BY <1>1, <1>5, MarkRefines DEF Wrapped!Next
<1> QED
  BY <1>1, <1>2, <1>3, <1>4, <1>5, DocStep, ChainStep

\* As long as the nonces of a recipient's mints are distinct, Mints implements
\* the abstract token, for any validators, threshold and faults.
THEOREM WrappedImplemented == Spec /\ []NoncesDistinct => WrappedSpec
<1>1. Init => Wrapped!Init
  <2> SUFFICES ASSUME Init PROVE Wrapped!Init
    OBVIOUS
  <2>1. \A m \in Mints : MintedEvents(m) = {}
    BY DEF Init, DBInit, MintedEvents
  <2>2. SettledMints = {} /\ RefusedMints = {}
    BY DEF Init, DBInit, NewDocument, SettledMints, RefusedMints
  <2> QED
    BY <2>1, <2>2, FS_EmptySet DEF Wrapped!Init, SettledMints, RefusedMints
<1>2. CursorInv /\ CopiesInv /\ NoncesDistinct /\ [Next]_vars => [Wrapped!Next]_(Wrapped!vars)
  BY WrappedStep
<1> QED
  BY <1>1, <1>2, CursorsRight, CopiesRight, PTL DEF Spec, WrappedSpec, Wrapped!Spec

-----------------------------------------------------------------------------
(* Nonces that stay distinct *)

\* No nonce is written from a copy that another signer's nonce has made old:
\* locks outlast their use, and either one signature completes a document or
\* there are only two signers, so that the other one does not sign it again.
NoLateSigner ==
    /\ ~LocksExpire
    /\ Threshold = 1 \/ \A u, v, w \in Validators : u = v \/ v = w \/ u = w

\* Whoever handles a recipient holds its lock.
LocksHeld ==
    \A v \in Validators :
        /\ signer[v].mint # Nil => locks[RecipientOf[signer[v].mint]] = SignerWorker(v)
        /\ executor[v].pc = "mark" =>
               locks[RecipientOf[EventRecipient(v)]] = ExecutorWorker(v)

\* A nonce is given to a known document together with a signature.
NoncesSigned ==
    \A m \in Mints : mints[m].nonce # Nil => mints[m].signatures # {} /\ m \in known

\* A copy still to do that has a nonce is as the document, as long as that may
\* be written, and its signer has signed neither.
CopyCurrent(v, m) ==
    LET snap == signer[v].snap[m]
    IN  Writable(m) =>
            /\ v \notin Signers(mints[m].signatures) \cup Signers(snap.signatures)
            /\ snap.nonce # Nil => /\ snap.signatures # {}
                                   /\ mints[m].nonce = snap.nonce
                                   /\ mints[m].signatures = snap.signatures

TodoCurrent(v) ==
    /\ signer[v].mint # Nil => signer[v].mint \in signer[v].todo
    /\ signer[v].todo \subseteq known
    /\ \A m \in signer[v].todo : CopyCurrent(v, m)

\* When one signature is enough, a document with a nonce is not written again.
SignedAtOnce ==
    Threshold = 1 =>
        /\ \A m \in Mints : Writable(m) => mints[m].nonce = Nil
        /\ \A v \in Validators, m \in Mints : signer[v].snap[m].nonce = Nil

\* Another mint of the same recipient.
Rival(m, x) == x # m /\ RecipientOf[x] = RecipientOf[m]

\* The nonce FindNonce comes to is above those that were minted, and in the
\* end different from that of every rival that is not failed.
NonceFresh(v) ==
    LET m == signer[v].mint
    IN  /\ signer[v].pc = "others" =>
               \A x \in Mints : Rival(m, x) /\ mints[x].status = "success" =>
                   mints[x].nonce <= signer[v].nonce
        /\ signer[v].pc = "write" /\ Writable(m) =>
               \A x \in Mints : Rival(m, x) /\ mints[x].status # "failed" =>
                   mints[x].nonce # signer[v].nonce

NonceInv ==
    /\ CursorInv /\ CopiesInv /\ NoncesDistinct
    /\ LocksHeld /\ NoncesSigned /\ SignedAtOnce
    /\ \A v \in Validators : TodoCurrent(v) /\ NonceFresh(v)

-----------------------------------------------------------------------------

\* The steps of the signer of validator w, as seen from its state.
LEMMA SignerMoves ==
    ASSUME TypeInv, [Next]_vars, NEW w \in Validators
    PROVE  signer'[w] = signer[w] \/ SignerNext(w) \/ Crash(w)
<1>0. signer \in [Validators -> SignerState]
  BY DEF TypeInv, TypeOK
<1>1. ASSUME NEW v \in Validators, SignerNext(v), v # w
      PROVE  signer'[w] = signer[w]
  BY <1>0, <1>1 DEF SignerNext, UpdateSigner, SignerFind, SignerPassDone, SignerSkip,
     SignerLock, ReadUserNonce, ReadOtherNonces, SignerAbort, WriteMint, SignerDone
<1>2. ASSUME NEW v \in Validators, Crash(v), v # w
      PROVE  signer'[w] = signer[w]
  BY <1>0, <1>2 DEF Crash
<1> QED
  BY <1>1, <1>2 DEF Next, SignerStep, ExecutorStep, PocketBlock, InsertMint, Claim,
     SetMintLimit, ExpireLock, vars

\* The fields of a signer that is done with document m.
LEMMA SignerDoneFields ==
    ASSUME TypeInv, NEW v \in Validators, NEW m, SignerDone(v, m)
    PROVE  /\ signer'[v].pc = "loop" /\ signer'[v].mint = Nil
           /\ signer'[v].todo = signer[v].todo \ {m}
           /\ \A x \in Mints : x # m => signer'[v].snap[x] = signer[v].snap[x]
           /\ \A x \in Mints : signer'[v].snap[x] \in {signer[v].snap[x], NewDocument}
BY DEF SignerDone, TypeInv, TypeOK, SignerState

\* A signer whose pass goes on changes no document but the one it writes.
LEMMA SignerWrites ==
    ASSUME NEW w \in Validators, SignerNext(w), ~WriteMint(w)
    PROVE  mints' = mints
BY DEF SignerNext, UpdateSigner, SignerFind, SignerPassDone, SignerSkip,
   SignerLock, ReadUserNonce, ReadOtherNonces, SignerAbort, mintVars

\* The lock of one worker is not that of another.
LEMMA WorkersDiffer ==
    ASSUME NEW v, NEW w
    PROVE  /\ SignerWorker(v) = SignerWorker(w) => v = w
           /\ ExecutorWorker(v) = ExecutorWorker(w) => v = w
           /\ SignerWorker(v) # ExecutorWorker(w)
BY DEF SignerWorker, ExecutorWorker

\* An executor about to mark has an event at hand.
LEMMA MarkHasEvent ==
    ASSUME CursorInv, NEW v \in Validators, executor[v].pc = "mark"
    PROVE  /\ executor[v].next \in 1 .. Len(minted)
           /\ minted[executor[v].next] \in Event /\ EventRecipient(v) \in Mints
<1>1. minted \in Seq(Event) /\ executor[v] \in ExecutorState /\ PassOK(executor[v])
  BY DEF CursorInv, EventsInv, TypeInv, TypeOK, DBTypeOK
<1>2. executor[v].next \in 1 .. Len(minted)
  BY <1>1 DEF PassOK, ExecutorState
<1>3. minted[executor[v].next] \in Event
  BY <1>1, <1>2
<1> QED
  BY <1>2, <1>3 DEF EventRecipient, Event

\* While a signer holds the lock of a recipient, no other mint of the
\* recipient changes, and its own does not become writable.
LEMMA RivalsStay ==
    ASSUME CursorInv, LocksHeld, [Next]_vars, NEW w \in Validators, signer[w].mint # Nil
    PROVE  /\ \A x \in Mints : Rival(signer[w].mint, x) => mints'[x] = mints[x]
           /\ Writable(signer[w].mint)' /\ signer'[w].mint = signer[w].mint
                  => Writable(signer[w].mint)
<1> DEFINE m == signer[w].mint
<1>0. TypeInv /\ mints \in [Mints -> Document] /\ m \in Mints
  BY DEF CursorInv, EventsInv, TypeInv, TypeOK, DBTypeOK, SignerState
<1>1. CASE mints' = mints
  BY <1>1 DEF Writable
<1>2. ASSUME NEW v \in Validators, NEW y \in Mints, Writes(v, y)
      PROVE  /\ \A x \in Mints : Rival(m, x) => mints'[x] = mints[x]
             /\ Writable(m)' /\ signer'[w].mint = m => Writable(m)
  <2>1. signer[v].mint = y /\ y # Nil
    BY <1>2, NilFacts DEF Writes
  <2>2. RecipientOf[y] = RecipientOf[m] => v = w
    BY <2>1, WorkersDiffer DEF LocksHeld
  <2>3. RecipientOf[y] = RecipientOf[m] => y = m
    BY <2>1, <2>2
  <2>4. \A x \in Mints : x # y => mints'[x] = mints[x]
    BY <1>0, <1>2 DEF Writes
  <2>5. Writable(y)
    BY <1>2 DEF Writes
  <2> QED
    BY <1>0, <2>3, <2>4, <2>5 DEF Rival, Writable
<1>3. ASSUME NEW v \in Executors, NEW y \in Mints, Marks(v, y)
      PROVE  /\ \A x \in Mints : Rival(m, x) => mints'[x] = mints[x]
             /\ Writable(m)' /\ signer'[w].mint = m => Writable(m)
  <2>1. v \in Validators /\ executor[v].pc = "mark"
    BY <1>3, ExecutorsAssumption DEF Marks
  <2>2. RecipientOf[y] = RecipientOf[EventRecipient(v)]
    BY <1>3 DEF Marks, MatchesEvent, EventRecipient
  <2>3. locks[RecipientOf[y]] = ExecutorWorker(v) /\ locks[RecipientOf[m]] = SignerWorker(w)
    BY <2>1, <2>2 DEF LocksHeld
  <2>4. RecipientOf[y] # RecipientOf[m]
    BY <2>3, WorkersDiffer
  <2>5. \A x \in Mints : x # y => mints'[x] = mints[x]
    BY <1>0, <1>3 DEF Marks
  <2> QED
    BY <1>0, <2>4, <2>5 DEF Rival, Writable
<1> QED
  BY <1>0, <1>1, <1>2, <1>3, DocStep

\* The steps of the executor of validator w, as seen from its state.
LEMMA ExecutorMoves ==
    ASSUME TypeInv, [Next]_vars, NEW w \in Validators
    PROVE  \/ executor'[w] = executor[w]
           \/ LockEvent(w) /\ executor'[w].next = executor[w].next
           \/ executor'[w].pc # "mark"
<1>0. executor \in [Validators -> ExecutorState]
  BY DEF TypeInv, TypeOK
<1>1. ASSUME NEW v \in Validators, ExecutorNext(v), v # w
      PROVE  executor'[w] = executor[w]
  <2>1. CASE MarkMint(v)
    BY <1>0, <1>1, <2>1 DEF MarkMint
  <2>2. CASE FinishRange(v)
    BY <1>0, <1>1, <2>2 DEF FinishRange
  <2>3. CASE \/ UpdateExecutor(v) \/ QueryMinted(v) \/ QueryFails(v)
             \/ SkipEvent(v) \/ LockEvent(v)
    BY <1>0, <1>1, <2>3 DEF UpdateExecutor, QueryMinted, QueryFails, SkipEvent, LockEvent
  <2> QED
    BY <1>1, <2>1, <2>2, <2>3 DEF ExecutorNext
<1>2. ASSUME ExecutorNext(w)
      PROVE  \/ LockEvent(w) /\ executor'[w].next = executor[w].next
             \/ executor'[w].pc # "mark"
  <2>0. executor[w] \in ExecutorState
    BY <1>0
  <2>1. CASE MarkMint(w)
    BY <1>0, <2>0, <2>1 DEF MarkMint, ExecutorState
  <2>2. CASE FinishRange(w)
    BY <1>0, <2>0, <2>2 DEF FinishRange, ExecutorState
  <2>3. CASE UpdateExecutor(w)
    BY <1>0, <2>0, <2>3 DEF UpdateExecutor, ExecutorState
  <2>5. CASE QueryMinted(w) \/ QueryFails(w)
    BY <1>0, <2>0, <2>5 DEF QueryMinted, QueryFails, ExecutorState
  <2>4. CASE SkipEvent(w) \/ LockEvent(w)
    BY <1>0, <2>0, <2>4 DEF SkipEvent, LockEvent, HasEvent, ExecutorState
  <2> QED
    BY <1>2, <2>1, <2>2, <2>3, <2>4, <2>5 DEF ExecutorNext
<1>3. ASSUME NEW v \in Validators, Crash(v)
      PROVE  executor'[w] = executor[w] \/ executor'[w].pc # "mark"
  BY <1>0, <1>3 DEF Crash, NewExecutor
<1> QED
  BY <1>1, <1>2, <1>3, ExecutorsAssumption DEF Next, SignerStep, ExecutorStep, PocketBlock,
     InsertMint, Claim, SetMintLimit, ExpireLock, vars

\* A lock in use is released by its holder only, when it is done with it.
LEMMA LockKept ==
    ASSUME TypeInv, ~LocksExpire, [Next]_vars, NEW r \in Recipients, locks[r] # Nil, InUse(r)
    PROVE  \/ locks'[r] = locks[r]
           \/ \E v \in Validators :
                  \/ locks[r] = SignerWorker(v) /\ signer'[v].mint = Nil
                  \/ locks[r] = ExecutorWorker(v) /\ executor'[v].pc # "mark"
<1>0. locks \in [Recipients -> Workers \cup {Nil}] /\ executor \in [Validators -> ExecutorState]
  BY DEF TypeInv, TypeOK, DBTypeOK
<1>1. ASSUME NEW m, NEW worker, ReleaseRecipient(m, worker)
      PROVE  locks'[r] = locks[r] \/ locks[r] = worker
  BY <1>0, <1>1 DEF ReleaseRecipient, UnlockRecipient
<1>2. ASSUME NEW v \in Validators, SignerNext(v)
      PROVE  locks'[r] = locks[r] \/ (locks[r] = SignerWorker(v) /\ signer'[v].mint = Nil)
  <2>1. CASE SignerAbort(v) \/ WriteMint(v)
    BY <1>1, <2>1, SignerDoneFields DEF SignerAbort, WriteMint
  <2>2. ASSUME NEW m \in Mints, SignerLock(v, m) PROVE locks'[r] = locks[r]
    BY <1>0, <2>2 DEF SignerLock, Unlocked, LockRecipient
  <2>3. CASE \/ UpdateSigner(v) \/ SignerFind(v) \/ SignerPassDone(v)
             \/ \E m \in Mints : SignerSkip(v, m)
             \/ ReadUserNonce(v) \/ ReadOtherNonces(v)
    <3>1. locks' = locks
      BY <2>3 DEF UpdateSigner, SignerFind, SignerPassDone, SignerSkip, ReadUserNonce,
         ReadOtherNonces, mintVars
    <3> QED
      BY <3>1
  <2> QED
    BY <1>2, <2>1, <2>2, <2>3 DEF SignerNext
<1>3. ASSUME NEW v \in Validators, ExecutorNext(v)
      PROVE  \/ locks'[r] = locks[r]
             \/ locks[r] = ExecutorWorker(v) /\ executor'[v].pc # "mark"
  <2>1. CASE MarkMint(v)
    <3>1. executor'[v].pc = "events"
      BY <1>0, <2>1 DEF MarkMint, ExecutorState
    <3>2. ReleaseRecipient(minted[executor[v].next].mint, ExecutorWorker(v))
      BY <2>1 DEF MarkMint, ReleaseRecipient
    <3> QED
      BY <1>1, <3>1, <3>2
  <2>2. CASE LockEvent(v)
    <3> DEFINE s == RecipientOf[EventRecipient(v)]
    <3>1. locks[s] = Nil /\ locks' = [locks EXCEPT ![s] = ExecutorWorker(v)]
      BY <2>2 DEF LockEvent, Unlocked, LockRecipient
    <3> HIDE DEF s
    <3>2. locks'[r] = locks[r]
      BY <1>0, <3>1
    <3> QED
      BY <3>2
  <2>3. CASE \/ UpdateExecutor(v) \/ QueryMinted(v) \/ QueryFails(v)
             \/ SkipEvent(v) \/ FinishRange(v)
    <3>1. locks' = locks
      BY <2>3 DEF UpdateExecutor, QueryMinted, QueryFails, SkipEvent, FinishRange, mintVars
    <3> QED
      BY <3>1
  <2> QED
    BY <1>3, <2>1, <2>2, <2>3 DEF ExecutorNext
<1>4. ASSUME NEW s \in Recipients, ExpireLock(s) PROVE locks'[r] = locks[r]
  BY <1>0, <1>4 DEF ExpireLock
<1>5. CASE \/ \E v \in Validators : Crash(v)
           \/ PocketBlock
           \/ \E m \in Mints : InsertMint(m) \/ Claim(m)
           \/ \E l \in Limits : SetMintLimit(l)
           \/ UNCHANGED vars
  BY <1>5 DEF Crash, PocketBlock, InsertMint, Claim, SetMintLimit, mintVars, vars
<1> QED
  BY <1>2, <1>3, <1>4, <1>5, ExecutorsAssumption DEF Next, SignerStep, ExecutorStep

\* Locks that do not expire in use exclude each other.
LEMMA LocksStep ==
    ASSUME CursorInv, LocksHeld, ~LocksExpire, [Next]_vars
    PROVE  LocksHeld'
<1>0. /\ TypeInv /\ TypeInv' /\ locks \in [Recipients -> Workers \cup {Nil}]
      /\ \A v \in Validators : signer[v] \in SignerState /\ signer'[v] \in SignerState
      /\ \A v \in Validators : executor[v] \in ExecutorState
  BY TypeStep DEF CursorInv, EventsInv, TypeInv, TypeOK, DBTypeOK
<1>1. ASSUME NEW w \in Validators, signer'[w].mint # Nil
      PROVE  locks'[RecipientOf[signer'[w].mint]] = SignerWorker(w)
  <2>1. CASE signer'[w] = signer[w] \/ ReadUserNonce(w) \/ ReadOtherNonces(w)
    <3> DEFINE r == RecipientOf[signer[w].mint]
    <3>1. signer'[w].mint = signer[w].mint
      BY <1>0, <2>1 DEF ReadUserNonce, ReadOtherNonces, SignerState, TypeInv, TypeOK
    <3>2. signer[w].mint \in Mints /\ r \in Recipients
      BY <1>0, <1>1, <3>1, RecipientAssumption DEF SignerState
    <3>3. locks[r] = SignerWorker(w)
      BY <1>1, <3>1 DEF LocksHeld
    <3>4. locks[r] # Nil /\ InUse(r)
      BY <1>1, <3>1, <3>3, WorkerAssumption DEF InUse, SignerWorker, Workers
    <3> HIDE DEF r
    <3>5. locks'[r] = locks[r]
      BY <1>0, <1>1, <3>2, <3>3, <3>4, LockKept, WorkersDiffer
    <3> QED
      BY <3>1, <3>3, <3>5 DEF r
  <2>2. ASSUME NEW m \in Mints, SignerLock(w, m)
        PROVE  locks'[RecipientOf[signer'[w].mint]] = SignerWorker(w)
    <3>1. signer'[w].mint = m
      BY <1>0, <2>2 DEF SignerLock, SignerState, TypeInv, TypeOK
    <3> QED
      BY <1>0, <2>2, <3>1, RecipientAssumption DEF SignerLock, LockRecipient
  <2>3. ASSUME SignerNext(w), ~ReadUserNonce(w), ~ReadOtherNonces(w),
               ~\E m \in Mints : SignerLock(w, m)
        PROVE  FALSE
    <3>1. CASE UpdateSigner(w) \/ SignerFind(w) \/ SignerPassDone(w)
      <4>0. signer \in [Validators -> SignerState]
        BY <1>0 DEF TypeInv, TypeOK
      <4>1. signer[w].pc \in {"run", "find", "loop"}
        BY <3>1 DEF UpdateSigner, SignerFind, SignerPassDone
      <4>2. UpdateSigner(w) => signer'[w].mint = signer[w].mint
        BY <4>0 DEF UpdateSigner, SignerState
      <4>3. SignerFind(w) => signer'[w].mint = signer[w].mint
        <5> DEFINE found == {m \in Mints : Unsigned(w, m)}
                   snap == [m \in Mints |-> IF m \in found THEN mints[m] ELSE NewDocument]
                   pc == IF found = {} THEN "run" ELSE "loop"
        <5>1. SignerFind(w) =>
                  signer' = [signer EXCEPT ![w].pc = pc, ![w].todo = found, ![w].snap = snap]
          BY DEF SignerFind
        <5> HIDE DEF found, snap, pc
        <5> QED
          BY <4>0, <5>1 DEF SignerState
      <4>4. SignerPassDone(w) => signer'[w].mint = signer[w].mint
        BY <4>0 DEF SignerPassDone, SignerState
      <4> QED
        BY <1>0, <1>1, <3>1, <4>1, <4>2, <4>3, <4>4 DEF TypeInv, SignerControl
    <3>2. CASE \E m : SignerDone(w, m)
      BY <1>0, <1>1, <3>2, SignerDoneFields
    <3> QED
      BY <2>3, <3>1, <3>2 DEF SignerNext, SignerSkip, SignerAbort, WriteMint
  <2>4. CASE Crash(w)
    BY <1>0, <1>1, <2>4 DEF Crash, NewSigner, TypeInv, TypeOK
  <2> QED
    BY <1>0, <2>1, <2>2, <2>3, <2>4, SignerMoves
<1>2. ASSUME NEW w \in Validators, executor'[w].pc = "mark"
      PROVE  locks'[RecipientOf[EventRecipient(w)']] = ExecutorWorker(w)
  <2>1. CASE executor'[w] = executor[w]
    <3> DEFINE r == RecipientOf[EventRecipient(w)]
    <3>1. executor[w].pc = "mark" /\ executor[w].next \in 1 .. Len(minted)
          /\ EventRecipient(w) \in Mints
      BY <1>2, <2>1, MarkHasEvent
    <3>2. EventRecipient(w)' = EventRecipient(w)
      BY <2>1, <3>1, SettledStays DEF CursorInv, EventRecipient
    <3>3. r \in Recipients /\ locks[r] = ExecutorWorker(w)
      BY <3>1, RecipientAssumption DEF LocksHeld
    <3>4. locks[r] # Nil /\ InUse(r)
      BY <3>1, <3>3, WorkerAssumption DEF InUse, ExecutorWorker, Workers
    <3> HIDE DEF r
    <3>5. locks'[r] = locks[r]
      BY <1>0, <1>2, <3>3, <3>4, LockKept, WorkersDiffer
    <3> QED
      BY <3>2, <3>3, <3>5 DEF r
  <2>2. CASE LockEvent(w) /\ executor'[w].next = executor[w].next
    <3>1. minted' = minted /\ EventRecipient(w)' = EventRecipient(w)
      BY <2>2 DEF LockEvent, chainVars, EventRecipient
    <3>2. EventRecipient(w) \in Mints
      <4>1. /\ PassOK(executor[w]) /\ executor[w] \in ExecutorState
            /\ minted \in Seq(Event)
        BY <1>0 DEF CursorInv, TypeInv, TypeOK, DBTypeOK
      <4>2. /\ executor[w].pc = "events"
            /\ executor[w].next <= RangeEnd(executor[w].from, executor[w].current)
        BY <2>2 DEF LockEvent, HasEvent
      <4>3. executor[w].next \in 1 .. Len(minted)
        <5>1. /\ executor[w].next \in Nat /\ executor[w].from \in Nat
              /\ executor[w].current \in Nat /\ Len(minted) \in Nat
              /\ 1 <= executor[w].next /\ executor[w].current <= Len(minted)
          BY <4>1, <4>2 DEF PassOK, ExecutorState
        <5>2. RangeEnd(executor[w].from, executor[w].current) <= executor[w].current
          BY <5>1, MaxQueryBlocksAssumption DEF RangeEnd
        <5>3. RangeEnd(executor[w].from, executor[w].current) \in Nat
          BY <5>1, RangeType
        <5> QED
          BY <4>2, <5>1, <5>2, <5>3
      <4>4. minted[executor[w].next] \in Event
        BY <4>1, <4>3
      <4> QED
        BY <4>4 DEF Event, EventRecipient
    <3> QED
      BY <1>0, <2>2, <3>1, <3>2, RecipientAssumption DEF LockEvent, LockRecipient
  <2> QED
    BY <1>0, <1>2, <2>1, <2>2, ExecutorMoves
<1> QED
  BY <1>1, <1>2 DEF LocksHeld, SignerWorker, ExecutorWorker

\* A document that is only confirmed has fewer signatures than the threshold.
LEMMA ConfirmedIsShort ==
    ASSUME TypeInv, NEW v \in Validators, NEW m \in Mints, Handled(v, m).status = "confirmed",
           Writable(m), Valid(v, m), Confirmed(m, signer[v].snap[m], signer[v].height)
    PROVE  ~(Cardinality(FinalSignatures(v, m)) >= Threshold)
<1> SUFFICES ASSUME Cardinality(FinalSignatures(v, m)) >= Threshold PROVE FALSE
  OBVIOUS
<1> DEFINE c == UpdatedConfirmations(m, signer[v].snap[m], signer[v].height)
<1>1. mints[m] \in Document
  BY DEF TypeInv, TypeOK, DBTypeOK
<1>2. Handled(v, m) = [[mints[m] EXCEPT !.confirmations = c] EXCEPT
                           !.status = "signed", !.signatures = FinalSignatures(v, m),
                           !.nonce = signer[v].nonce]
  BY DEF Handled
<1> HIDE DEF c
<1>3. Handled(v, m).status = "signed"
  BY <1>1, <1>2 DEF Document
<1> QED
  BY <1>3

\* What a signer stores, as long as its copies are current.
LEMMA WrittenDoc ==
    ASSUME NonceInv, NEW v \in Validators, NEW m \in Mints, Writes(v, m)
    PROVE  /\ m \in signer[v].todo /\ m \in known /\ Writable(m)
           /\ \A x \in Mints : x # m => mints'[x] = mints[x]
           /\ \/ /\ mints'[m].status \in {"failed", "pending"}
                 /\ mints'[m].nonce = mints[m].nonce
                 /\ mints'[m].signatures = mints[m].signatures
              \/ /\ mints'[m].status \in {"confirmed", "signed"}
                 /\ Threshold = 1 => mints'[m].status = "signed"
                 /\ mints'[m].nonce = signer[v].nonce
                 /\ mints'[m].signatures = FinalSignatures(v, m)
<1>1. /\ TypeInv /\ signer[v].pc = "write" /\ signer[v].mint = m /\ m # Nil
      /\ mints \in [Mints -> Document] /\ Writable(m)
  BY NilFacts DEF NonceInv, CopiesInv, TypeInv, TypeOK, DBTypeOK, Writes
<1>2. m \in signer[v].todo /\ m \in known
  BY <1>1 DEF NonceInv, TodoCurrent
<1>3. mints'[m] = Handled(v, m) /\ \A x \in Mints : x # m => mints'[x] = mints[x]
  BY <1>1 DEF Writes
<1>4. CASE Handled(v, m) = [mints[m] EXCEPT !.status = "failed"]
  BY <1>1, <1>2, <1>3, <1>4 DEF Document
<1>5. CASE /\ Handled(v, m).status = "pending"
           /\ Handled(v, m).signatures = mints[m].signatures
           /\ Handled(v, m).nonce = mints[m].nonce
  BY <1>1, <1>2, <1>3, <1>5
<1>6. CASE /\ Valid(v, m)
           /\ Confirmed(m, signer[v].snap[m], signer[v].height)
           /\ Handled(v, m).status \in {"confirmed", "signed"}
           /\ Handled(v, m).signatures = FinalSignatures(v, m)
           /\ Handled(v, m).nonce = signer[v].nonce
  <2> DEFINE snap == signer[v].snap[m]
  <2>1. ASSUME Threshold = 1 PROVE Handled(v, m).status = "signed"
    <3>1. snap.nonce = Nil /\ CopyOK(m, snap) /\ snap \in Document
      BY <1>1, <2>1 DEF NonceInv, SignedAtOnce, CopiesInv, SignersOK, TypeInv, TypeOK, SignerState
    <3>2. snap.signatures = {}
      <4>1. \A sig \in snap.signatures : sig.nonce \in Nat /\ sig.nonce = Nil
        BY <3>1 DEF CopyOK, CopyAgrees, Document, Signature
      <4> QED
        BY <4>1, NilFacts
    <3>3. Cardinality(FinalSignatures(v, m)) = 1
      <4>1. FinalSignatures(v, m) = {[signer |-> v, nonce |-> signer[v].nonce]}
        BY <3>2 DEF FinalSignatures
      <4> QED
        BY <4>1, FS_Singleton
    <3>4. Handled(v, m).status # "confirmed"
      BY <1>1, <1>6, <2>1, <3>3, ConfirmedIsShort
    <3> QED
      BY <1>6, <3>4
  <2> QED
    BY <1>1, <1>2, <1>3, <1>6, <2>1
<1> QED
  BY <1>1, <1>4, <1>5, <1>6, HandledCases

\* A copy that is not written stays current: the other signer does not write
\* a document that it has signed.
LEMMA CopyKept ==
    ASSUME NonceInv, NoLateSigner, [Next]_vars, NEW w \in Validators,
           NEW m \in signer[w].todo, ~Writes(w, m),
           signer'[w].snap[m] = signer[w].snap[m]
    PROVE  CopyCurrent(w, m)'
<1> DEFINE snap == signer[w].snap[m]
<1>0. /\ TypeInv /\ mints \in [Mints -> Document] /\ m \in Mints /\ CopyCurrent(w, m)
      /\ signer[w] \in SignerState
  BY DEF NonceInv, TodoCurrent, CopiesInv, TypeInv, TypeOK, DBTypeOK, SignerState
<1>1. CASE mints'[m] = mints[m]
  BY <1>0, <1>1 DEF CopyCurrent, Writable
<1>2. ASSUME NEW v \in Validators, Writes(v, m), v # w
      PROVE  CopyCurrent(w, m)'
  <2> SUFFICES ASSUME Writable(m)' PROVE CopyCurrent(w, m)'
    BY DEF CopyCurrent
  <2> DEFINE other == signer[v].snap[m]
             sig == [signer |-> v, nonce |-> signer[v].nonce]
  <2>1. m \in signer[v].todo /\ Writable(m)
    BY <1>0, <1>2, WrittenDoc
  <2>2. /\ w \notin Signers(mints[m].signatures) \cup Signers(snap.signatures)
        /\ snap.nonce # Nil => /\ snap.signatures # {}
                               /\ mints[m].nonce = snap.nonce
                               /\ mints[m].signatures = snap.signatures
    BY <1>0, <2>1 DEF CopyCurrent
  <2>3. /\ v \notin Signers(mints[m].signatures) \cup Signers(other.signatures)
        /\ other.nonce # Nil => mints[m].signatures = other.signatures
    BY <2>1 DEF NonceInv, TodoCurrent, CopyCurrent
  <2>4. CASE mints'[m].nonce = mints[m].nonce /\ mints'[m].signatures = mints[m].signatures
    BY <2>2, <2>4 DEF CopyCurrent
  <2>5. CASE /\ mints'[m].status \in {"confirmed", "signed"}
             /\ Threshold = 1 => mints'[m].status = "signed"
             /\ mints'[m].signatures = FinalSignatures(v, m)
    <3>1. Threshold # 1 /\ \A u \in Validators : u = v \/ u = w
      BY <1>2, <2>5 DEF NoLateSigner, Writable
    <3>2. /\ other \in Document /\ CopyOK(m, other) /\ snap \in Document
          /\ snap.signatures \subseteq Signature
      BY <1>0 DEF NonceInv, CopiesInv, SignersOK, TypeInv, TypeOK, SignerState, Document
    <3>3. w \notin Signers(other.signatures)
      <4>1. other.nonce = Nil => other.signatures = {}
        BY <3>2, NilFacts DEF CopyOK, CopyAgrees, Document, Signature
      <4> QED
        BY <2>2, <2>3, <4>1 DEF Signers
    <3>4. w \notin Signers(mints'[m].signatures)
      BY <1>2, <2>5, <3>3 DEF FinalSignatures, Signers
    <3>5. snap.nonce = Nil
      <4> SUFFICES ASSUME snap.nonce # Nil PROVE FALSE
        OBVIOUS
      <4>1. PICK s \in snap.signatures : TRUE
        BY <2>2
      <4>2. s.signer \in Validators /\ s.signer \in Signers(snap.signatures)
        BY <3>2 DEF Signature, Signers
      <4>3. v \in Signers(snap.signatures)
        BY <2>2, <3>1, <4>2
      <4> QED
        BY <2>2, <2>3, <4>3
    <3> QED
      BY <2>2, <3>4, <3>5 DEF CopyCurrent
  <2>6. \/ mints'[m].nonce = mints[m].nonce /\ mints'[m].signatures = mints[m].signatures
        \/ /\ mints'[m].status \in {"confirmed", "signed"}
           /\ Threshold = 1 => mints'[m].status = "signed"
           /\ mints'[m].signatures = FinalSignatures(v, m)
    BY <1>0, <1>2, WrittenDoc
  <2> HIDE DEF snap, other
  <2> QED
    BY <2>4, <2>5, <2>6
<1>3. ASSUME NEW v \in Executors, Marks(v, m) PROVE CopyCurrent(w, m)'
  <2>1. mints'[m].status = "success"
    BY <1>0, <1>3 DEF Marks, Document
  <2> QED
    BY <2>1 DEF CopyCurrent, Writable
<1>4. \A v \in Validators, x \in Mints : Writes(v, x) /\ x # m => mints'[m] = mints[m]
  BY <1>0 DEF Writes
<1>5. \A v \in Executors, x \in Mints : Marks(v, x) /\ x # m => mints'[m] = mints[m]
  BY <1>0 DEF Marks
<1> QED
  BY <1>0, <1>1, <1>2, <1>3, <1>4, <1>5, DocStep

\* What is known grows.
LEMMA KnownGrows ==
    ASSUME [Next]_vars
    PROVE  known \subseteq known'
<1>1. ASSUME NEW v \in Validators, SignerNext(v) PROVE known' = known
  BY <1>1 DEF SignerNext, UpdateSigner, SignerFind, SignerPassDone, SignerSkip, SignerLock,
     ReadUserNonce, ReadOtherNonces, SignerAbort, WriteMint, mintVars
<1>2. ASSUME NEW v \in Executors, ExecutorNext(v) PROVE known' = known
  BY <1>2 DEF ExecutorNext, UpdateExecutor, QueryMinted, QueryFails, SkipEvent, LockEvent,
     MarkMint, FinishRange, mintVars
<1>3. CASE \/ \E v \in Validators : Crash(v)
           \/ PocketBlock
           \/ \E m \in Mints : InsertMint(m) \/ Claim(m)
           \/ \E l \in Limits : SetMintLimit(l)
           \/ \E r \in Recipients : ExpireLock(r)
           \/ UNCHANGED vars
  BY <1>3 DEF Crash, PocketBlock, InsertMint, Claim, SetMintLimit, ExpireLock, mintVars, vars
<1> QED
  BY <1>1, <1>2, <1>3 DEF Next, SignerStep, ExecutorStep

\* The pass of a signer that has read its documents: what a step of the pass
\* leaves to do, and which copies it keeps.
PassStep(w) ==
    /\ signer'[w].todo \subseteq signer[w].todo
    /\ \A m \in signer'[w].todo : signer'[w].snap[m] = signer[w].snap[m] /\ ~Writes(w, m)
    /\ signer'[w].mint # Nil => signer'[w].mint \in signer'[w].todo

\* A signer reads its documents anew, forgets them, or goes on with its pass.
LEMMA TodoMoves ==
    ASSUME NonceInv, [Next]_vars, NEW w \in Validators
    PROVE  \/ PassStep(w)
           \/ SignerFind(w)
           \/ signer'[w].todo = {} /\ signer'[w].mint = Nil
<1>0. /\ TypeInv /\ signer \in [Validators -> SignerState] /\ signer[w] \in SignerState
      /\ signer[w].mint # Nil => signer[w].mint \in signer[w].todo
      /\ signer[w].todo \subseteq Mints
  BY DEF NonceInv, TodoCurrent, CopiesInv, TypeInv, TypeOK, SignerState
<1>1. ASSUME NEW m, Writes(w, m) PROVE SignerDone(w, m) /\ signer[w].mint = m
  BY <1>1 DEF Writes
<1>2. CASE signer'[w] = signer[w]
  <2>1. \A m : ~Writes(w, m)
    BY <1>0, <1>1, <1>2, SignerDoneFields, NilFacts DEF TypeInv, SignerControl, Writes
  <2> QED
    BY <1>0, <1>2, <2>1 DEF PassStep
<1>3. ASSUME NEW x, SignerDone(w, x), signer[w].mint \in {x, Nil} PROVE PassStep(w)
  <2>1. \A m : Writes(w, m) => m = x
    BY <1>0, <1>3 DEF TypeInv, SignerControl, Writes
  <2> QED
    BY <1>0, <1>3, <2>1, SignerDoneFields DEF PassStep
<1>4. CASE ReadUserNonce(w) \/ ReadOtherNonces(w) \/ UpdateSigner(w) \/ SignerPassDone(w)
  <2>1. /\ signer'[w].todo = signer[w].todo /\ signer'[w].snap = signer[w].snap
        /\ signer'[w].mint = signer[w].mint /\ signer[w].pc # "write"
    <3>1. CASE ReadUserNonce(w)
      BY <1>0, <3>1 DEF ReadUserNonce, SignerState
    <3>2. CASE ReadOtherNonces(w)
      BY <1>0, <3>2 DEF ReadOtherNonces, SignerState
    <3>3. CASE UpdateSigner(w)
      BY <1>0, <3>3 DEF UpdateSigner, SignerState
    <3>4. CASE SignerPassDone(w)
      BY <1>0, <3>4 DEF SignerPassDone, SignerState
    <3> QED
      BY <1>4, <3>1, <3>2, <3>3, <3>4
  <2> QED
    BY <1>0, <2>1 DEF PassStep, Writes
<1>5. ASSUME NEW x \in Mints, SignerLock(w, x) PROVE PassStep(w)
  <2>1. /\ signer'[w].todo = signer[w].todo /\ signer'[w].snap = signer[w].snap
        /\ signer'[w].mint = x /\ x \in signer[w].todo /\ signer[w].pc # "write"
    BY <1>0, <1>5 DEF SignerLock, SignerState
  <2> QED
    BY <2>1 DEF PassStep, Writes
<1>6. CASE Crash(w)
  BY <1>0, <1>6 DEF Crash, NewSigner
<1>7. ASSUME NEW x \in Mints, SignerSkip(w, x) PROVE PassStep(w)
  BY <1>0, <1>3, <1>7 DEF SignerSkip, TypeInv, SignerControl
<1>8. CASE SignerAbort(w) \/ WriteMint(w)
  BY <1>3, <1>8 DEF SignerAbort, WriteMint
<1> QED
  BY <1>0, <1>2, <1>4, <1>5, <1>6, <1>7, <1>8, SignerMoves DEF SignerNext

\* Every step keeps the copies current that are still to do.
LEMMA TodoStep ==
    ASSUME NonceInv, NoLateSigner, [Next]_vars, NEW w \in Validators
    PROVE  TodoCurrent(w)'
<1>0. /\ TypeInv /\ known \subseteq known' /\ signer \in [Validators -> SignerState]
      /\ signer[w].todo \subseteq known /\ signer[w].todo \subseteq Mints
      /\ mints \in [Mints -> Document]
  BY KnownGrows DEF NonceInv, TodoCurrent, CopiesInv, TypeInv, TypeOK, DBTypeOK, SignerState
<1>1. CASE PassStep(w)
  <2>1. \A m \in signer'[w].todo : CopyCurrent(w, m)'
    BY <1>1, CopyKept DEF PassStep
  <2> QED
    BY <1>0, <1>1, <2>1 DEF PassStep, TodoCurrent
<1>2. CASE SignerFind(w)
  <2> DEFINE found == {m \in Mints : Unsigned(w, m)}
             snap == [m \in Mints |-> IF m \in found THEN mints[m] ELSE NewDocument]
             pc == IF found = {} THEN "run" ELSE "loop"
  <2>1. /\ signer' = [signer EXCEPT ![w].pc = pc, ![w].todo = found, ![w].snap = snap]
        /\ mints' = mints /\ signer[w].mint = Nil
    BY <1>0, <1>2 DEF SignerFind, mintVars, TypeInv, SignerControl
  <2>2. found \subseteq known /\ \A m \in found : m \in Mints /\ snap[m] = mints[m]
    BY DEF Unsigned
  <2>3. \A m \in found : w \notin Signers(mints[m].signatures)
    BY DEF Unsigned
  <2> HIDE DEF found, snap, pc
  <2>4. signer'[w].todo = found /\ signer'[w].snap = snap /\ signer'[w].mint = Nil
    BY <1>0, <2>1 DEF SignerState
  <2>5. \A m \in found : CopyCurrent(w, m)'
    BY <2>1, <2>2, <2>3, <2>4 DEF CopyCurrent, NonceInv, NoncesSigned
  <2> QED
    BY <1>0, <2>2, <2>4, <2>5 DEF TodoCurrent
<1>3. CASE signer'[w].todo = {} /\ signer'[w].mint = Nil
  BY <1>3 DEF TodoCurrent
<1> QED
  BY <1>1, <1>2, <1>3, TodoMoves

\* What changes a document: a signer's write, or a mark on the minted one.
LEMMA DocMoves ==
    ASSUME NonceInv, [Next]_vars, NEW m \in Mints, mints'[m] # mints[m]
    PROVE  \/ \E v \in Validators : Writes(v, m)
           \/ /\ mints[m].status \in {"confirmed", "signed", "success"}
              /\ mints'[m].status = "success" /\ mints'[m].nonce = mints[m].nonce
              /\ mints'[m].signatures = mints[m].signatures
<1>0. TypeInv /\ mints \in [Mints -> Document]
  BY DEF NonceInv, CopiesInv, TypeInv, TypeOK, DBTypeOK
<1>1. ASSUME NEW v \in Validators, NEW x \in Mints, Writes(v, x) PROVE x = m
  BY <1>0, <1>1 DEF Writes
<1>2. ASSUME NEW v \in Executors, NEW x \in Mints, Marks(v, x)
      PROVE  /\ mints[m].status \in {"confirmed", "signed", "success"}
             /\ mints'[m].status = "success" /\ mints'[m].nonce = mints[m].nonce
             /\ mints'[m].signatures = mints[m].signatures
  <2>1. x = m /\ mints'[m] = [mints[m] EXCEPT !.status = "success"]
    BY <1>0, <1>2 DEF Marks
  <2> QED
    BY <1>0, <1>2, <2>1 DEF Marks, MatchesEvent, Document
<1> QED
  BY <1>0, <1>1, <1>2, DocStep

\* Every step gives a nonce to a known document, with a signature.
LEMMA NoncesSignedStep ==
    ASSUME NonceInv, [Next]_vars
    PROVE  NoncesSigned'
<1> SUFFICES ASSUME NEW m \in Mints, mints'[m].nonce # Nil
             PROVE  mints'[m].signatures # {} /\ m \in known'
  BY DEF NoncesSigned
<1>1. known \subseteq known' /\ (mints[m].nonce # Nil => mints[m].signatures # {} /\ m \in known)
  BY KnownGrows DEF NonceInv, NoncesSigned
<1>2. ASSUME NEW v \in Validators, Writes(v, m)
      PROVE  mints'[m].signatures # {} /\ m \in known'
  <2>1. FinalSignatures(v, m) # {}
    BY DEF FinalSignatures
  <2> QED
    BY <1>1, <1>2, <2>1, WrittenDoc
<1> QED
  BY <1>1, <1>2, DocMoves

\* When one signature is enough, a step does not write a document twice.
LEMMA SignedAtOnceStep ==
    ASSUME NonceInv, [Next]_vars
    PROVE  SignedAtOnce'
<1> SUFFICES ASSUME Threshold = 1
             PROVE  /\ \A m \in Mints : Writable(m)' => mints'[m].nonce = Nil
                    /\ \A v \in Validators, m \in Mints : signer'[v].snap[m].nonce = Nil
  BY DEF SignedAtOnce
<1>1. /\ \A m \in Mints : Writable(m) => mints[m].nonce = Nil
      /\ \A v \in Validators, m \in Mints : signer[v].snap[m].nonce = Nil
  BY DEF NonceInv, SignedAtOnce
<1>2. ASSUME NEW m \in Mints, Writable(m)' PROVE mints'[m].nonce = Nil
  <2>1. CASE mints'[m] = mints[m]
    BY <1>1, <1>2, <2>1 DEF Writable
  <2>2. ASSUME NEW v \in Validators, Writes(v, m) PROVE mints'[m].nonce = Nil
    BY <1>1, <1>2, <2>2, WrittenDoc DEF Writable
  <2> QED
    BY <1>2, <2>1, <2>2, DocMoves DEF Writable
<1>3. ASSUME NEW v \in Validators, NEW m \in Mints PROVE signer'[v].snap[m].nonce = Nil
  <2>1. CopyStep(v, m)
    BY SignerEffects DEF NonceInv, CopiesInv
  <2> QED
    BY <1>1, <2>1 DEF CopyStep, NewDocument, Writable
<1> QED
  BY <1>2, <1>3

\* A written nonce is the one the signer has come to, and that is fresh.
LEMMA DistinctStep ==
    ASSUME NonceInv, [Next]_vars
    PROVE  NoncesDistinct'
<1> SUFFICES ASSUME NEW m \in Mints, NEW x \in Mints, m # x,
                    RecipientOf[m] = RecipientOf[x], mints'[m].status # "failed",
                    mints'[x].status # "failed", mints'[m].nonce # Nil
             PROVE  mints'[m].nonce # mints'[x].nonce
  BY DEF NoncesDistinct
<1>1. /\ \A y \in Mints : mints[y].status = "failed" => mints'[y] = mints[y]
      /\ TypeInv /\ mints \in [Mints -> Document]
  <2>1. TypeInv /\ mints \in [Mints -> Document]
    BY DEF NonceInv, CopiesInv, TypeInv, TypeOK, DBTypeOK
  <2>2. \A v \in Validators, y \in Mints : Writes(v, y) => mints[y].status # "failed"
    BY DEF Writes, Writable
  <2> QED
    BY <2>1, <2>2, DocMoves
<1>2. mints[m].status # "failed" /\ mints[x].status # "failed"
  BY <1>1
<1>3. mints[m].nonce # Nil => mints[m].nonce # mints[x].nonce
  BY <1>2 DEF NonceInv, NoncesDistinct
<1>4. mints[x].nonce # Nil => mints[m].nonce # mints[x].nonce
  BY <1>2 DEF NonceInv, NoncesDistinct
<1>5. ASSUME NEW y \in Mints, NEW z \in Mints, NEW v \in Validators, Writes(v, y), y # z,
             RecipientOf[y] = RecipientOf[z], mints[z].status # "failed",
             mints'[y].nonce # mints[y].nonce
      PROVE  mints'[y].nonce # mints[z].nonce /\ mints'[z] = mints[z]
  <2>1. /\ signer[v].pc = "write" /\ signer[v].mint = y /\ Writable(y)
        /\ mints'[y].nonce = signer[v].nonce /\ mints'[z] = mints[z]
    BY <1>5, WrittenDoc DEF Writes
  <2>2. Rival(y, z)
    BY <1>5 DEF Rival
  <2>3. NonceFresh(v)
    BY DEF NonceInv
  <2> QED
    BY <1>5, <2>1, <2>2, <2>3 DEF NonceFresh
<1>6. CASE mints'[m].nonce = mints[m].nonce /\ mints'[x].nonce = mints[x].nonce
  BY <1>3, <1>6
<1>7. CASE mints'[m].nonce # mints[m].nonce
  BY <1>2, <1>5, <1>7, DocMoves
<1>8. CASE mints'[x].nonce # mints[x].nonce
  BY <1>2, <1>5, <1>8, DocMoves
<1> QED
  BY <1>6, <1>7, <1>8

\* The nonce FindNonce takes is above the contract's and those it has read.
LEMMA LargestIsLargest ==
    ASSUME NoncesBounded, mints \in [Mints -> Document], known \in SUBSET Mints,
           NEW m, NEW c \in Nat
    PROVE  \A n \in OpenNonces(m) \cup {c} : n <= LargestNonce(c, OpenNonces(m))
<1> DEFINE S == {x \in known \ {m} : /\ RecipientOf[x] = RecipientOf[m]
                                     /\ mints[x].status \in OpenStatus}
           nonces == OpenNonces(m) \cup {c}
<1>1. OpenNonces(m) = NoncesOf(S)
  BY DEF OpenNonces, NoncesOf
<1>2. HasLargest(nonces)
  BY <1>1 DEF NoncesBounded
<1> HIDE DEF nonces
<1>3. \A n \in nonces : n <= (CHOOSE k \in nonces : \A other \in nonces : other <= k)
  BY <1>2 DEF HasLargest
<1> QED
  BY <1>3 DEF LargestNonce, nonces

\* The step a signer takes to a nonce: from the contract, from the documents,
\* or from the copy it has.
LEMMA NonceMoves ==
    ASSUME TypeInv, [Next]_vars, NEW w \in Validators, signer'[w].pc \in {"others", "write"}
    PROVE  \/ signer'[w] = signer[w]
           \/ ReadUserNonce(w) /\ signer'[w].pc = "others"
           \/ ReadOtherNonces(w) /\ signer'[w].pc = "write"
           \/ \E m \in Mints : SignerLock(w, m) /\ signer'[w].pc = "write"
<1>0. signer \in [Validators -> SignerState] /\ signer[w] \in SignerState
  BY DEF TypeInv, TypeOK
<1>1. CASE UpdateSigner(w)
  BY <1>0, <1>1 DEF UpdateSigner, SignerState
<1>2. CASE SignerFind(w)
  <2> DEFINE found == {m \in Mints : Unsigned(w, m)}
             snap == [m \in Mints |-> IF m \in found THEN mints[m] ELSE NewDocument]
             pc == IF found = {} THEN "run" ELSE "loop"
  <2>1. signer' = [signer EXCEPT ![w].pc = pc, ![w].todo = found, ![w].snap = snap]
    BY <1>2 DEF SignerFind
  <2>2. pc \in {"run", "loop"}
    OBVIOUS
  <2> HIDE DEF found, snap, pc
  <2>3. signer'[w].pc = pc
    BY <1>0, <2>1 DEF SignerState
  <2> QED
    BY <2>2, <2>3
<1>3. CASE SignerPassDone(w)
  BY <1>0, <1>3 DEF SignerPassDone, SignerState
<1>4. ASSUME NEW m, SignerDone(w, m) PROVE FALSE
  BY <1>4, SignerDoneFields
<1>5. CASE ReadUserNonce(w)
  BY <1>0, <1>5 DEF ReadUserNonce, SignerState
<1>6. CASE ReadOtherNonces(w)
  BY <1>0, <1>6 DEF ReadOtherNonces, SignerState
<1>7. ASSUME NEW m \in Mints, SignerLock(w, m)
      PROVE  signer'[w].pc = "write"
  BY <1>0, <1>7 DEF SignerLock, SignerState
<1>8. CASE Crash(w)
  BY <1>0, <1>8 DEF Crash, NewSigner
<1> QED
  BY <1>1, <1>2, <1>3, <1>4, <1>5, <1>6, <1>7, <1>8, SignerMoves
     DEF SignerNext, SignerSkip, SignerAbort, WriteMint

\* A mint recorded as successful has a nonce the contract has passed.
LEMMA SuccessIsPassed ==
    ASSUME CursorInv, NEW x \in Mints, mints[x].status = "success"
    PROVE  mints[x].nonce \in Nat /\ mints[x].nonce <= UserNonce(RecipientOf[x])
<1>1. PICK i \in 1 .. Len(minted) : minted[i].mint = x
  BY DEF CursorInv, SuccessIsMinted, MintedEvents
<1>2. EventOK(i)
  BY DEF CursorInv, EventsInv
<1> QED
  BY <1>1, <1>2 DEF EventOK

\* Every step leaves the nonces signers have come to fresh.
LEMMA FreshStep ==
    ASSUME NonceInv, [Next]_vars, NEW w \in Validators
    PROVE  NonceFresh(w)'
<1> DEFINE m == signer[w].mint
           nonce == signer[w].nonce
<1>0. /\ TypeInv /\ CursorInv /\ LocksHeld /\ NonceFresh(w)
      /\ signer \in [Validators -> SignerState] /\ signer[w] \in SignerState
      /\ mints \in [Mints -> Document] /\ known \in SUBSET Mints /\ minted \in Seq(Event)
  BY DEF NonceInv, CopiesInv, TypeInv, TypeOK, DBTypeOK
<1>1. CASE signer'[w].pc \notin {"others", "write"}
  BY <1>1 DEF NonceFresh
<1>2. CASE signer'[w] = signer[w] /\ signer[w].pc \in {"others", "write"}
  <2>1. m # Nil
    BY <1>0, <1>2 DEF TypeInv, SignerControl
  <2>2. /\ \A x \in Mints : Rival(m, x) => mints'[x] = mints[x]
        /\ Writable(m)' => Writable(m)
    BY <1>0, <1>2, <2>1, RivalsStay
  <2> QED
    BY <1>0, <1>2, <2>2 DEF NonceFresh, Rival
<1>3. CASE ReadUserNonce(w) /\ signer'[w].pc = "others"
  <2>1. /\ signer'[w].nonce = UserNonce(RecipientOf[m]) /\ signer'[w].mint = m
        /\ mints' = mints
    BY <1>0, <1>3 DEF ReadUserNonce, SignerState, mintVars
  <2>2. \A x \in Mints : Rival(m, x) /\ mints[x].status = "success" =>
            mints[x].nonce <= UserNonce(RecipientOf[m])
    BY <1>0, SuccessIsPassed DEF Rival
  <2> QED
    BY <1>3, <2>1, <2>2 DEF NonceFresh
<1>4. CASE ReadOtherNonces(w) /\ signer'[w].pc = "write"
  <2> DEFINE largest == LargestNonce(nonce, OpenNonces(m))
  <2>1. /\ signer[w].pc = "others" /\ signer'[w].nonce = largest + 1
        /\ signer'[w].mint = m /\ mints' = mints
    BY <1>0, <1>4 DEF ReadOtherNonces, SignerState, mintVars
  <2>2. nonce \in Nat /\ NoncesBounded
    BY <1>0, <2>1 DEF TypeInv, SignerControl
  <2>3. largest \in Nat /\ \A n \in OpenNonces(m) \cup {nonce} : n <= largest
    BY <1>0, <2>2, LargestNonceType, LargestIsLargest
  <2>4. ASSUME NEW x \in Mints, Rival(m, x), mints[x].status # "failed"
        PROVE  mints[x].nonce # largest + 1
    <3>1. mints[x] \in Document
      BY <1>0
    <3>2. CASE mints[x].status = "success"
      <4>1. mints[x].nonce <= nonce /\ mints[x].nonce \in Nat
        BY <1>0, <2>1, <2>4, <3>2, SuccessIsPassed DEF NonceFresh
      <4>2. nonce <= largest
        BY <2>3
      <4> HIDE DEF largest, nonce
      <4> QED
        BY <2>2, <2>3, <4>1, <4>2
    <3>3. CASE mints[x].nonce = Nil
      BY <2>3, <3>3, NilFacts
    <3>4. CASE mints[x].status # "success" /\ mints[x].nonce # Nil
      <4>1. x \in known \ {m} /\ mints[x].status \in OpenStatus /\ mints[x].nonce \in Nat
        BY <2>4, <3>1, <3>4 DEF NonceInv, NoncesSigned, Rival, Document, Status, OpenStatus
      <4>2. mints[x].nonce \in OpenNonces(m)
        BY <2>4, <3>4, <4>1 DEF OpenNonces, Rival
      <4> QED
        BY <2>3, <4>1, <4>2
    <3> QED
      BY <3>2, <3>3, <3>4
  <2> HIDE DEF largest
  <2> QED
    BY <1>4, <2>1, <2>4 DEF NonceFresh
<1>5. ASSUME NEW y \in Mints, SignerLock(w, y), signer'[w].pc = "write"
      PROVE  NonceFresh(w)'
  <2> DEFINE snap == signer[w].snap[y]
  <2>1. /\ signer'[w].mint = y /\ signer'[w].nonce = snap.nonce /\ snap.nonce # Nil
        /\ y \in signer[w].todo /\ mints' = mints
    BY <1>0, <1>5 DEF SignerLock, SignerState
  <2>2. Writable(y) => mints[y].nonce = snap.nonce
    BY <2>1 DEF NonceInv, TodoCurrent, CopyCurrent
  <2>3. Writable(y) => \A x \in Mints : Rival(y, x) /\ mints[x].status # "failed" =>
            mints[x].nonce # snap.nonce
    BY <2>1, <2>2 DEF NonceInv, NoncesDistinct, Rival, Writable
  <2> QED
    BY <1>5, <2>1, <2>3 DEF NonceFresh, Writable
<1> QED
  BY <1>0, <1>1, <1>2, <1>3, <1>4, <1>5, NonceMoves

-----------------------------------------------------------------------------

\* Initially no document has a nonce, and nobody holds a lock.
LEMMA InitNonce == Init => NonceInv
<1> SUFFICES ASSUME Init PROVE NonceInv
  OBVIOUS
<1>1. /\ \A m \in Mints : mints[m] = NewDocument
      /\ \A v \in Validators : /\ signer[v].pc = "run" /\ signer[v].mint = Nil
                               /\ signer[v].todo = {}
                               /\ \A m \in Mints : signer[v].snap[m] = NewDocument
      /\ \A v \in Validators : executor[v].pc = "run"
  BY DEF Init, DBInit, SignerInit, ExecutorInit, NewSigner, NewExecutor
<1>2. LocksHeld /\ NoncesSigned /\ NoncesDistinct /\ SignedAtOnce
  BY <1>1 DEF LocksHeld, NoncesSigned, NoncesDistinct, SignedAtOnce, NewDocument
<1>3. \A v \in Validators : TodoCurrent(v) /\ NonceFresh(v)
  BY <1>1 DEF TodoCurrent, NonceFresh
<1> QED
  BY <1>2, <1>3, InitCursor, InitCopies DEF NonceInv

\* Every step keeps the invariant.
LEMMA NonceStep == NoLateSigner /\ NonceInv /\ [Next]_vars => NonceInv'
<1> SUFFICES ASSUME NoLateSigner, NonceInv, [Next]_vars PROVE NonceInv'
  OBVIOUS
<1>1. CursorInv' /\ CopiesInv'
  BY CursorStep, CopiesStep DEF NonceInv
<1>2. LocksHeld'
  BY LocksStep DEF NonceInv, NoLateSigner
<1>3. NoncesDistinct' /\ NoncesSigned' /\ SignedAtOnce'
  BY DistinctStep, NoncesSignedStep, SignedAtOnceStep
<1>4. \A v \in Validators : TodoCurrent(v)' /\ NonceFresh(v)'
  BY TodoStep, FreshStep
<1> QED
  BY <1>1, <1>2, <1>3, <1>4 DEF NonceInv

\* With one signature to give, or two signers, and locks that outlast their
\* use, the open and minted mints of a recipient have distinct nonces, for any
\* documents, crashes, failing calls and limits.
THEOREM NoncesStayDistinct ==
    ASSUME NoLateSigner
    PROVE  Spec => []NoncesDistinct
<1>1. NonceInv /\ [Next]_vars => NonceInv'
  BY NonceStep
<1>2. NonceInv => NoncesDistinct
  BY DEF NonceInv
<1> QED
  BY <1>1, <1>2, InitNonce, PTL DEF Spec

\* There a mint is recorded as successful only when it was minted.
THEOREM SuccessMintedUnlessLate ==
    ASSUME NoLateSigner
    PROVE  Spec => []SuccessIsMinted
BY NoncesStayDistinct, SuccessAlwaysMinted, PTL

\* There no cursor of an executor passes an event that is not recorded.
THEOREM CursorSettledUnlessLate ==
    ASSUME NoLateSigner
    PROVE  Spec => []CursorIsSettled
BY NoncesStayDistinct, CursorAlwaysSettled, PTL

\* There Mints implements the abstract token.
THEOREM WrappedUnlessLate ==
    ASSUME NoLateSigner
    PROVE  Spec => WrappedSpec
BY NoncesStayDistinct, WrappedImplemented, PTL

=============================================================================
