------------------------ MODULE MonitorsSafetyProofs ------------------------
(***************************************************************************)
(* No cursor of a monitor, nor one in a health document, passes a deposit  *)
(* that is not filed or a burn event that is not stored: for any number of *)
(* validators, deposits, events, pages, crashes and reorganisations.  And  *)
(* no deposit is both minted and refunded, if one validator monitors the   *)
(* deposits or all of them have the same settings.                         *)
(***************************************************************************)
EXTENDS MonitorsProofs

-----------------------------------------------------------------------------
(* Deposits *)

\* The set "filed" has every deposit up to height c.
FiledUpTo(c, paid, filed) ==
    \A d \in Deposits : paid[d] # Nil /\ paid[d] <= c => d \in filed

\* A height a mint monitor may begin at.
GoodHeight(c, height, paid, filed) ==
    c \in Nat /\ 1 <= c /\ c <= height /\ FiledUpTo(c, paid, filed)

\* Every deposit of the heights from..to is in the set.
AllSeen(from, to, paid, seen) ==
    \A d \in Deposits : paid[d] # Nil /\ from <= paid[d] /\ paid[d] <= to => d \in seen

\* What holds of a mint monitor at any time.
MintGood(m, height, paid, filed) ==
    /\ GoodHeight(m.start, height, paid, filed)
    /\ m.status # Nil => GoodHeight(m.status, height, paid, filed)
    /\ m.current <= height
    /\ m.pc = "run" => m.todo = {}
    /\ m.pc # "run" => m.start < m.current
    /\ m.pc = "query" => m.page >= 1 /\ (m.page - 1) * PageSize <= Cardinality(m.todo)
    /\ (m.pc = "txs" \/ m.pc = "insert") /\ m.success =>
           AllSeen(m.start, m.current, paid, filed \cup m.todo)

\* Deposits are paid after the first height, and up to the current one.
PaidInv ==
    /\ FirstHeight <= poktHeight
    /\ \A d \in Deposits : paidAt[d] # Nil => FirstHeight < paidAt[d] /\ paidAt[d] <= poktHeight

GoodMints ==
    \A v \in Validators :
        /\ MintGood(mintMonitor[v], poktHeight, paidAt, Filed)
        /\ health[v]["mint"] # Nil => GoodHeight(health[v]["mint"], poktHeight, paidAt, Filed)

DepositInv == TypeInv /\ PaidInv /\ GoodMints

\* The chain goes from one height to another.
ChainGrows(height, paid, height2, paid2) ==
    /\ height \in Nat /\ height2 \in Nat /\ height <= height2
    /\ paid \in [Deposits -> Nat \cup {Nil}] /\ paid2 \in [Deposits -> Nat \cup {Nil}]
    /\ \A d \in Deposits : paid2[d] = paid[d] \/ paid2[d] = Nil \/ height < paid2[d]

\* A good height stays good while the chain and the collections grow.
LEMMA GoodHeightGrows ==
    ASSUME NEW height, NEW paid, NEW height2, NEW paid2, NEW X, NEW Y, X \subseteq Y,
           ChainGrows(height, paid, height2, paid2),
           NEW c, GoodHeight(c, height, paid, X)
    PROVE  GoodHeight(c, height2, paid2, Y)
BY NilAssumption DEF ChainGrows, GoodHeight, FiledUpTo

\* And so does a good monitor.
LEMMA MintGoodGrows ==
    ASSUME NEW height, NEW paid, NEW height2, NEW paid2, NEW X, NEW Y, X \subseteq Y,
           ChainGrows(height, paid, height2, paid2),
           NEW m \in MintMonitorState, MintGood(m, height, paid, X)
    PROVE  MintGood(m, height2, paid2, Y)
<1>1. GoodHeight(m.start, height2, paid2, Y)
  BY GoodHeightGrows DEF MintGood
<1>2. m.status # Nil => GoodHeight(m.status, height2, paid2, Y)
  BY GoodHeightGrows DEF MintGood
<1>3. m.current \in Nat /\ m.current <= height /\ m.start \in Nat
  BY DEF MintGood, MintMonitorState
<1>4. m.current <= height2
  BY <1>3 DEF ChainGrows
<1>5. ASSUME m.pc = "txs" \/ m.pc = "insert", m.success
      PROVE  AllSeen(m.start, m.current, paid2, Y \cup m.todo)
  <2>1. AllSeen(m.start, m.current, paid, X \cup m.todo)
    BY <1>5 DEF MintGood
  <2> QED
    BY <1>3, <2>1, NilAssumption DEF AllSeen, ChainGrows
<1> QED
  BY <1>1, <1>2, <1>4, <1>5 DEF MintGood

\* A step that changes no mint monitor keeps all of them good.
LEMMA GoodMintsFrame ==
    ASSUME DepositInv, ChainGrows(poktHeight, paidAt, poktHeight', paidAt'),
           Filed \subseteq Filed', mintMonitor' = mintMonitor, health' = health
    PROVE  GoodMints'
<1> SUFFICES ASSUME NEW v \in Validators
             PROVE  /\ MintGood(mintMonitor[v], poktHeight', paidAt', Filed')
                    /\ health[v]["mint"] # Nil =>
                           GoodHeight(health[v]["mint"], poktHeight', paidAt', Filed')
  BY DEF GoodMints
<1>1. mintMonitor[v] \in MintMonitorState
  BY DEF DepositInv, TypeInv, TypeOK
<1>2. /\ MintGood(mintMonitor[v], poktHeight, paidAt, Filed)
      /\ health[v]["mint"] # Nil => GoodHeight(health[v]["mint"], poktHeight, paidAt, Filed)
  BY DEF DepositInv, GoodMints
<1>3. MintGood(mintMonitor[v], poktHeight', paidAt', Filed')
  BY <1>1, <1>2, MintGoodGrows
<1> QED
  BY <1>2, <1>3, GoodHeightGrows

\* Neither does one that gives one monitor a good state.
LEMMA GoodMintsStep ==
    ASSUME DepositInv, UNCHANGED <<poktHeight, paidAt, health>>, Filed \subseteq Filed',
           NEW v \in Validators, NEW m \in MintMonitorState, MintStepTo(v, m),
           MintGood(m, poktHeight, paidAt, Filed')
    PROVE  GoodMints'
<1>1. ChainGrows(poktHeight, paidAt, poktHeight, paidAt)
  BY DEF DepositInv, TypeInv, TypeOK, ChainGrows
<1>2. mintMonitor' = [mintMonitor EXCEPT ![v] = m]
  BY DEF MintStepTo
<1> SUFFICES ASSUME NEW u \in Validators
             PROVE  /\ MintGood(mintMonitor'[u], poktHeight, paidAt, Filed')
                    /\ health[u]["mint"] # Nil =>
                           GoodHeight(health[u]["mint"], poktHeight, paidAt, Filed')
  BY DEF GoodMints
<1>3. mintMonitor[u] \in MintMonitorState /\ mintMonitor \in [Validators -> MintMonitorState]
  BY DEF DepositInv, TypeInv, TypeOK
<1>4. /\ MintGood(mintMonitor[u], poktHeight, paidAt, Filed)
      /\ health[u]["mint"] # Nil => GoodHeight(health[u]["mint"], poktHeight, paidAt, Filed)
  BY DEF DepositInv, GoodMints
<1>5. MintGood(mintMonitor[u], poktHeight, paidAt, Filed')
  BY <1>1, <1>3, <1>4, MintGoodGrows
<1>6. MintGood(mintMonitor'[u], poktHeight, paidAt, Filed')
  BY <1>2, <1>3, <1>5
<1> QED
  BY <1>1, <1>4, <1>6, GoodHeightGrows

-----------------------------------------------------------------------------
(* The steps of a mint monitor *)

\* A pass begins at the cursor, with nothing left of the last pass.
LEMMA UpdateCurrentHeightGood ==
    ASSUME DepositInv, NEW v \in Validators, UpdateCurrentHeight(v), health' = health
    PROVE  GoodMints'
<1> DEFINE old == mintMonitor[v]
<1>1. TypeOK /\ old \in MintMonitorState /\ poktHeight \in Nat
  BY DEF DepositInv, TypeInv, TypeOK
<1>2. PICK m \in MintMonitorState, current \in {poktHeight, old.current} :
          /\ MintStepTo(v, m)
          /\ m.start = old.start /\ m.current = current
          /\ \/ /\ m.pc = "query" /\ m.start < current
                /\ m.page = 1 /\ m.success = TRUE
                /\ m.status = old.status /\ m.todo = old.todo
             \/ m.pc = "run" /\ m.status = m.start /\ m.todo = {}
  BY <1>1, UpdateCurrentHeightTo
<1>3. MintGood(old, poktHeight, paidAt, Filed) /\ old.pc = "run"
  BY DEF DepositInv, GoodMints, UpdateCurrentHeight
<1>4. /\ GoodHeight(m.start, poktHeight, paidAt, Filed)
      /\ m.current <= poktHeight /\ old.todo = {}
  BY <1>1, <1>2, <1>3 DEF MintGood
<1>5. Cardinality({}) = 0
  BY FS_EmptySet
<1>6. (1 - 1) * PageSize <= 0
  BY PagesAssumption
<1>7. MintGood(m, poktHeight, paidAt, Filed)
  <2>1. CASE /\ m.pc = "query" /\ m.page = 1 /\ m.status = old.status
             /\ m.todo = old.todo /\ m.start < m.current
    BY <1>3, <1>4, <1>5, <1>6, <2>1 DEF MintGood
  <2>2. CASE m.pc = "run" /\ m.status = m.start /\ m.todo = {}
    BY <1>4, <2>2 DEF MintGood
  <2> QED
    BY <1>2, <2>1, <2>2
<1>8. UNCHANGED <<poktHeight, paidAt>> /\ Filed' = Filed
  BY DEF UpdateCurrentHeight, mintChainVars, Filed
<1> QED
  BY <1>2, <1>7, <1>8, GoodMintsStep

\* A page that is not the last one has as many transactions as a page holds.
LEMMA PagesAdd ==
    ASSUME NEW todo, IsFiniteSet(todo), NEW page, IsFiniteSet(page), todo \cap page = {},
           Cardinality(page) = PageSize,
           NEW n \in Nat, n >= 1, (n - 1) * PageSize <= Cardinality(todo)
    PROVE  n * PageSize <= Cardinality(todo \cup page)
<1>1. Cardinality(todo \cup page) = Cardinality(todo) + Cardinality(page) - Cardinality(todo \cap page)
  BY FS_Union
<1>2. Cardinality(todo \cap page) = 0
  BY FS_EmptySet
<1>3. Cardinality(todo) \in Nat
  BY FS_CardinalityType
<1>4. n * PageSize = (n - 1) * PageSize + PageSize
  BY PagesAssumption
<1> QED
  BY <1>1, <1>2, <1>3, <1>4, PagesAssumption

\* After the last page every deposit from the cursor on was seen, as the
\* node does not have more pages than getTxsByEvents asks for.
LEMMA QueryPageGood ==
    ASSUME DepositInv, NEW v \in Validators, QueryPage(v), health' = health,
           IsFiniteSet(Deposits), Cardinality(Deposits) <= MaxPageDepth * PageSize
    PROVE  GoodMints'
<1> DEFINE old == mintMonitor[v]
<1>1. TypeOK /\ old \in MintMonitorState
  BY DEF DepositInv, TypeInv, TypeOK
<1>2. PICK m \in MintMonitorState, page \in SUBSET Remaining(v) :
          /\ MintStepTo(v, m)
          /\ IsPage(page, Remaining(v))
          /\ m.pc = (IF LastPage(v, page) THEN "txs" ELSE "query")
          /\ m.page = old.page + 1
          /\ m.todo = old.todo \cup page
          /\ m.start = old.start /\ m.current = old.current
          /\ m.status = old.status /\ m.success = old.success
  BY <1>1, QueryPageTo
<1>3. MintGood(old, poktHeight, paidAt, Filed) /\ old.pc = "query"
  BY DEF DepositInv, GoodMints, QueryPage
<1>4. /\ old.todo \subseteq Deposits /\ page \subseteq Deposits
      /\ old.todo \cap page = {} /\ old.page \in Nat
  BY <1>1, <1>2 DEF Remaining, MintMonitorState
<1>5. IsFiniteSet(old.todo) /\ IsFiniteSet(page)
  BY <1>4, FS_Subset
<1>6. /\ old.page >= 1 /\ (old.page - 1) * PageSize <= Cardinality(old.todo)
  BY <1>3 DEF MintGood
<1>7. page = Remaining(v) \/ Cardinality(page) = PageSize
  BY <1>2 DEF IsPage
<1>8. ASSUME page # Remaining(v)
      PROVE  old.page * PageSize <= Cardinality(m.todo)
  BY <1>2, <1>4, <1>5, <1>6, <1>7, <1>8, PagesAdd
<1>9. ASSUME ~LastPage(v, page)
      PROVE  /\ m.pc = "query" /\ m.page >= 1
             /\ (m.page - 1) * PageSize <= Cardinality(m.todo)
  <2>1. page # Remaining(v) /\ m.pc = "query"
    BY <1>2, <1>9 DEF LastPage
  <2>2. m.page >= 1 /\ m.page - 1 = old.page
    BY <1>2, <1>4
  <2> QED
    BY <1>8, <2>1, <2>2
<1>10. ASSUME LastPage(v, page)
       PROVE  m.pc = "txs" /\ AllSeen(m.start, m.current, paidAt, Filed \cup m.todo)
  <2>1. m.pc = "txs"
    BY <1>2, <1>10
  <2>2. CASE page = Remaining(v)
    BY <1>2, <2>1, <2>2 DEF AllSeen, Remaining
  <2>3. CASE page # Remaining(v)
    <3>1. old.page * PageSize <= Cardinality(m.todo)
      BY <1>8, <2>3
    <3>2. Cardinality(page) = PageSize
      BY <1>7, <2>3
    <3>3. page # {}
      BY <3>2, FS_EmptySet, PagesAssumption
    <3>4. old.page >= MaxPageDepth
      BY <1>10, <2>3, <3>3 DEF LastPage
    <3>5. MaxPageDepth * PageSize <= old.page * PageSize
      BY <1>4, <3>4, PagesAssumption
    <3>6. m.todo \subseteq Deposits
      BY <1>2, <1>4
    <3>7. /\ IsFiniteSet(m.todo) /\ Cardinality(m.todo) <= Cardinality(Deposits)
          /\ Cardinality(Deposits) = Cardinality(m.todo) <=> Deposits = m.todo
      BY <3>6, FS_Subset
    <3>8. /\ Cardinality(m.todo) \in Nat /\ Cardinality(Deposits) \in Nat
          /\ old.page * PageSize \in Nat /\ MaxPageDepth * PageSize \in Nat
      BY <1>4, <3>7, FS_CardinalityType, PagesAssumption
    <3>9. Cardinality(Deposits) = Cardinality(m.todo)
      <4> DEFINE a == Cardinality(Deposits)
                 b == Cardinality(m.todo)
                 c == old.page * PageSize
                 e == MaxPageDepth * PageSize
      <4>1. a \in Nat /\ b \in Nat /\ c \in Nat /\ e \in Nat
        BY <3>8
      <4>2. b <= a /\ c <= b /\ e <= c /\ a <= e
        BY <3>1, <3>5, <3>7
      <4> HIDE DEF a, b, c, e
      <4>3. a = b
        BY <4>1, <4>2
      <4> QED
        BY <4>3 DEF a, b
    <3>10. Deposits = m.todo
      BY <3>7, <3>9
    <3> QED
      BY <2>1, <3>10 DEF AllSeen
  <2> QED
    BY <2>2, <2>3
<1>11. MintGood(m, poktHeight, paidAt, Filed)
  <2>1. CASE LastPage(v, page)
    BY <1>2, <1>3, <1>10, <2>1 DEF MintGood
  <2>2. CASE ~LastPage(v, page)
    BY <1>2, <1>3, <1>9, <2>2 DEF MintGood
  <2> QED
    BY <2>1, <2>2
<1>12. UNCHANGED <<poktHeight, paidAt>> /\ Filed' = Filed
  BY DEF QueryPage, mintChainVars, Filed
<1> QED
  BY <1>2, <1>11, <1>12, GoodMintsStep

\* A pass that ends without moving the cursor.
LEMMA QueryTxsFailsGood ==
    ASSUME DepositInv, NEW v \in Validators, QueryTxsFails(v), health' = health
    PROVE  GoodMints'
<1> DEFINE old == mintMonitor[v]
<1>1. TypeOK /\ MintGood(old, poktHeight, paidAt, Filed)
  BY DEF DepositInv, TypeInv, GoodMints
<1>2. PICK m \in MintMonitorState :
          /\ MintStepTo(v, m)
          /\ m.pc = "run" /\ m.start = old.start /\ m.current = old.current
          /\ m.status = m.start /\ m.todo = {}
  BY <1>1, QueryTxsFailsTo
<1>3. MintGood(m, poktHeight, paidAt, Filed)
  BY <1>1, <1>2 DEF MintGood
<1>4. UNCHANGED <<poktHeight, paidAt>> /\ Filed' = Filed
  BY DEF QueryTxsFails, mintChainVars, Filed
<1> QED
  BY <1>2, <1>3, <1>4, GoodMintsStep

\* A deposit is passed over only if it is in the other collection.
LEMMA FindElsewhereGood ==
    ASSUME DepositInv, NEW v \in Validators, NEW d \in Deposits, FindElsewhere(v, d),
           health' = health
    PROVE  GoodMints'
<1> DEFINE old == mintMonitor[v]
<1>1. TypeOK /\ MintGood(old, poktHeight, paidAt, Filed)
  BY DEF DepositInv, TypeInv, GoodMints
<1>2. PICK m \in MintMonitorState :
          /\ MintStepTo(v, m)
          /\ d \in old.todo
          /\ \/ FoundElsewhere(v, d) /\ m.pc = "txs" /\ m.todo = old.todo \ {d}
             \/ m.pc = "insert" /\ m.tx = d /\ m.todo = old.todo
          /\ m.start = old.start /\ m.current = old.current
          /\ m.status = old.status /\ m.success = old.success
  BY <1>1, FindElsewhereTo
<1>3. old.pc = "txs"
  BY DEF FindElsewhere
<1>4. Filed \cup old.todo \subseteq Filed \cup m.todo
  BY <1>2 DEF FoundElsewhere, Filed
<1>5. m.success => AllSeen(m.start, m.current, paidAt, Filed \cup m.todo)
  BY <1>1, <1>2, <1>3, <1>4 DEF MintGood, AllSeen
<1>6. m.pc = "txs" \/ m.pc = "insert"
  BY <1>2
<1>7. MintGood(m, poktHeight, paidAt, Filed)
  BY <1>1, <1>2, <1>5, <1>6 DEF MintGood
<1>8. UNCHANGED <<poktHeight, paidAt>> /\ Filed' = Filed
  BY DEF FindElsewhere, mintChainVars, Filed
<1> QED
  BY <1>2, <1>7, <1>8, GoodMintsStep

\* An insertion that fails is remembered until the end of the pass.
LEMMA InsertDepositGood ==
    ASSUME DepositInv, NEW v \in Validators, InsertDeposit(v), health' = health
    PROVE  GoodMints'
<1> DEFINE old == mintMonitor[v]
<1>1. TypeInv /\ MintGood(old, poktHeight, paidAt, Filed)
  BY DEF DepositInv, GoodMints
<1>2. PICK m \in MintMonitorState, ok \in BOOLEAN :
          /\ MintStepTo(v, m)
          /\ old.pc = "insert"
          /\ m.pc = "txs" /\ m.todo = old.todo \ {old.tx}
          /\ m.start = old.start /\ m.current = old.current /\ m.status = old.status
          /\ m.success = (old.success /\ ok)
          /\ mints' \cup invalidMints' =
                 mints \cup invalidMints \cup (IF ok THEN {old.tx} ELSE {})
  BY <1>1, InsertDepositTo
<1>3. Filed \subseteq Filed'
  BY <1>2 DEF Filed
<1>4. ASSUME m.success
      PROVE  AllSeen(m.start, m.current, paidAt, Filed' \cup m.todo)
  <2>1. old.success /\ ok
    BY <1>2, <1>4
  <2>2. Filed \cup old.todo \subseteq Filed' \cup m.todo
    BY <1>2, <2>1 DEF Filed
  <2>3. AllSeen(old.start, old.current, paidAt, Filed \cup old.todo)
    BY <1>1, <1>2, <2>1 DEF MintGood
  <2> QED
    BY <1>2, <2>2, <2>3 DEF AllSeen
<1>5. ChainGrows(poktHeight, paidAt, poktHeight, paidAt)
  BY DEF DepositInv, TypeInv, TypeOK, ChainGrows
<1>6. /\ GoodHeight(m.start, poktHeight, paidAt, Filed')
      /\ m.status # Nil => GoodHeight(m.status, poktHeight, paidAt, Filed')
      /\ m.current <= poktHeight /\ m.start < m.current
  BY <1>1, <1>2, <1>3, <1>5, GoodHeightGrows DEF MintGood
<1>7. MintGood(m, poktHeight, paidAt, Filed')
  BY <1>2, <1>4, <1>6 DEF MintGood
<1>8. UNCHANGED <<poktHeight, paidAt>>
  BY DEF InsertDeposit, mintChainVars
<1> QED
  BY <1>2, <1>3, <1>7, <1>8, GoodMintsStep

\* The cursor moves to the current height only after a pass without errors.
LEMMA FinishTxsGood ==
    ASSUME DepositInv, NEW v \in Validators, FinishTxs(v), health' = health
    PROVE  GoodMints'
<1> DEFINE old == mintMonitor[v]
<1>1. /\ TypeOK /\ MintGood(old, poktHeight, paidAt, Filed)
      /\ old \in MintMonitorState
  BY DEF DepositInv, TypeInv, TypeOK, GoodMints
<1>2. PICK m \in MintMonitorState :
          /\ MintStepTo(v, m)
          /\ old.pc = "txs" /\ old.todo = {}
          /\ m.pc = "run"
          /\ m.start = (IF old.success THEN old.current ELSE old.start)
          /\ m.current = old.current /\ m.status = m.start /\ m.todo = {}
  BY <1>1, FinishTxsTo
<1>3. GoodHeight(m.start, poktHeight, paidAt, Filed)
  <2>1. CASE ~old.success
    BY <1>1, <1>2, <2>1 DEF MintGood
  <2>2. CASE old.success
    <3>1. m.start = old.current /\ AllSeen(old.start, old.current, paidAt, Filed)
      BY <1>1, <1>2, <2>2 DEF MintGood
    <3>2. GoodHeight(old.start, poktHeight, paidAt, Filed) /\ old.current <= poktHeight
      BY <1>1 DEF MintGood
    <3>3. old.start < old.current
      BY <1>1, <1>2 DEF MintGood
    <3>4. \A d \in Deposits : paidAt[d] = Nil \/ paidAt[d] \in Nat
      BY <1>1 DEF TypeOK
    <3>5. FiledUpTo(old.current, paidAt, Filed)
      BY <1>1, <3>1, <3>2, <3>4 DEF GoodHeight, FiledUpTo, AllSeen, MintMonitorState
    <3> QED
      BY <1>1, <3>1, <3>2, <3>3, <3>5 DEF GoodHeight, MintMonitorState
  <2> QED
    BY <2>1, <2>2
<1>4. m.current <= poktHeight
  BY <1>1, <1>2 DEF MintGood
<1>5. MintGood(m, poktHeight, paidAt, Filed)
  BY <1>2, <1>3, <1>4 DEF MintGood
<1>6. UNCHANGED <<poktHeight, paidAt>> /\ Filed' = Filed
  BY DEF FinishTxs, mintChainVars, Filed
<1> QED
  BY <1>2, <1>5, <1>6, GoodMintsStep

-----------------------------------------------------------------------------
(* The other steps, and the theorem *)

\* The configured height is one the chain had before the first deposit.
StartsEarly == StartHeight >= 1 /\ StartHeight <= FirstHeight

\* A mint monitor made anew at a good cursor, or at the configured one.
LEMMA NewMintMonitorGood ==
    ASSUME DepositInv, StartsEarly, NEW v \in Validators,
           NEW h \in {poktHeight, 0}, NEW disabled \in BOOLEAN
    PROVE  MintGood(NewMintMonitor(LastHealth(v)["mint"], h, disabled),
                    poktHeight, paidAt, Filed)
<1> DEFINE last == LastHealth(v)["mint"]
           start == FirstCursor(last, StartHeight, h)
<1>1. /\ TypeOK /\ poktHeight \in Nat
      /\ paidAt \in [Deposits -> Nat \cup {Nil}]
      /\ health[v]["mint"] \in Nat \cup {Nil}
  BY DEF DepositInv, TypeInv, TypeOK, Cursors, Services
<1>2. last # Nil => GoodHeight(last, poktHeight, paidAt, Filed)
  BY DEF DepositInv, GoodMints, LastHealth, NoCursors, Services
<1>3. start = IF last # Nil THEN last ELSE StartHeight
  BY <1>2, StartAssumption DEF FirstCursor, StartsEarly, GoodHeight
<1>4. GoodHeight(StartHeight, poktHeight, paidAt, Filed)
  <2>1. FirstHeight <= poktHeight /\ FirstHeight \in Nat
    BY FirstAssumption DEF DepositInv, PaidInv
  <2>2. StartHeight <= poktHeight
    BY <1>1, <2>1, StartAssumption DEF StartsEarly
  <2>3. ASSUME NEW d \in Deposits, paidAt[d] # Nil PROVE ~(paidAt[d] <= StartHeight)
    BY <1>1, <2>1, <2>3, StartAssumption DEF DepositInv, PaidInv, StartsEarly
  <2> QED
    BY <2>2, <2>3, StartAssumption DEF GoodHeight, FiledUpTo, StartsEarly
<1>5. GoodHeight(start, poktHeight, paidAt, Filed)
  BY <1>2, <1>3, <1>4
<1>6. h <= poktHeight
  BY <1>1
<1> HIDE DEF start, last
<1> DEFINE m == [ pc |-> "run", start |-> start,
      current |-> h, maximum |-> limit, disabled |-> disabled, page |-> 1,
      todo |-> {}, tx |-> Nil, success |-> TRUE, status |-> Nil ]
<1>7. /\ m.pc = "run" /\ m.start = start /\ m.current = h
      /\ m.todo = {} /\ m.status = Nil
  OBVIOUS
<1>8. NewMintMonitor(last, h, disabled) = m
  BY DEF NewMintMonitor, start
<1> HIDE DEF m
<1>9. MintGood(m, poktHeight, paidAt, Filed)
  BY <1>5, <1>6, <1>7 DEF MintGood
<1> QED
  BY <1>8, <1>9 DEF last

\* At first nothing is paid, and every monitor begins at StartHeight.
LEMMA DepositInvInit == ASSUME StartsEarly PROVE Init => DepositInv
<1> SUFFICES ASSUME Init PROVE DepositInv
  OBVIOUS
<1>1. TypeInv
  BY InitTypes
<1>2. poktHeight = FirstHeight /\ FirstHeight \in Nat /\ \A d \in Deposits : paidAt[d] = Nil
  BY FirstAssumption DEF Init
<1>3. PaidInv
  BY <1>2 DEF PaidInv
<1>4. \A v \in Validators : health[v]["mint"] = Nil
  BY DEF Init, NoCursors, Services
<1>5. GoodHeight(StartHeight, poktHeight, paidAt, Filed)
  BY <1>2, StartAssumption DEF GoodHeight, FiledUpTo, StartsEarly
<1>6. ASSUME NEW v \in Validators
      PROVE  MintGood(mintMonitor[v], poktHeight, paidAt, Filed)
  <2>1. PICK disabled : mintMonitor[v] = NewMintMonitor(Nil, FirstHeight, disabled)
    BY DEF Init
  <2>2. FirstCursor(Nil, StartHeight, FirstHeight) = StartHeight
    BY StartAssumption DEF FirstCursor, StartsEarly
  <2>3. /\ mintMonitor[v].pc = "run" /\ mintMonitor[v].start = StartHeight
        /\ mintMonitor[v].current = FirstHeight
        /\ mintMonitor[v].todo = {} /\ mintMonitor[v].status = Nil
    BY <2>1, <2>2 DEF NewMintMonitor
  <2> QED
    BY <1>2, <1>5, <2>3 DEF MintGood
<1> QED
  BY <1>1, <1>3, <1>4, <1>6 DEF DepositInv, GoodMints

\* Every step keeps the monitors good.
LEMMA DepositInvNext ==
    ASSUME StartsEarly, IsFiniteSet(Deposits),
           Cardinality(Deposits) <= MaxPageDepth * PageSize
    PROVE  DepositInv /\ [Next]_vars => DepositInv'
<1> SUFFICES ASSUME DepositInv, [Next]_vars PROVE DepositInv'
  OBVIOUS
<1> USE DEF StartsEarly
<1>1. /\ TypeInv /\ TypeOK /\ PaidInv /\ TypeInv' /\ TypeOK'
  BY NextTypes DEF DepositInv, TypeInv
<1>2. /\ poktHeight \in Nat /\ paidAt \in [Deposits -> Nat \cup {Nil}]
      /\ poktHeight' \in Nat /\ paidAt' \in [Deposits -> Nat \cup {Nil}]
  BY <1>1 DEF TypeOK
<1>3. ASSUME UNCHANGED <<poktHeight, paidAt>>
      PROVE  PaidInv' /\ ChainGrows(poktHeight, paidAt, poktHeight', paidAt')
  BY <1>1, <1>2, <1>3 DEF PaidInv, ChainGrows
<1>4. ASSUME NEW v \in MintMonitors, MintMonitorStep(v)
      PROVE  PaidInv' /\ GoodMints'
  <2>1. v \in Validators /\ health' = health
    BY <1>4, MonitorsAssumption DEF MintMonitorStep
  <2>2. UNCHANGED <<poktHeight, paidAt>>
    BY <1>4 DEF MintMonitorStep, MintMonitorNext, UpdateCurrentHeight, QueryPage,
       QueryTxsFails, FindElsewhere, InsertDeposit, FinishTxs, mintChainVars
  <2>3. GoodMints'
    BY <1>4, <2>1, UpdateCurrentHeightGood, QueryPageGood, QueryTxsFailsGood,
       FindElsewhereGood, InsertDepositGood, FinishTxsGood
       DEF MintMonitorStep, MintMonitorNext
  <2> QED
    BY <1>3, <2>2, <2>3
<1>5. ASSUME NEW v \in BurnMonitors, BurnMonitorStep(v)
      PROVE  PaidInv' /\ GoodMints'
  <2>1. UNCHANGED <<poktHeight, paidAt, mintMonitor, health>> /\ Filed' = Filed
    BY <1>5 DEF BurnMonitorStep, Filed
  <2> QED
    BY <1>3, <2>1, GoodMintsFrame
<1>6. ASSUME NEW v \in Validators, PostHealth(v)
      PROVE  PaidInv' /\ GoodMints'
  <2>1. UNCHANGED <<poktHeight, paidAt, mintMonitor>> /\ Filed' = Filed
    BY <1>6 DEF PostHealth, chainVars, Filed
  <2>2. health' = [health EXCEPT ![v] = ServiceHealths(v)]
    BY <1>6 DEF PostHealth
  <2>3. ServiceHealths(v)["mint"] \in {mintMonitor[v].status, Nil}
    BY DEF ServiceHealths, Services
  <2>4. ASSUME NEW u \in Validators, health'[u]["mint"] # Nil
        PROVE  GoodHeight(health'[u]["mint"], poktHeight, paidAt, Filed)
    <3>1. CASE u = v
      <4>1. health'[u]["mint"] = mintMonitor[v].status
        BY <1>1, <2>2, <2>3, <2>4, <3>1 DEF TypeOK
      <4> QED
        BY <2>4, <4>1 DEF DepositInv, GoodMints, MintGood
    <3>2. CASE u # v
      BY <1>1, <2>2, <2>4, <3>2 DEF DepositInv, GoodMints, TypeOK
    <3> QED
      BY <3>1, <3>2
  <2> QED
    BY <1>3, <2>1, <2>4 DEF DepositInv, GoodMints
<1>7. ASSUME NEW v \in Validators, Crash(v)
      PROVE  PaidInv' /\ GoodMints'
  <2>1. UNCHANGED <<poktHeight, paidAt, health>> /\ Filed' = Filed
    BY <1>7 DEF Crash, chainVars, dbVars, Filed
  <2>2. PICK disabled \in BOOLEAN, h \in {poktHeight, 0} :
            /\ MintStepTo(v, NewMintMonitor(LastHealth(v)["mint"], h, disabled))
            /\ NewMintMonitor(LastHealth(v)["mint"], h, disabled) \in MintMonitorState
    BY <1>1, <1>7, CrashTo
  <2>3. MintGood(NewMintMonitor(LastHealth(v)["mint"], h, disabled), poktHeight, paidAt, Filed)
    BY NewMintMonitorGood
  <2>4. PICK m \in MintMonitorState : m = NewMintMonitor(LastHealth(v)["mint"], h, disabled)
    BY <2>2
  <2>5. MintStepTo(v, m) /\ MintGood(m, poktHeight, paidAt, Filed')
    BY <2>1, <2>2, <2>3, <2>4
  <2> QED
    BY <1>3, <2>1, <2>5, GoodMintsStep
<1>8. ASSUME NEW new \in SUBSET Deposits, PocketBlock(new)
      PROVE  PaidInv' /\ GoodMints'
  <2>1. /\ UNCHANGED <<mintMonitor, health>> /\ Filed' = Filed
        /\ poktHeight' = poktHeight + 1
        /\ paidAt' = [d \in Deposits |-> IF d \in new THEN poktHeight + 1 ELSE paidAt[d]]
    BY <1>8 DEF PocketBlock, dbVars, Filed
  <2>2. ChainGrows(poktHeight, paidAt, poktHeight', paidAt')
    BY <1>2, <2>1 DEF ChainGrows
  <2>3. PaidInv'
    BY <1>1, <1>2, <2>1, FirstAssumption DEF PaidInv
  <2> QED
    BY <2>1, <2>2, <2>3, GoodMintsFrame
<1>9. ASSUME \/ \E new \in SUBSET BurnEvents : EthereumBlock(new) \/ Reorg(new)
             \/ \E l \in Limits : SetMintLimit(l)
             \/ UNCHANGED vars
      PROVE  PaidInv' /\ GoodMints'
  <2>1. UNCHANGED <<poktHeight, paidAt, mintMonitor, health>> /\ Filed' = Filed
    BY <1>9 DEF EthereumBlock, Reorg, SetMintLimit, vars, dbVars, chainVars, Filed
  <2> QED
    BY <1>3, <2>1, GoodMintsFrame
<1> QED
  BY <1>1, <1>4, <1>5, <1>6, <1>7, <1>8, <1>9 DEF Next, DepositInv

\* No cursor of a mint monitor passes a deposit that is in neither
\* collection (cosmos/monitor.go SyncTxs, app/health.go), if StartHeight is a
\* height before the first deposit and the node has no more transactions than
\* maxPageDepth pages hold: whatever fails, crashes and restarts.
THEOREM DepositsFiled ==
    ASSUME StartHeight >= 1, StartHeight <= FirstHeight, IsFiniteSet(Deposits),
           Cardinality(Deposits) <= MaxPageDepth * PageSize
    PROVE  Spec => []DepositsBehindCursorAreFiled
<1>1. Init => DepositInv
  BY DepositInvInit DEF StartsEarly
<1>2. DepositInv /\ [Next]_vars => DepositInv'
  BY DepositInvNext DEF StartsEarly
<1>3. DepositInv => DepositsBehindCursorAreFiled
  <2> SUFFICES ASSUME DepositInv, NEW v \in MintMonitors, NEW c \in MintCursors(v)
               PROVE  FiledUpTo(c, paidAt, Filed)
    BY DEF DepositsBehindCursorAreFiled, FiledUpTo
  <2>1. /\ MintGood(mintMonitor[v], poktHeight, paidAt, Filed)
        /\ health[v]["mint"] # Nil => GoodHeight(health[v]["mint"], poktHeight, paidAt, Filed)
    BY MonitorsAssumption DEF DepositInv, GoodMints
  <2>2. /\ c # Nil
        /\ c = mintMonitor[v].start \/ c = mintMonitor[v].status \/ c = health[v]["mint"]
    BY DEF MintCursors
  <2>3. GoodHeight(c, poktHeight, paidAt, Filed)
    BY <2>1, <2>2 DEF MintGood
  <2> QED
    BY <2>3 DEF GoodHeight
<1> QED
  BY <1>1, <1>2, <1>3, PTL DEF Spec

-----------------------------------------------------------------------------
(* Burns *)

\* The set "stored" has every event before block c; while no block was
\* replaced, that includes the events of block c.
StoredUpTo(c, burnt, calm, stored) ==
    \A b \in AboveFee :
        burnt[b] # Nil /\ (burnt[b] < c \/ (burnt[b] = c /\ calm)) => b \in stored

\* A block a burn monitor may begin at.
GoodBlock(c, block, burnt, calm, stored) ==
    c \in Nat /\ 1 <= c /\ c <= block /\ StoredUpTo(c, burnt, calm, stored)

\* What holds of a burn monitor at any time.
BurnGood(m, block, burnt, calm, stored) ==
    /\ GoodBlock(m.start, block, burnt, calm, stored)
    /\ m.status # Nil => GoodBlock(m.status, block, burnt, calm, stored)
    /\ m.current <= block
    /\ m.pc # "run" => m.start < m.current /\ m.from < m.current
    /\ m.pc = "query" /\ m.success => StoredUpTo(m.from, burnt, calm, stored)
    /\ m.pc = "events" /\ m.success =>
           StoredUpTo(RangeEnd(m.from, m.current), burnt, calm, stored \cup m.todo)

Calm == reorgs = 0

\* Events are in blocks after the first one, and up to the newest.
BurntInv ==
    /\ FirstBlock <= ethBlock
    /\ \A b \in BurnEvents : burnedAt[b] # Nil => FirstBlock < burnedAt[b] /\ burnedAt[b] <= ethBlock

GoodBurns ==
    \A v \in Validators :
        /\ BurnGood(burnMonitor[v], ethBlock, burnedAt, Calm, burns)
        /\ health[v]["burn"] # Nil => GoodBlock(health[v]["burn"], ethBlock, burnedAt, Calm, burns)

BurnInv == TypeInv /\ BurntInv /\ GoodBurns

\* The chain goes from one block to another, or replaces the newest.
BlocksGrow(block, burnt, calm, block2, burnt2, calm2) ==
    /\ block \in Nat /\ block2 \in Nat /\ block <= block2
    /\ burnt \in [BurnEvents -> Nat \cup {Nil}] /\ burnt2 \in [BurnEvents -> Nat \cup {Nil}]
    /\ calm2 => calm
    /\ \A b \in BurnEvents :
           \/ burnt2[b] = burnt[b] \/ burnt2[b] = Nil \/ block < burnt2[b]
           \/ ~calm2 /\ burnt2[b] = block

\* What is stored up to a block the chain has stays so.
LEMMA StoredGrows ==
    ASSUME NEW block, NEW burnt, NEW calm, NEW block2, NEW burnt2, NEW calm2,
           BlocksGrow(block, burnt, calm, block2, burnt2, calm2),
           NEW X, NEW Y, X \subseteq Y, NEW c \in Nat, c <= block, StoredUpTo(c, burnt, calm, X)
    PROVE  StoredUpTo(c, burnt2, calm2, Y)
<1> SUFFICES ASSUME NEW b \in AboveFee, burnt2[b] # Nil,
                    burnt2[b] < c \/ (burnt2[b] = c /\ calm2)
             PROVE  b \in Y
  BY DEF StoredUpTo
<1>1. /\ b \in BurnEvents /\ block \in Nat
      /\ burnt2[b] \in Nat
  BY BurnEventsAssumption DEF BlocksGrow
<1>2. ~(block < burnt2[b])
  BY <1>1
<1>3. ~(~calm2 /\ burnt2[b] = block)
  BY <1>1
<1>4. burnt2[b] = burnt[b]
  BY <1>1, <1>2, <1>3 DEF BlocksGrow
<1>5. calm2 => calm
  BY DEF BlocksGrow
<1>6. burnt[b] # Nil /\ (burnt[b] < c \/ (burnt[b] = c /\ calm))
  BY <1>4, <1>5
<1> QED
  BY <1>6 DEF StoredUpTo

\* A good block stays good while the chain and the collection grow.
LEMMA GoodBlockGrows ==
    ASSUME NEW block, NEW burnt, NEW calm, NEW block2, NEW burnt2, NEW calm2,
           BlocksGrow(block, burnt, calm, block2, burnt2, calm2),
           NEW X, NEW Y, X \subseteq Y, NEW c, GoodBlock(c, block, burnt, calm, X)
    PROVE  GoodBlock(c, block2, burnt2, calm2, Y)
<1>1. /\ c \in Nat /\ 1 <= c /\ c <= block /\ StoredUpTo(c, burnt, calm, X)
      /\ block \in Nat /\ block2 \in Nat /\ block <= block2
  BY DEF GoodBlock, BlocksGrow
<1>2. StoredUpTo(c, burnt2, calm2, Y)
  BY <1>1, StoredGrows
<1> QED
  BY <1>1, <1>2 DEF GoodBlock

\* The end of a range is not after the current block, nor before its start.
LEMMA RangeEndBounds ==
    ASSUME NEW from \in Nat, NEW current \in Nat, from < current
    PROVE  /\ RangeEnd(from, current) \in Nat /\ RangeEnd(from, current) <= current
           /\ from <= RangeEnd(from, current)
BY MaxQueryBlocksAssumption DEF RangeEnd

\* A good burn monitor stays good while the chain and the collection grow.
LEMMA BurnGoodGrows ==
    ASSUME NEW block, NEW burnt, NEW calm, NEW block2, NEW burnt2, NEW calm2,
           BlocksGrow(block, burnt, calm, block2, burnt2, calm2),
           NEW X, NEW Y, X \subseteq Y,
           NEW m \in BurnMonitorState, BurnGood(m, block, burnt, calm, X)
    PROVE  BurnGood(m, block2, burnt2, calm2, Y)
<1>1. /\ GoodBlock(m.start, block2, burnt2, calm2, Y)
      /\ m.status # Nil => GoodBlock(m.status, block2, burnt2, calm2, Y)
  BY GoodBlockGrows DEF BurnGood
<1>2. /\ m.current \in Nat /\ m.from \in Nat /\ m.current <= block
      /\ block \in Nat /\ block2 \in Nat /\ block <= block2
      /\ m.pc # "run" => m.start < m.current /\ m.from < m.current
  BY DEF BurnGood, BurnMonitorState, BlocksGrow
<1>3. ASSUME m.pc = "query", m.success
      PROVE  StoredUpTo(m.from, burnt2, calm2, Y)
  <2>1. StoredUpTo(m.from, burnt, calm, X) /\ m.from <= block
    BY <1>2, <1>3 DEF BurnGood
  <2> QED
    BY <1>2, <2>1, StoredGrows
<1>4. ASSUME m.pc = "events", m.success
      PROVE  StoredUpTo(RangeEnd(m.from, m.current), burnt2, calm2, Y \cup m.todo)
  <2>1. StoredUpTo(RangeEnd(m.from, m.current), burnt, calm, X \cup m.todo)
    BY <1>4 DEF BurnGood
  <2>2. RangeEnd(m.from, m.current) \in Nat /\ RangeEnd(m.from, m.current) <= m.current
    BY <1>2, <1>4, RangeEndBounds
  <2>3. RangeEnd(m.from, m.current) <= block
    BY <1>2, <2>2
  <2>4. X \cup m.todo \subseteq Y \cup m.todo
    OBVIOUS
  <2> QED
    BY <2>1, <2>2, <2>3, <2>4, StoredGrows
<1> QED
  BY <1>1, <1>2, <1>3, <1>4 DEF BurnGood

\* A step that changes no burn monitor keeps all of them good.
LEMMA GoodBurnsFrame ==
    ASSUME BurnInv, BlocksGrow(ethBlock, burnedAt, Calm, ethBlock', burnedAt', Calm'),
           burns \subseteq burns', burnMonitor' = burnMonitor, health' = health
    PROVE  GoodBurns'
<1> SUFFICES ASSUME NEW v \in Validators
             PROVE  /\ BurnGood(burnMonitor[v], ethBlock', burnedAt', Calm', burns')
                    /\ health[v]["burn"] # Nil =>
                           GoodBlock(health[v]["burn"], ethBlock', burnedAt', Calm', burns')
  BY DEF GoodBurns
<1>1. burnMonitor[v] \in BurnMonitorState
  BY DEF BurnInv, TypeInv, TypeOK
<1>2. /\ BurnGood(burnMonitor[v], ethBlock, burnedAt, Calm, burns)
      /\ health[v]["burn"] # Nil => GoodBlock(health[v]["burn"], ethBlock, burnedAt, Calm, burns)
  BY DEF BurnInv, GoodBurns
<1>3. BurnGood(burnMonitor[v], ethBlock', burnedAt', Calm', burns')
  BY <1>1, <1>2, BurnGoodGrows
<1> QED
  BY <1>2, <1>3, GoodBlockGrows

\* Neither does one that gives one monitor a good state.
LEMMA GoodBurnsStep ==
    ASSUME BurnInv, UNCHANGED <<ethBlock, burnedAt, reorgs, health>>, burns \subseteq burns',
           NEW v \in Validators, NEW m \in BurnMonitorState, BurnStepTo(v, m),
           BurnGood(m, ethBlock, burnedAt, Calm, burns')
    PROVE  GoodBurns'
<1>1. BlocksGrow(ethBlock, burnedAt, Calm, ethBlock, burnedAt, Calm)
  BY DEF BurnInv, TypeInv, TypeOK, BlocksGrow
<1>2. burnMonitor' = [burnMonitor EXCEPT ![v] = m]
  BY DEF BurnStepTo
<1>3. Calm' = Calm
  BY DEF Calm
<1> SUFFICES ASSUME NEW u \in Validators
             PROVE  /\ BurnGood(burnMonitor'[u], ethBlock, burnedAt, Calm, burns')
                    /\ health[u]["burn"] # Nil =>
                           GoodBlock(health[u]["burn"], ethBlock, burnedAt, Calm, burns')
  BY <1>3 DEF GoodBurns
<1>4. burnMonitor[u] \in BurnMonitorState /\ burnMonitor \in [Validators -> BurnMonitorState]
  BY DEF BurnInv, TypeInv, TypeOK
<1>5. /\ BurnGood(burnMonitor[u], ethBlock, burnedAt, Calm, burns)
      /\ health[u]["burn"] # Nil => GoodBlock(health[u]["burn"], ethBlock, burnedAt, Calm, burns)
  BY DEF BurnInv, GoodBurns
<1>6. BurnGood(burnMonitor[u], ethBlock, burnedAt, Calm, burns')
  BY <1>1, <1>4, <1>5, BurnGoodGrows
<1>7. BurnGood(burnMonitor'[u], ethBlock, burnedAt, Calm, burns')
  BY <1>2, <1>4, <1>6
<1> QED
  BY <1>1, <1>5, <1>7, GoodBlockGrows

-----------------------------------------------------------------------------
(* The steps of a burn monitor *)

\* A pass begins at the cursor.
LEMMA UpdateCurrentBlockNumberGood ==
    ASSUME BurnInv, NEW v \in Validators, UpdateCurrentBlockNumber(v),
           UNCHANGED <<reorgs, health>>
    PROVE  GoodBurns'
<1> DEFINE old == burnMonitor[v]
<1>1. /\ TypeOK /\ old \in BurnMonitorState /\ ethBlock \in Nat
      /\ BurnGood(old, ethBlock, burnedAt, Calm, burns)
  BY DEF BurnInv, TypeInv, TypeOK, GoodBurns
<1>2. PICK m \in BurnMonitorState, current \in {ethBlock, old.current} :
          /\ BurnStepTo(v, m)
          /\ m.start = old.start /\ m.current = current
          /\ \/ /\ m.pc = "query" /\ m.start < current
                /\ m.from = m.start /\ m.success = TRUE
                /\ m.status = old.status
             \/ m.pc = "run" /\ m.status = m.start
  BY <1>1, UpdateCurrentBlockNumberTo
<1>3. GoodBlock(m.start, ethBlock, burnedAt, Calm, burns) /\ m.current <= ethBlock
  BY <1>1, <1>2 DEF BurnGood
<1>4. StoredUpTo(m.start, burnedAt, Calm, burns)
  BY <1>3 DEF GoodBlock
<1>5. BurnGood(m, ethBlock, burnedAt, Calm, burns)
  <2>1. CASE /\ m.pc = "query" /\ m.start < m.current
             /\ m.from = m.start /\ m.status = old.status
    BY <1>1, <1>3, <1>4, <2>1 DEF BurnGood
  <2>2. CASE m.pc = "run" /\ m.status = m.start
    BY <1>3, <2>2 DEF BurnGood
  <2> QED
    BY <1>2, <2>1, <2>2
<1>6. UNCHANGED <<ethBlock, burnedAt, reorgs, health, burns>>
  BY DEF UpdateCurrentBlockNumber, burnChainVars
<1> QED
  BY <1>2, <1>5, <1>6, GoodBurnsStep

\* The filter of a range holds whatever is not stored yet up to its end.
LEMMA QueryBurnsGood ==
    ASSUME BurnInv, NEW v \in Validators, QueryBurns(v), UNCHANGED <<reorgs, health>>
    PROVE  GoodBurns'
<1> DEFINE old == burnMonitor[v]
<1>1. /\ TypeOK /\ old \in BurnMonitorState
      /\ BurnGood(old, ethBlock, burnedAt, Calm, burns)
  BY DEF BurnInv, TypeInv, TypeOK, GoodBurns
<1>2. PICK m \in BurnMonitorState :
          /\ BurnStepTo(v, m)
          /\ old.pc = "query" /\ m.pc = "events"
          /\ m.todo = FilterBurnAndBridge(m.from, RangeEnd(m.from, m.current))
          /\ m.start = old.start /\ m.current = old.current
          /\ m.from = old.from /\ m.status = old.status /\ m.success = old.success
  BY <1>1, QueryBurnsTo
<1>3. /\ m.from \in Nat /\ m.current \in Nat /\ m.from < m.current /\ m.start < m.current
      /\ m.success => StoredUpTo(m.from, burnedAt, Calm, burns)
  BY <1>1, <1>2 DEF BurnGood, BurnMonitorState
<1> DEFINE to == RangeEnd(m.from, m.current)
<1>4. to \in Nat
  BY <1>3, RangeEndBounds
<1>5. ASSUME m.success
      PROVE  StoredUpTo(to, burnedAt, Calm, burns \cup m.todo)
  <2>1. \A b \in AboveFee : b \in BurnEvents /\ (burnedAt[b] = Nil \/ burnedAt[b] \in Nat)
    BY <1>1, BurnEventsAssumption DEF TypeOK
  <2>2. StoredUpTo(m.from, burnedAt, Calm, burns)
    BY <1>3, <1>5
  <2>3. \A b \in BurnEvents : burnedAt[b] \in m.from .. to => b \in m.todo
    BY <1>2 DEF FilterBurnAndBridge
  <2> HIDE DEF to
  <2>4. ASSUME NEW b \in AboveFee, burnedAt[b] # Nil, burnedAt[b] <= to
        PROVE  b \in burns \cup m.todo
    <3>1. burnedAt[b] \in Nat /\ b \in BurnEvents
      BY <2>1, <2>4
    <3>2. CASE burnedAt[b] < m.from
      BY <2>2, <2>4, <3>2 DEF StoredUpTo
    <3>3. CASE ~(burnedAt[b] < m.from)
      BY <1>3, <1>4, <2>3, <2>4, <3>1, <3>3
    <3> QED
      BY <3>2, <3>3
  <2>5. ASSUME NEW b \in AboveFee, burnedAt[b] # Nil,
               burnedAt[b] < to \/ (burnedAt[b] = to /\ Calm)
        PROVE  burnedAt[b] <= to
    BY <1>4, <2>1, <2>5
  <2> QED
    BY <2>4, <2>5 DEF StoredUpTo
<1>6. BurnGood(m, ethBlock, burnedAt, Calm, burns)
  BY <1>1, <1>2, <1>3, <1>5 DEF BurnGood
<1>7. UNCHANGED <<ethBlock, burnedAt, reorgs, health, burns>>
  BY DEF QueryBurns, burnChainVars
<1> QED
  BY <1>2, <1>6, <1>7, GoodBurnsStep

\* A pass that ends with an error does not move the cursor.
LEMMA QueryBurnsFailsGood ==
    ASSUME BurnInv, NEW v \in Validators, QueryBurnsFails(v), UNCHANGED <<reorgs, health>>
    PROVE  GoodBurns'
<1> DEFINE old == burnMonitor[v]
<1>1. TypeOK /\ BurnGood(old, ethBlock, burnedAt, Calm, burns)
  BY DEF BurnInv, TypeInv, GoodBurns
<1>2. PICK m \in BurnMonitorState :
          /\ BurnStepTo(v, m)
          /\ m.pc = "run" /\ m.start = old.start /\ m.current = old.current
          /\ m.status = m.start
  BY <1>1, QueryBurnsFailsTo
<1>3. BurnGood(m, ethBlock, burnedAt, Calm, burns)
  BY <1>1, <1>2 DEF BurnGood
<1>4. UNCHANGED <<ethBlock, burnedAt, reorgs, health, burns>>
  BY DEF QueryBurnsFails, burnChainVars
<1> QED
  BY <1>2, <1>3, <1>4, GoodBurnsStep

\* An event is passed over, stored, found to be stored, or the pass is
\* without success; in a transaction with one event a duplicate is that event.
LEMMA BurnEventGood ==
    ASSUME BurnInv, NEW v \in Validators, NEW b \in BurnEvents,
           PassOverBurn(v, b) \/ InsertBurn(v, b), UNCHANGED <<reorgs, health>>,
           \A x, y \in BurnEvents : TxOf[x] = TxOf[y] => x = y
    PROVE  GoodBurns'
<1> DEFINE old == burnMonitor[v]
<1>1. /\ TypeOK /\ old \in BurnMonitorState /\ burns \subseteq BurnEvents
      /\ BurnGood(old, ethBlock, burnedAt, Calm, burns)
  BY DEF BurnInv, TypeInv, TypeOK, GoodBurns
<1>2. PICK m \in BurnMonitorState, ok \in BOOLEAN :
          /\ BurnStepTo(v, m)
          /\ old.pc = "events" /\ b \in old.todo
          /\ m.pc = "events" /\ m.todo = old.todo \ {b}
          /\ m.start = old.start /\ m.current = old.current
          /\ m.from = old.from /\ m.status = old.status
          /\ m.success = (old.success /\ ok)
          /\ burns \subseteq burns' /\ burns' \subseteq BurnEvents
          /\ ok => b \in burns' \/ b \notin AboveFee \/ IsDuplicateBurn(b)
  BY <1>1, BurnEventTo
<1>3. IsDuplicateBurn(b) => b \in burns'
  BY <1>1, <1>2 DEF IsDuplicateBurn
<1>4. ASSUME m.success
      PROVE  StoredUpTo(RangeEnd(m.from, m.current), burnedAt, Calm, burns' \cup m.todo)
  <2>1. old.success /\ ok
    BY <1>2, <1>4
  <2>2. StoredUpTo(RangeEnd(m.from, m.current), burnedAt, Calm, burns \cup old.todo)
    BY <1>1, <1>2, <2>1 DEF BurnGood
  <2>3. \A x \in AboveFee : x \in burns \cup old.todo => x \in burns' \cup m.todo
    BY <1>2, <1>3, <2>1
  <2> QED
    BY <2>2, <2>3 DEF StoredUpTo
<1>5. BlocksGrow(ethBlock, burnedAt, Calm, ethBlock, burnedAt, Calm)
  BY DEF BurnInv, TypeInv, TypeOK, BlocksGrow
<1>6. /\ GoodBlock(m.start, ethBlock, burnedAt, Calm, burns')
      /\ m.status # Nil => GoodBlock(m.status, ethBlock, burnedAt, Calm, burns')
  BY <1>1, <1>2, <1>5, GoodBlockGrows DEF BurnGood
<1>7. m.current <= ethBlock /\ m.start < m.current /\ m.from < m.current
  BY <1>1, <1>2 DEF BurnGood
<1>8. BurnGood(m, ethBlock, burnedAt, Calm, burns')
  BY <1>2, <1>4, <1>6, <1>7 DEF BurnGood
<1>9. UNCHANGED <<ethBlock, burnedAt, reorgs, health>>
  BY DEF PassOverBurn, InsertBurn, burnChainVars
<1> QED
  BY <1>2, <1>8, <1>9, GoodBurnsStep

\* The next range begins at the last block of this one, and after the last
\* range the cursor moves to the current block.
LEMMA FinishBurnsGood ==
    ASSUME BurnInv, NEW v \in Validators, FinishBurns(v), UNCHANGED <<reorgs, health>>
    PROVE  GoodBurns'
<1> DEFINE old == burnMonitor[v]
<1>1. /\ TypeOK /\ old \in BurnMonitorState /\ ethBlock \in Nat
      /\ BurnGood(old, ethBlock, burnedAt, Calm, burns)
  BY DEF BurnInv, TypeInv, TypeOK, GoodBurns
<1>2. PICK m \in BurnMonitorState :
          /\ BurnStepTo(v, m)
          /\ old.pc = "events" /\ old.todo = {}
          /\ m.current = old.current
          /\ \/ /\ old.success /\ m.success
                /\ old.from + MaxQueryBlocks < m.current
                /\ m.pc = "query"
                /\ m.from = old.from + MaxQueryBlocks
                /\ m.start = old.start
                /\ m.status = old.status
             \/ /\ old.success
                /\ ~(old.from + MaxQueryBlocks < m.current)
                /\ m.pc = "run" /\ m.start = m.current /\ m.status = m.start
             \/ m.pc = "run" /\ m.start = old.start /\ m.status = m.start
  BY <1>1, FinishBurnsTo
<1>3. /\ old.from \in Nat /\ old.current \in Nat /\ old.start \in Nat
      /\ old.start < old.current /\ old.current <= ethBlock
  BY <1>1, <1>2 DEF BurnGood, BurnMonitorState
<1>4. ASSUME old.success
      PROVE  StoredUpTo(RangeEnd(old.from, old.current), burnedAt, Calm, burns)
  BY <1>1, <1>2, <1>4 DEF BurnGood
<1>5. ASSUME old.success, old.from + MaxQueryBlocks < m.current,
             m.pc = "query", m.from = old.from + MaxQueryBlocks,
             m.start = old.start, m.status = old.status
      PROVE  BurnGood(m, ethBlock, burnedAt, Calm, burns)
  <2>1. RangeEnd(old.from, old.current) = m.from
    BY <1>2, <1>3, <1>5, MaxQueryBlocksAssumption DEF RangeEnd
  <2>2. StoredUpTo(m.from, burnedAt, Calm, burns)
    BY <1>4, <1>5, <2>1
  <2> QED
    BY <1>1, <1>2, <1>3, <1>5, <2>2 DEF BurnGood
<1>6. ASSUME old.success, ~(old.from + MaxQueryBlocks < m.current),
             m.pc = "run", m.start = m.current, m.status = m.start
      PROVE  BurnGood(m, ethBlock, burnedAt, Calm, burns)
  <2>1. RangeEnd(old.from, old.current) = m.current
    BY <1>2, <1>3, <1>6, MaxQueryBlocksAssumption DEF RangeEnd
  <2>2. StoredUpTo(m.current, burnedAt, Calm, burns)
    BY <1>4, <1>6, <2>1
  <2>3. 1 <= m.current
    BY <1>2, <1>3
  <2>4. GoodBlock(m.start, ethBlock, burnedAt, Calm, burns)
    BY <1>2, <1>3, <1>6, <2>2, <2>3 DEF GoodBlock
  <2> QED
    BY <1>2, <1>3, <1>6, <2>4 DEF BurnGood
<1>7. ASSUME m.pc = "run", m.start = old.start, m.status = m.start
      PROVE  BurnGood(m, ethBlock, burnedAt, Calm, burns)
  BY <1>1, <1>2, <1>3, <1>7 DEF BurnGood
<1>8. BurnGood(m, ethBlock, burnedAt, Calm, burns)
  BY <1>2, <1>5, <1>6, <1>7
<1>9. UNCHANGED <<ethBlock, burnedAt, reorgs, health, burns>>
  BY DEF FinishBurns, burnChainVars
<1> QED
  BY <1>2, <1>8, <1>9, GoodBurnsStep

-----------------------------------------------------------------------------
(* The other steps, and the theorem *)

\* The configured block is one the chain had before the first burn.
StartsBeforeBurns == StartBlockNumber >= 1 /\ StartBlockNumber <= FirstBlock

\* A burn monitor made anew at a good cursor, or at the configured one.
LEMMA NewBurnMonitorGood ==
    ASSUME BurnInv, StartsBeforeBurns, NEW v \in Validators, NEW n \in {ethBlock, 0}
    PROVE  BurnGood(NewBurnMonitor(LastHealth(v)["burn"], n), ethBlock, burnedAt, Calm, burns)
<1> DEFINE last == LastHealth(v)["burn"]
           start == FirstCursor(last, StartBlockNumber, n)
<1>1. /\ ethBlock \in Nat /\ burnedAt \in [BurnEvents -> Nat \cup {Nil}]
  BY DEF BurnInv, TypeInv, TypeOK
<1>2. last # Nil => GoodBlock(last, ethBlock, burnedAt, Calm, burns)
  BY DEF BurnInv, GoodBurns, LastHealth, NoCursors, Services
<1>3. start = IF last # Nil THEN last ELSE StartBlockNumber
  BY <1>2, StartAssumption DEF FirstCursor, StartsBeforeBurns, GoodBlock
<1>4. GoodBlock(StartBlockNumber, ethBlock, burnedAt, Calm, burns)
  <2>1. FirstBlock <= ethBlock /\ FirstBlock \in Nat
    BY FirstAssumption DEF BurnInv, BurntInv
  <2>2. StartBlockNumber <= ethBlock
    BY <1>1, <2>1, StartAssumption DEF StartsBeforeBurns
  <2>3. ASSUME NEW b \in AboveFee, burnedAt[b] # Nil
        PROVE  ~(burnedAt[b] <= StartBlockNumber) /\ burnedAt[b] \in Nat
    BY <1>1, <2>1, <2>3, StartAssumption, BurnEventsAssumption
       DEF BurnInv, BurntInv, StartsBeforeBurns
  <2>4. StoredUpTo(StartBlockNumber, burnedAt, Calm, burns)
    BY <2>3, StartAssumption DEF StoredUpTo
  <2> QED
    BY <2>2, <2>4, StartAssumption DEF GoodBlock, StartsBeforeBurns
<1>5. GoodBlock(start, ethBlock, burnedAt, Calm, burns)
  BY <1>2, <1>3, <1>4
<1>6. n <= ethBlock
  BY <1>1
<1> HIDE DEF start, last
<1> DEFINE m == [ pc |-> "run", start |-> start,
      current |-> n, from |-> 0, todo |-> {}, success |-> TRUE, status |-> Nil ]
<1>7. m.pc = "run" /\ m.start = start /\ m.current = n /\ m.status = Nil
  OBVIOUS
<1>8. NewBurnMonitor(last, n) = m
  BY DEF NewBurnMonitor, start
<1> HIDE DEF m
<1>9. BurnGood(m, ethBlock, burnedAt, Calm, burns)
  BY <1>5, <1>6, <1>7 DEF BurnGood
<1> QED
  BY <1>8, <1>9 DEF last

\* At first nothing is burned, and every monitor begins at StartBlockNumber.
LEMMA BurnInvInit == ASSUME StartsBeforeBurns PROVE Init => BurnInv
<1> SUFFICES ASSUME Init PROVE BurnInv
  OBVIOUS
<1>1. TypeInv
  BY InitTypes
<1>2. ethBlock = FirstBlock /\ FirstBlock \in Nat /\ \A b \in BurnEvents : burnedAt[b] = Nil
  BY FirstAssumption DEF Init
<1>3. BurntInv
  BY <1>2 DEF BurntInv
<1>4. \A v \in Validators : health[v]["burn"] = Nil
  BY DEF Init, NoCursors, Services
<1>5. GoodBlock(StartBlockNumber, ethBlock, burnedAt, Calm, burns)
  BY <1>2, StartAssumption, BurnEventsAssumption DEF GoodBlock, StoredUpTo, StartsBeforeBurns
<1>6. ASSUME NEW v \in Validators
      PROVE  BurnGood(burnMonitor[v], ethBlock, burnedAt, Calm, burns)
  <2>1. burnMonitor[v] = NewBurnMonitor(Nil, FirstBlock)
    BY DEF Init
  <2>2. FirstCursor(Nil, StartBlockNumber, FirstBlock) = StartBlockNumber
    BY StartAssumption DEF FirstCursor, StartsBeforeBurns
  <2>3. /\ burnMonitor[v].pc = "run" /\ burnMonitor[v].start = StartBlockNumber
        /\ burnMonitor[v].current = FirstBlock /\ burnMonitor[v].status = Nil
    BY <2>1, <2>2 DEF NewBurnMonitor
  <2> QED
    BY <1>2, <1>5, <2>3 DEF BurnGood
<1> QED
  BY <1>1, <1>3, <1>4, <1>6 DEF BurnInv, GoodBurns

\* Every step keeps the burn monitors good.
LEMMA BurnInvNext ==
    ASSUME StartsBeforeBurns, \A x, y \in BurnEvents : TxOf[x] = TxOf[y] => x = y
    PROVE  BurnInv /\ [Next]_vars => BurnInv'
<1> SUFFICES ASSUME BurnInv, [Next]_vars PROVE BurnInv'
  OBVIOUS
<1>1. /\ TypeInv /\ TypeOK /\ BurntInv /\ TypeInv' /\ TypeOK'
  BY NextTypes DEF BurnInv, TypeInv
<1>2. /\ ethBlock \in Nat /\ burnedAt \in [BurnEvents -> Nat \cup {Nil}]
      /\ ethBlock' \in Nat /\ burnedAt' \in [BurnEvents -> Nat \cup {Nil}]
      /\ reorgs \in Nat
  BY <1>1 DEF TypeOK
<1>3. ASSUME UNCHANGED <<ethBlock, burnedAt, reorgs>>
      PROVE  BurntInv' /\ BlocksGrow(ethBlock, burnedAt, Calm, ethBlock', burnedAt', Calm')
  BY <1>1, <1>2, <1>3 DEF BurntInv, BlocksGrow, Calm
<1>4. ASSUME NEW v \in BurnMonitors, BurnMonitorStep(v)
      PROVE  BurntInv' /\ GoodBurns'
  <2>1. v \in Validators /\ UNCHANGED <<reorgs, health>>
    BY <1>4, MonitorsAssumption DEF BurnMonitorStep, counters
  <2>2. UNCHANGED <<ethBlock, burnedAt>>
    BY <1>4 DEF BurnMonitorStep, BurnMonitorNext, UpdateCurrentBlockNumber, QueryBurns,
       QueryBurnsFails, PassOverBurn, InsertBurn, FinishBurns, burnChainVars
  <2>3. GoodBurns'
    BY <1>4, <2>1, UpdateCurrentBlockNumberGood, QueryBurnsGood, QueryBurnsFailsGood,
       BurnEventGood, FinishBurnsGood
       DEF BurnMonitorStep, BurnMonitorNext
  <2> QED
    BY <1>3, <2>1, <2>2, <2>3
<1>5. ASSUME NEW v \in MintMonitors, MintMonitorStep(v)
      PROVE  BurntInv' /\ GoodBurns'
  <2>1. UNCHANGED <<ethBlock, burnedAt, reorgs, burnMonitor, health, burns>>
    BY <1>5 DEF MintMonitorStep, counters
  <2> QED
    BY <1>3, <2>1, GoodBurnsFrame
<1>6. ASSUME NEW v \in Validators, PostHealth(v)
      PROVE  BurntInv' /\ GoodBurns'
  <2>1. UNCHANGED <<ethBlock, burnedAt, reorgs, burnMonitor, burns>>
    BY <1>6 DEF PostHealth, chainVars, counters
  <2>2. health' = [health EXCEPT ![v] = ServiceHealths(v)]
    BY <1>6 DEF PostHealth
  <2>3. ServiceHealths(v)["burn"] \in {burnMonitor[v].status, Nil}
    BY DEF ServiceHealths, Services
  <2>4. ASSUME NEW u \in Validators, health'[u]["burn"] # Nil
        PROVE  GoodBlock(health'[u]["burn"], ethBlock, burnedAt, Calm, burns)
    <3>1. CASE u = v
      <4>1. health'[u]["burn"] = burnMonitor[v].status
        BY <1>1, <2>2, <2>3, <2>4, <3>1 DEF TypeOK
      <4> QED
        BY <2>4, <4>1 DEF BurnInv, GoodBurns, BurnGood
    <3>2. CASE u # v
      BY <1>1, <2>2, <2>4, <3>2 DEF BurnInv, GoodBurns, TypeOK
    <3> QED
      BY <3>1, <3>2
  <2>5. Calm' = Calm
    BY <2>1 DEF Calm
  <2> QED
    BY <1>3, <2>1, <2>4, <2>5 DEF BurnInv, GoodBurns
<1>7. ASSUME NEW v \in Validators, Crash(v)
      PROVE  BurntInv' /\ GoodBurns'
  <2>1. UNCHANGED <<ethBlock, burnedAt, reorgs, health, burns>>
    BY <1>7 DEF Crash, chainVars, dbVars
  <2>2. PICK n \in {ethBlock, 0} :
            /\ BurnStepTo(v, NewBurnMonitor(LastHealth(v)["burn"], n))
            /\ NewBurnMonitor(LastHealth(v)["burn"], n) \in BurnMonitorState
    BY <1>1, <1>7, CrashTo
  <2>3. BurnGood(NewBurnMonitor(LastHealth(v)["burn"], n), ethBlock, burnedAt, Calm, burns)
    BY NewBurnMonitorGood
  <2>4. PICK m \in BurnMonitorState : m = NewBurnMonitor(LastHealth(v)["burn"], n)
    BY <2>2
  <2>5. BurnStepTo(v, m) /\ BurnGood(m, ethBlock, burnedAt, Calm, burns')
    BY <2>1, <2>2, <2>3, <2>4
  <2> QED
    BY <1>3, <2>1, <2>5, GoodBurnsStep
<1>8. ASSUME NEW new \in SUBSET BurnEvents, EthereumBlock(new)
      PROVE  BurntInv' /\ GoodBurns'
  <2>1. /\ UNCHANGED <<burnMonitor, health, burns, reorgs>>
        /\ ethBlock' = ethBlock + 1
        /\ burnedAt' = [b \in BurnEvents |-> IF b \in new THEN ethBlock + 1 ELSE burnedAt[b]]
    BY <1>8 DEF EthereumBlock, dbVars, counters
  <2>2. BlocksGrow(ethBlock, burnedAt, Calm, ethBlock', burnedAt', Calm')
    BY <1>2, <2>1 DEF BlocksGrow, Calm
  <2>3. BurntInv'
    BY <1>1, <1>2, <2>1, FirstAssumption DEF BurntInv
  <2> QED
    BY <2>1, <2>2, <2>3, GoodBurnsFrame
<1>9. ASSUME NEW new \in SUBSET BurnEvents, Reorg(new)
      PROVE  BurntInv' /\ GoodBurns'
  <2>1. /\ UNCHANGED <<ethBlock, burnMonitor, health, burns>>
        /\ reorgs' = reorgs + 1 /\ FirstBlock < ethBlock
        /\ burnedAt' = [b \in BurnEvents |->
                           IF b \in new THEN ethBlock
                           ELSE IF burnedAt[b] = ethBlock THEN Nil ELSE burnedAt[b]]
    BY <1>2, <1>9, FirstAssumption DEF Reorg, dbVars
  <2>2. ~Calm'
    BY <1>2, <2>1 DEF Calm
  <2>3. BlocksGrow(ethBlock, burnedAt, Calm, ethBlock', burnedAt', Calm')
    BY <1>2, <2>1, <2>2 DEF BlocksGrow
  <2>4. BurntInv'
    BY <1>1, <1>2, <2>1, FirstAssumption DEF BurntInv
  <2> QED
    BY <2>1, <2>3, <2>4, GoodBurnsFrame
<1>10. ASSUME \/ \E new \in SUBSET Deposits : PocketBlock(new)
              \/ \E l \in Limits : SetMintLimit(l)
              \/ UNCHANGED vars
       PROVE  BurntInv' /\ GoodBurns'
  <2>1. UNCHANGED <<ethBlock, burnedAt, reorgs, burnMonitor, health, burns>>
    BY <1>10 DEF PocketBlock, SetMintLimit, vars, dbVars, chainVars, counters
  <2> QED
    BY <1>3, <2>1, GoodBurnsFrame
<1> QED
  BY <1>1, <1>4, <1>5, <1>6, <1>7, <1>8, <1>9, <1>10 DEF Next, BurnInv

\* No cursor of a burn monitor passes a burn event that is not in "burns"
\* (eth/monitor.go SyncTxs, app/health.go), if StartBlockNumber is a block
\* before the first burn and no transaction has two events: whatever fails,
\* crashes and restarts, and although the newest block may be replaced.
THEOREM BurnsStored ==
    ASSUME StartBlockNumber >= 1, StartBlockNumber <= FirstBlock,
           \A x, y \in BurnEvents : TxOf[x] = TxOf[y] => x = y
    PROVE  Spec => []BurnsBehindCursorAreStored
<1>1. Init => BurnInv
  BY BurnInvInit DEF StartsBeforeBurns
<1>2. BurnInv /\ [Next]_vars => BurnInv'
  BY BurnInvNext DEF StartsBeforeBurns
<1>3. BurnInv => BurnsBehindCursorAreStored
  <2> SUFFICES ASSUME BurnInv, NEW v \in BurnMonitors, NEW c \in BurnCursors(v)
               PROVE  StoredUpTo(c, burnedAt, Calm, burns)
    BY DEF BurnsBehindCursorAreStored, StoredUpTo, Calm
  <2>1. /\ BurnGood(burnMonitor[v], ethBlock, burnedAt, Calm, burns)
        /\ health[v]["burn"] # Nil => GoodBlock(health[v]["burn"], ethBlock, burnedAt, Calm, burns)
    BY MonitorsAssumption DEF BurnInv, GoodBurns
  <2>2. /\ c # Nil
        /\ c = burnMonitor[v].start \/ c = burnMonitor[v].status \/ c = health[v]["burn"]
    BY DEF BurnCursors
  <2>3. GoodBlock(c, ethBlock, burnedAt, Calm, burns)
    BY <2>1, <2>2 DEF BurnGood
  <2> QED
    BY <2>3 DEF GoodBlock
<1> QED
  BY <1>1, <1>2, <1>3, PTL DEF Spec

-----------------------------------------------------------------------------
(* Each deposit in one collection *)

\* What a step of a mint monitor does to its settings and to the collections:
\* only the step after a lookup inserts, and only the lookup leads to it.
MonitorMoves(v) ==
    /\ \A u \in Validators :
           /\ mintMonitor'[u].maximum = mintMonitor[u].maximum
           /\ mintMonitor'[u].disabled = mintMonitor[u].disabled
           /\ u # v => mintMonitor'[u] = mintMonitor[u]
    /\ \/ /\ UNCHANGED <<mints, invalidMints>>
          /\ \/ mintMonitor'[v].pc # "insert"
             \/ \E d \in Deposits : mintMonitor'[v].tx = d /\ (CallsFail \/ ~FoundElsewhere(v, d))
       \/ /\ mintMonitor[v].pc = "insert" /\ mintMonitor'[v].pc # "insert"
          /\ LET d == mintMonitor[v].tx
             IN  /\ d \in Deposits
                 /\ mints' \in {mints, IF Handler(v, d) = "mint" THEN mints \cup {d} ELSE mints}
                 /\ invalidMints' \in {invalidMints,
                        IF Handler(v, d) # "mint" THEN invalidMints \cup {d} ELSE invalidMints}

\* Every step of a mint monitor is one of these.
LEMMA MintMonitorMoves ==
    ASSUME TypeInv, NEW v \in Validators, MintMonitorNext(v)
    PROVE  MonitorMoves(v) /\ limit' = limit
<1>0. mintMonitor \in [Validators -> MintMonitorState]
  BY DEF TypeInv, TypeOK
<1>1. limit' = limit
  BY DEF MintMonitorNext, UpdateCurrentHeight, QueryPage, QueryTxsFails, FindElsewhere,
     InsertDeposit, FinishTxs, mintChainVars
<1>2. ASSUME NEW start, NEW current, MintPassDone(v, start, current),
             UNCHANGED <<mints, invalidMints>>
      PROVE  MonitorMoves(v)
  BY <1>0, <1>2 DEF MintPassDone, MintMonitorState, MonitorMoves
<1>3. CASE UpdateCurrentHeight(v)
  <2>1. /\ UNCHANGED <<mints, invalidMints>>
        /\ \E current :
               \/ mintMonitor' = [mintMonitor EXCEPT
                      ![v].pc = "query", ![v].current = current,
                      ![v].page = 1, ![v].success = TRUE]
               \/ MintPassDone(v, mintMonitor[v].start, current)
    BY <1>3 DEF UpdateCurrentHeight
  <2>2. ASSUME NEW current, mintMonitor' = [mintMonitor EXCEPT
                   ![v].pc = "query", ![v].current = current,
                   ![v].page = 1, ![v].success = TRUE]
        PROVE  MonitorMoves(v)
    BY <1>0, <2>1, <2>2 DEF MintMonitorState, MonitorMoves
  <2> QED
    BY <1>1, <1>2, <2>1, <2>2
<1>4. CASE QueryPage(v)
  <2>1. UNCHANGED <<mints, invalidMints>>
    BY <1>4 DEF QueryPage
  <2>2. PICK page \in SUBSET Remaining(v), pc \in {"txs", "query"} :
            mintMonitor' = [mintMonitor EXCEPT
                ![v].pc = pc, ![v].page = @ + 1, ![v].todo = @ \cup page]
    BY <1>4 DEF QueryPage
  <2> QED
    BY <1>0, <1>1, <2>1, <2>2 DEF MintMonitorState, MonitorMoves
<1>5. CASE QueryTxsFails(v)
  BY <1>1, <1>2, <1>5 DEF QueryTxsFails
<1>6. ASSUME NEW d \in Deposits, FindElsewhere(v, d) PROVE MonitorMoves(v)
  <2>1. mintMonitor[v].pc = "txs" /\ UNCHANGED <<mints, invalidMints>>
    BY <1>6 DEF FindElsewhere
  <2>2. CASE mintMonitor' = [mintMonitor EXCEPT ![v].todo = @ \ {d}]
    BY <1>0, <2>1, <2>2 DEF MintMonitorState, MonitorMoves
  <2>3. CASE /\ ~FoundElsewhere(v, d) \/ CallsFail
             /\ mintMonitor' = [mintMonitor EXCEPT ![v].pc = "insert", ![v].tx = d]
    <3>1. \A u \in Validators :
              /\ mintMonitor'[u].maximum = mintMonitor[u].maximum
              /\ mintMonitor'[u].disabled = mintMonitor[u].disabled
              /\ u # v => mintMonitor'[u] = mintMonitor[u]
              /\ mintMonitor'[v].tx = d
      BY <1>0, <2>3 DEF MintMonitorState
    <3> QED
      BY <2>1, <2>3, <3>1 DEF MonitorMoves
  <2> QED
    BY <1>6, <2>2, <2>3 DEF FindElsewhere
<1>7. CASE InsertDeposit(v)
  <2> DEFINE d == mintMonitor[v].tx
  <2>1. mintMonitor[v].pc = "insert" /\ d \in Deposits
    BY <1>7 DEF InsertDeposit, TypeInv, MintTx
  <2>2. PICK ok \in BOOLEAN :
            /\ mints' = IF ok /\ Handler(v, d) = "mint" THEN mints \cup {d} ELSE mints
            /\ invalidMints' = IF ok /\ Handler(v, d) # "mint"
                               THEN invalidMints \cup {d} ELSE invalidMints
            /\ mintMonitor' = [mintMonitor EXCEPT
                   ![v].pc = "txs", ![v].tx = Nil,
                   ![v].todo = @ \ {d}, ![v].success = @ /\ ok]
    BY <1>7 DEF InsertDeposit
  <2>3. /\ mintMonitor'[v].pc = "txs"
        /\ \A u \in Validators :
               /\ mintMonitor'[u].maximum = mintMonitor[u].maximum
               /\ mintMonitor'[u].disabled = mintMonitor[u].disabled
               /\ u # v => mintMonitor'[u] = mintMonitor[u]
    BY <1>0, <2>2 DEF MintMonitorState
  <2> QED
    BY <1>1, <2>1, <2>2, <2>3 DEF MonitorMoves
<1>8. CASE FinishTxs(v)
  BY <1>1, <1>2, <1>8 DEF FinishTxs
<1> QED
  BY <1>1, <1>3, <1>4, <1>5, <1>6, <1>7, <1>8 DEF MintMonitorNext

\* Of the other steps only a crash changes a monitor's settings: they become
\* those of the new process, and the maximal amount that of the contract.
LEMMA SettingsFromCrash ==
    ASSUME TypeInv, [Next]_vars, ~(\E v \in MintMonitors : MintMonitorStep(v))
    PROVE  /\ UNCHANGED <<mints, invalidMints>>
           /\ \A u \in Validators :
                  \/ mintMonitor'[u] = mintMonitor[u]
                  \/ /\ mintMonitor'[u].pc = "run"
                     /\ mintMonitor'[u].maximum = limit
                     /\ mintMonitor'[u].disabled \in MintDisabledValues
                     /\ limit' = limit
           /\ \/ limit' = limit
              \/ limit = InitialLimit /\ limit' \in Limits
<1>0. mintMonitor \in [Validators -> MintMonitorState]
  BY DEF TypeInv, TypeOK
<1>1. ASSUME NEW v \in Validators, Crash(v)
      PROVE  /\ UNCHANGED <<mints, invalidMints, limit>>
             /\ \A u \in Validators :
                    \/ mintMonitor'[u] = mintMonitor[u]
                    \/ /\ mintMonitor'[u].pc = "run"
                       /\ mintMonitor'[u].maximum = limit
                       /\ mintMonitor'[u].disabled \in MintDisabledValues
  <2>1. PICK disabled \in MintDisabledValues, h \in {poktHeight, 0} :
            mintMonitor' = [mintMonitor EXCEPT
                ![v] = NewMintMonitor(LastHealth(v)["mint"], h, disabled)]
    BY <1>1 DEF Crash
  <2>2. UNCHANGED <<mints, invalidMints, limit>>
    BY <1>1 DEF Crash, dbVars, chainVars
  <2>3. /\ NewMintMonitor(LastHealth(v)["mint"], h, disabled).pc = "run"
        /\ NewMintMonitor(LastHealth(v)["mint"], h, disabled).maximum = limit
        /\ NewMintMonitor(LastHealth(v)["mint"], h, disabled).disabled = disabled
    BY DEF NewMintMonitor
  <2> QED
    BY <1>0, <2>1, <2>2, <2>3
<1>2. ASSUME NEW l \in Limits, SetMintLimit(l)
      PROVE  /\ UNCHANGED <<mints, invalidMints, mintMonitor>>
             /\ limit = InitialLimit /\ limit' \in Limits
  BY <1>2 DEF SetMintLimit, dbVars
<1>3. ASSUME \/ \E v \in BurnMonitors : BurnMonitorStep(v)
             \/ \E v \in Validators : PostHealth(v)
             \/ \E new \in SUBSET Deposits : PocketBlock(new)
             \/ \E new \in SUBSET BurnEvents : EthereumBlock(new) \/ Reorg(new)
             \/ UNCHANGED vars
      PROVE  UNCHANGED <<mints, invalidMints, mintMonitor, limit>>
  BY <1>3 DEF BurnMonitorStep, PostHealth, PocketBlock, EthereumBlock, Reorg, vars,
     dbVars, chainVars
<1> QED
  BY <1>1, <1>2, <1>3 DEF Next

\* One mint monitor whose lookups work, under a limit that only rises.
OneMonitorRising ==
    /\ \A v, w \in MintMonitors : v = w
    /\ ~CallsFail
    /\ \A l \in Limits : InitialLimit <= l

\* Under the maximal amount of the monitor, what is minted may be minted.
MintsMayBe(v) == \A d \in mints : Verdict(TxOfDeposit[d], mintMonitor[v].maximum) = "mint"

\* What a monitor has found out of a deposit it is about to insert.
LookedUp(v) ==
    mintMonitor[v].pc = "insert" =>
        LET d == mintMonitor[v].tx
        IN  IF Handler(v, d) = "mint" THEN d \notin invalidMints ELSE d \notin mints

MonitorSorts(v) == mintMonitor[v].maximum <= limit /\ MintsMayBe(v) /\ LookedUp(v)

\* The limit stays above what the monitor works with, and that above what it
\* has minted; a restart raises it, a new setting of MintDisabled is why the
\* monitor looks into the other collection.
CollectionInv ==
    /\ TypeInv
    /\ InOneCollection
    /\ InitialLimit <= limit
    /\ \A v \in MintMonitors : MonitorSorts(v)

\* A transaction that may be minted may be minted under a larger limit.
LEMMA VerdictGrows ==
    ASSUME NEW d \in Deposits, NEW m1 \in Nat, NEW m2 \in Nat, m1 <= m2,
           Verdict(TxOfDeposit[d], m1) = "mint"
    PROVE  Verdict(TxOfDeposit[d], m2) = "mint"
<1> DEFINE tx == TxOfDeposit[d]
<1>1. tx \in Tx
  BY DepositsAssumption
<1>2. \A i \in VaultTransfers(tx) : tx.transfers[i].amount \in Nat
  <2> SUFFICES ASSUME NEW i \in VaultTransfers(tx) PROVE tx.transfers[i].amount \in Nat
    OBVIOUS
  <2>1. tx.transfers \in Seq(Transfer)
    BY <1>1 DEF Tx
  <2>2. i \in DOMAIN tx.transfers
    BY DEF VaultTransfers
  <2>3. tx.transfers[i] \in Transfer
    BY <2>1, <2>2
  <2> QED
    BY <2>3 DEF Transfer
<1>3. TxValid(tx) /\ ~NeedsRefund(tx, m1)
  BY DEF Verdict
<1>4. ~NeedsRefund(tx, m2)
  BY <1>2, <1>3 DEF NeedsRefund
<1> QED
  BY <1>3, <1>4 DEF Verdict

\* A step of the one monitor keeps each deposit in one collection.
LEMMA MonitorSortsStep ==
    ASSUME CollectionInv, OneMonitorRising, NEW v \in MintMonitors,
           MonitorMoves(v), limit' = limit
    PROVE  InOneCollection' /\ MonitorSorts(v)'
<1>1. v \in Validators /\ mintMonitor[v].maximum <= limit /\ MintsMayBe(v) /\ LookedUp(v)
  BY MonitorsAssumption DEF CollectionInv, MonitorSorts
<1>2. /\ mintMonitor'[v].maximum = mintMonitor[v].maximum
      /\ mintMonitor'[v].disabled = mintMonitor[v].disabled
  BY <1>1 DEF MonitorMoves
<1>3. ASSUME NEW d PROVE Handler(v, d)' = Handler(v, d)
  BY <1>2 DEF Handler
<1>4. CASE UNCHANGED <<mints, invalidMints>> /\ mintMonitor'[v].pc # "insert"
  BY <1>1, <1>2, <1>4 DEF CollectionInv, InOneCollection, MonitorSorts, MintsMayBe, LookedUp
<1>5. ASSUME UNCHANGED <<mints, invalidMints>>, NEW d \in Deposits,
             mintMonitor'[v].tx = d, ~FoundElsewhere(v, d)
      PROVE  InOneCollection' /\ MonitorSorts(v)'
  <2>1. ASSUME d \in mints PROVE Handler(v, d) = "mint"
    <3>1. Verdict(TxOfDeposit[d], mintMonitor[v].maximum) = "mint"
      BY <1>1, <2>1 DEF MintsMayBe
    <3> QED
      BY <1>5, <2>1, <3>1 DEF Handler, FoundElsewhere
  <2>2. LookedUp(v)'
    BY <1>3, <1>5, <2>1 DEF LookedUp, FoundElsewhere
  <2>3. MintsMayBe(v)'
    BY <1>1, <1>2, <1>5 DEF MintsMayBe
  <2> QED
    BY <1>1, <1>2, <1>5, <2>2, <2>3 DEF CollectionInv, InOneCollection, MonitorSorts
<1>6. ASSUME mintMonitor[v].pc = "insert", mintMonitor'[v].pc # "insert",
             NEW d, d = mintMonitor[v].tx,
             mints' \in {mints, IF Handler(v, d) = "mint" THEN mints \cup {d} ELSE mints},
             invalidMints' \in {invalidMints,
                 IF Handler(v, d) # "mint" THEN invalidMints \cup {d} ELSE invalidMints}
      PROVE  InOneCollection' /\ MonitorSorts(v)'
  <2>1. IF Handler(v, d) = "mint" THEN d \notin invalidMints ELSE d \notin mints
    BY <1>1, <1>6 DEF LookedUp
  <2>2. InOneCollection'
    BY <1>6, <2>1 DEF CollectionInv, InOneCollection
  <2>3. Handler(v, d) = "mint" => Verdict(TxOfDeposit[d], mintMonitor[v].maximum) = "mint"
    BY DEF Handler
  <2>4. MintsMayBe(v)'
    BY <1>1, <1>2, <1>6, <2>3 DEF MintsMayBe
  <2>5. LookedUp(v)'
    BY <1>6 DEF LookedUp
  <2> QED
    BY <1>1, <1>2, <2>2, <2>4, <2>5 DEF MonitorSorts
<1> QED
  BY <1>4, <1>5, <1>6 DEF MonitorMoves, OneMonitorRising

\* And so does every other step.
LEMMA CollectionInvNext ==
    ASSUME OneMonitorRising
    PROVE  CollectionInv /\ [Next]_vars => CollectionInv'
<1> SUFFICES ASSUME CollectionInv, [Next]_vars PROVE CollectionInv'
  OBVIOUS
<1>1. TypeInv /\ TypeInv'
  BY NextTypes DEF CollectionInv
<1>2. /\ limit \in Nat /\ limit' \in Nat /\ mints \subseteq Deposits
      /\ mintMonitor \in [Validators -> MintMonitorState]
      /\ MintMonitors \subseteq Validators /\ InitialLimit \in Nat
  BY <1>1, MonitorsAssumption, ChoicesAssumption DEF TypeInv, TypeOK
<1>3. ASSUME NEW v \in MintMonitors, MintMonitorStep(v) PROVE CollectionInv'
  <2>1. MonitorMoves(v) /\ limit' = limit
    BY <1>1, <1>2, <1>3, MintMonitorMoves DEF MintMonitorStep
  <2>2. InOneCollection' /\ MonitorSorts(v)'
    BY <2>1, MonitorSortsStep
  <2> QED
    BY <1>1, <2>1, <2>2 DEF CollectionInv, OneMonitorRising
<1>4. CASE ~(\E v \in MintMonitors : MintMonitorStep(v))
  <2>1. UNCHANGED <<mints, invalidMints>> /\ limit <= limit'
    BY <1>1, <1>2, <1>4, SettingsFromCrash, ChoicesAssumption DEF OneMonitorRising
  <2>2. ASSUME NEW u \in MintMonitors PROVE MonitorSorts(u)'
    <3>1. /\ mintMonitor[u].maximum <= limit /\ MintsMayBe(u) /\ LookedUp(u)
          /\ mintMonitor[u].maximum \in Nat
      BY <1>2 DEF CollectionInv, MonitorSorts, MintMonitorState
    <3>2. CASE mintMonitor'[u] = mintMonitor[u]
      <4>1. \A d : Handler(u, d)' = Handler(u, d)
        BY <3>2 DEF Handler
      <4>2. LookedUp(u)'
        BY <2>1, <3>1, <3>2, <4>1 DEF LookedUp
      <4> QED
        BY <1>2, <2>1, <3>1, <3>2, <4>2 DEF MonitorSorts, MintsMayBe
    <3>3. CASE /\ mintMonitor'[u].pc = "run"
               /\ mintMonitor'[u].maximum = limit
               /\ limit' = limit
      <4>1. MintsMayBe(u)'
        BY <1>2, <2>1, <3>1, <3>3, VerdictGrows DEF MintsMayBe
      <4>2. LookedUp(u)'
        BY <3>3 DEF LookedUp
      <4> QED
        BY <1>2, <3>3, <4>1, <4>2 DEF MonitorSorts
    <3> QED
      BY <1>1, <1>2, <1>4, <3>2, <3>3, SettingsFromCrash
  <2> QED
    BY <1>1, <1>2, <2>1, <2>2 DEF CollectionInv, InOneCollection
<1> QED
  BY <1>3, <1>4

\* No deposit is both minted and refunded (cosmos/monitor.go HandleValidMint
\* and HandleInvalidMint), although validators restart under another setting
\* of MintDisabled and another maximal amount: if one validator monitors the
\* deposits, the limit only rises and the lookups of the other collection
\* work.
THEOREM OneCollection ==
    ASSUME OneMonitorRising
    PROVE  Spec => []InOneCollection
<1>1. Init => CollectionInv
  <2> SUFFICES ASSUME Init PROVE CollectionInv
    OBVIOUS
  <2>1. mints = {} /\ invalidMints = {} /\ limit = InitialLimit
    BY DEF Init
  <2>2. ASSUME NEW v \in MintMonitors
        PROVE  mintMonitor[v].pc = "run" /\ mintMonitor[v].maximum = limit
    BY MonitorsAssumption DEF Init, NewMintMonitor
  <2> QED
    BY <2>1, <2>2, InitTypes, ChoicesAssumption
       DEF CollectionInv, InOneCollection, MonitorSorts, MintsMayBe, LookedUp
<1>2. CollectionInv /\ [Next]_vars => CollectionInv'
  BY CollectionInvNext
<1>3. CollectionInv => InOneCollection
  BY DEF CollectionInv
<1> QED
  BY <1>1, <1>2, <1>3, PTL DEF Spec

\* Validators whose settings agree, under a limit that stays.
SettingsAgree ==
    /\ \A x, y \in MintDisabledValues : x = y
    /\ Limits \subseteq {InitialLimit}

\* What they all do of a deposit.
Mintable(d) ==
    Verdict(TxOfDeposit[d], InitialLimit) = "mint" /\ TRUE \notin MintDisabledValues

\* Every monitor works with the settings, and sorts by them alone.
AgreedInv ==
    /\ TypeInv
    /\ limit = InitialLimit
    /\ \A v \in Validators :
           mintMonitor[v].maximum = InitialLimit /\ mintMonitor[v].disabled \in MintDisabledValues
    /\ \A d \in mints : Mintable(d)
    /\ \A d \in invalidMints : ~Mintable(d)

\* With settings that agree, whichever validator inserts a deposit, however
\* often and whatever its lookups return, inserts it in the same collection
\* (cosmos/monitor.go SyncTxs): no deposit is both minted and refunded.
THEOREM OneCollectionAgreed ==
    ASSUME SettingsAgree
    PROVE  Spec => []InOneCollection
<1>1. Init => AgreedInv
  <2> SUFFICES ASSUME Init PROVE AgreedInv
    OBVIOUS
  <2>1. PICK disabled \in [Validators -> MintDisabledValues] :
            mintMonitor = [v \in Validators |-> NewMintMonitor(Nil, FirstHeight, disabled[v])]
    BY DEF Init
  <2>2. ASSUME NEW v \in Validators
        PROVE  mintMonitor[v].maximum = limit /\ mintMonitor[v].disabled = disabled[v]
    BY <2>1 DEF NewMintMonitor
  <2> QED
    BY <2>2, InitTypes DEF AgreedInv, Init
<1>2. AgreedInv /\ [Next]_vars => AgreedInv'
  <2> SUFFICES ASSUME AgreedInv, [Next]_vars PROVE AgreedInv'
    OBVIOUS
  <2>1. TypeInv /\ TypeInv'
    BY NextTypes DEF AgreedInv
  <2>2. ASSUME NEW v \in MintMonitors, MintMonitorStep(v) PROVE AgreedInv'
    <3>1. v \in Validators /\ MonitorMoves(v) /\ limit' = limit
      BY <2>1, <2>2, MonitorsAssumption, MintMonitorMoves DEF MintMonitorStep
    <3>2. ASSUME NEW d PROVE Handler(v, d) = "mint" <=> Mintable(d)
      <4>1. /\ mintMonitor[v].maximum = InitialLimit
            /\ mintMonitor[v].disabled \in MintDisabledValues
            /\ mintMonitor[v].disabled \in BOOLEAN
        BY <3>1, ChoicesAssumption DEF AgreedInv
      <4> QED
        BY <4>1 DEF Handler, Mintable, SettingsAgree
    <3>3. /\ \A d \in mints' : Mintable(d)
          /\ \A d \in invalidMints' : ~Mintable(d)
      BY <3>1, <3>2 DEF MonitorMoves, AgreedInv
    <3> QED
      BY <2>1, <3>1, <3>3 DEF AgreedInv, MonitorMoves
  <2>3. CASE ~(\E v \in MintMonitors : MintMonitorStep(v))
    BY <2>1, <2>3, SettingsFromCrash DEF AgreedInv, SettingsAgree
  <2> QED
    BY <2>2, <2>3
<1>3. AgreedInv => InOneCollection
  BY DEF AgreedInv, InOneCollection
<1> QED
  BY <1>1, <1>2, <1>3, PTL DEF Spec

=============================================================================
