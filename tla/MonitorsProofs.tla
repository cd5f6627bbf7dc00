--------------------------- MODULE MonitorsProofs ---------------------------
(***************************************************************************)
(* Theorems about Monitors, for any validators, deposits and burn events:  *)
(* type correctness, and that no cursor passes what is not stored.         *)
(***************************************************************************)
EXTENDS Monitors, FiniteSetTheorems, TLAPS

-----------------------------------------------------------------------------
(* Type correctness *)

\* A mint monitor that is about to insert has a deposit to insert.
MintTx(m) == m.pc = "insert" => m.tx \in Deposits

TypeInv == TypeOK /\ \A v \in Validators : MintTx(mintMonitor[v])

\* What one step of the mint monitor of v makes of its state and of the
\* collections.
MintStepTo(v, m) ==
    /\ mintMonitor' = [mintMonitor EXCEPT ![v] = m]
    /\ MintTx(m)

BurnStepTo(v, m) == burnMonitor' = [burnMonitor EXCEPT ![v] = m]

\* A monitor made anew at a cursor of a health document.
LEMMA NewMonitorTypes ==
    ASSUME TypeOK, NEW last \in Nat \cup {Nil}, NEW current \in Nat, NEW disabled \in BOOLEAN
    PROVE  /\ NewMintMonitor(last, current, disabled) \in MintMonitorState
           /\ MintTx(NewMintMonitor(last, current, disabled))
           /\ NewBurnMonitor(last, current) \in BurnMonitorState
<1>1. /\ FirstCursor(last, StartHeight, current) \in Nat
      /\ FirstCursor(last, StartBlockNumber, current) \in Nat
  BY StartAssumption DEF FirstCursor
<1>2. limit \in Nat
  BY DEF TypeOK
<1> QED
  BY <1>1, <1>2, NilAssumption
     DEF NewMintMonitor, NewBurnMonitor, MintMonitorState, BurnMonitorState, MintTx

\* The health a validator restarts from is a cursor of each monitor.
LEMMA LastHealthType ==
    ASSUME TypeOK, NEW v \in Validators
    PROVE  LastHealth(v) \in Cursors
BY DEF LastHealth, NoCursors, Cursors, TypeOK

\* The end of a pass of the mint monitor.
LEMMA MintPassDoneTo ==
    ASSUME TypeOK, NEW v \in Validators, NEW start \in Nat, NEW current \in Nat,
           MintPassDone(v, start, current)
    PROVE  \E m \in MintMonitorState :
               /\ MintStepTo(v, m)
               /\ m.pc = "run" /\ m.start = start /\ m.current = current
               /\ m.status = start /\ m.todo = {}
<1> DEFINE m == [mintMonitor[v] EXCEPT !.pc = "run", !.start = start, !.current = current,
                     !.status = start, !.todo = {}, !.success = TRUE]
<1>1. mintMonitor[v] \in MintMonitorState
  BY DEF TypeOK
<1>2. m \in MintMonitorState
  BY <1>1 DEF MintMonitorState
<1>3. /\ m.pc = "run" /\ m.start = start /\ m.current = current
      /\ m.status = start /\ m.todo = {}
  BY <1>1 DEF MintMonitorState
<1>4. mintMonitor' = [mintMonitor EXCEPT ![v] = m]
  BY <1>1 DEF MintPassDone, TypeOK, MintMonitorState
<1>5. MintStepTo(v, m)
  BY <1>3, <1>4 DEF MintStepTo, MintTx
<1> QED
  BY <1>2, <1>3, <1>5

\* The end of a pass of the burn monitor.
LEMMA BurnPassDoneTo ==
    ASSUME TypeOK, NEW v \in Validators, NEW start \in Nat, NEW current \in Nat,
           BurnPassDone(v, start, current)
    PROVE  \E m \in BurnMonitorState :
               /\ BurnStepTo(v, m)
               /\ m.pc = "run" /\ m.start = start /\ m.current = current
               /\ m.status = start /\ m.todo = {}
<1> DEFINE m == [burnMonitor[v] EXCEPT !.pc = "run", !.start = start, !.current = current,
                     !.status = start, !.todo = {}, !.success = TRUE]
<1>1. burnMonitor[v] \in BurnMonitorState
  BY DEF TypeOK
<1>2. m \in BurnMonitorState
  BY <1>1 DEF BurnMonitorState
<1>3. /\ m.pc = "run" /\ m.start = start /\ m.current = current
      /\ m.status = start /\ m.todo = {}
  BY <1>1 DEF BurnMonitorState
<1>4. burnMonitor' = [burnMonitor EXCEPT ![v] = m]
  BY <1>1 DEF BurnPassDone, TypeOK, BurnMonitorState
<1> QED
  BY <1>2, <1>3, <1>4 DEF BurnStepTo

\* The state of a mint monitor that has begun a pass.
LEMMA UpdateCurrentHeightTo ==
    ASSUME TypeOK, NEW v \in Validators, UpdateCurrentHeight(v)
    PROVE  \E m \in MintMonitorState, current \in {poktHeight, mintMonitor[v].current} :
               /\ MintStepTo(v, m)
               /\ m.start = mintMonitor[v].start /\ m.current = current
               /\ \/ /\ m.pc = "query" /\ m.start < current
                     /\ m.page = 1 /\ m.success = TRUE
                     /\ m.status = mintMonitor[v].status /\ m.todo = mintMonitor[v].todo
                  \/ m.pc = "run" /\ m.status = m.start /\ m.todo = {}
<1> DEFINE old == mintMonitor[v]
<1>1. old \in MintMonitorState
  BY DEF TypeOK
<1>2. old.start \in Nat /\ old.current \in Nat /\ poktHeight \in Nat
  BY <1>1 DEF MintMonitorState, TypeOK
<1>3. PICK current \in {poktHeight, old.current} :
          IF old.start < current
          THEN mintMonitor' = [mintMonitor EXCEPT
                   ![v].pc = "query", ![v].current = current,
                   ![v].page = 1, ![v].success = TRUE]
          ELSE MintPassDone(v, old.start, current)
  BY DEF UpdateCurrentHeight
<1>4. current \in Nat
  BY <1>2
<1>5. CASE old.start < current
  <2> DEFINE m == [old EXCEPT !.pc = "query", !.current = current, !.page = 1, !.success = TRUE]
  <2>1. m \in MintMonitorState
    BY <1>1, <1>4 DEF MintMonitorState
  <2>2. /\ m.pc = "query" /\ m.start = old.start /\ m.current = current
        /\ m.page = 1 /\ m.success = TRUE /\ m.status = old.status /\ m.todo = old.todo
    BY <1>1 DEF MintMonitorState
  <2>3. mintMonitor' = [mintMonitor EXCEPT ![v] = m]
    BY <1>1, <1>3, <1>5 DEF TypeOK, MintMonitorState
  <2>4. MintStepTo(v, m)
    BY <2>2, <2>3 DEF MintStepTo, MintTx
  <2> HIDE DEF m
  <2> QED
    BY <1>5, <2>1, <2>2, <2>4
<1>6. CASE ~(old.start < current)
  <2>1. MintPassDone(v, old.start, current)
    BY <1>3, <1>6
  <2>2. PICK m \in MintMonitorState :
            /\ MintStepTo(v, m)
            /\ m.pc = "run" /\ m.start = old.start /\ m.current = current
            /\ m.status = old.start /\ m.todo = {}
    BY <1>2, <1>4, <2>1, MintPassDoneTo
  <2> QED
    BY <2>2
<1> QED
  BY <1>5, <1>6

\* The state of a mint monitor that has one page more.
LEMMA QueryPageTo ==
    ASSUME TypeOK, NEW v \in Validators, QueryPage(v)
    PROVE  \E m \in MintMonitorState, page \in SUBSET Remaining(v) :
               /\ MintStepTo(v, m)
               /\ IsPage(page, Remaining(v))
               /\ m.pc = (IF LastPage(v, page) THEN "txs" ELSE "query")
               /\ m.page = mintMonitor[v].page + 1
               /\ m.todo = mintMonitor[v].todo \cup page
               /\ m.start = mintMonitor[v].start /\ m.current = mintMonitor[v].current
               /\ m.status = mintMonitor[v].status /\ m.success = mintMonitor[v].success
<1> DEFINE old == mintMonitor[v]
<1>1. old \in MintMonitorState
  BY DEF TypeOK
<1>2. PICK page \in SUBSET Remaining(v) :
          /\ IsPage(page, Remaining(v))
          /\ mintMonitor' = [mintMonitor EXCEPT
                 ![v].pc = IF LastPage(v, page) THEN "txs" ELSE "query",
                 ![v].page = @ + 1, ![v].todo = @ \cup page]
  BY DEF QueryPage
<1>3. page \subseteq Deposits
  BY DEF Remaining
<1> DEFINE pc == IF LastPage(v, page) THEN "txs" ELSE "query"
           m == [old EXCEPT !.pc = pc, !.page = @ + 1, !.todo = @ \cup page]
<1>4. pc \in {"txs", "query"}
  OBVIOUS
<1> HIDE DEF pc
<1>5. m \in MintMonitorState
  <2>1. old.page + 1 \in Nat /\ (old.todo \cup page) \in SUBSET Deposits
    BY <1>1, <1>3 DEF MintMonitorState
  <2> QED
    BY <1>1, <1>4, <2>1 DEF MintMonitorState
<1>6. /\ m.pc = pc /\ m.page = old.page + 1 /\ m.todo = old.todo \cup page
      /\ m.start = old.start /\ m.current = old.current
      /\ m.status = old.status /\ m.success = old.success
  BY <1>1 DEF MintMonitorState
<1>7. mintMonitor' = [mintMonitor EXCEPT ![v] = m]
  BY <1>1, <1>2 DEF TypeOK, MintMonitorState, pc
<1>8. MintStepTo(v, m)
  BY <1>4, <1>6, <1>7 DEF MintStepTo, MintTx
<1> HIDE DEF m
<1> QED
  BY <1>2, <1>5, <1>6, <1>8 DEF pc

\* The state of a mint monitor that has looked for a deposit elsewhere.
LEMMA FindElsewhereTo ==
    ASSUME TypeOK, NEW v \in Validators, NEW d \in Deposits, FindElsewhere(v, d)
    PROVE  \E m \in MintMonitorState :
               /\ MintStepTo(v, m)
               /\ d \in mintMonitor[v].todo
               /\ \/ FoundElsewhere(v, d) /\ m.pc = "txs" /\ m.todo = mintMonitor[v].todo \ {d}
                  \/ m.pc = "insert" /\ m.tx = d /\ m.todo = mintMonitor[v].todo
               /\ m.start = mintMonitor[v].start /\ m.current = mintMonitor[v].current
               /\ m.status = mintMonitor[v].status /\ m.success = mintMonitor[v].success
<1> DEFINE old == mintMonitor[v]
<1>1. old \in MintMonitorState
  BY DEF TypeOK
<1>2. old.pc = "txs" /\ d \in old.todo
  BY DEF FindElsewhere
<1>3. CASE /\ FoundElsewhere(v, d)
           /\ mintMonitor' = [mintMonitor EXCEPT ![v].todo = @ \ {d}]
  <2> DEFINE m == [old EXCEPT !.todo = @ \ {d}]
  <2>1. m \in MintMonitorState
    BY <1>1 DEF MintMonitorState
  <2>2. /\ m.pc = "txs" /\ m.todo = old.todo \ {d} /\ m.start = old.start
        /\ m.current = old.current /\ m.status = old.status /\ m.success = old.success
    BY <1>1, <1>2 DEF MintMonitorState
  <2>3. mintMonitor' = [mintMonitor EXCEPT ![v] = m]
    BY <1>1, <1>3 DEF TypeOK, MintMonitorState
  <2>4. MintStepTo(v, m)
    BY <2>2, <2>3 DEF MintStepTo, MintTx
  <2> HIDE DEF m
  <2> QED
    BY <1>2, <1>3, <2>1, <2>2, <2>4
<1>4. CASE mintMonitor' = [mintMonitor EXCEPT ![v].pc = "insert", ![v].tx = d]
  <2> DEFINE m == [old EXCEPT !.pc = "insert", !.tx = d]
  <2>1. m \in MintMonitorState
    BY <1>1 DEF MintMonitorState
  <2>2. /\ m.pc = "insert" /\ m.tx = d /\ m.todo = old.todo /\ m.start = old.start
        /\ m.current = old.current /\ m.status = old.status /\ m.success = old.success
    BY <1>1 DEF MintMonitorState
  <2>3. mintMonitor' = [mintMonitor EXCEPT ![v] = m]
    BY <1>1, <1>4 DEF TypeOK, MintMonitorState
  <2>4. MintStepTo(v, m)
    BY <2>2, <2>3 DEF MintStepTo, MintTx
  <2> HIDE DEF m
  <2> QED
    BY <1>2, <2>1, <2>2, <2>4
<1> QED
  BY <1>3, <1>4 DEF FindElsewhere

\* The state of a mint monitor that has inserted a deposit, or failed to.
LEMMA InsertDepositTo ==
    ASSUME TypeInv, NEW v \in Validators, InsertDeposit(v)
    PROVE  \E m \in MintMonitorState, ok \in BOOLEAN :
               /\ MintStepTo(v, m)
               /\ mintMonitor[v].pc = "insert"
               /\ mintMonitor[v].tx \in Deposits
               /\ m.pc = "txs" /\ m.todo = mintMonitor[v].todo \ {mintMonitor[v].tx}
               /\ m.start = mintMonitor[v].start /\ m.current = mintMonitor[v].current
               /\ m.status = mintMonitor[v].status
               /\ m.success = (mintMonitor[v].success /\ ok)
               /\ mints' \cup invalidMints' =
                      mints \cup invalidMints \cup (IF ok THEN {mintMonitor[v].tx} ELSE {})
               /\ mints' \subseteq Deposits /\ invalidMints' \subseteq Deposits
<1> DEFINE old == mintMonitor[v]
<1>1. old \in MintMonitorState
  BY DEF TypeInv, TypeOK
<1>2. old.pc = "insert" /\ old.tx \in Deposits
  BY DEF InsertDeposit, TypeInv, MintTx
<1>3. PICK ok \in BOOLEAN :
          /\ mints' = IF ok /\ Handler(v, old.tx) = "mint" THEN mints \cup {old.tx} ELSE mints
          /\ invalidMints' = IF ok /\ Handler(v, old.tx) # "mint"
                             THEN invalidMints \cup {old.tx} ELSE invalidMints
          /\ mintMonitor' = [mintMonitor EXCEPT
                 ![v].pc = "txs", ![v].tx = Nil,
                 ![v].todo = @ \ {old.tx}, ![v].success = @ /\ ok]
  BY DEF InsertDeposit
<1> DEFINE m == [old EXCEPT !.pc = "txs", !.tx = Nil, !.todo = @ \ {old.tx}, !.success = @ /\ ok]
<1>4. m \in MintMonitorState
  BY <1>1 DEF MintMonitorState
<1>5. /\ m.pc = "txs" /\ m.todo = old.todo \ {old.tx} /\ m.start = old.start
      /\ m.current = old.current /\ m.status = old.status /\ m.success = (old.success /\ ok)
  BY <1>1 DEF MintMonitorState
<1>6. mintMonitor' = [mintMonitor EXCEPT ![v] = m]
  BY <1>1, <1>3 DEF TypeInv, TypeOK, MintMonitorState
<1>7. MintStepTo(v, m)
  BY <1>5, <1>6 DEF MintStepTo, MintTx
<1>8. mints \subseteq Deposits /\ invalidMints \subseteq Deposits
  BY DEF TypeInv, TypeOK
<1>9. /\ mints' \cup invalidMints' =
             mints \cup invalidMints \cup (IF ok THEN {old.tx} ELSE {})
      /\ mints' \subseteq Deposits /\ invalidMints' \subseteq Deposits
  BY <1>2, <1>3, <1>8
<1> HIDE DEF m
<1> QED
  BY <1>2, <1>4, <1>5, <1>7, <1>9

\* The state of a burn monitor that has begun a pass.
LEMMA UpdateCurrentBlockNumberTo ==
    ASSUME TypeOK, NEW v \in Validators, UpdateCurrentBlockNumber(v)
    PROVE  \E m \in BurnMonitorState, current \in {ethBlock, burnMonitor[v].current} :
               /\ BurnStepTo(v, m)
               /\ m.start = burnMonitor[v].start /\ m.current = current
               /\ \/ /\ m.pc = "query" /\ m.start < current
                     /\ m.from = m.start /\ m.success = TRUE
                     /\ m.status = burnMonitor[v].status
                  \/ m.pc = "run" /\ m.status = m.start
<1> DEFINE old == burnMonitor[v]
<1>1. old \in BurnMonitorState
  BY DEF TypeOK
<1>2. old.start \in Nat /\ old.current \in Nat /\ ethBlock \in Nat
  BY <1>1 DEF BurnMonitorState, TypeOK
<1>3. PICK current \in {ethBlock, old.current} :
          IF old.start < current
          THEN burnMonitor' = [burnMonitor EXCEPT
                   ![v].pc = "query", ![v].current = current,
                   ![v].from = old.start, ![v].success = TRUE]
          ELSE BurnPassDone(v, old.start, current)
  BY DEF UpdateCurrentBlockNumber, HasNewBlocks
<1>4. current \in Nat
  BY <1>2
<1>5. CASE old.start < current
  <2> DEFINE m == [old EXCEPT !.pc = "query", !.current = current,
                       !.from = old.start, !.success = TRUE]
  <2>1. m \in BurnMonitorState
    BY <1>1, <1>2, <1>4 DEF BurnMonitorState
  <2>2. /\ m.pc = "query" /\ m.start = old.start /\ m.current = current
        /\ m.from = old.start /\ m.success = TRUE /\ m.status = old.status
    BY <1>1 DEF BurnMonitorState
  <2>3. burnMonitor' = [burnMonitor EXCEPT ![v] = m]
    BY <1>1, <1>3, <1>5 DEF TypeOK, BurnMonitorState
  <2> HIDE DEF m
  <2> QED
    BY <1>5, <2>1, <2>2, <2>3 DEF BurnStepTo
<1>6. CASE ~(old.start < current)
  <2>1. BurnPassDone(v, old.start, current)
    BY <1>3, <1>6
  <2>2. PICK m \in BurnMonitorState :
            /\ BurnStepTo(v, m)
            /\ m.pc = "run" /\ m.start = old.start /\ m.current = current
            /\ m.status = old.start
    BY <1>2, <1>4, <2>1, BurnPassDoneTo
  <2> QED
    BY <2>2
<1> QED
  BY <1>5, <1>6

\* The state of a burn monitor that has opened the filter of a range.
LEMMA QueryBurnsTo ==
    ASSUME TypeOK, NEW v \in Validators, QueryBurns(v)
    PROVE  \E m \in BurnMonitorState :
               /\ BurnStepTo(v, m)
               /\ burnMonitor[v].pc = "query" /\ m.pc = "events"
               /\ m.todo = FilterBurnAndBridge(m.from, RangeEnd(m.from, m.current))
               /\ m.start = burnMonitor[v].start /\ m.current = burnMonitor[v].current
               /\ m.from = burnMonitor[v].from
               /\ m.status = burnMonitor[v].status /\ m.success = burnMonitor[v].success
<1> DEFINE old == burnMonitor[v]
           events == FilterBurnAndBridge(old.from, RangeEnd(old.from, old.current))
<1>1. old \in BurnMonitorState
  BY DEF TypeOK
<1>2. /\ old.pc = "query"
      /\ burnMonitor' = [burnMonitor EXCEPT ![v].pc = "events", ![v].todo = events]
  BY DEF QueryBurns
<1>3. events \subseteq BurnEvents
  BY DEF FilterBurnAndBridge
<1> HIDE DEF events
<1> DEFINE m == [old EXCEPT !.pc = "events", !.todo = events]
<1>4. m \in BurnMonitorState
  BY <1>1, <1>3 DEF BurnMonitorState
<1>5. /\ m.pc = "events" /\ m.todo = events /\ m.start = old.start
      /\ m.current = old.current /\ m.from = old.from
      /\ m.status = old.status /\ m.success = old.success
  BY <1>1 DEF BurnMonitorState
<1>6. burnMonitor' = [burnMonitor EXCEPT ![v] = m]
  BY <1>1, <1>2 DEF TypeOK, BurnMonitorState
<1> HIDE DEF m
<1> QED
  BY <1>2, <1>4, <1>5, <1>6 DEF BurnStepTo, events

\* The state of a burn monitor that is done with an event.
LEMMA BurnEventTo ==
    ASSUME TypeOK, NEW v \in Validators, NEW b \in BurnEvents,
           PassOverBurn(v, b) \/ InsertBurn(v, b)
    PROVE  \E m \in BurnMonitorState, ok \in BOOLEAN :
               /\ BurnStepTo(v, m)
               /\ burnMonitor[v].pc = "events" /\ b \in burnMonitor[v].todo
               /\ m.pc = "events" /\ m.todo = burnMonitor[v].todo \ {b}
               /\ m.start = burnMonitor[v].start /\ m.current = burnMonitor[v].current
               /\ m.from = burnMonitor[v].from /\ m.status = burnMonitor[v].status
               /\ m.success = (burnMonitor[v].success /\ ok)
               /\ burns \subseteq burns' /\ burns' \subseteq BurnEvents
               /\ ok => b \in burns' \/ b \notin AboveFee \/ IsDuplicateBurn(b)
<1> DEFINE old == burnMonitor[v]
<1>1. old \in BurnMonitorState
  BY DEF TypeOK
<1>2. old.pc = "events" /\ b \in old.todo
  BY DEF PassOverBurn, InsertBurn, NextBurn
<1>3. burns \subseteq BurnEvents
  BY DEF TypeOK
<1>4. CASE burnMonitor' = [burnMonitor EXCEPT ![v].todo = @ \ {b}]
  <2> DEFINE m == [old EXCEPT !.todo = @ \ {b}]
  <2>1. m \in BurnMonitorState
    BY <1>1 DEF BurnMonitorState
  <2>2. /\ m.pc = "events" /\ m.todo = old.todo \ {b} /\ m.start = old.start
        /\ m.current = old.current /\ m.from = old.from /\ m.status = old.status
        /\ m.success = old.success
    BY <1>1, <1>2 DEF BurnMonitorState
  <2>3. burnMonitor' = [burnMonitor EXCEPT ![v] = m]
    BY <1>1, <1>4 DEF TypeOK, BurnMonitorState
  <2>4. m.success = (old.success /\ TRUE)
    BY <1>1, <2>2 DEF BurnMonitorState
  <2> HIDE DEF m
  <2>5. CASE PassOverBurn(v, b)
    BY <1>2, <1>3, <2>1, <2>2, <2>3, <2>4, <2>5 DEF PassOverBurn, BurnStepTo
  <2>6. CASE InsertBurn(v, b) /\ burns' = (IF IsDuplicateBurn(b) THEN burns ELSE burns \cup {b})
    BY <1>2, <1>3, <2>1, <2>2, <2>3, <2>4, <2>6 DEF BurnStepTo
  <2>7. CASE InsertBurn(v, b) /\ burnMonitor' = [burnMonitor EXCEPT ![v].todo = @ \ {b}, ![v].success = FALSE]
                              /\ UNCHANGED burns
    <3> DEFINE n == [old EXCEPT !.todo = @ \ {b}, !.success = FALSE]
    <3>1. burnMonitor' = [burnMonitor EXCEPT ![v] = n]
      BY <1>1, <2>7 DEF TypeOK, BurnMonitorState
    <3>2. n = m
      BY <2>3, <3>1 DEF TypeOK
    <3>3. m.success = FALSE
      BY <1>1, <3>2 DEF BurnMonitorState
    <3>4. m.success = (old.success /\ FALSE)
      BY <3>3
    <3> QED
      BY <1>2, <1>3, <2>1, <2>2, <2>3, <2>7, <3>4 DEF BurnStepTo
  <2> QED
    BY <2>5, <2>6, <2>7 DEF InsertBurn
<1>5. CASE burnMonitor' = [burnMonitor EXCEPT ![v].todo = @ \ {b}, ![v].success = FALSE]
           /\ UNCHANGED burns
  <2> DEFINE m == [old EXCEPT !.todo = @ \ {b}, !.success = FALSE]
  <2>1. m \in BurnMonitorState
    BY <1>1 DEF BurnMonitorState
  <2>2. /\ m.pc = "events" /\ m.todo = old.todo \ {b} /\ m.start = old.start
        /\ m.current = old.current /\ m.from = old.from /\ m.status = old.status
        /\ m.success = FALSE
    BY <1>1, <1>2 DEF BurnMonitorState
  <2>3. burnMonitor' = [burnMonitor EXCEPT ![v] = m]
    BY <1>1, <1>5 DEF TypeOK, BurnMonitorState
  <2>4. m.success = (old.success /\ FALSE)
    BY <2>2
  <2> HIDE DEF m
  <2> QED
    BY <1>2, <1>3, <1>5, <2>1, <2>2, <2>3, <2>4 DEF BurnStepTo
<1> QED
  BY <1>4, <1>5 DEF PassOverBurn, InsertBurn


\* The end of a pass whose query failed.
LEMMA QueryTxsFailsTo ==
    ASSUME TypeOK, NEW v \in Validators, QueryTxsFails(v)
    PROVE  \E m \in MintMonitorState :
               /\ MintStepTo(v, m)
               /\ m.pc = "run" /\ m.start = mintMonitor[v].start
               /\ m.current = mintMonitor[v].current
               /\ m.status = m.start /\ m.todo = {}
<1>1. mintMonitor[v].start \in Nat /\ mintMonitor[v].current \in Nat
  BY DEF TypeOK, MintMonitorState
<1>2. MintPassDone(v, mintMonitor[v].start, mintMonitor[v].current)
  BY DEF QueryTxsFails
<1> QED
  BY <1>1, <1>2, MintPassDoneTo

\* The end of a pass over the deposits.
LEMMA FinishTxsTo ==
    ASSUME TypeOK, NEW v \in Validators, FinishTxs(v)
    PROVE  \E m \in MintMonitorState :
               /\ MintStepTo(v, m)
               /\ mintMonitor[v].pc = "txs" /\ mintMonitor[v].todo = {}
               /\ m.pc = "run"
               /\ m.start = (IF mintMonitor[v].success THEN mintMonitor[v].current
                             ELSE mintMonitor[v].start)
               /\ m.current = mintMonitor[v].current
               /\ m.status = m.start /\ m.todo = {}
<1> DEFINE old == mintMonitor[v]
           start == IF old.success THEN old.current ELSE old.start
<1>1. start \in Nat /\ old.current \in Nat
  BY DEF TypeOK, MintMonitorState
<1>2. MintPassDone(v, start, old.current) /\ old.pc = "txs" /\ old.todo = {}
  BY DEF FinishTxs
<1> HIDE DEF start
<1>3. PICK m \in MintMonitorState :
          /\ MintStepTo(v, m)
          /\ m.pc = "run" /\ m.start = start /\ m.current = old.current
          /\ m.status = start /\ m.todo = {}
  BY <1>1, <1>2, MintPassDoneTo
<1> QED
  BY <1>2, <1>3 DEF start

\* The end of a pass whose filter failed.
LEMMA QueryBurnsFailsTo ==
    ASSUME TypeOK, NEW v \in Validators, QueryBurnsFails(v)
    PROVE  \E m \in BurnMonitorState :
               /\ BurnStepTo(v, m)
               /\ m.pc = "run" /\ m.start = burnMonitor[v].start
               /\ m.current = burnMonitor[v].current
               /\ m.status = m.start /\ m.todo = {}
<1>1. burnMonitor[v].start \in Nat /\ burnMonitor[v].current \in Nat
  BY DEF TypeOK, BurnMonitorState
<1>2. BurnPassDone(v, burnMonitor[v].start, burnMonitor[v].current)
  BY DEF QueryBurnsFails
<1> QED
  BY <1>1, <1>2, BurnPassDoneTo

\* The end of a range of blocks.
LEMMA FinishBurnsTo ==
    ASSUME TypeOK, NEW v \in Validators, FinishBurns(v)
    PROVE  \E m \in BurnMonitorState :
               /\ BurnStepTo(v, m)
               /\ burnMonitor[v].pc = "events" /\ burnMonitor[v].todo = {}
               /\ m.current = burnMonitor[v].current
               /\ \/ /\ burnMonitor[v].success /\ m.success
                     /\ burnMonitor[v].from + MaxQueryBlocks < m.current
                     /\ m.pc = "query"
                     /\ m.from = burnMonitor[v].from + MaxQueryBlocks
                     /\ m.start = burnMonitor[v].start
                     /\ m.status = burnMonitor[v].status
                  \/ /\ burnMonitor[v].success
                     /\ ~(burnMonitor[v].from + MaxQueryBlocks < m.current)
                     /\ m.pc = "run" /\ m.start = m.current /\ m.status = m.start
                  \/ m.pc = "run" /\ m.start = burnMonitor[v].start /\ m.status = m.start
<1> DEFINE old == burnMonitor[v]
           next == old.from + MaxQueryBlocks
           start == IF old.success THEN old.current ELSE old.start
<1>1. old \in BurnMonitorState
  BY DEF TypeOK
<1>2. old.from \in Nat /\ next \in Nat /\ start \in Nat /\ old.current \in Nat
  BY <1>1, MaxQueryBlocksAssumption DEF BurnMonitorState
<1>3. /\ old.pc = "events" /\ old.todo = {}
      /\ IF old.success /\ next < old.current
         THEN burnMonitor' = [burnMonitor EXCEPT ![v].pc = "query", ![v].from = next]
         ELSE BurnPassDone(v, start, old.current)
  BY DEF FinishBurns, NoMoreBurns, NextRange, InSync
<1>4. CASE old.success /\ next < old.current
  <2> HIDE DEF next
  <2> DEFINE m == [old EXCEPT !.pc = "query", !.from = next]
  <2>1. m \in BurnMonitorState
    BY <1>1, <1>2 DEF BurnMonitorState
  <2>2. /\ m.pc = "query" /\ m.from = next /\ m.start = old.start /\ m.current = old.current
        /\ m.status = old.status /\ m.success = old.success
    BY <1>1 DEF BurnMonitorState
  <2>3. burnMonitor' = [burnMonitor EXCEPT ![v] = m]
    BY <1>1, <1>3, <1>4 DEF TypeOK, BurnMonitorState
  <2> HIDE DEF m
  <2> QED
    BY <1>3, <1>4, <2>1, <2>2, <2>3 DEF BurnStepTo, next
<1>5. CASE ~(old.success /\ next < old.current)
  <2>1. BurnPassDone(v, start, old.current)
    BY <1>3, <1>5
  <2> HIDE DEF start
  <2>2. PICK m \in BurnMonitorState :
            /\ BurnStepTo(v, m)
            /\ m.pc = "run" /\ m.start = start /\ m.current = old.current
            /\ m.status = start /\ m.todo = {}
    BY <1>2, <2>1, BurnPassDoneTo
  <2>3. CASE old.success
    BY <1>3, <1>5, <2>2, <2>3 DEF start
  <2>4. CASE ~old.success
    BY <1>3, <1>5, <2>2, <2>4 DEF start
  <2> QED
    BY <2>3, <2>4
<1> QED
  BY <1>4, <1>5

\* A step of a mint monitor preserves the types if its new state has them.
LEMMA MintFrameTypes ==
    ASSUME TypeInv, NEW v \in Validators, NEW m \in MintMonitorState, MintStepTo(v, m),
           UNCHANGED <<mintChainVars, burns, health, ethBlock, burnedAt, burnMonitor, counters>>,
           mints' \subseteq Deposits, invalidMints' \subseteq Deposits
    PROVE  TypeInv'
<1>1. mintMonitor' \in [Validators -> MintMonitorState]
  BY DEF MintStepTo, TypeInv, TypeOK
<1>2. \A u \in Validators : MintTx(mintMonitor'[u])
  BY DEF MintStepTo, TypeInv, TypeOK
<1> QED
  BY <1>1, <1>2 DEF TypeInv, TypeOK, mintChainVars, counters

\* A step of a burn monitor preserves the types if its new state has them.
LEMMA BurnFrameTypes ==
    ASSUME TypeInv, NEW v \in Validators, NEW m \in BurnMonitorState, BurnStepTo(v, m),
           UNCHANGED <<burnChainVars, mints, invalidMints, health, poktHeight, paidAt, limit,
                       mintMonitor, counters>>,
           burns' \subseteq BurnEvents
    PROVE  TypeInv'
<1>1. burnMonitor' \in [Validators -> BurnMonitorState]
  BY DEF BurnStepTo, TypeInv, TypeOK
<1> QED
  BY <1>1 DEF TypeInv, TypeOK, burnChainVars, counters

\* A step of a mint monitor keeps the types.
LEMMA MintMonitorTypes ==
    ASSUME TypeInv, NEW v \in Validators, MintMonitorStep(v)
    PROVE  TypeInv'
<1>1. TypeOK
  BY DEF TypeInv
<1>2. mints \subseteq Deposits /\ invalidMints \subseteq Deposits
  BY <1>1 DEF TypeOK
<1>3. UNCHANGED <<burns, health, ethBlock, burnedAt, burnMonitor, counters>>
  BY DEF MintMonitorStep
<1>4. CASE UpdateCurrentHeight(v)
  <2>1. PICK m \in MintMonitorState : MintStepTo(v, m)
    BY <1>1, <1>4, UpdateCurrentHeightTo
  <2>2. UNCHANGED <<mints, invalidMints, mintChainVars>>
    BY <1>4 DEF UpdateCurrentHeight
  <2> QED
    BY <1>2, <1>3, <2>1, <2>2, MintFrameTypes
<1>5. CASE QueryPage(v)
  <2>1. PICK m \in MintMonitorState : MintStepTo(v, m)
    BY <1>1, <1>5, QueryPageTo
  <2>2. UNCHANGED <<mints, invalidMints, mintChainVars>>
    BY <1>5 DEF QueryPage
  <2> QED
    BY <1>2, <1>3, <2>1, <2>2, MintFrameTypes
<1>6. CASE QueryTxsFails(v)
  <2>1. PICK m \in MintMonitorState : MintStepTo(v, m)
    BY <1>1, <1>6, QueryTxsFailsTo
  <2>2. UNCHANGED <<mints, invalidMints, mintChainVars>>
    BY <1>6 DEF QueryTxsFails
  <2> QED
    BY <1>2, <1>3, <2>1, <2>2, MintFrameTypes
<1>7. ASSUME NEW d \in Deposits, FindElsewhere(v, d)
      PROVE  TypeInv'
  <2>1. PICK m \in MintMonitorState : MintStepTo(v, m)
    BY <1>1, <1>7, FindElsewhereTo
  <2>2. UNCHANGED <<mints, invalidMints, mintChainVars>>
    BY <1>7 DEF FindElsewhere
  <2> QED
    BY <1>2, <1>3, <2>1, <2>2, MintFrameTypes
<1>8. CASE InsertDeposit(v)
  <2>1. PICK m \in MintMonitorState :
            /\ MintStepTo(v, m)
            /\ mints' \subseteq Deposits /\ invalidMints' \subseteq Deposits
    BY <1>8, InsertDepositTo
  <2>2. UNCHANGED mintChainVars
    BY <1>8 DEF InsertDeposit
  <2> QED
    BY <1>3, <2>1, <2>2, MintFrameTypes
<1>9. CASE FinishTxs(v)
  <2>1. PICK m \in MintMonitorState : MintStepTo(v, m)
    BY <1>1, <1>9, FinishTxsTo
  <2>2. UNCHANGED <<mints, invalidMints, mintChainVars>>
    BY <1>9 DEF FinishTxs
  <2> QED
    BY <1>2, <1>3, <2>1, <2>2, MintFrameTypes
<1> QED
  BY <1>4, <1>5, <1>6, <1>7, <1>8, <1>9 DEF MintMonitorStep, MintMonitorNext

\* A step of a burn monitor keeps the types.
LEMMA BurnMonitorTypes ==
    ASSUME TypeInv, NEW v \in Validators, BurnMonitorStep(v)
    PROVE  TypeInv'
<1>1. TypeOK
  BY DEF TypeInv
<1>2. burns \subseteq BurnEvents
  BY <1>1 DEF TypeOK
<1>3. UNCHANGED <<mints, invalidMints, health, poktHeight, paidAt, limit, mintMonitor, counters>>
  BY DEF BurnMonitorStep
<1>4. CASE UpdateCurrentBlockNumber(v)
  <2>1. PICK m \in BurnMonitorState : BurnStepTo(v, m)
    BY <1>1, <1>4, UpdateCurrentBlockNumberTo
  <2>2. UNCHANGED <<burns, burnChainVars>>
    BY <1>4 DEF UpdateCurrentBlockNumber
  <2> QED
    BY <1>2, <1>3, <2>1, <2>2, BurnFrameTypes
<1>5. CASE QueryBurns(v)
  <2>1. PICK m \in BurnMonitorState : BurnStepTo(v, m)
    BY <1>1, <1>5, QueryBurnsTo
  <2>2. UNCHANGED <<burns, burnChainVars>>
    BY <1>5 DEF QueryBurns
  <2> QED
    BY <1>2, <1>3, <2>1, <2>2, BurnFrameTypes
<1>6. CASE QueryBurnsFails(v)
  <2>1. PICK m \in BurnMonitorState : BurnStepTo(v, m)
    BY <1>1, <1>6, QueryBurnsFailsTo
  <2>2. UNCHANGED <<burns, burnChainVars>>
    BY <1>6 DEF QueryBurnsFails
  <2> QED
    BY <1>2, <1>3, <2>1, <2>2, BurnFrameTypes
<1>7. ASSUME NEW b \in BurnEvents, PassOverBurn(v, b) \/ InsertBurn(v, b)
      PROVE  TypeInv'
  <2>1. PICK m \in BurnMonitorState : BurnStepTo(v, m) /\ burns' \subseteq BurnEvents
    BY <1>1, <1>7, BurnEventTo
  <2>2. UNCHANGED burnChainVars
    BY <1>7 DEF PassOverBurn, InsertBurn
  <2> QED
    BY <1>3, <2>1, <2>2, BurnFrameTypes
<1>8. CASE FinishBurns(v)
  <2>1. PICK m \in BurnMonitorState : BurnStepTo(v, m)
    BY <1>1, <1>8, FinishBurnsTo
  <2>2. UNCHANGED <<burns, burnChainVars>>
    BY <1>8 DEF FinishBurns
  <2> QED
    BY <1>2, <1>3, <2>1, <2>2, BurnFrameTypes
<1> QED
  BY <1>4, <1>5, <1>6, <1>7, <1>8 DEF BurnMonitorStep, BurnMonitorNext

\* What PostHealth stores is a cursor of each monitor.
LEMMA ServiceHealthsType ==
    ASSUME TypeOK, NEW v \in Validators
    PROVE  ServiceHealths(v) \in Cursors
<1>1. mintMonitor[v].status \in Nat \cup {Nil} /\ burnMonitor[v].status \in Nat \cup {Nil}
  BY DEF TypeOK, MintMonitorState, BurnMonitorState
<1> QED
  BY <1>1 DEF ServiceHealths, Cursors, Services

\* A crash leaves a monitor made anew at the cursors of the last health.
LEMMA CrashTo ==
    ASSUME TypeOK, NEW v \in Validators, Crash(v)
    PROVE  \E disabled \in BOOLEAN, h \in {poktHeight, 0}, b \in {ethBlock, 0} :
               /\ CallsFail \/ (h = poktHeight /\ b = ethBlock)
               /\ MintStepTo(v, NewMintMonitor(LastHealth(v)["mint"], h, disabled))
               /\ BurnStepTo(v, NewBurnMonitor(LastHealth(v)["burn"], b))
               /\ NewMintMonitor(LastHealth(v)["mint"], h, disabled) \in MintMonitorState
               /\ NewBurnMonitor(LastHealth(v)["burn"], b) \in BurnMonitorState
<1>1. PICK disabled \in BOOLEAN, h \in {poktHeight, 0}, b \in {ethBlock, 0} :
          /\ CallsFail \/ (h = poktHeight /\ b = ethBlock)
          /\ mintMonitor' = [mintMonitor EXCEPT
                 ![v] = NewMintMonitor(LastHealth(v)["mint"], h, disabled)]
          /\ burnMonitor' = [burnMonitor EXCEPT
                 ![v] = NewBurnMonitor(LastHealth(v)["burn"], b)]
  BY ChoicesAssumption DEF Crash
<1>2. h \in Nat /\ b \in Nat
  BY DEF TypeOK
<1>3. LastHealth(v)["mint"] \in Nat \cup {Nil} /\ LastHealth(v)["burn"] \in Nat \cup {Nil}
  BY LastHealthType DEF Cursors, Services
<1>4. /\ NewMintMonitor(LastHealth(v)["mint"], h, disabled) \in MintMonitorState
      /\ MintTx(NewMintMonitor(LastHealth(v)["mint"], h, disabled))
  BY <1>2, <1>3, NewMonitorTypes
<1>5. NewBurnMonitor(LastHealth(v)["burn"], b) \in BurnMonitorState
  BY <1>2, <1>3, NewMonitorTypes
<1> QED
  BY <1>1, <1>4, <1>5 DEF MintStepTo, BurnStepTo

\* The initial state has the types.
LEMMA InitTypes == Init => TypeInv
<1> SUFFICES ASSUME Init PROVE TypeInv
  OBVIOUS
<1>1. FirstHeight \in Nat /\ FirstBlock \in Nat /\ limit \in Nat
  BY FirstAssumption, ChoicesAssumption DEF Init
<1>2. PICK disabled \in [Validators -> MintDisabledValues] :
          mintMonitor = [v \in Validators |-> NewMintMonitor(Nil, FirstHeight, disabled[v])]
  BY DEF Init
<1>3. ASSUME NEW v \in Validators
      PROVE  /\ NewMintMonitor(Nil, FirstHeight, disabled[v]) \in MintMonitorState
             /\ MintTx(NewMintMonitor(Nil, FirstHeight, disabled[v]))
             /\ NewBurnMonitor(Nil, FirstBlock) \in BurnMonitorState
  <2>1. disabled[v] \in BOOLEAN
    BY ChoicesAssumption
  <2>2. /\ FirstCursor(Nil, StartHeight, FirstHeight) \in Nat
        /\ FirstCursor(Nil, StartBlockNumber, FirstBlock) \in Nat
    BY <1>1, StartAssumption DEF FirstCursor
  <2> QED
    BY <1>1, <2>1, <2>2 DEF NewMintMonitor, NewBurnMonitor, MintMonitorState,
       BurnMonitorState, MintTx
<1>4. mintMonitor \in [Validators -> MintMonitorState]
  BY <1>2, <1>3
<1>5. \A v \in Validators : MintTx(mintMonitor[v])
  BY <1>2, <1>3
<1>6. burnMonitor \in [Validators -> BurnMonitorState]
  BY <1>3 DEF Init
<1>7. health \in [Validators -> Cursors]
  BY DEF Init, NoCursors, Cursors
<1> QED
  BY <1>1, <1>4, <1>5, <1>6, <1>7 DEF TypeInv, TypeOK, Init

\* A step of a monitor, of the health service or of the environment.
LEMMA NextTypes == TypeInv /\ [Next]_vars => TypeInv'
<1> SUFFICES ASSUME TypeInv, [Next]_vars PROVE TypeInv'
  OBVIOUS
<1>1. TypeOK
  BY DEF TypeInv
<1>2. ASSUME NEW v \in MintMonitors, MintMonitorStep(v) PROVE TypeInv'
  BY <1>2, MintMonitorTypes, MonitorsAssumption
<1>3. ASSUME NEW v \in BurnMonitors, BurnMonitorStep(v) PROVE TypeInv'
  BY <1>3, BurnMonitorTypes, MonitorsAssumption
<1>4. ASSUME NEW v \in Validators, PostHealth(v) PROVE TypeInv'
  BY <1>1, <1>4, ServiceHealthsType
     DEF PostHealth, TypeInv, TypeOK, chainVars, counters
<1>5. ASSUME NEW v \in Validators, Crash(v) PROVE TypeInv'
  <2>1. PICK disabled \in BOOLEAN, h \in {poktHeight, 0}, b \in {ethBlock, 0} :
            /\ MintStepTo(v, NewMintMonitor(LastHealth(v)["mint"], h, disabled))
            /\ BurnStepTo(v, NewBurnMonitor(LastHealth(v)["burn"], b))
            /\ NewMintMonitor(LastHealth(v)["mint"], h, disabled) \in MintMonitorState
            /\ NewBurnMonitor(LastHealth(v)["burn"], b) \in BurnMonitorState
    BY <1>1, <1>5, CrashTo
  <2> DEFINE m == NewMintMonitor(LastHealth(v)["mint"], h, disabled)
             n == NewBurnMonitor(LastHealth(v)["burn"], b)
  <2>2. /\ MintStepTo(v, m) /\ m \in MintMonitorState
        /\ BurnStepTo(v, n) /\ n \in BurnMonitorState
    BY <2>1
  <2> HIDE DEF m, n
  <2>3. mintMonitor' \in [Validators -> MintMonitorState]
    BY <1>1, <2>2 DEF MintStepTo, TypeOK
  <2>4. burnMonitor' \in [Validators -> BurnMonitorState]
    BY <1>1, <2>2 DEF BurnStepTo, TypeOK
  <2>5. \A u \in Validators : MintTx(mintMonitor'[u])
    BY <1>1, <2>2 DEF MintStepTo, TypeInv, TypeOK
  <2>6. UNCHANGED <<dbVars, chainVars, reorgs>> /\ crashes' = crashes + 1
    BY <1>5 DEF Crash
  <2> QED
    BY <2>3, <2>4, <2>5, <2>6 DEF TypeInv, TypeOK, dbVars, chainVars
<1>6. ASSUME NEW new \in SUBSET Deposits, PocketBlock(new) PROVE TypeInv'
  BY <1>6 DEF PocketBlock, TypeInv, TypeOK, dbVars, counters
<1>7. ASSUME NEW new \in SUBSET BurnEvents, EthereumBlock(new) PROVE TypeInv'
  BY <1>7 DEF EthereumBlock, TypeInv, TypeOK, dbVars, counters
<1>8. ASSUME NEW new \in SUBSET BurnEvents, Reorg(new) PROVE TypeInv'
  BY <1>8 DEF Reorg, TypeInv, TypeOK, dbVars
<1>9. ASSUME NEW l \in Limits, SetMintLimit(l) PROVE TypeInv'
  BY <1>9, ChoicesAssumption DEF SetMintLimit, TypeInv, TypeOK, dbVars, counters
<1>10. CASE UNCHANGED vars
  BY <1>10 DEF vars, TypeInv, TypeOK, dbVars, chainVars, counters
<1> QED
  BY <1>2, <1>3, <1>4, <1>5, <1>6, <1>7, <1>8, <1>9, <1>10 DEF Next

\* Types are inductive together with what the mint monitor holds before it
\* inserts.
THEOREM MonitorsTypeInv == Spec => []TypeInv
<1>1. Init => TypeInv
  BY InitTypes
<1>2. TypeInv /\ [Next]_vars => TypeInv'
  BY NextTypes
<1> QED
  BY <1>1, <1>2, PTL DEF Spec

\* Every variable of the two monitors, of the collections they fill and of
\* the chains they follow keeps its type, for any number of validators.
THEOREM MonitorsTypeOK == Spec => []TypeOK
<1>1. TypeInv => TypeOK
  BY DEF TypeInv
<1> QED
  BY <1>1, MonitorsTypeInv, PTL

=============================================================================
