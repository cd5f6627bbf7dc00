---------------------------- MODULE MintMonitor -----------------------------
(***************************************************************************)
(* The mint monitor of every validator (cosmos/monitor.go): it follows the *)
(* transactions to the vault from a cursor of its own, and inserts a       *)
(* document into "mints" or "invalidMints" for each.                       *)
(***************************************************************************)
EXTENDS MonitorDB, ValidateTx

CONSTANTS
    TxOfDeposit,    \* the transaction of a deposit, as the node returns it
    PageSize,       \* the transactions the node returns at a time
    MaxPageDepth    \* maxPageDepth of cosmos/client

ASSUME PagesAssumption == PageSize \in Nat \ {0} /\ MaxPageDepth \in Nat \ {0}

VARIABLE mintMonitor    \* the local state of each validator's mint monitor

MintMonitorState ==
    [ pc       : {"run", "query", "txs", "insert"},
      start    : Nat,                   \* startHeight, the cursor
      current  : Nat,                   \* currentHeight
      maximum  : Nat,                   \* maximumAmount
      disabled : BOOLEAN,               \* Pocket.MintDisabled
      page     : Nat,                   \* the page the query is at
      todo     : SUBSET Deposits,       \* the transactions still to do
      tx       : Deposits \cup {Nil},   \* the one being handled
      success  : BOOLEAN,               \* whether every one was handled
      status   : Nat \cup {Nil} ]       \* PoktHeight of the service's health

\* NewMintMonitor: the current height is 0 if the node does not answer; the
\* maximal amount is fetched only here.
NewMintMonitor(last, current, disabled) ==
    [ pc |-> "run", start |-> FirstCursor(last, StartHeight, current),
      current |-> current, maximum |-> limit, disabled |-> disabled, page |-> 1,
      todo |-> {}, tx |-> Nil, success |-> TRUE, status |-> Nil ]

mintChainVars == <<poktHeight, paidAt, limit>>

-----------------------------------------------------------------------------

\* The end of Run: updateHealth copies the cursor into the service's health.
MintPassDone(v, start, current) ==
    mintMonitor' = [mintMonitor EXCEPT
        ![v].pc = "run", ![v].start = start, ![v].current = current,
        ![v].status = start, ![v].todo = {}, ![v].success = TRUE]

\* UpdateCurrentHeight, and SyncTxs up to its query.
UpdateCurrentHeight(v) ==
    /\ mintMonitor[v].pc = "run"
    /\ \E current \in {poktHeight} \cup (IF CallsFail THEN {mintMonitor[v].current} ELSE {}) :
           IF mintMonitor[v].start < current
           THEN mintMonitor' = [mintMonitor EXCEPT
                    ![v].pc = "query", ![v].current = current,
                    ![v].page = 1, ![v].success = TRUE]
           ELSE MintPassDone(v, mintMonitor[v].start, current)
    /\ UNCHANGED <<mints, invalidMints, mintChainVars>>

\* What the node has from the cursor on, and the query has not returned yet;
\* blocks after the current height are included.
Remaining(v) ==
    {d \in Deposits \ mintMonitor[v].todo :
        paidAt[d] # Nil /\ paidAt[d] >= mintMonitor[v].start}

\* A page of the transactions in "rest", the oldest ones.
IsPage(page, rest) ==
    /\ \/ page = rest /\ Cardinality(rest) <= PageSize
       \/ Cardinality(page) = PageSize
    /\ \A d \in page, other \in rest \ page : paidAt[d] <= paidAt[other]

\* getTxsByEvents stops at an empty page, when it has as many transactions as
\* the node counts, or at the largest page number.
LastPage(v, page) ==
    \/ page = {}
    \/ page = Remaining(v)
    \/ mintMonitor[v].page >= MaxPageDepth

\* GetTxsSentToAddressAfterHeight asks for page after page, and the chain may
\* grow in between.
QueryPage(v) ==
    /\ mintMonitor[v].pc = "query"
    /\ \E page \in SUBSET Remaining(v) :
           /\ IsPage(page, Remaining(v))
           /\ mintMonitor' = [mintMonitor EXCEPT
                  ![v].pc = IF LastPage(v, page) THEN "txs" ELSE "query",
                  ![v].page = @ + 1, ![v].todo = @ \cup page]
    /\ UNCHANGED <<mints, invalidMints, mintChainVars>>

\* A page cannot be had: the pass ends with an error.
QueryTxsFails(v) ==
    /\ CallsFail
    /\ mintMonitor[v].pc = "query"
    /\ MintPassDone(v, mintMonitor[v].start, mintMonitor[v].current)
    /\ UNCHANGED <<mints, invalidMints, mintChainVars>>

\* Which handler SyncTxs calls: "failed" for HandleFailedMint, "refund" for
\* HandleInvalidMint, "mint" for HandleValidMint.
Handler(v, d) ==
    LET verdict == Verdict(TxOfDeposit[d], mintMonitor[v].maximum)
    IN  IF verdict = "mint" /\ mintMonitor[v].disabled THEN "refund" ELSE verdict

\* Mutant of FoundElsewhere: HandleInvalidMint inserts without a look.
FoundElsewhereEnabled(v, d) ==
    Handler(v, d) = "mint" /\ d \in invalidMints

\* Mutant of FoundElsewhere: HandleValidMint inserts without a look.
FoundElsewhereDisabled(v, d) ==
    Handler(v, d) = "refund" /\ mintMonitor[v].disabled /\ d \in mints

\* The collection a handler looks into before it inserts, if it looks at all:
\* FindOne with an error of any kind counts as finding nothing.
FoundElsewhere(v, d) ==
    \/ Handler(v, d) = "refund" /\ mintMonitor[v].disabled /\ d \in mints
    \/ Handler(v, d) = "mint" /\ d \in invalidMints

LooksElsewhere(v, d) ==
    \/ Handler(v, d) = "refund" /\ mintMonitor[v].disabled
    \/ Handler(v, d) = "mint"

\* FindOne in the other collection, if the handler looks there.
FindElsewhere(v, d) ==
    /\ mintMonitor[v].pc = "txs"
    /\ d \in mintMonitor[v].todo
    /\ \/ /\ FoundElsewhere(v, d)
          /\ mintMonitor' = [mintMonitor EXCEPT ![v].todo = @ \ {d}]
       \/ /\ ~FoundElsewhere(v, d) \/ (CallsFail /\ LooksElsewhere(v, d))
          /\ mintMonitor' = [mintMonitor EXCEPT ![v].pc = "insert", ![v].tx = d]
    /\ UNCHANGED <<mints, invalidMints, mintChainVars>>

\* InsertOne; the unique index on transaction_hash makes a second document of
\* the collection a duplicate, which counts as handled.
InsertDeposit(v) ==
    /\ mintMonitor[v].pc = "insert"
    /\ LET d == mintMonitor[v].tx
       IN  \E ok \in {TRUE} \cup (IF CallsFail THEN {FALSE} ELSE {}) :
               /\ mints' = IF ok /\ Handler(v, d) = "mint" THEN mints \cup {d} ELSE mints
               /\ invalidMints' = IF ok /\ Handler(v, d) # "mint"
                                  THEN invalidMints \cup {d} ELSE invalidMints
               /\ mintMonitor' = [mintMonitor EXCEPT
                      ![v].pc = "txs", ![v].tx = Nil,
                      ![v].todo = @ \ {d}, ![v].success = @ /\ ok]
    /\ UNCHANGED mintChainVars

\* Mutant of FinishTxs: the cursor moves to the newest block.
FinishTxsNewest(v) ==
    /\ mintMonitor[v].pc = "txs"
    /\ mintMonitor[v].todo = {}
    /\ MintPassDone(v, IF mintMonitor[v].success THEN poktHeight ELSE mintMonitor[v].start,
                    mintMonitor[v].current)
    /\ UNCHANGED <<mints, invalidMints, mintChainVars>>

\* The end of SyncTxs: the cursor moves to the height read before the query.
FinishTxs(v) ==
    /\ mintMonitor[v].pc = "txs"
    /\ mintMonitor[v].todo = {}
    /\ LET current == mintMonitor[v].current
       IN  MintPassDone(v, IF mintMonitor[v].success THEN current ELSE mintMonitor[v].start,
                        current)
    /\ UNCHANGED <<mints, invalidMints, mintChainVars>>

MintMonitorNext(v) ==
    \/ UpdateCurrentHeight(v)
    \/ QueryPage(v)
    \/ QueryTxsFails(v)
    \/ \E d \in Deposits : FindElsewhere(v, d)
    \/ InsertDeposit(v)
    \/ FinishTxs(v)

=============================================================================
