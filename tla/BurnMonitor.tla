---------------------------- MODULE BurnMonitor -----------------------------
(***************************************************************************)
(* The burn monitor of every validator (eth/monitor.go): it follows the    *)
(* BurnAndBridge events of the wPOKT contract from a cursor of its own and *)
(* inserts a document into "burns" for each.                               *)
(***************************************************************************)
EXTENDS MonitorDB, BlockRanges

CONSTANTS
    TxOf,           \* the transaction hash of an event
    AboveFee        \* the events with more than the minimal amount

ASSUME BurnEventsAssumption == AboveFee \subseteq BurnEvents /\ DOMAIN TxOf = BurnEvents

VARIABLE burnMonitor    \* the local state of each validator's burn monitor

BurnMonitorState ==
    [ pc      : {"run", "query", "events"},
      start   : Nat,                    \* startBlockNumber, the cursor
      current : Nat,                    \* currentBlockNumber
      from    : Nat,                    \* the first block of the range
      todo    : SUBSET BurnEvents,      \* the events of the range still to do
      success : BOOLEAN,                \* whether every event was handled
      status  : Nat \cup {Nil} ]        \* EthBlockNumber of the service's health

\* NewBurnMonitor: the current block number is 0 if the node does not answer.
NewBurnMonitor(last, current) ==
    [ pc |-> "run", start |-> FirstCursor(last, StartBlockNumber, current),
      current |-> current, from |-> 0, todo |-> {}, success |-> TRUE, status |-> Nil ]

burnChainVars == <<ethBlock, burnedAt>>

-----------------------------------------------------------------------------

\* The end of Run: updateHealth copies the cursor into the service's health.
BurnPassDone(v, start, current) ==
    burnMonitor' = [burnMonitor EXCEPT
        ![v].pc = "run", ![v].start = start, ![v].current = current,
        ![v].status = start, ![v].todo = {}, ![v].success = TRUE]

\* UpdateCurrentBlockNumber, and SyncTxs up to its first query.
UpdateCurrentBlockNumber(v) ==
    /\ burnMonitor[v].pc = "run"
    /\ \E current \in {ethBlock} \cup (IF CallsFail THEN {burnMonitor[v].current} ELSE {}) :
           IF HasNewBlocks(burnMonitor[v].start, current)
           THEN burnMonitor' = [burnMonitor EXCEPT
                    ![v].pc = "query", ![v].current = current,
                    ![v].from = burnMonitor[v].start, ![v].success = TRUE]
           ELSE BurnPassDone(v, burnMonitor[v].start, current)
    /\ UNCHANGED <<burns, burnChainVars>>

\* FilterBurnAndBridge: the events of the blocks, which the iterator delivers.
FilterBurnAndBridge(from, to) == {b \in BurnEvents : burnedAt[b] \in from .. to}

\* SyncBlocks opens the filter of a range.
QueryBurns(v) ==
    /\ burnMonitor[v].pc = "query"
    /\ LET from == burnMonitor[v].from
       IN  burnMonitor' = [burnMonitor EXCEPT
               ![v].pc = "events",
               ![v].todo = FilterBurnAndBridge(from, RangeEnd(from, burnMonitor[v].current))]
    /\ UNCHANGED <<burns, burnChainVars>>

\* The filter cannot be opened, or the iterator fails on a log: Next returns
\* false, Error tells why, and the pass ends without success.
QueryBurnsFails(v) ==
    /\ CallsFail
    /\ burnMonitor[v].pc \in {"query", "events"}
    /\ BurnPassDone(v, burnMonitor[v].start, burnMonitor[v].current)
    /\ UNCHANGED <<burns, burnChainVars>>

\* Next of the iterator delivers an event.
NextBurn(v, b) == burnMonitor[v].pc = "events" /\ b \in burnMonitor[v].todo

\* Next returns false after the last event.
NoMoreBurns(v) == burnMonitor[v].pc = "events" /\ burnMonitor[v].todo = {}

\* An event within the fee is passed over.
PassOverBurn(v, b) ==
    /\ NextBurn(v, b)
    /\ b \notin AboveFee
    /\ burnMonitor' = [burnMonitor EXCEPT ![v].todo = @ \ {b}]
    /\ UNCHANGED <<burns, burnChainVars>>

\* The unique index of "burns" is on transaction_hash and "d.logger.index",
\* a field that no document has: one document per transaction.
IsDuplicateBurn(b) == \E stored \in burns : TxOf[stored] = TxOf[b]

\* HandleBurnEvent: InsertOne; a duplicate counts as handled.
InsertBurn(v, b) ==
    /\ NextBurn(v, b)
    /\ b \in AboveFee
    /\ \/ /\ burns' = IF IsDuplicateBurn(b) THEN burns ELSE burns \cup {b}
          /\ burnMonitor' = [burnMonitor EXCEPT ![v].todo = @ \ {b}]
       \/ /\ CallsFail
          /\ burnMonitor' = [burnMonitor EXCEPT ![v].todo = @ \ {b}, ![v].success = FALSE]
          /\ UNCHANGED burns
    /\ UNCHANGED burnChainVars

\* Mutant of FinishBurns: the cursor moves although an event failed.
FinishBurnsAnyway(v) ==
    /\ NoMoreBurns(v)
    /\ BurnPassDone(v, burnMonitor[v].current, burnMonitor[v].current)
    /\ UNCHANGED <<burns, burnChainVars>>

\* The end of SyncBlocks: the next range after a success, the end of SyncTxs
\* otherwise; the cursor moves if all ranges succeeded.
FinishBurns(v) ==
    /\ NoMoreBurns(v)
    /\ LET next    == NextRange(burnMonitor[v].from)
           current == burnMonitor[v].current
           success == burnMonitor[v].success
       IN  IF success /\ InSync(next, current)
           THEN burnMonitor' = [burnMonitor EXCEPT ![v].pc = "query", ![v].from = next]
           ELSE BurnPassDone(v, IF success THEN current ELSE burnMonitor[v].start, current)
    /\ UNCHANGED <<burns, burnChainVars>>

BurnMonitorNext(v) ==
    \/ UpdateCurrentBlockNumber(v)
    \/ QueryBurns(v)
    \/ QueryBurnsFails(v)
    \/ \E b \in BurnEvents : PassOverBurn(v, b) \/ InsertBurn(v, b)
    \/ FinishBurns(v)

=============================================================================
