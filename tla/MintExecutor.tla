---------------------------- MODULE MintExecutor ----------------------------
(***************************************************************************)
(* The mint executor of every validator (eth/executor.go): it follows the  *)
(* Minted events of the wPOKT contract from a cursor of its own, and marks *)
(* the documents they belong to as successful.  The cursor moves only      *)
(* after a pass in which every event was handled.                          *)
(***************************************************************************)
EXTENDS MintDB, BlockRanges

CONSTANT Executors      \* the validators whose mint executor is enabled

ASSUME ExecutorsAssumption == Executors \subseteq Validators

VARIABLE executor   \* the local state of each validator's mint executor

ExecutorPC ==
    {"run",         \* between two passes
     "query",       \* about to query the range that begins at "from"
     "events",      \* between two events of the range
     "mark"}        \* holds the recipient's lock, will mark the document

ExecutorState ==
    [ pc      : ExecutorPC,
      start   : Nat,            \* startBlockNumber, the cursor
      current : Nat,            \* currentBlockNumber
      from    : Nat,            \* the first block of the range
      next    : Nat,            \* the next event of the range
      success : BOOLEAN ]       \* whether every event so far was handled

NewExecutor ==
    [ pc |-> "run", start |-> 0, current |-> 0,
      from |-> 0, next |-> 0, success |-> TRUE ]

ExecutorInit == executor = [v \in Validators |-> NewExecutor]

ExecutorWorker(v) == <<"executor", v>>

\* Mutant of MatchesEvent: the filter has no nonce.
MatchesEventOfAmount(m, event) ==
    /\ m \in known
    /\ RecipientOf[m] = RecipientOf[event.mint]
    /\ Amount[m] = Amount[event.mint]
    /\ mints[m].status \in {"confirmed", "signed", "success"}

\* The document HandleMintEvent looks for: the one the filter of UpdateOne
\* matches, if any.
MatchesEvent(m, event) ==
    /\ m \in known
    /\ RecipientOf[m] = RecipientOf[event.mint]
    /\ Amount[m] = Amount[event.mint]
    /\ mints[m].nonce = event.nonce
    /\ mints[m].status \in {"confirmed", "signed", "success"}

-----------------------------------------------------------------------------

\* UpdateCurrentBlockNumber, then SyncTxs if there are new blocks.
UpdateExecutor(v) ==
    /\ executor[v].pc = "run"
    /\ \E current \in {BlockNumber} \cup (IF CallsFail THEN {executor[v].current} ELSE {}) :
           /\ HasNewBlocks(executor[v].start, current)
           /\ executor' = [executor EXCEPT ![v].pc = "query", ![v].current = current,
                                           ![v].from = executor[v].start,
                                           ![v].success = TRUE]
    /\ UNCHANGED <<mintVars, chainVars>>

\* FilterMinted: block "from" has event "from", and so on; there is no event
\* in the start block.
FirstMinted(from) == IF from = 0 THEN 1 ELSE from

\* SyncBlocks opens the filter of a range.
QueryMinted(v) ==
    /\ executor[v].pc = "query"
    /\ executor' = [executor EXCEPT ![v].pc = "events", ![v].next = FirstMinted(executor[v].from)]
    /\ UNCHANGED <<mintVars, chainVars>>

\* The filter cannot be opened, or the iterator fails on a log.
QueryFails(v) ==
    /\ CallsFail
    /\ executor[v].pc \in {"query", "events"}
    /\ executor' = [executor EXCEPT ![v].pc = "run"]
    /\ UNCHANGED <<mintVars, chainVars>>

\* Next of the iterator delivers the events of the range in their order.
HasEvent(v) ==
    /\ executor[v].pc = "events"
    /\ executor[v].next <= RangeEnd(executor[v].from, executor[v].current)

EventRecipient(v) == minted[executor[v].next].mint

\* XLock fails: the event is passed over, and the cursor will not move.
SkipEvent(v) ==
    /\ HasEvent(v)
    /\ CallsFail \/ ~Unlocked(EventRecipient(v))
    /\ executor' = [executor EXCEPT ![v].next = @ + 1, ![v].success = FALSE]
    /\ UNCHANGED <<mintVars, chainVars>>

LockEvent(v) ==
    /\ HasEvent(v)
    /\ Unlocked(EventRecipient(v))
    /\ LockRecipient(EventRecipient(v), ExecutorWorker(v))
    /\ executor' = [executor EXCEPT ![v].pc = "mark"]
    /\ UNCHANGED <<mints, known, chainVars>>

\* HandleMintEvent, then Unlock.  UpdateOne fails when it finds no document;
\* an error of either call is remembered.
MarkMint(v) ==
    /\ executor[v].pc = "mark"
    /\ LET event == minted[executor[v].next]
           found == {m \in Mints : MatchesEvent(m, event)}
       IN  \E m \in found \cup {Nil}, ok \in BOOLEAN :
               /\ m = Nil => ~ok
               /\ ~ok => CallsFail \/ found = {}
               /\ mints' = IF m = Nil THEN mints ELSE [mints EXCEPT ![m].status = "success"]
               /\ IF ok THEN UnlockRecipient(event.mint, ExecutorWorker(v))
                        ELSE ReleaseRecipient(event.mint, ExecutorWorker(v))
               /\ executor' = [executor EXCEPT ![v].pc = "events", ![v].next = @ + 1,
                                               ![v].success = @ /\ ok]
    /\ UNCHANGED <<known, chainVars>>

\* Mutant of FinishRange: the cursor moves although an event failed.
FinishRangeAnyway(v) ==
    /\ executor[v].pc = "events"
    /\ ~HasEvent(v)
    /\ executor' = [executor EXCEPT ![v].pc = "run", ![v].start = executor[v].current]
    /\ UNCHANGED <<mintVars, chainVars>>

\* The end of SyncBlocks: the next range after a success, the end of SyncTxs
\* otherwise; the cursor moves if all ranges succeeded.
FinishRange(v) ==
    /\ executor[v].pc = "events"
    /\ ~HasEvent(v)
    /\ LET next == NextRange(executor[v].from)
       IN  executor' = IF executor[v].success /\ InSync(next, executor[v].current)
                       THEN [executor EXCEPT ![v].pc = "query", ![v].from = next]
                       ELSE [executor EXCEPT
                                ![v].pc = "run",
                                ![v].start = IF executor[v].success
                                             THEN executor[v].current ELSE @]
    /\ UNCHANGED <<mintVars, chainVars>>

ExecutorNext(v) ==
    \/ UpdateExecutor(v)
    \/ QueryMinted(v)
    \/ QueryFails(v)
    \/ SkipEvent(v)
    \/ LockEvent(v)
    \/ MarkMint(v)
    \/ FinishRange(v)

=============================================================================
