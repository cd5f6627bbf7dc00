---------------------------- MODULE BlockRanges -----------------------------
(***************************************************************************)
(* The block ranges in which the two services that follow Ethereum query   *)
(* events, SyncTxs of eth/executor.go and eth/monitor.go: from the cursor  *)
(* to the current block, both included, in chunks of MAX_QUERY_BLOCKS.     *)
(***************************************************************************)
EXTENDS Integers

CONSTANT MaxQueryBlocks     \* MAX_QUERY_BLOCKS of eth/client

ASSUME MaxQueryBlocksAssumption == MaxQueryBlocks \in Nat \ {0}

\* SyncTxs queries nothing unless the chain has moved past the cursor.
HasNewBlocks(start, current) == start < current

\* The last block of the query that begins at block "from".
RangeEnd(from, current) ==
    IF from + MaxQueryBlocks > current THEN current ELSE from + MaxQueryBlocks

\* Mutant of NextRange: the next chunk leaves a block out.
NextRangeSkips(from) == from + MaxQueryBlocks + 2

\* Where the query after the one that begins at block "from" begins.
NextRange(from) == from + MaxQueryBlocks

\* Whether a query that begins at block "from" is made at all.
InSync(from, current) == from < current

=============================================================================
