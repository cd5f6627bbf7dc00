----------------------------- MODULE MonitorDB ------------------------------
(***************************************************************************)
(* What the two monitors of all validators share: the collections they     *)
(* fill, the newest blocks of both chains, and the documents of the        *)
(* collection "healthchecks", from which a restarted validator takes the   *)
(* cursors of its monitors (app/health.go, main.go).                       *)
(***************************************************************************)
EXTENDS Integers, FiniteSets

CONSTANTS
    Validators,         \* the validator processes
    Deposits,           \* transactions to the vault on the Pocket chain
    BurnEvents,         \* BurnAndBridge events of the wPOKT contract
    FirstHeight,        \* the height of the Pocket chain before the first deposit
    FirstBlock,         \* the newest block of Ethereum before the first burn
    StartHeight,        \* Pocket.StartHeight, 0 for none
    StartBlockNumber,   \* Ethereum.StartBlockNumber, 0 for none
    ReadLastHealth,     \* HealthCheck.ReadLastHealth
    CallsFail,          \* whether calls to the database and to the nodes may fail
    Nil                 \* an empty string, not in a block yet

ASSUME ValidatorsAssumption == IsFiniteSet(Validators)
ASSUME FirstAssumption == FirstHeight \in Nat \ {0} /\ FirstBlock \in Nat \ {0}
ASSUME StartAssumption == StartHeight \in Nat /\ StartBlockNumber \in Nat
ASSUME FlagsAssumption == ReadLastHealth \in BOOLEAN /\ CallsFail \in BOOLEAN
ASSUME NilAssumption == Nil \notin Nat

\* The monitors that report a cursor in a health document.
Services == {"mint", "burn"}
Cursors == [Services -> Nat \cup {Nil}]
NoCursors == [s \in Services |-> Nil]

VARIABLES
    mints,          \* the deposits with a document in "mints"
    invalidMints,   \* the deposits with a document in "invalidMints"
    burns,          \* the events with a document in "burns"
    poktHeight,     \* the height of the Pocket chain
    paidAt,         \* the height of each deposit, or Nil
    ethBlock,       \* the newest block of the Ethereum chain
    burnedAt,       \* the block of each burn event, or Nil
    limit,          \* maxMintLimit of the mint controller
    health          \* the cursors in each validator's health document

-----------------------------------------------------------------------------

\* Mutant of FirstCursor: an empty cursor of the last health is taken over.
FirstCursorEmpty(last, configured, current) == last

\* InitStartHeight and InitStartBlockNumber: the cursor of the last health
\* document, the configured one, or the newest block.
FirstCursor(last, configured, current) ==
    LET start == IF last # Nil THEN last ELSE configured
    IN  IF start > 0 THEN start ELSE current

\* main: the last health document is read only if the configuration says so.
LastHealth(v) == IF ReadLastHealth THEN health[v] ELSE NoCursors

=============================================================================
