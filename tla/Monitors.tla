------------------------------ MODULE Monitors ------------------------------
(***************************************************************************)
(* Filing what the two chains owe: the mint monitors and the burn monitors *)
(* of all validators over one database, the chains they follow, with       *)
(* reorganisations of the newest Ethereum block, the health documents, and *)
(* crashes and restarts of validators, which begin at the cursors of their *)
(* last health document.                                                   *)
(***************************************************************************)
EXTENDS MintMonitor, BurnMonitor

CONSTANTS
    MintMonitors,       \* the validators whose mint monitor is enabled
    BurnMonitors,       \* the validators whose burn monitor is enabled
    MintDisabledValues, \* the values validators may give to MintDisabled
    InitialLimit,       \* maxMintLimit at first
    Limits,             \* the values the owner gives to maxMintLimit later
    MaxHeight,          \* bound on the height of the Pocket chain
    MaxBlock,           \* bound on the blocks of the Ethereum chain
    MaxReorgs,          \* bound on reorganisations
    MaxCrashes          \* bound on crashes

ASSUME MonitorsAssumption == MintMonitors \cup BurnMonitors \subseteq Validators
ASSUME ChoicesAssumption ==
    /\ MintDisabledValues \subseteq BOOLEAN /\ MintDisabledValues # {}
    /\ InitialLimit \in Nat /\ Limits \subseteq Nat
ASSUME BoundsAssumption ==
    /\ MaxHeight \in Nat /\ MaxBlock \in Nat /\ MaxReorgs \in Nat /\ MaxCrashes \in Nat
ASSUME DepositsAssumption == TxOfDeposit \in [Deposits -> Tx] /\ Nil \notin Deposits

VARIABLES
    reorgs,         \* reorganisations so far
    crashes         \* crashes so far

counters == <<reorgs, crashes>>
dbVars == <<mints, invalidMints, burns, health>>
chainVars == <<poktHeight, paidAt, ethBlock, burnedAt, limit>>
vars == <<dbVars, chainVars, mintMonitor, burnMonitor, counters>>

Init ==
    /\ mints = {} /\ invalidMints = {} /\ burns = {}
    /\ poktHeight = FirstHeight /\ ethBlock = FirstBlock
    /\ paidAt = [d \in Deposits |-> Nil]
    /\ burnedAt = [b \in BurnEvents |-> Nil]
    /\ limit = InitialLimit
    /\ health = [v \in Validators |-> NoCursors]
    /\ \E disabled \in [Validators -> MintDisabledValues] :
           mintMonitor = [v \in Validators |-> NewMintMonitor(Nil, FirstHeight, disabled[v])]
    /\ burnMonitor = [v \in Validators |-> NewBurnMonitor(Nil, FirstBlock)]
    /\ reorgs = 0 /\ crashes = 0

-----------------------------------------------------------------------------
(* The environment *)

\* A block of the Pocket chain with the deposits of a set.
PocketBlock(new) ==
    /\ poktHeight < MaxHeight
    /\ \A d \in new : paidAt[d] = Nil
    /\ poktHeight' = poktHeight + 1
    /\ paidAt' = [d \in Deposits |-> IF d \in new THEN poktHeight + 1 ELSE paidAt[d]]
    /\ UNCHANGED <<dbVars, ethBlock, burnedAt, limit, mintMonitor, burnMonitor, counters>>

\* The events of a transaction are in one block.
WholeTxs(new) ==
    \A b \in new : \A other \in BurnEvents : TxOf[other] = TxOf[b] => other \in new

\* A block of the Ethereum chain with the burn events of a set.
EthereumBlock(new) ==
    /\ ethBlock < MaxBlock
    /\ WholeTxs(new) /\ \A b \in new : burnedAt[b] = Nil
    /\ ethBlock' = ethBlock + 1
    /\ burnedAt' = [b \in BurnEvents |-> IF b \in new THEN ethBlock + 1 ELSE burnedAt[b]]
    /\ UNCHANGED <<dbVars, poktHeight, paidAt, limit, mintMonitor, burnMonitor, counters>>

\* Another block takes the place of the newest one, before the last block the
\* model looks at; the transactions of the old one may wait again.
Reorg(new) ==
    /\ reorgs < MaxReorgs
    /\ ethBlock > FirstBlock /\ ethBlock < MaxBlock
    /\ WholeTxs(new) /\ \A b \in new : burnedAt[b] \in {Nil, ethBlock}
    /\ reorgs' = reorgs + 1
    /\ burnedAt' = [b \in BurnEvents |->
                       IF b \in new THEN ethBlock
                       ELSE IF burnedAt[b] = ethBlock THEN Nil ELSE burnedAt[b]]
    /\ UNCHANGED <<dbVars, poktHeight, paidAt, ethBlock, limit,
                   mintMonitor, burnMonitor, crashes>>

\* The owner of the mint controller sets maxMintLimit.
SetMintLimit(l) ==
    /\ limit = InitialLimit
    /\ l # InitialLimit
    /\ limit' = l
    /\ UNCHANGED <<dbVars, poktHeight, paidAt, ethBlock, burnedAt,
                   mintMonitor, burnMonitor, counters>>

-----------------------------------------------------------------------------
(* Health, crashes and restarts *)

\* Mutant of ServiceHealths: a monitor reports the block it has read up to.
ServiceHealthsCurrent(v) ==
    [s \in Services |->
        CASE s = "mint" /\ v \in MintMonitors -> mintMonitor[v].current
          [] s = "burn" /\ v \in BurnMonitors -> burnMonitor[v].current
          [] OTHER -> Nil]

\* ServiceHealths: what the services' last updateHealth stored; a disabled
\* service is left out, one that has not run yet has no cursor.
ServiceHealths(v) ==
    [s \in Services |->
        CASE s = "mint" /\ v \in MintMonitors -> mintMonitor[v].status
          [] s = "burn" /\ v \in BurnMonitors -> burnMonitor[v].status
          [] OTHER -> Nil]

\* The health service upserts the validator's health document.
PostHealth(v) ==
    /\ health' = [health EXCEPT ![v] = ServiceHealths(v)]
    /\ UNCHANGED <<mints, invalidMints, burns, chainVars, mintMonitor, burnMonitor, counters>>

\* The process stops between two steps and starts again, possibly with
\* another value of MintDisabled: main reads the last health, and the two
\* monitors are made anew.
Crash(v) ==
    /\ crashes < MaxCrashes
    /\ crashes' = crashes + 1
    /\ \E disabled \in MintDisabledValues :
       \E h \in {poktHeight} \cup (IF CallsFail THEN {0} ELSE {}) :
       \E b \in {ethBlock} \cup (IF CallsFail THEN {0} ELSE {}) :
           /\ mintMonitor' = [mintMonitor EXCEPT
                  ![v] = NewMintMonitor(LastHealth(v)["mint"], h, disabled)]
           /\ burnMonitor' = [burnMonitor EXCEPT
                  ![v] = NewBurnMonitor(LastHealth(v)["burn"], b)]
    /\ UNCHANGED <<dbVars, chainVars, reorgs>>

-----------------------------------------------------------------------------

MintMonitorStep(v) ==
    MintMonitorNext(v) /\ UNCHANGED <<burns, health, ethBlock, burnedAt, burnMonitor, counters>>

BurnMonitorStep(v) ==
    /\ BurnMonitorNext(v)
    /\ UNCHANGED <<mints, invalidMints, health, poktHeight, paidAt, limit, mintMonitor, counters>>

Next ==
    \/ \E v \in MintMonitors : MintMonitorStep(v)
    \/ \E v \in BurnMonitors : BurnMonitorStep(v)
    \/ \E v \in Validators : PostHealth(v) \/ Crash(v)
    \/ \E new \in SUBSET Deposits : PocketBlock(new)
    \/ \E new \in SUBSET BurnEvents : EthereumBlock(new) \/ Reorg(new)
    \/ \E l \in Limits : SetMintLimit(l)

Spec == Init /\ [][Next]_vars

\* Every service runs in a loop of its own that never ends (app/runner.go),
\* and the chains keep making blocks.
Fairness ==
    /\ \A v \in MintMonitors : WF_vars(MintMonitorStep(v))
    /\ \A v \in BurnMonitors : WF_vars(BurnMonitorStep(v))
    /\ WF_vars(PocketBlock({}))
    /\ WF_vars(EthereumBlock({}))

FairSpec == Spec /\ Fairness

-----------------------------------------------------------------------------
(* Type correctness *)

\* Every variable holds a value of its type: the collections, the chains, the
\* health documents and the local state of the monitors.
TypeOK ==
    /\ mints \in SUBSET Deposits /\ invalidMints \in SUBSET Deposits
    /\ burns \in SUBSET BurnEvents
    /\ poktHeight \in Nat /\ ethBlock \in Nat /\ limit \in Nat
    /\ paidAt \in [Deposits -> Nat \cup {Nil}]
    /\ burnedAt \in [BurnEvents -> Nat \cup {Nil}]
    /\ health \in [Validators -> Cursors]
    /\ mintMonitor \in [Validators -> MintMonitorState]
    /\ burnMonitor \in [Validators -> BurnMonitorState]
    /\ reorgs \in Nat /\ crashes \in Nat

-----------------------------------------------------------------------------
(* Safety *)

\* The cursors a validator works with, or would restart from.
MintCursors(v) == {mintMonitor[v].start, mintMonitor[v].status, health[v]["mint"]} \ {Nil}
BurnCursors(v) == {burnMonitor[v].start, burnMonitor[v].status, health[v]["burn"]} \ {Nil}

Filed == mints \cup invalidMints

\* No cursor of a mint monitor, nor the one in its health document, passes a
\* deposit that is in neither collection, although the chain grows while a
\* pass is under way, passes fail and validators restart.
DepositsBehindCursorAreFiled ==
    \A v \in MintMonitors : \A cursor \in MintCursors(v) : \A d \in Deposits :
        paidAt[d] # Nil /\ paidAt[d] <= cursor => d \in Filed

\* No cursor of a burn monitor passes a burn event that is not in "burns".
\* The newest block may be replaced after it was queried, but the range of
\* the next query begins with it.
BurnsBehindCursorAreStored ==
    \A v \in BurnMonitors : \A cursor \in BurnCursors(v) : \A b \in AboveFee :
        burnedAt[b] # Nil /\ (burnedAt[b] < cursor \/ (burnedAt[b] = cursor /\ reorgs = 0))
        => b \in burns

\* No deposit is both minted and refunded, although a monitor that restarts
\* with another value of MintDisabled, or after the limit was raised, handles it
\* anew and otherwise.  HandleInvalidMint and HandleValidMint look into the
\* other collection for that; this is enough for one monitor whose lookups do
\* not fail while the limit does not fall.  Monitors that run at a time must
\* agree on the settings.
InOneCollection == mints \cap invalidMints = {}

-----------------------------------------------------------------------------
(* Liveness *)

\* Every deposit is filed in the end, to be minted, refunded or set aside.
DepositsAreFiled == \A d \in Deposits : paidAt[d] # Nil ~> d \in Filed

\* Every burn event with more than the fee is stored in the end, unless a
\* reorganisation takes it out of the chain.
BurnsAreStored ==
    \A b \in AboveFee : burnedAt[b] # Nil ~> (b \in burns \/ burnedAt[b] = Nil)

=============================================================================
