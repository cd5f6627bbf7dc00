----------------------------- MODULE MCMonitors -----------------------------
(***************************************************************************)
(* Instances of Monitors for TLC.                                          *)
(***************************************************************************)
EXTENDS Monitors

CONSTANTS
    Invalid,        \* deposits without a valid memo
    Large,          \* deposits of more than the limit at first
    Small           \* burn events within the fee

\* A transaction that pays the vault once.
Payment(amount, memo) ==
    [ code |-> 0, memo |-> memo,
      transfers |-> << [ sender |-> TRUE, recipient |-> "vault", readable |-> TRUE,
                         denom |-> "upokt", amount |-> amount ] >> ]

\* Amounts around a limit of 2.
MCTxOfDeposit ==
    [d \in Deposits |-> Payment(IF d \in Large THEN 3 ELSE 2,
                                IF d \in Invalid THEN "invalid" ELSE "valid")]

\* Every event in a transaction of its own, or all in one transaction.
OwnTx == [b \in BurnEvents |-> b]
OneTx == [b \in BurnEvents |-> "tx"]

MCAboveFee == BurnEvents \ Small

-----------------------------------------------------------------------------
(* The two monitors of a validator share nothing but the health document   *)
(* and the process: a behaviour of the instance follows one of the chains, *)
(* chosen at the start, and crashes on the way.                            *)

VARIABLE chain      \* the chain that is followed: "pocket" or "ethereum"

mcVars == <<vars, chain>>

MCInit == Init /\ chain \in {"pocket", "ethereum"}

\* The other chain, and what a validator has of it, stay as they are but for
\* a restart.
OnChain ==
    /\ chain = "pocket" => UNCHANGED <<ethBlock, burnedAt>>
    /\ chain = "pocket" /\ crashes' = crashes => UNCHANGED burnMonitor
    /\ chain = "ethereum" => UNCHANGED <<poktHeight, paidAt, limit>>
    /\ chain = "ethereum" /\ crashes' = crashes => UNCHANGED mintMonitor
    /\ UNCHANGED chain

MCNext == Next /\ OnChain

MCSpec == MCInit /\ [][MCNext]_mcVars

MCFairSpec ==
    /\ MCSpec
    /\ \A v \in MintMonitors : WF_mcVars(MintMonitorStep(v) /\ OnChain)
    /\ \A v \in BurnMonitors : WF_mcVars(BurnMonitorStep(v) /\ OnChain)
    /\ WF_mcVars(PocketBlock({}) /\ OnChain)
    /\ WF_mcVars(EthereumBlock({}) /\ OnChain)

=============================================================================
