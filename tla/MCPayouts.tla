----------------------------- MODULE MCPayouts ------------------------------
(***************************************************************************)
(* Instances of Payouts for TLC.                                           *)
(***************************************************************************)
EXTENDS Payouts

CONSTANTS
    Doubters,       \* validators that never accept a refund
    Waverers        \* validators with settings that accept refunds, and others

MCApproves == [v \in Validators |->
    (IF v \in Doubters THEN {} ELSE {Docs})
        \cup (IF v \in Doubters \cup Waverers THEN {Burns} ELSE {})]

\* Every transaction is in the first block of its chain.
AtStart == [d \in Docs |-> 0]

\* Every transaction is in a block some validators have not seen at first.
AfterStart == [d \in Docs |-> 1]

=============================================================================
