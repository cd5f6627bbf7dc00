------------------------------ MODULE MCMints -------------------------------
(***************************************************************************)
(* Instances of Mints for TLC.                                             *)
(***************************************************************************)
EXTENDS Mints, TLC

CONSTANTS
    Dissenters,     \* validators that accept no document
    Doubters,       \* validators that accept the first document only
    r1, r2          \* two recipients

\* Every deposit is for one recipient.
SameRecipient == [m \in Mints |-> r1]

First == CHOOSE m \in Mints : TRUE

MCAccepts == [v \in Validators |->
                 IF v \in Dissenters THEN {} ELSE IF v \in Doubters THEN {First} ELSE Mints]

\* One deposit is for another recipient than the others.
OtherRecipient == [m \in Mints |-> IF m = First THEN r1 ELSE r2]

\* Every deposit has the same amount.
SameAmount == [m \in Mints |-> 2]

\* Every deposit has an amount of its own, of two.
AmountByOrder == [m \in Mints |-> IF m = First THEN 1 ELSE 2]

\* Every transaction is in the first block.
AtStart == [m \in Mints |-> 0]

\* Every transaction is in the second block.
InNextBlock == [m \in Mints |-> 1]

\* For instances that name no validator and no mint.
Symmetric == Permutations(Validators) \cup Permutations(Mints)

=============================================================================
