---------------------------- MODULE WrappedMints ----------------------------
(***************************************************************************)
(* What the validators promise together about wPOKT: each deposit is       *)
(* minted at most once, only with the approval of Threshold validators; it *)
(* is recorded as minted only after that, and never minted once it has     *)
(* been refused.                                                           *)
(***************************************************************************)
EXTENDS Naturals, FiniteSets

CONSTANTS Validators, Mints, Accepts, Threshold

VARIABLES
    issued,     \* how often wPOKT were issued for each deposit
    settled,    \* the mints recorded as successful
    refused     \* the mints refused for good

vars == <<issued, settled, refused>>

Init ==
    /\ issued = [m \in Mints |-> 0]
    /\ settled = {}
    /\ refused = {}

Issue(m) ==
    /\ issued[m] = 0
    /\ Cardinality({v \in Validators : m \in Accepts[v]}) >= Threshold
    /\ m \notin refused
    /\ issued' = [issued EXCEPT ![m] = 1]
    /\ UNCHANGED <<settled, refused>>

Settle(m) ==
    /\ issued[m] = 1
    /\ settled' = settled \cup {m}
    /\ UNCHANGED <<issued, refused>>

\* A validator may refuse what it accepts at another time, when the limit of
\* a mint is higher, but not what is issued.
Refuse(m) ==
    /\ issued[m] = 0
    /\ refused' = refused \cup {m}
    /\ UNCHANGED <<issued, settled>>

Next == \E m \in Mints : Issue(m) \/ Settle(m) \/ Refuse(m)

Spec == Init /\ [][Next]_vars

=============================================================================
