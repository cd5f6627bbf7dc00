--------------------------- MODULE VaultPayments ---------------------------
(***************************************************************************)
(* What the validators promise together about the vault: each document is  *)
(* paid at most once, only if Threshold validators may approve it, and is  *)
(* closed as settled only after its payment.                               *)
(***************************************************************************)
EXTENDS Naturals, FiniteSets

CONSTANTS Validators, Docs, Approves, Threshold

VARIABLES
    payments,   \* how often the vault has paid each document
    settled,    \* the documents recorded as paid
    refused     \* the documents refused for good

vars == <<payments, settled, refused>>

Init ==
    /\ payments = [d \in Docs |-> 0]
    /\ settled = {}
    /\ refused = {}

\* The validators that approve a document under some of their settings.
Approvers(d) == {v \in Validators : \E accepted \in Approves[v] : d \in accepted}

Pay(d) ==
    /\ payments[d] = 0
    /\ Cardinality(Approvers(d)) >= Threshold
    /\ d \notin refused
    /\ payments' = [payments EXCEPT ![d] = 1]
    /\ UNCHANGED <<settled, refused>>

Settle(d) ==
    /\ payments[d] = 1
    /\ settled' = settled \cup {d}
    /\ UNCHANGED <<payments, refused>>

\* A validator that does not approve a document, under some of its settings,
\* refuses it, unless it is paid.
Refuse(d) ==
    /\ payments[d] = 0
    /\ \E v \in Validators : \E accepted \in Approves[v] : d \notin accepted
    /\ refused' = refused \cup {d}
    /\ UNCHANGED <<payments, settled>>

Next == \E d \in Docs : Pay(d) \/ Settle(d) \/ Refuse(d)

Spec == Init /\ [][Next]_vars

=============================================================================
