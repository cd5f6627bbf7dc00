-------------------------- MODULE LifecycleProofs ---------------------------
(***************************************************************************)
(* Theorems about Lifecycle, for any finite set of services.               *)
(***************************************************************************)
EXTENDS Lifecycle, FiniteSetTheorems, TLAPS

-----------------------------------------------------------------------------

\* What main knows at each point: nothing has begun before StartServices, all
\* services are to be stopped until a signal, nobody is left at the end.
MainControl ==
    /\ main = "start" => waitGroup = 0
    /\ main \in {"start", "serve"} => toStop = Services /\ stop = {}
    /\ main = "done" => toStop = {} /\ waitGroup = 0
    /\ connected <=> main # "done"

\* TypeOK with the counter, which the inductive step needs as a number only.
LifeInv == TypeOK /\ MainControl /\ WaitGroupCountsUnfinished

-----------------------------------------------------------------------------

\* The unfinished services are finitely many services.
LEMMA UnfinishedFinite ==
    ASSUME TypeOK
    PROVE  IsFiniteSet(Unfinished) /\ Unfinished \subseteq Services
<1>1. Unfinished \in SUBSET Services
  BY ServicesAssumption DEF Unfinished, Runners, TypeOK
<1> QED
  BY <1>1, ServicesAssumption, FS_Subset

\* One unfinished service less is one less to wait for.
LEMMA OneLess ==
    ASSUME NEW S, IsFiniteSet(S), NEW s \in S, NEW n \in Nat, n = Cardinality(S)
    PROVE  n - 1 \in Nat /\ n - 1 = Cardinality(S \ {s})
<1>1. IsFiniteSet(S \ {s}) /\ Cardinality(S \ {s}) = Cardinality(S) - 1
  BY FS_RemoveElement
<1>2. Cardinality(S \ {s}) \in Nat
  BY <1>1, FS_CardinalityType
<1> QED
  BY <1>1, <1>2

\* Initially nothing runs and nothing is counted.
LEMMA LifeInit == Init => LifeInv
<1> SUFFICES ASSUME Init PROVE LifeInv
  OBVIOUS
<1> USE ServicesAssumption
<1>1. TypeOK
  BY DEF Init, TypeOK, Runners
<1>2. MainControl
  BY DEF Init, MainControl
<1>3. WaitGroupCountsUnfinished
  BY DEF Init, WaitGroupCountsUnfinished
<1> QED
  BY <1>1, <1>2, <1>3 DEF LifeInv

\* StartServices counts every service, and each is unfinished.
LEMMA LifeStart ==
    ASSUME LifeInv, StartServices
    PROVE  LifeInv'
<1> USE DEF LifeInv
<1>1. Cardinality(Services) \in Nat
  BY ServicesAssumption, FS_CardinalityType
<1>2. waitGroup' = Cardinality(Services)
  BY <1>1 DEF StartServices, MainControl
<1>3. TypeOK'
  BY <1>1, <1>2 DEF StartServices, TypeOK
<1>4. MainControl'
  BY DEF StartServices, MainControl
<1>5. Unfinished' = Services
  BY ServicesAssumption DEF StartServices, MainControl, Unfinished, Runners
<1>6. WaitGroupCountsUnfinished'
  BY <1>2, <1>5 DEF WaitGroupCountsUnfinished
<1> QED
  BY <1>3, <1>4, <1>6

\* A step that neither ends a service nor counts leaves the equality alone.
LEMMA LifeSame ==
    ASSUME LifeInv,
           \/ ExitSignal
           \/ BeginStop
           \/ Disconnect
           \/ \E s \in Runners : EndRun(s) \/ NextRun(s)
    PROVE  LifeInv'
<1> USE DEF LifeInv, mainVars
<1>1. CASE ExitSignal
  <2>1. TypeOK' /\ MainControl'
    BY <1>1 DEF ExitSignal, TypeOK, MainControl
  <2>2. Unfinished' = Unfinished
    BY <1>1 DEF ExitSignal, Unfinished
  <2> QED
    BY <1>1, <2>1, <2>2 DEF ExitSignal, WaitGroupCountsUnfinished
<1>2. CASE BeginStop
  <2>1. TypeOK' /\ MainControl'
    BY <1>2 DEF BeginStop, TypeOK, MainControl
  <2>2. Unfinished' = Unfinished
    BY <1>2 DEF BeginStop, Unfinished
  <2> QED
    BY <1>2, <2>1, <2>2 DEF BeginStop, WaitGroupCountsUnfinished
<1>3. CASE Disconnect
  <2>1. TypeOK' /\ MainControl'
    BY <1>3 DEF Disconnect, TypeOK, MainControl
  <2>2. Unfinished' = Unfinished
    BY <1>3 DEF Disconnect, Unfinished
  <2> QED
    BY <1>3, <2>1, <2>2 DEF Disconnect, WaitGroupCountsUnfinished
<1>4. CASE \E s \in Runners : EndRun(s) \/ NextRun(s)
  <2>1. PICK s \in Runners : EndRun(s) \/ NextRun(s)
    BY <1>4
  <2>2. PICK pc \in {"select", "run"} :
            /\ loop' = [loop EXCEPT ![s] = pc]
            /\ loop[s] # "stopped"
    BY <2>1 DEF EndRun, NextRun
  <2>3. UNCHANGED <<mainVars, waitGroup, stop>>
    BY <2>1 DEF EndRun, NextRun
  <2>4. TypeOK' /\ MainControl'
    BY <2>2, <2>3 DEF TypeOK, MainControl
  <2>5. Unfinished' = Unfinished
    BY <2>2, <2>3 DEF TypeOK, Unfinished
  <2> QED
    BY <2>3, <2>4, <2>5 DEF WaitGroupCountsUnfinished
<1> QED
  BY <1>1, <1>2, <1>3, <1>4

\* Stop of a runner counts nothing, Stop of an empty service counts it down.
LEMMA LifeStop ==
    ASSUME LifeInv, NEW s \in Services, StopService(s)
    PROVE  LifeInv'
<1> USE DEF LifeInv
<1>0. main = "stop" /\ main' = "stop" /\ s \in toStop /\ toStop' = toStop \ {s}
      /\ UNCHANGED <<notified, loop, connected>>
  BY DEF StopService
<1>1. CASE s \in Runners
  <2>1. stop' = stop \cup {s} /\ waitGroup' = waitGroup
    BY <1>1 DEF StopService
  <2>2. TypeOK' /\ MainControl'
    BY <1>0, <1>1, <2>1 DEF TypeOK, MainControl
  <2>3. Unfinished' = Unfinished
    BY <1>0, <1>1 DEF Unfinished, Runners
  <2> QED
    BY <1>0, <2>1, <2>2, <2>3 DEF WaitGroupCountsUnfinished
<1>2. CASE s \notin Runners
  <2>1. stop' = stop /\ waitGroup' = waitGroup - 1
    BY <1>2 DEF StopService
  <2>2. s \in Unfinished
    BY <1>0, <1>2 DEF Unfinished, Runners
  <2>3. Unfinished' = Unfinished \ {s}
    BY <1>0, <1>2, ServicesAssumption DEF Unfinished, Runners
  <2>4. waitGroup = Cardinality(Unfinished) /\ waitGroup \in Nat
    BY <1>0 DEF WaitGroupCountsUnfinished, TypeOK
  <2>5. waitGroup' \in Nat /\ waitGroup' = Cardinality(Unfinished')
    BY <2>1, <2>2, <2>3, <2>4, UnfinishedFinite, OneLess
  <2>6. TypeOK' /\ MainControl'
    BY <1>0, <2>1, <2>5 DEF TypeOK, MainControl
  <2> QED
    BY <2>5, <2>6 DEF WaitGroupCountsUnfinished
<1> QED
  BY <1>1, <1>2

\* A goroutine that leaves its loop counts itself down.
LEMMA LifeLeave ==
    ASSUME LifeInv, NEW s \in Runners, StopReceived(s)
    PROVE  LifeInv'
<1> USE DEF LifeInv, mainVars
<1>1. loop[s] = "select" /\ waitGroup' = waitGroup - 1
      /\ loop' = [loop EXCEPT ![s] = "stopped"]
      /\ UNCHANGED <<main, notified, toStop, connected, stop>> /\ s \in stop
  BY DEF StopReceived
<1>2. s \in Unfinished
  BY <1>1 DEF Unfinished
<1>3. Unfinished' = Unfinished \ {s}
  BY <1>1 DEF Unfinished, TypeOK, Runners
<1>4. main # "start"
  BY <1>1 DEF MainControl
<1>5. waitGroup = Cardinality(Unfinished) /\ waitGroup \in Nat
  BY <1>4 DEF WaitGroupCountsUnfinished, TypeOK
<1>6. waitGroup' \in Nat /\ waitGroup' = Cardinality(Unfinished')
  BY <1>1, <1>2, <1>3, <1>5, UnfinishedFinite, OneLess
<1>7. main # "done"
  BY <1>2, <1>5, UnfinishedFinite, FS_EmptySet DEF MainControl
<1>8. TypeOK' /\ MainControl'
  BY <1>1, <1>4, <1>6, <1>7 DEF TypeOK, MainControl
<1> QED
  BY <1>6, <1>8 DEF WaitGroupCountsUnfinished

\* Every step keeps the invariant.
LEMMA LifeNext == LifeInv /\ [Next]_vars => LifeInv'
<1> SUFFICES ASSUME LifeInv, [Next]_vars PROVE LifeInv'
  OBVIOUS
<1>1. CASE StartServices
  BY <1>1, LifeStart
<1>2. CASE \E s \in Services : StopService(s)
  BY <1>2, LifeStop
<1>3. CASE \E s \in Runners : StopReceived(s)
  BY <1>3, LifeLeave
<1>4. CASE \/ ExitSignal \/ BeginStop \/ Disconnect
           \/ \E s \in Runners : EndRun(s) \/ NextRun(s)
  BY <1>4, LifeSame
<1>5. CASE UNCHANGED vars
  BY <1>5 DEF vars, LifeInv, TypeOK, MainControl, WaitGroupCountsUnfinished, Unfinished
<1> QED
  BY <1>1, <1>2, <1>3, <1>4, <1>5 DEF Next

\* When main has disconnected nobody is left to wait for.
LEMMA LifeQuiet == LifeInv => NoRunAfterDisconnect
<1> SUFFICES ASSUME LifeInv, ~connected PROVE \A s \in Runners : loop[s] = "stopped"
  BY DEF NoRunAfterDisconnect
<1>1. waitGroup = 0 /\ waitGroup = Cardinality(Unfinished)
  BY DEF LifeInv, MainControl, WaitGroupCountsUnfinished
<1>2. Unfinished = {}
  BY <1>1, UnfinishedFinite, FS_EmptySet DEF LifeInv
<1> QED
  BY <1>2 DEF Unfinished

-----------------------------------------------------------------------------

\* The wait group of main never goes below zero, for any set of services: no
\* service, enabled or empty, calls wg.Done twice.
THEOREM LifecycleTypeOK == Spec => []TypeOK
<1>1. LifeInv => TypeOK
  BY DEF LifeInv
<1> QED
  BY <1>1, LifeInit, LifeNext, PTL DEF Spec

\* Main disconnects from the database only when no service can use it any
\* more: the wait group counts exactly the services that are unfinished.
THEOREM LifecycleNoRunAfterDisconnect == Spec => []NoRunAfterDisconnect
BY LifeInit, LifeNext, LifeQuiet, PTL DEF Spec

=============================================================================
