----------------------------- MODULE Lifecycle ------------------------------
(***************************************************************************)
(* A validator process from its start to its end (main.go, app/runner.go,  *)
(* app/service.go): one goroutine per enabled service that runs and waits  *)
(* in turns; a signal, upon which main stops all services, waits for them  *)
(* and disconnects from the database they use.                             *)
(***************************************************************************)
EXTENDS Integers, FiniteSets

CONSTANTS
    Services,       \* the services of the process, empty ones included
    Empty           \* the services the configuration disables

ASSUME ServicesAssumption == IsFiniteSet(Services) /\ Empty \subseteq Services

Runners == Services \ Empty

VARIABLES
    main,           \* where main is
    notified,       \* whether waitForExitSignals has told main of a signal
    toStop,         \* the services main has not called Stop of
    waitGroup,      \* the counter of wg
    loop,           \* where the goroutine of each enabled service is
    stop,           \* the services whose channel "stop" is closed
    connected       \* whether the database client is connected

vars == <<main, notified, toStop, waitGroup, loop, stop, connected>>
mainVars == <<main, notified, toStop, connected>>

Init ==
    /\ main = "start" /\ notified = FALSE /\ toStop = Services
    /\ waitGroup = 0
    /\ loop = [s \in Runners |-> "created"]
    /\ stop = {}
    /\ connected = TRUE

-----------------------------------------------------------------------------
(* main *)

\* wg.Add(len(services)), and every service starts.
StartServices ==
    /\ main = "start"
    /\ waitGroup' = waitGroup + Cardinality(Services)
    /\ loop' = [s \in Runners |-> "run"]
    /\ main' = "serve"
    /\ UNCHANGED <<notified, toStop, stop, connected>>

\* SIGINT or SIGTERM: later ones find nobody who receives them.
ExitSignal ==
    /\ main = "serve"
    /\ ~notified
    /\ notified' = TRUE
    /\ UNCHANGED <<main, toStop, waitGroup, loop, stop, connected>>

BeginStop ==
    /\ main = "serve"
    /\ notified
    /\ main' = "stop"
    /\ UNCHANGED <<notified, toStop, waitGroup, loop, stop, connected>>

\* Mutant of StopService: Stop of a runner calls wg.Done as well.
StopServiceDone(s) ==
    /\ main = "stop"
    /\ s \in toStop
    /\ toStop' = toStop \ {s}
    /\ waitGroup' = waitGroup - 1
    /\ stop' = IF s \in Runners THEN stop \cup {s} ELSE stop
    /\ UNCHANGED <<main, notified, loop, connected>>

\* Stop of a runner closes its channel; Stop of an empty service calls wg.Done.
StopService(s) ==
    /\ main = "stop"
    /\ s \in toStop
    /\ toStop' = toStop \ {s}
    /\ IF s \in Runners
       THEN stop' = stop \cup {s} /\ UNCHANGED waitGroup
       ELSE waitGroup' = waitGroup - 1 /\ UNCHANGED stop
    /\ UNCHANGED <<main, notified, loop, connected>>

\* wg.Wait returns when the counter is zero, and main disconnects.
Disconnect ==
    /\ main = "stop"
    /\ toStop = {}
    /\ waitGroup = 0
    /\ main' = "done"
    /\ connected' = FALSE
    /\ UNCHANGED <<notified, toStop, waitGroup, loop, stop>>

-----------------------------------------------------------------------------
(* The goroutine of a service *)

\* Run returns, and its status becomes the health of the service.
EndRun(s) ==
    /\ loop[s] = "run"
    /\ loop' = [loop EXCEPT ![s] = "select"]
    /\ UNCHANGED <<mainVars, waitGroup, stop>>

\* time.After of the select: the interval is over.
NextRun(s) ==
    /\ loop[s] = "select"
    /\ loop' = [loop EXCEPT ![s] = "run"]
    /\ UNCHANGED <<mainVars, waitGroup, stop>>

\* Mutant of StopReceived: the goroutine leaves without wg.Done.
StopReceivedSilently(s) ==
    /\ loop[s] = "select"
    /\ s \in stop
    /\ loop' = [loop EXCEPT ![s] = "stopped"]
    /\ UNCHANGED <<mainVars, waitGroup, stop>>

\* The closed channel of the select: wg.Done, and the loop ends.
StopReceived(s) ==
    /\ loop[s] = "select"
    /\ s \in stop
    /\ waitGroup' = waitGroup - 1
    /\ loop' = [loop EXCEPT ![s] = "stopped"]
    /\ UNCHANGED <<mainVars, stop>>

-----------------------------------------------------------------------------

Next ==
    \/ StartServices \/ ExitSignal \/ BeginStop \/ Disconnect
    \/ \E s \in Services : StopService(s)
    \/ \E s \in Runners :
           EndRun(s) \/ NextRun(s) \/ StopReceived(s)

Spec == Init /\ [][Next]_vars

\* The scheduler runs every goroutine, and every Run returns.  A select with
\* both cases ready picks one at random, so it does not pass over the closed
\* channel for ever.
Fairness ==
    /\ WF_vars(StartServices) /\ WF_vars(BeginStop) /\ WF_vars(Disconnect)
    /\ \A s \in Services : WF_vars(StopService(s))
    /\ \A s \in Runners :
           /\ WF_vars(EndRun(s)) /\ WF_vars(NextRun(s))
           /\ SF_vars(StopReceived(s))

FairSpec == Spec /\ Fairness

-----------------------------------------------------------------------------
(* Properties *)

\* Every variable holds a value of its type; the counter of the wait group is
\* never negative, which would be a panic.
TypeOK ==
    /\ main \in {"start", "serve", "stop", "done"}
    /\ notified \in BOOLEAN /\ connected \in BOOLEAN
    /\ toStop \in SUBSET Services
    /\ waitGroup \in Nat
    /\ loop \in [Runners -> {"created", "run", "select", "stopped"}]
    /\ stop \in SUBSET Runners

\* No service runs, and so uses the database, after main has disconnected,
\* although main never asks a service whether it is in the middle of a run.
NoRunAfterDisconnect == ~connected => \A s \in Runners : loop[s] = "stopped"

\* The wait group counts the services that main still has to wait for: the
\* runners that have not left their loop, and the empty services not stopped.
Unfinished == {s \in Runners : loop[s] # "stopped"} \cup (Empty \cap toStop)
WaitGroupCountsUnfinished == main # "start" => waitGroup = Cardinality(Unfinished)

\* After a signal the process ends.
SignalEndsProcess == notified ~> main = "done"

=============================================================================
