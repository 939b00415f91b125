----------------------------- MODULE MainProofs -----------------------------
(***************************************************************************)
(* Theorems about main(): its life as a server (ServerLifecycle), for any  *)
(* number of threads that stop the server and any set of RPCs, and the     *)
(* startup before it (Startup), for every invocation.                      *)
(***************************************************************************)
EXTENDS ServerLifecycle, Startup, Integers, TLAPS

-----------------------------------------------------------------------------

(***************************************************************************)
(* The life of the server: what holds at each statement.                   *)
(***************************************************************************)

Destroying == {"~ServerImpl", "~members", "returned"}
CleaningUp == {"cleanMetrics", "cleanLogs", "~Process"} \cup Destroying

\* What gRPC does, by the statement the main thread is at.
MainInv ==
    /\ place = "start" => grpc = "none" /\ ~mServer /\ ~mServerStarted
    /\ place = "started" =>
          grpc = "running" /\ mServer /\ ~mServerStarted /\ ShuttingDown = {}
    /\ place \in {"waited", "catchSignals", "loop"} => grpc = "shutdown"
    /\ place \in CleaningUp => grpc \in {"none", "shutdown"}
    /\ exporters # {"metrics", "logs"} => place \in CleaningUp
    /\ stopping[Main] # "no" => place \in CleaningUp
    /\ place \in Destroying => \A t \in Stoppers : stopping[t] = "no"

\* What gRPC does, by the statement of stop() a thread is at.
StopInv ==
    \A t \in Threads :
        /\ stopping[t] = "shutdown" => grpc = "running"
        /\ stopping[t] = "drain" => grpc = "draining"
        /\ stopping[t] = "reset" => grpc = "shutdown"
        /\ t \in ShuttingDown => mServer /\ ~mServerStarted

\* RPCs are under way only between BuildAndStart and the end of Shutdown.
ServingInv == grpc \in {"none", "shutdown"} => inFlight = {}

IInv ==
    /\ TypeOK
    /\ StartedMeansServing
    /\ OneShutdown
    /\ MainInv
    /\ StopInv
    /\ ServingInv

\* The main thread is none of those that only stop the server.
LEMMA MainIsAThread == Main \in Threads /\ Main \notin Stoppers
BY ThreadsAssumption DEF Threads

\* The process starts with nothing built and nobody in stop().
LEMMA InitInv == Init => IInv
BY MainIsAThread DEF Init, IInv, TypeOK, StartedMeansServing, OneShutdown, MainInv, StopInv,
   ServingInv, ShuttingDown, CleaningUp, Destroying

\* A call of stop(), by whichever thread, only moves that thread.
LEMMA CallStopInv ==
    ASSUME IInv, NEW t \in Threads, stopping[t] = "no", CallStop(t),
           UNCHANGED <<mServer, mServerStarted, grpc, inFlight>>
    PROVE  /\ stopping' \in [Threads -> {"no", "testServer", "testStarted", "shutdown",
                                         "drain", "reset"}]
           /\ ShuttingDown' = ShuttingDown
           /\ StartedMeansServing' /\ OneShutdown' /\ StopInv' /\ ServingInv'
           /\ \A u \in Threads \ {t} : stopping'[u] = stopping[u]
<1> USE DEF IInv, TypeOK, CallStop
<1>1. \A u \in Threads \ {t} : stopping'[u] = stopping[u]
  OBVIOUS
<1>2. ShuttingDown' = ShuttingDown
  BY DEF ShuttingDown
<1>3. StartedMeansServing' /\ OneShutdown' /\ ServingInv'
  BY <1>2 DEF StartedMeansServing, OneShutdown, ServingInv
<1>4. StopInv'
  BY <1>2, <1>1 DEF StopInv
<1>5. QED
  BY <1>1, <1>2, <1>3, <1>4

\* One step per action; those that call stop() go through CallStopInv.
LEMMA NextInv == IInv /\ [Next]_vars => IInv'
<1> SUFFICES ASSUME IInv, [Next]_vars
             PROVE  IInv'
  OBVIOUS
<1> USE MainIsAThread DEF IInv, At, InStop
<1>1. CASE BuildAndStart
  BY <1>1 DEF BuildAndStart, TypeOK, StartedMeansServing, OneShutdown, MainInv, StopInv,
     ServingInv, ShuttingDown, CleaningUp, Destroying
<1>2. CASE BuildFails
  BY <1>2 DEF BuildFails, TypeOK, StartedMeansServing, OneShutdown, MainInv, StopInv,
     ServingInv, ShuttingDown, CleaningUp, Destroying
<1>3. CASE SetStarted
  BY <1>3 DEF SetStarted, TypeOK, StartedMeansServing, OneShutdown, MainInv, StopInv,
     ServingInv, ShuttingDown, CleaningUp, Destroying
<1>4. CASE WaitReturns
  BY <1>4 DEF WaitReturns, TypeOK, StartedMeansServing, OneShutdown, MainInv, StopInv,
     ServingInv, ShuttingDown, CleaningUp, Destroying
<1>5. CASE WaitInDestroyedServer
  BY <1>5 DEF WaitInDestroyedServer, TypeOK, StartedMeansServing, OneShutdown, MainInv,
     StopInv, ServingInv, ShuttingDown, CleaningUp, Destroying
<1>6. CASE UnsetStarted
  BY <1>6 DEF UnsetStarted, TypeOK, StartedMeansServing, OneShutdown, MainInv, StopInv,
     ServingInv, ShuttingDown, CleaningUp, Destroying
<1>7. CASE catchSignals
  BY <1>7 DEF catchSignals, TypeOK, StartedMeansServing, OneShutdown, MainInv, StopInv,
     ServingInv, ShuttingDown, CleaningUp, Destroying
<1>8. CASE LeaveLoop
  <2>1. /\ stopping' \in [Threads -> {"no", "testServer", "testStarted", "shutdown",
                                      "drain", "reset"}]
        /\ ShuttingDown' = ShuttingDown
        /\ StartedMeansServing' /\ OneShutdown' /\ StopInv' /\ ServingInv'
    BY <1>8, CallStopInv DEF LeaveLoop
  <2>2. TypeOK' /\ MainInv'
    BY <1>8, <2>1 DEF LeaveLoop, TypeOK, MainInv, CleaningUp, Destroying
  <2>3. QED
    BY <2>1, <2>2
<1>9. CASE CleanUpMetrics
  BY <1>9 DEF CleanUpMetrics, TypeOK, StartedMeansServing, OneShutdown, MainInv, StopInv,
     ServingInv, ShuttingDown, CleaningUp, Destroying
<1>10. CASE CleanUpLogs
  BY <1>10 DEF CleanUpLogs, TypeOK, StartedMeansServing, OneShutdown, MainInv, StopInv,
     ServingInv, ShuttingDown, CleaningUp, Destroying
<1>11. CASE DestroyProcess
  <2>1. /\ stopping' \in [Threads -> {"no", "testServer", "testStarted", "shutdown",
                                      "drain", "reset"}]
        /\ ShuttingDown' = ShuttingDown
        /\ StartedMeansServing' /\ OneShutdown' /\ StopInv' /\ ServingInv'
        /\ \A u \in Threads \ {Main} : stopping'[u] = stopping[u]
    BY <1>11, CallStopInv DEF DestroyProcess
  <2>2. TypeOK' /\ MainInv'
    BY <1>11, <2>1 DEF DestroyProcess, TypeOK, MainInv, CleaningUp, Destroying, Threads
  <2>3. QED
    BY <2>1, <2>2
<1>12. CASE DestroyServerImpl
  <2>1. /\ stopping' \in [Threads -> {"no", "testServer", "testStarted", "shutdown",
                                      "drain", "reset"}]
        /\ ShuttingDown' = ShuttingDown
        /\ StartedMeansServing' /\ OneShutdown' /\ StopInv' /\ ServingInv'
        /\ \A u \in Threads \ {Main} : stopping'[u] = stopping[u]
    BY <1>12, CallStopInv DEF DestroyServerImpl
  <2>2. TypeOK' /\ MainInv'
    BY <1>12, <2>1 DEF DestroyServerImpl, TypeOK, MainInv, CleaningUp, Destroying, Threads
  <2>3. QED
    BY <2>1, <2>2
<1>13. CASE DestroyMembers
  <2>1. \A t \in Threads : stopping[t] = "no"
    BY <1>13 DEF DestroyMembers, MainInv, Threads, Destroying
  <2>2. QED
    BY <1>13, <2>1 DEF DestroyMembers, TypeOK, StartedMeansServing, OneShutdown, MainInv,
       StopInv, ServingInv, ShuttingDown, CleaningUp, Destroying
<1>14. ASSUME NEW t \in Threads, StopServer(t)
       PROVE  IInv'
  <2>1. /\ stopping' \in [Threads -> {"no", "testServer", "testStarted", "shutdown",
                                      "drain", "reset"}]
        /\ ShuttingDown' = ShuttingDown
        /\ StartedMeansServing' /\ OneShutdown' /\ StopInv' /\ ServingInv'
        /\ \A u \in Threads \ {t} : stopping'[u] = stopping[u]
    BY <1>14, CallStopInv DEF StopServer
  <2>2. TypeOK' /\ MainInv'
    BY <1>14, <2>1 DEF StopServer, TypeOK, MainInv, CleaningUp, Destroying, Threads
  <2>3. QED
    BY <2>1, <2>2
<1>15. ASSUME NEW t \in Threads, TestServer(t)
       PROVE  IInv'
  <2>1. ShuttingDown' = ShuttingDown
    BY <1>15 DEF TestServer, ShuttingDown, TypeOK
  <2>2. QED
    BY <1>15, <2>1 DEF TestServer, TypeOK, StartedMeansServing, OneShutdown, MainInv, StopInv,
       ServingInv, CleaningUp, Destroying, Threads
<1>16. ASSUME NEW t \in Threads, TestStarted(t)
       PROVE  IInv'
  <2>1. CASE mServerStarted
    <3>1. ShuttingDown = {} /\ mServer /\ grpc = "running"
      BY <2>1 DEF StopInv, StartedMeansServing, ShuttingDown
    <3>2. stopping' = [stopping EXCEPT ![t] = "shutdown"] /\ ShuttingDown' = {t}
      BY <1>16, <2>1, <3>1 DEF TestStarted, ShuttingDown, TypeOK
    <3>3. TypeOK' /\ StartedMeansServing' /\ OneShutdown' /\ ServingInv'
      BY <1>16, <3>1, <3>2 DEF TestStarted, TypeOK, StartedMeansServing, OneShutdown,
         ServingInv
    <3>4. StopInv'
      BY <1>16, <3>1, <3>2 DEF TestStarted, TypeOK, StopInv, ShuttingDown
    <3>5. MainInv'
      BY <1>16, <2>1, <3>1, <3>2 DEF TestStarted, TypeOK, MainInv, CleaningUp, Destroying,
         Threads
    <3>6. QED
      BY <3>3, <3>4, <3>5
  <2>2. CASE ~mServerStarted
    <3>1. ShuttingDown' = ShuttingDown
      BY <1>16, <2>2 DEF TestStarted, ShuttingDown, TypeOK
    <3>2. QED
      BY <1>16, <2>2, <3>1 DEF TestStarted, TypeOK, StartedMeansServing, OneShutdown, MainInv,
         StopInv, ServingInv, CleaningUp, Destroying, Threads
  <2>3. QED
    BY <2>1, <2>2 DEF TypeOK
<1>17. ASSUME NEW t \in Threads, Shutdown(t)
       PROVE  IInv'
  <2>1. ShuttingDown' = ShuttingDown /\ t \in ShuttingDown
    BY <1>17 DEF Shutdown, ShuttingDown, TypeOK
  <2>2. QED
    BY <1>17, <2>1 DEF Shutdown, TypeOK, StartedMeansServing, OneShutdown, MainInv, StopInv,
       ServingInv, ShuttingDown, CleaningUp, Destroying, Threads
<1>18. ASSUME NEW t \in Threads, ShutdownReturns(t)
       PROVE  IInv'
  <2>1. ShuttingDown' = ShuttingDown /\ t \in ShuttingDown
    BY <1>18 DEF ShutdownReturns, ShuttingDown, TypeOK
  <2>2. QED
    BY <1>18, <2>1 DEF ShutdownReturns, TypeOK, StartedMeansServing, OneShutdown, MainInv,
       StopInv, ServingInv, ShuttingDown, CleaningUp, Destroying, Threads
<1>19. ASSUME NEW t \in Threads, Reset(t)
       PROVE  IInv'
  <2>1. ShuttingDown = {t} /\ ShuttingDown' = {}
    BY <1>19 DEF Reset, ShuttingDown, TypeOK, OneShutdown
  <2>2. QED
    BY <1>19, <2>1 DEF Reset, TypeOK, StartedMeansServing, OneShutdown, MainInv, StopInv,
       ServingInv, ShuttingDown, CleaningUp, Destroying, Threads
<1>20. ASSUME NEW r \in RPCs, RPCArrives(r) \/ RPCEnds(r)
       PROVE  IInv'
  BY <1>20 DEF RPCArrives, RPCEnds, TypeOK, StartedMeansServing, OneShutdown, MainInv,
     StopInv, ServingInv, ShuttingDown
<1>21. CASE Signal
  <2>1. UNCHANGED <<place, stopping, mServer, mServerStarted, grpc, inFlight,
                    mKeepRunning, catching, exporters>>
    BY <1>21 DEF Signal
  <2>2. mInterrupted' \in BOOLEAN
        /\ exit' \in {"running", "EXIT_SUCCESS", "EXIT_FAILURE", "killed", "crashed"}
    BY <1>21 DEF Signal, TypeOK
  <2>3. ShuttingDown' = ShuttingDown
    BY <2>1 DEF ShuttingDown
  <2>4. TypeOK'
    BY <2>1, <2>2 DEF TypeOK
  <2>5. QED
    BY <2>1, <2>3, <2>4 DEF StartedMeansServing, OneShutdown, MainInv, StopInv, ServingInv
<1>22. CASE UNCHANGED vars
  BY <1>22 DEF vars, TypeOK, StartedMeansServing, OneShutdown, MainInv, StopInv, ServingInv,
     ShuttingDown
<1> HIDE DEF IInv, At, InStop
<1>23. CASE MainStep
  BY <1>23, <1>1, <1>2, <1>3, <1>4, <1>5, <1>6, <1>7, <1>8, <1>9, <1>10, <1>11, <1>12,
     <1>13 DEF MainStep
<1>24. ASSUME NEW t \in Threads, InsideStop(t)
       PROVE  IInv'
  BY <1>24, <1>15, <1>16, <1>17, <1>18, <1>19 DEF InsideStop
<1>25. QED
  BY <1>14, <1>20, <1>21, <1>22, <1>23, <1>24 DEF Next

\* The inductive invariant holds throughout.
LEMMA Invariance == Spec => []IInv
BY InitInv, NextInv, PTL DEF Spec

-----------------------------------------------------------------------------

\* The main thread, the stopping threads and the server keep their types, and
\* start() goes on only with a server that was built.
THEOREM TypeCorrect == Spec => []TypeOK
BY Invariance, PTL DEF IInv

\* Of any number of threads, destructors included, one at most shuts the server
\* down: mServerStarted.exchange decides.
THEOREM ShutDownOnce == Spec => []OneShutdown
BY Invariance, PTL DEF IInv

\* Whoever wins the exchange has a live, serving server.
THEOREM StartedServes == Spec => []StartedMeansServing
BY Invariance, PTL DEF IInv

\* No exporter is cleaned up under a handler that might use it, whichever thread
\* shut the server down and however long the handlers took.
THEOREM ExportersOutlive == Spec => []ExportersOutliveRPCs
<1>1. IInv => ExportersOutliveRPCs
  BY DEF IInv, MainInv, ServingInv, ExportersOutliveRPCs
<1>2. QED
  BY <1>1, Invariance, PTL

-----------------------------------------------------------------------------

(***************************************************************************)
(* What StopEndsStart rests on, without its fairness: the end of a server  *)
(* is never lost between two threads, and every step of stop() is nearer   *)
(* its end.                                                                *)
(***************************************************************************)

\* While start() waits, the flag is up for the next stop() to find, or a thread
\* that found it is shutting the server down, or the server is shut down; and
\* a server that drains has a thread which waits for it.
EndInHand ==
    /\ place = "wait" => mServerStarted \/ ShuttingDown # {} \/ grpc = "shutdown"
    /\ grpc = "draining" => \E t \in Threads : stopping[t] = "drain"

\* How many statements of stop() a thread has before it, at the most.
StopLeft(t) ==
    CASE stopping[t] = "testServer"  -> 5
      [] stopping[t] = "testStarted" -> 4
      [] stopping[t] = "shutdown"    -> 3
      [] stopping[t] = "drain"       -> 2
      [] stopping[t] = "reset"       -> 1
      [] OTHER                       -> 0

\* A thread inside stop() leaves a statement for a later one; a server that is
\* shut down is not served again, and while it drains no RPC is added.
StopAdvances ==
    /\ \A t \in Threads : StopLeft(t) > 0 => StopLeft(t)' <= StopLeft(t)
    /\ \A t \in Threads : InsideStop(t) => StopLeft(t)' < StopLeft(t)
    /\ grpc = "draining" => grpc' \in {"draining", "shutdown"} /\ inFlight' \subseteq inFlight
    /\ grpc = "shutdown" => grpc' = "shutdown" /\ inFlight' = {}

\* The flag is lowered by the thread that takes the shutdown over, or by the main
\* thread once it is over; the thread that drains is the one that ends draining.
LEMMA EndNext == IInv /\ EndInHand /\ [Next]_vars => EndInHand'
<1> SUFFICES ASSUME IInv, EndInHand, [Next]_vars
             PROVE  EndInHand'
  OBVIOUS
<1> USE MainIsAThread DEF IInv, TypeOK
<1>1. ASSUME MainStep
      PROVE  EndInHand'
  <2>1. stopping' = stopping \/ (stopping[Main] = "no" /\ CallStop(Main))
    BY <1>1 DEF MainStep, At, BuildAndStart, BuildFails, SetStarted, WaitReturns,
       WaitInDestroyedServer, UnsetStarted, catchSignals, LeaveLoop, CleanUpMetrics,
       CleanUpLogs, DestroyProcess, DestroyServerImpl, DestroyMembers
  <2>2. ShuttingDown' = ShuttingDown
    BY <2>1 DEF CallStop, ShuttingDown
  <2>3. \A t \in Threads : stopping[t] = "drain" => stopping'[t] = "drain"
    BY <2>1 DEF CallStop
  <2>4. /\ place' = "wait" => mServerStarted' \/ (place = "wait" /\ mServerStarted' = mServerStarted)
        /\ grpc' = grpc \/ grpc' = "running"
    BY <1>1 DEF MainStep, At, BuildAndStart, BuildFails, SetStarted, WaitReturns,
       WaitInDestroyedServer, UnsetStarted, catchSignals, LeaveLoop, CleanUpMetrics,
       CleanUpLogs, DestroyProcess, DestroyServerImpl, DestroyMembers
  <2>5. place' = "wait" => grpc' = grpc
    BY <1>1 DEF MainStep, At, BuildAndStart, BuildFails, SetStarted, WaitReturns,
       WaitInDestroyedServer, UnsetStarted, catchSignals, LeaveLoop, CleanUpMetrics,
       CleanUpLogs, DestroyProcess, DestroyServerImpl, DestroyMembers
  <2>6. QED
    BY <2>2, <2>3, <2>4, <2>5 DEF EndInHand
<1>2. ASSUME NEW t \in Threads, StopServer(t)
      PROVE  EndInHand'
  <2>1. ShuttingDown' = ShuttingDown
    BY <1>2 DEF StopServer, InStop, CallStop, ShuttingDown
  <2>2. \A u \in Threads : stopping[u] = "drain" => stopping'[u] = "drain"
    BY <1>2 DEF StopServer, InStop, CallStop
  <2>3. QED
    BY <1>2, <2>1, <2>2 DEF StopServer, EndInHand
<1>3. ASSUME NEW t \in Threads, TestServer(t)
      PROVE  EndInHand'
  <2>1. ShuttingDown' = ShuttingDown
    BY <1>3 DEF TestServer, InStop, ShuttingDown
  <2>2. \A u \in Threads : stopping[u] = "drain" => stopping'[u] = "drain"
    BY <1>3 DEF TestServer, InStop
  <2>3. QED
    BY <1>3, <2>1, <2>2 DEF TestServer, EndInHand
<1>4. ASSUME NEW t \in Threads, TestStarted(t)
      PROVE  EndInHand'
  <2>1. /\ ShuttingDown \subseteq ShuttingDown'
        /\ mServerStarted => t \in ShuttingDown'
    BY <1>4 DEF TestStarted, InStop, ShuttingDown
  <2>2. \A u \in Threads : stopping[u] = "drain" => stopping'[u] = "drain"
    BY <1>4 DEF TestStarted, InStop
  <2>3. QED
    BY <1>4, <2>1, <2>2 DEF TestStarted, EndInHand
<1>5. ASSUME NEW t \in Threads, Shutdown(t)
      PROVE  EndInHand'
  <2>1. stopping'[t] = "drain" /\ t \in ShuttingDown'
    BY <1>5 DEF Shutdown, ShuttingDown
  <2>2. QED
    BY <2>1 DEF EndInHand
<1>6. ASSUME NEW t \in Threads, ShutdownReturns(t)
      PROVE  EndInHand'
  BY <1>6 DEF ShutdownReturns, EndInHand
<1>7. ASSUME NEW t \in Threads, Reset(t)
      PROVE  EndInHand'
  BY <1>7 DEF Reset, InStop, StopInv, EndInHand
<1>8. ASSUME NEW r \in RPCs, RPCArrives(r) \/ RPCEnds(r)
      PROVE  EndInHand'
  BY <1>8 DEF RPCArrives, RPCEnds, EndInHand, ShuttingDown
<1>9. CASE Signal \/ UNCHANGED vars
  <2>1. UNCHANGED <<place, stopping, mServerStarted, grpc>>
    BY <1>9 DEF Signal, vars
  <2>2. QED
    BY <2>1 DEF EndInHand, ShuttingDown
<1>10. QED
  BY <1>1, <1>2, <1>3, <1>4, <1>5, <1>6, <1>7, <1>8, <1>9 DEF Next, InsideStop

\* No stop is lost: however the threads in stop() race each other and start(),
\* the one that took the flag down is still there to end the wait, or has ended it.
THEOREM NoStopLost == Spec => []EndInHand
<1>1. Init => EndInHand
  BY DEF Init, EndInHand
<1>2. QED
  BY <1>1, EndNext, Invariance, PTL DEF Spec

\* A thread inside stop() moves on by its own steps only, and to a later statement.
LEMMA StopsFall ==
    ASSUME IInv, [Next]_vars, NEW t \in Threads
    PROVE  /\ StopLeft(t) > 0 => StopLeft(t)' <= StopLeft(t)
           /\ InsideStop(t) => StopLeft(t)' < StopLeft(t)
<1> USE MainIsAThread DEF IInv, TypeOK
<1>1. InsideStop(t) => StopLeft(t)' < StopLeft(t)
  BY DEF InsideStop, InStop, TestServer, TestStarted, Shutdown, ShutdownReturns, Reset,
     StopLeft
<1>2. ASSUME NEW u \in Threads, InsideStop(u), u # t
      PROVE  stopping'[t] = stopping[t]
  BY <1>2 DEF InsideStop, TestServer, TestStarted, Shutdown, ShutdownReturns, Reset
<1>3. ASSUME NEW u \in Threads, StopServer(u), stopping[t] # "no"
      PROVE  stopping'[t] = stopping[t]
  BY <1>3 DEF StopServer, InStop, CallStop
<1>4. ASSUME MainStep, stopping[t] # "no"
      PROVE  stopping'[t] = stopping[t]
  BY <1>4 DEF MainStep, At, CallStop, BuildAndStart, BuildFails, SetStarted, WaitReturns,
     WaitInDestroyedServer, UnsetStarted, catchSignals, LeaveLoop, CleanUpMetrics,
     CleanUpLogs, DestroyProcess, DestroyServerImpl, DestroyMembers
<1>5. CASE (\E r \in RPCs : RPCArrives(r) \/ RPCEnds(r)) \/ Signal \/ UNCHANGED vars
  <2>1. stopping' = stopping
    BY <1>5 DEF RPCArrives, RPCEnds, Signal, vars
  <2>2. StopLeft(t) \in Int /\ StopLeft(t)' = StopLeft(t)
    BY <2>1 DEF StopLeft
  <2>3. QED
    BY <1>1, <2>2
<1>6. stopping[t] # "no" => InsideStop(t) \/ stopping'[t] = stopping[t]
  BY <1>2, <1>3, <1>4, <1>5 DEF Next, RPCArrives, RPCEnds, Signal, vars
<1>7. StopLeft(t) \in Int /\ (StopLeft(t) > 0 => stopping[t] # "no")
  BY DEF StopLeft
<1>8. stopping'[t] = stopping[t] => StopLeft(t)' = StopLeft(t)
  BY DEF StopLeft
<1>9. StopLeft(t)' \in Int
  <2>1. CASE stopping' = stopping
    BY <2>1 DEF StopLeft
  <2>2. QED
    BY DEF StopLeft
<1>10. QED
  BY <1>1, <1>6, <1>7, <1>8, <1>9

\* What gRPC's server does only goes on: from serving to draining, from that to
\* the end; and RPCs arrive only while it serves.
LEMMA ServerGoesOn ==
    ASSUME IInv, [Next]_vars
    PROVE  /\ grpc = "draining" => grpc' \in {"draining", "shutdown"} /\ inFlight' \subseteq inFlight
           /\ grpc = "shutdown" => grpc' = "shutdown" /\ inFlight' = {}
<1> DEFINE GoesOn == /\ grpc = "draining" => /\ grpc' \in {"draining", "shutdown"}
                                              /\ inFlight' \subseteq inFlight
                     /\ grpc = "shutdown" => grpc' = "shutdown" /\ inFlight' = {}
<1> SUFFICES GoesOn
  OBVIOUS
<1> USE MainIsAThread DEF IInv
<1>1. grpc = "shutdown" => inFlight = {}
  BY DEF ServingInv
<1>2. CASE MainStep
  <2>1. inFlight' = inFlight /\ (grpc' = grpc \/ grpc = "none")
    BY <1>2 DEF MainStep, At, MainInv, BuildAndStart, BuildFails, SetStarted, WaitReturns,
       WaitInDestroyedServer, UnsetStarted, catchSignals, LeaveLoop, CleanUpMetrics,
       CleanUpLogs, DestroyProcess, DestroyServerImpl, DestroyMembers
  <2>2. QED
    BY <2>1, <1>1
<1>3. ASSUME NEW t \in Threads, StopServer(t) \/ InsideStop(t)
      PROVE  GoesOn
  <2>1. /\ inFlight' = inFlight
        /\ grpc' = grpc \/ grpc = "running" \/ (grpc = "draining" /\ grpc' = "shutdown")
    BY <1>3 DEF StopServer, InsideStop, InStop, StopInv, TestServer, TestStarted, Shutdown,
       ShutdownReturns, Reset
  <2>2. QED
    BY <2>1, <1>1
<1>4. ASSUME NEW r \in RPCs, RPCArrives(r) \/ RPCEnds(r)
      PROVE  GoesOn
  BY <1>1, <1>4 DEF RPCArrives, RPCEnds
<1>5. CASE Signal \/ UNCHANGED vars
  BY <1>1, <1>5 DEF Signal, vars
<1>6. QED
  BY <1>2, <1>3, <1>4, <1>5 DEF Next

\* Every stop() ends after at most five of its own statements, nothing sends it
\* back, and what it waits for, the RPCs under way, only become fewer; nothing
\* brings back a server that is shut down.  This is what StopEndsStart needs
\* besides the fairness of the threads and the end of each RPC.
THEOREM StopsEnd == Spec => [][StopAdvances]_vars
<1>1. IInv /\ [Next]_vars => StopAdvances
  BY StopsFall, ServerGoesOn DEF StopAdvances
<1>2. QED
  BY <1>1, Invariance, PTL DEF Spec

-----------------------------------------------------------------------------

(***************************************************************************)
(* What CaughtSignalEndsProcess rests on, without its fairness: a signal   *)
(* is caught only by a main thread that has a few statements left, none    *)
(* that waits for gRPC, and that never goes back.                          *)
(***************************************************************************)

\* The statements the main thread has before it, besides those of stop().
MainLeft ==
    CASE place = "start"        -> 11
      [] place = "started"      -> 10
      [] place = "wait"         -> 9
      [] place = "waited"       -> 8
      [] place = "catchSignals" -> 7
      [] place = "loop"         -> 6
      [] place = "cleanMetrics" -> 5
      [] place = "cleanLogs"    -> 4
      [] place = "~Process"     -> 3
      [] place = "~ServerImpl"  -> 2
      [] place = "~members"     -> 1
      [] OTHER                  -> 0

\* Where a signal can be caught the server is already shut down.
SignalsCaughtLate == catching \/ mInterrupted => grpc = "shutdown" /\ MainLeft <= 6

\* The main thread only goes on, a caught signal stays caught, and the end is the end.
MainAdvances ==
    /\ MainLeft' <= MainLeft
    /\ MainStep => MainLeft' < MainLeft \/ exit' = "crashed"
    /\ mInterrupted => mInterrupted'
    /\ exit # "running" => UNCHANGED vars

\* Handlers of signals are installed behind the wait only.
LEMMA CatchNext == IInv /\ SignalsCaughtLate /\ [Next]_vars => SignalsCaughtLate' /\ MainAdvances
<1> SUFFICES ASSUME IInv, SignalsCaughtLate, [Next]_vars
             PROVE  SignalsCaughtLate' /\ MainAdvances
  OBVIOUS
<1>1. CASE MainStep
  <2>1. exit = "running" /\ mInterrupted' = mInterrupted /\ (grpc' = grpc \/ grpc = "none")
    BY <1>1 DEF IInv, MainInv, MainStep, At, BuildAndStart, BuildFails, SetStarted,
       WaitReturns, WaitInDestroyedServer, UnsetStarted, catchSignals, LeaveLoop,
       CleanUpMetrics, CleanUpLogs, DestroyProcess, DestroyServerImpl, DestroyMembers
  <2>2. MainLeft' <= MainLeft /\ (MainLeft' < MainLeft \/ exit' = "crashed")
    BY <1>1 DEF MainStep, At, BuildAndStart, BuildFails, SetStarted,
       WaitReturns, WaitInDestroyedServer, UnsetStarted, catchSignals, LeaveLoop,
       CleanUpMetrics, CleanUpLogs, DestroyProcess, DestroyServerImpl, DestroyMembers,
       MainLeft
  <2>3. catching' = catching \/ (place = "catchSignals" /\ place' = "loop")
    BY <1>1 DEF MainStep, At, BuildAndStart, BuildFails, SetStarted,
       WaitReturns, WaitInDestroyedServer, UnsetStarted, catchSignals, LeaveLoop,
       CleanUpMetrics, CleanUpLogs, DestroyProcess, DestroyServerImpl, DestroyMembers
  <2>4. MainLeft \in Int /\ MainLeft' \in Int
    BY DEF MainLeft
  <2>5. CASE catching' = catching
    BY <2>1, <2>2, <2>4, <2>5 DEF SignalsCaughtLate, MainAdvances
  <2>6. CASE place = "catchSignals" /\ place' = "loop"
    <3>1. grpc' = "shutdown" /\ MainLeft' = 6
      BY <2>1, <2>6 DEF IInv, MainInv, MainLeft
    <3>2. QED
      BY <2>1, <2>2, <2>4, <3>1 DEF SignalsCaughtLate, MainAdvances
  <2>7. QED
    BY <2>3, <2>5, <2>6
<1>2. ASSUME \/ \E t \in Threads : StopServer(t) \/ InsideStop(t)
             \/ \E r \in RPCs : RPCArrives(r) \/ RPCEnds(r)
      PROVE  SignalsCaughtLate' /\ MainAdvances
  <2>1. exit = "running" /\ UNCHANGED <<place, catching, mInterrupted>>
    BY <1>2 DEF StopServer, InsideStop, InStop, TestServer, TestStarted, Shutdown,
       ShutdownReturns, Reset, RPCArrives, RPCEnds
  <2>2. grpc = "shutdown" => grpc' = "shutdown"
    BY ServerGoesOn
  <2>3. MainLeft \in Int /\ MainLeft' = MainLeft
    BY <2>1 DEF MainLeft
  <2>4. ~MainStep \/ MainLeft' < MainLeft \/ exit' = "crashed"
    <3>1. MainStep => place' # place \/ exit' = "crashed"
      BY DEF MainStep, At, BuildAndStart, BuildFails, SetStarted, WaitReturns,
         WaitInDestroyedServer, UnsetStarted, catchSignals, LeaveLoop, CleanUpMetrics,
         CleanUpLogs, DestroyProcess, DestroyServerImpl, DestroyMembers
    <3>2. QED
      BY <2>1, <3>1
  <2>5. QED
    BY <2>1, <2>2, <2>3, <2>4 DEF SignalsCaughtLate, MainAdvances
<1>3. CASE Signal \/ UNCHANGED vars
  <2>1. UNCHANGED <<place, catching, grpc>> /\ (mInterrupted => mInterrupted')
    BY <1>3 DEF Signal, vars
  <2>2. mInterrupted' => mInterrupted \/ catching
    BY <1>3 DEF Signal, vars
  <2>3. MainLeft \in Int /\ MainLeft' = MainLeft
    BY <2>1 DEF MainLeft
  <2>4. MainStep => MainLeft' < MainLeft \/ exit' = "crashed"
    <3>1. MainStep => place' # place \/ exit' = "crashed"
      BY DEF MainStep, At, BuildAndStart, BuildFails, SetStarted, WaitReturns,
         WaitInDestroyedServer, UnsetStarted, catchSignals, LeaveLoop, CleanUpMetrics,
         CleanUpLogs, DestroyProcess, DestroyServerImpl, DestroyMembers
    <3>2. QED
      BY <2>1, <3>1
  <2>5. exit # "running" => UNCHANGED vars
    BY <1>3 DEF Signal
  <2>6. QED
    BY <2>1, <2>2, <2>3, <2>4, <2>5 DEF SignalsCaughtLate, MainAdvances
<1>4. QED
  BY <1>1, <1>2, <1>3 DEF Next

\* A caught signal finds the server shut down and a main thread with at most six
\* statements of its own left, and the three calls of stop() among them; each of its
\* steps is one fewer.
THEOREM SignalsEnd == Spec => []SignalsCaughtLate /\ [][MainAdvances]_vars
<1>1. Init => SignalsCaughtLate
  BY DEF Init, SignalsCaughtLate
<1>2. QED
  BY <1>1, CatchNext, Invariance, PTL DEF Spec

-----------------------------------------------------------------------------

(***************************************************************************)
(* The startup.                                                            *)
(***************************************************************************)

\* What is exported, and by which exporter, is what the file's sections say.
AskedFor(export, withHTTP, sections) ==
    export =>
        /\ Exporter(export, withHTTP) \in sections
        /\ ~withHTTP => invocation.withOtlpGrpc

\* No provider is set before its initializer, the name of the service is there by then,
\* and each provider is the one the options name.
ProviderInv ==
    /\ AskedFor(options.exportLogs, options.exportLogsWithHTTP, invocation.logs)
    /\ AskedFor(options.exportMetrics, options.exportMetricsWithHTTP, invocation.metrics)
    /\ loggerProvider \in
          {"none", Exporter(options.exportLogs, options.exportLogsWithHTTP)}
    /\ metricsInitialized \in
          {"none", Exporter(options.exportMetrics, options.exportMetricsWithHTTP)}
    /\ pc \in {"parseCommandLine", "parseFile", "setServiceName", "initializeLogger"} =>
          loggerProvider = "none" /\ metricsInitialized = "none"
    /\ pc = "initializeMetrics" => metricsInitialized = "none"
    /\ pc \in {"initializeLogger", "initializeMetrics", "constructProcess", "start"} =>
          (options.exportLogs \/ options.exportMetrics => OTEL_SERVICE_NAME)
    /\ pc = "exited" => loggerProvider = "none" /\ metricsInitialized = "none"

BeginInv == StartupTypeOK /\ ProviderInv

\* main() begins without a provider and with options that export nothing.
LEMMA BeginInit == StartupInit => BeginInv
BY DEF StartupInit, BeginInv, StartupTypeOK, ProviderInv, AskedFor, DefaultOptions,
   Exporter, Exporters, Invocations

\* Of two sections the HTTP one is taken, the other one only by a build that has it.
LEMMA SectionsRead ==
    ASSUME NEW sections \in SUBSET Exporters, ~Throws(sections)
    PROVE  AskedFor(sections # {}, "http" \in sections \/ sections = {}, sections)
BY DEF Throws, Exporters, Exporter, AskedFor

\* One step per statement of main().
LEMMA BeginNext == BeginInv /\ [StartupNext]_startupVars => BeginInv'
<1> SUFFICES ASSUME BeginInv, [StartupNext]_startupVars
             PROVE  BeginInv'
  OBVIOUS
<1> USE DEF BeginInv, GoTo, ExitWith
<1>1. CASE ParseCommandLine
  BY <1>1 DEF ParseCommandLine, StartupTypeOK, ProviderInv, AskedFor
<1>2. CASE ParseInitializationFile
  <2>1. CASE options' = ReadOptions /\ pc' = "setServiceName" /\ exitCode' = exitCode
    <3>1. /\ ~Throws(invocation.logs) /\ ~Throws(invocation.metrics)
          /\ invocation.logs \in SUBSET Exporters
          /\ invocation.metrics \in SUBSET Exporters
          /\ UNCHANGED <<invocation, OTEL_SERVICE_NAME, loggerProvider, metricsInitialized>>
          /\ loggerProvider = "none" /\ metricsInitialized = "none"
      BY <1>2, <2>1 DEF ParseInitializationFile, StartupTypeOK, Invocations,
         ProviderInv
    <3>2. /\ AskedFor(options'.exportLogs, options'.exportLogsWithHTTP, invocation.logs)
          /\ AskedFor(options'.exportMetrics, options'.exportMetricsWithHTTP,
                      invocation.metrics)
      BY <2>1, <3>1, SectionsRead DEF ReadOptions
    <3>3. StartupTypeOK'
      BY <1>2, <2>1, <3>1 DEF ParseInitializationFile, StartupTypeOK,
         ReadOptions, DefaultOptions
    <3>4. QED
      BY <2>1, <3>1, <3>2, <3>3 DEF ProviderInv, AskedFor
  <2>2. CASE pc' = "exited" /\ exitCode' = "EXIT_FAILURE" /\ options' = options
    BY <1>2, <2>2 DEF ParseInitializationFile, StartupTypeOK, ProviderInv, AskedFor
  <2>3. QED
    BY <1>2, <2>1, <2>2 DEF ParseInitializationFile
<1>3. CASE FileGone
  BY <1>3 DEF FileGone, StartupTypeOK, ProviderInv, AskedFor
<1>4. CASE SetServiceName
  BY <1>4 DEF SetServiceName, StartupTypeOK, DefaultOptions, ProviderInv, AskedFor
<1>5. CASE InitializeLogger
  BY <1>5 DEF InitializeLogger, StartupTypeOK, ProviderInv, AskedFor, Exporter,
     Exporters
<1>6. CASE LoggerFails
  BY <1>6 DEF LoggerFails, StartupTypeOK, ProviderInv, AskedFor
<1>7. CASE InitializeMetrics
  BY <1>7 DEF InitializeMetrics, StartupTypeOK, ProviderInv, AskedFor, Exporter,
     Exporters
<1>8. CASE MetricsFail
  BY <1>8 DEF MetricsFail, LoggerCleanup, StartupTypeOK, ProviderInv, AskedFor
<1>9. CASE ConstructProcess
  BY <1>9 DEF ConstructProcess, LoggerCleanup, MetricsCleanup,
     StartupTypeOK, ProviderInv, AskedFor
<1>10. CASE UNCHANGED startupVars
  BY <1>10 DEF startupVars, StartupTypeOK, ProviderInv, AskedFor
<1>11. QED
  BY <1>1, <1>2, <1>3, <1>4, <1>5, <1>6, <1>7, <1>8, <1>9, <1>10 DEF StartupNext

\* The invariant holds throughout the startup.
LEMMA BeginInvariance == StartupSpec => []BeginInv
BY BeginInit, BeginNext, PTL DEF StartupSpec

\* The locals of main() and the globals it sets have their types, and it goes on
\* exactly as long as it has not exited.
THEOREM StartupTypeCorrect == StartupSpec => []StartupTypeOK
BY BeginInvariance, PTL DEF BeginInv

\* Whichever step of the startup fails, main() returns with every provider it set
\* reset again.
THEOREM NothingLeft == StartupSpec => []NothingLeftAtExit
<1>1. BeginInv => NothingLeftAtExit
  BY DEF BeginInv, StartupTypeOK, ProviderInv, NothingLeftAtExit
<1>2. QED
  BY <1>1, BeginInvariance, PTL

\* What exports was asked for by the file, is in the build and has a service name.
THEOREM AskedForOnly == StartupSpec => []ExportersWereAskedFor
<1>1. BeginInv => ExportersWereAskedFor
  BY DEF BeginInv, StartupTypeOK, ProviderInv, AskedFor, Exporter,
     ExportersWereAskedFor
<1>2. QED
  BY <1>1, BeginInvariance, PTL

=============================================================================
