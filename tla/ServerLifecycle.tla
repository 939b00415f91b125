--------------------------- MODULE ServerLifecycle ---------------------------
(***************************************************************************)
(* The running process: main() from Process::start to its return, the      *)
(* Server it blocks in, signals, and other threads that call Server::stop, *)
(* which is how a blocking Server::start is meant to be ended.             *)
(***************************************************************************)
EXTENDS FiniteSets

CONSTANTS
    Stoppers,   \* threads that call Server::stop; the program has none
    RPCs,       \* names for the RPCs the server has under way
    Main        \* the main thread

ASSUME ThreadsAssumption == Main \notin Stoppers

Threads == Stoppers \cup {Main}

VARIABLES
    place,           \* the statement the main thread runs next
    stopping,        \* the statement of ServerImpl::stop a thread runs next
    mServer,         \* the pointer to the gRPC server is not null
    mServerStarted,  \* the atomic flag
    grpc,            \* what gRPC's server is doing
    inFlight,        \* RPCs whose handlers have not ended
    mKeepRunning,
    catching,        \* the handlers of SIGINT and SIGTERM are installed
    mInterrupted,
    exporters,       \* the exporters of metrics and logs not yet cleaned up
    exit             \* how the process ended

vars == <<place, stopping, mServer, mServerStarted, grpc, inFlight, mKeepRunning,
          catching, mInterrupted, exporters, exit>>

Init ==
    /\ place = "start"
    /\ stopping = [t \in Threads |-> "no"]
    /\ mServer = FALSE
    /\ mServerStarted = FALSE
    /\ grpc = "none"
    /\ inFlight = {}
    /\ mKeepRunning = FALSE
    /\ catching = FALSE
    /\ mInterrupted = FALSE
    /\ exporters = {"metrics", "logs"}
    /\ exit = "running"

\* Main is at a statement of its own and not inside a stop() it called.
At(statement) ==
    /\ exit = "running"
    /\ place = statement
    /\ stopping[Main] = "no"

\* A thread is at a statement of stop().
InStop(t, statement) == exit = "running" /\ stopping[t] = statement

-----------------------------------------------------------------------------

(***************************************************************************)
(* ServerImpl::stop, one action per access to shared state.                *)
(***************************************************************************)
CallStop(t) == stopping' = [stopping EXCEPT ![t] = "testServer"]

\* Another thread calls Server::stop.  None does once the Process is destroyed.
StopServer(t) ==
    /\ t \in Stoppers
    /\ InStop(t, "no")
    /\ place \notin {"~Process", "~ServerImpl", "~members", "returned"}
    /\ CallStop(t)
    /\ UNCHANGED <<place, mServer, mServerStarted, grpc, inFlight, mKeepRunning,
                   catching, mInterrupted, exporters, exit>>

TestServer(t) ==
    /\ InStop(t, "testServer")
    /\ stopping' = [stopping EXCEPT ![t] = IF mServer THEN "testStarted" ELSE "no"]
    /\ UNCHANGED <<place, mServer, mServerStarted, grpc, inFlight, mKeepRunning,
                   catching, mInterrupted, exporters, exit>>

\* Mutant of TestStarted: the flag is read, and cleared by start() only.
TestStartedLoads(t) ==
    /\ InStop(t, "testStarted")
    /\ stopping' = [stopping EXCEPT ![t] = IF mServerStarted THEN "shutdown" ELSE "no"]
    /\ UNCHANGED <<place, mServer, mServerStarted, grpc, inFlight, mKeepRunning,
                   catching, mInterrupted, exporters, exit>>

\* Mutant of TestStarted: the flag is cleared before it is read.
TestStartedCleared(t) ==
    /\ InStop(t, "testStarted")
    /\ stopping' = [stopping EXCEPT ![t] = "no"]
    /\ mServerStarted' = FALSE
    /\ UNCHANGED <<place, mServer, grpc, inFlight, mKeepRunning, catching,
                   mInterrupted, exporters, exit>>

\* mServerStarted.exchange(false)
TestStarted(t) ==
    /\ InStop(t, "testStarted")
    /\ stopping' = [stopping EXCEPT ![t] = IF mServerStarted THEN "shutdown" ELSE "no"]
    /\ mServerStarted' = FALSE
    /\ UNCHANGED <<place, mServer, grpc, inFlight, mKeepRunning, catching,
                   mInterrupted, exporters, exit>>

\* Shutdown: no RPC is accepted any more.
Shutdown(t) ==
    /\ InStop(t, "shutdown")
    /\ grpc' = "draining"
    /\ stopping' = [stopping EXCEPT ![t] = "drain"]
    /\ UNCHANGED <<place, mServer, mServerStarted, inFlight, mKeepRunning, catching,
                   mInterrupted, exporters, exit>>

\* Shutdown returns when the RPCs under way have ended, cancelled after the
\* deadline or not.
ShutdownReturns(t) ==
    /\ InStop(t, "drain")
    /\ inFlight = {}
    /\ grpc' = "shutdown"
    /\ stopping' = [stopping EXCEPT ![t] = "reset"]
    /\ UNCHANGED <<place, mServer, mServerStarted, inFlight, mKeepRunning, catching,
                   mInterrupted, exporters, exit>>

\* mServer = nullptr destroys the gRPC server.
Reset(t) ==
    /\ InStop(t, "reset")
    /\ mServer' = FALSE
    /\ stopping' = [stopping EXCEPT ![t] = "no"]
    /\ UNCHANGED <<place, mServerStarted, grpc, inFlight, mKeepRunning, catching,
                   mInterrupted, exporters, exit>>

-----------------------------------------------------------------------------

(***************************************************************************)
(* The main thread: Process::start, ServerImpl::start, handleMainThread,   *)
(* main()'s cleanup and the destructors.                                   *)
(***************************************************************************)
BuildAndStart ==
    /\ At("start")
    /\ mKeepRunning' = TRUE
    /\ mServer' = TRUE
    /\ grpc' = "running"
    /\ place' = "started"
    /\ UNCHANGED <<stopping, mServerStarted, inFlight, catching, mInterrupted,
                   exporters, exit>>

\* Mutant of BuildFails: the pointer is not looked at.
BuildFailsUnchecked ==
    /\ At("start")
    /\ mKeepRunning' = TRUE
    /\ place' = "started"
    /\ UNCHANGED <<stopping, mServer, mServerStarted, grpc, inFlight, catching,
                   mInterrupted, exporters, exit>>

\* The address cannot be bound: start() throws and main() catches.
BuildFails ==
    /\ At("start")
    /\ mKeepRunning' = TRUE
    /\ place' = "cleanMetrics"
    /\ UNCHANGED <<stopping, mServer, mServerStarted, grpc, inFlight, catching,
                   mInterrupted, exporters, exit>>

\* Mutant of SetStarted: start() does not wait.
SetStartedNoWait ==
    /\ At("started")
    /\ mServerStarted' = TRUE
    /\ place' = "catchSignals"
    /\ UNCHANGED <<stopping, mServer, grpc, inFlight, mKeepRunning, catching,
                   mInterrupted, exporters, exit>>

SetStarted ==
    /\ At("started")
    /\ mServerStarted' = TRUE
    /\ place' = "wait"
    /\ UNCHANGED <<stopping, mServer, grpc, inFlight, mKeepRunning, catching,
                   mInterrupted, exporters, exit>>

\* Wait returns once Shutdown is over.
WaitReturns ==
    /\ At("wait")
    /\ grpc = "shutdown"
    /\ place' = "waited"
    /\ UNCHANGED <<stopping, mServer, mServerStarted, grpc, inFlight, mKeepRunning,
                   catching, mInterrupted, exporters, exit>>

\* The server was destroyed before Wait returned: Wait then locks a mutex that
\* is gone.  It returns all the same (WaitReturns) or takes the process down.
WaitInDestroyedServer ==
    /\ At("wait")
    /\ ~mServer
    /\ exit' = "crashed"
    /\ UNCHANGED <<place, stopping, mServer, mServerStarted, grpc, inFlight,
                   mKeepRunning, catching, mInterrupted, exporters>>

UnsetStarted ==
    /\ At("waited")
    /\ mServerStarted' = FALSE
    /\ place' = "catchSignals"
    /\ UNCHANGED <<stopping, mServer, grpc, inFlight, mKeepRunning, catching,
                   mInterrupted, exporters, exit>>

catchSignals ==
    /\ At("catchSignals")
    /\ catching' = TRUE
    /\ place' = "loop"
    /\ UNCHANGED <<stopping, mServer, mServerStarted, grpc, inFlight, mKeepRunning,
                   mInterrupted, exporters, exit>>

\* Mutant of LeaveLoop: the request to stop is not stored, so the loop goes on.
LeaveLoopUnset ==
    /\ At("loop")
    /\ mInterrupted
    /\ UNCHANGED vars

\* The loop of handleMainThread sees the interrupt and calls Process::stop.
LeaveLoop ==
    /\ At("loop")
    /\ mInterrupted
    /\ mKeepRunning' = FALSE
    /\ CallStop(Main)
    /\ place' = "cleanMetrics"
    /\ UNCHANGED <<mServer, mServerStarted, grpc, inFlight, catching, mInterrupted,
                   exporters, exit>>

CleanUpMetrics ==
    /\ At("cleanMetrics")
    /\ exporters' = exporters \ {"metrics"}
    /\ place' = "cleanLogs"
    /\ UNCHANGED <<stopping, mServer, mServerStarted, grpc, inFlight, mKeepRunning,
                   catching, mInterrupted, exit>>

CleanUpLogs ==
    /\ At("cleanLogs")
    /\ exporters' = exporters \ {"logs"}
    /\ place' = "~Process"
    /\ UNCHANGED <<stopping, mServer, mServerStarted, grpc, inFlight, mKeepRunning,
                   catching, mInterrupted, exit>>

\* main() returns, and the Process goes: its destructor and that of ServerImpl
\* call stop().  No other thread is then in a call of the object.
DestroyProcess ==
    /\ At("~Process")
    /\ \A t \in Stoppers : stopping[t] = "no"
    /\ mKeepRunning' = FALSE
    /\ CallStop(Main)
    /\ place' = "~ServerImpl"
    /\ UNCHANGED <<mServer, mServerStarted, grpc, inFlight, catching, mInterrupted,
                   exporters, exit>>

DestroyServerImpl ==
    /\ At("~ServerImpl")
    /\ CallStop(Main)
    /\ place' = "~members"
    /\ UNCHANGED <<mServer, mServerStarted, grpc, inFlight, mKeepRunning, catching,
                   mInterrupted, exporters, exit>>

\* EXIT_FAILURE if start() threw, which it does only without a server.
DestroyMembers ==
    /\ At("~members")
    /\ mServer' = FALSE
    /\ place' = "returned"
    /\ exit' = IF grpc = "none" THEN "EXIT_FAILURE" ELSE "EXIT_SUCCESS"
    /\ UNCHANGED <<stopping, mServerStarted, grpc, inFlight, mKeepRunning, catching,
                   mInterrupted, exporters>>

-----------------------------------------------------------------------------

(***************************************************************************)
(* Clients and the operating system.                                       *)
(***************************************************************************)
RPCArrives(r) ==
    /\ exit = "running"
    /\ grpc = "running"
    /\ inFlight' = inFlight \cup {r}
    /\ UNCHANGED <<place, stopping, mServer, mServerStarted, grpc, mKeepRunning,
                   catching, mInterrupted, exporters, exit>>

RPCEnds(r) ==
    /\ exit = "running"
    /\ r \in inFlight
    /\ inFlight' = inFlight \ {r}
    /\ UNCHANGED <<place, stopping, mServer, mServerStarted, grpc, mKeepRunning,
                   catching, mInterrupted, exporters, exit>>

\* SIGINT or SIGTERM.  Without a handler the default action ends the process.
Signal ==
    /\ exit = "running"
    /\ IF catching
       THEN mInterrupted' = TRUE /\ UNCHANGED exit
       ELSE exit' = "killed" /\ UNCHANGED mInterrupted
    /\ UNCHANGED <<place, stopping, mServer, mServerStarted, grpc, inFlight,
                   mKeepRunning, catching, exporters>>

InsideStop(t) ==
    TestServer(t) \/ TestStarted(t) \/ Shutdown(t) \/ ShutdownReturns(t) \/ Reset(t)

MainStep ==
    \/ BuildAndStart \/ BuildFails \/ SetStarted
    \/ WaitReturns \/ WaitInDestroyedServer \/ UnsetStarted
    \/ catchSignals \/ LeaveLoop \/ CleanUpMetrics \/ CleanUpLogs
    \/ DestroyProcess \/ DestroyServerImpl \/ DestroyMembers

Next ==
    \/ MainStep
    \/ \E t \in Threads : StopServer(t) \/ InsideStop(t)
    \/ \E r \in RPCs : RPCArrives(r) \/ RPCEnds(r)
    \/ Signal

\* A thread that is not waiting runs on; every RPC ends (EveryRPCEnds of
\* MagnitudeService).  Nothing obliges a client, a signal or a caller of stop().
Fairness ==
    /\ WF_vars(MainStep)
    /\ \A t \in Threads : WF_vars(InsideStop(t))
    /\ \A r \in RPCs : WF_vars(RPCEnds(r))

Spec == Init /\ [][Next]_vars /\ Fairness

-----------------------------------------------------------------------------

\* Type correctness of the process, the server, and the threads' places in both.
TypeOK ==
    /\ place \in {"start", "started", "wait", "waited", "catchSignals", "loop",
                  "cleanMetrics", "cleanLogs", "~Process", "~ServerImpl", "~members",
                  "returned"}
    /\ stopping \in [Threads -> {"no", "testServer", "testStarted", "shutdown",
                                 "drain", "reset"}]
    /\ {mServer, mServerStarted, mKeepRunning, catching, mInterrupted} \subseteq BOOLEAN
    /\ grpc \in {"none", "running", "draining", "shutdown"}
    /\ inFlight \subseteq RPCs
    /\ exporters \subseteq {"metrics", "logs"}
    /\ exit \in {"running", "EXIT_SUCCESS", "EXIT_FAILURE", "killed", "crashed"}
    /\ place \in {"started", "wait", "waited", "catchSignals", "loop"} => grpc # "none"

ShuttingDown == {t \in Threads : stopping[t] \in {"shutdown", "drain", "reset"}}

\* However many threads call stop(), and the destructors after them, one at most
\* gets past the exchange to shut the server down and to destroy it.
OneShutdown == \A t, u \in ShuttingDown : t = u

\* The flag is up only while gRPC serves and the pointer is set: a stop() that
\* wins the exchange has a live server to shut down.
StartedMeansServing == mServerStarted => mServer /\ grpc = "running"

\* The exporters that handlers record to are cleaned up only when no RPC is
\* under way and none can come, whichever thread shut the server down.
ExportersOutliveRPCs == exporters # {"metrics", "logs"} => inFlight = {} /\ grpc # "running"

\* A stop() that finds the server started ends the service, by itself or by the
\* thread that is quicker, and start() returns, unless the process ends before.
StopEndsStart ==
    \A t \in Threads :
        stopping[t] = "testStarted" /\ mServerStarted
            ~> (grpc = "shutdown" /\ place # "wait") \/ exit # "running"

\* A signal that is caught ends the process: the loop sees it, stops, cleans up
\* and returns.
CaughtSignalEndsProcess == mInterrupted ~> exit # "running"

=============================================================================
