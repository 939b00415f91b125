------------------------------ MODULE Startup ------------------------------
(***************************************************************************)
(* main() up to the construction of the Process: command line,             *)
(* initialization file, logger, metrics exporter, Process, and the exits   *)
(* on the way, each with the cleanup it does.                              *)
(***************************************************************************)
Exporters == {"http", "grpc"}

\* How the program is built and invoked.  "unreadable" is a command line that
\* does not parse or that names a file that does not exist; gone says that the
\* file is removed between that check and the reading.  A file is valid when
\* every value main() reads from it is accepted; its sections for the exporters
\* of logs and metrics may be absent.
Invocations ==
    [withOtlpGrpc : BOOLEAN,
     commandLine  : {"help", "noFile", "unreadable", "file"},
     gone         : BOOLEAN,
     valid        : BOOLEAN,
     logs         : SUBSET Exporters,
     metrics      : SUBSET Exporters,
     serviceName  : BOOLEAN]

VARIABLES
    invocation,          \* the command line, the file and the environment
    pc,                  \* the statement of main() to run next
    options,             \* programOptions
    OTEL_SERVICE_NAME,   \* the environment variable is set
    loggerProvider,      \* the global log provider, by exporter
    metricsInitialized,  \* the global meter provider, by exporter
    exitCode             \* how main() ended

startupVars == <<invocation, pc, options, OTEL_SERVICE_NAME, loggerProvider,
                 metricsInitialized, exitCode>>

\* ProgramOptions as it is default constructed.
DefaultOptions ==
    [exportLogs |-> FALSE, exportLogsWithHTTP |-> TRUE,
     exportMetrics |-> FALSE, exportMetricsWithHTTP |-> TRUE,
     haveCalculatorOptions |-> FALSE]

StartupInit ==
    /\ invocation \in Invocations
    /\ pc = "parseCommandLine"
    /\ options = DefaultOptions
    /\ OTEL_SERVICE_NAME = invocation.serviceName
    /\ loggerProvider = "none"
    /\ metricsInitialized = "none"
    /\ exitCode = "running"

-----------------------------------------------------------------------------

GoTo(label) == pc' = label /\ UNCHANGED exitCode
ExitWith(code) == pc' = "exited" /\ exitCode' = code

\* Mutant of ParseCommandLine: main() goes on after printing the help.
ParseCommandLineGoesOn ==
    /\ pc = "parseCommandLine"
    /\ CASE invocation.commandLine = "help" ->
               pc' = "parseFile" /\ exitCode' = "EXIT_SUCCESS"
         [] invocation.commandLine = "file" -> GoTo("parseFile")
         [] OTHER -> ExitWith("EXIT_FAILURE")
    /\ UNCHANGED <<invocation, options, OTEL_SERVICE_NAME, loggerProvider,
                   metricsInitialized>>

ParseCommandLine ==
    /\ pc = "parseCommandLine"
    /\ CASE invocation.commandLine = "help" -> ExitWith("EXIT_SUCCESS")
         [] invocation.commandLine = "file" -> GoTo("parseFile")
         [] OTHER -> ExitWith("EXIT_FAILURE")
    /\ UNCHANGED <<invocation, options, OTEL_SERVICE_NAME, loggerProvider,
                   metricsInitialized>>

\* Of two sections the HTTP one is taken.  Without one of them the gRPC one is
\* asked for, which throws in a build that has no gRPC exporter, whether or
\* not the file has that section.
Throws(sections) == "http" \notin sections /\ ~invocation.withOtlpGrpc

\* Mutant of ReadOptions: a gRPC section does not turn HTTP off.
ReadOptionsKeepHTTP ==
    [exportLogs            |-> invocation.logs # {},
     exportLogsWithHTTP    |-> TRUE,
     exportMetrics         |-> invocation.metrics # {},
     exportMetricsWithHTTP |-> TRUE,
     haveCalculatorOptions |-> FALSE]

\* The calculator's options are read into a local variable, checked there and
\* left behind: the options returned keep the default ones.
ReadOptions ==
    [exportLogs            |-> invocation.logs # {},
     exportLogsWithHTTP    |-> "http" \in invocation.logs \/ invocation.logs = {},
     exportMetrics         |-> invocation.metrics # {},
     exportMetricsWithHTTP |-> "http" \in invocation.metrics \/ invocation.metrics = {},
     haveCalculatorOptions |-> DefaultOptions.haveCalculatorOptions]

ParseInitializationFile ==
    /\ pc = "parseFile"
    /\ ~invocation.gone
    /\ IF invocation.valid /\ ~Throws(invocation.logs) /\ ~Throws(invocation.metrics)
       THEN options' = ReadOptions /\ GoTo("setServiceName")
       ELSE ExitWith("EXIT_FAILURE") /\ UNCHANGED options
    /\ UNCHANGED <<invocation, OTEL_SERVICE_NAME, loggerProvider, metricsInitialized>>

\* The file was there when the command line was read.  If it has gone since,
\* the options keep their defaults and nothing is said of it.
FileGone ==
    /\ pc = "parseFile"
    /\ invocation.gone
    /\ GoTo("setServiceName")
    /\ UNCHANGED <<invocation, options, OTEL_SERVICE_NAME, loggerProvider,
                   metricsInitialized>>

SetServiceName ==
    /\ pc = "setServiceName"
    /\ OTEL_SERVICE_NAME' =
          (OTEL_SERVICE_NAME \/ options.exportLogs \/ options.exportMetrics)
    /\ GoTo("initializeLogger")
    /\ UNCHANGED <<invocation, options, loggerProvider, metricsInitialized>>

\* The exporter an initializer creates: none unless exporting.
Exporter(export, withHTTP) ==
    IF ~export THEN "none" ELSE IF withHTTP THEN "http" ELSE "grpc"

\* Logger::initialize
InitializeLogger ==
    /\ pc = "initializeLogger"
    /\ loggerProvider' = Exporter(options.exportLogs, options.exportLogsWithHTTP)
    /\ GoTo("initializeMetrics")
    /\ UNCHANGED <<invocation, options, OTEL_SERVICE_NAME, metricsInitialized>>

\* Creating the logger's exporter failed.  The handler makes a logger named
\* "console" again; the name is registered, so it throws in its turn and
\* nothing catches it.
LoggerFails ==
    /\ pc = "initializeLogger"
    /\ options.exportLogs
    /\ ExitWith("terminated")
    /\ UNCHANGED <<invocation, options, OTEL_SERVICE_NAME, loggerProvider,
                   metricsInitialized>>

\* Metrics::initialize
InitializeMetrics ==
    /\ pc = "initializeMetrics"
    /\ metricsInitialized' =
          Exporter(options.exportMetrics, options.exportMetricsWithHTTP)
    /\ GoTo("constructProcess")
    /\ UNCHANGED <<invocation, options, OTEL_SERVICE_NAME, loggerProvider>>

\* Logger::cleanup and Metrics::cleanup flush and reset what was set.
LoggerCleanup == loggerProvider' = "none"
MetricsCleanup == metricsInitialized' = "none"

\* Mutant of MetricsFail: the logger is not cleaned up.
MetricsFailKeepsLogger ==
    /\ pc = "initializeMetrics"
    /\ options.exportMetrics
    /\ ExitWith("EXIT_FAILURE")
    /\ UNCHANGED <<invocation, options, OTEL_SERVICE_NAME, loggerProvider,
                   metricsInitialized>>

\* Creating the metrics exporter failed: Logger::cleanup and exit.
MetricsFail ==
    /\ pc = "initializeMetrics"
    /\ options.exportMetrics
    /\ LoggerCleanup
    /\ ExitWith("EXIT_FAILURE")
    /\ UNCHANGED <<invocation, options, OTEL_SERVICE_NAME, metricsInitialized>>

\* Process -> Server -> MagnitudeService -> NetworkMagnitudeCalculator, whose
\* constructor throws if its options have no corrections.
Constructible == options.haveCalculatorOptions

\* When the Process cannot be made, main() cleans up the metrics and the logger
\* and exits.
ConstructProcess ==
    /\ pc = "constructProcess"
    /\ IF Constructible
       THEN GoTo("start") /\ UNCHANGED <<loggerProvider, metricsInitialized>>
       ELSE MetricsCleanup /\ LoggerCleanup /\ ExitWith("EXIT_FAILURE")
    /\ UNCHANGED <<invocation, options, OTEL_SERVICE_NAME>>

StartupNext ==
    \/ ParseCommandLine \/ ParseInitializationFile \/ FileGone \/ SetServiceName
    \/ InitializeLogger \/ LoggerFails \/ InitializeMetrics \/ MetricsFail
    \/ ConstructProcess

StartupSpec == StartupInit /\ [][StartupNext]_startupVars /\ WF_startupVars(StartupNext)

-----------------------------------------------------------------------------

\* Type correctness of main()'s locals and of the globals it sets.
StartupTypeOK ==
    /\ invocation \in Invocations
    /\ pc \in {"parseCommandLine", "parseFile", "setServiceName", "initializeLogger",
               "initializeMetrics", "constructProcess", "start", "exited"}
    /\ options \in [exportLogs : BOOLEAN, exportLogsWithHTTP : BOOLEAN,
                   exportMetrics : BOOLEAN, exportMetricsWithHTTP : BOOLEAN,
                   haveCalculatorOptions : BOOLEAN]
    /\ OTEL_SERVICE_NAME \in BOOLEAN
    /\ loggerProvider \in {"none"} \cup Exporters
    /\ metricsInitialized \in {"none"} \cup Exporters
    /\ exitCode \in {"running", "EXIT_SUCCESS", "EXIT_FAILURE", "terminated"}
    /\ pc = "exited" <=> exitCode # "running"

\* Whichever step fails, a main() that returns leaves no exporter behind: each
\* provider that was set has been reset, and the logs flushed, by then.
NothingLeftAtExit ==
    exitCode \in {"EXIT_SUCCESS", "EXIT_FAILURE"} =>
        loggerProvider = "none" /\ metricsInitialized = "none"

\* An exporter runs only if the file has its section and the build has its
\* code, and then never without a service name.
ExportersWereAskedFor ==
    /\ loggerProvider # "none" => loggerProvider \in invocation.logs
    /\ metricsInitialized # "none" => metricsInitialized \in invocation.metrics
    /\ "grpc" \in {loggerProvider, metricsInitialized} => invocation.withOtlpGrpc
    /\ {loggerProvider, metricsInitialized} # {"none"} => OTEL_SERVICE_NAME

-----------------------------------------------------------------------------

(***************************************************************************)
(* A statement of the repository about startup that its code refutes.      *)
(***************************************************************************)

\* "Example usage is uLocalMagnitudeService --ini=service.ini": with a valid
\* file, a build that has what it asks for and no exporter that could fail,
\* the program gets past its startup.
ValidFileStarts ==
    /\ invocation.commandLine = "file"
    /\ ~invocation.gone
    /\ invocation.valid
    /\ invocation.withOtlpGrpc
    /\ invocation.logs = {}
    /\ invocation.metrics = {}
    => exitCode # "EXIT_FAILURE"

=============================================================================
