# uLocalMagnitudeService in TLA+

A local-magnitude service: a gRPC server that turns the amplitudes measured at
seismic stations into station magnitudes and a network magnitude, with distance
and station corrections read at startup.  These modules model the service, the
calculators behind it, the corrections and the measurements they are given, the
options of the server, its startup, its life and its end, and the waveform
packets kept in the same library.  TLC checks them on small instances; TLAPS
proves the safety properties for any number of RPCs, threads, stations, observations
and table entries, that the steps of a calculation are those its specification
promises, and that its answer does not depend on the order of the observations.

Paths below start with `src/`, the repository's root.

## Inventory

| Component | State | Operations | Interacts with |
|---|---|---|---|
| `MagnitudeService` (`src/src/grpc/magnitudeService.cpp`) | the access token, the calculator (both fixed at construction); one reactor per RPC: `mSuccess`, start time, its response | the three overridden routes, `OnDone`, `OnCancel`; a fourth route is left to the generated base class | called by gRPC on its own threads; calls the calculator and the metrics |
| Metrics singleton (`src/src/metrics/singleton.cpp`) | four maps route -> count behind a mutex | `increment...Counter`; `recordRouteDuration` (its body is empty) | every reactor; read by the OpenTelemetry callbacks |
| `NetworkMagnitudeCalculator`, `StationMagnitudeCalculator` (`src/src/magnitude/`) | options and one station calculator per correction, immutable | `operator()`, `getStationCorrection` | shared by all RPCs; uses `Distance` |
| `NetworkMagnitude`, `Residual`, `StationMagnitude` | value, residuals, rejections | setters that check and copy; conversion to messages | returned by the calculator |
| `Observation`, `Amplitude`, `StreamIdentifier`, `Hypocenter` | a measurement, field by field, each with a "has" flag | constructors from messages, which throw `std::invalid_argument` | built by the reactors |
| `DistanceOptions`, `Distance` (`src/src/corrections/`) | the correction table, interpolation, type, datum | setters, `fromInitializationFile`; lookup by distance | used by the station calculators |
| `StationsSet`, `Stations`, `Station`, `StationOptions`, `StationIdentifier` (`src/src/corrections/`) | a map from names to stations and their corrections | insert, `fromInitializationFile`, lookup by name and by identifier | copied into the calculator's options |
| `NetworkMagnitudeCalculatorOptions` | station corrections, distance corrections, the minimum | setters, `validate` | copied into the calculator |
| `Server` (`src/src/grpc/server.cpp`) | services, `mServer`, `mServerStarted` | start (blocks in `Wait`), stop | owned by `Process` |
| `Process`, `main` (`src/src/main.cpp`) | options, signal flags | start, stop, signal handler | owns the `Server` |
| Startup: `programOptions.hpp`, `parseCommandLineOptions.hpp`, `logger.hpp`, `metrics.hpp`, `otelOptions.hpp` | options; global log and meter providers | read, initialize, clean up | `main` |
| `ServerOptions`, `secretFile.hpp`, `MagnitudeServiceOptions` | certificates, token, limits | setters, `validate`, `resolveSecret` | `Server` |
| Waveform `Packet`, `StreamIdentifier` | samples and times | setters | nothing in the service |

What is hard: a stop and the thread that waits for the server race for the same
pointer and flag; RPCs interleave on gRPC threads and share the counters; a reactor
has a dozen early exits, each of which must count, `Finish` and return; gRPC may
report a cancellation after `Finish` and always ends with `OnDone`, which deletes
the reactor; one measurement can fail in the middle of a loop that is filling a
response; the observation numbers a client gets back survive packing, skipping
and two tables; several functions are `noexcept` and call setters that throw; the
table lookups are binary searches with an edge at each end; startup installs
global providers one after the other and has to undo the right ones.

What makes each part correct is stated by the properties listed under
[Runs](#runs).  `PROJECT.json` lists the hazards at their lines, those that no
property covers yet with the reason.

## Modules

| Module | Models | Composition |
|---|---|---|
| `MagnitudeCalculator` | what both calculators return, as operators over observations | no state; extended by the next four |
| `NetworkMagnitudePromise` | one call: an argument, then the answer | abstract specification |
| `NetworkMagnitudeCalculator` | the same call, one loop iteration per step | implements `NetworkMagnitudePromise` |
| `MagnitudeService` | concurrent RPCs, reactors, counters, clock, gRPC's part | uses `NetworkResult`, the answer of the promise |
| `DistanceCorrections` | `DistanceOptions` and `Distance`, one action per operation | on its own |
| `StationTable` | one correction for each station, a file loaded as a whole or not at all | abstract specification |
| `StationCorrections` | the station corrections from file to calculator, entry by entry | implements `StationTable` |
| `Measurements` | the builders of an `Observation`: identifiers, amplitudes, hypocenter | on its own |
| `ServerOptions` | options, secrets, the copies kept, what the builder is told | on its own |
| `Startup` | `main` up to the construction of the `Process` | on its own |
| `ServerLifecycle` | `main` from there on, `Server`, signals, threads that stop the server | takes `EveryRPCEnds` of `MagnitudeService` as fairness |
| `Packet` | a waveform packet | on its own |
| `NetworkMagnitudeCalculatorProofs`, `MagnitudeServiceProofs`, `DistanceCorrectionsProofs`, `StationCorrectionsProofs`, `MeasurementsProofs`, `ServerOptionsProofs`, `PacketProofs` | theorems about the module they are named after | extend it |
| `MainProofs` | theorems about `ServerLifecycle` and `Startup` | extends both; the definitions of `Startup` carry its name for that |
| `MC...` | the finite sets of values the runs use | extend the module they are named after |

The layering is the code's.  `NetworkMagnitudeCalculator` is checked to answer
`NetworkResult`; `MagnitudeService` then calls `NetworkResult` in one step.  That
is sound because the call reads only its argument and immutable members.

### MagnitudeCalculator

A station magnitude is `log10(average/2) + C_d + C_s`.  The three terms are integers, an
average is kept as a sum and a count, and a residual is scaled by the count, so that all
arithmetic is exact.  `NonFinite` stands for a logarithm that is not a finite number,
and for a correction read as `nan`.  `MissingCode`, `StationCalculatorCode` and
`StationCode` are the error paths of `computeStationMagnitude` in its order; the order
is visible, as the first error is the one reported.  `Terminate` is the outcome of an
exception that leaves a `noexcept` function.  The distance table here is a function on
the distances it covers; how it is interpolated is the subject of
`DistanceCorrections`.  The `Unitialized...` codes, which a constructed calculator
cannot return, have no value.

### NetworkMagnitudeCalculator

`phase` and `index` are the program counter of `operator()`: completeness,
duplicate names, station magnitudes, the first count check, the sum, the second
count check and `setValue`, the residuals and rejections, the return.  The
locals keep their names.  The averaging strategy is the only one there is, so the
check for another is part of `CheckEnoughWork` without a branch of its own.
`ByNumber` stands for the copies in `setResiduals` and `setRejectedObservations`: the rows
are handed over in the order of their numbers, and nothing sorts them.

### MagnitudeService

`pc[r]` is the place of RPC `r`: `absent`, then `authenticate`, `hypocenter`,
`items` (the loop over the measurements or identifiers), `compute` (network
route), `constructed` (after `Finish`, at the end of the reactor's constructor),
`bound` (gRPC has the reactor) and `deleted` (after `OnDone`).

| Code | Action |
|---|---|
| reactor allocated, members initialized | `Arrive` |
| `if (accessToken != std::nullopt)` ... `validateClient` | `Authenticate` |
| the hypocenter checks | `CheckHypocenter` |
| one turn of the loop, by route | `PackObservation`, `ComputeStationMagnitude`, `LookUpCorrection` |
| after the loop | `CheckObservations`, `FinishItems` |
| the calculator call and its error codes | `ComputeNetworkMagnitude` |
| `catch (const std::exception &)` | `CatchException`, possible anywhere in the `try` block |
| `OnDone`, `OnCancel` | `OnDone`, `OnCancel` |
| the route that is not overridden | `Unimplemented` |
| gRPC binding the reactor, a client cancelling, the clock | `Bind`, `Cancel`, `Tick` |

An increment is one step, because it happens under the singleton's mutex.  An
early exit (`ClientError`, `ServerError`) is the increment, the `Finish` and the
return together: between them the reactor touches nothing another RPC can see.
`status[r]` is the sequence of codes given to `Finish`, so that a second call or
a missing one is visible.  A station correction may be no number, and the corrections
route hands it on; but a magnitude with such a term ends the process with every RPC in
it, and is examined in the calculator's run: `NoTerminationAssumption` keeps it out of
the requests here.  Of a response the model
has the entries, and for the network route the value, the residuals and the
rejections by observation number; version strings, identifiers and echoed
station names beyond the entries' are left out.

### DistanceCorrections

Each setter, `fromInitializationFile` and the constructor of `Distance` is an action
that returns or throws.  The lookups are `const` and are operators on a `Distance`
value, over fractions.  A file's table is read by number up to the first one missing and
at most to `LastEntry` (`Listed`), as the code reads it.  `std::hypot` rounds down to an
integer (`Hypot`); the property about it compares exact squares only.  A distance may be
`NaN`, which `std::stod` reads: it is less than nothing and nothing is less than it
(`Less`), so it passes the check of the sign and, alone in its table, is the minimum and
the maximum.  What `std::sort` does to a longer table with a `NaN` in it is undefined;
such tables are excluded by assumption. The value at a node may be `NaN` too, and then
the values on either side of it are. Infinite distances and values are left out.

### StationCorrections and StationTable

A `StationsSet` is a map from names to pairs of a station and a correction.  A
user writes a station in some spelling; `Identify` is what the code makes of it,
blanks removed and capitalized, or `Invalid`.  Its name joins network and station
with a dot (`toString`).  `fromInitializationFile` is one step per entry
(`OpenFile`, `ReadEntry`, `RefuseEntry`, `EndOfTable`), into a local set
(`stationsSet`) that replaces the member at the end only.  `ConstructStations`,
`SetStationCorrections` and `ConstructCalculator` take copies, and the set may go
on changing.  `LookUp` is the lookup all of them share.

`StationTable` has no names: a correction or none for each station, inserted, or
replaced by all the entries of a file at once.  A `StationsSet` whose names tell
stations apart implements it; the reading of a file is a stutter up to its end.

### Measurements

One `StreamIdentifier`, two `Amplitude`s, one `Hypocenter` and one `Observation`, each
operation an action that returns or throws: setters, and construction from messages with
any field missing (`Absent`).  `MagnitudeService` knows of all this only whether a
measurement can be constructed.  Texts are values with two operations: `Tidy` (blanks
removed, capitalized) and `Join` (with a dot between), for the code compares joined
names, and joining may make the same of different texts: of those with a dot in them
(`Dotted`), while without one the joined name tells which texts it was made from
(`JoinAssumption`).  `Instrument` is a channel without its last letter.  Degrees and
values are integers, with `NotFinite` for infinity and NaN; a value times its unit may
leave the finite ones.  `Geodesics` are what GeographicLib answers: any distance there
is on the earth.

### ServerOptions

Every setter; `validate` (`Valid`); the initialization file, in which each of the four
secrets may be given in line or by the name of a file that may be missing, unreadable or
blank (`resolveSecret`), or the file itself may be missing (`FileMissing`);
`setGRPCOptions`, which keeps a validated copy; and `ConstructServer`, which keeps a
copy that is not validated and hands the access token to the service.  `Listening` is
what `ServerImpl::start` tells gRPC's builder and what gRPC does about it, the channel
arguments under the names the code gives them.  Milliseconds are counted in a small
`int` (`MaxInt`), into which the code casts them (`ToInt`).

### Startup

One action per statement of `main` that can fail.  An invocation says how the
program was built (`WITH_OTLP_GRPC`), what the command line and the environment
hold, which exporter sections the file has, and whether the file disappears
between the check of the command line and the reading.  Whether creating an
exporter succeeds is a choice of the environment.

### ServerLifecycle

| Code | Action |
|---|---|
| `Process::start`, `ServerImpl::start`: build, raise the flag, `Wait`, clear the flag | `BuildAndStart`, `BuildFails`, `SetStarted`, `WaitReturns`, `UnsetStarted` |
| `ServerImpl::stop`: look at the pointer, exchange the flag, `Shutdown`, its return, reset the pointer | `TestServer`, `TestStarted`, `Shutdown`, `ShutdownReturns`, `Reset` |
| `catchSignals`, the loop of `handleMainThread` and `Process::stop` | `catchSignals`, `LeaveLoop` |
| the cleanup at the end of `main` | `CleanUpMetrics`, `CleanUpLogs` |
| the destructors of `Process` and `ServerImpl`, the members | `DestroyProcess`, `DestroyServerImpl`, `DestroyMembers` |
| a signal, caught or not | `Signal` |
| gRPC's threads | `RPCArrives`, `RPCEnds` |

Each access to what threads share (the pointer, the atomic flag, gRPC's server) is
a step.  The program itself calls `stop` from its main thread only; the threads in
`Stoppers` are users of the public interface of `Server`, whose blocking `start`
nothing else can end.  They make no call while the object is destroyed.  A thread in
`Wait` whose server is destroyed under it returns or crashes: the code leaves it
undefined.  `mKeepRunning` is written and never read.

### Packet

Of the samples only their number counts.  `unpack` compares the bytes it is given
with the bytes it expects, computed in the type of the samples: `SizesAgree` does
that arithmetic, in `int32_t` with its sign and wrap, in `float` with its rounding
(`FloatOf`): `Apart` is how far apart the floats are around a size, one of the
`FloatUnits`.  A loop that reads past its bytes may crash.  2^32, 2^64, 2^24 and the
powers of two are constants, scaled down in the run; the assumptions say what is used
of them, among it that a `std::string` is at most half of what a `size_t` counts
(`ByteSizes`).  `updateEndTime` assigns the end time to itself; the two
getters of times, which both return it, change nothing and are left out.

## Runs

| Run | Configuration | Expected |
|---|---|---|
| `calculator` | `MCNetworkMagnitudeCalculator`, `NetworkMagnitudeCalculator.cfg` | holds |
| `service` | `MCMagnitudeService`, `MagnitudeService.cfg` | holds |
| `service_liveness` | `MCMagnitudeService`, `MagnitudeServiceLiveness.cfg` | holds |
| `distances` | `MCDistanceCorrections`, `DistanceCorrections.cfg` | holds |
| `stations` | `MCStationCorrections`, `StationCorrections.cfg` | holds |
| `measurements` | `MCMeasurements`, `Measurements.cfg` | holds |
| `options` | `MCServerOptions`, `ServerOptions.cfg` | holds |
| `startup` | `Startup`, `Startup.cfg` | holds |
| `lifecycle` | `ServerLifecycle`, `ServerLifecycle.cfg` | holds |
| `packet` | `MCPacket`, `Packet.cfg` | holds |
| `service_malformed_number` | `MCMagnitudeService`, `MagnitudeServiceNumbers.cfg` | a counterexample |
| `startup_valid_file` | `Startup`, `StartupValidFile.cfg` | a counterexample |

To repeat one: `tlc -config MagnitudeService.cfg MCMagnitudeService.tla`.

### calculator (26,450 states)

All vectors of at most three of fifteen kinds of observation, for four stations
of which one has no correction and one the correction `nan`, a table of four distances
of which one has the correction `nan`, and a minimum of two
station magnitudes.  Three is the least length at which two magnitudes suffice
while a third is rejected, and at which a duplicate is not adjacent.  The kinds
include both ends of the table, one distance beyond each, sums on both sides of
the range of a magnitude, each of the three terms not finite, the station with `nan` too
close to be looked at, and the three ways to be incomplete.

* `AccountedExactlyOnce`: each observation number is in exactly one row of
  exactly one of the two tables, which are in order.
* `ResidualsBalance`: the average is of the station magnitudes that were computed
  and no others, so the residuals cancel.
* `EnoughStations`: a magnitude is returned only from enough distinct stations.
* `EveryRejectionHasAReason`: no rejection reaches the client as
  `REASON_UNSPECIFIED`.
* `ImplementsPromise`: with `answer <- result`, every behaviour is one of
  `NetworkMagnitudePromise`, liveness included: the loops, their early exits
  and the two count checks amount to `NetworkResult`.

### service (340,635 states)

Two RPCs (interchangeable, hence the symmetry) with any two of sixteen requests:
every route; every way out of each handler; good, malformed, too distant,
repeated, uncorrected and out-of-range measurements; right, wrong and missing
tokens; no, an empty and a real access token.  Two RPCs are enough for the
hazard, which is two reactors at the same counter; the theorems remove the bound.
The clock stands still here (`MaxClock = 0`): only the duration depends on it.

* `FinishExactlyOnce`: every path through a constructor calls `Finish` once.
* `CountersMatchOutcomes`: each counter of a route is the number of its RPCs that
  ended that way.
* `RefusedSeesNothing`: nothing is computed for a caller who is refused.
* `ResponseAccountsForRequest`: the numbers in a network response are numbers of
  measurements of its own request, each used or rejected, for its own reason.
* `EntriesFollowRequest`: the station route answers with what it could compute,
  in order; the corrections route with one entry per identifier.
* `MalformedIsNamed`: a message about a malformed measurement is about the first of
  the request.  The network route numbers it from 0; the number of the station route is
  its own if every measurement before it has an entry in the response, and the next run
  shows what it is otherwise.
* `SettledStaysSettled`: after `Finish` no step writes the response or the status.

### service_malformed_number

`NamedMeasurementIsMalformed`: the measurement that a station request is told is malformed
is.  It is violated by the request with a measurement that is too far away before the one
that is malformed (see Findings).

### service_liveness (74,177 states)

`EveryRPCEnds`: an RPC that arrives ends, cancelled or not, with a moving clock
and without symmetry, which is not sound for liveness.  Fairness is weak and per RPC: on
the handler's steps, because it takes no lock it keeps and waits for nothing, so
its thread runs it to the end; on `Bind` and `OnDone`, because gRPC completes
every reactor that has finished.  There is none on `Arrive`, `Cancel`, `OnCancel`,
`CatchException` on its own or `Tick`.

### distances (22,116 states)

All tables of at most three of five nodes, one of them negative and two closer
together than the tolerance, and one table with a value that is `NaN` in the middle; ten
files, each broken in its own way or in none, one of them with a distance that is `nan`,
one with a malformed entry after the last that is read (the number of that one, 65534, is
3 here); one datum in range and one out of it; every distance from before the first
possible node to beyond the last; depths on both sides of the limits.  Three nodes are the
least with an interior node.

* `TableFitForSearch`: a `Distance` always holds an ascending table with nodes at
  least the tolerance apart.
* `EveryDistanceAnswered`, `NearestIsNearest`, `LinearIsLinear`: each distance has
  the right error or the right value, at the nodes, between and beyond them.
  These three and `TableFitForSearch` are about a `Distance` whose table has no `NaN`
  (`HasNumbers`): the code takes one, and then the order of the nodes means nothing.
  `LinearIsLinear` is also about values that are numbers (`HasValues`).
* `DepthIsBelowDatum`: a hypocentral table is read at the slant distance from the
  depth below the datum.

### stations (577,116 states)

Two stations that share their station code, in four spellings of which one has no
network; two corrections, one of them `nan`; eight files: empty, sound, with a number missing, with a
station twice in different letters, with an entry that is malformed, has no station
or no number, and with more entries than are looked for (the last number, 65534, is
3 here).  One distance correction, minima of 0 and 2.

* `AnswersItsOwnStation`: `Stations` and the calculator answer for the station that
  was asked for, however it is written.
* `ImplementsTable`: every behaviour is one of `StationTable`; a file with one bad
  entry leaves nothing behind.

`StationCorrectionsProofs` proves one more, which no run repeats: `CalculatorIsComplete`,
a calculator that could be constructed has a station, a distance correction and a
minimum of at least one.

### measurements (69,816 states)

Eighteen measurements: a good pair in two spellings and units, the same stream twice,
another location, instrument or station, two stations whose codes join to one name, an
amplitude that is missing, not finite, zero, without unit or stream or too large in its
unit, a location that is missing or off the earth.  Five hypocenters, at the upper end
of the depths, off both ends, incomplete and not finite; and a setter of each kind with
what it takes and what it refuses.  Of the parts of the measurements, the run constructs
by themselves the amplitudes that are amiss and those of one station
(`SentAmplitudes`), and a complete and an incomplete stream (`SentIdentifiers`).

* `PairIsFromOneSensor`: the two amplitudes of an observation come from different
  components of one instrument at one location, and carry one name; and they are of one
  station, unless the codes of the first have a dot in them.  The run has a pair of two
  stations that share a name: the code takes it (see Findings), and the property is not
  about it.
* `MessagesRoundTrip`: an amplitude sent as a message is constructed again as it was.
* `RefusalIsAboutTheMeasurement`: with a complete hypocenter, a measurement is refused
  for a reason of its own, as the client is told; the limits of the depth stand in two
  classes.

### options (62,320 states)

Every combination of the four secrets set, empty and not set, by setters and from 25
files: sound ones, and one for each setting or combination that is wrong.  The files have
a certificate of another text than the setters give, so that it is seen which one is
used.  Other options have one good and one bad value; nothing couples them with each other.

* `TokenAndPairAreUsed`: a server made from valid options asks for the token that was
  configured, and has the key and the certificate that were configured if any secret was.
  It is about three of the secrets: the client certificate is used by nothing (see
  Findings).
* `SecretsComeFromTheirOwnSettings`: each secret is what one of its own two settings in
  the file holds.

### startup (3,008 states)

All invocations, and every choice of the step that fails.

* `NothingLeftAtExit`: when `main` returns, no provider it set is still set.
* `ExportersWereAskedFor`: an exporter runs only if the file asks for it and the
  build has it, and never without a service name.

### lifecycle (1,657 states)

Three threads that stop the server and two RPCs.  Three is the least number with one
thread past the exchange, one before it and one to come.

* `OneShutdown`: one thread at most is past the exchange.
* `StartedMeansServing`: the flag is up only over a server that serves.
* `ExportersOutliveRPCs`: no handler runs, or can begin, once an exporter is cleaned up.
* `StopEndsStart`: a stop that finds the flag up ends the service and lets `start`
  return, unless the process ends first.
* `CaughtSignalEndsProcess`: a signal that is caught ends the process.

The two last are liveness properties.  Fairness is weak: on the main thread and on
each thread inside `stop`, which run on unless they wait; on the end of each RPC, which
`EveryRPCEnds` shows.  There is none on `StopServer`, `RPCArrives` or `Signal`.

### packet (753 states)

Numbers of samples around the sign bit and around the first integer that is no float;
sizes that fit them, that do not, and that are no whole number of samples.

* `SamplesAreTheBytes`: there are as many samples as the bytes hold, except of floats
  beyond 2^24.

`CHECK_DEADLOCK FALSE` is set where the modelled program ends: a call that
returned, a server whose RPCs are over, a `main` that returned, a crash.

## Findings

Two runs must fail.

* `startup_valid_file`: `ValidFileStarts` says what the usage example of the command line
  says; but options read from the initialization file stay in local variables
  (`src/src/programOptions.hpp:67`), the calculator is built from default ones and refuses
  them, and `main` fails for every valid file.  Everything behind the startup is therefore
  modelled with options that users of its classes may build.
* `service_malformed_number`: `NamedMeasurementIsMalformed` says what the message
  "Measurement N is malformed" says; but the number is taken from the length of the
  response (`src/src/grpc/magnitudeService.cpp:481`), in which a measurement that could not
  be computed has no entry, and a sound measurement is named.

The modules follow the code in these places too, where a comment of the repository says
something else.  No run states those comments.

* `src/src/main.cpp:62`: signal handlers are installed after the call that blocks until
  the server is shut down; `Signal` kills a serving process.
* `src/src/main.cpp:220`: the handler of a logger failure registers the name `console`
  a second time, which throws.
* `src/src/grpc/server.cpp:149`: a stop between `BuildAndStart` and the raising of the
  flag finds nothing to stop.  `:162`: `stop` destroys the server `start` waits in.
* `src/src/grpc/server.cpp:92`, `:95`, `:125`: the limit on requests is set on responses,
  the age limits have the name of the macro, reflection and the client certificate do
  not reach the builder (`Listening`), although `src/src/grpc/serverOptions.cpp:248` refuses
  a client certificate without the pair as being there "to enable mTLS".
* `src/src/grpc/serverOptions.cpp:304`: a negative port is read as another one.
* `src/src/grpc/magnitudeService.cpp:359`: the duration is `mRPCStartTime - endTime`.
  `:204`: the network route numbers measurements from 0, the rest of the API from 1
  (`MalformedIsNamed`).  `:194`: a malformed measurement fails the request, though
  the API has a rejection reason for it.
* `src/src/grpc/magnitudeService.hpp:31`: the documented distance corrections route is
  left unimplemented.
* `src/src/magnitude/stationMagnitudeCalculator.cpp:165`: a setter throws inside a
  `noexcept` operator (`Terminate`).
* `src/src/magnitude/observation.cpp:165`, `:177`: stations are compared by joined names,
  so that a pair of two stations may be taken where `observation.hpp:13-14` (in
  `src/include/uLocalMagnitudeService/magnitude/`) asks for "the same station"
  (`PairIsFromOneSensor`), and a vertical channel is taken.  `src/src/corrections/stationsSet.cpp:82`: names in a
  set are joined as well.
* `src/src/corrections/stationsSet.cpp:190`, `src/src/corrections/distanceOptions.cpp:313`:
  `std::stod` reads `nan`.
* `src/src/waveformProcessing/packet.cpp:86`, `:249`: the end time is never computed, and
  the start time returned is the end time.  `:35`: sizes are compared as floats.

## Proofs

Eight modules hold theorems.  Each is about the `Spec` of the module it extends, for
every value of the constants that its assumptions allow (`MainProofs` extends two
modules and is also about `StartupSpec`); TLC evaluates the assumptions in the
runs.  The main theorems follow; most state a property of a run.  Without one are the
type invariants of stations, measurements, options and lifecycle, `CalculatorComplete`,
`Between` and `AnyOrder`, and the theorems that stand for half of a liveness property:
`KeepsPromise` (the steps of `ImplementsPromise`), `PassesEnd`, `HandlersEnd`,
`NoStopLost`, `StopsEnd` and `SignalsEnd`.  TLC has checked the formulas of these, and
the inductive invariants below, on the configurations of the runs.

| Module | Theorems |
|---|---|
| `MagnitudeServiceProofs` | `TypeCorrect`, `FinishedOnce`, `Settled`, `RefusedLearnsNothing`, `CountersCountOutcomes`, `ResponseAccounts`, `EntriesAreTheRequests`, `MalformedNamed`, `HandlersEnd` |
| `NetworkMagnitudeCalculatorProofs` | `TypeCorrect`, `AccountedOnce`, `Enough`, `Reasons`, `Balanced`, `Between`, `KeepsPromise`, `PassesEnd`, `AnyOrder` |
| `DistanceCorrectionsProofs` | `TypeCorrect`, `TablesFit`, `Answered`, `Nearest`, `Linear`, `Depth` |
| `StationCorrectionsProofs` | `TypeCorrect`, `OwnStation`, `CalculatorComplete`, `Implements` |
| `MeasurementsProofs` | `TypeCorrect`, `OneSensor`, `RoundTrip`, `RefusalsAreTheMeasurements` |
| `ServerOptionsProofs` | `TypeCorrect`, `TokenAndPairUsed`, `OwnSettings` |
| `MainProofs` | of `ServerLifecycle`: `TypeCorrect`, `ShutDownOnce`, `StartedServes`, `ExportersOutlive`, `NoStopLost`, `StopsEnd`, `SignalsEnd`; of `Startup`: `StartupTypeCorrect`, `NothingLeft`, `AskedForOnly` |
| `PacketProofs` | `SamplesMatchBytes` |

One assumption is not of a module but of two theorems, `OwnStation` and `Implements`:
`DistinctNames`, no two stations share a name.

**MagnitudeService** goes in layers.

1. `TypeInv` adds to `TypeOK` that the handler's places belong to implemented
   routes (`RouteInv`): without it an increment could be of a route that has no
   counter.  There is one proof step per action.
2. `HandleEffect` sums up the ten handler actions: a step either goes on working,
   leaving status, flag and counters alone, or finishes with one status and the
   counter that belongs to it; and it touches no other RPC's response.  The later
   layers argue about those two cases instead of ten actions.
3. `StatusInv` says what the one status of a finished RPC is: a single code, `OK`
   exactly when `mSuccess` was set.  `FinishExactlyOnce` alone is not inductive,
   as nothing in it prevents a status from being there early, and `OnDone` decides
   by `mSuccess`, not by the status.  `RefusedInv` adds that a refused RPC is still
   at its token check or over: without that place, a later step could compute.
4. The counters are compared with cardinalities.  `CountOne` and `CountNone` say
   that a step which changes whether one RPC is counted changes one cardinality by
   one and no other; they rest on the library's facts about finite sets.
5. `AnswerInv` follows the observation numbers: the packed observations are those of
   the measurements, one by one, and all of them are there when the magnitude is
   computed.  `NetworkAccounts` does the rest in one step, as the answer of the promise
   is a function of its argument.
6. `ReplyInv` follows the entries of a response through the loop.  A measurement that
   comes to something has its entry in the place which the number of such measurements
   before it gives (`UsableBefore`): at every turn, as many entries as usable
   measurements looked at, each in its place (`StationEntries`); the measurement a
   message names is malformed and all before it were sound (`Replied`).  `NextUsable`
   and `StationEntriesGrow` are the turn that adds an entry.
7. `HandlersEnd` counts down: `Remaining(r)` is the items not looked at and the places
   to come.  Each step of a handler lowers its own count, and no step of any other
   thread raises it.  With the fairness that gives each handler its steps, this is
   `EveryRPCEnds`.

**NetworkMagnitudeCalculator.**  `IInv` has a conjunct per pass: the indices stay in
the vector (`IndexInv`); what was looked at is of distinct stations (`DistinctInv`);
each observation has a work item with its own outcome (`WorkInv`); the count is that of
the good ones (`CountInv`); the two tables have the rows of the good and of the bad
ones, in order (`TableInv`).  Each holds from its pass to the return, since the tables
are right only if the work items are, and the count only if the stations are distinct.

`Balanced` needs sums over sets that grow by any element, of which the code's loop takes
the one with the next index.  That a sum over a finite set does not depend on the order
is shown in the first part of the module for every function to the integers, from the
well-foundedness of the naturals: of the sizes at which the claim fails there would be a
least.  `SumInv` and `ResidualInv` then say what the sum and the residuals are at each
turn: the rows so far, scaled by the count, add up to their number times the sum, less
the count times the sum of their own magnitudes, which at the end is 0.  Integers
of which none is negative and one is positive do not add up to 0 (`SumOfBothSigns`), so
some residual is at most 0 and some at least 0: `Between`, the average is no lower than
the lowest and no higher than the highest station magnitude in its own table.

`PassInv` says what every pass has established when it is left, by which exit it is;
`KeepsPromise` follows, since the exits are the cases of `NetworkResult`: each step is
either one of `NetworkMagnitudePromise` or leaves `answer` as it is.  `StepsLeft` counts
the turns to come, and `PassesEnd` that each step is one fewer.

`AnyOrder` is about the answer itself, for any permutation of the observations: the
magnitude, the count and every residual are those of the same observation, and so is
every reason of a rejection.  Computed, rejected and used are moved by the permutation
as sets, their cardinalities stay, and a sum keeps its value when its index set is renamed
(`SumRenamed`).  One thing does depend on the order, which the statement leaves open:
when several observations lack something, which lack is the one reported.

**DistanceCorrections.**  `IInv` says what the setters keep, `FitInv` that a table set
without `NaN` is sorted, not negative, and has neighbours the tolerance apart.  That
`Sorted` chooses something at all needs a permutation that sorts: `Places` gives each
entry its rank, the number of entries before it, which is an injection of a finite set
into itself and so has an inverse.  `Less` than the tolerance of neighbours becomes
that of any two nodes by taking, of two that are too close, the first between them
(`Least`).  The lookups are then arithmetic: `Lower` and `Upper` say what the binary
searches find, `BetweenNodes` that a line through two nodes meets its ends, and
`PerfectSquare` that `Hypot` has one value.

**StationCorrections.**  `AllKeyed` says that every element is stored under its own
name, in the set and in all of its copies, and `ReadInv` that a file being read has put
into the local set the entries before `next` and nothing else.  `Implements` maps a
keyed map to the table it stands for; all steps are stutters but an insertion and the
end of a file.

**Measurements.**  `TypeOK` and `PairIsFromOneSensor` are inductive together.  That the
two channels differ is not checked by any comparison of channels: it follows from the
station names and locations being equal and the stream names not (`ChannelsDiffer`).  That
the stations are the same follows from the names if the first has no dot in its codes
(`OneStation`), by `JoinAssumption`; without it the theorem would be false, as the pair
of two stations in the run shows.

**ServerOptions.**  The invariant adds to `TypeOK` what token a server has been given
(`ServerInv`).  The token of valid options is passed on because
`Valid` asks for the pair of keys as soon as there is any secret.

**ServerLifecycle.**  `OneShutdown` and `StartedMeansServing` need each other: a thread
is past the exchange only because the flag was up, and the flag comes up only before any
thread is.  `MainInv` says what gRPC does by the statement the main thread is at, `StopInv` by
the statement of each thread in `stop`, and `ServingInv` when RPCs may be under way.
`EndInHand` is on top of these: while `start` waits, the flag is up, or a thread that
took it down is shutting down, or the server is shut down.  It says that the races
between threads in `stop`, and with the flag that `start` clears at its end, lose no stop
once the flag has been raised; one that comes before finds nothing (see Findings).
`SignalsEnd` is the safety half of `CaughtSignalEndsProcess`: a signal can be caught only
where the server is already shut down (`SignalsCaughtLate`), and from there the main
thread has at most six statements besides those of `stop`, each of which lowers a count
that nothing raises (`MainAdvances`).

**Startup.**  `NothingLeftAtExit` and `ExportersWereAskedFor` are not inductive: the one
says nothing of the steps before an exit, and some of them exit without any cleanup; the
other does not say why a provider is what was asked for.  `ProviderInv` says that no
provider is set before the statement of its initializer, that each is none or the one the
options name, that the options are what the sections of the file say, and that the name
of the service is there from `setServiceName` on if anything exports.

**Packet.**  `DataInv` says that the samples are those of the last bytes that were
accepted, so that the theorem is about the arithmetic of one comparison.  In integers a
number of samples beyond the sign bit would stand for more bytes than a string can have.
In floats the least unit that reaches a size is taken (`UnitOfSize`); four times a number
of samples is exact up to four times 2^24, and a larger one does not round below that.

To check them: `tlapm` and the name of the module; each takes a few minutes at the most.

Only model-checked:

* liveness, which needs fairness and `ENABLED`: `EveryRPCEnds`, `StopEndsStart`,
  `CaughtSignalEndsProcess`, the liveness half of `ImplementsPromise`.  Proved of them is
  what does not need fairness: that the steps come to an end (`HandlersEnd`, `PassesEnd`,
  `StopsEnd`, `SignalsEnd`) and that no stop is lost (`NoStopLost`);
* `ValidFileStarts` and `NamedMeasurementIsMalformed`, which the code refutes.

No module declares a `RECURSIVE` operator.

## Not modelled

* Floating point.  Values are integers or exact fractions, apart from numbers that are
  not finite and the sizes of packets; the entries of the tables may be `NaN`, not infinite.
* What becomes of the RPCs under way when a magnitude with a term that is not finite ends
  the process: the calculator's model has the end, the service's is about requests that do
  not bring it (`NoTerminationAssumption`).
* The wording of the command line; how a line of a file splits into words and numbers;
  the encoding of messages.
* `MagnitudeServiceOptions` beyond `setGRPCOptions`: its other setters check and keep a
  value that the program does not use.
* The waveform `StreamIdentifier`: the one of the amplitudes over again, used by nothing.
* The log sink for OpenTelemetry, which forwards records; version numbers, which are
  generated.
* gRPC, protobuf, OpenTelemetry, spdlog, GeographicLib and Boost: external.  gRPC appears
  as `Bind`, `Cancel`, `FinishWith` and the generated base class in `MagnitudeService`, as
  the server that serves, drains and is shut down in `ServerLifecycle`, and as what it
  makes of the builder in `ServerOptions`.
* Crashes and restarts: nothing is stored, so there is nothing to recover.
* Logging, identifiers echoed to the client, build files, scripts and tests.

## Plan

Done: everything planned at the outset, in this order: the calculator and its promise,
the service with its counters, the distance table, startup, the server's life, its
options, the station corrections, the measurements, packets; and the proofs above.

Left: `NetworkMagnitude`'s conversion to messages; the setters of
`MagnitudeServiceOptions`; magnitudes in floating point, where a sum depends on its order.
