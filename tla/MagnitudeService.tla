------------------------- MODULE MagnitudeService -------------------------
(***************************************************************************)
(* The gRPC MagnitudeService: concurrent RPCs on its routes, each served by *)
(* a reactor, and the metrics singleton they share.                        *)
(*                                                                         *)
(* A reactor does its work in its constructor, on a gRPC thread, and calls *)
(* Finish there.  gRPC binds it once the handler has returned, may tell it *)
(* the client cancelled, and last calls OnDone, in which it deletes itself. *)
(* The handlers of different RPCs interleave; what they share is the       *)
(* immutable calculator (see MagnitudeCalculator), the mutex protected     *)
(* counters and the clock.                                                 *)
(***************************************************************************)
EXTENDS MagnitudeCalculator

CONSTANTS
    RPCs,          \* the calls made during the life of the server
    Requests,      \* what a client may send
    Tokens,        \* the strings a client may present as its access token
    AccessTokens,  \* what the service may be configured with
    NoToken,       \* no access token is configured (std::nullopt)
    EmptyToken,    \* the empty string is configured
    MaxClock       \* bound on the clock, in ticks

Network == "ComputeNetworkMagnitudeFromAmplitudes"
Station == "ComputeStationMagnitudesFromAmplitudes"
Corrections == "GetStationCorrections"
Distances == "GetDistanceCorrections"

Implemented == {Network, Station, Corrections}
Routes == Implemented \cup {Distances}

\* A measurement (of the magnitude routes) or a station identifier (of the
\* corrections route).  A malformed one makes the constructor of Observation
\* or StationIdentifier throw std::invalid_argument.
Item ==
    [malformed    : BOOLEAN,
     station      : Stations,
     logAmplitude : Int,
     distance     : Nat]

Request ==
    [route      : Routes,
     tokens     : SUBSET Tokens,
     hypocenter : {"absent", "invalid", "valid"},
     items      : Seq(Item)]

ASSUME RequestsAssumption == Requests \subseteq Request

ASSUME ServiceAssumption ==
    /\ AccessTokens \subseteq Tokens \cup {NoToken, EmptyToken}
    /\ MaxClock \in Nat
    /\ IsFiniteSet(RPCs)

VARIABLES
    mAccessToken,    \* the service's access token, fixed at construction
    pc,              \* where each RPC is
    request,         \* what it was sent
    index,           \* the loop index of its handler
    observations,    \* the vector its handler packs (network route)
    response,        \* the response message
    status,          \* what its Finish calls said, in order
    named,           \* the measurement number its error message gives
    mSuccess,        \* the reactor's flag
    cancel,          \* whether its client cancelled and it was told
    mRPCStartTime,   \* when its reactor was constructed
    duration,        \* what it handed to recordRouteDuration
    now,             \* the steady clock
    mCounters        \* the singleton's four maps, route -> count

reactorVars == <<request, index, observations, response, status, named,
                 mSuccess, mRPCStartTime, duration>>
vars == <<mAccessToken, pc, cancel, now, mCounters, reactorVars>>

-----------------------------------------------------------------------------

(***************************************************************************)
(* The metrics singleton.                                                  *)
(***************************************************************************)
CounterKinds == {"success", "unauthenticated", "serverError", "clientError"}

Count(counts, route) == IF route \in DOMAIN counts THEN counts[route] ELSE 0

\* Mutant of Increment: a route seen for the first time is inserted with zero.
IncrementInsertsZero(counts, route) ==
    [x \in DOMAIN counts \cup {route} |->
        IF x = route /\ route \in DOMAIN counts THEN counts[x] + 1
        ELSE Count(counts, x)]

\* incrementSuccessCounter and its three siblings: under the mutex, add one
\* to the route's entry or insert it with one.
Increment(counts, route) ==
    [x \in DOMAIN counts \cup {route} |->
        IF x = route THEN Count(counts, route) + 1 ELSE counts[x]]

IncrementCounter(kind, r) ==
    mCounters' = [mCounters EXCEPT ![kind] = Increment(@, request[r].route)]

-----------------------------------------------------------------------------

NoRequest == [route |-> Network, tokens |-> {}, hypocenter |-> "absent", items |-> <<>>]
NoNetwork == [error |-> "NotComputed"]
EmptyResponse == [entries |-> <<>>, network |-> NoNetwork]
NoDuration == <<>>

Init ==
    /\ mAccessToken \in AccessTokens
    /\ pc = [r \in RPCs |-> "absent"]
    /\ request = [r \in RPCs |-> NoRequest]
    /\ index = [r \in RPCs |-> 1]
    /\ observations = [r \in RPCs |-> <<>>]
    /\ response = [r \in RPCs |-> EmptyResponse]
    /\ status = [r \in RPCs |-> <<>>]
    /\ named = [r \in RPCs |-> <<>>]
    /\ mSuccess = [r \in RPCs |-> FALSE]
    /\ cancel = [r \in RPCs |-> "no"]
    /\ mRPCStartTime = [r \in RPCs |-> 0]
    /\ duration = [r \in RPCs |-> NoDuration]
    /\ now = 0
    /\ mCounters = [k \in CounterKinds |-> <<>>]

At(r, label) == pc[r] = label
GoTo(r, label) == pc' = [pc EXCEPT ![r] = label]
Items(r) == request[r].items
CurrentItem(r) == Items(r)[index[r]]

\* Finish(code): gRPC keeps the status until the reactor is bound.
FinishWith(r, code) ==
    /\ status' = [status EXCEPT ![r] = Append(@, code)]
    /\ GoTo(r, "constructed")

\* Mutant of ClientError: it returns without calling Finish.
ClientErrorUnfinished(r) ==
    /\ IncrementCounter("clientError", r)
    /\ GoTo(r, "returned")
    /\ UNCHANGED status

\* The client's fault: count it, Finish with INVALID_ARGUMENT and return.
ClientError(r) ==
    /\ IncrementCounter("clientError", r)
    /\ FinishWith(r, "INVALID_ARGUMENT")

\* The server's fault: count it, Finish with INTERNAL and return.
ServerError(r) ==
    /\ IncrementCounter("serverError", r)
    /\ FinishWith(r, "INTERNAL")

\* mSuccess = true; Finish(OK).  The success is counted in OnDone.
Succeed(r) ==
    /\ mSuccess' = [mSuccess EXCEPT ![r] = TRUE]
    /\ FinishWith(r, "OK")
    /\ UNCHANGED mCounters

-----------------------------------------------------------------------------

\* A call arrives: its reactor is allocated and its members initialized.
Arrive(r) ==
    /\ At(r, "absent")
    /\ \E q \in Requests :
          /\ request' = [request EXCEPT ![r] = q]
          /\ GoTo(r, IF q.route \in Implemented THEN "authenticate"
                                                ELSE "unimplemented")
    /\ mRPCStartTime' = [mRPCStartTime EXCEPT ![r] = now]
    /\ UNCHANGED <<mAccessToken, index, observations, response, status, named,
                   mSuccess, cancel, duration, now, mCounters>>

\* The generated base class answers a route the service does not override.
Unimplemented(r) ==
    /\ At(r, "unimplemented")
    /\ FinishWith(r, "UNIMPLEMENTED")
    /\ UNCHANGED <<mAccessToken, request, index, observations, response, named,
                   mSuccess, cancel, mRPCStartTime, duration, now, mCounters>>

\* Mutant of validateClient: any token will do.
validateClientPresence(tokens) == mAccessToken = EmptyToken \/ tokens # {}

\* An empty configured token accepts everyone; otherwise one of the client's
\* x-custom-auth-token values must be the configured one.
validateClient(tokens) == mAccessToken = EmptyToken \/ mAccessToken \in tokens

Authorized(r) == mAccessToken = NoToken \/ validateClient(request[r].tokens)

\* Mutant of Authenticate: no return after the Finish of a refusal.
AuthenticateGoesOn(r) ==
    /\ At(r, "authenticate")
    /\ GoTo(r, IF request[r].route = Corrections THEN "items" ELSE "hypocenter")
    /\ IF Authorized(r)
       THEN UNCHANGED <<status, mCounters>>
       ELSE /\ IncrementCounter("unauthenticated", r)
            /\ status' = [status EXCEPT ![r] = Append(@, "UNAUTHENTICATED")]
    /\ UNCHANGED <<mAccessToken, request, index, observations, response, named,
                   mSuccess, cancel, mRPCStartTime, duration, now>>

\* if (mAccessToken) and not validateClient: refuse.
Authenticate(r) ==
    /\ At(r, "authenticate")
    /\ IF Authorized(r)
       THEN /\ GoTo(r, IF request[r].route = Corrections THEN "items"
                                                        ELSE "hypocenter")
            /\ UNCHANGED <<status, mCounters>>
       ELSE /\ IncrementCounter("unauthenticated", r)
            /\ FinishWith(r, "UNAUTHENTICATED")
    /\ UNCHANGED <<mAccessToken, request, index, observations, response, named,
                   mSuccess, cancel, mRPCStartTime, duration, now>>

\* The magnitude routes need a hypocenter that can be constructed.
CheckHypocenter(r) ==
    /\ At(r, "hypocenter")
    /\ IF request[r].hypocenter = "valid"
       THEN GoTo(r, "items") /\ UNCHANGED <<status, mCounters>>
       ELSE ClientError(r)
    /\ UNCHANGED <<mAccessToken, request, index, observations, response, named,
                   mSuccess, cancel, mRPCStartTime, duration, now>>

\* The Observation the service builds from a well formed measurement is
\* always complete.
ToObservation(item) ==
    [station |-> item.station, hasAmplitudes |-> TRUE,
     logAmplitude |-> item.logAmplitude, hasEpicentralDistance |-> TRUE,
     distance |-> item.distance, hasDepth |-> TRUE]

\* A station magnitude with a term that is not finite ends the process
\* (StationCalculatorCode) and every RPC with it: the requests stop short of that.  The
\* corrections route hands such a correction to its client.
ASSUME NoTerminationAssumption ==
    \A q \in Requests : q.route \in {Network, Station} =>
        \A n \in DOMAIN q.items :
            ~q.items[n].malformed => StationCode(ToObservation(q.items[n])) # Terminate

\* Mutant of PackObservation: a malformed measurement is skipped.
PackObservationSkips(r) ==
    /\ At(r, "items") /\ request[r].route = Network
    /\ index[r] <= Len(Items(r))
    /\ observations' = IF CurrentItem(r).malformed THEN observations
                       ELSE [observations EXCEPT ![r] =
                                Append(@, ToObservation(CurrentItem(r)))]
    /\ index' = [index EXCEPT ![r] = @ + 1]
    /\ UNCHANGED <<mAccessToken, pc, request, response, status, named, mSuccess,
                   cancel, mRPCStartTime, duration, now, mCounters>>

\* response->add_...: one more entry.
WithEntry(message, entry) == [message EXCEPT !.entries = Append(@, entry)]
AddEntry(r, entry) == response' = [response EXCEPT ![r] = WithEntry(@, entry)]

\* Network route, one turn of the loop.  One malformed measurement fails the
\* request; the message gives the number of observations packed so far.
PackObservation(r) ==
    /\ At(r, "items") /\ request[r].route = Network
    /\ index[r] <= Len(Items(r))
    /\ IF CurrentItem(r).malformed
       THEN /\ ClientError(r)
            /\ named' = [named EXCEPT ![r] = <<Len(observations[r])>>]
            /\ UNCHANGED <<index, observations>>
       ELSE /\ observations' = [observations EXCEPT ![r] =
                                   Append(@, ToObservation(CurrentItem(r)))]
            /\ index' = [index EXCEPT ![r] = @ + 1]
            /\ UNCHANGED <<pc, status, named, mCounters>>
    /\ UNCHANGED <<mAccessToken, request, response, mSuccess, cancel,
                   mRPCStartTime, duration, now>>

\* Network route, after the loop: if (observations.empty())
CheckObservations(r) ==
    /\ At(r, "items") /\ request[r].route = Network
    /\ index[r] > Len(Items(r))
    /\ IF observations[r] = <<>> THEN ClientError(r)
       ELSE GoTo(r, "compute") /\ UNCHANGED <<status, mCounters>>
    /\ UNCHANGED <<mAccessToken, request, index, observations, response, named,
                   mSuccess, cancel, mRPCStartTime, duration, now>>

\* What the network route copies from a magnitude into its response.
NetworkMessage(result) ==
    [error     |-> NoError,
     value     |-> <<result.sum, result.count>>,
     residuals |-> result.residuals,
     rejected  |-> [n \in DOMAIN result.rejected |-> Reason(result.rejected[n])]]

\* 400-style calculator errors; every other code is a 500-style error.
ClientCodes == {"TooFewObservations", "NoObservations", "DuplicateObservations"}

ComputeNetworkMagnitude(r) ==
    /\ At(r, "compute")
    /\ LET result == NetworkResult(observations[r])
       IN  IF result.error = NoError
           THEN /\ response' = [response EXCEPT ![r] =
                        [@ EXCEPT !.network = NetworkMessage(result)]]
                /\ Succeed(r)
           ELSE /\ IF result.error \in ClientCodes THEN ClientError(r)
                                                   ELSE ServerError(r)
                /\ UNCHANGED <<response, mSuccess>>
    /\ UNCHANGED <<mAccessToken, request, index, observations, named, cancel,
                   mRPCStartTime, duration, now>>

\* Mutant of ComputeStationMagnitude: it numbers the measurements from 0.
ComputeStationMagnitudeFromZero(r) ==
    /\ At(r, "items") /\ request[r].route = Station
    /\ index[r] <= Len(Items(r))
    /\ LET item == CurrentItem(r)
           observation == ToObservation(item)
       IN  IF item.malformed
           THEN /\ ClientError(r)
                /\ named' = [named EXCEPT ![r] = <<Len(response[r].entries)>>]
                /\ UNCHANGED <<index, response>>
           ELSE /\ index' = [index EXCEPT ![r] = @ + 1]
                /\ IF StationCode(observation) = NoError
                   THEN AddEntry(r, [station |-> item.station,
                                     value   |-> StationMagnitude(observation)])
                   ELSE UNCHANGED response
                /\ UNCHANGED <<pc, status, named, mCounters>>
    /\ UNCHANGED <<mAccessToken, request, observations, mSuccess, cancel,
                   mRPCStartTime, duration, now>>

\* Station route, one turn of the loop.  A station magnitude that cannot be
\* computed is left out of the response; a malformed measurement fails the
\* request, numbered by the length of the response.
ComputeStationMagnitude(r) ==
    /\ At(r, "items") /\ request[r].route = Station
    /\ index[r] <= Len(Items(r))
    /\ LET item == CurrentItem(r)
           observation == ToObservation(item)
       IN  IF item.malformed
           THEN /\ ClientError(r)
                /\ named' = [named EXCEPT ![r] = <<Len(response[r].entries) + 1>>]
                /\ UNCHANGED <<index, response>>
           ELSE /\ index' = [index EXCEPT ![r] = @ + 1]
                /\ IF StationCode(observation) = NoError
                   THEN AddEntry(r, [station |-> item.station,
                                     value   |-> StationMagnitude(observation)])
                   ELSE UNCHANGED response
                /\ UNCHANGED <<pc, status, named, mCounters>>
    /\ UNCHANGED <<mAccessToken, request, observations, mSuccess, cancel,
                   mRPCStartTime, duration, now>>

\* NetworkMagnitudeCalculator::getStationCorrection finds one.
HasCorrection(station) == station \in DOMAIN StationCorrection

\* Mutant of LookUpCorrection: a station without a correction is left out.
LookUpCorrectionOmits(r) ==
    /\ At(r, "items") /\ request[r].route = Corrections
    /\ index[r] <= Len(Items(r))
    /\ index' = [index EXCEPT ![r] = @ + 1]
    /\ LET station == CurrentItem(r).station
       IN  IF HasCorrection(station)
           THEN AddEntry(r, [station |-> station, exists |-> TRUE,
                             value |-> StationCorrection[station]])
           ELSE UNCHANGED response
    /\ UNCHANGED <<mAccessToken, pc, request, observations, status, named,
                   mSuccess, cancel, mRPCStartTime, duration, now, mCounters>>

\* Corrections route, one turn of the loop: value 0 stands for no correction.
LookUpCorrection(r) ==
    /\ At(r, "items") /\ request[r].route = Corrections
    /\ index[r] <= Len(Items(r))
    /\ LET item == CurrentItem(r)
           exists == HasCorrection(item.station)
       IN  IF item.malformed
           THEN ClientError(r) /\ UNCHANGED <<index, response>>
           ELSE /\ index' = [index EXCEPT ![r] = @ + 1]
                /\ AddEntry(r, [station |-> item.station,
                                 exists  |-> exists,
                                 value   |-> IF exists
                                             THEN StationCorrection[item.station]
                                             ELSE 0])
                /\ UNCHANGED <<pc, status, mCounters>>
    /\ UNCHANGED <<mAccessToken, request, observations, named, mSuccess, cancel,
                   mRPCStartTime, duration, now>>

\* Station and corrections routes, after the loop.
FinishItems(r) ==
    /\ At(r, "items") /\ request[r].route \in {Station, Corrections}
    /\ index[r] > Len(Items(r))
    /\ Succeed(r)
    /\ UNCHANGED <<mAccessToken, request, index, observations, response, named,
                   cancel, mRPCStartTime, duration, now>>

\* catch (const std::exception &): an exception other than invalid_argument
\* (an allocation that failed) leaves the try block of any handler.
CatchException(r) ==
    /\ pc[r] \in {"hypocenter", "items"}
    /\ At(r, "items") => index[r] <= Len(Items(r))
    /\ ServerError(r)
    /\ UNCHANGED <<mAccessToken, request, index, observations, response, named,
                   mSuccess, cancel, mRPCStartTime, duration, now>>

-----------------------------------------------------------------------------

(***************************************************************************)
(* gRPC's side of a reactor.                                               *)
(***************************************************************************)

\* The handler has returned the reactor: gRPC binds it and sends its status.
Bind(r) ==
    /\ At(r, "constructed")
    /\ GoTo(r, "bound")
    /\ UNCHANGED <<mAccessToken, cancel, now, mCounters, reactorVars>>

\* The client cancels, at any time before the RPC is over.
Cancel(r) ==
    /\ pc[r] \notin {"absent", "deleted"}
    /\ cancel[r] = "no"
    /\ cancel' = [cancel EXCEPT ![r] = "requested"]
    /\ UNCHANGED <<mAccessToken, pc, now, mCounters, reactorVars>>

\* Mutant of OnCancel: it finishes an RPC that has finished.
OnCancelFinishes(r) ==
    /\ At(r, "bound")
    /\ cancel[r] = "requested"
    /\ cancel' = [cancel EXCEPT ![r] = "told"]
    /\ status' = [status EXCEPT ![r] = Append(@, "CANCELLED")]
    /\ UNCHANGED <<mAccessToken, pc, now, mCounters, request, index, observations,
                   response, named, mSuccess, mRPCStartTime, duration>>

\* OnCancel only logs.
OnCancel(r) ==
    /\ At(r, "bound")
    /\ cancel[r] = "requested"
    /\ cancel' = [cancel EXCEPT ![r] = "told"]
    /\ UNCHANGED <<mAccessToken, pc, now, mCounters, reactorVars>>

\* The time handed to recordRouteDuration.
ElapsedTime(r) == mRPCStartTime[r] - now

\* Mutant of OnDone: it counts every RPC as a success.
OnDoneCountsAll(r) ==
    /\ At(r, "bound")
    /\ IncrementCounter("success", r)
    /\ duration' = [duration EXCEPT ![r] = <<ElapsedTime(r)>>]
    /\ GoTo(r, "deleted")
    /\ UNCHANGED <<mAccessToken, request, index, observations, response, status,
                   named, mSuccess, cancel, mRPCStartTime, now>>

\* OnDone: count and time a success, then delete this.
OnDone(r) ==
    /\ At(r, "bound")
    /\ IF mSuccess[r]
       THEN /\ IncrementCounter("success", r)
            /\ duration' = [duration EXCEPT ![r] = <<ElapsedTime(r)>>]
       ELSE UNCHANGED <<mCounters, duration>>
    /\ GoTo(r, "deleted")
    /\ UNCHANGED <<mAccessToken, request, index, observations, response, status,
                   named, mSuccess, cancel, mRPCStartTime, now>>

Tick ==
    /\ now < MaxClock
    /\ now' = now + 1
    /\ UNCHANGED <<mAccessToken, pc, cancel, mCounters, reactorVars>>

\* The steps of one RPC's handler, on the thread that serves it.
Handle(r) ==
    \/ Unimplemented(r) \/ Authenticate(r) \/ CheckHypocenter(r)
    \/ PackObservation(r) \/ CheckObservations(r) \/ ComputeNetworkMagnitude(r)
    \/ ComputeStationMagnitude(r) \/ LookUpCorrection(r) \/ FinishItems(r)
    \/ CatchException(r)

Next ==
    \/ \E r \in RPCs :
          Arrive(r) \/ Handle(r) \/ Bind(r) \/ Cancel(r) \/ OnCancel(r) \/ OnDone(r)
    \/ Tick

\* A handler takes no lock it keeps and waits for nothing, so its thread runs
\* it to the end; gRPC binds and completes every reactor that has finished.
\* Nothing makes a client call or cancel.
Fairness ==
    \A r \in RPCs : WF_vars(Handle(r)) /\ WF_vars(Bind(r)) /\ WF_vars(OnDone(r))

Spec == Init /\ [][Next]_vars /\ Fairness

-----------------------------------------------------------------------------

Labels == {"absent", "authenticate", "unimplemented", "hypocenter", "items",
           "compute", "constructed", "bound", "deleted"}
Statuses == {"OK", "UNAUTHENTICATED", "INVALID_ARGUMENT", "INTERNAL", "UNIMPLEMENTED"}

\* An entry of the station route's response, or of the corrections route's.
Entry ==
    [station : Stations, value : Int]
        \cup [station : Stations, exists : BOOLEAN, value : Int \cup {NonFinite}]

ResponseType(message) ==
    /\ DOMAIN message = {"entries", "network"}
    /\ message.entries \in Seq(Entry)

\* One of the four maps: it has an entry for a route once it counted one.
CountsType(counts) ==
    /\ DOMAIN counts \subseteq Implemented
    /\ counts \in [DOMAIN counts -> Nat \ {0}]

CountersTypeOK ==
    /\ DOMAIN mCounters = CounterKinds
    /\ \A kind \in CounterKinds : CountsType(mCounters[kind])

\* Type correctness of the reactors and of the metrics.
TypeOK ==
    /\ mAccessToken \in AccessTokens
    /\ pc \in [RPCs -> Labels]
    /\ request \in [RPCs -> Requests \cup {NoRequest}]
    /\ index \in [RPCs -> Nat \ {0}]
    /\ observations \in [RPCs -> Seq(Observation)]
    /\ DOMAIN response = RPCs
    /\ \A r \in RPCs : ResponseType(response[r])
    /\ status \in [RPCs -> Seq(Statuses)]
    /\ named \in [RPCs -> Seq(Nat)]
    /\ mSuccess \in [RPCs -> BOOLEAN]
    /\ cancel \in [RPCs -> {"no", "requested", "told"}]
    /\ mRPCStartTime \in [RPCs -> Nat]
    /\ duration \in [RPCs -> Seq(Int)]
    /\ now \in 0 .. MaxClock
    /\ CountersTypeOK

Over(r) == pc[r] \in {"constructed", "bound", "deleted"}

\* Every path through a handler calls Finish once and only once before the
\* handler returns: never calling it leaves the client waiting, calling it
\* again is an error in gRPC.
FinishExactlyOnce == \A r \in RPCs : Len(status[r]) = IF Over(r) THEN 1 ELSE 0

\* The kind of outcome the counters should hold for an RPC, if any yet.
CountedAs(r, kind) ==
    CASE kind = "success" -> pc[r] = "deleted" /\ status[r] = <<"OK">>
      [] kind = "unauthenticated" -> status[r] = <<"UNAUTHENTICATED">>
      [] kind = "serverError" -> status[r] = <<"INTERNAL">>
      [] OTHER -> status[r] = <<"INVALID_ARGUMENT">>

\* The RPCs a counter should have counted.
Counted(route, kind) ==
    {r \in RPCs : request[r].route = route /\ CountedAs(r, kind)}

\* However RPCs interleave, the four counters of a route are the numbers of
\* its RPCs that ended each way: none is lost, counted twice or counted under
\* another outcome or route.
CountersMatchOutcomes ==
    \A route \in Routes, kind \in CounterKinds :
        Count(mCounters[kind], route) = Cardinality(Counted(route, kind))

\* A caller of an implemented route who needed the token and did not send it.
Refused(r) ==
    /\ request[r].route \in Implemented
    /\ pc[r] # "absent"
    /\ mAccessToken \notin {NoToken, EmptyToken} \cup request[r].tokens

\* A client the service does not accept learns nothing: its request is not
\* looked at, nothing is computed for it and its response stays empty.
RefusedSeesNothing ==
    \A r \in RPCs :
        Refused(r) =>
            /\ response[r] = EmptyResponse
            /\ observations[r] = <<>>
            /\ Over(r) => status[r] = <<"UNAUTHENTICATED">>

\* A network magnitude's response accounts for the request it answers: each
\* number in it is the (1-based) number of a measurement of that request, each
\* measurement is used or rejected and not both, and the reason given is the
\* reason of that measurement and not of a neighbour.
ResponseAccountsForRequest ==
    \A r \in RPCs :
        status[r] = <<"OK">> /\ request[r].route = Network =>
            LET message == response[r].network
                code(n) == StationCode(ToObservation(Items(r)[n]))
            IN  /\ DOMAIN message.residuals \cap DOMAIN message.rejected = {}
                /\ DOMAIN message.residuals \cup DOMAIN message.rejected
                      = DOMAIN Items(r)
                /\ \A n \in DOMAIN message.residuals : code(n) = NoError
                /\ \A n \in DOMAIN message.rejected :
                      /\ code(n) # NoError
                      /\ message.rejected[n] = Reason(code(n))

\* The items the station route has an entry for, and those of them before the i-th.
Usable(items) == {n \in DOMAIN items : StationCode(ToObservation(items[n])) = NoError}
UsableBefore(items, i) == {n \in Usable(items) : n < i}

StationEntry(item) ==
    [station |-> item.station, value |-> StationMagnitude(ToObservation(item))]

\* The station route answers with the magnitudes of exactly the measurements
\* it could compute, in their order; the corrections route with one entry per
\* identifier asked for, in order, and never a correction it does not have.
EntriesFollowRequest ==
    \A r \in RPCs :
        LET entries == response[r].entries
            items == Items(r)
        IN  /\ status[r] = <<"OK">> /\ request[r].route = Station =>
                  /\ Len(entries) = Cardinality(Usable(items))
                  /\ \A n \in Usable(items) :
                        entries[Cardinality(UsableBefore(items, n)) + 1]
                            = StationEntry(items[n])
            /\ status[r] = <<"OK">> /\ request[r].route = Corrections =>
                  /\ Len(entries) = Len(items)
                  /\ \A n \in DOMAIN items :
                        /\ entries[n].station = items[n].station
                        /\ entries[n].exists <=> HasCorrection(items[n].station)
                        /\ entries[n].exists =>
                              entries[n].value = StationCorrection[items[n].station]

\* An error message that gives a measurement's number answers a request with a
\* malformed measurement, and is about the first of them.  The network route ("Check
\* hypocenter and N measurement") counts from 0, unlike the rest of the API; the station
\* route counts from 1 and is right if the response has an entry for every measurement
\* before: see NamedMeasurementIsMalformed for the others.
MalformedIsNamed ==
    \A r \in RPCs : named[r] # <<>> =>
        \E n \in DOMAIN Items(r) :
            /\ Items(r)[n].malformed
            /\ \A m \in 1 .. n - 1 : ~Items(r)[m].malformed
            /\ status[r] = <<"INVALID_ARGUMENT">>
            /\ request[r].route = Network => named[r] = <<n - 1>>
            /\ request[r].route = Station /\ 1 .. n - 1 \subseteq Usable(Items(r)) =>
                  named[r] = <<n>>

\* What the station route's message says, "Measurement N is malformed": the N-th
\* measurement of the request is.  The code takes N from the length of the response, and
\* a measurement it cannot compute has no entry there: N can be the number of a sound one.
NamedMeasurementIsMalformed ==
    \A r \in RPCs : request[r].route = Station /\ named[r] # <<>> =>
        /\ named[r][1] \in DOMAIN Items(r)
        /\ Items(r)[named[r][1]].malformed

\* After Finish the response belongs to gRPC: no step of any RPC writes it, or
\* the status, again.
SettledStaysSettled ==
    [][\A r \in RPCs : Over(r) =>
          response'[r] = response[r] /\ status'[r] = status[r]]_vars

\* Every RPC that arrives is answered and its reactor deleted, cancelled or not.
EveryRPCEnds == \A r \in RPCs : pc[r] # "absent" ~> pc[r] = "deleted"

=============================================================================
