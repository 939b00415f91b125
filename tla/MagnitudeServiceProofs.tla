----------------------- MODULE MagnitudeServiceProofs -----------------------
(***************************************************************************)
(* Theorems about MagnitudeService, for every set of RPCs, every set of    *)
(* requests, every access token and every bound on the clock.              *)
(***************************************************************************)
EXTENDS MagnitudeService, FiniteSetTheorems, TLAPS

(***************************************************************************)
(* Facts about the operators the service is built from.                    *)
(***************************************************************************)

\* Incrementing a route keeps the counts well typed, adds one to that route
\* and leaves the others alone.
LEMMA IncrementCounts ==
    ASSUME NEW counts, CountsType(counts), NEW route \in Implemented
    PROVE  /\ CountsType(Increment(counts, route))
           /\ Count(Increment(counts, route), route) = Count(counts, route) + 1
           /\ \A other \in Routes \ {route} :
                 Count(Increment(counts, route), other) = Count(counts, other)
BY DEF CountsType, Increment, Count, Implemented, Routes

\* The items of a request, or of none, are a sequence of items.
LEMMA ItemsType ==
    ASSUME TypeOK, NEW r \in RPCs
    PROVE  Items(r) \in Seq(Item)
<1>1. request[r] \in Request \cup {NoRequest}
  BY RequestsAssumption DEF TypeOK
<1>2. NoRequest.items \in Seq(Item)
  BY DEF NoRequest
<1>3. QED
  BY <1>1, <1>2 DEF Items, Request

\* The item a loop is at is one of them.
LEMMA CurrentItemType ==
    ASSUME TypeOK, NEW r \in RPCs, index[r] <= Len(Items(r))
    PROVE  CurrentItem(r) \in Item
<1>1. Items(r) \in Seq(Item)
  BY ItemsType
<1>2. index[r] \in DOMAIN Items(r)
  BY <1>1 DEF TypeOK
<1>3. QED
  BY <1>1, <1>2 DEF CurrentItem

\* A well formed item becomes an Observation.
LEMMA ObservationType ==
    ASSUME NEW item \in Item
    PROVE  ToObservation(item) \in Observation
BY DEF ToObservation, Observation, Item

\* A station magnitude that can be computed is a number.
LEMMA StationMagnitudeType ==
    ASSUME NEW o \in Observation, StationCode(o) = NoError
    PROVE  o.station \in DOMAIN StationCorrection /\ StationMagnitude(o) \in Int
<1>1. o.station \in DOMAIN StationCorrection /\ StationCalculatorCode(o) = NoError
  BY DEF StationCode, NoError
<1>2. /\ o.logAmplitude \in Int
      /\ o.distance \in MinimumDistance .. MaximumDistance
  BY <1>1, CorrectionsAssumption, OptionsAssumption
  DEF StationCalculatorCode, Terms, NoError, Terminate, Observation
<1>3. NonFinite \notin Terms(o)
  BY <1>1, <1>2, CorrectionsAssumption DEF StationCalculatorCode, NoError, Terminate
<1>4. DistanceCorrection[o.distance] \in Int /\ StationCorrection[o.station] \in Int
  BY <1>1, <1>2, <1>3, CorrectionsAssumption DEF Terms
<1>5. QED
  BY <1>1, <1>2, <1>4 DEF StationMagnitude

\* An entry more keeps the responses well typed.
LEMMA AddEntryType ==
    ASSUME TypeOK, NEW r \in RPCs, NEW entry \in Entry, AddEntry(r, entry)
    PROVE  DOMAIN response' = RPCs /\ \A s \in RPCs : ResponseType(response'[s])
<1>1. ResponseType(WithEntry(response[r], entry))
  BY DEF TypeOK, ResponseType, WithEntry
<1>2. QED
  BY <1>1 DEF TypeOK, AddEntry

\* A network magnitude keeps a response well typed.
LEMMA SetNetwork ==
    ASSUME NEW message, ResponseType(message), NEW network
    PROVE  ResponseType([message EXCEPT !.network = network])
BY DEF ResponseType

-----------------------------------------------------------------------------

(***************************************************************************)
(* Type correctness.  The counters only hold routes the service implements *)
(* because a handler only runs on one of those.                            *)
(***************************************************************************)
Handling == {"authenticate", "hypocenter", "items", "compute"}

RouteInv ==
    \A r \in RPCs :
        /\ pc[r] \in Handling => request[r].route \in Implemented
        /\ mSuccess[r] => Over(r) /\ request[r].route \in Implemented

TypeInv == TypeOK /\ RouteInv

\* Counting an outcome of an implemented route keeps the counters well typed.
LEMMA CountersType ==
    ASSUME TypeOK, NEW r \in RPCs, NEW kind \in CounterKinds,
           request[r].route \in Implemented, IncrementCounter(kind, r)
    PROVE  CountersTypeOK'
BY IncrementCounts DEF TypeOK, CountersTypeOK, IncrementCounter

\* The two ways a handler reports a failure keep its status well typed.
LEMMA ErrorType ==
    ASSUME TypeInv, NEW r \in RPCs, pc[r] \in Handling,
           ClientError(r) \/ ServerError(r)
    PROVE  /\ CountersTypeOK'
           /\ status' \in [RPCs -> Seq(Statuses)]
           /\ pc' = [pc EXCEPT ![r] = "constructed"]
<1>1. request[r].route \in Implemented
  BY DEF TypeInv, RouteInv
<1>2. CountersTypeOK'
  BY <1>1, CountersType DEF ClientError, ServerError, TypeInv, CounterKinds
<1>3. PICK code \in Statuses : FinishWith(r, code)
  BY DEF ClientError, ServerError, Statuses
<1>4. status' \in [RPCs -> Seq(Statuses)]
  BY <1>3 DEF FinishWith, TypeInv, TypeOK
<1>5. QED
  BY <1>2, <1>3, <1>4 DEF FinishWith, GoTo

\* A handler that reports a failure, and does nothing else but name a
\* measurement, keeps every type.
LEMMA ErrorStep ==
    ASSUME TypeInv, NEW r \in RPCs, pc[r] \in Handling,
           ClientError(r) \/ ServerError(r),
           named' \in [RPCs -> Seq(Nat)],
           UNCHANGED <<mAccessToken, request, index, observations, response,
                       mSuccess, cancel, mRPCStartTime, duration, now>>
    PROVE  TypeInv'
<1>1. /\ CountersTypeOK'
      /\ status' \in [RPCs -> Seq(Statuses)]
      /\ pc' = [pc EXCEPT ![r] = "constructed"]
  BY ErrorType
<1>2. pc' \in [RPCs -> Labels]
  BY <1>1 DEF TypeInv, TypeOK, Labels
<1>3. TypeOK'
  BY <1>1, <1>2 DEF TypeInv, TypeOK
<1>4. RouteInv'
  <2>1. pc \in [RPCs -> Labels]
    BY DEF TypeInv, TypeOK
  <2>2. QED
    BY <1>1, <2>1 DEF TypeInv, RouteInv, Handling, Over
<1>5. QED
  BY <1>3, <1>4 DEF TypeInv

\* One turn of a loop keeps every type if it does so for what it writes: the
\* loop index, the packed observations and the response.
LEMMA LoopStep ==
    ASSUME TypeInv,
           index' \in [RPCs -> Nat \ {0}],
           observations' \in [RPCs -> Seq(Observation)],
           DOMAIN response' = RPCs,
           \A s \in RPCs : ResponseType(response'[s]),
           UNCHANGED <<mAccessToken, pc, request, status, named, mSuccess, cancel,
                       mRPCStartTime, duration, now, mCounters>>
    PROVE  TypeInv'
<1>1. CountersTypeOK'
  BY DEF TypeInv, TypeOK, CountersTypeOK
<1>2. TypeOK'
  BY <1>1 DEF TypeInv, TypeOK
<1>3. RouteInv'
  BY DEF TypeInv, RouteInv, Over
<1>4. QED
  BY <1>2, <1>3 DEF TypeInv

\* Before the first call every part of the state is well typed.
LEMMA TypeInit == Init => TypeInv
<1> SUFFICES ASSUME Init PROVE TypeInv
  OBVIOUS
<1>1. ResponseType(EmptyResponse)
  BY DEF ResponseType, EmptyResponse
<1>2. CountersTypeOK
  BY DEF Init, CountersTypeOK, CountsType
<1>3. TypeOK
  BY <1>1, <1>2, ServiceAssumption DEF Init, TypeOK, Labels, NoDuration
<1>4. RouteInv
  BY DEF Init, RouteInv, Handling
<1>5. QED
  BY <1>3, <1>4 DEF TypeInv

\* Every step of a handler, of gRPC, of a client or of the clock keeps the state
\* well typed.
LEMMA TypeNext == TypeInv /\ [Next]_vars => TypeInv'
<1> SUFFICES ASSUME TypeInv, [Next]_vars PROVE TypeInv'
  OBVIOUS
<1> USE DEF TypeInv
<1>1. ASSUME NEW r \in RPCs, Arrive(r) PROVE TypeInv'
  <2>1. TypeOK'
    BY <1>1 DEF Arrive, TypeOK, CountersTypeOK, GoTo, At, Labels
  <2>2. RouteInv'
    BY <1>1 DEF Arrive, TypeOK, RouteInv, GoTo, At, Labels, Handling, Over
  <2>3. QED
    BY <2>1, <2>2
<1>2. ASSUME NEW r \in RPCs, Unimplemented(r) PROVE TypeInv'
  BY <1>2 DEF Unimplemented, FinishWith, TypeOK, CountersTypeOK, RouteInv, GoTo, At,
              Labels, Handling, Over, Statuses
<1>3. ASSUME NEW r \in RPCs, Authenticate(r) PROVE TypeInv'
  <2>1. request[r].route \in Implemented
    BY <1>3 DEF Authenticate, At, RouteInv, Handling
  <2>2. CountersTypeOK'
    BY <1>3, <2>1, CountersType
    DEF Authenticate, TypeOK, CountersTypeOK, CounterKinds
  <2>3. /\ pc' \in [RPCs -> Labels]
        /\ status' \in [RPCs -> Seq(Statuses)]
    <3>1. CASE Authorized(r)
      BY <1>3, <3>1 DEF Authenticate, TypeOK, GoTo, Labels
    <3>2. CASE ~Authorized(r)
      <4>1. FinishWith(r, "UNAUTHENTICATED")
        BY <1>3, <3>2 DEF Authenticate
      <4>2. QED
        BY <4>1 DEF FinishWith, TypeOK, GoTo, Labels, Statuses
    <3>3. QED
      BY <3>1, <3>2
  <2>4. TypeOK'
    BY <1>3, <2>2, <2>3 DEF Authenticate, TypeOK
  <2>5. RouteInv'
    BY <1>3, <2>1 DEF Authenticate, FinishWith, TypeOK, RouteInv, GoTo, At, Handling, Over
  <2>6. QED
    BY <2>4, <2>5
<1>4. ASSUME NEW r \in RPCs, CheckHypocenter(r) PROVE TypeInv'
  <2>1. pc[r] \in Handling
    BY <1>4 DEF CheckHypocenter, At, Handling
  <2>2. CASE request[r].hypocenter = "valid"
    BY <1>4, <2>1, <2>2
    DEF CheckHypocenter, TypeOK, CountersTypeOK, RouteInv, GoTo, At, Labels, Handling, Over
  <2>3. CASE request[r].hypocenter # "valid"
    <3>1. /\ ClientError(r)
          /\ UNCHANGED <<mAccessToken, request, index, observations, response, named,
                         mSuccess, cancel, mRPCStartTime, duration, now>>
      BY <1>4, <2>3 DEF CheckHypocenter
    <3>2. named' \in [RPCs -> Seq(Nat)]
      BY <3>1 DEF TypeOK
    <3>3. QED
      BY <2>1, <3>1, <3>2, ErrorStep
  <2>4. QED
    BY <2>2, <2>3
<1>5. ASSUME NEW r \in RPCs, PackObservation(r) PROVE TypeInv'
  <2>1. pc[r] \in Handling
    BY <1>5 DEF PackObservation, At, Handling
  <2>2. CASE CurrentItem(r).malformed
    <3>1. /\ ClientError(r)
          /\ named' = [named EXCEPT ![r] = <<Len(observations[r])>>]
          /\ UNCHANGED <<mAccessToken, request, index, observations, response, mSuccess,
                         cancel, mRPCStartTime, duration, now>>
      BY <1>5, <2>2 DEF PackObservation
    <3>2. named' \in [RPCs -> Seq(Nat)]
      BY <3>1 DEF TypeOK
    <3>3. QED
      BY <2>1, <3>1, <3>2, ErrorStep
  <2>3. CASE ~CurrentItem(r).malformed
    <3>1. CurrentItem(r) \in Item
      <4>1. index[r] <= Len(Items(r))
        BY <1>5 DEF PackObservation
      <4>2. QED
        BY <4>1, CurrentItemType
    <3>2. observations' \in [RPCs -> Seq(Observation)]
      <4>1. ToObservation(CurrentItem(r)) \in Observation
        BY <3>1, ObservationType
      <4>2. observations' = [observations EXCEPT ![r] =
                                Append(@, ToObservation(CurrentItem(r)))]
        BY <1>5, <2>3 DEF PackObservation
      <4>3. QED
        BY <4>1, <4>2 DEF TypeOK
    <3>3. index' \in [RPCs -> Nat \ {0}]
      <4>1. index' = [index EXCEPT ![r] = @ + 1]
        BY <1>5, <2>3 DEF PackObservation
      <4>2. QED
        BY <4>1 DEF TypeOK
    <3>4. UNCHANGED <<mAccessToken, pc, request, response, status, named, mSuccess,
                      cancel, mRPCStartTime, duration, now, mCounters>>
      BY <1>5, <2>3 DEF PackObservation
    <3>5. DOMAIN response' = RPCs /\ \A s \in RPCs : ResponseType(response'[s])
      BY <3>4 DEF TypeOK
    <3>6. QED
      BY <3>2, <3>3, <3>4, <3>5, LoopStep
  <2>4. QED
    BY <2>2, <2>3
<1>6. ASSUME NEW r \in RPCs, CheckObservations(r) PROVE TypeInv'
  <2>1. pc[r] \in Handling
    BY <1>6 DEF CheckObservations, At, Handling
  <2>2. CASE observations[r] = <<>>
    <3>1. /\ ClientError(r)
          /\ UNCHANGED <<mAccessToken, request, index, observations, response, named,
                         mSuccess, cancel, mRPCStartTime, duration, now>>
      BY <1>6, <2>2 DEF CheckObservations
    <3>2. named' \in [RPCs -> Seq(Nat)]
      BY <3>1 DEF TypeOK
    <3>3. QED
      BY <2>1, <3>1, <3>2, ErrorStep
  <2>3. CASE observations[r] # <<>>
    BY <1>6, <2>1, <2>3
    DEF CheckObservations, TypeOK, CountersTypeOK, RouteInv, GoTo, Labels, Handling, Over
  <2>4. QED
    BY <2>2, <2>3
<1>7. ASSUME NEW r \in RPCs, ComputeNetworkMagnitude(r) PROVE TypeInv'
  <2>1. pc[r] \in Handling
    BY <1>7 DEF ComputeNetworkMagnitude, At, Handling
  <2>2. CASE NetworkResult(observations[r]).error = NoError
    <3> DEFINE network == NetworkMessage(NetworkResult(observations[r]))
    <3>1. /\ Succeed(r)
          /\ response' = [response EXCEPT ![r] = [@ EXCEPT !.network = network]]
          /\ UNCHANGED <<mAccessToken, request, index, observations, named, cancel,
                         mRPCStartTime, duration, now>>
      BY <1>7, <2>2 DEF ComputeNetworkMagnitude
    <3>2. ResponseType([response[r] EXCEPT !.network = network])
      BY SetNetwork DEF TypeOK
    <3> HIDE DEF network
    <3>3. DOMAIN response' = RPCs /\ \A s \in RPCs : ResponseType(response'[s])
      BY <3>1, <3>2 DEF TypeOK
    <3>4. /\ pc' = [pc EXCEPT ![r] = "constructed"]
          /\ mSuccess' = [mSuccess EXCEPT ![r] = TRUE]
          /\ status' = [status EXCEPT ![r] = Append(@, "OK")]
          /\ UNCHANGED mCounters
      BY <3>1 DEF Succeed, FinishWith, GoTo
    <3>5. TypeOK'
      <4>1. status' \in [RPCs -> Seq(Statuses)]
        BY <3>4 DEF TypeOK, Statuses
      <4>2. pc' \in [RPCs -> Labels] /\ mSuccess' \in [RPCs -> BOOLEAN]
        BY <3>4 DEF TypeOK, Labels
      <4>3. CountersTypeOK'
        BY <3>4 DEF TypeOK, CountersTypeOK
      <4>4. QED
        BY <3>1, <3>3, <4>1, <4>2, <4>3 DEF TypeOK
    <3>6. RouteInv'
      BY <2>1, <3>1, <3>4 DEF TypeOK, RouteInv, Handling, Over
    <3>7. QED
      BY <3>5, <3>6
  <2>3. CASE NetworkResult(observations[r]).error # NoError
    <3>1. /\ ClientError(r) \/ ServerError(r)
          /\ UNCHANGED <<mAccessToken, request, index, observations, response, named,
                         mSuccess, cancel, mRPCStartTime, duration, now>>
      BY <1>7, <2>3 DEF ComputeNetworkMagnitude
    <3>2. named' \in [RPCs -> Seq(Nat)]
      BY <3>1 DEF TypeOK
    <3>3. QED
      BY <2>1, <3>1, <3>2, ErrorStep
  <2>4. QED
    BY <2>2, <2>3
<1>8. ASSUME NEW r \in RPCs, ComputeStationMagnitude(r) PROVE TypeInv'
  <2>1. pc[r] \in Handling
    BY <1>8 DEF ComputeStationMagnitude, At, Handling
  <2>2. CASE CurrentItem(r).malformed
    <3>1. ClientError(r) /\ UNCHANGED <<index, response>>
      BY <1>8, <2>2 DEF ComputeStationMagnitude
    <3>2. named' = [named EXCEPT ![r] = <<Len(response[r].entries) + 1>>]
      BY <1>8, <2>2 DEF ComputeStationMagnitude
    <3>3. named' \in [RPCs -> Seq(Nat)]
      BY <3>2 DEF TypeOK, ResponseType
    <3>4. UNCHANGED <<mAccessToken, request, observations, mSuccess, cancel,
                      mRPCStartTime, duration, now>>
      BY <1>8 DEF ComputeStationMagnitude
    <3>5. QED
      BY <2>1, <3>1, <3>3, <3>4, ErrorStep
  <2>3. CASE ~CurrentItem(r).malformed
    <3> DEFINE observation == ToObservation(CurrentItem(r))
               entry == [station |-> CurrentItem(r).station,
                         value   |-> StationMagnitude(observation)]
    <3>1. CurrentItem(r) \in Item
      <4>1. index[r] <= Len(Items(r))
        BY <1>8 DEF ComputeStationMagnitude
      <4>2. QED
        BY <4>1, CurrentItemType
    <3>2. index' \in [RPCs -> Nat \ {0}]
      <4>1. index' = [index EXCEPT ![r] = @ + 1]
        BY <1>8, <2>3 DEF ComputeStationMagnitude
      <4>2. QED
        BY <4>1 DEF TypeOK
    <3>3. DOMAIN response' = RPCs /\ \A s \in RPCs : ResponseType(response'[s])
      <4>1. CASE StationCode(observation) = NoError
        <5>1. entry \in Entry
          BY <3>1, <4>1, ObservationType, StationMagnitudeType DEF Entry, Item
        <5>2. AddEntry(r, entry)
          BY <1>8, <2>3, <4>1 DEF ComputeStationMagnitude
        <5> HIDE DEF entry
        <5>3. QED
          BY <5>1, <5>2, AddEntryType
      <4>2. CASE StationCode(observation) # NoError
        <5>1. UNCHANGED response
          BY <1>8, <2>3, <4>2 DEF ComputeStationMagnitude
        <5>2. QED
          BY <5>1 DEF TypeOK
      <4>3. QED
        BY <4>1, <4>2
    <3>4. UNCHANGED <<mAccessToken, pc, request, observations, status, named, mSuccess,
                      cancel, mRPCStartTime, duration, now, mCounters>>
      BY <1>8, <2>3 DEF ComputeStationMagnitude
    <3>5. observations' \in [RPCs -> Seq(Observation)]
      BY <3>4 DEF TypeOK
    <3>6. QED
      BY <3>2, <3>3, <3>4, <3>5, LoopStep
  <2>4. QED
    BY <2>2, <2>3
<1>9. ASSUME NEW r \in RPCs, LookUpCorrection(r) PROVE TypeInv'
  <2>1. pc[r] \in Handling
    BY <1>9 DEF LookUpCorrection, At, Handling
  <2>2. CASE CurrentItem(r).malformed
    <3>1. /\ ClientError(r)
          /\ UNCHANGED <<mAccessToken, request, index, observations, response, named,
                         mSuccess, cancel, mRPCStartTime, duration, now>>
      BY <1>9, <2>2 DEF LookUpCorrection
    <3>2. named' \in [RPCs -> Seq(Nat)]
      BY <3>1 DEF TypeOK
    <3>3. QED
      BY <2>1, <3>1, <3>2, ErrorStep
  <2>3. CASE ~CurrentItem(r).malformed
    <3> DEFINE item == CurrentItem(r)
               exists == HasCorrection(item.station)
               entry == [station |-> item.station,
                         exists  |-> exists,
                         value   |-> IF exists THEN StationCorrection[item.station] ELSE 0]
    <3>1. item \in Item
      <4>1. index[r] <= Len(Items(r))
        BY <1>9 DEF LookUpCorrection
      <4>2. QED
        BY <4>1, CurrentItemType
    <3>2. index' \in [RPCs -> Nat \ {0}]
      <4>1. index' = [index EXCEPT ![r] = @ + 1]
        BY <1>9, <2>3 DEF LookUpCorrection
      <4>2. QED
        BY <4>1 DEF TypeOK
    <3>3. entry \in Entry
      BY <3>1, CorrectionsAssumption DEF Entry, Item, HasCorrection
    <3>4. AddEntry(r, entry)
      BY <1>9, <2>3 DEF LookUpCorrection
    <3> HIDE DEF entry
    <3>5. DOMAIN response' = RPCs /\ \A s \in RPCs : ResponseType(response'[s])
      BY <3>3, <3>4, AddEntryType
    <3>6. UNCHANGED <<mAccessToken, pc, request, observations, status, named, mSuccess,
                      cancel, mRPCStartTime, duration, now, mCounters>>
      BY <1>9, <2>3 DEF LookUpCorrection
    <3>7. observations' \in [RPCs -> Seq(Observation)]
      BY <3>6 DEF TypeOK
    <3>8. QED
      BY <3>2, <3>5, <3>6, <3>7, LoopStep
  <2>4. QED
    BY <2>2, <2>3
<1>10. ASSUME NEW r \in RPCs, FinishItems(r) PROVE TypeInv'
  BY <1>10
  DEF FinishItems, Succeed, FinishWith, GoTo, At, TypeOK, CountersTypeOK, RouteInv,
      Labels, Handling, Over, Statuses, Implemented
<1>11. ASSUME NEW r \in RPCs, CatchException(r) PROVE TypeInv'
  <2>1. pc[r] \in Handling
    BY <1>11 DEF CatchException, Handling
  <2>2. /\ ServerError(r)
        /\ UNCHANGED <<mAccessToken, request, index, observations, response, named,
                       mSuccess, cancel, mRPCStartTime, duration, now>>
    BY <1>11 DEF CatchException
  <2>3. named' \in [RPCs -> Seq(Nat)]
    BY <2>2 DEF TypeOK
  <2>4. QED
    BY <2>1, <2>2, <2>3, ErrorStep
<1>12. ASSUME NEW r \in RPCs, Bind(r) PROVE TypeInv'
  BY <1>12
  DEF Bind, At, GoTo, reactorVars, TypeOK, CountersTypeOK, RouteInv, Labels, Handling, Over
<1>13. ASSUME NEW r \in RPCs, Cancel(r) \/ OnCancel(r) PROVE TypeInv'
  <2>1. cancel' \in [RPCs -> {"no", "requested", "told"}]
    <3>1. CASE Cancel(r)
      BY <3>1 DEF Cancel, TypeOK
    <3>2. CASE OnCancel(r)
      BY <3>2 DEF OnCancel, TypeOK
    <3>3. QED
      BY <1>13, <3>1, <3>2
  <2>2. UNCHANGED <<mAccessToken, pc, now, mCounters, reactorVars>>
    BY <1>13 DEF Cancel, OnCancel
  <2>3. QED
    BY <2>1, <2>2 DEF reactorVars, TypeOK, CountersTypeOK, RouteInv, Over
<1>14. ASSUME NEW r \in RPCs, OnDone(r) PROVE TypeInv'
  <2>1. CountersTypeOK'
    BY <1>14, CountersType
    DEF OnDone, TypeOK, CountersTypeOK, CounterKinds, RouteInv
  <2>2. duration' \in [RPCs -> Seq(Int)]
    <3>1. ElapsedTime(r) \in Int
      BY ServiceAssumption DEF ElapsedTime, TypeOK
    <3>2. \/ duration' = [duration EXCEPT ![r] = <<ElapsedTime(r)>>]
          \/ UNCHANGED duration
      BY <1>14 DEF OnDone
    <3>3. <<ElapsedTime(r)>> \in Seq(Int)
      BY <3>1
    <3>4. QED
      BY <3>2, <3>3, Zenon DEF TypeOK
  <2>3. QED
    BY <1>14, <2>1, <2>2 DEF OnDone, At, GoTo, TypeOK, RouteInv, Labels, Handling, Over
<1>15. CASE Tick
  BY <1>15, ServiceAssumption
  DEF Tick, reactorVars, TypeOK, CountersTypeOK, RouteInv, Over
<1>16. CASE UNCHANGED vars
  BY <1>16 DEF vars, reactorVars, TypeOK, CountersTypeOK, RouteInv, Over
<1>17. QED
  BY <1>1, <1>2, <1>3, <1>4, <1>5, <1>6, <1>7, <1>8, <1>9, <1>10, <1>11, <1>12,
     <1>13, <1>14, <1>15, <1>16 DEF Next, Handle

\* The reactors and the metrics are always well typed.
THEOREM TypeCorrect == Spec => []TypeOK
BY TypeInit, TypeNext, PTL DEF Spec, TypeInv

-----------------------------------------------------------------------------

(***************************************************************************)
(* What a step of a handler comes to.  Every step either goes on working   *)
(* or finishes, with exactly the counter that goes with its status; it     *)
(* leaves the other RPCs alone.                                            *)
(***************************************************************************)
OthersUntouched(r) ==
    \A q \in RPCs \ {r} :
        response'[q] = response[q] /\ observations'[q] = observations[q]

Works(r) ==
    /\ pc[r] \in Handling
    /\ \E label \in Handling : GoTo(r, label)
    /\ UNCHANGED <<status, mSuccess, mCounters>>

Finishes(r) ==
    \/ /\ pc[r] = "unimplemented"
       /\ FinishWith(r, "UNIMPLEMENTED")
       /\ UNCHANGED <<mSuccess, mCounters>>
    \/ /\ pc[r] \in Handling
       /\ \/ Succeed(r)
          \/ /\ FinishWith(r, "UNAUTHENTICATED")
             /\ IncrementCounter("unauthenticated", r)
             /\ UNCHANGED mSuccess
          \/ ClientError(r) /\ UNCHANGED mSuccess
          \/ ServerError(r) /\ UNCHANGED mSuccess

\* One step of a handler works or finishes and touches no other RPC.
LEMMA HandleEffect ==
    ASSUME TypeInv, NEW r \in RPCs, Handle(r)
    PROVE  /\ Works(r) \/ Finishes(r)
           /\ OthersUntouched(r)
           /\ UNCHANGED <<mAccessToken, request>>
<1> USE DEF TypeInv, OthersUntouched
<1>1. CASE Unimplemented(r)
  BY <1>1 DEF Unimplemented, Finishes, At
<1>2. CASE Authenticate(r)
  BY <1>2 DEF Authenticate, Works, Finishes, At, Handling
<1>3. CASE CheckHypocenter(r)
  BY <1>3 DEF CheckHypocenter, Works, Finishes, At, Handling
<1>4. CASE PackObservation(r)
  <2>1. CASE CurrentItem(r).malformed
    BY <1>4, <2>1 DEF PackObservation, Finishes, At, Handling
  <2>2. CASE ~CurrentItem(r).malformed
    <3>1. observations' = [observations EXCEPT ![r] =
                              Append(@, ToObservation(CurrentItem(r)))]
      BY <1>4, <2>2 DEF PackObservation
    <3>2. GoTo(r, "items") /\ pc[r] = "items"
      BY <1>4, <2>2 DEF PackObservation, At, GoTo, TypeOK
    <3>3. UNCHANGED <<status, mSuccess, mCounters, response, mAccessToken, request>>
      BY <1>4, <2>2 DEF PackObservation
    <3>4. \A q \in RPCs \ {r} : observations'[q] = observations[q]
      BY <3>1 DEF TypeOK
    <3>5. QED
      BY <3>2, <3>3, <3>4 DEF Works, Handling
  <2>3. QED
    BY <2>1, <2>2
<1>5. CASE CheckObservations(r)
  BY <1>5 DEF CheckObservations, Works, Finishes, At, Handling
<1>6. CASE ComputeNetworkMagnitude(r)
  <2>1. CASE NetworkResult(observations[r]).error = NoError
    <3> DEFINE network == NetworkMessage(NetworkResult(observations[r]))
    <3>1. response' = [response EXCEPT ![r] = [@ EXCEPT !.network = network]]
      BY <1>6, <2>1 DEF ComputeNetworkMagnitude
    <3> HIDE DEF network
    <3>2. \A q \in RPCs \ {r} : response'[q] = response[q]
      BY <3>1 DEF TypeOK
    <3>3. Succeed(r) /\ UNCHANGED <<mAccessToken, request, observations>>
      BY <1>6, <2>1 DEF ComputeNetworkMagnitude
    <3>4. QED
      BY <1>6, <3>2, <3>3 DEF ComputeNetworkMagnitude, Finishes, At, Handling
  <2>2. CASE NetworkResult(observations[r]).error # NoError
    <3>1. /\ ClientError(r) \/ ServerError(r)
          /\ UNCHANGED <<response, mSuccess, mAccessToken, request, observations>>
      BY <1>6, <2>2 DEF ComputeNetworkMagnitude
    <3>2. QED
      BY <1>6, <3>1 DEF ComputeNetworkMagnitude, Finishes, At, Handling
  <2>3. QED
    BY <2>1, <2>2
<1>7. CASE ComputeStationMagnitude(r)
  <2>1. CASE CurrentItem(r).malformed
    BY <1>7, <2>1 DEF ComputeStationMagnitude, Finishes, At, Handling
  <2>2. CASE ~CurrentItem(r).malformed
    <3>1. (\E entry : AddEntry(r, entry)) \/ UNCHANGED response
      BY <1>7, <2>2 DEF ComputeStationMagnitude
    <3>2. \A q \in RPCs \ {r} : response'[q] = response[q]
      BY <3>1 DEF AddEntry, TypeOK
    <3>3. GoTo(r, "items") /\ pc[r] = "items"
      BY <1>7, <2>2 DEF ComputeStationMagnitude, At, GoTo, TypeOK
    <3>4. UNCHANGED <<status, mSuccess, mCounters, observations, mAccessToken, request>>
      BY <1>7, <2>2 DEF ComputeStationMagnitude
    <3>5. QED
      BY <3>2, <3>3, <3>4 DEF Works, Handling
  <2>3. QED
    BY <2>1, <2>2
<1>8. CASE LookUpCorrection(r)
  <2>1. CASE CurrentItem(r).malformed
    BY <1>8, <2>1 DEF LookUpCorrection, Finishes, At, Handling
  <2>2. CASE ~CurrentItem(r).malformed
    <3>1. \E entry : AddEntry(r, entry)
      BY <1>8, <2>2 DEF LookUpCorrection
    <3>2. \A q \in RPCs \ {r} : response'[q] = response[q]
      BY <3>1 DEF AddEntry, TypeOK
    <3>3. GoTo(r, "items") /\ pc[r] = "items"
      BY <1>8, <2>2 DEF LookUpCorrection, At, GoTo, TypeOK
    <3>4. UNCHANGED <<status, mSuccess, mCounters, observations, mAccessToken, request>>
      BY <1>8, <2>2 DEF LookUpCorrection
    <3>5. QED
      BY <3>2, <3>3, <3>4 DEF Works, Handling
  <2>3. QED
    BY <2>1, <2>2
<1>9. CASE FinishItems(r)
  BY <1>9 DEF FinishItems, Finishes, At, Handling
<1>10. CASE CatchException(r)
  BY <1>10 DEF CatchException, Finishes, Handling
<1>11. QED
  BY <1>1, <1>2, <1>3, <1>4, <1>5, <1>6, <1>7, <1>8, <1>9, <1>10 DEF Handle

-----------------------------------------------------------------------------

(***************************************************************************)
(* Finish is called exactly once.  The invariant adds what that one status *)
(* is: a single one, OK exactly when mSuccess was set.                     *)
(***************************************************************************)
StatusInv ==
    \A r \in RPCs :
        IF Over(r)
        THEN \E code \in Statuses :
                status[r] = <<code>> /\ (mSuccess[r] <=> code = "OK")
        ELSE status[r] = <<>> /\ ~mSuccess[r]

\* Before the first call no reactor has finished.
LEMMA StatusInit == Init => StatusInv
BY DEF Init, StatusInv, Over

\* A reactor finishes when it leaves its handler, and a success is the one that
\* finished with OK.
LEMMA StatusNext == TypeInv /\ StatusInv /\ [Next]_vars => StatusInv'
<1> SUFFICES ASSUME TypeInv, StatusInv, [Next]_vars PROVE StatusInv'
  OBVIOUS
<1> USE DEF TypeInv
<1>1. ASSUME NEW r \in RPCs, Arrive(r) PROVE StatusInv'
  BY <1>1 DEF Arrive, At, GoTo, TypeOK, StatusInv, Over
<1>2. ASSUME NEW r \in RPCs, Handle(r) PROVE StatusInv'
  <2>1. CASE Works(r)
    BY <2>1 DEF Works, GoTo, TypeOK, StatusInv, Over, Handling
  <2>2. CASE Finishes(r)
    <3>1. PICK code \in Statuses :
             /\ FinishWith(r, code)
             /\ mSuccess' = IF code = "OK" THEN [mSuccess EXCEPT ![r] = TRUE] ELSE mSuccess
      BY <2>2 DEF Finishes, Succeed, ClientError, ServerError, Statuses
    <3>2. ~Over(r) /\ ~mSuccess[r]
      BY <2>2 DEF Finishes, StatusInv, Over, Handling
    <3>3. status[r] = <<>>
      BY <2>2 DEF Finishes, StatusInv, Over, Handling
    <3>4. status' = [status EXCEPT ![r] = <<code>>]
      BY <3>1, <3>3 DEF FinishWith
    <3>5. pc' = [pc EXCEPT ![r] = "constructed"]
      BY <3>1 DEF FinishWith, GoTo
    <3>6. mSuccess' = [mSuccess EXCEPT ![r] = (code = "OK")]
      BY <3>1, <3>2 DEF TypeOK
    <3>7. QED
      BY <3>4, <3>5, <3>6 DEF TypeOK, StatusInv, Over
  <2>3. QED
    BY <1>2, <2>1, <2>2, HandleEffect
<1>3. ASSUME NEW r \in RPCs, Bind(r) PROVE StatusInv'
  BY <1>3 DEF Bind, At, GoTo, reactorVars, TypeOK, StatusInv, Over
<1>4. ASSUME NEW r \in RPCs, OnDone(r) PROVE StatusInv'
  BY <1>4 DEF OnDone, At, GoTo, TypeOK, StatusInv, Over
<1>5. ASSUME UNCHANGED <<pc, status, mSuccess>> PROVE StatusInv'
  BY <1>5 DEF StatusInv, Over
<1>6. QED
  BY <1>1, <1>2, <1>3, <1>4, <1>5
  DEF Next, Cancel, OnCancel, Tick, vars, reactorVars

\* Whatever is asked of the service and however its RPCs interleave, Finish is
\* called once for every reactor that was constructed and never again.
THEOREM FinishedOnce == Spec => []FinishExactlyOnce
<1>1. TypeInv /\ StatusInv => FinishExactlyOnce
  BY DEF StatusInv, FinishExactlyOnce
<1>2. QED
  BY <1>1, TypeInit, TypeNext, StatusInit, StatusNext, PTL DEF Spec

-----------------------------------------------------------------------------

(***************************************************************************)
(* What Finish has been given belongs to gRPC.                             *)
(***************************************************************************)

\* A reactor that called Finish neither works nor finishes again, and the step
\* of another one does not reach into it.
LEMMA SettledNext ==
    ASSUME TypeInv, [Next]_vars, NEW q \in RPCs, Over(q)
    PROVE  response'[q] = response[q] /\ status'[q] = status[q]
<1>1. ASSUME NEW r \in RPCs, Arrive(r)
      PROVE  response'[q] = response[q] /\ status'[q] = status[q]
  BY <1>1 DEF Arrive
<1>2. ASSUME NEW r \in RPCs, Handle(r)
      PROVE  response'[q] = response[q] /\ status'[q] = status[q]
  <2>1. CASE Works(r)
    <3>1. q # r
      BY <2>1 DEF Works, Handling, Over
    <3>2. QED
      BY <1>2, <2>1, <3>1, HandleEffect DEF Works, OthersUntouched
  <2>2. CASE Finishes(r)
    <3>1. q # r
      BY <2>2 DEF Finishes, Handling, Over
    <3>2. \E code : FinishWith(r, code)
      BY <2>2 DEF Finishes, Succeed, ClientError, ServerError
    <3>3. status'[q] = status[q]
      BY <3>1, <3>2 DEF FinishWith, TypeInv, TypeOK
    <3>4. QED
      BY <1>2, <3>1, <3>3, HandleEffect DEF OthersUntouched
  <2>3. QED
    BY <1>2, <2>1, <2>2, HandleEffect
<1>3. QED
  BY <1>1, <1>2
  DEF Next, Bind, Cancel, OnCancel, OnDone, Tick, vars, reactorVars

\* From Finish on, no step of any RPC writes the response or the status of
\* a reactor: gRPC sends what the handler left there.
THEOREM Settled == Spec => SettledStaysSettled
<1>1. TypeInv /\ [Next]_vars
        => [\A r \in RPCs : Over(r) =>
               response'[r] = response[r] /\ status'[r] = status[r]]_vars
  BY SettledNext
<1>2. QED
  BY <1>1, TypeInit, TypeNext, PTL DEF Spec, SettledStaysSettled

-----------------------------------------------------------------------------

(***************************************************************************)
(* Authorization.  The invariant adds that a refused RPC never gets beyond *)
(* the check of its token, and what an RPC holds before it arrives.        *)
(***************************************************************************)
Untouched(r) == response[r] = EmptyResponse /\ observations[r] = <<>>

RefusedInv ==
    \A r \in RPCs :
        /\ pc[r] = "absent" => Untouched(r)
        /\ Refused(r) =>
              /\ pc[r] = "authenticate" \/ Over(r)
              /\ Untouched(r)
              /\ Over(r) => status[r] = <<"UNAUTHENTICATED">>

\* Before the first call no one has been refused.
LEMMA RefusedInit == Init => RefusedInv
BY DEF Init, RefusedInv, Refused, Untouched

\* The handler of a caller who must be refused gets no further than
\* authentication.
LEMMA RefusedNext == TypeInv /\ StatusInv /\ RefusedInv /\ [Next]_vars => RefusedInv'
<1> SUFFICES ASSUME TypeInv, StatusInv, RefusedInv, [Next]_vars PROVE RefusedInv'
  OBVIOUS
<1> USE DEF TypeInv
<1>1. ASSUME NEW r \in RPCs, Arrive(r) PROVE RefusedInv'
  BY <1>1
  DEF Arrive, At, GoTo, TypeOK, RefusedInv, Refused, Untouched, Over, StatusInv
<1>2. ASSUME NEW r \in RPCs, Authenticate(r), Refused(r) PROVE RefusedInv'
  <2>1. ~Authorized(r)
    BY <1>2 DEF Refused, Authorized, validateClient
  <2>2. /\ pc' = [pc EXCEPT ![r] = "constructed"]
        /\ status' = [status EXCEPT ![r] = Append(@, "UNAUTHENTICATED")]
        /\ status[r] = <<>>
        /\ UNCHANGED <<mAccessToken, request, response, observations>>
    BY <1>2, <2>1 DEF Authenticate, At, FinishWith, GoTo, StatusInv, Over
  <2>3. QED
    BY <1>2, <2>2 DEF TypeOK, RefusedInv, Refused, Untouched, Over
<1>3. ASSUME NEW r \in RPCs, Handle(r), ~Refused(r) PROVE RefusedInv'
  <2>1. /\ pc[r] \in Handling \cup {"unimplemented"}
        /\ \E label \in Labels \ {"absent"} : GoTo(r, label)
        /\ \A q \in RPCs \ {r} : status'[q] = status[q]
    <3>1. CASE Works(r)
      BY <3>1 DEF Works, Handling, Labels
    <3>2. CASE Finishes(r)
      <4>1. pc[r] \in Handling \cup {"unimplemented"}
        BY <3>2 DEF Finishes
      <4>2. PICK code : FinishWith(r, code)
        BY <3>2 DEF Finishes, Succeed, ClientError, ServerError
      <4>3. QED
        BY <4>1, <4>2 DEF FinishWith, Labels, TypeOK
    <3>3. QED
      BY <1>3, <3>1, <3>2, HandleEffect
  <2>2. OthersUntouched(r) /\ UNCHANGED <<mAccessToken, request>>
    BY <1>3, HandleEffect
  <2>3. ~Refused(r)'
    BY <1>3, <2>1, <2>2 DEF Refused, Handling
  <2>4. pc'[r] # "absent"
    BY <2>1 DEF GoTo, TypeOK
  <2>5. \A q \in RPCs \ {r} :
           /\ pc'[q] = pc[q] /\ status'[q] = status[q]
           /\ response'[q] = response[q] /\ observations'[q] = observations[q]
    BY <2>1, <2>2 DEF GoTo, TypeOK, OthersUntouched
  <2>6. \A q \in RPCs \ {r} :
           /\ Untouched(q)' <=> Untouched(q)
           /\ Refused(q)' <=> Refused(q)
           /\ Over(q)' <=> Over(q)
    BY <2>2, <2>5 DEF Untouched, Refused, Over
  <2>7. QED
    BY <2>3, <2>4, <2>5, <2>6 DEF RefusedInv
<1>4. ASSUME NEW r \in RPCs, Handle(r), Refused(r) PROVE Authenticate(r)
  <2>1. pc[r] = "authenticate"
    <3>1. CASE Works(r)
      BY <1>4, <3>1 DEF Works, RefusedInv, Over, Handling
    <3>2. CASE Finishes(r)
      BY <1>4, <3>2 DEF Finishes, RefusedInv, Over, Handling
    <3>3. QED
      BY <1>4, <3>1, <3>2, HandleEffect
  <2>2. QED
    BY <1>4, <2>1
    DEF Handle, Unimplemented, CheckHypocenter, PackObservation, CheckObservations,
        ComputeNetworkMagnitude, ComputeStationMagnitude, LookUpCorrection,
        FinishItems, CatchException, At
<1>5. ASSUME NEW r \in RPCs, Bind(r) \/ OnDone(r) PROVE RefusedInv'
  <2>1. /\ Over(r)
        /\ \E label \in {"bound", "deleted"} : pc' = [pc EXCEPT ![r] = label]
        /\ UNCHANGED <<mAccessToken, request, response, observations, status>>
    BY <1>5 DEF Bind, OnDone, At, GoTo, Over, reactorVars
  <2>2. QED
    BY <2>1 DEF TypeOK, RefusedInv, Refused, Untouched, Over
<1>6. ASSUME UNCHANGED <<mAccessToken, pc, request, response, observations, status>>
      PROVE  RefusedInv'
  BY <1>6 DEF RefusedInv, Refused, Untouched, Over
<1>7. QED
  BY <1>1, <1>2, <1>3, <1>4, <1>5, <1>6
  DEF Next, Cancel, OnCancel, Tick, vars, reactorVars

\* With any set of tokens and any configuration, a client that needed the token
\* and did not send it gets UNAUTHENTICATED and nothing else.
THEOREM RefusedLearnsNothing == Spec => []RefusedSeesNothing
<1>1. RefusedInv => RefusedSeesNothing
  BY DEF RefusedInv, RefusedSeesNothing, Untouched
<1>2. QED
  BY <1>1, TypeInit, TypeNext, StatusInit, StatusNext, RefusedInit, RefusedNext, PTL
  DEF Spec

-----------------------------------------------------------------------------

(***************************************************************************)
(* The counters count the outcomes.                                        *)
(***************************************************************************)

\* Which RPCs count where, with one more of them counted or none.
SameCounted ==
    \A route \in Routes, kind \in CounterKinds :
        Counted(route, kind)' = Counted(route, kind)

OneMoreCounted(r, kind) ==
    /\ r \notin Counted(request[r].route, kind)
    /\ \A route \in Routes, other \in CounterKinds :
          Counted(route, other)' =
              IF route = request[r].route /\ other = kind
              THEN Counted(route, other) \cup {r}
              ELSE Counted(route, other)

\* Counting one RPC where one more is to be counted keeps the counts right.
LEMMA CountOne ==
    ASSUME TypeOK, CountersMatchOutcomes, NEW r \in RPCs, NEW kind \in CounterKinds,
           request[r].route \in Implemented,
           IncrementCounter(kind, r), OneMoreCounted(r, kind)
    PROVE  CountersMatchOutcomes'
<1> DEFINE here == request[r].route
<1> SUFFICES ASSUME NEW route \in Routes, NEW other \in CounterKinds
             PROVE  Count(mCounters'[other], route) = Cardinality(Counted(route, other)')
  BY DEF CountersMatchOutcomes
<1>1. /\ mCounters'[kind] = Increment(mCounters[kind], here)
      /\ other # kind => mCounters'[other] = mCounters[other]
  BY DEF IncrementCounter, TypeOK, CountersTypeOK
<1>2. CountsType(mCounters[kind])
  BY DEF TypeOK, CountersTypeOK
<1>3. Count(mCounters[other], route) = Cardinality(Counted(route, other))
  BY DEF CountersMatchOutcomes
<1>4. CASE route = here /\ other = kind
  <2>1. Count(mCounters'[kind], here) = Count(mCounters[kind], here) + 1
    BY <1>1, <1>2, IncrementCounts
  <2>2. IsFiniteSet(Counted(here, kind))
    BY ServiceAssumption, FS_Subset DEF Counted
  <2>3. Cardinality(Counted(here, kind) \cup {r}) = Cardinality(Counted(here, kind)) + 1
    BY <2>2, FS_AddElement DEF OneMoreCounted
  <2>4. QED
    BY <1>3, <1>4, <2>1, <2>3 DEF OneMoreCounted
<1>5. CASE other # kind
  BY <1>1, <1>3, <1>5 DEF OneMoreCounted
<1>6. CASE other = kind /\ route # here
  <2>1. Count(mCounters'[kind], route) = Count(mCounters[kind], route)
    BY <1>1, <1>2, <1>6, IncrementCounts
  <2>2. Counted(route, kind)' = Counted(route, kind)
    BY <1>6 DEF OneMoreCounted
  <2>3. QED
    BY <1>3, <1>6, <2>1, <2>2
<1>7. QED
  BY <1>4, <1>5, <1>6

\* Counting nothing where nothing more is to be counted does too.
LEMMA CountNone ==
    ASSUME CountersMatchOutcomes, UNCHANGED mCounters, SameCounted
    PROVE  CountersMatchOutcomes'
BY DEF CountersMatchOutcomes, SameCounted

\* Whether an RPC counts depends on that RPC only.
LEMMA OthersCounted ==
    ASSUME NEW r \in RPCs,
           \A q \in RPCs \ {r} : pc'[q] = pc[q] /\ status'[q] = status[q]
                                   /\ request'[q] = request[q]
    PROVE  \A q \in RPCs \ {r}, kind \in CounterKinds :
              CountedAs(q, kind)' <=> CountedAs(q, kind)
BY DEF CountedAs, CounterKinds

\* A step that changes one RPC and leaves it as counted as it was.
LEMMA StillCounted ==
    ASSUME NEW r \in RPCs,
           \A q \in RPCs \ {r} : pc'[q] = pc[q] /\ status'[q] = status[q]
                                   /\ request'[q] = request[q],
           \A kind \in CounterKinds : CountedAs(r, kind)' <=> CountedAs(r, kind),
           request'[r] = request[r] \/ \A kind \in CounterKinds : ~CountedAs(r, kind)
    PROVE  SameCounted
BY OthersCounted DEF SameCounted, Counted

\* A step that changes one RPC and makes it counted, one way only.
LEMMA NewlyCounted ==
    ASSUME NEW r \in RPCs, NEW kind \in CounterKinds, UNCHANGED request,
           \A q \in RPCs \ {r} : pc'[q] = pc[q] /\ status'[q] = status[q],
           \A other \in CounterKinds : ~CountedAs(r, other),
           \A other \in CounterKinds : CountedAs(r, other)' <=> other = kind
    PROVE  OneMoreCounted(r, kind)
<1>1. \A q \in RPCs \ {r}, other \in CounterKinds :
         CountedAs(q, other)' <=> CountedAs(q, other)
  BY OthersCounted
<1>2. r \notin Counted(request[r].route, kind)
  BY DEF Counted
<1>3. ASSUME NEW route \in Routes, NEW other \in CounterKinds
      PROVE  Counted(route, other)' =
                 IF route = request[r].route /\ other = kind
                 THEN Counted(route, other) \cup {r}
                 ELSE Counted(route, other)
  BY <1>1 DEF Counted
<1>4. QED
  BY <1>2, <1>3 DEF OneMoreCounted

\* Before the first call there is nothing to count.
LEMMA CountersInit == Init => CountersMatchOutcomes
<1> SUFFICES ASSUME Init, NEW route \in Routes, NEW kind \in CounterKinds
             PROVE  Count(mCounters[kind], route) = Cardinality(Counted(route, kind))
  BY DEF CountersMatchOutcomes
<1>1. Count(mCounters[kind], route) = 0
  BY DEF Init, Count
<1>2. Counted(route, kind) = {}
  BY DEF Init, Counted, CountedAs, CounterKinds
<1>3. QED
  BY <1>1, <1>2, FS_EmptySet

\* Every step counts the outcome it decides, once, and no step counts another.
LEMMA CountersNext ==
    TypeInv /\ StatusInv /\ StatusInv' /\ CountersMatchOutcomes /\ [Next]_vars
        => CountersMatchOutcomes'
<1> SUFFICES ASSUME TypeInv, StatusInv, StatusInv', CountersMatchOutcomes, [Next]_vars
             PROVE  CountersMatchOutcomes'
  OBVIOUS
<1> USE DEF TypeInv
<1>1. ASSUME NEW r \in RPCs, Arrive(r) PROVE CountersMatchOutcomes'
  <2>1. status[r] = <<>> /\ status'[r] = <<>>
    BY <1>1 DEF Arrive, At, StatusInv, Over
  <2>2. \A kind \in CounterKinds : ~CountedAs(r, kind) /\ ~CountedAs(r, kind)'
    BY <2>1 DEF CountedAs, CounterKinds
  <2>3. \A q \in RPCs \ {r} :
           pc'[q] = pc[q] /\ status'[q] = status[q] /\ request'[q] = request[q]
    BY <1>1 DEF Arrive, GoTo, TypeOK
  <2>4. SameCounted
    BY <2>2, <2>3, StillCounted
  <2>5. QED
    BY <1>1, <2>4, CountNone DEF Arrive
<1>2. ASSUME NEW r \in RPCs, Handle(r) PROVE CountersMatchOutcomes'
  <2>1. UNCHANGED request
    BY <1>2, HandleEffect
  <2>2. pc[r] \in Handling \cup {"unimplemented"}
    BY <1>2, HandleEffect DEF Works, Finishes
  <2>3. status[r] = <<>>
    BY <2>2 DEF StatusInv, Over, Handling
  <2>4. \A kind \in CounterKinds : ~CountedAs(r, kind)
    BY <2>3 DEF CountedAs, CounterKinds
  <2>5. CASE Works(r)
    <3>1. \A kind \in CounterKinds : ~CountedAs(r, kind)'
      <4>1. status'[r] = <<>>
        BY <2>3, <2>5 DEF Works
      <4>2. QED
        BY <4>1 DEF CountedAs, CounterKinds
    <3>2. \A q \in RPCs \ {r} : pc'[q] = pc[q] /\ status'[q] = status[q]
      BY <2>5 DEF Works, GoTo, TypeOK
    <3>3. SameCounted
      BY <2>1, <2>4, <3>1, <3>2, StillCounted
    <3>4. QED
      BY <2>5, <3>3, CountNone DEF Works
  <2>6. ASSUME NEW code, FinishWith(r, code)
        PROVE  /\ pc'[r] = "constructed" /\ status'[r] = <<code>>
               /\ \A q \in RPCs \ {r} : pc'[q] = pc[q] /\ status'[q] = status[q]
    BY <2>3, <2>6 DEF FinishWith, GoTo, TypeOK
  <2>7. ASSUME NEW code \in {"OK", "UNIMPLEMENTED"}, FinishWith(r, code), UNCHANGED mCounters
        PROVE  CountersMatchOutcomes'
    <3>1. \A kind \in CounterKinds : ~CountedAs(r, kind)'
      BY <2>6, <2>7 DEF CountedAs, CounterKinds
    <3>2. SameCounted
      BY <2>1, <2>4, <2>6, <2>7, <3>1, StillCounted
    <3>3. QED
      BY <2>7, <3>2, CountNone
  <2>8. ASSUME NEW kind \in CounterKinds, NEW code, FinishWith(r, code),
               <<kind, code>> \in {<<"unauthenticated", "UNAUTHENTICATED">>,
                                   <<"clientError", "INVALID_ARGUMENT">>,
                                   <<"serverError", "INTERNAL">>},
               IncrementCounter(kind, r), pc[r] \in Handling
        PROVE  CountersMatchOutcomes'
    <3>1. \A other \in CounterKinds : CountedAs(r, other)' <=> other = kind
      BY <2>6, <2>8 DEF CountedAs, CounterKinds
    <3>2. OneMoreCounted(r, kind)
      BY <2>1, <2>4, <2>6, <2>8, <3>1, NewlyCounted
    <3>3. request[r].route \in Implemented
      BY <2>8 DEF RouteInv
    <3>4. QED
      BY <2>8, <3>2, <3>3, CountOne
  <2>9. CASE Finishes(r)
    BY <2>7, <2>8, <2>9 DEF Finishes, Succeed, ClientError, ServerError, CounterKinds
  <2>10. QED
    BY <1>2, <2>5, <2>9, HandleEffect
<1>3. ASSUME NEW r \in RPCs, Bind(r) PROVE CountersMatchOutcomes'
  <2>1. \A q \in RPCs \ {r} :
           pc'[q] = pc[q] /\ status'[q] = status[q] /\ request'[q] = request[q]
    BY <1>3 DEF Bind, GoTo, reactorVars, TypeOK
  <2>2. \A kind \in CounterKinds : CountedAs(r, kind)' <=> CountedAs(r, kind)
    BY <1>3 DEF Bind, At, GoTo, reactorVars, TypeOK, CountedAs, CounterKinds
  <2>3. SameCounted
    BY <1>3, <2>1, <2>2, StillCounted DEF Bind, reactorVars
  <2>4. QED
    BY <1>3, <2>3, CountNone DEF Bind
<1>4. ASSUME NEW r \in RPCs, OnDone(r) PROVE CountersMatchOutcomes'
  <2>1. /\ pc[r] = "bound" /\ pc'[r] = "deleted" /\ UNCHANGED <<request, status>>
        /\ \A q \in RPCs \ {r} : pc'[q] = pc[q] /\ status'[q] = status[q]
    BY <1>4 DEF OnDone, At, GoTo, TypeOK
  <2>2. PICK code \in Statuses : status[r] = <<code>> /\ (mSuccess[r] <=> code = "OK")
    BY <2>1 DEF StatusInv, Over
  <2>3. CASE mSuccess[r]
    <3>1. \A other \in CounterKinds : ~CountedAs(r, other)
      BY <2>1, <2>2, <2>3 DEF CountedAs, CounterKinds
    <3>2. \A other \in CounterKinds : CountedAs(r, other)' <=> other = "success"
      BY <2>1, <2>2, <2>3 DEF CountedAs, CounterKinds
    <3>3. OneMoreCounted(r, "success")
      BY <2>1, <3>1, <3>2, NewlyCounted DEF CounterKinds
    <3>4. request[r].route \in Implemented /\ IncrementCounter("success", r)
      BY <1>4, <2>3 DEF RouteInv, OnDone
    <3>5. QED
      BY <3>3, <3>4, CountOne DEF CounterKinds
  <2>4. CASE ~mSuccess[r]
    <3>1. \A kind \in CounterKinds : CountedAs(r, kind)' <=> CountedAs(r, kind)
      BY <2>1, <2>2, <2>4 DEF CountedAs, CounterKinds
    <3>2. SameCounted
      BY <2>1, <3>1, StillCounted
    <3>3. QED
      BY <1>4, <2>4, <3>2, CountNone DEF OnDone
  <2>5. QED
    BY <2>3, <2>4
<1>5. ASSUME UNCHANGED <<pc, status, request, mCounters>> PROVE CountersMatchOutcomes'
  <2>1. SameCounted
    BY <1>5 DEF SameCounted, Counted, CountedAs
  <2>2. QED
    BY <1>5, <2>1, CountNone
<1>6. QED
  BY <1>1, <1>2, <1>3, <1>4, <1>5
  DEF Next, Cancel, OnCancel, Tick, vars, reactorVars

\* However many RPCs run at once and however their steps interleave, each
\* counter of each route is the number of its RPCs that ended that way.
THEOREM CountersCountOutcomes == Spec => []CountersMatchOutcomes
BY TypeInit, TypeNext, StatusInit, StatusNext, CountersInit, CountersNext, PTL DEF Spec

-----------------------------------------------------------------------------

(***************************************************************************)
(* The response of the network route accounts for the request it answers.  *)
(* The inductive invariant, for one RPC:                                   *)
(***************************************************************************)

\* Every measurement has its own outcome in the message and no other.
Accounts(items, message) ==
    LET code(n) == StationCode(ToObservation(items[n]))
    IN  /\ DOMAIN message.residuals \cap DOMAIN message.rejected = {}
        /\ DOMAIN message.residuals \cup DOMAIN message.rejected = DOMAIN items
        /\ \A n \in DOMAIN message.residuals : code(n) = NoError
        /\ \A n \in DOMAIN message.rejected :
              /\ code(n) # NoError
              /\ message.rejected[n] = Reason(code(n))

\* The packed observations are those of the measurements, number by number.
Packed(items, obs) ==
    /\ Len(obs) <= Len(items)
    /\ \A n \in 1 .. Len(obs) : obs[n] = ToObservation(items[n])

\* Observations are packed in the order of the measurements, all of them are
\* there when a magnitude is computed, and a success accounts for all of them.
Answer(label, q, i, obs, codes, message) ==
    /\ label = "absent" => i = 1 /\ obs = <<>> /\ codes = <<>>
    /\ q.route = Network =>
          /\ label \in {"authenticate", "unimplemented", "hypocenter"} => i = 1 /\ obs = <<>>
          /\ label = "items" => i = Len(obs) + 1
          /\ label = "compute" => Len(obs) = Len(q.items)
          /\ Packed(q.items, obs)
          /\ codes = <<"OK">> => Accounts(q.items, message.network)

AnswerInv ==
    \A r \in RPCs :
        Answer(pc[r], request[r], index[r], observations[r], status[r], response[r])

\* A step of r is no step of another RPC.
Alone(r) ==
    \A q \in RPCs \ {r} :
        /\ pc'[q] = pc[q] /\ request'[q] = request[q] /\ index'[q] = index[q]
        /\ observations'[q] = observations[q] /\ status'[q] = status[q]
        /\ response'[q] = response[q]

\* A magnitude computed from the observations of the measurements accounts for
\* the measurements.
LEMMA NetworkAccounts ==
    ASSUME NEW items \in Seq(Item), NEW obs \in Seq(Observation),
           Packed(items, obs), Len(obs) = Len(items),
           NetworkResult(obs).error = NoError
    PROVE  Accounts(items, NetworkMessage(NetworkResult(obs)))
<1> DEFINE total == MagnitudeSum(obs)
           count == Cardinality(Computed(obs))
           residuals == [n \in Computed(obs) |-> total - count * StationMagnitude(obs[n])]
           rejected == [n \in Rejected(obs) |-> StationCode(obs[n])]
           reasons == [n \in DOMAIN rejected |-> Reason(rejected[n])]
<1>1. NetworkCode(obs) = NoError
  <2>1. Failure(NetworkCode(obs)).error = NetworkCode(obs)
    BY DEF Failure
  <2>2. QED
    BY <2>1 DEF NetworkResult
<1>2. NetworkResult(obs) = [error |-> NoError, sum |-> total, count |-> count,
                            residuals |-> residuals, rejected |-> rejected]
  BY <1>1 DEF NetworkResult
<1>3. /\ NetworkMessage(NetworkResult(obs)).residuals = residuals
      /\ NetworkMessage(NetworkResult(obs)).rejected = reasons
  <2> HIDE DEF residuals, rejected, total, count
  <2>1. /\ NetworkResult(obs).residuals = residuals
        /\ NetworkResult(obs).rejected = rejected
    BY <1>2
  <2>2. QED
    BY <2>1 DEF NetworkMessage
<1>4. DOMAIN obs = DOMAIN items /\ \A n \in DOMAIN obs : obs[n] = ToObservation(items[n])
  BY DEF Packed
<1>5. /\ DOMAIN residuals = Computed(obs)
      /\ DOMAIN reasons = Rejected(obs)
      /\ \A n \in Rejected(obs) : reasons[n] = Reason(StationCode(obs[n]))
  OBVIOUS
<1> HIDE DEF residuals, reasons
<1>6. /\ Computed(obs) \cap Rejected(obs) = {}
      /\ Computed(obs) \cup Rejected(obs) = DOMAIN items
      /\ \A n \in Computed(obs) : StationCode(ToObservation(items[n])) = NoError
      /\ \A n \in Rejected(obs) :
            /\ StationCode(ToObservation(items[n])) # NoError
            /\ obs[n] = ToObservation(items[n])
  BY <1>4 DEF Computed, Rejected
<1>7. QED
  BY <1>3, <1>5, <1>6 DEF Accounts

\* Before the first call nothing is packed and nothing answered.
LEMMA AnswerInit == Init => AnswerInv
<1> SUFFICES ASSUME Init, NEW r \in RPCs
             PROVE  Answer(pc[r], request[r], index[r], observations[r],
                           status[r], response[r])
  BY DEF AnswerInv
<1>1. NoRequest.items = <<>>
  BY DEF NoRequest
<1>2. QED
  BY <1>1 DEF Init, Answer, Packed

\* What one step does to its RPC is all there is to show.
LEMMA OneAnswer ==
    ASSUME AnswerInv, NEW r \in RPCs, Alone(r),
           Answer(pc'[r], request'[r], index'[r], observations'[r], status'[r], response'[r])
    PROVE  AnswerInv'
<1>1. ASSUME NEW q \in RPCs
      PROVE  Answer(pc'[q], request'[q], index'[q], observations'[q], status'[q], response'[q])
  <2>1. CASE q = r
    BY <2>1
  <2>2. CASE q # r
    BY <2>2 DEF AnswerInv, Alone
  <2>3. QED
    BY <2>1, <2>2
<1>2. QED
  BY <1>1 DEF AnswerInv

\* A handler that finishes leaves what it packed.
LEMMA FinishAnswer ==
    ASSUME TypeInv, StatusInv, AnswerInv, NEW r \in RPCs, ~Over(r),
           NEW code, FinishWith(r, code),
           code = "OK" /\ request[r].route = Network
               => Accounts(request[r].items, response'[r].network),
           UNCHANGED <<request, index, observations>>,
           \A q \in RPCs \ {r} : response'[q] = response[q]
    PROVE  AnswerInv'
<1>1. status[r] = <<>>
  BY DEF StatusInv
<1>2. status' = [status EXCEPT ![r] = <<code>>] /\ pc' = [pc EXCEPT ![r] = "constructed"]
  BY <1>1 DEF FinishWith, GoTo
<1>3. status'[r] = <<code>> /\ pc'[r] = "constructed" /\ Alone(r)
  BY <1>2 DEF TypeInv, TypeOK, Alone
<1>4. status'[r] = <<"OK">> => code = "OK"
  BY <1>3
<1>5. Answer(pc'[r], request'[r], index'[r], observations'[r], status'[r], response'[r])
  BY <1>3, <1>4 DEF AnswerInv, Answer
<1>6. QED
  BY <1>3, <1>5, OneAnswer

\* An error answers nothing.
LEMMA ErrorAnswer ==
    ASSUME TypeInv, StatusInv, AnswerInv, NEW r \in RPCs, pc[r] \in Handling,
           ClientError(r) \/ ServerError(r),
           UNCHANGED <<request, index, observations, response>>
    PROVE  AnswerInv'
<1>1. ~Over(r)
  BY DEF Over, Handling
<1>2. PICK code : FinishWith(r, code) /\ code # "OK"
  BY DEF ClientError, ServerError
<1>3. QED
  BY <1>1, <1>2, FinishAnswer

\* A handler that goes on answers later.
LEMMA MoveAnswer ==
    ASSUME TypeInv, AnswerInv, NEW r \in RPCs, NEW label, GoTo(r, label),
           UNCHANGED <<request, index, observations, status, response>>,
           label # "absent",
           request[r].route = Network =>
               /\ label \in {"authenticate", "unimplemented", "hypocenter"} =>
                     index[r] = 1 /\ observations[r] = <<>>
               /\ label = "items" => index[r] = Len(observations[r]) + 1
               /\ label = "compute" => Len(observations[r]) = Len(request[r].items)
    PROVE  AnswerInv'
<1>1. pc'[r] = label /\ Alone(r)
  BY DEF TypeInv, TypeOK, GoTo, Alone
<1>2. Answer(pc'[r], request'[r], index'[r], observations'[r], status'[r], response'[r])
  BY <1>1 DEF AnswerInv, Answer
<1>3. QED
  BY <1>1, <1>2, OneAnswer

\* A measurement is packed under its own number.
LEMMA PackAnswer ==
    ASSUME TypeInv, StatusInv, AnswerInv, NEW r \in RPCs, PackObservation(r)
    PROVE  AnswerInv'
<1>1. /\ pc[r] = "items" /\ request[r].route = Network /\ index[r] <= Len(Items(r))
      /\ UNCHANGED <<request, response>>
  BY DEF PackObservation, At
<1>2. CASE CurrentItem(r).malformed
  <2>1. ClientError(r) /\ UNCHANGED <<request, index, observations, response>>
    BY <1>2 DEF PackObservation
  <2>2. QED
    BY <1>1, <2>1, ErrorAnswer DEF Handling
<1>3. CASE ~CurrentItem(r).malformed
  <2> DEFINE items == request[r].items
             obs == observations[r]
             next == ToObservation(items[index[r]])
  <2>1. /\ observations' = [observations EXCEPT ![r] = Append(@, next)]
        /\ index' = [index EXCEPT ![r] = @ + 1]
        /\ UNCHANGED <<pc, request, status, response>>
    BY <1>3 DEF PackObservation, CurrentItem, Items
  <2>2. observations'[r] = Append(obs, next) /\ index'[r] = index[r] + 1 /\ Alone(r)
    BY <2>1 DEF TypeInv, TypeOK, Alone
  <2>3. /\ obs \in Seq(Observation) /\ items \in Seq(Item)
        /\ index[r] = Len(obs) + 1 /\ Packed(items, obs) /\ index[r] <= Len(items)
        /\ status[r] = <<>>
    <3>1. Items(r) \in Seq(Item)
      BY ItemsType DEF TypeInv
    <3>2. QED
      BY <1>1, <3>1 DEF TypeInv, TypeOK, AnswerInv, Answer, Items, StatusInv, Over
  <2>4. Packed(items, Append(obs, next)) /\ Len(Append(obs, next)) = Len(obs) + 1
    <3>1. /\ Len(Append(obs, next)) = Len(obs) + 1
          /\ Append(obs, next)[Len(obs) + 1] = next
          /\ \A n \in 1 .. Len(obs) : Append(obs, next)[n] = obs[n]
      BY <2>3
    <3>2. next = ToObservation(items[Len(obs) + 1]) /\ Len(obs) \in Nat /\ Len(items) \in Nat
      BY <2>3
    <3> HIDE DEF items, obs, next
    <3>3. \A n \in 1 .. Len(obs) + 1 : n \in 1 .. Len(obs) \/ n = Len(obs) + 1
      BY <3>2
    <3>4. QED
      BY <2>3, <3>1, <3>2, <3>3 DEF Packed
  <2>5. index'[r] = Len(Append(obs, next)) + 1
    BY <2>2, <2>3, <2>4
  <2>6. pc'[r] = "items" /\ request'[r] = request[r] /\ status'[r] = <<>>
    BY <1>1, <2>1, <2>3
  <2> HIDE DEF obs, next
  <2>7. Answer(pc'[r], request'[r], index'[r], observations'[r], status'[r], response'[r])
    BY <2>2, <2>4, <2>5, <2>6 DEF Answer
  <2>8. QED
    BY <2>2, <2>7, OneAnswer
<1>4. QED
  BY <1>2, <1>3

\* Nothing is computed before every measurement is packed.
LEMMA CheckAnswer ==
    ASSUME TypeInv, StatusInv, AnswerInv, NEW r \in RPCs, CheckObservations(r)
    PROVE  AnswerInv'
<1>1. /\ pc[r] = "items" /\ request[r].route = Network /\ index[r] > Len(Items(r))
      /\ UNCHANGED <<request, index, observations, response>>
  BY DEF CheckObservations, At
<1>2. CASE ClientError(r)
  BY <1>1, <1>2, ErrorAnswer DEF Handling
<1>3. CASE GoTo(r, "compute") /\ UNCHANGED <<status, mCounters>>
  <2>1. /\ index[r] = Len(observations[r]) + 1
        /\ Len(observations[r]) <= Len(request[r].items)
    BY <1>1 DEF AnswerInv, Answer, Packed
  <2>2. Len(observations[r]) \in Nat /\ Len(request[r].items) \in Nat
    <3>1. Items(r) \in Seq(Item) /\ observations[r] \in Seq(Observation)
      BY ItemsType DEF TypeInv, TypeOK
    <3>2. QED
      BY <3>1 DEF Items
  <2>3. Len(observations[r]) = Len(request[r].items)
    BY <1>1, <2>1, <2>2 DEF Items
  <2>4. QED
    BY <1>1, <1>3, <2>3, MoveAnswer
<1>4. QED
  BY <1>2, <1>3 DEF CheckObservations

\* What is answered with OK accounts for the measurements.
LEMMA ComputeAnswer ==
    ASSUME TypeInv, StatusInv, AnswerInv, NEW r \in RPCs, ComputeNetworkMagnitude(r)
    PROVE  AnswerInv'
<1> DEFINE result == NetworkResult(observations[r])
<1>1. pc[r] = "compute" /\ ~Over(r) /\ UNCHANGED <<request, index, observations>>
  BY DEF ComputeNetworkMagnitude, At, Over
<1>2. CASE result.error = NoError
  <2> DEFINE message == NetworkMessage(result)
  <2>1. /\ response' = [response EXCEPT ![r] = [@ EXCEPT !.network = message]]
        /\ FinishWith(r, "OK")
    BY <1>2 DEF ComputeNetworkMagnitude, Succeed
  <2>2. ASSUME request[r].route = Network
        PROVE  Accounts(request[r].items, message)
    <3>1. /\ Packed(request[r].items, observations[r])
          /\ Len(observations[r]) = Len(request[r].items)
      BY <1>1, <2>2 DEF AnswerInv, Answer
    <3>2. Items(r) \in Seq(Item) /\ observations[r] \in Seq(Observation)
      BY ItemsType DEF TypeInv, TypeOK
    <3>3. QED
      BY <1>2, <3>1, <3>2, NetworkAccounts DEF Items
  <2> HIDE DEF message
  <2>3. /\ response'[r].network = message
        /\ \A q \in RPCs \ {r} : response'[q] = response[q]
    <3>1. DOMAIN response = RPCs /\ DOMAIN response[r] = {"entries", "network"}
      BY DEF TypeInv, TypeOK, ResponseType
    <3>2. QED
      BY <2>1, <3>1
  <2>4. QED
    BY <1>1, <2>1, <2>2, <2>3, FinishAnswer
<1>3. CASE result.error # NoError
  <2>1. (ClientError(r) \/ ServerError(r)) /\ UNCHANGED response
    BY <1>3 DEF ComputeNetworkMagnitude
  <2>2. QED
    BY <1>1, <2>1, ErrorAnswer DEF Handling
<1>4. QED
  BY <1>2, <1>3

\* The loops of the other two routes neither pack nor compute.
LEMMA OtherRouteAnswer ==
    ASSUME TypeInv, StatusInv, AnswerInv, NEW r \in RPCs,
           ComputeStationMagnitude(r) \/ LookUpCorrection(r)
    PROVE  AnswerInv'
<1>1. /\ pc[r] = "items" /\ request[r].route # Network
      /\ UNCHANGED <<request, observations>>
  BY DEF ComputeStationMagnitude, LookUpCorrection, At, Network, Station, Corrections
<1>2. CASE CurrentItem(r).malformed
  <2>1. ClientError(r) /\ UNCHANGED <<index, response>>
    BY <1>2 DEF ComputeStationMagnitude, LookUpCorrection
  <2>2. QED
    BY <1>1, <2>1, ErrorAnswer DEF Handling
<1>3. CASE ~CurrentItem(r).malformed
  <2>1. /\ index' = [index EXCEPT ![r] = @ + 1]
        /\ UNCHANGED <<pc, status>>
        /\ (\E entry : AddEntry(r, entry)) \/ UNCHANGED response
    BY <1>3 DEF ComputeStationMagnitude, LookUpCorrection
  <2>2. \A q \in RPCs \ {r} : response'[q] = response[q] /\ index'[q] = index[q]
    BY <2>1 DEF AddEntry, TypeInv, TypeOK
  <2>3. Alone(r) /\ pc'[r] = "items" /\ request'[r].route # Network
    BY <1>1, <2>1, <2>2 DEF Alone
  <2>4. Answer(pc'[r], request'[r], index'[r], observations'[r], status'[r], response'[r])
    BY <2>3 DEF Answer
  <2>5. QED
    BY <2>3, <2>4, OneAnswer
<1>4. QED
  BY <1>2, <1>3

\* No step of any RPC breaks the inductive invariant.
LEMMA AnswerNext == TypeInv /\ StatusInv /\ AnswerInv /\ [Next]_vars => AnswerInv'
<1> SUFFICES ASSUME TypeInv, StatusInv, AnswerInv, [Next]_vars PROVE AnswerInv'
  OBVIOUS
<1>1. ASSUME NEW r \in RPCs, Arrive(r) PROVE AnswerInv'
  <2>1. PICK q \in Requests :
           /\ request' = [request EXCEPT ![r] = q]
           /\ GoTo(r, IF q.route \in Implemented THEN "authenticate" ELSE "unimplemented")
    BY <1>1 DEF Arrive
  <2>2. pc[r] = "absent" /\ UNCHANGED <<index, observations, status, response>>
    BY <1>1 DEF Arrive, At
  <2>3. index[r] = 1 /\ observations[r] = <<>> /\ status[r] = <<>>
    BY <2>2 DEF AnswerInv, Answer
  <2>4. Alone(r) /\ request'[r] = q /\ pc'[r] \in {"authenticate", "unimplemented"}
    BY <2>1, <2>2 DEF GoTo, TypeInv, TypeOK, Alone
  <2>5. Len(q.items) \in Nat
    BY RequestsAssumption DEF Request
  <2>6. Packed(q.items, <<>>)
    BY <2>5 DEF Packed
  <2>7. Answer(pc'[r], request'[r], index'[r], observations'[r], status'[r], response'[r])
    BY <2>2, <2>3, <2>4, <2>6 DEF Answer
  <2>8. QED
    BY <2>4, <2>7, OneAnswer
<1>2. ASSUME NEW r \in RPCs, Handle(r) PROVE AnswerInv'
  <2>1. CASE Unimplemented(r)
    <3>1. ~Over(r) /\ FinishWith(r, "UNIMPLEMENTED")
          /\ UNCHANGED <<request, index, observations, response>>
      BY <2>1 DEF Unimplemented, At, Over
    <3>2. QED
      BY <3>1, FinishAnswer
  <2>2. CASE Authenticate(r)
    <3>1. /\ pc[r] = "authenticate" /\ ~Over(r)
          /\ UNCHANGED <<request, index, observations, response>>
      BY <2>2 DEF Authenticate, At, Over
    <3>2. CASE Authorized(r)
      <4> DEFINE label == IF request[r].route = Corrections THEN "items" ELSE "hypocenter"
      <4>1. GoTo(r, label) /\ UNCHANGED status
        BY <2>2, <3>2 DEF Authenticate
      <4>2. /\ label \in {"items", "hypocenter"}
            /\ request[r].route = Network =>
                  label = "hypocenter" /\ index[r] = 1 /\ observations[r] = <<>>
        BY <3>1 DEF AnswerInv, Answer, Network, Corrections
      <4> HIDE DEF label
      <4>3. QED
        BY <3>1, <4>1, <4>2, MoveAnswer
    <3>3. CASE ~Authorized(r)
      <4>1. FinishWith(r, "UNAUTHENTICATED")
        BY <2>2, <3>3 DEF Authenticate
      <4>2. QED
        BY <3>1, <4>1, FinishAnswer
    <3>4. QED
      BY <3>2, <3>3
  <2>3. CASE CheckHypocenter(r)
    <3>1. pc[r] = "hypocenter" /\ UNCHANGED <<request, index, observations, response>>
      BY <2>3 DEF CheckHypocenter, At
    <3>2. CASE GoTo(r, "items") /\ UNCHANGED <<status, mCounters>>
      <4>1. request[r].route = Network => index[r] = Len(observations[r]) + 1
        BY <3>1 DEF AnswerInv, Answer
      <4>2. QED
        BY <3>1, <3>2, <4>1, MoveAnswer
    <3>3. CASE ClientError(r)
      BY <3>1, <3>3, ErrorAnswer DEF Handling
    <3>4. QED
      BY <2>3, <3>2, <3>3 DEF CheckHypocenter
  <2>4. CASE FinishItems(r)
    <3>1. /\ ~Over(r) /\ FinishWith(r, "OK") /\ request[r].route # Network
          /\ UNCHANGED <<request, index, observations, response>>
      BY <2>4 DEF FinishItems, At, Over, Succeed, Network, Station, Corrections
    <3>2. QED
      BY <3>1, FinishAnswer
  <2>5. CASE CatchException(r)
    <3>1. /\ pc[r] \in Handling /\ ServerError(r)
          /\ UNCHANGED <<request, index, observations, response>>
      BY <2>5 DEF CatchException, Handling
    <3>2. QED
      BY <3>1, ErrorAnswer
  <2>6. QED
    BY <1>2, <2>1, <2>2, <2>3, <2>4, <2>5, PackAnswer, CheckAnswer, ComputeAnswer,
       OtherRouteAnswer DEF Handle
<1>3. ASSUME NEW r \in RPCs, NEW label \in {"bound", "deleted"}, GoTo(r, label),
             UNCHANGED <<request, index, observations, status, response>>
      PROVE  AnswerInv'
  BY <1>3, MoveAnswer
<1>4. ASSUME UNCHANGED <<pc, request, index, observations, status, response>>
      PROVE  AnswerInv'
  BY <1>4 DEF AnswerInv
<1>5. ASSUME NEW r \in RPCs, Bind(r) \/ OnDone(r) PROVE AnswerInv'
  <2>1. /\ \E label \in {"bound", "deleted"} : GoTo(r, label)
        /\ UNCHANGED <<request, index, observations, status, response>>
    BY <1>5 DEF Bind, OnDone, reactorVars
  <2>2. QED
    BY <1>3, <2>1
<1>6. QED
  BY <1>1, <1>2, <1>4, <1>5 DEF Next, Cancel, OnCancel, Tick, vars, reactorVars

\* Whatever was asked and whoever else was asking, each measurement of a
\* request that was answered with a network magnitude is used or rejected,
\* under its own number and with its own reason.
THEOREM ResponseAccounts == Spec => []ResponseAccountsForRequest
<1>1. AnswerInv => ResponseAccountsForRequest
  BY DEF AnswerInv, Answer, Accounts, ResponseAccountsForRequest, Items
<1>2. QED
  BY <1>1, TypeInit, TypeNext, StatusInit, StatusNext, AnswerInit, AnswerNext, PTL
  DEF Spec

-----------------------------------------------------------------------------

(***************************************************************************)
(* What the loops of the other two routes answer.  Where the entry of a     *)
(* measurement is depends on how many before it could be computed, so the  *)
(* invariant gives the place of every entry at every turn of the loop.     *)
(***************************************************************************)
Early == {"absent", "authenticate", "unimplemented", "hypocenter"}
Ended == {"constructed", "bound", "deleted"}

\* Nothing malformed comes before the i-th item.
SoundBefore(items, i) == \A m \in 1 .. i - 1 : ~items[m].malformed

\* The station route's entries are those of the usable measurements before the
\* i-th, each in the place the usable ones before it leave.
StationEntries(items, i, entries) ==
    /\ Len(entries) = Cardinality(UsableBefore(items, i))
    /\ \A n \in UsableBefore(items, i) :
          entries[Cardinality(UsableBefore(items, n)) + 1] = StationEntry(items[n])

\* The corrections route's entries are those of the identifiers before the i-th.
CorrectionEntries(items, i, entries) ==
    /\ Len(entries) = i - 1
    /\ \A n \in 1 .. i - 1 :
          /\ entries[n].station = items[n].station
          /\ entries[n].exists <=> HasCorrection(items[n].station)
          /\ entries[n].exists => entries[n].value = StationCorrection[items[n].station]

\* The entries of either route, up to the i-th item.
Replied(q, i, entries) ==
    /\ q.route = Station => StationEntries(q.items, i, entries)
    /\ q.route = Corrections => CorrectionEntries(q.items, i, entries)

\* What the error message about a malformed measurement says.
Names(q, codes, name) ==
    \E n \in DOMAIN q.items :
        /\ q.items[n].malformed
        /\ SoundBefore(q.items, n)
        /\ codes = <<"INVALID_ARGUMENT">>
        /\ name = IF q.route = Network THEN <<n - 1>>
                  ELSE <<Cardinality(UsableBefore(q.items, n)) + 1>>

\* A loop has replied to what it has passed, all of it well formed; a success
\* replies to everything, and only an RPC that is over names a measurement.
Reply(label, q, i, entries, codes, name) ==
    /\ label \in Early => i = 1 /\ entries = <<>>
    /\ label = "items" =>
          i <= Len(q.items) + 1 /\ SoundBefore(q.items, i) /\ Replied(q, i, entries)
    /\ label = "compute" => q.route = Network
    /\ codes = <<"OK">> => Replied(q, Len(q.items) + 1, entries)
    /\ name # <<>> => label \in Ended /\ Names(q, codes, name)

ReplyInv ==
    \A r \in RPCs :
        Reply(pc[r], request[r], index[r], response[r].entries, status[r], named[r])

\* A step of r touches no reply of another RPC.
RepliesAlone(r) ==
    \A q \in RPCs \ {r} :
        /\ pc'[q] = pc[q] /\ request'[q] = request[q] /\ index'[q] = index[q]
        /\ response'[q].entries = response[q].entries
        /\ status'[q] = status[q] /\ named'[q] = named[q]

\* There are finitely many usable items, and fewer before an earlier one.
LEMMA UsableFinite ==
    ASSUME NEW items \in Seq(Item), NEW i \in Int
    PROVE  /\ IsFiniteSet(UsableBefore(items, i))
           /\ Cardinality(UsableBefore(items, i)) \in Nat
           /\ \A n \in UsableBefore(items, i) :
                 /\ n \in 1 .. Len(items)
                 /\ Cardinality(UsableBefore(items, n)) \in Nat
                 /\ Cardinality(UsableBefore(items, n)) < Cardinality(UsableBefore(items, i))
<1>1. \A k : UsableBefore(items, k) \subseteq 1 .. Len(items)
  BY DEF UsableBefore, Usable
<1>2. IsFiniteSet(1 .. Len(items))
  BY FS_Interval
<1>3. \A k : IsFiniteSet(UsableBefore(items, k)) /\ Cardinality(UsableBefore(items, k)) \in Nat
  BY <1>1, <1>2, FS_Subset, FS_CardinalityType
<1>4. ASSUME NEW n \in UsableBefore(items, i)
      PROVE  Cardinality(UsableBefore(items, n)) < Cardinality(UsableBefore(items, i))
  <2>1. n \in Int /\ n < i
    BY <1>1 DEF UsableBefore
  <2>2. n \notin UsableBefore(items, n)
    BY <2>1 DEF UsableBefore
  <2>3. UsableBefore(items, n) \subseteq UsableBefore(items, i)
    <3>1. \A m \in UsableBefore(items, n) : m \in Int /\ m < n /\ m \in Usable(items)
      BY <1>1 DEF UsableBefore
    <3>2. \A m \in UsableBefore(items, n) : m \in Usable(items) /\ m < i
      <4> SUFFICES ASSUME NEW m \in UsableBefore(items, n) PROVE m \in Usable(items) /\ m < i
        OBVIOUS
      <4>1. m \in Int /\ m < n /\ m \in Usable(items)
        BY <3>1
      <4>2. QED
        BY <2>1, <4>1
    <3>3. QED
      BY <3>2 DEF UsableBefore
  <2>4. UsableBefore(items, n) # UsableBefore(items, i)
    BY <2>2
  <2>5. QED
    BY <1>3, <2>3, <2>4, FS_Subset
<1>5. QED
  BY <1>1, <1>3, <1>4

\* Passing an item adds it to the usable ones if it is usable, and none else.
LEMMA NextUsable ==
    ASSUME NEW items \in Seq(Item), NEW i \in DOMAIN items
    PROVE  UsableBefore(items, i + 1) =
              IF StationCode(ToObservation(items[i])) = NoError
              THEN UsableBefore(items, i) \cup {i} ELSE UsableBefore(items, i)
<1>1. \A n \in DOMAIN items : n < i + 1 <=> n < i \/ n = i
  OBVIOUS
<1>2. QED
  BY <1>1 DEF UsableBefore, Usable

\* Before the first item nothing is passed; past the last one everything is.
LEMMA UsableEnds ==
    ASSUME NEW items \in Seq(Item)
    PROVE  /\ UsableBefore(items, 1) = {}
           /\ UsableBefore(items, Len(items) + 1) = Usable(items)
<1>1. \A n \in DOMAIN items : ~(n < 1) /\ n < Len(items) + 1
  OBVIOUS
<1>2. QED
  BY <1>1 DEF UsableBefore, Usable

\* The entry of the item a loop is at goes to its place, and the entries that
\* were there stay in theirs.
LEMMA StationEntriesGrow ==
    ASSUME NEW items \in Seq(Item), NEW i \in DOMAIN items,
           NEW entries \in Seq(Entry), StationEntries(items, i, entries),
           StationCode(ToObservation(items[i])) = NoError
    PROVE  StationEntries(items, i + 1, Append(entries, StationEntry(items[i])))
<1> DEFINE entry == StationEntry(items[i])
           longer == Append(entries, entry)
<1>1. UsableBefore(items, i + 1) = UsableBefore(items, i) \cup {i}
  BY NextUsable
<1>2. /\ IsFiniteSet(UsableBefore(items, i))
      /\ Cardinality(UsableBefore(items, i)) = Len(entries)
      /\ \A n \in UsableBefore(items, i) :
            /\ n \in 1 .. Len(items)
            /\ Cardinality(UsableBefore(items, n)) \in Nat
            /\ Cardinality(UsableBefore(items, n)) < Len(entries)
            /\ entries[Cardinality(UsableBefore(items, n)) + 1] = StationEntry(items[n])
  BY UsableFinite DEF StationEntries
<1>3. i \notin UsableBefore(items, i)
  BY DEF UsableBefore
<1>4. Cardinality(UsableBefore(items, i + 1)) = Len(entries) + 1
  BY <1>1, <1>2, <1>3, FS_AddElement
<1>5. /\ Len(longer) = Len(entries) + 1
      /\ longer[Len(entries) + 1] = entry
      /\ \A n \in 1 .. Len(entries) : longer[n] = entries[n]
      /\ Len(entries) \in Nat
  <2> HIDE DEF entry
  <2>1. QED
    OBVIOUS
<1> HIDE DEF longer, entry
<1>6. \A n \in UsableBefore(items, i) :
         longer[Cardinality(UsableBefore(items, n)) + 1] = StationEntry(items[n])
  <2> TAKE n \in UsableBefore(items, i)
  <2> DEFINE rank == Cardinality(UsableBefore(items, n))
  <2>1. rank \in Nat /\ rank < Len(entries) /\ entries[rank + 1] = StationEntry(items[n])
    BY <1>2
  <2> HIDE DEF rank
  <2>2. rank + 1 \in 1 .. Len(entries)
    BY <1>5, <2>1
  <2>3. longer[rank + 1] = entries[rank + 1]
    BY <1>5, <2>2
  <2>4. QED
    BY <2>1, <2>3 DEF rank
<1>7. longer[Cardinality(UsableBefore(items, i)) + 1] = StationEntry(items[i])
  BY <1>2, <1>5 DEF entry
<1>8. StationEntries(items, i + 1, longer)
  BY <1>1, <1>4, <1>5, <1>6, <1>7 DEF StationEntries
<1>9. QED
  BY <1>8 DEF longer, entry

\* The entry of a station with or without a correction follows those before it.
LEMMA CorrectionEntriesGrow ==
    ASSUME NEW items \in Seq(Item), NEW i \in DOMAIN items,
           NEW entries \in Seq(Entry), CorrectionEntries(items, i, entries),
           NEW entry, entry.station = items[i].station,
           entry.exists <=> HasCorrection(items[i].station),
           entry.exists => entry.value = StationCorrection[items[i].station]
    PROVE  CorrectionEntries(items, i + 1, Append(entries, entry))
<1> DEFINE longer == Append(entries, entry)
<1>1. /\ Len(longer) = i
      /\ longer[i] = entry
      /\ \A n \in 1 .. i - 1 : longer[n] = entries[n]
  BY DEF CorrectionEntries
<1>2. \A n \in 1 .. (i + 1) - 1 : n \in 1 .. i - 1 \/ n = i
  OBVIOUS
<1> HIDE DEF longer
<1>3. CorrectionEntries(items, i + 1, longer)
  BY <1>1, <1>2 DEF CorrectionEntries
<1>4. QED
  BY <1>3 DEF longer

\* Before the first call nothing is replied.
LEMMA ReplyInit == Init => ReplyInv
<1> SUFFICES ASSUME Init, NEW r \in RPCs
             PROVE  Reply(pc[r], request[r], index[r], response[r].entries,
                          status[r], named[r])
  BY DEF ReplyInv
<1>1. /\ pc[r] = "absent" /\ index[r] = 1 /\ status[r] = <<>> /\ named[r] = <<>>
      /\ response[r].entries = <<>>
  BY DEF Init, EmptyResponse
<1>2. QED
  BY <1>1 DEF Reply, Early

\* What one step does to its RPC is all there is to show.
LEMMA OneReply ==
    ASSUME ReplyInv, NEW r \in RPCs, RepliesAlone(r),
           Reply(pc'[r], request'[r], index'[r], response'[r].entries, status'[r], named'[r])
    PROVE  ReplyInv'
<1>1. ASSUME NEW q \in RPCs
      PROVE  Reply(pc'[q], request'[q], index'[q], response'[q].entries, status'[q], named'[q])
  <2>1. CASE q = r
    BY <2>1
  <2>2. CASE q # r
    BY <2>2 DEF ReplyInv, RepliesAlone
  <2>3. QED
    BY <2>1, <2>2
<1>2. QED
  BY <1>1 DEF ReplyInv

\* A handler that finishes has replied to everything if it finishes with
\* success, and has nothing to name or names the malformed item it met.
LEMMA FinishReply ==
    ASSUME TypeInv, StatusInv, ReplyInv, NEW r \in RPCs, ~Over(r),
           NEW code, FinishWith(r, code),
           code = "OK" => Replied(request[r], Len(request[r].items) + 1, response'[r].entries),
           named'[r] # <<>> => Names(request[r], <<code>>, named'[r]),
           UNCHANGED <<request, index>>,
           \A q \in RPCs \ {r} :
              response'[q].entries = response[q].entries /\ named'[q] = named[q]
    PROVE  ReplyInv'
<1>1. status[r] = <<>>
  BY DEF StatusInv
<1>2. status' = [status EXCEPT ![r] = <<code>>] /\ pc' = [pc EXCEPT ![r] = "constructed"]
  BY <1>1 DEF FinishWith, GoTo
<1>3. status'[r] = <<code>> /\ pc'[r] = "constructed" /\ RepliesAlone(r)
  BY <1>2 DEF TypeInv, TypeOK, RepliesAlone
<1>4. status'[r] = <<"OK">> => code = "OK"
  BY <1>3
<1>5. Reply(pc'[r], request'[r], index'[r], response'[r].entries, status'[r], named'[r])
  BY <1>3, <1>4 DEF Reply, Early, Ended
<1>6. QED
  BY <1>3, <1>5, OneReply

\* An RPC that is not over names nothing.
LEMMA NothingNamed ==
    ASSUME ReplyInv, NEW r \in RPCs, ~Over(r)
    PROVE  named[r] = <<>>
BY DEF ReplyInv, Reply, Ended, Over

\* An error that names nothing replies nothing.
LEMMA ErrorReply ==
    ASSUME TypeInv, StatusInv, ReplyInv, NEW r \in RPCs, ~Over(r),
           NEW code, FinishWith(r, code), code # "OK",
           UNCHANGED <<request, index, response, named>>
    PROVE  ReplyInv'
BY NothingNamed, FinishReply

\* A handler that goes on, with the reply it has, replies later.
LEMMA MoveReply ==
    ASSUME TypeInv, ReplyInv, NEW r \in RPCs, NEW label, GoTo(r, label),
           UNCHANGED <<request, index, response, status, named>>,
           label \in Early => index[r] = 1 /\ response[r].entries = <<>>,
           label = "items" =>
              /\ index[r] <= Len(request[r].items) + 1
              /\ SoundBefore(request[r].items, index[r])
              /\ Replied(request[r], index[r], response[r].entries),
           label = "compute" => request[r].route = Network,
           label \in Ended \/ named[r] = <<>>
    PROVE  ReplyInv'
<1>1. pc'[r] = label /\ RepliesAlone(r)
  BY DEF TypeInv, TypeOK, GoTo, RepliesAlone
<1>2. Reply(pc'[r], request'[r], index'[r], response'[r].entries, status'[r], named'[r])
  BY <1>1 DEF ReplyInv, Reply
<1>3. QED
  BY <1>1, <1>2, OneReply

\* A malformed item is named with what the loop has passed.
LEMMA MalformedReply ==
    ASSUME TypeInv, StatusInv, ReplyInv, NEW r \in RPCs, pc[r] = "items",
           index[r] \in DOMAIN Items(r), CurrentItem(r).malformed, ClientError(r),
           NEW number,
           number = IF request[r].route = Network THEN index[r] - 1
                    ELSE Cardinality(UsableBefore(Items(r), index[r])) + 1,
           named' = [named EXCEPT ![r] = <<number>>],
           UNCHANGED <<request, index, response>>
    PROVE  ReplyInv'
<1>1. ~Over(r) /\ FinishWith(r, "INVALID_ARGUMENT")
  BY DEF Over, ClientError
<1>2. /\ named'[r] = <<number>>
      /\ \A q \in RPCs \ {r} : named'[q] = named[q]
  BY DEF TypeInv, TypeOK
<1>3. SoundBefore(request[r].items, index[r])
  BY DEF ReplyInv, Reply
<1>4. Names(request[r], <<"INVALID_ARGUMENT">>, named'[r])
  <2>1. /\ index[r] \in DOMAIN request[r].items
        /\ request[r].items[index[r]].malformed
    BY DEF Items, CurrentItem
  <2>2. named'[r] = IF request[r].route = Network THEN <<index[r] - 1>>
                    ELSE <<Cardinality(UsableBefore(request[r].items, index[r])) + 1>>
    BY <1>2 DEF Items
  <2>3. QED
    BY <1>3, <2>1, <2>2 DEF Names
<1>5. "INVALID_ARGUMENT" # "OK"
  OBVIOUS
<1>6. QED
  BY <1>1, <1>2, <1>4, <1>5, FinishReply

\* A well formed item is passed with the reply it gets.
LEMMA PassedReply ==
    ASSUME TypeInv, ReplyInv, NEW r \in RPCs, pc[r] = "items",
           index[r] \in DOMAIN Items(r), ~CurrentItem(r).malformed,
           StatusInv, Replied(request[r], index[r] + 1, response'[r].entries),
           index' = [index EXCEPT ![r] = @ + 1],
           UNCHANGED <<pc, request, status, named>>,
           \A q \in RPCs \ {r} : response'[q].entries = response[q].entries
    PROVE  ReplyInv'
<1>1. index'[r] = index[r] + 1 /\ RepliesAlone(r)
  BY DEF TypeInv, TypeOK, RepliesAlone
<1>2. /\ Items(r) \in Seq(Item) /\ index[r] \in Nat \ {0}
      /\ SoundBefore(request[r].items, index[r])
  BY ItemsType DEF TypeInv, TypeOK, ReplyInv, Reply
<1>3. SoundBefore(request[r].items, index[r] + 1)
  <2>1. \A m \in 1 .. (index[r] + 1) - 1 : m \in 1 .. index[r] - 1 \/ m = index[r]
    BY <1>2
  <2>2. QED
    BY <1>2, <2>1 DEF SoundBefore, CurrentItem, Items
<1>4. index[r] + 1 <= Len(request[r].items) + 1
  BY <1>2 DEF Items
<1>5. status[r] = <<>> /\ named[r] = <<>>
  BY NothingNamed DEF StatusInv, Over
<1>6. pc'[r] = "items" /\ status'[r] = <<>> /\ named'[r] = <<>> /\ request'[r] = request[r]
  BY <1>5
<1>7. Reply(pc'[r], request'[r], index'[r], response'[r].entries, status'[r], named'[r])
  BY <1>1, <1>3, <1>4, <1>6 DEF Reply, Early
<1>8. QED
  BY <1>1, <1>7, OneReply

\* The entry a loop adds is the last of its own response.
LEMMA EntryAdded ==
    ASSUME TypeInv, NEW r \in RPCs, NEW entry, AddEntry(r, entry)
    PROVE  /\ response'[r].entries = Append(response[r].entries, entry)
           /\ \A q \in RPCs \ {r} : response'[q].entries = response[q].entries
BY DEF TypeInv, TypeOK, ResponseType, AddEntry, WithEntry

\* The loop index of a loop that goes on is the number of an item.
LEMMA AtAnItem ==
    ASSUME TypeInv, NEW r \in RPCs, index[r] <= Len(Items(r))
    PROVE  /\ Items(r) \in Seq(Item) /\ index[r] \in DOMAIN Items(r)
           /\ response[r].entries \in Seq(Entry)
<1>1. Items(r) \in Seq(Item)
  BY ItemsType DEF TypeInv
<1>2. QED
  BY <1>1 DEF TypeInv, TypeOK, ResponseType

\* The network route's loop packs what it does not name.
LEMMA PackReply ==
    ASSUME TypeInv, StatusInv, AnswerInv, ReplyInv, NEW r \in RPCs, PackObservation(r)
    PROVE  ReplyInv'
<1>1. /\ pc[r] = "items" /\ request[r].route = Network /\ index[r] <= Len(Items(r))
      /\ UNCHANGED <<request, response>>
  BY DEF PackObservation, At
<1>2. index[r] \in DOMAIN Items(r)
  BY <1>1, AtAnItem
<1>3. CASE CurrentItem(r).malformed
  <2>1. /\ ClientError(r) /\ UNCHANGED index
        /\ named' = [named EXCEPT ![r] = <<Len(observations[r])>>]
    BY <1>3 DEF PackObservation
  <2>2. Len(observations[r]) = index[r] - 1
    <3>1. index[r] = Len(observations[r]) + 1 /\ Len(observations[r]) \in Nat
      BY <1>1 DEF AnswerInv, Answer, TypeInv, TypeOK
    <3>2. QED
      BY <3>1
  <2>3. QED
    BY <1>1, <1>2, <1>3, <2>1, <2>2, MalformedReply
<1>4. CASE ~CurrentItem(r).malformed
  <2>1. index' = [index EXCEPT ![r] = @ + 1] /\ UNCHANGED <<pc, status, named>>
    BY <1>4 DEF PackObservation
  <2>2. Replied(request[r], index[r] + 1, response'[r].entries)
    BY <1>1 DEF Replied, Network, Station, Corrections
  <2>3. QED
    BY <1>1, <1>2, <1>4, <2>1, <2>2, PassedReply
<1>5. QED
  BY <1>3, <1>4

\* The station route's loop adds the magnitude it could compute.
LEMMA StationReply ==
    ASSUME TypeInv, StatusInv, ReplyInv, NEW r \in RPCs, ComputeStationMagnitude(r)
    PROVE  ReplyInv'
<1> DEFINE items == request[r].items
           i == index[r]
           entries == response[r].entries
           item == CurrentItem(r)
<1>1. /\ pc[r] = "items" /\ request[r].route = Station /\ i <= Len(Items(r))
      /\ UNCHANGED request
  BY DEF ComputeStationMagnitude, At
<1>2. items \in Seq(Item) /\ i \in DOMAIN items /\ entries \in Seq(Entry) /\ item = items[i]
  BY <1>1, AtAnItem DEF Items, CurrentItem
<1>3. StationEntries(items, i, entries) /\ request[r].route \notin {Network, Corrections}
  BY <1>1 DEF ReplyInv, Reply, Replied, Network, Station, Corrections
<1>4. CASE item.malformed
  <2>1. /\ ClientError(r) /\ UNCHANGED <<index, response>>
        /\ named' = [named EXCEPT ![r] = <<Len(response[r].entries) + 1>>]
    BY <1>4 DEF ComputeStationMagnitude
  <2>2. Len(entries) + 1 = Cardinality(UsableBefore(Items(r), i)) + 1
    BY <1>3 DEF StationEntries, Items
  <2>3. QED
    BY <1>1, <1>2, <1>3, <1>4, <2>1, <2>2, MalformedReply DEF Items
<1>5. CASE ~item.malformed
  <2>1. index' = [index EXCEPT ![r] = @ + 1] /\ UNCHANGED <<pc, status, named>>
    BY <1>5 DEF ComputeStationMagnitude
  <2>2. /\ StationEntries(items, i + 1, response'[r].entries)
        /\ \A q \in RPCs \ {r} : response'[q].entries = response[q].entries
    <3>1. CASE StationCode(ToObservation(item)) = NoError
      <4>1. AddEntry(r, StationEntry(items[i]))
        BY <1>2, <1>5, <3>1 DEF ComputeStationMagnitude, StationEntry
      <4>2. StationEntries(items, i + 1, Append(entries, StationEntry(items[i])))
        BY <1>2, <1>3, <3>1, StationEntriesGrow
      <4>3. QED
        BY <4>1, <4>2, EntryAdded
    <3>2. CASE StationCode(ToObservation(item)) # NoError
      <4>1. UNCHANGED response
        BY <1>5, <3>2 DEF ComputeStationMagnitude
      <4>2. UsableBefore(items, i + 1) = UsableBefore(items, i)
        BY <1>2, <3>2, NextUsable
      <4>3. QED
        BY <1>3, <4>1, <4>2 DEF StationEntries
    <3>3. QED
      BY <3>1, <3>2
  <2>3. Replied(request[r], index[r] + 1, response'[r].entries)
    BY <1>3, <2>2 DEF Replied
  <2>4. QED
    BY <1>1, <1>2, <1>5, <2>1, <2>2, <2>3, PassedReply DEF Items
<1>6. QED
  BY <1>4, <1>5

\* The corrections route's loop adds an entry in any case.
LEMMA CorrectionReply ==
    ASSUME TypeInv, StatusInv, ReplyInv, NEW r \in RPCs, LookUpCorrection(r)
    PROVE  ReplyInv'
<1> DEFINE items == request[r].items
           i == index[r]
           entries == response[r].entries
           item == CurrentItem(r)
<1>1. /\ pc[r] = "items" /\ request[r].route = Corrections /\ i <= Len(Items(r))
      /\ UNCHANGED <<request, named>>
  BY DEF LookUpCorrection, At
<1>2. items \in Seq(Item) /\ i \in DOMAIN items /\ entries \in Seq(Entry) /\ item = items[i]
  BY <1>1, AtAnItem DEF Items, CurrentItem
<1>3. CorrectionEntries(items, i, entries) /\ request[r].route # Station
  BY <1>1 DEF ReplyInv, Reply, Replied, Station, Corrections
<1>4. CASE item.malformed
  <2>1. FinishWith(r, "INVALID_ARGUMENT") /\ UNCHANGED <<index, response>>
    BY <1>4 DEF LookUpCorrection, ClientError
  <2>2. ~Over(r)
    BY <1>1 DEF Over
  <2>3. QED
    BY <1>1, <2>1, <2>2, ErrorReply
<1>5. CASE ~item.malformed
  <2> DEFINE exists == HasCorrection(item.station)
             entry == [station |-> item.station, exists |-> exists,
                       value |-> IF exists THEN StationCorrection[item.station] ELSE 0]
  <2>1. /\ index' = [index EXCEPT ![r] = @ + 1] /\ UNCHANGED <<pc, status, named>>
        /\ AddEntry(r, entry)
    BY <1>1, <1>5 DEF LookUpCorrection
  <2>2. /\ entry.station = items[i].station
        /\ entry.exists <=> HasCorrection(items[i].station)
        /\ entry.exists => entry.value = StationCorrection[items[i].station]
    BY <1>2
  <2> HIDE DEF entry
  <2>3. /\ CorrectionEntries(items, i + 1, response'[r].entries)
        /\ \A q \in RPCs \ {r} : response'[q].entries = response[q].entries
    <3>1. CorrectionEntries(items, i + 1, Append(entries, entry))
      <4> HIDE DEF items, i, entries, item, exists
      <4>1. QED
        BY <1>2, <1>3, <2>2, CorrectionEntriesGrow
    <3>2. QED
      BY <2>1, <3>1, EntryAdded
  <2>4. Replied(request[r], index[r] + 1, response'[r].entries)
    BY <1>3, <2>3 DEF Replied
  <2>5. QED
    BY <1>1, <1>2, <1>5, <2>1, <2>3, <2>4, PassedReply DEF Items
<1>6. QED
  BY <1>4, <1>5

\* A loop that is past its last item has replied to all.
LEMMA EndReply ==
    ASSUME TypeInv, StatusInv, ReplyInv, NEW r \in RPCs, FinishItems(r)
    PROVE  ReplyInv'
<1>1. /\ pc[r] = "items" /\ ~Over(r) /\ index[r] > Len(Items(r)) /\ FinishWith(r, "OK")
      /\ UNCHANGED <<request, index, response, named>>
  BY DEF FinishItems, At, Over, Succeed
<1>2. index[r] <= Len(request[r].items) + 1 /\ Replied(request[r], index[r], response[r].entries)
  BY <1>1 DEF ReplyInv, Reply
<1>3. index[r] = Len(request[r].items) + 1
  <2>1. Items(r) \in Seq(Item) /\ index[r] \in Nat
    BY ItemsType DEF TypeInv, TypeOK
  <2>2. QED
    BY <1>1, <1>2, <2>1 DEF Items
<1>4. QED
  BY <1>1, <1>2, <1>3, NothingNamed, FinishReply

\* No step of any handler breaks the inductive invariant.
LEMMA HandleReply ==
    ASSUME TypeInv, StatusInv, AnswerInv, ReplyInv, NEW r \in RPCs, Handle(r)
    PROVE  ReplyInv'
<1>1. CASE Unimplemented(r)
  <2>1. ~Over(r) /\ FinishWith(r, "UNIMPLEMENTED")
        /\ UNCHANGED <<request, index, response, named>>
    BY <1>1 DEF Unimplemented, At, Over
  <2>2. QED
    BY <2>1, ErrorReply
<1> DEFINE start == /\ index[r] = 1 /\ response[r].entries = <<>>
           open == /\ index[r] <= Len(request[r].items) + 1
                   /\ SoundBefore(request[r].items, index[r])
                   /\ Replied(request[r], index[r], response[r].entries)
<1>2. start => open
  <2> SUFFICES ASSUME start PROVE open
    OBVIOUS
  <2>1. request[r].items \in Seq(Item)
    BY ItemsType DEF TypeInv, Items
  <2>2. SoundBefore(request[r].items, 1)
    BY DEF SoundBefore
  <2>3. StationEntries(request[r].items, 1, <<>>)
    BY <2>1, UsableEnds, FS_EmptySet DEF StationEntries
  <2>4. CorrectionEntries(request[r].items, 1, <<>>)
    BY DEF CorrectionEntries
  <2>5. Len(request[r].items) \in Nat
    BY <2>1
  <2>6. QED
    BY <2>2, <2>3, <2>4, <2>5 DEF Replied
<1> HIDE DEF start, open
<1>3. pc[r] \in {"authenticate", "hypocenter"} => start
  BY DEF ReplyInv, Reply, Early, start
<1>4. ASSUME pc[r] \in {"authenticate", "hypocenter"}, NEW label \in {"hypocenter", "items"},
             GoTo(r, label), UNCHANGED <<request, index, response, status, named>>
      PROVE  ReplyInv'
  <2>1. start /\ open /\ named[r] = <<>>
    BY <1>2, <1>3, <1>4, NothingNamed DEF Over
  <2>2. label # "compute" /\ (label \in Early => start) /\ (label = "items" => open)
    BY <2>1
  <2>3. QED
    BY <1>4, <2>1, <2>2, MoveReply DEF start, open
<1>5. CASE Authenticate(r)
  <2>1. /\ pc[r] = "authenticate" /\ ~Over(r)
        /\ UNCHANGED <<request, index, response, named>>
    BY <1>5 DEF Authenticate, At, Over
  <2>2. CASE Authorized(r)
    BY <1>4, <1>5, <2>1, <2>2 DEF Authenticate
  <2>3. CASE ~Authorized(r)
    <3>1. FinishWith(r, "UNAUTHENTICATED")
      BY <1>5, <2>3 DEF Authenticate
    <3>2. QED
      BY <2>1, <3>1, ErrorReply
  <2>4. QED
    BY <2>2, <2>3
<1>6. ASSUME pc[r] \in Handling, ClientError(r) \/ ServerError(r),
             UNCHANGED <<request, index, response, named>>
      PROVE  ReplyInv'
  <2>1. ~Over(r)
    BY <1>6 DEF Over, Handling
  <2>2. PICK code : FinishWith(r, code) /\ code # "OK"
    BY <1>6 DEF ClientError, ServerError
  <2>3. QED
    BY <1>6, <2>1, <2>2, ErrorReply
<1>7. CASE CheckHypocenter(r)
  <2>1. pc[r] = "hypocenter" /\ UNCHANGED <<request, index, response, named>>
    BY <1>7 DEF CheckHypocenter, At
  <2>2. CASE GoTo(r, "items") /\ UNCHANGED <<status, mCounters>>
    BY <1>4, <2>1, <2>2
  <2>3. CASE ClientError(r)
    BY <1>6, <2>1, <2>3 DEF Handling
  <2>4. QED
    BY <1>7, <2>2, <2>3 DEF CheckHypocenter
<1>8. CASE CheckObservations(r)
  <2>1. /\ pc[r] = "items" /\ request[r].route = Network
        /\ UNCHANGED <<request, index, response, named>>
    BY <1>8 DEF CheckObservations, At
  <2>2. CASE GoTo(r, "compute") /\ UNCHANGED <<status, mCounters>>
    <3>1. named[r] = <<>>
      BY <2>1, NothingNamed DEF Over
    <3>2. "compute" \notin Early /\ "compute" # "items"
      BY DEF Early
    <3>3. QED
      BY <2>1, <2>2, <3>1, <3>2, MoveReply
  <2>3. CASE ClientError(r)
    BY <1>6, <2>1, <2>3 DEF Handling
  <2>4. QED
    BY <1>8, <2>2, <2>3 DEF CheckObservations
<1>9. CASE ComputeNetworkMagnitude(r)
  <2> DEFINE result == NetworkResult(observations[r])
  <2>1. /\ pc[r] = "compute" /\ ~Over(r) /\ request[r].route = Network
        /\ UNCHANGED <<request, index, named>>
    BY <1>9 DEF ComputeNetworkMagnitude, At, Over, ReplyInv, Reply
  <2>2. CASE result.error = NoError
    <3> DEFINE message == NetworkMessage(result)
    <3>1. /\ response' = [response EXCEPT ![r] = [@ EXCEPT !.network = message]]
          /\ FinishWith(r, "OK")
      BY <1>9, <2>2 DEF ComputeNetworkMagnitude, Succeed
    <3> HIDE DEF message
    <3>2. \A q \in RPCs \ {r} : response'[q].entries = response[q].entries
      BY <3>1 DEF TypeInv, TypeOK
    <3>3. Replied(request[r], Len(request[r].items) + 1, response'[r].entries)
      BY <2>1 DEF Replied, Network, Station, Corrections
    <3>4. QED
      BY <2>1, <3>1, <3>2, <3>3, NothingNamed, FinishReply
  <2>3. CASE result.error # NoError
    <3>1. (ClientError(r) \/ ServerError(r)) /\ UNCHANGED response
      BY <1>9, <2>3 DEF ComputeNetworkMagnitude
    <3>2. QED
      BY <1>6, <2>1, <3>1 DEF Handling
  <2>4. QED
    BY <2>2, <2>3
<1>10. CASE CatchException(r)
  <2>1. /\ pc[r] \in Handling /\ ServerError(r)
        /\ UNCHANGED <<request, index, response, named>>
    BY <1>10 DEF CatchException, Handling
  <2>2. QED
    BY <1>6, <2>1
<1>11. QED
  BY <1>1, <1>5, <1>7, <1>8, <1>9, <1>10, PackReply, StationReply, CorrectionReply, EndReply
  DEF Handle

\* No step of any RPC breaks the inductive invariant.
LEMMA ReplyNext ==
    TypeInv /\ StatusInv /\ AnswerInv /\ ReplyInv /\ [Next]_vars => ReplyInv'
<1> SUFFICES ASSUME TypeInv, StatusInv, AnswerInv, ReplyInv, [Next]_vars PROVE ReplyInv'
  OBVIOUS
<1>1. ASSUME NEW r \in RPCs, Arrive(r) PROVE ReplyInv'
  <2>1. PICK q \in Requests :
           /\ request' = [request EXCEPT ![r] = q]
           /\ GoTo(r, IF q.route \in Implemented THEN "authenticate" ELSE "unimplemented")
    BY <1>1 DEF Arrive
  <2>2. pc[r] = "absent" /\ UNCHANGED <<index, response, status, named>>
    BY <1>1 DEF Arrive, At
  <2>3. /\ index[r] = 1 /\ response[r].entries = <<>> /\ status[r] = <<>> /\ named[r] = <<>>
    BY <2>2, NothingNamed DEF ReplyInv, Reply, Early, StatusInv, Over
  <2>4. RepliesAlone(r) /\ pc'[r] \in {"authenticate", "unimplemented"}
    BY <2>1, <2>2 DEF GoTo, TypeInv, TypeOK, RepliesAlone
  <2>5. /\ index'[r] = 1 /\ response'[r].entries = <<>> /\ status'[r] = <<>>
        /\ named'[r] = <<>>
    BY <2>2, <2>3
  <2>6. Reply(pc'[r], request'[r], index'[r], response'[r].entries, status'[r], named'[r])
    BY <2>4, <2>5 DEF Reply, Early
  <2>7. QED
    BY <2>4, <2>6, OneReply
<1>2. ASSUME NEW r \in RPCs, Bind(r) \/ OnDone(r) PROVE ReplyInv'
  <2>1. PICK label \in {"bound", "deleted"} : GoTo(r, label)
    BY <1>2 DEF Bind, OnDone
  <2>2. UNCHANGED <<request, index, response, status, named>>
    BY <1>2 DEF Bind, OnDone, reactorVars
  <2>3. label \notin Early /\ label # "items" /\ label # "compute" /\ label \in Ended
    BY DEF Early, Ended
  <2>4. QED
    BY <2>1, <2>2, <2>3, MoveReply
<1>3. ASSUME UNCHANGED <<pc, request, index, response, status, named>> PROVE ReplyInv'
  BY <1>3 DEF ReplyInv
<1>4. QED
  BY <1>1, <1>2, <1>3, HandleReply DEF Next, Cancel, OnCancel, Tick, vars, reactorVars

\* However RPCs interleave, the station route answers with the magnitudes of the
\* measurements it could compute and the corrections route with an entry for
\* each identifier, each in its place.
THEOREM EntriesAreTheRequests == Spec => []EntriesFollowRequest
<1>1. TypeInv /\ ReplyInv => EntriesFollowRequest
  <2> SUFFICES ASSUME TypeInv, ReplyInv, NEW r \in RPCs, status[r] = <<"OK">>
               PROVE  LET entries == response[r].entries
                          items == Items(r)
                      IN  /\ request[r].route = Station =>
                                /\ Len(entries) = Cardinality(Usable(items))
                                /\ \A n \in Usable(items) :
                                      entries[Cardinality(UsableBefore(items, n)) + 1]
                                          = StationEntry(items[n])
                          /\ request[r].route = Corrections =>
                                /\ Len(entries) = Len(items)
                                /\ \A n \in DOMAIN items :
                                      /\ entries[n].station = items[n].station
                                      /\ entries[n].exists <=> HasCorrection(items[n].station)
                                      /\ entries[n].exists =>
                                            entries[n].value = StationCorrection[items[n].station]
    BY DEF EntriesFollowRequest
  <2>1. Replied(request[r], Len(Items(r)) + 1, response[r].entries)
    BY DEF ReplyInv, Reply, Items
  <2>2. Items(r) \in Seq(Item)
    BY ItemsType DEF TypeInv
  <2>3. ASSUME request[r].route = Station
        PROVE  /\ Len(response[r].entries) = Cardinality(Usable(Items(r)))
               /\ \A n \in Usable(Items(r)) :
                     response[r].entries[Cardinality(UsableBefore(Items(r), n)) + 1]
                         = StationEntry(Items(r)[n])
    <3>1. StationEntries(Items(r), Len(Items(r)) + 1, response[r].entries)
      BY <2>1, <2>3 DEF Replied, Items
    <3>2. UsableBefore(Items(r), Len(Items(r)) + 1) = Usable(Items(r))
      BY <2>2, UsableEnds
    <3>3. QED
      BY <3>1, <3>2 DEF StationEntries
  <2>4. ASSUME request[r].route = Corrections
        PROVE  CorrectionEntries(Items(r), Len(Items(r)) + 1, response[r].entries)
    BY <2>1, <2>4 DEF Replied, Items
  <2>5. (Len(Items(r)) + 1) - 1 = Len(Items(r)) /\ DOMAIN Items(r) = 1 .. Len(Items(r))
    BY <2>2
  <2>6. QED
    BY <2>3, <2>4, <2>5 DEF CorrectionEntries
<1>2. QED
  BY <1>1, TypeInit, TypeNext, StatusInit, StatusNext, AnswerInit, AnswerNext, ReplyInit,
     ReplyNext, PTL DEF Spec

\* However RPCs interleave, the error message about a malformed measurement is about the
\* first one of its own request: the network route says how many come before it, the
\* station route which it is when all of those before it have a station magnitude.
THEOREM MalformedNamed == Spec => []MalformedIsNamed
<1>1. TypeInv /\ ReplyInv => MalformedIsNamed
  <2> SUFFICES ASSUME TypeInv, ReplyInv, NEW r \in RPCs, named[r] # <<>>
               PROVE  \E n \in DOMAIN Items(r) :
                         /\ Items(r)[n].malformed
                         /\ \A m \in 1 .. n - 1 : ~Items(r)[m].malformed
                         /\ status[r] = <<"INVALID_ARGUMENT">>
                         /\ request[r].route = Network => named[r] = <<n - 1>>
                         /\ request[r].route = Station
                               /\ 1 .. n - 1 \subseteq Usable(Items(r)) => named[r] = <<n>>
    BY DEF MalformedIsNamed
  <2>1. Names(request[r], status[r], named[r])
    BY DEF ReplyInv, Reply
  <2>2. Items(r) \in Seq(Item)
    BY ItemsType DEF TypeInv
  <2>3. PICK n \in DOMAIN Items(r) :
           /\ Items(r)[n].malformed
           /\ SoundBefore(Items(r), n)
           /\ status[r] = <<"INVALID_ARGUMENT">>
           /\ named[r] = IF request[r].route = Network THEN <<n - 1>>
                         ELSE <<Cardinality(UsableBefore(Items(r), n)) + 1>>
    BY <2>1 DEF Names, Items
  <2>4. ASSUME request[r].route = Station, 1 .. n - 1 \subseteq Usable(Items(r))
        PROVE  named[r] = <<n>>
    <3>1. n \in Nat \ {0} /\ Usable(Items(r)) \subseteq 1 .. Len(Items(r))
      BY <2>2 DEF Usable
    <3>2. UsableBefore(Items(r), n) = 1 .. n - 1
      BY <2>2, <2>4, <3>1 DEF UsableBefore
    <3>3. Cardinality(1 .. n - 1) = n - 1
      BY <3>1, FS_Interval
    <3>4. request[r].route # Network
      BY <2>4 DEF Station, Network
    <3>5. named[r] = <<Cardinality(1 .. n - 1) + 1>>
      BY <2>3, <3>2, <3>4
    <3>6. QED
      BY <3>1, <3>3, <3>5
  <2>5. QED
    BY <2>3, <2>4 DEF SoundBefore
<1>2. QED
  BY <1>1, TypeInit, TypeNext, StatusInit, StatusNext, AnswerInit, AnswerNext, ReplyInit,
     ReplyNext, PTL DEF Spec

-----------------------------------------------------------------------------

(***************************************************************************)
(* Why a handler ends.  That gRPC lets it run is fairness and stays with    *)
(* the model checker; that it cannot run for ever is a count that falls.   *)
(***************************************************************************)

\* At most how many steps a handler has still to take.
Remaining(r) ==
    LET left == Len(Items(r)) + 1 - index[r]
    IN  CASE pc[r] = "authenticate" -> left + 4
          [] pc[r] = "hypocenter" -> left + 3
          [] pc[r] = "items" -> left + 2
          [] pc[r] \in {"compute", "unimplemented"} -> 1
          [] OTHER -> 0

\* Every step of a handler brings its end nearer, no other step but the arrival of
\* its call puts it off, and a handler with no step left has called Finish.
HandlersAdvance ==
    \A r \in RPCs :
        /\ Remaining(r) = 0 => Over(r) \/ pc[r] = "absent"
        /\ Handle(r) => Remaining(r)' < Remaining(r)
        /\ ~Arrive(r) => Remaining(r)' \in 0 .. Remaining(r)

\* The count is of a handler that runs, and is 0 only if none does.
LEMMA RemainingCount ==
    ASSUME TypeInv, ReplyInv, NEW r \in RPCs
    PROVE  /\ Remaining(r) \in Nat
           /\ Remaining(r) = 0 => Over(r) \/ pc[r] = "absent"
<1> DEFINE left == Len(Items(r)) + 1 - index[r]
<1>1. Len(Items(r)) \in Nat /\ index[r] \in Nat
  BY ItemsType DEF TypeInv, TypeOK
<1>2. pc[r] \in {"authenticate", "hypocenter", "items"} => left \in Nat
  BY <1>1 DEF ReplyInv, Reply, Early, Items
<1>3. pc[r] \in Labels
  BY DEF TypeInv, TypeOK
<1> HIDE DEF left
<1>4. QED
  BY <1>2, <1>3 DEF Remaining, Labels, Over, left

\* A handler that finishes has no step left.
LEMMA FinishedCount ==
    ASSUME TypeInv, NEW r \in RPCs, NEW code, FinishWith(r, code)
    PROVE  Remaining(r)' = 0
<1>1. pc'[r] = "constructed"
  BY DEF FinishWith, GoTo, TypeInv, TypeOK
<1>2. QED
  BY <1>1 DEF Remaining

\* One step of a handler brings its end nearer.
LEMMA HandleCount ==
    ASSUME TypeInv, ReplyInv, NEW r \in RPCs, Handle(r)
    PROVE  Remaining(r)' < Remaining(r)
<1> DEFINE left == Len(Items(r)) + 1 - index[r]
<1>1. Len(Items(r)) \in Nat /\ index[r] \in Nat /\ pc[r] \in Labels
  BY ItemsType DEF TypeInv, TypeOK
<1>2. Remaining(r) \in Nat /\ ~Over(r) /\ pc[r] # "absent"
  BY RemainingCount, HandleEffect DEF Works, Finishes, Handling, Over
<1>3. UNCHANGED request
  BY HandleEffect
<1>4. CASE \E code : FinishWith(r, code)
  <2>1. Remaining(r)' = 0
    BY <1>4, FinishedCount
  <2>2. Remaining(r) # 0
    BY <1>2, RemainingCount
  <2>3. QED
    BY <1>2, <2>1, <2>2
<1>5. ASSUME pc[r] \in {"authenticate", "hypocenter"}, NEW label \in {"hypocenter", "items"},
             GoTo(r, label), ~(label = "hypocenter" /\ pc[r] = "hypocenter"), UNCHANGED index
      PROVE  Remaining(r)' < Remaining(r)
  <2>1. pc'[r] = label /\ index'[r] = index[r] /\ Items(r)' = Items(r)
    BY <1>3, <1>5 DEF GoTo, TypeInv, TypeOK, Items
  <2>2. left \in Int
    BY <1>1
  <2> HIDE DEF left
  <2>3. Remaining(r) = IF pc[r] = "authenticate" THEN left + 4 ELSE left + 3
    BY <1>5 DEF Remaining, left
  <2>4. Remaining(r)' = IF label = "hypocenter" THEN left + 3 ELSE left + 2
    BY <1>5, <2>1 DEF Remaining, left
  <2>5. QED
    BY <1>5, <2>2, <2>3, <2>4
<1>6. ASSUME pc[r] = "items", UNCHANGED pc, index' = [index EXCEPT ![r] = @ + 1]
      PROVE  Remaining(r)' < Remaining(r)
  <2>1. pc'[r] = "items" /\ index'[r] = index[r] + 1 /\ Items(r)' = Items(r)
    BY <1>3, <1>6 DEF TypeInv, TypeOK, Items
  <2>2. Remaining(r) = left + 2 /\ Remaining(r)' = Len(Items(r)) + 1 - (index[r] + 1) + 2
    BY <1>6, <2>1 DEF Remaining
  <2>3. QED
    BY <1>1, <2>2
<1>7. CASE Unimplemented(r)
  BY <1>4, <1>7 DEF Unimplemented
<1>8. CASE Authenticate(r)
  <2>1. pc[r] = "authenticate" /\ UNCHANGED index
    BY <1>8 DEF Authenticate, At
  <2>2. QED
    BY <1>4, <1>5, <1>8, <2>1 DEF Authenticate
<1>9. CASE CheckHypocenter(r)
  <2>1. pc[r] = "hypocenter" /\ UNCHANGED index
    BY <1>9 DEF CheckHypocenter, At
  <2>2. GoTo(r, "items") \/ ClientError(r)
    BY <1>9 DEF CheckHypocenter
  <2>3. QED
    BY <1>4, <1>5, <2>1, <2>2 DEF ClientError
<1>10. CASE PackObservation(r) \/ ComputeStationMagnitude(r) \/ LookUpCorrection(r)
  <2>1. pc[r] = "items"
    BY <1>10 DEF PackObservation, ComputeStationMagnitude, LookUpCorrection, At
  <2>2. CASE CurrentItem(r).malformed
    <3>1. ClientError(r)
      BY <1>10, <2>2 DEF PackObservation, ComputeStationMagnitude, LookUpCorrection
    <3>2. QED
      BY <1>4, <3>1 DEF ClientError
  <2>3. CASE ~CurrentItem(r).malformed
    <3>1. index' = [index EXCEPT ![r] = @ + 1] /\ UNCHANGED pc
      BY <1>10, <2>3 DEF PackObservation, ComputeStationMagnitude, LookUpCorrection
    <3>2. QED
      BY <1>6, <2>1, <3>1
  <2>4. QED
    BY <2>2, <2>3
<1>11. CASE CheckObservations(r)
  <2>1. pc[r] = "items"
    BY <1>11 DEF CheckObservations, At
  <2>2. CASE GoTo(r, "compute")
    <3>1. pc'[r] = "compute"
      BY <2>2 DEF GoTo, TypeInv, TypeOK
    <3>2. Remaining(r)' = 1 /\ Remaining(r) = left + 2
      BY <2>1, <3>1 DEF Remaining
    <3>3. left \in Nat
      BY <1>1, <2>1 DEF ReplyInv, Reply, Items
    <3> HIDE DEF left
    <3>4. QED
      BY <3>2, <3>3
  <2>3. CASE ClientError(r)
    BY <1>4, <2>3 DEF ClientError
  <2>4. QED
    BY <1>11, <2>2, <2>3 DEF CheckObservations
<1>12. CASE ComputeNetworkMagnitude(r)
  BY <1>4, <1>12 DEF ComputeNetworkMagnitude, Succeed, ClientError, ServerError
<1>13. CASE FinishItems(r) \/ CatchException(r)
  BY <1>4, <1>13 DEF FinishItems, CatchException, Succeed, ServerError
<1>14. QED
  BY <1>7, <1>8, <1>9, <1>10, <1>11, <1>12, <1>13 DEF Handle

\* A step of another RPC, of gRPC, of a client or of the clock leaves the count.
LEMMA OtherCount ==
    ASSUME TypeInv, ReplyInv, [Next]_vars, NEW r \in RPCs, ~Arrive(r), ~Handle(r)
    PROVE  Remaining(r)' <= Remaining(r)
<1>1. Remaining(r) \in Nat
  BY RemainingCount
<1>2. ASSUME pc'[r] = pc[r], request'[r] = request[r], index'[r] = index[r]
      PROVE  Remaining(r)' <= Remaining(r)
  <2>1. Remaining(r)' = Remaining(r)
    BY <1>2 DEF Remaining, Items
  <2>2. QED
    BY <1>1, <2>1
<1>3. ASSUME NEW q \in RPCs \ {r}, Arrive(q)
      PROVE  Remaining(r)' <= Remaining(r)
  BY <1>2, <1>3 DEF Arrive, GoTo, TypeInv, TypeOK
<1>4. ASSUME NEW q \in RPCs \ {r}, Handle(q)
      PROVE  Remaining(r)' <= Remaining(r)
  <2>1. UNCHANGED request /\ pc'[r] = pc[r]
    <3>1. Works(q) \/ Finishes(q)
      BY <1>4, HandleEffect
    <3>2. pc'[r] = pc[r]
      BY <3>1 DEF Works, Finishes, GoTo, FinishWith, Succeed, ClientError, ServerError,
                  TypeInv, TypeOK
    <3>3. QED
      BY <1>4, <3>2, HandleEffect
  <2>2. UNCHANGED index \/ index' = [index EXCEPT ![q] = @ + 1]
    BY <1>4 DEF Handle, Unimplemented, Authenticate, CheckHypocenter, PackObservation,
       CheckObservations, ComputeNetworkMagnitude, ComputeStationMagnitude,
       LookUpCorrection, FinishItems, CatchException
  <2>3. index'[r] = index[r]
    BY <2>2 DEF TypeInv, TypeOK
  <2>4. QED
    BY <1>2, <2>1, <2>3
<1>5. ASSUME NEW q \in RPCs, Bind(q) \/ OnDone(q)
      PROVE  Remaining(r)' <= Remaining(r)
  <2>1. PICK label \in {"bound", "deleted"} : GoTo(q, label)
    BY <1>5 DEF Bind, OnDone
  <2>2. UNCHANGED <<request, index>>
    BY <1>5 DEF Bind, OnDone, reactorVars
  <2>3. CASE q = r
    <3>1. pc'[r] = label
      BY <2>1, <2>3 DEF GoTo, TypeInv, TypeOK
    <3>2. Remaining(r)' = 0
      BY <3>1 DEF Remaining
    <3>3. QED
      BY <1>1, <3>2
  <2>4. CASE q # r
    <3>1. pc'[r] = pc[r]
      BY <2>1, <2>4 DEF GoTo, TypeInv, TypeOK
    <3>2. QED
      BY <1>2, <2>2, <3>1
  <2>5. QED
    BY <2>3, <2>4
<1>6. ASSUME UNCHANGED <<pc, request, index>>
      PROVE  Remaining(r)' <= Remaining(r)
  BY <1>2, <1>6
<1>7. QED
  BY <1>3, <1>4, <1>5, <1>6 DEF Next, Cancel, OnCancel, Tick, vars, reactorVars

\* Whoever else is calling, a handler ends within Len(items) + 5 of its own steps.
THEOREM HandlersEnd == Spec => [][HandlersAdvance]_vars
<1> DEFINE Counts == \A r \in RPCs : Remaining(r) \in Nat
<1>1. TypeInv /\ ReplyInv => Counts
  BY RemainingCount
<1>2. TypeInv /\ ReplyInv /\ Counts' /\ [Next]_vars => [HandlersAdvance]_vars
  <2> SUFFICES ASSUME TypeInv, ReplyInv, Counts', [Next]_vars, NEW r \in RPCs
               PROVE  /\ Remaining(r) = 0 => Over(r) \/ pc[r] = "absent"
                      /\ Handle(r) => Remaining(r)' < Remaining(r)
                      /\ ~Arrive(r) => Remaining(r)' \in 0 .. Remaining(r)
    BY DEF HandlersAdvance
  <2>1. Remaining(r) \in Nat /\ (Remaining(r) = 0 => Over(r) \/ pc[r] = "absent")
    BY RemainingCount
  <2>2. Remaining(r)' \in Nat
    OBVIOUS
  <2>3. Handle(r) => Remaining(r)' < Remaining(r)
    BY HandleCount
  <2>4. ~Arrive(r) => Remaining(r)' <= Remaining(r)
    BY <2>1, <2>2, <2>3, OtherCount
  <2>5. QED
    BY <2>1, <2>2, <2>3, <2>4
<1>3. QED
  BY <1>1, <1>2, TypeInit, TypeNext, StatusInit, StatusNext, AnswerInit, AnswerNext,
     ReplyInit, ReplyNext, PTL DEF Spec

=============================================================================
