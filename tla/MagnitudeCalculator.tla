------------------------ MODULE MagnitudeCalculator ------------------------
(***************************************************************************)
(* What the magnitude calculators return, as functions of their input.     *)
(*                                                                         *)
(* A station magnitude is log10(average amplitude / 2) + C_d + C_s.  The   *)
(* logarithm, the distance correction and the station correction are       *)
(* integers in units of some fraction of a magnitude, or not finite: the   *)
(* corrections are read with std::stod, which reads "nan" and "inf", and   *)
(* no setter on their way here refuses those.  Averages are kept as a sum  *)
(* and a count, and residuals are scaled by that count, so that no         *)
(* division is needed.                                                     *)
(*                                                                         *)
(* Both calculators are immutable once constructed and their operators are *)
(* const: concurrent RPCs share them without interfering.                  *)
(***************************************************************************)
EXTENDS Integers, Sequences, FiniteSets, Functions

CONSTANTS
    Stations,            \* network.station names
    StationCorrection,   \* the station corrections map, name -> C_s
    MinimumDistance,     \* first abscissa of the distance correction table
    MaximumDistance,     \* last abscissa of the distance correction table
    DistanceCorrection,  \* C_d at every distance the table covers
    RequiresDepth,       \* the distance corrections are hypocentral
    MinimumNumberOfStationMagnitudes,
    MagnitudeLimit,      \* the 10 of the range [-10, 10]
    NonFinite            \* a value that is infinite or not a number

ASSUME CorrectionsAssumption ==
    /\ DOMAIN StationCorrection \subseteq Stations
    /\ StationCorrection \in [DOMAIN StationCorrection -> Int \cup {NonFinite}]
    /\ MinimumDistance \in Nat
    /\ MaximumDistance \in Nat
    /\ MinimumDistance <= MaximumDistance
    /\ DistanceCorrection \in [MinimumDistance .. MaximumDistance -> Int \cup {NonFinite}]

ASSUME OptionsAssumption ==
    /\ RequiresDepth \in BOOLEAN
    /\ MinimumNumberOfStationMagnitudes \in Nat \ {0}
    /\ MagnitudeLimit \in Nat
    /\ NonFinite \notin Int

-----------------------------------------------------------------------------

(***************************************************************************)
(* An Observation: its two amplitudes (as the logarithm of their average), *)
(* the source-receiver distance the correction is read at, and whether     *)
(* each of the three was set.                                              *)
(***************************************************************************)
Observation ==
    [station               : Stations,
     hasAmplitudes         : BOOLEAN,
     logAmplitude          : Int \cup {NonFinite},
     hasEpicentralDistance : BOOLEAN,
     distance              : Nat,
     hasDepth              : BOOLEAN]

NoError == "None"

\* The outcome of a call that does not return: an exception leaves a
\* noexcept function and std::terminate ends the process.
Terminate == "Terminate"

\* The outcomes for one observation.
StationCodes ==
    {NoError, Terminate, "ObservationMissingAmplitudes", "ObservationMissingDistance",
     "ObservationMissingDepth", "ObservationHasNoCorrection", "StationTooClose",
     "StationTooFar"}

\* The completeness checks, in the order the code makes them.
MissingCode(o) ==
    IF ~o.hasAmplitudes THEN "ObservationMissingAmplitudes"
    ELSE IF ~o.hasEpicentralDistance THEN "ObservationMissingDistance"
    ELSE IF RequiresDepth /\ ~o.hasDepth THEN "ObservationMissingDepth"
    ELSE NoError

\* The terms of a station magnitude.
Terms(o) ==
    {o.logAmplitude, DistanceCorrection[o.distance], StationCorrection[o.station]}

\* StationMagnitudeCalculator::operator() for the calculator of the
\* observation's own station.  The distance is looked up before the magnitude
\* is stored, and storing one that is not finite, as one of its terms is not,
\* throws.
StationCalculatorCode(o) ==
    IF o.distance < MinimumDistance THEN "StationTooClose"
    ELSE IF o.distance > MaximumDistance THEN "StationTooFar"
    ELSE IF NonFinite \in Terms(o) THEN Terminate
    ELSE NoError

\* NetworkMagnitudeCalculator::computeStationMagnitude
StationCode(o) ==
    IF MissingCode(o) # NoError THEN MissingCode(o)
    ELSE IF o.station \notin DOMAIN StationCorrection
         THEN "ObservationHasNoCorrection"
    ELSE StationCalculatorCode(o)

\* The station magnitude of an observation whose StationCode is NoError.
StationMagnitude(o) ==
    o.logAmplitude + DistanceCorrection[o.distance] + StationCorrection[o.station]

\* NetworkMagnitude::setValue throws for an average outside [-10, 10].
ValueInRange(sum, count) ==
    /\ sum >= -(MagnitudeLimit * count)
    /\ sum <= MagnitudeLimit * count

\* Mutant of Reason: the case of a station without a correction is missing.
ReasonForgetsCorrection(code) ==
    CASE code = "StationTooClose" -> "REASON_TOO_CLOSE"
      [] code = "StationTooFar" -> "REASON_TOO_FAR"
      [] code = "ObservationMissingAmplitudes" -> "REASON_INVALID_AMPLITUDES"
      [] OTHER -> "REASON_UNSPECIFIED"

\* How a rejection is named in the response
\* (NetworkMagnitude::toRejectedObservationsMessage).
Reason(code) ==
    CASE code = "StationTooClose" -> "REASON_TOO_CLOSE"
      [] code = "StationTooFar" -> "REASON_TOO_FAR"
      [] code = "ObservationHasNoCorrection" -> "REASON_NO_STATION_CORRECTION"
      [] code = "ObservationMissingAmplitudes" -> "REASON_INVALID_AMPLITUDES"
      [] code \in {"NegativeDistance", "InvalidDepth",
                   "ObservationMissingDistance", "ObservationMissingDepth",
                   "Uninitialized", "Algorithm"} -> "REASON_ALGORITHM"
      [] OTHER -> "REASON_UNSPECIFIED"

-----------------------------------------------------------------------------

(***************************************************************************)
(* The network magnitude, stated without loops.                            *)
(***************************************************************************)
Computed(obs) == {n \in DOMAIN obs : StationCode(obs[n]) = NoError}
Rejected(obs) == DOMAIN obs \ Computed(obs)

MagnitudeSum(obs) ==
    SumFunction([n \in Computed(obs) |-> StationMagnitude(obs[n])])

Atleast(n) == IF n < 1 THEN 1 ELSE n

Failure(code) ==
    [error |-> code, sum |-> 0, count |-> 0, residuals |-> <<>>, rejected |-> <<>>]

\* The first reason the calculator gives up on these observations.
NetworkCode(obs) ==
    LET incomplete == {n \in DOMAIN obs : MissingCode(obs[n]) # NoError}
        first == CHOOSE n \in incomplete : \A m \in incomplete : n <= m
        count == Cardinality(Computed(obs))
    IN  IF obs = <<>> THEN "NoObservations"
        ELSE IF incomplete # {} THEN MissingCode(obs[first])
        ELSE IF \E m, n \in DOMAIN obs : m # n /\ obs[m].station = obs[n].station
             THEN "DuplicateObservations"
        ELSE IF \E n \in DOMAIN obs : StationCode(obs[n]) = Terminate
             THEN Terminate
        ELSE IF count < Atleast(MinimumNumberOfStationMagnitudes)
             THEN "TooFewObservations"
        ELSE IF ~ValueInRange(MagnitudeSum(obs), count) THEN "Algorithm"
        ELSE NoError

\* A residual is the network magnitude less the station magnitude, here
\* multiplied by the number of station magnitudes.
NetworkResult(obs) ==
    LET sum == MagnitudeSum(obs)
        count == Cardinality(Computed(obs))
    IN  IF NetworkCode(obs) # NoError THEN Failure(NetworkCode(obs))
        ELSE [error     |-> NoError,
              sum       |-> sum,
              count     |-> count,
              residuals |-> [n \in Computed(obs) |->
                                sum - count * StationMagnitude(obs[n])],
              rejected  |-> [n \in Rejected(obs) |-> StationCode(obs[n])]]

=============================================================================
