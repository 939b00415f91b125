------------------ MODULE NetworkMagnitudeCalculatorProofs ------------------
(***************************************************************************)
(* What NetworkMagnitudeCalculator shows for a few observations, for any   *)
(* number of them, any corrections and any minimum.                        *)
(***************************************************************************)
EXTENDS NetworkMagnitudeCalculator, FiniteSetTheorems, WellFoundedInduction, TLAPS

\* The observations before the i-th with and without a station magnitude.
Good(obs, i) == {n \in 1 .. i - 1 : StationCode(obs[n]) = NoError}
Bad(obs, i) == {n \in 1 .. i - 1 : StationCode(obs[n]) # NoError}

(***************************************************************************)
(* The inductive invariant, pass by pass.                                  *)
(***************************************************************************)

\* The loops stay in the vector of observations.
IndexInv ==
    phase \in {"complete", "duplicates", "stations", "average", "tabulate"} =>
        index \in 1 .. Len(observations) + 1

Differ(obs, i) ==
    \A m, n \in 1 .. i - 1 : m # n => obs[m].station # obs[n].station

\* No station is seen before the check for duplicates; after it no two observations are of one station.
DistinctInv ==
    /\ phase \in {"enter", "complete"} => stationNames = {}
    /\ phase = "duplicates" =>
          /\ stationNames = {observations[n].station : n \in 1 .. index - 1}
          /\ Differ(observations, index)
    /\ phase \in {"stations", "enough", "average", "value", "tabulate"} \/ Succeeded =>
          Differ(observations, Len(observations) + 1)

\* There is a work item for each observation that was looked at, with its outcome.
WorkInv ==
    /\ phase \in {"enter", "complete", "duplicates"} => workItems = <<>>
    /\ phase = "stations" => Len(workItems) = index - 1
    /\ phase \in {"enough", "average", "value", "tabulate"} \/ Succeeded =>
          Len(workItems) = Len(observations)
    /\ Len(workItems) <= Len(observations)
    /\ \A n \in 1 .. Len(workItems) :
          /\ workItems[n] = [observationNumber |-> n, code |-> StationCode(observations[n])]
          /\ StationCode(observations[n]) # Terminate

\* The station magnitudes in the sum are counted.
CountInv ==
    /\ phase \in {"enter", "complete", "duplicates", "stations", "enough"} =>
          nStationMagnitudes = 0
    /\ phase = "average" => nStationMagnitudes = Cardinality(Good(observations, index))
    /\ phase \in {"value", "tabulate"} \/ Succeeded =>
          nStationMagnitudes = Cardinality(Good(observations, Len(observations) + 1))
    /\ phase = "tabulate" \/ Succeeded =>
          nStationMagnitudes >= MinimumNumberOfStationMagnitudes

\* The rows of a table are for these numbers, in their order.
Rows(pairs, numbers) ==
    /\ \A k \in DOMAIN pairs : pairs[k][2] \in numbers
    /\ \A n \in numbers : \E k \in DOMAIN pairs : pairs[k][2] = n
    /\ Ascending(pairs)

\* The tables have a row for each observation that was tabulated, and are empty before.
TableInv ==
    /\ phase = "tabulate" \/ Succeeded =>
          /\ Rows(residuals, Good(observations, index))
          /\ Rows(rejectedObservations, Bad(observations, index))
          /\ Len(residuals) + Len(rejectedObservations) = index - 1
          /\ \A k \in DOMAIN rejectedObservations :
                rejectedObservations[k][1] = StationCode(observations[rejectedObservations[k][2]])
    /\ Succeeded => index = Len(observations) + 1
    /\ ~(phase = "tabulate" \/ Succeeded) =>
          residuals = <<>> /\ rejectedObservations = <<>>

IInv == TypeOK /\ IndexInv /\ DistinctInv /\ WorkInv /\ CountInv /\ TableInv

-----------------------------------------------------------------------------

(***************************************************************************)
(* Observations and their outcomes.                                        *)
(***************************************************************************)

\* The vector of observations holds observations.
LEMMA AnObservation ==
    ASSUME TypeOK
    PROVE  /\ observations \in Seq(Observation) /\ Len(observations) \in Nat
           /\ \A n \in 1 .. Len(observations) : observations[n] \in Observation
<1>1. observations \in Seq(Observation)
    BY InputsAssumption DEF TypeOK
<1> QED BY <1>1

\* Every outcome is one of those listed.
LEMMA CodesOfStations ==
    ASSUME NEW o
    PROVE  StationCode(o) \in StationCodes
<1>1. MissingCode(o) \in StationCodes
    BY DEF MissingCode, StationCodes
<1>2. StationCalculatorCode(o) \in StationCodes
    BY DEF StationCalculatorCode, StationCodes
<1>3. StationCode(o) \in StationCodes
    BY <1>1, <1>2 DEF StationCode, StationCodes
<1> QED BY <1>3

\* A station magnitude that can be computed is a number.
LEMMA MagnitudeIsNumber ==
    ASSUME NEW o \in Observation, StationCode(o) = NoError
    PROVE  StationMagnitude(o) \in Int
<1>1. /\ o.station \in DOMAIN StationCorrection
      /\ o.distance >= MinimumDistance /\ o.distance <= MaximumDistance
      /\ NonFinite \notin Terms(o)
    <2>1. MissingCode(o) = NoError /\ o.station \in DOMAIN StationCorrection
        BY DEF StationCode, NoError
    <2>2. StationCalculatorCode(o) = NoError
        BY <2>1 DEF StationCode
    <2>3. o.distance \in Int
        BY DEF Observation
    <2> QED BY <2>1, <2>2, <2>3, CorrectionsAssumption
            DEF StationCalculatorCode, NoError, Terminate
<1>2. o.logAmplitude \in Int /\ o.distance \in MinimumDistance .. MaximumDistance
    BY <1>1, CorrectionsAssumption DEF Observation, Terms
<1>3. DistanceCorrection[o.distance] \in Int /\ StationCorrection[o.station] \in Int
    BY <1>1, <1>2, CorrectionsAssumption DEF Terms
<1> QED BY <1>2, <1>3 DEF StationMagnitude

\* A table stays in order when a later number is appended.
LEMMA RowsAppend ==
    ASSUME NEW T, NEW pairs \in Seq(T \X Nat), NEW numbers \in SUBSET Nat,
           Rows(pairs, numbers),
           NEW x \in T, NEW n \in Nat, \A m \in numbers : m < n
    PROVE  Rows(Append(pairs, <<x, n>>), numbers \cup {n})
<1> DEFINE more == Append(pairs, <<x, n>>)
           l == Len(pairs)
<1>1. /\ l \in Nat /\ DOMAIN pairs = 1 .. l /\ DOMAIN more = 1 .. l + 1
      /\ \A k \in 1 .. l : more[k] = pairs[k]
      /\ more[l + 1] = <<x, n>>
    OBVIOUS
<1>2. more[l + 1][2] = n /\ \A k \in 1 .. l : more[k][2] = pairs[k][2]
    BY <1>1
<1>3. /\ \A k \in 1 .. l : pairs[k][2] \in numbers
      /\ \A m \in numbers : \E k \in 1 .. l : pairs[k][2] = m
      /\ \A j, k \in 1 .. l : j < k => pairs[j][2] < pairs[k][2]
    BY <1>1 DEF Rows, Ascending
<1>4. \A k \in 1 .. l + 1 : k = l + 1 \/ k \in 1 .. l
    BY <1>1
<1> HIDE DEF more, l
<1>5. \A k \in 1 .. l + 1 : more[k][2] \in numbers \cup {n}
    BY <1>2, <1>3, <1>4
<1>6. \A m \in numbers \cup {n} : \E k \in 1 .. l + 1 : more[k][2] = m
    <2>1. l + 1 \in 1 .. l + 1 /\ 1 .. l \subseteq 1 .. l + 1
        BY <1>1
    <2>2. \A m \in numbers : \E k \in 1 .. l : more[k][2] = m
        BY <1>2, <1>3
    <2> QED BY <1>2, <2>1, <2>2
<1>7. \A j, k \in 1 .. l + 1 : j < k => more[j][2] < more[k][2]
    <2> SUFFICES ASSUME NEW j \in 1 .. l + 1, NEW k \in 1 .. l + 1, j < k
                 PROVE  more[j][2] < more[k][2]
        OBVIOUS
    <2>1. j \in 1 .. l
        BY <1>1
    <2>2. CASE k = l + 1
        BY <1>2, <1>3, <2>1, <2>2
    <2>3. CASE k \in 1 .. l
        BY <1>2, <1>3, <2>1, <2>3
    <2> QED BY <1>4, <2>2, <2>3
<1>8. DOMAIN more = 1 .. l + 1
    BY <1>1 DEF more
<1> QED BY <1>5, <1>6, <1>7, <1>8 DEF Rows, Ascending, more

\* One more observation is a good one or a bad one.
LEMMA NextObservation ==
    ASSUME NEW obs, NEW i \in Nat \ {0}
    PROVE  /\ StationCode(obs[i]) = NoError => Good(obs, i + 1) = Good(obs, i) \cup {i} /\ Bad(obs, i + 1) = Bad(obs, i)
           /\ StationCode(obs[i]) # NoError => Good(obs, i + 1) = Good(obs, i) /\ Bad(obs, i + 1) = Bad(obs, i) \cup {i}
           /\ \A n \in Good(obs, i) \cup Bad(obs, i) : n \in Nat /\ n < i
           /\ Good(obs, i) \in SUBSET Nat /\ Bad(obs, i) \in SUBSET Nat
           /\ IsFiniteSet(Good(obs, i)) /\ Cardinality(Good(obs, i)) \in Nat
<1>1. 1 .. (i + 1) - 1 = (1 .. i - 1) \cup {i}
    OBVIOUS
<1>2. IsFiniteSet(1 .. i - 1)
    BY FS_Interval
<1>3. Good(obs, i) \subseteq 1 .. i - 1
    BY DEF Good
<1>4. IsFiniteSet(Good(obs, i)) /\ Cardinality(Good(obs, i)) \in Nat
    BY <1>2, <1>3, FS_Subset, FS_CardinalityType
<1>5. /\ StationCode(obs[i]) = NoError => Good(obs, i + 1) = Good(obs, i) \cup {i} /\ Bad(obs, i + 1) = Bad(obs, i)
      /\ StationCode(obs[i]) # NoError => Good(obs, i + 1) = Good(obs, i) /\ Bad(obs, i + 1) = Bad(obs, i) \cup {i}
    BY <1>1 DEF Good, Bad
<1>6. \A n \in Good(obs, i) \cup Bad(obs, i) : n \in Nat /\ n < i
    BY DEF Good, Bad
<1> QED BY <1>4, <1>5, <1>6

\* To begin with nothing is counted.
LEMMA NothingBefore ==
    ASSUME NEW obs
    PROVE  Good(obs, 1) = {} /\ Bad(obs, 1) = {} /\ Cardinality(Good(obs, 1)) = 0
<1>1. Good(obs, 1) = {} /\ Bad(obs, 1) = {}
    BY DEF Good, Bad
<1> QED BY <1>1, FS_EmptySet

-----------------------------------------------------------------------------

\* The inductive invariant holds when the call is entered.
LEMMA Initially == Init => IInv
<1> SUFFICES ASSUME Init PROVE IInv
    OBVIOUS
<1>1. TypeOK
    BY DEF Init, TypeOK, Phases
<1>2. Len(observations) \in Nat
    BY <1>1, AnObservation
<1>3. ~Succeeded
    BY DEF Init, Succeeded
<1>4. IndexInv /\ DistinctInv /\ CountInv /\ TableInv
    BY <1>3 DEF Init, IndexInv, DistinctInv, CountInv, TableInv
<1>5. WorkInv
    BY <1>2, <1>3 DEF Init, WorkInv
<1> QED BY <1>1, <1>4, <1>5 DEF IInv

\* A failure is no success.
LEMMA FailureFails ==
    ASSUME NEW code, Fail(code), code # NoError
    PROVE  phase' = "returned" /\ ~Succeeded' /\ index' = index
    BY DEF Fail, Succeeded, Failure

\* An early return keeps the invariant: a failure has no tables.
LEMMA FailKeeps ==
    ASSUME IInv, NEW code, Fail(code), code # NoError,
           phase \notin {"tabulate", "returned"},
           UNCHANGED <<observations, workItems, totals, tables>>,
           stationNames' \subseteq Stations
    PROVE  IInv'
<1>1. /\ phase' = "returned" /\ ~Succeeded' /\ index' = index
      /\ observations' = observations /\ workItems' = workItems
      /\ sum' = sum /\ nStationMagnitudes' = nStationMagnitudes
      /\ residuals' = residuals /\ rejectedObservations' = rejectedObservations
    BY FailureFails DEF totals, tables
<1>2. ~Succeeded
    BY DEF Succeeded
<1>3. TypeOK'
    BY <1>1 DEF IInv, TypeOK, Phases
<1>4. WorkInv'
    BY <1>1 DEF IInv, WorkInv
<1>5. IndexInv' /\ DistinctInv' /\ CountInv'
    BY <1>1 DEF IInv, IndexInv, DistinctInv, CountInv
<1>6. TableInv'
    BY <1>1, <1>2 DEF IInv, TableInv
<1> QED BY <1>3, <1>4, <1>5, <1>6 DEF IInv

\* No observations are an error; otherwise the first pass begins.
LEMMA EmptyKeeps ==
    ASSUME IInv, CheckEmpty
    PROVE  IInv'
<1>0. /\ phase = "enter" /\ ~Succeeded
      /\ UNCHANGED <<observations, workItems, totals, tables>>
      /\ stationNames' = stationNames /\ stationNames' \subseteq Stations
    BY DEF CheckEmpty, IInv, TypeOK, Succeeded
<1>1. CASE observations = <<>>
    <2>1. Fail("NoObservations")
        BY <1>1 DEF CheckEmpty
    <2> QED BY <1>0, <2>1, FailKeeps DEF NoError
<1>2. CASE observations # <<>>
    <2>1. Enter("complete")
        BY <1>2 DEF CheckEmpty
    <2>2. phase' = "complete" /\ index' = 1 /\ result' = result /\ ~Succeeded'
        BY <2>1 DEF Enter, Succeeded
    <2>3. /\ observations' = observations /\ workItems' = workItems
          /\ sum' = sum /\ nStationMagnitudes' = nStationMagnitudes
          /\ residuals' = residuals /\ rejectedObservations' = rejectedObservations
        BY <1>0 DEF totals, tables
    <2>4. TypeOK'
        BY <1>0, <2>2, <2>3 DEF IInv, TypeOK, Phases
    <2>5. IndexInv'
        BY <2>2, <2>3, AnObservation DEF IInv, IndexInv
    <2>6. DistinctInv' /\ CountInv' /\ TableInv'
        BY <1>0, <2>2, <2>3 DEF IInv, DistinctInv, CountInv, TableInv
    <2>7. WorkInv'
        BY <1>0, <2>2, <2>3 DEF IInv, WorkInv
    <2> QED BY <2>4, <2>5, <2>6, <2>7 DEF IInv
<1> QED BY <1>1, <1>2

\* The pass that looks for incomplete observations keeps the invariant.
LEMMA CompleteKeeps ==
    ASSUME IInv, CheckComplete
    PROVE  IInv'
<1>0. /\ phase = "complete" /\ ~Succeeded /\ index \in 1 .. Len(observations) + 1
      /\ UNCHANGED <<observations, workItems, totals, tables>>
      /\ stationNames' = stationNames /\ stationNames' \subseteq Stations
    BY DEF CheckComplete, IInv, IndexInv, TypeOK, Succeeded
<1>00. Len(observations) \in Nat
    BY AnObservation DEF IInv
<1>1. CASE Enter("duplicates")
    <2>1. phase' = "duplicates" /\ index' = 1 /\ result' = result /\ ~Succeeded'
        BY <1>1 DEF Enter, Succeeded
    <2>2. /\ observations' = observations /\ workItems' = workItems
          /\ sum' = sum /\ nStationMagnitudes' = nStationMagnitudes
          /\ residuals' = residuals /\ rejectedObservations' = rejectedObservations
        BY <1>0 DEF totals, tables
    <2>3. TypeOK'
        BY <1>0, <2>1, <2>2 DEF IInv, TypeOK, Phases
    <2>4. IndexInv'
        BY <2>1, <2>2, <1>00 DEF IndexInv
    <2>5. stationNames' = {} 
        BY <1>0 DEF IInv, DistinctInv
    <2>6. DistinctInv'
        BY <1>0, <2>1, <2>2, <2>5 DEF DistinctInv, Differ
    <2>7. CountInv' /\ TableInv'
        BY <1>0, <2>1, <2>2 DEF IInv, CountInv, TableInv
    <2>8. WorkInv'
        BY <1>0, <2>1, <2>2 DEF IInv, WorkInv
    <2> QED BY <2>3, <2>4, <2>6, <2>7, <2>8 DEF IInv
<1>2. CASE index <= Len(observations) /\ Continue
    <2>1. phase' = "complete" /\ index' = index + 1 /\ result' = result /\ ~Succeeded'
        BY <1>0, <1>2 DEF Continue, Succeeded
    <2>2. /\ observations' = observations /\ workItems' = workItems
          /\ sum' = sum /\ nStationMagnitudes' = nStationMagnitudes
          /\ residuals' = residuals /\ rejectedObservations' = rejectedObservations
        BY <1>0 DEF totals, tables
    <2>3. TypeOK'
        BY <1>0, <2>1, <2>2 DEF IInv, TypeOK, Phases
    <2>4. IndexInv'
        BY <1>0, <1>00, <1>2, <2>1, <2>2 DEF IndexInv
    <2>5. DistinctInv' /\ CountInv' /\ TableInv'
        BY <1>0, <2>1, <2>2 DEF IInv, DistinctInv, CountInv, TableInv
    <2>6. WorkInv'
        BY <1>0, <2>1, <2>2 DEF IInv, WorkInv
    <2> QED BY <2>3, <2>4, <2>5, <2>6 DEF IInv
<1>3. CASE /\ MissingCode(observations[index]) # NoError
           /\ Fail(MissingCode(observations[index]))
    BY <1>0, <1>3, FailKeeps
<1> QED BY <1>0, <1>00, <1>1, <1>2, <1>3 DEF CheckComplete

\* No two observations so far are of one station, or the call is over.
LEMMA DuplicateKeeps ==
    ASSUME IInv, CheckDuplicate
    PROVE  IInv'
<1>0. /\ phase = "duplicates" /\ ~Succeeded /\ index \in 1 .. Len(observations) + 1
      /\ UNCHANGED <<observations, workItems, totals, tables>>
    BY DEF CheckDuplicate, IInv, IndexInv, Succeeded
<1>00. /\ Len(observations) \in Nat
       /\ \A n \in 1 .. Len(observations) : observations[n].station \in Stations
    BY AnObservation DEF IInv, Observation
<1>000. /\ observations' = observations /\ workItems' = workItems
        /\ sum' = sum /\ nStationMagnitudes' = nStationMagnitudes
        /\ residuals' = residuals /\ rejectedObservations' = rejectedObservations
    BY <1>0 DEF totals, tables
<1>5. /\ stationNames = {observations[n].station : n \in 1 .. index - 1}
      /\ Differ(observations, index) /\ stationNames \subseteq Stations
    BY <1>0 DEF IInv, DistinctInv, TypeOK
<1>1. CASE index > Len(observations)
    <2>1. /\ phase' = "stations" /\ index' = 1 /\ result' = result /\ ~Succeeded'
          /\ stationNames' = stationNames
        BY <1>0, <1>1 DEF CheckDuplicate, Enter, Succeeded
    <2>2. TypeOK'
        BY <1>0, <1>000, <2>1 DEF IInv, TypeOK, Phases
    <2>3. IndexInv'
        BY <1>00, <1>000, <2>1 DEF IndexInv
    <2>4. index = Len(observations) + 1
        BY <1>0, <1>00, <1>1
    <2>5. DistinctInv'
        BY <1>5, <1>000, <2>1, <2>4 DEF DistinctInv
    <2>6. CountInv' /\ TableInv'
        BY <1>0, <1>000, <2>1 DEF IInv, CountInv, TableInv
    <2>7. WorkInv'
        BY <1>0, <1>000, <2>1 DEF IInv, WorkInv
    <2> QED BY <2>2, <2>3, <2>5, <2>6, <2>7 DEF IInv
<1>2. CASE index <= Len(observations)
    <2> DEFINE name == observations[index].station
    <2>1. index \in 1 .. Len(observations) /\ name \in Stations
        BY <1>0, <1>00, <1>2
    <2>2. /\ stationNames' = stationNames \cup {name}
          /\ IF name \in stationNames THEN Fail("DuplicateObservations") ELSE Continue
        BY <1>0, <1>00, <1>2 DEF CheckDuplicate
    <2>3. CASE name \in stationNames
        BY <1>0, <1>5, <2>1, <2>2, <2>3, FailKeeps DEF NoError
    <2>4. CASE name \notin stationNames
        <3>1. phase' = "duplicates" /\ index' = index + 1 /\ result' = result /\ ~Succeeded'
            BY <1>0, <2>2, <2>4 DEF Continue, Succeeded
        <3>2. TypeOK'
            BY <1>0, <1>000, <1>5, <2>1, <2>2, <3>1 DEF IInv, TypeOK, Phases
        <3>3. IndexInv'
            BY <1>00, <1>000, <2>1, <3>1 DEF IndexInv
        <3>4. 1 .. (index + 1) - 1 = (1 .. index - 1) \cup {index}
            BY <1>0
        <3>5. stationNames' = {observations[n].station : n \in 1 .. (index + 1) - 1}
            BY <1>5, <2>2, <3>4
        <3>6. Differ(observations, index + 1)
            BY <1>5, <2>4, <3>4 DEF Differ
        <3>7. DistinctInv'
            BY <1>000, <3>1, <3>5, <3>6 DEF DistinctInv
        <3>8. CountInv' /\ TableInv'
            BY <1>0, <1>000, <3>1 DEF IInv, CountInv, TableInv
        <3>9. WorkInv'
            BY <1>0, <1>000, <3>1 DEF IInv, WorkInv
        <3> QED BY <3>2, <3>3, <3>7, <3>8, <3>9 DEF IInv
    <2> QED BY <2>3, <2>4
<1> QED BY <1>0, <1>00, <1>1, <1>2

\* An outcome is kept for each observation, unless one ends the process.
LEMMA StationKeeps ==
    ASSUME IInv, ComputeStation
    PROVE  IInv'
<1>0. /\ phase = "stations" /\ ~Succeeded /\ index \in 1 .. Len(observations) + 1
      /\ observations' = observations /\ stationNames' = stationNames
      /\ sum' = sum /\ nStationMagnitudes' = nStationMagnitudes
      /\ residuals' = residuals /\ rejectedObservations' = rejectedObservations
      /\ Len(observations) \in Nat /\ stationNames' \subseteq Stations
    BY AnObservation DEF ComputeStation, IInv, IndexInv, TypeOK, Succeeded, totals, tables
<1>1. CASE index > Len(observations)
    <2>1. /\ phase' = "enough" /\ index' = 1 /\ result' = result /\ ~Succeeded'
          /\ workItems' = workItems
        BY <1>0, <1>1 DEF ComputeStation, Enter, Succeeded
    <2>2. TypeOK'
        BY <1>0, <2>1 DEF IInv, TypeOK, Phases
    <2>3. IndexInv'
        BY <1>0, <2>1 DEF IndexInv
    <2>4. DistinctInv' /\ CountInv' /\ TableInv'
        BY <1>0, <2>1 DEF IInv, DistinctInv, CountInv, TableInv
    <2>5. Len(workItems) = Len(observations)
        BY <1>0, <1>1 DEF IInv, WorkInv
    <2>6. WorkInv'
        BY <1>0, <2>1, <2>5 DEF IInv, WorkInv
    <2> QED BY <2>2, <2>3, <2>4, <2>6 DEF IInv
<1>2. CASE index <= Len(observations)
    <2> DEFINE code == StationCode(observations[index])
               item == [observationNumber |-> index, code |-> code]
    <2>1. index \in 1 .. Len(observations) /\ code \in StationCodes
        BY <1>0, <1>2, CodesOfStations
    <2>2. IF code = Terminate
          THEN Fail(Terminate) /\ UNCHANGED workItems
          ELSE workItems' = Append(workItems, item) /\ Continue
        BY <1>0, <1>2 DEF ComputeStation
    <2>3. CASE code = Terminate
        BY <1>0, <2>2, <2>3, FailKeeps DEF totals, tables, Terminate, NoError
    <2>4. CASE code # Terminate
        <3>1. phase' = "stations" /\ index' = index + 1 /\ result' = result /\ ~Succeeded'
            BY <1>0, <2>2, <2>4 DEF Continue, Succeeded
        <3>2. workItems' = Append(workItems, item) /\ item \in WorkItem
            BY <2>1, <2>2, <2>4 DEF WorkItem
        <3>3. workItems \in Seq(WorkItem) /\ Len(workItems) = index - 1
            BY <1>0 DEF IInv, TypeOK, WorkInv
        <3>4. /\ workItems' \in Seq(WorkItem) /\ Len(workItems') = index
              /\ workItems'[index] = item
              /\ \A n \in 1 .. index - 1 : workItems'[n] = workItems[n]
            BY <2>1, <3>2, <3>3
        <3>5. TypeOK'
            BY <1>0, <2>1, <3>1, <3>4 DEF IInv, TypeOK, Phases
        <3>6. IndexInv'
            BY <1>0, <2>1, <3>1 DEF IndexInv
        <3>7. DistinctInv' /\ CountInv' /\ TableInv'
            BY <1>0, <3>1 DEF IInv, DistinctInv, CountInv, TableInv
        <3>8. \A n \in 1 .. index :
                 /\ workItems'[n] = [observationNumber |-> n, code |-> StationCode(observations[n])]
                 /\ StationCode(observations[n]) # Terminate
            <4>1. \A n \in 1 .. index : n \in 1 .. index - 1 \/ n = index
                BY <2>1
            <4> QED BY <2>4, <3>3, <3>4, <4>1 DEF IInv, WorkInv
        <3>9. WorkInv'
            BY <1>0, <2>1, <3>1, <3>4, <3>8 DEF WorkInv
        <3> QED BY <3>5, <3>6, <3>7, <3>9 DEF IInv
    <2> QED BY <2>3, <2>4
<1> QED BY <1>0, <1>1, <1>2

\* With enough observations the average is begun.
LEMMA EnoughWorkKeeps ==
    ASSUME IInv, CheckEnoughWork
    PROVE  IInv'
<1>0. /\ phase = "enough" /\ ~Succeeded
      /\ UNCHANGED <<observations, workItems, totals, tables>>
      /\ stationNames' = stationNames /\ stationNames' \subseteq Stations
      /\ Len(observations) \in Nat
    BY AnObservation DEF CheckEnoughWork, IInv, TypeOK, Succeeded
<1>1. CASE Fail("TooFewObservations")
    BY <1>0, <1>1, FailKeeps DEF NoError
<1>2. CASE Enter("average")
    <2>1. phase' = "average" /\ index' = 1 /\ result' = result /\ ~Succeeded'
        BY <1>2 DEF Enter, Succeeded
    <2>2. /\ observations' = observations /\ workItems' = workItems
          /\ sum' = sum /\ nStationMagnitudes' = nStationMagnitudes
          /\ residuals' = residuals /\ rejectedObservations' = rejectedObservations
        BY <1>0 DEF totals, tables
    <2>3. TypeOK'
        BY <1>0, <2>1, <2>2 DEF IInv, TypeOK, Phases
    <2>4. IndexInv'
        BY <1>0, <2>1, <2>2 DEF IndexInv
    <2>5. DistinctInv' /\ TableInv'
        BY <1>0, <2>1, <2>2 DEF IInv, DistinctInv, TableInv
    <2>6. nStationMagnitudes = 0 /\ Cardinality(Good(observations, 1)) = 0
        BY <1>0, NothingBefore DEF IInv, CountInv
    <2>7. CountInv'
        BY <2>1, <2>2, <2>6 DEF CountInv
    <2>8. WorkInv'
        BY <1>0, <2>1, <2>2 DEF IInv, WorkInv
    <2> QED BY <2>3, <2>4, <2>5, <2>7, <2>8 DEF IInv
<1> QED BY <1>0, <1>1, <1>2 DEF CheckEnoughWork

\* Each station magnitude is added and counted.
LEMMA AccumulateKeeps ==
    ASSUME IInv, Accumulate
    PROVE  IInv'
<1>0. /\ phase = "average" /\ ~Succeeded /\ index \in 1 .. Len(observations) + 1
      /\ observations' = observations /\ stationNames' = stationNames
      /\ workItems' = workItems /\ stationNames' \subseteq Stations
      /\ residuals' = residuals /\ rejectedObservations' = rejectedObservations
      /\ Len(observations) \in Nat /\ Len(workItems) = Len(observations)
    BY AnObservation DEF Accumulate, IInv, IndexInv, WorkInv, TypeOK, Succeeded, tables
<1>3. nStationMagnitudes = Cardinality(Good(observations, index))
    BY <1>0 DEF IInv, CountInv
<1>1. CASE index > Len(observations)
    <2>1. /\ phase' = "value" /\ index' = 1 /\ result' = result /\ ~Succeeded'
          /\ sum' = sum /\ nStationMagnitudes' = nStationMagnitudes
        BY <1>0, <1>1 DEF Accumulate, Enter, Succeeded, totals
    <2>2. index = Len(observations) + 1
        BY <1>0, <1>1
    <2>3. TypeOK'
        BY <1>0, <2>1 DEF IInv, TypeOK, Phases
    <2>4. IndexInv'
        BY <2>1 DEF IndexInv
    <2>5. DistinctInv' /\ TableInv'
        BY <1>0, <2>1 DEF IInv, DistinctInv, TableInv
    <2>6. CountInv'
        BY <1>0, <1>3, <2>1, <2>2 DEF CountInv
    <2>7. WorkInv'
        BY <1>0, <2>1 DEF IInv, WorkInv
    <2> QED BY <2>3, <2>4, <2>5, <2>6, <2>7 DEF IInv
<1>2. CASE index <= Len(observations)
    <2>1. index \in 1 .. Len(observations) /\ index \in Nat \ {0}
        BY <1>0, <1>2
    <2>02. workItems[index] =
              [observationNumber |-> index, code |-> StationCode(observations[index])]
        BY <1>0, <2>1 DEF IInv, WorkInv
    <2>2. workItems[index].code = StationCode(observations[index])
        BY <2>02
    <2>3. /\ phase' = "average" /\ index' = index + 1 /\ result' = result /\ ~Succeeded'
          /\ IF StationCode(observations[index]) = NoError
             THEN /\ nStationMagnitudes' = nStationMagnitudes + 1
                  /\ sum' = sum + StationMagnitude(observations[index])
             ELSE nStationMagnitudes' = nStationMagnitudes /\ sum' = sum
        BY <1>0, <1>2, <2>1, <2>2 DEF Accumulate, Continue, Succeeded, totals
    <2>4. sum \in Int /\ nStationMagnitudes \in Nat
        BY DEF IInv, TypeOK
    <2>5. sum' \in Int /\ nStationMagnitudes' \in Nat
        BY <2>1, <2>3, <2>4, MagnitudeIsNumber, AnObservation DEF IInv
    <2>6. nStationMagnitudes' = Cardinality(Good(observations, index + 1))
        <3>1. CASE StationCode(observations[index]) = NoError
            <4>1. /\ Good(observations, index + 1) = Good(observations, index) \cup {index}
                  /\ index \notin Good(observations, index)
                  /\ IsFiniteSet(Good(observations, index))
                BY <2>1, <3>1, NextObservation
            <4> QED BY <1>3, <2>3, <3>1, <4>1, FS_AddElement
        <3>2. CASE StationCode(observations[index]) # NoError
            BY <1>3, <2>1, <2>3, <3>2, NextObservation
        <3> QED BY <3>1, <3>2
    <2>7. TypeOK'
        BY <1>0, <2>1, <2>3, <2>5 DEF IInv, TypeOK, Phases
    <2>8. IndexInv'
        BY <1>0, <2>1, <2>3 DEF IndexInv
    <2>9. DistinctInv' /\ TableInv'
        BY <1>0, <2>3 DEF IInv, DistinctInv, TableInv
    <2>10. CountInv'
        BY <1>0, <2>3, <2>6 DEF CountInv
    <2>11. WorkInv'
        BY <1>0, <2>3 DEF IInv, WorkInv
    <2> QED BY <2>7, <2>8, <2>9, <2>10, <2>11 DEF IInv
<1> QED BY <1>0, <1>1, <1>2

\* The tables are begun only when enough station magnitudes were counted.
LEMMA ValueKeeps ==
    ASSUME IInv, SetValue
    PROVE  IInv'
<1>0. /\ phase = "value" /\ ~Succeeded
      /\ UNCHANGED <<observations, workItems, totals, tables>>
      /\ stationNames' = stationNames /\ stationNames' \subseteq Stations
      /\ Len(observations) \in Nat /\ nStationMagnitudes \in Nat
    BY AnObservation DEF SetValue, IInv, TypeOK, Succeeded
<1>1. CASE Fail("TooFewObservations") \/ Fail("Algorithm")
    BY <1>0, <1>1, FailKeeps DEF NoError
<1>2. CASE Enter("tabulate") /\ ~(nStationMagnitudes < Atleast(MinimumNumberOfStationMagnitudes))
    <2>1. phase' = "tabulate" /\ index' = 1 /\ result' = result /\ ~Succeeded'
        BY <1>2 DEF Enter, Succeeded
    <2>2. /\ observations' = observations /\ workItems' = workItems
          /\ sum' = sum /\ nStationMagnitudes' = nStationMagnitudes
          /\ residuals' = residuals /\ rejectedObservations' = rejectedObservations
        BY <1>0 DEF totals, tables
    <2>3. TypeOK'
        BY <1>0, <2>1, <2>2 DEF IInv, TypeOK, Phases
    <2>4. IndexInv'
        BY <1>0, <2>1, <2>2 DEF IndexInv
    <2>5. DistinctInv'
        BY <1>0, <2>1, <2>2 DEF IInv, DistinctInv
    <2>6. nStationMagnitudes >= MinimumNumberOfStationMagnitudes
        BY <1>0, <1>2, OptionsAssumption DEF Atleast
    <2>7. CountInv'
        BY <1>0, <2>1, <2>2, <2>6 DEF IInv, CountInv
    <2>8. residuals = <<>> /\ rejectedObservations = <<>>
        BY <1>0 DEF IInv, TableInv
    <2>9. Rows(<<>>, Good(observations, 1)) /\ Rows(<<>>, Bad(observations, 1))
        BY NothingBefore DEF Rows, Ascending
    <2>10. TableInv'
        BY <2>1, <2>2, <2>8, <2>9 DEF TableInv
    <2>11. WorkInv'
        BY <1>0, <2>1, <2>2 DEF IInv, WorkInv
    <2> QED BY <2>3, <2>4, <2>5, <2>7, <2>10, <2>11 DEF IInv
<1> QED BY <1>0, <1>1, <1>2 DEF SetValue

\* Every observation gets a row in one of the tables.
LEMMA TabulateKeeps ==
    ASSUME IInv, Tabulate
    PROVE  IInv'
<1> DEFINE o == observations[index]
           row == <<sum - nStationMagnitudes * StationMagnitude(o), index>>
           rejection == <<StationCode(o), index>>
<1>0. /\ phase = "tabulate" /\ ~Succeeded /\ index \in 1 .. Len(observations)
      /\ observations' = observations /\ stationNames' = stationNames
      /\ workItems' = workItems /\ stationNames' \subseteq Stations
      /\ sum' = sum /\ nStationMagnitudes' = nStationMagnitudes
      /\ phase' = "tabulate" /\ index' = index + 1 /\ result' = result /\ ~Succeeded'
      /\ Len(observations) \in Nat /\ index <= Len(workItems)
      /\ Len(workItems) = Len(observations)
    BY AnObservation
    DEF Tabulate, Continue, IInv, IndexInv, WorkInv, TypeOK, Succeeded, totals
<1>1. o \in Observation /\ index \in Nat \ {0} /\ sum \in Int /\ nStationMagnitudes \in Nat
    BY <1>0, AnObservation DEF IInv, TypeOK
<1>2. workItems[index] = [observationNumber |-> index, code |-> StationCode(o)]
    BY <1>0 DEF IInv, WorkInv
<1>3. workItems[index].code = StationCode(o) /\ workItems[index].observationNumber = index
    BY <1>2
<1>4. IF StationCode(o) = NoError
      THEN residuals' = Append(residuals, row) /\ rejectedObservations' = rejectedObservations
      ELSE residuals' = residuals /\ rejectedObservations' = Append(rejectedObservations, rejection)
    BY <1>3 DEF Tabulate
<1>5. /\ residuals \in Seq(Int \X (Nat \ {0}))
      /\ rejectedObservations \in Seq(StationCodes \X (Nat \ {0}))
      /\ residuals \in Seq(Int \X Nat) /\ rejectedObservations \in Seq(StationCodes \X Nat)
    BY DEF IInv, TypeOK
<1>6. /\ Rows(residuals, Good(observations, index))
      /\ Rows(rejectedObservations, Bad(observations, index))
      /\ Len(residuals) + Len(rejectedObservations) = index - 1
      /\ \A k \in DOMAIN rejectedObservations :
            rejectedObservations[k][1] = StationCode(observations[rejectedObservations[k][2]])
    BY <1>0 DEF IInv, TableInv
<1>7. /\ \A n \in Good(observations, index) \cup Bad(observations, index) : n < index
      /\ Good(observations, index) \in SUBSET Nat /\ Bad(observations, index) \in SUBSET Nat
    BY <1>1, NextObservation
<1>8. /\ residuals' \in Seq(Int \X (Nat \ {0}))
      /\ rejectedObservations' \in Seq(StationCodes \X (Nat \ {0}))
      /\ Rows(residuals', Good(observations, index + 1))
      /\ Rows(rejectedObservations', Bad(observations, index + 1))
      /\ Len(residuals') + Len(rejectedObservations') = index
      /\ \A k \in DOMAIN rejectedObservations' :
            rejectedObservations'[k][1] = StationCode(observations[rejectedObservations'[k][2]])
    <2>1. CASE StationCode(o) = NoError
        <3>1. StationMagnitude(o) \in Int
            BY <1>1, <2>1, MagnitudeIsNumber
        <3>2. row[1] \in Int /\ row \in Int \X (Nat \ {0})
            BY <1>1, <3>1
        <3>3. residuals' = Append(residuals, row) /\ rejectedObservations' = rejectedObservations
            BY <1>4, <2>1
        <3>4. /\ Good(observations, index + 1) = Good(observations, index) \cup {index}
              /\ Bad(observations, index + 1) = Bad(observations, index)
            BY <1>1, <2>1, NextObservation
        <3>5. Rows(Append(residuals, row), Good(observations, index) \cup {index})
            BY <1>1, <1>5, <1>6, <1>7, <3>2, RowsAppend
        <3> HIDE DEF row
        <3>6. residuals' \in Seq(Int \X (Nat \ {0})) /\ Len(residuals') = Len(residuals) + 1
            BY <1>5, <3>2, <3>3
        <3>7. Len(residuals) \in Nat /\ Len(rejectedObservations) \in Nat
            BY <1>5
        <3>8. /\ Rows(residuals', Good(observations, index + 1))
              /\ Rows(rejectedObservations', Bad(observations, index + 1))
            BY <1>6, <3>3, <3>4, <3>5
        <3>9. Len(residuals') + Len(rejectedObservations') = index
            BY <1>1, <1>6, <3>3, <3>6, <3>7
        <3> QED BY <1>5, <1>6, <3>3, <3>6, <3>8, <3>9
    <2>2. CASE StationCode(o) # NoError
        <3>1. rejection \in StationCodes \X (Nat \ {0})
            BY <1>1, CodesOfStations
        <3>2. residuals' = residuals /\ rejectedObservations' = Append(rejectedObservations, rejection)
            BY <1>4, <2>2
        <3>3. /\ Good(observations, index + 1) = Good(observations, index)
              /\ Bad(observations, index + 1) = Bad(observations, index) \cup {index}
            BY <1>1, <2>2, NextObservation
        <3>4. Rows(Append(rejectedObservations, rejection), Bad(observations, index) \cup {index})
            BY <1>1, <1>5, <1>6, <1>7, CodesOfStations, RowsAppend
        <3>5. rejection[1] = StationCode(observations[rejection[2]])
            OBVIOUS
        <3> HIDE DEF rejection
        <3>6. /\ rejectedObservations' \in Seq(StationCodes \X (Nat \ {0}))
              /\ Len(rejectedObservations') = Len(rejectedObservations) + 1
            BY <1>5, <3>1, <3>2
        <3>7. Len(residuals) \in Nat /\ Len(rejectedObservations) \in Nat
            BY <1>5
        <3>8. \A k \in DOMAIN rejectedObservations' :
                 \/ k \in DOMAIN rejectedObservations
                    /\ rejectedObservations'[k] = rejectedObservations[k]
                 \/ rejectedObservations'[k] = rejection
            BY <1>5, <3>1, <3>2
        <3>9. \A k \in DOMAIN rejectedObservations' :
                 rejectedObservations'[k][1] = StationCode(observations[rejectedObservations'[k][2]])
            BY <1>6, <3>5, <3>8
        <3>10. /\ Rows(residuals', Good(observations, index + 1))
               /\ Rows(rejectedObservations', Bad(observations, index + 1))
            BY <1>6, <3>2, <3>3, <3>4
        <3>11. Len(residuals') + Len(rejectedObservations') = index
            BY <1>1, <1>6, <3>2, <3>6, <3>7
        <3> QED BY <1>5, <3>2, <3>6, <3>9, <3>10, <3>11
    <2> QED BY <2>1, <2>2
<1>9. TypeOK'
    BY <1>0, <1>1, <1>8 DEF IInv, TypeOK, Phases
<1>10. IndexInv'
    BY <1>0 DEF IndexInv
<1>11. DistinctInv' /\ CountInv'
    BY <1>0 DEF IInv, DistinctInv, CountInv
<1>12. WorkInv'
    BY <1>0 DEF IInv, WorkInv
<1>13. TableInv'
    BY <1>0, <1>1, <1>8 DEF TableInv
<1> QED BY <1>9, <1>10, <1>11, <1>12, <1>13 DEF IInv

\* A magnitude is returned when every observation was tabulated.
LEMMA ReturnKeeps ==
    ASSUME IInv, Return
    PROVE  IInv'
<1>1. /\ phase = "tabulate" /\ ~Succeeded /\ index \in 1 .. Len(observations) + 1
      /\ observations' = observations /\ stationNames' = stationNames
      /\ workItems' = workItems /\ index' = index
      /\ sum' = sum /\ nStationMagnitudes' = nStationMagnitudes
      /\ residuals' = residuals /\ rejectedObservations' = rejectedObservations
      /\ phase' = "returned" /\ Succeeded'
      /\ Len(observations) \in Nat /\ index > Len(workItems)
      /\ Len(workItems) = Len(observations)
    BY AnObservation
    DEF Return, IInv, IndexInv, WorkInv, Succeeded, totals, tables
<1>2. index = Len(observations) + 1
    BY <1>1
<1>3. TypeOK'
    BY <1>1 DEF IInv, TypeOK, Phases
<1>4. DistinctInv' /\ CountInv'
    BY <1>1 DEF IInv, DistinctInv, CountInv
<1>5. IndexInv' /\ TableInv'
    BY <1>1, <1>2 DEF IInv, IndexInv, TableInv
<1>6. WorkInv'
    BY <1>1 DEF IInv, WorkInv
<1> QED BY <1>3, <1>4, <1>5, <1>6 DEF IInv

\* No step breaks the inductive invariant.
LEMMA Inductive == IInv /\ [Next]_vars => IInv'
<1> SUFFICES ASSUME IInv, [Next]_vars PROVE IInv'
    OBVIOUS
<1>1. CASE UNCHANGED vars
    BY <1>1 DEF vars, IInv, TypeOK, IndexInv, DistinctInv, WorkInv, CountInv, TableInv, Succeeded
<1> QED BY <1>1, EmptyKeeps, CompleteKeeps, DuplicateKeeps, StationKeeps, EnoughWorkKeeps,
           AccumulateKeeps, ValueKeeps, TabulateKeeps, ReturnKeeps DEF Next

\* The inductive invariant is one.
LEMMA Invariant == Spec => []IInv
    BY Initially, Inductive, PTL DEF Spec

-----------------------------------------------------------------------------

\* The locals of operator() have their types: no pass leaves its vector, no
\* count is negative, and nothing is returned before the end.
THEOREM TypeCorrect == Spec => []TypeOK
<1>1. IInv => TypeOK
    BY DEF IInv
<1> QED BY <1>1, Invariant, PTL

\* Whatever the observations, each has exactly one row in exactly one table of
\* a magnitude that is returned, in order.
THEOREM AccountedOnce == Spec => []AccountedExactlyOnce
<1>1. ASSUME IInv PROVE AccountedExactlyOnce
    <2> SUFFICES ASSUME Succeeded
                 PROVE  /\ Len(residuals) + Len(rejectedObservations) = Len(observations)
                        /\ \A n \in DOMAIN observations :
                              (\E k \in DOMAIN residuals : residuals[k][2] = n)
                                  # (\E k \in DOMAIN rejectedObservations :
                                        rejectedObservations[k][2] = n)
                        /\ Ascending(residuals)
                        /\ Ascending(rejectedObservations)
        BY DEF AccountedExactlyOnce
    <2>1. /\ Len(observations) \in Nat /\ DOMAIN observations = 1 .. Len(observations)
          /\ index = Len(observations) + 1
          /\ Rows(residuals, Good(observations, index))
          /\ Rows(rejectedObservations, Bad(observations, index))
          /\ Len(residuals) + Len(rejectedObservations) = index - 1
        BY <1>1, AnObservation DEF IInv, TableInv
    <2>2. \A n \in DOMAIN observations :
             (n \in Good(observations, index)) # (n \in Bad(observations, index))
        BY <2>1 DEF Good, Bad
    <2>3. \A n \in DOMAIN observations :
             /\ (\E k \in DOMAIN residuals : residuals[k][2] = n)
                    <=> n \in Good(observations, index)
             /\ (\E k \in DOMAIN rejectedObservations : rejectedObservations[k][2] = n)
                    <=> n \in Bad(observations, index)
        BY <2>1 DEF Rows
    <2>4. ASSUME NEW n \in DOMAIN observations
          PROVE  (\E k \in DOMAIN residuals : residuals[k][2] = n)
                     # (\E k \in DOMAIN rejectedObservations : rejectedObservations[k][2] = n)
        <3>1. CASE n \in Good(observations, index)
            <4>1. \E k \in DOMAIN residuals : residuals[k][2] = n
                BY <2>3, <3>1
            <4>2. ~\E k \in DOMAIN rejectedObservations : rejectedObservations[k][2] = n
                BY <2>2, <2>3, <3>1
            <4> QED BY <4>1, <4>2, Zenon
        <3>2. CASE n \notin Good(observations, index)
            <4>1. ~\E k \in DOMAIN residuals : residuals[k][2] = n
                BY <2>3, <3>2
            <4>2. \E k \in DOMAIN rejectedObservations : rejectedObservations[k][2] = n
                BY <2>2, <2>3, <3>2
            <4> QED BY <4>1, <4>2, Zenon
        <3> QED BY <3>1, <3>2
    <2>5. Ascending(residuals) /\ Ascending(rejectedObservations)
        BY <2>1 DEF Rows
    <2>6. Len(residuals) + Len(rejectedObservations) = Len(observations)
        <3>1. index - 1 = Len(observations)
            BY <2>1
        <3> QED BY <2>1, <3>1, Zenon
    <2> QED BY <2>4, <2>5, <2>6
<1> QED BY <1>1, Invariant, PTL

\* A magnitude is only ever returned from as many distinct stations as the
\* options ask for, whatever they ask for.
THEOREM Enough == Spec => []EnoughStations
<1>1. ASSUME IInv PROVE EnoughStations
    <2> DEFINE good == Good(observations, Len(observations) + 1)
               names == {observations[residuals[k][2]].station : k \in DOMAIN residuals}
               f == [n \in good |-> observations[n].station]
    <2> SUFFICES ASSUME Succeeded
                 PROVE  Cardinality(names) >= MinimumNumberOfStationMagnitudes
        BY DEF EnoughStations
    <2>1. /\ Len(observations) \in Nat
          /\ index = Len(observations) + 1
          /\ Rows(residuals, good)
          /\ nStationMagnitudes = Cardinality(good)
          /\ nStationMagnitudes >= MinimumNumberOfStationMagnitudes
          /\ Differ(observations, Len(observations) + 1)
        BY <1>1, AnObservation DEF IInv, TableInv, CountInv, DistinctInv
    <2>2. IsFiniteSet(good)
        BY <2>1, NextObservation
    <2>3. names = {observations[n].station : n \in good}
        BY <2>1 DEF Rows
    <2>4. \A m, n \in good : f[m] = f[n] => m = n
        <3>1. \A n \in good : n \in 1 .. (Len(observations) + 1) - 1
            BY DEF Good
        <3>2. \A n \in good : f[n] = observations[n].station
            OBVIOUS
        <3> HIDE DEF good, f
        <3> QED BY <2>1, <3>1, <3>2 DEF Differ
    <2>5. f \in Bijection(good, names)
        BY <2>3, <2>4 DEF Bijection, Injection, Surjection, IsInjective
    <2>6. ExistsBijection(good, names)
        BY <2>5 DEF ExistsBijection
    <2>7. Cardinality(names) = Cardinality(good)
        BY <2>2, <2>6, FS_Bijection
    <2> QED BY <2>1, <2>7
<1> QED BY <1>1, Invariant, PTL

\* No observation is rejected without a reason a client can be told.
THEOREM Reasons == Spec => []EveryRejectionHasAReason
<1>1. ASSUME IInv PROVE EveryRejectionHasAReason
    <2> SUFFICES ASSUME NEW k \in DOMAIN rejectedObservations
                 PROVE  Reason(rejectedObservations[k][1]) # "REASON_UNSPECIFIED"
        BY DEF EveryRejectionHasAReason
    <2> DEFINE n == rejectedObservations[k][2]
               code == StationCode(observations[n])
    <2>1. phase = "tabulate" \/ Succeeded
        BY <1>1 DEF IInv, TableInv
    <2>2. /\ Rows(rejectedObservations, Bad(observations, index))
          /\ rejectedObservations[k][1] = code
        BY <1>1, <2>1 DEF IInv, TableInv
    <2>3. n \in Bad(observations, index)
        BY <2>2 DEF Rows
    <2>4. code # NoError
        BY <2>3 DEF Bad
    <2>5. code # Terminate
        <3>1. /\ Len(observations) \in Nat /\ Len(workItems) = Len(observations)
              /\ index \in 1 .. Len(observations) + 1
            BY <1>1, <2>1, AnObservation DEF IInv, WorkInv, IndexInv, TableInv
        <3>2. n \in 1 .. Len(workItems)
            BY <2>3, <3>1 DEF Bad
        <3> HIDE DEF n
        <3> QED BY <1>1, <3>2 DEF IInv, WorkInv
    <2>6. code \in StationCodes
        BY CodesOfStations
    <2> HIDE DEF code
    <2>7. Reason(code) # "REASON_UNSPECIFIED"
        BY <2>4, <2>5, <2>6 DEF StationCodes, Reason, NoError, Terminate
    <2> QED BY <2>2, <2>7
<1> QED BY <1>1, Invariant, PTL

-----------------------------------------------------------------------------

(***************************************************************************)
(* Sums.  SumFunction is a fold over a set, one element at a time.  That   *)
(* the order does not matter is an induction on the size of the set, done  *)
(* on the set of the sizes for which it holds.                             *)
(***************************************************************************)

\* A set that holds 0 and the successor of each of its numbers holds every number.
LEMMA Induction ==
    ASSUME NEW T, 0 \in T, \A n \in Nat : n \in T => n + 1 \in T
    PROVE  Nat \subseteq T
<1> DEFINE R == OpToRel(<, Nat)
<1> SUFFICES ASSUME Nat \ T # {} PROVE FALSE
    OBVIOUS
<1>1. IsWellFoundedOn(R, Nat)
    BY NatLessThanWellFounded
<1>2. \A m, n \in Nat : <<m, n>> \in R <=> m < n
    BY DEF OpToRel
<1> HIDE DEF R
<1>3. PICK k \in Nat \ T : \A m \in Nat \ T : ~(<<m, k>> \in R)
    BY <1>1, WFMin
<1>4. k # 0 /\ k - 1 \in Nat /\ k - 1 < k /\ (k - 1) + 1 = k
    BY <1>3
<1>5. k - 1 \in T
    BY <1>2, <1>3, <1>4
<1> QED BY <1>3, <1>4, <1>5

\* Some numbers have a least one.
LEMMA LeastNumber ==
    ASSUME NEW T, T \subseteq Nat, T # {}
    PROVE  \E k \in T : \A m \in T : k <= m
<1> DEFINE R == OpToRel(<, Nat)
<1>1. IsWellFoundedOn(R, Nat)
    BY NatLessThanWellFounded
<1>2. \A m, n \in Nat : <<m, n>> \in R <=> m < n
    BY DEF OpToRel
<1> HIDE DEF R
<1>3. PICK k \in T : \A m \in T : ~(<<m, k>> \in R)
    BY <1>1, WFMin
<1>4. ASSUME NEW m \in T PROVE k <= m
    <2>1. k \in Nat /\ m \in Nat /\ ~(<<m, k>> \in R)
        BY <1>3
    <2>2. ~(m < k)
        BY <1>2, <2>1
    <2> QED BY <2>1, <2>2
<1> QED BY <1>3, <1>4

\* The element that is summed first, the subsets of at most n elements, and the
\* sums over the subsets of S, each from that of one smaller.
Chosen(s) == CHOOSE x \in s : TRUE
Small(S, n) == {s \in SUBSET S : Cardinality(s) <= n}
PartialStep(it, f, s) == IF s = {} THEN 0 ELSE f[Chosen(s)] + it[s \ {Chosen(s)}]
Partial(f, S) == CHOOSE it : it = [s \in SUBSET S |-> PartialStep(it, f, s)]

\* A sum is the last of its partial sums.
LEMMA SumIsPartial ==
    ASSUME NEW S, NEW f, DOMAIN f = S
    PROVE  SumFunction(f) = Partial(f, S)[S]
    BY DEF SumFunction, SumFunctionOnSet, FoldFunctionOnSet, MapThenFoldSet, Partial, PartialStep, Chosen

\* What is chosen from a set is of it.
LEMMA ChosenIs == ASSUME NEW s, s # {} PROVE Chosen(s) \in s
    BY DEF Chosen

\* The subsets of a finite set by their size: taking an element away makes one smaller.
LEMMA SmallSets ==
    ASSUME NEW S, IsFiniteSet(S)
    PROVE  /\ SUBSET S = Small(S, Cardinality(S)) /\ Cardinality(S) \in Nat
           /\ \A n : Small(S, n) \subseteq SUBSET S
           /\ Small(S, 0) = {{}}
           /\ \A n \in Nat : Small(S, n) \subseteq Small(S, n + 1)
           /\ \A n \in Nat : \A s \in Small(S, n + 1) : \A x \in s : s \ {x} \in Small(S, n) /\ x \in S
<1>1. \A s \in SUBSET S : IsFiniteSet(s) /\ Cardinality(s) \in Nat /\ Cardinality(s) <= Cardinality(S)
    BY FS_Subset, FS_CardinalityType
<1>2. S \in SUBSET S
    OBVIOUS
<1>3. SUBSET S = Small(S, Cardinality(S)) /\ Cardinality(S) \in Nat
    BY <1>1, <1>2 DEF Small
<1>4. \A s \in SUBSET S : Cardinality(s) <= 0 <=> s = {}
    BY <1>1, FS_EmptySet
<1>5. Small(S, 0) = {{}}
    BY <1>4 DEF Small
<1>6. \A n \in Nat : Small(S, n) \subseteq Small(S, n + 1)
    BY <1>1 DEF Small
<1>7. ASSUME NEW n \in Nat, NEW s \in Small(S, n + 1), NEW x \in s
      PROVE  s \ {x} \in Small(S, n) /\ x \in S
    <2>1. s \in SUBSET S /\ Cardinality(s) <= n + 1
        BY DEF Small
    <2>2. Cardinality(s \ {x}) = Cardinality(s) - 1
        BY <1>1, <2>1, FS_RemoveElement
    <2> QED BY <1>1, <2>1, <2>2 DEF Small
<1>8. \A n : Small(S, n) \subseteq SUBSET S
    BY DEF Small
<1> QED BY <1>3, <1>5, <1>6, <1>7, <1>8

\* There are partial sums: each follows from that of the set without its chosen element.
LEMMA PartialExists ==
    ASSUME NEW S, IsFiniteSet(S), NEW f \in [S -> Int]
    PROVE  \A s \in SUBSET S : Partial(f, S)[s] = PartialStep(Partial(f, S), f, s)
<1> DEFINE Below(it, n) == \A s \in Small(S, n) : it[s] = PartialStep(it, f, s)
           T == {n \in Nat : \E it \in [Small(S, n) -> Int] : Below(it, n)}
<1>1. 0 \in T
    <2>1. [s \in {{}} |-> 0] \in [Small(S, 0) -> Int]
        BY SmallSets
    <2>2. Below([s \in {{}} |-> 0], 0)
        BY SmallSets DEF PartialStep
    <2> QED BY <2>1, <2>2
<1>2. ASSUME NEW n \in Nat, n \in T PROVE n + 1 \in T
    <2>1. PICK it \in [Small(S, n) -> Int] : Below(it, n)
        BY <1>2
    <2> DEFINE more == [s \in Small(S, n + 1) |-> PartialStep(it, f, s)]
    <2>2. \A s \in Small(S, n) : more[s] = it[s]
        BY <2>1, SmallSets
    <2>3. ASSUME NEW s \in Small(S, n + 1), s # {}
          PROVE  s \ {Chosen(s)} \in Small(S, n) /\ Chosen(s) \in S
        BY <2>3, SmallSets, ChosenIs
    <2>4. \A s \in Small(S, n + 1) : PartialStep(it, f, s) \in Int
        BY <2>1, <2>3 DEF PartialStep
    <2>5. more \in [Small(S, n + 1) -> Int]
        BY <2>4
    <2>6. \A s \in Small(S, n + 1) : more[s] = PartialStep(it, f, s)
        OBVIOUS
    <2> HIDE DEF more
    <2>7. Below(more, n + 1)
        BY <2>2, <2>3, <2>6 DEF PartialStep
    <2> QED BY <2>5, <2>7
<1>3. Nat \subseteq T
    <2> HIDE DEF T
    <2> QED BY <1>1, <1>2, Induction
<1>4. PICK it \in [SUBSET S -> Int] : \A s \in SUBSET S : it[s] = PartialStep(it, f, s)
    <2>1. Cardinality(S) \in T
        BY <1>3, SmallSets
    <2> QED BY <2>1, SmallSets
<1>5. it = [s \in SUBSET S |-> PartialStep(it, f, s)]
    BY <1>4
<1>6. Partial(f, S) = [s \in SUBSET S |-> PartialStep(Partial(f, S), f, s)]
    BY <1>5 DEF Partial
<1> QED BY <1>6

\* The partial sums of numbers are numbers.
LEMMA PartialType ==
    ASSUME NEW S, IsFiniteSet(S), NEW f \in [S -> Int]
    PROVE  \A s \in SUBSET S : Partial(f, S)[s] \in Int
<1> DEFINE it == Partial(f, S)
           T == {n \in Nat : \A s \in Small(S, n) : it[s] \in Int}
<1>1. \A s \in SUBSET S : it[s] = PartialStep(it, f, s)
    BY PartialExists
<1> HIDE DEF it
<1>6. it[{}] = 0
    <2>1. {} \in SUBSET S
        OBVIOUS
    <2>2. it[{}] = PartialStep(it, f, {})
        BY <1>1, <2>1
    <2> QED BY <2>2 DEF PartialStep
<1>2. 0 \in T
    <2>1. Small(S, 0) = {{}}
        BY SmallSets
    <2> QED BY <1>6, <2>1
<1>3. ASSUME NEW n \in Nat, n \in T PROVE n + 1 \in T
    <2> SUFFICES ASSUME NEW s \in Small(S, n + 1) PROVE it[s] \in Int
        OBVIOUS
    <2>1. s \in SUBSET S
        BY SmallSets
    <2>2. CASE s = {}
        BY <1>6, <2>2
    <2>3. CASE s # {}
        <3>1. s \ {Chosen(s)} \in Small(S, n) /\ Chosen(s) \in S
            BY <2>3, SmallSets, ChosenIs
        <3>2. it[s \ {Chosen(s)}] \in Int
            BY <1>3, <3>1
        <3>3. it[s] = PartialStep(it, f, s)
            BY <1>1, <2>1
        <3>4. it[s] = f[Chosen(s)] + it[s \ {Chosen(s)}]
            BY <2>3, <3>3 DEF PartialStep
        <3>5. f[Chosen(s)] \in Int
            BY <3>1
        <3> QED BY <3>2, <3>4, <3>5
    <2> QED BY <2>2, <2>3
<1>4. Nat \subseteq T
    <2> HIDE DEF T
    <2> QED BY <1>2, <1>3, Induction
<1>5. Cardinality(S) \in T /\ SUBSET S = Small(S, Cardinality(S))
    BY <1>4, SmallSets
<1> QED BY <1>5 DEF it

\* Any element may be taken away first, not only the chosen one.
LEMMA PartialRemove ==
    ASSUME NEW S, IsFiniteSet(S), NEW f \in [S -> Int]
    PROVE  \A s \in SUBSET S : \A x \in s :
               Partial(f, S)[s] = f[x] + Partial(f, S)[s \ {x}]
<1> DEFINE it == Partial(f, S)
           T == {n \in Nat : \A s \in Small(S, n) : \A x \in s : it[s] = f[x] + it[s \ {x}]}
<1>1. \A s \in SUBSET S : it[s] = PartialStep(it, f, s) /\ it[s] \in Int
    BY PartialExists, PartialType
<1> HIDE DEF it
<1>2. 0 \in T
    BY SmallSets
<1>3. ASSUME NEW n \in Nat, n \in T PROVE n + 1 \in T
    <2> SUFFICES ASSUME NEW s \in Small(S, n + 1), NEW x \in s
                 PROVE  it[s] = f[x] + it[s \ {x}]
        OBVIOUS
    <2> DEFINE a == Chosen(s)
    <2>1. /\ s \ {a} \in Small(S, n) /\ s \ {x} \in Small(S, n) /\ s \in SUBSET S
          /\ a \in s /\ a \in S /\ x \in S /\ f[a] \in Int /\ f[x] \in Int
        BY SmallSets, ChosenIs
    <2>2. it[s] = f[a] + it[s \ {a}]
        BY <1>1, <2>1 DEF PartialStep
    <2>3. CASE x = a
        BY <2>2, <2>3
    <2>4. CASE x # a
        <3> DEFINE rest == s \ {a, x}
        <3>1. x \in s \ {a} /\ a \in s \ {x} /\ rest = (s \ {a}) \ {x}
              /\ rest = (s \ {x}) \ {a} /\ rest \in SUBSET S
            BY <2>1, <2>4
        <3>2. it[s \ {a}] = f[x] + it[rest]
            BY <1>3, <2>1, <3>1
        <3>3. it[s \ {x}] = f[a] + it[rest]
            BY <1>3, <2>1, <3>1
        <3>4. it[rest] \in Int
            BY <1>1, <3>1
        <3> HIDE DEF rest, a
        <3> QED BY <2>1, <2>2, <3>2, <3>3, <3>4
    <2> QED BY <2>3, <2>4
<1>4. Nat \subseteq T
    <2> HIDE DEF T
    <2> QED BY <1>2, <1>3, Induction
<1>5. Cardinality(S) \in T /\ SUBSET S = Small(S, Cardinality(S))
    BY <1>4, SmallSets
<1> QED BY <1>5 DEF it

\* A partial sum does not depend on what is not summed.
LEMMA PartialAgree ==
    ASSUME NEW S, IsFiniteSet(S), NEW f \in [S -> Int],
           NEW U \in SUBSET S, NEW g \in [U -> Int], \A y \in U : g[y] = f[y]
    PROVE  \A s \in SUBSET U : Partial(g, U)[s] = Partial(f, S)[s]
<1> DEFINE it == Partial(f, S)
           ig == Partial(g, U)
           T == {n \in Nat : \A s \in Small(U, n) : ig[s] = it[s]}
<1>0. IsFiniteSet(U)
    BY FS_Subset
<1>1. /\ \A s \in SUBSET S : it[s] = PartialStep(it, f, s)
      /\ \A s \in SUBSET U : ig[s] = PartialStep(ig, g, s)
    BY <1>0, PartialExists
<1> HIDE DEF it, ig
<1>2. 0 \in T
    <2>1. Small(U, 0) = {{}}
        BY <1>0, SmallSets
    <2>2. ig[{}] = it[{}]
        BY <1>1 DEF PartialStep
    <2> QED BY <2>1, <2>2
<1>3. ASSUME NEW n \in Nat, n \in T PROVE n + 1 \in T
    <2> SUFFICES ASSUME NEW s \in Small(U, n + 1) PROVE ig[s] = it[s]
        OBVIOUS
    <2>1. s \in SUBSET U /\ s \in SUBSET S
        BY <1>0, SmallSets
    <2>2. CASE s = {}
        BY <1>1, <2>2 DEF PartialStep
    <2>3. CASE s # {}
        <3>1. s \ {Chosen(s)} \in Small(U, n) /\ Chosen(s) \in U
            BY <1>0, <2>3, SmallSets, ChosenIs
        <3>2. ig[s \ {Chosen(s)}] = it[s \ {Chosen(s)}]
            BY <1>3, <3>1
        <3> QED BY <1>1, <2>1, <2>3, <3>1, <3>2 DEF PartialStep
    <2> QED BY <2>2, <2>3
<1>4. Nat \subseteq T
    <2> HIDE DEF T
    <2> QED BY <1>2, <1>3, Induction
<1>5. Cardinality(U) \in T /\ SUBSET U = Small(U, Cardinality(U))
    BY <1>0, <1>4, SmallSets
<1> QED BY <1>5 DEF it, ig

\* Nothing sums to zero.
LEMMA SumEmpty ==
    ASSUME NEW f, DOMAIN f = {}
    PROVE  SumFunction(f) = 0
<1>1. f \in [{} -> Int]
    <2>1. f = [y \in {} |-> f[y]]
        OBVIOUS
    <2> QED BY <2>1
<1>2. Partial(f, {})[{}] = PartialStep(Partial(f, {}), f, {})
    BY <1>1, PartialExists, FS_EmptySet
<1> QED BY <1>2, SumIsPartial DEF PartialStep

\* A sum of finitely many numbers is a number.
LEMMA SumType ==
    ASSUME NEW S, IsFiniteSet(S), NEW f \in [S -> Int]
    PROVE  SumFunction(f) \in Int
    BY SumIsPartial, PartialType

\* A function on one element more sums to that much more.
LEMMA SumAdd ==
    ASSUME NEW S, IsFiniteSet(S), NEW x, x \notin S, NEW U, U = S \cup {x},
           NEW f \in [U -> Int], NEW g \in [S -> Int], \A y \in S : g[y] = f[y]
    PROVE  SumFunction(f) = f[x] + SumFunction(g)
<1>1. IsFiniteSet(U)
    BY FS_AddElement
<1>2. U \ {x} = S /\ S \in SUBSET U /\ x \in U /\ U \in SUBSET U /\ S \in SUBSET S
    OBVIOUS
<1>3. Partial(f, U)[U] = f[x] + Partial(f, U)[S]
    BY <1>1, <1>2, PartialRemove
<1>4. Partial(g, S)[S] = Partial(f, U)[S]
    BY <1>1, <1>2, PartialAgree
<1> QED BY <1>3, <1>4, SumIsPartial

\* The same, as what is left of a function without an element.
LEMMA SumLess ==
    ASSUME NEW f, IsFiniteSet(DOMAIN f), f \in [DOMAIN f -> Int], NEW x \in DOMAIN f,
           NEW g, g \in [DOMAIN g -> Int], \A y : y \in DOMAIN g <=> y \in DOMAIN f /\ y # x,
           \A y \in DOMAIN g : g[y] = f[y]
    PROVE  SumFunction(f) = f[x] + SumFunction(g)
<1>1. DOMAIN f = DOMAIN g \cup {x} /\ x \notin DOMAIN g /\ IsFiniteSet(DOMAIN g)
    <2>1. DOMAIN g \subseteq DOMAIN f
        OBVIOUS
    <2> QED BY <2>1, FS_Subset
<1> QED BY <1>1, SumAdd

\* Nothing sums to nothing.
LEMMA PartialNothing ==
    ASSUME NEW S, IsFiniteSet(S), NEW f \in [S -> Int]
    PROVE  \A s \in SUBSET S : s = {} => Partial(f, S)[s] = 0
    BY PartialExists DEF PartialStep

\* Numbers that are all positive have a positive sum.
LEMMA SumPositive ==
    ASSUME NEW S, IsFiniteSet(S), S # {}, NEW f \in [S -> Int], \A y \in S : f[y] > 0
    PROVE  SumFunction(f) > 0
<1> DEFINE it == Partial(f, S)
           T == {n \in Nat : \A s \in Small(S, n) : it[s] >= 0 /\ (s # {} => it[s] > 0)}
<1>1. /\ \A s \in SUBSET S : it[s] \in Int /\ (s = {} => it[s] = 0)
      /\ \A s \in SUBSET S : \A x \in s : it[s] = f[x] + it[s \ {x}]
    BY PartialNothing, PartialType, PartialRemove
<1> HIDE DEF it
<1>2. 0 \in T
    BY <1>1, SmallSets
<1>3. ASSUME NEW n \in Nat, n \in T PROVE n + 1 \in T
    <2> SUFFICES ASSUME NEW s \in Small(S, n + 1)
                 PROVE  it[s] >= 0 /\ (s # {} => it[s] > 0)
        OBVIOUS
    <2>1. s \in SUBSET S
        BY SmallSets
    <2>2. CASE s = {}
        BY <1>1, <2>1, <2>2
    <2>3. CASE s # {}
        <3>1. PICK x \in s : TRUE
            BY <2>3
        <3>2. s \ {x} \in Small(S, n) /\ s \ {x} \in SUBSET S /\ f[x] \in Int /\ f[x] > 0
            BY <2>1, SmallSets
        <3>3. it[s \ {x}] >= 0 /\ it[s \ {x}] \in Int /\ it[s] = f[x] + it[s \ {x}]
            BY <1>1, <1>3, <2>1, <3>2
        <3> QED BY <3>2, <3>3
    <2> QED BY <2>2, <2>3
<1>4. Nat \subseteq T
    <2> HIDE DEF T
    <2> QED BY <1>2, <1>3, Induction
<1>5. S \in Small(S, Cardinality(S)) /\ Cardinality(S) \in T
    BY <1>4, SmallSets
<1>6. it[S] > 0
    BY <1>5
<1> QED BY <1>6, SumIsPartial DEF it

\* The sum of the negatives is the negative of the sum.
LEMMA SumNegated ==
    ASSUME NEW S, IsFiniteSet(S), NEW f \in [S -> Int], NEW g \in [S -> Int],
           \A y \in S : g[y] = -f[y]
    PROVE  SumFunction(g) = -SumFunction(f)
<1> DEFINE it == Partial(f, S)
           ig == Partial(g, S)
           T == {n \in Nat : \A s \in Small(S, n) : ig[s] = -it[s]}
<1>1. /\ \A s \in SUBSET S : it[s] \in Int /\ ig[s] \in Int
      /\ \A s \in SUBSET S : s = {} => it[s] = 0 /\ ig[s] = 0
      /\ \A s \in SUBSET S : \A x \in s :
            it[s] = f[x] + it[s \ {x}] /\ ig[s] = g[x] + ig[s \ {x}]
    <2>1. /\ \A s \in SUBSET S : it[s] \in Int /\ (s = {} => it[s] = 0)
          /\ \A s \in SUBSET S : \A x \in s : it[s] = f[x] + it[s \ {x}]
        BY PartialNothing, PartialType, PartialRemove
    <2>2. /\ \A s \in SUBSET S : ig[s] \in Int /\ (s = {} => ig[s] = 0)
          /\ \A s \in SUBSET S : \A x \in s : ig[s] = g[x] + ig[s \ {x}]
        BY PartialNothing, PartialType, PartialRemove
    <2> HIDE DEF it, ig
    <2> QED BY <2>1, <2>2
<1> HIDE DEF it, ig
<1>2. 0 \in T
    BY <1>1, SmallSets
<1>3. ASSUME NEW n \in Nat, n \in T PROVE n + 1 \in T
    <2> SUFFICES ASSUME NEW s \in Small(S, n + 1) PROVE ig[s] = -it[s]
        OBVIOUS
    <2>1. s \in SUBSET S
        BY SmallSets
    <2>2. CASE s = {}
        BY <1>1, <2>1, <2>2
    <2>3. CASE s # {}
        <3>1. PICK x \in s : TRUE
            BY <2>3
        <3>2. s \ {x} \in Small(S, n) /\ s \ {x} \in SUBSET S /\ f[x] \in Int /\ g[x] = -f[x]
            BY <2>1, SmallSets
        <3>3. ig[s \ {x}] = -it[s \ {x}] /\ it[s \ {x}] \in Int
              /\ it[s] = f[x] + it[s \ {x}] /\ ig[s] = g[x] + ig[s \ {x}]
            BY <1>1, <1>3, <2>1, <3>2
        <3> QED BY <3>2, <3>3
    <2> QED BY <2>2, <2>3
<1>4. Nat \subseteq T
    <2> HIDE DEF T
    <2> QED BY <1>2, <1>3, Induction
<1>5. S \in Small(S, Cardinality(S)) /\ Cardinality(S) \in T
    BY <1>4, SmallSets
<1>6. ig[S] = -it[S]
    BY <1>5
<1> QED BY <1>6, SumIsPartial DEF it, ig

\* Numbers that cancel are not all on one side of 0.
LEMMA SumOfBothSigns ==
    ASSUME NEW S, IsFiniteSet(S), S # {}, NEW f \in [S -> Int], SumFunction(f) = 0
    PROVE  /\ \E y \in S : f[y] >= 0
           /\ \E y \in S : f[y] <= 0
<1> DEFINE g == [y \in S |-> -f[y]]
<1>1. g \in [S -> Int] /\ \A y \in S : g[y] = -f[y]
    OBVIOUS
<1>2. SumFunction(g) = 0
    <2> HIDE DEF g
    <2> QED BY <1>1, SumNegated
<1>3. ~\A y \in S : f[y] > 0
    BY SumPositive
<1>4. ~\A y \in S : g[y] > 0
    <2> HIDE DEF g
    <2> QED BY <1>1, <1>2, SumPositive
<1> QED BY <1>1, <1>3, <1>4

\* A sum does not depend on the names of what is summed.
LEMMA PartialRenamed ==
    ASSUME NEW Df, IsFiniteSet(Df), NEW f \in [Df -> Int],
           NEW Dg, IsFiniteSet(Dg), NEW p \in [Dg -> Df],
           \A u, v \in Dg : p[u] = p[v] => u = v, \A y \in Df : \E u \in Dg : p[u] = y,
           NEW g \in [Dg -> Int], \A u \in Dg : g[u] = f[p[u]]
    PROVE  SumFunction(g) = SumFunction(f)
<1> DEFINE it == Partial(f, Df)
           ig == Partial(g, Dg)
           Image(s) == {p[u] : u \in s}
           T == {n \in Nat : \A s \in Small(Dg, n) : ig[s] = it[Image(s)]}
<1>1. /\ \A s \in SUBSET Df : s = {} => it[s] = 0
      /\ \A s \in SUBSET Dg : s = {} => ig[s] = 0
      /\ \A s \in SUBSET Df : \A x \in s : it[s] = f[x] + it[s \ {x}]
      /\ \A s \in SUBSET Dg : \A x \in s : ig[s] = g[x] + ig[s \ {x}]
    <2>1. /\ \A s \in SUBSET Df : s = {} => it[s] = 0
          /\ \A s \in SUBSET Df : \A x \in s : it[s] = f[x] + it[s \ {x}]
        BY PartialNothing, PartialRemove
    <2>2. /\ \A s \in SUBSET Dg : s = {} => ig[s] = 0
          /\ \A s \in SUBSET Dg : \A x \in s : ig[s] = g[x] + ig[s \ {x}]
        BY PartialNothing, PartialRemove
    <2> HIDE DEF it, ig
    <2> QED BY <2>1, <2>2
<1> HIDE DEF it, ig
<1>2. 0 \in T
    <2>1. \A s \in Small(Dg, 0) : s = {} /\ s \in SUBSET Dg /\ Image(s) = {}
        BY SmallSets
    <2> QED BY <1>1, <2>1
<1>3. ASSUME NEW n \in Nat, n \in T PROVE n + 1 \in T
    <2> SUFFICES ASSUME NEW s \in Small(Dg, n + 1) PROVE ig[s] = it[Image(s)]
        OBVIOUS
    <2>1. s \in SUBSET Dg /\ Image(s) \in SUBSET Df
        BY SmallSets
    <2>2. CASE s = {}
        BY <1>1, <2>1, <2>2
    <2>3. CASE s # {}
        <3>1. PICK u \in s : TRUE
            BY <2>3
        <3>2. s \ {u} \in Small(Dg, n) /\ p[u] \in Image(s)
            BY SmallSets
        <3>3. Image(s \ {u}) = Image(s) \ {p[u]}
            BY <2>1
        <3>4. ig[s \ {u}] = it[Image(s \ {u})]
            BY <1>3, <3>2
        <3>5. ig[s] = g[u] + ig[s \ {u}] /\ it[Image(s)] = f[p[u]] + it[Image(s) \ {p[u]}]
            <4> HIDE DEF Image
            <4> QED BY <1>1, <2>1, <3>2
        <3> QED BY <2>1, <3>3, <3>4, <3>5
    <2> QED BY <2>2, <2>3
<1>4. Nat \subseteq T
    <2> HIDE DEF T
    <2> QED BY <1>2, <1>3, Induction
<1>5. Dg \in Small(Dg, Cardinality(Dg)) /\ Cardinality(Dg) \in T
    BY <1>4, SmallSets
<1>6. Image(Dg) = Df
    OBVIOUS
<1>7. ig[Dg] = it[Df]
    BY <1>5, <1>6
<1> QED BY <1>7, SumIsPartial DEF it, ig

\* The same, of a bijection.
LEMMA SumRenamed ==
    ASSUME NEW Df, IsFiniteSet(Df), NEW f \in [Df -> Int],
           NEW Dg, IsFiniteSet(Dg), NEW g \in [Dg -> Int],
           NEW p \in Bijection(Dg, Df), \A u \in Dg : g[u] = f[p[u]]
    PROVE  SumFunction(g) = SumFunction(f)
<1>1. /\ p \in [Dg -> Df]
      /\ \A u, v \in Dg : p[u] = p[v] => u = v
      /\ \A y \in Df : \E u \in Dg : p[u] = y
    BY DEF Bijection, Injection, Surjection, IsInjective
<1> QED BY <1>1, PartialRenamed

-----------------------------------------------------------------------------

(***************************************************************************)
(* The sum of the station magnitudes, and the residuals made from it.      *)
(***************************************************************************)

\* The sum over the observations before the i-th, as the promise states it.
SumTo(obs, i) == SumFunction([n \in Good(obs, i) |-> StationMagnitude(obs[n])])

SumOfRows == SumFunction([k \in DOMAIN residuals |-> residuals[k][1]])

\* The running sum is that of the observations passed, and final when it is used.
SumInv ==
    /\ phase \in {"enter", "complete", "duplicates", "stations", "enough"} => sum = 0
    /\ phase = "average" => sum = SumTo(observations, index)
    /\ phase \in {"value", "tabulate"} \/ Succeeded =>
          sum = SumTo(observations, Len(observations) + 1)

\* Each row is the residual of its observation; together the rows are short of nothing
\* by what was not tabulated.
ResidualInv ==
    phase = "tabulate" \/ Succeeded =>
        /\ Len(residuals) = Cardinality(Good(observations, index))
        /\ \A k \in DOMAIN residuals :
              residuals[k][1] = sum - nStationMagnitudes
                                        * StationMagnitude(observations[residuals[k][2]])
        /\ SumOfRows = Len(residuals) * sum - nStationMagnitudes * SumTo(observations, index)

\* One more observation adds its magnitude, if it has one.
LEMMA NextSum ==
    ASSUME NEW obs \in Seq(Observation), NEW i \in 1 .. Len(obs)
    PROVE  /\ SumTo(obs, i) \in Int
           /\ StationCode(obs[i]) = NoError =>
                 /\ StationMagnitude(obs[i]) \in Int
                 /\ SumTo(obs, i + 1) = StationMagnitude(obs[i]) + SumTo(obs, i)
           /\ StationCode(obs[i]) # NoError => SumTo(obs, i + 1) = SumTo(obs, i)
<1> DEFINE good == Good(obs, i)
           value(n) == StationMagnitude(obs[n])
<1>0. Len(obs) \in Nat /\ i \in Nat \ {0}
    OBVIOUS
<1>1. IsFiniteSet(good) /\ i \notin good
    BY <1>0, NextObservation
<1>2. \A n \in good : value(n) \in Int
    <2> SUFFICES ASSUME NEW n \in good PROVE value(n) \in Int
        OBVIOUS
    <2>1. n \in 1 .. Len(obs) /\ StationCode(obs[n]) = NoError
        BY <1>0 DEF Good
    <2>2. obs[n] \in Observation
        BY <2>1
    <2> QED BY <2>1, <2>2, MagnitudeIsNumber
<1>3. SumTo(obs, i) \in Int
    <2>1. [n \in good |-> value(n)] \in [good -> Int]
        BY <1>2
    <2> QED BY <1>1, <2>1, SumType DEF SumTo
<1>4. ASSUME StationCode(obs[i]) = NoError
      PROVE  value(i) \in Int /\ SumTo(obs, i + 1) = value(i) + SumTo(obs, i)
    <2> DEFINE more == Good(obs, i + 1)
               f == [n \in more |-> value(n)]
               g == [n \in good |-> value(n)]
    <2>1. value(i) \in Int
        BY <1>4, MagnitudeIsNumber
    <2>2. more = good \cup {i}
        BY <1>0, <1>4, NextObservation
    <2>3. f \in [more -> Int] /\ g \in [good -> Int] /\ \A n \in good : g[n] = f[n]
        BY <1>2, <2>1, <2>2
    <2>4. f[i] = value(i)
        BY <2>2
    <2>5. SumTo(obs, i + 1) = SumFunction(f) /\ SumTo(obs, i) = SumFunction(g)
        BY DEF SumTo
    <2> HIDE DEF f, g, good, value, more
    <2>6. SumFunction(f) = f[i] + SumFunction(g)
        BY <1>1, <2>2, <2>3, SumAdd
    <2> QED BY <2>1, <2>4, <2>5, <2>6
<1>5. ASSUME StationCode(obs[i]) # NoError PROVE SumTo(obs, i + 1) = SumTo(obs, i)
    BY <1>0, <1>5, NextObservation DEF SumTo
<1> QED BY <1>3, <1>4, <1>5

\* Before the first observation the sum is zero.
LEMMA FirstSum == ASSUME NEW obs PROVE SumTo(obs, 1) = 0
<1>1. DOMAIN [n \in Good(obs, 1) |-> StationMagnitude(obs[n])] = {}
    BY NothingBefore
<1> QED BY <1>1, SumEmpty DEF SumTo

\* What is between the steps of two passes stays.
LEMMA SumKeeps ==
    ASSUME IInv, IInv', SumInv, [Next]_vars
    PROVE  SumInv'
<1>1. CASE UNCHANGED vars
    BY <1>1 DEF vars, SumInv, Succeeded
<1>2. CASE CheckEmpty \/ CheckComplete \/ CheckDuplicate \/ ComputeStation
    <2>1. phase \in {"enter", "complete", "duplicates", "stations"} /\ sum' = sum
        BY <1>2 DEF CheckEmpty, CheckComplete, CheckDuplicate, ComputeStation, totals
    <2>2. phase' \in {"enter", "complete", "duplicates", "stations", "enough"}
          \/ (phase' = "returned" /\ ~Succeeded')
        <3>1. \A code : Fail(code) /\ code # NoError => phase' = "returned" /\ ~Succeeded'
            BY FailureFails
        <3>2. "NoObservations" # NoError /\ "DuplicateObservations" # NoError
              /\ Terminate # NoError
            BY DEF NoError, Terminate
        <3> QED BY <1>2, <3>1, <3>2
                DEF CheckEmpty, CheckComplete, CheckDuplicate, ComputeStation, Enter, Continue
    <2> QED BY <2>1, <2>2 DEF SumInv, Succeeded
<1>3. CASE CheckEnoughWork
    <2>1. phase = "enough" /\ sum' = sum /\ sum = 0 /\ observations' = observations
        BY <1>3 DEF CheckEnoughWork, SumInv, totals
    <2>2. CASE Fail("TooFewObservations")
        <3>1. phase' = "returned" /\ ~Succeeded'
            BY <2>2, FailureFails DEF NoError
        <3> QED BY <3>1 DEF SumInv
    <2>3. CASE Enter("average")
        BY <2>1, <2>3, FirstSum DEF SumInv, Enter, Succeeded
    <2> QED BY <1>3, <2>2, <2>3 DEF CheckEnoughWork
<1>4. CASE Accumulate
    <2>1. /\ phase = "average" /\ observations' = observations
          /\ index \in 1 .. Len(observations) + 1
          /\ observations \in Seq(Observation) /\ Len(observations) \in Nat
          /\ Len(workItems) = Len(observations) /\ sum = SumTo(observations, index)
        BY <1>4, AnObservation DEF Accumulate, IInv, IndexInv, WorkInv, SumInv
    <2>2. CASE index > Len(workItems)
        <3>1. phase' = "value" /\ sum' = sum
            BY <1>4, <2>2 DEF Accumulate, Enter, totals
        <3>2. index = Len(observations) + 1
            BY <2>1, <2>2
        <3> QED BY <2>1, <3>1, <3>2 DEF SumInv, Succeeded
    <2>3. CASE index <= Len(workItems)
        <3>1. index \in 1 .. Len(observations) /\ sum \in Int
            BY <2>1, <2>3 DEF IInv, TypeOK
        <3>2. workItems[index].code = StationCode(observations[index])
            <4>1. workItems[index] =
                     [observationNumber |-> index, code |-> StationCode(observations[index])]
                BY <2>1, <3>1 DEF IInv, WorkInv
            <4> QED BY <4>1
        <3>3. /\ phase' = "average" /\ index' = index + 1
              /\ sum' = IF StationCode(observations[index]) = NoError
                        THEN sum + StationMagnitude(observations[index]) ELSE sum
            BY <1>4, <2>1, <2>3, <3>1, <3>2 DEF Accumulate, Continue, totals
        <3>4. sum' = SumTo(observations, index + 1)
            BY <2>1, <3>1, <3>3, NextSum
        <3> QED BY <2>1, <3>3, <3>4 DEF SumInv, Succeeded
    <2>4. Len(workItems) \in Nat /\ index \in Int
        BY <2>1
    <2> QED BY <2>2, <2>3, <2>4
<1>5. CASE SetValue
    <2>1. phase = "value" /\ sum' = sum /\ observations' = observations
          /\ sum = SumTo(observations, Len(observations) + 1)
        BY <1>5 DEF SetValue, SumInv, totals
    <2>2. CASE Fail("TooFewObservations") \/ Fail("Algorithm")
        <3>1. phase' = "returned" /\ ~Succeeded'
            BY <2>2, FailureFails DEF NoError
        <3> QED BY <3>1 DEF SumInv
    <2>3. CASE Enter("tabulate")
        BY <2>1, <2>3 DEF SumInv, Enter, Succeeded
    <2> QED BY <1>5, <2>2, <2>3 DEF SetValue
<1>6. CASE Tabulate \/ Return
    <2>1. phase = "tabulate" /\ sum' = sum /\ observations' = observations
          /\ sum = SumTo(observations, Len(observations) + 1)
          /\ phase' \in {"tabulate", "returned"}
        BY <1>6 DEF Tabulate, Return, Continue, SumInv, totals
    <2> QED BY <2>1 DEF SumInv
<1> QED BY <1>1, <1>2, <1>3, <1>4, <1>5, <1>6 DEF Next

\* The rows and what is still to be tabulated stay in balance when a row is added.
LEMMA OneMoreRow ==
    ASSUME NEW l \in Int, NEW s \in Int, NEW n \in Int, NEW v \in Int, NEW p \in Int
    PROVE  (s - n * v) + (l * s - n * p) = (l + 1) * s - n * (v + p)
<1>1. (l + 1) * s = l * s + s
    OBVIOUS
<1>2. n * (v + p) = n * v + n * p
    OBVIOUS
<1>3. n * v \in Int /\ n * p \in Int /\ l * s \in Int
    OBVIOUS
<1> QED BY <1>1, <1>2, <1>3

\* A sum over a sequence one longer.
LEMMA SumUpTo ==
    ASSUME NEW l \in Nat, NEW after \in [1 .. l + 1 -> Int], NEW before \in [1 .. l -> Int],
           \A k \in 1 .. l : before[k] = after[k]
    PROVE  SumFunction(after) = after[l + 1] + SumFunction(before)
<1>1. IsFiniteSet(DOMAIN after)
    BY FS_Interval
<1>2. \A y : y \in DOMAIN before <=> y \in DOMAIN after /\ y # l + 1
    OBVIOUS
<1>3. /\ l + 1 \in DOMAIN after /\ after \in [DOMAIN after -> Int]
      /\ before \in [DOMAIN before -> Int]
      /\ \A k \in DOMAIN before : before[k] = after[k]
    OBVIOUS
<1> QED BY <1>1, <1>2, <1>3, SumLess

\* The residuals tabulated so far, as a sum.
LEMMA RowsGrow ==
    ASSUME NEW T, NEW pairs \in Seq(Int \X T), NEW row \in Int \X T
    PROVE  SumFunction([k \in DOMAIN Append(pairs, row) |-> Append(pairs, row)[k][1]])
              = row[1] + SumFunction([k \in DOMAIN pairs |-> pairs[k][1]])
<1> DEFINE l == Len(pairs)
           more == Append(pairs, row)
           after == [k \in 1 .. l + 1 |-> more[k][1]]
           before == [k \in 1 .. l |-> pairs[k][1]]
<1>1. /\ l \in Nat /\ DOMAIN pairs = 1 .. l /\ DOMAIN more = 1 .. l + 1
      /\ \A k \in 1 .. l : more[k] = pairs[k] /\ pairs[k] \in Int \X T
      /\ more[l + 1] = row
    OBVIOUS
<1> HIDE DEF l, more
<1>2. /\ after \in [1 .. l + 1 -> Int] /\ before \in [1 .. l -> Int]
      /\ after[l + 1] = row[1] /\ \A k \in 1 .. l : before[k] = after[k]
    <2>1. \A k \in 1 .. l + 1 : k = l + 1 \/ k \in 1 .. l
        BY <1>1
    <2>2. \A k \in 1 .. l + 1 : more[k] \in Int \X T
        BY <1>1, <2>1
    <2>3. \A k \in 1 .. l + 1 : more[k][1] \in Int
        BY <2>2
    <2>4. \A k \in 1 .. l : pairs[k][1] \in Int /\ more[k][1] = pairs[k][1]
        BY <1>1
    <2>5. l + 1 \in 1 .. l + 1 /\ 1 .. l \subseteq 1 .. l + 1
        BY <1>1
    <2> QED BY <1>1, <2>3, <2>4, <2>5
<1>3. SumFunction(after) = after[l + 1] + SumFunction(before)
    <2> HIDE DEF after, before
    <2>1. l \in Nat
        BY <1>1
    <2> QED BY <1>2, <2>1, SumUpTo
<1> QED BY <1>1, <1>2, <1>3 DEF more

\* No pass leaves the residuals out of balance.
LEMMA ResidualKeeps ==
    ASSUME IInv, IInv', SumInv, ResidualInv, [Next]_vars
    PROVE  ResidualInv'
<1>1. CASE UNCHANGED vars
    BY <1>1 DEF vars, ResidualInv, Succeeded, SumOfRows
<1>2. CASE CheckEmpty \/ CheckComplete \/ CheckDuplicate \/ ComputeStation
            \/ CheckEnoughWork \/ Accumulate
    <2>1. phase' # "tabulate" /\ ~Succeeded'
        <3>1. \A code : Fail(code) /\ code # NoError => phase' = "returned" /\ ~Succeeded'
            BY FailureFails
        <3>2. "NoObservations" # NoError /\ "DuplicateObservations" # NoError
              /\ "TooFewObservations" # NoError /\ Terminate # NoError
            BY DEF NoError, Terminate
        <3>3. CASE phase' \in {"complete", "duplicates", "stations", "enough", "average", "value"}
            BY <3>3 DEF Succeeded
        <3>4. CASE CheckEmpty \/ CheckComplete \/ CheckDuplicate
            BY <3>1, <3>2, <3>3, <3>4 DEF CheckEmpty, CheckComplete, CheckDuplicate, Enter, Continue
        <3>5. CASE ComputeStation \/ CheckEnoughWork \/ Accumulate
            BY <3>1, <3>2, <3>3, <3>5 DEF ComputeStation, CheckEnoughWork, Accumulate, Enter, Continue
        <3> QED BY <1>2, <3>4, <3>5
    <2> QED BY <2>1 DEF ResidualInv
<1>3. CASE SetValue
    <2>1. CASE phase' = "returned" /\ ~Succeeded'
        BY <2>1 DEF ResidualInv
    <2>2. CASE Enter("tabulate")
        <3>1. /\ residuals' = <<>> /\ index' = 1
            BY <1>3, <2>2 DEF SetValue, Enter, tables, IInv, TableInv, Succeeded
        <3>2. Good(observations', 1) = {} /\ Cardinality(Good(observations', 1)) = 0
            BY NothingBefore
        <3>3. SumTo(observations', 1) = 0
            BY FirstSum
        <3>4. SumOfRows' = 0
            <4>1. DOMAIN [k \in DOMAIN residuals' |-> residuals'[k][1]] = {}
                BY <3>1
            <4> QED BY <4>1, SumEmpty DEF SumOfRows
        <3>5. sum' \in Int /\ nStationMagnitudes' \in Nat
            BY DEF IInv, TypeOK
        <3>6. Len(residuals') = 0 /\ DOMAIN residuals' = {}
            BY <3>1
        <3>7. 0 * sum' - nStationMagnitudes' * 0 = 0
            <4>1. ASSUME NEW a \in Int, NEW b \in Int PROVE 0 * a - b * 0 = 0
                <5>1. 0 * a = 0 /\ b * 0 = 0
                    OBVIOUS
                <5> QED BY <5>1
            <4>2. nStationMagnitudes' \in Int
                BY <3>5
            <4> QED BY <3>5, <4>1, <4>2
        <3> QED BY <3>1, <3>2, <3>3, <3>4, <3>6, <3>7 DEF ResidualInv
    <2> QED BY <1>3, <2>1, <2>2, FailureFails DEF SetValue, NoError
<1>4. CASE Tabulate
    <2> DEFINE o == observations[index]
               v == StationMagnitude(o)
               row == <<sum - nStationMagnitudes * v, index>>
    <2>1. /\ phase = "tabulate" /\ phase' = "tabulate" /\ index' = index + 1
          /\ observations' = observations /\ observations \in Seq(Observation)
          /\ Len(observations) \in Nat /\ index \in 1 .. Len(observations)
          /\ sum' = sum /\ nStationMagnitudes' = nStationMagnitudes
          /\ workItems[index] = [observationNumber |-> index, code |-> StationCode(o)]
        <3>1. phase = "tabulate" /\ index <= Len(workItems)
            BY <1>4 DEF Tabulate
        <3>2. /\ Len(workItems) = Len(observations) /\ index \in 1 .. Len(observations) + 1
              /\ observations \in Seq(Observation) /\ Len(observations) \in Nat
            BY <3>1, AnObservation DEF IInv, WorkInv, IndexInv
        <3>3. index \in 1 .. Len(workItems) /\ index \in 1 .. Len(observations)
            BY <3>1, <3>2
        <3>4. workItems[index] = [observationNumber |-> index, code |-> StationCode(o)]
            BY <3>3 DEF IInv, WorkInv
        <3> QED BY <1>4, <3>1, <3>2, <3>3, <3>4 DEF Tabulate, Continue, totals
    <2>2. IF StationCode(o) = NoError THEN residuals' = Append(residuals, row)
          ELSE residuals' = residuals
        BY <1>4, <2>1 DEF Tabulate
    <2>3. /\ Len(residuals) = Cardinality(Good(observations, index))
          /\ \A k \in DOMAIN residuals :
                residuals[k][1] = sum - nStationMagnitudes
                                          * StationMagnitude(observations[residuals[k][2]])
          /\ SumOfRows = Len(residuals) * sum - nStationMagnitudes * SumTo(observations, index)
        BY <2>1 DEF ResidualInv
    <2>4. /\ sum \in Int /\ nStationMagnitudes \in Nat
          /\ residuals \in Seq(Int \X (Nat \ {0})) /\ Len(residuals) \in Nat
        BY DEF IInv, TypeOK
    <2>5. CASE StationCode(o) = NoError
        <3>1. /\ v \in Int /\ SumTo(observations, index) \in Int
              /\ SumTo(observations, index + 1) = v + SumTo(observations, index)
            BY <2>1, <2>5, NextSum
        <3>2. /\ row \in Int \X (Nat \ {0})
              /\ row[1] = sum - nStationMagnitudes * v /\ row[2] = index
            BY <2>1, <2>4, <3>1
        <3>3. observations[row[2]] = o
            BY <3>2
        <3> HIDE DEF row, v
        <3>4. /\ residuals' = Append(residuals, row) /\ Len(residuals') = Len(residuals) + 1
              /\ \A k \in DOMAIN residuals' :
                    residuals'[k] = row \/ (k \in DOMAIN residuals /\ residuals'[k] = residuals[k])
            <4>1. residuals' = Append(residuals, row)
                BY <2>2, <2>5 DEF row, v
            <4> QED BY <2>4, <3>2, <4>1
        <3>5. Len(residuals') = Cardinality(Good(observations, index + 1))
            <4>1. /\ Good(observations, index + 1) = Good(observations, index) \cup {index}
                  /\ index \notin Good(observations, index)
                  /\ IsFiniteSet(Good(observations, index))
                BY <2>1, <2>5, NextObservation
            <4>2. Cardinality(Good(observations, index) \cup {index})
                     = Cardinality(Good(observations, index)) + 1
                BY <4>1, FS_AddElement
            <4> QED BY <2>3, <3>4, <4>1, <4>2
        <3>6. \A k \in DOMAIN residuals' :
                 residuals'[k][1] = sum - nStationMagnitudes
                                            * StationMagnitude(observations[residuals'[k][2]])
            BY <2>3, <3>2, <3>3, <3>4 DEF v
        <3>7. SumOfRows' = row[1] + SumOfRows
            <4>1. SumOfRows' = SumFunction([k \in DOMAIN Append(residuals, row) |->
                                              Append(residuals, row)[k][1]])
                BY <3>4 DEF SumOfRows
            <4> QED BY <2>4, <3>2, <4>1, RowsGrow DEF SumOfRows
        <3>8. SumOfRows' = (Len(residuals) + 1) * sum
                              - nStationMagnitudes * (v + SumTo(observations, index))
            <4> DEFINE l == Len(residuals)
                       before == SumTo(observations, index)
            <4>1. SumOfRows' = (sum - nStationMagnitudes * v) + (l * sum - nStationMagnitudes * before)
                BY <2>3, <3>2, <3>7
            <4>2. l \in Int /\ before \in Int /\ sum \in Int /\ nStationMagnitudes \in Int /\ v \in Int
                BY <2>4, <3>1
            <4> HIDE DEF l, before
            <4>3. (sum - nStationMagnitudes * v) + (l * sum - nStationMagnitudes * before)
                     = (l + 1) * sum - nStationMagnitudes * (v + before)
                BY <4>2, OneMoreRow
            <4> QED BY <4>1, <4>3 DEF l, before
        <3> QED BY <2>1, <3>1, <3>4, <3>5, <3>6, <3>8 DEF ResidualInv
    <2>6. CASE StationCode(o) # NoError
        <3>1. SumTo(observations, index + 1) = SumTo(observations, index)
            BY <2>1, <2>6, NextSum
        <3>2. Good(observations, index + 1) = Good(observations, index)
            BY <2>1, <2>6, NextObservation
        <3>3. residuals' = residuals /\ SumOfRows' = SumOfRows
            BY <2>2, <2>6 DEF SumOfRows
        <3> QED BY <2>1, <2>3, <3>1, <3>2, <3>3 DEF ResidualInv
    <2> QED BY <2>5, <2>6
<1>5. CASE Return
    <2>1. /\ phase = "tabulate" /\ UNCHANGED <<observations, index, sum, nStationMagnitudes, residuals>>
        BY <1>5 DEF Return, totals, tables
    <2> QED BY <2>1 DEF ResidualInv, SumOfRows
<1> QED BY <1>1, <1>2, <1>3, <1>4, <1>5 DEF Next

\* The sums are right in every state.
LEMMA Balance == Spec => [](IInv /\ SumInv /\ ResidualInv)
<1>1. Init => SumInv /\ ResidualInv
    BY DEF Init, SumInv, ResidualInv, Succeeded
<1>2. (IInv /\ SumInv /\ ResidualInv) /\ IInv' /\ [Next]_vars => (IInv /\ SumInv /\ ResidualInv)'
    BY SumKeeps, ResidualKeeps
<1> QED BY <1>1, <1>2, Initially, Inductive, PTL DEF Spec

\* What the tables of a magnitude that is returned add up to.
LEMMA BalanceOfRows ==
    ASSUME IInv, SumInv, ResidualInv
    PROVE  ResidualsBalance
<1> DEFINE last == Len(observations) + 1
<1> SUFFICES ASSUME Succeeded PROVE SumOfRows = 0
    BY DEF ResidualsBalance, SumOfRows
<1>1. index = last /\ nStationMagnitudes = Cardinality(Good(observations, last))
    BY DEF IInv, TableInv, CountInv
<1>2. /\ sum = SumTo(observations, last)
      /\ SumOfRows = Len(residuals) * sum - nStationMagnitudes * SumTo(observations, index)
      /\ Len(residuals) = Cardinality(Good(observations, index))
    BY DEF SumInv, ResidualInv
<1>3. sum \in Int /\ nStationMagnitudes \in Nat
    BY DEF IInv, TypeOK
<1>4. SumOfRows = nStationMagnitudes * sum - nStationMagnitudes * sum
    BY <1>1, <1>2
<1>5. nStationMagnitudes * sum \in Int
    BY <1>3
<1> HIDE DEF last
<1> QED BY <1>4, <1>5

\* Whatever was observed and whatever the corrections, the residuals of a
\* magnitude that is returned cancel: the average is of exactly the station
\* magnitudes that were computed.
THEOREM Balanced == Spec => []ResidualsBalance
    BY BalanceOfRows, Balance, PTL

\* The average lies between two of the station magnitudes it is the average of.
BetweenStations ==
    Succeeded =>
        \E low, high \in DOMAIN residuals :
            /\ nStationMagnitudes * StationMagnitude(observations[residuals[low][2]]) <= sum
            /\ sum <= nStationMagnitudes * StationMagnitude(observations[residuals[high][2]])

\* The magnitude returned is no lower than the lowest and no higher than the highest
\* of the station magnitudes in its own table: no rejected observation, no count that
\* is off by one and no station added twice has moved it.
THEOREM Between == Spec => []BetweenStations
<1>1. ASSUME IInv, SumInv, ResidualInv PROVE BetweenStations
    <2> DEFINE last == Len(observations) + 1
               f == [k \in DOMAIN residuals |-> residuals[k][1]]
               magnitude(k) == StationMagnitude(observations[residuals[k][2]])
    <2> SUFFICES ASSUME Succeeded
                 PROVE  \E low, high \in DOMAIN residuals :
                            /\ nStationMagnitudes * magnitude(low) <= sum
                            /\ sum <= nStationMagnitudes * magnitude(high)
        BY DEF BetweenStations
    <2>1. /\ sum \in Int /\ nStationMagnitudes \in Nat
          /\ residuals \in Seq(Int \X Nat) /\ observations \in Seq(Observation)
        BY <1>1, AnObservation DEF IInv, TypeOK
    <2>2. /\ index = last /\ nStationMagnitudes = Cardinality(Good(observations, last))
          /\ nStationMagnitudes >= MinimumNumberOfStationMagnitudes
          /\ Rows(residuals, Good(observations, index))
        BY <1>1 DEF IInv, TableInv, CountInv
    <2>3. /\ Len(residuals) = nStationMagnitudes
          /\ \A k \in DOMAIN residuals :
                residuals[k][1] = sum - nStationMagnitudes * magnitude(k)
        BY <1>1, <2>2 DEF ResidualInv
    <2>4. DOMAIN residuals = 1 .. Len(residuals) /\ Len(residuals) \in Nat \ {0}
        BY <2>1, <2>2, <2>3, OptionsAssumption
    <2>5. IsFiniteSet(DOMAIN residuals) /\ DOMAIN residuals # {}
        <3>1. IsFiniteSet(1 .. Len(residuals))
            BY <2>4, FS_Interval
        <3>2. 1 \in 1 .. Len(residuals)
            BY <2>4
        <3> QED BY <2>4, <3>1, <3>2
    <2>6. f \in [DOMAIN residuals -> Int] /\ SumFunction(f) = 0
        <3>1. SumFunction(f) = 0
            BY <1>1, BalanceOfRows DEF ResidualsBalance
        <3> QED BY <2>1, <3>1
    <2>7. \A k \in DOMAIN residuals : magnitude(k) \in Int
        <3> SUFFICES ASSUME NEW k \in DOMAIN residuals PROVE magnitude(k) \in Int
            OBVIOUS
        <3>1. /\ residuals[k][2] \in 1 .. Len(observations)
              /\ StationCode(observations[residuals[k][2]]) = NoError
            BY <2>1, <2>2 DEF Rows, Good
        <3> QED BY <2>1, <3>1, MagnitudeIsNumber
    <2>8. PICK high, low \in DOMAIN residuals : f[low] >= 0 /\ f[high] <= 0
        <3> HIDE DEF f
        <3> QED BY <2>5, <2>6, SumOfBothSigns
    <2>9. /\ sum - nStationMagnitudes * magnitude(low) >= 0
          /\ sum - nStationMagnitudes * magnitude(high) <= 0
        BY <2>3, <2>8
    <2>10. nStationMagnitudes * magnitude(low) \in Int /\ nStationMagnitudes * magnitude(high) \in Int
        BY <2>1, <2>7
    <2>11. \A a \in Int : (sum - a >= 0 => a <= sum) /\ (sum - a <= 0 => sum <= a)
        BY <2>1
    <2> HIDE DEF magnitude
    <2> QED BY <2>9, <2>10, <2>11
<1> QED BY <1>1, Balance, PTL

-----------------------------------------------------------------------------

(***************************************************************************)
(* The refinement: what the passes compute is what the promise states.     *)
(***************************************************************************)

AllComplete(obs) == \A n \in 1 .. Len(obs) : MissingCode(obs[n]) = NoError

\* Nothing is returned before the end; what the passes have let through is
\* complete; the tables are begun for an average in range.
PassInv ==
    /\ phase # "returned" => result = Pending
    /\ phase \notin {"enter", "returned"} => observations # <<>>
    /\ phase = "complete" => \A n \in 1 .. index - 1 : MissingCode(observations[n]) = NoError
    /\ phase \in {"duplicates", "stations", "enough", "average", "value", "tabulate"} =>
          AllComplete(observations)
    /\ phase = "tabulate" => ValueInRange(sum, nStationMagnitudes)

\* What the calculator gives up on is the first thing that is wrong.
LEMMA FirstFailure ==
    ASSUME NEW obs \in Seq(Observation)
    PROVE  /\ obs = <<>> => NetworkCode(obs) = "NoObservations"
           /\ \A i \in 1 .. Len(obs) :
                 /\ MissingCode(obs[i]) # NoError
                 /\ \A n \in 1 .. i - 1 : MissingCode(obs[n]) = NoError
                 => NetworkCode(obs) = MissingCode(obs[i])
<1> DEFINE incomplete == {n \in DOMAIN obs : MissingCode(obs[n]) # NoError}
<1>1. Len(obs) \in Nat /\ DOMAIN obs = 1 .. Len(obs)
    OBVIOUS
<1>2. obs = <<>> => NetworkCode(obs) = "NoObservations"
    BY DEF NetworkCode
<1>3. ASSUME NEW i \in 1 .. Len(obs), MissingCode(obs[i]) # NoError,
             \A n \in 1 .. i - 1 : MissingCode(obs[n]) = NoError
      PROVE  NetworkCode(obs) = MissingCode(obs[i])
    <2> DEFINE Earliest(n) == \A m \in incomplete : n <= m
               first == CHOOSE n \in incomplete : Earliest(n)
    <2>1. obs # <<>> /\ i \in incomplete
        BY <1>1, <1>3
    <2>2. \A m \in incomplete : m \in Nat /\ i <= m
        BY <1>1, <1>3
    <2>3. first \in incomplete /\ Earliest(first)
        <3>1. Earliest(i)
            BY <2>2
        <3> HIDE DEF Earliest, incomplete
        <3> QED BY <2>1, <3>1
    <2>4. first <= i /\ i <= first /\ first \in Nat
        <3> HIDE DEF first
        <3> QED BY <2>1, <2>2, <2>3
    <2>5. first = i
        <3> HIDE DEF first
        <3> QED BY <2>4
    <2>6. NetworkCode(obs) = MissingCode(obs[first])
        BY <2>1 DEF NetworkCode
    <2> QED BY <2>5, <2>6
<1> QED BY <1>2, <1>3

\* The later reasons, in their order.
LEMMA LaterFailure ==
    ASSUME NEW obs \in Seq(Observation), obs # <<>>, AllComplete(obs)
    PROVE  /\ ~Differ(obs, Len(obs) + 1) => NetworkCode(obs) = "DuplicateObservations"
           /\ Differ(obs, Len(obs) + 1) =>
                 IF \E n \in 1 .. Len(obs) : StationCode(obs[n]) = Terminate
                 THEN NetworkCode(obs) = Terminate
                 ELSE IF Cardinality(Computed(obs)) < Atleast(MinimumNumberOfStationMagnitudes)
                 THEN NetworkCode(obs) = "TooFewObservations"
                 ELSE IF ~ValueInRange(MagnitudeSum(obs), Cardinality(Computed(obs)))
                 THEN NetworkCode(obs) = "Algorithm"
                 ELSE NetworkCode(obs) = NoError
<1>1. Len(obs) \in Nat /\ DOMAIN obs = 1 .. Len(obs) /\ 1 .. (Len(obs) + 1) - 1 = 1 .. Len(obs)
    OBVIOUS
<1>2. {n \in DOMAIN obs : MissingCode(obs[n]) # NoError} = {}
    BY <1>1 DEF AllComplete
<1>3. Differ(obs, Len(obs) + 1)
        <=> ~\E m, n \in DOMAIN obs : m # n /\ obs[m].station = obs[n].station
    BY <1>1 DEF Differ
<1>4. NetworkCode(obs) =
         IF \E m, n \in DOMAIN obs : m # n /\ obs[m].station = obs[n].station
         THEN "DuplicateObservations"
         ELSE IF \E n \in DOMAIN obs : StationCode(obs[n]) = Terminate
         THEN Terminate
         ELSE IF Cardinality(Computed(obs)) < Atleast(MinimumNumberOfStationMagnitudes)
         THEN "TooFewObservations"
         ELSE IF ~ValueInRange(MagnitudeSum(obs), Cardinality(Computed(obs)))
         THEN "Algorithm"
         ELSE NoError
    BY <1>2 DEF NetworkCode
<1> QED BY <1>1, <1>3, <1>4

\* After the last observation the good ones are those computed.
LEMMA AllLookedAt ==
    ASSUME NEW obs \in Seq(Observation)
    PROVE  /\ Good(obs, Len(obs) + 1) = Computed(obs)
           /\ Bad(obs, Len(obs) + 1) = Rejected(obs)
           /\ SumTo(obs, Len(obs) + 1) = MagnitudeSum(obs)
           /\ IsFiniteSet(Computed(obs)) /\ Cardinality(Computed(obs)) \in Nat
           /\ Cardinality(Computed(obs)) <= Len(obs)
<1>1. Len(obs) \in Nat /\ DOMAIN obs = 1 .. Len(obs) /\ 1 .. (Len(obs) + 1) - 1 = 1 .. Len(obs)
    OBVIOUS
<1>2. Good(obs, Len(obs) + 1) = Computed(obs) /\ Bad(obs, Len(obs) + 1) = Rejected(obs)
    BY <1>1 DEF Good, Bad, Computed, Rejected
<1>3. SumTo(obs, Len(obs) + 1) = MagnitudeSum(obs)
    BY <1>2 DEF SumTo, MagnitudeSum
<1>4. IsFiniteSet(1 .. Len(obs)) /\ Cardinality(1 .. Len(obs)) = Len(obs)
    BY <1>1, FS_Interval
<1>5. Computed(obs) \subseteq 1 .. Len(obs)
    BY <1>1 DEF Computed
<1> QED BY <1>2, <1>3, <1>4, <1>5, FS_Subset, FS_CardinalityType

\* A table with a row for each number is the function from the number to the row.
LEMMA TableIsFunction ==
    ASSUME NEW pairs, NEW numbers, Rows(pairs, numbers),
           NEW f, f = [n \in numbers |-> f[n]],
           \A k \in DOMAIN pairs : pairs[k][1] = f[pairs[k][2]]
    PROVE  ByNumber(pairs) = f
<1> DEFINE row(n) == CHOOSE p \in Range(pairs) : p[2] = n
<1>1. {pairs[k][2] : k \in DOMAIN pairs} = numbers
    BY DEF Rows
<1>2. ASSUME NEW n \in numbers PROVE row(n)[1] = f[n]
    <2>1. PICK k \in DOMAIN pairs : pairs[k][2] = n
        BY DEF Rows
    <2>2. pairs[k] \in Range(pairs)
        BY DEF Range
    <2>3. row(n) \in Range(pairs) /\ row(n)[2] = n
        BY <2>1, <2>2
    <2> HIDE DEF row
    <2>4. PICK j \in DOMAIN pairs : pairs[j] = row(n)
        BY <2>3 DEF Range
    <2> QED BY <2>3, <2>4
<1>3. ByNumber(pairs) = [n \in numbers |-> row(n)[1]]
    BY <1>1 DEF ByNumber
<1> HIDE DEF row
<1> QED BY <1>2, <1>3

\* No pass begins before the one before it has let everything through.
LEMMA PassKeeps ==
    ASSUME IInv, IInv', PassInv, [Next]_vars
    PROVE  PassInv'
<1>0. Len(observations) \in Nat
    BY AnObservation DEF IInv
<1>1. CASE UNCHANGED vars
    BY <1>1 DEF vars, PassInv
<1>2. CASE phase' = "returned"
    BY <1>2 DEF PassInv
<1>3. CASE CheckEmpty /\ phase' # "returned"
    <2>1. observations # <<>> /\ Enter("complete")
        BY <1>3 DEF CheckEmpty, Fail
    <2>2. /\ phase = "enter" /\ phase' = "complete" /\ index' = 1
          /\ result' = result /\ observations' = observations
        BY <1>3, <2>1 DEF CheckEmpty, Enter
    <2> QED BY <2>1, <2>2 DEF PassInv
<1>4. CASE CheckComplete /\ phase' # "returned"
    <2>1. /\ phase = "complete" /\ observations' = observations
          /\ index \in 1 .. Len(observations) + 1 /\ result' = result
        BY <1>4 DEF CheckComplete, Fail, Enter, Continue, IInv, IndexInv
    <2>2. CASE index > Len(observations)
        <3>1. phase' = "duplicates"
            BY <1>4, <2>2 DEF CheckComplete, Enter
        <3>2. AllComplete(observations)
            BY <1>0, <2>1, <2>2 DEF PassInv, AllComplete
        <3> QED BY <2>1, <3>1, <3>2 DEF PassInv
    <2>3. CASE ~(index > Len(observations))
        <3>1. MissingCode(observations[index]) = NoError /\ phase' = "complete" /\ index' = index + 1
            BY <1>4, <2>1, <2>3 DEF CheckComplete, Fail, Continue
        <3>2. \A n \in 1 .. (index + 1) - 1 : n \in 1 .. index - 1 \/ n = index
            BY <2>1
        <3>3. \A n \in 1 .. index - 1 : MissingCode(observations[n]) = NoError
            BY <2>1 DEF PassInv
        <3> QED BY <2>1, <3>1, <3>2, <3>3 DEF PassInv
    <2> QED BY <2>2, <2>3
<1>5. CASE /\ phase' # "returned"
           /\ CheckDuplicate \/ ComputeStation \/ CheckEnoughWork \/ Accumulate
    <2>1. /\ phase \in {"duplicates", "stations", "enough", "average"}
          /\ phase' \in {"duplicates", "stations", "enough", "average", "value"}
          /\ observations' = observations /\ result' = result
        <3>1. CASE CheckDuplicate
            BY <1>5, <3>1 DEF CheckDuplicate, Fail, Enter, Continue
        <3>2. CASE ComputeStation
            BY <1>5, <3>2 DEF ComputeStation, Fail, Enter, Continue
        <3>3. CASE CheckEnoughWork \/ Accumulate
            BY <1>5, <3>3 DEF CheckEnoughWork, Accumulate, Fail, Enter, Continue
        <3> QED BY <1>5, <3>1, <3>2, <3>3
    <2> QED BY <2>1 DEF PassInv
<1>6. CASE SetValue /\ phase' # "returned"
    <2>1. /\ phase = "value" /\ phase' = "tabulate" /\ observations' = observations
          /\ result' = result /\ sum' = sum /\ nStationMagnitudes' = nStationMagnitudes
          /\ ValueInRange(sum, nStationMagnitudes)
        BY <1>6 DEF SetValue, Fail, Enter, totals
    <2> QED BY <2>1 DEF PassInv
<1>7. CASE Tabulate
    <2>1. /\ phase = "tabulate" /\ phase' = "tabulate" /\ observations' = observations
          /\ result' = result /\ sum' = sum /\ nStationMagnitudes' = nStationMagnitudes
        BY <1>7 DEF Tabulate, Continue, totals
    <2> QED BY <2>1 DEF PassInv
<1>8. CASE Return
    BY <1>2, <1>8 DEF Return
<1> QED BY <1>1, <1>2, <1>3, <1>4, <1>5, <1>6, <1>7, <1>8 DEF Next

\* What is returned is what the promise states of the observations.
LEMMA ReturnsPromised ==
    ASSUME IInv, SumInv, ResidualInv, PassInv, Next, phase' = "returned"
    PROVE  result = Pending /\ observations' = observations /\ result' = NetworkResult(observations)
<1> DEFINE obs == observations
           count == Cardinality(Computed(obs))
<1>1. obs \in Seq(Observation) /\ Len(obs) \in Nat
    BY AnObservation DEF IInv
<1>2. phase # "returned" /\ result = Pending /\ observations' = observations
    <2>1. phase # "returned" /\ observations' = observations
        BY DEF Next, CheckEmpty, CheckComplete, CheckDuplicate, ComputeStation, CheckEnoughWork,
               Accumulate, SetValue, Tabulate, Return
    <2> QED BY <2>1 DEF PassInv
<1>3. ASSUME NEW code, result' = Failure(code), NetworkCode(obs) = code, code # NoError
      PROVE  result' = NetworkResult(obs)
    BY <1>3 DEF NetworkResult
<1>4. \A code : Fail(code) => result' = Failure(code)
    BY DEF Fail
<1>5. /\ "NoObservations" # NoError /\ "DuplicateObservations" # NoError
      /\ "TooFewObservations" # NoError /\ "Algorithm" # NoError /\ Terminate # NoError
    BY DEF NoError, Terminate
<1>6. CASE CheckEmpty
    <2>1. obs = <<>> /\ Fail("NoObservations")
        BY <1>6 DEF CheckEmpty, Enter
    <2>2. NetworkCode(obs) = "NoObservations"
        BY <1>1, <2>1, FirstFailure
    <2> QED BY <1>2, <1>3, <1>4, <1>5, <2>1, <2>2
<1>7. CASE CheckComplete
    <2>1. /\ phase = "complete" /\ index \in 1 .. Len(obs) + 1 /\ ~(index > Len(obs))
          /\ MissingCode(obs[index]) # NoError /\ Fail(MissingCode(obs[index]))
        BY <1>7 DEF CheckComplete, Enter, Continue, IInv, IndexInv
    <2>2. index \in 1 .. Len(obs)
        BY <1>1, <2>1
    <2>3. \A n \in 1 .. index - 1 : MissingCode(obs[n]) = NoError
        BY <2>1 DEF PassInv
    <2>4. NetworkCode(obs) = MissingCode(obs[index])
        BY <1>1, <2>1, <2>2, <2>3, FirstFailure
    <2> QED BY <1>2, <1>3, <1>4, <2>1, <2>4
<1>8. CASE CheckDuplicate
    <2>1. /\ phase = "duplicates" /\ index \in 1 .. Len(obs) + 1 /\ ~(index > Len(obs))
          /\ obs[index].station \in stationNames /\ Fail("DuplicateObservations")
        BY <1>8 DEF CheckDuplicate, Enter, Continue, IInv, IndexInv
    <2>2. PICK n \in 1 .. index - 1 : obs[n].station = obs[index].station
        BY <2>1 DEF IInv, DistinctInv
    <2>3. n \in 1 .. (Len(obs) + 1) - 1 /\ index \in 1 .. (Len(obs) + 1) - 1 /\ n # index
        BY <1>1, <2>1
    <2>4. ~Differ(obs, Len(obs) + 1)
        BY <2>2, <2>3 DEF Differ
    <2>5. obs # <<>> /\ AllComplete(obs)
        BY <2>1 DEF PassInv
    <2>6. NetworkCode(obs) = "DuplicateObservations"
        BY <1>1, <2>4, <2>5, LaterFailure
    <2> QED BY <1>2, <1>3, <1>4, <1>5, <2>1, <2>6
<1>9. ASSUME phase \in {"stations", "enough", "average", "value", "tabulate"}
      PROVE  /\ obs # <<>> /\ AllComplete(obs) /\ Differ(obs, Len(obs) + 1)
             /\ Len(workItems) \in Nat
             /\ phase # "stations" => /\ Len(workItems) = Len(obs)
                                      /\ \A n \in 1 .. Len(obs) : StationCode(obs[n]) # Terminate
    <2>1. obs # <<>> /\ AllComplete(obs) /\ Differ(obs, Len(obs) + 1)
        BY <1>9 DEF PassInv, IInv, DistinctInv
    <2>2. Len(workItems) \in Nat
        BY DEF IInv, TypeOK
    <2>3. ASSUME phase # "stations"
          PROVE  /\ Len(workItems) = Len(obs)
                 /\ \A n \in 1 .. Len(obs) : StationCode(obs[n]) # Terminate
        <3>1. Len(workItems) = Len(obs)
            BY <1>9, <2>3 DEF IInv, WorkInv
        <3>2. \A n \in 1 .. Len(workItems) : StationCode(obs[n]) # Terminate
            BY DEF IInv, WorkInv
        <3> QED BY <3>1, <3>2
    <2> QED BY <2>1, <2>2, <2>3
<1>10. CASE ComputeStation
    <2>1. /\ phase = "stations" /\ index \in 1 .. Len(obs) + 1 /\ ~(index > Len(obs))
          /\ StationCode(obs[index]) = Terminate /\ Fail(Terminate)
        BY <1>10 DEF ComputeStation, Enter, Continue, IInv, IndexInv
    <2>2. index \in 1 .. Len(obs)
        BY <1>1, <2>1
    <2>3. \E n \in 1 .. Len(obs) : StationCode(obs[n]) = Terminate
        BY <2>1, <2>2
    <2>4. NetworkCode(obs) = Terminate
        BY <1>1, <1>9, <2>1, <2>3, LaterFailure
    <2> QED BY <1>2, <1>3, <1>4, <1>5, <2>1, <2>4
<1>11. CASE CheckEnoughWork
    <2>1. /\ phase = "enough" /\ Len(workItems) < MinimumNumberOfStationMagnitudes
          /\ Fail("TooFewObservations")
        BY <1>11 DEF CheckEnoughWork, Enter
    <2>2. count < Atleast(MinimumNumberOfStationMagnitudes)
        <3>1. count \in Nat /\ count <= Len(obs)
            BY <1>1, AllLookedAt
        <3> HIDE DEF count
        <3> QED BY <1>1, <1>9, <2>1, <3>1, OptionsAssumption DEF Atleast
    <2>3. NetworkCode(obs) = "TooFewObservations"
        BY <1>1, <1>9, <2>1, <2>2, LaterFailure
    <2> QED BY <1>2, <1>3, <1>4, <1>5, <2>1, <2>3
<1>12. CASE Accumulate
    BY <1>12 DEF Accumulate, Enter, Continue
<1>13. CASE SetValue
    <2>1. phase = "value" /\ nStationMagnitudes = count /\ sum = MagnitudeSum(obs)
        <3>1. phase = "value"
            BY <1>13 DEF SetValue
        <3> QED BY <1>1, <3>1, AllLookedAt DEF IInv, CountInv, SumInv
    <2>2. CASE count < Atleast(MinimumNumberOfStationMagnitudes)
        <3>1. Fail("TooFewObservations")
            BY <1>13, <2>1, <2>2 DEF SetValue
        <3>2. NetworkCode(obs) = "TooFewObservations"
            BY <1>1, <1>9, <2>1, <2>2, LaterFailure
        <3> QED BY <1>2, <1>3, <1>4, <1>5, <3>1, <3>2
    <2>3. CASE ~(count < Atleast(MinimumNumberOfStationMagnitudes))
        <3>1. Fail("Algorithm") /\ ~ValueInRange(MagnitudeSum(obs), count)
            BY <1>13, <2>1, <2>3 DEF SetValue, Enter
        <3>2. NetworkCode(obs) = "Algorithm"
            BY <1>1, <1>9, <2>1, <2>3, <3>1, LaterFailure
        <3> QED BY <1>2, <1>3, <1>4, <1>5, <3>1, <3>2
    <2> QED BY <2>2, <2>3
<1>14. CASE Tabulate
    BY <1>14 DEF Tabulate, Continue
<1>15. CASE Return
    <2>1. phase = "tabulate" /\ index > Len(workItems) /\ index \in 1 .. Len(obs) + 1
        BY <1>15 DEF Return, IInv, IndexInv
    <2>2. index = Len(obs) + 1
        BY <1>1, <1>9, <2>1
    <2>3. /\ nStationMagnitudes = count /\ sum = MagnitudeSum(obs)
          /\ Good(obs, index) = Computed(obs) /\ Bad(obs, index) = Rejected(obs)
        BY <1>1, <2>1, <2>2, AllLookedAt DEF IInv, CountInv, SumInv
    <2>4. NetworkCode(obs) = NoError
        <3>1. ~(count < Atleast(MinimumNumberOfStationMagnitudes))
            <4>1. nStationMagnitudes >= MinimumNumberOfStationMagnitudes /\ nStationMagnitudes \in Nat
                BY <2>1 DEF IInv, CountInv, TypeOK
            <4> HIDE DEF count
            <4> QED BY <2>3, <4>1, OptionsAssumption DEF Atleast
        <3>2. ValueInRange(MagnitudeSum(obs), count)
            BY <2>1, <2>3 DEF PassInv
        <3> QED BY <1>1, <1>9, <2>1, <3>1, <3>2, LaterFailure
    <2>5. ByNumber(residuals) = [n \in Computed(obs) |-> sum - count * StationMagnitude(obs[n])]
        <3> DEFINE f == [n \in Computed(obs) |-> sum - count * StationMagnitude(obs[n])]
        <3>1. Rows(residuals, Computed(obs))
            BY <2>1, <2>3 DEF IInv, TableInv
        <3>2. \A k \in DOMAIN residuals : residuals[k][1] = f[residuals[k][2]]
            <4>1. \A k \in DOMAIN residuals :
                     /\ residuals[k][2] \in Computed(obs)
                     /\ residuals[k][1] = sum - count * StationMagnitude(obs[residuals[k][2]])
                BY <2>1, <2>3, <3>1 DEF ResidualInv, Rows
            <4> QED BY <4>1
        <3>3. f = [n \in Computed(obs) |-> f[n]]
            OBVIOUS
        <3> HIDE DEF f
        <3>4. ByNumber(residuals) = f
            BY <3>1, <3>2, <3>3, TableIsFunction
        <3> QED BY <3>4 DEF f
    <2>6. ByNumber(rejectedObservations) = [n \in Rejected(obs) |-> StationCode(obs[n])]
        <3> DEFINE f == [n \in Rejected(obs) |-> StationCode(obs[n])]
        <3>1. Rows(rejectedObservations, Rejected(obs))
            BY <2>1, <2>3 DEF IInv, TableInv
        <3>2. \A k \in DOMAIN rejectedObservations :
                 rejectedObservations[k][1] = f[rejectedObservations[k][2]]
            <4>1. \A k \in DOMAIN rejectedObservations :
                     /\ rejectedObservations[k][2] \in Rejected(obs)
                     /\ rejectedObservations[k][1] = StationCode(obs[rejectedObservations[k][2]])
                BY <2>1, <3>1 DEF IInv, TableInv, Rows
            <4> QED BY <4>1
        <3>3. f = [n \in Rejected(obs) |-> f[n]]
            OBVIOUS
        <3> HIDE DEF f
        <3>4. ByNumber(rejectedObservations) = f
            BY <3>1, <3>2, <3>3, TableIsFunction
        <3> QED BY <3>4 DEF f
    <2>7. result' = [error |-> NoError, sum |-> sum, count |-> count,
                     residuals |-> ByNumber(residuals),
                     rejected |-> ByNumber(rejectedObservations)]
        BY <1>15, <2>3 DEF Return
    <2>8. NetworkResult(obs) =
             [error |-> NoError, sum |-> sum, count |-> count,
              residuals |-> [n \in Computed(obs) |-> sum - count * StationMagnitude(obs[n])],
              rejected |-> [n \in Rejected(obs) |-> StationCode(obs[n])]]
        BY <2>3, <2>4 DEF NetworkResult
    <2> QED BY <1>2, <2>5, <2>6, <2>7, <2>8
<1> QED BY <1>2, <1>6, <1>7, <1>8, <1>10, <1>11, <1>12, <1>13, <1>14, <1>15 DEF Next

\* The promise is stated with its own copies of the operators of
\* MagnitudeCalculator: they are the same.
LEMMA SameOfOne ==
    ASSUME NEW o
    PROVE  /\ Promise!MissingCode(o) = MissingCode(o)
           /\ Promise!StationCode(o) = StationCode(o)
           /\ Promise!StationMagnitude(o) = StationMagnitude(o)
<1>1. Promise!MissingCode(o) = MissingCode(o)
    BY DEF Promise!MissingCode, MissingCode, Promise!NoError, NoError
<1>2. Promise!StationCalculatorCode(o) = StationCalculatorCode(o)
    BY DEF Promise!StationCalculatorCode, StationCalculatorCode, Promise!Terms, Terms,
           Promise!NoError, NoError, Promise!Terminate, Terminate
<1>3. Promise!StationCode(o) = StationCode(o)
    BY <1>1, <1>2 DEF Promise!StationCode, StationCode, Promise!NoError, NoError
<1>4. Promise!StationMagnitude(o) = StationMagnitude(o)
    BY DEF Promise!StationMagnitude, StationMagnitude
<1> QED BY <1>1, <1>3, <1>4

\* So are its copies of the library's.
LEMMA SameLibrary ==
    /\ \A S : Promise!Cardinality(S) = Cardinality(S)
    /\ \A f : Promise!SumFunction(f) = SumFunction(f)
<1>1. ASSUME NEW S PROVE Promise!Cardinality(S) = Cardinality(S)
    BY DEF Promise!Cardinality, Cardinality
<1>2. ASSUME NEW f PROVE Promise!SumFunction(f) = SumFunction(f)
    BY DEF Promise!SumFunction, SumFunction, Promise!SumFunctionOnSet, SumFunctionOnSet,
           Promise!FoldFunctionOnSet, FoldFunctionOnSet, Promise!MapThenFoldSet, MapThenFoldSet
<1> QED BY <1>1, <1>2

\* So is the network magnitude that is stated with them.
LEMMA SameOfAll ==
    ASSUME NEW obs
    PROVE  Promise!NetworkResult(obs) = NetworkResult(obs)
<1>1. Promise!Computed(obs) = Computed(obs)
    BY SameOfOne DEF Promise!Computed, Computed, Promise!NoError, NoError
<1>2. Promise!Rejected(obs) = Rejected(obs)
    BY <1>1 DEF Promise!Rejected, Rejected
<1>3. Promise!MagnitudeSum(obs) = MagnitudeSum(obs)
    <2>1. [n \in Promise!Computed(obs) |-> Promise!StationMagnitude(obs[n])]
             = [n \in Computed(obs) |-> StationMagnitude(obs[n])]
        BY <1>1, SameOfOne
    <2> QED BY <2>1, SameLibrary DEF Promise!MagnitudeSum, MagnitudeSum
<1>4. /\ Promise!NoError = NoError /\ Promise!Terminate = Terminate
      /\ \A code : Promise!Failure(code) = Failure(code)
      /\ \A n : Promise!Atleast(n) = Atleast(n)
      /\ \A s, n : Promise!ValueInRange(s, n) = ValueInRange(s, n)
    BY DEF Promise!NoError, NoError, Promise!Terminate, Terminate, Promise!Failure, Failure,
           Promise!Atleast, Atleast, Promise!ValueInRange, ValueInRange
<1>5. Promise!Cardinality(Promise!Computed(obs)) = Cardinality(Computed(obs))
    BY <1>1, SameLibrary
<1>6. Promise!NetworkCode(obs) = NetworkCode(obs)
    <2> DEFINE First(S) == CHOOSE n \in S : \A m \in S : n <= m
               theirs == {n \in DOMAIN obs : Promise!MissingCode(obs[n]) # Promise!NoError}
               ours == {n \in DOMAIN obs : MissingCode(obs[n]) # NoError}
               twice == \E m, n \in DOMAIN obs : m # n /\ obs[m].station = obs[n].station
    <2>1. theirs = ours
        BY <1>4, SameOfOne
    <2>2. (\E n \in DOMAIN obs : Promise!StationCode(obs[n]) = Promise!Terminate)
             <=> \E n \in DOMAIN obs : StationCode(obs[n]) = Terminate
        BY <1>4, SameOfOne
    <2>3. Promise!NetworkCode(obs) =
             IF obs = <<>> THEN "NoObservations"
             ELSE IF theirs # {} THEN Promise!MissingCode(obs[First(theirs)])
             ELSE IF twice THEN "DuplicateObservations"
             ELSE IF \E n \in DOMAIN obs : Promise!StationCode(obs[n]) = Promise!Terminate
                  THEN Promise!Terminate
             ELSE IF Promise!Cardinality(Promise!Computed(obs))
                        < Promise!Atleast(MinimumNumberOfStationMagnitudes)
                  THEN "TooFewObservations"
             ELSE IF ~Promise!ValueInRange(Promise!MagnitudeSum(obs),
                                           Promise!Cardinality(Promise!Computed(obs)))
                  THEN "Algorithm"
             ELSE Promise!NoError
        BY DEF Promise!NetworkCode
    <2>4. NetworkCode(obs) =
             IF obs = <<>> THEN "NoObservations"
             ELSE IF ours # {} THEN MissingCode(obs[First(ours)])
             ELSE IF twice THEN "DuplicateObservations"
             ELSE IF \E n \in DOMAIN obs : StationCode(obs[n]) = Terminate
                  THEN Terminate
             ELSE IF Cardinality(Computed(obs)) < Atleast(MinimumNumberOfStationMagnitudes)
                  THEN "TooFewObservations"
             ELSE IF ~ValueInRange(MagnitudeSum(obs), Cardinality(Computed(obs)))
                  THEN "Algorithm"
             ELSE NoError
        BY DEF NetworkCode
    <2>5. Promise!MissingCode(obs[First(theirs)]) = MissingCode(obs[First(ours)])
        <3> HIDE DEF theirs, ours, First
        <3> QED BY <2>1, SameOfOne
    <2> HIDE DEF theirs, ours, First, twice
    <2> QED BY <1>3, <1>4, <1>5, <2>1, <2>2, <2>3, <2>4, <2>5
<1>7. [n \in Promise!Computed(obs) |->
          Promise!MagnitudeSum(obs)
             - Promise!Cardinality(Promise!Computed(obs)) * Promise!StationMagnitude(obs[n])]
         = [n \in Computed(obs) |->
               MagnitudeSum(obs) - Cardinality(Computed(obs)) * StationMagnitude(obs[n])]
    BY <1>1, <1>3, <1>5, SameOfOne
<1>8. [n \in Promise!Rejected(obs) |-> Promise!StationCode(obs[n])]
         = [n \in Rejected(obs) |-> StationCode(obs[n])]
    BY <1>2, SameOfOne
<1> QED BY <1>3, <1>4, <1>5, <1>6, <1>7, <1>8 DEF Promise!NetworkResult, NetworkResult

\* The passes do what NetworkMagnitudePromise says, for any observations,
\* corrections and minimum: a call starts with no answer, and no step but the
\* one that returns is seen, which answers with the network magnitude stated
\* without loops.  (That it returns at all is the fairness of ImplementsPromise.)
THEOREM KeepsPromise ==
    Spec => Promise!PromiseInit /\ [][Promise!Answer]_(Promise!promiseVars)
<1>1. Init => Promise!PromiseInit
    BY DEF Init, Promise!PromiseInit
<1>2. Init => PassInv
    BY DEF Init, PassInv
<1>3. /\ IInv /\ SumInv /\ ResidualInv /\ PassInv
      /\ IInv' /\ [Next]_vars
      => PassInv' /\ [Promise!Answer]_(Promise!promiseVars)
    <2> SUFFICES ASSUME IInv, SumInv, ResidualInv, PassInv, IInv', [Next]_vars
                 PROVE  PassInv' /\ [Promise!Answer]_(Promise!promiseVars)
        OBVIOUS
    <2>1. PassInv'
        BY PassKeeps
    <2>2. CASE UNCHANGED vars
        BY <2>1, <2>2 DEF vars, Promise!promiseVars
    <2>3. CASE Next /\ phase' = "returned"
        <3>1. /\ result = Pending /\ observations' = observations
              /\ result' = NetworkResult(observations)
            BY <2>3, ReturnsPromised
        <3>2. result' = Promise!NetworkResult(observations)
            BY <3>1, SameOfAll
        <3> QED BY <2>1, <3>1, <3>2 DEF Promise!Answer
    <2>4. CASE Next /\ phase' # "returned"
        <3>1. observations' = observations /\ phase # "returned"
            BY <2>4 DEF Next, CheckEmpty, CheckComplete, CheckDuplicate, ComputeStation,
               CheckEnoughWork, Accumulate, SetValue, Tabulate, Return
        <3>2. result' = result
            BY <2>1, <2>4, <3>1 DEF PassInv
        <3> QED BY <2>1, <3>1, <3>2 DEF Promise!promiseVars
    <2> QED BY <2>2, <2>3, <2>4
<1> QED BY <1>1, <1>2, <1>3, Balance, PTL DEF Spec

-----------------------------------------------------------------------------

(***************************************************************************)
(* Why a call ends.  That its thread runs is fairness and stays with the    *)
(* model checker; that it cannot run for ever is a count that falls.       *)
(***************************************************************************)

\* At most how many steps the call has still to take: a pass that is left takes at most
\* one for each observation and one to leave it.
StepsLeft ==
    LET width == Len(observations) + 2
    IN  CASE phase = "enter" -> 8 * width
          [] phase = "complete" -> 7 * width - index
          [] phase = "duplicates" -> 6 * width - index
          [] phase = "stations" -> 5 * width - index
          [] phase = "enough" -> 4 * width - 1
          [] phase = "average" -> 3 * width - index
          [] phase = "value" -> 2 * width - 1
          [] phase = "tabulate" -> width - index
          [] OTHER -> 0

\* Every step of the call brings its end nearer, and it has not ended before it returned.
PassesAdvance ==
    /\ StepsLeft' \in 0 .. StepsLeft - 1
    /\ StepsLeft' = 0 => phase' = "returned"

\* The count of a call is a number, and 0 only if the call has returned.
LEMMA StepsCount ==
    ASSUME IInv
    PROVE  StepsLeft \in Nat /\ (StepsLeft = 0 => phase = "returned")
<1> DEFINE l == Len(observations)
<1>1. l \in Nat /\ index \in Nat \ {0} /\ phase \in Phases
    BY AnObservation DEF IInv, TypeOK
<1>2. phase \in {"complete", "duplicates", "stations", "average", "tabulate"} =>
         index <= l + 1
    BY <1>1 DEF IInv, IndexInv
<1> HIDE DEF l
<1>3. CASE phase \in {"enter", "enough", "value"}
    BY <1>1, <1>3 DEF StepsLeft, l
<1>4. CASE phase \in {"complete", "duplicates", "stations", "average", "tabulate"}
    BY <1>1, <1>2, <1>4 DEF StepsLeft, l
<1>5. CASE phase = "returned"
    BY <1>5 DEF StepsLeft
<1> QED BY <1>1, <1>3, <1>4, <1>5 DEF Phases

\* Each step returns, or takes one iteration, or leaves a pass for the next.
LEMMA StepsFall ==
    ASSUME IInv, IInv', Next
    PROVE  StepsLeft' < StepsLeft
<1> DEFINE l == Len(observations)
<1>1. l \in Nat /\ index \in Nat \ {0} /\ observations' = observations /\ phase # "returned"
    <2>1. observations' = observations /\ phase # "returned"
        BY DEF Next, CheckEmpty, CheckComplete, CheckDuplicate, ComputeStation,
           CheckEnoughWork, Accumulate, SetValue, Tabulate, Return
    <2> QED BY <2>1, AnObservation DEF IInv, TypeOK
<1>2. l' = l
    BY <1>1
<1>3. phase \in {"complete", "duplicates", "stations", "average", "tabulate"} =>
         index <= l + 1
    BY <1>1 DEF IInv, IndexInv
<1>4. phase \in {"average", "tabulate"} => Len(workItems) = l
    BY DEF IInv, WorkInv
<1>5. CASE phase' = "returned"
    <2>1. StepsLeft' = 0
        BY <1>5 DEF StepsLeft
    <2> QED BY <1>1, <2>1, StepsCount
<1>6. ASSUME Continue,
             phase \in {"complete", "duplicates", "stations", "average", "tabulate"}
      PROVE  StepsLeft' < StepsLeft
    <2>1. index' = index + 1 /\ phase' = phase
        BY <1>6 DEF Continue
    <2> HIDE DEF l
    <2> QED BY <1>1, <1>2, <1>6, <2>1 DEF StepsLeft, l
<1>7. ASSUME NEW p, Enter(p),
             <<phase, p>> \in {<<"enter", "complete">>, <<"complete", "duplicates">>,
                               <<"duplicates", "stations">>, <<"stations", "enough">>,
                               <<"enough", "average">>, <<"average", "value">>,
                               <<"value", "tabulate">>}
      PROVE  StepsLeft' < StepsLeft
    <2>1. index' = 1 /\ phase' = p
        BY <1>7 DEF Enter
    <2> HIDE DEF l
    <2> QED BY <1>1, <1>2, <1>3, <1>7, <2>1 DEF StepsLeft, l
<1>8. /\ CheckEmpty => phase' = "returned" \/ (Enter("complete") /\ phase = "enter")
      /\ CheckComplete =>
            phase = "complete" /\ (phase' = "returned" \/ Enter("duplicates") \/ Continue)
      /\ CheckDuplicate =>
            phase = "duplicates" /\ (phase' = "returned" \/ Enter("stations") \/ Continue)
      /\ ComputeStation =>
            phase = "stations" /\ (phase' = "returned" \/ Enter("enough") \/ Continue)
      /\ CheckEnoughWork => phase = "enough" /\ (phase' = "returned" \/ Enter("average"))
      /\ Accumulate => phase = "average" /\ (Enter("value") \/ Continue)
      /\ SetValue => phase = "value" /\ (phase' = "returned" \/ Enter("tabulate"))
      /\ Tabulate => phase = "tabulate" /\ Continue
      /\ Return => phase' = "returned"
    BY DEF CheckEmpty, CheckComplete, CheckDuplicate, ComputeStation, CheckEnoughWork,
       Accumulate, SetValue, Tabulate, Return, Fail
<1> QED BY <1>5, <1>6, <1>7, <1>8 DEF Next

\* Whatever the observations, the call returns within 8 * (Len(observations) + 2) steps.
THEOREM PassesEnd == Spec => [][PassesAdvance]_vars
<1>1. IInv /\ IInv' /\ [Next]_vars /\ (StepsLeft \in Nat)'
         /\ (StepsLeft = 0 => phase = "returned")' => [PassesAdvance]_vars
    BY StepsFall, StepsCount DEF PassesAdvance
<1>2. IInv => StepsLeft \in Nat /\ (StepsLeft = 0 => phase = "returned")
    BY StepsCount
<1> QED BY <1>1, <1>2, Invariant, PTL DEF Spec

-----------------------------------------------------------------------------

(***************************************************************************)
(* The order of the observations.  The loops look at them one by one, each *)
(* pass may end at one of them, and numbers refer to places; yet nothing   *)
(* but those numbers depends on the order in which a client sends them.    *)
(***************************************************************************)

\* The same observations, the p[n]-th in place n.
Reordered(obs, p) == [n \in DOMAIN obs |-> obs[p[n]]]

MissingCodes ==
    {"ObservationMissingAmplitudes", "ObservationMissingDistance", "ObservationMissingDepth"}

\* Two answers agree on everything but the places of the observations in the request;
\* which of several incomplete observations is reported is a matter of order.
SameAnswer(ours, theirs, p) ==
    /\ theirs.error = ours.error \/ {theirs.error, ours.error} \subseteq MissingCodes
    /\ theirs.sum = ours.sum /\ theirs.count = ours.count
    /\ ours.error = NoError =>
          /\ DOMAIN theirs.residuals = {n \in DOMAIN p : p[n] \in DOMAIN ours.residuals}
          /\ DOMAIN theirs.rejected = {n \in DOMAIN p : p[n] \in DOMAIN ours.rejected}
          /\ \A n \in DOMAIN theirs.residuals : theirs.residuals[n] = ours.residuals[p[n]]
          /\ \A n \in DOMAIN theirs.rejected : theirs.rejected[n] = ours.rejected[p[n]]

\* What a reordering of the places does.
LEMMA ReorderedIs ==
    ASSUME NEW obs \in Seq(Observation), NEW p \in Bijection(DOMAIN obs, DOMAIN obs)
    PROVE  /\ p \in [DOMAIN obs -> DOMAIN obs] /\ DOMAIN p = DOMAIN obs
           /\ \A m, n \in DOMAIN obs : p[m] = p[n] => m = n
           /\ \A n \in DOMAIN obs : \E m \in DOMAIN obs : p[m] = n
           /\ DOMAIN obs = 1 .. Len(obs) /\ Len(obs) \in Nat
           /\ Reordered(obs, p) \in Seq(Observation)
           /\ DOMAIN Reordered(obs, p) = DOMAIN obs /\ Len(Reordered(obs, p)) = Len(obs)
           /\ \A n \in DOMAIN obs : Reordered(obs, p)[n] = obs[p[n]]
<1>1. /\ p \in [DOMAIN obs -> DOMAIN obs] /\ DOMAIN p = DOMAIN obs
      /\ \A m, n \in DOMAIN obs : p[m] = p[n] => m = n
      /\ \A n \in DOMAIN obs : \E m \in DOMAIN obs : p[m] = n
    BY DEF Bijection, Injection, Surjection, IsInjective
<1>2. DOMAIN obs = 1 .. Len(obs) /\ Len(obs) \in Nat
    OBVIOUS
<1>3. Reordered(obs, p) = [n \in 1 .. Len(obs) |-> obs[p[n]]]
    BY <1>2 DEF Reordered
<1>4. \A n \in 1 .. Len(obs) : obs[p[n]] \in Observation
    BY <1>1, <1>2
<1>5. Reordered(obs, p) \in Seq(Observation) /\ Len(Reordered(obs, p)) = Len(obs)
    BY <1>2, <1>3, <1>4
<1> QED BY <1>1, <1>2, <1>3, <1>5

\* The stations that are computed are the same, and so are their number and their sum.
LEMMA ReorderedComputed ==
    ASSUME NEW obs \in Seq(Observation), NEW p \in Bijection(DOMAIN obs, DOMAIN obs)
    PROVE  LET moved == Reordered(obs, p)
           IN  /\ Computed(moved) = {n \in DOMAIN obs : p[n] \in Computed(obs)}
               /\ Rejected(moved) = {n \in DOMAIN obs : p[n] \in Rejected(obs)}
               /\ Cardinality(Computed(moved)) = Cardinality(Computed(obs))
               /\ MagnitudeSum(moved) = MagnitudeSum(obs)
<1> DEFINE moved == Reordered(obs, p)
           S == Computed(obs)
           U == Computed(moved)
           q == [n \in U |-> p[n]]
           f == [n \in S |-> StationMagnitude(obs[n])]
           g == [n \in U |-> StationMagnitude(moved[n])]
<1>1. U = {n \in DOMAIN obs : p[n] \in S}
    BY ReorderedIs DEF Computed
<1>2. Rejected(moved) = {n \in DOMAIN obs : p[n] \in Rejected(obs)}
    BY <1>1, ReorderedIs DEF Rejected
<1>3. IsFiniteSet(S) /\ IsFiniteSet(U) /\ S \subseteq DOMAIN obs
    BY ReorderedIs, AllLookedAt DEF Computed
<1>4. /\ q \in [U -> S]
      /\ \A u, v \in U : q[u] = q[v] => u = v
      /\ \A y \in S : \E u \in U : q[u] = y
    <2> HIDE DEF S, U
    <2>1. \A u \in U : u \in DOMAIN obs /\ p[u] \in S
        BY <1>1
    <2>2. \A y \in S : \E u \in U : p[u] = y
        BY <1>1, <1>3, ReorderedIs
    <2> QED BY <2>1, <2>2, ReorderedIs
<1>5. q \in Bijection(U, S)
    <2> HIDE DEF S, U, q
    <2> QED BY <1>4 DEF Bijection, Injection, Surjection, IsInjective
<1>6. Cardinality(U) = Cardinality(S)
    <2>1. ExistsBijection(U, S)
        BY <1>5 DEF ExistsBijection
    <2> HIDE DEF S, U
    <2> QED BY <1>3, <2>1, FS_Bijection
<1>7. SumFunction(g) = SumFunction(f)
    <2>1. \A n \in S : StationMagnitude(obs[n]) \in Int
        BY MagnitudeIsNumber DEF Computed
    <2>2. \A u \in U : moved[u] = obs[q[u]] /\ q[u] \in S
        BY <1>1, ReorderedIs
    <2>3. f \in [S -> Int] /\ g \in [U -> Int] /\ \A u \in U : g[u] = f[q[u]]
        <3> HIDE DEF S, U, q, moved
        <3> QED BY <2>1, <2>2
    <2>4. DOMAIN f = S /\ DOMAIN g = U
        OBVIOUS
    <2> HIDE DEF S, U, q, f, g, moved
    <2> QED BY <1>3, <1>5, <2>3, <2>4, SumRenamed
<1>8. MagnitudeSum(moved) = SumFunction(g) /\ MagnitudeSum(obs) = SumFunction(f)
    BY DEF MagnitudeSum
<1>9. MagnitudeSum(moved) = MagnitudeSum(obs)
    <2> HIDE DEF f, g, moved
    <2> QED BY <1>7, <1>8
<1> HIDE DEF moved
<1>10. /\ Computed(moved) = {n \in DOMAIN obs : p[n] \in Computed(obs)}
       /\ Rejected(moved) = {n \in DOMAIN obs : p[n] \in Rejected(obs)}
       /\ Cardinality(Computed(moved)) = Cardinality(Computed(obs))
       /\ MagnitudeSum(moved) = MagnitudeSum(obs)
    BY <1>1, <1>2, <1>6, <1>9
<1> QED BY <1>10 DEF moved

\* Some observation is incomplete, and the code says how.
LEMMA IncompleteFails ==
    ASSUME NEW obs \in Seq(Observation), ~AllComplete(obs)
    PROVE  NetworkCode(obs) \in MissingCodes
<1> DEFINE incomplete == {n \in DOMAIN obs : MissingCode(obs[n]) # NoError}
           Earliest(n) == \A m \in incomplete : n <= m
           first == CHOOSE n \in incomplete : Earliest(n)
<1>1. obs # <<>> /\ incomplete # {} /\ incomplete \subseteq Nat
    BY DEF AllComplete
<1>2. \E n \in incomplete : Earliest(n)
    <2> HIDE DEF incomplete
    <2> QED BY <1>1, LeastNumber
<1>3. first \in incomplete
    <2> HIDE DEF incomplete, Earliest
    <2> QED BY <1>2
<1>4. NetworkCode(obs) = MissingCode(obs[first])
    BY <1>1 DEF NetworkCode
<1>5. MissingCode(obs[first]) # NoError
    <2> HIDE DEF first
    <2> QED BY <1>3
<1> HIDE DEF first
<1> QED BY <1>4, <1>5 DEF MissingCode, MissingCodes

\* The calculator fails in any order or in none, and for the same reason unless it is
\* that some observation is incomplete.
LEMMA ReorderedCode ==
    ASSUME NEW obs \in Seq(Observation), NEW p \in Bijection(DOMAIN obs, DOMAIN obs)
    PROVE  \/ NetworkCode(Reordered(obs, p)) = NetworkCode(obs)
           \/ {NetworkCode(Reordered(obs, p)), NetworkCode(obs)} \subseteq MissingCodes
<1> DEFINE moved == Reordered(obs, p)
<1>1. /\ moved \in Seq(Observation) /\ Len(moved) = Len(obs) /\ Len(obs) \in Nat
      /\ DOMAIN obs = 1 .. Len(obs)
      /\ p \in [1 .. Len(obs) -> 1 .. Len(obs)]
      /\ \A n \in 1 .. Len(obs) : moved[n] = obs[p[n]]
      /\ \A n \in 1 .. Len(obs) : \E m \in 1 .. Len(obs) : p[m] = n
      /\ \A m, n \in 1 .. Len(obs) : p[m] = p[n] => m = n
    <2>1. DOMAIN obs = 1 .. Len(obs) /\ Len(obs) \in Nat
        OBVIOUS
    <2>2. /\ moved \in Seq(Observation) /\ Len(moved) = Len(obs)
          /\ p \in [DOMAIN obs -> DOMAIN obs]
          /\ \A n \in DOMAIN obs : moved[n] = obs[p[n]]
          /\ \A n \in DOMAIN obs : \E m \in DOMAIN obs : p[m] = n
          /\ \A m, n \in DOMAIN obs : p[m] = p[n] => m = n
        BY ReorderedIs
    <2> HIDE DEF moved
    <2> QED BY <2>1, <2>2
<1> HIDE DEF moved
<1>2. CASE obs = <<>>
    <2>1. moved = <<>>
        BY <1>1, <1>2
    <2> QED BY <1>2, <2>1 DEF moved
<1>3. CASE obs # <<>> /\ AllComplete(obs)
    <2>1. moved # <<>> /\ AllComplete(moved)
        BY <1>1, <1>3 DEF AllComplete
    <2>2. Differ(moved, Len(moved) + 1) <=> Differ(obs, Len(obs) + 1)
        <3>1. 1 .. (Len(obs) + 1) - 1 = 1 .. Len(obs)
            BY <1>1
        <3>2. /\ Differ(obs, Len(obs) + 1) <=>
                    \A m, n \in 1 .. Len(obs) : m # n => obs[m].station # obs[n].station
              /\ Differ(moved, Len(moved) + 1) <=>
                    \A m, n \in 1 .. Len(obs) : m # n => moved[m].station # moved[n].station
            BY <1>1, <3>1 DEF Differ
        <3>3. ASSUME NEW m \in 1 .. Len(obs), NEW n \in 1 .. Len(obs), m # n,
                     obs[m].station = obs[n].station
              PROVE  \E i, j \in 1 .. Len(obs) : i # j /\ moved[i].station = moved[j].station
            <4>1. PICK i \in 1 .. Len(obs) : p[i] = m
                BY <1>1
            <4>2. PICK j \in 1 .. Len(obs) : p[j] = n
                BY <1>1
            <4>3. i # j /\ moved[i] = obs[m] /\ moved[j] = obs[n]
                BY <1>1, <3>3, <4>1, <4>2
            <4> QED BY <3>3, <4>3
        <3>4. ASSUME NEW i \in 1 .. Len(obs), NEW j \in 1 .. Len(obs), i # j,
                     moved[i].station = moved[j].station
              PROVE  \E m, n \in 1 .. Len(obs) : m # n /\ obs[m].station = obs[n].station
            <4>1. /\ p[i] \in 1 .. Len(obs) /\ p[j] \in 1 .. Len(obs) /\ p[i] # p[j]
                  /\ obs[p[i]].station = obs[p[j]].station
                BY <1>1, <3>4
            <4> QED BY <4>1
        <3> QED BY <3>2, <3>3, <3>4
    <2>3. (\E n \in 1 .. Len(obs) : StationCode(obs[n]) = Terminate)
            <=> (\E n \in 1 .. Len(moved) : StationCode(moved[n]) = Terminate)
        <3>1. ASSUME NEW n \in 1 .. Len(obs), StationCode(obs[n]) = Terminate
              PROVE  \E m \in 1 .. Len(moved) : StationCode(moved[m]) = Terminate
            <4>1. PICK m \in 1 .. Len(obs) : p[m] = n
                BY <1>1
            <4> QED BY <1>1, <3>1, <4>1
        <3> QED BY <1>1, <3>1
    <2>4. Cardinality(Computed(moved)) = Cardinality(Computed(obs))
          /\ MagnitudeSum(moved) = MagnitudeSum(obs)
        BY ReorderedComputed DEF moved
    <2>5. NetworkCode(moved) = NetworkCode(obs)
        <3>1. CASE ~Differ(obs, Len(obs) + 1)
            BY <1>1, <1>3, <2>1, <2>2, <3>1, LaterFailure
        <3>2. CASE Differ(obs, Len(obs) + 1)
            <4> DEFINE Later(o) ==
                    IF \E n \in 1 .. Len(o) : StationCode(o[n]) = Terminate
                    THEN NetworkCode(o) = Terminate
                    ELSE IF Cardinality(Computed(o)) < Atleast(MinimumNumberOfStationMagnitudes)
                    THEN NetworkCode(o) = "TooFewObservations"
                    ELSE IF ~ValueInRange(MagnitudeSum(o), Cardinality(Computed(o)))
                    THEN NetworkCode(o) = "Algorithm"
                    ELSE NetworkCode(o) = NoError
            <4>1. Later(obs)
                BY <1>3, <3>2, LaterFailure
            <4>2. Later(moved)
                BY <1>1, <2>1, <2>2, <3>2, LaterFailure
            <4> QED BY <2>3, <2>4, <4>1, <4>2
        <3> QED BY <3>1, <3>2
    <2> QED BY <2>5 DEF moved
<1>4. CASE ~AllComplete(obs)
    <2>1. ~AllComplete(moved)
        <3>1. PICK n \in 1 .. Len(obs) : MissingCode(obs[n]) # NoError
            BY <1>4 DEF AllComplete
        <3>2. PICK m \in 1 .. Len(obs) : p[m] = n
            BY <1>1
        <3> QED BY <1>1, <3>1, <3>2 DEF AllComplete
    <2>2. NetworkCode(obs) \in MissingCodes
        BY <1>4, IncompleteFails
    <2>3. NetworkCode(moved) \in MissingCodes
        BY <1>1, <2>1, IncompleteFails
    <2> QED BY <2>2, <2>3 DEF moved
<1> QED BY <1>2, <1>3, <1>4

\* A client may send its observations in any order: the magnitude, and what becomes of
\* each observation, are the same, whichever pass looks at which of them first.
THEOREM AnyOrder ==
    ASSUME NEW obs \in Seq(Observation), NEW p \in Bijection(DOMAIN obs, DOMAIN obs)
    PROVE  SameAnswer(NetworkResult(obs), NetworkResult(Reordered(obs, p)), p)
<1> DEFINE moved == Reordered(obs, p)
           ours == NetworkResult(obs)
           theirs == NetworkResult(moved)
<1>1. /\ Computed(moved) = {n \in DOMAIN obs : p[n] \in Computed(obs)}
      /\ Rejected(moved) = {n \in DOMAIN obs : p[n] \in Rejected(obs)}
      /\ Cardinality(Computed(moved)) = Cardinality(Computed(obs))
      /\ MagnitudeSum(moved) = MagnitudeSum(obs)
    BY ReorderedComputed
<1>2. /\ DOMAIN p = DOMAIN obs
      /\ \A n \in DOMAIN obs : moved[n] = obs[p[n]]
    BY ReorderedIs
<1>3. \/ NetworkCode(moved) = NetworkCode(obs)
      \/ {NetworkCode(moved), NetworkCode(obs)} \subseteq MissingCodes
    BY ReorderedCode
<1> HIDE DEF moved
<1>4. CASE NetworkCode(obs) # NoError
    <2>1. NetworkCode(moved) # NoError
        BY <1>3, <1>4 DEF MissingCodes, NoError
    <2>2. ours = Failure(NetworkCode(obs)) /\ theirs = Failure(NetworkCode(moved))
        BY <1>4, <2>1 DEF NetworkResult
    <2> QED BY <1>3, <1>4, <2>2 DEF SameAnswer, Failure, moved
<1>5. CASE NetworkCode(obs) = NoError
    <2>1. NetworkCode(moved) = NoError
        BY <1>3, <1>5 DEF MissingCodes, NoError
    <2>2. /\ ours.error = NoError /\ theirs.error = NoError
          /\ ours.sum = MagnitudeSum(obs) /\ theirs.sum = MagnitudeSum(moved)
          /\ ours.count = Cardinality(Computed(obs))
          /\ theirs.count = Cardinality(Computed(moved))
          /\ ours.rejected = [n \in Rejected(obs) |-> StationCode(obs[n])]
          /\ theirs.rejected = [n \in Rejected(moved) |-> StationCode(moved[n])]
          /\ ours.residuals = [n \in Computed(obs) |->
                ours.sum - ours.count * StationMagnitude(obs[n])]
          /\ theirs.residuals = [n \in Computed(moved) |->
                theirs.sum - theirs.count * StationMagnitude(moved[n])]
        BY <1>5, <2>1 DEF NetworkResult
    <2> HIDE DEF ours, theirs
    <2>3. /\ DOMAIN theirs.residuals = {n \in DOMAIN p : p[n] \in DOMAIN ours.residuals}
          /\ DOMAIN theirs.rejected = {n \in DOMAIN p : p[n] \in DOMAIN ours.rejected}
        BY <1>1, <1>2, <2>2
    <2>4. \A n \in DOMAIN theirs.residuals : theirs.residuals[n] = ours.residuals[p[n]]
        BY <1>1, <1>2, <2>2
    <2>5. \A n \in DOMAIN theirs.rejected : theirs.rejected[n] = ours.rejected[p[n]]
        BY <1>1, <1>2, <2>2
    <2>6. SameAnswer(ours, theirs, p)
        BY <1>1, <2>2, <2>3, <2>4, <2>5 DEF SameAnswer
    <2> QED BY <2>6 DEF ours, theirs, moved
<1> QED BY <1>4, <1>5

=============================================================================
