--------------------- MODULE NetworkMagnitudeCalculator ---------------------
(***************************************************************************)
(* NetworkMagnitudeCalculator::operator(), loop by loop.                   *)
(*                                                                         *)
(* One call is followed from entry to return.  Each pass over the          *)
(* observations (completeness, duplicates, station magnitudes, average,    *)
(* residuals and rejections) is a phase with a loop index, one iteration   *)
(* per step.                                                               *)
(***************************************************************************)
EXTENDS MagnitudeCalculator

CONSTANTS
    Inputs,   \* the observation vectors the calculator may be called with
    Pending   \* the call has not returned

ASSUME InputsAssumption == Inputs \subseteq Seq(Observation)

VARIABLES
    observations,          \* the argument
    phase,                 \* which pass of operator() is running
    index,                 \* the loop index of that pass
    stationNames,          \* std::set of the names seen by the duplicate check
    workItems,             \* observation number and station outcome
    sum,                   \* running sum of station magnitudes
    nStationMagnitudes,    \* how many were summed
    residuals,             \* <<scaled residual, observation number>> pairs
    rejectedObservations,  \* <<code, observation number>> pairs
    result                 \* the std::expected that is returned

vars == <<observations, phase, index, stationNames, workItems, sum,
          nStationMagnitudes, residuals, rejectedObservations, result>>

tables == <<residuals, rejectedObservations>>
totals == <<sum, nStationMagnitudes>>

Init ==
    /\ observations \in Inputs
    /\ phase = "enter"
    /\ index = 1
    /\ stationNames = {}
    /\ workItems = <<>>
    /\ sum = 0
    /\ nStationMagnitudes = 0
    /\ residuals = <<>>
    /\ rejectedObservations = <<>>
    /\ result = Pending

-----------------------------------------------------------------------------

\* return std::unexpected(code)
Fail(code) ==
    /\ phase' = "returned"
    /\ result' = Failure(code)
    /\ UNCHANGED index

\* The next iteration of the same pass.
Continue ==
    /\ index' = index + 1
    /\ UNCHANGED <<phase, result>>

\* Mutant of Enter: the loops count from zero.
EnterAtZero(p) ==
    /\ phase' = p
    /\ index' = 0
    /\ UNCHANGED result

\* The pass is over: p is the next one.
Enter(p) ==
    /\ phase' = p
    /\ index' = 1
    /\ UNCHANGED result

\* if (observations.empty())
CheckEmpty ==
    /\ phase = "enter"
    /\ IF observations = <<>> THEN Fail("NoObservations") ELSE Enter("complete")
    /\ UNCHANGED <<observations, stationNames, workItems, totals, tables>>

\* Every observation must be complete before any is used.
CheckComplete ==
    /\ phase = "complete"
    /\ IF index > Len(observations) THEN Enter("duplicates")
       ELSE IF MissingCode(observations[index]) # NoError
            THEN Fail(MissingCode(observations[index]))
       ELSE Continue
    /\ UNCHANGED <<observations, stationNames, workItems, totals, tables>>

\* Mutant of CheckDuplicate: what set::insert reports is ignored.
CheckDuplicateIgnored ==
    /\ phase = "duplicates"
    /\ IF index > Len(observations)
       THEN Enter("stations") /\ UNCHANGED stationNames
       ELSE /\ stationNames' = stationNames \cup {observations[index].station}
            /\ Continue
    /\ UNCHANGED <<observations, workItems, totals, tables>>

\* A station can only be observed once: set::insert reports a name it holds.
CheckDuplicate ==
    /\ phase = "duplicates"
    /\ IF index > Len(observations)
       THEN Enter("stations") /\ UNCHANGED stationNames
       ELSE LET name == observations[index].station
            IN  /\ stationNames' = stationNames \cup {name}
                /\ IF name \in stationNames
                   THEN Fail("DuplicateObservations") ELSE Continue
    /\ UNCHANGED <<observations, workItems, totals, tables>>

\* computeStationMagnitude is noexcept: an exception in it ends the process.
ComputeStation ==
    /\ phase = "stations"
    /\ IF index > Len(observations)
       THEN Enter("enough") /\ UNCHANGED workItems
       ELSE LET code == StationCode(observations[index])
            IN  IF code = Terminate
                THEN Fail(Terminate) /\ UNCHANGED workItems
                ELSE /\ workItems' = Append(workItems,
                                            [observationNumber |-> index,
                                             code |-> code])
                     /\ Continue
    /\ UNCHANGED <<observations, stationNames, totals, tables>>

\* "We can quit now (can still get worse)"
CheckEnoughWork ==
    /\ phase = "enough"
    /\ IF Len(workItems) < MinimumNumberOfStationMagnitudes
       THEN Fail("TooFewObservations") ELSE Enter("average")
    /\ UNCHANGED <<observations, stationNames, workItems, totals, tables>>

\* Mutant of Accumulate: the failures are counted too.
AccumulateCountsAll ==
    /\ phase = "average"
    /\ IF index > Len(workItems) THEN Enter("value") /\ UNCHANGED totals
       ELSE /\ nStationMagnitudes' = nStationMagnitudes + 1
            /\ IF workItems[index].code = NoError
               THEN sum' = sum + StationMagnitude(observations[index])
               ELSE UNCHANGED sum
            /\ Continue
    /\ UNCHANGED <<observations, stationNames, workItems, tables>>

\* Sum the station magnitudes that could be computed.
Accumulate ==
    /\ phase = "average"
    /\ IF index > Len(workItems) THEN Enter("value") /\ UNCHANGED totals
       ELSE /\ IF workItems[index].code = NoError
               THEN /\ nStationMagnitudes' = nStationMagnitudes + 1
                    /\ sum' = sum + StationMagnitude(observations[index])
               ELSE UNCHANGED totals
            /\ Continue
    /\ UNCHANGED <<observations, stationNames, workItems, tables>>

\* Mutant of SetValue: the second count check is missing.
SetValueUncounted ==
    /\ phase = "value"
    /\ IF ~ValueInRange(sum, nStationMagnitudes) THEN Fail("Algorithm")
       ELSE Enter("tabulate")
    /\ UNCHANGED <<observations, stationNames, workItems, totals, tables>>

\* The second count check, then NetworkMagnitude::setValue.
SetValue ==
    /\ phase = "value"
    /\ IF nStationMagnitudes < Atleast(MinimumNumberOfStationMagnitudes)
       THEN Fail("TooFewObservations")
       ELSE IF ~ValueInRange(sum, nStationMagnitudes) THEN Fail("Algorithm")
       ELSE Enter("tabulate")
    /\ UNCHANGED <<observations, stationNames, workItems, totals, tables>>

\* Mutant of Tabulate: rejections are skipped.
TabulateSkipsRejections ==
    /\ phase = "tabulate"
    /\ index <= Len(workItems)
    /\ IF workItems[index].code = NoError
       THEN residuals' = Append(residuals,
               <<sum - nStationMagnitudes * StationMagnitude(observations[index]),
                 workItems[index].observationNumber>>)
       ELSE UNCHANGED residuals
    /\ Continue
    /\ UNCHANGED <<observations, stationNames, workItems, totals, rejectedObservations>>

\* A residual for each station magnitude, a rejection for each failure.
Tabulate ==
    /\ phase = "tabulate"
    /\ index <= Len(workItems)
    /\ LET item == workItems[index]
           value == StationMagnitude(observations[index])
       IN  IF item.code = NoError
           THEN /\ residuals' = Append(residuals,
                       <<sum - nStationMagnitudes * value, item.observationNumber>>)
                /\ UNCHANGED rejectedObservations
           ELSE /\ rejectedObservations' = Append(rejectedObservations,
                       <<item.code, item.observationNumber>>)
                /\ UNCHANGED residuals
    /\ Continue
    /\ UNCHANGED <<observations, stationNames, workItems, totals>>

\* setResiduals and setRejectedObservations copy the pairs in their order: a table is
\* read by the observation number of its rows.
ByNumber(pairs) ==
    [n \in {pairs[k][2] : k \in DOMAIN pairs} |->
        (CHOOSE p \in Range(pairs) : p[2] = n)[1]]

\* Both tables are stored, and return networkMagnitude.
Return ==
    /\ phase = "tabulate"
    /\ index > Len(workItems)
    /\ phase' = "returned"
    /\ result' = [error     |-> NoError,
                  sum       |-> sum,
                  count     |-> nStationMagnitudes,
                  residuals |-> ByNumber(residuals),
                  rejected  |-> ByNumber(rejectedObservations)]
    /\ UNCHANGED <<observations, index, stationNames, workItems, totals, tables>>

Next ==
    \/ CheckEmpty \/ CheckComplete \/ CheckDuplicate \/ ComputeStation
    \/ CheckEnoughWork \/ Accumulate \/ SetValue \/ Tabulate \/ Return

\* A call that was entered runs to its end: it takes no lock and waits for
\* nothing.
Spec == Init /\ [][Next]_vars /\ WF_vars(Next)

-----------------------------------------------------------------------------

Phases == {"enter", "complete", "duplicates", "stations", "enough",
           "average", "value", "tabulate", "returned"}

WorkItem == [observationNumber : Nat \ {0}, code : StationCodes]

\* Type correctness of the locals of operator().
TypeOK ==
    /\ observations \in Inputs
    /\ phase \in Phases
    /\ index \in Nat \ {0}
    /\ stationNames \subseteq Stations
    /\ workItems \in Seq(WorkItem)
    /\ sum \in Int
    /\ nStationMagnitudes \in Nat
    /\ residuals \in Seq(Int \X (Nat \ {0}))
    /\ rejectedObservations \in Seq(StationCodes \X (Nat \ {0}))
    /\ result # Pending => phase = "returned"

Succeeded == phase = "returned" /\ result.error = NoError

\* The rows of a table are in the order of the observations.
Ascending(pairs) == \A j, k \in DOMAIN pairs : j < k => pairs[j][2] < pairs[k][2]

\* "Every observation is accounted for exactly once": when a magnitude is
\* returned each observation number is in exactly one row of exactly one of
\* the two tables, and the tables are in the order of the observations.
AccountedExactlyOnce ==
    Succeeded =>
        /\ Len(residuals) + Len(rejectedObservations) = Len(observations)
        /\ \A n \in DOMAIN observations :
              (\E k \in DOMAIN residuals : residuals[k][2] = n)
                  # (\E k \in DOMAIN rejectedObservations :
                        rejectedObservations[k][2] = n)
        /\ Ascending(residuals)
        /\ Ascending(rejectedObservations)

\* The average is of the station magnitudes that were computed and of no
\* other: the residuals of a returned magnitude cancel.  ("Station magnitudes
\* that can't be computed don't count".)
ResidualsBalance ==
    Succeeded => SumFunction([k \in DOMAIN residuals |-> residuals[k][1]]) = 0

\* A magnitude is only ever returned from enough distinct stations.
EnoughStations ==
    Succeeded =>
        Cardinality({observations[residuals[k][2]].station : k \in DOMAIN residuals})
            >= MinimumNumberOfStationMagnitudes

\* "Every rejection has a reason": what the response says of a rejected
\* observation is never REASON_UNSPECIFIED.
EveryRejectionHasAReason ==
    \A k \in DOMAIN rejectedObservations :
        Reason(rejectedObservations[k][1]) # "REASON_UNSPECIFIED"

\* The answer is the one NetworkMagnitudePromise makes.
Promise == INSTANCE NetworkMagnitudePromise WITH answer <- result
ImplementsPromise == Promise!PromiseSpec

=============================================================================
