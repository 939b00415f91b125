------------------------ MODULE DistanceCorrections ------------------------
(***************************************************************************)
(* The distance correction table: DistanceOptions, which collects and      *)
(* checks it, and Distance, which is constructed from the options and      *)
(* interpolates in it.                                                     *)
(*                                                                         *)
(* Distances are integers in units small enough that the 10 cm tolerance   *)
(* of the duplicate check is several of them.  An interpolated correction  *)
(* is a fraction <<numerator, denominator>>.                               *)
(***************************************************************************)
EXTENDS Integers, Sequences, FiniteSets, Functions

CONSTANTS
    Tables,       \* the tables setCorrections may be called with
    Files,        \* the initialization files that may be loaded
    Datums,       \* the datums setDatum may be called with
    Tolerance,    \* 10 cm
    MinDatum,     \* -10000 m
    MaxDatum,     \* 8600 m
    MinDepth,     \* -8600 m
    MaxDepth,     \* 900000 m
    LastEntry,    \* the last number looked for in a file (65534)
    NoDistance,   \* the Distance has not been constructed
    NaN,          \* std::stod takes it for a number
    Queries,      \* the distances the properties look up
    Depths        \* the source depths the properties look up

Interpolations == {"Nearest", "Linear"}
Types == {"Epicentral", "Hypocentral"}

Number == Int \cup {NaN}
Table == Seq(Number \X Number)

\* A comparison with NaN is false.
Less(x, y) == x # NaN /\ y # NaN /\ x < y

\* Longer tables have no order with a NaN among their distances: what std::sort and the
\* searches do to them is undefined, and they are left out.
NaNIsAlone(table) ==
    Len(table) > 1 => \A i \in DOMAIN table : table[i] # <<>> => table[i][1] # NaN

ASSUME TablesAssumption ==
    NaN \notin Int /\ Tables \subseteq Table /\ \A table \in Tables : NaNIsAlone(table)

\* What fromInitializationFile finds in its section.  The entries are
\* distance_correction_1, _2, ...: any of them may be missing, and one that
\* does not split into two numbers is malformed, here <<>>.
ASSUME FilesAssumption ==
    \A f \in Files :
        /\ f.interpolation \in Interpolations \cup {"absent", "unknown"}
        /\ f.distanceType \in Types \cup {"absent", "unknown"}
        /\ f.datum \in Int
        /\ DOMAIN f.entries \subseteq Nat \ {0} /\ IsFiniteSet(DOMAIN f.entries)
        /\ \A i \in DOMAIN f.entries : f.entries[i] \in {<<>>} \cup (Number \X Number)
        /\ \A n \in 0 .. Cardinality(DOMAIN f.entries) :
              1 .. n \subseteq DOMAIN f.entries =>
                  NaNIsAlone([i \in 1 .. n |-> f.entries[i]])
ASSUME RangesAssumption ==
    /\ Datums \subseteq Int /\ Queries \subseteq Int /\ Depths \subseteq Int
    /\ Tolerance \in Nat \ {0} /\ LastEntry \in Nat
    /\ MinDatum \in Int /\ MaxDatum \in Int /\ MinDatum <= 0 /\ 0 <= MaxDatum
    /\ MinDepth \in Int /\ MaxDepth \in Int

VARIABLES
    options,   \* a DistanceOptions
    distance,  \* the Distance last constructed, or NoDistance
    outcome    \* whether the last operation returned or threw

vars == <<options, distance, outcome>>

DefaultOptions ==
    [mCorrections |-> <<>>, mInterpolation |-> "Nearest", mType |-> "Epicentral",
     mDatum |-> 0, mHaveCorrections |-> FALSE, mHasInterpolation |-> FALSE,
     mHasType |-> FALSE]

Init ==
    /\ options = DefaultOptions
    /\ distance = NoDistance
    /\ outcome = "none"

-----------------------------------------------------------------------------

\* std::sort by distance.
IsSorted(table) == \A i, j \in DOMAIN table : i < j => ~Less(table[j][1], table[i][1])
Sorted(table) ==
    LET n == Len(table)
        rearranged == {p \in [1 .. n -> 1 .. n] : Range(p) = 1 .. n}
        order == CHOOSE p \in rearranged : IsSorted([i \in 1 .. n |-> table[p[i]]])
    IN  [i \in 1 .. n |-> table[order[i]]]

\* Mutant of HasDuplicate: the last pair of neighbours is not compared.
HasDuplicateStopsShort(sorted) ==
    \E i \in 1 .. Len(sorted) - 2 : sorted[i + 1][1] - sorted[i][1] < Tolerance

\* Two neighbours of a sorted table less than the tolerance apart.
HasDuplicate(sorted) ==
    \E i \in 1 .. Len(sorted) - 1 : sorted[i + 1][1] - sorted[i][1] < Tolerance

ValidTable(table) ==
    /\ table # <<>>
    /\ ~\E i \in DOMAIN table : Less(table[i][1], 0)
    /\ ~HasDuplicate(Sorted(table))

WithCorrections(o, table) ==
    [o EXCEPT !.mCorrections = Sorted(table), !.mHaveCorrections = TRUE]

Throw == outcome' = "threw" /\ UNCHANGED <<options, distance>>

SetCorrections ==
    \E table \in Tables :
        \/ /\ ValidTable(table)
           /\ options' = WithCorrections(options, table)
           /\ outcome' = "returned"
           /\ UNCHANGED distance
        \/ ~ValidTable(table) /\ Throw

SetInterpolation ==
    \E interpolation \in Interpolations :
        /\ options' = [options EXCEPT !.mInterpolation = interpolation,
                                      !.mHasInterpolation = TRUE]
        /\ outcome' = "returned"
        /\ UNCHANGED distance

SetType ==
    \E type \in Types :
        /\ options' = [options EXCEPT !.mType = type, !.mHasType = TRUE]
        /\ outcome' = "returned"
        /\ UNCHANGED distance

\* Mutant of ValidDatum: only one end of the range is checked.
ValidDatumOneSided(datum) == MinDatum <= datum

ValidDatum(datum) == MinDatum <= datum /\ datum <= MaxDatum

SetDatum ==
    \E datum \in Datums :
        \/ /\ ValidDatum(datum)
           /\ options' = [options EXCEPT !.mDatum = datum]
           /\ outcome' = "returned"
           /\ UNCHANGED distance
        \/ ~ValidDatum(datum) /\ Throw

\* The table is read one entry at a time, up to the first number missing or the last
\* that is looked for.
Listed(entries) ==
    {i \in DOMAIN entries : i <= LastEntry /\ \A j \in 1 .. i : j \in DOMAIN entries}
TableOf(entries) == [i \in 1 .. Cardinality(Listed(entries)) |-> entries[i]]

Loadable(file) ==
    /\ file.interpolation \in Interpolations
    /\ file.distanceType \in Types
    /\ file.distanceType = "Hypocentral" => ValidDatum(file.datum)
    /\ \A i \in Listed(file.entries) : file.entries[i] # <<>>
    /\ ValidTable(TableOf(file.entries))

\* Options from a file start from the defaults; the datum is only read when
\* the distances are hypocentral.
LoadedOptions(file) ==
    WithCorrections(
        [DefaultOptions EXCEPT !.mInterpolation = file.interpolation,
                               !.mHasInterpolation = TRUE,
                               !.mType = file.distanceType,
                               !.mHasType = TRUE,
                               !.mDatum = IF file.distanceType = "Hypocentral"
                                          THEN file.datum ELSE 0],
        TableOf(file.entries))

FromInitializationFile ==
    \E file \in Files :
        \/ /\ Loadable(file)
           /\ options' = LoadedOptions(file)
           /\ outcome' = "returned"
           /\ UNCHANGED distance
        \/ ~Loadable(file) /\ Throw

\* Distance's constructor needs the table, the interpolation and the type,
\* copies the options and splits the table.
Construct ==
    \/ /\ options.mHaveCorrections /\ options.mHasInterpolation /\ options.mHasType
       /\ LET table == options.mCorrections
              absissas == [i \in DOMAIN table |-> table[i][1]]
          IN  distance' =
                 [mDistanceOptions |-> options,
                  mAbsissas        |-> absissas,
                  mValues          |-> [i \in DOMAIN table |-> table[i][2]],
                  mMinimumDistance |-> CHOOSE x \in Range(absissas) :
                                          ~\E y \in Range(absissas) : Less(y, x),
                  mMaximumDistance |-> CHOOSE x \in Range(absissas) :
                                          ~\E y \in Range(absissas) : Less(x, y)]
       /\ outcome' = "returned"
       /\ UNCHANGED options
    \/ /\ ~(options.mHaveCorrections /\ options.mHasInterpolation /\ options.mHasType)
       /\ Throw

Next ==
    \/ SetCorrections \/ SetInterpolation \/ SetType \/ SetDatum
    \/ FromInitializationFile \/ Construct

Spec == Init /\ [][Next]_vars

-----------------------------------------------------------------------------

(***************************************************************************)
(* Looking a correction up.  The functions are const: they are operators   *)
(* on a Distance d.                                                        *)
(***************************************************************************)

\* The first index whose abscissa is at least (beyond) x, or one past the end.
LowerBound(xv, x) ==
    LET at == {i \in DOMAIN xv : xv[i] >= x}
    IN  IF at = {} THEN Len(xv) + 1 ELSE CHOOSE i \in at : \A j \in at : i <= j
UpperBound(xv, x) ==
    LET at == {i \in DOMAIN xv : xv[i] > x}
    IN  IF at = {} THEN Len(xv) + 1 ELSE CHOOSE i \in at : \A j \in at : i <= j

\* std::expected: the fraction, or an error code.
Found(numerator, denominator) ==
    [error |-> "None", value |-> <<numerator, denominator>>]
Failed(code) == [error |-> code, value |-> <<0, 1>>]

\* Mutant of interpolateNearest: a tie goes to the farther node.
interpolateNearestTie(x, xv, yv) ==
    LET i == LowerBound(xv, x)
    IN  IF Len(xv) = 1 \/ i = 1 THEN Found(yv[1], 1)
        ELSE IF i = Len(xv) + 1 THEN Found(yv[Len(yv)], 1)
        ELSE Found(yv[IF x - xv[i - 1] < xv[i] - x THEN i - 1 ELSE i], 1)

interpolateNearest(x, xv, yv) ==
    LET i == LowerBound(xv, x)
    IN  IF Len(xv) = 1 \/ i = 1 THEN Found(yv[1], 1)
        ELSE IF i = Len(xv) + 1 THEN Found(yv[Len(yv)], 1)
        ELSE Found(yv[IF x - xv[i - 1] <= xv[i] - x THEN i - 1 ELSE i], 1)

\* Mutant of interpolateLinearly: the line starts from the wrong node.
interpolateLinearlyOffByOne(x, xv, yv) ==
    LET i == UpperBound(xv, x) - 1
        width == xv[i + 1] - xv[i]
    IN  IF Len(xv) = 1 \/ x <= xv[1] THEN Found(yv[1], 1)
        ELSE IF x >= xv[Len(xv)] THEN Found(yv[Len(yv)], 1)
        ELSE Found(yv[i + 1] * width + (x - xv[i]) * (yv[i + 1] - yv[i]), width)

\* A NaN at either end of the interval makes the sum one.
interpolateLinearly(x, xv, yv) ==
    LET above == UpperBound(xv, x)
        i == above - 1
        width == xv[i + 1] - xv[i]
    IN  IF Len(xv) = 1 \/ x <= xv[1] THEN Found(yv[1], 1)
        ELSE IF x >= xv[Len(xv)] THEN Found(yv[Len(yv)], 1)
        ELSE IF above = 1 \/ above = Len(xv) + 1 THEN Failed("Throws")
        ELSE IF NaN \in {yv[i], yv[i + 1]} THEN Found(NaN, 1)
        ELSE Found(yv[i] * width + (x - xv[i]) * (yv[i + 1] - yv[i]), width)

\* Mutant of CorrectionAt: the last node is already too far.
CorrectionAtOpenEnd(d, x) ==
    IF x < 0 THEN Failed("NegativeDistance")
    ELSE IF Less(x, d.mMinimumDistance) THEN Failed("StationTooClose")
    ELSE IF x >= d.mMaximumDistance THEN Failed("StationTooFar")
    ELSE IF d.mDistanceOptions.mInterpolation = "Nearest"
         THEN interpolateNearest(x, d.mAbsissas, d.mValues)
    ELSE interpolateLinearly(x, d.mAbsissas, d.mValues)

\* Distance::operator()(distance): an error code, or a fraction.
CorrectionAt(d, x) ==
    IF x < 0 THEN Failed("NegativeDistance")
    ELSE IF Less(x, d.mMinimumDistance) THEN Failed("StationTooClose")
    ELSE IF Less(d.mMaximumDistance, x) THEN Failed("StationTooFar")
    ELSE IF d.mDistanceOptions.mInterpolation = "Nearest"
         THEN interpolateNearest(x, d.mAbsissas, d.mValues)
    ELSE interpolateLinearly(x, d.mAbsissas, d.mValues)

\* std::hypot, rounded down to a whole unit.
Hypot(x, y) ==
    CHOOSE h \in 0 .. (IF x < 0 THEN -x ELSE x) + (IF y < 0 THEN -y ELSE y) :
        h * h <= x * x + y * y /\ x * x + y * y < (h + 1) * (h + 1)

\* Mutant of Correction: the datum is taken as positive down.
CorrectionDatumDown(d, epicentralDistance, sourceDepth) ==
    IF epicentralDistance < 0 THEN Failed("NegativeDistance")
    ELSE IF d.mDistanceOptions.mType = "Epicentral"
         THEN CorrectionAt(d, epicentralDistance)
    ELSE IF sourceDepth < MinDepth \/ sourceDepth > MaxDepth
         THEN Failed("InvalidSourceDepth")
    ELSE CorrectionAt(d, Hypot(epicentralDistance,
                               sourceDepth - d.mDistanceOptions.mDatum))

\* Distance::operator()(epicentralDistance, sourceDepth).  The datum is
\* positive up, depth positive down: the depth below the datum is their sum.
Correction(d, epicentralDistance, sourceDepth) ==
    IF epicentralDistance < 0 THEN Failed("NegativeDistance")
    ELSE IF d.mDistanceOptions.mType = "Epicentral"
         THEN CorrectionAt(d, epicentralDistance)
    ELSE IF sourceDepth < MinDepth \/ sourceDepth > MaxDepth
         THEN Failed("InvalidSourceDepth")
    ELSE LET datum == -d.mDistanceOptions.mDatum
         IN  CorrectionAt(d, Hypot(epicentralDistance, sourceDepth - datum))

-----------------------------------------------------------------------------

\* Type correctness of the two objects.
TypeOK ==
    /\ options.mCorrections \in Table
    /\ options.mInterpolation \in Interpolations
    /\ options.mType \in Types
    /\ options.mDatum \in MinDatum .. MaxDatum
    /\ options.mHaveCorrections = (options.mCorrections # <<>>)
    /\ outcome \in {"none", "returned", "threw"}
    /\ distance # NoDistance =>
          distance.mAbsissas \in Seq(Number) /\ distance.mValues \in Seq(Number)

\* The Distance was made from a table without a NaN among its distances.  With one the
\* ends of the table mean nothing, and what the lookups are told neither.
HasNumbers ==
    /\ distance # NoDistance
    /\ \A i \in DOMAIN distance.mAbsissas : distance.mAbsissas[i] # NaN

\* Whatever was set, in whatever order and however often it was refused, the
\* table a Distance interpolates in is the one the binary searches need:
\* non-negative, ascending, nodes at least the tolerance apart.
TableFitForSearch ==
    HasNumbers =>
        LET xv == distance.mAbsissas
        IN  /\ Len(xv) >= 1 /\ Len(distance.mValues) = Len(xv)
            /\ xv[1] >= 0
            /\ \A i, j \in DOMAIN xv : i < j => xv[j] - xv[i] >= Tolerance
            /\ distance.mMinimumDistance = xv[1]
            /\ distance.mMaximumDistance = xv[Len(xv)]

\* Every distance gets an answer, the table's ends included: the noexcept
\* lookups never throw, and each error code means what it says.
EveryDistanceAnswered ==
    HasNumbers =>
        \A x \in Queries :
            LET xv == distance.mAbsissas
            IN  CorrectionAt(distance, x).error =
                    IF x < 0 THEN "NegativeDistance"
                    ELSE IF \A i \in DOMAIN xv : x < xv[i] THEN "StationTooClose"
                    ELSE IF \A i \in DOMAIN xv : x > xv[i] THEN "StationTooFar"
                    ELSE "None"

Gap(x, y) == IF x < y THEN y - x ELSE x - y

\* Nearest neighbour interpolation returns the value of the node nearest to
\* the distance, the closer-in one of two that are equally near.
NearestIsNearest ==
    HasNumbers /\ distance.mDistanceOptions.mInterpolation = "Nearest" =>
        \A x \in Queries :
            LET xv == distance.mAbsissas
                answer == CorrectionAt(distance, x)
            IN  answer.error = "None" =>
                    \E k \in DOMAIN xv :
                        /\ answer.value = <<distance.mValues[k], 1>>
                        /\ \A i \in DOMAIN xv : Gap(x, xv[k]) <= Gap(x, xv[i])
                        /\ \A i \in 1 .. k - 1 : Gap(x, xv[k]) < Gap(x, xv[i])

\* None of the values is NaN: one that is makes the answers next to it NaN too, that at
\* the node before it included.
HasValues == \A i \in DOMAIN distance.mValues : distance.mValues[i] # NaN

\* Linear interpolation passes through every node and, between two adjacent
\* nodes, divides the values in the ratio of the distances.
LinearIsLinear ==
    HasNumbers /\ HasValues /\ distance.mDistanceOptions.mInterpolation = "Linear" =>
        \A x \in Queries :
            LET xv == distance.mAbsissas
                yv == distance.mValues
                answer == CorrectionAt(distance, x)
                n == answer.value[1]
                m == answer.value[2]
            IN  answer.error = "None" =>
                    /\ \A i \in DOMAIN xv : x = xv[i] => n = m * yv[i]
                    /\ \A i \in 1 .. Len(xv) - 1 :
                          xv[i] <= x /\ x <= xv[i + 1] =>
                              (n - m * yv[i]) * (xv[i + 1] - x)
                                  = (m * yv[i + 1] - n) * (x - xv[i])

\* "if the catalog depth is, say, 3km, and the datum is 2km, then we end up
\* with 3 -(-2) = 5": a hypocentral table is read at the slant distance from
\* the depth below the datum; an epicentral one whatever the depth.
DepthIsBelowDatum ==
    distance # NoDistance =>
        \A e \in Queries, z \in Depths, h \in Queries :
            LET o == distance.mDistanceOptions
                below == z + o.mDatum
            IN  e >= 0 /\ h >= 0 /\ MinDepth <= z /\ z <= MaxDepth =>
                    /\ o.mType = "Hypocentral" /\ h * h = e * e + below * below =>
                          Correction(distance, e, z) = CorrectionAt(distance, h)
                    /\ o.mType = "Epicentral" =>
                          Correction(distance, e, z) = CorrectionAt(distance, e)

=============================================================================
