--------------------- MODULE DistanceCorrectionsProofs ---------------------
(***************************************************************************)
(* What DistanceCorrections shows for small tables, for tables of any      *)
(* length, and for every distance and every depth.                         *)
(***************************************************************************)
EXTENDS DistanceCorrections, FiniteSetTheorems, TLAPS

(***************************************************************************)
(* Numbers and sets.                                                       *)
(***************************************************************************)

\* A set of natural numbers that is not empty has a least one.
LEMMA Least ==
    ASSUME NEW S \in SUBSET Nat, S # {}
    PROVE  \E n \in S : \A m \in S : n <= m
<1> DEFINE R == OpToRel(<, Nat)
<1>1. IsWellFoundedOn(R, Nat)
    BY NatLessThanWellFounded
<1>2. \A m, n \in Nat : <<m, n>> \in R <=> m < n
    BY DEF OpToRel
<1> HIDE DEF R
<1>3. PICK n \in S : \A m \in S : ~(<<m, n>> \in R)
    BY <1>1, WFMin
<1>4. ASSUME NEW m \in S PROVE n <= m
    <2>1. m \in Nat /\ n \in Nat
        OBVIOUS
    <2>2. ~(m < n)
        BY <1>2, <1>3, <2>1
    <2> QED BY <2>1, <2>2
<1> QED BY <1>4

\* A set that has every number before one it has is an interval.
LEMMA InitialSegment ==
    ASSUME NEW S \in SUBSET (Nat \ {0}), IsFiniteSet(S),
           \A n \in S : 1 .. n \subseteq S
    PROVE  S = 1 .. Cardinality(S) /\ Cardinality(S) \in Nat
<1> DEFINE missing == (Nat \ {0}) \ S
           N == Cardinality(S)
<1>1. N \in Nat
    BY FS_CardinalityType
<1>2. missing # {}
    <2> SUFFICES ASSUME missing = {} PROVE FALSE
        OBVIOUS
    <2>1. 1 .. N + 1 \subseteq S
        BY <1>1
    <2>2. Cardinality(1 .. N + 1) = N + 1
        BY <1>1, FS_Interval
    <2>3. Cardinality(1 .. N + 1) <= N
        BY <2>1, FS_Subset
    <2> QED BY <1>1, <2>2, <2>3
<1>3. PICK k \in missing : \A m \in missing : k <= m
    BY <1>2, Least
<1>4. S = 1 .. k - 1
    <2>1. \A n \in 1 .. k - 1 : n \in S
        BY <1>3
    <2>2. \A n \in S : n \in 1 .. k - 1
        <3> SUFFICES ASSUME NEW n \in S, n >= k PROVE FALSE
            BY <1>3
        <3>1. k \in 1 .. n
            BY <1>3
        <3> QED BY <1>3, <3>1
    <2> QED BY <2>1, <2>2
<1>5. Cardinality(1 .. k - 1) = k - 1
    BY <1>3, FS_Interval
<1> QED BY <1>3, <1>4, <1>5

(***************************************************************************)
(* Sorting.  An entry's place is the number of the entries that are not    *)
(* after it, those of an equal distance in the order they are listed in.   *)
(***************************************************************************)

Key(entry) == IF entry[1] = NaN THEN 0 ELSE entry[1]

NotAfter(table, i) ==
    {j \in 1 .. Len(table) :
        \/ Key(table[j]) < Key(table[i])
        \/ Key(table[j]) = Key(table[i]) /\ j <= i}

\* No two entries have the same place, so every place has its entry.
LEMMA Places ==
    ASSUME NEW table \in Table
    PROVE  \E p \in [1 .. Len(table) -> 1 .. Len(table)] :
               /\ Range(p) = 1 .. Len(table)
               /\ \A i, j \in 1 .. Len(table) :
                     i < j => Key(table[p[i]]) <= Key(table[p[j]])
<1> DEFINE n == Len(table)
           place == [i \in 1 .. n |-> Cardinality(NotAfter(table, i))]
<1>1. n \in Nat /\ IsFiniteSet(1 .. n) /\ Cardinality(1 .. n) = n
    BY FS_Interval
<1>2. \A i \in 1 .. n : Key(table[i]) \in Int
    <2>1. \A i \in 1 .. n : table[i] \in Number \X Number
        BY DEF Table
    <2> QED BY <2>1 DEF Key, Number
<1>3. ASSUME NEW i \in 1 .. n
      PROVE  /\ i \in NotAfter(table, i) /\ NotAfter(table, i) \subseteq 1 .. n
             /\ IsFiniteSet(NotAfter(table, i)) /\ place[i] \in 1 .. n
    <2>1. i \in NotAfter(table, i) /\ NotAfter(table, i) \subseteq 1 .. n
        BY <1>2 DEF NotAfter
    <2>2. /\ IsFiniteSet(NotAfter(table, i)) /\ Cardinality(NotAfter(table, i)) \in Nat
          /\ Cardinality(NotAfter(table, i)) <= n
        BY <1>1, <2>1, FS_Subset, FS_CardinalityType
    <2>3. Cardinality(NotAfter(table, i)) # 0
        BY <2>1, <2>2, FS_EmptySet
    <2> QED BY <1>1, <2>1, <2>2, <2>3
<1>4. ASSUME NEW i \in 1 .. n, NEW j \in 1 .. n,
             \/ Key(table[i]) < Key(table[j])
             \/ Key(table[i]) = Key(table[j]) /\ i < j
      PROVE  place[i] < place[j]
    <2>1. NotAfter(table, i) \subseteq NotAfter(table, j)
        BY <1>2, <1>4 DEF NotAfter
    <2>2. j \notin NotAfter(table, i)
        BY <1>2, <1>4 DEF NotAfter
    <2>3. NotAfter(table, i) # NotAfter(table, j)
        BY <1>3, <2>2
    <2>4. /\ Cardinality(NotAfter(table, i)) <= Cardinality(NotAfter(table, j))
          /\ Cardinality(NotAfter(table, i)) # Cardinality(NotAfter(table, j))
        BY <1>3, <2>1, <2>3, FS_Subset
    <2>5. place[i] \in Nat /\ place[j] \in Nat
        BY <1>3
    <2> QED BY <2>4, <2>5
<1>5. place \in [1 .. n -> 1 .. n]
    BY <1>3
<1> HIDE DEF place
<1>05. \A i, j \in 1 .. n :
          (\/ Key(table[i]) < Key(table[j])
           \/ Key(table[i]) = Key(table[j]) /\ i < j)
              => place[i] < place[j]
    BY <1>4
<1>6. \A i, j \in 1 .. n : place[i] = place[j] => i = j
    <2> SUFFICES ASSUME NEW i \in 1 .. n, NEW j \in 1 .. n, i # j
                 PROVE  place[i] # place[j]
        OBVIOUS
    <2>1. place[i] < place[j] \/ place[j] < place[i]
        <3>1. Key(table[i]) \in Int /\ Key(table[j]) \in Int /\ i \in Int /\ j \in Int
            BY <1>2
        <3>2. \/ Key(table[i]) < Key(table[j])
              \/ Key(table[i]) = Key(table[j]) /\ i < j
              \/ Key(table[j]) < Key(table[i])
              \/ Key(table[j]) = Key(table[i]) /\ j < i
            BY <3>1
        <3> QED BY <1>05, <3>2
    <2>2. place[i] \in Int /\ place[j] \in Int
        BY <1>5
    <2> QED BY <2>1, <2>2
<1>7. place \in Injection(1 .. n, 1 .. n)
    BY <1>5, <1>6 DEF Injection, IsInjective
<1>8. place \in Surjection(1 .. n, 1 .. n)
    BY <1>1, <1>7, FS_Injection
<1>9. \A k \in 1 .. n : \E i \in 1 .. n : place[i] = k
    BY <1>5, <1>8 DEF Surjection
<1> DEFINE p == [k \in 1 .. n |-> CHOOSE i \in 1 .. n : place[i] = k]
<1>10. \A k \in 1 .. n : p[k] \in 1 .. n /\ place[p[k]] = k
    BY <1>9
<1> HIDE DEF p
<1>11. p \in [1 .. n -> 1 .. n]
    BY <1>10 DEF p
<1>12. Range(p) = 1 .. n
    <2>1. \A i \in 1 .. n : p[place[i]] = i
        BY <1>5, <1>6, <1>10
    <2>2. DOMAIN p = 1 .. n
        BY <1>11
    <2>3. Range(p) = {p[k] : k \in 1 .. n}
        BY <2>2 DEF Range
    <2>4. Range(p) \subseteq 1 .. n
        BY <1>10, <2>3
    <2>5. ASSUME NEW i \in 1 .. n PROVE i \in Range(p)
        <3>1. place[i] \in 1 .. n /\ p[place[i]] = i
            BY <1>5, <2>1
        <3> QED BY <2>3, <3>1
    <2> QED BY <2>4, <2>5
<1>13. \A i, j \in 1 .. n : i < j => Key(table[p[i]]) <= Key(table[p[j]])
    <2> SUFFICES ASSUME NEW i \in 1 .. n, NEW j \in 1 .. n, i < j,
                        ~(Key(table[p[i]]) <= Key(table[p[j]]))
                 PROVE  FALSE
        OBVIOUS
    <2>1. p[i] \in 1 .. n /\ p[j] \in 1 .. n /\ place[p[i]] = i /\ place[p[j]] = j
        BY <1>10
    <2>2. Key(table[p[j]]) < Key(table[p[i]])
        BY <1>2, <2>1
    <2>3. place[p[j]] < place[p[i]]
        BY <1>05, <2>1, <2>2
    <2> QED BY <1>1, <2>1, <2>3
<1> QED BY <1>11, <1>12, <1>13

\* Sorting gives the same entries, in order.
LEMMA SortedTable ==
    ASSUME NEW table \in Table
    PROVE  /\ Sorted(table) \in Table
           /\ Len(Sorted(table)) = Len(table)
           /\ IsSorted(Sorted(table))
           /\ \A i \in 1 .. Len(table) :
                 \E j \in 1 .. Len(table) : Sorted(table)[i] = table[j]
<1> DEFINE n == Len(table)
           rearranged == {p \in [1 .. n -> 1 .. n] : Range(p) = 1 .. n}
           by(p) == [i \in 1 .. n |-> table[p[i]]]
           order == CHOOSE p \in rearranged : IsSorted(by(p))
<1>1. n \in Nat /\ \A i \in 1 .. n : table[i] \in Number \X Number
    BY DEF Table
<1>2. \E p \in rearranged : IsSorted(by(p))
    <2>1. PICK p \in rearranged :
             \A i, j \in 1 .. n : i < j => Key(table[p[i]]) <= Key(table[p[j]])
        BY Places
    <2>2. \A i, j \in 1 .. n : i < j => ~Less(by(p)[j][1], by(p)[i][1])
        <3> SUFFICES ASSUME NEW i \in 1 .. n, NEW j \in 1 .. n, i < j,
                            Less(table[p[j]][1], table[p[i]][1])
                     PROVE  FALSE
            OBVIOUS
        <3>1. p[i] \in 1 .. n /\ p[j] \in 1 .. n
            BY <2>1
        <3>2. table[p[i]] \in Number \X Number /\ table[p[j]] \in Number \X Number
            BY <1>1, <3>1
        <3>3. /\ Key(table[p[i]]) = table[p[i]][1] /\ Key(table[p[j]]) = table[p[j]][1]
              /\ table[p[i]][1] \in Int /\ table[p[j]][1] \in Int
              /\ table[p[j]][1] < table[p[i]][1]
            BY <3>2 DEF Less, Key, Number
        <3>4. Key(table[p[i]]) <= Key(table[p[j]])
            BY <2>1
        <3> QED BY <3>3, <3>4
    <2>3. DOMAIN by(p) = 1 .. n
        OBVIOUS
    <2> QED BY <2>1, <2>2, <2>3 DEF IsSorted
<1>3. order \in rearranged /\ IsSorted(by(order))
    BY <1>2
<1>4. Sorted(table) = by(order)
    BY DEF Sorted
<1> HIDE DEF order
<1>5. \A i \in 1 .. n : order[i] \in 1 .. n /\ by(order)[i] = table[order[i]]
    BY <1>3
<1>6. by(order) \in Table /\ Len(by(order)) = n
    BY <1>1, <1>5 DEF Table
<1> QED BY <1>3, <1>4, <1>5, <1>6

-----------------------------------------------------------------------------

(***************************************************************************)
(* Tables that pass the checks, from a setter or from a file.              *)
(***************************************************************************)

\* No distance of the table is NaN.
Numbers(table) == \A i \in DOMAIN table : table[i][1] # NaN

\* What the searches need of a table.
Fit(table) ==
    /\ \A i \in DOMAIN table : table[i][1] \in Int /\ table[i][1] >= 0
    /\ \A i, j \in DOMAIN table : i < j => table[j][1] - table[i][1] >= Tolerance

\* The checks of neighbours are enough once the table is sorted.
LEMMA ValidIsFit ==
    ASSUME NEW table \in Table, ValidTable(table), Numbers(Sorted(table))
    PROVE  Fit(Sorted(table))
<1> DEFINE sorted == Sorted(table)
           n == Len(table)
<1>1. /\ sorted \in Table /\ Len(sorted) = n /\ n \in Nat /\ IsSorted(sorted)
      /\ \A i \in 1 .. n : \E j \in 1 .. n : sorted[i] = table[j]
    BY SortedTable DEF Table
<1>2. DOMAIN sorted = 1 .. n
    BY <1>1 DEF Table
<1>3. \A j \in 1 .. n : ~Less(table[j][1], 0)
    BY DEF ValidTable, Table
<1>4. \A i \in 1 .. n : sorted[i][1] \in Int /\ sorted[i][1] >= 0
    <2>1. \A i \in 1 .. n : sorted[i] \in Number \X Number
        BY <1>1, <1>2 DEF Table
    <2>2. \A i \in 1 .. n : sorted[i][1] \in Int
        BY <1>2, <2>1 DEF Numbers, Number
    <2>3. \A i \in 1 .. n : ~Less(sorted[i][1], 0)
        BY <1>1, <1>3
    <2>4. 0 # NaN
        BY TablesAssumption
    <2> QED BY <1>2, <2>2, <2>3, <2>4 DEF Less, Numbers
<1>5. ~\E i \in 1 .. n - 1 : sorted[i + 1][1] - sorted[i][1] < Tolerance
    BY <1>1 DEF ValidTable, HasDuplicate
<1> HIDE DEF sorted, n
<1>6. \A i, j \in 1 .. n : i < j => sorted[i][1] <= sorted[j][1]
    <2>1. \A i, j \in 1 .. n : i < j => ~Less(sorted[j][1], sorted[i][1])
        BY <1>1, <1>2 DEF IsSorted
    <2>2. \A i \in 1 .. n : sorted[i][1] # NaN
        BY <1>4, TablesAssumption
    <2> QED BY <1>4, <2>1, <2>2 DEF Less
<1>7. ASSUME NEW i \in 1 .. n, NEW j \in 1 .. n, i < j
      PROVE  sorted[j][1] - sorted[i][1] >= Tolerance
    <2>1. i \in 1 .. n - 1 /\ i + 1 \in 1 .. n
        BY <1>1, <1>7
    <2>2. ~(sorted[i + 1][1] - sorted[i][1] < Tolerance)
        BY <1>5, <2>1
    <2>3. /\ sorted[i][1] \in Int /\ sorted[j][1] \in Int /\ sorted[i + 1][1] \in Int
          /\ Tolerance \in Int
        BY <1>4, <2>1, RangesAssumption
    <2>4. sorted[i + 1][1] <= sorted[j][1]
        <3>1. CASE j = i + 1
            BY <2>3, <3>1
        <3>2. CASE i + 1 < j
            BY <1>6, <2>1, <3>2
        <3> QED BY <1>7, <3>1, <3>2
    <2> QED BY <2>2, <2>3, <2>4
<1> QED BY <1>2, <1>4, <1>7 DEF Fit, sorted

\* What is read from a file is a table.
LEMMA FileTable ==
    ASSUME NEW f \in Files, Loadable(f)
    PROVE  TableOf(f.entries) \in Table
<1> DEFINE entries == f.entries
           listed == Listed(entries)
           n == Cardinality(listed)
<1>1. DOMAIN entries \in SUBSET (Nat \ {0}) /\ IsFiniteSet(DOMAIN entries)
    BY FilesAssumption
<1>2. listed \subseteq DOMAIN entries /\ \A i \in listed : 1 .. i \subseteq listed
    <2>1. \A i \in DOMAIN entries : \A k \in 1 .. i :
             /\ 1 .. k \subseteq 1 .. i
             /\ i <= LastEntry => k <= LastEntry
        BY <1>1, RangesAssumption
    <2> QED BY <1>1, <2>1 DEF Listed
<1>3. IsFiniteSet(listed)
    BY <1>1, <1>2, FS_Subset
<1>4. listed = 1 .. n /\ n \in Nat
    BY <1>1, <1>2, <1>3, InitialSegment
<1>5. \A i \in listed : entries[i] \in Number \X Number /\ entries[i] # <<>>
    BY <1>2, FilesAssumption DEF Loadable
<1>6. TableOf(entries) = [i \in 1 .. n |-> entries[i]]
    BY DEF TableOf
<1> HIDE DEF n, listed
<1>7. TableOf(entries) \in Table
    BY <1>4, <1>5, <1>6 DEF Table
<1> QED BY <1>7

-----------------------------------------------------------------------------

(***************************************************************************)
(* The inductive invariant: the options are typed, and a Distance is what  *)
(* its copy of the options makes it.                                       *)
(***************************************************************************)
Options ==
    [mCorrections : Table, mInterpolation : Interpolations, mType : Types,
     mDatum : MinDatum .. MaxDatum, mHaveCorrections : BOOLEAN,
     mHasInterpolation : BOOLEAN, mHasType : BOOLEAN]

OptionsType(o) == o \in Options /\ o.mHaveCorrections = (o.mCorrections # <<>>)

Made(d) ==
    LET table == d.mDistanceOptions.mCorrections
    IN  /\ OptionsType(d.mDistanceOptions) /\ table # <<>>
        /\ d.mAbsissas = [i \in DOMAIN table |-> table[i][1]]
        /\ d.mValues = [i \in DOMAIN table |-> table[i][2]]
        /\ d.mMinimumDistance = CHOOSE x \in Range(d.mAbsissas) :
                                   ~\E y \in Range(d.mAbsissas) : Less(y, x)
        /\ d.mMaximumDistance = CHOOSE x \in Range(d.mAbsissas) :
                                   ~\E y \in Range(d.mAbsissas) : Less(x, y)

IInv ==
    /\ OptionsType(options)
    /\ outcome \in {"none", "returned", "threw"}
    /\ distance # NoDistance => Made(distance)

FitInv ==
    /\ Numbers(options.mCorrections) => Fit(options.mCorrections)
    /\ distance # NoDistance =>
          LET table == distance.mDistanceOptions.mCorrections
          IN  Numbers(table) => Fit(table)

\* A table that was checked makes well typed options of well typed options.
LEMMA WithCorrectionsType ==
    ASSUME NEW o \in Options, NEW table \in Table, ValidTable(table)
    PROVE  /\ OptionsType(WithCorrections(o, table))
           /\ WithCorrections(o, table).mCorrections = Sorted(table)
<1> DEFINE sorted == Sorted(table)
           with == WithCorrections(o, table)
<1>1. sorted \in Table /\ sorted # <<>>
    <2>1. sorted \in Table /\ Len(sorted) = Len(table)
        BY SortedTable
    <2>2. table # <<>>
        BY DEF ValidTable
    <2> QED BY <2>1, <2>2 DEF Table
<1>2. with = [o EXCEPT !.mCorrections = sorted, !.mHaveCorrections = TRUE]
    BY DEF WithCorrections
<1> HIDE DEF sorted, with
<1>3. with \in Options /\ with.mCorrections = sorted /\ with.mHaveCorrections = TRUE
    BY <1>1, <1>2 DEF Options
<1> QED BY <1>1, <1>3 DEF OptionsType, sorted, with

\* The default options are well typed, and have no table.
LEMMA DefaultType == DefaultOptions \in Options /\ OptionsType(DefaultOptions)
                     /\ Fit(DefaultOptions.mCorrections)
<1>1. <<>> \in Table /\ DefaultOptions.mCorrections = <<>>
    BY DEF Table, DefaultOptions
<1>2. DefaultOptions \in Options
    BY <1>1, RangesAssumption DEF DefaultOptions, Options, Interpolations, Types
<1>3. DefaultOptions.mHaveCorrections = FALSE
    BY DEF DefaultOptions
<1>4. OptionsType(DefaultOptions)
    BY <1>1, <1>2, <1>3 DEF OptionsType
<1>5. Fit(<<>>)
    BY DEF Fit
<1> QED BY <1>1, <1>2, <1>4, <1>5

\* Options from a file are well typed, and their table is the one in the file.
LEMMA LoadedType ==
    ASSUME NEW f \in Files, Loadable(f)
    PROVE  /\ OptionsType(LoadedOptions(f))
           /\ LoadedOptions(f).mCorrections = Sorted(TableOf(f.entries))
<1> DEFINE datum == IF f.distanceType = "Hypocentral" THEN f.datum ELSE 0
           o == [DefaultOptions EXCEPT !.mInterpolation = f.interpolation,
                                       !.mHasInterpolation = TRUE,
                                       !.mType = f.distanceType,
                                       !.mHasType = TRUE,
                                       !.mDatum = datum]
<1>1. datum \in MinDatum .. MaxDatum
    BY FilesAssumption, RangesAssumption DEF Loadable, ValidDatum
<1>2. f.interpolation \in Interpolations /\ f.distanceType \in Types
    BY DEF Loadable
<1>3. o \in Options
    <2> HIDE DEF datum
    <2> QED BY <1>1, <1>2, DefaultType DEF Options
<1>4. TableOf(f.entries) \in Table /\ ValidTable(TableOf(f.entries))
    BY FileTable DEF Loadable
<1>5. LoadedOptions(f) = WithCorrections(o, TableOf(f.entries))
    BY DEF LoadedOptions
<1> HIDE DEF o
<1> QED BY <1>3, <1>4, <1>5, WithCorrectionsType

\* A new table is a checked one.
Checked(table, entries) ==
    table \in Table /\ ValidTable(table) /\ entries = Sorted(table)

\* What a step may do: write the options, or make a Distance of them.
LEMMA Effect ==
    ASSUME IInv, Next
    PROVE  /\ OptionsType(options') /\ outcome' \in {"returned", "threw"}
           /\ \/ distance' = distance
              \/ /\ Made(distance') /\ distance'.mDistanceOptions = options
                 /\ options' = options
           /\ \/ options'.mCorrections = options.mCorrections
              \/ \E table \in Table : Checked(table, options'.mCorrections)
<1>0. options \in Options /\ OptionsType(options)
    BY DEF IInv, OptionsType
<1>1. CASE Throw
    BY <1>0, <1>1 DEF Throw
<1>2. CASE SetCorrections /\ ~Throw
    <2>1. PICK table \in Tables :
             /\ ValidTable(table) /\ options' = WithCorrections(options, table)
             /\ outcome' = "returned" /\ distance' = distance
        BY <1>2 DEF SetCorrections
    <2>2. table \in Table
        BY TablesAssumption
    <2>3. OptionsType(options') /\ options'.mCorrections = Sorted(table)
        BY <1>0, <2>1, <2>2, WithCorrectionsType
    <2>4. Checked(table, options'.mCorrections)
        BY <2>1, <2>2, <2>3 DEF Checked
    <2> QED BY <2>1, <2>2, <2>3, <2>4
<1>3. CASE SetInterpolation
    <2>1. PICK interpolation \in Interpolations :
             options' = [options EXCEPT !.mInterpolation = interpolation,
                                        !.mHasInterpolation = TRUE]
        BY <1>3 DEF SetInterpolation
    <2>2. /\ options' \in Options /\ options'.mCorrections = options.mCorrections
          /\ options'.mHaveCorrections = options.mHaveCorrections
        BY <1>0, <2>1 DEF Options
    <2>3. OptionsType(options')
        BY <1>0, <2>2 DEF OptionsType
    <2> QED BY <1>3, <2>2, <2>3 DEF SetInterpolation
<1>4. CASE SetType
    <2>1. PICK type \in Types :
             options' = [options EXCEPT !.mType = type, !.mHasType = TRUE]
        BY <1>4 DEF SetType
    <2>2. /\ options' \in Options /\ options'.mCorrections = options.mCorrections
          /\ options'.mHaveCorrections = options.mHaveCorrections
        BY <1>0, <2>1 DEF Options
    <2>3. OptionsType(options')
        BY <1>0, <2>2 DEF OptionsType
    <2> QED BY <1>4, <2>2, <2>3 DEF SetType
<1>5. CASE SetDatum /\ ~Throw
    <2>1. PICK datum \in Datums :
             /\ ValidDatum(datum) /\ options' = [options EXCEPT !.mDatum = datum]
             /\ outcome' = "returned" /\ distance' = distance
        BY <1>5 DEF SetDatum
    <2>2. datum \in MinDatum .. MaxDatum
        BY <2>1, RangesAssumption DEF ValidDatum
    <2>3. /\ options' \in Options /\ options'.mCorrections = options.mCorrections
          /\ options'.mHaveCorrections = options.mHaveCorrections
        BY <1>0, <2>1, <2>2 DEF Options
    <2>4. OptionsType(options')
        BY <1>0, <2>3 DEF OptionsType
    <2> QED BY <2>1, <2>3, <2>4
<1>6. CASE FromInitializationFile /\ ~Throw
    <2>1. PICK f \in Files :
             /\ Loadable(f) /\ options' = LoadedOptions(f)
             /\ outcome' = "returned" /\ distance' = distance
        BY <1>6 DEF FromInitializationFile
    <2>2. OptionsType(options') /\ options'.mCorrections = Sorted(TableOf(f.entries))
        BY <2>1, LoadedType
    <2>3. Checked(TableOf(f.entries), options'.mCorrections) /\ TableOf(f.entries) \in Table
        BY <2>1, <2>2, FileTable DEF Checked, Loadable
    <2> QED BY <2>1, <2>2, <2>3
<1>7. CASE Construct /\ ~Throw
    <2> DEFINE table == options.mCorrections
               absissas == [i \in DOMAIN table |-> table[i][1]]
               values == [i \in DOMAIN table |-> table[i][2]]
               minimum == CHOOSE x \in Range(absissas) : ~\E y \in Range(absissas) : Less(y, x)
               maximum == CHOOSE x \in Range(absissas) : ~\E y \in Range(absissas) : Less(x, y)
    <2>1. /\ options.mHaveCorrections /\ options' = options /\ outcome' = "returned"
          /\ distance' = [mDistanceOptions |-> options, mAbsissas |-> absissas,
                          mValues |-> values, mMinimumDistance |-> minimum,
                          mMaximumDistance |-> maximum]
        BY <1>7 DEF Construct
    <2>2. table # <<>>
        BY <1>0, <2>1 DEF OptionsType
    <2> HIDE DEF absissas, values, minimum, maximum
    <2>3. /\ distance'.mDistanceOptions = options /\ distance'.mAbsissas = absissas
          /\ distance'.mValues = values /\ distance'.mMinimumDistance = minimum
          /\ distance'.mMaximumDistance = maximum
        BY <2>1
    <2>4. Made(distance')
        BY <1>0, <2>2, <2>3 DEF Made, absissas, values, minimum, maximum
    <2> QED BY <1>0, <2>1, <2>3, <2>4
<1> QED BY <1>1, <1>2, <1>3, <1>4, <1>5, <1>6, <1>7 DEF Next

\* A new object satisfies the invariant.
LEMMA Initially == Init => IInv /\ FitInv
    BY DefaultType DEF Init, IInv, FitInv

\* No step breaks it.
LEMMA Inductive == IInv /\ [Next]_vars => IInv'
<1> SUFFICES ASSUME IInv, [Next]_vars PROVE IInv'
    OBVIOUS
<1>1. CASE UNCHANGED vars
    BY <1>1 DEF vars, IInv
<1>2. CASE Next
    <2>1. distance' # NoDistance => Made(distance')
        BY <1>2, Effect DEF IInv
    <2> QED BY <1>2, <2>1, Effect DEF IInv
<1> QED BY <1>1, <1>2

\* No step makes a table of numbers the searches could not use.
LEMMA FitInductive == IInv /\ FitInv /\ [Next]_vars => FitInv'
<1> SUFFICES ASSUME IInv, FitInv, [Next]_vars PROVE FitInv'
    OBVIOUS
<1>1. CASE UNCHANGED vars
    BY <1>1 DEF vars, FitInv
<1>2. CASE Next
    <2>1. Numbers(options'.mCorrections) => Fit(options'.mCorrections)
        <3>1. CASE options'.mCorrections = options.mCorrections
            BY <3>1 DEF FitInv
        <3>2. CASE \E table \in Table : Checked(table, options'.mCorrections)
            BY <3>2, ValidIsFit DEF Checked
        <3> QED BY <1>2, <3>1, <3>2, Effect
    <2>2. ASSUME distance' # NoDistance,
                 Numbers(distance'.mDistanceOptions.mCorrections)
          PROVE  Fit(distance'.mDistanceOptions.mCorrections)
        BY <1>2, <2>2, Effect DEF FitInv
    <2> QED BY <2>1, <2>2 DEF FitInv
<1> QED BY <1>1, <1>2

\* Whatever is done to the options and the Distance, the invariant holds.
LEMMA Invariant == Spec => []IInv
    BY Initially, Inductive, PTL DEF Spec

\* Tables without a NaN always fit the searches.
LEMMA FitInvariant == Spec => [](IInv /\ FitInv)
    BY Initially, Inductive, FitInductive, PTL DEF Spec

-----------------------------------------------------------------------------

(***************************************************************************)
(* The table of a Distance.                                                *)
(***************************************************************************)

\* The nodes, and their values.
Ready(xv, yv) ==
    /\ xv \in Seq(Int) /\ yv \in Seq(Number)
    /\ Len(xv) \in Nat /\ Len(xv) >= 1 /\ Len(yv) = Len(xv)
    /\ DOMAIN xv = 1 .. Len(xv)
    /\ xv[1] >= 0
    /\ \A i, j \in 1 .. Len(xv) : i < j => xv[j] - xv[i] >= Tolerance

\* A Distance made from a table that fits has that table's nodes, and its ends.
LEMMA MadeIsReady ==
    ASSUME NEW d, Made(d), Fit(d.mDistanceOptions.mCorrections)
    PROVE  /\ Ready(d.mAbsissas, d.mValues)
           /\ d.mMinimumDistance = d.mAbsissas[1]
           /\ d.mMaximumDistance = d.mAbsissas[Len(d.mAbsissas)]
<1> DEFINE table == d.mDistanceOptions.mCorrections
           n == Len(table)
           xv == d.mAbsissas
           yv == d.mValues
<1>1. /\ table \in Table /\ n \in Nat /\ n >= 1 /\ DOMAIN table = 1 .. n
      /\ \A i \in 1 .. n : table[i] \in Number \X Number
    <2>1. table \in Table /\ table # <<>>
        BY DEF Made, OptionsType, Options
    <2> QED BY <2>1 DEF Table
<1>2. /\ xv = [i \in 1 .. n |-> table[i][1]]
      /\ yv = [i \in 1 .. n |-> table[i][2]]
    BY <1>1 DEF Made
<1>3. /\ \A i \in 1 .. n : table[i][1] \in Int /\ table[i][1] >= 0 /\ table[i][2] \in Number
      /\ \A i, j \in 1 .. n : i < j => table[j][1] - table[i][1] >= Tolerance
    BY <1>1 DEF Fit
<1> HIDE DEF table, n
<1>4. /\ xv \in Seq(Int) /\ yv \in Seq(Number) /\ Len(xv) = n /\ Len(yv) = n
      /\ DOMAIN xv = 1 .. n /\ \A i \in 1 .. n : xv[i] = table[i][1]
    BY <1>1, <1>2, <1>3
<1>5. Ready(xv, yv)
    <2>1. 1 \in 1 .. n
        BY <1>1
    <2>2. xv[1] >= 0
        BY <1>3, <1>4, <2>1
    <2>3. \A i, j \in 1 .. n : i < j => xv[j] - xv[i] >= Tolerance
        BY <1>3, <1>4
    <2> QED BY <1>1, <1>4, <2>2, <2>3 DEF Ready
<1>6. Range(xv) = {xv[i] : i \in 1 .. n}
    BY <1>4 DEF Range
<1>7. \A i \in 1 .. n : xv[i] \in Int /\ xv[1] <= xv[i] /\ xv[i] <= xv[n]
    <2>0. 1 \in 1 .. n /\ n \in 1 .. n
        BY <1>1
    <2>1. \A i \in 1 .. n : xv[i] \in Int /\ 1 \in 1 .. n /\ n \in 1 .. n
        <3>1. \A i \in 1 .. n : xv[i] \in Int
            BY <1>3, <1>4
        <3> QED BY <2>0, <3>1
    <2>2. \A i, j \in 1 .. n : i < j => xv[j] - xv[i] >= Tolerance
        BY <1>3, <1>4
    <2>3. \A i \in 1 .. n : (i = 1 \/ 1 < i) /\ (i = n \/ i < n)
        BY <1>1
    <2> QED BY <2>1, <2>2, <2>3, RangesAssumption
<1>8. \A i, j \in 1 .. n : Less(xv[i], xv[j]) <=> xv[i] < xv[j]
    BY <1>7, TablesAssumption DEF Less
<1>9. d.mMinimumDistance = xv[1]
    <2>1. xv[1] \in Range(xv) /\ ~\E y \in Range(xv) : Less(y, xv[1])
        BY <1>1, <1>6, <1>7, <1>8
    <2>2. \A x \in Range(xv) : (~\E y \in Range(xv) : Less(y, x)) => x = xv[1]
        <3> SUFFICES ASSUME NEW i \in 1 .. n, ~Less(xv[1], xv[i]) PROVE xv[i] = xv[1]
            BY <1>6, <2>1
        <3>1. 1 \in 1 .. n
            BY <1>1
        <3> QED BY <1>7, <1>8, <3>1
    <2>3. d.mMinimumDistance = CHOOSE x \in Range(xv) : ~\E y \in Range(xv) : Less(y, x)
        BY DEF Made
    <2> QED BY <2>1, <2>2, <2>3
<1>10. d.mMaximumDistance = xv[n]
    <2>1. xv[n] \in Range(xv) /\ ~\E y \in Range(xv) : Less(xv[n], y)
        BY <1>1, <1>6, <1>7, <1>8
    <2>2. \A x \in Range(xv) : (~\E y \in Range(xv) : Less(x, y)) => x = xv[n]
        <3> SUFFICES ASSUME NEW i \in 1 .. n, ~Less(xv[i], xv[n]) PROVE xv[i] = xv[n]
            BY <1>6, <2>1
        <3>1. n \in 1 .. n
            BY <1>1
        <3> QED BY <1>7, <1>8, <3>1
    <2>3. d.mMaximumDistance = CHOOSE x \in Range(xv) : ~\E y \in Range(xv) : Less(x, y)
        BY DEF Made
    <2> QED BY <2>1, <2>2, <2>3
<1> QED BY <1>4, <1>5, <1>9, <1>10

\* The table of a Distance without a NaN fits.
LEMMA NumbersFit ==
    ASSUME IInv, FitInv, HasNumbers
    PROVE  Made(distance) /\ Fit(distance.mDistanceOptions.mCorrections)
<1>1. Made(distance)
    BY DEF HasNumbers, IInv
<1>2. Numbers(distance.mDistanceOptions.mCorrections)
    BY <1>1 DEF HasNumbers, Numbers, Made
<1> QED BY <1>1, <1>2 DEF FitInv, HasNumbers

\* The nodes are numbers in ascending order.
LEMMA Nodes ==
    ASSUME NEW xv, NEW yv, Ready(xv, yv)
    PROVE  /\ Len(xv) \in Nat /\ Len(xv) >= 1 /\ DOMAIN xv = 1 .. Len(xv)
           /\ Len(yv) = Len(xv) /\ \A k \in 1 .. Len(xv) : yv[k] \in Number
           /\ \A k \in 1 .. Len(xv) : xv[k] \in Int /\ xv[1] <= xv[k] /\ xv[k] <= xv[Len(xv)]
           /\ \A k, m \in 1 .. Len(xv) : k < m => xv[k] < xv[m]
<1>1. /\ Len(xv) \in Nat /\ Len(xv) >= 1 /\ DOMAIN xv = 1 .. Len(xv) /\ Len(yv) = Len(xv)
      /\ \A k \in 1 .. Len(xv) : xv[k] \in Int /\ yv[k] \in Number
    BY DEF Ready
<1>2. \A k, m \in 1 .. Len(xv) : k < m => xv[k] < xv[m]
    BY <1>1, RangesAssumption DEF Ready
<1>3. ASSUME NEW k \in 1 .. Len(xv)
      PROVE  xv[1] <= xv[k] /\ xv[k] <= xv[Len(xv)]
    <2>1. 1 \in 1 .. Len(xv) /\ Len(xv) \in 1 .. Len(xv)
        BY <1>1
    <2>2. k \in Int /\ Len(xv) \in Int /\ 1 <= k /\ k <= Len(xv)
        BY <1>1
    <2>3. (k = 1 \/ 1 < k) /\ (k = Len(xv) \/ k < Len(xv))
        BY <2>2
    <2>4. xv[1] \in Int /\ xv[k] \in Int /\ xv[Len(xv)] \in Int
        BY <1>1, <2>1
    <2>5. 1 < k => xv[1] < xv[k]
        BY <1>2, <2>1
    <2>6. k < Len(xv) => xv[k] < xv[Len(xv)]
        BY <1>2, <2>1
    <2>7. CASE k = 1
        BY <2>3, <2>4, <2>6, <2>7
    <2>8. CASE 1 < k
        BY <2>3, <2>4, <2>5, <2>6, <2>8
    <2> QED BY <2>3, <2>7, <2>8
<1> QED BY <1>1, <1>2, <1>3

\* The search for the first node at or beyond a distance.
LEMMA Lower ==
    ASSUME NEW xv, NEW yv, Ready(xv, yv), NEW x \in Int
    PROVE  LET i == LowerBound(xv, x)
           IN  /\ i \in 1 .. Len(xv) + 1
               /\ \A k \in 1 .. Len(xv) : k < i => xv[k] < x
               /\ \A k \in 1 .. Len(xv) : k >= i => xv[k] >= x
<1> DEFINE n == Len(xv)
           at == {i \in DOMAIN xv : xv[i] >= x}
           i == LowerBound(xv, x)
<1>1. /\ n \in Nat /\ DOMAIN xv = 1 .. n /\ \A k \in 1 .. n : xv[k] \in Int
      /\ \A k, m \in 1 .. n : k < m => xv[k] < xv[m]
    BY Nodes
<1>2. CASE at = {}
    <2>1. i = n + 1
        BY <1>2 DEF LowerBound
    <2>2. \A k \in 1 .. n : xv[k] < x
        BY <1>1, <1>2
    <2> QED BY <1>1, <2>1, <2>2
<1>3. CASE at # {}
    <2>1. at \in SUBSET Nat
        BY <1>1
    <2>2. \E k \in at : \A j \in at : k <= j
        BY <1>3, <2>1, Least
    <2>3. i \in at /\ \A j \in at : i <= j
        BY <1>3, <2>2 DEF LowerBound
    <2>4. i \in 1 .. n /\ xv[i] >= x
        BY <1>1, <2>3
    <2> HIDE DEF i
    <2>5. \A k \in 1 .. n : k < i => xv[k] < x
        <3> SUFFICES ASSUME NEW k \in 1 .. n, k < i, ~(xv[k] < x) PROVE FALSE
            OBVIOUS
        <3>1. k \in at
            BY <1>1
        <3> QED BY <2>3, <2>4, <3>1
    <2>6. \A k \in 1 .. n : k >= i => xv[k] >= x
        <3> SUFFICES ASSUME NEW k \in 1 .. n, k > i PROVE xv[k] >= x
            BY <1>1, <2>4
        <3> QED BY <1>1, <2>4
    <2> QED BY <2>4, <2>5, <2>6 DEF i
<1> QED BY <1>2, <1>3

\* The search for the first node beyond a distance.
LEMMA Upper ==
    ASSUME NEW xv, NEW yv, Ready(xv, yv), NEW x \in Int
    PROVE  LET i == UpperBound(xv, x)
           IN  /\ i \in 1 .. Len(xv) + 1
               /\ \A k \in 1 .. Len(xv) : k < i => xv[k] <= x
               /\ \A k \in 1 .. Len(xv) : k >= i => xv[k] > x
<1> DEFINE n == Len(xv)
           at == {i \in DOMAIN xv : xv[i] > x}
           i == UpperBound(xv, x)
<1>1. /\ n \in Nat /\ DOMAIN xv = 1 .. n /\ \A k \in 1 .. n : xv[k] \in Int
      /\ \A k, m \in 1 .. n : k < m => xv[k] < xv[m]
    BY Nodes
<1>2. CASE at = {}
    <2>1. i = n + 1
        BY <1>2 DEF UpperBound
    <2>2. \A k \in 1 .. n : xv[k] <= x
        BY <1>1, <1>2
    <2> QED BY <1>1, <2>1, <2>2
<1>3. CASE at # {}
    <2>1. at \in SUBSET Nat
        BY <1>1
    <2>2. \E k \in at : \A j \in at : k <= j
        BY <1>3, <2>1, Least
    <2>3. i \in at /\ \A j \in at : i <= j
        BY <1>3, <2>2 DEF UpperBound
    <2>4. i \in 1 .. n /\ xv[i] > x
        BY <1>1, <2>3
    <2> HIDE DEF i
    <2>5. \A k \in 1 .. n : k < i => xv[k] <= x
        <3> SUFFICES ASSUME NEW k \in 1 .. n, k < i, ~(xv[k] <= x) PROVE FALSE
            OBVIOUS
        <3>1. k \in at
            BY <1>1
        <3> QED BY <2>3, <2>4, <3>1
    <2>6. \A k \in 1 .. n : k >= i => xv[k] > x
        <3> SUFFICES ASSUME NEW k \in 1 .. n, k > i PROVE xv[k] > x
            BY <1>1, <2>4
        <3> QED BY <1>1, <2>4
    <2> QED BY <2>4, <2>5, <2>6 DEF i
<1> QED BY <1>2, <1>3

-----------------------------------------------------------------------------

(***************************************************************************)
(* The theorems.                                                           *)
(***************************************************************************)

\* The options and the table of a Distance keep their types, NaN or not.
THEOREM TypeCorrect == Spec => []TypeOK
<1>1. ASSUME IInv PROVE TypeOK
    <2>1. OptionsType(options)
        BY <1>1 DEF IInv
    <2>2. ASSUME distance # NoDistance
          PROVE  distance.mAbsissas \in Seq(Number) /\ distance.mValues \in Seq(Number)
        <3> DEFINE table == distance.mDistanceOptions.mCorrections
        <3>1. Made(distance)
            BY <1>1, <2>2 DEF IInv
        <3>2. table \in Seq(Number \X Number)
            BY <3>1 DEF Made, OptionsType, Options, Table
        <3>3. /\ distance.mAbsissas = [i \in DOMAIN table |-> table[i][1]]
              /\ distance.mValues = [i \in DOMAIN table |-> table[i][2]]
            BY <3>1 DEF Made
        <3>4. /\ DOMAIN table = 1 .. Len(table) /\ Len(table) \in Nat
              /\ \A i \in 1 .. Len(table) : table[i][1] \in Number /\ table[i][2] \in Number
            <4>1. \A i \in 1 .. Len(table) : table[i] \in Number \X Number
                BY <3>2
            <4> QED BY <3>2, <4>1
        <3> HIDE DEF table
        <3> QED BY <3>3, <3>4
    <2> QED BY <1>1, <2>1, <2>2 DEF IInv, TypeOK, OptionsType, Options
<1> QED BY <1>1, Invariant, PTL

\* Without a NaN, what was checked in neighbours holds of any two nodes: the
\* table a Distance interpolates in is the one the binary searches need.
THEOREM TablesFit == Spec => []TableFitForSearch
<1>1. ASSUME IInv, FitInv PROVE TableFitForSearch
    <2> SUFFICES ASSUME HasNumbers
                 PROVE  LET xv == distance.mAbsissas
                        IN  /\ Len(xv) >= 1 /\ Len(distance.mValues) = Len(xv)
                            /\ xv[1] >= 0
                            /\ \A i, j \in DOMAIN xv : i < j => xv[j] - xv[i] >= Tolerance
                            /\ distance.mMinimumDistance = xv[1]
                            /\ distance.mMaximumDistance = xv[Len(xv)]
        BY DEF TableFitForSearch
    <2>1. Made(distance) /\ Fit(distance.mDistanceOptions.mCorrections)
        BY <1>1, NumbersFit
    <2> QED BY <2>1, MadeIsReady DEF Ready
<1> QED BY <1>1, FitInvariant, PTL

\* Without a NaN, every distance whatever has an answer, the ends of the table
\* included: no lookup throws, and each code means what it says.
THEOREM Answered == Spec => []EveryDistanceAnswered
<1>1. ASSUME IInv, FitInv PROVE EveryDistanceAnswered
    <2> DEFINE xv == distance.mAbsissas
               yv == distance.mValues
               n == Len(xv)
    <2> SUFFICES ASSUME HasNumbers, NEW x \in Queries
                 PROVE  CorrectionAt(distance, x).error =
                            IF x < 0 THEN "NegativeDistance"
                            ELSE IF \A i \in DOMAIN xv : x < xv[i] THEN "StationTooClose"
                            ELSE IF \A i \in DOMAIN xv : x > xv[i] THEN "StationTooFar"
                            ELSE "None"
        BY DEF EveryDistanceAnswered
    <2>1. Made(distance) /\ Fit(distance.mDistanceOptions.mCorrections) /\ x \in Int
        BY <1>1, NumbersFit, RangesAssumption
    <2>2. /\ Ready(xv, yv) /\ distance.mMinimumDistance = xv[1]
          /\ distance.mMaximumDistance = xv[n]
        BY <2>1, MadeIsReady
    <2> HIDE DEF xv, yv
    <2>3. /\ n \in Nat /\ n >= 1 /\ DOMAIN xv = 1 .. n /\ \A k \in 1 .. n : xv[k] \in Int
          /\ \A k, m \in 1 .. n : k < m => xv[k] < xv[m]
          /\ \A k \in 1 .. n : xv[1] <= xv[k] /\ xv[k] <= xv[n]
        BY <2>2, Nodes
    <2> HIDE DEF n
    <2>4. /\ xv[1] \in Int /\ xv[n] \in Int
          /\ \A k \in 1 .. n : xv[1] <= xv[k] /\ xv[k] <= xv[n]
        BY <2>3
    <2>5. /\ Less(x, xv[1]) <=> \A i \in 1 .. n : x < xv[i]
          /\ Less(xv[n], x) <=> \A i \in 1 .. n : x > xv[i]
        <3>1. Less(x, xv[1]) <=> x < xv[1]
            BY <2>1, <2>4, TablesAssumption DEF Less
        <3>2. Less(xv[n], x) <=> xv[n] < x
            BY <2>1, <2>4, TablesAssumption DEF Less
        <3>3. 1 \in 1 .. n /\ n \in 1 .. n
            BY <2>3
        <3> QED BY <2>1, <2>3, <2>4, <3>1, <3>2, <3>3
    <2>6. \A a, b : Found(a, b).error = "None"
        BY DEF Found
    <2>7. interpolateNearest(x, xv, yv).error = "None"
        BY <2>6 DEF interpolateNearest
    <2>8. interpolateLinearly(x, xv, yv).error = "None"
        <3> DEFINE above == UpperBound(xv, x)
        <3>1. /\ above \in 1 .. n + 1
              /\ \A k \in 1 .. n : k < above => xv[k] <= x
              /\ \A k \in 1 .. n : k >= above => xv[k] > x
            BY <2>1, <2>2, Upper DEF n
        <3> HIDE DEF above
        <3>2. ~(x <= xv[1]) /\ ~(x >= xv[n]) => above # 1 /\ above # n + 1
            <4>1. 1 \in 1 .. n /\ n \in 1 .. n /\ n < n + 1
                BY <2>3
            <4> QED BY <2>1, <2>4, <3>1, <4>1
        <3> QED BY <2>6, <3>2 DEF interpolateLinearly, above, n
    <2>9. \A code : Failed(code).error = code
        BY DEF Failed
    <2>10. CorrectionAt(distance, x) =
              IF x < 0 THEN Failed("NegativeDistance")
              ELSE IF Less(x, xv[1]) THEN Failed("StationTooClose")
              ELSE IF Less(xv[n], x) THEN Failed("StationTooFar")
              ELSE IF distance.mDistanceOptions.mInterpolation = "Nearest"
                   THEN interpolateNearest(x, xv, yv)
              ELSE interpolateLinearly(x, xv, yv)
        BY <2>2 DEF CorrectionAt, xv, yv
    <2> QED BY <2>3, <2>5, <2>7, <2>8, <2>9, <2>10
<1> QED BY <1>1, FitInvariant, PTL

\* Without a NaN, whatever the distance, nearest neighbour interpolation
\* answers with the value of the nearest node.
THEOREM Nearest == Spec => []NearestIsNearest
<1>1. ASSUME IInv, FitInv PROVE NearestIsNearest
    <2> DEFINE xv == distance.mAbsissas
               yv == distance.mValues
               n == Len(xv)
    <2> SUFFICES ASSUME HasNumbers,
                        distance.mDistanceOptions.mInterpolation = "Nearest",
                        NEW x \in Queries, CorrectionAt(distance, x).error = "None"
                 PROVE  \E k \in DOMAIN xv :
                            /\ CorrectionAt(distance, x).value = <<yv[k], 1>>
                            /\ \A i \in DOMAIN xv : Gap(x, xv[k]) <= Gap(x, xv[i])
                            /\ \A i \in 1 .. k - 1 : Gap(x, xv[k]) < Gap(x, xv[i])
        BY DEF NearestIsNearest
    <2>1. Made(distance) /\ Fit(distance.mDistanceOptions.mCorrections) /\ x \in Int
        BY <1>1, NumbersFit, RangesAssumption
    <2>2. /\ Ready(xv, yv) /\ distance.mMinimumDistance = xv[1]
          /\ distance.mMaximumDistance = xv[n]
        BY <2>1, MadeIsReady
    <2>4. \A code : Failed(code).error = code
        BY DEF Failed
    <2>5. /\ CorrectionAt(distance, x) = interpolateNearest(x, xv, yv)
          /\ ~Less(x, xv[1]) /\ ~Less(xv[n], x)
        BY <2>2, <2>4 DEF CorrectionAt
    <2> HIDE DEF xv, yv
    <2>3. /\ n \in Nat /\ n >= 1 /\ DOMAIN xv = 1 .. n /\ Len(yv) = n
          /\ \A k \in 1 .. n : xv[k] \in Int
          /\ \A k, m \in 1 .. n : k < m => xv[k] < xv[m]
        BY <2>2, Nodes
    <2> HIDE DEF n
    <2> DEFINE i == LowerBound(xv, x)
    <2>6. /\ i \in 1 .. n + 1
          /\ \A k \in 1 .. n : k < i => xv[k] < x
          /\ \A k \in 1 .. n : k >= i => xv[k] >= x
        BY <2>1, <2>2, Lower DEF n
    <2> HIDE DEF i
    <2>7. xv[1] <= x /\ x <= xv[n]
        <3>1. xv[1] \in Int /\ xv[n] \in Int
            BY <2>3
        <3> QED BY <2>1, <2>5, <3>1, TablesAssumption DEF Less
    <2>8. i \in 1 .. n
        <3>1. n \in 1 .. n /\ xv[n] \in Int
            BY <2>3
        <3>2. i # n + 1
            BY <2>1, <2>3, <2>6, <2>7, <3>1
        <3> QED BY <2>3, <2>6, <3>2
    <2> DEFINE k == IF n = 1 \/ i = 1 THEN 1
                    ELSE IF x - xv[i - 1] <= xv[i] - x THEN i - 1 ELSE i
    <2>9. k \in 1 .. n
        BY <2>3, <2>8
    <2>10. CorrectionAt(distance, x).value = <<yv[k], 1>>
        <3>1. interpolateNearest(x, xv, yv) = Found(yv[k], 1)
            BY <2>3, <2>8 DEF interpolateNearest, i, n
        <3>2. Found(yv[k], 1).value = <<yv[k], 1>>
            BY DEF Found
        <3> QED BY <2>5, <3>1, <3>2
    <2>13. /\ n = 1 \/ i = 1 => k = 1
           /\ n # 1 /\ i # 1 /\ x - xv[i - 1] <= xv[i] - x => k = i - 1
           /\ n # 1 /\ i # 1 /\ ~(x - xv[i - 1] <= xv[i] - x) => k = i
        OBVIOUS
    <2> HIDE DEF k
    <2>11. \A m \in 1 .. n : Gap(x, xv[k]) <= Gap(x, xv[m]) /\ (m < k => Gap(x, xv[k]) < Gap(x, xv[m]))
        <3> SUFFICES ASSUME NEW m \in 1 .. n
                     PROVE  /\ Gap(x, xv[k]) <= Gap(x, xv[m])
                            /\ m < k => Gap(x, xv[k]) < Gap(x, xv[m])
            OBVIOUS
        <3>1. xv[m] \in Int /\ xv[k] \in Int /\ xv[i] \in Int
            BY <2>3, <2>8, <2>9
        <3>2. /\ m < i => Gap(x, xv[m]) = x - xv[m] /\ xv[m] < x
              /\ m >= i => Gap(x, xv[m]) = xv[m] - x /\ xv[m] >= x
            <4>1. /\ m < i => xv[m] < x
                  /\ m >= i => xv[m] >= x
                BY <2>6
            <4> QED BY <2>1, <3>1, <4>1 DEF Gap
        <3>3. CASE n = 1
            <4>1. m = 1 /\ k = 1
                BY <2>13, <3>3
            <4>2. Gap(x, xv[k]) \in Int
                BY <2>1, <3>1 DEF Gap
            <4> QED BY <4>1, <4>2
        <3>4. CASE n # 1 /\ i = 1
            <4>1. k = 1 /\ 1 \in 1 .. n
                BY <2>3, <2>13, <3>4
            <4>2. xv[k] >= x
                BY <2>6, <3>4, <4>1
            <4>3. xv[k] = x /\ Gap(x, xv[k]) = 0
                <5>1. xv[k] = x
                    BY <2>1, <2>7, <3>1, <4>1, <4>2
                <5> QED BY <2>1, <5>1 DEF Gap
            <4>4. m >= i /\ ~(m < k)
                BY <3>4, <4>1
            <4> QED BY <2>1, <3>1, <3>2, <4>3, <4>4
        <3>5. CASE n # 1 /\ i # 1
            <4>0. i - 1 \in 1 .. n /\ i - 1 < i /\ i >= i
                BY <2>3, <2>8, <3>5
            <4>1. i - 1 \in 1 .. n /\ xv[i - 1] \in Int /\ xv[i - 1] < x /\ x <= xv[i]
                BY <2>3, <2>6, <2>8, <4>0
            <4>2. /\ Gap(x, xv[i - 1]) = x - xv[i - 1] /\ Gap(x, xv[i]) = xv[i] - x
                BY <2>1, <3>1, <4>1 DEF Gap
            <4>3. /\ m < i => xv[m] <= xv[i - 1] /\ (m < i - 1 => xv[m] < xv[i - 1])
                  /\ m > i => xv[m] > xv[i]
                  /\ m = i => xv[m] = xv[i]
                BY <2>3, <2>8, <3>1, <4>1
            <4>4. CASE x - xv[i - 1] <= xv[i] - x
                <5>1. k = i - 1
                    BY <2>13, <3>5, <4>4
                <5>2. m < i \/ m = i \/ m > i
                    BY <2>8
                <5> QED BY <2>1, <2>8, <3>1, <3>2, <4>1, <4>2, <4>3, <4>4, <5>1, <5>2
            <4>5. CASE ~(x - xv[i - 1] <= xv[i] - x)
                <5>1. k = i
                    BY <2>13, <3>5, <4>5
                <5>2. m < i \/ m = i \/ m > i
                    BY <2>8
                <5> QED BY <2>1, <2>8, <3>1, <3>2, <4>1, <4>2, <4>3, <4>5, <5>1, <5>2
            <4> QED BY <4>4, <4>5
        <3> QED BY <3>3, <3>4, <3>5
    <2>12. \A m \in 1 .. k - 1 : m \in 1 .. n /\ m < k
        BY <2>3, <2>9
    <2> QED BY <2>3, <2>9, <2>10, <2>11, <2>12
<1> QED BY <1>1, FitInvariant, PTL


\* A line through two nodes is divided in the ratio of the distances.
LEMMA OnTheLine ==
    \A a, b, p, q, x, w, y \in Int :
        w = q - p /\ y = a * w + (x - p) * (b - a) =>
            (y - w * a) * (q - x) = (w * b - y) * (x - p)
<1> SUFFICES ASSUME NEW a \in Int, NEW b \in Int, NEW p \in Int, NEW q \in Int,
                    NEW x \in Int, NEW w \in Int, NEW y \in Int,
                    w = q - p, y = a * w + (x - p) * (b - a)
             PROVE  (y - w * a) * (q - x) = (w * b - y) * (x - p)
    OBVIOUS
<1>1. y - w * a = (x - p) * (b - a)
    OBVIOUS
<1>2. w * b - y = (q - x) * (b - a)
    OBVIOUS
<1>3. ((x - p) * (b - a)) * (q - x) = ((q - x) * (b - a)) * (x - p)
    OBVIOUS
<1> QED BY <1>1, <1>2, <1>3

\* A product with nothing is nothing.
LEMMA Nothing ==
    \A a, b, c, d \in Int : (b = 0 /\ c = 0) \/ (a = 0 /\ d = 0) => a * b = c * d
OBVIOUS

\* No value is NaN.
Valued(yv) == \A k \in DOMAIN yv : yv[k] # NaN

\* Then they are numbers.
LEMMA NumericValues ==
    ASSUME NEW xv, NEW yv, Ready(xv, yv), Valued(yv)
    PROVE  \A k \in 1 .. Len(xv) : yv[k] \in Int
<1>1. DOMAIN yv = 1 .. Len(xv) /\ \A k \in 1 .. Len(xv) : yv[k] \in Number
    BY DEF Ready
<1> QED BY <1>1 DEF Valued, Number

\* The answer y / m at x passes through the nodes and divides the segment
\* between two of them as x divides their distances.
Interpolates(xv, yv, x, y, m) ==
    /\ \A i \in 1 .. Len(xv) : x = xv[i] => y = m * yv[i]
    /\ \A i \in 1 .. Len(xv) - 1 :
          xv[i] <= x /\ x <= xv[i + 1] =>
              (y - m * yv[i]) * (xv[i + 1] - x) = (m * yv[i + 1] - y) * (x - xv[i])

\* At a node, its value.
LEMMA AtANode ==
    ASSUME NEW xv, NEW yv, Ready(xv, yv), Valued(yv), NEW j \in 1 .. Len(xv)
    PROVE  Interpolates(xv, yv, xv[j], yv[j], 1)
<1> DEFINE n == Len(xv)
<1>1. /\ n \in Nat /\ \A k \in 1 .. n : xv[k] \in Int /\ yv[k] \in Int
      /\ \A k, m \in 1 .. n : k < m => xv[k] < xv[m]
    BY Nodes, NumericValues
<1> HIDE DEF n
<1>2. j \in 1 .. n
    BY DEF n
<1>3. ASSUME NEW i \in 1 .. n, xv[j] = xv[i] PROVE yv[j] = 1 * yv[i]
    <2>1. ~(i < j) /\ ~(j < i)
        BY <1>1, <1>2, <1>3
    <2>2. i = j
        BY <1>1, <1>2, <2>1
    <2>3. yv[j] \in Int
        BY <1>1, <1>2
    <2> QED BY <2>2, <2>3
<1>4. ASSUME NEW i \in 1 .. n - 1, xv[i] <= xv[j], xv[j] <= xv[i + 1]
      PROVE  (yv[j] - 1 * yv[i]) * (xv[i + 1] - xv[j])
                 = (1 * yv[i + 1] - yv[j]) * (xv[j] - xv[i])
    <2>1. i \in 1 .. n /\ i + 1 \in 1 .. n
        BY <1>1
    <2>2. xv[i] \in Int /\ xv[j] \in Int /\ xv[i + 1] \in Int
        BY <1>1, <1>2, <2>1
    <2>3. yv[i] \in Int /\ yv[j] \in Int /\ yv[i + 1] \in Int
        BY <1>1, <1>2, <2>1
    <2>4. ~(j < i)
        <3>1. j < i => xv[j] < xv[i]
            BY <1>1, <1>2, <2>1
        <3> QED BY <1>4, <2>2, <3>1
    <2>5. ~(i + 1 < j)
        <3>1. i + 1 < j => xv[i + 1] < xv[j]
            BY <1>1, <1>2, <2>1
        <3> QED BY <1>4, <2>2, <3>1
    <2>6. j = i \/ j = i + 1
        BY <1>1, <1>2, <2>1, <2>4, <2>5
    <2> DEFINE a == yv[j] - 1 * yv[i]
               b == xv[i + 1] - xv[j]
               c == 1 * yv[i + 1] - yv[j]
               d == xv[j] - xv[i]
    <2>7. a \in Int /\ b \in Int /\ c \in Int /\ d \in Int
        <3>1. a \in Int
            BY <2>3
        <3>2. b \in Int
            BY <2>2
        <3>3. c \in Int
            BY <2>3
        <3>4. d \in Int
            BY <2>2
        <3> QED BY <3>1, <3>2, <3>3, <3>4
    <2>8. (b = 0 /\ c = 0) \/ (a = 0 /\ d = 0)
        <3>1. CASE j = i
            BY <2>2, <2>3, <3>1
        <3>2. CASE j = i + 1
            BY <2>2, <2>3, <3>2
        <3> QED BY <2>6, <3>1, <3>2
    <2>9. a * b = c * d
        <3> HIDE DEF a, b, c, d
        <3> QED BY <2>7, <2>8, Nothing
    <2> QED BY <2>9
<1> QED BY <1>3, <1>4 DEF Interpolates, n

\* Between two nodes, the line through them.
LEMMA BetweenNodes ==
    ASSUME NEW xv, NEW yv, Ready(xv, yv), Valued(yv), NEW x \in Int,
           NEW j \in 1 .. Len(xv) - 1, xv[j] <= x, x < xv[j + 1]
    PROVE  Interpolates(xv, yv, x,
               yv[j] * (xv[j + 1] - xv[j]) + (x - xv[j]) * (yv[j + 1] - yv[j]),
               xv[j + 1] - xv[j])
<1> DEFINE n == Len(xv)
           w == xv[j + 1] - xv[j]
           y == yv[j] * w + (x - xv[j]) * (yv[j + 1] - yv[j])
<1>1. /\ n \in Nat /\ \A k \in 1 .. n : xv[k] \in Int /\ yv[k] \in Int
      /\ \A k, m \in 1 .. n : k < m => xv[k] < xv[m]
    BY Nodes, NumericValues
<1> HIDE DEF n
<1>2. j \in 1 .. n /\ j + 1 \in 1 .. n /\ j \in Int
    BY <1>1 DEF n
<1>3. /\ xv[j] \in Int /\ xv[j + 1] \in Int /\ yv[j] \in Int /\ yv[j + 1] \in Int
    BY <1>1, <1>2
<1>4. w \in Int /\ y \in Int
    <2>1. w \in Int
        BY <1>3
    <2> HIDE DEF w
    <2>2. yv[j] * w \in Int
        BY <1>3, <2>1
    <2>3. (x - xv[j]) * (yv[j + 1] - yv[j]) \in Int
        <3>1. x - xv[j] \in Int /\ yv[j + 1] - yv[j] \in Int
            BY <1>3
        <3> QED BY <3>1
    <2> QED BY <2>1, <2>2, <2>3
<1>5. ASSUME NEW i \in 1 .. n PROVE (xv[i] <= x => i <= j) /\ (x <= xv[i] /\ i < j + 1 => i = j /\ x = xv[j])
    <2>0. i \in Int /\ xv[i] \in Int
        BY <1>1
    <2>1. j + 1 < i => xv[j + 1] < xv[i]
        BY <1>1, <1>2
    <2>2. i < j => xv[i] < xv[j]
        BY <1>1, <1>2
    <2>3. i = j + 1 => xv[i] = xv[j + 1]
        OBVIOUS
    <2>4. xv[i] <= x => i <= j
        <3>1. i <= j \/ i = j + 1 \/ j + 1 < i
            BY <1>2, <2>0
        <3> QED BY <1>3, <2>0, <2>1, <2>3, <3>1
    <2>5. x <= xv[i] /\ i < j + 1 => i = j /\ x = xv[j]
        <3>1. i < j + 1 => i < j \/ i = j
            BY <1>2, <2>0
        <3> QED BY <1>3, <2>0, <2>2, <3>1
    <2> QED BY <2>4, <2>5
<1>6. x = xv[j] => y = w * yv[j]
    <2> SUFFICES ASSUME x = xv[j] PROVE y = w * yv[j]
        OBVIOUS
    <2> HIDE DEF w
    <2>1. x - xv[j] = 0 /\ yv[j + 1] - yv[j] \in Int
        BY <1>3
    <2>2. (x - xv[j]) * (yv[j + 1] - yv[j]) = 0 /\ yv[j] * w = w * yv[j] /\ w * yv[j] \in Int
        <3>1. (x - xv[j]) * (yv[j + 1] - yv[j]) = 0
            <4> DEFINE rise == yv[j + 1] - yv[j]
            <4>1. rise \in Int
                BY <2>1
            <4> HIDE DEF rise
            <4>2. 0 * rise = 0
                BY <4>1
            <4> QED BY <2>1, <4>2 DEF rise
        <3>2. yv[j] * w = w * yv[j] /\ w * yv[j] \in Int
            <4> DEFINE a == yv[j]
            <4>1. a \in Int
                BY <1>3
            <4> HIDE DEF a
            <4>2. a * w = w * a /\ w * a \in Int
                BY <1>4, <4>1
            <4> QED BY <4>2 DEF a
        <3> QED BY <3>1, <3>2
    <2> QED BY <2>2
<1>7. (y - w * yv[j]) * (xv[j + 1] - x) = (w * yv[j + 1] - y) * (x - xv[j])
    <2> DEFINE a == yv[j]
               b == yv[j + 1]
               p == xv[j]
               q == xv[j + 1]
    <2>1. /\ w = q - p /\ y = a * w + (x - p) * (b - a)
          /\ a \in Int /\ b \in Int /\ p \in Int /\ q \in Int
        BY <1>3
    <2>2. (y - w * a) * (q - x) = (w * b - y) * (x - p)
        <3> HIDE DEF w, y, a, b, p, q
        <3> QED BY <1>4, <2>1, OnTheLine
    <2> QED BY <2>2
<1> HIDE DEF w, y
<1>8. ASSUME NEW i \in 1 .. n, x = xv[i] PROVE y = w * yv[i]
    <2>1. i <= j
        BY <1>3, <1>5, <1>8
    <2>2. i < j + 1 /\ x <= xv[i]
        BY <1>1, <1>2, <1>8, <2>1
    <2>3. i = j /\ x = xv[j]
        BY <1>5, <2>2
    <2> QED BY <1>6, <2>3
<1>9. ASSUME NEW i \in 1 .. n - 1, xv[i] <= x, x <= xv[i + 1]
      PROVE  (y - w * yv[i]) * (xv[i + 1] - x) = (w * yv[i + 1] - y) * (x - xv[i])
    <2>1. i \in 1 .. n /\ i + 1 \in 1 .. n /\ i \in Int
        BY <1>1
    <2>2. i <= j
        BY <1>5, <1>9, <2>1
    <2>3. i = j \/ i + 1 < j + 1
        BY <1>2, <2>1, <2>2
    <2>4. CASE i + 1 < j + 1
        <3>1. i + 1 = j /\ x = xv[j]
            BY <1>5, <1>9, <2>1, <2>4
        <3>2. xv[i + 1] - x = 0 /\ w * yv[i + 1] - y = 0
            <4>1. xv[i + 1] = x /\ yv[i + 1] = yv[j]
                BY <3>1
            <4>2. y = w * yv[i + 1]
                BY <1>6, <3>1, <4>1
            <4> QED BY <1>4, <4>1, <4>2
        <3>3. yv[i] \in Int /\ xv[i] \in Int /\ w * yv[i] \in Int
            BY <1>1, <1>4, <2>1
        <3>4. y - w * yv[i] \in Int /\ x - xv[i] \in Int
            <4> DEFINE part == w * yv[i]
            <4>1. part \in Int
                BY <3>3
            <4>2. y - part \in Int
                <5> HIDE DEF part
                <5> QED BY <1>4, <4>1
            <4>3. x - xv[i] \in Int
                BY <3>3
            <4> QED BY <4>2, <4>3
        <3> QED BY <3>2, <3>4, Nothing
    <2> QED BY <1>7, <2>3, <2>4
<1> QED BY <1>8, <1>9 DEF Interpolates, n, w, y

\* Without a NaN among distances or values, whatever the distance, linear interpolation
\* passes through every node and is linear between two.
THEOREM Linear == Spec => []LinearIsLinear
<1>1. ASSUME IInv, FitInv PROVE LinearIsLinear
    <2> DEFINE xv == distance.mAbsissas
               yv == distance.mValues
               n == Len(xv)
    <2> SUFFICES ASSUME HasNumbers, HasValues,
                        distance.mDistanceOptions.mInterpolation = "Linear",
                        NEW x \in Queries, CorrectionAt(distance, x).error = "None"
                 PROVE  LET answer == CorrectionAt(distance, x)
                        IN  Interpolates(xv, yv, x, answer.value[1], answer.value[2])
        <3>1. HasNumbers => DOMAIN xv = 1 .. Len(xv)
            <4>1. HasNumbers => Ready(xv, yv)
                BY <1>1, MadeIsReady, NumbersFit
            <4> QED BY <4>1 DEF Ready
        <3> QED BY <3>1 DEF LinearIsLinear, Interpolates
    <2>1. Made(distance) /\ Fit(distance.mDistanceOptions.mCorrections) /\ x \in Int
        BY <1>1, NumbersFit, RangesAssumption
    <2>2. /\ Ready(xv, yv) /\ distance.mMinimumDistance = xv[1]
          /\ distance.mMaximumDistance = xv[n]
        BY <2>1, MadeIsReady
    <2>3. \A code : Failed(code).error = code
        BY DEF Failed
    <2>4. /\ CorrectionAt(distance, x) = interpolateLinearly(x, xv, yv)
          /\ ~Less(x, xv[1]) /\ ~Less(xv[n], x)
        BY <2>2, <2>3 DEF CorrectionAt
    <2>4a. Valued(yv)
        BY DEF HasValues, Valued
    <2> HIDE DEF xv, yv
    <2>4b. \A k \in 1 .. n : yv[k] # NaN
        <3>1. DOMAIN yv = 1 .. n
            BY <2>2 DEF Ready
        <3> QED BY <2>4a, <3>1 DEF Valued
    <2>5. /\ n \in Nat /\ n >= 1 /\ Len(yv) = n
          /\ \A k \in 1 .. n : xv[k] \in Int
        BY <2>2, Nodes
    <2>6. 1 \in 1 .. n /\ n \in 1 .. n
        BY <2>5
    <2>7. xv[1] \in Int /\ xv[n] \in Int /\ xv[1] <= x /\ x <= xv[n]
        <3>1. xv[1] \in Int /\ xv[n] \in Int
            BY <2>5, <2>6
        <3> QED BY <2>1, <2>4, <3>1, TablesAssumption DEF Less
    <2>8. \A a, b : Found(a, b).value[1] = a /\ Found(a, b).value[2] = b
        BY DEF Found
    <2>9. CASE n = 1 \/ x <= xv[1]
        <3>1. x = xv[1]
            BY <2>1, <2>7, <2>9
        <3>2. CorrectionAt(distance, x) = Found(yv[1], 1)
            BY <2>4, <2>9 DEF interpolateLinearly
        <3>3. Interpolates(xv, yv, xv[1], yv[1], 1)
            BY <2>2, <2>6, <2>4a, AtANode
        <3> QED BY <2>8, <3>1, <3>2, <3>3
    <2>10. CASE ~(n = 1 \/ x <= xv[1]) /\ x >= xv[n]
        <3>1. x = xv[n]
            BY <2>1, <2>7, <2>10
        <3>2. CorrectionAt(distance, x) = Found(yv[n], 1)
            BY <2>4, <2>5, <2>10 DEF interpolateLinearly
        <3>3. Interpolates(xv, yv, xv[n], yv[n], 1)
            BY <2>2, <2>6, <2>4a, AtANode
        <3> QED BY <2>8, <3>1, <3>2, <3>3
    <2>11. CASE ~(n = 1 \/ x <= xv[1]) /\ ~(x >= xv[n])
        <3> DEFINE above == UpperBound(xv, x)
        <3>1. /\ above \in 1 .. n + 1
              /\ \A k \in 1 .. n : k < above => xv[k] <= x
              /\ \A k \in 1 .. n : k >= above => xv[k] > x
            BY <2>1, <2>2, Upper
        <3> HIDE DEF above, n
        <3>2. above # 1 /\ above # n + 1
            <4>1. n < n + 1
                BY <2>5
            <4> QED BY <2>1, <2>6, <2>7, <2>11, <3>1, <4>1
        <3> DEFINE j == above - 1
        <3>3. /\ j \in 1 .. n - 1 /\ j \in 1 .. n /\ j + 1 \in 1 .. n
              /\ j < above /\ j + 1 >= above
            BY <2>5, <3>1, <3>2
        <3>4. CorrectionAt(distance, x) =
                  Found(yv[j] * (xv[j + 1] - xv[j]) + (x - xv[j]) * (yv[j + 1] - yv[j]),
                        xv[j + 1] - xv[j])
            BY <2>4, <2>11, <2>4b, <3>2, <3>3 DEF interpolateLinearly, above, n
        <3> HIDE DEF j
        <3>5. xv[j] <= x /\ x < xv[j + 1]
            <4>1. xv[j + 1] \in Int
                BY <2>5, <3>3
            <4> QED BY <2>1, <3>1, <3>3, <4>1
        <3>6. Interpolates(xv, yv, x,
                  yv[j] * (xv[j + 1] - xv[j]) + (x - xv[j]) * (yv[j + 1] - yv[j]),
                  xv[j + 1] - xv[j])
            BY <2>1, <2>2, <2>4a, <3>3, <3>5, BetweenNodes DEF n
        <3> QED BY <2>8, <3>4, <3>6
    <2> QED BY <2>9, <2>10, <2>11
<1> QED BY <1>1, FitInvariant, PTL

\* The square root of a perfect square.
LEMMA PerfectSquare ==
    ASSUME NEW x \in Int, NEW y \in Int, NEW h \in Nat, h * h = x * x + y * y
    PROVE  Hypot(x, y) = h
<1> DEFINE a == IF x < 0 THEN -x ELSE x
           b == IF y < 0 THEN -y ELSE y
<1>1. a \in Nat /\ b \in Nat /\ a * a = x * x /\ b * b = y * y
    OBVIOUS
<1> HIDE DEF a, b
<1>2. \A k, m \in Nat : k < m => k * k < m * m /\ (k + 1) * (k + 1) <= m * m
    <2> SUFFICES ASSUME NEW k \in Nat, NEW m \in Nat, k < m
                 PROVE  k * k < m * m /\ (k + 1) * (k + 1) <= m * m
        OBVIOUS
    <2>1. \E d \in Nat : m = k + 1 + d
        <3>1. m - k - 1 \in Nat /\ m = k + 1 + (m - k - 1)
            OBVIOUS
        <3> QED BY <3>1
    <2>2. PICK d \in Nat : m = k + 1 + d
        BY <2>1
    <2>3. m * m = (k + 1) * (k + 1) + 2 * ((k + 1) * d) + d * d
        BY <2>2
    <2>4. (k + 1) * d >= 0 /\ d * d >= 0
        OBVIOUS
    <2>5. (k + 1) * (k + 1) = k * k + 2 * k + 1
        OBVIOUS
    <2> QED BY <2>3, <2>4, <2>5
<1>3. h <= a + b
    <2>1. (a + b) * (a + b) = a * a + b * b + 2 * (a * b) /\ a * b >= 0
        BY <1>1
    <2>2. a + b \in Nat /\ h * h <= (a + b) * (a + b)
        BY <1>1, <2>1
    <2> QED BY <1>2, <2>2
<1>4. /\ h \in 0 .. a + b
      /\ h * h <= x * x + y * y /\ x * x + y * y < (h + 1) * (h + 1)
    <2>1. h * h < (h + 1) * (h + 1)
        BY <1>2
    <2> QED BY <1>1, <1>3, <2>1
<1>5. ASSUME NEW k \in 0 .. a + b, k * k <= x * x + y * y,
             x * x + y * y < (k + 1) * (k + 1)
      PROVE  k = h
    <2>1. k \in Nat
        BY <1>1
    <2>2. ~(h < k)
        BY <1>2, <1>5, <2>1
    <2>3. ~(k < h)
        BY <1>2, <1>5, <2>1
    <2> QED BY <2>1, <2>2, <2>3
<1>6. Hypot(x, y) = CHOOSE k \in 0 .. a + b :
                        k * k <= x * x + y * y /\ x * x + y * y < (k + 1) * (k + 1)
    BY DEF Hypot, a, b
<1> QED BY <1>4, <1>5, <1>6

\* Whatever the datum and the depth, a hypocentral table is read at the slant
\* distance from the depth below the datum, an epicentral one at the distance.
THEOREM Depth == Spec => []DepthIsBelowDatum
<1>1. ASSUME IInv PROVE DepthIsBelowDatum
    <2> SUFFICES ASSUME distance # NoDistance,
                        NEW e \in Queries, NEW z \in Depths, NEW h \in Queries,
                        e >= 0, h >= 0, MinDepth <= z, z <= MaxDepth
                 PROVE  LET o == distance.mDistanceOptions
                            below == z + o.mDatum
                        IN  /\ o.mType = "Hypocentral" /\ h * h = e * e + below * below =>
                                  Correction(distance, e, z) = CorrectionAt(distance, h)
                            /\ o.mType = "Epicentral" =>
                                  Correction(distance, e, z) = CorrectionAt(distance, e)
        BY DEF DepthIsBelowDatum
    <2> DEFINE datum == distance.mDistanceOptions.mDatum
    <2>1. /\ e \in Int /\ z \in Int /\ h \in Nat /\ MinDepth \in Int /\ MaxDepth \in Int
          /\ datum \in Int
        <3>1. OptionsType(distance.mDistanceOptions)
            BY <1>1 DEF IInv, Made
        <3> QED BY <3>1, RangesAssumption DEF OptionsType, Options
    <2>2. distance.mDistanceOptions.mType = "Epicentral" =>
              Correction(distance, e, z) = CorrectionAt(distance, e)
        BY <2>1 DEF Correction
    <2>3. ASSUME distance.mDistanceOptions.mType = "Hypocentral",
                 h * h = e * e + (z + datum) * (z + datum)
          PROVE  Correction(distance, e, z) = CorrectionAt(distance, h)
        <3>1. z - (-datum) = z + datum /\ z + datum \in Int
            BY <2>1
        <3>2. Hypot(e, z + datum) = h
            BY <2>1, <2>3, <3>1, PerfectSquare
        <3>3. Correction(distance, e, z) = CorrectionAt(distance, Hypot(e, z - (-datum)))
            BY <2>1, <2>3 DEF Correction
        <3> QED BY <3>1, <3>2, <3>3
    <2> QED BY <2>2, <2>3
<1> QED BY <1>1, Invariant, PTL

=============================================================================
