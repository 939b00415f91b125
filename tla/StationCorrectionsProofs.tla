---------------------- MODULE StationCorrectionsProofs ----------------------
(***************************************************************************)
(* Theorems about StationCorrections: its types, that every station gets   *)
(* its own correction, that a refused operation changes nothing, and that  *)
(* it implements StationTable.                                             *)
(***************************************************************************)
EXTENDS StationCorrections, TLAPS

\* No two stations have the same name.  Codes without a dot are enough for it.
DistinctNames == \A s, t \in Stations : toString(s) = toString(t) => s = t

Element == [station : Stations, correction : Corrections]

\* Every element of a map is stored under its own name.
Keyed(map) == \A n \in DOMAIN map : toString(map[n].station) = n

AllKeyed ==
    /\ Keyed(mCorrections) /\ Keyed(stationsSet) /\ Keyed(stations)
    /\ Keyed(options.mStationCorrections)
    /\ calculator # NoCalculator => Keyed(calculator.mStationCorrections)

\* The station and the name that an entry adds.
Added(e) == Station(e.spelling, e.correction)
NameOf(e) == toString(Identify[e.spelling])

GoodEntry(e) == e.wellFormed /\ Identify[e.spelling] # Invalid /\ e.correction # NoNumber

\* What has been read is the entries before next: each is good and in the set, no
\* two of them share a name, and nothing else is in the set.
ReadInv ==
    file # NoFile =>
        /\ \A i \in 1..(next - 1) :
              /\ i \in DOMAIN file /\ i <= LastEntry
              /\ GoodEntry(file[i])
              /\ NameOf(file[i]) \in DOMAIN stationsSet
              /\ stationsSet[NameOf(file[i])] = Added(file[i])
        /\ \A i, j \in 1..(next - 1) : NameOf(file[i]) = NameOf(file[j]) => i = j
        /\ \A n \in DOMAIN stationsSet :
              \E i \in 1..(next - 1) : stationsSet[n] = Added(file[i])

\* Corrections that were set are not empty.
OptionsInv ==
    /\ options.mHasStationCorrections => options.mStationCorrections # Empty
    /\ calculator # NoCalculator =>
          Valid(calculator) /\ calculator.mStationCorrections # Empty

IInv == TypeOK /\ AllKeyed /\ ReadInv /\ OptionsInv

-----------------------------------------------------------------------------

(***************************************************************************)
(* Maps                                                                    *)
(***************************************************************************)

\* A map is a function from some of the names to elements.
LEMMA MapsElements ==
    ASSUME NEW m \in Maps
    PROVE  /\ m = [n \in DOMAIN m |-> m[n]]
           /\ DOMAIN m \subseteq Names
           /\ \A n \in DOMAIN m : m[n] \in Element
  <1>1. PICK N \in SUBSET Names : m \in [N -> Element]
    BY DEF Maps, Element
  <1>2. DOMAIN m = N
    BY <1>1
  <1>. QED
    BY <1>1, <1>2

\* The other way round.
LEMMA ElementsMap ==
    ASSUME NEW N \in SUBSET Names, NEW m \in [N -> Element]
    PROVE  m \in Maps
  BY DEF Maps, Element

\* The empty map is one, and the only one without a name.
LEMMA EmptyMap ==
    /\ Empty \in Maps
    /\ DOMAIN Empty = {}
    /\ \A m \in Maps : DOMAIN m = {} => m = Empty
  <1>1. DOMAIN Empty = {} /\ Empty \in [{} -> Element]
    BY DEF Empty
  <1>2. ASSUME NEW m \in Maps, DOMAIN m = {}
        PROVE  m = Empty
    BY <1>2, MapsElements DEF Empty
  <1>. QED
    BY <1>1, <1>2, ElementsMap

\* Adding an element under its own name keeps a map a map, and keyed.
LEMMA InsertKeyed ==
    ASSUME NEW m \in Maps, Keyed(m),
           NEW e \in Element
    PROVE  LET r == insert_or_assign(m, getName(e), e)
           IN  /\ r \in Maps
               /\ Keyed(r)
               /\ DOMAIN r = DOMAIN m \cup {getName(e)}
               /\ r[getName(e)] = e
               /\ \A n \in DOMAIN m : n # getName(e) => r[n] = m[n]
  <1>. DEFINE name == getName(e)
              r == insert_or_assign(m, name, e)
  <1>1. name \in Names /\ name = toString(e.station)
    BY DEF getName, Names, Element
  <1>2. DOMAIN r = DOMAIN m \cup {name}
    BY DEF insert_or_assign
  <1>3. \A n \in DOMAIN r : r[n] = IF n = name THEN e ELSE m[n]
    BY DEF insert_or_assign
  <1>4. r \in [DOMAIN r -> Element]
    <2>1. \A n \in DOMAIN r : r[n] \in Element
      BY <1>2, <1>3, MapsElements
    <2>2. r = [n \in DOMAIN r |-> r[n]]
      BY DEF insert_or_assign
    <2>. QED
      BY <2>1, <2>2
  <1>5. DOMAIN r \in SUBSET Names
    BY <1>1, <1>2, MapsElements
  <1>6. r \in Maps
    BY <1>4, <1>5, ElementsMap
  <1>7. Keyed(r)
    BY <1>1, <1>2, <1>3 DEF Keyed
  <1>. QED
    BY <1>2, <1>3, <1>6, <1>7

\* The element a spelling and a correction make.
LEMMA StationElement ==
    ASSUME NEW s \in Spellings, Identify[s] # Invalid, NEW c \in Corrections
    PROVE  Station(s, c) \in Element /\ getName(Station(s, c)) = toString(Identify[s])
  BY SpellingsAssumption DEF Station, Element, getName

\* The element that a good entry adds.
LEMMA EntryElement ==
    ASSUME NEW e \in Entries, GoodEntry(e)
    PROVE  Added(e) \in Element /\ getName(Added(e)) = NameOf(e)
  <1>1. e.spelling \in Spellings /\ e.correction \in Corrections
    BY DEF Entries, GoodEntry
  <1>. QED
    BY <1>1, StationElement DEF Added, NameOf, GoodEntry

-----------------------------------------------------------------------------

(***************************************************************************)
(* The inductive invariant                                                 *)
(***************************************************************************)

\* It holds of a new, empty set and default options.
LEMMA InitInv == Init => IInv
  <1>. SUFFICES ASSUME Init PROVE IInv
    OBVIOUS
  <1>1. TypeOK
    BY EmptyMap DEF Init, TypeOK, Options
  <1>2. AllKeyed /\ ReadInv /\ OptionsInv
    BY EmptyMap DEF Init, AllKeyed, Keyed, ReadInv, OptionsInv
  <1>. QED
    BY <1>1, <1>2 DEF IInv

\* Inserting, by hand, an element under its own name.
LEMMA InsertInv ==
    ASSUME IInv, NEW s \in Spellings, NEW c \in Corrections, NEW overwrite \in BOOLEAN,
           Insert(s, c, overwrite)
    PROVE  IInv'
  <1>. DEFINE e == Station(s, c)
  <1>1. e \in Element
    BY StationElement DEF Insert
  <1>2. mCorrections' = mCorrections \/ mCorrections' = insert_or_assign(mCorrections, getName(e), e)
    BY DEF Insert
  <1>3. mCorrections' \in Maps /\ Keyed(mCorrections')
    <2>1. mCorrections \in Maps /\ Keyed(mCorrections)
      BY DEF IInv, TypeOK, AllKeyed
    <2>2. /\ insert_or_assign(mCorrections, getName(e), e) \in Maps
          /\ Keyed(insert_or_assign(mCorrections, getName(e), e))
      BY <1>1, <2>1, InsertKeyed
    <2>. QED
      BY <1>2, <2>1, <2>2 DEF Keyed
  <1>4. outcome' \in {"true", "false"}
    BY DEF Insert
  <1>5. UNCHANGED <<file, next, stationsSet, stations, options, calculator>>
    BY DEF Insert, Idle
  <1>6. TypeOK'
    BY <1>3, <1>4, <1>5 DEF IInv, TypeOK
  <1>7. AllKeyed'
    BY <1>3, <1>5 DEF IInv, AllKeyed
  <1>8. ReadInv' /\ OptionsInv'
    BY <1>5 DEF IInv, ReadInv, OptionsInv
  <1>. QED
    BY <1>6, <1>7, <1>8 DEF IInv

\* The next entry adds its station to what has been read.
LEMMA ReadEntryInv ==
    ASSUME IInv, ReadEntry
    PROVE  IInv'
  <1>. DEFINE e == file[next]
              name == NameOf(e)
  <1>1. file \in Files /\ next \in Nat \ {0} /\ next \in DOMAIN file /\ next <= LastEntry
    BY DEF ReadEntry, HasEntry, IInv, TypeOK
  <1>2. e \in Entries
    BY <1>1, FilesAssumption
  <1>3. GoodEntry(e)
    BY DEF ReadEntry, EntryAdds, GoodEntry
  <1>4. Added(e) \in Element /\ getName(Added(e)) = name
    BY <1>2, <1>3, EntryElement
  <1>5. stationsSet' = insert_or_assign(stationsSet, name, Added(e))
    BY <1>4 DEF ReadEntry, Added
  <1>6. name \notin DOMAIN stationsSet
    BY <1>4 DEF ReadEntry, EntryAdds, Added
  <1>7. /\ stationsSet' \in Maps
        /\ Keyed(stationsSet')
        /\ DOMAIN stationsSet' = DOMAIN stationsSet \cup {name}
        /\ stationsSet'[name] = Added(e)
        /\ \A n \in DOMAIN stationsSet : stationsSet'[n] = stationsSet[n]
    BY <1>4, <1>5, <1>6, InsertKeyed DEF IInv, TypeOK, AllKeyed
  <1>8. next' = next + 1 /\ UNCHANGED <<file, tables, outcome>>
    BY DEF ReadEntry
  <1>9. TypeOK'
    BY <1>1, <1>7, <1>8 DEF IInv, TypeOK, tables
  <1>10. AllKeyed'
    BY <1>7, <1>8 DEF IInv, AllKeyed, tables
  <1>11. ReadInv'
    <2>1. file # NoFile /\ file' = file
      BY <1>8 DEF ReadEntry, HasEntry
    <2>2. 1..(next' - 1) = 1..(next - 1) \cup {next}
      BY <1>1, <1>8
    <2>3. \A i \in 1..(next' - 1) :
              /\ i \in DOMAIN file /\ i <= LastEntry
              /\ GoodEntry(file[i])
              /\ NameOf(file[i]) \in DOMAIN stationsSet'
              /\ stationsSet'[NameOf(file[i])] = Added(file[i])
      <3>. TAKE i \in 1..(next' - 1)
      <3>1. CASE i = next
        BY <3>1, <1>1, <1>3, <1>7
      <3>2. CASE i \in 1..(next - 1)
        BY <3>2, <1>7, <2>1 DEF IInv, ReadInv
      <3>. QED
        BY <2>2, <3>1, <3>2
    <2>4. \A i, j \in 1..(next' - 1) : NameOf(file[i]) = NameOf(file[j]) => i = j
      <3>1. \A i \in 1..(next - 1) : NameOf(file[i]) # name
        BY <1>6, <2>1 DEF IInv, ReadInv
      <3>2. \A i, j \in 1..(next - 1) : NameOf(file[i]) = NameOf(file[j]) => i = j
        BY <2>1 DEF IInv, ReadInv
      <3>. QED
        BY <2>2, <3>1, <3>2
    <2>5. \A n \in DOMAIN stationsSet' :
              \E i \in 1..(next' - 1) : stationsSet'[n] = Added(file[i])
      <3>1. \A n \in DOMAIN stationsSet :
                \E i \in 1..(next - 1) : stationsSet[n] = Added(file[i])
        BY <2>1 DEF IInv, ReadInv
      <3>. QED
        BY <1>7, <2>2, <3>1
    <2>. QED
      BY <2>1, <2>3, <2>4, <2>5 DEF ReadInv
  <1>12. OptionsInv'
    BY <1>8 DEF IInv, OptionsInv, tables
  <1>. QED
    BY <1>9, <1>10, <1>11, <1>12 DEF IInv

\* Every action preserves the invariant.
LEMMA NextInv == IInv /\ [Next]_vars => IInv'
  <1>. SUFFICES ASSUME IInv, [Next]_vars PROVE IInv'
    OBVIOUS
  <1>. USE DEF IInv
  <1>1. ASSUME NEW s \in Spellings, NEW c \in Corrections, NEW o \in BOOLEAN, Insert(s, c, o)
        PROVE  IInv'
    BY <1>1, InsertInv
  <1>2. ASSUME NEW s \in Spellings, InsertInvalid(s)
        PROVE  IInv'
    BY <1>2 DEF InsertInvalid, Idle, tables, TypeOK, AllKeyed, ReadInv, OptionsInv
  <1>3. ASSUME NEW f \in Files, OpenFile(f)
        PROVE  IInv'
    <2>1. TypeOK' /\ AllKeyed' /\ OptionsInv'
      BY <1>3, EmptyMap DEF OpenFile, tables, TypeOK, AllKeyed, Keyed, OptionsInv
    <2>2. ReadInv'
      BY <1>3, EmptyMap DEF OpenFile, ReadInv
    <2>. QED
      BY <2>1, <2>2
  <1>4. CASE FileMissing
    BY <1>4 DEF FileMissing, Idle, tables, TypeOK, AllKeyed, ReadInv, OptionsInv
  <1>5. CASE ReadEntry
    BY <1>5, ReadEntryInv
  <1>6. CASE RefuseEntry
    BY <1>6, EmptyMap
    DEF RefuseEntry, Close, tables, TypeOK, AllKeyed, Keyed, ReadInv, OptionsInv
  <1>7. CASE EndOfTable
    BY <1>7, EmptyMap
    DEF EndOfTable, Close, TypeOK, AllKeyed, Keyed, ReadInv, OptionsInv
  <1>8. CASE ConstructStations
    BY <1>8 DEF ConstructStations, Idle, TypeOK, AllKeyed, ReadInv, OptionsInv
  <1>9. CASE SetStationCorrections
    <2>1. UNCHANGED <<file, next, stationsSet, mCorrections, stations, calculator>>
      BY <1>9 DEF SetStationCorrections, Idle
    <2>2. outcome' \in {"done", "threw"}
      BY <1>9 DEF SetStationCorrections
    <2>3. \/ options' = options
          \/ /\ mCorrections # Empty
             /\ options' = [options EXCEPT !.mStationCorrections = mCorrections,
                                           !.mHasStationCorrections = TRUE]
      BY <1>9 DEF SetStationCorrections
    <2>4. options' \in Options
      BY <2>3 DEF TypeOK, Options
    <2>5. Keyed(options'.mStationCorrections)
      BY <2>3 DEF TypeOK, Options, AllKeyed
    <2>6. options'.mHasStationCorrections => options'.mStationCorrections # Empty
      BY <2>3 DEF TypeOK, Options, OptionsInv
    <2>. QED
      BY <2>1, <2>2, <2>4, <2>5, <2>6 DEF TypeOK, AllKeyed, ReadInv, OptionsInv
  <1>10. CASE ConstructCalculator
    <2>1. UNCHANGED <<file, next, stationsSet, mCorrections, stations, options>>
      BY <1>10 DEF ConstructCalculator, Idle
    <2>2. outcome' \in {"done", "threw"}
      BY <1>10 DEF ConstructCalculator
    <2>3. calculator' = calculator \/ (Valid(options) /\ calculator' = options)
      BY <1>10 DEF ConstructCalculator
    <2>4. TypeOK' /\ AllKeyed' /\ ReadInv'
      BY <2>1, <2>2, <2>3 DEF TypeOK, AllKeyed, ReadInv
    <2>5. OptionsInv'
      BY <2>1, <2>3 DEF OptionsInv, Valid
    <2>. QED
      BY <2>4, <2>5
  <1>11. ASSUME NEW d \in Distances, SetDistanceCorrections(d)
         PROVE  IInv'
    <2>1. UNCHANGED <<file, next, stationsSet, mCorrections, stations, calculator>>
      BY <1>11 DEF SetDistanceCorrections, Idle
    <2>2. outcome' = "done" /\ options' = [options EXCEPT !.mDistanceCorrections = d]
      BY <1>11 DEF SetDistanceCorrections
    <2>3. /\ options' \in Options
          /\ options'.mStationCorrections = options.mStationCorrections
          /\ options'.mHasStationCorrections = options.mHasStationCorrections
      BY <2>2 DEF TypeOK, Options
    <2>. QED
      BY <2>1, <2>2, <2>3 DEF TypeOK, AllKeyed, ReadInv, OptionsInv
  <1>12. ASSUME NEW m \in Minima, SetMinimumNumberOfStationMagnitudes(m)
         PROVE  IInv'
    <2>1. UNCHANGED <<file, next, stationsSet, mCorrections, stations, calculator>>
      BY <1>12 DEF SetMinimumNumberOfStationMagnitudes, Idle
    <2>2. outcome' \in {"done", "threw"}
      BY <1>12 DEF SetMinimumNumberOfStationMagnitudes
    <2>3. \/ options' = options
          \/ /\ m \in Nat \ {0}
             /\ options' = [options EXCEPT !.mMinimumNumberOfStationMagnitudes = m]
      BY <1>12, OptionsAssumption DEF SetMinimumNumberOfStationMagnitudes
    <2>4. /\ options' \in Options
          /\ options'.mStationCorrections = options.mStationCorrections
          /\ options'.mHasStationCorrections = options.mHasStationCorrections
      BY <2>3 DEF TypeOK, Options
    <2>. QED
      BY <2>1, <2>2, <2>4 DEF TypeOK, AllKeyed, ReadInv, OptionsInv
  <1>13. CASE UNCHANGED vars
    BY <1>13 DEF vars, TypeOK, AllKeyed, ReadInv, OptionsInv
  <1>. QED
    BY <1>1, <1>2, <1>3, <1>4, <1>5, <1>6, <1>7, <1>8, <1>9, <1>10, <1>11, <1>12, <1>13
    DEF Next

\* The invariant holds throughout.
LEMMA Invariance == Spec => []IInv
  BY InitInv, NextInv, PTL DEF Spec

-----------------------------------------------------------------------------

(***************************************************************************)
(* Safety                                                                  *)
(***************************************************************************)

\* The set, its copies, the options and the calculator keep their types, whatever the
\* stations, the spellings and the files.
THEOREM TypeCorrect == Spec => []TypeOK
  <1>1. IInv => TypeOK
    BY DEF IInv
  <1>. QED
    BY <1>1, Invariance, PTL

\* A map whose elements are under their own names answers for every station.
LEMMA KeyedAnswersOwn ==
    ASSUME DistinctNames, NEW map \in Maps, Keyed(map)
    PROVE  AnswersOwn(map)
  <1>. SUFFICES ASSUME NEW s \in Spellings, Identify[s] # Invalid
                PROVE  \/ \E n \in DOMAIN map : /\ map[n].station = Identify[s]
                                                /\ LookUp(map, s) = Found(map[n].correction)
                       \/ /\ LookUp(map, s) = Failed("StationDoesNotExist")
                          /\ \A n \in DOMAIN map : map[n].station # Identify[s]
    BY DEF AnswersOwn
  <1>. DEFINE name == toString(Identify[s])
  <1>1. Identify[s] \in Stations /\ name # ""
    BY SpellingsAssumption, NamesAssumption
  <1>2. LookUp(map, s) = LookUpName(map, name)
    BY DEF LookUp
  <1>3. CASE name \in DOMAIN map
    <2>1. LookUp(map, s) = Found(map[name].correction)
      BY <1>1, <1>2, <1>3 DEF LookUpName
    <2>2. map[name].station \in Stations
      BY <1>3, MapsElements DEF Element
    <2>3. map[name].station = Identify[s]
      BY <1>1, <1>3, <2>2 DEF Keyed, DistinctNames
    <2>. QED
      BY <1>3, <2>1, <2>3
  <1>4. CASE name \notin DOMAIN map
    <2>1. LookUp(map, s) = Failed("StationDoesNotExist")
      BY <1>1, <1>2, <1>4 DEF LookUpName
    <2>2. \A n \in DOMAIN map : map[n].station # Identify[s]
      BY <1>4 DEF Keyed
    <2>. QED
      BY <2>1, <2>2
  <1>. QED
    BY <1>3, <1>4

\* If no two stations share a name, every lookup answers for the station asked for.
THEOREM OwnStation ==
    ASSUME DistinctNames
    PROVE  Spec => []AnswersItsOwnStation
  <1>1. IInv => AnswersItsOwnStation
    <2>. SUFFICES ASSUME IInv PROVE AnswersItsOwnStation
      OBVIOUS
    <2>1. AnswersOwn(stations)
      BY KeyedAnswersOwn DEF IInv, TypeOK, AllKeyed
    <2>2. calculator # NoCalculator => AnswersOwn(calculator.mStationCorrections)
      BY KeyedAnswersOwn DEF IInv, TypeOK, Options, AllKeyed
    <2>. QED
      BY <2>1, <2>2 DEF AnswersItsOwnStation
  <1>. QED
    BY <1>1, Invariance, PTL

\* Whatever options were set, in any order, a calculator has what it needs.
THEOREM CalculatorComplete == Spec => []CalculatorIsComplete
  <1>1. IInv => CalculatorIsComplete
    <2>. SUFFICES ASSUME IInv, calculator # NoCalculator
                  PROVE  /\ DOMAIN calculator.mStationCorrections # {}
                         /\ calculator.mDistanceCorrections \in Distances
                         /\ calculator.mMinimumNumberOfStationMagnitudes >= 1
      BY DEF CalculatorIsComplete
    <2>1. calculator \in Options
      BY DEF IInv, TypeOK
    <2>2. calculator.mStationCorrections \in Maps /\ calculator.mStationCorrections # Empty
      BY <2>1 DEF IInv, OptionsInv, Options
    <2>3. calculator.mDistanceCorrections \in Distances
      BY <2>1 DEF IInv, OptionsInv, Options, Valid
    <2>4. calculator.mMinimumNumberOfStationMagnitudes \in Nat \ {0}
      BY <2>1 DEF Options
    <2>5. DOMAIN calculator.mStationCorrections # {}
      BY <2>2, EmptyMap
    <2>6. calculator.mMinimumNumberOfStationMagnitudes >= 1
      BY <2>4
    <2>. QED
      BY <2>3, <2>5, <2>6
  <1>. QED
    BY <1>1, Invariance, PTL

-----------------------------------------------------------------------------

(***************************************************************************)
(* Refinement                                                              *)
(***************************************************************************)

\* In a keyed map a station's correction is the one under its name.
LEMMA TableIsByName ==
    ASSUME DistinctNames, NEW m \in Maps, Keyed(m), NEW s \in Stations
    PROVE  TableOf(m)[s] = IF toString(s) \in DOMAIN m
                           THEN m[toString(s)].correction ELSE NoCorrection
  <1>1. \A n \in DOMAIN m : m[n].station = s <=> n = toString(s)
    <2>. TAKE n \in DOMAIN m
    <2>1. toString(m[n].station) = n /\ m[n].station \in Stations
      BY MapsElements DEF Keyed, Element
    <2>. QED
      BY <2>1 DEF DistinctNames
  <1>2. CASE toString(s) \in DOMAIN m
    <2>1. (CHOOSE n \in DOMAIN m : m[n].station = s) = toString(s)
      BY <1>1, <1>2
    <2>. QED
      BY <1>1, <1>2, <2>1 DEF TableOf
  <1>3. CASE toString(s) \notin DOMAIN m
    BY <1>1, <1>3 DEF TableOf
  <1>. QED
    BY <1>2, <1>3

\* A table holds corrections.
LEMMA TableType ==
    ASSUME DistinctNames, NEW m \in Maps, Keyed(m)
    PROVE  TableOf(m) \in [Stations -> Corrections \cup {NoCorrection}]
  <1>1. ASSUME NEW s \in Stations
        PROVE  TableOf(m)[s] \in Corrections \cup {NoCorrection}
    BY TableIsByName, MapsElements DEF Element
  <1>. QED
    BY <1>1 DEF TableOf

\* The numbers the abstract table lists are those the loop gets to.
LEMMA ListedBeforeNext ==
    ASSUME IInv, file # NoFile
    PROVE  /\ 1..(next - 1) \subseteq StationTable!Listed(file)
           /\ HasEntry => next \in StationTable!Listed(file)
           /\ ~HasEntry => StationTable!Listed(file) = 1..(next - 1)
  <1>1. next \in Nat \ {0} /\ LastEntry \in Nat /\ DOMAIN file \subseteq Nat \ {0}
    BY FilesAssumption DEF IInv, TypeOK
  <1>2. \A i \in 1..(next - 1) : i \in DOMAIN file /\ i <= LastEntry
    BY DEF IInv, ReadInv
  <1>3. 1..(next - 1) \subseteq StationTable!Listed(file)
    <2>. SUFFICES ASSUME NEW i \in 1..(next - 1) PROVE i \in StationTable!Listed(file)
      OBVIOUS
    <2>1. \A j \in 1..i : j \in 1..(next - 1)
      BY <1>1
    <2>. QED
      BY <1>1, <1>2, <2>1 DEF StationTable!Listed
  <1>4. ASSUME HasEntry PROVE next \in StationTable!Listed(file)
    <2>1. \A j \in 1..next : j \in 1..(next - 1) \/ j = next
      BY <1>1
    <2>. QED
      BY <1>1, <1>2, <1>4, <2>1 DEF StationTable!Listed, HasEntry
  <1>5. ASSUME ~HasEntry PROVE StationTable!Listed(file) \subseteq 1..(next - 1)
    <2>. SUFFICES ASSUME NEW i \in StationTable!Listed(file), i \notin 1..(next - 1)
                  PROVE  FALSE
      OBVIOUS
    <2>1. i \in Nat \ {0} /\ i <= LastEntry /\ \A j \in 1..i : j \in DOMAIN file
      BY <1>1 DEF StationTable!Listed
    <2>2. next \in 1..i /\ next <= LastEntry
      BY <1>1, <2>1
    <2>. QED
      BY <1>5, <2>1, <2>2 DEF HasEntry
  <1>. QED
    BY <1>3, <1>4, <1>5

\* An entry names a station and a correction exactly if it is good.
LEMMA GoodEntryIsEntry ==
    ASSUME NEW e \in Entries
    PROVE  /\ GoodEntry(e) <=> EntryOf(e) \in Stations \X Corrections
           /\ GoodEntry(e) => /\ EntryOf(e) = <<Identify[e.spelling], e.correction>>
                              /\ Identify[e.spelling] \in Stations
                              /\ e.correction \in Corrections
  <1>1. e.spelling \in Spellings /\ e.correction \in Corrections \cup {NoNumber}
    BY DEF Entries
  <1>2. Identify[e.spelling] \in Stations \cup {Invalid} /\ Invalid \notin Stations
    BY <1>1, SpellingsAssumption
  <1>3. NoNumber \notin Corrections
    BY CorrectionsAssumption
  <1>. QED
    BY <1>1, <1>2, <1>3 DEF GoodEntry, EntryOf

\* Inserting under a name changes the table for that station only.
LEMMA InsertRefines ==
    ASSUME DistinctNames, IInv,
           NEW sp \in Spellings, NEW c \in Corrections, NEW o \in BOOLEAN, Insert(sp, c, o)
    PROVE  StationTable!Insert(Identify[sp], c, o)
  <1>. DEFINE e == Station(sp, c)
              s == Identify[sp]
              r == insert_or_assign(mCorrections, toString(s), e)
  <1>1. s \in Stations /\ e \in Element /\ getName(e) = toString(s)
    BY StationElement, SpellingsAssumption DEF Insert
  <1>2. mCorrections \in Maps /\ Keyed(mCorrections)
    BY DEF IInv, TypeOK, AllKeyed
  <1>3. toString(s) \in DOMAIN mCorrections <=> TableOf(mCorrections)[s] # NoCorrection
    <2>1. toString(s) \in DOMAIN mCorrections =>
              mCorrections[toString(s)].correction \in Corrections
      BY <1>2, MapsElements DEF Element
    <2>. QED
      BY <1>1, <1>2, <2>1, TableIsByName, CorrectionsAssumption
  <1>4. CASE toString(s) \in DOMAIN mCorrections /\ ~o
    BY <1>1, <1>3, <1>4 DEF Insert, StationTable!Insert
  <1>5. CASE ~(toString(s) \in DOMAIN mCorrections /\ ~o)
    <2>1. mCorrections' = r /\ outcome' = "true"
      BY <1>1, <1>5 DEF Insert
    <2>2. /\ r \in Maps /\ Keyed(r)
          /\ DOMAIN r = DOMAIN mCorrections \cup {toString(s)}
          /\ r[toString(s)] = e
          /\ \A n \in DOMAIN mCorrections : n # toString(s) => r[n] = mCorrections[n]
      BY <1>1, <1>2, InsertKeyed
    <2>3. ASSUME NEW t \in Stations
          PROVE  TableOf(r)[t] = IF t = s THEN c ELSE TableOf(mCorrections)[t]
      <3>1. CASE t = s
        BY <1>1, <2>2, <3>1, TableIsByName DEF Station
      <3>2. CASE t # s
        <4>1. toString(t) # toString(s)
          BY <1>1, <3>2 DEF DistinctNames
        <4>. QED
          BY <1>2, <2>2, <3>2, <4>1, TableIsByName
      <3>. QED
        BY <3>1, <3>2
    <2>4. TableOf(r) = [TableOf(mCorrections) EXCEPT ![s] = c]
      BY <2>3 DEF TableOf
    <2>. QED
      BY <1>3, <1>5, <2>1, <2>4 DEF StationTable!Insert
  <1>. QED
    BY <1>4, <1>5

\* When the loop ends, every listed entry is good, no two are for one station, and
\* the set is their table.
LEMMA EndRefines ==
    ASSUME DistinctNames, IInv, EndOfTable
    PROVE  StationTable!Load(file)
  <1>1. /\ file \in Files /\ file # NoFile
        /\ StationTable!Listed(file) = 1..(next - 1)
        /\ mCorrections' = stationsSet /\ outcome' = "loaded"
    BY ListedBeforeNext DEF EndOfTable, IInv, TypeOK
  <1>2. stationsSet \in Maps /\ Keyed(stationsSet)
    BY DEF IInv, TypeOK, AllKeyed
  <1>3. ASSUME NEW i \in 1..(next - 1)
        PROVE  /\ EntryOf(file[i]) = <<Identify[file[i].spelling], file[i].correction>>
               /\ EntryOf(file[i]) \in Stations \X Corrections
               /\ Identify[file[i].spelling] \in Stations
               /\ NameOf(file[i]) \in DOMAIN stationsSet
               /\ stationsSet[NameOf(file[i])] = Added(file[i])
    <2>1. /\ i \in DOMAIN file /\ GoodEntry(file[i])
          /\ NameOf(file[i]) \in DOMAIN stationsSet
          /\ stationsSet[NameOf(file[i])] = Added(file[i])
      BY <1>1 DEF IInv, ReadInv
    <2>2. file[i] \in Entries
      BY <1>1, <2>1, FilesAssumption
    <2>. QED
      BY <2>1, <2>2, GoodEntryIsEntry
  <1>4. StationTable!Loadable(file)
    <2>1. \A i, j \in 1..(next - 1) : EntryOf(file[i])[1] = EntryOf(file[j])[1] => i = j
      BY <1>1, <1>3 DEF IInv, ReadInv, NameOf
    <2>. QED
      BY <1>1, <1>3, <2>1 DEF StationTable!Loadable
  <1>5. ASSUME NEW s \in Stations, TableOf(stationsSet)[s] # NoCorrection
        PROVE  \E i \in 1..(next - 1) : EntryOf(file[i]) = <<s, TableOf(stationsSet)[s]>>
    <2>1. /\ toString(s) \in DOMAIN stationsSet
          /\ TableOf(stationsSet)[s] = stationsSet[toString(s)].correction
      BY <1>2, <1>5, TableIsByName
    <2>2. PICK i \in 1..(next - 1) : stationsSet[toString(s)] = Added(file[i])
      BY <1>1, <2>1 DEF IInv, ReadInv
    <2>3. /\ stationsSet[toString(s)].correction = file[i].correction
          /\ stationsSet[toString(s)].station = Identify[file[i].spelling]
      BY <2>2 DEF Added, Station
    <2>4. Identify[file[i].spelling] = s
      BY <1>2, <1>3, <2>1, <2>3 DEF Keyed, DistinctNames
    <2>. QED
      BY <1>3, <2>1, <2>3, <2>4
  <1>6. ASSUME NEW i \in 1..(next - 1)
        PROVE  TableOf(stationsSet)[EntryOf(file[i])[1]] = EntryOf(file[i])[2]
    <2>1. stationsSet[NameOf(file[i])] = Added(file[i])
      BY <1>3
    <2>2. Added(file[i]).correction = file[i].correction
      BY DEF Added, Station
    <2>. QED
      BY <1>2, <1>3, <2>1, <2>2, TableIsByName DEF NameOf
  <1>7. StationTable!IsTableOf(TableOf(stationsSet), file)
    BY <1>1, <1>5, <1>6 DEF StationTable!IsTableOf
  <1>. QED
    BY <1>1, <1>2, <1>4, <1>7, TableType DEF StationTable!Load

\* The entry that ends the loop early is bad, or names a station once more.
LEMMA RefuseRefines ==
    ASSUME DistinctNames, IInv, RefuseEntry
    PROVE  StationTable!Load(file)
  <1>. DEFINE e == file[next]
  <1>1. /\ file \in Files /\ file # NoFile /\ next \in DOMAIN file
        /\ next \in StationTable!Listed(file)
        /\ 1..(next - 1) \subseteq StationTable!Listed(file)
        /\ next \in Nat
    BY ListedBeforeNext DEF RefuseEntry, HasEntry, IInv, TypeOK
  <1>2. e \in Entries
    BY <1>1, FilesAssumption
  <1>3. mCorrections' = mCorrections /\ outcome' = "notLoaded"
    BY DEF RefuseEntry, tables
  <1>4. CASE ~GoodEntry(e)
    BY <1>1, <1>2, <1>3, <1>4, GoodEntryIsEntry DEF StationTable!Load, StationTable!Loadable
  <1>5. CASE GoodEntry(e)
    <2>1. NameOf(e) \in DOMAIN stationsSet
      BY <1>2, <1>5, EntryElement DEF RefuseEntry, EntryAdds, GoodEntry, Added
    <2>2. PICK i \in 1..(next - 1) : stationsSet[NameOf(e)] = Added(file[i])
      BY <1>1, <2>1 DEF IInv, ReadInv
    <2>3. i \in DOMAIN file /\ GoodEntry(file[i]) /\ file[i] \in Entries
      BY <1>1, <2>2, FilesAssumption DEF IInv, ReadInv
    <2>4. /\ Identify[file[i].spelling] \in Stations
          /\ Identify[e.spelling] \in Stations
          /\ EntryOf(file[i])[1] = Identify[file[i].spelling]
          /\ EntryOf(e)[1] = Identify[e.spelling]
      BY <1>2, <1>5, <2>3, GoodEntryIsEntry
    <2>5. toString(Identify[file[i].spelling]) = toString(Identify[e.spelling])
      <3>1. stationsSet[NameOf(e)].station = Identify[file[i].spelling]
        BY <2>2 DEF Added, Station
      <3>2. toString(stationsSet[NameOf(e)].station) = NameOf(e)
        BY <2>1 DEF IInv, AllKeyed, Keyed
      <3>. QED
        BY <3>1, <3>2 DEF NameOf
    <2>6. EntryOf(file[i])[1] = EntryOf(e)[1]
      BY <2>4, <2>5 DEF DistinctNames
    <2>7. i # next /\ i \in StationTable!Listed(file)
      BY <1>1
    <2>. QED
      BY <1>1, <1>3, <2>6, <2>7 DEF StationTable!Load, StationTable!Loadable
  <1>. QED
    BY <1>4, <1>5

\* Initial states map to initial states.
LEMMA InitRefines ==
    ASSUME DistinctNames, Init
    PROVE  StationTable!Init
  <1>1. \A s \in Stations : TableOf(mCorrections)[s] = NoCorrection
    BY EmptyMap, TableIsByName DEF Init, Keyed
  <1>. QED
    BY <1>1 DEF Init, StationTable!Init, TableOf

\* Every step maps to a step or to a stutter.
LEMMA StepRefines ==
    ASSUME DistinctNames, IInv, [Next]_vars
    PROVE  [StationTable!Next]_<<TableOf(mCorrections), outcome>>
  <1>1. ASSUME NEW s \in Spellings, NEW c \in Corrections, NEW o \in BOOLEAN, Insert(s, c, o)
        PROVE  StationTable!Next
    <2>1. Identify[s] \in Stations
      BY <1>1, SpellingsAssumption DEF Insert
    <2>. QED
      BY <1>1, <2>1, InsertRefines DEF StationTable!Next
  <1>2. CASE EndOfTable \/ RefuseEntry
    <2>1. file \in Files
      BY <1>2 DEF EndOfTable, RefuseEntry, HasEntry, IInv, TypeOK
    <2>. QED
      BY <1>2, <2>1, EndRefines, RefuseRefines DEF StationTable!Next
  <1>3. ASSUME mCorrections' = mCorrections, outcome' \in {"done", "threw"}
        PROVE  StationTable!Next
    BY <1>3 DEF StationTable!Next, StationTable!Use
  <1>4. ASSUME mCorrections' = mCorrections, outcome' = outcome
        PROVE  [StationTable!Next]_<<TableOf(mCorrections), outcome>>
    BY <1>4
  <1>5. ASSUME NEW s \in Spellings, InsertInvalid(s)
        PROVE  StationTable!Next
    BY <1>3, <1>5 DEF InsertInvalid, tables
  <1>6. ASSUME NEW d \in Distances, SetDistanceCorrections(d)
        PROVE  StationTable!Next
    BY <1>3, <1>6 DEF SetDistanceCorrections
  <1>7. ASSUME NEW m \in Minima, SetMinimumNumberOfStationMagnitudes(m)
        PROVE  StationTable!Next
    BY <1>3, <1>7 DEF SetMinimumNumberOfStationMagnitudes
  <1>8. CASE FileMissing \/ ConstructStations \/ SetStationCorrections \/ ConstructCalculator
    <2>1. mCorrections' = mCorrections /\ outcome' \in {"done", "threw"}
      BY <1>8
      DEF FileMissing, ConstructStations, SetStationCorrections, ConstructCalculator, tables
    <2>. QED
      BY <1>3, <2>1
  <1>9. ASSUME NEW f \in Files, OpenFile(f)
        PROVE  [StationTable!Next]_<<TableOf(mCorrections), outcome>>
    BY <1>4, <1>9 DEF OpenFile, tables
  <1>10. CASE ReadEntry \/ UNCHANGED vars
    BY <1>4, <1>10 DEF ReadEntry, tables, vars
  <1>. QED
    BY <1>1, <1>2, <1>5, <1>6, <1>7, <1>8, <1>9, <1>10 DEF Next

\* If no two stations share a name, a StationsSet is a StationTable: what names it uses,
\* in which order it was filled, and that files are read one entry at a time is not to
\* be seen.
THEOREM Implements ==
    ASSUME DistinctNames
    PROVE  Spec => ImplementsTable
  <1>1. Init => StationTable!Init
    BY InitRefines
  <1>2. IInv /\ [Next]_vars => [StationTable!Next]_<<TableOf(mCorrections), outcome>>
    BY StepRefines
  <1>. QED
    BY <1>1, <1>2, Invariance, PTL DEF Spec, ImplementsTable, StationTable!Spec

=============================================================================
