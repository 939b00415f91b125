------------------------- MODULE StationCorrections -------------------------
(***************************************************************************)
(* The station corrections from the initialization file to the calculator: *)
(* a StationsSet that is filled by hand or from a file, the Stations that   *)
(* are looked up, the NetworkMagnitudeCalculatorOptions, and the            *)
(* calculators a NetworkMagnitudeCalculator is constructed with.            *)
(***************************************************************************)
EXTENDS Integers, Sequences

CONSTANTS
    Stations,      \* pairs of a network and a station code
    Spellings,     \* the ways a user writes a station
    Identify,      \* blanks removed and capitalized: the station a spelling is
    Invalid,       \* ... or none, when the network or the station is empty
    Corrections,   \* what std::stod reads, "nan" and "inf" included
    NoNumber,      \* text that std::stod does not read, or not to its end
    Files,         \* the initialization files that may be loaded
    NoFile,
    LastEntry,     \* 65534, the last entry that is looked for
    Distances,     \* constructed distance corrections
    NoDistance,
    Minima,        \* arguments of setMinimumNumberOfStationMagnitudes
    NoCalculator,
    NoCorrection

toString(s) == s.network \o "." \o s.station

Names == {toString(s) : s \in Stations}

\* An entry splits into a station and a number (wellFormed) or it does not.
\* Any number from 1 on may be missing from a file.
Entries ==
    [wellFormed : BOOLEAN, spelling : Spellings, correction : Corrections \cup {NoNumber}]

ASSUME NamesAssumption == \A s \in Stations : toString(s) # ""
ASSUME SpellingsAssumption ==
    Invalid \notin Stations /\ Identify \in [Spellings -> Stations \cup {Invalid}]
ASSUME CorrectionsAssumption == Corrections \cap {NoNumber, NoCorrection} = {}
ASSUME FilesAssumption ==
    /\ NoFile \notin Files
    /\ \A f \in Files : DOMAIN f \subseteq Nat \ {0} /\ f \in [DOMAIN f -> Entries]
    /\ LastEntry \in Nat
ASSUME OptionsAssumption == Minima \subseteq Int /\ NoDistance \notin Distances

VARIABLES
    mCorrections,  \* the map of a StationsSet: name -> station and correction
    file,          \* the file fromInitializationFile is reading, or NoFile
    next,          \* the number of the entry it reads next
    stationsSet,   \* the set it has read so far
    stations,      \* the map of the Stations last constructed, empty before
    options,       \* the options of the network magnitude calculator
    calculator,    \* the options a calculator was constructed with: it has
                   \* one station calculator for each station, by name
    outcome        \* how the last operation ended

tables == <<mCorrections, stations, options, calculator>>
vars == <<mCorrections, file, next, stationsSet, stations, options, calculator, outcome>>

Empty == [n \in {} |-> NoCorrection]

Maps == UNION {[N -> [station : Stations, correction : Corrections]] : N \in SUBSET Names}

Options == [mStationCorrections : Maps, mHasStationCorrections : BOOLEAN,
            mDistanceCorrections : Distances \cup {NoDistance},
            mMinimumNumberOfStationMagnitudes : Nat \ {0}]

Init ==
    /\ mCorrections = Empty
    /\ file = NoFile
    /\ next = 1
    /\ stationsSet = Empty
    /\ stations = Empty
    /\ options = [mStationCorrections |-> Empty, mHasStationCorrections |-> FALSE,
                  mDistanceCorrections |-> NoDistance,
                  mMinimumNumberOfStationMagnitudes |-> 2]
    /\ calculator = NoCalculator
    /\ outcome = "done"

\* No operation is called while fromInitializationFile runs.
Idle == file = NoFile /\ UNCHANGED <<file, next, stationsSet>>

-----------------------------------------------------------------------------

(***************************************************************************)
(* StationsSet                                                             *)
(***************************************************************************)
insert_or_assign(map, name, element) ==
    [n \in DOMAIN map \cup {name} |-> IF n = name THEN element ELSE map[n]]

\* A Station is constructed from an identifier and a correction.
Station(spelling, c) == [station |-> Identify[spelling], correction |-> c]

\* Mutant of getName: the station code without the network.
getNameStationOnly(station) == station.station.station

getName(station) == toString(station.station)

Insert(spelling, c, overwrite) ==
    /\ Idle
    /\ Identify[spelling] # Invalid
    /\ LET station == Station(spelling, c)
           name == getName(station)
       IN  IF name \in DOMAIN mCorrections /\ ~overwrite
           THEN outcome' = "false" /\ UNCHANGED mCorrections
           ELSE /\ mCorrections' = insert_or_assign(mCorrections, name, station)
                /\ outcome' = "true"
    /\ UNCHANGED <<stations, options, calculator>>

\* Without a network or a station there is no identifier to insert under.
InsertInvalid(spelling) ==
    /\ Idle
    /\ Identify[spelling] = Invalid
    /\ outcome' = "threw"
    /\ UNCHANGED tables

\* fromInitializationFile
OpenFile(f) ==
    /\ file = NoFile
    /\ file' = f
    /\ next' = 1
    /\ stationsSet' = Empty
    /\ UNCHANGED <<tables, outcome>>

FileMissing ==
    /\ Idle
    /\ outcome' = "threw"
    /\ UNCHANGED tables

Close == file' = NoFile /\ next' = 1 /\ stationsSet' = Empty

HasEntry == file # NoFile /\ next \in DOMAIN file /\ next <= LastEntry

\* Mutant of EntryAdds: a correction for a station that is there replaces it.
EntryAddsTwice(e) ==
    /\ e.wellFormed
    /\ Identify[e.spelling] # Invalid
    /\ e.correction # NoNumber

\* The checks of one entry; the set must not have the station yet.
EntryAdds(e) ==
    /\ e.wellFormed
    /\ Identify[e.spelling] # Invalid
    /\ e.correction # NoNumber
    /\ getName(Station(e.spelling, e.correction)) \notin DOMAIN stationsSet

ReadEntry ==
    /\ HasEntry
    /\ EntryAdds(file[next])
    /\ LET station == Station(file[next].spelling, file[next].correction)
       IN  stationsSet' = insert_or_assign(stationsSet, getName(station), station)
    /\ next' = next + 1
    /\ UNCHANGED <<file, tables, outcome>>

RefuseEntry ==
    /\ HasEntry
    /\ ~EntryAdds(file[next])
    /\ outcome' = "notLoaded"
    /\ Close
    /\ UNCHANGED tables

\* The first number that is missing ends the table.
EndOfTable ==
    /\ file # NoFile
    /\ ~HasEntry
    /\ mCorrections' = stationsSet
    /\ outcome' = "loaded"
    /\ Close
    /\ UNCHANGED <<stations, options, calculator>>

-----------------------------------------------------------------------------

(***************************************************************************)
(* Stations, which are looked up by name or by identifier.                 *)
(***************************************************************************)
ConstructStations ==
    /\ Idle
    /\ IF mCorrections = Empty
       THEN outcome' = "threw" /\ UNCHANGED stations
       ELSE stations' = mCorrections /\ outcome' = "done"
    /\ UNCHANGED <<mCorrections, options, calculator>>

Found(c) == [correction |-> c]
Failed(code) == [error |-> code]

LookUpName(map, name) ==
    CASE name = "" -> Failed("InvalidStation")
      [] name \in DOMAIN map -> Found(map[name].correction)
      [] OTHER -> Failed("StationDoesNotExist")

\* An identifier without a network or a station has no name to look up.
LookUp(map, spelling) ==
    IF Identify[spelling] = Invalid
    THEN Failed("InvalidStation")
    ELSE LookUpName(map, toString(Identify[spelling]))

-----------------------------------------------------------------------------

(***************************************************************************)
(* NetworkMagnitudeCalculatorOptions and the calculator's construction.    *)
(***************************************************************************)

SetStationCorrections ==
    /\ Idle
    /\ IF mCorrections = Empty
       THEN outcome' = "threw" /\ UNCHANGED options
       ELSE /\ options' = [options EXCEPT !.mStationCorrections = mCorrections,
                                          !.mHasStationCorrections = TRUE]
            /\ outcome' = "done"
    /\ UNCHANGED <<mCorrections, stations, calculator>>

SetDistanceCorrections(d) ==
    /\ Idle
    /\ options' = [options EXCEPT !.mDistanceCorrections = d]
    /\ outcome' = "done"
    /\ UNCHANGED <<mCorrections, stations, calculator>>

SetMinimumNumberOfStationMagnitudes(minObs) ==
    /\ Idle
    /\ IF minObs < 1
       THEN outcome' = "threw" /\ UNCHANGED options
       ELSE /\ options' = [options EXCEPT !.mMinimumNumberOfStationMagnitudes = minObs]
            /\ outcome' = "done"
    /\ UNCHANGED <<mCorrections, stations, calculator>>

Valid(o) == o.mHasStationCorrections /\ o.mDistanceCorrections # NoDistance

\* One station calculator for each station correction, under its name.
ConstructCalculator ==
    /\ Idle
    /\ IF Valid(options)
       THEN calculator' = options /\ outcome' = "done"
       ELSE outcome' = "threw" /\ UNCHANGED calculator
    /\ UNCHANGED <<mCorrections, stations, options>>

Next ==
    \/ \E s \in Spellings, c \in Corrections, overwrite \in BOOLEAN : Insert(s, c, overwrite)
    \/ \E s \in Spellings : InsertInvalid(s)
    \/ \E f \in Files : OpenFile(f)
    \/ FileMissing \/ ReadEntry \/ RefuseEntry \/ EndOfTable
    \/ ConstructStations \/ SetStationCorrections \/ ConstructCalculator
    \/ \E d \in Distances : SetDistanceCorrections(d)
    \/ \E m \in Minima : SetMinimumNumberOfStationMagnitudes(m)

Spec == Init /\ [][Next]_vars

-----------------------------------------------------------------------------

\* Type correctness of the set, its copies, and the file being read.
TypeOK ==
    /\ {mCorrections, stationsSet, stations} \subseteq Maps
    /\ file \in Files \cup {NoFile}
    /\ next \in Nat \ {0}
    /\ options \in Options
    /\ calculator \in Options \cup {NoCalculator}
    /\ outcome \in {"true", "false", "loaded", "notLoaded", "done", "threw"}

\* A map answers for every station, however it is written, with a correction that
\* was given for that very station, and has none only if it was given none.
AnswersOwn(map) ==
    \A s \in Spellings : Identify[s] # Invalid =>
        \/ \E n \in DOMAIN map : /\ map[n].station = Identify[s]
                                /\ LookUp(map, s) = Found(map[n].correction)
        \/ /\ LookUp(map, s) = Failed("StationDoesNotExist")
           /\ \A n \in DOMAIN map : map[n].station # Identify[s]

\* So do the Stations, and so does getStationCorrection of the calculator.  The
\* station calculator found for an observation is the one for its station.
AnswersItsOwnStation ==
    /\ AnswersOwn(stations)
    /\ calculator # NoCalculator => AnswersOwn(calculator.mStationCorrections)

\* What the services are constructed with can compute: there is a station to compute
\* for, a distance correction, and a minimum that is at least one magnitude.
CalculatorIsComplete ==
    calculator # NoCalculator =>
        /\ DOMAIN calculator.mStationCorrections # {}
        /\ calculator.mDistanceCorrections \in Distances
        /\ calculator.mMinimumNumberOfStationMagnitudes >= 1

\* A StationsSet is a StationTable: its names, the order of insertions and the loop
\* over the entries of a file are not to be seen.
EntryOf(e) ==
    IF e.wellFormed THEN <<Identify[e.spelling], e.correction>> ELSE <<Invalid, NoNumber>>

TableOf(map) ==
    [s \in Stations |->
        IF \E n \in DOMAIN map : map[n].station = s
        THEN map[CHOOSE n \in DOMAIN map : map[n].station = s].correction
        ELSE NoCorrection]

StationTable == INSTANCE StationTable
    WITH table <- TableOf(mCorrections), answer <- outcome, Lists <- Files, Entry <- EntryOf

ImplementsTable == StationTable!Spec

=============================================================================
