---------------------------- MODULE StationTable ----------------------------
(***************************************************************************)
(* What a set of station corrections promises: at most one correction for  *)
(* each station, however the station is written and whatever name it is    *)
(* stored under.  A file is loaded as a whole or not at all.               *)
(***************************************************************************)
EXTENDS Naturals

CONSTANTS
    Stations,       \* the stations there are
    Corrections,    \* the corrections a station may have
    Lists,          \* the lists that may be loaded: number -> what it says
    Entry(_),       \* station and correction of an item of a list, if it has them
    LastEntry,      \* the last number looked for in a list
    NoCorrection

VARIABLES
    table,    \* the correction of each station
    answer    \* what the last operation answered

Init ==
    /\ table = [s \in Stations |-> NoCorrection]
    /\ answer = "done"

\* A station keeps the correction it has unless it is to be overwritten.
Insert(s, c, overwrite) ==
    IF overwrite \/ table[s] = NoCorrection
    THEN table' = [table EXCEPT ![s] = c] /\ answer' = "true"
    ELSE answer' = "false" /\ UNCHANGED table

\* The numbers from 1 up to the first that is missing.
Listed(l) == {i \in DOMAIN l : i <= LastEntry /\ \A j \in 1..i : j \in DOMAIN l}

\* Every listed item names a station and a correction, each station once.
Loadable(l) ==
    /\ \A i \in Listed(l) : Entry(l[i]) \in Stations \X Corrections
    /\ \A i, j \in Listed(l) : Entry(l[i])[1] = Entry(l[j])[1] => i = j

\* The listed corrections, and no others, replace the table.
IsTableOf(t, l) ==
    /\ \A s \in Stations :
          t[s] # NoCorrection => \E i \in Listed(l) : Entry(l[i]) = <<s, t[s]>>
    /\ \A i \in Listed(l) : t[Entry(l[i])[1]] = Entry(l[i])[2]

Load(l) ==
    IF Loadable(l)
    THEN /\ table' \in [Stations -> Corrections \cup {NoCorrection}]
         /\ IsTableOf(table', l)
         /\ answer' = "loaded"
    ELSE answer' = "notLoaded" /\ UNCHANGED table

\* Every other operation leaves the table alone.
Use == answer' \in {"done", "threw"} /\ UNCHANGED table

Next ==
    \/ \E s \in Stations, c \in Corrections, overwrite \in BOOLEAN : Insert(s, c, overwrite)
    \/ \E l \in Lists : Load(l)
    \/ Use

Spec == Init /\ [][Next]_<<table, answer>>

=============================================================================
