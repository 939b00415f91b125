------------------------ MODULE MCStationCorrections ------------------------
(***************************************************************************)
(* Two networks with a station code in common, written with and without a  *)
(* dot, in lower case, or without a network; files that load, and files    *)
(* broken in every way the reader looks for.                               *)
(***************************************************************************)
EXTENDS StationCorrections

\* "nan", which is read as a correction like any other
CONSTANT NotANumber

Station_(n, s) == [network |-> n, station |-> s]
CWU == Station_("UU", "CWU")
MCStations == {CWU, Station_("WY", "CWU")}
MCIdentify ==
    [s \in {"UU CWU", "uu.cwu", "WY CWU", ".CWU"} |->
        CASE s = "WY CWU" -> Station_("WY", "CWU")
          [] s = ".CWU" -> Invalid
          [] OTHER -> CWU]

Entry(s, c) == [wellFormed |-> TRUE, spelling |-> s, correction |-> c]
Malformed == [wellFormed |-> FALSE, spelling |-> "UU CWU", correction |-> NoNumber]

MCLastEntry == 3
MCFiles ==
    {<<>>,
     <<Entry("WY CWU", 1), Entry("uu.cwu", NotANumber)>>,
     [i \in {1, 3} |-> Entry(IF i = 1 THEN "UU CWU" ELSE "WY CWU", 1)],
     <<Entry("UU CWU", 1), Entry("uu.cwu", NotANumber)>>,
     <<Entry("UU CWU", 1), Malformed>>,
     <<Entry("WY CWU", NotANumber), Entry(".CWU", 1)>>,
     <<Entry("UU CWU", NoNumber), Entry("WY CWU", 1)>>,
     <<Entry("UU CWU", 1), Entry("WY CWU", 1), Malformed, Malformed>>}

=============================================================================
