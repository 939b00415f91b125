--------------------------- MODULE MCMeasurements ---------------------------
(***************************************************************************)
(* Streams of one station in several spellings, of another one, and of one  *)
(* whose codes have dots in them, in measurements with everything a client  *)
(* may leave out or get wrong.                                              *)
(***************************************************************************)
EXTENDS Measurements, Sequences

MCCodes == {"", " ", "UU", "uu", "UU.S", "CWU", "S.CWU", "HHE", "hhe", "HHN", "ENN",
            "01", "0 1", "HH", "EN"}

MCTidy == [c \in MCCodes |-> CASE c = " " -> "" [] c = "uu" -> "UU" [] c = "hhe" -> "HHE"
                               [] c = "0 1" -> "01" [] OTHER -> c]

MCJoin(a, b) == a \o "." \o b

MCInstrument == [c \in MCCodes |-> CASE c \in {"HHE", "HHN"} -> "HH"
                                     [] c = "ENN" -> "EN" [] OTHER -> ""]

MCDotted == {"UU.S", "S.CWU"}

MCWritten == [network |-> {" ", "uu"}, station |-> {"CWU"}, channel |-> {"hhe"},
              location |-> {"0 1"}]

Stream(network, station, channel, location) ==
    [network |-> network, station |-> station, channel |-> channel, location_code |-> location]
Millimeters(stream) ==
    [stream_identifier |-> stream, value |-> 10, units |-> "UNITS_MILLIMETERS"]
Here == [latitude |-> 40, longitude |-> -111]
Measurement(a, b) ==
    [amplitude_stream_1 |-> a, amplitude_stream_2 |-> b, station_location |-> Here]

East == Millimeters(Stream("uu", "CWU", "hhe", "01"))
North == [stream_identifier |-> Stream("UU", "CWU", "HHN", "0 1"),
          value |-> 1, units |-> "UNITS_CENTIMETERS"]

Pairs ==
    {Measurement(East, North), Measurement(East, East),
     Measurement(East, Millimeters(Stream("UU", "CWU", "HHN", Absent))),
     Measurement(East, Millimeters(Stream("UU", "CWU", "ENN", "01"))),
     Measurement(East, Millimeters(Stream("UU", "S.CWU", "HHN", "01"))),
     Measurement(Millimeters(Stream("UU.S", "CWU", "HHE", "01")),
                 Millimeters(Stream("UU", "S.CWU", "HHN", "01")))}
Amiss ==
    {Measurement(East, [North EXCEPT !.value = v]) : v \in {NotFinite, 0}} \cup
    {Measurement(East, [North EXCEPT !.units = u]) : u \in {Absent, "UNITS_UNSPECIFIED"}} \cup
    {Measurement(East, [North EXCEPT !.value = 6, !.units = "UNITS_METERS"]),
     Measurement(East, [North EXCEPT !.stream_identifier = Absent]),
     Measurement(East, Millimeters(Stream("UU", Absent, "HHN", "01"))),
     Measurement(Absent, North), Measurement(East, Absent)} \cup
    {[Measurement(East, North) EXCEPT !.station_location = l] :
        l \in {Absent, [Here EXCEPT !.latitude = 91], [Here EXCEPT !.longitude = NotFinite]}}

MCMeasured == Pairs \cup Amiss

\* By themselves, those that are amiss and streams of one station.
MCSentAmplitudes ==
    {East, North, Millimeters(Stream("UU", "CWU", "HHN", Absent))} \cup
    ({m.amplitude_stream_2 : m \in Amiss} \ {Absent})
MCSentIdentifiers ==
    {East.stream_identifier, Stream("UU", Absent, "HHN", "01")}

\* The longitude comes to 40 degrees, as that of the setters does.
Focus == [latitude |-> 40, longitude |-> 400, depth |-> -8600]
MCHypocenters ==
    {Focus, [Focus EXCEPT !.latitude = Absent], [Focus EXCEPT !.depth = NotFinite],
     [Focus EXCEPT !.depth = -8601], [Focus EXCEPT !.depth = 900001]}
MCDegrees == {-91, 40, NotFinite}
MCDepths == {-8601, -8600, NotFinite}
MCDistances == {-1, 21000000, 21000001, NotFinite}

=============================================================================
