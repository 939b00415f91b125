---------------------------- MODULE Measurements ----------------------------
(***************************************************************************)
(* A measurement from the request of a client to the Observation the       *)
(* calculators take: the stream identifiers, the two amplitudes, the        *)
(* location of the station and the hypocenter, built from messages or with  *)
(* setters.  The loops of MagnitudeService only know whether this works.    *)
(***************************************************************************)
EXTENDS Integers

CONSTANTS
    Codes,            \* texts of networks, stations, channels and locations
    Tidy,             \* a code without its blanks and capitalized
    Dotted,           \* the codes with a dot in them
    Join(_, _),       \* two texts with a dot between them
    Instrument,       \* a channel without its last letter
    Written,          \* the codes given to the setter of each member
    Values,           \* amplitudes
    MaxValue,         \* the largest finite amplitude
    Degrees,          \* latitudes and longitudes
    Depths,           \* in meters
    Distances,        \* arguments of setEpicentralDistance
    Geodesics,        \* what GeographicLib measures between two points
    Measured,         \* StationAmplitudeMeasurement messages
    SentAmplitudes,   \* messages in them that an Amplitude is constructed from by itself,
    SentIdentifiers,  \* and those that a StreamIdentifier is
    HypocenterMessages,
    NotFinite,        \* infinity and "nan"
    Absent,           \* a field that a message does not have
    Unset,            \* a member that was not set
    Thrown            \* what a constructor that throws returns

Blank == ""

\* In meters, positive down
MinDepth == -8600
MaxDepth == 900000
\* Half way round the earth, and more
MaxDistance == 21000000

ASSUME CodesAssumption ==
    /\ Blank \in Codes
    /\ Tidy \in [Codes -> Codes]
    /\ \A c \in Codes : Tidy[Tidy[c]] = Tidy[c]
    /\ Tidy[Blank] = Blank
    /\ Instrument \in [Codes -> Codes]
    /\ Written \in [{"network", "station", "channel", "location"} -> SUBSET Codes]
\* A dot is in a joined name once, unless it is in the codes: as soon as one of two
\* stations of that name has none, it can be told which codes were joined.
ASSUME JoinAssumption ==
    /\ Dotted \subseteq Codes
    /\ \A n, s \in Codes \ Dotted, m, t \in Codes :
          Join(n, s) = Join(m, t) => n = m /\ s = t
ASSUME NumbersAssumption ==
    /\ NotFinite \notin Int /\ MaxValue \in Nat
    /\ Values \subseteq Int \cup {NotFinite} /\ Degrees \subseteq Int \cup {NotFinite}
    /\ Depths \subseteq Int \cup {NotFinite} /\ Distances \subseteq Int \cup {NotFinite}
    /\ \A v \in Values \cap Int : v <= MaxValue
    /\ \A m \in HypocenterMessages :
          {m.latitude, m.longitude, m.depth} \subseteq Int \cup {NotFinite, Absent}
    /\ Geodesics \subseteq 0..MaxDistance
ASSUME MarksAssumption ==
    /\ Unset \notin Codes \cup Int /\ Absent \notin Codes \cup Int \cup {NotFinite}
    /\ Absent \notin [network : Codes, station : Codes, channel : Codes,
                      location_code : Codes]
    /\ Thrown \notin [network : Codes, station : Codes, channel : Codes, location : Codes]

\* A millimeter, a centimeter and a meter in millimeters
Scale == [UNITS_MILLIMETERS |-> 1, UNITS_CENTIMETERS |-> 10, UNITS_METERS |-> 1000]

VARIABLES
    identifier,   \* a StreamIdentifier
    amplitudes,   \* a pair of Amplitudes
    hypocenter,   \* a Hypocenter
    observation,  \* an Observation
    outcome       \* whether the last operation returned or threw

objects == <<identifier, amplitudes, hypocenter, observation>>
vars == <<identifier, amplitudes, hypocenter, observation, outcome>>

NewIdentifier == [network |-> Blank, station |-> Blank, channel |-> Blank, location |-> Unset]
NewAmplitude == [mValue |-> -1, mIdentifier |-> Unset]
NewHypocenter == [mLatitude |-> Unset, mLongitude |-> Unset, mDepth |-> Unset]
NewObservation == [mAmplitudes |-> Unset, mStationName |-> Unset,
                   mEpicentralDistance |-> Unset, mSourceDepth |-> Unset]

Init ==
    /\ identifier = NewIdentifier
    /\ amplitudes = [k \in {1, 2} |-> NewAmplitude]
    /\ hypocenter = NewHypocenter
    /\ observation = NewObservation
    /\ outcome = "done"

-----------------------------------------------------------------------------

(***************************************************************************)
(* What the setters take.                                                  *)
(***************************************************************************)
IsCode(c) == Tidy[c] # Blank
IsAmplitude(v) == v # NotFinite /\ v > 0
IsLatitude(d) == d # NotFinite /\ d >= -90 /\ d <= 90
IsLongitude(d) == d # NotFinite
IsDistance(d) == d # NotFinite /\ d >= 0 /\ d <= MaxDistance
IsDepth(z) == z # NotFinite /\ z >= MinDepth /\ z <= MaxDepth

\* Mutant of IsSourceDepth: the hypocenter may be as high as a satellite.
IsAnyDepth(z) == z # NotFinite /\ z <= MaxDepth

\* What Hypocenter takes; IsDepth is what Observation does.
IsSourceDepth(z) == z # NotFinite /\ z >= MinDepth /\ z <= MaxDepth

IsComplete(i) == i.network # Blank /\ i.station # Blank /\ i.channel # Blank
                     /\ i.location # Unset

StationName(i) == Join(i.network, i.station)
StreamName(i) ==
    LET name == Join(StationName(i), i.channel)
    IN  IF i.location = Blank THEN name ELSE Join(name, i.location)

\* Mutant of PairFits: a stream may be given twice.
PairFitsTwice(a, b) ==
    /\ a.mValue > 0 /\ b.mValue > 0
    /\ a.mIdentifier # Unset /\ b.mIdentifier # Unset
    /\ StationName(a.mIdentifier) = StationName(b.mIdentifier)
    /\ a.mIdentifier.location = b.mIdentifier.location
    /\ Instrument[a.mIdentifier.channel] = Instrument[b.mIdentifier.channel]

\* setAmplitudes takes them
PairFits(a, b) ==
    /\ a.mValue > 0 /\ b.mValue > 0
    /\ a.mIdentifier # Unset /\ b.mIdentifier # Unset
    /\ StreamName(a.mIdentifier) # StreamName(b.mIdentifier)
    /\ StationName(a.mIdentifier) = StationName(b.mIdentifier)
    /\ a.mIdentifier.location = b.mIdentifier.location
    /\ Instrument[a.mIdentifier.channel] = Instrument[b.mIdentifier.channel]

-----------------------------------------------------------------------------

(***************************************************************************)
(* The constructors that take a message: an object, or Thrown.             *)
(***************************************************************************)

IdentifierOf(m) ==
    IF \/ Absent \in {m.network, m.station, m.channel}
       \/ ~(IsCode(m.network) /\ IsCode(m.station) /\ IsCode(m.channel))
    THEN Thrown
    ELSE [network |-> Tidy[m.network], station |-> Tidy[m.station],
          channel |-> Tidy[m.channel],
          location |-> IF m.location_code = Absent THEN Blank ELSE Tidy[m.location_code]]

\* A product of doubles may leave the finite ones.
Times(v, factor) ==
    IF v = NotFinite \/ v * factor > MaxValue THEN NotFinite ELSE v * factor

AmplitudeOf(m) ==
    IF \/ Absent \in {m.value, m.units} \/ m.stream_identifier = Absent
       \/ m.units \notin DOMAIN Scale
       \/ ~IsAmplitude(Times(m.value, Scale[m.units]))
       \/ IdentifierOf(m.stream_identifier) = Thrown
    THEN Thrown
    ELSE [mValue |-> Times(m.value, Scale[m.units]),
          mIdentifier |-> IdentifierOf(m.stream_identifier)]

\* StationLocation: only whether it is one matters, the geodesic is GeographicLib's.
IsLocation(m) ==
    /\ Absent \notin {m.latitude, m.longitude}
    /\ IsLatitude(m.latitude) /\ IsLongitude(m.longitude)

HypocenterOf(m) ==
    IF \/ Absent \in {m.latitude, m.longitude, m.depth}
       \/ ~(IsLatitude(m.latitude) /\ IsLongitude(m.longitude) /\ IsSourceDepth(m.depth))
    THEN Thrown
    ELSE [mLatitude |-> m.latitude, mLongitude |-> m.longitude % 360, mDepth |-> m.depth]

\* The hypocenter is one that was constructed before, complete or not.
ObservationOf(m, h, distance) ==
    LET a == AmplitudeOf(m.amplitude_stream_1)
        b == AmplitudeOf(m.amplitude_stream_2)
    IN  IF \/ Absent \in {m.amplitude_stream_1, m.amplitude_stream_2, m.station_location}
           \/ ~IsLocation(m.station_location)
           \/ Unset \in {h.mLatitude, h.mLongitude, h.mDepth}
           \/ Thrown \in {a, b}
           \/ ~PairFits(a, b)
           \/ ~(IsDistance(distance) /\ IsDepth(h.mDepth))
        THEN Thrown
        ELSE [mAmplitudes |-> <<a, b>>, mStationName |-> StationName(a.mIdentifier),
              mEpicentralDistance |-> distance, mSourceDepth |-> h.mDepth]

\* toMessage of an Amplitude, and of its StreamIdentifier
ToMessage(a) ==
    [stream_identifier |->
        [network |-> a.mIdentifier.network, station |-> a.mIdentifier.station,
         channel |-> a.mIdentifier.channel, location_code |-> a.mIdentifier.location],
     value |-> a.mValue, units |-> "UNITS_MILLIMETERS"]

-----------------------------------------------------------------------------

(***************************************************************************)
(* The setters.                                                            *)
(***************************************************************************)
Throw == outcome' = "threw" /\ UNCHANGED objects
Done == outcome' = "done"

\* setNetwork, setStation, setChannel
SetCode(member, code) ==
    \/ ~IsCode(code) /\ Throw
    \/ /\ IsCode(code) /\ Done
       /\ identifier' = [identifier EXCEPT ![member] = Tidy[code]]
       /\ UNCHANGED <<amplitudes, hypocenter, observation>>

\* Mutant of SetLocationCode: blanks stay.
SetLocationCodeRaw(code) ==
    /\ identifier' = [identifier EXCEPT !.location = code]
    /\ Done
    /\ UNCHANGED <<amplitudes, hypocenter, observation>>

SetLocationCode(code) ==
    /\ identifier' = [identifier EXCEPT !.location = Tidy[code]]
    /\ Done
    /\ UNCHANGED <<amplitudes, hypocenter, observation>>

SetValue(k, v) ==
    \/ ~IsAmplitude(v) /\ Throw
    \/ /\ IsAmplitude(v) /\ Done
       /\ amplitudes' = [amplitudes EXCEPT ![k].mValue = v]
       /\ UNCHANGED <<identifier, hypocenter, observation>>

\* The identifier is copied, and may go on changing.
SetIdentifier(k) ==
    \/ ~IsComplete(identifier) /\ Throw
    \/ /\ IsComplete(identifier) /\ Done
       /\ amplitudes' = [amplitudes EXCEPT ![k].mIdentifier = identifier]
       /\ UNCHANGED <<identifier, hypocenter, observation>>

\* Hypocenter: setLatitude, setLongitude, setDepth
SetLatitude(d) ==
    \/ ~IsLatitude(d) /\ Throw
    \/ /\ IsLatitude(d) /\ Done
       /\ hypocenter' = [hypocenter EXCEPT !.mLatitude = d]
       /\ UNCHANGED <<identifier, amplitudes, observation>>

SetLongitude(d) ==
    \/ ~IsLongitude(d) /\ Throw
    \/ /\ IsLongitude(d) /\ Done
       /\ hypocenter' = [hypocenter EXCEPT !.mLongitude = d % 360]
       /\ UNCHANGED <<identifier, amplitudes, observation>>

SetHypocenterDepth(z) ==
    \/ ~IsSourceDepth(z) /\ Throw
    \/ /\ IsSourceDepth(z) /\ Done
       /\ hypocenter' = [hypocenter EXCEPT !.mDepth = z]
       /\ UNCHANGED <<identifier, amplitudes, observation>>

\* Observation: setAmplitudes, setEpicentralDistance, setDepth
SetAmplitudes ==
    LET a == amplitudes[1]
        b == amplitudes[2]
    IN  \/ ~PairFits(a, b) /\ Throw
        \/ /\ PairFits(a, b) /\ Done
           /\ observation' = [observation EXCEPT
                                !.mAmplitudes = <<a, b>>,
                                !.mStationName = StationName(a.mIdentifier)]
           /\ UNCHANGED <<identifier, amplitudes, hypocenter>>

SetEpicentralDistance(d) ==
    \/ ~IsDistance(d) /\ Throw
    \/ /\ IsDistance(d) /\ Done
       /\ observation' = [observation EXCEPT !.mEpicentralDistance = d]
       /\ UNCHANGED <<identifier, amplitudes, hypocenter>>

SetDepth(z) ==
    \/ ~IsDepth(z) /\ Throw
    \/ /\ IsDepth(z) /\ Done
       /\ observation' = [observation EXCEPT !.mSourceDepth = z]
       /\ UNCHANGED <<identifier, amplitudes, hypocenter>>

-----------------------------------------------------------------------------

(***************************************************************************)
(* Construction from a message, over an object there was before.           *)
(***************************************************************************)
MakeIdentifier(m) ==
    LET made == IdentifierOf(m)
    IN  \/ made = Thrown /\ Throw
        \/ /\ made # Thrown /\ Done
           /\ identifier' = made
           /\ UNCHANGED <<amplitudes, hypocenter, observation>>

MakeAmplitude(k, m) ==
    LET made == AmplitudeOf(m)
    IN  \/ made = Thrown /\ Throw
        \/ /\ made # Thrown /\ Done
           /\ amplitudes' = [amplitudes EXCEPT ![k] = made]
           /\ UNCHANGED <<identifier, hypocenter, observation>>

MakeHypocenter(m) ==
    LET made == HypocenterOf(m)
    IN  \/ made = Thrown /\ Throw
        \/ /\ made # Thrown /\ Done
           /\ hypocenter' = made
           /\ UNCHANGED <<identifier, amplitudes, observation>>

MakeObservation(m, distance) ==
    LET made == ObservationOf(m, hypocenter, distance)
    IN  \/ made = Thrown /\ Throw
        \/ /\ made # Thrown /\ Done
           /\ observation' = made
           /\ UNCHANGED <<identifier, amplitudes, hypocenter>>

\* The messages a measurement has in it
AmplitudeMessages ==
    (UNION {{m.amplitude_stream_1, m.amplitude_stream_2} : m \in Measured}) \ {Absent}
IdentifierMessages == {m.stream_identifier : m \in AmplitudeMessages} \ {Absent}

ASSUME MessagesAssumption ==
    /\ SentAmplitudes \subseteq AmplitudeMessages
    /\ SentIdentifiers \subseteq IdentifierMessages
    /\ Absent \notin DOMAIN Scale
    /\ \A m \in AmplitudeMessages : m.value \in Int \cup {NotFinite, Absent}
    /\ \A m \in IdentifierMessages :
          {m.network, m.station, m.channel, m.location_code} \subseteq Codes \cup {Absent}

Next ==
    \/ \E member \in {"network", "station", "channel"} :
          \E code \in Written[member] : SetCode(member, code)
    \/ \E code \in Written["location"] : SetLocationCode(code)
    \/ \E k \in {1, 2}, v \in Values : SetValue(k, v)
    \/ \E k \in {1, 2} : SetIdentifier(k)
    \/ \E d \in Degrees : SetLatitude(d) \/ SetLongitude(d)
    \/ \E z \in Depths : SetHypocenterDepth(z) \/ SetDepth(z)
    \/ SetAmplitudes
    \/ \E d \in Distances : SetEpicentralDistance(d)
    \/ \E m \in SentIdentifiers : MakeIdentifier(m)
    \/ \E k \in {1, 2}, m \in SentAmplitudes : MakeAmplitude(k, m)
    \/ \E m \in HypocenterMessages : MakeHypocenter(m)
    \/ \E m \in Measured, distance \in Geodesics : MakeObservation(m, distance)

Spec == Init /\ [][Next]_vars

-----------------------------------------------------------------------------

TidyCodes == {Tidy[c] : c \in Codes}
Identifiers == [network : TidyCodes, station : TidyCodes, channel : TidyCodes,
                location : TidyCodes \cup {Unset}]
Amplitudes == [mValue : {-1} \cup 1..MaxValue,
               mIdentifier : {i \in Identifiers : IsComplete(i)} \cup {Unset}]

ASSUME ThrownAssumption ==
    Thrown \notin [mAmplitudes : Amplitudes \X Amplitudes,
                  mStationName : {Join(n, s) : n, s \in TidyCodes},
                  mEpicentralDistance : 0..MaxDistance, mSourceDepth : MinDepth..MaxDepth]


\* Codes are tidy, and what was set can be computed with: amplitudes are positive,
\* longitudes from 0 to 360, distances and depths on and in the earth.
TypeOK ==
    /\ identifier \in Identifiers
    /\ amplitudes \in [{1, 2} -> Amplitudes]
    /\ hypocenter = [mLatitude |-> hypocenter.mLatitude, mLongitude |-> hypocenter.mLongitude,
                     mDepth |-> hypocenter.mDepth]
    /\ hypocenter.mLatitude = Unset \/ hypocenter.mLatitude \in (-90)..90
    /\ hypocenter.mLongitude = Unset \/ hypocenter.mLongitude \in 0..359
    /\ hypocenter.mDepth = Unset \/ hypocenter.mDepth \in MinDepth..MaxDepth
    /\ observation = [mAmplitudes |-> observation.mAmplitudes,
                      mStationName |-> observation.mStationName,
                      mEpicentralDistance |-> observation.mEpicentralDistance,
                      mSourceDepth |-> observation.mSourceDepth]
    /\ observation.mAmplitudes = Unset \/ observation.mAmplitudes \in Amplitudes \X Amplitudes
    /\ observation.mEpicentralDistance = Unset
          \/ observation.mEpicentralDistance \in 0..MaxDistance
    /\ observation.mSourceDepth = Unset \/ observation.mSourceDepth \in MinDepth..MaxDepth
    /\ outcome \in {"done", "threw"}

\* The two amplitudes of an observation come from two components of one sensor: of the
\* same station, at the same location, of the same instrument, and never twice from the
\* same component, though no check of setAmplitudes compares the last letters; and the
\* name the corrections are looked up by is that of both.  The station is compared by its
\* name: stations with dots in their codes may share one, and then the pair is taken
\* although observation.hpp asks for "different channels on the same station".
PairIsFromOneSensor ==
    observation.mAmplitudes # Unset =>
        LET a == observation.mAmplitudes[1]
            b == observation.mAmplitudes[2]
            i == a.mIdentifier
            j == b.mIdentifier
        IN  /\ a.mValue > 0 /\ b.mValue > 0
            /\ observation.mStationName = StationName(i)
            /\ observation.mStationName = StationName(j)
            /\ {i.network, i.station} \cap Dotted = {} =>
                   i.network = j.network /\ i.station = j.station
            /\ i.location = j.location
            /\ Instrument[i.channel] = Instrument[j.channel]
            /\ i.channel # j.channel

\* An amplitude sent back as a message is the amplitude again, whatever units and
\* spelling it came with: residuals and rejections name the stream a client can find.
MessagesRoundTrip ==
    \A k \in {1, 2} :
        amplitudes[k].mValue > 0 /\ amplitudes[k].mIdentifier # Unset =>
            AmplitudeOf(ToMessage(amplitudes[k])) = amplitudes[k]

\* A measurement that is refused although the hypocenter is complete is itself at
\* fault, as the service tells the client: the depth is within the limits of Observation
\* however the hypocenter came by it, though Hypocenter keeps limits of its own.
RefusalIsAboutTheMeasurement ==
    Unset \notin {hypocenter.mLatitude, hypocenter.mLongitude, hypocenter.mDepth} =>
        \A m \in Measured, distance \in Geodesics :
            ObservationOf(m, hypocenter, distance) = Thrown =>
                \/ Absent \in {m.amplitude_stream_1, m.amplitude_stream_2,
                               m.station_location}
                \/ ~IsLocation(m.station_location)
                \/ Thrown \in {AmplitudeOf(m.amplitude_stream_1),
                               AmplitudeOf(m.amplitude_stream_2)}
                \/ ~PairFits(AmplitudeOf(m.amplitude_stream_1),
                             AmplitudeOf(m.amplitude_stream_2))

=============================================================================
