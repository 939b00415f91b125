------------------------- MODULE MeasurementsProofs -------------------------
(***************************************************************************)
(* What Measurements shows for a few messages and codes, for all of them.  *)
(***************************************************************************)
EXTENDS Measurements, TLAPS

-----------------------------------------------------------------------------

\* The limits are integers.
LEMMA Limits == MinDepth \in Int /\ MaxDepth \in Int /\ MaxDistance \in Int
    BY SMT DEF MinDepth, MaxDepth, MaxDistance

(***************************************************************************)
(* What the constructors from messages return.                             *)
(***************************************************************************)

\* A stream identifier that was constructed is complete and its codes are tidy.
LEMMA IdentifierType ==
    ASSUME NEW m \in IdentifierMessages, IdentifierOf(m) # Thrown
    PROVE  IdentifierOf(m) \in Identifiers /\ IsComplete(IdentifierOf(m))
<1>1. {m.network, m.station, m.channel, m.location_code} \subseteq Codes \cup {Absent}
    BY MessagesAssumption
<1>2. /\ Absent \notin {m.network, m.station, m.channel}
      /\ IsCode(m.network) /\ IsCode(m.station) /\ IsCode(m.channel)
    BY DEF IdentifierOf
<1> DEFINE location == IF m.location_code = Absent THEN Blank ELSE Tidy[m.location_code]
<1>3. IdentifierOf(m) = [network |-> Tidy[m.network], station |-> Tidy[m.station],
                         channel |-> Tidy[m.channel], location |-> location]
    BY <1>2 DEF IdentifierOf
<1>4. /\ Tidy[m.network] \in TidyCodes /\ Tidy[m.station] \in TidyCodes
      /\ Tidy[m.channel] \in TidyCodes
    BY <1>1, <1>2 DEF TidyCodes
<1>5. location \in TidyCodes
    BY <1>1, CodesAssumption DEF TidyCodes
<1>6. TidyCodes \subseteq Codes
    BY CodesAssumption DEF TidyCodes
<1> HIDE DEF location
<1>7. IdentifierOf(m) \in Identifiers
    BY <1>3, <1>4, <1>5 DEF Identifiers
<1>8. IsComplete(IdentifierOf(m))
    BY <1>2, <1>3, <1>5, <1>6, MarksAssumption DEF IsComplete, IsCode
<1> QED BY <1>7, <1>8

\* An amplitude that was constructed is positive and finite and has its stream.
LEMMA AmplitudeType ==
    ASSUME NEW m \in AmplitudeMessages, AmplitudeOf(m) # Thrown
    PROVE  AmplitudeOf(m) \in Amplitudes /\ AmplitudeOf(m).mValue > 0
<1>1. m.value \in Int \cup {NotFinite, Absent}
    BY MessagesAssumption
<1>2. /\ m.value # Absent /\ m.stream_identifier # Absent
      /\ m.units \in DOMAIN Scale
      /\ IsAmplitude(Times(m.value, Scale[m.units]))
      /\ IdentifierOf(m.stream_identifier) # Thrown
    BY DEF AmplitudeOf
<1>3. AmplitudeOf(m) = [mValue |-> Times(m.value, Scale[m.units]),
                        mIdentifier |-> IdentifierOf(m.stream_identifier)]
    BY <1>2 DEF AmplitudeOf
<1>4. m.stream_identifier \in IdentifierMessages
    BY <1>2 DEF IdentifierMessages
<1>5. Scale[m.units] \in Int
    BY <1>2 DEF Scale
<1>6. Times(m.value, Scale[m.units]) \in 1..MaxValue
    BY <1>1, <1>2, <1>5, NumbersAssumption DEF Times, IsAmplitude
<1>7. /\ IdentifierOf(m.stream_identifier) \in Identifiers
      /\ IsComplete(IdentifierOf(m.stream_identifier))
    BY <1>2, <1>4, IdentifierType
<1> QED BY <1>3, <1>6, <1>7 DEF Amplitudes

\* A hypocenter that was constructed is on and in the earth.
LEMMA HypocenterType ==
    ASSUME NEW m \in HypocenterMessages, HypocenterOf(m) # Thrown
    PROVE  /\ HypocenterOf(m) = [mLatitude |-> m.latitude, mLongitude |-> m.longitude % 360,
                                 mDepth |-> m.depth]
           /\ m.latitude \in (-90)..90 /\ m.longitude % 360 \in 0..359
           /\ m.depth \in MinDepth..MaxDepth
<1>1. {m.latitude, m.longitude, m.depth} \subseteq Int \cup {NotFinite, Absent}
    BY NumbersAssumption
<1>2. /\ Absent \notin {m.latitude, m.longitude, m.depth}
      /\ IsLatitude(m.latitude) /\ IsLongitude(m.longitude) /\ IsSourceDepth(m.depth)
    BY DEF HypocenterOf
<1> QED BY <1>1, <1>2 DEF HypocenterOf, IsLatitude, IsLongitude, IsSourceDepth

\* An observation that was constructed has a pair that fits, and numbers in range.
LEMMA ObservationType ==
    ASSUME NEW m \in Measured, NEW distance \in Geodesics, TypeOK,
           ObservationOf(m, hypocenter, distance) # Thrown
    PROVE  LET a == AmplitudeOf(m.amplitude_stream_1)
               b == AmplitudeOf(m.amplitude_stream_2)
           IN  /\ a \in Amplitudes /\ b \in Amplitudes /\ PairFits(a, b)
               /\ distance \in 0..MaxDistance
               /\ hypocenter.mDepth \in MinDepth..MaxDepth
               /\ ObservationOf(m, hypocenter, distance) =
                     [mAmplitudes |-> <<a, b>>, mStationName |-> StationName(a.mIdentifier),
                      mEpicentralDistance |-> distance, mSourceDepth |-> hypocenter.mDepth]
<1> DEFINE a == AmplitudeOf(m.amplitude_stream_1)
           b == AmplitudeOf(m.amplitude_stream_2)
<1>1. /\ Absent \notin {m.amplitude_stream_1, m.amplitude_stream_2, m.station_location}
      /\ IsLocation(m.station_location)
      /\ Unset \notin {hypocenter.mLatitude, hypocenter.mLongitude, hypocenter.mDepth}
      /\ Thrown \notin {a, b} /\ PairFits(a, b)
      /\ IsDistance(distance) /\ IsDepth(hypocenter.mDepth)
    BY DEF ObservationOf
<1>2. /\ m.amplitude_stream_1 \in AmplitudeMessages
      /\ m.amplitude_stream_2 \in AmplitudeMessages
    BY <1>1 DEF AmplitudeMessages
<1>3. a \in Amplitudes /\ b \in Amplitudes
    BY <1>1, <1>2, AmplitudeType
<1>4. hypocenter.mDepth \in MinDepth..MaxDepth
    BY <1>1 DEF TypeOK
<1>5. distance \in 0..MaxDistance
    BY NumbersAssumption
<1>6. ObservationOf(m, hypocenter, distance) =
          [mAmplitudes |-> <<a, b>>, mStationName |-> StationName(a.mIdentifier),
           mEpicentralDistance |-> distance, mSourceDepth |-> hypocenter.mDepth]
    BY <1>1 DEF ObservationOf
<1> HIDE DEF a, b
<1>7. /\ a \in Amplitudes /\ b \in Amplitudes /\ PairFits(a, b)
      /\ distance \in 0..MaxDistance
      /\ hypocenter.mDepth \in MinDepth..MaxDepth
    BY <1>1, <1>3, <1>4, <1>5
<1> QED BY <1>6, <1>7 DEF a, b

-----------------------------------------------------------------------------

(***************************************************************************)
(* Type correctness, one lemma for each object.                            *)
(***************************************************************************)

TypeOfHypocenter(h) ==
    /\ h = [mLatitude |-> h.mLatitude, mLongitude |-> h.mLongitude, mDepth |-> h.mDepth]
    /\ h.mLatitude = Unset \/ h.mLatitude \in (-90)..90
    /\ h.mLongitude = Unset \/ h.mLongitude \in 0..359
    /\ h.mDepth = Unset \/ h.mDepth \in MinDepth..MaxDepth

TypeOfObservation(o) ==
    /\ o = [mAmplitudes |-> o.mAmplitudes, mStationName |-> o.mStationName,
            mEpicentralDistance |-> o.mEpicentralDistance, mSourceDepth |-> o.mSourceDepth]
    /\ o.mAmplitudes = Unset \/ o.mAmplitudes \in Amplitudes \X Amplitudes
    /\ o.mEpicentralDistance = Unset \/ o.mEpicentralDistance \in 0..MaxDistance
    /\ o.mSourceDepth = Unset \/ o.mSourceDepth \in MinDepth..MaxDepth

\* TypeOK, object by object.
LEMMA TypeParts ==
    TypeOK <=> /\ identifier \in Identifiers
               /\ amplitudes \in [{1, 2} -> Amplitudes]
               /\ TypeOfHypocenter(hypocenter)
               /\ TypeOfObservation(observation)
               /\ outcome \in {"done", "threw"}
    BY DEF TypeOK, TypeOfHypocenter, TypeOfObservation

\* Nothing is set to begin with.
LEMMA Initially == Init => TypeOK /\ PairIsFromOneSensor
<1> SUFFICES ASSUME Init PROVE TypeOK /\ PairIsFromOneSensor
    OBVIOUS
<1>1. Blank \in TidyCodes
    BY CodesAssumption DEF TidyCodes
<1>2. identifier \in Identifiers
    BY <1>1 DEF Init, NewIdentifier, Identifiers
<1>3. amplitudes \in [{1, 2} -> Amplitudes]
    BY DEF Init, NewAmplitude, Amplitudes
<1>4. TypeOfHypocenter(hypocenter)
    BY DEF Init, NewHypocenter, TypeOfHypocenter
<1>5. TypeOfObservation(observation)
    BY DEF Init, NewObservation, TypeOfObservation
<1>6. outcome \in {"done", "threw"}
    BY DEF Init
<1>7. PairIsFromOneSensor
    BY DEF Init, NewObservation, PairIsFromOneSensor
<1> QED BY <1>2, <1>3, <1>4, <1>5, <1>6, <1>7, TypeParts

\* The operations of each object; the others stay as they are.
IdentifierStep ==
    \/ \E member \in {"network", "station", "channel"} :
          \E code \in Written[member] : SetCode(member, code)
    \/ \E code \in Written["location"] : SetLocationCode(code)
    \/ \E m \in SentIdentifiers : MakeIdentifier(m)
AmplitudeStep ==
    \/ \E k \in {1, 2}, v \in Values : SetValue(k, v)
    \/ \E k \in {1, 2} : SetIdentifier(k)
    \/ \E k \in {1, 2}, m \in SentAmplitudes : MakeAmplitude(k, m)
HypocenterStep ==
    \/ \E d \in Degrees : SetLatitude(d) \/ SetLongitude(d)
    \/ \E z \in Depths : SetHypocenterDepth(z)
    \/ \E m \in HypocenterMessages : MakeHypocenter(m)
ObservationStep ==
    \/ \E z \in Depths : SetDepth(z)
    \/ SetAmplitudes
    \/ \E d \in Distances : SetEpicentralDistance(d)
    \/ \E m \in Measured, distance \in Geodesics : MakeObservation(m, distance)

\* Every operation is one on a single object.
LEMMA StepOfOneObject ==
    Next => IdentifierStep \/ AmplitudeStep \/ HypocenterStep \/ ObservationStep
    BY DEF Next, IdentifierStep, AmplitudeStep, HypocenterStep, ObservationStep

\* Setters and constructor of the stream identifier keep its codes tidy, the rest as it is.
LEMMA IdentifierKept ==
    ASSUME TypeOK, IdentifierStep
    PROVE  /\ identifier' \in Identifiers /\ outcome' \in {"done", "threw"}
           /\ UNCHANGED <<amplitudes, hypocenter, observation>>
<1>0. identifier \in Identifiers
    BY DEF TypeOK
<1>1. ASSUME NEW member \in {"network", "station", "channel"},
             NEW code \in Written[member], SetCode(member, code)
      PROVE  /\ identifier' \in Identifiers /\ outcome' \in {"done", "threw"}
             /\ UNCHANGED <<amplitudes, hypocenter, observation>>
    <2>1. code \in Codes
        BY CodesAssumption
    <2>2. Tidy[code] \in TidyCodes
        BY <2>1 DEF TidyCodes
    <2>3. [identifier EXCEPT ![member] = Tidy[code]] \in Identifiers
        BY <1>0, <2>2 DEF Identifiers
    <2> QED BY <1>0, <1>1, <2>3 DEF SetCode, Throw, Done, objects
<1>2. ASSUME NEW code \in Written["location"], SetLocationCode(code)
      PROVE  /\ identifier' \in Identifiers /\ outcome' \in {"done", "threw"}
             /\ UNCHANGED <<amplitudes, hypocenter, observation>>
    <2>1. code \in Codes
        BY CodesAssumption
    <2>2. Tidy[code] \in TidyCodes
        BY <2>1 DEF TidyCodes
    <2>3. [identifier EXCEPT !.location = Tidy[code]] \in Identifiers
        BY <1>0, <2>2 DEF Identifiers
    <2> QED BY <1>2, <2>3 DEF SetLocationCode, Done
<1>3. ASSUME NEW m \in SentIdentifiers, MakeIdentifier(m)
      PROVE  /\ identifier' \in Identifiers /\ outcome' \in {"done", "threw"}
             /\ UNCHANGED <<amplitudes, hypocenter, observation>>
    BY <1>0, <1>3, IdentifierType, MessagesAssumption DEF MakeIdentifier, Throw, Done, objects
<1> QED BY <1>1, <1>2, <1>3 DEF IdentifierStep

\* The same of amplitudes, which stay finite and are positive once set.
LEMMA AmplitudesKept ==
    ASSUME TypeOK, AmplitudeStep
    PROVE  /\ amplitudes' \in [{1, 2} -> Amplitudes] /\ outcome' \in {"done", "threw"}
           /\ UNCHANGED <<identifier, hypocenter, observation>>
<1>0. identifier \in Identifiers /\ amplitudes \in [{1, 2} -> Amplitudes]
    BY DEF TypeOK
<1>1. ASSUME NEW k \in {1, 2}, NEW v \in Values, SetValue(k, v)
      PROVE  /\ amplitudes' \in [{1, 2} -> Amplitudes] /\ outcome' \in {"done", "threw"}
             /\ UNCHANGED <<identifier, hypocenter, observation>>
    <2>1. CASE ~IsAmplitude(v)
        BY <1>0, <1>1, <2>1 DEF SetValue, Throw, objects
    <2>2. CASE IsAmplitude(v)
        <3>1. v \in 1..MaxValue
            BY <2>2, NumbersAssumption DEF IsAmplitude
        <3>2. [amplitudes[k] EXCEPT !.mValue = v] \in Amplitudes
            BY <1>0, <3>1 DEF Amplitudes
        <3>3. [amplitudes EXCEPT ![k].mValue = v] \in [{1, 2} -> Amplitudes]
            BY <1>0, <3>2
        <3> QED BY <1>1, <2>2, <3>3 DEF SetValue, Done
    <2> QED BY <2>1, <2>2
<1>2. ASSUME NEW k \in {1, 2}, SetIdentifier(k)
      PROVE  /\ amplitudes' \in [{1, 2} -> Amplitudes] /\ outcome' \in {"done", "threw"}
             /\ UNCHANGED <<identifier, hypocenter, observation>>
    <2>1. CASE ~IsComplete(identifier)
        BY <1>0, <1>2, <2>1 DEF SetIdentifier, Throw, objects
    <2>2. CASE IsComplete(identifier)
        <3>1. [amplitudes[k] EXCEPT !.mIdentifier = identifier] \in Amplitudes
            BY <1>0, <2>2 DEF Amplitudes
        <3>2. [amplitudes EXCEPT ![k].mIdentifier = identifier] \in [{1, 2} -> Amplitudes]
            BY <1>0, <3>1
        <3> QED BY <1>2, <2>2, <3>2 DEF SetIdentifier, Done
    <2> QED BY <2>1, <2>2
<1>3. ASSUME NEW k \in {1, 2}, NEW m \in SentAmplitudes, MakeAmplitude(k, m)
      PROVE  /\ amplitudes' \in [{1, 2} -> Amplitudes] /\ outcome' \in {"done", "threw"}
             /\ UNCHANGED <<identifier, hypocenter, observation>>
    BY <1>0, <1>3, AmplitudeType, MessagesAssumption
        DEF MakeAmplitude, Throw, Done, objects
<1> QED BY <1>1, <1>2, <1>3 DEF AmplitudeStep

\* The same of the hypocenter, which stays on and in the earth.
LEMMA HypocenterKept ==
    ASSUME TypeOK, HypocenterStep
    PROVE  /\ TypeOfHypocenter(hypocenter') /\ outcome' \in {"done", "threw"}
           /\ UNCHANGED <<identifier, amplitudes, observation>>
<1>0. TypeOfHypocenter(hypocenter)
    BY TypeParts
<1>1. ASSUME NEW d \in Degrees, SetLatitude(d)
      PROVE  /\ TypeOfHypocenter(hypocenter') /\ outcome' \in {"done", "threw"}
             /\ UNCHANGED <<identifier, amplitudes, observation>>
    <2>1. IsLatitude(d) => d \in (-90)..90
        BY NumbersAssumption DEF IsLatitude
    <2>2. IsLatitude(d) => TypeOfHypocenter([hypocenter EXCEPT !.mLatitude = d])
        BY <1>0, <2>1 DEF TypeOfHypocenter
    <2> QED BY <1>0, <1>1, <2>2 DEF SetLatitude, Throw, Done, objects
<1>2. ASSUME NEW d \in Degrees, SetLongitude(d)
      PROVE  /\ TypeOfHypocenter(hypocenter') /\ outcome' \in {"done", "threw"}
             /\ UNCHANGED <<identifier, amplitudes, observation>>
    <2>1. IsLongitude(d) => d % 360 \in 0..359
        BY NumbersAssumption DEF IsLongitude
    <2>2. IsLongitude(d) => TypeOfHypocenter([hypocenter EXCEPT !.mLongitude = d % 360])
        BY <1>0, <2>1 DEF TypeOfHypocenter
    <2> QED BY <1>0, <1>2, <2>2 DEF SetLongitude, Throw, Done, objects
<1>3. ASSUME NEW z \in Depths, SetHypocenterDepth(z)
      PROVE  /\ TypeOfHypocenter(hypocenter') /\ outcome' \in {"done", "threw"}
             /\ UNCHANGED <<identifier, amplitudes, observation>>
    <2>1. IsSourceDepth(z) => z \in MinDepth..MaxDepth
        BY NumbersAssumption DEF IsSourceDepth
    <2>2. IsSourceDepth(z) => TypeOfHypocenter([hypocenter EXCEPT !.mDepth = z])
        BY <1>0, <2>1 DEF TypeOfHypocenter
    <2> QED BY <1>0, <1>3, <2>2 DEF SetHypocenterDepth, Throw, Done, objects
<1>4. ASSUME NEW m \in HypocenterMessages, MakeHypocenter(m)
      PROVE  /\ TypeOfHypocenter(hypocenter') /\ outcome' \in {"done", "threw"}
             /\ UNCHANGED <<identifier, amplitudes, observation>>
    <2>1. HypocenterOf(m) # Thrown => TypeOfHypocenter(HypocenterOf(m))
        BY HypocenterType DEF TypeOfHypocenter
    <2> QED BY <1>0, <1>4, <2>1 DEF MakeHypocenter, Throw, Done, objects
<1> QED BY <1>1, <1>2, <1>3, <1>4 DEF HypocenterStep

\* The same of the observation.
LEMMA ObservationKept ==
    ASSUME TypeOK, ObservationStep
    PROVE  /\ TypeOfObservation(observation') /\ outcome' \in {"done", "threw"}
           /\ UNCHANGED <<identifier, amplitudes, hypocenter>>
<1>0. TypeOfObservation(observation)
    BY TypeParts
<1>1. ASSUME NEW z \in Depths, SetDepth(z)
      PROVE  /\ TypeOfObservation(observation') /\ outcome' \in {"done", "threw"}
             /\ UNCHANGED <<identifier, amplitudes, hypocenter>>
    <2>1. IsDepth(z) => z \in MinDepth..MaxDepth
        BY NumbersAssumption, Limits DEF IsDepth
    <2>2. IsDepth(z) => TypeOfObservation([observation EXCEPT !.mSourceDepth = z])
        BY <1>0, <2>1 DEF TypeOfObservation
    <2> QED BY <1>0, <1>1, <2>2 DEF SetDepth, Throw, Done, objects
<1>2. ASSUME NEW d \in Distances, SetEpicentralDistance(d)
      PROVE  /\ TypeOfObservation(observation') /\ outcome' \in {"done", "threw"}
             /\ UNCHANGED <<identifier, amplitudes, hypocenter>>
    <2>1. IsDistance(d) => d \in 0..MaxDistance
        BY NumbersAssumption, Limits DEF IsDistance
    <2>2. IsDistance(d) => TypeOfObservation([observation EXCEPT !.mEpicentralDistance = d])
        BY <1>0, <2>1 DEF TypeOfObservation
    <2> QED BY <1>0, <1>2, <2>2 DEF SetEpicentralDistance, Throw, Done, objects
<1>3. ASSUME SetAmplitudes
      PROVE  /\ TypeOfObservation(observation') /\ outcome' \in {"done", "threw"}
             /\ UNCHANGED <<identifier, amplitudes, hypocenter>>
    <2> DEFINE fitting == [observation EXCEPT
                              !.mAmplitudes = <<amplitudes[1], amplitudes[2]>>,
                              !.mStationName = StationName(amplitudes[1].mIdentifier)]
    <2>1. amplitudes[1] \in Amplitudes /\ amplitudes[2] \in Amplitudes
        BY DEF TypeOK
    <2>2. TypeOfObservation(fitting)
        <3>1. fitting = [mAmplitudes |-> <<amplitudes[1], amplitudes[2]>>,
                         mStationName |-> StationName(amplitudes[1].mIdentifier),
                         mEpicentralDistance |-> observation.mEpicentralDistance,
                         mSourceDepth |-> observation.mSourceDepth]
            <4>1. /\ fitting.mAmplitudes = <<amplitudes[1], amplitudes[2]>>
                  /\ fitting.mStationName = StationName(amplitudes[1].mIdentifier)
                  /\ fitting.mEpicentralDistance = observation.mEpicentralDistance
                  /\ fitting.mSourceDepth = observation.mSourceDepth
                BY <1>0 DEF TypeOfObservation
            <4>2. fitting = [field \in {"mAmplitudes", "mStationName", "mEpicentralDistance",
                                        "mSourceDepth"} |-> fitting[field]]
                BY <1>0 DEF TypeOfObservation
            <4> HIDE DEF fitting
            <4> QED BY <4>1, <4>2
        <3> HIDE DEF fitting
        <3> QED BY <1>0, <2>1, <3>1 DEF TypeOfObservation
    <2>3. CASE ~PairFits(amplitudes[1], amplitudes[2])
        BY <1>0, <1>3, <2>3 DEF SetAmplitudes, Throw, objects
    <2>4. CASE PairFits(amplitudes[1], amplitudes[2])
        <3>1. /\ observation' = fitting /\ outcome' = "done"
              /\ UNCHANGED <<identifier, amplitudes, hypocenter>>
            BY <1>3, <2>4 DEF SetAmplitudes, Throw, Done
        <3> HIDE DEF fitting
        <3> QED BY <2>2, <3>1
    <2> QED BY <2>3, <2>4
<1>4. ASSUME NEW m \in Measured, NEW distance \in Geodesics, MakeObservation(m, distance)
      PROVE  /\ TypeOfObservation(observation') /\ outcome' \in {"done", "threw"}
             /\ UNCHANGED <<identifier, amplitudes, hypocenter>>
    <2>1. ObservationOf(m, hypocenter, distance) # Thrown =>
              TypeOfObservation(ObservationOf(m, hypocenter, distance))
        BY ObservationType DEF TypeOfObservation
    <2> QED BY <1>0, <1>4, <2>1 DEF MakeObservation, Throw, Done, objects
<1> QED BY <1>1, <1>2, <1>3, <1>4 DEF ObservationStep

\* Type correctness is inductive.
LEMMA TypeKept == TypeOK /\ [Next]_vars => TypeOK'
<1> SUFFICES ASSUME TypeOK, [Next]_vars PROVE TypeOK'
    OBVIOUS
<1> DEFINE Kept == /\ identifier' \in Identifiers
                   /\ amplitudes' \in [{1, 2} -> Amplitudes]
                   /\ TypeOfHypocenter(hypocenter')
                   /\ TypeOfObservation(observation')
                   /\ outcome' \in {"done", "threw"}
<1>0. /\ identifier \in Identifiers
      /\ amplitudes \in [{1, 2} -> Amplitudes]
      /\ TypeOfHypocenter(hypocenter)
      /\ TypeOfObservation(observation)
      /\ outcome \in {"done", "threw"}
    BY TypeParts
<1>1. IdentifierStep => Kept
    BY <1>0, IdentifierKept
<1>2. AmplitudeStep => Kept
    BY <1>0, AmplitudesKept
<1>3. HypocenterStep => Kept
    BY <1>0, HypocenterKept
<1>4. ObservationStep => Kept
    BY <1>0, ObservationKept
<1>5. UNCHANGED vars => Kept
    BY <1>0 DEF vars
<1>6. Kept
    BY <1>1, <1>2, <1>3, <1>4, <1>5, StepOfOneObject
<1> QED BY <1>6 DEF TypeOK, TypeOfHypocenter, TypeOfObservation

-----------------------------------------------------------------------------

(***************************************************************************)
(* The pair of an observation.                                             *)
(***************************************************************************)

\* What PairIsFromOneSensor says of an observation.
FromOneSensor(o) ==
    o.mAmplitudes # Unset =>
        LET a == o.mAmplitudes[1]
            b == o.mAmplitudes[2]
            i == a.mIdentifier
            j == b.mIdentifier
        IN  /\ a.mValue > 0 /\ b.mValue > 0
            /\ o.mStationName = StationName(i)
            /\ o.mStationName = StationName(j)
            /\ {i.network, i.station} \cap Dotted = {} =>
                   i.network = j.network /\ i.station = j.station
            /\ i.location = j.location
            /\ Instrument[i.channel] = Instrument[j.channel]
            /\ i.channel # j.channel

\* A station without dots shares its name with no other.
LEMMA OneStation ==
    ASSUME NEW a \in Amplitudes, NEW b \in Amplitudes, PairFits(a, b),
           {a.mIdentifier.network, a.mIdentifier.station} \cap Dotted = {}
    PROVE  /\ a.mIdentifier.network = b.mIdentifier.network
           /\ a.mIdentifier.station = b.mIdentifier.station
<1>1. a.mIdentifier \in Identifiers /\ b.mIdentifier \in Identifiers
    BY DEF Amplitudes, PairFits
<1>2. TidyCodes \subseteq Codes
    BY CodesAssumption DEF TidyCodes
<1>3. /\ a.mIdentifier.network \in Codes \ Dotted /\ a.mIdentifier.station \in Codes \ Dotted
      /\ b.mIdentifier.network \in Codes /\ b.mIdentifier.station \in Codes
    BY <1>1, <1>2 DEF Identifiers
<1>4. Join(a.mIdentifier.network, a.mIdentifier.station)
        = Join(b.mIdentifier.network, b.mIdentifier.station)
    BY DEF PairFits, StationName
<1> QED BY <1>3, <1>4, JoinAssumption

\* Streams of one station name and location have different names only by their channels.
LEMMA ChannelsDiffer ==
    ASSUME NEW a, NEW b, PairFits(a, b)
    PROVE  a.mIdentifier.channel # b.mIdentifier.channel
<1> DEFINE i == a.mIdentifier
           j == b.mIdentifier
<1>1. StationName(i) = StationName(j) /\ i.location = j.location
    BY DEF PairFits
<1>2. i.channel = j.channel => StreamName(i) = StreamName(j)
    BY <1>1 DEF StreamName
<1>3. StreamName(i) # StreamName(j)
    BY DEF PairFits
<1> QED BY <1>2, <1>3

\* An observation made of a pair that fits holds two components of one sensor.
LEMMA FittingPair ==
    ASSUME NEW a \in Amplitudes, NEW b \in Amplitudes, PairFits(a, b), NEW o,
           o.mAmplitudes = <<a, b>>, o.mStationName = StationName(a.mIdentifier)
    PROVE  FromOneSensor(o)
<1>1. o.mAmplitudes[1] = a /\ o.mAmplitudes[2] = b
    OBVIOUS
<1>2. /\ a.mValue > 0 /\ b.mValue > 0
      /\ StationName(a.mIdentifier) = StationName(b.mIdentifier)
      /\ a.mIdentifier.location = b.mIdentifier.location
      /\ Instrument[a.mIdentifier.channel] = Instrument[b.mIdentifier.channel]
    BY DEF PairFits
<1>3. a.mIdentifier.channel # b.mIdentifier.channel
    BY ChannelsDiffer
<1> QED BY <1>1, <1>2, <1>3, OneStation DEF FromOneSensor

\* With the types, that of the pair is inductive.
LEMMA PairKept == TypeOK /\ PairIsFromOneSensor /\ [Next]_vars => PairIsFromOneSensor'
<1> SUFFICES ASSUME TypeOK, PairIsFromOneSensor, [Next]_vars PROVE FromOneSensor(observation')
    BY DEF PairIsFromOneSensor, FromOneSensor
<1>0. FromOneSensor(observation) /\ TypeOfObservation(observation)
    BY TypeParts DEF PairIsFromOneSensor, FromOneSensor
<1>1. CASE UNCHANGED observation
    BY <1>0, <1>1
<1>2. CASE ObservationStep
    <2>1. ASSUME NEW z \in Depths, SetDepth(z) PROVE FromOneSensor(observation')
        <3>1. FromOneSensor([observation EXCEPT !.mSourceDepth = z])
            BY <1>0 DEF FromOneSensor, TypeOfObservation
        <3> QED BY <1>0, <2>1, <3>1 DEF SetDepth, Throw, objects
    <2>2. ASSUME NEW d \in Distances, SetEpicentralDistance(d)
          PROVE  FromOneSensor(observation')
        <3>1. FromOneSensor([observation EXCEPT !.mEpicentralDistance = d])
            BY <1>0 DEF FromOneSensor, TypeOfObservation
        <3> QED BY <1>0, <2>2, <3>1 DEF SetEpicentralDistance, Throw, objects
    <2>3. ASSUME SetAmplitudes PROVE FromOneSensor(observation')
        <3>1. CASE PairFits(amplitudes[1], amplitudes[2]) /\ outcome' = "done"
            <4>1. observation' = [observation EXCEPT
                      !.mAmplitudes = <<amplitudes[1], amplitudes[2]>>,
                      !.mStationName = StationName(amplitudes[1].mIdentifier)]
                BY <2>3, <3>1 DEF SetAmplitudes, Throw
            <4>2. /\ observation'.mAmplitudes = <<amplitudes[1], amplitudes[2]>>
                  /\ observation'.mStationName = StationName(amplitudes[1].mIdentifier)
                BY <1>0, <4>1 DEF TypeOfObservation
            <4>3. amplitudes[1] \in Amplitudes /\ amplitudes[2] \in Amplitudes
                BY DEF TypeOK
            <4> QED BY <3>1, <4>2, <4>3, FittingPair
        <3>2. CASE ~PairFits(amplitudes[1], amplitudes[2])
            BY <1>0, <2>3, <3>2 DEF SetAmplitudes, Throw, objects
        <3> QED BY <2>3, <3>1, <3>2 DEF SetAmplitudes, Done
    <2>4. ASSUME NEW m \in Measured, NEW distance \in Geodesics,
                 MakeObservation(m, distance)
          PROVE  FromOneSensor(observation')
        <3>1. CASE ObservationOf(m, hypocenter, distance) = Thrown
            BY <1>0, <2>4, <3>1 DEF MakeObservation, Throw, objects
        <3>2. CASE ObservationOf(m, hypocenter, distance) # Thrown
            <4> DEFINE a == AmplitudeOf(m.amplitude_stream_1)
                       b == AmplitudeOf(m.amplitude_stream_2)
            <4>1. observation' = ObservationOf(m, hypocenter, distance)
                BY <2>4, <3>2 DEF MakeObservation
            <4>2. /\ PairFits(a, b) /\ a \in Amplitudes /\ b \in Amplitudes
                  /\ observation'.mAmplitudes = <<a, b>>
                  /\ observation'.mStationName = StationName(a.mIdentifier)
                BY <3>2, <4>1, ObservationType
            <4> HIDE DEF a, b
            <4> QED BY <4>2, FittingPair
        <3> QED BY <3>1, <3>2
    <2> QED BY <1>2, <2>1, <2>2, <2>3, <2>4 DEF ObservationStep
<1>3. [Next]_vars => UNCHANGED observation \/ ObservationStep
    BY StepOfOneObject, IdentifierKept, AmplitudesKept, HypocenterKept DEF vars
<1> QED BY <1>1, <1>2, <1>3

-----------------------------------------------------------------------------

(***************************************************************************)
(* The theorems.                                                           *)
(***************************************************************************)

\* Every code that is kept is tidy, every number in range.
THEOREM TypeCorrect == Spec => []TypeOK
    BY Initially, TypeKept, PTL DEF Spec

\* An observation holds two different components of one instrument at one location, both
\* under the name it is looked up by; and of one station, unless the first has a dot in
\* its codes: then the two only share that name.
THEOREM OneSensor == Spec => []PairIsFromOneSensor
<1>1. TypeOK /\ PairIsFromOneSensor /\ [Next]_vars => (TypeOK /\ PairIsFromOneSensor)'
    BY TypeKept, PairKept
<1> QED BY Initially, <1>1, PTL DEF Spec

\* toMessage of an amplitude and the constructor from a message are inverse.
THEOREM RoundTrip == Spec => []MessagesRoundTrip
<1>1. TypeOK => MessagesRoundTrip
    <2> SUFFICES ASSUME TypeOK, NEW k \in {1, 2}, amplitudes[k].mValue > 0,
                        amplitudes[k].mIdentifier # Unset
                 PROVE  AmplitudeOf(ToMessage(amplitudes[k])) = amplitudes[k]
        BY DEF MessagesRoundTrip
    <2> DEFINE a == amplitudes[k]
               i == a.mIdentifier
               stream == [network |-> i.network, station |-> i.station,
                          channel |-> i.channel, location_code |-> i.location]
    <2>1. a \in Amplitudes
        BY DEF TypeOK
    <2>2. /\ a = [mValue |-> a.mValue, mIdentifier |-> i] /\ a.mValue \in 1..MaxValue
          /\ i \in Identifiers /\ IsComplete(i)
        BY <2>1 DEF Amplitudes
    <2> HIDE DEF a
    <2>3. /\ i = [network |-> i.network, station |-> i.station, channel |-> i.channel,
                  location |-> i.location]
          /\ {i.network, i.station, i.channel, i.location} \subseteq TidyCodes
          /\ Blank \notin {i.network, i.station, i.channel}
        BY <2>2 DEF Identifiers, IsComplete
    <2>4. \A c \in TidyCodes : Tidy[c] = c /\ c \in Codes /\ c # Absent
        <3> SUFFICES ASSUME NEW d \in Codes
                     PROVE  Tidy[Tidy[d]] = Tidy[d] /\ Tidy[d] \in Codes /\ Tidy[d] # Absent
            BY DEF TidyCodes
        <3>1. Tidy[Tidy[d]] = Tidy[d] /\ Tidy[d] \in Codes
            BY CodesAssumption
        <3> QED BY <3>1, MarksAssumption
    <2> HIDE DEF i
    <2>5. stream \in [network : Codes, station : Codes, channel : Codes, location_code : Codes]
        BY <2>3, <2>4
    <2>6. stream # Absent
        BY <2>5, MarksAssumption
    <2>7. IdentifierOf(stream) = i
        BY <2>3, <2>4 DEF IdentifierOf, IsCode
    <2>8. i # Thrown
        <3>1. i \in [network : Codes, station : Codes, channel : Codes, location : Codes]
            BY <2>3, <2>4
        <3> QED BY <3>1, MarksAssumption
    <2> HIDE DEF stream
    <2>9. ToMessage(a) = [stream_identifier |-> stream, value |-> a.mValue,
                          units |-> "UNITS_MILLIMETERS"]
        BY DEF ToMessage, stream, i
    <2>10. /\ "UNITS_MILLIMETERS" \in DOMAIN Scale
           /\ Scale["UNITS_MILLIMETERS"] = 1
        BY DEF Scale
    <2>11. /\ Times(a.mValue, 1) = a.mValue /\ IsAmplitude(a.mValue)
           /\ a.mValue # Absent
        BY <2>2, NumbersAssumption, MarksAssumption DEF Times, IsAmplitude
    <2>12. AmplitudeOf(ToMessage(a)) = [mValue |-> a.mValue, mIdentifier |-> i]
        <3> DEFINE m == ToMessage(a)
        <3>1. /\ m.value = a.mValue /\ m.units = "UNITS_MILLIMETERS"
              /\ m.stream_identifier = stream
            BY <2>9
        <3>2. m.units # Absent
            BY <2>10, <3>1, MessagesAssumption
        <3> HIDE DEF m
        <3>3. /\ Absent \notin {m.value, m.units} /\ m.stream_identifier # Absent
              /\ m.units \in DOMAIN Scale
              /\ Times(m.value, Scale[m.units]) = a.mValue
              /\ IdentifierOf(m.stream_identifier) = i
            BY <2>6, <2>7, <2>10, <2>11, <3>1, <3>2
        <3>4. AmplitudeOf(m) = [mValue |-> a.mValue, mIdentifier |-> i]
            BY <2>8, <2>11, <3>3 DEF AmplitudeOf
        <3> QED BY <3>4 DEF m
    <2> QED BY <2>2, <2>12 DEF a, i
<1> QED BY TypeCorrect, <1>1, PTL

\* A measurement refused under a complete hypocenter is at fault itself.
THEOREM RefusalsAreTheMeasurements == Spec => []RefusalIsAboutTheMeasurement
<1> DEFINE AtFault(m) ==
        \/ Absent \in {m.amplitude_stream_1, m.amplitude_stream_2, m.station_location}
        \/ ~IsLocation(m.station_location)
        \/ Thrown \in {AmplitudeOf(m.amplitude_stream_1), AmplitudeOf(m.amplitude_stream_2)}
        \/ ~PairFits(AmplitudeOf(m.amplitude_stream_1), AmplitudeOf(m.amplitude_stream_2))
<1>1. ASSUME TypeOK,
             Unset \notin {hypocenter.mLatitude, hypocenter.mLongitude, hypocenter.mDepth},
             NEW m \in Measured, NEW distance \in Geodesics,
             ObservationOf(m, hypocenter, distance) = Thrown
      PROVE  AtFault(m)
    <2> SUFFICES ASSUME ~AtFault(m) PROVE FALSE
        OBVIOUS
    <2> DEFINE a == AmplitudeOf(m.amplitude_stream_1)
               b == AmplitudeOf(m.amplitude_stream_2)
               made == [mAmplitudes |-> <<a, b>>, mStationName |-> StationName(a.mIdentifier),
                        mEpicentralDistance |-> distance, mSourceDepth |-> hypocenter.mDepth]
    <2>2. IsDistance(distance) /\ distance \in 0..MaxDistance
        BY NumbersAssumption, Limits DEF IsDistance
    <2>3. IsDepth(hypocenter.mDepth) /\ hypocenter.mDepth \in MinDepth..MaxDepth
        BY <1>1, NumbersAssumption, Limits DEF TypeOK, IsDepth
    <2>4. ObservationOf(m, hypocenter, distance) = made
        BY <1>1, <2>2, <2>3 DEF ObservationOf
    <2>5. /\ m.amplitude_stream_1 \in AmplitudeMessages
          /\ m.amplitude_stream_2 \in AmplitudeMessages
        BY DEF AmplitudeMessages
    <2>6. a \in Amplitudes /\ b \in Amplitudes
        BY <2>5, AmplitudeType
    <2>7. StationName(a.mIdentifier) \in {Join(n, s) : n, s \in TidyCodes}
        <3>1. a.mIdentifier # Unset
            BY DEF PairFits
        <3> HIDE DEF a
        <3>2. a.mIdentifier \in Identifiers
            BY <2>6, <3>1 DEF Amplitudes
        <3> QED BY <3>2 DEF Identifiers, StationName
    <2> HIDE DEF a, b
    <2> QED BY <1>1, <2>2, <2>3, <2>4, <2>6, <2>7, ThrownAssumption
<1> HIDE DEF AtFault
<1>2. TypeOK => RefusalIsAboutTheMeasurement
    BY <1>1 DEF RefusalIsAboutTheMeasurement, AtFault
<1> QED BY TypeCorrect, <1>2, PTL

=============================================================================
