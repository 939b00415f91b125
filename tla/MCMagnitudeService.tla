------------------------- MODULE MCMagnitudeService -------------------------
EXTENDS MagnitudeService, TLC

CONSTANTS CCUT, LCMT, PKCU, NANS, Right, Wrong, r1, r2

MCStations == {CCUT, LCMT, PKCU, NANS}

\* PKCU has no correction, that of NANS is no number.
MCStationCorrection == CCUT :> 1 @@ LCMT :> -2 @@ NANS :> NonFinite

MCDistanceCorrection == 2 :> 3 @@ 3 :> 4

Measurement(s, a, d) ==
    [malformed |-> FALSE, station |-> s, logAmplitude |-> a, distance |-> d]

Malformed == [Measurement(PKCU, 0, 0) EXCEPT !.malformed = TRUE]

Near == Measurement(CCUT, 0, 2)
Far == Measurement(LCMT, 3, 3)
TooFar == Measurement(LCMT, 3, 4)
Uncorrected == Measurement(PKCU, 1, 2)
NoNumber == Measurement(NANS, 1, 2)
HugeNear == Measurement(CCUT, 12, 2)
HugeFar == Measurement(LCMT, 12, 3)

Send(route, items) ==
    [route |-> route, tokens |-> {Right}, hypocenter |-> "valid", items |-> items]

\* One request for each way through the handlers.
NetworkRequests ==
    {Send(Network, <<>>), Send(Network, <<Near, Malformed, Far>>),
     Send(Network, <<Near, Uncorrected, Far>>), Send(Network, <<Near, Near>>),
     Send(Network, <<TooFar, Near>>), Send(Network, <<HugeNear, HugeFar>>)}

StationRequests ==
    {Send(Station, <<Near, TooFar, Far>>), Send(Station, <<Near, TooFar, Malformed>>),
     Send(Station, <<Near, Malformed>>)}

CorrectionRequests ==
    {Send(Corrections, <<NoNumber, Uncorrected>>), Send(Corrections, <<Malformed>>)}

BadRequests ==
    {[Send(Network, <<Near, Far>>) EXCEPT !.tokens = {Wrong}],
     [Send(Station, <<Near>>) EXCEPT !.tokens = {}],
     [Send(Network, <<Near, Far>>) EXCEPT !.hypocenter = "absent"],
     [Send(Station, <<Near>>) EXCEPT !.hypocenter = "invalid"]}

MCRequests ==
    NetworkRequests \cup StationRequests \cup CorrectionRequests
        \cup BadRequests \cup {Send(Distances, <<>>)}

\* A station's measurement that is too far before one that is malformed.
MisnumberedRequests ==
    {Send(Station, <<Near, TooFar, Malformed>>), Send(Station, <<Near, Malformed>>)}

\* A measurement that cannot be computed comes before the malformed one, and
\* enough good ones come with it.
FewRequests ==
    {Send(Station, <<TooFar, Malformed>>), Send(Network, <<Near, Far, Malformed>>),
     Send(Distances, <<>>), Send(Network, <<Near, Far>>)}

Symmetry == Permutations({r1, r2})

=============================================================================
