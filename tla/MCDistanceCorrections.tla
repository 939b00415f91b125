----------------------- MODULE MCDistanceCorrections -----------------------
EXTENDS DistanceCorrections, TLC

CONSTANT MaxEntries

\* 0 and 1 are closer than the tolerance of 2, 4 and 6 just far enough apart,
\* and -1 is not a distance.
Pairs == {<<-1, 0>>, <<0, 3>>, <<1, 9>>, <<4, 1>>, <<6, 5>>}

\* One more has a value that is no number at a distance that is one.
MCTables ==
    UNION {[1 .. n -> Pairs] : n \in 0 .. MaxEntries}
        \cup {<<<<0, 3>>, <<4, NaN>>, <<6, 5>>>>}

GoodFile ==
    [interpolation |-> "Linear", distanceType |-> "Hypocentral", datum |-> 1,
     entries |-> 1 :> <<4, 1>> @@ 2 :> <<0, 3>>]

MCFiles ==
    {GoodFile,
     [GoodFile EXCEPT !.interpolation = "absent"],
     [GoodFile EXCEPT !.distanceType = "unknown"],
     [GoodFile EXCEPT !.datum = 9],
     [GoodFile EXCEPT !.distanceType = "Epicentral", !.datum = 9],
     [GoodFile EXCEPT !.entries = 1 :> <<4, 1>> @@ 3 :> <<0, 3>>],
     [GoodFile EXCEPT !.entries = 1 :> <<4, 1>> @@ 2 :> <<>>],
     [GoodFile EXCEPT !.entries = 2 :> <<4, 1>>],
     [GoodFile EXCEPT !.entries = <<<<4, 1>>, <<0, 3>>, <<6, 2>>, <<>>>>],
     [GoodFile EXCEPT !.entries = 1 :> <<NaN, 3>>]}

MCQueries == -1 .. 8

MCDepths == {-5, -4, 0, 2, 3, 5, 6}

MCDatums == {1, 9}

MCMinDatum == -5
MCMinDepth == -4

=============================================================================
