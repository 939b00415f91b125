-------------------- MODULE MCNetworkMagnitudeCalculator --------------------
EXTENDS NetworkMagnitudeCalculator, TLC

CONSTANTS CCUT, LCMT, PKCU, NANS, MaxObservations

MCStations == {CCUT, LCMT, PKCU, NANS}

\* PKCU has no correction, that of NANS is no number.
MCStationCorrection == CCUT :> 1 @@ LCMT :> -2 @@ NANS :> NonFinite

\* A table with an entry that is no number inside it.
MCDistanceCorrection == 2 :> 3 @@ 3 :> 4 @@ 4 :> NonFinite @@ 5 :> 4

Complete(s, a, d) ==
    [station |-> s, hasAmplitudes |-> TRUE, logAmplitude |-> a,
     hasEpicentralDistance |-> TRUE, distance |-> d, hasDepth |-> TRUE]

\* Both ends of the table, one beyond each end, magnitudes in and out of
\* range, each of the three terms not finite (and one too close to be looked
\* at), a station without a correction, and the three ways to be incomplete.
MCObservations ==
    {Complete(CCUT, 0, 2), Complete(CCUT, 6, 5), Complete(CCUT, 1, 6),
     Complete(LCMT, 3, 3), Complete(LCMT, 9, 2), Complete(LCMT, -9, 2),
     Complete(LCMT, 1, 1), Complete(PKCU, 1, 2), Complete(CCUT, NonFinite, 3),
     Complete(NANS, 1, 3), Complete(NANS, 1, 1), Complete(LCMT, 1, 4),
     [Complete(LCMT, 1, 2) EXCEPT !.hasAmplitudes = FALSE],
     [Complete(PKCU, 1, 2) EXCEPT !.hasEpicentralDistance = FALSE],
     [Complete(CCUT, 1, 2) EXCEPT !.hasDepth = FALSE]}

MCInputs == UNION {[1 .. n -> MCObservations] : n \in 0 .. MaxObservations}

=============================================================================
