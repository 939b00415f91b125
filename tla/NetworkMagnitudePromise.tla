---------------------- MODULE NetworkMagnitudePromise ----------------------
(***************************************************************************)
(* What a call of NetworkMagnitudeCalculator::operator() promises: for the *)
(* observations it is given, one answer, the network magnitude stated      *)
(* without loops in MagnitudeCalculator.  The service is built on this     *)
(* promise; NetworkMagnitudeCalculator implements it.                      *)
(***************************************************************************)
EXTENDS MagnitudeCalculator

CONSTANTS
    Inputs,   \* the observation vectors the calculator may be called with
    Pending   \* the call has not returned

VARIABLES
    observations,
    answer

promiseVars == <<observations, answer>>

PromiseInit ==
    /\ observations \in Inputs
    /\ answer = Pending

Answer ==
    /\ answer = Pending
    /\ answer' = NetworkResult(observations)
    /\ UNCHANGED observations

PromiseSpec ==
    /\ PromiseInit
    /\ [][Answer]_promiseVars
    /\ WF_promiseVars(Answer)

=============================================================================
