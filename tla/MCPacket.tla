------------------------------ MODULE MCPacket ------------------------------
(***************************************************************************)
(* Counts around the last integer below which all are floats, and around    *)
(* the sign bit; sizes that fit them, that do not, and that are odd.        *)
(***************************************************************************)
EXTENDS Packet

MCRates == {-1, 0, 40, 100, NotFinite}

Whole == [start_time |-> 5, sampling_rate |-> 100, data_type |-> "DATA_TYPE_FLOAT",
          data |-> 32, number_of_samples |-> 8]
MCMessages ==
    {Whole, [Whole EXCEPT !.data = 36], [Whole EXCEPT !.number_of_samples = 9],
     [Whole EXCEPT !.number_of_samples = 0],
     [Whole EXCEPT !.data_type = "DATA_TYPE_INTEGER_64", !.number_of_samples = 4],
     [Whole EXCEPT !.data_type = "DATA_TYPE_UNSPECIFIED"]}
        \cup {[Whole EXCEPT ![field] = Absent] :
                field \in {"start_time", "sampling_rate", "data_type", "data"}}
        \cup {[Whole EXCEPT !.sampling_rate = rate] : rate \in {0, NotFinite}}

=============================================================================
