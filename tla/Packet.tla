------------------------------- MODULE Packet -------------------------------
(***************************************************************************)
(* A packet of a waveform: its samples unpacked from bytes, and the times   *)
(* of the first and the last one.  Of the samples only their number counts, *)
(* and of the bytes only how many samples they are.                         *)
(***************************************************************************)
EXTENDS Integers

CONSTANTS
    Sizes,        \* lengths of the bytes handed to setData
    Counts,       \* numbers of samples claimed, below IntRange
    StartTimes,
    Rates,        \* arguments of setSamplingRate, NotFinite among them
    Messages,
    IntRange,     \* 2^32
    SizeRange,    \* 2^64
    FloatRange,   \* 2^24: the integers below are floats
    FloatUnits,   \* how far apart floats are: 1, 2, 4 and so on, up to 2^40
    NotFinite,
    Absent

Types == {"int32_t", "int64_t", "float", "double"}
sizeof == [int32_t |-> 4, int64_t |-> 8, float |-> 4, double |-> 8]
DataTypes == [DATA_TYPE_INTEGER_32 |-> "int32_t", DATA_TYPE_INTEGER_64 |-> "int64_t",
              DATA_TYPE_FLOAT |-> "float", DATA_TYPE_DOUBLE |-> "double"]

\* A std::string may not be longer than half of what a size_t counts.
ByteSizes == {bytes \in 0 .. SizeRange - 1 : 2 * bytes < SizeRange}

ASSUME PacketAssumption ==
    /\ IntRange \in Nat /\ FloatRange \in Nat \ {0} /\ FloatRange % 2 = 0
    /\ SizeRange \in Nat /\ SizeRange > 8 * IntRange
    /\ Sizes \subseteq ByteSizes /\ Counts \subseteq 0 .. IntRange - 1
    /\ StartTimes \subseteq Int
    /\ NotFinite \notin Int /\ Rates \subseteq Int \cup {NotFinite}

\* With each distance between floats its half is one, down to 1, and the
\* largest is that of the largest size.
ASSUME FloatAssumption ==
    /\ FloatUnits \subseteq Nat \ {0}
    /\ \A u \in FloatUnits \ {1} : u % 2 = 0 /\ u \div 2 \in FloatUnits
    /\ \E u \in FloatUnits : SizeRange <= FloatRange * u

ASSUME MessagesAssumption ==
    \A m \in Messages :
        /\ m.data # Absent => m.data \in ByteSizes
        /\ m.number_of_samples \in 0 .. IntRange - 1

VARIABLES
    mData,         \* the type, the number of samples, and the bytes they came from
    mStartTime,
    mEndTime,
    mSamplingRate,
    mHasStartTime,
    mHasData,
    outcome        \* how the last operation ended

packet == <<mData, mStartTime, mEndTime, mSamplingRate, mHasStartTime, mHasData>>
vars == <<mData, mStartTime, mEndTime, mSamplingRate, mHasStartTime, mHasData, outcome>>

NewData == [type |-> "double", samples |-> 0, bytes |-> 0]

\* make_unique makes the members zero that have no initializer.
Init ==
    /\ mData = NewData
    /\ mStartTime = 0 /\ mEndTime = 0
    /\ mSamplingRate = 0
    /\ mHasStartTime = FALSE /\ mHasData = FALSE
    /\ outcome = "done"

-----------------------------------------------------------------------------

\* Floats from FloatRange * u / 2 to FloatRange * u are u apart, and those
\* below FloatRange are 1 apart or closer.
Apart(n, u) == n < FloatRange * u /\ (u = 1 \/ 2 * n >= FloatRange * u)

\* The float nearest to the integer n; the even one of two.
FloatOf(n) ==
    LET u == CHOOSE p \in FloatUnits : Apart(n, p)
        below == n \div u
        over == n % u
    IN  IF 2 * over > u \/ (2 * over = u /\ below % 2 = 1) THEN (below + 1) * u ELSE below * u

\* static_cast to a signed integer of 32 bits, and its value as a size_t
SizeOfInt(n) == (IF 2 * n < IntRange THEN n ELSE n - IntRange) % SizeRange

\* Mutant of SizesAgree: the claim is only an upper bound.
SizesAgreeAtMost(type, bytes, n) ==
    CASE type = "int32_t" -> bytes <= (4 * SizeOfInt(n)) % SizeRange
      [] type = "float" -> FloatOf(bytes) <= FloatOf(4 * FloatOf(n))
      [] OTHER -> bytes <= 8 * n

\* data.size() != expectedSize, in the type the comparison is made in: the expected size
\* is computed from the number of samples in the type of the samples.
SizesAgree(type, bytes, n) ==
    CASE type = "int32_t" -> bytes = (4 * SizeOfInt(n)) % SizeRange
      [] type = "float" -> FloatOf(bytes) = FloatOf(4 * FloatOf(n))
      [] OTHER -> bytes = 8 * n

\* unpack returns
Unpacks(type, bytes, n) ==
    bytes > 0 /\ bytes % sizeof[type] = 0 /\ SizesAgree(type, bytes, n)

\* updateEndTime computes the end time and then assigns mEndTime to itself.
updateEndTime == UNCHANGED mEndTime

-----------------------------------------------------------------------------

Throw == outcome' = "threw" /\ UNCHANGED packet

SetStartTime(time) ==
    /\ mStartTime' = time /\ mHasStartTime' = TRUE
    /\ updateEndTime
    /\ outcome' = "done"
    /\ UNCHANGED <<mData, mSamplingRate, mHasData>>

IsRate(rate) == rate # NotFinite /\ rate > 0

SetSamplingRate(rate) ==
    \/ ~IsRate(rate) /\ Throw
    \/ /\ IsRate(rate)
       /\ mSamplingRate' = rate
       /\ updateEndTime
       /\ outcome' = "done"
       /\ UNCHANGED <<mData, mStartTime, mHasStartTime, mHasData>>

\* With more samples than bytes the loop reads past the end, which may crash.
SetData(type, bytes, n) ==
    \/ ~Unpacks(type, bytes, n) /\ Throw
    \/ /\ Unpacks(type, bytes, n)
       /\ mData' = [type |-> type, samples |-> n, bytes |-> bytes]
       /\ mHasData' = TRUE
       /\ updateEndTime
       /\ outcome' = "done"
       /\ UNCHANGED <<mStartTime, mSamplingRate, mHasStartTime>>
    \/ /\ Unpacks(type, bytes, n) /\ n * sizeof[type] > bytes
       /\ outcome' = "crashed"
       /\ UNCHANGED packet

IsWhole(m) ==
    /\ Absent \notin {m.start_time, m.sampling_rate, m.data_type, m.data}
    /\ IsRate(m.sampling_rate)
    /\ m.data_type \in DOMAIN DataTypes
    /\ Unpacks(DataTypes[m.data_type], m.data, m.number_of_samples)

\* Construction from a message: a new packet, or the one there was.
MakePacket(m) ==
    \/ ~IsWhole(m) /\ Throw
    \/ /\ IsWhole(m)
       /\ mData' = [type |-> DataTypes[m.data_type], samples |-> m.number_of_samples,
                    bytes |-> m.data]
       /\ mStartTime' = m.start_time /\ mHasStartTime' = TRUE
       /\ mSamplingRate' = m.sampling_rate /\ mHasData' = TRUE
       /\ mEndTime' = 0
       /\ outcome' = "done"
    \/ /\ IsWhole(m)
       /\ m.number_of_samples * sizeof[DataTypes[m.data_type]] > m.data
       /\ outcome' = "crashed"
       /\ UNCHANGED packet

Next ==
    /\ outcome # "crashed"
    /\ \/ \E time \in StartTimes : SetStartTime(time)
       \/ \E rate \in Rates : SetSamplingRate(rate)
       \/ \E type \in Types, bytes \in Sizes, n \in Counts : SetData(type, bytes, n)
       \/ \E m \in Messages : MakePacket(m)

Spec == Init /\ [][Next]_vars

-----------------------------------------------------------------------------

\* Samples and bytes are the same amount of data, unless they are floats and so many
\* that not every number of them is a float.
SamplesAreTheBytes ==
    mHasData =>
        \/ mData.bytes = mData.samples * sizeof[mData.type]
        \/ mData.type = "float" /\ mData.samples >= FloatRange

=============================================================================
