---------------------------- MODULE PacketProofs ----------------------------
(***************************************************************************)
(* A theorem about Packet, for every set of sizes, of counts and of        *)
(* messages, and whatever the ranges of the types: the comparison unpack   *)
(* makes, in the type of the samples, is the one it stands for, except for *)
(* floats where the count itself is rounded.                               *)
(***************************************************************************)
EXTENDS Packet, WellFoundedInduction, TLAPS

(***************************************************************************)
(* Facts about floats.                                                     *)
(***************************************************************************)

\* Every size has floats around it that are some unit apart: of the units with
\* which it is in range, the least.
LEMMA UnitOfSize ==
    ASSUME NEW n \in Nat, n < SizeRange
    PROVE  \E u \in FloatUnits : Apart(n, u)
<1> DEFINE inRange == {u \in FloatUnits : n < FloatRange * u}
<1>1. inRange \subseteq Nat /\ inRange # {}
  <2>1. PICK u \in FloatUnits : SizeRange <= FloatRange * u
    BY FloatAssumption
  <2>2. u \in Nat /\ FloatRange \in Nat /\ SizeRange \in Nat
    BY FloatAssumption, PacketAssumption
  <2>3. FloatRange * u \in Nat
    BY <2>2
  <2>4. n < FloatRange * u
    BY <2>1, <2>2, <2>3
  <2>5. QED
    BY <2>4, FloatAssumption
<1>2. PICK u \in inRange : \A v \in inRange : ~(<<v, u>> \in OpToRel(<, Nat))
  BY <1>1, WFMin, NatLessThanWellFounded
<1>3. \A v \in inRange : ~(v < u)
  BY <1>1, <1>2 DEF OpToRel
<1>4. CASE u = 1
  BY <1>2, <1>4 DEF Apart
<1>5. CASE u # 1
  <2> DEFINE half == u \div 2
  <2>1. u \in Nat /\ u = 2 * half /\ half \in FloatUnits /\ half \in Nat \ {0}
    <3>1. u \in FloatUnits \ {1}
      BY <1>2, <1>5
    <3>2. u \in Nat \ {0} /\ u % 2 = 0 /\ half \in FloatUnits /\ half \in Nat \ {0}
      BY <3>1, FloatAssumption
    <3>3. QED
      BY <3>2
  <2> HIDE DEF half
  <2>2. half \notin inRange
    BY <1>3, <2>1
  <2>3. ~(n < FloatRange * half)
    BY <2>1, <2>2
  <2>4. FloatRange \in Nat /\ FloatRange * half \in Nat
    BY <2>1, PacketAssumption
  <2>5. FloatRange * u = 2 * (FloatRange * half)
    BY <2>1, <2>4
  <2>6. 2 * n >= FloatRange * u
    BY <2>3, <2>4, <2>5
  <2>7. QED
    BY <1>2, <2>6 DEF Apart
<1>6. QED
  BY <1>4, <1>5

\* Units are 1, 2, 4 or multiples of 8.
LEMMA SmallUnits ==
    ASSUME NEW u \in FloatUnits
    PROVE  u \in Nat /\ (u \in {1, 2, 4} \/ u >= 8)
<1>1. ASSUME NEW v \in FloatUnits, v # 1
      PROVE  v \in Nat /\ v = 2 * (v \div 2) /\ v \div 2 \in FloatUnits /\ v \div 2 \in Nat \ {0}
  <2>1. v \in Nat \ {0} /\ v % 2 = 0 /\ v \div 2 \in FloatUnits /\ v \div 2 \in Nat \ {0}
    BY <1>1, FloatAssumption
  <2>2. QED
    BY <2>1
<1>2. u \in Nat
  BY FloatAssumption
<1>3. CASE u # 1 /\ u \div 2 # 1
  <2> DEFINE half == u \div 2
             quarter == half \div 2
  <2>1. u = 2 * half /\ half \in FloatUnits
    BY <1>1, <1>3
  <2>2. half = 2 * quarter /\ quarter \in FloatUnits /\ quarter \in Nat \ {0}
    BY <1>1, <1>3, <2>1
  <2>3. quarter # 1 => quarter >= 2
    BY <2>2
  <2> HIDE DEF half, quarter
  <2>4. QED
    BY <1>2, <2>1, <2>2, <2>3
<1>4. CASE u # 1 /\ u \div 2 = 1
  BY <1>1, <1>4
<1>5. QED
  BY <1>2, <1>3, <1>4

\* What rounding an integer to units gives.
LEMMA FloatValue ==
    ASSUME NEW n \in Nat, n < SizeRange
    PROVE  \E u \in FloatUnits :
              /\ Apart(n, u)
              /\ FloatOf(n) \in {(n \div u) * u, ((n \div u) + 1) * u}
              /\ n % u = 0 => FloatOf(n) = (n \div u) * u
<1> DEFINE u == CHOOSE p \in FloatUnits : Apart(n, p)
<1>1. u \in FloatUnits /\ Apart(n, u)
  BY UnitOfSize
<1>2. u \in Nat \ {0}
  BY <1>1, FloatAssumption
<1>3. FloatOf(n) = IF 2 * (n % u) > u \/ (2 * (n % u) = u /\ (n \div u) % 2 = 1)
                   THEN ((n \div u) + 1) * u ELSE (n \div u) * u
  BY DEF FloatOf
<1> HIDE DEF u
<1>4. n % u = 0 => ~(2 * (n % u) > u) /\ 2 * (n % u) # u
  BY <1>2
<1>5. QED
  BY <1>1, <1>3, <1>4

\* Multiples of 4 below 4 * FloatRange are floats, and so is every integer
\* below FloatRange.
LEMMA ExactFloat ==
    ASSUME NEW n \in Nat, n < SizeRange, n < FloatRange \/ (n < 4 * FloatRange /\ n % 4 = 0)
    PROVE  FloatOf(n) = n
<1>1. PICK u \in FloatUnits :
         Apart(n, u) /\ (n % u = 0 => FloatOf(n) = (n \div u) * u)
  BY FloatValue
<1>2. FloatRange \in Nat \ {0} /\ u \in Nat /\ (u \in {1, 2, 4} \/ u >= 8)
  BY SmallUnits, PacketAssumption
<1>3. ~(u >= 8)
  <2> SUFFICES ASSUME u >= 8 PROVE FALSE
    OBVIOUS
  <2>1. FloatRange * u >= 8 * FloatRange
    BY <1>2
  <2>2. 2 * n >= FloatRange * u
    BY <1>1, <1>2 DEF Apart
  <2>3. 2 * n < 8 * FloatRange
    BY <1>2
  <2>4. QED
    BY <1>2, <2>1, <2>2, <2>3
<1>4. ~(u >= 2 /\ n < FloatRange)
  BY <1>1, <1>2 DEF Apart
<1>5. n % u = 0 /\ (n \div u) * u = n
  <2>1. CASE u = 1
    BY <2>1
  <2>2. CASE u = 2
    BY <1>2, <1>4, <2>2
  <2>3. CASE u = 4
    BY <1>2, <1>4, <2>3
  <2>4. QED
    BY <1>2, <1>3, <2>1, <2>2, <2>3
<1>6. QED
  BY <1>1, <1>5

\* A number of at least h units has at least h whole ones.
LEMMA WholeUnits ==
    ASSUME NEW n \in Nat, NEW h \in Nat, NEW u \in Nat \ {0}, n >= h * u
    PROVE  (n \div u) \in Nat /\ (n \div u) * u >= h * u
<1> DEFINE q == n \div u
           over == n % u
<1>1. q \in Nat /\ over \in Nat /\ over < u /\ n = q * u + over
  OBVIOUS
<1> HIDE DEF q, over
<1>2. ASSUME q < h PROVE FALSE
  <2>1. q + 1 <= h
    BY <1>1, <1>2
  <2>2. (q + 1) * u <= h * u
    BY <1>1, <2>1
  <2>3. (q + 1) * u = q * u + u
    BY <1>1
  <2>4. q * u \in Nat /\ h * u \in Nat
    BY <1>1
  <2>5. QED
    BY <1>1, <2>2, <2>3, <2>4
<1>3. q >= h
  BY <1>1, <1>2
<1>4. q * u >= h * u
  BY <1>1, <1>3
<1>5. QED
  BY <1>1, <1>4 DEF q

\* What is not below 4 * FloatRange does not round below it.
LEMMA LargeFloat ==
    ASSUME NEW n \in Nat, n < SizeRange, n >= 4 * FloatRange
    PROVE  FloatOf(n) >= 4 * FloatRange
<1>1. PICK u \in FloatUnits :
         Apart(n, u) /\ FloatOf(n) \in {(n \div u) * u, ((n \div u) + 1) * u}
  BY FloatValue
<1>2. FloatRange \in Nat \ {0} /\ u \in Nat /\ (u \in {1, 2, 4} \/ u >= 8)
  BY SmallUnits, PacketAssumption
<1>3. u >= 8
  <2>1. n < FloatRange * u
    BY <1>1 DEF Apart
  <2>2. u \in {1, 2, 4} => FloatRange * u <= 4 * FloatRange
    BY <1>2
  <2>3. QED
    BY <1>2, <2>1, <2>2
<1> DEFINE h == FloatRange \div 2
<1>4. h \in Nat /\ FloatRange = 2 * h
  BY PacketAssumption
<1> HIDE DEF h
<1>5. FloatRange * u = 2 * (h * u) /\ h * u \in Nat
  BY <1>2, <1>4
<1>6. n >= h * u
  BY <1>1, <1>3, <1>5 DEF Apart
<1>7. (n \div u) \in Nat /\ (n \div u) * u >= h * u
  BY <1>2, <1>3, <1>4, <1>6, WholeUnits
<1>8. h * u >= 8 * h
  BY <1>2, <1>3, <1>4
<1> DEFINE below == n \div u
<1>9. below \in Nat /\ below * u >= h * u
  BY <1>7
<1>10. FloatOf(n) \in {below * u, (below + 1) * u}
  BY <1>1
<1> HIDE DEF below
<1>11. (below + 1) * u = below * u + u /\ below * u \in Nat
  BY <1>2, <1>9
<1>12. FloatOf(n) >= below * u
  BY <1>2, <1>10, <1>11
<1>13. QED
  <2>1. FloatOf(n) \in Nat
    BY <1>2, <1>10, <1>11
  <2>2. QED
    BY <1>4, <1>5, <1>8, <1>9, <1>11, <1>12, <2>1

-----------------------------------------------------------------------------

(***************************************************************************)
(* The comparison, for each type of samples.                               *)
(***************************************************************************)

\* A count beyond the sign bit stands for more bytes than there can be.
LEMMA IntegerSizes ==
    ASSUME NEW bytes \in ByteSizes, NEW n \in 0 .. IntRange - 1,
           bytes = (4 * SizeOfInt(n)) % SizeRange
    PROVE  bytes = 4 * n
<1>1. /\ IntRange \in Nat /\ SizeRange \in Nat /\ SizeRange > 8 * IntRange
      /\ bytes \in Nat /\ 2 * bytes < SizeRange /\ n \in Nat /\ n < IntRange
  BY PacketAssumption DEF ByteSizes
<1>2. CASE 2 * n < IntRange
  <2>1. n % SizeRange = n /\ (4 * n) % SizeRange = 4 * n
    BY <1>1
  <2>2. QED
    BY <1>2, <2>1 DEF SizeOfInt
<1>3. CASE ~(2 * n < IntRange)
  <2> DEFINE missing == IntRange - n
  <2>1. missing \in Nat \ {0} /\ 2 * missing <= IntRange
    BY <1>1, <1>3
  <2>2. (n - IntRange) % SizeRange = SizeRange - missing
    BY <1>1, <2>1
  <2>3. (4 * (SizeRange - missing)) % SizeRange = SizeRange - 4 * missing
    <3> HIDE DEF missing
    <3> DEFINE rest == SizeRange - 4 * missing
    <3>1. rest \in 0 .. SizeRange - 1 /\ 4 * (SizeRange - missing) = 3 * SizeRange + rest
      BY <1>1, <2>1
    <3> HIDE DEF rest
    <3>2. (3 * SizeRange + rest) % SizeRange = rest
      BY <1>1, <3>1
    <3>3. QED
      BY <3>1, <3>2 DEF rest
  <2>4. bytes = SizeRange - 4 * missing
    BY <1>3, <2>2, <2>3 DEF SizeOfInt
  <2>5. QED
    BY <1>1, <2>1, <2>4
<1>4. QED
  BY <1>2, <1>3

\* A count that is a float stands for its own number of bytes and no other.
LEMMA FloatSizes ==
    ASSUME NEW bytes \in ByteSizes, NEW n \in 0 .. IntRange - 1, n < FloatRange,
           bytes % 4 = 0, FloatOf(bytes) = FloatOf(4 * FloatOf(n))
    PROVE  bytes = 4 * n
<1>1. /\ IntRange \in Nat /\ SizeRange \in Nat /\ SizeRange > 8 * IntRange
      /\ FloatRange \in Nat
      /\ bytes \in Nat /\ bytes < SizeRange /\ n \in Nat /\ n < IntRange
  BY PacketAssumption DEF ByteSizes
<1>2. FloatOf(n) = n
  <2>1. n \in Nat /\ n < SizeRange /\ n < FloatRange
    BY <1>1
  <2>2. QED
    BY <2>1, ExactFloat
<1>3. FloatOf(4 * n) = 4 * n
  <2>1. 4 * n \in Nat /\ 4 * n < SizeRange /\ 4 * n < 4 * FloatRange /\ (4 * n) % 4 = 0
    BY <1>1
  <2>2. QED
    BY <2>1, ExactFloat
<1>4. FloatOf(bytes) = 4 * n
  BY <1>2, <1>3
<1>5. bytes < 4 * FloatRange
  <2> SUFFICES ASSUME bytes >= 4 * FloatRange PROVE FALSE
    BY <1>1
  <2>1. FloatOf(bytes) >= 4 * FloatRange
    BY <1>1, LargeFloat
  <2>2. QED
    BY <1>1, <1>4, <2>1
<1>6. FloatOf(bytes) = bytes
  BY <1>1, <1>5, ExactFloat
<1>7. QED
  BY <1>4, <1>6

\* What unpack returns from are the bytes of the samples.
LEMMA UnpacksBytes ==
    ASSUME NEW type \in Types, NEW bytes \in ByteSizes, NEW n \in 0 .. IntRange - 1,
           Unpacks(type, bytes, n)
    PROVE  bytes = n * sizeof[type] \/ (type = "float" /\ n >= FloatRange)
<1>1. bytes \in Nat /\ n \in Nat /\ FloatRange \in Nat
  BY PacketAssumption DEF ByteSizes
<1>2. CASE type = "int32_t"
  BY <1>1, <1>2, IntegerSizes DEF Unpacks, SizesAgree, sizeof
<1>3. CASE type = "float"
  <2>1. bytes % 4 = 0 /\ FloatOf(bytes) = FloatOf(4 * FloatOf(n)) /\ sizeof[type] = 4
    BY <1>3 DEF Unpacks, SizesAgree, sizeof
  <2>2. n < FloatRange => bytes = 4 * n
    BY <2>1, FloatSizes
  <2>3. QED
    BY <1>1, <1>3, <2>1, <2>2
<1>4. CASE type \in {"int64_t", "double"}
  BY <1>1, <1>4 DEF Unpacks, SizesAgree, sizeof
<1>5. QED
  BY <1>2, <1>3, <1>4 DEF Types

-----------------------------------------------------------------------------

(***************************************************************************)
(* The inductive invariant: data that are there were unpacked.             *)
(***************************************************************************)
Unpacked(data) ==
    /\ data.type \in Types /\ data.bytes \in ByteSizes
    /\ data.samples \in 0 .. IntRange - 1
    /\ Unpacks(data.type, data.bytes, data.samples)

DataInv == mHasData => Unpacked(mData)

\* No setter and no message puts anything else into a packet.
LEMMA DataNext == DataInv /\ [Next]_vars => DataInv'
<1> SUFFICES ASSUME DataInv, [Next]_vars PROVE DataInv'
  OBVIOUS
<1>1. ASSUME UNCHANGED <<mData, mHasData>> PROVE DataInv'
  BY <1>1 DEF DataInv
<1>2. ASSUME NEW type \in Types, NEW bytes \in ByteSizes, NEW n \in 0 .. IntRange - 1,
             Unpacks(type, bytes, n),
             mData' = [type |-> type, samples |-> n, bytes |-> bytes]
      PROVE  DataInv'
  BY <1>2 DEF DataInv, Unpacked
<1>3. ASSUME NEW type \in Types, NEW bytes \in Sizes, NEW n \in Counts,
             SetData(type, bytes, n)
      PROVE  DataInv'
  <2>1. bytes \in ByteSizes /\ n \in 0 .. IntRange - 1
    BY PacketAssumption
  <2>2. CASE UNCHANGED packet
    BY <1>1, <2>2 DEF packet
  <2>3. CASE /\ Unpacks(type, bytes, n)
             /\ mData' = [type |-> type, samples |-> n, bytes |-> bytes]
    BY <1>2, <2>1, <2>3
  <2>4. QED
    BY <1>3, <2>2, <2>3 DEF SetData, Throw
<1>4. ASSUME NEW m \in Messages, MakePacket(m) PROVE DataInv'
  <2>1. CASE UNCHANGED packet
    BY <1>1, <2>1 DEF packet
  <2>2. CASE /\ IsWhole(m)
             /\ mData' = [type |-> DataTypes[m.data_type],
                          samples |-> m.number_of_samples, bytes |-> m.data]
    <3>1. /\ m.data \in ByteSizes /\ m.number_of_samples \in 0 .. IntRange - 1
          /\ Unpacks(DataTypes[m.data_type], m.data, m.number_of_samples)
      BY <2>2, MessagesAssumption DEF IsWhole
    <3>2. DataTypes[m.data_type] \in Types
      BY <2>2 DEF IsWhole, DataTypes, Types
    <3>3. QED
      BY <1>2, <2>2, <3>1, <3>2
  <2>3. QED
    BY <1>4, <2>1, <2>2 DEF MakePacket, Throw
<1>5. QED
  BY <1>1, <1>3, <1>4 DEF Next, SetStartTime, SetSamplingRate, Throw, packet, vars

\* Whatever bytes and counts are set or sent, in any order, the samples of a packet
\* are the ones its bytes hold; only floats too many to be counted in floats can differ.
THEOREM SamplesMatchBytes == Spec => []SamplesAreTheBytes
<1>1. Init => DataInv
  BY DEF Init, DataInv
<1>2. DataInv => SamplesAreTheBytes
  BY UnpacksBytes DEF DataInv, Unpacked, SamplesAreTheBytes
<1>3. QED
  BY <1>1, <1>2, DataNext, PTL DEF Spec

=============================================================================
