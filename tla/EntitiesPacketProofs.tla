------------------------ MODULE EntitiesPacketProofs ------------------------
(***************************************************************************)
(* Theorems about EntitiesPacket, for every width of whole bytes, every    *)
(* key, and all snapshots: what is written bit by bit is read back, field  *)
(* by field.                                                               *)
(***************************************************************************)
EXTENDS EntitiesPacket, Recursion

BitVector == [bytes : Seq(Byte), counter : 0 .. 7]
Fields == [FieldNames -> Values]

-----------------------------------------------------------------------------
(***************************************************************************)
(* BitVector.                                                              *)
(***************************************************************************)

\* m bits have been pushed to v; those that follow in its last byte are 0.
Filled(v, m) ==
    /\ v \in BitVector /\ m \in Nat
    /\ v.counter = m % 8
    /\ m <= 8 * Len(v.bytes) /\ 8 * Len(v.bytes) < m + 8
    /\ \A k \in Nat : k >= m => BitAt(v, k) = 0

\* The place of a bit, its own.
LEMMA Places ==
    ASSUME NEW k \in Nat
    PROVE  k \div 8 \in Nat /\ k % 8 \in 0 .. 7 /\ k = 8 * (k \div 8) + (k % 8)
  OBVIOUS

LEMMA SamePlace ==
    ASSUME NEW k \in Nat, NEW j \in Nat, k \div 8 = j \div 8, k % 8 = j % 8
    PROVE  k = j
  <1>1. k = 8 * (k \div 8) + (k % 8) /\ j = 8 * (j \div 8) + (j % 8)
    BY Places
  <1> QED
    BY <1>1

\* How many bytes m bits take, and that one more bit needs no other byte than
\* the one it falls into.
LEMMA Length ==
    ASSUME NEW m \in Nat, NEW n \in Nat, m <= 8 * n, 8 * n < m + 8
    PROVE  /\ m % 8 = 0 => n = m \div 8
           /\ m % 8 # 0 => n = (m \div 8) + 1
           /\ (m + 1) % 8 = ((m % 8) + 1) % 8 /\ (m + 1) % 8 \in 0 .. 7
           /\ m + 1 <= 8 * ((m \div 8) + 1) /\ 8 * ((m \div 8) + 1) < m + 9
  OBVIOUS

LEMMA BitType ==
    ASSUME NEW v \in BitVector, NEW k \in Nat
    PROVE  BitAt(v, k) \in Bit
  <1>1. CASE InData(v, k)
    <2>1. v.bytes \in Seq(Byte) /\ (k \div 8) + 1 \in 1 .. Len(v.bytes)
      BY <1>1, Places DEF InData, BitVector
    <2>2. v.bytes[(k \div 8) + 1] \in Byte
      BY <2>1
    <2>3. (k % 8) + 1 \in 1 .. 8
      BY Places
    <2> QED
      BY <1>1, <2>2, <2>3 DEF BitAt, Byte
  <1>2. CASE ~InData(v, k)
    BY <1>2 DEF BitAt, Bit
  <1> QED
    BY <1>1, <1>2

LEMMA InDataFact ==
    ASSUME NEW v \in BitVector, NEW k \in Nat
    PROVE  /\ InData(v, k) <=> k < 8 * Len(v.bytes)
           /\ InData(v, k) <=> (k \div 8) + 1 <= Len(v.bytes)
  <1>1. Len(v.bytes) \in Nat
    BY DEF BitVector
  <1>2. k \div 8 \in Nat /\ k % 8 \in 0 .. 7 /\ k = 8 * (k \div 8) + (k % 8)
    BY Places
  <1> QED
    BY <1>1, <1>2 DEF InData

\* One bit is added, and no other changes.
LEMMA PushBit ==
    ASSUME NEW v, NEW m, Filled(v, m), NEW b \in Bit
    PROVE  /\ Filled(push_back(v, b), m + 1)
           /\ \A k \in Nat : BitAt(push_back(v, b), k) = IF k = m THEN b ELSE BitAt(v, k)
  <1> DEFINE u == push_back(v, b)
             Zero == [i \in 1 .. 8 |-> 0]
             wide == IF v.counter = 0 THEN Append(v.bytes, Zero) ELSE v.bytes
             last == (m \div 8) + 1
             bit == (m % 8) + 1
  <1>1. /\ v.bytes \in Seq(Byte) /\ v.counter \in 0 .. 7 /\ m \in Nat /\ v.counter = m % 8
        /\ Len(v.bytes) \in Nat /\ m <= 8 * Len(v.bytes) /\ 8 * Len(v.bytes) < m + 8
        /\ v \in BitVector /\ v = [bytes |-> v.bytes, counter |-> v.counter]
    BY DEF Filled, BitVector
  <1>2. Zero \in Byte /\ \A i \in 1 .. 8 : Zero[i] = 0
    BY DEF Byte, Bit
  <1> HIDE DEF Zero
  <1>3. /\ wide \in Seq(Byte) /\ Len(wide) = last
        /\ \A n \in 1 .. Len(v.bytes) : wide[n] = v.bytes[n]
        /\ Len(v.bytes) <= Len(wide)
        /\ \A n \in 1 .. Len(wide) : n > Len(v.bytes) => wide[n] = Zero
    <2>1. CASE v.counter = 0
      BY <1>1, <1>2, <2>1
    <2>2. CASE v.counter # 0
      BY <1>1, <2>2
    <2> QED
      BY <2>1, <2>2
  <1> HIDE DEF wide
  <1>4. wide[last] \in Byte /\ last \in 1 .. Len(wide) /\ bit \in 1 .. 8 /\ bit = v.counter + 1
    <2>1. last \in Nat /\ last >= 1 /\ bit \in 1 .. 8 /\ bit = v.counter + 1
      <3>1. m \div 8 \in Nat /\ m % 8 \in 0 .. 7 /\ v.counter = m % 8
        BY <1>1, Places, Zenon
      <3> QED
        BY <3>1
    <2> HIDE DEF last, bit
    <2>2. last \in 1 .. Len(wide)
      BY <1>3, <2>1
    <2> QED
      BY <1>3, <2>1, <2>2
  <1>5. u = [bytes |-> [wide EXCEPT ![last][bit] = IF b = 1 THEN 1 ELSE @],
             counter |-> (v.counter + 1) % 8]
    BY <1>3, <1>4 DEF push_back, wide, Zero
  <1> DEFINE byte == [wide[last] EXCEPT ![bit] = IF b = 1 THEN 1 ELSE @]
  <1>6. u.bytes = [wide EXCEPT ![last] = byte] /\ u.counter = (v.counter + 1) % 8
    BY <1>5
  <1>7. /\ byte \in Byte
        /\ \A i \in 1 .. 8 : byte[i] = IF i = bit /\ b = 1 THEN 1 ELSE wide[last][i]
    BY <1>4 DEF Byte, Bit
  <1> HIDE DEF byte
  <1>8. /\ u.bytes \in Seq(Byte) /\ Len(u.bytes) = last
        /\ u.bytes[last] = byte
        /\ \A n \in 1 .. last : n # last => u.bytes[n] = wide[n]
    BY <1>3, <1>4, <1>6, <1>7
  <1>9. u \in BitVector
    <2>1. (v.counter + 1) % 8 \in 0 .. 7
      BY <1>1, Length
    <2> QED
      BY <1>5, <1>8, <2>1 DEF BitVector
  <1> HIDE DEF u
  <1>10. ASSUME NEW k \in Nat
         PROVE  BitAt(u, k) = IF k = m THEN b ELSE BitAt(v, k)
    <2> DEFINE n == (k \div 8) + 1
               i == (k % 8) + 1
    <2>1. n \in Nat /\ n >= 1 /\ i \in 1 .. 8 /\ (n = last /\ i = bit <=> k = m)
      <3>1. k \div 8 \in Nat /\ k % 8 \in 0 .. 7 /\ m \div 8 \in Nat /\ m % 8 \in 0 .. 7
        BY <1>1, Places
      <3>2. k \div 8 = m \div 8 /\ k % 8 = m % 8 => k = m
        BY <1>1, SamePlace
      <3> QED
        BY <3>1, <3>2
    <2>2. BitAt(u, k) = IF n <= last THEN u.bytes[n][i] ELSE 0
      BY <1>8, <1>9, InDataFact DEF BitAt
    <2>3. BitAt(v, k) = IF n <= Len(v.bytes) THEN v.bytes[n][i] ELSE 0
      BY <1>1, InDataFact DEF BitAt
    <2> HIDE DEF n, i
    <2>4. n \in 1 .. last => wide[n][i] = BitAt(v, k)
      <3>1. CASE n <= Len(v.bytes)
        <4>1. n \in 1 .. Len(v.bytes)
          BY <1>1, <2>1, <3>1
        <4> QED
          BY <1>3, <2>3, <3>1, <4>1, Zenon
      <3>2. CASE n \in 1 .. last /\ ~ (n <= Len(v.bytes))
        <4>1. n \in 1 .. Len(wide) /\ n > Len(v.bytes)
          BY <1>1, <1>3, <2>1, <3>2
        <4>2. wide[n] = Zero
          BY <1>3, <4>1, Zenon
        <4> QED
          BY <1>2, <2>1, <2>3, <3>2, <4>2, Zenon
      <3> QED
        BY <3>1, <3>2, Zenon
    <2>5. CASE k = m
      <3>1. BitAt(v, k) = 0
        BY <2>5, <1>1 DEF Filled
      <3>2. BitAt(u, k) = byte[bit] /\ byte[bit] = IF b = 1 THEN 1 ELSE wide[last][bit]
        BY <1>4, <1>7, <1>8, <2>1, <2>2, <2>5, SMTT(60)
      <3>3. wide[last][bit] = 0
        BY <1>3, <1>4, <2>1, <2>4, <2>5, <3>1
      <3> QED
        BY <2>5, <3>2, <3>3 DEF Bit
    <2>6. CASE k # m /\ n = last
      BY <1>4, <1>7, <1>8, <2>1, <2>2, <2>4, <2>6, SMTT(60)
    <2>7. CASE k # m /\ n # last
      BY <1>1, <1>3, <1>8, <2>1, <2>2, <2>3, <2>4, <2>7
    <2> QED
      BY <2>5, <2>6, <2>7
  <1>11. Filled(u, m + 1)
    <2>1. \A k \in Nat : k >= m + 1 => BitAt(u, k) = 0
      BY <1>1, <1>10 DEF Filled
    <2>2. u.counter = (m + 1) % 8 /\ m + 1 <= 8 * Len(u.bytes) /\ 8 * Len(u.bytes) < m + 9
      BY <1>1, <1>6, <1>8, Length
    <2> QED
      BY <1>1, <1>9, <2>1, <2>2 DEF Filled
  <1> QED
    BY <1>10, <1>11 DEF u

\* The vectors that can be pushed to.
Pushable == {v \in BitVector : \E m \in Nat : Filled(v, m)}

\* The loop over the bits, step by step.
LEMMA PushLoop ==
    ASSUME NEW v \in Pushable, NEW value \in Values
    PROVE  \E f : /\ f[0] = v /\ PushAll(v, value) = f[Width]
                  /\ \A n \in 1 .. Width : f[n] = push_back(f[n - 1], value[n])
  <1> DEFINE Step(u, n) == push_back(u, value[n])
             G == [n \in 1 .. Width |-> [u \in Pushable |-> Step(u, n)]]
             f == CHOOSE h : h = [n \in 0 .. Width |->
                                    IF n = 0 THEN v ELSE Step(h[n - 1], n)]
  <1>1. Width \in Nat
    BY PacketAssumption
  <1>2. ASSUME NEW n \in 1 .. Width, NEW u \in Pushable
        PROVE  Step(u, n) \in Pushable
    <2>1. PICK m \in Nat : Filled(u, m)
      BY Zenon DEF Pushable
    <2>2. value[n] \in Bit
      BY DEF Values
    <2>3. Filled(Step(u, n), m + 1)
      BY <2>1, <2>2, PushBit, Zenon
    <2>4. m + 1 \in Nat
      OBVIOUS
    <2>5. Step(u, n) \in BitVector
      BY <2>3, Zenon DEF Filled
    <2> QED
      BY <2>3, <2>4, <2>5, Zenon DEF Pushable
  <1>3. PushAll(v, value) = f[Width]
    BY Zenon DEF PushAll
  <1> HIDE DEF Step
  <1>4. G \in [1 .. Width -> [Pushable -> Pushable]]
    BY <1>2
  <1>5. PICK g \in [0 .. Width -> Pushable] : Runs(g, Width, v, G)
    <2> HIDE DEF G
    <2> QED
      BY <1>1, <1>4, Iteration, Zenon
  <1>6. g = [n \in 0 .. Width |-> IF n = 0 THEN v ELSE Step(g[n - 1], n)]
    <2>1. \A n \in 1 .. Width : g[n - 1] \in Pushable /\ g[n] = G[n][g[n - 1]]
      BY <1>1, <1>5 DEF Runs
    <2>2. g[0] = v /\ \A n \in 1 .. Width : g[n] = Step(g[n - 1], n)
      BY <1>5, <2>1 DEF Runs
    <2> QED
      BY <1>1, <2>2
  <1>7. f = [n \in 0 .. Width |-> IF n = 0 THEN v ELSE Step(f[n - 1], n)]
    BY <1>6, Zenon
  <1> HIDE DEF f
  <1>8. f[0] = v
    BY <1>1, <1>7
  <1>9. ASSUME NEW n \in 1 .. Width
        PROVE  f[n] = push_back(f[n - 1], value[n])
    <2>1. n \in 0 .. Width /\ n # 0
      BY <1>1
    <2>2. f[n] = Step(f[n - 1], n)
      BY <1>7, <2>1
    <2> QED
      BY <2>2, Zenon DEF Step
  <1> QED
    BY <1>3, <1>8, <1>9, Zenon

\* w is v with n bits of value pushed to its m bits.
Pushed(v, m, value, n, w) ==
    /\ Filled(w, m + n)
    /\ \A k \in Nat : BitAt(w, k) = IF m <= k /\ k < m + n THEN value[k - m + 1]
                                    ELSE BitAt(v, k)

LEMMA PushOne ==
    ASSUME NEW v, NEW m \in Nat, NEW value \in Values, NEW n \in 1 .. Width, NEW w,
           Pushed(v, m, value, n - 1, w)
    PROVE  Pushed(v, m, value, n, push_back(w, value[n]))
  <1>1. value[n] \in Bit /\ Width \in Nat
    BY PacketAssumption DEF Values
  <1> DEFINE u == push_back(w, value[n])
  <1>2. Filled(w, m + (n - 1))
    BY Zenon DEF Pushed
  <1>3. /\ Filled(u, (m + (n - 1)) + 1)
        /\ \A k \in Nat : BitAt(u, k) = IF k = m + (n - 1) THEN value[n] ELSE BitAt(w, k)
    BY <1>1, <1>2, PushBit
  <1>4. (m + (n - 1)) + 1 = m + n
    BY <1>1
  <1> HIDE DEF u
  <1>5. ASSUME NEW k \in Nat
        PROVE  BitAt(u, k) = IF m <= k /\ k < m + n THEN value[k - m + 1] ELSE BitAt(v, k)
    BY <1>1, <1>3 DEF Pushed
  <1>6. Filled(u, m + n)
    BY <1>3, <1>4
  <1> QED
    BY <1>5, <1>6, Zenon DEF Pushed, u

\* The bits of the value follow those that were there.
LEMMA PushValue ==
    ASSUME NEW v, NEW m \in Nat, Filled(v, m), NEW value \in Values
    PROVE  Pushed(v, m, value, Width, PushAll(v, value))
  <1>1. v \in Pushable
    BY Zenon DEF Pushable, Filled
  <1>2. PICK f : /\ f[0] = v /\ PushAll(v, value) = f[Width]
                 /\ \A n \in 1 .. Width : f[n] = push_back(f[n - 1], value[n])
    BY <1>1, PushLoop, Zenon
  <1> DEFINE T == {n \in 0 .. Width : Pushed(v, m, value, n, f[n])}
  <1>3. Width \in Nat
    BY PacketAssumption
  <1>4. 0 \in T
    <2>1. Pushed(v, m, value, 0, v)
      BY DEF Pushed
    <2> QED
      BY <1>2, <1>3, <2>1
  <1>5. ASSUME NEW n \in 1 .. Width, n - 1 \in T
        PROVE  n \in T
    <2>1. Pushed(v, m, value, n, push_back(f[n - 1], value[n]))
      BY <1>5, PushOne, Zenon
    <2>2. n \in 0 .. Width /\ f[n] = push_back(f[n - 1], value[n])
      BY <1>2, <1>3
    <2> QED
      BY <2>1, <2>2
  <1> HIDE DEF T
  <1>6. \A n \in 0 .. Width : n \in T
    BY <1>3, <1>4, <1>5, Induction, Zenon
  <1>7. Width \in 0 .. Width
    BY <1>3
  <1> QED
    BY <1>2, <1>6, <1>7, Zenon DEF T
-----------------------------------------------------------------------------
(***************************************************************************)
(* The layout of the packet.                                               *)
(***************************************************************************)

\* The bits of a field, and of an entity, after its place.
Size(n, f) == IF Sent(n, f) THEN Width + 1 ELSE 1
PosX(n, o) == o + Size(n, "user_id")
PosY(n, o) == PosX(n, o) + Size(n, "pos_x")
Radius(n, o) == PosY(n, o) + Size(n, "pos_y")
End(n, o) == Radius(n, o) + Size(n, "radius")

\* v has field f of entity n at bit o, and entity n from there on.
FieldAt(v, o, n, f) ==
    IF Sent(n, f) THEN BitAt(v, o) = 1 /\ \A i \in 1 .. Width : BitAt(v, o + i) = world[n][f][i]
    ELSE BitAt(v, o) = 0

EntityAt(v, o, n) ==
    /\ FieldAt(v, o, n, "user_id") /\ FieldAt(v, PosX(n, o), n, "pos_x")
    /\ FieldAt(v, PosY(n, o), n, "pos_y") /\ FieldAt(v, Radius(n, o), n, "radius")

EpochAt(v) == \A i \in 1 .. Width : BitAt(v, Width + i - 1) = epoch[i]

\* The first m bits of both are the same.
Agree(u, v, m) == \A k \in Nat : k < m => BitAt(u, k) = BitAt(v, k)

LEMMA Sizes ==
    ASSUME NEW n, NEW f
    PROVE  /\ Width \in Nat /\ Width >= 8 /\ Size(n, f) \in Nat /\ Size(n, f) >= 1
           /\ Sent(n, f) => Size(n, f) = Width + 1
           /\ ~Sent(n, f) => Size(n, f) = 1
           /\ (Size(n, f) - 1) % 8 = 0
  BY PacketAssumption DEF Size

\* Entities take whole groups of four bits: four flags and whole bytes.
LEMMA Ends ==
    ASSUME NEW n, NEW o \in Nat
    PROVE  /\ PosX(n, o) \in Nat /\ PosY(n, o) \in Nat /\ Radius(n, o) \in Nat /\ End(n, o) \in Nat
           /\ o < PosX(n, o) /\ PosX(n, o) < PosY(n, o) /\ PosY(n, o) < Radius(n, o)
           /\ Radius(n, o) < End(n, o)
           /\ o % 4 = 0 => End(n, o) % 4 = 0
  <1> DEFINE a == Size(n, "user_id")
             b == Size(n, "pos_x")
             c == Size(n, "pos_y")
             d == Size(n, "radius")
  <1>1. /\ a \in Nat /\ a >= 1 /\ (a - 1) % 8 = 0
        /\ b \in Nat /\ b >= 1 /\ (b - 1) % 8 = 0
        /\ c \in Nat /\ c >= 1 /\ (c - 1) % 8 = 0
        /\ d \in Nat /\ d >= 1 /\ (d - 1) % 8 = 0
    BY Sizes
  <1>2. PosX(n, o) = o + a /\ PosY(n, o) = o + a + b /\ Radius(n, o) = o + a + b + c
        /\ End(n, o) = o + a + b + c + d
    BY DEF PosX, PosY, Radius, End
  <1> HIDE DEF a, b, c, d
  <1>3. o % 4 = 0 => (o + a + b + c + d) % 4 = 0
    BY <1>1
  <1> QED
    BY <1>1, <1>2, <1>3

\* What is in the bits that agree is in both.
LEMMA FieldKept ==
    ASSUME NEW u, NEW v, NEW m \in Nat, Agree(u, v, m), NEW o \in Nat, NEW n, NEW f,
           o + Size(n, f) <= m, FieldAt(v, o, n, f)
    PROVE  FieldAt(u, o, n, f)
  <1>1. CASE Sent(n, f)
    <2>1. Width \in Nat /\ o + Width < m /\ o < m
      BY <1>1, Sizes
    <2>2. \A i \in 1 .. Width : o + i \in Nat /\ o + i < m
      BY <2>1
    <2> QED
      BY <1>1, <2>1, <2>2, Zenon DEF FieldAt, Agree
  <1>2. CASE ~Sent(n, f)
    <2>1. o < m
      BY <1>2, Sizes
    <2> QED
      BY <1>2, <2>1, Zenon DEF FieldAt, Agree
  <1> QED
    BY <1>1, <1>2

LEMMA EntityKept ==
    ASSUME NEW u, NEW v, NEW m \in Nat, Agree(u, v, m), NEW o \in Nat, NEW n,
           End(n, o) <= m, EntityAt(v, o, n)
    PROVE  EntityAt(u, o, n)
  <1>1. /\ PosX(n, o) \in Nat /\ PosY(n, o) \in Nat /\ Radius(n, o) \in Nat
        /\ PosX(n, o) <= m /\ PosY(n, o) <= m /\ Radius(n, o) <= m
    BY Ends
  <1>2. FieldAt(u, o, n, "user_id")
    BY <1>1, FieldKept, Zenon DEF EntityAt, PosX
  <1>3. FieldAt(u, PosX(n, o), n, "pos_x")
    BY <1>1, FieldKept, Zenon DEF EntityAt, PosY
  <1>4. FieldAt(u, PosY(n, o), n, "pos_y")
    BY <1>1, FieldKept, Zenon DEF EntityAt, Radius
  <1>5. FieldAt(u, Radius(n, o), n, "radius")
    BY <1>1, FieldKept, Zenon DEF EntityAt, End
  <1> QED
    BY <1>2, <1>3, <1>4, <1>5, Zenon DEF EntityAt

LEMMA EpochKept ==
    ASSUME NEW u, NEW v, NEW m \in Nat, Agree(u, v, m), 2 * Width <= m, EpochAt(v)
    PROVE  EpochAt(u)
  <1>1. \A i \in 1 .. Width : Width + i - 1 \in Nat /\ Width + i - 1 < m
    BY PacketAssumption
  <1> QED
    BY <1>1, Zenon DEF EpochAt, Agree

LEMMA AgreeLess ==
    ASSUME NEW u, NEW v, NEW w, NEW m \in Nat, NEW l \in Nat, l <= m,
           Agree(u, v, m), Agree(v, w, l)
    PROVE  Agree(u, w, l)
  BY DEF Agree

-----------------------------------------------------------------------------
(***************************************************************************)
(* Writing an entity.                                                      *)
(***************************************************************************)

LEMMA PushField ==
    ASSUME NEW v, NEW m \in Nat, Filled(v, m), NEW n, NEW f, world[n][f] \in Values
    PROVE  /\ Filled(push_field(v, n, f), m + Size(n, f))
           /\ Agree(push_field(v, n, f), v, m)
           /\ FieldAt(push_field(v, n, f), m, n, f)
  <1>1. CASE Sent(n, f)
    <2> DEFINE u == push_back(v, 1)
               w == PushAll(u, world[n][f])
    <2>1. 1 \in Bit /\ m + 1 \in Nat /\ Width \in Nat
      BY PacketAssumption DEF Bit
    <2>2. Filled(u, m + 1) /\ \A k \in Nat : BitAt(u, k) = IF k = m THEN 1 ELSE BitAt(v, k)
      BY <2>1, PushBit
    <2> HIDE DEF u
    <2>3. Pushed(u, m + 1, world[n][f], Width, w)
      BY <2>1, <2>2, PushValue, Zenon
    <2> HIDE DEF w
    <2>4. Filled(w, (m + 1) + Width) /\ (m + 1) + Width = m + Size(n, f)
      BY <1>1, <2>1, <2>3, Sizes DEF Pushed
    <2>5. \A k \in Nat : BitAt(w, k) = IF m + 1 <= k /\ k < (m + 1) + Width
                                       THEN world[n][f][k - (m + 1) + 1] ELSE BitAt(u, k)
      BY <2>3, Zenon DEF Pushed
    <2>6. Agree(w, v, m)
      BY <2>1, <2>2, <2>5 DEF Agree
    <2>7. BitAt(w, m) = 1
      BY <2>1, <2>2, <2>5
    <2>8. ASSUME NEW i \in 1 .. Width
          PROVE  BitAt(w, m + i) = world[n][f][i]
      <3>1. m + i \in Nat /\ m + 1 <= m + i /\ m + i < (m + 1) + Width
            /\ (m + i) - (m + 1) + 1 = i
        BY <2>1
      <3> QED
        BY <2>5, <3>1
    <2>9. FieldAt(w, m, n, f)
      BY <1>1, <2>7, <2>8, Zenon DEF FieldAt
    <2>10. push_field(v, n, f) = w
      BY <1>1, Zenon DEF push_field, u, w
    <2>11. Filled(w, m + Size(n, f))
      BY <2>4
    <2> QED
      BY <2>6, <2>9, <2>10, <2>11, Zenon
  <1>2. CASE ~Sent(n, f)
    <2> DEFINE u == push_back(v, 0)
    <2>1. 0 \in Bit
      BY DEF Bit
    <2>2. Filled(u, m + 1) /\ \A k \in Nat : BitAt(u, k) = IF k = m THEN 0 ELSE BitAt(v, k)
      BY <2>1, PushBit
    <2>3. push_field(v, n, f) = u
      BY <1>2, Zenon DEF push_field
    <2> HIDE DEF u
    <2>4. Agree(u, v, m)
      BY <2>2 DEF Agree
    <2>5. FieldAt(u, m, n, f)
      BY <1>2, <2>2 DEF FieldAt
    <2>6. Filled(u, m + Size(n, f))
      BY <1>2, <2>2, Sizes
    <2> QED
      BY <2>3, <2>4, <2>5, <2>6, Zenon
  <1> QED
    BY <1>1, <1>2

\* The four fields of an entity.
push_entity(v, n) ==
    push_field(push_field(push_field(push_field(
        v, n, "user_id"), n, "pos_x"), n, "pos_y"), n, "radius")

LEMMA PushEntity ==
    ASSUME NEW v, NEW m \in Nat, Filled(v, m), NEW n, world[n] \in Fields
    PROVE  /\ Filled(push_entity(v, n), End(n, m))
           /\ Agree(push_entity(v, n), v, m)
           /\ EntityAt(push_entity(v, n), m, n)
  <1> DEFINE a == push_field(v, n, "user_id")
             b == push_field(a, n, "pos_x")
             c == push_field(b, n, "pos_y")
             d == push_field(c, n, "radius")
  <1>1. /\ world[n]["user_id"] \in Values /\ world[n]["pos_x"] \in Values
        /\ world[n]["pos_y"] \in Values /\ world[n]["radius"] \in Values
    BY DEF Fields, FieldNames
  <1>2. /\ PosX(n, m) \in Nat /\ PosY(n, m) \in Nat /\ Radius(n, m) \in Nat /\ End(n, m) \in Nat
        /\ m <= PosX(n, m) /\ m <= PosY(n, m) /\ m <= Radius(n, m)
        /\ PosX(n, m) <= PosY(n, m) /\ PosX(n, m) <= Radius(n, m) /\ PosY(n, m) <= Radius(n, m)
        /\ Radius(n, m) <= End(n, m)
    BY Ends
  <1>3. Filled(a, PosX(n, m)) /\ Agree(a, v, m) /\ FieldAt(a, m, n, "user_id")
    BY <1>1, PushField, Zenon DEF PosX
  <1> HIDE DEF a
  <1>4. Filled(b, PosY(n, m)) /\ Agree(b, a, PosX(n, m)) /\ FieldAt(b, PosX(n, m), n, "pos_x")
    BY <1>1, <1>2, <1>3, PushField, Zenon DEF PosY
  <1> HIDE DEF b
  <1>5. Filled(c, Radius(n, m)) /\ Agree(c, b, PosY(n, m)) /\ FieldAt(c, PosY(n, m), n, "pos_y")
    BY <1>1, <1>2, <1>4, PushField, Zenon DEF Radius
  <1> HIDE DEF c
  <1>6. Filled(d, End(n, m)) /\ Agree(d, c, Radius(n, m)) /\ FieldAt(d, Radius(n, m), n, "radius")
    BY <1>1, <1>2, <1>5, PushField, Zenon DEF End
  <1>7. d = push_entity(v, n)
    BY Zenon DEF push_entity, a, b, c
  <1> HIDE DEF d
  <1>8. Agree(d, b, PosY(n, m))
    BY <1>2, <1>5, <1>6, AgreeLess, Zenon
  <1>9. Agree(d, a, PosX(n, m))
    BY <1>2, <1>4, <1>8, AgreeLess, Zenon
  <1>10. Agree(d, v, m)
    BY <1>2, <1>3, <1>9, AgreeLess, Zenon
  <1>11. FieldAt(d, m, n, "user_id")
    <2>1. m + Size(n, "user_id") <= PosX(n, m)
      BY <1>2 DEF PosX
    <2> QED
      BY <1>2, <1>3, <1>9, <2>1, FieldKept, Zenon
  <1>12. FieldAt(d, PosX(n, m), n, "pos_x")
    <2>1. PosX(n, m) + Size(n, "pos_x") <= PosY(n, m)
      BY <1>2 DEF PosY
    <2> QED
      BY <1>2, <1>4, <1>8, <2>1, FieldKept, Zenon
  <1>13. FieldAt(d, PosY(n, m), n, "pos_y")
    <2>1. PosY(n, m) + Size(n, "pos_y") <= Radius(n, m)
      BY <1>2 DEF Radius
    <2> QED
      BY <1>2, <1>5, <1>6, <2>1, FieldKept, Zenon
  <1> QED
    BY <1>6, <1>7, <1>10, <1>11, <1>12, <1>13, Zenon DEF EntityAt
-----------------------------------------------------------------------------
(***************************************************************************)
(* Encrypting.                                                             *)
(***************************************************************************)

LEMMA XorTwice ==
    ASSUME NEW a \in Bit, NEW b \in Bit
    PROVE  Xor(a, b) \in Bit /\ Xor(Xor(a, b), b) = a
  BY DEF Xor, Bit

\* One bit of the encrypted vector.
Cipher(n, i, l, b) ==
    LET k == 8 * (n - 1) + i - 1
    IN  IF Masked(l, k) THEN Xor(b, key[(k % IntBits) + 1]) ELSE b

LEMMA CipherTwice ==
    ASSUME key \in Key, NEW n \in Nat, n >= 1, NEW i \in 1 .. 8, NEW l, NEW b \in Bit
    PROVE  Cipher(n, i, l, b) \in Bit /\ Cipher(n, i, l, Cipher(n, i, l, b)) = b
  <1> DEFINE k == 8 * (n - 1) + i - 1
  <1>1. (k % IntBits) + 1 \in 1 .. IntBits
    BY DEF IntBits
  <1>2. key[(k % IntBits) + 1] \in Bit
    BY <1>1, PacketAssumption
  <1> QED
    BY <1>2, XorTwice DEF Cipher

\* The bit of a rest that takes part is in the packet, not behind it.
LEMMA BehindUnmasked ==
    ASSUME NEW N \in Nat, NEW n \in Nat, n > N, n <= Touched(N), NEW i \in 1 .. 8
    PROVE  ~Masked(N, 8 * (n - 1) + i - 1)
  <1> DEFINE q == N \div 4
             r == N % 4
             a == n - 1 - 4 * q
             k == 8 * (n - 1) + i - 1
             j == (8 * a) + i - 1
  <1>1. q \in Nat /\ r \in 0 .. 3 /\ N = 4 * q + r
    OBVIOUS
  <1> HIDE DEF q, r
  <1>2. r # 0 /\ n <= 4 * q + 4
    <2>1. CASE r = 0
      <3>1. (N + 3) \div 4 = q
        BY <1>1, <2>1
      <3> QED
        BY <1>1, <2>1, <3>1 DEF Touched
    <2>2. CASE r # 0
      <3>1. (N + 3) \div 4 = q + 1
        BY <1>1, <2>2
      <3> QED
        BY <1>1, <2>2, <3>1 DEF Touched
    <2> QED
      BY <2>1, <2>2
  <1>3. a \in r .. 3 /\ n - 1 = 4 * q + a
    BY <1>1, <1>2
  <1> HIDE DEF a
  <1>4. j \in 8 .. 31 /\ k = IntBits * q + j /\ k \in Nat
    BY <1>1, <1>2, <1>3 DEF IntBits
  <1> HIDE DEF j, k
  <1>5. k \div IntBits = q /\ k % IntBits = j
    BY <1>1, <1>4 DEF IntBits
  <1>6. N - 4 * (k \div IntBits) = r
    BY <1>1, <1>5
  <1>7. ~Masked(N, k)
    BY <1>1, <1>2, <1>4, <1>5, <1>6 DEF Masked
  <1> QED
    BY <1>7 DEF k

LEMMA SameSequence ==
    ASSUME NEW S, NEW s \in Seq(S), NEW t \in Seq(S), Len(s) = Len(t),
           \A n \in 1 .. Len(s) : s[n] = t[n]
    PROVE  s = t
  OBVIOUS

\* The packet and what lies behind it, of a memory that begins with len bytes.
Packet(memory, len) == SubSeq(memory, 1, len)
Rear(memory, len) == SubSeq(memory, len + 1, len + 3)

\* c is the encrypted form of b.
Encrypted(c, b) ==
    /\ c \in Seq(Byte) /\ Len(c) = Len(b)
    /\ \A n \in 1 .. Len(b) : \A i \in 1 .. 8 : c[n][i] = Cipher(n, i, Len(b), b[n][i])

\* Three bytes are a sequence, and so follow a packet.
LEMMA ThreeBytes ==
    ASSUME NEW r \in [1 .. 3 -> Byte]
    PROVE  r \in Seq(Byte) /\ Len(r) = 3
  <1>1. r = [n \in 1 .. 3 |-> r[n]] /\ \A n \in 1 .. 3 : r[n] \in Byte
    OBVIOUS
  <1>2. [n \in 1 .. 3 |-> r[n]] \in Seq(Byte) /\ Len([n \in 1 .. 3 |-> r[n]]) = 3
    BY <1>1
  <1> QED
    BY <1>1, <1>2, Zenon

LEMMA Concatenated ==
    ASSUME NEW s \in Seq(Byte), NEW t \in Seq(Byte)
    PROVE  /\ s \o t \in Seq(Byte) /\ Len(s \o t) = Len(s) + Len(t)
           /\ \A n \in 1 .. Len(s) : (s \o t)[n] = s[n]
           /\ \A n \in 1 .. Len(t) : (s \o t)[Len(s) + n] = t[n]
  OBVIOUS

\* What subscribe makes of a packet b and of what lies behind it.
LEMMA SubscribeMemory ==
    ASSUME key \in Key, NEW b \in Seq(Byte), NEW behind_b \in [1 .. 3 -> Byte]
    PROVE  LET m == subscribe(b \o behind_b, Len(b))
           IN  Encrypted(Packet(m, Len(b)), b) /\ Rear(m, Len(b)) = behind_b
  <1> DEFINE N == Len(b)
             whole == b \o behind_b
             m == subscribe(whole, N)
             byte(n) == [i \in 1 .. 8 |-> IF n <= Touched(N) THEN Cipher(n, i, N, whole[n][i])
                                         ELSE whole[n][i]]
  <1>1. /\ N \in Nat /\ whole \in Seq(Byte) /\ Len(whole) = N + 3
        /\ \A n \in 1 .. N : whole[n] = b[n]
        /\ \A n \in 1 .. 3 : whole[N + n] = behind_b[n]
    <2>1. behind_b \in Seq(Byte) /\ Len(behind_b) = 3
      BY ThreeBytes
    <2> HIDE DEF N, whole
    <2>2. /\ whole \in Seq(Byte) /\ Len(whole) = Len(b) + Len(behind_b)
          /\ \A n \in 1 .. Len(b) : whole[n] = b[n]
          /\ \A n \in 1 .. Len(behind_b) : whole[Len(b) + n] = behind_b[n]
      BY <2>1, Concatenated, Zenon DEF whole
    <2>3. N = Len(b) /\ N \in Nat
      BY DEF N
    <2> QED
      BY <2>1, <2>2, <2>3
  <1>2. m = [n \in 1 .. N + 3 |-> byte(n)]
    <2>1. DOMAIN whole = 1 .. N + 3
      BY <1>1
    <2> QED
      BY <2>1, Zenon DEF subscribe, Cipher
  <1>3. ASSUME NEW n \in 1 .. N
        PROVE  /\ byte(n) \in Byte
               /\ \A i \in 1 .. 8 : byte(n)[i] = Cipher(n, i, N, b[n][i])
    <2>1. n <= Touched(N) /\ n \in Nat /\ n >= 1
      BY <1>1 DEF Touched
    <2>2. whole[n] = b[n] /\ b[n] \in Byte
      BY <1>1
    <2>3. \A i \in 1 .. 8 : b[n][i] \in Bit
      BY <2>2 DEF Byte
    <2>4. \A i \in 1 .. 8 : byte(n)[i] = Cipher(n, i, N, b[n][i])
      BY <2>1, <2>2
    <2>5. \A i \in 1 .. 8 : Cipher(n, i, N, b[n][i]) \in Bit
      BY <2>1, <2>3, CipherTwice
    <2> QED
      BY <2>4, <2>5 DEF Byte
  <1>4. ASSUME NEW j \in 1 .. 3
        PROVE  byte(N + j) = behind_b[j]
    <2>1. whole[N + j] = behind_b[j] /\ behind_b[j] \in Byte
      BY <1>1
    <2>2. \A i \in 1 .. 8 : N + j <= Touched(N) => ~Masked(N, 8 * ((N + j) - 1) + i - 1)
      <3>1. N \in Nat /\ N + j \in Nat /\ N + j > N
        BY <1>1
      <3> HIDE DEF N
      <3>2. ASSUME NEW n \in Nat, n > N, n <= Touched(N), NEW i \in 1 .. 8
            PROVE  ~Masked(N, 8 * (n - 1) + i - 1)
        BY <3>1, <3>2, BehindUnmasked
      <3> QED
        BY <3>1, <3>2
    <2>3. \A i \in 1 .. 8 : byte(N + j)[i] = behind_b[j][i]
      BY <2>1, <2>2 DEF Cipher
    <2>4. behind_b[j] = [i \in 1 .. 8 |-> behind_b[j][i]]
      BY <2>1 DEF Byte
    <2> HIDE DEF N, whole
    <2>5. byte(N + j) = [i \in 1 .. 8 |-> byte(N + j)[i]]
      BY Zenon
    <2> QED
      BY <2>3, <2>4, <2>5, Zenon
  <1> HIDE DEF byte, m, whole
  <1>5. m \in Seq(Byte) /\ Len(m) = N + 3
    <2>1. \A n \in 1 .. N + 3 : byte(n) \in Byte
      <3>1. ASSUME NEW n \in 1 .. N + 3 PROVE byte(n) \in Byte
        <4>1. CASE n \in 1 .. N
          BY <1>3, <4>1
        <4>2. CASE n \notin 1 .. N
          <5>1. n - N \in 1 .. 3 /\ n = N + (n - N)
            BY <1>1, <4>2
          <5>2. byte(n) = behind_b[n - N]
            BY <1>4, <5>1
          <5> QED
            BY <5>1, <5>2
        <4> QED
          BY <4>1, <4>2
      <3> QED
        BY <3>1
    <2>2. N + 3 \in Nat
      BY <1>1
    <2>3. [n \in 1 .. N + 3 |-> byte(n)] \in Seq(Byte)
      BY <2>1, <2>2
    <2>4. DOMAIN m = 1 .. N + 3 /\ m \in Seq(Byte)
      BY <1>2, <2>3, Zenon
    <2>5. Len(m) \in Nat /\ 1 .. Len(m) = 1 .. N + 3
      BY <2>4
    <2> QED
      BY <2>2, <2>4, <2>5
  <1>6. \A n \in 1 .. N + 3 : m[n] = byte(n)
    BY <1>2
  <1>7. Encrypted(Packet(m, N), b)
    <2>1. /\ Packet(m, N) \in Seq(Byte) /\ Len(Packet(m, N)) = N
          /\ \A n \in 1 .. N : Packet(m, N)[n] = m[n]
      BY <1>1, <1>5 DEF Packet
    <2>2. \A n \in 1 .. N : m[n] = byte(n)
      BY <1>1, <1>6
    <2> QED
      BY <1>3, <2>1, <2>2 DEF Encrypted
  <1>8. Rear(m, N) = behind_b
    <2>1. /\ Rear(m, N) \in Seq(Byte) /\ Len(Rear(m, N)) = 3
          /\ \A j \in 1 .. 3 : Rear(m, N)[j] = m[N + j]
      BY <1>1, <1>5 DEF Rear
    <2>2. behind_b \in Seq(Byte) /\ Len(behind_b) = 3
      BY ThreeBytes
    <2>3. \A j \in 1 .. 3 : m[N + j] = behind_b[j]
      BY <1>1, <1>4, <1>6
    <2> QED
      BY <2>1, <2>2, <2>3, SameSequence
  <1> QED
    BY <1>7, <1>8 DEF m, whole

\* Decrypting brings the bytes back.
LEMMA DecryptedBack ==
    ASSUME key \in Key, NEW b \in Seq(Byte), NEW c, NEW d, Encrypted(c, b), Encrypted(d, c)
    PROVE  d = b
  <1> DEFINE N == Len(b)
  <1>1. /\ N \in Nat /\ Len(c) = N /\ Len(d) = N /\ d \in Seq(Byte) /\ c \in Seq(Byte)
        /\ \A n \in 1 .. N : \A i \in 1 .. 8 : c[n][i] = Cipher(n, i, N, b[n][i])
        /\ \A n \in 1 .. N : \A i \in 1 .. 8 : d[n][i] = Cipher(n, i, N, c[n][i])
    BY DEF Encrypted
  <1>2. ASSUME NEW n \in 1 .. N
        PROVE  d[n] = b[n]
    <2>1. b[n] \in Byte /\ d[n] \in Byte /\ n \in Nat /\ n >= 1
      BY <1>1
    <2>2. ASSUME NEW i \in 1 .. 8
          PROVE  d[n][i] = b[n][i]
      <3>1. b[n][i] \in Bit
        BY <2>1 DEF Byte
      <3>2. d[n][i] = Cipher(n, i, N, Cipher(n, i, N, b[n][i]))
        BY <1>1
      <3> QED
        BY <2>1, <3>1, <3>2, CipherTwice
    <2>3. b[n] = [i \in 1 .. 8 |-> b[n][i]] /\ d[n] = [i \in 1 .. 8 |-> d[n][i]]
      BY <2>1 DEF Byte
    <2>4. [i \in 1 .. 8 |-> b[n][i]] = [i \in 1 .. 8 |-> d[n][i]]
      BY <2>2
    <2> QED
      BY <2>3, <2>4, Zenon
  <1> QED
    BY <1>1, <1>2, SameSequence
-----------------------------------------------------------------------------
(***************************************************************************)
(* Reading an entity.                                                      *)
(***************************************************************************)

\* v is the decrypted copy of a vector of m bits.
Received(v, m) ==
    /\ v \in BitVector /\ v.counter = 0
    /\ m <= 8 * Len(v.bytes) /\ 8 * Len(v.bytes) < m + 8
    /\ \A k \in Nat : k >= m => BitAt(v, k) = 0

\* The snapshots, and what the client draws.
Known ==
    /\ world \in Seq(Fields) /\ base \in Seq(Fields) /\ before \in Seq(Fields)
    /\ Len(base) <= Len(world) /\ Len(world) >= 1
    /\ epoch \in Values /\ key \in Key
    /\ behind \in [Hosts -> Behind]

\* Nothing is promised to a client that has lost what it acknowledged.
Remembers == Len(before) >= Len(base)

\* st is as long as before, or has the first n entities.
Spans(st, n) == Len(st) = IF n <= Len(before) THEN Len(before) ELSE n

\* The differences are in st up to entity n, of which the fields F were read;
\* the rest is as before.
Mixed(st, n, F) ==
    /\ st \in Seq(Fields)
    /\ \A m \in 1 .. Len(st) : \A f \in FieldNames :
         IF m \in 1 .. Len(world) /\ Sent(m, f) /\ (m < n \/ (m = n /\ f \in F))
         THEN st[m][f] = world[m][f]
         ELSE m <= Len(before) => st[m][f] = before[m][f]

With(F, f) == F \cup {f}

\* A reader s in the middle of entity n.
Reading(s, n, F) ==
    Remembers => s.wild = FALSE /\ Spans(s.state, n) /\ Mixed(s.state, n, F)

\* Writing a field of an entity.
LEMMA WriteField ==
    ASSUME NEW st \in Seq(Fields), NEW n \in 1 .. Len(st), NEW f \in FieldNames, NEW x \in Values
    PROVE  LET t == [st EXCEPT ![n][f] = x]
           IN  /\ t \in Seq(Fields) /\ Len(t) = Len(st) /\ t[n][f] = x
               /\ \A m \in 1 .. Len(st) : \A g \in FieldNames :
                    ~(m = n /\ g = f) => t[m][g] = st[m][g]
  <1> DEFINE e == [st[n] EXCEPT ![f] = x]
             t == [st EXCEPT ![n] = e]
  <1>1. st[n] \in Fields
    OBVIOUS
  <1>2. e \in Fields /\ e[f] = x /\ \A g \in FieldNames : g # f => e[g] = st[n][g]
    BY <1>1 DEF Fields
  <1>3. [st EXCEPT ![n][f] = x] = t
    OBVIOUS
  <1> HIDE DEF e
  <1>4. /\ t \in Seq(Fields) /\ Len(t) = Len(st) /\ t[n] = e
        /\ \A m \in 1 .. Len(st) : m # n => t[m] = st[m]
    BY <1>2
  <1> HIDE DEF t
  <1> QED
    BY <1>2, <1>3, <1>4

\* t is st with field f of entity n, which is sent.
Takes(t, st, n, F, f) ==
    /\ n \in 1 .. Len(world) /\ n <= Len(st) /\ f \in FieldNames /\ Sent(n, f)
    /\ Mixed(st, n, F) /\ t = [st EXCEPT ![n][f] = world[n][f]]

\* A field that is sent is one of the world.
LEMMA MixedSent ==
    ASSUME Known, NEW t, NEW st, NEW n, NEW F, NEW f, Takes(t, st, n, F, f)
    PROVE  Mixed(t, n, With(F, f)) /\ Len(t) = Len(st)
  <1>1. /\ st \in Seq(Fields) /\ Len(st) \in Nat /\ n \in 1 .. Len(st)
        /\ n \in 1 .. Len(world) /\ f \in FieldNames /\ Sent(n, f) /\ Mixed(st, n, F)
        /\ t = [st EXCEPT ![n][f] = world[n][f]]
    BY DEF Mixed, Takes
  <1>2. world[n] \in Fields
    BY <1>1 DEF Known
  <1>3. world[n][f] \in Values
    BY <1>1, <1>2 DEF Fields
  <1>4. /\ t \in Seq(Fields) /\ Len(t) = Len(st) /\ t[n][f] = world[n][f]
        /\ \A m \in 1 .. Len(st) : \A g \in FieldNames :
             ~(m = n /\ g = f) => t[m][g] = st[m][g]
    BY <1>1, <1>3, WriteField
  <1>5. ASSUME NEW m \in 1 .. Len(t), NEW g \in FieldNames
        PROVE  IF m \in 1 .. Len(world) /\ Sent(m, g) /\ (m < n \/ (m = n /\ g \in With(F, f)))
               THEN t[m][g] = world[m][g]
               ELSE m <= Len(before) => t[m][g] = before[m][g]
    <2>1. CASE m = n /\ g = f
      BY <1>1, <1>4, <2>1, Zenon DEF With
    <2>2. CASE ~(m = n /\ g = f)
      <3>1. m \in 1 .. Len(st) /\ t[m][g] = st[m][g]
        BY <1>4, <2>2
      <3>2. m = n => (g \in With(F, f) <=> g \in F)
        BY <2>2 DEF With
      <3> QED
        BY <1>1, <3>1, <3>2, Zenon DEF Mixed
    <2> QED
      BY <2>1, <2>2
  <1>6. Mixed(t, n, With(F, f))
    BY <1>4, <1>5, Zenon DEF Mixed
  <1> QED
    BY <1>4, <1>6, Zenon

\* One that is not sent is as before.
LEMMA MixedKept ==
    ASSUME NEW n, NEW st, NEW F, NEW f, Mixed(st, n, F), ~Sent(n, f)
    PROVE  Mixed(st, n, With(F, f))
  <1>1. ASSUME NEW m \in 1 .. Len(st), NEW g \in FieldNames
        PROVE  IF m \in 1 .. Len(world) /\ Sent(m, g) /\ (m < n \/ (m = n /\ g \in With(F, f)))
               THEN st[m][g] = world[m][g]
               ELSE m <= Len(before) => st[m][g] = before[m][g]
    <2>1. Sent(m, g) /\ m = n => (g \in With(F, f) <=> g \in F)
      BY DEF With
    <2> QED
      BY <2>1, Zenon DEF Mixed
  <1> QED
    BY <1>1, Zenon DEF Mixed

\* Reading a field, part by part.
LEMMA ReadFieldParts ==
    ASSUME NEW s, NEW f
    PROVE  /\ ReadField(s, f).ind = Last(s) + 1
           /\ ReadField(s, f).wild = (s.wild \/ ~InData(data, Last(s)) \/ (Flag(s) /\ ~There(s)))
           /\ ReadField(s, f).state =
                IF Flag(s) /\ There(s)
                THEN [s.state EXCEPT ![entity_ind][f] = ReadValue(data, s.ind + 1)]
                ELSE s.state
  <1> DEFINE written == [s.state EXCEPT ![entity_ind][f] = ReadValue(data, s.ind + 1)]
  <1>1. ReadField(s, f) =
          [ind |-> Last(s) + 1,
           wild |-> s.wild \/ ~InData(data, Last(s)) \/ (Flag(s) /\ ~There(s)),
           state |-> IF Flag(s) /\ There(s) THEN written ELSE s.state]
    BY Zenon DEF ReadField
  <1> HIDE DEF written
  <1> QED
    BY <1>1 DEF written

\* Reading a field: the next bit is after it, and state has it.
LEMMA ReadOne ==
    ASSUME Known, data \in BitVector, entity_ind \in 1 .. Len(world), NEW f \in FieldNames,
           NEW s, NEW o \in Nat, s.ind = o, FieldAt(data, o, entity_ind, f),
           o + Size(entity_ind, f) <= 8 * Len(data.bytes),
           NEW F, Reading(s, entity_ind, F)
    PROVE  /\ ReadField(s, f).ind = o + Size(entity_ind, f)
           /\ Reading(ReadField(s, f), entity_ind, With(F, f))
  <1> DEFINE n == entity_ind
             r == ReadField(s, f)
  <1>1. Width \in Nat /\ world[n][f] \in Values
    <2>1. world[n] \in Fields
      BY DEF Known
    <2> QED
      BY <2>1, PacketAssumption DEF Fields
  <1>2. Remembers => n <= Len(s.state) /\ There(s)
    BY DEF Reading, Spans, Known, There
  <1>3. CASE Sent(n, f)
    <2>1. Size(n, f) = Width + 1 /\ BitAt(data, o) = 1
          /\ \A i \in 1 .. Width : BitAt(data, o + i) = world[n][f][i]
      BY <1>3, Sizes DEF FieldAt
    <2>2. ReadValue(data, o + 1) = world[n][f]
      <3>1. \A i \in 1 .. Width : (o + 1) + i - 1 = o + i
        BY <1>1
      <3>2. \A i \in 1 .. Width : BitAt(data, (o + 1) + i - 1) = world[n][f][i]
        BY <2>1, <3>1
      <3>3. world[n][f] = [i \in 1 .. Width |-> world[n][f][i]]
        BY <1>1 DEF Values
      <3>4. [i \in 1 .. Width |-> BitAt(data, (o + 1) + i - 1)]
              = [i \in 1 .. Width |-> world[n][f][i]]
        BY <3>2
      <3> QED
        BY <3>3, <3>4, Zenon DEF ReadValue
    <2>3. r.ind = o + Width + 1 /\ Flag(s) /\ Last(s) = o + Width
      BY <2>1, ReadFieldParts, Zenon DEF Flag, Last
    <2>4. InData(data, o + Width)
      <3>1. o + Width \in Nat /\ o + Width < 8 * Len(data.bytes)
        <4>1. Len(data.bytes) \in Nat
          BY DEF BitVector
        <4> QED
          BY <1>1, <2>1, <4>1
      <3> QED
        BY <3>1, InDataFact, Zenon
    <2>5. ASSUME Remembers
          PROVE  r.wild = FALSE /\ r.state = [s.state EXCEPT ![n][f] = world[n][f]]
      <3>1. r.state = [s.state EXCEPT ![n][f] = world[n][f]]
        <4>1. s.ind = o /\ There(s)
          BY <1>2, <2>5, Zenon
        <4> DEFINE written == [s.state EXCEPT ![n][f] = ReadValue(data, s.ind + 1)]
        <4>2. r.state = IF Flag(s) /\ There(s) THEN written ELSE s.state
          BY ReadFieldParts, Zenon
        <4>3. written = [s.state EXCEPT ![n][f] = world[n][f]]
          BY <2>2, <4>1, Zenon
        <4> HIDE DEF written, r
        <4> QED
          BY <2>3, <4>1, <4>2, <4>3, Zenon
      <3>2. r.wild = (s.wild \/ ~InData(data, o + Width) \/ ~There(s))
        BY <2>3, ReadFieldParts, Zenon
      <3> QED
        BY <1>2, <2>4, <2>5, <3>1, <3>2, Zenon DEF Reading
    <2> HIDE DEF r
    <2>6. ASSUME Remembers
          PROVE  r.wild = FALSE /\ Spans(r.state, n) /\ Mixed(r.state, n, With(F, f))
      <3>1. n <= Len(s.state) /\ Mixed(s.state, n, F)
        BY <1>2, <2>6, Zenon DEF Reading
      <3>2. Mixed(r.state, n, With(F, f)) /\ Len(r.state) = Len(s.state)
        <4>1. Takes(r.state, s.state, n, F, f)
          BY <1>3, <2>5, <2>6, <3>1, Zenon DEF Takes
        <4> QED
          BY <4>1, MixedSent, Zenon
      <3> QED
        BY <2>5, <2>6, <3>2, Zenon DEF Reading, Spans
    <2>7. Reading(r, n, With(F, f))
      BY <2>6, Zenon DEF Reading
    <2>8. r.ind = o + Size(n, f)
      BY <1>1, <2>1, <2>3
    <2> QED
      BY <2>7, <2>8, Zenon DEF r
  <1>4. CASE ~Sent(n, f)
    <2>1. Size(n, f) = 1 /\ BitAt(data, o) = 0 /\ BitAt(data, o) # 1
      BY <1>4, Sizes DEF FieldAt
    <2>2. r.ind = o + 0 + 1 /\ r.state = s.state /\ r.wild = (s.wild \/ ~InData(data, o + 0))
      <3>1. ~Flag(s) /\ Last(s) = o + 0
        BY <2>1, Zenon DEF Flag, Last
      <3> QED
        BY <3>1, ReadFieldParts, Zenon
    <2>3. o + 0 = o /\ InData(data, o)
      BY <2>1, InDataFact
    <2> HIDE DEF r
    <2>4. Remembers => r.wild = FALSE
      BY <2>2, <2>3, Zenon DEF Reading
    <2>5. Reading(r, n, With(F, f))
      BY <1>4, <2>2, <2>4, MixedKept, Zenon DEF Reading
    <2>6. r.ind = o + Size(n, f)
      BY <2>1, <2>2
    <2> QED
      BY <2>5, <2>6, Zenon DEF r
  <1> QED
    BY <1>3, <1>4
\* The entity is appended if it is new.
Begun == IF Grows THEN Append(state, Blank) ELSE state

LEMMA BlankFields == Blank \in Fields
  BY DEF Blank, Fields, Values, Bit

\* One that is past the end of state is past that of base: all of it is sent.
LEMMA Begin ==
    ASSUME Known, Remembers, entity_ind \in 1 .. Len(world), FieldAt(data, ind, entity_ind, "user_id"),
           Spans(state, entity_ind - 1), Mixed(state, entity_ind, {})
    PROVE  Spans(Begun, entity_ind) /\ Mixed(Begun, entity_ind, {})
  <1>1. /\ Len(before) \in Nat /\ Len(base) \in Nat /\ Len(base) <= Len(before)
        /\ entity_ind \in Nat /\ entity_ind >= 1 /\ state \in Seq(Fields)
        /\ Len(state) = IF entity_ind - 1 <= Len(before) THEN Len(before) ELSE entity_ind - 1
    BY DEF Known, Remembers, Spans, Mixed
  <1>2. CASE entity_ind <= Len(state)
    <2>1. Begun = state
      BY <1>1, <1>2 DEF Begun, Grows
    <2>2. Len(state) = IF entity_ind <= Len(before) THEN Len(before) ELSE entity_ind
      BY <1>1, <1>2
    <2> QED
      BY <2>1, <2>2 DEF Spans
  <1>3. CASE ~(entity_ind <= Len(state))
    <2>1. Len(state) = entity_ind - 1 /\ Len(before) <= entity_ind - 1 /\ entity_ind > Len(base)
          /\ entity_ind > Len(state)
      BY <1>1, <1>3
    <2>2. Sent(entity_ind, "user_id")
      BY <2>1, Zenon DEF Sent
    <2>3. Grows
      BY <2>1, <2>2, Zenon DEF Grows, FieldAt
    <2>4. Begun = Append(state, Blank)
      BY <2>3, Zenon DEF Begun
    <2>5. /\ Begun \in Seq(Fields) /\ Len(Begun) = entity_ind
          /\ \A m \in 1 .. Len(state) : Begun[m] = state[m]
      BY <1>1, <2>1, <2>4, BlankFields
    <2>6. Spans(Begun, entity_ind)
      BY <1>1, <2>1, <2>5 DEF Spans
    <2>7. ASSUME NEW m \in 1 .. Len(Begun), NEW f \in FieldNames
          PROVE  IF m \in 1 .. Len(world) /\ Sent(m, f)
                      /\ (m < entity_ind \/ (m = entity_ind /\ f \in {}))
                 THEN Begun[m][f] = world[m][f]
                 ELSE m <= Len(before) => Begun[m][f] = before[m][f]
      <3>1. CASE m = entity_ind
        BY <1>1, <2>1, <3>1
      <3>2. CASE m # entity_ind
        <4>1. m \in 1 .. Len(state) /\ Begun[m] = state[m]
          BY <1>1, <2>1, <2>5, <3>2
        <4> QED
          BY <4>1, Zenon DEF Mixed
      <3> QED
        BY <3>1, <3>2
    <2>8. Mixed(Begun, entity_ind, {})
      BY <2>5, <2>7, Zenon DEF Mixed
    <2> QED
      BY <2>6, <2>8
  <1> QED
    BY <1>2, <1>3

\* The four fields of the next entity.
Start == [ind |-> ind, wild |-> wild, state |-> Begun]
Done == ReadField(ReadField(ReadField(ReadField(
            Start, "user_id"), "pos_x"), "pos_y"), "radius")

LEMMA MixedNext ==
    ASSUME NEW n \in Nat, NEW st, NEW F, FieldNames \subseteq F, Mixed(st, n, F)
    PROVE  Mixed(st, n + 1, {})
  <1>1. ASSUME NEW m \in 1 .. Len(st), NEW f \in FieldNames
        PROVE  IF m \in 1 .. Len(world) /\ Sent(m, f)
                    /\ (m < n + 1 \/ (m = n + 1 /\ f \in {}))
               THEN st[m][f] = world[m][f]
               ELSE m <= Len(before) => st[m][f] = before[m][f]
    <2>1. m < n + 1 \/ (m = n + 1 /\ f \in {}) <=> m < n \/ (m = n /\ f \in F)
      <3>1. Len(st) \in Nat
        BY DEF Mixed
      <3> QED
        BY <3>1
    <2> QED
      BY <2>1, Zenon DEF Mixed
  <1> QED
    BY <1>1, Zenon DEF Mixed

LEMMA ReadEntity ==
    ASSUME Known, data \in BitVector, entity_ind \in 1 .. Len(world), ind \in Nat,
           EntityAt(data, ind, entity_ind), End(entity_ind, ind) <= 8 * Len(data.bytes),
           Remembers => wild = FALSE /\ Spans(state, entity_ind - 1) /\ Mixed(state, entity_ind, {})
    PROVE  /\ Done.ind = End(entity_ind, ind)
           /\ Remembers => /\ Done.wild = FALSE /\ Spans(Done.state, entity_ind)
                           /\ Mixed(Done.state, entity_ind + 1, {})
  <1> DEFINE n == entity_ind
             a == ReadField(Start, "user_id")
             b == ReadField(a, "pos_x")
             c == ReadField(b, "pos_y")
             d == ReadField(c, "radius")
             A == With({}, "user_id")
             B == With(A, "pos_x")
             C == With(B, "pos_y")
             D == With(C, "radius")
  <1>1. /\ PosX(n, ind) \in Nat /\ PosY(n, ind) \in Nat /\ Radius(n, ind) \in Nat
        /\ PosX(n, ind) <= 8 * Len(data.bytes) /\ PosY(n, ind) <= 8 * Len(data.bytes)
        /\ Radius(n, ind) <= 8 * Len(data.bytes)
    <2>1. Len(data.bytes) \in Nat
      BY DEF BitVector
    <2> QED
      BY <2>1, Ends
  <1>2. "user_id" \in FieldNames /\ "pos_x" \in FieldNames /\ "pos_y" \in FieldNames
        /\ "radius" \in FieldNames
    BY DEF FieldNames
  <1>3. Start.ind = ind /\ Reading(Start, n, {})
    <2>1. Start.ind = ind /\ Start.wild = wild /\ Start.state = Begun
      BY DEF Start
    <2>2. FieldAt(data, ind, n, "user_id")
      BY Zenon DEF EntityAt
    <2>3. ASSUME Remembers
          PROVE  Start.wild = FALSE /\ Spans(Start.state, n) /\ Mixed(Start.state, n, {})
      BY <2>1, <2>2, <2>3, Begin, Zenon
    <2> QED
      BY <2>1, <2>3, Zenon DEF Reading
  <1>4. a.ind = PosX(n, ind) /\ Reading(a, n, A)
    BY <1>1, <1>2, <1>3, ReadOne, Zenon DEF EntityAt, PosX
  <1> HIDE DEF a, A
  <1>5. b.ind = PosY(n, ind) /\ Reading(b, n, B)
    BY <1>1, <1>2, <1>4, ReadOne, Zenon DEF EntityAt, PosY
  <1> HIDE DEF b, B
  <1>6. c.ind = Radius(n, ind) /\ Reading(c, n, C)
    BY <1>1, <1>2, <1>5, ReadOne, Zenon DEF EntityAt, Radius
  <1> HIDE DEF c, C
  <1>7. d.ind = End(n, ind) /\ Reading(d, n, D)
    BY <1>1, <1>2, <1>6, ReadOne, Zenon DEF EntityAt, End
  <1>8. FieldNames \subseteq D
    BY DEF FieldNames, With, A, B, C
  <1>9. d = Done
    BY Zenon DEF Done, a, b, c
  <1> HIDE DEF d, D
  <1>10. Remembers => Mixed(d.state, n + 1, {})
    BY <1>7, <1>8, MixedNext DEF Reading
  <1> QED
    BY <1>7, <1>9, <1>10, Zenon DEF Reading

-----------------------------------------------------------------------------
(***************************************************************************)
(* Reading what fills the last byte.                                       *)
(***************************************************************************)

\* A reader s that has come to bit o and has written nothing.
Idle(s, o) == s.ind = o /\ s.state = state /\ (wild = FALSE => s.wild = FALSE)

Zero(o) == o \in Nat /\ BitAt(data, o) = 0 /\ InData(data, o)

LEMMA ReadZero ==
    ASSUME NEW s, NEW o, Zero(o), Idle(s, o), NEW f
    PROVE  Idle(ReadField(s, f), o + 1)
  <1>1. o \in Nat /\ BitAt(data, o) # 1 /\ InData(data, o)
    BY DEF Zero
  <1>2. /\ ReadField(s, f).ind = o + 0 + 1 /\ ReadField(s, f).state = s.state
        /\ ReadField(s, f).wild = (s.wild \/ ~InData(data, o + 0))
    <2>1. ~Flag(s) /\ Last(s) = o + 0
      BY <1>1, Zenon DEF Flag, Last, Idle
    <2> QED
      BY <2>1, ReadFieldParts, Zenon
  <1>3. o + 0 = o /\ o + 0 + 1 = o + 1
    BY <1>1
  <1> QED
    BY <1>1, <1>2, <1>3, Zenon DEF Idle

\* Four bits are one more entity, of which nothing was sent.
LEMMA ReadNothing ==
    ASSUME data \in BitVector, ind \in Nat, ind + 4 <= 8 * Len(data.bytes),
           \A k \in Nat : k >= ind => BitAt(data, k) = 0
    PROVE  /\ Done.ind = ind + 4 /\ Done.state = state
           /\ wild = FALSE => Done.wild = FALSE
  <1> DEFINE a == ReadField(Start, "user_id")
             b == ReadField(a, "pos_x")
             c == ReadField(b, "pos_y")
             d == ReadField(c, "radius")
  <1>1. Zero(ind) /\ Zero(ind + 1) /\ Zero(ind + 2) /\ Zero(ind + 3)
    <2>1. Len(data.bytes) \in Nat
      BY DEF BitVector
    <2>2. ASSUME NEW k \in Nat, k >= ind, k < ind + 4
          PROVE  Zero(k)
      <3>1. BitAt(data, k) = 0 /\ k < 8 * Len(data.bytes)
        BY <2>1, <2>2
      <3> QED
        BY <3>1, InDataFact, Zenon DEF Zero
    <2> QED
      BY <2>2
  <1>2. (ind + 1) + 1 = ind + 2 /\ (ind + 2) + 1 = ind + 3 /\ (ind + 3) + 1 = ind + 4
    OBVIOUS
  <1>3. Idle(Start, ind)
    <2>1. Begun = state
      BY <1>1 DEF Begun, Grows, Zero
    <2> QED
      BY <2>1, Zenon DEF Start, Idle
  <1>4. Idle(a, ind + 1)
    BY <1>1, <1>3, ReadZero, Zenon
  <1> HIDE DEF a
  <1>5. Idle(b, (ind + 1) + 1)
    BY <1>1, <1>4, ReadZero, Zenon
  <1> HIDE DEF b
  <1>6. Idle(c, (ind + 2) + 1)
    BY <1>1, <1>2, <1>5, ReadZero, Zenon
  <1> HIDE DEF c
  <1>7. Idle(d, (ind + 3) + 1)
    BY <1>1, <1>2, <1>6, ReadZero, Zenon
  <1>8. d = Done
    BY Zenon DEF Done, a, b, c
  <1> QED
    BY <1>2, <1>7, <1>8, Zenon DEF Idle
-----------------------------------------------------------------------------
(***************************************************************************)
(* The places of the entities.                                             *)
(***************************************************************************)

\* Entity n is at bit o[n], after the header and the epoch.
Offsets(o) ==
    /\ o \in [1 .. Len(world) + 1 -> Nat] /\ o[1] = 2 * Width
    /\ \A n \in 1 .. Len(world) : o[n + 1] = End(n, o[n])

LEMMA OffsetsExist ==
    ASSUME Known
    PROVE  \E o : Offsets(o)
  <1> DEFINE N == Len(world)
             G == [n \in 1 .. N |-> [k \in Nat |-> End(n, k)]]
  <1>1. N \in Nat /\ 2 * Width \in Nat
    BY PacketAssumption DEF Known
  <1> HIDE DEF N
  <1>2. G \in [1 .. N -> [Nat -> Nat]]
    <2>1. \A n, k : k \in Nat => End(n, k) \in Nat
      BY Ends, Zenon
    <2> QED
      BY <2>1
  <1>3. PICK g \in [0 .. N -> Nat] : Runs(g, N, 2 * Width, G)
    <2> HIDE DEF G
    <2> QED
      BY <1>1, <1>2, Iteration, Zenon
  <1>4. g[0] = 2 * Width /\ \A n \in 1 .. N : g[n] = End(n, g[n - 1])
    <2> HIDE DEF G
    <2>1. g[0] = 2 * Width /\ \A n \in 1 .. N : g[n - 1] \in Nat /\ g[n] = G[n][g[n - 1]]
      BY <1>1, <1>3 DEF Runs
    <2>2. \A n \in 1 .. N : \A k \in Nat : G[n][k] = End(n, k)
      BY DEF G
    <2> QED
      BY <2>1, <2>2, Zenon
  <1> DEFINE o == [n \in 1 .. N + 1 |-> g[n - 1]]
  <1>5. o \in [1 .. N + 1 -> Nat] /\ o[1] = 2 * Width
    BY <1>1, <1>4
  <1>6. ASSUME NEW n \in 1 .. N
        PROVE  o[n + 1] = End(n, o[n])
    <2>1. n + 1 \in 1 .. N + 1 /\ n \in 1 .. N + 1 /\ (n + 1) - 1 = n
      BY <1>1
    <2>2. o[n + 1] = g[n] /\ o[n] = g[n - 1]
      BY <2>1
    <2> QED
      BY <1>4, <2>2
  <1> HIDE DEF o
  <1> QED
    BY <1>5, <1>6, Zenon DEF Offsets, N

\* They are after the epoch, a multiple of four, and grow.
LEMMA OffsetFacts ==
    ASSUME Known, NEW o, Offsets(o)
    PROVE  /\ Len(world) \in Nat
           /\ \A n \in 1 .. Len(world) + 1 :
                o[n] \in Nat /\ 2 * Width <= o[n] /\ o[n] % 4 = 0
           /\ \A n \in 1 .. Len(world) :
                /\ o[n] < o[n + 1] /\ o[n + 1] <= o[Len(world) + 1]
                /\ \A m \in 1 .. Len(world) + 1 : n < m => o[n + 1] <= o[m]
  <1> DEFINE N == Len(world)
  <1>1. N \in Nat /\ 2 * Width \in Nat /\ (2 * Width) % 4 = 0
    <2>1. N \in Nat
      BY DEF Known
    <2>2. Width \in Nat /\ Width % 8 = 0
      BY PacketAssumption, Zenon
    <2>3. \A w \in Nat : w % 8 = 0 => 2 * w \in Nat /\ (2 * w) % 4 = 0
      OBVIOUS
    <2> QED
      BY <2>1, <2>2, <2>3, Zenon
  <1>2. /\ o \in [1 .. N + 1 -> Nat] /\ o[1] = 2 * Width
        /\ \A n \in 1 .. N : o[n + 1] = End(n, o[n])
    BY Zenon DEF Offsets
  <1> HIDE DEF N
  <1>3. ASSUME NEW n \in 1 .. N
        PROVE  o[n] < o[n + 1] /\ (o[n] % 4 = 0 => o[n + 1] % 4 = 0)
    <2>1. o[n] \in Nat /\ o[n + 1] = End(n, o[n])
      BY <1>1, <1>2
    <2>2. o[n] < End(n, o[n]) /\ (o[n] % 4 = 0 => End(n, o[n]) % 4 = 0)
      <3>1. \A k \in Nat : k < End(n, k) /\ (k % 4 = 0 => End(n, k) % 4 = 0)
        BY Ends
      <3> QED
        BY <2>1, <3>1, Zenon
    <2> QED
      BY <2>1, <2>2, Zenon
  <1> DEFINE T == {n \in 0 .. N : /\ 2 * Width <= o[n + 1] /\ o[n + 1] % 4 = 0
                                  /\ \A m \in 1 .. n + 1 : o[m] <= o[n + 1]}
  <1>4. 0 \in T
    BY <1>1, <1>2
  <1>5. ASSUME NEW n \in 1 .. N, n - 1 \in T
        PROVE  n \in T
    <2>1. /\ 2 * Width <= o[n] /\ o[n] % 4 = 0 /\ \A m \in 1 .. n : o[m] <= o[n]
          /\ n \in 0 .. N
      BY <1>1, <1>5
    <2>2. o[n] < o[n + 1] /\ o[n + 1] % 4 = 0
      BY <1>3, <2>1
    <2>3. \A m \in 1 .. n + 1 : o[m] \in Nat
      BY <1>1, <1>2
    <2>4. 2 * Width <= o[n + 1] /\ \A m \in 1 .. n + 1 : o[m] <= o[n + 1]
      BY <1>1, <2>1, <2>2, <2>3
    <2> QED
      BY <2>1, <2>2, <2>4
  <1> HIDE DEF T
  <1>6. \A n \in 0 .. N : n \in T
    BY <1>1, <1>4, <1>5, Induction, Zenon
  <1>7. ASSUME NEW n \in 1 .. N + 1
        PROVE  /\ o[n] \in Nat /\ 2 * Width <= o[n] /\ o[n] % 4 = 0
               /\ \A m \in 1 .. n : o[m] <= o[n]
    <2>1. n - 1 \in 0 .. N /\ (n - 1) + 1 = n
      BY <1>1
    <2>2. n - 1 \in T
      BY <1>6, <2>1
    <2> QED
      BY <1>2, <2>1, <2>2 DEF T
  <1>8. ASSUME NEW n \in 1 .. N
        PROVE  /\ o[n] < o[n + 1] /\ o[n + 1] <= o[N + 1]
               /\ \A m \in 1 .. N + 1 : n < m => o[n + 1] <= o[m]
    BY <1>1, <1>3, <1>7
  <1> QED
    BY <1>1, <1>7, <1>8 DEF N

\* Where the first l bits are kept, so are the entities that end there.
LEMMA WholeKept ==
    ASSUME Known, NEW o, Offsets(o), NEW u, NEW v, NEW l \in 1 .. Len(world) + 1,
           Agree(u, v, o[l])
    PROVE  /\ EpochAt(v) => EpochAt(u)
           /\ \A n \in 1 .. Len(world) : n < l /\ EntityAt(v, o[n], n) => EntityAt(u, o[n], n)
  <1>1. o[l] \in Nat /\ 2 * Width <= o[l]
    BY OffsetFacts
  <1>2. EpochAt(v) => EpochAt(u)
    BY <1>1, EpochKept, Zenon
  <1>3. ASSUME NEW n \in 1 .. Len(world), n < l, EntityAt(v, o[n], n)
        PROVE  EntityAt(u, o[n], n)
    <2>1. o[n] \in Nat /\ o[n + 1] <= o[l]
      BY <1>3, OffsetFacts
    <2>2. o[n + 1] = End(n, o[n])
      BY Zenon DEF Offsets
    <2>3. End(n, o[n]) <= o[l]
      BY <2>1, <2>2, Zenon
    <2> QED
      BY <1>1, <1>3, <2>1, <2>3, EntityKept, Zenon
  <1> QED
    BY <1>2, <1>3, Zenon
-----------------------------------------------------------------------------
(***************************************************************************)
(* The inductive invariant.                                                *)
(***************************************************************************)

\* The sender has written the entities before ind.
Encoding(o) ==
    /\ ind \in 1 .. Len(world) + 1 /\ Filled(data, o[ind]) /\ EpochAt(data)
    /\ \A n \in 1 .. Len(world) : n < ind => EntityAt(data, o[n], n)
    /\ entity_ind = 1 /\ state = before /\ wild = FALSE

\* The receiver has all of them.
Whole(o) ==
    /\ Received(data, o[Len(world) + 1]) /\ EpochAt(data)
    /\ \A n \in 1 .. Len(world) : EntityAt(data, o[n], n)

\* It is at the next entity, at what fills the last byte, or past that.
At(o) ==
    \/ entity_ind \in 1 .. Len(world) + 1 /\ ind = o[entity_ind]
    \/ entity_ind = Len(world) + 2 /\ ind = 8 * Len(data.bytes)

\* The first n entities were read.
Caught(n) == Remembers => wild = FALSE /\ Spans(state, n) /\ Mixed(state, n + 1, {})

Decoding(o) ==
    /\ Whole(o) /\ At(o)
    /\ Caught(IF entity_ind <= Len(world) THEN entity_ind - 1 ELSE Len(world))

Drawn == answer = epoch /\ Caught(Len(world))

Stage(o) ==
    \/ phase = "encode" /\ Encoding(o)
    \/ phase = "decode" /\ Decoding(o)
    \/ phase = "drawn" /\ Drawn

IInv == Known /\ \E o : Offsets(o) /\ Stage(o)

LEMMA EmptyFilled == Filled(Empty, 0)
  BY DEF Filled, Empty, BitVector, BitAt, InData

LEMMA InitInv == Init => IInv
  <1> SUFFICES ASSUME Init
               PROVE  IInv
    OBVIOUS
  <1>1. Known
    <2>1. ASSUME NEW w \in Snapshots
          PROVE  w \in Seq(Fields)
      <3>1. PICK n \in 0 .. MaxCount : w \in [1 .. n -> Entities]
        BY DEF Snapshots
      <3>2. Entities \subseteq Fields /\ n \in Nat
        BY PacketAssumption DEF Fields
      <3> QED
        BY <3>1, <3>2
    <2>2. /\ world \in Snapshots /\ world # <<>> /\ base \in Snapshots
          /\ Len(base) <= Len(world) /\ state \in {<<>>, base, world \o base} /\ before = state
          /\ epoch \in Values /\ key \in Key /\ behind \in [Hosts -> Behind]
      BY PacketAssumption DEF Init
    <2>3. world \in Seq(Fields) /\ base \in Seq(Fields)
      BY <2>1, <2>2
    <2>4. Len(world) \in Nat /\ Len(world) # 0
      <3>1. Len(world) = 0 => world = <<>>
        BY <2>3
      <3> QED
        BY <2>2, <2>3, <3>1
    <2>5. before \in Seq(Fields)
      <3>1. <<>> \in Seq(Fields) /\ world \o base \in Seq(Fields)
        BY <2>3
      <3> QED
        BY <2>2, <2>3, <3>1, Zenon
    <2> QED
      BY <2>2, <2>3, <2>4, <2>5 DEF Known
  <1>2. PICK o : Offsets(o)
    BY <1>1, OffsetsExist
  <1>3. Filled(data, 2 * Width) /\ EpochAt(data)
    <2> DEFINE u == PushAll(Empty, Header)
               v == PushAll(u, epoch)
    <2>1. Header \in Values /\ epoch \in Values /\ Width \in Nat /\ Width > 0
      BY <1>1, PacketAssumption DEF Known
    <2>2. 0 \in Nat /\ Pushed(Empty, 0, Header, Width, u)
      BY <2>1, EmptyFilled, PushValue
    <2>3. Filled(u, 0 + Width) /\ 0 + Width = Width
      BY <2>1, <2>2 DEF Pushed
    <2> HIDE DEF u
    <2>4. Pushed(u, Width, epoch, Width, v)
      BY <2>1, <2>3, PushValue
    <2>5. v = data
      BY Zenon DEF Init, u
    <2> HIDE DEF v
    <2>6. Filled(data, Width + Width) /\ Width + Width = 2 * Width
      BY <2>1, <2>4, <2>5 DEF Pushed
    <2>7. \A k \in Nat : Width <= k /\ k < Width + Width => BitAt(data, k) = epoch[k - Width + 1]
      BY <2>4, <2>5, Zenon DEF Pushed
    <2>8. ASSUME NEW i \in 1 .. Width
          PROVE  BitAt(data, Width + i - 1) = epoch[i]
      <3>1. /\ Width + i - 1 \in Nat /\ Width <= Width + i - 1
            /\ Width + i - 1 < Width + Width /\ (Width + i - 1) - Width + 1 = i
        BY <2>1
      <3> QED
        BY <2>7, <3>1
    <2>9. EpochAt(data)
      BY <2>8, Zenon DEF EpochAt
    <2> QED
      BY <2>6, <2>9
  <1>4. phase = "encode" /\ ind = 1 /\ entity_ind = 1 /\ state = before /\ wild = FALSE
    BY DEF Init
  <1>5. Encoding(o)
    <2>1. Len(world) \in Nat
      BY <1>1 DEF Known
    <2>2. ind \in 1 .. Len(world) + 1 /\ \A n \in 1 .. Len(world) : ~(n < ind)
      BY <1>4, <2>1
    <2>3. Filled(data, o[ind])
      BY <1>2, <1>3, <1>4 DEF Offsets
    <2> QED
      BY <1>3, <1>4, <2>2, <2>3, Zenon DEF Encoding
  <1> QED
    BY <1>1, <1>2, <1>4, <1>5, Zenon DEF IInv, Stage

\* The world, what the client acknowledged and what it drew stay.
Rigid == UNCHANGED <<base, world, epoch, key, behind, before>>

LEMMA KnownStays ==
    ASSUME Known, Rigid
    PROVE  /\ Known'
           /\ \A o : Offsets(o) => Offsets(o)'
  <1>1. Known'
    BY DEF Known, Rigid
  <1>2. ASSUME NEW o, Offsets(o)
        PROVE  Offsets(o)'
    BY <1>2 DEF Rigid, Offsets, End, Radius, PosY, PosX, Size, Sent, Unequal
  <1> QED
    BY <1>1, <1>2

\* So does the layout.
LEMMA LayoutStays ==
    ASSUME Rigid, NEW o
    PROVE  /\ EpochAt(data') => EpochAt(data)'
           /\ \A n : EntityAt(data', o[n], n) => EntityAt(data, o[n], n)'
  <1>1. EpochAt(data') => EpochAt(data)'
    BY DEF Rigid, EpochAt
  <1>2. ASSUME NEW n, EntityAt(data', o[n], n)
        PROVE  EntityAt(data, o[n], n)'
    BY <1>2 DEF Rigid, EntityAt, FieldAt, Radius, PosY, PosX, Size, Sent, Unequal
  <1> QED
    BY <1>1, <1>2

LEMMA EncodeStep ==
    ASSUME IInv, EncodeEntity
    PROVE  IInv'
  <1>1. PICK o : Known /\ Offsets(o) /\ Encoding(o)
    BY Zenon DEF IInv, Stage, EncodeEntity
  <1>2. /\ ind \in 1 .. Len(world) /\ Filled(data, o[ind]) /\ EpochAt(data)
        /\ \A n \in 1 .. Len(world) : n < ind => EntityAt(data, o[n], n)
        /\ Len(world) \in Nat
    BY <1>1 DEF Encoding, EncodeEntity, Known
  <1>3. /\ Rigid /\ phase' = "encode" /\ entity_ind' = 1 /\ state' = before' /\ wild' = FALSE
        /\ data' = push_entity(data, ind) /\ ind' = ind + 1
    BY <1>1 DEF EncodeEntity, Rigid, Encoding, push_entity
  <1>4. Known' /\ Offsets(o)'
    BY <1>1, <1>3, KnownStays, Zenon
  <1>5. o[ind] \in Nat /\ world[ind] \in Fields /\ o[ind + 1] = End(ind, o[ind])
        /\ ind \in 1 .. Len(world) + 1
    BY <1>1, <1>2, OffsetFacts DEF Offsets, Known
  <1>6. /\ Filled(data', o[ind + 1]) /\ Agree(data', data, o[ind])
        /\ EntityAt(data', o[ind], ind)
    BY <1>2, <1>3, <1>5, PushEntity, Zenon
  <1>7. /\ EpochAt(data')
        /\ \A n \in 1 .. Len(world) : n < ind => EntityAt(data', o[n], n)
    BY <1>1, <1>2, <1>5, <1>6, WholeKept, Zenon
  <1>8. \A n \in 1 .. Len(world) : n < ind + 1 => EntityAt(data', o[n], n)
    <2>1. \A n \in 1 .. Len(world) : n < ind + 1 => n < ind \/ n = ind
      BY <1>2
    <2> QED
      BY <1>6, <1>7, <2>1, Zenon
  <1>9. Encoding(o)'
    <2>1. world' = world
      BY <1>3, Zenon DEF Rigid
    <2>2. \A n \in 1 .. Len(world') : n < ind' => EntityAt(data, o[n], n)'
      BY <1>3, <1>8, <2>1, LayoutStays, Zenon
    <2>3. ind' \in 1 .. Len(world') + 1 /\ Filled(data', o[ind'])
      BY <1>2, <1>3, <1>6, <2>1
    <2>4. EpochAt(data)'
      BY <1>3, <1>7, LayoutStays, Zenon
    <2> QED
      BY <1>3, <2>2, <2>3, <2>4, Zenon DEF Encoding
  <1> QED
    BY <1>3, <1>4, <1>9, Zenon DEF IInv, Stage

\* What the server sends arrives as it was, and at both ends the memory
\* behind it is as it was.
LEMMA Delivered ==
    ASSUME Known, data.bytes \in Seq(Byte), Deliver
    PROVE  data' = [bytes |-> data.bytes, counter |-> 0] /\ behind' = behind
  <1> DEFINE b == data.bytes
             N == Len(b)
             sent == subscribe(b \o behind["server"], N)
             c == Packet(sent, N)
             received == subscribe(c \o behind["client"], N)
             d == Packet(received, N)
  <1>1. /\ behind["server"] \in [1 .. 3 -> Byte] /\ behind["client"] \in [1 .. 3 -> Byte]
        /\ behind \in [Hosts -> Behind] /\ key \in Key
    BY PacketAssumption DEF Known, Hosts
  <1>2. /\ data' = [bytes |-> d, counter |-> 0]
        /\ behind' = [e \in Hosts |-> IF e = "server" THEN Rear(sent, N) ELSE Rear(received, N)]
    BY Zenon DEF Deliver, Packet, Rear
  <1>3. b \in Seq(Byte)
    OBVIOUS
  <1> HIDE DEF b
  <1>4. Encrypted(c, b) /\ Rear(sent, N) = behind["server"]
    BY <1>1, <1>3, SubscribeMemory
  <1> HIDE DEF sent, c
  <1>5. c \in Seq(Byte) /\ N = Len(c)
    BY <1>4 DEF Encrypted
  <1>6. Encrypted(d, c) /\ Rear(received, N) = behind["client"]
    <2> HIDE DEF N
    <2> QED
      BY <1>1, <1>5, SubscribeMemory
  <1> HIDE DEF received, d, N
  <1>7. d = b
    BY <1>1, <1>3, <1>4, <1>6, DecryptedBack
  <1>8. behind' = [e \in Hosts |-> behind[e]]
    BY <1>2, <1>4, <1>6 DEF Hosts
  <1> QED
    BY <1>1, <1>2, <1>7, <1>8 DEF b

LEMMA DeliverStep ==
    ASSUME IInv, Deliver
    PROVE  IInv'
  <1>1. PICK o : Known /\ Offsets(o) /\ Encoding(o)
    BY Zenon DEF IInv, Stage, Deliver
  <1> DEFINE N == Len(world)
  <1>2. /\ N \in Nat /\ N >= 1 /\ ind = N + 1 /\ Filled(data, o[N + 1]) /\ EpochAt(data)
        /\ \A n \in 1 .. N : EntityAt(data, o[n], n)
    BY <1>1 DEF Encoding, Deliver, Known
  <1>3. /\ Rigid /\ phase' = "decode" /\ entity_ind' = 1 /\ state' = before' /\ wild' = FALSE
        /\ ind' = 2 * Width
    <2>1. data.bytes \in Seq(Byte)
      BY <1>2 DEF Filled, BitVector
    <2>2. behind' = behind
      BY <1>1, <2>1, Delivered
    <2> QED
      BY <1>1, <2>2 DEF Deliver, Rigid, Encoding
  <1>4. Known' /\ Offsets(o)'
    BY <1>1, <1>3, KnownStays, Zenon
  <1>5. data \in BitVector /\ data' = [bytes |-> data.bytes, counter |-> 0]
    <2>1. data \in BitVector
      BY <1>2 DEF Filled
    <2>2. data.bytes \in Seq(Byte)
      BY <2>1 DEF BitVector
    <2> QED
      BY <1>1, <2>1, <2>2, Delivered, Zenon
  <1>6. \A k : BitAt(data', k) = BitAt(data, k)
    BY <1>5 DEF BitAt, InData
  <1>7. Received(data', o[N + 1])
    <2>1. data' \in BitVector /\ data'.bytes = data.bytes /\ data'.counter = 0
      BY <1>5 DEF BitVector
    <2> QED
      BY <1>2, <1>6, <2>1 DEF Filled, Received
  <1>8. Agree(data', data, o[N + 1])
    BY <1>6, Zenon DEF Agree
  <1>9. EpochAt(data') /\ \A n \in 1 .. N : EntityAt(data', o[n], n)
    <2>1. N + 1 \in 1 .. N + 1 /\ \A n \in 1 .. N : n < N + 1
      BY <1>2
    <2> QED
      BY <1>1, <1>2, <1>8, <2>1, WholeKept, Zenon
  <1>10. Whole(o)'
    <2>1. world' = world
      BY <1>3, Zenon DEF Rigid
    <2>2. EpochAt(data)' /\ \A n \in 1 .. Len(world') : EntityAt(data, o[n], n)'
      BY <1>3, <1>9, <2>1, LayoutStays, Zenon
    <2> QED
      BY <1>7, <2>1, <2>2, Zenon DEF Whole
  <1>11. At(o)'
    <2>1. o[1] = 2 * Width /\ world' = world
      BY <1>1, <1>3, Zenon DEF Offsets, Rigid
    <2> QED
      BY <1>2, <1>3, <2>1 DEF At
  <1>12. Spans(state, 0)' /\ Mixed(state, 1, {})' /\ Len(world') >= 1
    <2>1. state' \in Seq(Fields) /\ state' = before' /\ Len(before') \in Nat /\ Len(world') >= 1
      BY <1>3, <1>4 DEF Known
    <2>2. Spans(state, 0)'
      BY <2>1 DEF Spans
    <2>3. ASSUME NEW m \in 1 .. Len(state'), NEW f \in FieldNames
          PROVE  IF m \in 1 .. Len(world') /\ Sent(m, f)' /\ (m < 1 \/ (m = 1 /\ f \in {}))
                 THEN state'[m][f] = world'[m][f]
                 ELSE m <= Len(before') => state'[m][f] = before'[m][f]
      BY <2>1
    <2>4. Mixed(state, 1, {})'
      BY <2>1, <2>3, Zenon DEF Mixed
    <2> QED
      BY <2>1, <2>2, <2>4
  <1>13. Caught(IF entity_ind <= Len(world) THEN entity_ind - 1 ELSE Len(world))'
    <2>1. 1 - 1 = 0 /\ 0 + 1 = 1 /\ 1 <= Len(world')
      BY <1>4, <1>12 DEF Known
    <2> QED
      BY <1>3, <1>12, <2>1, Zenon DEF Caught
  <1> QED
    BY <1>3, <1>4, <1>10, <1>11, <1>13, Zenon DEF IInv, Stage, Decoding

LEMMA CaughtStays ==
    ASSUME Rigid, NEW n, Remembers => wild' = FALSE /\ Spans(state', n) /\ Mixed(state', n + 1, {})
    PROVE  Caught(n)'
  <1>1. Remembers' <=> Remembers
    BY DEF Rigid, Remembers
  <1>2. Spans(state', n) => Spans(state, n)'
    BY DEF Rigid, Spans
  <1>3. Mixed(state', n + 1, {}) => Mixed(state, n + 1, {})'
    BY DEF Rigid, Mixed, Sent, Unequal
  <1> QED
    BY <1>1, <1>2, <1>3, Zenon DEF Caught

\* What fills the last byte is nothing, or four bits.
LEMMA Rest ==
    ASSUME NEW o \in Nat, NEW n \in Nat, o % 4 = 0, o < 8 * n, 8 * n < o + 8
    PROVE  o + 4 = 8 * n
  OBVIOUS

LEMMA DecodeStep ==
    ASSUME IInv, DecodeEntity
    PROVE  IInv'
  <1>1. PICK o : Known /\ Offsets(o) /\ Decoding(o)
    BY Zenon DEF IInv, Stage, DecodeEntity
  <1> DEFINE N == Len(world)
             L == 8 * Len(data.bytes)
  <1>2. /\ Whole(o) /\ At(o) /\ data \in BitVector /\ data.counter = 0 /\ L \in Nat
        /\ o[N + 1] <= L /\ L < o[N + 1] + 8 /\ ind < L
        /\ \A k \in Nat : k >= o[N + 1] => BitAt(data, k) = 0
        /\ \A n \in 1 .. N : EntityAt(data, o[n], n)
    <2>1. Decoding(o) /\ ind < bit_size(data)
      BY <1>1, Zenon DEF DecodeEntity
    <2>2. Whole(o) /\ At(o) /\ Received(data, o[N + 1]) /\ \A n \in 1 .. N : EntityAt(data, o[n], n)
      BY <2>1, Zenon DEF Decoding, Whole
    <2>3. Len(data.bytes) \in Nat /\ data.counter = 0
      BY <2>2 DEF Received, BitVector
    <2>4. bit_size(data) = L
      BY <2>3 DEF bit_size
    <2> QED
      BY <2>1, <2>2, <2>3, <2>4 DEF Received
  <1>3. /\ Rigid /\ phase' = "decode" /\ data' = data /\ entity_ind' = entity_ind + 1
        /\ ind' = Done.ind /\ state' = Done.state /\ wild' = Done.wild
    BY <1>1 DEF DecodeEntity, Rigid, Done, Start, Begun
  <1>4. Known' /\ Offsets(o)'
    BY <1>1, <1>3, KnownStays, Zenon
  <1>5. Whole(o)'
    <2>1. EpochAt(data') /\ \A n \in 1 .. N : EntityAt(data', o[n], n)
      BY <1>2, <1>3, Zenon DEF Whole
    <2>2. world' = world
      BY <1>3, Zenon DEF Rigid
    <2>3. EpochAt(data)' /\ \A n \in 1 .. Len(world') : EntityAt(data, o[n], n)'
      BY <1>3, <2>1, <2>2, LayoutStays, Zenon
    <2>4. Received(data', o[N + 1])
      BY <1>2, <1>3, Zenon DEF Whole
    <2> QED
      BY <2>2, <2>3, <2>4, Zenon DEF Whole
  <1>6. N \in Nat /\ o[N + 1] \in Nat /\ o[N + 1] % 4 = 0 /\ world' = world
    BY <1>1, <1>3, OffsetFacts DEF Rigid
  <1>7. CASE entity_ind \in 1 .. N
    <2>1. ind = o[entity_ind] /\ entity_ind # N + 2 /\ entity_ind <= N
      BY <1>2, <1>6, <1>7 DEF At
    <2>2. /\ ind \in Nat /\ o[entity_ind + 1] <= o[N + 1] /\ o[entity_ind + 1] = End(entity_ind, ind)
          /\ o[entity_ind + 1] \in Nat
      <3>1. /\ \A n \in 1 .. N + 1 : o[n] \in Nat
            /\ \A n \in 1 .. N : o[n + 1] <= o[N + 1]
        BY <1>1, OffsetFacts, Zenon
      <3>2. \A n \in 1 .. N : o[n + 1] = End(n, o[n])
        BY <1>1, Zenon DEF Offsets
      <3>3. entity_ind \in 1 .. N + 1 /\ entity_ind + 1 \in 1 .. N + 1
        BY <1>6, <1>7
      <3> QED
        BY <1>7, <2>1, <3>1, <3>2, <3>3, Zenon
    <2>3. EntityAt(data, ind, entity_ind)
      BY <1>2, <1>7, <2>1, Zenon
    <2>4. End(entity_ind, ind) <= L
      BY <1>2, <1>6, <2>2
    <2>5. (entity_ind - 1) + 1 = entity_ind
      BY <1>6, <1>7
    <2>6. Remembers => wild = FALSE /\ Spans(state, entity_ind - 1) /\ Mixed(state, entity_ind, {})
      BY <1>1, <2>1, <2>5, Zenon DEF Decoding, Caught
    <2>7. /\ ind' = End(entity_ind, ind)
          /\ Remembers => /\ wild' = FALSE /\ Spans(state', entity_ind)
                          /\ Mixed(state', entity_ind + 1, {})
      BY <1>1, <1>2, <1>3, <1>7, <2>2, <2>3, <2>4, <2>6, ReadEntity, Zenon
    <2>8. PICK n : n = entity_ind
      OBVIOUS
    <2>9. At(o)'
      <3>1. entity_ind' \in 1 .. N + 1 /\ ind' = o[entity_ind']
        BY <1>3, <1>6, <1>7, <2>2, <2>7
      <3> QED
        BY <1>6, <3>1, Zenon DEF At
    <2>10. Caught(n)'
      BY <1>3, <2>7, <2>8, CaughtStays, Zenon
    <2>11. n = IF entity_ind' <= Len(world') THEN entity_ind' - 1 ELSE Len(world')
      BY <1>3, <1>6, <1>7, <2>8
    <2>12. Caught(IF entity_ind <= Len(world) THEN entity_ind - 1 ELSE Len(world))'
      BY <2>10, <2>11, Zenon DEF Caught
    <2> QED
      BY <1>3, <1>4, <1>5, <2>9, <2>12, Zenon DEF IInv, Stage, Decoding
  <1>8. CASE entity_ind = N + 1
    <2>1. ind = o[N + 1]
      BY <1>6, <1>8, <1>2 DEF At
    <2>2. ind \in Nat /\ ind + 4 = L
      <3>1. Len(data.bytes) \in Nat
        BY <1>2 DEF BitVector
      <3> QED
        BY <1>2, <1>6, <2>1, <3>1, Rest
    <2>3. \A k \in Nat : k >= ind => BitAt(data, k) = 0
      BY <1>2, <2>1, Zenon
    <2>4. ind' = ind + 4 /\ state' = state /\ (wild = FALSE => wild' = FALSE)
      <3>1. ind + 4 <= L
        BY <1>2, <2>2
      <3> QED
        BY <1>2, <1>3, <2>2, <2>3, <3>1, ReadNothing, Zenon
    <2>5. PICK n : n = N
      OBVIOUS
    <2>6. Remembers => wild = FALSE /\ Spans(state, n) /\ Mixed(state, n + 1, {})
      <3>1. ~(entity_ind <= N)
        BY <1>6, <1>8
      <3> QED
        BY <1>1, <2>5, <3>1, Zenon DEF Decoding, Caught
    <2>7. Caught(n)'
      BY <1>3, <2>4, <2>6, CaughtStays, Zenon
    <2>8. n = IF entity_ind' <= Len(world') THEN entity_ind' - 1 ELSE Len(world')
      BY <1>3, <1>6, <1>8, <2>5
    <2>9. Caught(IF entity_ind <= Len(world) THEN entity_ind - 1 ELSE Len(world))'
      BY <2>7, <2>8, Zenon DEF Caught
    <2>10. At(o)'
      <3>1. entity_ind' = N + 2 /\ ind' = 8 * Len(data'.bytes)
        BY <1>3, <1>6, <1>8, <2>2, <2>4
      <3> QED
        BY <1>6, <3>1, Zenon DEF At
    <2> QED
      BY <1>3, <1>4, <1>5, <2>9, <2>10, Zenon DEF IInv, Stage, Decoding
  <1>9. entity_ind \in 1 .. N \/ entity_ind = N + 1
    BY <1>2, <1>6 DEF At
  <1> QED
    BY <1>7, <1>8, <1>9

LEMMA AnswerStep ==
    ASSUME IInv, Answer
    PROVE  IInv'
  <1>1. PICK o : Known /\ Offsets(o) /\ Decoding(o)
    BY Zenon DEF IInv, Stage, Answer
  <1> DEFINE N == Len(world)
             L == 8 * Len(data.bytes)
  <1>2. /\ At(o) /\ EpochAt(data) /\ L \in Nat /\ o[N + 1] <= L /\ ind >= L
    <2>1. Decoding(o) /\ ind >= bit_size(data)
      BY <1>1, Zenon DEF Answer
    <2>2. At(o) /\ Received(data, o[N + 1]) /\ EpochAt(data)
      BY <2>1, Zenon DEF Decoding, Whole
    <2>3. Len(data.bytes) \in Nat /\ data.counter = 0
      BY <2>2 DEF Received, BitVector
    <2>4. bit_size(data) = L
      BY <2>3 DEF bit_size
    <2> QED
      BY <2>1, <2>2, <2>3, <2>4 DEF Received
  <1>3. /\ Rigid /\ phase' = "drawn" /\ state' = state /\ wild' = wild
        /\ answer' = ReadValue(data, Width)
    BY DEF Answer, Rigid
  <1>4. Known' /\ Offsets(o)'
    BY <1>1, <1>3, KnownStays, Zenon
  <1>5. N \in Nat /\ o[N + 1] \in Nat /\ world' = world
    BY <1>1, <1>3, OffsetFacts DEF Rigid
  <1>6. ~(entity_ind \in 1 .. N)
    <2>1. SUFFICES ASSUME entity_ind \in 1 .. N
                   PROVE  FALSE
      OBVIOUS
    <2>2. ind = o[entity_ind]
      BY <1>2, <1>5, <2>1 DEF At
    <2>3. o[entity_ind] < o[entity_ind + 1] /\ o[entity_ind + 1] <= o[N + 1]
          /\ o[entity_ind] \in Nat /\ o[entity_ind + 1] \in Nat
      <3>1. entity_ind \in 1 .. N + 1 /\ entity_ind + 1 \in 1 .. N + 1
        BY <1>5, <2>1
      <3> QED
        BY <1>1, <2>1, <3>1, OffsetFacts, Zenon
    <2> QED
      BY <1>2, <1>5, <2>2, <2>3
  <1>7. PICK n : n = N
    OBVIOUS
  <1>8. Remembers => wild = FALSE /\ Spans(state, n) /\ Mixed(state, n + 1, {})
    <2>1. n = IF entity_ind <= N THEN entity_ind - 1 ELSE N
      BY <1>2, <1>5, <1>6, <1>7 DEF At
    <2>2. Caught(n)
      BY <1>1, <2>1, Zenon DEF Decoding
    <2> QED
      BY <2>2, Zenon DEF Caught
  <1>9. Caught(n)' /\ n = Len(world')
    BY <1>3, <1>5, <1>7, <1>8, CaughtStays, Zenon
  <1>10. Caught(Len(world))'
    BY <1>9, Zenon DEF Caught
  <1>11. answer' = epoch'
    <2>1. epoch \in Values /\ epoch' = epoch
      BY <1>1, <1>3 DEF Known, Rigid
    <2>2. epoch = [i \in 1 .. Width |-> epoch[i]]
      BY <2>1 DEF Values
    <2>3. [i \in 1 .. Width |-> BitAt(data, Width + i - 1)] = [i \in 1 .. Width |-> epoch[i]]
      BY <1>2 DEF EpochAt
    <2> QED
      BY <1>3, <2>1, <2>2, <2>3, Zenon DEF ReadValue
  <1> QED
    BY <1>3, <1>4, <1>10, <1>11, Zenon DEF IInv, Stage, Drawn

LEMMA StutterStep ==
    ASSUME IInv, UNCHANGED vars
    PROVE  IInv'
  <1>1. PICK o : Known /\ Offsets(o) /\ Stage(o)
    BY Zenon DEF IInv
  <1>2. Rigid /\ UNCHANGED <<phase, data, ind, entity_ind, state, answer, wild>>
    BY DEF vars, Rigid
  <1>3. Known' /\ Offsets(o)'
    BY <1>1, <1>2, KnownStays, Zenon
  <1>4. world' = world
    BY <1>2, Zenon DEF Rigid
  <1>5. EpochAt(data) => EpochAt(data)'
    BY <1>2, LayoutStays, Zenon
  <1>6. ASSUME NEW n, EntityAt(data, o[n], n)
        PROVE  EntityAt(data, o[n], n)'
    <2>1. EntityAt(data', o[n], n)
      BY <1>2, <1>6, Zenon
    <2> QED
      BY <1>2, <2>1, LayoutStays, Zenon
  <1>7. ASSUME NEW n, Caught(n)
        PROVE  Caught(n)'
    <2>1. Remembers => wild' = FALSE /\ Spans(state', n) /\ Mixed(state', n + 1, {})
      BY <1>2, <1>7, Zenon DEF Caught
    <2> QED
      BY <1>2, <2>1, CaughtStays, Zenon
  <1>8. ASSUME Encoding(o)
        PROVE  Encoding(o)'
    <2>1. \A n \in 1 .. Len(world') : n < ind' => EntityAt(data, o[n], n)'
      BY <1>2, <1>4, <1>6, <1>8, Zenon DEF Encoding
    <2>2. state' = before'
      BY <1>2, <1>8, Zenon DEF Encoding, Rigid
    <2> QED
      BY <1>2, <1>4, <1>5, <1>8, <2>1, <2>2, Zenon DEF Encoding
  <1>9. ASSUME Decoding(o)
        PROVE  Decoding(o)'
    <2>1. PICK n : n = IF entity_ind <= Len(world) THEN entity_ind - 1 ELSE Len(world)
      OBVIOUS
    <2>2. Caught(n)
      BY <1>9, <2>1, Zenon DEF Decoding
    <2>3. Caught(n)'
      BY <1>7, <2>2, Zenon
    <2>4. Caught(IF entity_ind <= Len(world) THEN entity_ind - 1 ELSE Len(world))'
      BY <1>2, <1>4, <2>1, <2>3, Zenon DEF Caught
    <2>5. At(o)'
      BY <1>2, <1>4, <1>9, Zenon DEF Decoding, At
    <2>6. \A m \in 1 .. Len(world') : EntityAt(data, o[m], m)'
      BY <1>4, <1>6, <1>9, Zenon DEF Decoding, Whole
    <2>7. Whole(o)'
      BY <1>2, <1>4, <1>5, <1>9, <2>6, Zenon DEF Decoding, Whole
    <2> QED
      BY <2>4, <2>5, <2>7, Zenon DEF Decoding
  <1>10. ASSUME Drawn
         PROVE  Drawn'
    <2>1. PICK n : n = Len(world)
      OBVIOUS
    <2>2. Caught(n)'
      BY <1>7, <1>10, <2>1, Zenon DEF Drawn
    <2>3. Caught(Len(world))'
      BY <1>4, <2>1, <2>2, Zenon DEF Caught
    <2> QED
      BY <1>2, <1>10, <2>3, Zenon DEF Drawn, Rigid
  <1>11. Stage(o)'
    BY <1>1, <1>2, <1>8, <1>9, <1>10, Zenon DEF Stage
  <1> QED
    BY <1>3, <1>11, Zenon DEF IInv

-----------------------------------------------------------------------------
(***************************************************************************)
(* The theorems.                                                           *)
(***************************************************************************)

\* What is written bit by bit is read back field by field.
THEOREM PacketRead == Spec => []IInv
  <1>1. IInv /\ [Next]_vars => IInv'
    BY EncodeStep, DeliverStep, DecodeStep, AnswerStep, StutterStep, Zenon DEF Next
  <1> QED
    BY InitInv, <1>1, PTL DEF Spec

\* The decoding loop reads no bit past the end of what was received, and writes
\* no field past the entities of a client that has what it acknowledged.
THEOREM DecodingStaysIn == Spec => []DecodingInBounds
  <1>1. IInv => DecodingInBounds
    BY Zenon DEF IInv, Stage, Encoding, Decoding, Drawn, Caught, DecodingInBounds, Remembers
  <1> QED
    BY PacketRead, <1>1, PTL

\* Encrypting and decrypting a packet of any length leave the bytes behind it as
\* they were, though those of a last int that it does not fill are written.
THEOREM RearIsKept == Spec => BehindKept
  <1>1. IInv /\ [Next]_vars => [behind' = behind]_vars
    <2> SUFFICES ASSUME IInv, Next PROVE behind' = behind
      OBVIOUS
    <2>1. CASE Deliver
      <3>1. PICK o : Known /\ Encoding(o)
        BY <2>1, Zenon DEF IInv, Stage, Deliver
      <3>2. data.bytes \in Seq(Byte)
        BY <3>1 DEF Encoding, Filled, BitVector
      <3> QED
        BY <2>1, <3>1, <3>2, Delivered
    <2>2. CASE EncodeEntity \/ DecodeEntity \/ Answer
      BY <2>2 DEF EncodeEntity, DecodeEntity, Answer
    <2> QED
      BY <2>1, <2>2 DEF Next
  <1> QED
    BY PacketRead, <1>1, PTL DEF Spec, BehindKept

LEMMA UnsentAlike ==
    ASSUME NEW n, NEW f, ~Sent(n, f)
    PROVE  Alike(f, base[n][f], world[n][f])
  BY Zenon DEF Sent, Unequal, Alike

\* The client draws the world, and answers with its epoch.
THEOREM WorldDrawn == Spec => []DrawsTheWorld
  <1>1. ASSUME IInv, phase = "drawn"
        PROVE  /\ answer = epoch
               /\ before = base => /\ Len(state) = Len(world)
                                   /\ \A n \in DOMAIN world : \A f \in FieldNames :
                                        Alike(f, state[n][f], world[n][f])
    <2>1. Known /\ Drawn
      BY <1>1 DEF IInv, Stage
    <2>2. ASSUME before = base
          PROVE  /\ Len(state) = Len(world)
                 /\ \A n \in DOMAIN world : \A f \in FieldNames :
                      Alike(f, state[n][f], world[n][f])
      <3>1. Len(world) \in Nat /\ Len(base) \in Nat /\ Len(base) <= Len(world)
            /\ DOMAIN world = 1 .. Len(world)
        BY <2>1 DEF Known
      <3>2. Spans(state, Len(world)) /\ Mixed(state, Len(world) + 1, {})
        BY <2>1, <2>2, <3>1 DEF Drawn, Caught, Remembers
      <3>3. Len(state) = Len(world)
        BY <2>2, <3>1, <3>2 DEF Spans
      <3>4. ASSUME NEW n \in 1 .. Len(world), NEW f \in FieldNames
            PROVE  Alike(f, state[n][f], world[n][f])
        <4>1. n \in 1 .. Len(state) /\ n < Len(world) + 1
          BY <3>1, <3>3
        <4>2. CASE Sent(n, f)
          BY <3>2, <4>1, <4>2, Zenon DEF Mixed, Alike
        <4>3. CASE ~Sent(n, f)
          <5>1. n <= Len(before)
            <6>1. ~(n > Len(base))
              BY <4>3, Zenon DEF Sent
            <6> QED
              BY <2>2, <3>1, <6>1
          <5>2. state[n][f] = before[n][f]
            BY <3>2, <4>1, <4>3, <5>1, Zenon DEF Mixed
          <5> QED
            BY <2>2, <4>3, <5>2, UnsentAlike, Zenon
        <4> QED
          BY <4>2, <4>3
      <3> QED
        BY <3>1, <3>3, <3>4, Zenon
    <2> QED
      BY <2>1, <2>2, Zenon DEF Drawn
  <1>2. IInv => DrawsTheWorld
    BY <1>1, Zenon DEF DrawsTheWorld
  <1> QED
    BY PacketRead, <1>2, PTL

\* A packet changes what it names, and nothing else.
THEOREM DifferencesOnly == Spec => []OnlyDifferences
  <1>1. ASSUME IInv, phase = "drawn", Len(before) >= Len(base),
               NEW n \in DOMAIN state, NEW f \in FieldNames
        PROVE  IF n \in DOMAIN world /\ Sent(n, f) THEN state[n][f] = world[n][f]
               ELSE n \in DOMAIN before /\ state[n][f] = before[n][f]
    <2>1. Known /\ Spans(state, Len(world)) /\ Mixed(state, Len(world) + 1, {})
      BY <1>1 DEF IInv, Stage, Drawn, Caught, Remembers
    <2>2. /\ Len(world) \in Nat /\ DOMAIN world = 1 .. Len(world)
          /\ Len(before) \in Nat /\ DOMAIN before = 1 .. Len(before)
          /\ Len(base) \in Nat /\ n \in 1 .. Len(state)
          /\ Len(state) = IF Len(world) <= Len(before) THEN Len(before) ELSE Len(world)
      BY <2>1, <1>1 DEF Known, Spans, Mixed
    <2>3. CASE n \in DOMAIN world /\ Sent(n, f)
      <3>1. n \in 1 .. Len(world) /\ n < Len(world) + 1
        BY <2>2, <2>3
      <3> QED
        BY <2>1, <2>2, <2>3, <3>1, Zenon DEF Mixed
    <2>4. CASE ~(n \in DOMAIN world /\ Sent(n, f))
      <3>1. n <= Len(before)
        <4>1. SUFFICES ASSUME ~(n <= Len(before))
                       PROVE  FALSE
          OBVIOUS
        <4>2. n \in 1 .. Len(world) /\ n > Len(base)
          BY <1>1, <2>2, <4>1
        <4>3. Sent(n, f)
          BY <4>2, Zenon DEF Sent
        <4> QED
          BY <2>2, <2>4, <4>2, <4>3
      <3>2. n \in DOMAIN before
        BY <2>2, <3>1
      <3> QED
        BY <2>1, <2>2, <2>4, <3>1, <3>2, Zenon DEF Mixed
    <2> QED
      BY <2>3, <2>4
  <1>2. IInv => OnlyDifferences
    BY <1>1, Zenon DEF OnlyDifferences
  <1> QED
    BY PacketRead, <1>2, PTL
=============================================================================
