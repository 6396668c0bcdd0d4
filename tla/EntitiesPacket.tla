--------------------------- MODULE EntitiesPacket ---------------------------
(***************************************************************************)
(* One Entities packet, bit by bit: GameServer::Run writes the header, the *)
(* epoch and the differences of the entities into a BitVector, subscribe   *)
(* encrypts its bytes, and GameClient::process_event decrypts them and     *)
(* reads entities for as long as bits are left.                            *)
(*                                                                         *)
(* The header, the epoch and the fields, 32 bits wide in the code, are     *)
(* Width bits wide.  A field is its bits, the lowest first: a float is     *)
(* copied and compared, never computed with.  The bits of the vector count *)
(* from 0, those of a field, of a byte and of the key from 1.              *)
(***************************************************************************)
EXTENDS Integers, Sequences

CONSTANTS
    Width,      \* bits of a field (32): whole bytes
    Header,     \* Header::Entities
    Entities,   \* the entities a snapshot may hold
    MaxCount,   \* bound: entities of a snapshot
    Epochs,     \* the timestamps of the packet
    Key,        \* the keys
    Behind,     \* what may lie behind a packet in memory: three bytes
    NaNs,       \* the bits of the floats that are no numbers
    Zeros       \* the bits of 0 and of - 0

Bit == {0, 1}
Byte == [1 .. 8 -> Bit]
Values == [1 .. Width -> Bit]
FieldNames == {"user_id", "pos_x", "pos_y", "radius"}
IntBits == 32
Hosts == {"server", "client"}

ASSUME PacketAssumption ==
    /\ Width \in Nat /\ Width > 0 /\ Width % 8 = 0
    /\ Header \in Values /\ Epochs \subseteq Values
    /\ Entities \subseteq [FieldNames -> Values] /\ MaxCount \in Nat
    /\ Key \subseteq [1 .. IntBits -> Bit] /\ Behind \subseteq [1 .. 3 -> Byte]
    /\ NaNs \subseteq Values /\ Zeros \subseteq Values /\ NaNs \cap Zeros = {}

VARIABLES
    phase,       \* "encode", "decode" or "drawn"
    base,        \* what the client acknowledged, as entities[last_ts[peer]]
    world,       \* entities[current_ts]
    epoch,       \* current_ts
    key,         \* clients_key[peer] and server_key
    data,        \* the BitVector of the sender, then of the receiver
    behind,      \* what lies behind the packet in the memory of either end
    ind,         \* the sender's next entity, then the receiver's next bit
    entity_ind,  \* the receiver's next entity
    state,       \* the entities the client draws
    before,      \* history: state as it was before the packet
    answer,      \* the timestamp the client answers with, or None
    wild         \* history: a field was written past the end of state, or a
                 \* bit of the received data read past its end

vars == <<phase, base, world, epoch, key, data, behind, ind, entity_ind, state, before, answer, wild>>

None == "none"

Snapshots == UNION {[1 .. n -> Entities] : n \in 0 .. MaxCount}

-----------------------------------------------------------------------------
(***************************************************************************)
(* BitVector.                                                              *)
(***************************************************************************)
Empty == [bytes |-> <<>>, counter |-> 0]

\* The bit goes to the first free place of the last byte.
push_back(v, val) ==
    LET bytes == IF v.counter = 0 THEN Append(v.bytes, [i \in 1 .. 8 |-> 0]) ELSE v.bytes
    IN  [bytes |-> [bytes EXCEPT ![Len(bytes)][v.counter + 1] = IF val = 1 THEN 1 ELSE @],
         counter |-> (v.counter + 1) % 8]

\* Mutant of bit_size: padding up to whole ints is counted.
bit_size_Ints(v) == IntBits * ((Len(v.bytes) + 3) \div 4)

bit_size(v) ==
    8 * Len(v.bytes) - (IF v.counter > 0 THEN 1 ELSE 0) + v.counter

InData(v, k) == k \div 8 < Len(v.bytes)

\* Past the end anything may be there; it reads as 0 and is marked as wild.
BitAt(v, k) == IF InData(v, k) THEN v.bytes[(k \div 8) + 1][(k % 8) + 1] ELSE 0

\* The bits of a std::bitset, one after the other.
PushAll(v, value) ==
    LET f[n \in 0 .. Width] == IF n = 0 THEN v ELSE push_back(f[n - 1], value[n])
    IN  f[Width]

ReadValue(v, k) == [i \in 1 .. Width |-> BitAt(v, k + i - 1)]

-----------------------------------------------------------------------------
(***************************************************************************)
(* subscribe: whole ints are xored with the key.  A rest of r bytes is     *)
(* taken as an int too: it is read with the 4 - r bytes behind the packet, *)
(* its bit 4 - r is xored with that bit of the key, and it is written      *)
(* back.  Those bytes belong to nobody: a vector of chars that does not    *)
(* fill whole ints has room for them, and so has an allocated packet.      *)
(***************************************************************************)
\* Mutant of Xor: or, which decrypting does not undo.
Xor_Or(a, b) == IF a = 1 THEN 1 ELSE b

Xor(a, b) == IF a = b THEN 0 ELSE 1

\* Mutant of Masked: the shift counts bytes.
Masked_Bytes(len, k) ==
    LET rest == len - 4 * (k \div IntBits)
    IN  rest >= 4 \/ k % IntBits = 8 * (4 - rest)

\* Whether bit k of the ints over len bytes takes part.
Masked(len, k) ==
    LET rest == len - 4 * (k \div IntBits)
    IN  rest >= 4 \/ k % IntBits = 4 - rest

\* The bytes of the ints over len bytes.
Touched(len) == 4 * ((len + 3) \div 4)

\* memory begins with the packet, of len bytes.
subscribe(memory, len) ==
    [n \in DOMAIN memory |-> [i \in 1 .. 8 |->
        LET k == 8 * (n - 1) + i - 1
        IN  IF n <= Touched(len) /\ Masked(len, k) THEN Xor(memory[n][i], key[(k % IntBits) + 1])
            ELSE memory[n][i]]]

-----------------------------------------------------------------------------
\* The client has drawn nothing, what it acknowledged, or another game's end.
Init ==
    /\ phase = "encode"
    /\ base \in Snapshots /\ world \in Snapshots \ {<<>>}
    /\ Len(base) <= Len(world)
    /\ epoch \in Epochs /\ key \in Key
    /\ data = PushAll(PushAll(Empty, Header), epoch) /\ behind \in [Hosts -> Behind]
    /\ ind = 1 /\ entity_ind = 1
    /\ state \in {<<>>, base, world \o base} /\ before = state
    /\ answer = None /\ wild = FALSE

\* != of ints and of floats: NaN differs from itself, 0 does not differ from - 0.
Unequal(f, x, y) ==
    IF f = "user_id" THEN x # y ELSE x \in NaNs \/ (x # y /\ ~({x, y} \subseteq Zeros))

\* Whether the field of entity n is new or has changed.
Sent(n, f) == n > Len(base) \/ Unequal(f, base[n][f], world[n][f])

\* A flag, and the field if it is sent.
push_field(v, n, f) ==
    IF Sent(n, f) THEN PushAll(push_back(v, 1), world[n][f]) ELSE push_back(v, 0)

EncodeEntity ==
    /\ phase = "encode" /\ ind <= Len(world)
    /\ data' = push_field(push_field(push_field(push_field(
                 data, ind, "user_id"), ind, "pos_x"), ind, "pos_y"), ind, "radius")
    /\ ind' = ind + 1
    /\ UNCHANGED <<phase, base, world, epoch, key, behind, entity_ind, state, before, answer, wild>>

\* The packet is encrypted where it lies, sent and received; the client
\* decrypts it where it was put, and copies its bytes to a BitVector.
Deliver ==
    /\ phase = "encode" /\ ind > Len(world)
    /\ phase' = "decode"
    /\ LET len == Len(data.bytes)
           sent == subscribe(data.bytes \o behind["server"], len)
           received == subscribe(SubSeq(sent, 1, len) \o behind["client"], len)
       IN  /\ data' = [bytes |-> SubSeq(received, 1, len), counter |-> 0]
           /\ behind' = [e \in Hosts |-> IF e = "server" THEN SubSeq(sent, len + 1, len + 3)
                                       ELSE SubSeq(received, len + 1, len + 3)]
    /\ ind' = 2 * Width
    /\ UNCHANGED <<base, world, epoch, key, entity_ind, state, before, answer, wild>>

\* Mutant of Grows: an entity past the end is always appended.
Grows_Always == entity_ind > Len(state)

\* Only an entity whose user_id is sent is appended.
Grows == BitAt(data, ind) = 1 /\ entity_ind > Len(state)

Blank == [f \in FieldNames |-> [i \in 1 .. Width |-> 0]]

\* The reader s at a flag: whether the field follows, its last bit, and whether
\* there is an entity to write it to.
Flag(s) == BitAt(data, s.ind) = 1
Last(s) == s.ind + (IF Flag(s) THEN Width ELSE 0)
There(s) == entity_ind <= Len(s.state)

\* Reading field after field: the next bit, the entities and whether anything
\* was out of bounds.
ReadField(s, f) ==
    [ind |-> Last(s) + 1,
     wild |-> s.wild \/ ~InData(data, Last(s)) \/ (Flag(s) /\ ~There(s)),
     state |-> IF Flag(s) /\ There(s)
               THEN [s.state EXCEPT ![entity_ind][f] = ReadValue(data, s.ind + 1)]
               ELSE s.state]

DecodeEntity ==
    /\ phase = "decode" /\ ind < bit_size(data)
    /\ LET start == [ind |-> ind, wild |-> wild,
                     state |-> IF Grows THEN Append(state, Blank) ELSE state]
           done == ReadField(ReadField(ReadField(ReadField(
                     start, "user_id"), "pos_x"), "pos_y"), "radius")
       IN  ind' = done.ind /\ state' = done.state /\ wild' = done.wild
    /\ entity_ind' = entity_ind + 1
    /\ UNCHANGED <<phase, base, world, epoch, key, data, behind, before, answer>>

\* The epoch is read and answered, and state drawn.
Answer ==
    /\ phase = "decode" /\ ind >= bit_size(data)
    /\ phase' = "drawn"
    /\ answer' = ReadValue(data, Width)
    /\ UNCHANGED <<base, world, epoch, key, data, behind, ind, entity_ind, state, before, wild>>

Next == EncodeEntity \/ Deliver \/ DecodeEntity \/ Answer

Spec == Init /\ [][Next]_vars

-----------------------------------------------------------------------------
(***************************************************************************)
(* Properties.                                                             *)
(***************************************************************************)

\* The bits that fill the last byte are read as one more entity, of which
\* nothing was sent: the decoding loop reads no bit past the end of what was
\* received, and for a client that still has what the differences are to it
\* writes no field past its entities.
DecodingInBounds == Len(before) >= Len(base) => ~wild

\* What subscribe reads and writes behind the packet, at either end, is the
\* same afterwards, whatever the packet's length.
BehindKept == [][behind' = behind]_vars

\* Two fields that != does not tell apart, or that have the same bits.
Alike(f, x, y) == x = y \/ (f # "user_id" /\ {x, y} \subseteq Zeros)

\* What is drawn is the world, but for the sign of a zero, for a client that
\* had drawn what it acknowledged, whatever the key and however the bits fall
\* into bytes; and what is answered is the epoch.
DrawsTheWorld ==
    phase = "drawn" =>
        /\ answer = epoch
        /\ before = base => /\ Len(state) = Len(world)
                            /\ \A n \in DOMAIN world : \A f \in FieldNames :
                                 Alike(f, state[n][f], world[n][f])

\* A client that has more entities than the world keeps the surplus, and
\* changes only what the differences name.
OnlyDifferences ==
    phase = "drawn" /\ Len(before) >= Len(base) =>
        \A n \in DOMAIN state : \A f \in FieldNames :
            IF n \in DOMAIN world /\ Sent(n, f) THEN state[n][f] = world[n][f]
            ELSE n \in DOMAIN before /\ state[n][f] = before[n][f]
=============================================================================
