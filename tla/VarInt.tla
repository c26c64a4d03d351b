------------------------------- MODULE VarInt -------------------------------
(***************************************************************************)
(* The variable-length integers of the Minecraft protocol as put_varint    *)
(* and get_varint of crates/protocol/src/cursor.rs write and read them:    *)
(* seven bits of an i32 per byte, the lowest first, bit 7 set in every     *)
(* byte but the last, at most five bytes.                                  *)
(***************************************************************************)
EXTENDS Integers, Sequences, FiniteSetsExt, Sums

\* The i32 of the code.
MaxI32 == 2147483647
I32    == -MaxI32 - 1 .. MaxI32

\* What the parsing functions return: Err(_), Ok(None) or Ok(Some(value)),
\* with the number of bytes the cursor moved on.
Err        == [is |-> "err", value |-> 0, moved |-> 0]
None       == [is |-> "none", value |-> 0, moved |-> 0]
Some(v, n) == [is |-> "some", value |-> v, moved |-> n]

\* 128^(i - 1), the weight of the i-th group; the provers cannot evaluate a power.
Weight == <<1, 128, 128 * 128, 128 * 128 * 128, 128 * 128 * 128 * 128>>

\* Seven bits of the two's complement of v; the fifth group has only four.
Group(v, i) == (v \div Weight[i + 1]) % (IF i < 4 THEN 128 ELSE 16)

varint_size(v) == Min({k \in 1..5 : \A i \in k..4 : Group(v, i) = 0})

put_varint(v) ==
    [i \in 1..varint_size(v) |->
        Group(v, i - 1) + IF i < varint_size(v) THEN 128 ELSE 0]

\* The i-th byte shifted to its place in the i32: of the fifth byte the low
\* four bits remain, the highest of them is the sign.
Shifted(byte, i) ==
    IF i < 5 THEN (byte % 128) * Weight[i]
    ELSE ((byte % 16) - IF byte % 16 < 8 THEN 0 ELSE 16) * Weight[5]

Value(bytes, n) == SumTo([i \in 1..n |-> Shifted(bytes[i], i)], n)

\* bytes are the ones that remain in the buffer.
get_varint(bytes) ==
    LET ends == {i \in 1..Min({5, Len(bytes)}) : bytes[i] < 128}
    IN  IF ends # {} THEN Some(Value(bytes, Min(ends)), Min(ends))
        ELSE IF Len(bytes) < 5 THEN None ELSE Err
=============================================================================
