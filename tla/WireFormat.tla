------------------------------ MODULE WireFormat ------------------------------
(***************************************************************************)
(* The Confluent framing of a message value, as readWirePrefix() in        *)
(* packages/kafka/src/registry.ts reads it, and a writer to hold it        *)
(* against.  Bytes are numbers below 256 and positions count from 0, as in *)
(* the code.  The numbers they make are exact, as the code's are to 2^53.  *)
(***************************************************************************)
EXTENDS Integers, Sequences

Byte(buf, pos) == buf[pos + 1]

Failure(why) == [error |-> why]
Failed(r) == "error" \in DOMAIN r

\* The low bit is the sign.
ZigZag(n) == IF n % 2 = 1 THEN -((n + 1) \div 2) ELSE n \div 2

\* A number is as many bytes long as it takes to come to one without the high bit.
EndsAfter(buf, start, size) ==
    /\ start + size <= Len(buf)
    /\ Byte(buf, start + size - 1) < 128
    /\ \A i \in 1 .. size - 1 : Byte(buf, start + i - 1) >= 128

\* Its bytes hold 7 bits each, the lowest first: Sum[d] is what the last d make.
Groups(buf, start, size) ==
    LET Sum[d \in 0 .. size] ==
            IF d = 0 THEN 0 ELSE (Byte(buf, start + size - d) % 128) + 128 * Sum[d - 1]
    IN  Sum[size]

\* readZigZagVarInt(): ten bytes at the most.
ReadVarInt(buf, start) ==
    LET sizes == {k \in 1 .. 10 : EndsAfter(buf, start, k)}
        size == CHOOSE k \in sizes : TRUE
    IN  IF sizes = {} /\ Len(buf) - start < 10 THEN Failure("truncated")
        ELSE IF sizes = {} THEN Failure("overlong")
        ELSE [value |-> ZigZag(Groups(buf, start, size)), next |-> start + size]

\* readInt32BE(1).
SchemaId(buf) ==
    LET high == IF Byte(buf, 1) >= 128 THEN Byte(buf, 1) - 256 ELSE Byte(buf, 1)
    IN  ((high * 256 + Byte(buf, 2)) * 256 + Byte(buf, 3)) * 256 + Byte(buf, 4)

\* One turn of the loop over the indexes.
ReadIndex(buf, r) ==
    LET v == ReadVarInt(buf, r.length)
    IN  IF Failed(r) THEN r
        ELSE IF Failed(v) THEN v
        ELSE IF v.value < 0 THEN Failure("negative index")
        ELSE [indexes |-> Append(r.indexes, v.value), length |-> v.next]

\* The loop, each index of a byte at least: a count the buffer cannot hold fails
\* within its length.
ReadIndexes(buf, count, first) ==
    LET turns == IF count > Len(buf) THEN Len(buf) ELSE count
        After[i \in 0 .. turns] ==
            IF i = 0 THEN [indexes |-> <<>>, length |-> first] ELSE ReadIndex(buf, After[i - 1])
    IN  After[turns]

\* Mutant: the shorthand for [0] is read as a count.
ReadPathLiterally(buf) ==
    LET n == ReadVarInt(buf, 5)
    IN  IF Failed(n) THEN n
        ELSE IF n.value < 0 THEN Failure("negative count")
        ELSE ReadIndexes(buf, n.value, n.next)

\* The message-index array: one byte 0x00 for the path [0].
ReadPath(buf) ==
    LET n == ReadVarInt(buf, 5)
    IN  IF Byte(buf, 5) = 0 THEN [indexes |-> <<0>>, length |-> 6]
        ELSE IF Failed(n) THEN n
        ELSE IF n.value < 0 THEN Failure("negative count")
        ELSE ReadIndexes(buf, n.value, n.next)

ReadWirePrefix(buf) ==
    IF Len(buf) < 6 THEN Failure("too short")
    ELSE IF Byte(buf, 0) # 0 THEN Failure("magic")
    ELSE LET path == ReadPath(buf)
         IN  IF Failed(path) THEN path
             ELSE [schemaId |-> SchemaId(buf), indexes |-> path.indexes, length |-> path.length]

-----------------------------------------------------------------------------
(***************************************************************************)
(* The writer: the format as the comment at registry.ts:22 lays it down.   *)
(***************************************************************************)
\* What is left of 2n, its sign bit being 0, after k groups are written.
Rest(n) == LET R[k \in 0 .. 10] == IF k = 0 THEN 2 * n ELSE R[k - 1] \div 128 IN R

\* As few groups as n takes, the high bit set on all but the last.
Size(n) == CHOOSE k \in 1 .. 10 : Rest(n)[k] = 0 /\ \A j \in 1 .. k - 1 : Rest(n)[j] # 0

WriteVarInt(n) ==
    [i \in 1 .. Size(n) |-> (Rest(n)[i - 1] % 128) + IF i < Size(n) THEN 128 ELSE 0]

\* The number of the indexes, then the indexes.
WritePath(path) ==
    LET Written[i \in 0 .. Len(path)] ==
            IF i = 0 THEN WriteVarInt(Len(path)) ELSE Written[i - 1] \o WriteVarInt(path[i])
    IN  Written[Len(path)]

Header(id) ==
    <<0, (id \div 16777216) % 256, (id \div 65536) % 256, (id \div 256) % 256, id % 256>>

Framed(id, path, payload) ==
    (Header(id) \o (IF path = <<0>> THEN <<0>> ELSE WritePath(path))) \o payload
=============================================================================
