-------------------------------- MODULE Codec --------------------------------
(***************************************************************************)
(* The column codec of the day store: encode_column and decode_column, bit *)
(* for bit but for the sizes.  A word has WordBits bits where the code has *)
(* 64, a byte ByteBits where it has 8, a block Block values where it has   *)
(* 128; what depends on their ratio (the packing limit, the length of a    *)
(* varint, wrap-around) depends on it here too.                            *)
(*                                                                         *)
(* A stream is a sequence of bytes.  The width in front of a block is one  *)
(* element of it, whatever ByteBits is.  Shifts and masks are products,    *)
(* quotients and remainders of powers of two, a loop is a recursive        *)
(* function of the number of its turns.                                    *)
(***************************************************************************)
EXTENDS Integers, Sequences, FiniteSetsExt

CONSTANTS
  WordBits, ByteBits, Block,
  Values,         \* the values columns are made of
  MaxLength       \* bound: values in a column

Pow2[n \in Nat] == IF n = 0 THEN 1 ELSE 2 * Pow2[n - 1]

Word   == Pow2[WordBits]
Byte   == Pow2[ByteBits]
Half   == Pow2[ByteBits - 1]
Signed == -Pow2[WordBits - 1] .. Pow2[WordBits - 1] - 1

ASSUME CodecAssumption ==
  /\ {WordBits, ByteBits, Block, MaxLength} \subseteq Nat \ {0}
  /\ 1 < ByteBits /\ ByteBits < WordBits
  /\ MaxLength < Word           \* a column's size is a word
  /\ Values \subseteq Signed

VARIABLE scratch     \* the values about to be encoded

\* Conversions between signed and unsigned words: both wrap.
Unsigned(n) == n % Word
ToSigned(u) == IF u >= Pow2[WordBits - 1] THEN u - Word ELSE u

ZigZag(n)   == IF n < 0 THEN -2 * n - 1 ELSE 2 * n
UnZigZag(u) == IF u % 2 = 0 THEN u \div 2 ELSE -(u \div 2) - 1

Malformed == [ok |-> FALSE]
Read(value, pos) == [ok |-> TRUE, value |-> value, pos |-> pos]

\* A number as n digits of w bits, lowest first, and the number n such digits are.
Digits(u, w, n) == [k \in 1 .. n |-> (u \div Pow2[w * (k - 1)]) % Pow2[w]]

Number(d, w, n) ==
  LET upto[k \in 0 .. n] == IF k = 0 THEN 0 ELSE upto[k - 1] + d[k] * Pow2[w * (k - 1)]
  IN  upto[n]

\* bits_for
BitsFor(range) ==
  CHOOSE b \in 0 .. WordBits : range < Pow2[b] /\ (b = 0 \/ range >= Pow2[b - 1])

\* Every byte but the last is marked.
PutVarint(u) ==
  LET n == Max({1, (BitsFor(u) + ByteBits - 2) \div (ByteBits - 1)})
      d == Digits(u, ByteBits - 1, n)
  IN  [k \in 1 .. n |-> IF k < n THEN Half + d[k] ELSE d[k]]

\* No shift reaches a word's width: a varint that goes on longer is refused.
MaxVarint == (WordBits - 1) \div (ByteBits - 1) + 1

GetVarint(s, pos) ==
  LET ends == {k \in 1 .. MaxVarint : pos + k - 1 <= Len(s) /\ s[pos + k - 1] < Half}
      n    == Min(ends)
  IN  IF ends = {} THEN Malformed
      ELSE Read(Unsigned(Number([k \in 1 .. n |-> s[pos + k - 1] % Half], ByteBits - 1, n)), pos + n)

MaxPackedBits_Bug == WordBits

\* All bits of a byte but one may be in flight when a value is shifted in.
MaxPackedBits == WordBits - ByteBits

\* Packing and unpacking: a word through which bits pass, what came out of it
\* so far and how much went in.
Empty == [out |-> <<>>, taken |-> 0, acc |-> 0, held |-> 0]

ShiftIn(r, n, bits) ==
  [out |-> r.out, taken |-> r.taken + 1,
   acc |-> Unsigned(r.acc + n * Pow2[r.held]), held |-> r.held + bits]

ShiftOut(r, bits) ==
  [out |-> Append(r.out, r.acc % Pow2[bits]), taken |-> r.taken,
   acc |-> r.acc \div Pow2[bits], held |-> r.held - bits]

\* A full byte leaves before the next value comes in.
PackTurn(r, values, bits) ==
  IF r.held >= ByteBits THEN ShiftOut(r, ByteBits)
                        ELSE ShiftIn(r, values[r.taken + 1] % Pow2[bits], bits)

Packed(values, bits) ==
  LET turns == Len(values) + (Len(values) * bits) \div ByteBits
      upto[t \in 0 .. turns] == IF t = 0 THEN Empty ELSE PackTurn(upto[t - 1], values, bits)
  IN  upto[turns]

Pack(values, bits) ==
  LET r == Packed(values, bits)
  IN  IF bits = 0 THEN <<>>
      ELSE IF r.held > 0 THEN Append(r.out, r.acc % Byte) ELSE r.out

PackedBytes(n, bits) == (n * bits + ByteBits - 1) \div ByteBits

\* Bytes are taken in until a value is there.
UnpackTurn(r, s, pos, bits) ==
  IF r.held < bits THEN ShiftIn(r, s[pos + r.taken], ByteBits) ELSE ShiftOut(r, bits)

Unpacked(s, pos, n, bits) ==
  LET turns == n + PackedBytes(n, bits)
      upto[t \in 0 .. turns] == IF t = 0 THEN Empty ELSE UnpackTurn(upto[t - 1], s, pos, bits)
  IN  upto[turns].out

Unpack(s, pos, n, bits) ==
  IF bits = 0 THEN Read([i \in 1 .. n |-> 0], pos)
  ELSE IF pos + PackedBytes(n, bits) - 1 > Len(s) THEN Malformed
  ELSE Read(Unpacked(s, pos, n, bits), pos + PackedBytes(n, bits))

\* A block too wide to pack: whole words, lowest byte first.
WordBytes == (WordBits + ByteBits - 1) \div ByteBits

PutRaw(values) ==
  [k \in 1 .. Len(values) * WordBytes |->
     Digits(values[((k - 1) \div WordBytes) + 1], ByteBits, WordBytes)[((k - 1) % WordBytes) + 1]]

GetRaw(s, pos, n) ==
  IF pos + n * WordBytes - 1 > Len(s) THEN Malformed
  ELSE Read([i \in 1 .. n |->
               Unsigned(Number([b \in 1 .. WordBytes |-> s[pos + (i - 1) * WordBytes + b - 1]],
                               ByteBits, WordBytes))],
            pos + n * WordBytes)

-----------------------------------------------------------------------------
(* encode_column.                                                           *)

\* Differences wrap, and what is left of the smallest is its magnitude.
Delta(v, i)  == ToSigned(Unsigned(v[i] - v[i - 1]))
Magnitude(d) == IF d < 0 THEN -d ELSE d

\* Euclid's algorithm: the second number falls at each turn.
Divide(p) == IF p[2] = 0 THEN p ELSE <<p[2], p[1] % p[2]>>

Gcd(a, b) ==
  LET upto[t \in 0 .. b] == IF t = 0 THEN <<a, b>> ELSE Divide(upto[t - 1])
  IN  upto[b][1]

\* The common divisor of all deltas, 1 when all are zero.
Scale(v) ==
  LET upto[j \in 0 .. Len(v) - 1] == IF j = 0 THEN 0 ELSE Gcd(upto[j - 1], Magnitude(Delta(v, j + 1)))
      g == upto[Len(v) - 1]
  IN  IF g = 0 THEN 1 ELSE g

\* The division is exact and its divisor a signed word: half the word's range,
\* the one scale that does not fit, is negative.
Divided(d, scale) == LET n == ToSigned(scale) IN IF n < 0 THEN (-d) \div (-n) ELSE d \div n

\* The first value has no block; block b starts behind b - 1 full ones.
Blocks(count)         == (count + Block - 2) \div Block
BlockStart(b)         == 2 + (b - 1) * Block
BlockLength(count, b) == Min({Block, count - BlockStart(b) + 1})

EncodeBlock(v, b, scale) ==
  LET n         == BlockLength(Len(v), b)
      deltas    == [j \in 1 .. n |-> Divided(Delta(v, BlockStart(b) + j - 1), scale)]
      least     == Min({deltas[j] : j \in 1 .. n})
      residuals == [j \in 1 .. n |-> Unsigned(deltas[j] - least)]
      needed    == BitsFor(Max({residuals[j] : j \in 1 .. n}))
      bits      == IF needed > MaxPackedBits THEN WordBits ELSE needed
  IN  PutVarint(ZigZag(least)) \o <<bits>>
        \o (IF bits = WordBits THEN PutRaw(residuals) ELSE Pack(residuals, bits))

EncodeBlocks(v, scale) ==
  LET upto[b \in 0 .. Blocks(Len(v))] ==
        IF b = 0 THEN <<>> ELSE upto[b - 1] \o EncodeBlock(v, b, scale)
  IN  upto[Blocks(Len(v))]

Encode(v) ==
  PutVarint(Len(v))
    \o (IF v = <<>> THEN <<>>
        ELSE LET scale == Scale(v)
             IN  PutVarint(ZigZag(v[1])) \o PutVarint(scale) \o EncodeBlocks(v, scale))

-----------------------------------------------------------------------------
(* decode_column.                                                           *)

Residuals(s, pos, n, bits) ==
  IF bits = WordBits THEN GetRaw(s, pos, n)
  ELSE IF bits > MaxPackedBits THEN Malformed
  ELSE Unpack(s, pos, n, bits)

\* The values that follow previous, from a block's residuals.
Restored(residuals, least, scale, previous) ==
  LET upto[j \in 0 .. Len(residuals)] ==
        IF j = 0 THEN previous
        ELSE ToSigned(Unsigned(upto[j - 1] + Unsigned(residuals[j] + least) * scale))
  IN  [j \in 1 .. Len(residuals) |-> upto[j]]

\* The values and the position r with the next block read.
DecodeBlock(r, s, n, scale) ==
  LET least == GetVarint(s, r.pos)
      block == Residuals(s, least.pos + 1, n, s[least.pos])
  IN  IF ~r.ok THEN r
      ELSE IF ~least.ok THEN Malformed
      ELSE IF least.pos > Len(s) THEN Malformed
      ELSE IF ~block.ok THEN Malformed
      ELSE Read(r.value \o Restored(block.value, UnZigZag(least.value), scale, r.value[Len(r.value)]),
                block.pos)

DecodeBlocks(s, count, scale, first, pos) ==
  LET upto[b \in 0 .. Blocks(count)] ==
        IF b = 0 THEN Read(<<first>>, pos)
        ELSE DecodeBlock(upto[b - 1], s, BlockLength(count, b), scale)
  IN  upto[Blocks(count)]

\* Read.pos is where the bytes consumed end.
Decode(s) ==
  LET count == GetVarint(s, 1)
      first == GetVarint(s, count.pos)
      scale == GetVarint(s, first.pos)
  IN  IF ~count.ok THEN Malformed
      ELSE IF count.value = 0 THEN Read(<<>>, count.pos)
      ELSE IF ~first.ok THEN Malformed
      ELSE IF ~scale.ok THEN Malformed
      ELSE IF scale.value = 0 THEN Malformed
      ELSE DecodeBlocks(s, count.value, scale.value, UnZigZag(first.value), scale.pos)

-----------------------------------------------------------------------------
(* encode_into: one scratch column after the other.                         *)

CodecInit == scratch = <<>>

AppendValue == Len(scratch) < MaxLength /\ \E n \in Values : scratch' = Append(scratch, n)

Clear == scratch # <<>> /\ scratch' = <<>>

CodecNext == AppendValue \/ Clear

CodecSpec == CodecInit /\ [][CodecNext]_scratch

-----------------------------------------------------------------------------
(* Properties.                                                              *)

\* Every column comes back as it went in, extremes and wrapped differences
\* included, and exactly its own bytes are consumed whatever follows them: the
\* eight columns of an instrument lie one behind the other without a separator.
\* No proper prefix of an encoding passes for a column: a blob cut short is
\* refused, not read as a shorter history.
RoundTrip ==
  LET s == Encode(scratch)
  IN  /\ \A rest \in {<<>>, <<0>>, <<Byte - 1>>, s} : Decode(s \o rest) = Read(scratch, Len(s) + 1)
      /\ \A k \in 0 .. Len(s) - 1 : ~Decode(SubSeq(s, 1, k)).ok
=============================================================================
