-------------------------------- MODULE Gguf --------------------------------
(***************************************************************************)
(* gguf_loader.rs: unpacking a block of quantised weights.  A format is a  *)
(* way to cut the bits of a block into small numbers, each with a scale    *)
(* (and perhaps a minimum) of its own sub-block; the decoders walk it with *)
(* running offsets and masks.  A bit is the pair of its byte in the block  *)
(* and its place in the byte.  The blocks are the ones the boot decodes to *)
(* test itself: their scales are whole or half numbers, so their values    *)
(* are integers in the block's own unit and floating point is not needed.  *)
(* f16_to_f32, which every scale goes through, is modelled in full.        *)
(***************************************************************************)
EXTENDS Integers, Sequences, FiniteSets, TLC

CONSTANTS Formats, Halves   (* the gtypes and the f16 bit patterns decoded *)

VARIABLES
  fmt,        (* the gtype                                                 *)
  half,       (* for F16, the bits                                         *)
  g,          (* iterations of the outer loop done                         *)
  is,         (* the scale the next iteration begins with                  *)
  q_offset,   (* where its numbers begin                                   *)
  mask,       (* the place of the bit that `m` or `u1` selects             *)
  used,       (* bits that have become part of a value                     *)
  taken,      (* how many were read for that                               *)
  out         (* the values pushed                                         *)

vars == <<fmt, half, g, is, q_offset, mask, used, taken, out>>

-----------------------------------------------------------------------------
Bits(byte, from, n) == [i \in 1 .. n |-> <<byte, from + i - 1>>]
Nibble(byte, high)  == Bits(byte, 4 * high, 4)
Range(s) == {s[i] : i \in DOMAIN s}
Times(n, x) == [i \in 1 .. n |-> x]

(***************************************************************************)
(* The layouts: the bytes of the block's own scale and minimum, of the     *)
(* packed scales and of the values, into how large sub-blocks with their   *)
(* own scale the values fall, and how many values an iteration makes.      *)
(***************************************************************************)
F32Layout  == [size |-> 4,   head |-> {},         scales |-> {},         values |-> 0 .. 3,    sub |-> 1,   step |-> 1,   n |-> 1]
F16Layout  == [size |-> 2,   head |-> {},         scales |-> {},         values |-> 0 .. 1,    sub |-> 1,   step |-> 1,   n |-> 1]
Q8_0Layout == [size |-> 34,  head |-> 0 .. 1,     scales |-> {},         values |-> 2 .. 33,   sub |-> 32,  step |-> 32,  n |-> 32]
Q4_0Layout == [size |-> 18,  head |-> 0 .. 1,     scales |-> {},         values |-> 2 .. 17,   sub |-> 32,  step |-> 32,  n |-> 32]
Q4_1Layout == [size |-> 20,  head |-> 0 .. 3,     scales |-> {},         values |-> 4 .. 19,   sub |-> 32,  step |-> 32,  n |-> 32]
Q2_KLayout == [size |-> 84,  head |-> 80 .. 83,   scales |-> 0 .. 15,    values |-> 16 .. 79,  sub |-> 16,  step |-> 32,  n |-> 256]
Q3_KLayout == [size |-> 110, head |-> 108 .. 109, scales |-> 96 .. 107,  values |-> 0 .. 95,   sub |-> 16,  step |-> 32,  n |-> 256]
Q4_KLayout == [size |-> 144, head |-> 0 .. 3,     scales |-> 4 .. 15,    values |-> 16 .. 143, sub |-> 32,  step |-> 64,  n |-> 256]
Q5_KLayout == [size |-> 176, head |-> 0 .. 3,     scales |-> 4 .. 15,    values |-> 16 .. 175, sub |-> 32,  step |-> 64,  n |-> 256]
Q6_KLayout == [size |-> 210, head |-> 208 .. 209, scales |-> 192 .. 207, values |-> 0 .. 191,  sub |-> 16,  step |-> 128, n |-> 256]

(* The last 32 bytes, bsums, are not read. *)
Q8_KLayout == [size |-> 260 + 32, head |-> (0 .. 3) \cup (260 .. 291), scales |-> {}, values |-> 4 .. 259,
               sub |-> 256, step |-> 256, n |-> 256]

Layout ==
  [F32  |-> F32Layout,  F16  |-> F16Layout,  Q8_0 |-> Q8_0Layout, Q4_0 |-> Q4_0Layout,
   Q4_1 |-> Q4_1Layout, Q2_K |-> Q2_KLayout, Q3_K |-> Q3_KLayout, Q4_K |-> Q4_KLayout,
   Q5_K |-> Q5_KLayout, Q6_K |-> Q6_KLayout, Q8_K |-> Q8_KLayout]

L    == Layout[fmt]
Ends == g * L.step = L.n

-----------------------------------------------------------------------------
(***************************************************************************)
(* The blocks of the boot's self-tests and the values it expects of them:  *)
(* `bytes`, `d` and `dmin` in the unit of the block (a half where d is     *)
(* 0.5), and `expected` in that unit.                                      *)
(***************************************************************************)
Header(n) == Times(n, 0)   (* d and dmin are given apart *)
K4Scales == <<135, 142, 213, 220, 120, 113, 42, 35, 195, 90, 225, 120>>
Each(n, s) == [i \in 1 .. n * Len(s) |-> s[(i - 1) \div n + 1]]

F32Test == [bytes |-> <<0, 0, 32, 64>>, d |-> 1, dmin |-> 0, expected |-> <<1075838976>>]

Q8_0Test ==
  [bytes    |-> Header(2) \o [i \in 1 .. 32 |-> (i - 17 + 256) % 256], d |-> 1, dmin |-> 0,
   expected |-> [i \in 1 .. 32 |-> i - 17]]

Q4_0Test ==
  [bytes    |-> Header(2) \o [i \in 1 .. 16 |-> (i - 1) + 16 * (16 - i)], d |-> 1, dmin |-> 0,
   expected |-> [i \in 1 .. 16 |-> i - 1 - 8] \o [i \in 1 .. 16 |-> 16 - i - 8]]

Q4_1Test ==
  [bytes    |-> Header(4) \o [i \in 1 .. 16 |-> (i - 1) + 16 * (16 - i)], d |-> 1, dmin |-> -2,
   expected |-> [i \in 1 .. 16 |-> i - 1 + 2] \o [i \in 1 .. 16 |-> 16 - i + 2]]

Q4_KTest ==
  [bytes    |-> Header(4) \o K4Scales \o Each(32, <<0, 255, 115, 33>>), d |-> 1, dmin |-> 1,
   expected |-> Each(32, <<-56, -49, 273, 385, 77, 273, 35, 105>>)]

Q6_KTest ==
  LET scales == <<2, 3, 5, 7, 11, 13, 17, 19>>
      values == <<-42, -63, -15, -21, 110, 130, 476, 532>>
  IN  [bytes    |-> Each(32, <<171, 205, 171, 205>>) \o Times(64, 228) \o scales \o scales \o Header(2), d |-> 1, dmin |-> 0,
       expected |-> Each(16, values \o values)]

Q5_KTest ==
  [bytes    |-> Header(4) \o K4Scales \o Times(32, 170) \o Each(32, <<171, 205, 239, 18>>), d |-> 1, dmin |-> 1,
   expected |-> Each(32, <<21, 315, 231, 749, 497, 1239, 84, 945>>)]

Q3_KTest ==
  LET raw == <<51, 119, 187, 255>>
  IN  [bytes    |-> Each(16, <<170, 85>>) \o Times(64, 228) \o raw \o raw \o Times(4, 228) \o Header(2), d |-> 1, dmin |-> 0,
       expected |-> Each(16, <<116, 0, -21, 51, 26, -18, -15, 1, -12, 0, 11, -45, -38, 46, 81, -31>>)]

Q2_KTest ==
  [bytes    |-> [i \in 1 .. 16 |-> (i - 1) + 16 * (16 - i)] \o Times(64, 228) \o Header(4), d |-> 1, dmin |-> 1,
   expected |-> Each(16, <<-15, -14, -11, -9, -3, 0, 9, 13, -7, -6, 5, 7, 21, 24, 41, 45>>)]

Q8_KTest ==
  [bytes    |-> Header(4) \o [i \in 1 .. 256 |-> i - 1] \o Times(32, 0), d |-> 2, dmin |-> 0,
   expected |-> [i \in 1 .. 256 |-> 2 * (IF i - 1 < 128 THEN i - 1 ELSE i - 1 - 256)]]

Test ==
  CASE fmt = "F32"  -> F32Test
    [] fmt = "F16"  -> [bytes |-> <<half % 256, half \div 256>>, d |-> 1, dmin |-> 0, expected |-> <<half>>]
    [] fmt = "Q8_0" -> Q8_0Test
    [] fmt = "Q4_0" -> Q4_0Test
    [] fmt = "Q4_1" -> Q4_1Test
    [] fmt = "Q2_K" -> Q2_KTest
    [] fmt = "Q3_K" -> Q3_KTest
    [] fmt = "Q4_K" -> Q4_KTest
    [] fmt = "Q5_K" -> Q5_KTest
    [] fmt = "Q6_K" -> Q6_KTest
    [] fmt = "Q8_K" -> Q8_KTest

(* The number the bits make, lowest first, in the block being decoded. *)
Num(block, bits) ==
  LET bit(b) == (block[b[1] + 1] \div 2^(b[2])) % 2
      upTo[i \in 0 .. Len(bits)] == IF i = 0 THEN 0 ELSE 2 * upTo[i - 1] + bit(bits[Len(bits) + 1 - i])
  IN  upTo[Len(bits)]

AsI8(n) == IF n < 128 THEN n ELSE n - 256

-----------------------------------------------------------------------------
(***************************************************************************)
(* The decoders: for value l of the iteration its bits, the scale it uses, *)
(* and how the number in its bits becomes a multiple of that scale.        *)
(***************************************************************************)
Value(bits, scale, zero) == [bits |-> bits, scale |-> scale, zero |-> zero]

DecodeF32Le(l) == Value(Bits(0, 0, 8) \o Bits(1, 0, 8) \o Bits(2, 0, 8) \o Bits(3, 0, 8), 0, 0)
DecodeF16Le(l) == Value(Bits(0, 0, 8) \o Bits(1, 0, 8), 0, 0)
DecodeQ8_0(l)  == Value(Bits(2 + l, 0, 8), 0, 0)
DecodeQ4_0(l)  == Value(Nibble(2 + (l % 16), l \div 16), 0, 8)
DecodeQ4_1(l)  == Value(Nibble(4 + (l % 16), l \div 16), 0, 0)
DecodeQ2_K(l)  == Value(Bits(16 + q_offset + l, 2 * (g % 4), 2), is + l \div 16, 0)
DecodeQ3_K(l)  == Value(Bits(32 + q_offset + l, 2 * (g % 4), 2) \o Bits(l, mask, 1), is + l \div 16, 4)
DecodeQ4_K(l)  == Value(Nibble(16 + q_offset + (l % 32), l \div 32), is + l \div 32, 0)
DecodeQ8_K(l)  == Value(Bits(4 + l, 0, 8), 0, 0)

DecodeQ5_K(l) ==
  LET i == l % 32
      k == l \div 32
  IN  Value(Nibble(48 + q_offset + i, k) \o Bits(16 + i, mask + k, 1), is + k, 0)

DecodeQ6_K(l) ==
  LET i == l % 32
      k == l \div 32
  IN  Value(Nibble(64 * g + 32 * (k % 2) + i, k \div 2) \o Bits(128 + 32 * g + i, 2 * k, 2),
            8 * g + i \div 16 + 2 * k, 32)

(* decode_tensor *)
DecodeTensor(l) ==
  CASE fmt = "F32"  -> DecodeF32Le(l)
    [] fmt = "F16"  -> DecodeF16Le(l)
    [] fmt = "Q8_0" -> DecodeQ8_0(l)
    [] fmt = "Q4_0" -> DecodeQ4_0(l)
    [] fmt = "Q4_1" -> DecodeQ4_1(l)
    [] fmt = "Q2_K" -> DecodeQ2_K(l)
    [] fmt = "Q3_K" -> DecodeQ3_K(l)
    [] fmt = "Q4_K" -> DecodeQ4_K(l)
    [] fmt = "Q5_K" -> DecodeQ5_K(l)
    [] fmt = "Q6_K" -> DecodeQ6_K(l)
    [] fmt = "Q8_K" -> DecodeQ8_K(l)

-----------------------------------------------------------------------------
(* get_scale_min_k4: scale and minimum j of the twelve bytes at 4. *)
GetScaleMinK4(j) ==
  IF j < 4 THEN [scale |-> Bits(4 + j, 0, 6), min |-> Bits(4 + j + 4, 0, 6)]
  ELSE [scale |-> Bits(4 + j + 4, 0, 4) \o Bits(4 + j - 4, 6, 2),
        min   |-> Bits(4 + j + 4, 4, 4) \o Bits(4 + j, 6, 2)]

(* Scale j of Q3_K, unpacked from the twelve bytes at 96. *)
Q3Scale(j) ==
  LET row == j \div 4
  IN  Nibble(96 + 4 * (row % 2) + (j % 4), row \div 2) \o Bits(104 + (j % 4), 2 * row, 2)

(* The bits of scale j and of its minimum. *)
ScaleMin(j) ==
  CASE fmt = "Q2_K" -> [scale |-> Nibble(j, 0), min |-> Nibble(j, 1)]
    [] fmt = "Q3_K" -> [scale |-> Q3Scale(j), min |-> <<>>]
    [] fmt \in {"Q4_K", "Q5_K"} -> GetScaleMinK4(j)
    [] fmt = "Q6_K" -> [scale |-> Bits(192 + j, 0, 8), min |-> <<>>]
    [] OTHER -> [scale |-> <<>>, min |-> <<>>]

(* Their values: Q3_K's are offset by 32, Q6_K's are i8; formats without   *)
(* sub-blocks have the block's own scale and minimum.                      *)
Scale(block, j) ==
  CASE fmt = "Q3_K" -> Num(block, ScaleMin(j).scale) - 32
    [] fmt = "Q6_K" -> AsI8(Num(block, ScaleMin(j).scale))
    [] fmt \in {"Q2_K", "Q4_K", "Q5_K"} -> Num(block, ScaleMin(j).scale)
    [] OTHER -> 1

Minimum(block, j) == IF fmt \in {"Q2_K", "Q4_K", "Q5_K"} THEN Num(block, ScaleMin(j).min) ELSE 1

(* What is pushed for value l: Q8_0 and Q8_K hold i8. *)
Pushed(l) ==
  LET t == Test
      v == DecodeTensor(l)
      q == Num(t.bytes, v.bits)
      n == IF fmt \in {"Q8_0", "Q8_K"} THEN AsI8(q) ELSE q - v.zero
  IN  t.d * Scale(t.bytes, v.scale) * n - t.dmin * Minimum(t.bytes, v.scale)

(* Slip: u1 and u2 move on by one bit although each iteration uses two. *)
NextMaskByOne(m) == IF fmt \in {"Q3_K", "Q5_K"} THEN m + 1 ELSE m

NextMask(m) == CASE fmt = "Q3_K" -> m + 1 [] fmt = "Q5_K" -> m + 2 [] OTHER -> m

NextOffset(q) ==
  IF fmt \in {"Q4_K", "Q5_K"} \/ (fmt \in {"Q2_K", "Q3_K"} /\ g % 4 = 3) THEN q + 32 ELSE q

NextScale(s) == IF fmt \in {"Q2_K", "Q3_K", "Q4_K", "Q5_K"} THEN s + 2 ELSE s

-----------------------------------------------------------------------------
(* Slip: the exponent is not lowered for every place the mantissa moves. *)
SubnormalExponentFixed(k) == -14

SubnormalExponent(k) == -14 - k

(* f16_to_f32; a subnormal is shifted until its leading one is in place. *)
F16ToF32(bits) ==
  LET exp  == (bits \div 1024) % 32
      mant == bits % 1024
      k    == CHOOSE n \in 0 .. 10 : mant * 2^n \in 1024 .. 2047
  IN  [sign |-> bits \div 32768] @@
      CASE exp = 0 /\ mant = 0 -> [exp |-> 0, mant |-> 0]
        [] exp = 0 /\ mant # 0 -> [exp  |-> SubnormalExponent(k) + 127,
                                   mant |-> ((mant * 2^k) % 1024) * 8192]
        [] exp = 31 -> [exp |-> 255, mant |-> mant * 8192]
        [] OTHER    -> [exp |-> exp + (127 - 15), mant |-> mant * 8192]

(* The boot's test vectors for it: 0, -2, 1 and the least subnormal; and   *)
(* those of its F16 tensor, whose third value is 0.5.                      *)
F16Vectors ==
  /\ F16ToF32(0)     = [sign |-> 0, exp |-> 0,   mant |-> 0]
  /\ F16ToF32(49152) = [sign |-> 1, exp |-> 128, mant |-> 0]
  /\ F16ToF32(15360) = [sign |-> 0, exp |-> 127, mant |-> 0]
  /\ F16ToF32(1)     = [sign |-> 0, exp |-> 103, mant |-> 0]

F16Test == F16Vectors /\ F16ToF32(14336) = [sign |-> 0, exp |-> 126, mant |-> 0]

(* What is assumed of the constants, and the boot's test of                *)
(* get_scale_min_k4; the instance in MCSyscall evaluates both.             *)
Assumptions ==
  /\ Formats \subseteq DOMAIN Layout
  /\ Halves \subseteq 0 .. 65535
  /\ LET block == Q4_KTest.bytes
     IN  \A j \in 0 .. 7 : /\ Num(block, GetScaleMinK4(j).scale) = 7 * (j + 1)
                           /\ Num(block, GetScaleMinK4(j).min) = 7 * (8 - j)

-----------------------------------------------------------------------------
Init ==
  /\ fmt \in Formats
  /\ half \in IF fmt = "F16" THEN Halves ELSE {0}
  /\ g = 0 /\ is = 0 /\ q_offset = 0 /\ mask = 0
  /\ used = {} /\ taken = 0 /\ out = <<>>

(* One iteration of the outer loop of decode_<fmt>. *)
Decode ==
  /\ ~Ends
  /\ used' = used \cup UNION {Range(DecodeTensor(l).bits) : l \in 0 .. L.step - 1}
  /\ taken' = taken + L.step * Len(DecodeTensor(0).bits)
  /\ out' = out \o [l \in 1 .. L.step |-> Pushed(l - 1)]
  /\ g' = g + 1
  /\ is' = NextScale(is)
  /\ q_offset' = NextOffset(q_offset)
  /\ mask' = NextMask(mask)
  /\ UNCHANGED <<fmt, half>>

Next == Decode

Spec == Init /\ [][Next]_vars

-----------------------------------------------------------------------------
AllBits(bytes) == bytes \X (0 .. 7)

(***************************************************************************)
(* Unpacking loses and duplicates nothing: no bit of a block becomes part  *)
(* of two values or of a value and a scale, value v is scaled by the scale *)
(* of its own sub-block, the packed scales and minima share no bit and     *)
(* fill their bytes, a whole block uses all of its bits; and the blocks of *)
(* the boot's self-tests decode to the values it expects.                  *)
(***************************************************************************)
EveryBitOnce ==
  LET subs == IF L.scales = {} THEN {} ELSE 0 .. L.n \div L.sub - 1
      scaleBits(j) == ScaleMin(j).scale \o ScaleMin(j).min
  IN  /\ Cardinality(used) = taken
      /\ used \subseteq AllBits(L.values)
      /\ Ends => used = AllBits(L.values) /\ out = Test.expected
      /\ ~Ends => \A l \in 0 .. L.step - 1 :
           L.scales # {} => DecodeTensor(l).scale = (g * L.step + l) \div L.sub
      /\ UNION {Range(scaleBits(j)) : j \in subs} = AllBits(L.scales)
      /\ \A j \in subs : Len(scaleBits(j)) * Cardinality(subs) = 8 * Cardinality(L.scales)
      /\ L.head \cup L.scales \cup L.values = 0 .. L.size - 1 /\ Len(Test.bytes) = L.size
      /\ Cardinality(L.head) + Cardinality(L.scales) + Cardinality(L.values) = L.size

(***************************************************************************)
(* f16_to_f32 is exact: the f32 has the same sign and value, subnormals    *)
(* down to the least included; infinities stay infinities and NaNs NaNs.   *)
(* The f16 is M * 2^(E - 24), the f32 N * 2^(F - 150).  The boot's vectors *)
(* for it are right.                                                       *)
(***************************************************************************)
HalfExact ==
  LET f    == F16ToF32(half)
      exp  == (half \div 1024) % 32
      mant == half % 1024
      M    == IF exp = 0 THEN mant ELSE 1024 + mant
      E    == IF exp = 0 THEN 0 ELSE exp - 1
  IN  fmt = "F16" =>
        /\ F16Test
        /\ f.sign = half \div 32768
        /\ f.mant \in 0 .. 2^23 - 1 /\ f.exp \in 0 .. 255
        /\ exp = 31 => f.exp = 255 /\ (f.mant = 0 <=> mant = 0)
        /\ M = 0 => f.exp = 0 /\ f.mant = 0
        /\ exp # 31 /\ M # 0 =>
             /\ f.exp \in 1 .. 254
             /\ 126 + E >= f.exp
             /\ 2^23 + f.mant = M * 2^(126 + E - f.exp)

=============================================================================
