-------------------------------- MODULE Bytes --------------------------------
(***************************************************************************)
(* Bytes and words as the ciphers and the hash use them.  A byte is a      *)
(* number, a word of any width the sequence of its bytes, the most         *)
(* significant first: TLC's own integers are 32 bits wide and signed.      *)
(***************************************************************************)
EXTENDS Integers, SequencesExt, Bitwise

Byte == 0..255

\* The nibble table keeps TLC from computing the large one bit by bit.
XorNibble == [a \in 0..15 |-> [b \in 0..15 |-> a ^^ b]]
XorTable ==
  [a \in Byte |->
     [b \in Byte |->
        16 * XorNibble[a \div 16][b \div 16] + XorNibble[a % 16][b % 16]]]

XorByte(a, b) == XorTable[a][b]

\* A sequence given as a function, with its elements computed once: TLC would
\* otherwise compute them anew wherever one is used.
Computed(f) == f \o <<>>

\* a ^ b for words, blocks and whole buffers: as long as a.
XorBytes(a, b) == Computed([i \in 1..Len(a) |-> XorTable[a[i]][b[i]]])

\* The exclusive or of the words of ws, all as long as the first.
RECURSIVE XorWords(_)
XorWords(ws) ==
  IF Len(ws) = 1 THEN ws[1] ELSE XorBytes(ws[1], XorWords(Tail(ws)))

\* The same for four of them.
XorFour(a, b, c, d) ==
  Computed([i \in 1..Len(a) |-> XorTable[XorTable[a[i]][b[i]]][XorTable[c[i]][d[i]]]])

\* A loop for i from 0 to n - 1, or back, each step of it done before the next;
\* by halves, for the sake of TLC's stack.
Repeated(Op(_, _), x, n) ==
  LET RECURSIVE Steps(_, _, _)
      Steps(y, i, j) ==
        IF j = i THEN y
        ELSE IF j = i + 1 THEN Op(y, i)
        ELSE LET half == (i + j) \div 2
             IN  CHOOSE z \in {Steps(m, half, j) : m \in {Steps(y, i, half)}} : TRUE
  IN  Steps(x, 0, n)
Reversed(Op(_, _), x, n) == Repeated(LAMBDA y, i : Op(y, n - 1 - i), x, n)

\* A buffer as its words of n bytes, and back.
Split(buffer, n) ==
  Computed([i \in 1..(Len(buffer) \div n) |->
              SubSeq(buffer, n * (i - 1) + 1, n * i)])
Joined(words) == FlattenSeq(words)

\* The S-box, which both implementations of Rijndael have in their tables.
SBytes ==
  << 99, 124, 119, 123, 242, 107, 111, 197,  48,   1, 103,  43, 254, 215, 171, 118,
    202, 130, 201, 125, 250,  89,  71, 240, 173, 212, 162, 175, 156, 164, 114, 192,
    183, 253, 147,  38,  54,  63, 247, 204,  52, 165, 229, 241, 113, 216,  49,  21,
      4, 199,  35, 195,  24, 150,   5, 154,   7,  18, 128, 226, 235,  39, 178, 117,
      9, 131,  44,  26,  27, 110,  90, 160,  82,  59, 214, 179,  41, 227,  47, 132,
     83, 209,   0, 237,  32, 252, 177,  91, 106, 203, 190,  57,  74,  76,  88, 207,
    208, 239, 170, 251,  67,  77,  51, 133,  69, 249,   2, 127,  80,  60, 159, 168,
     81, 163,  64, 143, 146, 157,  56, 245, 188, 182, 218,  33,  16, 255, 243, 210,
    205,  12,  19, 236,  95, 151,  68,  23, 196, 167, 126,  61, 100,  93,  25, 115,
     96, 129,  79, 220,  34,  42, 144, 136,  70, 238, 184,  20, 222,  94,  11, 219,
    224,  50,  58,  10,  73,   6,  36,  92, 194, 211, 172,  98, 145, 149, 228, 121,
    231, 200,  55, 109, 141, 213,  78, 169, 108,  86, 244, 234, 101, 122, 174,   8,
    186, 120,  37,  46,  28, 166, 180, 198, 232, 221, 116,  31,  75, 189, 139, 138,
    112,  62, 181, 102,  72,   3, 246,  14,  97,  53,  87, 185, 134, 193,  29, 158,
    225, 248, 152,  17, 105, 217, 142, 148, 155,  30, 135, 233, 206,  85,  40, 223,
    140, 161, 137,  13, 191, 230,  66, 104,  65, 153,  45,  15, 176,  84, 187,  22>>

\* Multiplication in GF(2^8) modulo the polynomial poly (with its x^8 bit).
Doubled(a, poly) ==
  IF a < 128 THEN 2 * a ELSE XorByte(2 * a - 256, poly - 256)
RECURSIVE Times(_, _, _)
Times(a, n, poly) ==
  IF n = 0 THEN 0
  ELSE XorByte(IF n % 2 = 1 THEN a ELSE 0,
           Times(Doubled(a, poly), n \div 2, poly))

\* The table whose entry at x is c[i] times box[x], for the i-th byte of c.
Multiples(box, c, poly) ==
  [x \in Byte |-> [i \in 1..Len(c) |-> Times(box[x], c[i], poly)]]
=============================================================================
