------------------------------ MODULE Whirlpool ------------------------------
(***************************************************************************)
(* utils/whirlpool-algorithm.c: the hash function Whirlpool.  WP_Add()     *)
(* takes any number of bits at a time and fits them behind the bits that   *)
(* are already in the buffer; a full buffer of 64 bytes is compressed into *)
(* the hash, and WP_Finalize() adds a 1, zeros and the 256-bit length.     *)
(* The caller in the program, Whirlpool.xs, adds whole bytes only.         *)
(***************************************************************************)
EXTENDS Bytes

CONSTANTS Source,  \* the bytes the message is taken from
          Adds,    \* the numbers of bits of calls of WP_Add()
          MaxAdds  \* how many calls of it there are in all

VARIABLES wp,      \* the WP_Struct; the hash as 8 words of 8 bytes
          added,   \* the bits of the message so far
          digest,  \* what WP_Finalize() returned, once it has been called
          adds     \* how many calls of WP_Add() there were

wpVars == <<wp, added, digest, adds>>
-----------------------------------------------------------------------------
WpPoly == 285
\* The box of the hash Whirlpool: the first bytes of C0.
WpBytes ==
  << 24,  35, 198, 232, 135, 184,   1,  79,  54, 166, 210, 245, 121, 111, 145,  82,
     96, 188, 155, 142, 163,  12, 123,  53,  29, 224, 215, 194,  46,  75, 254,  87,
     21, 119,  55, 229, 159, 240,  74, 218,  88, 201,  41,  10, 177, 160, 107, 133,
    189,  93,  16, 244, 203,  62,   5, 103, 228,  39,  65, 139, 167, 125, 149, 216,
    251, 238, 124, 102, 221,  23,  71, 158, 202,  45, 191,   7, 173,  90, 131,  51,
     99,   2, 170, 113, 200,  25,  73, 217, 242, 227,  91, 136, 154,  38,  50, 176,
    233,  15, 213, 128, 190, 205,  52,  72, 255, 122, 144,  95,  32, 104,  26, 174,
    180,  84, 147,  34, 100, 241, 115,  18,  64,   8, 195, 236, 219, 161, 141,  61,
    151,   0, 207,  43, 118, 130, 214,  27, 181, 175, 106,  80,  69, 243,  48, 239,
     63,  85, 162, 234, 101, 186,  47, 192, 222,  28, 253,  77, 146, 117,   6, 138,
    178, 230,  14,  31,  98, 212, 168, 150, 249, 197,  37,  89, 132, 114,  57,  76,
     94, 120,  56, 140, 209, 165, 226,  97, 179,  33, 156,  30,  67, 199, 252,   4,
     81, 153, 109,  13, 250, 223, 126,  36,  59, 171, 206,  17, 143,  78, 183, 235,
     60, 129, 148, 247, 185,  19,  44, 211, 231, 110, 196,   3,  86,  68, 127, 169,
     42, 187, 193,  83, 220,  11, 157, 108,  49, 116, 246,  70, 172, 137,  20, 225,
     22,  58, 105,   9, 112, 182, 208, 237, 204,  66, 152, 164,  40,  92, 248, 134>>
WpBox == [b \in Byte |-> WpBytes[b + 1]]
C0 == Multiples(WpBox, <<1, 1, 4, 1, 8, 5, 2, 9>>, WpPoly)
C1 == Multiples(WpBox, <<9, 1, 1, 4, 1, 8, 5, 2>>, WpPoly)
C2 == Multiples(WpBox, <<2, 9, 1, 1, 4, 1, 8, 5>>, WpPoly)
C3 == Multiples(WpBox, <<5, 2, 9, 1, 1, 4, 1, 8>>, WpPoly)
C4 == Multiples(WpBox, <<8, 5, 2, 9, 1, 1, 4, 1>>, WpPoly)
C5 == Multiples(WpBox, <<1, 8, 5, 2, 9, 1, 1, 4>>, WpPoly)
C6 == Multiples(WpBox, <<4, 1, 8, 5, 2, 9, 1, 1>>, WpPoly)
C7 == Multiples(WpBox, <<1, 4, 1, 8, 5, 2, 9, 1>>, WpPoly)
C == <<C0, C1, C2, C3, C4, C5, C6, C7>>

\* Round r's constant: the next eight entries of the box.
rc == [r \in 1..10 |-> Computed([j \in 1..8 |-> WpBytes[8 * (r - 1) + j]])]
R == 10

\* Word i of a round: byte j comes from j words back.
WpRound(s, k) ==
  Computed([i \in 1..8 |->
     XorWords(Computed([j \in 1..8 |-> C[j][s[1 + ((i - j) % 8)][j]]]) \o <<k[i]>>)])

NoWord == Computed([i \in 1..8 |-> 0])
ConstantKey(r) == <<rc[r]>> \o Computed([i \in 1..7 |-> NoWord])

\* The rounds one after the other: past holds the pairs of round key and cipher
\* state so far.
RECURSIVE WpRounds(_)
WpRounds(past) ==
  LET K == past[Len(past)][1]
      state == past[Len(past)][2]
      next == WpRound(K, ConstantKey(Len(past)))
  IN  IF Len(past) > R THEN state
      ELSE WpRounds(Append(past, <<next, WpRound(state, next)>>))

XorEach(a, b) == Computed([i \in 1..8 |-> XorBytes(a[i], b[i])])

\* The buffer compressed into the hash (Miyaguchi-Preneel).
processBuffer(hash, buffer) ==
  LET block == Split(buffer, 8)
  IN  XorEach(hash, XorEach(WpRounds(<<<<hash, XorEach(block, hash)>>>>), block))
-----------------------------------------------------------------------------
Left(b, n) == (b * 2^n) % 256
Right(b, n) == b \div 2^n
ZeroBytes(n) == Computed([i \in 1..n |-> 0])

\* WP_Create().  Only the first byte of the buffer is cleared: what is behind it
\* is written before it is read, and garbage until then.
NewStruct ==
  [bitLength |-> ZeroBytes(32), bufferBits |-> 0,
   buffer |-> [i \in 1..64 |-> IF i = 1 THEN 0 ELSE 165],
   bufferPos |-> 0, hash |-> Computed([i \in 1..8 |-> NoWord])]

WpInit == wp = NewStruct /\ added = <<>> /\ digest = <<>> /\ adds = 0

\* The 256-bit counter plus value, from its last byte on.
RECURSIVE Tallied(_, _, _, _)
Tallied(bitLength, value, carry, i) ==
  IF i = 0 \/ (carry = 0 /\ value = 0) THEN bitLength
  ELSE LET sum == carry + bitLength[i] + (value % 256)
       IN  Tallied([bitLength EXCEPT ![i] = sum % 256], value \div 256,
                   sum \div 256, i - 1)

\* A full buffer is compressed and starts again at its first byte.
Flushed(w) ==
  IF w.bufferBits = 512
  THEN [w EXCEPT !.hash = processBuffer(@, w.buffer), !.bufferBits = 0,
                 !.bufferPos = 0]
  ELSE w

\* b, left-justified, behind the rem bits of the current byte: its first bits
\* fill that byte, which may flush the buffer.
FilledUp(w, b, rem) ==
  Flushed([w EXCEPT !.buffer[w.bufferPos + 1] = @ | Right(b, rem),
                    !.bufferPos = @ + 1, !.bufferBits = @ + 8 - rem])
\* The rest of b begins the next byte.
Continued(w, b, rem, n) ==
  [w EXCEPT !.buffer[w.bufferPos + 1] = Left(b, 8 - rem), !.bufferBits = @ + n]

\* source[pos] and the bits of the byte behind it, without the gap in front.
FromSource(source, pos, gap) ==
  Left(source[pos], gap) | Right(source[pos + 1], 8 - gap)

\* The loop of WP_Add() over whole bytes, then up to 8 bits that are left.  The
\* buffer is never full between two bytes.
RECURSIVE AddBits(_, _, _, _, _, _)
AddBits(w, source, pos, bits, gap, rem) ==
  IF bits > 8 /\ w.bufferBits < 512
  THEN LET b == FromSource(source, pos, gap)
       IN  AddBits(Continued(FilledUp(w, b, rem), b, rem, rem), source, pos + 1,
                   bits - 8, gap, rem)
  ELSE LET b == IF bits > 0 THEN Left(source[pos], gap) ELSE 0
       IN  IF rem + bits < 8
           THEN [w EXCEPT !.buffer[w.bufferPos + 1] = @ | Right(b, rem),
                          !.bufferBits = @ + bits]
           ELSE Continued(FilledUp(w, b, rem), b, rem, bits - (8 - rem))

\* The bits of a source whose first byte has a gap in front.
BitsOf(source, gap) ==
  Computed([i \in 1..(8 * Len(source) - gap) |->
     Right(source[1 + (i + gap - 1) \div 8], 7 - ((i + gap - 1) % 8)) % 2])

\* One call of WP_Add() with the next bytes of the message.
WP_Add(sourceBits) ==
  LET gap == (8 - (sourceBits % 8)) % 8
      first == Len(added) \div 8 + 1
      source == SubSeq(Source, first, first + (sourceBits + 7) \div 8 - 1)
  IN  /\ digest = <<>> /\ adds < MaxAdds
      /\ wp' = [AddBits(wp, source, 1, sourceBits, gap, wp.bufferBits % 8)
                  EXCEPT !.bitLength = Tallied(wp.bitLength, sourceBits, 0, 32)]
      /\ added' = added \o BitsOf(source, gap)
      /\ adds' = adds + 1
      /\ UNCHANGED digest

\* Whether data up to this byte leaves no room for the length.
NeedsTwo(pos) == pos > 32

\* A '1' bit behind the data, zeros and the length: one or two more buffers.
WP_Finalize ==
  LET pos == wp.bufferPos + 1
      marked == [wp.buffer EXCEPT ![pos] = @ | Right(128, wp.bufferBits % 8)]
      cleared(buffer, from, to) ==
        Computed([i \in 1..64 |-> IF i > from /\ i <= to THEN 0 ELSE buffer[i]])
      long == NeedsTwo(pos)
      hash == IF long THEN processBuffer(wp.hash, cleared(marked, pos, 64))
              ELSE wp.hash
      last == cleared(IF long THEN cleared(marked, pos, 64) ELSE marked,
                      IF long THEN 0 ELSE pos, 32)
      final == processBuffer(hash, SubSeq(last, 1, 32) \o wp.bitLength)
  IN  /\ digest = <<>>
      /\ wp' = [wp EXCEPT !.hash = final,
                          !.buffer = SubSeq(last, 1, 32) \o wp.bitLength]
      /\ digest' = Joined(final)
      /\ UNCHANGED <<added, adds>>

\* WP_Init() makes the struct ready for another message.
WP_Init ==
  /\ digest # <<>>
  /\ wp' = [NewStruct EXCEPT !.buffer = [wp.buffer EXCEPT ![1] = 0]]
  /\ added' = <<>> /\ digest' = <<>>
  /\ UNCHANGED adds

WpNext ==
  \/ \E n \in Adds : WP_Add(n)
  \/ WP_Finalize
  \/ WP_Init
-----------------------------------------------------------------------------
(* The hash of a message as its authors define it, bit string first. *)

LOCAL Padding(n) ==
  <<1>> \o ZeroBytes((255 - n) % 512)
LOCAL LengthBits(n) ==
  Computed([i \in 1..256 |-> IF i < 226 THEN 0 ELSE (n \div 2^(256 - i)) % 2])
LOCAL PaddedBits(bits) == bits \o Padding(Len(bits)) \o LengthBits(Len(bits))

LOCAL ByteOf(bits) ==
  FoldLeft(LAMBDA b, bit : 2 * b + bit, 0, bits)

\* One round: box, column j moved down by j, rows mixed, key added.
LOCAL StandardRound(s, k) ==
  LET shifted == Computed([i \in 1..8 |-> Computed([j \in 1..8 |->
                   WpBox[s[1 + ((i - j) % 8)][j]]])])
      factor == <<1, 1, 4, 1, 8, 5, 2, 9>>
      mixed(row) == Computed([j \in 1..8 |->
                      XorWords([m \in 1..8 |->
                        <<Times(row[m], factor[1 + ((j - m) % 8)], WpPoly)>>])[1]])
  IN  XorEach(Computed([i \in 1..8 |-> mixed(shifted[i])]), k)

RECURSIVE StandardRounds(_)
StandardRounds(past) ==
  LET r == Len(past)
      K == past[r][1]
      key == <<SubSeq(WpBytes, 8 * r - 7, 8 * r)>> \o Computed([i \in 1..7 |-> NoWord])
      next == StandardRound(K, key)
  IN  IF r > 10 THEN past[r][2]
      ELSE StandardRounds(Append(past, <<next, StandardRound(past[r][2], next)>>))

RECURSIVE StandardHash(_, _)
StandardHash(hash, buffers) ==
  IF buffers = <<>> THEN hash
  ELSE LET m == Split(Head(buffers), 8)
           e == StandardRounds(<<<<hash, XorEach(m, hash)>>>>)
       IN  StandardHash(XorEach(XorEach(e, hash), m), Tail(buffers))

\* The digest is the hash of the added bits as specified, whatever calls they
\* came in: gaps, half bytes, full buffers and the place of the padding.
DigestIsStandard ==
  digest # <<>> =>
    digest = LET bits == PaddedBits(added)
                 bytes == Computed([i \in 1..(Len(bits) \div 8) |->
                            ByteOf(SubSeq(bits, 8 * i - 7, 8 * i))])
             IN  Joined(StandardHash(Computed([i \in 1..8 |-> NoWord]),
                                     Split(bytes, 64)))
=============================================================================
