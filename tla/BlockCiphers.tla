---------------------------- MODULE BlockCiphers ----------------------------
(***************************************************************************)
(* The block ciphers of the padded packets (PaddedPackets/Algorithms):     *)
(* SAFER, FEAL-8, MISTY1, CAST-128, MacGuffin and Turtle, each with the    *)
(* two directions that algorithms.cpp has a function for.  The contents of *)
(* the substitution boxes are constants of this module: whether a block    *)
(* comes back depends on the order of the steps and the keys, not on them. *)
(* A dword is one of 32 bits here, as typedefs.h says and means.           *)
(***************************************************************************)
EXTENDS Bytes

CONSTANTS S7(_), S9(_),    \* s7table and s9table of misty1.c
          CastBox(_, _),   \* cast_sboxes.h: number 1 to 8, byte to four bytes
          McgBox(_, _),    \* sBoxes of mcg_cipher.c: number 0 to 7, six bits
          TurtleBits,      \* TURTLEBITS, at most 8
          BlockKeys,       \* sixteen bytes; ciphers of shorter keys take the first
          PlainBlocks      \* eight bytes

VARIABLE block  \* a block, where it is on its way, and the cipher and key

Doubling(b, e) == (2 ^ e * b) % 256
Rol(b, n) == Doubling(b, n) + b \div 2 ^ (8 - n)
-----------------------------------------------------------------------------
\* SAFER.  Powers of 45 modulo 257, and their logarithms.
RECURSIVE PowerOf45(_)
PowerOf45(i) ==
  IF i = 0 THEN 1
  ELSE LET half == PowerOf45(i \div 2)
       IN  (((half * half) % 257) * (IF i % 2 = 1 THEN 45 ELSE 1)) % 257
ExpTab == [i \in Byte |-> PowerOf45(i) % 256]
LogTab == [x \in Byte |-> CHOOSE i \in Byte : ExpTab[i] = x]

\* The bytes that are mixed by xor and exponent; the others by sum and logarithm.
Xored == {1, 4, 5, 8}

\* Two layers of eight bytes for each round, and one more before them.
Safer_Expand_Userkey(k1_, k2_, rounds, strengthened) ==
  LET ka == Computed([j \in 1..8 |-> Rol(k1_[j], 5)])
      Nine(s) == Append(s, XorWords([j \in 1..8 |-> <<s[j]>>])[1])
      Turned(s, i) == [j \in 1..9 |-> Rol(Nine(s)[j], (6 * i) % 8)]
      Bias(n) == ExpTab[ExpTab[n]]
      Layer(s, i, shift, from) ==
        [j \in 1..8 |->
           (Turned(s, i)[IF strengthened THEN ((j - 1 + shift) % 9) + 1 ELSE j]
              + Bias(18 * i + j + from)) % 256]
  IN  Computed(<<k2_>> \o
        [l \in 1..(2 * (IF rounds > 13 THEN 13 ELSE rounds)) |->
           LET i == (l + 1) \div 2
           IN  Computed(IF l % 2 = 1 THEN Layer(ka, i, 2 * i - 1, 0)
                        ELSE Layer(k2_, i, 2 * i, 9))])

KeyIn(s, k)  == Computed([i \in 1..8 |-> IF i \in Xored THEN XorByte(s[i], k[i])
                                         ELSE (s[i] + k[i]) % 256])
KeyOut(s, k) == Computed([i \in 1..8 |-> IF i \in Xored THEN XorByte(s[i], k[i])
                                         ELSE (s[i] - k[i]) % 256])

\* PHT and IPHT of all pairs that lie the distance d apart.
Low(i, d) == ((i - 1) \div d) % 2 = 0
PHT(s, d)  == Computed([i \in 1..8 |-> (IF Low(i, d) THEN 2 * s[i] + s[i + d]
                                        ELSE s[i - d] + s[i]) % 256])
IPHT(s, d) == Computed([i \in 1..8 |-> (IF Low(i, d) THEN s[i] - s[i + d]
                                        ELSE 2 * s[i] - s[i - d]) % 256])

SaferRound(s, k, kk) ==
  LET a == KeyIn(s, k)
      b == [i \in 1..8 |-> IF i \in Xored THEN (ExpTab[a[i]] + kk[i]) % 256
                           ELSE XorByte(LogTab[a[i]], kk[i])]
      c == PHT(PHT(PHT(Computed(b), 1), 2), 4)
  IN  <<c[1], c[5], c[2], c[6], c[3], c[7], c[4], c[8]>>

SaferRoundBack(s, k, kk) ==
  LET c == <<s[1], s[3], s[5], s[7], s[2], s[4], s[6], s[8]>>
      b == IPHT(IPHT(IPHT(c, 4), 2), 1)
  IN  Computed([i \in 1..8 |->
         IF i \in Xored THEN XorByte(LogTab[(b[i] - kk[i]) % 256], k[i])
         ELSE (ExpTab[XorByte(b[i], kk[i])] - k[i]) % 256])

SaferRounds(key) == (Len(key) - 1) \div 2
Safer_Encrypt_Block(in, key) ==
  KeyIn(Repeated(LAMBDA s, r : SaferRound(s, key[2 * r + 1], key[2 * r + 2]), in,
                 SaferRounds(key)),
        key[Len(key)])

Safer_Decrypt_Block(in, key) ==
  Reversed(LAMBDA s, r : SaferRoundBack(s, key[2 * r + 1], key[2 * r + 2]),
           KeyOut(in, key[Len(key)]), SaferRounds(key))
-----------------------------------------------------------------------------
\* FEAL-8: half words of four bytes, quarter words of two.
S0(x, y) == Rol((x + y) % 256, 2)
S1(x, y) == Rol((x + y + 1) % 256, 2)

F8_f(a, b) ==
  LET x  == XorByte(XorByte(a[2], b[1]), a[1])
      y  == XorByte(XorByte(a[3], b[2]), a[4])
      f1 == S1(x, y)
      f2 == S0(y, f1)
  IN  <<S0(a[1], f1), f1, f2, S1(a[4], f2)>>

FK(a, b) ==
  LET y   == XorByte(a[3], a[4])
      fk1 == S1(XorByte(a[2], a[1]), XorByte(y, b[1]))
      fk2 == S0(y, XorByte(fk1, b[2]))
  IN  <<S0(a[1], XorByte(fk1, b[3])), fk1, fk2, S1(a[4], XorByte(fk2, b[4]))>>

\* Four times the two quarters of a half, eight times: K[0] is the first.
F8_SetKey(key) ==
  LET Next4(st) == LET b == FK(st.a, XorBytes(st.b, st.d))
                   IN  [d |-> st.a, a |-> st.b, b |-> b, k |-> st.k \o Split(b, 2)]
      first == [a |-> SubSeq(key, 1, 4), b |-> SubSeq(key, 5, 8), d |-> <<0, 0, 0, 0>>,
                k |-> <<>>]
  IN  Repeated(LAMBDA st, i : Next4(st), first, 8).k

\* K89, K1011, K1213 and K1415.
Half(k, i) == k[i + 1] \o k[i + 2]

F8_Encrypt(in, k) ==
  LET l  == XorBytes(SubSeq(in, 1, 4), Half(k, 8))
      r  == XorBytes(XorBytes(SubSeq(in, 5, 8), Half(k, 10)), l)
      st == Repeated(LAMBDA x, i : <<x[2], XorBytes(x[1], F8_f(x[2], k[i + 1]))>>,
                     <<l, r>>, 8)
  IN  XorBytes(st[2], Half(k, 12)) \o XorBytes(XorBytes(st[1], st[2]), Half(k, 14))

F8_Decrypt(in, k) ==
  LET r  == XorBytes(SubSeq(in, 1, 4), Half(k, 12))
      l  == XorBytes(XorBytes(SubSeq(in, 5, 8), Half(k, 14)), r)
      st == Reversed(LAMBDA x, i : <<XorBytes(x[2], F8_f(x[1], k[i + 1])), x[1]>>,
                     <<l, r>>, 8)
  IN  XorBytes(st[1], Half(k, 8)) \o XorBytes(XorBytes(st[2], st[1]), Half(k, 10))
-----------------------------------------------------------------------------
\* Numbers of 16 bits, and their two bytes, the lower one first.
XorWord(a, b) == 256 * XorByte(a \div 256, b \div 256) + XorByte(a % 256, b % 256)
WordOf(two) == two[1] + 256 * two[2]
Words(bytes) == LET w == Split(bytes, 2) IN Computed([i \in 1..Len(w) |-> WordOf(w[i])])
BytesOf(words) == Joined([i \in 1..Len(words) |-> <<words[i] % 256, words[i] \div 256>>])

\* MISTY1: a dword is a pair of words, the higher one first.
fi(in, key) ==
  LET low == in % 128
      d9  == XorWord(S9(in \div 128), low)
      d7  == XorWord(XorWord(S7(low), d9) % 128, key \div 512)
  IN  512 * d7 + XorWord(S9(XorWord(d9, key % 512)), d7)

\* ek is indexed from 0; its words from 16 on are derived and never used.
Upper(i) == (i % 8) + 8

\* Three turns of the two halves, each with two words of the key.
fo(ek, d, k) ==
  LET Turn(x, i) ==
        <<x[2], XorWord(fi(XorWord(x[1], ek[(k + <<0, 2, 7>>[i + 1]) % 8]),
                           ek[Upper(k + <<5, 1, 3>>[i + 1])]), x[2])>>
      t == Repeated(Turn, d, 3)
  IN  <<XorWord(t[1], ek[(k + 4) % 8]), t[2]>>

AndKey(ek, k) == LET t == k \div 2 IN IF k % 2 = 1 THEN ek[Upper(t + 2)] ELSE ek[t]
OrKey(ek, k)  == LET t == k \div 2 IN IF k % 2 = 1 THEN ek[(t + 4) % 8] ELSE ek[Upper(t + 6)]

flD(ek, d, k) ==
  LET low == XorWord(d[2], d[1] & AndKey(ek, k))
  IN  <<XorWord(d[1], low | OrKey(ek, k)), low>>

flE(ek, d, k) ==
  LET high == XorWord(d[1], d[2] | OrKey(ek, k))
  IN  <<high, XorWord(d[2], high & AndKey(ek, k))>>

MSTInit(key) ==
  LET ek == Computed([i \in 1..8 |-> key[2 * i - 1] * 256 + key[2 * i]])
  IN  [i \in 0..15 |-> IF i < 8 THEN ek[i + 1] ELSE fi(ek[i - 7], ek[((i - 7) % 8) + 1])]

XorPair(a, b) == <<XorWord(a[1], b[1]), XorWord(a[2], b[2])>>
Dwords(in) == LET w == Words(in) IN << <<w[2], w[1]>>, <<w[4], w[3]>> >>
FromDwords(a, b) == BytesOf(<<a[2], a[1], b[2], b[1]>>)

\* In round i one of the dwords of x is changed by the other and subkey k.
Crossed(ek, x, i, k) ==
  IF i % 2 = 0 THEN <<x[1], XorPair(x[2], fo(ek, x[1], k))>>
               ELSE <<XorPair(x[1], fo(ek, x[2], k)), x[2]>>

MSTEncryptD(ek, in) ==
  LET Layer(x, i) == IF i % 2 = 1 THEN x
                     ELSE <<flD(ek, x[1], i), flD(ek, x[2], i + 1)>>
      x == Repeated(LAMBDA y, i : Crossed(ek, Layer(y, i), i, i), Dwords(in), 8)
  IN  FromDwords(flD(ek, x[2], 9), flD(ek, x[1], 8))

MSTEncryptE(ek, in) ==
  LET Layer(x, i) == IF i % 2 = 1 THEN x
                     ELSE <<flE(ek, x[1], 9 - i), flE(ek, x[2], 8 - i)>>
      x == Repeated(LAMBDA y, i : Crossed(ek, Layer(y, i), i, 7 - i), Dwords(in), 8)
  IN  FromDwords(flE(ek, x[2], 0), flE(ek, x[1], 1))
-----------------------------------------------------------------------------
\* CAST-128: words of four bytes, the highest first.
\* a + b, or a - b for a sign of -1, in 32 bits.
Plus(a, sign, b) ==
  LET low  == 256 * a[3] + a[4] + sign * (256 * b[3] + b[4])
      high == 256 * a[1] + a[2] + sign * (256 * b[1] + b[2]) + low \div 65536
  IN  <<(high \div 256) % 256, high % 256, (low \div 256) % 256, low % 256>>

RolWord(x, n) ==
  LET y == Computed([i \in 1..4 |-> x[((i - 1 + n \div 8) % 4) + 1]])
  IN  Computed([i \in 1..4 |-> Doubling(y[i], n % 8) + y[(i % 4) + 1] \div 2 ^ (8 - (n % 8))])

\* F1, F2 and F3 take turns: the word that goes into the boxes, what comes out.
CastIn(key, r, i) ==
  LET k == key[i + 1]
  IN  RolWord(CASE i % 3 = 0 -> Plus(k, 1, r)
                [] i % 3 = 1 -> XorBytes(k, r)
                [] i % 3 = 2 -> Plus(k, -1, r),
              key[i + 17][4])
CastOut(t, i) ==
  LET Box(n) == CastBox(n, t[n])
  IN  CASE i % 3 = 0 -> Plus(Plus(XorBytes(Box(1), Box(2)), -1, Box(3)), 1, Box(4))
        [] i % 3 = 1 -> XorBytes(Plus(Plus(Box(1), -1, Box(2)), 1, Box(3)), Box(4))
        [] i % 3 = 2 -> Plus(XorBytes(Plus(Box(1), 1, Box(2)), Box(3)), -1, Box(4))

\* x is <<l, r>>; r changes l in even rounds and l changes r in odd ones.
CastRound(key, x, i) ==
  LET a == 1 + (i % 2)
  IN  [x EXCEPT ![a] = XorBytes(@, CastOut(CastIn(key, x[3 - a], i), i))]

cast_encrypt(in, key) ==
  LET x == Repeated(LAMBDA y, i : CastRound(key.xkey, y, i), Split(in, 4), key.rounds)
  IN  x[2] \o x[1]

cast_decrypt(in, key) ==
  LET lr == Split(in, 4)
      x  == Reversed(LAMBDA y, i : CastRound(key.xkey, y, i), <<lr[2], lr[1]>>, key.rounds)
  IN  x[1] \o x[2]

\* One word of the next four: a word, boxes 5 to 8 at four bytes, and one more box.
\* Sixteen bytes are numbered from 0.
Spread(word, from, bytes, n, b) ==
  XorWords(<<word>> \o [i \in 1..4 |-> CastBox(i + 4, from[bytes[i] + 1])]
                    \o <<CastBox(n, b)>>)

\* z out of x, and x out of z: the order of the words, and where the first
\* boxes and the last ones look.
NextFour(x, order, first, last) ==
  LET Word(i) == SubSeq(x, 4 * i + 1, 4 * i + 4)
      z0 == Spread(Word(order[1]), Word(first), <<1, 3, 0, 2>>, 7, Word(last)[1])
      z1 == Spread(Word(order[2]), z0, <<0, 2, 1, 3>>, 8, Word(last)[3])
      z2 == Spread(Word(order[3]), z1, <<3, 2, 1, 0>>, 5, Word(last)[2])
      z3 == Spread(Word(order[4]), z2, <<2, 1, 3, 0>>, 6, Word(last)[4])
  IN  z0 \o z1 \o z2 \o z3

\* Which bytes of the sixteen go into each of four subkeys, in each of four
\* turns: one through each of boxes 5 to 8.
SubkeyBytes(turn) ==
  IF turn \in {0, 3}
  THEN << <<8, 9, 7, 6>>, <<10, 11, 5, 4>>, <<12, 13, 3, 2>>, <<14, 15, 1, 0>> >>
  ELSE << <<3, 2, 12, 13>>, <<1, 0, 14, 15>>, <<7, 6, 8, 9>>, <<5, 4, 10, 11>> >>
OneMore == << <<2, 6, 9, 12>>, <<8, 13, 3, 7>>, <<9, 12, 2, 6>>, <<3, 7, 8, 13>> >>

\* Subkey q of the four that turn i takes from the sixteen bytes t.
Subkey(t, i, q) ==
  XorWords([n \in 1..4 |-> CastBox(n + 4, t[SubkeyBytes(i % 4)[q][n] + 1])]
             \o <<CastBox(q + 4, t[OneMore[(i % 4) + 1][q] + 1])>>)

cast_setkey(rawkey) ==
  LET Four(st, i) ==
        IF i % 2 = 0 THEN NextFour(st, <<0, 2, 3, 1>>, 3, 2)
                     ELSE NextFour(st, <<2, 0, 1, 3>>, 1, 0)
      Kept(k, i) == IF i >= 4 THEN <<0, 0, 0, k[4] % 32>> ELSE k
      AndKeys(st, i) ==
        [t |-> st, xkey |-> Computed([q \in 1..4 |-> Kept(Subkey(st, i, q), i)])]
      Turn(st, i) ==
        LET next == AndKeys(Four(st.t, i), i)
        IN  [next EXCEPT !.xkey = st.xkey \o @]
      x == [i \in 1..16 |-> IF i <= Len(rawkey) THEN rawkey[i] ELSE 0]
  IN  [rounds |-> IF Len(rawkey) <= 10 THEN 12 ELSE 16,
       xkey |-> Repeated(Turn, [t |-> Computed(x), xkey |-> <<>>], 8).xkey]
-----------------------------------------------------------------------------
\* MacGuffin: sTable, a word for each word, from eight boxes of two bits each.
Bit(w, i) == (w \div 2 ^ i) % 2
SumOf(s) == FoldLeft(+, 0, s)
sBits == << <<2, 5, 6, 9, 11, 13>>, <<1, 4, 7, 10, 8, 14>>, <<3, 6, 8, 13, 0, 15>>,
            <<12, 14, 1, 2, 4, 10>>, <<0, 10, 3, 14, 6, 12>>, <<7, 8, 12, 15, 1, 5>>,
            <<9, 15, 5, 11, 2, 7>>, <<11, 13, 0, 4, 3, 9>> >>
sTable(w) ==
  SumOf([j \in 1..8 |->
     McgBox(j - 1, SumOf([n \in 1..6 |-> 2 ^ (n - 1) * Bit(w, sBits[j][n])]))])

\* IN00 to OUT3, in decimal.
Masks == << <<54, 1728, 26880, 15>>, <<20552, 8454, 33809, 240>>,
            <<34305, 18472, 4292, 13056>>, <<10624, 36881, 554, 52224>> >>

McgF(a, b, c) ==
  SumOf([i \in 1..4 |->
     Masks[i][4] & sTable(((a & Masks[i][1]) | (b & Masks[i][2])) | (c & Masks[i][3]))])

\* A step changes word number "at" by the three others, in the order given.
McgStep(w, at, a, b, c, ka, kb, kc) ==
  [w EXCEPT ![at + 1] = XorWord(@, McgF(XorWord(w[a + 1], ka), XorWord(w[b + 1], kb),
                                        XorWord(w[c + 1], kc)))]

McgForth(words, ek) ==
  Repeated(LAMBDA w, s : McgStep(w, s % 4, (s + 1) % 4, (s + 2) % 4, (s + 3) % 4,
                                 ek[3 * s + 1], ek[3 * s + 2], ek[3 * s + 3]),
           words, 32)

MCGBlockEncrypt0(in, ek) == BytesOf(McgForth(Words(in), ek))

\* Here r0 is the second word of the block, and the subkeys come from the end.
MCGBlockEncrypt1(in, ek) ==
  LET b == Words(in)
      r == Repeated(LAMBDA w, s : McgStep(w, (2 - s) % 4, (3 - s) % 4, (- s) % 4, (1 - s) % 4,
                                          ek[94 - 3 * s], ek[95 - 3 * s], ek[96 - 3 * s]),
                    <<b[2], b[3], b[4], b[1]>>, 32)
  IN  BytesOf(<<r[4], r[1], r[2], r[3]>>)

\* The subkeys change while the halves of the key are encrypted with them.
MCGKeyset(key) ==
  LET Add3(st, j) ==
        LET k == McgForth(st.k, st.ek)
        IN  [k |-> k, ek |-> Computed([i \in 1..96 |->
               IF i \in (3 * j + 1)..(3 * j + 3) THEN XorWord(st.ek[i], k[i - 3 * j])
               ELSE st.ek[i]])]
      With(ek, half) == Repeated(Add3, [k |-> Words(half), ek |-> ek], 32).ek
  IN  With(With([i \in 1..96 |-> 0], SubSeq(key, 1, 8)), SubSeq(key, 9, 16))
-----------------------------------------------------------------------------
\* Turtle and Hare: words of TurtleBits bits, NTURTLEWORDS of them.
N == 2 ^ TurtleBits
TurtleWord == 0..(N - 1)
Swapped(f, i, j) == [f EXCEPT ![i] = f[j], ![j] = f[i]]
Identity == [i \in TurtleWord |-> i]

\* j and k go on from one box to the next.
keyperm(key, n) ==
  LET Swap(st, c) ==
        LET b == c \div (TurtleBits * N)
            a == (c \div N) % TurtleBits
            i == c % N
            j == (st.j + key[st.k + 1] + st.box[b][(a * b + i) % N]) % N
        IN  [box |-> [st.box EXCEPT ![b] = Swapped(@, i, j)], j |-> j,
             k |-> (st.k + 1) % Len(key)]
  IN  Repeated(Swap, [box |-> [b \in 0..(n - 1) |-> Identity], j |-> Len(key), k |-> 0],
               n * TurtleBits * N).box

hare_key(key) ==
  [sbox |-> [t \in 0..1 |-> keyperm(key, 4)], table |-> 0, r |-> 0, l |-> 0]

\* The word comes out of one set of boxes while the other is changed.
hare_stream(h) ==
  LET Box(i, w) == h.sbox[h.table][i][w]
      r1 == XorByte(h.r, Box(0, h.l))
      l1 == XorByte(h.l, Box(1, r1))
      r2 == XorByte(r1, Box(2, l1))
      l2 == XorByte(l1, Box(3, r2))
      sbox == [h.sbox EXCEPT ![1 - h.table][h.r] = Swapped(@, h.l, r2)]
      r == IF h.l = N - 1 THEN (h.r + 1) % N ELSE h.r
  IN  [out |-> l2,
       hare |-> IF r > 3 THEN [sbox |-> sbox, table |-> 1 - h.table, r |-> 0, l |-> 0]
                ELSE [sbox |-> sbox, table |-> h.table, r |-> r, l |-> (h.l + 1) % N]]

turtle_key(key, n) ==
  LET Swap(st, i) == LET s == hare_stream(st.hare)
                     IN  [hare |-> s.hare, box |-> Swapped(st.box, i, s.out)]
      Box(st, j) == LET x == Repeated(Swap, [hare |-> st.hare, box |-> Identity], N)
                    IN  [hare |-> x.hare, sbox |-> Append(st.sbox, x.box)]
  IN  Repeated(Box, [hare |-> hare_key(key), sbox |-> <<>>], n * n).sbox

\* The two halves change each other, four times.  Each time the next q boxes
\* are used; of one word a single box, as in the basic lookup.
RECURSIVE r_turtle_encrypt(_, _, _)
Changed(x, c, r, sbox) ==
  LET a == 1 + (c % 2)
      q == Len(x[1]) * Len(x[1])
  IN  [x EXCEPT ![3 - a] = XorBytes(@, r_turtle_encrypt(x[a], r + c * q, sbox))]
r_turtle_encrypt(in, r, sbox) ==
  IF Len(in) = 1 THEN <<sbox[r + 1][in[1]]>>
  ELSE Joined(Repeated(LAMBDA x, c : Changed(x, c, r, sbox), Split(in, Len(in) \div 2), 4))

turtle_encrypt(in, sbox) == r_turtle_encrypt(in, 0, sbox)

\* The boxes backwards, in the outermost call only: rr[3] to rr[0].
turtle_decrypt(in, sbox) ==
  Joined(Reversed(LAMBDA x, c : Changed(x, c, 0, sbox), Split(in, Len(in) \div 2), 4))
-----------------------------------------------------------------------------
BlockCipherNames ==
  {"Safer", "StrengthenedSafer", "Feal", "Misty", "Cast", "ShortCast", "MacGuffin", "Turtle"}

KeyExpanded(cipher, key) ==
  LET eight == SubSeq(key, 1, 8) IN
  CASE cipher = "Safer" -> Safer_Expand_Userkey(eight, eight, 8, FALSE)
    [] cipher = "StrengthenedSafer" -> Safer_Expand_Userkey(eight, SubSeq(key, 9, 16), 3, TRUE)
    [] cipher = "Feal" -> F8_SetKey(eight)
    [] cipher = "Misty" -> MSTInit(key)
    [] cipher = "Cast" -> cast_setkey(key)
    [] cipher = "ShortCast" -> cast_setkey(SubSeq(key, 1, 10))
    [] cipher = "MacGuffin" -> MCGKeyset(key)
    [] cipher = "Turtle" -> turtle_key(key, 8)

\* Bytes of more than TurtleBits bits are too long for Turtle's words.
Fitting(cipher, in) ==
  IF cipher = "Turtle" THEN Computed([i \in 1..8 |-> in[i] % N]) ELSE in

Forth(cipher, in, k) ==
  CASE cipher \in {"Safer", "StrengthenedSafer"} -> Safer_Encrypt_Block(in, k)
    [] cipher = "Feal" -> F8_Encrypt(in, k)
    [] cipher = "Misty" -> MSTEncryptD(k, in)
    [] cipher \in {"Cast", "ShortCast"} -> cast_encrypt(in, k)
    [] cipher = "MacGuffin" -> MCGBlockEncrypt0(in, k)
    [] cipher = "Turtle" -> turtle_encrypt(in, k)

Back(cipher, in, k) ==
  CASE cipher \in {"Safer", "StrengthenedSafer"} -> Safer_Decrypt_Block(in, k)
    [] cipher = "Feal" -> F8_Decrypt(in, k)
    [] cipher = "Misty" -> MSTEncryptE(k, in)
    [] cipher \in {"Cast", "ShortCast"} -> cast_decrypt(in, k)
    [] cipher = "MacGuffin" -> MCGBlockEncrypt1(in, k)
    [] cipher = "Turtle" -> turtle_decrypt(in, k)

NoCipherKey == [cipher |-> "none", at |-> "no key"]
BlockInit == block = NoCipherKey

\* The key is expanded, once in most of the functions.
SetCipherKey(cipher, key) ==
  /\ block = NoCipherKey
  /\ block' = [cipher |-> cipher, schedule |-> KeyExpanded(cipher, key), at |-> "home"]

\* A block goes through the cipher one way or the other...
SendBlock(in, forth) ==
  /\ block.at = "home"
  /\ LET plain == Fitting(block.cipher, in)
     IN  block' = [cipher |-> block.cipher, schedule |-> block.schedule, at |-> "away",
                   plain |-> plain, forth |-> forth,
                   now |-> IF forth THEN Forth(block.cipher, plain, block.schedule)
                           ELSE Back(block.cipher, plain, block.schedule)]

\* ...and returns the other.
ReturnBlock ==
  /\ block.at = "away"
  /\ block' = [block EXCEPT
       !.now = IF block.forth THEN Back(block.cipher, @, block.schedule)
               ELSE Forth(block.cipher, @, block.schedule),
       !.at = "back"]

BlockNext ==
  \/ \E cipher \in BlockCipherNames, key \in BlockKeys : SetCipherKey(cipher, key)
  \/ \E in \in PlainBlocks, forth \in BOOLEAN : SendBlock(in, forth)
  \/ ReturnBlock

\* The two functions of algorithms.cpp for a cipher undo each other, whichever
\* comes first: no cipher takes its steps or its subkeys in another order back.
BlocksComeBack ==
  block.at \in {"away", "back"} => (block.now = block.plain <=> block.at = "back")
=============================================================================
