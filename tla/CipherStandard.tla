--------------------------- MODULE CipherStandard ---------------------------
(***************************************************************************)
(* Rijndael as its authors specify it, byte by byte and without tables:    *)
(* what both implementations have to compute.  Blocks of 4, 6 and 8 words, *)
(* keys of 4, 6 and 8 words.                                               *)
(***************************************************************************)
EXTENDS Bytes

LOCAL Poly == 283
LOCAL RotatedLeft(b, n) == ((b * 2^n) % 256) + ((b * 2^n) \div 256)
LOCAL InverseOf ==
  [b \in Byte |-> IF b = 0 THEN 0 ELSE CHOOSE c \in Byte : Times(b, c, Poly) = 1]
LOCAL Affine(v) ==
  XorWords([n \in 1..6 |-> <<IF n = 6 THEN 99 ELSE RotatedLeft(v, n - 1)>>])[1]
LOCAL SBox == [b \in Byte |-> Affine(InverseOf[b])]
LOCAL Doubles == [b \in Byte |-> Doubled(b, Poly)]
LOCAL Triples == [b \in Byte |-> XorByte(Doubles[b], b)]

LOCAL Smaller(a, b) == IF a < b THEN a ELSE b
LOCAL Larger(a, b) == IF a < b THEN b ELSE a
NumberOfRounds(Nk, Nb) == 6 + Larger(Nk, Nb)

LOCAL SubWord(w) == Computed([b \in 1..4 |-> SBox[w[b]]])
RECURSIVE RoundConstant(_)
RoundConstant(i) == IF i = 1 THEN 1 ELSE Doubles[RoundConstant(i - 1)]

\* The words of the key schedule, Nk at a time: n of them and what fills the last Nk.
LOCAL KeyWord(W, i, Nk) ==
  CASE i % Nk = 0 -> XorBytes(SubWord(<<W[i][2], W[i][3], W[i][4], W[i][1]>>),
                              <<RoundConstant(i \div Nk), 0, 0, 0>>)
    [] Nk > 6 /\ i % Nk = 4 -> SubWord(W[i])
    [] OTHER -> W[i]
KeySchedule(key, Nk, n) ==
  LET Longer(W, j) == Append(W, XorBytes(W[Len(W) - Nk + 1], KeyWord(W, Len(W), Nk)))
  IN  Repeated(LAMBDA W, group : Repeated(Longer, W, Nk), key, (n - 1) \div Nk)

LOCAL Shift(row, Nb) == IF Nb = 8 /\ row >= 2 THEN row + 1 ELSE row

\* A state is the sequence of its columns.
LOCAL SubAndShift(s) ==
  LET Nb == Len(s)
  IN  Computed([c \in 1..Nb |-> Computed([r \in 1..4 |->
         SBox[s[1 + ((c - 1 + Shift(r - 1, Nb)) % Nb)][r]]])])
LOCAL MixColumn(a) ==
  Computed([r \in 1..4 |->
     LET At(i) == a[1 + ((r - 1 + i) % 4)]
     IN  XorByte(XorByte(XorByte(Doubles[At(0)], Triples[At(1)]), At(2)), At(3))])
LOCAL AddRoundKey(s, W, round) ==
  Computed([c \in 1..Len(s) |-> XorBytes(s[c], W[round * Len(s) + c])])

LOCAL StandardRound(s, W, round, n) ==
  LET t == SubAndShift(s)
  IN  AddRoundKey(IF round = n THEN t
                  ELSE Computed([c \in 1..Len(t) |-> MixColumn(t[c])]), W, round)

\* One block, of 16, 24 or 32 bytes, encrypted with the key.
StandardBlock(key, in) ==
  LET Nk == Len(key) \div 4
      Nb == Len(in) \div 4
      n == NumberOfRounds(Nk, Nb)
      W == KeySchedule(Split(key, 4), Nk, Nb * (n + 1))
  IN  Joined(Repeated(LAMBDA s, i : StandardRound(s, W, i + 1, n),
                      AddRoundKey(Split(in, 4), W, 0), n))

\* Whole blocks in a mode of operation, from the initial block chain.
LOCAL StandardOne(mode, key, chain, in) ==
  CASE mode = "ECB" -> StandardBlock(key, in)
    [] mode = "CBC" -> StandardBlock(key, XorBytes(in, chain))
    [] mode = "CFB" -> XorBytes(StandardBlock(key, chain), in)
StandardStream(mode, key, chain, blocks) ==
  LET Latest(done) == SubSeq(done, Len(done) - Len(chain) + 1, Len(done))
      With(done, in) == done \o StandardOne(mode, key, Latest(done), in)
      all == FoldLeft(With, chain, blocks)
  IN  SubSeq(all, Len(chain) + 1, Len(all))
=============================================================================
