------------------------------ MODULE Rijndael ------------------------------
(***************************************************************************)
(* CRijndael (utils/Rijndael.cpp): the block cipher Rijndael for keys and  *)
(* blocks of 16, 24 and 32 bytes, in ECB, CBC and CFB mode.  One object    *)
(* keeps the round keys of both directions and one chain block, which      *)
(* Encrypt() and Decrypt() share: a caller who wants back what it has      *)
(* encrypted resets the chain in between.                                  *)
(*                                                                         *)
(* The large tables are given by the formula that generates them.          *)
(***************************************************************************)
EXTENDS CipherStandard

CONSTANTS KeyLengths, BlockSizes, \* of the keys and blocks of this instance
          Secret,                 \* bytes for keys: a key is a beginning of it
          FirstChain,             \* bytes for the initial chain block
          Message                 \* the bytes to encrypt

VARIABLES cr,       \* the object; with it the key, for the properties
          stream,   \* what was encrypted since the chain was reset, and how
          back      \* what has been decrypted of it since ResetChain()

rijndaelVars == <<cr, stream, back>>
-----------------------------------------------------------------------------
POLY == 283
sm_S == [b \in Byte |-> SBytes[b + 1]]
sm_Si == [b \in Byte |-> CHOOSE a \in Byte : sm_S[a] = b]
sm_T1 == Multiples(sm_S, <<2, 1, 1, 3>>, POLY)
sm_T2 == Multiples(sm_S, <<3, 2, 1, 1>>, POLY)
sm_T3 == Multiples(sm_S, <<1, 3, 2, 1>>, POLY)
sm_T4 == Multiples(sm_S, <<1, 1, 3, 2>>, POLY)
sm_T5 == Multiples(sm_Si, <<14, 9, 13, 11>>, POLY)
sm_T6 == Multiples(sm_Si, <<11, 14, 9, 13>>, POLY)
sm_T7 == Multiples(sm_Si, <<13, 11, 14, 9>>, POLY)
sm_T8 == Multiples(sm_Si, <<9, 13, 11, 14>>, POLY)
Itself == [b \in Byte |-> b]
sm_U1 == Multiples(Itself, <<14, 9, 13, 11>>, POLY)
sm_U2 == Multiples(Itself, <<11, 14, 9, 13>>, POLY)
sm_U3 == Multiples(Itself, <<13, 11, 14, 9>>, POLY)
sm_U4 == Multiples(Itself, <<9, 13, 11, 14>>, POLY)

\* The powers of 2, the first round's constant first.
RECURSIVE Rcon(_)
Rcon(i) == IF i = 1 THEN 1 ELSE Doubled(Rcon(i - 1), POLY)
sm_rcon == [i \in 1..30 |-> Rcon(i)]

\* How far rows 1 to 3 move when encrypting and when decrypting.
sm_shifts ==
  [bc \in {4, 6, 8} |->
     CASE bc = 4 -> <<<<1, 3>>, <<2, 2>>, <<3, 1>>>>
       [] bc = 6 -> <<<<1, 5>>, <<2, 4>>, <<3, 3>>>>
       [] bc = 8 -> <<<<1, 7>>, <<3, 5>>, <<4, 4>>>>]
-----------------------------------------------------------------------------
Rounds(keylength, blockSize) ==
  CASE keylength = 16 -> IF blockSize = 16 THEN 10
                         ELSE IF blockSize = 24 THEN 12 ELSE 14
    [] keylength = 24 -> IF blockSize # 32 THEN 12 ELSE 14
    [] keylength = 32 -> 14

Substituted(w) == Computed([b \in 1..4 |-> sm_S[w[b]]])
Rotated(w) == <<w[2], w[3], w[4], w[1]>>

PhiOfShortKeys(tk, rcon) ==
  LET KC == Len(tk)
      next[i \in 1..KC] ==
        IF i = 1 THEN XorWords(<<tk[1], Substituted(Rotated(tk[KC])),
                                 <<rcon, 0, 0, 0>>>>)
        ELSE XorBytes(tk[i], next[i - 1])
  IN  Computed(next)

\* The round key evolution function, from KC words to the next KC.
Phi(tk, rcon) ==
  LET KC == Len(tk)
      next[i \in 1..KC] ==
        CASE i = 1 -> XorWords(<<tk[1], Substituted(Rotated(tk[KC])),
                                 <<rcon, 0, 0, 0>>>>)
          [] i = 5 /\ KC = 8 -> XorBytes(tk[5], Substituted(next[4]))
          [] OTHER -> XorBytes(tk[i], next[i - 1])
  IN  Computed(next)

\* At least n words of round keys, the words of tk first.
RECURSIVE Expanded(_, _, _)
Expanded(tk, i, n) ==
  IF n <= 0 THEN <<>>
  ELSE tk \o Expanded(Phi(tk, sm_rcon[i]), i + 1, n - Len(tk))

InverseMixed(w) ==
  XorWords(<<sm_U1[w[1]], sm_U2[w[2]], sm_U3[w[3]], sm_U4[w[4]]>>)

\* The round keys of both directions; the r-th is at r + 1.
RoundKeys(key, blockSize) ==
  LET BC == blockSize \div 4
      R == Rounds(Len(key), blockSize)
      w == Expanded(Split(key, 4), 1, (R + 1) * BC)
      Ke == Split(SubSeq(w, 1, (R + 1) * BC), BC)
      Kd == Computed([r \in 1..(R + 1) |->
               IF r \in {1, R + 1} THEN Ke[R + 2 - r]
               ELSE Computed([j \in 1..BC |-> InverseMixed(Ke[R + 2 - r][j])])])
  IN  [Ke |-> Ke, Kd |-> Kd]
-----------------------------------------------------------------------------
\* One round: t through the tables T, row i + 1 moved by sh[i], and the key k.
RoundTransform(t, T, sh, k) ==
  LET BC == Len(t)
      At(i) == 1 + ((i - 1) % BC)
  IN  Computed([i \in 1..BC |->
         XorWords(<<T[1][t[i][1]], T[2][t[At(i + sh[1])][2]],
                    T[3][t[At(i + sh[2])][3]], T[4][t[At(i + sh[3])][4]],
                    k[i]>>)])

\* The last round has no column mixing: single bytes through the box.
LastRound(t, box, sh, k) ==
  LET BC == Len(t)
      At(i) == 1 + ((i - 1) % BC)
  IN  Computed([i \in 1..BC |->
         XorBytes(<<box[t[i][1]], box[t[At(i + sh[1])][2]],
                    box[t[At(i + sh[2])][3]], box[t[At(i + sh[3])][4]]>>,
                  k[i])])

RECURSIVE RoundsFrom(_, _, _, _, _)
RoundsFrom(t, r, T, sh, K) ==
  IF r = Len(K) THEN t
  ELSE RoundsFrom(RoundTransform(t, T, sh, K[r]), r + 1, T, sh, K)

\* A block through all rounds with the round keys K.
ThroughRounds(in, T, box, sh, K) ==
  LET t == Split(in, 4)
      keyed == [i \in 1..Len(t) |-> XorBytes(t[i], K[1][i])]
  IN  Joined(LastRound(RoundsFrom(keyed, 2, T, sh, K), box, sh, K[Len(K)]))

\* The default block size has unrolled versions of its own.
DefEncryptBlock(Ke, in) ==
  ThroughRounds(in, <<sm_T1, sm_T2, sm_T3, sm_T4>>, sm_S, <<1, 2, 3>>, Ke)
DefDecryptBlock(Kd, in) ==
  ThroughRounds(in, <<sm_T5, sm_T6, sm_T7, sm_T8>>, sm_Si, <<3, 2, 1>>, Kd)

EncryptBlock(Ke, in) ==
  IF Len(in) = 16 THEN DefEncryptBlock(Ke, in)
  ELSE LET s == sm_shifts[Len(in) \div 4]
       IN  ThroughRounds(in, <<sm_T1, sm_T2, sm_T3, sm_T4>>, sm_S,
                         <<s[1][1], s[2][1], s[3][1]>>, Ke)
DecryptBlock(Kd, in) ==
  IF Len(in) = 16 THEN DefDecryptBlock(Kd, in)
  ELSE LET s == sm_shifts[Len(in) \div 4]
       IN  ThroughRounds(in, <<sm_T5, sm_T6, sm_T7, sm_T8>>, sm_Si,
                         <<s[1][2], s[2][2], s[3][2]>>, Kd)
-----------------------------------------------------------------------------
\* Whole blocks in a mode: what comes out and the chain block that is left.
RECURSIVE Encrypted(_, _, _, _)
Encrypted(mode, Ke, chain, blocks) ==
  IF blocks = <<>> THEN [out |-> <<>>, chain |-> chain]
  ELSE LET in == Head(blocks)
           out == CASE mode = "CBC" -> EncryptBlock(Ke, XorBytes(chain, in))
                    [] mode = "CFB" -> XorBytes(EncryptBlock(Ke, chain), in)
                    [] mode = "ECB" -> EncryptBlock(Ke, in)
           rest == Encrypted(mode, Ke, IF mode = "ECB" THEN chain ELSE out,
                             Tail(blocks))
       IN  [rest EXCEPT !.out = out \o @]

RECURSIVE Decrypted(_, _, _, _)
Decrypted(mode, o, chain, blocks) ==
  IF blocks = <<>> THEN [out |-> <<>>, chain |-> chain]
  ELSE LET in == Head(blocks)
           out == CASE mode = "CBC" -> XorBytes(DecryptBlock(o.Kd, in), chain)
                    [] mode = "CFB" -> XorBytes(EncryptBlock(o.Ke, chain), in)
                    [] mode = "ECB" -> DecryptBlock(o.Kd, in)
           rest == Decrypted(mode, o, IF mode = "ECB" THEN chain ELSE in,
                             Tail(blocks))
       IN  [rest EXCEPT !.out = out \o @]
-----------------------------------------------------------------------------
Modes == {"ECB", "CBC", "CFB"}
NoKey == [m_bKeyInit |-> FALSE]
NotReset == [reset |-> FALSE, bytes |-> <<>>]
NoStream == [mode |-> "none", plain |-> <<>>, cipher |-> <<>>]

RijndaelInit == cr = NoKey /\ stream = NoStream /\ back = NotReset

\* MakeKey() at any time forgets the chain of the key before.
MakeKey(keylength, blockSize) ==
  LET key == SubSeq(Secret, 1, keylength)
      chain == SubSeq(FirstChain, 1, blockSize)
  IN  /\ keylength \in {16, 24, 32} /\ blockSize \in {16, 24, 32}
      /\ cr' = [m_bKeyInit |-> TRUE, key |-> key, m_blockSize |-> blockSize,
                keys |-> RoundKeys(key, blockSize),
                m_chain0 |-> chain, m_chain |-> chain]
      /\ stream' = NoStream
      /\ back' = NotReset

\* The next n blocks of the message.
NextBlocks(n) ==
  SubSeq(Split(Message, cr.m_blockSize),
         Len(stream.plain) \div cr.m_blockSize + 1,
         Len(stream.plain) \div cr.m_blockSize + n)

\* Encrypt() throws, and changes nothing, before MakeKey() and for a part of
\* a block.
Encrypt(mode, n) ==
  /\ cr.m_bKeyInit /\ ~back.reset
  /\ stream.mode \in {"none", mode}
  /\ Len(stream.plain) + n * cr.m_blockSize <= Len(Message)
  /\ LET new == NextBlocks(n)
         e == Encrypted(mode, cr.keys.Ke, cr.m_chain, new)
     IN  /\ cr' = [cr EXCEPT !.m_chain = e.chain]
         /\ stream' = [mode |-> mode, plain |-> stream.plain \o Joined(new),
                       cipher |-> stream.cipher \o e.out]
  /\ UNCHANGED back

ResetChainForgotten ==
  /\ cr.m_bKeyInit
  /\ ~back.reset /\ stream # NoStream
  /\ back' = [back EXCEPT !.reset = TRUE]
  /\ UNCHANGED <<cr, stream>>

ResetChain ==
  /\ cr.m_bKeyInit
  /\ ~back.reset /\ stream # NoStream
  /\ cr' = [cr EXCEPT !.m_chain = cr.m_chain0]
  /\ back' = [back EXCEPT !.reset = TRUE]
  /\ UNCHANGED stream

\* The next n blocks of what was encrypted, however they were cut then.
Decrypt(n) ==
  /\ cr.m_bKeyInit /\ back.reset
  /\ Len(back.bytes) + n * cr.m_blockSize <= Len(stream.cipher)
  /\ LET in == SubSeq(stream.cipher, Len(back.bytes) + 1,
                      Len(back.bytes) + n * cr.m_blockSize)
         d == Decrypted(stream.mode, [Ke |-> cr.keys.Ke, Kd |-> cr.keys.Kd],
                        cr.m_chain, Split(in, cr.m_blockSize))
     IN  /\ cr' = [cr EXCEPT !.m_chain = d.chain]
         /\ back' = [back EXCEPT !.bytes = @ \o d.out]
  /\ UNCHANGED stream

RijndaelNext ==
  \/ \E k \in KeyLengths, b \in BlockSizes : MakeKey(k, b)
  \/ \E mode \in Modes, n \in {1, 2} : Encrypt(mode, n)
  \/ ResetChain
  \/ \E n \in {1, 2} : Decrypt(n)
-----------------------------------------------------------------------------
\* What Encrypt() returned, call by call, is what the standard says of the
\* whole message: the tables, the key schedule and the chain that goes on from
\* one call to the next are right for every size of key and block.
StreamIsStandard ==
  stream.plain # <<>> =>
    stream.cipher = StandardStream(stream.mode, cr.key, cr.m_chain0,
                                   Split(stream.plain, cr.m_blockSize))

\* After ResetChain() the same object gives back the message, even if Decrypt()
\* is called with other lengths than Encrypt() was.
StreamComesBack ==
  back.bytes = SubSeq(stream.plain, 1, Len(back.bytes))
=============================================================================
