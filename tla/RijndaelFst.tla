----------------------------- MODULE RijndaelFst -----------------------------
(***************************************************************************)
(* The second implementation of Rijndael, for blocks of 16 bytes:          *)
(* utils/rijndael-alg-fst.c and, on top of it, rijndael-api-fst.c with its *)
(* key and cipher instances, three modes and padding.  aes-cfb.c is its    *)
(* only caller in the program (module AesCfb).  Code under FULL_UNROLL     *)
(* does the same rounds; INTERMEDIATE_VALUE_KAT is not defined.            *)
(***************************************************************************)
EXTENDS CipherStandard

CONSTANTS KeyBits,   \* the key lengths of this instance, in bits
          FstSecret, \* bytes for keys: a key is a beginning of it
          FirstIV,   \* 16 bytes
          FstText,   \* the bytes to encrypt
          Bits,      \* lengths of texts for blockEncrypt(), in bits
          Octets     \* lengths of texts for padEncrypt(), in bytes

VARIABLES enc, dec,  \* the two key instances, as AES_SetKey() makes them
          cipher,    \* the cipher instance
          sent,      \* what was encrypted last, and how
          got        \* what has been decrypted of it, and how that went

fstVars == <<enc, dec, cipher, sent, got>>
-----------------------------------------------------------------------------
FstPoly == 283
Box == [b \in Byte |-> SBytes[b + 1]]
Unbox == [b \in Byte |-> CHOOSE a \in Byte : Box[a] = b]
Te0 == Multiples(Box, <<2, 1, 1, 3>>, FstPoly)
Te1 == Multiples(Box, <<3, 2, 1, 1>>, FstPoly)
Te2 == Multiples(Box, <<1, 3, 2, 1>>, FstPoly)
Te3 == Multiples(Box, <<1, 1, 3, 2>>, FstPoly)
Te4 == Multiples(Box, <<1, 1, 1, 1>>, FstPoly)
Td0 == Multiples(Unbox, <<14, 9, 13, 11>>, FstPoly)
Td1 == Multiples(Unbox, <<11, 14, 9, 13>>, FstPoly)
Td2 == Multiples(Unbox, <<13, 11, 14, 9>>, FstPoly)
Td3 == Multiples(Unbox, <<9, 13, 11, 14>>, FstPoly)
Td4 == Multiples(Unbox, <<1, 1, 1, 1>>, FstPoly)
rcon == <<1, 2, 4, 8, 16, 32, 64, 128, 27, 54>>

\* Byte i of Te4[w[i]], for each byte: S-box values under the masks.
Masked(table, w) ==
  <<table[w[1]][1], table[w[2]][2], table[w[3]][3], table[w[4]][4]>>

Nr(keyBits) == 6 + keyBits \div 32

\* The schedule rk goes on word by word, from KC words of key to n.
RECURSIVE ScheduleFrom(_, _, _)
ScheduleFrom(rk, KC, n) ==
  IF Len(rk) = n THEN rk
  ELSE LET i == Len(rk)
           temp == rk[i]
           mixed ==
             CASE i % KC = 0 ->
                    XorBytes(Masked(Te4, <<temp[2], temp[3], temp[4], temp[1]>>),
                             <<rcon[i \div KC], 0, 0, 0>>)
               [] KC = 8 /\ i % 8 = 4 -> Masked(Te4, temp)
               [] OTHER -> temp
       IN  ScheduleFrom(Append(rk, XorBytes(rk[i - KC + 1], mixed)), KC, n)

rijndaelKeySetupEnc(key) ==
  ScheduleFrom(Split(key, 4), Len(key) \div 4, 4 * (Nr(8 * Len(key)) + 1))

\* The round keys in reverse order; the inner ones without column mixing.
rijndaelKeySetupDec(key) ==
  LET K == Split(rijndaelKeySetupEnc(key), 4)
      R == Len(K)
      Unmixed(w) == XorWords(<<Td0[Te4[w[1]][4]], Td1[Te4[w[2]][4]],
                               Td2[Te4[w[3]][4]], Td3[Te4[w[4]][4]]>>)
  IN  Joined([r \in 1..R |->
               IF r \in {1, R} THEN K[R + 1 - r]
               ELSE Computed([j \in 1..4 |-> Unmixed(K[R + 1 - r][j])])])

\* One round for the columns s: row i comes from i columns further on, and the
\* other way round for decryption (d = 1 and d = 3).
FstRound(s, T, d, k) ==
  LET At(c, i) == 1 + ((c - 1 + d * i) % 4)
  IN  Computed([c \in 1..4 |->
         XorBytes(XorFour(T[1][s[c][1]], T[2][s[At(c, 1)][2]],
                          T[3][s[At(c, 2)][3]], T[4][s[At(c, 3)][4]]), k[c])])

RECURSIVE FstRounds(_, _, _, _, _)
FstRounds(s, r, T, d, K) ==
  IF r = Len(K) THEN s ELSE FstRounds(FstRound(s, T, d, K[r]), r + 1, T, d, K)

FstLastRound(s, table, d, k) ==
  LET At(c, i) == 1 + ((c - 1 + d * i) % 4)
  IN  Joined([c \in 1..4 |->
         XorBytes(Masked(table, <<s[c][1], s[At(c, 1)][2], s[At(c, 2)][3],
                                  s[At(c, 3)][4]>>), k[c])])

FstKeyed(in, k) ==
  LET s == Split(in, 4) IN Computed([c \in 1..4 |-> XorBytes(s[c], k[c])])

rijndaelEncrypt(rk, pt) ==
  LET K == Split(rk, 4)
  IN  FstLastRound(FstRounds(FstKeyed(pt, K[1]), 2, <<Te0, Te1, Te2, Te3>>, 1, K),
                   Te4, 1, K[Len(K)])
rijndaelDecrypt(rk, ct) ==
  LET K == Split(rk, 4)
  IN  FstLastRound(FstRounds(FstKeyed(ct, K[1]), 2, <<Td0, Td1, Td2, Td3>>, 3, K),
                   Td4, 3, K[Len(K)])
-----------------------------------------------------------------------------
\* Hexadecimal digits: what AES_SetKey() writes and makeKey() reads.
hex(v) == IF v < 10 THEN 48 + v ELSE 97 + v - 10
str_to_hex(bytes) ==
  Joined([i \in 1..Len(bytes) |-> <<hex(bytes[i] \div 16), hex(bytes[i] % 16)>>])
HexValue(t) ==
  CASE t \in 48..57 -> t - 48
    [] t \in 97..102 -> t - 97 + 10
    [] t \in 65..70 -> t - 65 + 10
    [] OTHER -> -1
BytesOfHex(chars) ==
  Computed([i \in 1..(Len(chars) \div 2) |->
     16 * HexValue(chars[2 * i - 1]) + HexValue(chars[2 * i])])
AllHex(chars) == \A i \in 1..Len(chars) : HexValue(chars[i]) # -1

\* makeKey() for a direction, a permitted length and material of that length:
\* direction and length are stored before the digits are looked at.
MadeKey(key, direction, keyLen, chars) ==
  LET named == [key EXCEPT !.direction = direction, !.keyLen = keyLen]
      bytes == BytesOfHex(chars)
  IN  IF ~AllHex(chars) THEN [ret |-> "BAD_KEY_MAT", key |-> named]
      ELSE [ret |-> "TRUE",
            key |-> [named EXCEPT
                       !.rk = IF direction = "encrypt"
                              THEN rijndaelKeySetupEnc(bytes)
                              ELSE rijndaelKeySetupDec(bytes),
                       !.ek = rijndaelKeySetupEnc(bytes)]]

\* Mode 1-bit CFB: the register iv moves by one bit of cipher text per bit.
TopBit(b) == b \div 128
BitAt(bytes, k) == (bytes[1 + k \div 8] \div 2^(7 - (k % 8))) % 2
ShiftedIn(iv, bit) ==
  Computed([t \in 1..16 |->
     ((2 * iv[t]) % 256) + (IF t < 16 THEN TopBit(iv[t + 1]) ELSE bit)])
FlippedAt(bytes, k) ==
  [bytes EXCEPT ![1 + k \div 8] = XorByte(@, 2^(7 - (k % 8)))]

\* A block, bit by bit; in bytes of eight bits, so that TLC's stack is deep enough.
BitByBit(ek, iv, in, encrypting) ==
  LET Bit(x, k) ==
        LET block == rijndaelEncrypt(ek, x.iv)
            out == IF TopBit(block[1]) = 1 THEN FlippedAt(x.out, k) ELSE x.out
        IN  [out |-> out, iv |-> ShiftedIn(x.iv, BitAt(IF encrypting THEN out ELSE in, k))]
  IN  Repeated(LAMBDA x, byte : Repeated(LAMBDA y, k : Bit(y, 8 * byte + k), x, 8),
               [out |-> in, iv |-> iv], 16)

\* One block each way, and the block chained to the next one.
OneEncrypted(mode, key, iv, in) ==
  CASE mode = "ECB" -> [out |-> rijndaelEncrypt(key.rk, in), iv |-> iv]
    [] mode = "CBC" -> LET out == rijndaelEncrypt(key.rk, XorBytes(in, iv))
                       IN  [out |-> out, iv |-> out]
    [] mode = "CFB1" -> BitByBit(key.ek, iv, in, TRUE)
OneDecrypted(mode, key, iv, in) ==
  CASE mode = "ECB" -> [out |-> rijndaelDecrypt(key.rk, in), iv |-> iv]
    [] mode = "CBC" -> [out |-> XorBytes(rijndaelDecrypt(key.rk, in), iv), iv |-> in]
    [] mode = "CFB1" -> BitByBit(key.ek, iv, in, FALSE)

\* Whole blocks with blockEncrypt() and blockDecrypt(): what comes out of them,
\* and the block chained to the next one.
BlocksThrough(One(_, _), iv, blocks) ==
  FoldLeft(LAMBDA done, in : LET one == One(done.iv, in)
                             IN  [out |-> done.out \o one.out, iv |-> one.iv],
           [out |-> <<>>, iv |-> iv], blocks)
EncryptedBlocks(mode, key, iv, blocks) ==
  BlocksThrough(LAMBDA c, in : OneEncrypted(mode, key, c, in), iv, blocks)
DecryptedBlocks(mode, key, iv, blocks) ==
  BlocksThrough(LAMBDA c, in : OneDecrypted(mode, key, c, in), iv, blocks)
-----------------------------------------------------------------------------
Unset == [direction |-> "none", keyLen |-> 0, rk |-> <<>>, ek |-> <<>>]
Nothing == [how |-> "none", mode |-> "none", plain |-> <<>>, cipher |-> <<>>]

\* AES_Create() sets the cipher up in ECB mode with an IV of zeros.
Zeros == Computed([i \in 1..16 |-> 0])
FstInit ==
  /\ enc = Unset /\ dec = Unset
  /\ cipher = [mode |-> "ECB", IV |-> Zeros]
  /\ sent = Nothing /\ got = [state |-> "none", bytes |-> <<>>]

\* AES_SetKey(): both instances from the same bytes, by way of their digits.
SetKey(bits) ==
  LET chars == str_to_hex(SubSeq(FstSecret, 1, bits \div 8))
  IN  /\ sent = Nothing
      /\ enc' = MadeKey(enc, "encrypt", bits, chars).key
      /\ dec' = MadeKey(dec, "decrypt", bits, chars).key
      /\ UNCHANGED <<cipher, sent, got>>

\* cipherInit() for the text to encrypt, and again for what is to be decrypted.
cipherInit(mode) ==
  /\ \/ sent = Nothing /\ UNCHANGED got
     \/ /\ sent # Nothing /\ sent.mode = mode /\ got.state = "none"
        /\ got' = [got EXCEPT !.state = "reading"]
  /\ cipher' = [mode |-> mode, IV |-> FirstIV]
  /\ UNCHANGED <<enc, dec, sent>>

\* blockEncrypt() of so many bits: what does not fill a block is not encrypted.
\* In CBC mode the IV of the instance stays as it was.
blockEncrypt(inputLen) ==
  LET n == inputLen \div 128
      text == SubSeq(FstText, 1, 16 * n)
      e == EncryptedBlocks(cipher.mode, enc, cipher.IV, Split(text, 16))
  IN  /\ enc.direction = "encrypt" /\ inputLen > 0 /\ sent = Nothing
      /\ sent' = [how |-> "blocks", mode |-> cipher.mode, plain |-> text,
                  cipher |-> e.out]
      /\ cipher' = IF cipher.mode = "CFB1" THEN [cipher EXCEPT !.IV = e.iv]
                   ELSE cipher
      /\ UNCHANGED <<enc, dec, got>>

\* blockDecrypt() of the next n blocks; it keeps the IV in step in CBC mode too.
blockDecrypt(n) ==
  LET in == SubSeq(sent.cipher, Len(got.bytes) + 1, Len(got.bytes) + 16 * n)
      d == DecryptedBlocks(cipher.mode, dec, cipher.IV, Split(in, 16))
  IN  /\ dec.direction = "decrypt" /\ sent.how = "blocks"
      /\ got.state = "reading" /\ Len(got.bytes) + 16 * n <= Len(sent.cipher)
      /\ got' = [got EXCEPT !.bytes = @ \o d.out]
      /\ cipher' = [cipher EXCEPT !.IV = d.iv]
      /\ UNCHANGED <<enc, dec, sent>>

\* Padding of 1 to 16 bytes, each of which says how many.
Padded(text) ==
  LET padLen == 16 - (Len(text) % 16)
  IN  text \o Computed([i \in 1..padLen |-> padLen])

\* padEncrypt(): the IV of the instance stays as it was.
padEncrypt(octets) ==
  LET text == SubSeq(FstText, 1, octets)
      e == EncryptedBlocks(cipher.mode, enc, cipher.IV, Split(Padded(text), 16))
  IN  /\ enc.direction = "encrypt" /\ octets > 0 /\ sent = Nothing
      /\ cipher.mode \in {"ECB", "CBC"}
      /\ sent' = [how |-> "padded", mode |-> cipher.mode, plain |-> text,
                  cipher |-> e.out]
      /\ UNCHANGED <<enc, dec, cipher, got>>

\* The padding of the last block: both modes look at it in their own way.
Refused(mode, block) ==
  LET padLen == block[16]
  IN  \/ mode = "ECB" /\ padLen >= 16
      \/ mode = "CBC" /\ (padLen <= 0 \/ padLen > 16)
      \/ \E i \in (17 - padLen)..16 : block[i] # padLen

\* What padDecrypt() makes of the decrypted blocks.
Unpadded(mode, out) ==
  LET last == SubSeq(out, Len(out) - 15, Len(out))
  IN  IF Refused(mode, last) THEN [state |-> "BAD_DATA", bytes |-> <<>>]
      ELSE [state |-> "done", bytes |-> SubSeq(out, 1, Len(out) - last[16])]

\* padDecrypt() of everything.  It leaves the IV at the last block but one.
padDecrypt ==
  LET blocks == Split(sent.cipher, 16)
      Of(some) == DecryptedBlocks(cipher.mode, dec, cipher.IV, some)
  IN  /\ dec.direction = "decrypt" /\ sent.how = "padded"
      /\ got.state = "reading"
      /\ got' = Unpadded(cipher.mode, Of(blocks).out)
      /\ cipher' = [cipher EXCEPT !.IV = Of(Front(blocks)).iv]
      /\ UNCHANGED <<enc, dec, sent>>

FstNext ==
  \/ \E bits \in KeyBits : SetKey(bits)
  \/ \E mode \in {"ECB", "CBC", "CFB1"} : cipherInit(mode)
  \/ \E len \in Bits : blockEncrypt(len)
  \/ \E n \in {1, 2} : blockDecrypt(n)
  \/ \E octets \in Octets : padEncrypt(octets)
  \/ padDecrypt
-----------------------------------------------------------------------------
\* What was encrypted is what the standard says, with the padding if there is
\* any: tables, key schedules and chaining agree with the specification.
SentIsStandard ==
  sent.mode \in {"ECB", "CBC"} =>
    sent.cipher =
      StandardStream(sent.mode, SubSeq(FstSecret, 1, enc.keyLen \div 8),
                     FirstIV,
                     Split(IF sent.how = "padded" THEN Padded(sent.plain)
                           ELSE sent.plain, 16))

\* A text encrypted in one call comes back, whatever pieces it is decrypted in
\* and however long the padding was.
PaddedTextComesBack ==
  /\ got.state # "BAD_DATA"
  /\ got.bytes = SubSeq(sent.plain, 1, Len(got.bytes))
  /\ got.state = "done" => got.bytes = sent.plain

\* The same, except for what padDecrypt() refuses: in ECB mode it does not take
\* the full block of padding that padEncrypt() adds to whole blocks.
TextComesBack ==
  \/ PaddedTextComesBack
  \/ got.state = "BAD_DATA" /\ sent.mode = "ECB" /\ Len(sent.plain) % 16 = 0
=============================================================================
